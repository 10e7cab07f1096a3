--------------------------- MODULE RecoveryCopies ---------------------------
(***************************************************************************)
(* The copies of the workspace an operator restores from: the daily core    *)
(* backup (core_workspace_backup.py: latest/ and one snapshot a day, under  *)
(* a lock) and the monthly asset snapshot (backup_workspace_assets.py: one  *)
(* directory a day and the pointer latest.json, without a lock), each as    *)
(* the list of commands run_managed_component.py gives to its role.         *)
(* A tree is the version of the workspace it holds: trees are verified      *)
(* against the hashes taken when that version was inventoried.              *)
(***************************************************************************)
EXTENDS Naturals, FiniteSets

CONSTANTS Procs,          \* the processes cron may have running at once
          NoTree, None,
          MaxDay, MaxVersion, MaxFaults, MaxOver     \* bounds

ASSUME CopiesAssumption == /\ {MaxVersion, MaxFaults, MaxOver} \subseteq Nat /\ MaxDay \in Nat \ {0}
                           /\ NoTree \notin Nat /\ None \notin Procs

VARIABLES source,         \* the version of the workspace
          day, latest,    \* the local date; the tree at latest/
          snapshots,      \* kind -> day -> tree
          pointer,        \* the snapshot latest.json names, 0 for none
          tested,         \* asset snapshots a restore canary passed on
          coreLock,       \* the process that holds .core-backup.lock
          proc,           \* the processes
          faults

disk == <<latest, snapshots, pointer, tested>>
outside == <<source, day>>
copiesVars == <<outside, disk, coreLock, proc, faults>>

Tree == 0 .. MaxVersion
Day == 1 .. MaxDay
Published(kind) == {d \in Day : snapshots[kind][d] # NoTree}
Idle == [role |-> "none", pc |-> "idle", day |-> 0, ver |-> NoTree, kept |-> NoTree, saw |-> FALSE, exit |-> "none"]
At(p, role, pc) == proc[p].role = role /\ proc[p].pc = pc

CopiesType ==
  /\ source \in Tree /\ day \in Day /\ latest \in Tree \cup {NoTree}
  /\ snapshots \in [{"core", "assets"} -> [Day -> Tree \cup {NoTree}]]
  /\ pointer \in 0 .. MaxDay /\ tested \subseteq Day
  /\ coreLock \in Procs \cup {None}
  /\ \A p \in Procs : proc[p].day \in 0 .. day /\ {proc[p].ver, proc[p].kept} \subseteq Tree \cup {NoTree}
  /\ faults \in 0 .. MaxFaults

CopiesInit ==
  /\ source = 0 /\ day = 1 /\ latest = NoTree /\ pointer = 0 /\ tested = {}
  /\ snapshots = [k \in {"core", "assets"} |-> [d \in Day |-> NoTree]]
  /\ coreLock = None /\ proc = [p \in Procs |-> Idle] /\ faults = 0

Edit == source < MaxVersion /\ source' = source + 1
        /\ UNCHANGED <<day, disk, coreLock, proc, faults>>
(* Cron's time limits are at most two hours (owned-cron.v1.json): no run    *)
(* lasts over two midnights.  Bound: MaxOver runs last over one.            *)
NextDay == /\ day < MaxDay /\ day' = day + 1
           /\ \A p \in Procs : proc[p] # Idle => proc[p].day = day
           /\ Cardinality({p \in Procs : proc[p] # Idle}) <= MaxOver
           /\ UNCHANGED <<source, disk, coreLock, proc, faults>>
-----------------------------------------------------------------------------
Goto(p, pc) == proc' = [proc EXCEPT ![p].pc = pc]
Ended(p, code) == [Idle EXCEPT !.role = proc[p].role, !.day = proc[p].day, !.pc = "ended", !.exit = code]
Exit(p, code) == proc' = [proc EXCEPT ![p] = Ended(p, code)]
Unlocked(p) == IF coreLock = p THEN None ELSE coreLock
Quiet == UNCHANGED <<outside, faults>>

\* defect: a lock that is held is waited for by nobody and taken by all.
MayLockAlways(p) == TRUE
MayLock(p) == coreLock = None

(* core_backup_lock: non-blocking; a busy lock is an error, not a skip. *)
CoreLock(p) ==
  /\ At(p, "core", "begin")
  /\ \/ MayLock(p) /\ coreLock' = p /\ Goto(p, "collect")
     \/ ~MayLock(p) /\ Exit(p, "error") /\ UNCHANGED coreLock
  /\ Quiet /\ UNCHANGED disk
CoreCollect(p) ==
  /\ At(p, "core", "collect")
  /\ proc' = [proc EXCEPT ![p].pc = "build", ![p].ver = source]
  /\ Quiet /\ UNCHANGED <<disk, coreLock>>

WithSnapshot(kind, d, tree) == IF d \in Published(kind) THEN snapshots ELSE [snapshots EXCEPT ![kind][d] = tree]
(* build_tree and the snapshot: a file that changed since its inventory     *)
(* makes the copy fail; one that changes after it was copied does not.      *)
CoreSnapshot(p) ==
  /\ At(p, "core", "build")
  /\ \/ /\ snapshots' = WithSnapshot("core", proc[p].day, proc[p].ver)
        /\ Goto(p, "aside") /\ UNCHANGED coreLock
     \/ source # proc[p].ver /\ Exit(p, "error") /\ coreLock' = Unlocked(p) /\ UNCHANGED snapshots
  /\ Quiet /\ UNCHANGED <<latest, pointer, tested>>
(* replace_latest, its two renames. *)
CoreAside(p) ==
  /\ At(p, "core", "aside") /\ latest' = NoTree
  /\ proc' = [proc EXCEPT ![p].pc = "place", ![p].kept = latest]
  /\ Quiet /\ UNCHANGED <<snapshots, pointer, tested, coreLock>>
CorePlace(p) ==
  /\ At(p, "core", "place") /\ latest' = proc[p].ver /\ coreLock' = Unlocked(p)
  /\ proc' = [proc EXCEPT ![p] = [Idle EXCEPT !.role = "core", !.day = proc[p].day, !.pc = "verify"]]
  /\ Quiet /\ UNCHANGED <<snapshots, pointer, tested>>
(* The four commands that follow run without the lock. *)
CoreVerify(p) ==
  /\ At(p, "core", "verify")
  /\ Exit(p, IF latest # NoTree /\ proc[p].day \in Published("core") THEN "ok" ELSE "error")
  /\ Quiet /\ UNCHANGED <<disk, coreLock>>
-----------------------------------------------------------------------------
AssetsCopy(p) ==
  /\ At(p, "assets", "begin")
  /\ proc' = [proc EXCEPT ![p].ver = source,
                          ![p].pc = IF proc[p].day \in Published("assets") THEN "verify" ELSE "publish"]
  /\ Quiet /\ UNCHANGED <<disk, coreLock>>
\* defect: the pointer moves before the restore canary.
AfterPublishPoint == "point"
AfterPublish == "canary"
(* os.replace of a directory onto another one fails. *)
AssetsPublish(p) ==
  /\ At(p, "assets", "publish")
  /\ IF proc[p].day \in Published("assets") THEN Exit(p, "error") ELSE Goto(p, AfterPublish)
  /\ snapshots' = WithSnapshot("assets", proc[p].day, proc[p].ver)
  /\ Quiet /\ UNCHANGED <<latest, pointer, tested, coreLock>>

Canary(p, next) == tested' = tested \cup {proc[p].day} /\ next
AssetsCanary(p) ==
  /\ At(p, "assets", "canary") /\ Canary(p, Goto(p, "point"))
  /\ Quiet /\ UNCHANGED <<latest, snapshots, pointer, coreLock>>
AssetsPoint(p) ==
  /\ At(p, "assets", "point") /\ pointer' = proc[p].day
  /\ proc' = [proc EXCEPT ![p].pc = "verify", ![p].ver = NoTree]
  /\ Quiet /\ UNCHANGED <<latest, snapshots, tested, coreLock>>
(* verify and restore-canary, by --skip-existing and by the runner: both    *)
(* leave latest.json as it is.                                              *)
AssetsVerify(p) ==
  /\ At(p, "assets", "verify") /\ Canary(p, Exit(p, "ok"))
  /\ Quiet /\ UNCHANGED <<latest, snapshots, pointer, coreLock>>
-----------------------------------------------------------------------------
Working(p) == proc[p].pc \notin {"idle", "ended"}
\* defect: what was set aside is not put back.
RestoredLost(p) == latest
Restored(p) == IF At(p, "core", "place") THEN proc[p].kept ELSE latest
StepFails(p) ==
  /\ Working(p) /\ faults < MaxFaults /\ faults' = faults + 1
  /\ Exit(p, "error") /\ coreLock' = Unlocked(p) /\ latest' = Restored(p)
  /\ UNCHANGED <<outside, snapshots, pointer, tested>>
(* A kill, by cron's time limit or a reboot: no handler runs, flock is      *)
(* released, what the process wrote stays.  (Before its first step it is a  *)
(* missed start.)                                                           *)
Killed(p) ==
  /\ proc[p].pc \notin {"idle", "begin"} /\ faults < MaxFaults /\ faults' = faults + 1
  /\ proc' = [proc EXCEPT ![p] = Idle] /\ coreLock' = Unlocked(p)
  /\ UNCHANGED <<outside, disk>>

CopyStep(p) ==
  \/ CoreLock(p) \/ CoreCollect(p) \/ CoreSnapshot(p)
  \/ CoreAside(p) \/ CorePlace(p) \/ CoreVerify(p)
  \/ AssetsCopy(p) \/ AssetsPublish(p) \/ AssetsCanary(p) \/ AssetsPoint(p) \/ AssetsVerify(p)
=============================================================================
