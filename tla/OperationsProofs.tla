-------------------------- MODULE OperationsProofs --------------------------
(***************************************************************************)
(* What Operations promises about the copies and the report, for every      *)
(* number of processes, every schedule of the roles and every bound.  The   *)
(* inductive invariant says where each process is, that the lock of the     *)
(* core backup is held exactly during its four guarded steps, and that      *)
(* trees only get newer along source, a run's tree, latest/ and snapshots.  *)
(***************************************************************************)
EXTENDS Operations, TLAPS

Roles == {"core", "assets", "sync", "audit", "health"}
Stages(role) == CASE role = "none" -> {"idle"}
                  [] role = "core" -> {"begin", "collect", "build", "aside", "place", "verify", "ended"}
                  [] role = "assets" -> {"begin", "publish", "canary", "point", "verify", "ended"}
                  [] role = "health" -> {"begin", "render"}
                  [] OTHER -> {"begin", "ended"}
Copy == Tree \cup {NoTree}
Process == [role : Roles \cup {"none"}, day : 0 .. MaxDay, ver : Copy, kept : Copy, saw : BOOLEAN,
            pc : {"idle", "begin", "collect", "build", "aside", "place", "publish", "canary", "point",
                  "verify", "render", "ended"},
            exit : {"none", "ok", "error", "skip"}]
ProcType == proc \in [Procs -> Process]

(* What holds of one process: its stage is one of its role; its day is      *)
(* today or yesterday; it exits once, and skips only for a busy archive.    *)
Placed(p) ==
  /\ proc[p].role \in Range(Schedule) \cup {"none"}
  /\ proc[p].pc \in Stages(proc[p].role)
  /\ proc[p].role = "none" => proc[p] = Idle
  /\ proc[p].role # "none" => proc[p].day \in 1 .. day /\ day <= proc[p].day + 1
  /\ proc[p].pc = "ended" => proc[p].exit # "none"

Guarded(p) == proc[p].role = "core" /\ proc[p].pc \in {"collect", "build", "aside", "place"}
Locked(p) == Guarded(p) <=> coreLock = p

(* The tree of a core run is as new as every core snapshot and as what is,  *)
(* or was, at latest/; while it is set aside there is nothing at latest/.   *)
NoOlder(t, u) == t \in Tree => t <= u
CoreRun(p) ==
  /\ proc[p].role = "core" /\ proc[p].pc \in {"build", "aside", "place"} =>
       /\ proc[p].ver \in Tree /\ proc[p].ver <= source
       /\ \A d \in Day : NoOlder(snapshots["core"][d], proc[p].ver)
       /\ NoOlder(latest, proc[p].ver)
  /\ At(p, "core", "place") => latest = NoTree /\ NoOlder(proc[p].kept, proc[p].ver)
AssetsRun(p) ==
  /\ At(p, "assets", "publish") => proc[p].ver \in Tree
  /\ proc[p].role = "assets" /\ proc[p].pc \in {"canary", "point", "verify"} => proc[p].day \in Published("assets")
  /\ At(p, "assets", "point") => proc[p].day \in tested
Succeeded(p) ==
  proc[p].role \in {"core", "assets"} /\ proc[p].pc = "ended" /\ proc[p].exit = "ok"
     => proc[p].day \in Published(proc[p].role)

DiskInv ==
  /\ source \in Tree /\ day \in Day /\ latest \in Copy
  /\ snapshots \in [{"core", "assets"} -> [Day -> Copy]]
  /\ pointer \in 0 .. MaxDay /\ tested \subseteq Day
  /\ coreLock \in Procs \cup {None} /\ faults \in 0 .. MaxFaults
OpsType ==
  /\ receipts \in [Reported -> Receipt \cup {None}]
  /\ auditLater \in BOOLEAN /\ clock \in 0 .. Len(Schedule) /\ starts \in 0 .. MaxStarts
Newest == NoOlder(latest, source) /\ \A d \in Day : NoOlder(snapshots["core"][d], source)
(* A receipt without a complaint has its copy, of its day or the one before. *)
Backed(r) == receipts[r] # None /\ receipts[r].status = "ok"
               => \E d \in Published(r) : d + 1 >= receipts[r].day
ProcInv(p) == Placed(p) /\ Locked(p) /\ CoreRun(p) /\ AssetsRun(p) /\ Succeeded(p)

IInv == /\ DiskInv /\ OpsType /\ ProcType /\ Newest /\ PointerVerified
        /\ Backed("core") /\ Backed("assets")
        /\ \A p \in Procs : ProcInv(p)
-----------------------------------------------------------------------------
(* The record a process becomes is a process, the others stay.              *)
LEMMA Becoming ==
  ASSUME ProcType, NEW p \in Procs, NEW r \in Process, proc' = [proc EXCEPT ![p] = r]
  PROVE  ProcType' /\ proc'[p] = r /\ \A q \in Procs \ {p} : proc'[q] = proc[q]
BY DEF ProcType

(* Going to another stage changes nothing else of the process.              *)
LEMMA Going ==
  ASSUME ProcType, NEW p \in Procs, NEW s \in {"collect", "aside", "canary", "point", "render"}, Goto(p, s)
  PROVE  /\ ProcType' /\ \A q \in Procs \ {p} : proc'[q] = proc[q]
         /\ proc'[p].pc = s /\ proc'[p].role = proc[p].role /\ proc'[p].day = proc[p].day
         /\ proc'[p].ver = proc[p].ver /\ proc'[p].kept = proc[p].kept
BY DEF ProcType, Goto, Process

(* A process that exits keeps its role and its day, and lets go of its tree. *)
LEMMA Exiting ==
  ASSUME ProcType, NEW p \in Procs, NEW code \in {"ok", "error", "skip"}, Exit(p, code)
  PROVE  /\ ProcType' /\ \A q \in Procs \ {p} : proc'[q] = proc[q]
         /\ proc'[p].pc = "ended" /\ proc'[p].role = proc[p].role /\ proc'[p].day = proc[p].day
         /\ proc'[p].exit = code
BY CopiesAssumption DEF ProcType, Exit, Ended, Idle, Process, Copy

LEMMA CoreLockKeeps ==
  ASSUME IInv, NEW p \in Procs, CoreLock(p), UNCHANGED opsVars
  PROVE  IInv'
<1> USE DEF IInv
<1>1. /\ ProcType' /\ \A q \in Procs \ {p} : proc'[q] = proc[q]
      /\ proc'[p].role = "core" /\ proc'[p].day = proc[p].day
      /\ \/ proc'[p].pc = "collect" /\ coreLock' = p /\ coreLock = None
         \/ proc'[p].pc = "ended" /\ proc'[p].exit = "error" /\ coreLock' = coreLock
  BY Going, Exiting DEF CoreLock, At, MayLock
<1>2. UNCHANGED <<outside, disk, faults>>  BY DEF CoreLock, Quiet
<1>3. DiskInv' /\ OpsType' /\ Newest' /\ PointerVerified' /\ Backed("core")' /\ Backed("assets")'
  BY <1>1, <1>2 DEF DiskInv, OpsType, Newest, PointerVerified, Backed, Published, outside, disk, opsVars
<1>4. ASSUME NEW q \in Procs PROVE ProcInv(q)'
  <2>1. Placed(q)'
    BY <1>1, <1>2 DEF ProcInv, Placed, Stages, CoreLock, At, outside
  <2>2. Locked(q)'
    BY <1>1, <1>2, CopiesAssumption DEF ProcInv, Locked, Guarded, CoreLock, At
  <2>3. CoreRun(q)'
    BY <1>1, <1>2 DEF ProcInv, CoreRun, NoOlder, At, outside, disk
  <2>4. AssetsRun(q)'
    BY <1>1, <1>2 DEF ProcInv, AssetsRun, Published, CoreLock, At, outside, disk
  <2>5. Succeeded(q)'
    BY <1>1, <1>2 DEF ProcInv, Succeeded, Published, CoreLock, At, outside, disk
  <2> QED BY <2>1, <2>2, <2>3, <2>4, <2>5 DEF ProcInv
<1> QED BY <1>1, <1>3, <1>4

LEMMA CoreCollectKeeps ==
  ASSUME IInv, NEW p \in Procs, CoreCollect(p), UNCHANGED opsVars
  PROVE  IInv'
<1> USE DEF IInv
<1> DEFINE r == [proc[p] EXCEPT !.pc = "build", !.ver = source]
<1>1. /\ ProcType' /\ \A q \in Procs \ {p} : proc'[q] = proc[q]
      /\ proc'[p] = r
  <2>1. r \in Process  BY DEF ProcType, Process, DiskInv, Copy
  <2>2. proc' = [proc EXCEPT ![p] = r]  BY DEF CoreCollect
  <2> HIDE DEF r
  <2> QED BY <2>1, <2>2, Becoming
<1>2. /\ UNCHANGED <<outside, disk, coreLock, faults>> /\ At(p, "core", "collect")
      /\ r.role = "core" /\ r.day = proc[p].day /\ r.pc = "build" /\ r.ver = source
  BY DEF CoreCollect, Quiet, ProcType, Process, At
<1> HIDE DEF r
<1>3. DiskInv' /\ OpsType' /\ Newest' /\ PointerVerified' /\ Backed("core")' /\ Backed("assets")'
  BY <1>2 DEF DiskInv, OpsType, Newest, PointerVerified, Backed, Published, outside, disk, opsVars
<1>4. ASSUME NEW q \in Procs PROVE ProcInv(q)'
  <2>1. Placed(q)'
    BY <1>1, <1>2 DEF ProcInv, Placed, Stages, At, outside
  <2>2. Locked(q)'
    BY <1>1, <1>2 DEF ProcInv, Locked, Guarded, At
  <2>3. CoreRun(q)'
    BY <1>1, <1>2 DEF ProcInv, CoreRun, NoOlder, Newest, DiskInv, Tree, At, outside, disk
  <2>4. AssetsRun(q)'
    BY <1>1, <1>2 DEF ProcInv, AssetsRun, Published, At, outside, disk
  <2>5. Succeeded(q)'
    BY <1>1, <1>2 DEF ProcInv, Succeeded, Published, At, outside, disk
  <2> QED BY <2>1, <2>2, <2>3, <2>4, <2>5 DEF ProcInv
<1> QED BY <1>1, <1>3, <1>4

(* A publication adds the tree of the run at its day, if the day was free.  *)
LEMMA Publishing ==
  ASSUME DiskInv, NEW kind \in {"core", "assets"}, NEW d \in Day, NEW t \in Tree,
         snapshots' = WithSnapshot(kind, d, t)
  PROVE  /\ snapshots' \in [{"core", "assets"} -> [Day -> Copy]]
         /\ \A k \in {"core", "assets"}, e \in Day :
              \/ snapshots'[k][e] = snapshots[k][e]
              \/ k = kind /\ e = d /\ snapshots[k][e] = NoTree /\ snapshots'[k][e] = t
         /\ d \in Published(kind)'
         /\ \A k \in {"core", "assets"} : Published(k) \subseteq Published(k)'
BY CopiesAssumption DEF DiskInv, WithSnapshot, Published, Copy, Tree

LEMMA CoreSnapshotKeeps ==
  ASSUME IInv, NEW p \in Procs, CoreSnapshot(p), UNCHANGED opsVars
  PROVE  IInv'
<1> USE DEF IInv
<1>1. /\ At(p, "core", "build") /\ proc[p].ver \in Tree /\ proc[p].day \in Day /\ coreLock = p
      /\ UNCHANGED <<outside, latest, pointer, tested, faults>>
  <2>1. At(p, "core", "build") /\ proc[p].ver \in Tree /\ coreLock = p
    BY DEF CoreSnapshot, ProcInv, CoreRun, Locked, Guarded, At
  <2>2. proc[p].day \in Day
    BY <2>1, CopiesAssumption DEF ProcInv, Placed, At, DiskInv, Day
  <2> QED BY <2>1, <2>2 DEF CoreSnapshot, Quiet
<1>2. /\ snapshots' \in [{"core", "assets"} -> [Day -> Copy]]
      /\ \A d \in Day : \/ snapshots'["core"][d] = snapshots["core"][d]
                        \/ snapshots'["core"][d] = proc[p].ver
      /\ \A k \in {"core", "assets"} : Published(k) \subseteq Published(k)'
  <2>1. CASE snapshots' = WithSnapshot("core", proc[p].day, proc[p].ver)
    BY <1>1, <2>1, Publishing
  <2>2. CASE UNCHANGED snapshots
    BY <2>2 DEF DiskInv, Published
  <2> QED BY <2>1, <2>2 DEF CoreSnapshot
<1>3. /\ ProcType' /\ \A q \in Procs \ {p} : proc'[q] = proc[q]
      /\ proc'[p].role = "core" /\ proc'[p].day = proc[p].day
      /\ \/ /\ proc'[p].pc = "aside" /\ coreLock' = coreLock
            /\ proc'[p].ver = proc[p].ver /\ proc'[p].kept = proc[p].kept
         \/ proc'[p].pc = "ended" /\ proc'[p].exit = "error" /\ coreLock' = None
  BY <1>1, Going, Exiting DEF CoreSnapshot, At, Unlocked
<1>4. DiskInv'
  BY <1>1, <1>2, <1>3 DEF DiskInv, outside
<1>5. OpsType' /\ PointerVerified' /\ Backed("core")' /\ Backed("assets")'
  BY <1>1, <1>2 DEF OpsType, PointerVerified, Backed, opsVars
<1>6. Newest'
  BY <1>1, <1>2 DEF Newest, NoOlder, ProcInv, CoreRun, At, outside
<1>7. ASSUME NEW q \in Procs PROVE ProcInv(q)'
  <2>1. Placed(q)'
    BY <1>1, <1>3 DEF ProcInv, Placed, Stages, At, outside
  <2>2. Locked(q)'
    BY <1>1, <1>3, CopiesAssumption DEF ProcInv, Locked, Guarded, At
  <2>3. CoreRun(q)'
    <3>1. CASE q = p
      BY <1>1, <1>2, <1>3, <3>1 DEF ProcInv, CoreRun, NoOlder, Tree, At, outside
    <3>2. CASE q # p
      <4>1. ~Guarded(q)  BY <1>1, <3>2 DEF ProcInv, Locked
      <4> QED BY <1>3, <3>2, <4>1 DEF CoreRun, Guarded, At
    <3> QED BY <3>1, <3>2
  <2>4. AssetsRun(q)'
    BY <1>1, <1>2, <1>3 DEF ProcInv, AssetsRun, At
  <2>5. Succeeded(q)'
    BY <1>1, <1>2, <1>3 DEF ProcInv, Succeeded, At
  <2> QED BY <2>1, <2>2, <2>3, <2>4, <2>5 DEF ProcInv
<1> QED BY <1>3, <1>4, <1>5, <1>6, <1>7

LEMMA CoreAsideKeeps ==
  ASSUME IInv, NEW p \in Procs, CoreAside(p), UNCHANGED opsVars
  PROVE  IInv'
<1> USE DEF IInv
<1> DEFINE r == [proc[p] EXCEPT !.pc = "place", !.kept = latest]
<1>1. /\ ProcType' /\ \A q \in Procs \ {p} : proc'[q] = proc[q]
      /\ proc'[p] = r
  <2>1. r \in Process  BY DEF ProcType, Process, DiskInv, Copy
  <2>2. proc' = [proc EXCEPT ![p] = r]  BY DEF CoreAside
  <2> HIDE DEF r
  <2> QED BY <2>1, <2>2, Becoming
<1>2. /\ UNCHANGED <<outside, snapshots, pointer, tested, coreLock, faults>> /\ latest' = NoTree
      /\ At(p, "core", "aside") /\ coreLock = p
      /\ r.role = "core" /\ r.day = proc[p].day /\ r.pc = "place" /\ r.ver = proc[p].ver /\ r.kept = latest
  BY DEF CoreAside, Quiet, ProcType, Process, At, ProcInv, Locked, Guarded
<1> HIDE DEF r
<1>3. DiskInv' /\ OpsType' /\ Newest' /\ PointerVerified' /\ Backed("core")' /\ Backed("assets")'
  BY <1>2, CopiesAssumption DEF DiskInv, Copy, OpsType, Newest, NoOlder, Tree, PointerVerified, Backed, Published, outside, opsVars
<1>4. ASSUME NEW q \in Procs PROVE ProcInv(q)'
  <2>1. Placed(q)'
    BY <1>1, <1>2 DEF ProcInv, Placed, Stages, At, outside
  <2>2. Locked(q)'
    BY <1>1, <1>2 DEF ProcInv, Locked, Guarded, At
  <2>3. CoreRun(q)'
    BY <1>1, <1>2, CopiesAssumption DEF ProcInv, CoreRun, Locked, Guarded, NoOlder, Tree, At, outside
  <2>4. AssetsRun(q)'
    BY <1>1, <1>2 DEF ProcInv, AssetsRun, Published, At, outside
  <2>5. Succeeded(q)'
    BY <1>1, <1>2 DEF ProcInv, Succeeded, Published, At, outside
  <2> QED BY <2>1, <2>2, <2>3, <2>4, <2>5 DEF ProcInv
<1> QED BY <1>1, <1>3, <1>4

LEMMA CorePlaceKeeps ==
  ASSUME IInv, NEW p \in Procs, CorePlace(p), UNCHANGED opsVars
  PROVE  IInv'
<1> USE DEF IInv
<1> DEFINE r == [Idle EXCEPT !.role = "core", !.day = proc[p].day, !.pc = "verify"]
<1>1. /\ ProcType' /\ \A q \in Procs \ {p} : proc'[q] = proc[q]
      /\ proc'[p] = r
  <2>1. r \in Process  BY DEF ProcType, Process, Idle, Roles, Copy
  <2>2. proc' = [proc EXCEPT ![p] = r]  BY DEF CorePlace
  <2> HIDE DEF r
  <2> QED BY <2>1, <2>2, Becoming
<1>2. /\ UNCHANGED <<outside, snapshots, pointer, tested, faults>> /\ latest' = proc[p].ver
      /\ At(p, "core", "place") /\ coreLock = p /\ coreLock' = None
      /\ proc[p].ver \in Tree /\ proc[p].ver <= source
      /\ r.role = "core" /\ r.day = proc[p].day /\ r.pc = "verify"
  BY DEF CorePlace, Quiet, Idle, At, ProcInv, Locked, Guarded, Unlocked, CoreRun
<1> HIDE DEF r
<1>3. DiskInv' /\ OpsType' /\ Newest' /\ PointerVerified' /\ Backed("core")' /\ Backed("assets")'
  BY <1>2 DEF DiskInv, Copy, OpsType, Newest, NoOlder, PointerVerified, Backed, Published, outside, opsVars
<1>4. ASSUME NEW q \in Procs PROVE ProcInv(q)'
  <2>1. Placed(q)'
    BY <1>1, <1>2 DEF ProcInv, Placed, Stages, At, outside
  <2>2. Locked(q)'
    BY <1>1, <1>2, CopiesAssumption DEF ProcInv, Locked, Guarded, At
  <2>3. CoreRun(q)'
    BY <1>1, <1>2 DEF ProcInv, CoreRun, Locked, Guarded, At
  <2>4. AssetsRun(q)'
    BY <1>1, <1>2 DEF ProcInv, AssetsRun, Published, At, outside
  <2>5. Succeeded(q)'
    BY <1>1, <1>2 DEF ProcInv, Succeeded, Published, At, outside
  <2> QED BY <2>1, <2>2, <2>3, <2>4, <2>5 DEF ProcInv
<1> QED BY <1>1, <1>3, <1>4

(* A step of p that ends outside the guarded part: p no longer holds the    *)
(* lock, has put back what it had set aside or leaves latest/ alone, and    *)
(* core snapshots stay as they are.  What the others rely on is kept.       *)
Apart(p) ==
  /\ \A q \in Procs \ {p} : proc'[q] = proc[q]
  /\ ~Guarded(p)' /\ Placed(p)' /\ AssetsRun(p)' /\ Succeeded(p)'
  /\ coreLock' = Unlocked(p) /\ latest' \in {latest, Restored(p)} /\ UNCHANGED outside
  /\ \A d \in Day : snapshots'["core"][d] = snapshots["core"][d]
  /\ Published("assets") \subseteq Published("assets")' /\ tested \subseteq tested'

LEMMA ApartKeeps ==
  ASSUME IInv, NEW p \in Procs, Apart(p), ProcType', DiskInv', OpsType', PointerVerified',
         Backed("core")', Backed("assets")'
  PROVE  IInv'
<1> USE DEF IInv
<1>1. coreLock = p \/ Restored(p) = latest
  BY DEF ProcInv, Locked, Guarded, Restored, At
<1>2. Newest'
  <2>1. NoOlder(latest', source)
    BY DEF Apart, Newest, NoOlder, Restored, ProcInv, CoreRun, At, Tree, DiskInv, ProcType, Process, Copy
  <2> QED BY <2>1 DEF Apart, Newest, NoOlder, outside
<1>3. ASSUME NEW q \in Procs, q # p PROVE ProcInv(q)'
  <2>1. proc'[q] = proc[q]  BY <1>3 DEF Apart
  <2>2. Placed(q)'  BY <1>3, <2>1 DEF Apart, ProcInv, Placed, outside
  <2>3. Locked(q)'
    BY <1>3, <2>1, CopiesAssumption DEF Apart, ProcInv, Locked, Guarded, Unlocked
  <2>4. CoreRun(q)'
    <3>1. CASE Guarded(q)
      <4>1. latest' = latest  BY <1>1, <1>3, <3>1 DEF Apart, ProcInv, Locked
      <4> QED BY <1>3, <2>1, <4>1 DEF Apart, ProcInv, CoreRun, NoOlder, At, outside
    <3>2. CASE ~Guarded(q)
      BY <2>1, <3>2 DEF CoreRun, Guarded, At
    <3> QED BY <3>1, <3>2
  <2>5. AssetsRun(q)'  BY <1>3, <2>1 DEF Apart, ProcInv, AssetsRun, At
  <2>6. Succeeded(q)'
    BY <1>3, <2>1 DEF Apart, ProcInv, Succeeded, Published
  <2> QED BY <2>2, <2>3, <2>4, <2>5, <2>6 DEF ProcInv
<1>4. ProcInv(p)'
  <2>1. Locked(p)'
    BY CopiesAssumption DEF Apart, Locked, Unlocked
  <2>2. CoreRun(p)'
    BY DEF Apart, CoreRun, Guarded, At
  <2> QED BY <2>1, <2>2 DEF Apart, ProcInv
<1> QED BY <1>2, <1>3, <1>4

(* What Apart asks of the disk when the step leaves it alone. *)
LEMMA DiskAlone ==
  ASSUME IInv, UNCHANGED <<outside, snapshots, pointer, tested>>, coreLock' \in Procs \cup {None},
         faults' \in 0 .. MaxFaults, latest' \in Copy
  PROVE  /\ DiskInv' /\ PointerVerified'
         /\ \A d \in Day : snapshots'["core"][d] = snapshots["core"][d]
         /\ Published("core") = Published("core")' /\ Published("assets") = Published("assets")'
BY DEF IInv, DiskInv, PointerVerified, Published, outside

(* What the receipts say stays true while no snapshot goes away.            *)
LEMMA ReceiptsAlone ==
  ASSUME IInv, UNCHANGED receipts, Published("core") \subseteq Published("core")',
         Published("assets") \subseteq Published("assets")'
  PROVE  Backed("core")' /\ Backed("assets")'
BY DEF IInv, Backed

(* The holder of the lock is a process, and the lock it lets go is free.    *)
LEMMA Unlocking ==
  ASSUME IInv, NEW p \in Procs
  PROVE  /\ Unlocked(p) \in Procs \cup {None} /\ Restored(p) \in Copy
         /\ ~Guarded(p) => Unlocked(p) = coreLock /\ Restored(p) = latest
BY DEF IInv, DiskInv, ProcInv, Locked, Guarded, Unlocked, Restored, ProcType, Process, At

LEMMA CoreVerifyKeeps ==
  ASSUME IInv, NEW p \in Procs, CoreVerify(p), UNCHANGED opsVars
  PROVE  IInv'
<1>1. At(p, "core", "verify") /\ UNCHANGED <<outside, disk, coreLock, faults>> /\ ProcType /\ ProcInv(p)
  BY DEF CoreVerify, Quiet, IInv
<1>2. DiskInv' /\ PointerVerified' /\ Backed("core")' /\ Backed("assets")'
  BY <1>1, DiskAlone, ReceiptsAlone DEF IInv, DiskInv, disk, opsVars
<1>3. OpsType'  BY DEF IInv, OpsType, opsVars
<1>4. /\ ProcType' /\ \A q \in Procs \ {p} : proc'[q] = proc[q]
      /\ proc'[p].pc = "ended" /\ proc'[p].role = "core" /\ proc'[p].day = proc[p].day
      /\ proc'[p].exit \in {"ok", "error"}
      /\ proc'[p].exit = "ok" => proc[p].day \in Published("core")
  BY <1>1, Exiting DEF CoreVerify, At
<1>5. Apart(p)
  <2>1. ~Guarded(p)' /\ Placed(p)' /\ AssetsRun(p)'
    BY <1>1, <1>4 DEF Guarded, ProcInv, Placed, Stages, AssetsRun, At, outside
  <2>2. Succeeded(p)'
    BY <1>1, <1>4 DEF Succeeded, Published, disk
  <2>3. Unlocked(p) = coreLock  BY <1>1, Unlocking DEF Guarded, At
  <2> QED BY <1>1, <1>4, <2>1, <2>2, <2>3 DEF Apart, Published, disk
<1> QED BY <1>2, <1>3, <1>4, <1>5, ApartKeeps
-----------------------------------------------------------------------------
LEMMA AssetsCopyKeeps ==
  ASSUME IInv, NEW p \in Procs, AssetsCopy(p), UNCHANGED opsVars
  PROVE  IInv'
<1>1. At(p, "assets", "begin") /\ UNCHANGED <<outside, disk, coreLock, faults>> /\ ProcType /\ ProcInv(p)
  BY DEF AssetsCopy, Quiet, IInv
<1>2. DiskInv' /\ PointerVerified' /\ Backed("core")' /\ Backed("assets")' /\ OpsType'
  BY <1>1, DiskAlone, ReceiptsAlone DEF IInv, DiskInv, OpsType, disk, opsVars
<1> DEFINE r == [proc[p] EXCEPT !.ver = source,
                                !.pc = IF proc[p].day \in Published("assets") THEN "verify" ELSE "publish"]
<1>3. /\ ProcType' /\ \A q \in Procs \ {p} : proc'[q] = proc[q]
      /\ proc'[p] = r
  <2>1. r \in Process  BY <1>1 DEF ProcType, Process, IInv, DiskInv, Copy
  <2>2. proc' = [proc EXCEPT ![p] = r]  BY DEF AssetsCopy
  <2> HIDE DEF r
  <2> QED BY <1>1, <2>1, <2>2, Becoming
<1>4. /\ r.role = "assets" /\ r.day = proc[p].day /\ r.ver = source
      /\ \/ r.pc = "publish"
         \/ r.pc = "verify" /\ proc[p].day \in Published("assets")
  BY <1>1 DEF ProcType, Process, At
<1> HIDE DEF r
<1>5. Apart(p)
  <2>1. ~Guarded(p)' /\ Placed(p)' /\ Succeeded(p)'
    BY <1>1, <1>3, <1>4 DEF Guarded, ProcInv, Placed, Stages, Succeeded, At, outside
  <2>2. AssetsRun(p)'
    BY <1>1, <1>3, <1>4 DEF AssetsRun, Published, At, disk, IInv, DiskInv, outside
  <2>3. Unlocked(p) = coreLock  BY <1>1, Unlocking DEF Guarded, At
  <2> QED BY <1>1, <1>3, <2>1, <2>2, <2>3 DEF Apart, Published, disk
<1> QED BY <1>2, <1>3, <1>5, ApartKeeps

LEMMA AssetsPublishKeeps ==
  ASSUME IInv, NEW p \in Procs, AssetsPublish(p), UNCHANGED opsVars
  PROVE  IInv'
<1>1. At(p, "assets", "publish") /\ UNCHANGED <<outside, latest, pointer, tested, coreLock, faults>> /\ ProcType /\ ProcInv(p)
  BY DEF AssetsPublish, Quiet, IInv
<1>2. proc[p].ver \in Tree /\ proc[p].day \in Day
  BY <1>1, CopiesAssumption DEF ProcInv, Placed, AssetsRun, At, IInv, DiskInv, Day
<1>3. /\ snapshots' \in [{"core", "assets"} -> [Day -> Copy]]
      /\ \A d \in Day : snapshots'["core"][d] = snapshots["core"][d]
      /\ proc[p].day \in Published("assets")'
      /\ \A k \in {"core", "assets"} : Published(k) \subseteq Published(k)'
  BY <1>2, Publishing DEF AssetsPublish, IInv
<1>4. /\ ProcType' /\ \A q \in Procs \ {p} : proc'[q] = proc[q]
      /\ proc'[p].role = "assets" /\ proc'[p].day = proc[p].day
      /\ \/ proc'[p].pc = "canary"
         \/ proc'[p].pc = "ended" /\ proc'[p].exit = "error"
  BY <1>1, Going, Exiting DEF AssetsPublish, AfterPublish, At
<1>5. DiskInv' /\ OpsType'
  BY <1>1, <1>3 DEF IInv, DiskInv, OpsType, outside, opsVars
<1>6. PointerVerified' /\ Backed("core")' /\ Backed("assets")'
  BY <1>1, <1>3, ReceiptsAlone DEF IInv, PointerVerified, opsVars
<1>7. Apart(p)
  <2>1. ~Guarded(p)' /\ Placed(p)' /\ Succeeded(p)' /\ AssetsRun(p)'
    BY <1>1, <1>3, <1>4 DEF Guarded, ProcInv, Placed, Stages, Succeeded, AssetsRun, At, outside
  <2>2. Unlocked(p) = coreLock  BY <1>1, Unlocking DEF Guarded, At
  <2> QED BY <1>1, <1>3, <1>4, <2>1, <2>2 DEF Apart
<1> QED BY <1>4, <1>5, <1>6, <1>7, ApartKeeps

LEMMA AssetsCanaryKeeps ==
  ASSUME IInv, NEW p \in Procs, AssetsCanary(p), UNCHANGED opsVars
  PROVE  IInv'
<1>1. /\ At(p, "assets", "canary") /\ UNCHANGED <<outside, latest, snapshots, pointer, coreLock, faults>>
      /\ ProcType /\ ProcInv(p) /\ tested' = tested \cup {proc[p].day}
      /\ proc[p].day \in Published("assets")
  BY DEF AssetsCanary, Canary, Quiet, IInv, ProcInv, AssetsRun, At
<1>2. DiskInv' /\ OpsType' /\ PointerVerified' /\ Backed("core")' /\ Backed("assets")'
  BY <1>1, ReceiptsAlone DEF IInv, DiskInv, OpsType, PointerVerified, Published, outside, opsVars
<1>3. /\ ProcType' /\ \A q \in Procs \ {p} : proc'[q] = proc[q]
      /\ proc'[p].role = "assets" /\ proc'[p].day = proc[p].day /\ proc'[p].pc = "point"
  BY <1>1, Going DEF AssetsCanary, Canary, At
<1>4. Apart(p)
  <2>1. ~Guarded(p)' /\ Placed(p)' /\ Succeeded(p)' /\ AssetsRun(p)'
    BY <1>1, <1>3 DEF Guarded, ProcInv, Placed, Stages, Succeeded, AssetsRun, Published, At, outside
  <2>2. Unlocked(p) = coreLock  BY <1>1, Unlocking DEF Guarded, At
  <2> QED BY <1>1, <1>3, <2>1, <2>2 DEF Apart, Published
<1> QED BY <1>2, <1>3, <1>4, ApartKeeps

LEMMA AssetsPointKeeps ==
  ASSUME IInv, NEW p \in Procs, AssetsPoint(p), UNCHANGED opsVars
  PROVE  IInv'
<1>1. /\ At(p, "assets", "point") /\ UNCHANGED <<outside, latest, snapshots, tested, coreLock, faults>>
      /\ ProcType /\ ProcInv(p) /\ pointer' = proc[p].day
      /\ proc[p].day \in Published("assets") /\ proc[p].day \in tested
  BY DEF AssetsPoint, Quiet, IInv, ProcInv, AssetsRun, At
<1>2. DiskInv' /\ OpsType' /\ PointerVerified' /\ Backed("core")' /\ Backed("assets")'
  BY <1>1, ReceiptsAlone, CopiesAssumption
     DEF IInv, DiskInv, OpsType, PointerVerified, Published, Day, outside, opsVars
<1> DEFINE r == [proc[p] EXCEPT !.pc = "verify", !.ver = NoTree]
<1>3. /\ ProcType' /\ \A q \in Procs \ {p} : proc'[q] = proc[q]
      /\ proc'[p] = r
  <2>1. r \in Process  BY <1>1 DEF ProcType, Process, Copy
  <2>2. proc' = [proc EXCEPT ![p] = r]  BY DEF AssetsPoint
  <2> HIDE DEF r
  <2> QED BY <1>1, <2>1, <2>2, Becoming
<1>4. r.role = "assets" /\ r.day = proc[p].day /\ r.pc = "verify"
  BY <1>1 DEF ProcType, Process, At
<1> HIDE DEF r
<1>5. Apart(p)
  <2>1. ~Guarded(p)' /\ Placed(p)' /\ Succeeded(p)' /\ AssetsRun(p)'
    BY <1>1, <1>3, <1>4 DEF Guarded, ProcInv, Placed, Stages, Succeeded, AssetsRun, Published, At, outside
  <2>2. Unlocked(p) = coreLock  BY <1>1, Unlocking DEF Guarded, At
  <2> QED BY <1>1, <1>3, <2>1, <2>2 DEF Apart, Published
<1> QED BY <1>2, <1>3, <1>5, ApartKeeps

LEMMA AssetsVerifyKeeps ==
  ASSUME IInv, NEW p \in Procs, AssetsVerify(p), UNCHANGED opsVars
  PROVE  IInv'
<1>1. /\ At(p, "assets", "verify") /\ UNCHANGED <<outside, latest, snapshots, pointer, coreLock, faults>>
      /\ ProcType /\ ProcInv(p) /\ tested' = tested \cup {proc[p].day}
      /\ proc[p].day \in Published("assets")
  BY DEF AssetsVerify, Canary, Quiet, IInv, ProcInv, AssetsRun, At
<1>2. DiskInv' /\ OpsType' /\ PointerVerified' /\ Backed("core")' /\ Backed("assets")'
  BY <1>1, ReceiptsAlone DEF IInv, DiskInv, OpsType, PointerVerified, Published, outside, opsVars
<1>3. /\ ProcType' /\ \A q \in Procs \ {p} : proc'[q] = proc[q]
      /\ proc'[p].role = "assets" /\ proc'[p].day = proc[p].day /\ proc'[p].pc = "ended"
      /\ proc'[p].exit = "ok"
  BY <1>1, Exiting DEF AssetsVerify, Canary, At
<1>4. Apart(p)
  <2>1. ~Guarded(p)' /\ Placed(p)' /\ Succeeded(p)' /\ AssetsRun(p)'
    BY <1>1, <1>3 DEF Guarded, ProcInv, Placed, Stages, Succeeded, AssetsRun, Published, At, outside
  <2>2. Unlocked(p) = coreLock  BY <1>1, Unlocking DEF Guarded, At
  <2> QED BY <1>1, <1>3, <2>1, <2>2 DEF Apart, Published
<1> QED BY <1>2, <1>3, <1>4, ApartKeeps
-----------------------------------------------------------------------------
(* A process that ends without a success needs nothing of the disk: a start, *)
(* a failure, a kill and a written receipt.                                 *)
LEMMA Loose ==
  ASSUME IInv, NEW p \in Procs, \A q \in Procs \ {p} : proc'[q] = proc[q],
         Placed(p)', proc'[p].pc \in {"idle", "begin", "render", "ended"},
         proc'[p].pc = "ended" => proc'[p].exit # "ok" \/ proc'[p].role \notin {"core", "assets"},
         coreLock' = Unlocked(p), latest' \in {latest, Restored(p)}, UNCHANGED <<outside, snapshots, tested>>
  PROVE  Apart(p)
BY DEF Apart, Guarded, AssetsRun, Succeeded, At, Published

(* A process that starts as another role is a process.                      *)
LEMMA Started ==
  ASSUME NEW r \in Process, NEW x \in Roles, NEW d \in 0 .. MaxDay
  PROVE  [r EXCEPT !.role = x, !.pc = "begin", !.day = d] \in Process
BY DEF Process

LEMMA StartKeeps ==
  ASSUME IInv, NEW p \in Procs, NEW i \in 1 .. Len(Schedule), Start(p, i)
  PROVE  IInv'
<1>1. /\ proc[p] = Idle /\ UNCHANGED <<outside, disk, coreLock, faults, receipts>> /\ ProcType
      /\ day \in Day
  BY DEF Start, IInv, DiskInv
<1>2. Schedule[i] \in Roles /\ Schedule[i] \in Range(Schedule)
  BY ScheduleAssumption DEF Roles, Range
<1>3. DiskInv' /\ PointerVerified' /\ Backed("core")' /\ Backed("assets")'
  BY <1>1, DiskAlone, ReceiptsAlone DEF IInv, DiskInv, disk
<1>4. OpsType'
  BY ScheduleAssumption DEF IInv, OpsType, Start
<1> DEFINE r == [Idle EXCEPT !.role = Schedule[i], !.pc = "begin", !.day = day]
<1>5. /\ ProcType' /\ \A q \in Procs \ {p} : proc'[q] = proc[q]
      /\ proc'[p] = r
  <2>1. r \in Process
    <3>1. Idle \in Process  BY <1>1 DEF ProcType
    <3>2. day \in 0 .. MaxDay  BY <1>1, CopiesAssumption DEF Day
    <3> QED BY <1>2, <3>1, <3>2, Started
  <2>2. proc' = [proc EXCEPT ![p] = r]  BY DEF Start
  <2> HIDE DEF r
  <2> QED BY <1>1, <2>1, <2>2, Becoming
<1>6. r.role = Schedule[i] /\ r.day = day /\ r.pc = "begin"
  BY DEF Idle
<1> HIDE DEF r
<1>7. Apart(p)
  <2>1. Placed(p)'
    <3>1. "begin" \in Stages(Schedule[i]) /\ Schedule[i] # "none"
      BY <1>2 DEF Roles, Stages
    <3> QED BY <1>1, <1>2, <1>5, <1>6, <3>1 DEF Placed, Day, outside
  <2>2. Unlocked(p) = coreLock  BY <1>1, Unlocking DEF Guarded, Idle
  <2> QED BY <1>1, <1>5, <1>6, <2>1, <2>2, Loose DEF disk
<1> QED BY <1>3, <1>4, <1>5, <1>7, ApartKeeps

LEMMA DiscordKeeps ==
  ASSUME IInv, NEW p \in Procs, Discord(p)
  PROVE  IInv'
<1>1. /\ proc[p].role \in {"sync", "audit"} /\ UNCHANGED <<outside, disk, coreLock, faults, opsVars>>
      /\ ProcType /\ ProcInv(p)
  BY DEF Discord, Quiet, IInv
<1>2. DiskInv' /\ PointerVerified' /\ Backed("core")' /\ Backed("assets")' /\ OpsType'
  BY <1>1, DiskAlone, ReceiptsAlone DEF IInv, DiskInv, OpsType, disk, opsVars
<1> DEFINE Exited(r) == /\ r.role = proc[p].role /\ r.day = proc[p].day /\ r.pc = "ended" /\ r.exit # "none"
                        /\ proc' = [proc EXCEPT ![p] = r]
<1>3. PICK r \in Process : Exited(r)
  <2>1. CASE Exit(p, "skip")
    <3>1. Ended(p, "skip") \in Process  BY <1>1 DEF Process, Ended, Idle, Copy, ProcType
    <3> QED BY <2>1, <3>1 DEF Exit, Ended, Idle
  <2>2. ASSUME NEW left \in BOOLEAN, proc' = [proc EXCEPT ![p] = [Ended(p, "ok") EXCEPT !.saw = left]]
        PROVE  \E r \in Process : Exited(r)
    <3> DEFINE e == [Ended(p, "ok") EXCEPT !.saw = left]
    <3>1. e \in Process  BY <1>1 DEF Process, Ended, Idle, Copy, ProcType
    <3>2. e.role = proc[p].role /\ e.day = proc[p].day /\ e.pc = "ended" /\ e.exit = "ok"
      BY DEF Ended, Idle
    <3>3. proc' = [proc EXCEPT ![p] = e]  BY <2>2
    <3> HIDE DEF e
    <3> QED BY <3>1, <3>2, <3>3
  <2> QED BY <2>1, <2>2 DEF Discord
<1>4. ProcType' /\ proc'[p] = r /\ \A q \in Procs \ {p} : proc'[q] = proc[q]
  BY <1>1, <1>3, Becoming
<1>5. Apart(p)
  <2>1. Placed(p)'
    BY <1>1, <1>3, <1>4 DEF ProcInv, Placed, Stages, outside
  <2>2. Unlocked(p) = coreLock  BY <1>1, Unlocking DEF Guarded
  <2> QED BY <1>1, <1>3, <1>4, <2>1, <2>2, Loose DEF disk
<1> QED BY <1>2, <1>4, <1>5, ApartKeeps

LEMMA FailsKeeps ==
  ASSUME IInv, NEW p \in Procs, Fails(p)
  PROVE  IInv'
<1>1. /\ Working(p) /\ proc[p].role # "health" /\ ProcType /\ ProcInv(p)
      /\ UNCHANGED <<outside, snapshots, pointer, tested, opsVars>>
      /\ coreLock' = Unlocked(p) /\ latest' = Restored(p) /\ faults' \in 0 .. MaxFaults
  BY CopiesAssumption DEF Fails, StepFails, IInv, DiskInv
<1>2. DiskInv' /\ PointerVerified' /\ Backed("core")' /\ Backed("assets")' /\ OpsType'
  BY <1>1, Unlocking, DiskAlone, ReceiptsAlone DEF IInv, OpsType, opsVars
<1>3. /\ ProcType' /\ \A q \in Procs \ {p} : proc'[q] = proc[q]
      /\ proc'[p].role = proc[p].role /\ proc'[p].day = proc[p].day /\ proc'[p].pc = "ended"
      /\ proc'[p].exit = "error"
  BY <1>1, Exiting DEF Fails, StepFails
<1>4. Apart(p)
  <2>1. "ended" \in Stages(proc[p].role) /\ proc[p].role # "none"
    BY <1>1 DEF ProcInv, Placed, Stages, Working, Idle
  <2>2. Placed(p)'
    BY <1>1, <1>3, <2>1 DEF ProcInv, Placed, outside
  <2> QED BY <1>1, <1>3, <2>2, Loose
<1> QED BY <1>2, <1>3, <1>4, ApartKeeps

(* A process that is gone is idle. *)
LEMMA Gone ==
  ASSUME ProcType, NEW p \in Procs, proc' = [proc EXCEPT ![p] = Idle]
  PROVE  /\ ProcType' /\ \A q \in Procs \ {p} : proc'[q] = proc[q]
         /\ Placed(p)' /\ proc'[p].pc = "idle"
<1>1. Idle \in Process  BY CopiesAssumption DEF Process, Idle, Copy
<1>2. ProcType' /\ proc'[p] = Idle /\ \A q \in Procs \ {p} : proc'[q] = proc[q]
  BY <1>1, Becoming
<1>3. Idle.role = "none" /\ Idle.pc = "idle"  BY DEF Idle
<1>4. "idle" \in Stages("none")  BY DEF Stages
<1> QED BY <1>2, <1>3, <1>4 DEF Placed

LEMMA JobKilledKeeps ==
  ASSUME IInv, NEW p \in Procs, JobKilled(p)
  PROVE  IInv'
<1>1. /\ ProcType /\ proc' = [proc EXCEPT ![p] = Idle] /\ UNCHANGED <<outside, disk, opsVars>>
      /\ coreLock' = Unlocked(p) /\ faults' \in 0 .. MaxFaults
  BY CopiesAssumption DEF JobKilled, Killed, IInv, DiskInv
<1>2. DiskInv' /\ PointerVerified' /\ Backed("core")' /\ Backed("assets")' /\ OpsType'
  BY <1>1, Unlocking, DiskAlone, ReceiptsAlone DEF IInv, DiskInv, OpsType, disk, opsVars
<1>3. Apart(p)
  BY <1>1, Gone, Loose DEF disk
<1> QED BY <1>1, <1>2, <1>3, Gone, ApartKeeps

LEMMA HealthRenderKeeps ==
  ASSUME IInv, NEW p \in Procs, HealthRender(p)
  PROVE  IInv'
<1>1. /\ ProcType /\ proc' = [proc EXCEPT ![p] = Idle] /\ At(p, "health", "render")
      /\ UNCHANGED <<outside, disk, coreLock, faults, opsVars>>
  BY DEF HealthRender, Quiet, IInv
<1>2. DiskInv' /\ PointerVerified' /\ Backed("core")' /\ Backed("assets")' /\ OpsType'
  BY <1>1, DiskAlone, ReceiptsAlone DEF IInv, DiskInv, OpsType, disk, opsVars
<1>3. Unlocked(p) = coreLock  BY <1>1, Unlocking DEF Guarded, At
<1>4. Apart(p)
  BY <1>1, <1>3, Gone, Loose DEF disk
<1> QED BY <1>1, <1>2, <1>4, Gone, ApartKeeps

LEMMA HealthVerifyKeeps ==
  ASSUME IInv, NEW p \in Procs, HealthVerify(p)
  PROVE  IInv'
<1>1. /\ ProcType /\ ProcInv(p) /\ At(p, "health", "begin") /\ Goto(p, "render")
      /\ UNCHANGED <<outside, disk, coreLock, faults, auditLater, clock, starts>>
      /\ \E s \in Status : receipts' = [receipts EXCEPT !["topology"] = [status |-> s, day |-> day]]
  BY DEF HealthVerify, Quiet, IInv, Status
<1>2. DiskInv' /\ PointerVerified'
  BY <1>1, DiskAlone DEF IInv, DiskInv, disk
<1>3. OpsType'
  BY <1>1 DEF IInv, OpsType, DiskInv, Receipt, Reported
<1>4. Backed("core")' /\ Backed("assets")'
  BY <1>1 DEF IInv, Backed, OpsType, Reported, Published, disk
<1>5. /\ ProcType' /\ \A q \in Procs \ {p} : proc'[q] = proc[q]
      /\ proc'[p].role = "health" /\ proc'[p].day = proc[p].day /\ proc'[p].pc = "render"
  BY <1>1, Going DEF At
<1>6. Apart(p)
  <2>1. Placed(p)'
    BY <1>1, <1>5 DEF ProcInv, Placed, Stages, At, outside
  <2>2. Unlocked(p) = coreLock  BY <1>1, Unlocking DEF Guarded, At
  <2> QED BY <1>1, <1>5, <2>1, <2>2, Loose DEF disk
<1> QED BY <1>2, <1>3, <1>4, <1>5, <1>6, ApartKeeps

(* A receipt is written by a role that is reported, and one without a       *)
(* complaint by a run that succeeded.                                       *)
LEMMA WriteReceiptKeeps ==
  ASSUME IInv, NEW p \in Procs, WriteReceipt(p)
  PROVE  IInv'
<1>1. /\ ProcType /\ ProcInv(p) /\ OpsType /\ DiskInv /\ proc' = [proc EXCEPT ![p] = Idle]
      /\ UNCHANGED <<outside, disk, coreLock, faults, clock, starts>>
      /\ proc[p].pc = "ended" /\ proc[p].role # "health"
  BY DEF WriteReceipt, Quiet, IInv
<1>2. proc[p].role \in {"core", "assets", "sync", "audit"} /\ proc[p].exit # "none"
  BY <1>1 DEF ProcInv, Placed, Stages, Idle, ProcType, Process, Roles
<1> DEFINE receipt == [status |-> StatusOf(p), day |-> day]
<1>3. StatusOf(p) \in Status /\ (StatusOf(p) = "ok" => proc[p].exit = "ok")
  BY <1>1, <1>2 DEF StatusOf, Status, ProcType, Process
<1>4. receipt \in Receipt /\ receipt.status = StatusOf(p) /\ receipt.day = day
  BY <1>1, <1>3 DEF Receipt, DiskInv
<1>5. receipts' = [receipts EXCEPT ![proc[p].role] = receipt]
  BY DEF WriteReceipt
<1> HIDE DEF receipt
<1>6. DiskInv' /\ PointerVerified'
  BY <1>1, DiskAlone DEF DiskInv, disk
<1>7. OpsType'
  <2>1. auditLater' \in BOOLEAN
    BY <1>1 DEF WriteReceipt, OpsType
  <2>2. receipts' \in [Reported -> Receipt \cup {None}]
    BY <1>1, <1>2, <1>4, <1>5 DEF OpsType, Reported
  <2> QED BY <1>1, <2>1, <2>2 DEF OpsType
<1>8. ASSUME NEW kind \in {"core", "assets"} PROVE Backed(kind)'
  <2>1. CASE kind = proc[p].role
    <3>1. receipts'[kind] = receipt
      BY <1>1, <1>5, <2>1 DEF OpsType, Reported
    <3>2. SUFFICES ASSUME StatusOf(p) = "ok"
                   PROVE  \E d \in Published(kind)' : d + 1 >= day
      BY <1>1, <1>4, <3>1 DEF Backed, outside
    <3>3. proc[p].day \in Published(kind)
      BY <1>1, <1>3, <2>1, <3>2 DEF ProcInv, Succeeded
    <3>4. proc[p].day + 1 >= day
      BY <1>1, <1>2, CopiesAssumption DEF ProcInv, Placed, DiskInv, Day
    <3> QED BY <1>1, <3>3, <3>4 DEF Published, disk
  <2>2. CASE kind # proc[p].role
    BY <1>1, <1>5, <2>2 DEF IInv, Backed, OpsType, Reported, Published, disk
  <2> QED BY <2>1, <2>2
<1>9. Unlocked(p) = coreLock  BY <1>1, Unlocking DEF Guarded
<1>10. Apart(p)
  BY <1>1, <1>9, Gone, Loose DEF disk
<1> QED BY <1>1, <1>6, <1>7, <1>8, <1>10, Gone, ApartKeeps

LEMMA EditKeeps ==
  ASSUME IInv, Edit, UNCHANGED opsVars
  PROVE  IInv'
<1> USE DEF IInv
<1>1. /\ source' \in Tree /\ source \in Tree /\ source <= source'
      /\ UNCHANGED <<day, disk, coreLock, proc, faults, opsVars>>
  BY CopiesAssumption DEF Edit, DiskInv, Tree
<1>2. DiskInv' /\ OpsType' /\ ProcType' /\ PointerVerified' /\ Backed("core")' /\ Backed("assets")'
  BY <1>1 DEF DiskInv, OpsType, ProcType, PointerVerified, Backed, Published, disk, opsVars
<1>3. Newest'
  BY <1>1 DEF Newest, NoOlder, Tree, disk
<1>4. ASSUME NEW p \in Procs PROVE ProcInv(p)'
  <2>1. Placed(p)' /\ Locked(p)' /\ AssetsRun(p)' /\ Succeeded(p)'
    BY <1>1 DEF ProcInv, Placed, Locked, Guarded, AssetsRun, Succeeded, Published, At, disk
  <2>2. CoreRun(p)'
    BY <1>1 DEF ProcInv, CoreRun, NoOlder, At, Tree, disk
  <2> QED BY <2>1, <2>2 DEF ProcInv
<1> QED BY <1>2, <1>3, <1>4

LEMMA NextDayKeeps ==
  ASSUME IInv, NextDay, clock' = 0, UNCHANGED <<receipts, auditLater, starts>>
  PROVE  IInv'
<1> USE DEF IInv
<1>1. /\ day \in Day /\ day' \in Day /\ day' = day + 1
      /\ UNCHANGED <<source, disk, coreLock, proc, faults, receipts, auditLater, starts>>
  BY CopiesAssumption DEF NextDay, DiskInv, Day
<1>2. DiskInv' /\ OpsType' /\ ProcType' /\ PointerVerified' /\ Newest' /\ Backed("core")' /\ Backed("assets")'
  BY <1>1, ScheduleAssumption DEF DiskInv, OpsType, ProcType, PointerVerified, Newest, Backed, Published, disk
<1>3. ASSUME NEW p \in Procs PROVE ProcInv(p)'
  <2>1. Placed(p)'
    <3>1. proc[p].role # "none" => proc[p].day = day  BY DEF NextDay, Idle
    <3> QED BY <1>1, <3>1 DEF ProcInv, Placed, Day
  <2>2. Locked(p)' /\ AssetsRun(p)' /\ Succeeded(p)' /\ CoreRun(p)'
    BY <1>1 DEF ProcInv, Locked, Guarded, AssetsRun, CoreRun, Succeeded, Published, At, disk
  <2> QED BY <2>1, <2>2 DEF ProcInv
<1> QED BY <1>2, <1>3

LEMMA InitHolds == Init => IInv
<1> SUFFICES ASSUME Init PROVE IInv  OBVIOUS
<1>1. ProcType
  <2>1. Idle \in Process  BY CopiesAssumption DEF Process, Idle, Copy
  <2> QED BY <2>1 DEF Init, CopiesInit, ProcType
<1>2. DiskInv
  BY CopiesAssumption DEF Init, CopiesInit, DiskInv, Tree, Day, Copy
<1>3. OpsType
  <2>1. 1 \in Day /\ 0 \in 0 .. Len(Schedule) /\ 0 \in 0 .. MaxStarts
    BY CopiesAssumption, ScheduleAssumption DEF Day
  <2>2. [status |-> "pending", day |-> 1] \in Receipt  BY <2>1 DEF Receipt, Status
  <2> QED BY <2>1, <2>2 DEF Init, OpsType
<1>4. Newest /\ PointerVerified
  BY CopiesAssumption DEF Init, CopiesInit, Newest, NoOlder, Tree, PointerVerified
<1>5. Backed("core") /\ Backed("assets")
  <2>1. receipts["core"] = None /\ receipts["assets"] = [status |-> "pending", day |-> 1]
    BY DEF Init, Reported
  <2> QED BY <2>1 DEF Backed
<1>6. ASSUME NEW p \in Procs PROVE ProcInv(p)
  <2>1. proc[p] = Idle /\ coreLock = None  BY DEF Init, CopiesInit
  <2>2. Idle.role = "none" /\ Idle.pc = "idle" /\ "idle" \in Stages("none")
    BY DEF Idle, Stages
  <2> QED BY <2>1, <2>2, CopiesAssumption
          DEF ProcInv, Placed, Locked, Guarded, CoreRun, AssetsRun, Succeeded, At
<1> QED BY <1>1, <1>2, <1>3, <1>4, <1>5, <1>6 DEF IInv

LEMMA StutterKeeps == IInv /\ UNCHANGED vars => IInv'
BY DEF IInv, vars, copiesVars, opsVars, outside, disk, DiskInv, OpsType, ProcType, Newest, PointerVerified,
       Backed, Published, ProcInv, Placed, Locked, Guarded, CoreRun, NoOlder, AssetsRun, Succeeded, At

LEMMA NextKeeps == IInv /\ [Next]_vars => IInv'
<1> SUFFICES ASSUME IInv, [Next]_vars PROVE IInv'  OBVIOUS
<1>1. CASE Outside
  BY <1>1, EditKeeps, NextDayKeeps DEF Outside
<1>2. ASSUME NEW p \in Procs, CopyStep(p), UNCHANGED opsVars PROVE IInv'
  BY <1>2, CoreLockKeeps, CoreCollectKeeps, CoreSnapshotKeeps, CoreAsideKeeps, CorePlaceKeeps,
     CoreVerifyKeeps, AssetsCopyKeeps, AssetsPublishKeeps, AssetsCanaryKeeps, AssetsPointKeeps,
     AssetsVerifyKeeps DEF CopyStep
<1>3. ASSUME NEW p \in Procs, NEW i \in 1 .. Len(Schedule), Start(p, i) PROVE IInv'
  BY <1>3, StartKeeps
<1>4. ASSUME NEW p \in Procs,
             Discord(p) \/ Fails(p) \/ HealthVerify(p) \/ HealthRender(p) \/ WriteReceipt(p) \/ JobKilled(p)
      PROVE IInv'
  BY <1>4, DiscordKeeps, FailsKeeps, HealthVerifyKeeps, HealthRenderKeeps, WriteReceiptKeeps, JobKilledKeeps
<1>5. CASE UNCHANGED vars  BY <1>5, StutterKeeps
<1> QED BY <1>1, <1>2, <1>3, <1>4, <1>5 DEF Next, Copies

LEMMA Inductive == Spec => []IInv
BY InitHolds, NextKeeps, PTL DEF Spec

(* Whatever overlaps, fails or is killed, latest.json names a snapshot that *)
(* is published and has passed a restore canary, and the lock of the core   *)
(* backup is held by a core run.                                            *)
THEOREM OperationsSafe == Spec => []OperationsInv
<1>1. IInv => OperationsInv
  <2> SUFFICES ASSUME IInv PROVE OperationsInv  OBVIOUS
  <2>1. CopiesType
    BY CopiesAssumption DEF IInv, DiskInv, CopiesType, Copy, ProcType, Process, ProcInv, Placed, Idle, Day
  <2>2. TypeOK
    BY <2>1 DEF IInv, TypeOK, OpsType, ProcInv, Placed, Locked, Guarded, At
  <2> QED BY <2>2 DEF IInv, OperationsInv
<1> QED BY <1>1, Inductive, PTL
-----------------------------------------------------------------------------
(* What a run places at latest/ is as new as every core snapshot.           *)
THEOREM PlacesNewest == Spec => LatestForward
<1>1. ASSUME IInv, NEW p \in Procs, CorePlace(p), NEW d \in Published("core")
      PROVE  snapshots["core"][d] <= latest'
  <2>1. /\ latest' = proc[p].ver /\ d \in Day
        /\ \A e \in Day : NoOlder(snapshots["core"][e], proc[p].ver)
    BY <1>1 DEF CorePlace, IInv, ProcInv, CoreRun, At, Published
  <2>2. snapshots["core"][d] \in Tree
    BY <1>1 DEF IInv, DiskInv, Published, Copy
  <2> QED BY <2>1, <2>2 DEF NoOlder
<1>2. IInv => [\A p \in Procs : CorePlace(p) =>
                 \A d \in Published("core") : snapshots["core"][d] <= latest']_vars
  BY <1>1
<1> QED BY <1>2, Inductive, PTL DEF LatestForward

(* Only the process that steps changes its record.                          *)
LEMMA OthersStay ==
  ASSUME ProcType, NEW p \in Procs,
         \/ CopyStep(p) \/ Discord(p) \/ Fails(p) \/ HealthVerify(p) \/ HealthRender(p)
         \/ WriteReceipt(p) \/ JobKilled(p) \/ \E i \in 1 .. Len(Schedule) : Start(p, i)
  PROVE  \A q \in Procs \ {p} : proc'[q] = proc[q]
<1> USE DEF ProcType, Goto, Exit
<1>1. CASE CoreLock(p) \/ CoreCollect(p) \/ CoreSnapshot(p)
  BY <1>1 DEF CoreLock, CoreCollect, CoreSnapshot
<1>2. CASE CoreAside(p) \/ CorePlace(p) \/ CoreVerify(p)
  BY <1>2 DEF CoreAside, CorePlace, CoreVerify
<1>3. CASE AssetsCopy(p) \/ AssetsPublish(p) \/ AssetsCanary(p)
  BY <1>3 DEF AssetsCopy, AssetsPublish, AssetsCanary, Canary
<1>4. CASE AssetsPoint(p) \/ AssetsVerify(p)
  BY <1>4 DEF AssetsPoint, AssetsVerify, Canary
<1>5. CASE Discord(p) \/ Fails(p) \/ JobKilled(p)
  BY <1>5 DEF Discord, Fails, StepFails, JobKilled, Killed
<1>6. CASE HealthVerify(p) \/ HealthRender(p) \/ WriteReceipt(p)
  BY <1>6 DEF HealthVerify, HealthRender, WriteReceipt
<1>7. CASE \E i \in 1 .. Len(Schedule) : Start(p, i)
  BY <1>7 DEF Start
<1> QED BY <1>1, <1>2, <1>3, <1>4, <1>5, <1>6, <1>7 DEF CopyStep

(* A step that leaves latest/ and the core snapshots alone, by a process    *)
(* that holds nothing aside, takes nothing away.                            *)
Placing(q) == At(q, "core", "place")
Takes(p) == CoreSnapshot(p) \/ CoreAside(p) \/ CorePlace(p) \/ Fails(p) \/ JobKilled(p)
LEMMA MostStepsTakeNothing ==
  ASSUME IInv, NEW p \in Procs, ~Takes(p), ~Placing(p),
         \/ CopyStep(p) \/ Discord(p) \/ HealthVerify(p) \/ HealthRender(p)
         \/ WriteReceipt(p) \/ \E i \in 1 .. Len(Schedule) : Start(p, i)
  PROVE  Restorable \subseteq Restorable'
<1>1. \A q \in Procs : Placing(q) => proc'[q] = proc[q]
  BY OthersStay DEF IInv
<1>2. latest' = latest /\ \A d \in Day : snapshots'["core"][d] = snapshots["core"][d]
  <2>1. CASE CopyStep(p)
    BY <2>1 DEF CopyStep, Takes, CoreLock, CoreCollect, CoreVerify, AssetsCopy, AssetsPublish, WithSnapshot,
                AssetsCanary, AssetsPoint, AssetsVerify, disk, IInv, DiskInv
  <2>2. CASE ~CopyStep(p)
    BY <2>2 DEF Discord, HealthVerify, HealthRender, WriteReceipt, Start, disk
  <2> QED BY <2>1, <2>2
<1> QED BY <1>1, <1>2 DEF Restorable, Placing, At

LEMMA SetAsideNotLost ==
  ASSUME IInv, NEW p \in Procs, CoreAside(p)
  PROVE  Restorable \subseteq Restorable'
<1>1. \A q \in Procs : Placing(q) => proc'[q] = proc[q]
  BY OthersStay DEF IInv, CopyStep, CoreAside, Placing, At
<1>2. Placing(p)' /\ proc'[p].kept = latest
  BY DEF CoreAside, Placing, At, IInv, ProcType, Process
<1>3. snapshots' = snapshots  BY DEF CoreAside
<1> QED BY <1>1, <1>2, <1>3 DEF Restorable, Placing, At

LEMMA SnapshotTakesNothing ==
  ASSUME IInv, NEW p \in Procs, CoreSnapshot(p)
  PROVE  Restorable \subseteq Restorable'
<1>1. \A q \in Procs : Placing(q) => proc'[q] = proc[q]
  BY OthersStay DEF IInv, CopyStep, CoreSnapshot, Placing, At
<1>2. latest' = latest  BY DEF CoreSnapshot
<1>3. \A d \in Day : snapshots["core"][d] = NoTree \/ snapshots'["core"][d] = snapshots["core"][d]
  BY DEF CoreSnapshot, WithSnapshot, Published, IInv, DiskInv
<1> QED BY <1>1, <1>2, <1>3 DEF Restorable, Placing, At

(* A failure or a kill of a process that holds nothing aside takes nothing; *)
(* a failure between the two renames puts the old tree back.                *)
LEMMA FaultTakesNothing ==
  ASSUME IInv, NEW p \in Procs, Fails(p) \/ (JobKilled(p) /\ ~Placing(p))
  PROVE  Restorable \subseteq Restorable'
<1>1. \A q \in Procs \ {p} : proc'[q] = proc[q]
  BY OthersStay DEF IInv
<1>2. snapshots' = snapshots  BY DEF Fails, StepFails, JobKilled, Killed, disk
<1>3. CASE ~Placing(p)
  <2>1. latest' = latest
    BY <1>3 DEF Fails, StepFails, JobKilled, Killed, Restored, Placing, disk
  <2> QED BY <1>1, <1>2, <1>3, <2>1 DEF Restorable, Placing, At
<1>4. CASE Placing(p)
  <2>1. latest' = proc[p].kept /\ latest = NoTree
    BY <1>4 DEF Fails, StepFails, Restored, Placing, At, IInv, ProcInv, CoreRun
  <2> QED BY <1>1, <1>2, <1>4, <2>1 DEF Restorable, Placing, At
<1> QED BY <1>3, <1>4

(* The second rename puts a tree at latest/ that is as new as the one aside. *)
LEMMA PlaceReplaces ==
  ASSUME IInv, NEW p \in Procs, CorePlace(p), NEW t \in Restorable
  PROVE  \E u \in Restorable' : t <= u
<1>1. \A q \in Procs \ {p} : proc'[q] = proc[q]
  BY OthersStay DEF IInv, CopyStep
<1>2. /\ snapshots' = snapshots /\ latest' = proc[p].ver /\ latest = NoTree /\ proc[p].ver \in Tree
      /\ NoOlder(proc[p].kept, proc[p].ver) /\ Placing(p) /\ coreLock = p
  BY DEF CorePlace, IInv, ProcInv, CoreRun, Locked, Guarded, At, Placing
<1>3. \A q \in Procs : Placing(q) => q = p
  BY <1>2 DEF IInv, ProcInv, Locked, Guarded, Placing, At
<1>4. t = proc[p].kept \/ \E d \in Day : t = snapshots["core"][d]
  BY <1>2, <1>3 DEF Restorable, Placing
<1>5. t \in Tree
  BY <1>2, <1>4 DEF Restorable, IInv, DiskInv, ProcType, Process, Copy
<1>6. CASE t = proc[p].kept
  <2>1. t <= latest'  BY <1>2, <1>5, <1>6 DEF NoOlder
  <2>2. latest' \in Restorable'  BY <1>2, CopiesAssumption DEF Restorable, Tree
  <2> QED BY <2>1, <2>2
<1>7. CASE \E d \in Day : t = snapshots["core"][d]
  <2>1. t \in Restorable'  BY <1>2, <1>7 DEF Restorable
  <2>2. t <= t  BY <1>5 DEF Tree
  <2> QED BY <2>1, <2>2
<1> QED BY <1>4, <1>6, <1>7

(* What the core backup leaves to restore from does not get older, but for  *)
(* a kill between the two renames of replace_latest.                        *)
THEOREM NeverLost == Spec => NothingLost
<1> DEFINE Spared == \A p \in Procs : At(p, "core", "place") => ~Killed(p)
           Kept == \A t \in Restorable : \E u \in Restorable' : t <= u
<1>1. ASSUME IInv PROVE Restorable \subseteq Tree
  BY <1>1 DEF IInv, DiskInv, Restorable, ProcType, Process, Copy
<1>2. ASSUME IInv, Restorable \subseteq Restorable' PROVE Kept
  BY <1>1, <1>2 DEF Tree
<1>3. ASSUME IInv, Next, Spared PROVE Kept
  <2>1. CASE Outside
    <3>1. Restorable = Restorable'
      BY <2>1 DEF Outside, Edit, NextDay, Restorable, At, disk
    <3> QED BY <1>2, <1>3, <3>1
  <2>2. ASSUME NEW p \in Procs, CorePlace(p) PROVE Kept
    BY <1>3, <2>2, PlaceReplaces
  <2>3. ASSUME NEW p \in Procs, Takes(p), ~CorePlace(p) PROVE Restorable \subseteq Restorable'
    <3>1. JobKilled(p) => ~Placing(p)
      <4>1. At(p, "core", "place") => ~Killed(p)  BY <1>3
      <4> QED BY <4>1 DEF JobKilled, Placing
    <3> HIDE DEF Spared, Kept
    <3>2. CASE CoreAside(p)  BY <1>3, <3>2, SetAsideNotLost
    <3>3. CASE CoreSnapshot(p)  BY <1>3, <3>3, SnapshotTakesNothing
    <3>4. CASE Fails(p)  BY <1>3, <3>4, FaultTakesNothing
    <3>5. CASE JobKilled(p)  BY <1>3, <3>1, <3>5, FaultTakesNothing
    <3> QED BY <2>3, <3>2, <3>3, <3>4, <3>5 DEF Takes
  <2>4. ASSUME NEW p \in Procs, ~Takes(p),
               \/ CopyStep(p) \/ Discord(p) \/ HealthVerify(p) \/ HealthRender(p)
               \/ WriteReceipt(p) \/ \E i \in 1 .. Len(Schedule) : Start(p, i)
        PROVE  Restorable \subseteq Restorable'
    <3>1. ~Placing(p)
      <4>1. CASE CopyStep(p)
        <5>1. ASSUME Placing(p) PROVE CorePlace(p)
          <6>1. proc[p].role = "core" /\ proc[p].pc = "place"  BY <5>1 DEF Placing, At
          <6>2. ~(CoreLock(p) \/ CoreCollect(p) \/ CoreSnapshot(p) \/ CoreAside(p) \/ CoreVerify(p))
            BY <6>1 DEF CoreLock, CoreCollect, CoreSnapshot, CoreAside, CoreVerify, At
          <6>3. ~(AssetsCopy(p) \/ AssetsPublish(p) \/ AssetsCanary(p) \/ AssetsPoint(p) \/ AssetsVerify(p))
            BY <6>1 DEF AssetsCopy, AssetsPublish, AssetsCanary, AssetsPoint, AssetsVerify, At
          <6> QED BY <4>1, <6>2, <6>3 DEF CopyStep
        <5> QED BY <2>4, <5>1 DEF Takes
      <4>2. CASE ~CopyStep(p)
        <5>1. Discord(p) \/ HealthVerify(p) \/ HealthRender(p) \/ WriteReceipt(p) => ~Placing(p)
          BY DEF Placing, At, Discord, HealthVerify, HealthRender, WriteReceipt
        <5>2. ASSUME NEW i \in 1 .. Len(Schedule), Start(p, i) PROVE ~Placing(p)
          <6>1. proc[p].role = "none"  BY <5>2 DEF Start, Idle
          <6> QED BY <6>1 DEF Placing, At
        <5> QED BY <2>4, <4>2, <5>1, <5>2
      <4> QED BY <4>1, <4>2
    <3> HIDE DEF Spared, Kept
    <3> QED BY <1>3, <2>4, <3>1, MostStepsTakeNothing
  <2> DEFINE Small(p) == \/ CopyStep(p) \/ Discord(p) \/ HealthVerify(p) \/ HealthRender(p)
                         \/ WriteReceipt(p) \/ \E i \in 1 .. Len(Schedule) : Start(p, i)
  <2>5. Outside \/ \E p \in Procs : Takes(p) \/ Small(p)
    BY <1>3 DEF Next, Copies, Takes
  <2>6. ASSUME NEW p \in Procs, Takes(p) \/ Small(p) PROVE Kept
    <3> HIDE DEF Spared, Kept
    <3>1. CASE CorePlace(p)  BY <2>2, <3>1
    <3>2. CASE Takes(p) /\ ~CorePlace(p)  BY <1>2, <1>3, <2>3, <3>2
    <3>3. CASE ~Takes(p) /\ Small(p)  BY <1>2, <1>3, <2>4, <3>3
    <3> QED BY <2>6, <3>1, <3>2, <3>3
  <2> HIDE DEF Spared, Kept, Small
  <2> QED BY <2>1, <2>5, <2>6
<1>4. IInv /\ [Next]_vars => [Spared => Kept]_vars
  BY <1>3
<1> QED BY <1>4, Inductive, PTL DEF Spec, NothingLost
-----------------------------------------------------------------------------
(* What a role loads as in the report is a status.                          *)
LEMMA LoadedStatus ==
  ASSUME IInv, NEW r \in Reported
  PROVE  Loaded(r) \in Status /\ Effective(r) \in Status
BY DEF IInv, OpsType, Loaded, Effective, Receipt, Status

(* The worst of some statuses is one of them, and ok only if all are.       *)
LEMMA WorstOk ==
  ASSUME NEW S \in SUBSET Status, S # {}
  PROVE  Worst(S) = "ok" <=> S = {"ok"}
<1>1. /\ \A y \in Status : Rank[y] \in 0 .. 3
      /\ Rank["ok"] = 0 /\ Rank["pending"] = 1 /\ Rank["warning"] = 2 /\ Rank["error"] = 3
  BY DEF Rank, Status
<1>2. \E x \in S : \A y \in S : Rank[y] <= Rank[x]
  <2>1. CASE "error" \in S  BY <1>1, <2>1 DEF Status
  <2>2. CASE "error" \notin S /\ "warning" \in S  BY <1>1, <2>2 DEF Status
  <2>3. CASE "error" \notin S /\ "warning" \notin S /\ "pending" \in S  BY <1>1, <2>3 DEF Status
  <2>4. CASE S = {"ok"}  BY <1>1, <2>4
  <2> QED BY <2>1, <2>2, <2>3, <2>4 DEF Status
<1> HIDE DEF Rank
<1>3. Worst(S) \in S /\ \A y \in S : Rank[y] <= Rank[Worst(S)]
  BY <1>2 DEF Worst
<1>4. ASSUME Worst(S) = "ok", NEW y \in S PROVE y = "ok"
  <2>1. Rank[y] <= 0  BY <1>1, <1>3, <1>4
  <2>2. y \in {"ok", "pending", "warning", "error"}  BY DEF Status
  <2> QED BY <1>1, <2>1, <2>2
<1>5. Worst(S) = "ok" => S = {"ok"}  BY <1>4
<1> QED BY <1>3, <1>5

LEMMA VerdictOk ==
  ASSUME IInv
  PROVE  Verdict = "ok" <=> \A r \in Reported : Effective(r) = "ok"
<1> DEFINE S == {Effective(r) : r \in Reported}
<1>1. S \in SUBSET Status  BY LoadedStatus
<1>2. S # {}  BY DEF Reported
<1>3. S = {"ok"} <=> \A r \in Reported : Effective(r) = "ok"
  <2>1. ASSUME S = {"ok"}, NEW r \in Reported PROVE Effective(r) = "ok"
    <3>1. Effective(r) \in S  OBVIOUS
    <3> HIDE DEF S
    <3> QED BY <2>1, <3>1
  <2>2. ASSUME \A r \in Reported : Effective(r) = "ok" PROVE S = {"ok"}
    BY <1>2, <2>2
  <2> HIDE DEF S
  <2> QED BY <2>1, <2>2
<1>4. Verdict = Worst(S)  BY DEF Verdict
<1> HIDE DEF S
<1> QED BY <1>1, <1>2, <1>3, <1>4, WorstOk

(* A receipt that loads as ok exists, is current and says so.               *)
LEMMA LoadedOk ==
  ASSUME NEW r \in Reported, Loaded(r) = "ok"
  PROVE  receipts[r] # None /\ Current(r) /\ receipts[r].status = "ok"
BY DEF Loaded

(* A report without a complaint has a core snapshot of this day or the one  *)
(* before, asset snapshots within their age, and jobs verified today.       *)
THEOREM GreenIsCopied == Spec => GreenMeansCopies
<1> DEFINE Copied == /\ \E d \in Published("core") : d + 1 >= day
                     /\ \E d \in Published("assets") : d + AssetAge + 1 >= day
                     /\ receipts["topology"].day = day
<1>1. ASSUME IInv, Verdict = "ok" PROVE Copied
  <2>1. \A r \in {"core", "assets", "topology"} :
           receipts[r] # None /\ Current(r) /\ receipts[r].status = "ok"
    BY <1>1, VerdictOk, LoadedOk DEF Effective, Reported
  <2>2. receipts["core"].day = day /\ receipts["topology"].day = day
    BY <2>1 DEF Current
  <2>3. receipts["assets"].day + AssetAge >= day
    BY <2>1 DEF Current
  <2>4. PICK d \in Published("core") : d + 1 >= day
    BY <1>1, <2>1, <2>2 DEF IInv, Backed
  <2>5. PICK e \in Published("assets") : e + 1 >= receipts["assets"].day
    BY <1>1, <2>1 DEF IInv, Backed
  <2>6. receipts["assets"].day \in Day /\ e \in Day /\ day \in Day
    BY <1>1, <2>1 DEF IInv, OpsType, DiskInv, Receipt, Reported, Published
  <2>7. e + AssetAge + 1 >= day
    BY <2>3, <2>5, <2>6, ScheduleAssumption, CopiesAssumption DEF Day
  <2> QED BY <2>2, <2>4, <2>7
<1> HIDE DEF Copied
<1>2. IInv => [\A p \in Procs : HealthRender(p) /\ Verdict = "ok" => Copied]_vars
  BY <1>1
<1> QED BY <1>2, Inductive, PTL DEF GreenMeansCopies, Copied

(* A daily role without a receipt of today, or with one that reports a      *)
(* failure or a skip, keeps the report from being without a complaint.      *)
THEOREM TroubleNotHidden == Spec => TroubleShown
<1>1. ASSUME IInv, NEW r \in Troubled PROVE Effective(r) # "ok"
  <2>1. r \in Reported /\ r # "assets"  BY DEF Troubled, Daily
  <2>2. Loaded(r) # "ok"
    BY <2>1, LoadedOk DEF Troubled, Current
  <2>3. CASE r # "sync"  BY <2>2, <2>3 DEF Effective
  <2>4. CASE r = "sync"
    BY <2>2, <2>4 DEF Effective, Superseded, Troubled, Loaded, Current
  <2> QED BY <2>3, <2>4
<1>2. ASSUME IInv, Troubled # {} PROVE Verdict # "ok"
  BY <1>1, <1>2, VerdictOk DEF Troubled, Daily
<1>3. IInv => [\A p \in Procs : HealthRender(p) /\ Troubled # {} => Verdict # "ok"]_vars
  BY <1>2
<1> QED BY <1>3, Inductive, PTL DEF TroubleShown
=============================================================================
