----------------------------- MODULE Operations -----------------------------
(***************************************************************************)
(* A day of the customer's cron: run_managed_component.py runs the commands *)
(* of a role and writes the role's receipt, and the health report           *)
(* (backup_health_report.py) reads the receipts of the day.  The jobs that  *)
(* read Discord are here only what their receipts tell: whether they got    *)
(* the lock, and whether work is left in the queue.                         *)
(***************************************************************************)
EXTENDS RecoveryCopies, Sequences, Functions

CONSTANTS AssetAge,      \* the days a monthly receipt counts
          Schedule,      \* the roles in the order cron starts them in a day
          MaxStarts      \* bound

ASSUME ScheduleAssumption == /\ Schedule \in Seq({"core", "assets", "sync", "audit", "health"}) 
                      /\ AssetAge \in Nat /\ MaxStarts \in Nat

VARIABLES receipts,      \* role -> its component receipt, or None
          auditLater,    \* the audit's receipt is newer than the sync's
          clock,         \* the last place of the schedule that was reached
          starts         \* counter of the bound

opsVars == <<receipts, auditLater, clock, starts>>
vars == <<copiesVars, opsVars>>

Reported == {"core", "assets", "sync", "audit", "topology"}
Daily == Reported \ {"assets"}
Status == {"ok", "pending", "warning", "error"}
Receipt == [status : Status, day : Day]

TypeOK ==
  /\ CopiesType
  /\ receipts \in [Reported -> Receipt \cup {None}]
  /\ auditLater \in BOOLEAN /\ clock \in 0 .. Len(Schedule) /\ starts \in 0 .. MaxStarts
  /\ \A p \in Procs : /\ proc[p].role \in Range(Schedule) \cup {"none"}
                      /\ coreLock = p => At(p, "core", proc[p].pc)

(* The installer writes the receipt of the monthly role before its first    *)
(* cycle (write_not_due_baselines).                                         *)
Init == /\ CopiesInit
        /\ receipts = [r \in Reported |-> IF r = "assets" THEN [status |-> "pending", day |-> 1] ELSE None]
        /\ auditLater = FALSE /\ clock = 0 /\ starts = 0

(* Cron starts a role at its time whether or not earlier ones have ended (the *)
(* assets role on the first of the month); a start may be missed.  run_role takes the date once, at its start.      *)
Start(p, i) ==
  /\ Schedule[i] = "assets" => day = 1
  /\ proc[p] = Idle /\ clock < i /\ clock' = i /\ starts < MaxStarts /\ starts' = starts + 1
  /\ proc' = [proc EXCEPT ![p] = [Idle EXCEPT !.role = Schedule[i], !.pc = "begin", !.day = day]]
  /\ UNCHANGED <<outside, disk, coreLock, faults, receipts, auditLater>>

Copies(p) == CopyStep(p) /\ UNCHANGED opsVars
-----------------------------------------------------------------------------
(* The sync may find the archive's lock taken (by the backlog worker, the   *)
(* weekly job, another sync) and is then skipped; the audit takes no lock.  *)
(* Both report whether active items are left in the queue.                  *)
Discord(p) ==
  /\ proc[p].role \in {"sync", "audit"} /\ proc[p].pc = "begin"
  /\ \/ \E left \in BOOLEAN : proc' = [proc EXCEPT ![p] = [Ended(p, "ok") EXCEPT !.saw = left]]
     \/ proc[p].role = "sync" /\ Exit(p, "skip")
  /\ Quiet /\ UNCHANGED <<disk, coreLock, opsVars>>
Fails(p) == StepFails(p) /\ proc[p].role # "health" /\ UNCHANGED opsVars

(* success_summary, is_safe_lock_skip. *)
StatusOf(p) == CASE proc[p].exit = "error" -> "error"
                 [] proc[p].exit = "skip" -> "warning"
                 [] OTHER -> IF proc[p].saw THEN "pending" ELSE "ok"
WriteReceipt(p) ==
  /\ proc[p].pc = "ended" /\ proc[p].role # "health"
  /\ receipts' = [receipts EXCEPT ![proc[p].role] = [status |-> StatusOf(p), day |-> day]]
  /\ auditLater' = IF proc[p].role \in {"audit", "sync"} THEN proc[p].role = "audit" ELSE auditLater
  /\ proc' = [proc EXCEPT ![p] = Idle]
  /\ Quiet /\ UNCHANGED <<disk, coreLock, clock, starts>>
JobKilled(p) == Killed(p) /\ UNCHANGED opsVars
-----------------------------------------------------------------------------
Current(r) == IF r = "assets" THEN receipts[r].day + AssetAge >= day ELSE receipts[r].day = day
\* defect: a role without a receipt has nothing to complain of.
LoadedIfPresent(r) == IF receipts[r] = None THEN "ok" ELSE IF Current(r) THEN receipts[r].status ELSE "error"
Loaded(r) == IF receipts[r] = None THEN "pending" ELSE IF Current(r) THEN receipts[r].status ELSE "error"

\* defect: a missing receipt, which loads as pending, is superseded as well.
SupersededMissing == auditLater /\ Loaded("audit") = "ok" /\ Loaded("sync") = "pending"
(* supersede_drained_queue_pending; a missing receipt loads as pending now, *)
(* after any audit.                                                         *)
Superseded == auditLater /\ receipts["sync"] # None /\ Loaded("audit") = "ok" /\ Loaded("sync") = "pending"
Effective(r) == IF r = "sync" /\ Superseded THEN "ok" ELSE Loaded(r)
Rank == [ok |-> 0, pending |-> 1, warning |-> 2, error |-> 3]
Worst(s) == CHOOSE x \in s : \A y \in s : Rank[y] <= Rank[x]
(* render_report; anomalies exist only in receipts that are not ok. *)
Verdict == Worst({Effective(r) : r \in Reported})

(* The report prints Verdict; the cron jobs may have been changed by hand.   *)
HealthVerify(p) ==
  /\ At(p, "health", "begin") /\ Goto(p, "render")
  /\ \E drift \in BOOLEAN :
       receipts' = [receipts EXCEPT !["topology"] = [status |-> IF drift THEN "error" ELSE "ok", day |-> day]]
  /\ Quiet /\ UNCHANGED <<disk, coreLock, auditLater, clock, starts>>
HealthRender(p) ==
  /\ At(p, "health", "render") /\ proc' = [proc EXCEPT ![p] = Idle]
  /\ Quiet /\ UNCHANGED <<disk, coreLock, opsVars>>

Outside == \/ Edit /\ UNCHANGED opsVars
           \/ NextDay /\ clock' = 0 /\ UNCHANGED <<receipts, auditLater, starts>>
Next ==
  \/ Outside
  \/ \E p \in Procs : \/ \E i \in 1 .. Len(Schedule) : Start(p, i)
                      \/ Copies(p)
                      \/ Discord(p) \/ Fails(p)
                      \/ HealthVerify(p) \/ HealthRender(p)
                      \/ WriteReceipt(p) \/ JobKilled(p)
Spec == Init /\ [][Next]_vars
-----------------------------------------------------------------------------
(* The core backup replaces latest/ by two renames.  Whatever a run does,   *)
(* fails at or is killed at, the newest tree there is to restore from (at   *)
(* latest/, set aside by a run, or a snapshot) does not get older; only the *)
(* kill between the two renames may lose what was set aside.                *)
Restorable == ({latest} \cup {snapshots["core"][d] : d \in Day}
               \cup {proc[p].kept : p \in {q \in Procs : At(q, "core", "place")}}) \ {NoTree}
NothingLost ==
  [][(\A p \in Procs : At(p, "core", "place") => ~Killed(p))
       => \A t \in Restorable : \E u \in Restorable' : t <= u]_vars

(* latest.json is trusted by a restore: it names a snapshot that is         *)
(* published and that a restore canary passed on before, although the       *)
(* snapshot is visible from its publication on and runs overlap.            *)
PointerVerified == pointer # 0 => pointer \in Published("assets") /\ pointer \in tested

(* The copies and receipts of all jobs at every moment, with a pointer that *)
(* may be trusted.                                                          *)
OperationsInv == TypeOK /\ PointerVerified

(* Two overlapping core runs never put an older tree at latest/: what a run *)
(* places is at least as new as every snapshot, whoever made it.            *)
LatestForward ==
  [][\A p \in Procs : CorePlace(p) =>
       \A d \in Published("core") : snapshots["core"][d] <= latest']_vars

(* A report without a complaint means there is something to restore from:   *)
(* a core snapshot of this or the previous day, an asset snapshot within    *)
(* its age, and cron jobs that were verified today.                         *)
GreenMeansCopies ==
  [][\A p \in Procs : HealthRender(p) /\ Verdict = "ok" =>
       /\ \E d \in Published("core") : d + 1 >= day
       /\ \E d \in Published("assets") : d + AssetAge + 1 >= day
       /\ receipts["topology"].day = day]_vars

(* A sync that found the lock taken shows in the report until a later sync  *)
(* of the day did its work: an audit without findings does not hide it, a   *)
(* failed run of any role is not hidden either.                             *)
Troubled == {r \in Daily : receipts[r] = None \/ receipts[r].status \in {"warning", "error"} \/ receipts[r].day # day}
TroubleShown == [][\A p \in Procs : HealthRender(p) /\ Troubled # {} => Verdict # "ok"]_vars
=============================================================================
