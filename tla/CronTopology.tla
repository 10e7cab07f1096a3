--------------------------- MODULE CronTopology ---------------------------
(***************************************************************************)
(* manage_cron_topology.py: the transactions that stop, stage, enable and   *)
(* restore the product's own cron jobs.                                     *)
(*                                                                          *)
(* A slot is an owned job of a role, found by its declaration key, or the   *)
(* legacy job an adoption map names for it.  A manager process works down a *)
(* list of calls; a call is one or several OpenClaw commands, and each may  *)
(* fail before or after it took effect (an error, a timeout) or answer      *)
(* success without an effect.  Jobs the map and the keys do not name are    *)
(* never addressed by any call and are left out.                            *)
(***************************************************************************)
EXTENDS Naturals, FiniteSets, Sequences, SequencesExt, Functions

CONSTANTS
    Roles,          \* the roles of the manifest
    Adoptable,      \* those whose legacy job an adoption map may name
    NoJob,          \* the slot is empty
    None,           \* no transaction
    MaxFaults,      \* commands that misbehave, steps that fail, kills
    MaxStarts       \* job starts by the scheduler

ASSUME TopologyAssumption ==
    /\ IsFiniteSet(Roles) /\ Adoptable \subseteq Roles
    /\ MaxFaults \in Nat /\ MaxStarts \in Nat

VARIABLES
    jobs,           \* slot -> the job in OpenClaw's store
    running,        \* slots whose job is running
    mgr,            \* the manager process
    receipts,       \* the transaction directories of the current installation
    faults, starts  \* counters of the bounds

topologyVars == <<jobs, running, mgr, receipts, faults, starts>>

Owned == {"owned"} \X Roles
Legacy == {"legacy"} \X Adoptable
Slots == Owned \cup Legacy

Job == [code : {"old", "half", "new", "legacy"}, on : BOOLEAN]
Desired(enabled) == [code |-> "new", on |-> enabled]
LegacyJob(enabled) == [code |-> "legacy", on |-> enabled]

Present(js) == {s \in Slots : js[s] # NoJob}
Enabled(js) == {s \in Present(js) : js[s].on}
Off(job) == [job EXCEPT !.on = FALSE]

Call == [do : {"off", "on", "set", "stage", "remove", "restore", "quiet", "staged", "canary", "verify"},
         slot : Slots \cup {None}]
Receipt == [before : [Slots -> Job \cup {NoJob}], acts : [Owned -> {"create", "update", "unchanged", "none"}]]
ASSUME DistinctAssumption == NoJob \notin Job /\ None \notin Receipt /\ None \notin Slots
Idle == [op |-> "none", todo |-> <<>>, rec |-> None, tried |-> {}, off |-> {}, errors |-> FALSE,
         undo |-> FALSE, result |-> "none"]

TopologyType ==
    /\ jobs \in [Slots -> Job \cup {NoJob}] /\ running \subseteq Slots
    /\ receipts \in [{"quiesce", "apply"} -> Receipt \cup {None}]
    /\ mgr.op \in {"none", "quiesce", "apply", "rollback"} /\ mgr.todo \in Seq(Call)
    /\ mgr.rec \in Receipt \cup {None} /\ mgr.tried \subseteq Owned /\ mgr.off \subseteq Slots
    /\ mgr.result \in {"none", "prepared", "ready", "failed", "incomplete", "restored"}
    /\ faults \in 0 .. MaxFaults /\ starts \in 0 .. MaxStarts
-----------------------------------------------------------------------------
Calls(what, slots) == [i \in 1 .. Cardinality(slots) |-> [do |-> what, slot |-> SetToSeq(slots)[i]]]
Probe(what) == <<[do |-> what, slot |-> None]>>

\* The values a slot goes through while the commands of a call are executed.
\* An added job has no alert yet, and is disabled, until it is edited.
Stages(c, before) ==
    LET job == jobs[c.slot]
        half == [Desired(FALSE) EXCEPT !.code = "half"]
    IN  IF job = NoJob THEN IF c.do = "stage" THEN <<half, Desired(FALSE)>> ELSE <<NoJob>>
        ELSE CASE c.do = "off" -> <<Off(job)>>
               [] c.do = "on" -> <<[job EXCEPT !.on = TRUE]>>
               [] c.do = "set" -> <<[job EXCEPT !.on = before[c.slot].on]>>
               [] c.do = "stage" -> <<Desired(FALSE)>>
               [] c.do = "remove" -> <<NoJob>>
               [] c.do = "restore" -> <<half, Off(before[c.slot]), before[c.slot]>>

\* defect: a disabled job passes for an unchanged one.
PlanOfContent(js) == [s \in Owned |-> IF js[s] = NoJob THEN "create"
                                      ELSE IF js[s].code = "new" THEN "unchanged" ELSE "update"]
\* build_plan: what has to happen to each owned job.
PlanOf(js) == [s \in Owned |-> IF js[s] = NoJob THEN "create"
                               ELSE IF js[s] = Desired(TRUE) THEN "unchanged" ELSE "update"]
ToStage(rec) == {s \in Owned : rec.acts[s] \in {"create", "update"}}

\* An adopted job is the one the map fingerprints, enabled state included, or,
\* with the receipt of an earlier quiescence, that job disabled.
AdoptionHolds(prepared) ==
    \A s \in Legacy : jobs[s] = NoJob \/ jobs[s] = LegacyJob(~prepared)
\* An owned job and the legacy job of its role.
Coexists(s) == jobs[s] # NoJob /\ jobs[<<"owned", s[2]>>] # NoJob

QuiesceCalls == Calls("off", Enabled(jobs)) \o Probe("quiet")
ApplyCalls(rec) ==
    Calls("off", Enabled(jobs) \cap Legacy) \o Calls("off", Enabled(jobs) \cap Owned)
      \o Calls("stage", ToStage(rec)) \o Probe("staged") \o Probe("canary")
      \o Calls("on", Owned) \o Probe("verify")

Begins(op, rec, calls) == mgr' = [Idle EXCEPT !.op = op, !.rec = rec, !.todo = calls]
Ends(result) == mgr' = [mgr EXCEPT !.todo = <<>>, !.result = result, !.op = "none"]

\* defect: the adopted jobs are left out of the receipt.
ReceiptOfOwned(acts) == [before |-> [s \in Slots |-> IF s \in Owned THEN jobs[s] ELSE NoJob], acts |-> acts]
\* write_receipt: the contract of every managed job as it is now.
ReceiptOf(acts) == [before |-> jobs, acts |-> acts]

\* The manager ends before its first command, by its own choice or because
\* the inventory (list_jobs) cannot be read.
AnswersAtOnce(result) == mgr' = [Idle EXCEPT !.result = result] /\ UNCHANGED receipts
Unread(result) == faults < MaxFaults /\ faults' = faults + 1 /\ AnswersAtOnce(result)

\* prepare_quiescence up to its first command: refuse, or commit the receipt.
StartQuiesce(prepared) ==
    \/ Unread("failed")
    \/ /\ UNCHANGED faults
       /\ LET rec == ReceiptOf([s \in Owned |-> IF jobs[s] = NoJob THEN "none" ELSE "update"])
          IN  IF ~AdoptionHolds(prepared) \/ running # {} THEN AnswersAtOnce("failed")
              ELSE IF Present(jobs) = {} THEN AnswersAtOnce("prepared")
              ELSE receipts' = [receipts EXCEPT !.quiesce = rec] /\ Begins("quiesce", rec, QuiesceCalls)

\* apply_plan up to its first command.
StartApply(prepared) ==
    \/ Unread("failed")
    \/ /\ UNCHANGED faults
       /\ LET rec == ReceiptOf(PlanOf(jobs))
          IN  IF /\ AdoptionHolds(prepared)
                 /\ \A s \in Owned : rec.acts[s] = "unchanged"
                 /\ Enabled(jobs) \cap Legacy = {}
              THEN AnswersAtOnce("ready")
              ELSE IF \/ ~AdoptionHolds(prepared) \/ running # {}
                      \/ \E s \in Legacy : Coexists(s) /\ jobs[s].on
              THEN AnswersAtOnce("failed")
              ELSE receipts' = [receipts EXCEPT !.apply = rec] /\ Begins("apply", rec, ApplyCalls(rec))

\* rollback_committed_transaction: the calls follow from the receipt, the
\* actions in the order of the plan and then the adopted jobs.
Reverts(rec) ==
    LET order == SetToSeq(ToStage(rec))
    IN  [i \in 1 .. Cardinality(ToStage(rec)) |->
           [do |-> IF rec.acts[order[i]] = "create" THEN "remove" ELSE "restore", slot |-> order[i]]]
StartRollback(rec) ==
    \/ Unread("incomplete")
    \/ /\ Begins("rollback", rec, Reverts(rec) \o Calls("set", Present(rec.before) \cap Legacy))
       /\ UNCHANGED <<receipts, faults>>
-----------------------------------------------------------------------------
\* rollback of apply_plan, and the except clause of prepare_quiescence: undo
\* what was tried, in reverse order.
UndoCalls(before, tried, off) ==
    LET created == {s \in tried : before[s] = NoJob}
    IN  Reverse(Calls("remove", created)) \o Reverse(Calls("restore", tried \ created))
          \o Reverse(Calls("set", off \cap Legacy)) \o Reverse(Calls("set", off \cap Owned))

\* defect: the adopted jobs are not compared.
RestoredOwned(before, created) ==
    /\ \A s \in created : jobs[s] = NoJob
    /\ \A s \in Present(before) \cap Owned : jobs[s] = before[s]
\* rollback_verification_errors, on the inventory read back.
Restored(before, created) ==
    /\ \A s \in created : jobs[s] = NoJob
    /\ \A s \in Present(before) : jobs[s] = before[s]
CreatedBy(m) == IF m.op = "rollback" THEN {s \in Owned : m.rec.acts[s] = "create"}
                ELSE {s \in m.tried : m.rec.before[s] = NoJob}

IsProbe(c) == c.do \in {"quiet", "staged", "canary", "verify"}
\* defect: no second look at what runs.
ProbeHoldsEnabled(c) ==
    CASE c.do = "quiet" -> Enabled(jobs) = {}
      [] c.do = "staged" -> \A s \in Owned : jobs[s] = Desired(FALSE)
      [] c.do = "canary" -> TRUE
      [] c.do = "verify" -> \A s \in Owned : PlanOf(jobs)[s] = "unchanged"
ProbeHolds(c) ==
    CASE c.do = "quiet" -> Enabled(jobs) = {} /\ running \cap Present(jobs) = {}
      [] c.do = "staged" -> \A s \in Owned : jobs[s] = Desired(FALSE)
      [] c.do = "canary" -> TRUE
      [] c.do = "verify" -> /\ mgr.off \cap Legacy \cap Enabled(jobs) = {}
                            /\ \A s \in Owned : PlanOf(jobs)[s] = "unchanged"

Attempted(c) == mgr.tried \cup (IF c.do = "stage" THEN {c.slot} ELSE {})
Proceeds(c) ==
    mgr' = [mgr EXCEPT !.todo = Tail(@), !.tried = Attempted(c),
                       !.off = @ \cup (IF c.do = "off" THEN {c.slot} ELSE {})]
\* A rollback notes the failure and goes on; anything else turns to its undo.
Raises(c) ==
    mgr' = IF mgr.undo \/ mgr.op = "rollback"
           THEN [mgr EXCEPT !.todo = Tail(@), !.errors = TRUE]
           ELSE [mgr EXCEPT !.undo = TRUE, !.tried = Attempted(c),
                            !.todo = UndoCalls(mgr.rec.before, Attempted(c), mgr.off)]

ManagerCall ==
    /\ mgr.op # "none" /\ mgr.todo # <<>> /\ ~IsProbe(Head(mgr.todo))
    /\ \E c \in {Head(mgr.todo)} : \E stages \in {Stages(c, mgr.rec.before)} :
         /\ jobs' = [jobs EXCEPT ![c.slot] = Last(stages)]
         /\ Proceeds(c)
    /\ UNCHANGED <<running, receipts, faults, starts>>

\* Success is reported and nothing changed.
ManagerCallIgnored ==
    /\ mgr.op # "none" /\ mgr.todo # <<>> /\ ~IsProbe(Head(mgr.todo)) /\ faults < MaxFaults
    /\ Proceeds(Head(mgr.todo)) /\ faults' = faults + 1
    /\ UNCHANGED <<jobs, running, receipts, starts>>

\* An error or a timeout after none, some or all of the commands took effect.
ManagerCallFails ==
    /\ mgr.op # "none" /\ mgr.todo # <<>> /\ ~IsProbe(Head(mgr.todo)) /\ faults < MaxFaults
    /\ \E c \in {Head(mgr.todo)} :
         \E job \in {jobs[c.slot]} \cup Range(Stages(c, mgr.rec.before)) :
            /\ jobs' = [jobs EXCEPT ![c.slot] = job]
            /\ Raises(c)
    /\ faults' = faults + 1
    /\ UNCHANGED <<running, receipts, starts>>

ManagerProbe ==
    /\ mgr.op # "none" /\ mgr.todo # <<>> /\ IsProbe(Head(mgr.todo))
    /\ \E c \in {Head(mgr.todo)} : IF ProbeHolds(c) THEN Proceeds(c) ELSE Raises(c)
    /\ UNCHANGED <<jobs, running, receipts, faults, starts>>

ManagerProbeFails ==
    /\ mgr.op # "none" /\ mgr.todo # <<>> /\ IsProbe(Head(mgr.todo)) /\ faults < MaxFaults
    /\ Raises(Head(mgr.todo)) /\ faults' = faults + 1
    /\ UNCHANGED <<jobs, running, receipts, starts>>

ManagerEnds ==
    /\ mgr.op # "none" /\ mgr.todo = <<>>
    /\ \E unreadable \in IF faults < MaxFaults THEN BOOLEAN ELSE {FALSE} :
         /\ faults' = faults + IF unreadable THEN 1 ELSE 0
         /\ IF mgr.undo \/ mgr.op = "rollback"
            THEN Ends(IF mgr.errors \/ unreadable \/ ~Restored(mgr.rec.before, CreatedBy(mgr))
                      THEN "incomplete" ELSE IF mgr.undo THEN "failed" ELSE "restored")
            ELSE ~unreadable /\ Ends(IF mgr.op = "quiesce" THEN "prepared" ELSE "ready")
    /\ UNCHANGED <<jobs, running, receipts, starts>>

\* The scheduler starts an enabled job; a running job ends in its own time.
JobStarts ==
    /\ starts < MaxStarts
    /\ \E s \in Enabled(jobs) \ running : running' = running \cup {s}
    /\ starts' = starts + 1
    /\ UNCHANGED <<jobs, mgr, receipts, faults>>

ManagerNext == \/ ManagerCall \/ ManagerCallIgnored \/ ManagerCallFails
               \/ ManagerProbe \/ ManagerProbeFails \/ ManagerEnds
=============================================================================
