----------------------------- MODULE Installer -----------------------------
(***************************************************************************)
(* install.py over the cron topology: an upgrade stops every job, takes the *)
(* locks, rewrites configuration and ledger, swaps the skill directory,     *)
(* applies the topology with the new skill's manager and undoes all of it   *)
(* when a step fails.  Between two runs the machine may have died.          *)
(***************************************************************************)
EXTENDS CronTopology

CONSTANTS MaxRuns       \* installer runs

ASSUME InstallerAssumption == MaxRuns \in Nat

VARIABLES
    inst,       \* the installer process
    skill,      \* what the skill directory holds
    config,     \* the config file: its content, and whether it names a prepared receipt
    ledger,     \* the state ledger: saves it holds, and whether its bytes are canonical
    lock,       \* .channel_backup.lock
    was         \* the system as the current run found it (history)

installVars == <<jobs, running, mgr, receipts, faults, starts, inst, skill, config, ledger, lock, was>>

Steps == {"idle", "quiesce", "quiescing", "lock", "files", "aside", "place", "apply", "applying", "last",
          "undoApply", "undoingApply", "undoQuiesce", "undoingQuiesce", "unplace", "unaside", "unfile",
          "recoverApply", "recoveringApply", "recoverQuiesce", "recoveringQuiesce"}
Free == <<"free">>
Mine == <<"installer">>
Released == IF lock = Mine THEN Free ELSE lock
Found == [jobs |-> jobs, skill |-> skill, config |-> config]
NotStarted == [pc |-> "idle", runs |-> 0, seen |-> [n |-> 0, canon |-> TRUE], kept |-> "absent",
               swapped |-> FALSE, preserve |-> FALSE, result |-> "none"]

TypeOK ==
    /\ TopologyType
    /\ inst.pc \in Steps /\ inst.runs \in 0 .. MaxRuns /\ inst.seen.n <= ledger.n
    /\ inst.result \in {"none", "READY", "BLOCKED", "INCOMPLETE", "KILLED", "RECOVERED"}
    /\ skill \in {"absent", "old", "new"}
    /\ config \in [is : {"none", "old", "new"}, prepared : BOOLEAN]
    /\ lock \in {Free, Mine} \cup Slots /\ (lock = Mine => inst.pc # "idle")

InstallInit ==
    /\ config \in [is : {"none", "old"}, prepared : {FALSE}]
    /\ skill = IF config.is = "none" THEN "absent" ELSE "old"
    /\ jobs \in {js \in [Slots -> {NoJob, LegacyJob(TRUE)} \cup [code : {"old"}, on : BOOLEAN]] :
                   /\ \A s \in Owned : js[s] # NoJob => js[s].code = "old" /\ config.is = "old"
                   /\ \A s \in Legacy : js[s] # NoJob => js[s].code = "legacy" /\ js[<<"owned", s[2]>>] = NoJob}
    /\ running = {} /\ mgr = Idle /\ receipts = [t \in {"quiesce", "apply"} |-> None]
    /\ faults = 0 /\ starts = 0
    /\ inst = NotStarted /\ ledger = [n |-> 0, canon |-> TRUE] /\ lock = Free /\ was = Found
-----------------------------------------------------------------------------
Goes(pc) == inst' = [inst EXCEPT !.pc = pc]
Finishes(result) == inst' = [inst EXCEPT !.pc = "idle", !.result = result]
StillTopology == UNCHANGED <<jobs, running, starts>>
StillFiles == UNCHANGED <<skill, config, ledger, was>>
NoManager == UNCHANGED <<mgr, receipts, faults>>

ChangeExpected == skill # "new" \/ config.is # "new" \/ ~ledger.canon
\* Where the except clause begins, by what there is to undo.
UndoFrom(applied) ==
    IF applied THEN "undoApply" ELSE IF receipts.quiesce # None THEN "undoQuiesce"
    ELSE IF inst.swapped THEN "unplace" ELSE "unfile"

\* Configuration, state and the copies to restore are read here, before any
\* job is stopped and before any lock is taken.  A run that gives up later
\* gives these copies back, whether or not it has written a file.
InstallStart ==
    /\ inst.pc = "idle" /\ inst.runs < MaxRuns /\ mgr.op = "none"
    /\ LET blocked == config.is = "none" /\ Present(jobs) \cap Legacy # {}
       IN  inst' = [NotStarted EXCEPT !.runs = inst.runs + 1, !.seen = ledger,
                       !.pc = IF blocked THEN "unfile"
                              ELSE IF config.is # "none" /\ ChangeExpected THEN "quiesce" ELSE "lock"]
    /\ was' = Found /\ receipts' = [t \in {"quiesce", "apply"} |-> None]
    /\ StillTopology /\ UNCHANGED <<mgr, faults, skill, config, ledger, lock>>

InstallQuiesce ==
    /\ inst.pc = "quiesce" /\ StartQuiesce(config.prepared) /\ Goes("quiescing")
    /\ StillTopology /\ StillFiles /\ UNCHANGED lock

InstallQuiesced ==
    /\ inst.pc = "quiescing" /\ mgr.op = "none"
    /\ CASE mgr.result = "prepared" -> Goes("lock")
         [] mgr.result = "failed" -> Goes("unfile")
         [] mgr.result = "incomplete" -> Finishes("INCOMPLETE")
    /\ StillTopology /\ StillFiles /\ NoManager /\ UNCHANGED lock

InstallLock ==
    /\ inst.pc = "lock"
    /\ IF config.is = "none" THEN Goes("files") /\ UNCHANGED lock
       ELSE IF lock = Free THEN Goes("files") /\ lock' = Mine
       ELSE Goes(UndoFrom(FALSE)) /\ UNCHANGED lock
    /\ StillTopology /\ StillFiles /\ NoManager

\* Config, state, queue and the baselines, each replaced when it differs.
InstallFiles ==
    /\ inst.pc = "files"
    /\ config' = [is |-> "new",
                  prepared |-> config.prepared \/ (receipts.quiesce # None /\ Present(jobs) \cap Legacy # {})]
    /\ ledger' = [n |-> inst.seen.n, canon |-> TRUE]
    /\ Goes(IF skill = "new" THEN "apply" ELSE "aside")
    /\ StillTopology /\ NoManager /\ UNCHANGED <<skill, was, lock>>

InstallAside ==
    /\ inst.pc = "aside"
    /\ skill' = "absent" /\ inst' = [inst EXCEPT !.kept = skill, !.pc = "place"]
    /\ StillTopology /\ NoManager /\ UNCHANGED <<config, ledger, was, lock>>

InstallPlace ==
    /\ inst.pc = "place"
    /\ skill' = "new" /\ inst' = [inst EXCEPT !.swapped = TRUE, !.pc = "apply"]
    /\ StillTopology /\ NoManager /\ UNCHANGED <<config, ledger, was, lock>>

\* Writing a file or placing the skill fails; the old skill is put back first.
InstallStepFails ==
    /\ inst.pc \in {"files", "aside", "place"} /\ faults < MaxFaults
    /\ skill' = IF inst.pc = "place" THEN inst.kept ELSE skill
    /\ Goes(UndoFrom(FALSE)) /\ faults' = faults + 1
    /\ StillTopology /\ UNCHANGED <<mgr, receipts, config, ledger, was, lock>>

InstallApply ==
    /\ inst.pc = "apply" /\ StartApply(config.prepared) /\ Goes("applying")
    /\ StillTopology /\ StillFiles /\ UNCHANGED lock

InstallApplied ==
    /\ inst.pc = "applying" /\ mgr.op = "none"
    /\ CASE mgr.result = "ready" -> Goes("last") /\ UNCHANGED lock
         [] mgr.result = "failed" -> Goes(UndoFrom(FALSE)) /\ UNCHANGED lock
         [] mgr.result = "incomplete" -> Finishes("INCOMPLETE") /\ lock' = Released
    /\ StillTopology /\ StillFiles /\ NoManager

InstallReady ==
    /\ inst.pc = "last"
    /\ Finishes("READY") /\ lock' = Released
    /\ StillTopology /\ StillFiles /\ NoManager

\* The raw archive differs from the hash taken under the lock.
InstallRawChanged ==
    /\ inst.pc = "last" /\ faults < MaxFaults
    /\ Goes(UndoFrom(receipts.apply # None)) /\ faults' = faults + 1
    /\ StillTopology /\ StillFiles /\ UNCHANGED <<mgr, receipts, lock>>
-----------------------------------------------------------------------------
\* The except clause: committed topology, quiescence, skill, files.
InstallUndoCron ==
    \E t \in {<<"undoApply", "apply", "undoingApply">>, <<"undoQuiesce", "quiesce", "undoingQuiesce">>} :
        /\ inst.pc = t[1] /\ StartRollback(receipts[t[2]]) /\ Goes(t[3])
        /\ StillTopology /\ StillFiles /\ UNCHANGED lock

InstallUndoneCron ==
    /\ inst.pc \in {"undoingApply", "undoingQuiesce"} /\ mgr.op = "none"
    /\ IF mgr.result = "incomplete"
       THEN Finishes("INCOMPLETE") /\ lock' = Released
       ELSE /\ UNCHANGED lock
            /\ Goes(IF inst.pc = "undoingApply" THEN UndoFrom(FALSE)
                    ELSE IF inst.swapped THEN "unplace" ELSE "unfile")
    /\ StillTopology /\ StillFiles /\ NoManager

InstallUnplace ==
    /\ inst.pc = "unplace" /\ skill' = "absent" /\ Goes("unaside")
    /\ StillTopology /\ NoManager /\ UNCHANGED <<config, ledger, was, lock>>

InstallUnaside ==
    /\ inst.pc = "unaside" /\ skill' = inst.kept /\ Goes("unfile")
    /\ StillTopology /\ NoManager /\ UNCHANGED <<config, ledger, was, lock>>

\* restore_file on every copy, also beside a job that holds the lock.
InstallUnfile ==
    /\ inst.pc = "unfile"
    /\ config' = was.config /\ ledger' = inst.seen
    /\ Finishes(IF inst.preserve THEN "INCOMPLETE" ELSE "BLOCKED")
    /\ lock' = Released
    /\ StillTopology /\ NoManager /\ UNCHANGED <<skill, was>>

\* Restoring the skill fails: the files are restored all the same.
InstallUndoFails ==
    /\ inst.pc \in {"unplace", "unaside"} /\ faults < MaxFaults
    /\ inst' = [inst EXCEPT !.preserve = TRUE, !.pc = "unfile"] /\ faults' = faults + 1
    /\ StillTopology /\ StillFiles /\ UNCHANGED <<mgr, receipts, lock>>
-----------------------------------------------------------------------------
\* The machine goes down: installer, manager, jobs and locks are gone.
Crash ==
    /\ inst.pc # "idle" /\ faults < MaxFaults
    /\ Finishes("KILLED") /\ mgr' = Idle /\ running' = {} /\ lock' = Free /\ faults' = faults + 1
    /\ StillFiles /\ UNCHANGED <<jobs, receipts, starts>>

\* recovery.md: the operator repeats the receipt-backed rollback by hand.
OperatorRecovers ==
    /\ inst.pc = "idle" /\ inst.result = "KILLED"
    /\ Goes(IF receipts.apply # None THEN "recoverApply" ELSE "recoverQuiesce")
    /\ receipts # [t \in {"quiesce", "apply"} |-> None]
    /\ StillTopology /\ StillFiles /\ NoManager /\ UNCHANGED lock

OperatorRollsBack ==
    \E t \in {<<"recoverApply", "apply", "recoveringApply">>, <<"recoverQuiesce", "quiesce", "recoveringQuiesce">>} :
        /\ inst.pc = t[1] /\ StartRollback(receipts[t[2]]) /\ Goes(t[3])
        /\ StillTopology /\ StillFiles /\ UNCHANGED lock

OperatorReads ==
    /\ inst.pc \in {"recoveringApply", "recoveringQuiesce"} /\ mgr.op = "none"
    /\ IF mgr.result = "incomplete" THEN Finishes("INCOMPLETE")
       ELSE IF inst.pc = "recoveringApply" /\ receipts.quiesce # None THEN Goes("recoverQuiesce")
       ELSE Finishes("RECOVERED")
    /\ StillTopology /\ StillFiles /\ NoManager /\ UNCHANGED lock

\* A job that finds the lock free takes it and saves the ledger; one that does
\* not skips its work.
JobLocks ==
    /\ lock = Free /\ \E s \in running : lock' = s
    /\ StillTopology /\ StillFiles /\ NoManager /\ UNCHANGED inst

JobEnds ==
    \E s \in running :
        /\ running' = running \ {s}
        /\ IF lock = s THEN lock' = Free /\ ledger' = [n |-> ledger.n + 1, canon |-> FALSE]
                       ELSE UNCHANGED <<lock, ledger>>
        /\ NoManager /\ UNCHANGED <<jobs, starts, inst, skill, config, was>>

InstallNext ==
    \/ ManagerNext /\ UNCHANGED <<inst, skill, config, ledger, lock, was>>
    \/ JobStarts /\ UNCHANGED <<inst, skill, config, ledger, lock, was>>
    \/ JobLocks \/ JobEnds
    \/ InstallStart \/ InstallQuiesce \/ InstallQuiesced \/ InstallLock \/ InstallFiles \/ InstallAside
    \/ InstallPlace \/ InstallStepFails \/ InstallApply \/ InstallApplied \/ InstallReady \/ InstallRawChanged
    \/ InstallUndoCron \/ InstallUndoneCron \/ InstallUnplace \/ InstallUnaside \/ InstallUnfile
    \/ InstallUndoFails \/ Crash \/ OperatorRecovers \/ OperatorRollsBack \/ OperatorReads

Spec == InstallInit /\ [][InstallNext]_installVars
-----------------------------------------------------------------------------
(* The original of every job that is not as the run found it is in a receipt *)
(* on disk, or the job is one that a receipt says the run creates: whatever  *)
(* dies, and whenever, the topology can be given back (write_receipt,         *)
(* manage_cron_topology.py 828-853, before the first command of 1437-1692).   *)
ReceiptCovers ==
    \A s \in Slots : jobs[s] # was.jobs[s] =>
        \/ \E t \in DOMAIN receipts : receipts[t] # None /\ was.jobs[s] # NoJob /\ receipts[t].before[s] = was.jobs[s]
        \/ was.jobs[s] = NoJob /\ receipts.apply # None /\ receipts.apply.acts[s] = "create"

(* READY means that the new skill, its configuration and all its jobs are in *)
(* place and no adopted job runs beside them, although any command may have  *)
(* claimed an effect it did not have (install.py 914-1000).                  *)
ReadyConverged ==
    [][inst.result # "READY" /\ inst'.result = "READY" =>
         /\ skill = "new" /\ config.is = "new"
         /\ \A s \in Owned : jobs[s] = Desired(TRUE)
         /\ \A s \in Legacy : jobs[s] # NoJob => ~jobs[s].on]_installVars

(* A run that reports BLOCKED without an incomplete rollback left jobs, skill *)
(* and configuration as it found them, and so did, for the jobs, an operator  *)
(* rollback that reports success (install.py 1002-1045).                      *)
HonestRollback ==
    inst.pc = "idle" =>
        /\ inst.result = "BLOCKED" => jobs = was.jobs /\ skill = was.skill /\ config = was.config
        /\ inst.result = "RECOVERED" => jobs = was.jobs

(* No role runs twice, from its owned and from its adopted job, not even     *)
(* while a rollback is under way, or after one that ended incomplete or with *)
(* the machine: a rollback removes what it created before it enables an      *)
(* adopted job again.                                                         *)
NeverTwice == \A s \in Legacy : Coexists(s) => ~(jobs[s].on /\ jobs[<<"owned", s[2]>>].on)

(* The files of an existing installation are replaced, on the way forward,    *)
(* only while none of its jobs runs or can start: a job that started after the inventory was read is      *)
(* found by the second look (prepare_quiescence 1479-1489).                   *)
QuietSwap ==
    \/ inst.pc \in {"aside", "place"} /\ was.config.is # "none"
    \/ inst.pc = "files" /\ receipts.quiesce # None
    => running = {} /\ Enabled(jobs) = {}

(* What holds at every moment of an installation: nothing is swapped under a *)
(* running job, and no role is left to run twice.                             *)
DeploymentInv == TypeOK /\ QuietSwap /\ NeverTwice

(* "State/queue/customer archives are preserved on upgrade" (fresh-install-    *)
(* automation-closure-owasp.md): no step of an upgrade takes back what a job   *)
(* saved in the state ledger.  An upgrade writes, or when it gives up gives    *)
(* back, the state it read before the jobs were stopped, so a job that ended   *)
(* in between breaks it.                                                       *)
StateKept == [][was.config.is # "none" => ledger'.n >= ledger.n]_installVars
=============================================================================
