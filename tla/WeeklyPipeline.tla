--------------------------- MODULE WeeklyPipeline ---------------------------
(***************************************************************************)
(* The weekly reconcile beside the backlog worker, over archives some of   *)
(* whose channels have lost history (Damaged): the job exists to repair    *)
(* raw files that an older version, a restore or an operator left with     *)
(* gaps below the cursor.                                                  *)
(***************************************************************************)
EXTENDS BacklogWorker, WeeklyReconcile

CONSTANTS
    Damaged,        \* keys whose raw may start with gaps
    WorkerRuns      \* whether this deployment also runs the worker

ASSUME DamagedAssumption == Damaged \subseteq Keys /\ WorkerRuns \in BOOLEAN

pipelineVars == <<storeVars, worker, weekly>>

\* The archive as it is found: of a damaged channel some messages are in raw
\* and the cursor is anywhere, of the others nothing is archived yet.
Init ==
    /\ posted \in [Keys -> Cursor]
    /\ live = [k \in Keys |-> 1..posted[k]]
    /\ \E found \in [Keys -> SUBSET Ids], claimed \in [Keys -> Cursor] :
          /\ \A k \in Keys : /\ found[k] \subseteq 1..posted[k]
                             /\ claimed[k] <= posted[k]
                             /\ k \notin Damaged => found[k] = {} /\ claimed[k] = 0
          /\ raw = [k \in Keys |-> [m \in Ids |-> IF m \in found[k] THEN 1 ELSE 0]]
          /\ stateFile = [ok |-> TRUE, entries |->
                [k \in Keys |-> [InitEntry(k) EXCEPT !.cursor = claimed[k]]]]
    /\ torn = [k \in Keys |-> {}]
    /\ queueFile = [ok |-> TRUE, items |-> [k \in Keys |-> InitItem(k)]]
    /\ stateBaks = [i \in 1..BakKeep |-> NoStateBak]
    /\ queueBaks = [i \in 1..BakKeep |-> NoQueueBak]
    /\ lock = Free
    /\ day = SmallerOf(1, MaxDay)
    /\ faults = 0
    /\ WorkerInit
    /\ WeeklyInit

Next ==
    \/ Environment /\ UNCHANGED <<worker, weekly>>
    \/ WorkerRuns /\ WorkerNext /\ UNCHANGED weekly
    \/ WeeklyNext /\ UNCHANGED worker

Spec == Init /\ [][Next]_pipelineVars

\* cron starts the weekly role again and again and a running process keeps
\* taking steps; days pass.
Fairness ==
    /\ WF_pipelineVars(NextDay /\ UNCHANGED <<worker, weekly>>)
    /\ WF_pipelineVars((WeeklyStart \/ WeeklyStep) /\ UNCHANGED worker)

FairSpec == Spec /\ Fairness

-----------------------------------------------------------------------------
LocksWeekly(pc) == pc \notin {"idle", "load", "lock"}

\* No cursor of a channel that started intact is ahead of raw: in the files,
\* in the copies the weekly run loaded before the lock, in what the worker
\* holds.
IntactCovered ==
    \A k \in Keys \ Damaged :
        /\ Covered(k, stateFile.entries[k].cursor)
        /\ Covered(k, queueFile.items[k].cursor)
        /\ Covered(k, worker.entries[k].cursor)
        /\ Covered(k, worker.items[k].cursor)
        /\ worker.key = k => Covered(k, worker.cursor)
        /\ Covered(k, weekly.entries[k].cursor)
        /\ Covered(k, weekly.items[k].cursor)

\* What makes the weekly writes safe: types, one lock holder, and coverage of
\* every cursor copy ("Never update state ahead of raw", architecture.md).
ReconcileInv ==
    /\ StoreTypeOK /\ WorkerTypeOK /\ WeeklyTypeOK
    /\ lock = "weekly" <=> LocksWeekly(weekly.pc)
    /\ lock = "worker" <=> worker.pc # "idle"
    /\ IntactCovered

\* A green verdict is true: of a channel the first pass could read, every
\* message that was posted before the run got the lock and that Discord still
\* has is in raw, gaps below the cursor included, although the history was
\* read page by page while messages came and went.
CloseoutComplete ==
    weekly.pc = "done" /\ weekly.ok =>
        \A k \in Scope(weekly) \ weekly.unread :
            \A m \in live[k] : m <= weekly.started[k] => m \in RawIds(k)

\* "the weekly reconcile proves the historical raw archive itself contains the
\* current Discord history" (cron.examples.md), for every channel of a green
\* run.  A transient read error in the first pass breaks it: the boundary of
\* that channel is frozen from raw alone.
CloseoutCoversAll ==
    weekly.pc = "done" /\ weekly.ok =>
        \A k \in Scope(weekly) :
            \A m \in live[k] : m <= weekly.started[k] => m \in RawIds(k)

\* The frozen boundaries keep the closeout "from chasing live traffic forever"
\* (freeze_scope_cutoffs): a second pass never finds anything to repair, so
\* there is no third, however many passes are allowed.
NoChasing == weekly.pass <= 2

\* Recovery evidence precedes repair (recovery.md): once a run has changed the
\* raw of a channel, its bundle holds the raw that channel had before the run.
EvidenceFirst ==
    LocksWeekly(weekly.pc) =>
        \A k \in Keys :
            RawIds(k) # weekly.before[k] =>
                weekly.copied /\ weekly.bundle[k] = weekly.before[k]

\* Weekly runs alone repair every gap: each message of a channel in scope that
\* can be read ends up in raw unless Discord loses it.
EventuallyRepaired ==
    \A k \in Keys \ (ExcludedKeys \cup UnlistedKeys), m \in Ids :
        m \in live[k] ~> (m \in RawIds(k) \/ m \notin live[k])
=============================================================================
