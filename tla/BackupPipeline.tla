---------------------------- MODULE BackupPipeline ----------------------------
(***************************************************************************)
(* The jobs of the channel backup composed over the shared archive.  A     *)
(* deployment schedules some of them (Scheduled); the cron roles overlap,  *)
(* so any interleaving of their steps is possible, subject to the lock the *)
(* jobs themselves take.                                                   *)
(***************************************************************************)
EXTENDS BacklogWorker, CaughtUpAudit, InventoryDiscovery

CONSTANT Scheduled      \* the jobs this deployment runs

ASSUME ScheduledAssumption == Scheduled \subseteq {"worker", "audit", "inventory"}

vars == <<storeVars, worker, audit, inventory>>

Init ==
    /\ StoreInit
    /\ WorkerInit
    /\ AuditInit
    /\ InventoryInit

Next ==
    \/ Environment /\ UNCHANGED <<worker, audit, inventory>>
    \/ /\ "worker" \in Scheduled
       /\ WorkerNext
       /\ UNCHANGED <<audit, inventory>>
    \/ /\ "audit" \in Scheduled
       /\ AuditNext
       /\ UNCHANGED <<worker, inventory>>
    \/ /\ "inventory" \in Scheduled
       /\ InventoryNext
       /\ UNCHANGED <<worker, audit>>

Spec == Init /\ [][Next]_vars

\* cron starts every scheduled role again and again, and a running process
\* keeps taking steps; nothing is assumed about kills, faults or Discord.
Fairness ==
    /\ WF_vars(NextDay /\ UNCHANGED <<worker, audit, inventory>>)
    /\ WF_vars("worker" \in Scheduled
                 /\ (WorkerStart \/ WorkerStep) /\ UNCHANGED <<audit, inventory>>)
    /\ WF_vars("audit" \in Scheduled
                 /\ (AuditStart \/ AuditStep) /\ UNCHANGED <<worker, inventory>>)
    /\ WF_vars("inventory" \in Scheduled
                 /\ (InventoryObserve \/ InventoryStep) /\ UNCHANGED <<worker, audit>>)

FairSpec == Spec /\ Fairness

-----------------------------------------------------------------------------
TypeOK == StoreTypeOK /\ WorkerTypeOK /\ AuditTypeOK /\ InventoryTypeOK

\* The lock names the process that is past its flock call, so two lock
\* holders never run at once.
LockHeld ==
    /\ (lock = "worker") <=> (worker.pc # "idle")
    /\ (lock = "inventory") <=> (inventory.pc = "replace")

\* Every cursor held by a process is covered too: in its copies of the
\* ledgers and in the position it reads from.
WorkerCovered(w) ==
    /\ EntriesCovered(w.entries) /\ ItemsCovered(w.items)
    /\ w.key # 0 => Covered(w.key, w.cursor)

MemoryCovered ==
    /\ WorkerCovered(worker)
    /\ EntriesCovered(audit.entries) /\ ItemsCovered(audit.items)
    /\ EntriesCovered(inventory.entries)

\* "Never update state ahead of raw" (architecture.md): at every moment, and
\* so after any kill, each cursor on disk, in a .bak copy or in a process has
\* the raw header of every message Discord still shows up to it.
CursorCovered == FilesCovered /\ MemoryCovered

\* The jobs keep the contract of the archive: whatever steps they take, raw
\* only grows, by messages Discord showed, and the state ledger only ever
\* claims positions raw is complete up to.
Contract == INSTANCE ArchiveContract WITH
                archived <- [k \in Keys |-> RawIds(k)],
                cursor   <- [k \in Keys |-> stateFile.entries[k].cursor]

KeepsContract == Contract!Spec

\* The inductive invariant behind CursorCovered: a cursor stays covered
\* because every copy of it is, and because the page about to be archived
\* leaves nothing out.
IInv == /\ TypeOK
        /\ LiveBounded
        /\ LockHeld
        /\ CandidateHeld
        /\ PageComplete
        /\ CursorCovered

\* Raw is append-only evidence with one block per message: re-reading behind
\* the cursor after a kill, a stale audit write or a .bak recovery never
\* archives a message twice.
NoDuplicateRaw == \A k \in Keys, m \in Ids : raw[k][m] <= 1

\* After a kill at most one page is read again: of the messages past the
\* durable cursor no more than a page is already in raw (worker alone).
ReplayBounded ==
    stateFile.ok =>
        \A k \in Keys :
            Cardinality({m \in live[k] \cap RawIds(k) :
                           m > stateFile.entries[k].cursor}) <= PageLimit

\* Queue is saved after state, so on disk a work item never points past the
\* entry it belongs to, whichever save a kill interrupts (no audit running).
QueueNeverAhead ==
    \A k \in Keys : queueFile.items[k].cursor <= stateFile.entries[k].cursor

\* What a kill of the worker at any point leaves for the next run: little to
\* read again, and a queue that does not claim more than the state.
ReplayInv == ReplayBounded /\ QueueNeverAhead

\* An excluded key is terminal (SKILL.md): no job archives for it, and no
\* save puts its work item back among the active ones once it is retired.
ExcludedTerminal ==
    [][\A k \in ExcludedKeys :
          /\ raw'[k] = raw[k]
          /\ queueFile.items[k].status = "invalid" =>
                queueFile'.items[k].status \notin ActiveStatus]_vars

\* A page whose append was cut short is not finished: no cursor on disk
\* passes a message whose body never reached raw ("neverAdvancePastUnwrittenRaw",
\* design.md).  The dedup by headers breaks it.
NoTornBehindCursor ==
    stateFile.ok =>
        \A k \in Keys : \A m \in live[k] \cap torn[k] :
            m > stateFile.entries[k].cursor

\* Rich work is work "this legacy Markdown writer must never consume"
\* (active_rich_queue_keys): the worker never reads an entry it knows to be
\* reserved for the rich writer.  The bootstrap pool breaks it.
RichNeverConsumed ==
    worker.pc \in {"fetch", "append", "probe"} =>
        worker.entries[worker.key].reason # "rich"

\* Between the jobs that take the lock, no cursor of the state ledger moves
\* back and no registered entry disappears.
StateMonotonic ==
    [][\A k \in Keys :
          /\ stateFile'.entries[k].cursor >= stateFile.entries[k].cursor
          /\ Registered(stateFile.entries[k]) =>
                Registered(stateFile'.entries[k])]_vars

Served == Keys \ (ExcludedKeys \cup UnreachableKeys \cup RichKeys)

\* "Guarantee eventual completeness" (design.md): every message of a channel
\* that can be read is archived unless Discord loses it first.
EventuallyArchived ==
    \A k \in Served, m \in Ids :
        m \in live[k] ~> (m \in RawIds(k) \/ m \notin live[k])

\* When posting stops the backlog drains: every channel that can be read is
\* healthy for good and its work item is not active.
EventuallyDrained ==
    \A k \in Served :
        <>[](/\ stateFile.ok /\ stateFile.entries[k].status = "healthy"
             /\ queueFile.items[k].status \notin ActiveStatus)
=============================================================================
