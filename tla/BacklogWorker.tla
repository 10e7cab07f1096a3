---------------------------- MODULE BacklogWorker ----------------------------
(***************************************************************************)
(* run_backlog_worker_v3.py, which the backlog role and the three daily    *)
(* sync roles run: one process at a time under the cross-job lock.  Each   *)
(* action is one stretch of main() between two points where another        *)
(* process, Discord or a kill can be noticed: a read or replacement of a   *)
(* ledger file, a Discord read, an append.                                 *)
(***************************************************************************)
EXTENDS BackupStore

CONSTANTS
    MaxEntries,     \* --max-entries
    MaxBatches,     \* --max-batches
    PerEntry,       \* --max-batches-per-entry
    PageLimit       \* --limit

ASSUME WorkerAssumption ==
    /\ MaxEntries \in Nat \ {0}
    /\ MaxBatches \in Nat \ {0}
    /\ PerEntry \in Nat \ {0}
    /\ PageLimit \in Nat \ {0}

VARIABLE worker     \* the process: its program counter and its locals

\* Where the process stands; "then" is where a save returns to.
WorkerPc  == {"idle", "prepare", "pick", "fetch", "append", "probe",
              "merge", "replace", "queue"}
AfterSave == {"fetch", "probe", "pick", "idle"}

Plans == [1..4 -> SUBSET Keys]
NoPlan == [p \in 1..4 |-> {}]

WorkerType ==
    [pc : WorkerPc, then : AfterSave, today : 0..MaxDay,
     entries : Entries, items : Items, plan : Plans,
     key : Keys \cup {0}, cursor : Cursor, page : SUBSET Ids,
     total : Nat, batches : Nat]

IdleWorker ==
    [pc |-> "idle", then |-> "idle", today |-> 0, entries |-> NoEntries,
     items |-> NoItems, plan |-> NoPlan, key |-> 0, cursor |-> 0,
     page |-> {}, total |-> 0, batches |-> 0]

WorkerTypeOK == worker \in WorkerType
WorkerInit   == worker = IdleWorker

workerVars == <<storeVars, worker>>

-----------------------------------------------------------------------------
(* Starting: lock, load, back up, normalise, select.                       *)

\* flock LOCK_NB, then load_json(state); a held lock or a state with no
\* readable copy ends the run with nothing changed.
WorkerStart ==
    /\ worker.pc = "idle"
    /\ lock = Free
    /\ \E source \in Readable(stateFile, stateBaks) :
          worker' = [IdleWorker EXCEPT !.pc = "prepare", !.today = day,
                                       !.entries = source.entries]
    /\ lock' = "worker"
    /\ UNCHANGED <<discordVars, archiveVars, ledgerVars, faults>>

\* load_json(queue), the .bak copies and their rotation (whatever the files
\* hold by then), normalize_queue_items and select_candidates.
WorkerPrepare ==
    /\ worker.pc = "prepare"
    /\ \E source \in Readable(queueFile, queueBaks) :
          \E items \in {NormalizeQueueItems(source.items, worker.entries)} :
          \E chosen \in {Select(worker.entries, items, MaxEntries, worker.today)} :
             worker' = [worker EXCEPT !.pc = "pick", !.items = chosen.items,
                                      !.plan = chosen.plan]
    /\ stateBaks' = Rotate(stateBaks, stateFile)
    /\ queueBaks' = Rotate(queueBaks, queueFile)
    /\ UNCHANGED <<discordVars, archiveVars, stateFile, queueFile, lock, faults>>

\* The queue ledger has no readable copy: FATAL, the process exits.
WorkerFatal ==
    /\ worker.pc = "prepare"
    /\ Readable(queueFile, queueBaks) = {}
    /\ worker' = IdleWorker
    /\ lock' = Free
    /\ UNCHANGED <<discordVars, archiveVars, ledgerVars, faults>>

-----------------------------------------------------------------------------
(* The loop over the candidates.                                           *)

NextCandidate(k, p) ==
    LET rank == PoolRanks(p, worker.entries, worker.items)
    IN /\ k \in worker.plan[p]
       /\ \A q \in 1..(p - 1) : worker.plan[q] = {}
       /\ \A j \in worker.plan[p] \ {k} : RankBefore(rank[k], rank[j])

\* Where the reading of a candidate resumes.  Mutant: the position of the
\* candidate before it is carried over.
StartCursorCarried(w, k) ==
    Newest(w.cursor, Newest(w.items[k].cursor, w.entries[k].cursor))

StartCursor(w, k) == Newest(w.items[k].cursor, w.entries[k].cursor)

\* Mark the candidate catching_up and save.
WorkerPick ==
    /\ worker.pc = "pick"
    /\ worker.total < MaxBatches
    /\ \E p \in 1..4, k \in Keys :
          /\ NextCandidate(k, p)
          /\ LET start == StartCursor(worker, k)
             IN worker' = [worker EXCEPT
                    !.pc = "merge", !.then = "fetch",
                    !.plan[p] = @ \ {k},
                    !.key = k, !.cursor = start, !.batches = 0,
                    !.entries[k] = [@ EXCEPT !.status = "catching_up"],
                    !.items[k] = [@ EXCEPT !.status = "catching_up",
                                           !.cursor = start]]
    /\ UNCHANGED storeVars

\* No candidate or no budget left: the final save, then exit.
WorkerFinish ==
    /\ worker.pc = "pick"
    /\ worker.total >= MaxBatches \/ \A p \in 1..4 : worker.plan[p] = {}
    /\ worker' = [worker EXCEPT !.pc = "merge", !.then = "idle"]
    /\ UNCHANGED storeVars

-----------------------------------------------------------------------------
(* Saving: save_state_merged, then save_json of the queue.                 *)

WorkerMerge ==
    /\ worker.pc = "merge"
    /\ worker' = [worker EXCEPT !.pc = "replace",
                    !.entries = IF stateFile.ok
                                THEN MergeDiskState(@, stateFile.entries)
                                ELSE @]
    /\ UNCHANGED storeVars

WorkerReplaceState ==
    /\ worker.pc = "replace"
    /\ stateFile' = [ok |-> TRUE, entries |-> worker.entries]
    /\ worker' = [worker EXCEPT !.pc = "queue"]
    /\ UNCHANGED <<discordVars, archiveVars, queueFile, stateBaks, queueBaks,
                   lock, faults>>

\* The last save of a run is followed by the exit, which frees the lock.
WorkerReplaceQueue ==
    /\ worker.pc = "queue"
    /\ queueFile' = [ok |-> TRUE, items |-> worker.items]
    /\ IF worker.then = "idle"
       THEN worker' = IdleWorker /\ lock' = Free
       ELSE worker' = [worker EXCEPT !.pc = worker.then] /\ UNCHANGED lock
    /\ UNCHANGED <<discordVars, archiveVars, stateFile, stateBaks, queueBaks,
                   faults>>

-----------------------------------------------------------------------------
(* Reading one candidate.  Every way out of the batch loop passes through  *)
(* the finally block, which saves.                                         *)

HasBudget == worker.batches < PerEntry /\ worker.total < MaxBatches

\* The entry and its item as a read that returned nothing leaves them.
\* Mutant: the backlog reason is left as it was.
CaughtUpKeepingReason(w) ==
    [w EXCEPT !.pc = "merge", !.then = "pick",
              !.entries[w.key] = [@ EXCEPT !.status = "healthy",
                                           !.last   = w.today],
              !.items[w.key] = [@ EXCEPT !.status = "caught_up",
                                         !.cursor = w.cursor]]

CaughtUp(w) ==
    [w EXCEPT !.pc = "merge", !.then = "pick",
              !.entries[w.key] = [@ EXCEPT !.status = "healthy",
                                           !.reason = "none",
                                           !.last   = w.today],
              !.items[w.key] = [@ EXCEPT !.status = "caught_up",
                                         !.cursor = w.cursor]]

\* The except clause.
Failed(w) ==
    [w EXCEPT !.pc = "merge", !.then = "pick", !.page = {},
              !.entries[w.key] = [@ EXCEPT !.status = "error"],
              !.items[w.key] = [@ EXCEPT !.status = "retry",
                                         !.cursor = w.cursor]]

WorkerOutOfBudget ==
    /\ worker.pc = "fetch"
    /\ ~HasBudget
    /\ worker' = [worker EXCEPT !.pc = "merge", !.then = "pick"]
    /\ UNCHANGED storeVars

WorkerFetch ==
    /\ worker.pc = "fetch"
    /\ HasBudget
    /\ ReadSucceeds(worker.key)
    /\ LET page    == Page(worker.key, worker.cursor, PageLimit)
           counted == [worker EXCEPT !.total = @ + 1, !.batches = @ + 1]
       IN worker' = IF page = {} THEN CaughtUp(counted)
                    ELSE [counted EXCEPT !.pc = "append", !.page = page]
    /\ UNCHANGED <<discordVars, archiveVars, ledgerVars, lock>>

WorkerFetchFails ==
    /\ worker.pc = "fetch"
    /\ HasBudget
    /\ ReadFails(worker.key)
    /\ worker' = Failed(worker)
    /\ UNCHANGED <<discordVars, archiveVars, ledgerVars, lock>>

\* A short page is followed by a one-message probe.
AfterPage(w) ==
    IF Cardinality(w.page) < PageLimit /\ w.total < MaxBatches
    THEN "probe" ELSE "fetch"

\* A reason is kept, a missing one becomes page_limit_reached.
ReasonAfterPage(w) ==
    LET reason == w.entries[w.key].reason
    IN IF reason = "none" THEN "legacy" ELSE reason

\* The locals once a page up to top is in raw: the next step is a save.
\* Mutant: only the item's cursor moves.

AdvancedItemOnly(w, top) ==
    [w EXCEPT !.pc = "merge", !.then = AfterPage(w), !.cursor = top, !.page = {},
              !.entries[w.key] = [@ EXCEPT !.status = "partial",
                                           !.reason = ReasonAfterPage(w)],
              !.items[w.key] = [@ EXCEPT !.status = "queued",
                                         !.cursor = top]]

Advanced(w, top) ==
    [w EXCEPT !.pc = "merge", !.then = AfterPage(w), !.cursor = top, !.page = {},
              !.entries[w.key] = [@ EXCEPT !.cursor = top,
                                           !.status = "partial",
                                           !.reason = ReasonAfterPage(w)],
              !.items[w.key] = [@ EXCEPT !.status = "queued",
                                         !.cursor = top]]

\* append_batch, then the cursor moves to the page's last id and both
\* ledgers are saved.
WorkerAppend ==
    /\ worker.pc = "append"
    /\ AppendBatch(worker.key, worker.page)
    /\ \E top \in worker.page :
          IsTop(top, worker.page) /\ worker' = Advanced(worker, top)
    /\ UNCHANGED <<discordVars, ledgerVars, lock, faults>>

\* The append raises part-way (a message without a timestamp, a full disk).
WorkerAppendFails ==
    /\ worker.pc = "append"
    /\ Fault
    /\ AppendCutShort(worker.key, worker.page)
    /\ worker' = Failed(worker)
    /\ UNCHANGED <<discordVars, ledgerVars, lock>>

\* The one-message read after a short page.
WorkerProbe ==
    /\ worker.pc = "probe"
    /\ ReadSucceeds(worker.key)
    /\ LET counted == [worker EXCEPT !.total = @ + 1]
       IN worker' = IF Page(worker.key, worker.cursor, 1) = {}
                    THEN CaughtUp(counted)
                    ELSE [counted EXCEPT !.pc = "merge", !.then = "pick"]
    /\ UNCHANGED <<discordVars, archiveVars, ledgerVars, lock>>

WorkerProbeFails ==
    /\ worker.pc = "probe"
    /\ ReadFails(worker.key)
    /\ worker' = Failed(worker)
    /\ UNCHANGED <<discordVars, archiveVars, ledgerVars, lock>>

\* A ledger cannot be replaced (a full disk) in the save that follows a page,
\* the one inside the try block: the except clause runs with the cursor moved.
\* In every other save the exception ends the process, as a kill does.
WorkerSaveFails ==
    /\ worker.pc \in {"replace", "queue"}
    /\ worker.then \in {"fetch", "probe"}
    /\ worker.batches > 0
    /\ Fault
    /\ worker' = Failed(worker)
    /\ UNCHANGED <<discordVars, archiveVars, ledgerVars, lock>>

-----------------------------------------------------------------------------
(* A kill (session timeout, SIGKILL): the kernel drops the flock, atomic   *)
(* replacements have happened or not, an append may be cut short.          *)

WorkerKilled ==
    /\ worker.pc # "idle"
    /\ Fault
    /\ IF worker.pc = "append"
       THEN AppendCutShort(worker.key, worker.page)
       ELSE UNCHANGED archiveVars
    /\ worker' = IdleWorker
    /\ lock' = Free
    /\ UNCHANGED <<discordVars, ledgerVars>>

WorkerStep ==
    \/ WorkerPrepare \/ WorkerFatal
    \/ WorkerPick \/ WorkerFinish
    \/ WorkerMerge \/ WorkerReplaceState \/ WorkerReplaceQueue
    \/ WorkerOutOfBudget \/ WorkerFetch \/ WorkerFetchFails
    \/ WorkerAppend \/ WorkerAppendFails \/ WorkerSaveFails
    \/ WorkerProbe \/ WorkerProbeFails

WorkerNext == WorkerStart \/ WorkerStep \/ WorkerKilled

-----------------------------------------------------------------------------
(* What the worker's place says of its locals.                             *)

\* A worker that is reading a candidate, or will when its save is done, has
\* one.
CandidateHeld ==
    \/ worker.pc \in {"fetch", "append", "probe"}
    \/ worker.pc \in {"merge", "replace", "queue"} /\ worker.then \in {"fetch", "probe"}
    => worker.key \in Keys

\* A page being appended holds every message Discord still has between the
\* cursor and the page's end, so advancing the cursor to that end skips none.
PageComplete ==
    worker.pc = "append" =>
        /\ worker.key \in Keys
        /\ worker.page # {}
        /\ \A m \in worker.page :
              /\ m <= posted[worker.key]
              /\ \A j \in live[worker.key] :
                    worker.cursor < j /\ j <= m => j \in worker.page
=============================================================================
