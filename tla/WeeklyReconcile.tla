--------------------------- MODULE WeeklyReconcile ---------------------------
(***************************************************************************)
(* weekly_raw_reconcile_v4.py, the weekly-raw role: reads the whole        *)
(* history of every channel, appends what raw misses, and closes out with  *)
(* a verdict.  Both ledgers are loaded before the lock is taken.           *)
(***************************************************************************)
EXTENDS BackupStore

CONSTANTS
    ReportKey,      \* --report-entry-key, 0 for none
    MaxPasses,      \* --max-closeout-passes
    ScanLimit       \* --page-limit

ASSUME WeeklyAssumption ==
    /\ ReportKey \in Keys \cup {0}
    /\ MaxPasses \in Nat \ {0}
    /\ ScanLimit \in Nat \ {0}

VARIABLE weekly

\* A scope without a cutoff: every id is within it.
NoCutoff == MaxMsg + 1

WeeklyPc == {"idle", "load", "lock", "report", "scan", "evidence", "append",
             "queue", "done"}

\* started and before are what was posted and archived when the run got the
\* lock; unread are the keys whose read failed in the first pass.
WeeklyType ==
    [pc : WeeklyPc, phase : {"pass", "final", "retry"}, today : 0..MaxDay,
     entries : Entries, items : Items,
     todo : SUBSET Keys, key : Keys \cup {0}, cursor : Cursor,
     messages : [Keys -> SUBSET Ids], rawIds : [Keys -> SUBSET Ids],
     errors : SUBSET Keys, cutoffs : [Keys -> 0..NoCutoff],
     pass : 0..MaxPasses, copied : BOOLEAN, bundle : [Keys -> SUBSET Ids],
     ok : BOOLEAN, started : [Keys -> Cursor], before : [Keys -> SUBSET Ids],
     unread : SUBSET Keys]

NoIds == [k \in Keys |-> {}]

IdleWeekly ==
    [pc |-> "idle", phase |-> "pass", today |-> 0,
     entries |-> NoEntries, items |-> NoItems,
     todo |-> {}, key |-> 0, cursor |-> 0,
     messages |-> NoIds, rawIds |-> NoIds,
     errors |-> {}, cutoffs |-> [k \in Keys |-> NoCutoff],
     pass |-> 0, copied |-> FALSE, bundle |-> NoIds,
     ok |-> FALSE, started |-> [k \in Keys |-> 0], before |-> NoIds,
     unread |-> {}]

WeeklyTypeOK == weekly \in WeeklyType
WeeklyInit   == weekly = IdleWeekly

\* ordered_entries: what is not excluded, by key, the report entry last.
Scope(w) == {k \in Keys : InScope(w.entries[k])}

FirstOf(S) ==
    CHOOSE k \in S : \A j \in S \ {k} : IF k = ReportKey THEN FALSE
                                        ELSE j = ReportKey \/ k < j

-----------------------------------------------------------------------------
(* Loading and locking.                                                    *)

\* A ledger that does not parse ends the run with nothing changed.
WeeklyStart ==
    /\ weekly.pc = "idle"
    /\ stateFile.ok
    /\ weekly' = [IdleWeekly EXCEPT !.pc = "load", !.today = day,
                                    !.entries = stateFile.entries]
    /\ UNCHANGED storeVars

WeeklyLoadQueue ==
    /\ weekly.pc = "load"
    /\ weekly' = IF queueFile.ok
                 THEN [weekly EXCEPT !.pc = "lock", !.items = queueFile.items]
                 ELSE IdleWeekly
    /\ UNCHANGED storeVars

BeginScan(w, keys, phase) ==
    [w EXCEPT !.pc = "scan", !.phase = phase, !.todo = keys, !.errors = {}]

BeginPass(w) == BeginScan([w EXCEPT !.pass = @ + 1], Scope(w), "pass")

WeeklyLock ==
    /\ weekly.pc = "lock"
    /\ lock = Free
    /\ LET locked == [weekly EXCEPT !.started = posted,
                                    !.before  = [k \in Keys |-> RawIds(k)]]
       IN weekly' = IF ReportKey = 0 THEN BeginPass(locked)
                    ELSE [locked EXCEPT !.pc = "report"]
    /\ lock' = "weekly"
    /\ UNCHANGED <<discordVars, archiveVars, ledgerVars, faults>>

\* "skipped": "locked"
WeeklySkipped ==
    /\ weekly.pc = "lock"
    /\ lock # Free
    /\ weekly' = IdleWeekly
    /\ UNCHANGED storeVars

\* capture_report_cutoff: the latest message of the report channel.
WeeklyReport ==
    /\ weekly.pc = "report"
    /\ ReportKey \in Scope(weekly)
    /\ ReadSucceeds(ReportKey)
    /\ \E latest \in Cursor :
          /\ IF live[ReportKey] = {} THEN latest = 0
             ELSE IsTop(latest, live[ReportKey])
          /\ weekly' = BeginPass([weekly EXCEPT !.cutoffs[ReportKey] = latest])
    /\ UNCHANGED <<discordVars, archiveVars, ledgerVars, lock>>

\* The report entry is not registered or cannot be read: the run dies.
WeeklyReportFails ==
    /\ weekly.pc = "report"
    /\ IF ReportKey \in Scope(weekly) THEN ReadFails(ReportKey) ELSE UNCHANGED faults
    /\ weekly' = IdleWeekly
    /\ lock' = Free
    /\ UNCHANGED <<discordVars, archiveVars, ledgerVars>>

-----------------------------------------------------------------------------
(* scan: for each key the ids in raw, then the whole live history page by  *)
(* page, both within the key's cutoff.                                     *)

Within(w, k, ids) == {m \in ids : m <= w.cutoffs[k]}

WeeklyOpen ==
    /\ weekly.pc = "scan"
    /\ weekly.key = 0
    /\ weekly.todo # {}
    /\ LET k == FirstOf(weekly.todo)
       IN weekly' = [weekly EXCEPT !.key = k, !.todo = @ \ {k}, !.cursor = 0,
                                   !.messages[k] = {},
                                   !.rawIds[k] = Within(weekly, k, RawIds(k))]
    /\ UNCHANGED storeVars

\* One page of fetch_all_messages; an empty one ends the key.
WeeklyFetch ==
    /\ weekly.pc = "scan"
    /\ weekly.key # 0
    /\ ReadSucceeds(weekly.key)
    /\ LET k    == weekly.key
           page == Page(k, weekly.cursor, ScanLimit)
       IN \/ /\ page = {}
             /\ weekly' = [weekly EXCEPT !.key = 0]
          \/ \E top \in page :
                /\ IsTop(top, page)
                /\ weekly' = [weekly EXCEPT
                                !.cursor = top,
                                !.messages[k] = @ \cup Within(weekly, k, page)]
    /\ UNCHANGED <<discordVars, archiveVars, ledgerVars, lock>>

\* The row gets a liveError and nothing of what was read is kept.
WeeklyFetchFails ==
    /\ weekly.pc = "scan"
    /\ weekly.key # 0
    /\ ReadFails(weekly.key)
    /\ LET k == weekly.key
       IN weekly' = [weekly EXCEPT
                       !.key = 0, !.messages[k] = {}, !.errors = @ \cup {k},
                       !.unread = IF weekly.phase = "pass" /\ weekly.pass = 1
                                  THEN @ \cup {k} ELSE @]
    /\ UNCHANGED <<discordVars, archiveVars, ledgerVars, lock>>

ScanDone == weekly.pc = "scan" /\ weekly.key = 0 /\ weekly.todo = {}

\* liveOnly, and missing_by_key of apply_missing.
\* Mutant: judged by the cursor instead of by what raw holds.
MissingByCursor(w, k) == {m \in w.messages[k] : m > w.entries[k].cursor}
Missing(w, k) == w.messages[k] \ w.rawIds[k]
Affected(w)   == {k \in Scope(w) : Missing(w, k) # {}}

\* freeze_scope_cutoffs: in the first pass the newest id seen live or in raw
\* becomes the boundary of a key that has none yet.
\* Mutants: nothing is frozen; only raw is looked at.
FrozenNever(w) == w.cutoffs

FrozenByRaw(w) ==
    [k \in Keys |-> IF k \in Scope(w) /\ w.cutoffs[k] = NoCutoff
                    THEN CHOOSE c \in Cursor :
                           IF w.rawIds[k] = {} THEN c = 0 ELSE IsTop(c, w.rawIds[k])
                    ELSE w.cutoffs[k]]

Frozen(w) ==
    [k \in Keys |->
        LET observed == w.messages[k] \cup w.rawIds[k]
        IN IF k \in Scope(w) /\ w.cutoffs[k] = NoCutoff
           THEN CHOOSE c \in Cursor :
                  IF observed = {} THEN c = 0 ELSE IsTop(c, observed)
           ELSE w.cutoffs[k]]

\* The end of a pass: freeze, then repair, or go to the final scan when a
\* read failed or nothing is missing.
WeeklyClosePass ==
    /\ ScanDone
    /\ weekly.phase = "pass"
    /\ LET w == [weekly EXCEPT !.cutoffs = IF weekly.pass = 1 THEN Frozen(weekly)
                                           ELSE @]
       IN weekly' = IF weekly.errors # {} \/ Affected(weekly) = {}
                    THEN BeginScan(w, Scope(w), "final")
                    ELSE [w EXCEPT !.pc = "evidence"]
    /\ UNCHANGED storeVars
-----------------------------------------------------------------------------
(* apply_missing.                                                          *)

\* create_pre_repair_evidence: state, queue and the raw of every entry.
\* Mutant: the ledgers only.
BundleOfLedgers(w) == NoIds
Bundle(w) == [k \in Keys |-> IF k \in Scope(w) THEN RawIds(k) ELSE {}]

\* The first repair of a run makes the bundle, later ones verify it.
WeeklyEvidence ==
    /\ weekly.pc = "evidence"
    /\ weekly' = [weekly EXCEPT !.pc = "append", !.todo = Affected(weekly),
                                !.copied = TRUE,
                                !.bundle = IF weekly.copied THEN @
                                           ELSE Bundle(weekly)]
    /\ UNCHANGED storeVars

\* The locals once the missing messages of k are in raw; items of k, if any,
\* are marked caught up.
Repaired(w, k, latest) ==
    [w EXCEPT !.todo = @ \ {k},
              !.entries[k] = [@ EXCEPT !.cursor = latest, !.status = "healthy",
                                       !.reason = "none", !.last = w.today],
              !.items[k] = IF @.status = "none" THEN @
                           ELSE [@ EXCEPT !.status = "caught_up",
                                          !.cursor = latest]]

\* Mutant: an append that fails part-way is taken for done.
WeeklyAppendSwallowed ==
    /\ weekly.pc = "append"
    /\ weekly.todo # {}
    /\ LET k == FirstOf(weekly.todo)
       IN /\ AppendCutShort(k, Missing(weekly, k))
          /\ \E latest \in weekly.messages[k] :
                /\ IsTop(latest, weekly.messages[k])
                /\ weekly' = Repaired(weekly, k, latest)
    /\ UNCHANGED <<discordVars, ledgerVars, lock, faults>>

WeeklyAppend ==
    /\ weekly.pc = "append"
    /\ weekly.todo # {}
    /\ LET k == FirstOf(weekly.todo)
       IN /\ AppendBatch(k, Missing(weekly, k))
          /\ \E latest \in weekly.messages[k] :
                /\ IsTop(latest, weekly.messages[k])
                /\ weekly' = Repaired(weekly, k, latest)
    /\ UNCHANGED <<discordVars, ledgerVars, lock, faults>>

\* atomic_json(state), then atomic_json(queue): the copies loaded before the
\* lock, as repaired, without a merge.
WeeklyReplaceState ==
    /\ weekly.pc = "append"
    /\ weekly.todo = {}
    /\ stateFile' = [ok |-> TRUE, entries |-> weekly.entries]
    /\ weekly' = [weekly EXCEPT !.pc = "queue"]
    /\ UNCHANGED <<discordVars, archiveVars, queueFile, stateBaks, queueBaks,
                   lock, faults>>

WeeklyReplaceQueue ==
    /\ weekly.pc = "queue"
    /\ queueFile' = [ok |-> TRUE, items |-> weekly.items]
    /\ weekly' = IF weekly.pass < MaxPasses THEN BeginPass(weekly)
                 ELSE BeginScan(weekly, Scope(weekly), "final")
    /\ UNCHANGED <<discordVars, archiveVars, stateFile, stateBaks, queueBaks,
                   lock, faults>>

-----------------------------------------------------------------------------
(* Closeout.                                                               *)

\* retry_failed_final_reads: the failed keys are scanned once more.
WeeklyRetry ==
    /\ ScanDone
    /\ weekly.phase = "final"
    /\ weekly.errors # {}
    /\ weekly' = BeginScan(weekly, weekly.errors, "retry")
    /\ UNCHANGED storeVars

\* ok: no read failed, nothing is missing within the cutoffs, and the queue
\* copy in memory has no active item outside the excluded entries.
ActiveQueue(w) == {k \in Keys : /\ w.items[k].status \in ActiveStatus
                                /\ ~IsExcluded(w.entries[k])}

WeeklyVerdict ==
    /\ ScanDone
    /\ weekly.phase # "pass"
    /\ weekly.phase = "final" => weekly.errors = {}
    /\ weekly' = [weekly EXCEPT !.pc = "done",
                    !.ok = weekly.errors = {} /\ Affected(weekly) = {}
                             /\ ActiveQueue(weekly) = {}]
    /\ UNCHANGED storeVars

WeeklyExit ==
    /\ weekly.pc = "done"
    /\ weekly' = IdleWeekly
    /\ lock' = Free
    /\ UNCHANGED <<discordVars, archiveVars, ledgerVars, faults>>

\* A kill, or an exception outside the guarded reads (evidence that cannot be
\* made, an append or a save that fails): the run is over.
WeeklyDies ==
    /\ weekly.pc # "idle"
    /\ Fault
    /\ IF weekly.pc = "append" /\ weekly.todo # {}
       THEN LET k == FirstOf(weekly.todo) IN AppendCutShort(k, Missing(weekly, k))
       ELSE UNCHANGED archiveVars
    /\ weekly' = IdleWeekly
    /\ lock' = IF lock = "weekly" THEN Free ELSE lock
    /\ UNCHANGED <<discordVars, ledgerVars>>

WeeklyStep ==
    \/ WeeklyLoadQueue \/ WeeklyLock \/ WeeklySkipped
    \/ WeeklyReport \/ WeeklyReportFails
    \/ WeeklyOpen \/ WeeklyFetch \/ WeeklyFetchFails \/ WeeklyClosePass
    \/ WeeklyEvidence \/ WeeklyAppend \/ WeeklyReplaceState \/ WeeklyReplaceQueue
    \/ WeeklyRetry \/ WeeklyVerdict \/ WeeklyExit

WeeklyNext == WeeklyStart \/ WeeklyStep \/ WeeklyDies
=============================================================================
