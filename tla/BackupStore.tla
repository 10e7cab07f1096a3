----------------------------- MODULE BackupStore -----------------------------
(***************************************************************************)
(* What the jobs of the channel backup share: Discord itself, the raw      *)
(* archive on disk, the two ledger files with their .bak copies, and the   *)
(* cross-job lock file.  The actions here are the environment's: messages  *)
(* are posted and deleted and the day changes while jobs run.              *)
(***************************************************************************)
EXTENDS BackupLedger

CONSTANTS
    ExcludedKeys,   \* keys an operator excluded (backupExcluded, invalidChannel)
    UnlistedKeys,   \* keys Discord shows and the state does not know yet
    RichKeys,       \* keys the rich writer has queued for a full rebuild
    UnreachableKeys,\* channels whose reads fail for good (403, deleted)
    BakKeep,        \* .bak copies of each ledger that rotation keeps
    MaxFaults,      \* bound on transient read errors, write errors and kills
    QuietDay        \* day from which nothing is posted, for liveness

ASSUME StoreAssumption ==
    /\ ExcludedKeys \subseteq Keys
    /\ UnlistedKeys \subseteq Keys
    /\ RichKeys \subseteq Keys
    /\ ExcludedKeys \cap UnlistedKeys = {}
    /\ RichKeys \cap (ExcludedKeys \cup UnlistedKeys) = {}
    /\ UnreachableKeys \subseteq Keys
    /\ BakKeep \in Nat
    /\ MaxFaults \in Nat
    /\ QuietDay \in Nat

VARIABLES
    posted,     \* number of messages ever posted to each channel
    live,       \* ids Discord still returns for each channel
    raw,        \* copies of each id's header in the raw Markdown of each key
    torn,       \* ids whose header is in raw and whose body is cut short
    stateFile,  \* the state ledger on disk
    queueFile,  \* the queue ledger on disk
    stateBaks,  \* .bak copies of the state ledger, newest first
    queueBaks,  \* .bak copies of the queue ledger, newest first
    lock,       \* holder of .channel_backup.lock
    day,        \* today
    faults      \* faults so far

discordVars == <<posted, live, day>>
archiveVars == <<raw, torn>>
ledgerVars  == <<stateFile, queueFile, stateBaks, queueBaks>>
storeVars   == <<discordVars, archiveVars, ledgerVars, lock, faults>>

Entries == [Keys -> Entry]
Items   == [Keys -> Item]

\* ok is FALSE while a file does not parse (truncated by a plain rewrite);
\* entries and items are then what it last held, which no job can read.
StateFiles == [ok : BOOLEAN, entries : Entries]
QueueFiles == [ok : BOOLEAN, items : Items]

NoEntries == [k \in Keys |-> NoEntry]
NoItems   == [k \in Keys |-> NoItem]

\* A .bak slot not used yet.
NoStateBak == [ok |-> FALSE, entries |-> NoEntries]
NoQueueBak == [ok |-> FALSE, items |-> NoItems]

Jobs == {"worker", "inventory", "weekly"}   \* the jobs that take the lock
Free == "free"

RawIds(k) == {m \in Ids : raw[k][m] > 0}

StoreTypeOK ==
    /\ posted \in [Keys -> Cursor]
    /\ live \in [Keys -> SUBSET Ids]
    /\ raw \in [Keys -> [Ids -> Nat]]
    /\ torn \in [Keys -> SUBSET Ids]
    /\ stateFile \in StateFiles
    /\ queueFile \in QueueFiles
    /\ stateBaks \in [1..BakKeep -> StateFiles]
    /\ queueBaks \in [1..BakKeep -> QueueFiles]
    /\ lock \in Jobs \cup {Free}
    /\ day \in 0..MaxDay
    /\ faults \in 0..MaxFaults

InitEntry(k) ==
    IF k \in UnlistedKeys THEN NoEntry
    ELSE IF k \in ExcludedKeys THEN [FreshEntry EXCEPT !.status = "excluded"]
    ELSE IF k \in RichKeys THEN [FreshEntry EXCEPT !.status = "queued",
                                                   !.reason = "rich"]
    ELSE FreshEntry

\* A rich key carries the item run_daily_sync_v3._queue_for_rebuild gave it,
\* an excluded key the work it had when the operator excluded it.
InitItem(k) ==
    IF k \in UnlistedKeys THEN NoItem
    ELSE IF k \in ExcludedKeys
         THEN [NoItem EXCEPT !.status = "queued", !.reason = "legacy", !.born = 1]
    ELSE IF k \in RichKeys
         THEN [NoItem EXCEPT !.status = "queued", !.reason = "rich", !.born = 1]
    ELSE NoItem

StoreInit ==
    /\ posted \in [Keys -> Cursor]
    /\ \A k \in UnreachableKeys : posted[k] = 0
    /\ live = [k \in Keys |-> 1..posted[k]]
    /\ raw = [k \in Keys |-> [m \in Ids |-> 0]]
    /\ torn = [k \in Keys |-> {}]
    /\ stateFile = [ok |-> TRUE, entries |-> [k \in Keys |-> InitEntry(k)]]
    /\ queueFile = [ok |-> TRUE, items |-> [k \in Keys |-> InitItem(k)]]
    /\ stateBaks = [i \in 1..BakKeep |-> NoStateBak]
    /\ queueBaks = [i \in 1..BakKeep |-> NoQueueBak]
    /\ lock = Free
    /\ day = SmallerOf(1, MaxDay)
    /\ faults = 0

-----------------------------------------------------------------------------
(* Discord and the calendar.                                               *)

\* Posting stops on QuietDay (beyond MaxDay: never), so that liveness can be
\* asked of every message.  What is posted where nobody can read is left out.
Post(k) ==
    /\ k \notin UnreachableKeys
    /\ day < QuietDay
    /\ posted[k] < MaxMsg
    /\ posted' = [posted EXCEPT ![k] = @ + 1]
    /\ live' = [live EXCEPT ![k] = @ \cup {posted[k] + 1}]
    /\ UNCHANGED <<day, archiveVars, ledgerVars, lock, faults>>

Delete(k) ==
    /\ \E m \in live[k] : live' = [live EXCEPT ![k] = @ \ {m}]
    /\ UNCHANGED <<posted, day, archiveVars, ledgerVars, lock, faults>>

NextDay ==
    /\ day < MaxDay
    /\ day' = day + 1
    /\ UNCHANGED <<posted, live, archiveVars, ledgerVars, lock, faults>>

Environment == (\E k \in Keys : Post(k) \/ Delete(k)) \/ NextDay

-----------------------------------------------------------------------------
(* Operations several jobs use.                                            *)

\* GET /channels/<id>/messages?after=cursor&limit=n : the n oldest messages
\* after the cursor.
\* Mutant: the n newest ones.
PageNewest(k, cursor, n) ==
    {m \in live[k] : m > cursor /\ Cardinality({j \in live[k] : j > m}) < n}

Page(k, cursor, n) ==
    {m \in live[k] : /\ m > cursor
                     /\ Cardinality({j \in live[k] : cursor < j /\ j < m}) < n}

IsTop(m, page) == m \in page /\ \A j \in page : j <= m

Fault == faults < MaxFaults /\ faults' = faults + 1

\* A read that raises: a channel lost for good, or a transient failure
\* (429 beyond the retry cap, a timeout, a 5xx).
ReadFails(k) ==
    \/ k \in UnreachableKeys /\ UNCHANGED faults
    \/ k \notin UnreachableKeys /\ Fault

ReadSucceeds(k) == k \notin UnreachableKeys /\ UNCHANGED faults

\* append_batch: skip the ids whose header is already in raw, append the rest.
\* Mutant: dedup by the durable cursor, not by raw.
UnarchivedByCursor(k, msgs) == {m \in msgs : m > stateFile.entries[k].cursor}

Unarchived(k, msgs) == msgs \ RawIds(k)

\* Mutant: the Markdown file is opened for writing, not for appending.
WithCopiesOnly(k, ids) ==
    [raw EXCEPT ![k] = [m \in Ids |-> IF m \in ids THEN 1 ELSE 0]]

WithCopies(k, ids) ==
    [raw EXCEPT ![k] = [m \in Ids |-> IF m \in ids THEN @[m] + 1 ELSE @[m]]]

AppendBatch(k, msgs) ==
    /\ raw' = WithCopies(k, Unarchived(k, msgs))
    /\ UNCHANGED torn

\* The same, cut off by an exception or a kill between buffered writes: the
\* headers of the batch up to some id are in the file, the body of the last
\* one may be missing.
AppendCutShort(k, msgs) ==
    \E cut \in Cursor :
        LET written == {m \in Unarchived(k, msgs) : m <= cut}
        IN /\ raw' = WithCopies(k, written)
           /\ \E tail \in SUBSET written :
                 /\ \A m \in tail : IsTop(m, written)
                 /\ torn' = [torn EXCEPT ![k] = @ \cup tail]

\* load_json of the worker: the file, or else the newest .bak that parses.
\* An empty set of sources is the FATAL exit.
Readable(file, baks) ==
    IF file.ok THEN {file}
    ELSE {baks[i] : i \in {j \in 1..BakKeep :
                             baks[j].ok /\ \A h \in 1..(j - 1) : ~baks[h].ok}}

\* One more .bak copy, the oldest rotated out.

Rotate(baks, file) ==
    [i \in 1..BakKeep |-> IF i = 1 THEN file ELSE baks[i - 1]]

-----------------------------------------------------------------------------
(* What a cursor may claim: every message Discord still has up to it is in *)
(* raw.                                                                    *)
Covered(k, c) ==
    /\ c <= posted[k]
    /\ \A m \in live[k] : m <= c => m \in RawIds(k)

\* Discord shows only what was posted.
LiveBounded == \A k \in Keys : live[k] \subseteq 1..posted[k]

EntriesCovered(entries) == \A k \in Keys : Covered(k, entries[k].cursor)
ItemsCovered(items)     == \A k \in Keys : Covered(k, items[k].cursor)

FilesCovered ==
    /\ EntriesCovered(stateFile.entries)
    /\ ItemsCovered(queueFile.items)
    /\ \A i \in 1..BakKeep : EntriesCovered(stateBaks[i].entries)
    /\ \A i \in 1..BakKeep : ItemsCovered(queueBaks[i].items)
=============================================================================
