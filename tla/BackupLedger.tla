---------------------------- MODULE BackupLedger ----------------------------
(***************************************************************************)
(* The two JSON ledgers of the Discord channel backup and the pure         *)
(* functions its jobs apply to them.  The state ledger maps every          *)
(* inventory key to an entry, the queue ledger to at most one work item.   *)
(* Everything here is a value: the files, the processes and the archive    *)
(* are in BackupStore and the modules that extend it.                      *)
(*                                                                         *)
(* Message ids (snowflakes) are 1..MaxMsg per channel in posting order;    *)
(* cursor 0 stands for the null cursor and for the literal "0".  The       *)
(* fields lastWrittenMessageId and lastMessageId, always written together, *)
(* are one cursor.  Keys are numbered in inventory order, which is also    *)
(* the order of their paths in every sort.  Dates are day numbers, 0 for   *)
(* a null lastBackup.                                                      *)
(***************************************************************************)
EXTENDS Naturals, FiniteSets

CONSTANTS
    NumKeys,        \* number of inventory keys
    MaxMsg,         \* bound on the messages posted to one channel
    MaxDay          \* bound on the calendar

ASSUME LedgerAssumption == NumKeys \in Nat /\ MaxMsg \in Nat /\ MaxDay \in Nat

Keys   == 1..NumKeys
Ids    == 1..MaxMsg
Cursor == 0..MaxMsg

EntryStatus == {"unregistered", "healthy", "partial", "queued",
                "catching_up", "retry", "error", "excluded"}

\* "legacy" stands for every backlog reason outside the rich_* namespace.
Reason == {"none", "legacy", "rich"}

Entry == [status : EntryStatus, cursor : Cursor, reason : Reason,
          last : 0..MaxDay]

ItemStatus == {"none", "queued", "catching_up", "retry", "caught_up",
               "invalid", "retired"}

\* The priorities the jobs write: audit, state-marked, stale probe, bootstrap.
Priority == {25, 40, 60, 90}

Item == [status : ItemStatus, cursor : Cursor, reason : Reason,
         prio : Priority, born : Nat]

NoEntry    == [status |-> "unregistered", cursor |-> 0, reason |-> "none",
               last |-> 0]
FreshEntry == [NoEntry EXCEPT !.status = "healthy"]
NoItem     == [status |-> "none", cursor |-> 0, reason |-> "none",
               prio |-> 90, born |-> 0]

ActiveStatus == {"queued", "catching_up", "retry"}

Registered(e) == e.status # "unregistered"
IsExcluded(e) == e.status = "excluded"
InScope(e)    == Registered(e) /\ ~IsExcluded(e)

Newest(a, b) == IF a >= b THEN a ELSE b

-----------------------------------------------------------------------------
(* Sorting is by ranks, triples of numbers compared lexicographically.     *)

RankBefore(a, b) ==
    \/ a[1] < b[1]
    \/ a[1] = b[1] /\ a[2] < b[2]
    \/ a[1] = b[1] /\ a[2] = b[2] /\ a[3] < b[3]

\* The n lowest-ranked members of S.
FirstN(S, n, rank) ==
    {k \in S : Cardinality({j \in S : RankBefore(rank[j], rank[k])}) < n}

-----------------------------------------------------------------------------
(* Reading and merging.                                                    *)

\* merge_disk_state: cursors take the newer value, keys known only on disk
\* are adopted whole, every other field is the process's own.
MergeEntry(mine, disk) ==
    IF ~Registered(mine) THEN disk
    ELSE [mine EXCEPT !.cursor =
             IF Registered(disk) THEN Newest(@, disk.cursor) ELSE @]

MergeDiskState(entries, disk) ==
    [k \in Keys |-> MergeEntry(entries[k], disk[k])]

\* normalize_queue_items, for a queue with one item per key.
NormalizeItem(item, e) ==
    IF item.status = "none" THEN item
    ELSE IF ~Registered(e)  THEN [item EXCEPT !.status = "retired"]
    ELSE IF IsExcluded(e)   THEN [item EXCEPT !.status = "invalid"]
    ELSE [item EXCEPT !.cursor = Newest(@, e.cursor)]

NormalizeQueueItems(items, entries) ==
    [k \in Keys |-> NormalizeItem(items[k], entries[k])]

NumItems(items) == Cardinality({k \in Keys : items[k].status # "none"})

\* upsert_queue_item with status "queued" and a reason outside rich_*; born
\* is the creation rank a new item gets.
UpsertQueueItem(item, e, priority, born) ==
    IF item.status = "none"
    THEN [status |-> "queued", cursor |-> e.cursor, reason |-> "legacy",
          prio |-> priority, born |-> born]
    ELSE [item EXCEPT !.status = "queued",
                      !.cursor = Newest(@, e.cursor),
                      !.reason = "legacy",
                      !.prio   = IF priority < @ THEN priority ELSE @]

-----------------------------------------------------------------------------
(* select_candidates: the pools in the order they are served.              *)

\* 1) active work whose item and entry are both outside the rich namespace
ActiveWork(entries, items) ==
    {k \in Keys : /\ items[k].status \in ActiveStatus
                  /\ items[k].reason # "rich"
                  /\ InScope(entries[k])
                  /\ entries[k].reason # "rich"}

\* 2) entries the state marks incomplete
StateMarked(entries) ==
    {k \in Keys : /\ InScope(entries[k])
                  /\ entries[k].reason # "rich"
                  /\ \/ entries[k].status \in
                            {"partial", "queued", "catching_up", "error"}
                     \/ entries[k].reason # "none"}

\* 3) the two safety nets: healthy entries not read today, and null cursors
\* Mutant: the probe is due only when a whole day was missed.
StaleHealthyDayLate(entries, today) ==
    {k \in Keys : /\ entries[k].status = "healthy"
                  /\ entries[k].reason = "none"
                  /\ entries[k].cursor # 0
                  /\ entries[k].last + 1 < today}

StaleHealthy(entries, today) ==
    {k \in Keys : /\ entries[k].status = "healthy"
                  /\ entries[k].reason = "none"
                  /\ entries[k].cursor # 0
                  /\ entries[k].last # today}

\* Mutant: the exclusion is not looked at.
BootstrapAny(entries, today) ==
    {k \in Keys : /\ Registered(entries[k])
                  /\ entries[k].cursor = 0
                  /\ entries[k].last # today}

Bootstrap(entries, today) ==
    {k \in Keys : /\ InScope(entries[k])
                  /\ entries[k].cursor = 0
                  /\ entries[k].last # today}

SmallerOf(a, b) == IF a <= b THEN a ELSE b

\* Slots for the bootstrap pool: half of the free ones rounded up, and what
\* the stale pool leaves over.
BootstrapSlots(free, boot, stale) ==
    SmallerOf(boot, Newest((free + 1) \div 2, free - SmallerOf(stale, free)))

StaleSlots(free, boot, stale) ==
    SmallerOf(stale, free - BootstrapSlots(free, boot, stale))

\* Inside a pool keys are served in the order of its ranks.
PoolRanks(p, entries, items) ==
    [k \in Keys |->
        CASE p = 1 -> <<items[k].prio, items[k].born, k>>
          [] p = 2 -> <<items[k].prio,
                        IF entries[k].last = 0 THEN MaxDay + 1
                                               ELSE entries[k].last, k>>
          [] OTHER -> <<0, entries[k].last, k>>]

\* Items made in one go get consecutive creation ranks: of the keys in made,
\* those without an item up to k come before the item of k.
BornAt(items, made, k, Before(_, _)) ==
    NumItems(items) + Cardinality({j \in made : /\ items[j].status = "none"
                                                /\ j = k \/ Before(j, k)})

\* Marked entries are queued in key order, probes for null cursors before
\* those for stale entries.
QueueMarked(entries, items, marked) ==
    LET Before(j, k) == j < k
    IN [k \in Keys |->
          IF k \notin marked THEN items[k]
          ELSE UpsertQueueItem(items[k], entries[k], 40,
                               BornAt(items, marked, k, Before))]

QueueProbes(entries, items, boot, stale) ==
    LET rank == PoolRanks(3, entries, items)
        Before(j, k) == \/ j \in boot /\ k \in stale
                        \/ /\ j \in boot <=> k \in boot
                           /\ RankBefore(rank[j], rank[k])
    IN [k \in Keys |->
          IF k \notin boot \cup stale THEN items[k]
          ELSE UpsertQueueItem(items[k], entries[k],
                               IF k \in boot THEN 90 ELSE 60,
                               BornAt(items, boot \cup stale, k, Before))]

\* A chosen item resumes at the newer of its cursor and its entry's.
ResumeChosen(entries, items, chosen) ==
    [k \in Keys |-> IF k \in chosen
                    THEN [items[k] EXCEPT !.cursor = Newest(@, entries[k].cursor)]
                    ELSE items[k]]

Chosen(entries, items, active, partials, boot, stale) ==
    [plan  |-> <<active, partials, boot, stale>>,
     items |-> ResumeChosen(entries, QueueProbes(entries, items, boot, stale),
                            active \cup partials \cup boot \cup stale)]

SelectProbes(entries, items, active, partials, free, today) ==
    LET rank  == PoolRanks(3, entries, items)
        boot  == Bootstrap(entries, today) \ (active \cup partials)
        stale == StaleHealthy(entries, today) \ (active \cup partials)
    IN Chosen(entries, items, active, partials,
              FirstN(boot, BootstrapSlots(free, Cardinality(boot),
                                          Cardinality(stale)), rank),
              FirstN(stale, StaleSlots(free, Cardinality(boot),
                                       Cardinality(stale)), rank))

SelectPartials(entries, items, active, marked, free, today) ==
    LET queued   == QueueMarked(entries, items, marked)
        partials == FirstN(marked, free, PoolRanks(2, entries, queued))
    IN SelectProbes(entries, queued, active, partials,
                    free - Cardinality(partials), today)

\* The pools chosen from, as a sequence of four sets, and the queue with the
\* items the selection makes.
Select(entries, items, limit, today) ==
    LET active == FirstN(ActiveWork(entries, items), limit,
                         PoolRanks(1, entries, items))
        free   == limit - Cardinality(active)
    IN SelectPartials(entries, items, active,
                      IF free = 0 THEN {} ELSE StateMarked(entries) \ active,
                      free, today)
=============================================================================
