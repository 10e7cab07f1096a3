---------------------------- MODULE WorkerLemmas ----------------------------
(***************************************************************************)
(* What the proofs about the backlog worker rest on, whatever runs beside  *)
(* it.  First the pure functions of BackupLedger: what they return stays   *)
(* in its type, and a cursor they write is one they were given, so it      *)
(* cannot claim more than the ledgers it was copied from.  Then the        *)
(* archive and the ledger files: what a page holds, what an append adds,   *)
(* and that no step of the environment or of an append takes away what     *)
(* makes a cursor covered.  Last the worker: each of its steps keeps its   *)
(* types and its place, and keeps a channel covered whose every cursor, in *)
(* the files, their .bak copies and the worker, was covered.               *)
(***************************************************************************)
EXTENDS BacklogWorker, FiniteSetTheorems, TLAPS

\* Keys is finite, so a count of some of them is a number.
LEMMA KeysFinite ==
    /\ IsFiniteSet(Keys)
    /\ \A S \in SUBSET Keys : IsFiniteSet(S) /\ Cardinality(S) \in Nat
<1>1. IsFiniteSet(Keys)
  BY LedgerAssumption, FS_Interval DEF Keys
<1>2. ASSUME NEW S \in SUBSET Keys PROVE IsFiniteSet(S) /\ Cardinality(S) \in Nat
  <2>1. IsFiniteSet(S)
    BY <1>1, FS_Subset
  <2> QED
    BY <2>1, FS_CardinalityType
<1> QED
  BY <1>1, <1>2

\* The creation ranks new items get are numbers.
LEMMA NumItemsType ==
    ASSUME NEW items
    PROVE  NumItems(items) \in Nat
BY KeysFinite DEF NumItems

\* newest_cursor returns one of its arguments.
LEMMA NewestChoice ==
    ASSUME NEW a, NEW b
    PROVE  Newest(a, b) \in {a, b}
BY DEF Newest

\* The entries and items a job writes of its own accord are well-typed.
LEMMA ConstantRecords ==
    /\ NoEntry \in Entry
    /\ FreshEntry \in Entry
    /\ NoItem \in Item
BY LedgerAssumption
   DEF NoEntry, FreshEntry, NoItem, Entry, Item, EntryStatus, ItemStatus,
       Reason, Priority, Cursor

\* merge_disk_state keeps the types and invents no cursor.
LEMMA MergeEntryFacts ==
    ASSUME NEW mine \in Entry, NEW disk \in Entry
    PROVE  /\ MergeEntry(mine, disk) \in Entry
           /\ MergeEntry(mine, disk).cursor \in {mine.cursor, disk.cursor}
BY LedgerAssumption DEF MergeEntry, Newest, Entry, Cursor, Registered

LEMMA MergeFacts ==
    ASSUME NEW entries \in [Keys -> Entry], NEW disk \in [Keys -> Entry]
    PROVE  /\ MergeDiskState(entries, disk) \in [Keys -> Entry]
           /\ \A k \in Keys : MergeDiskState(entries, disk)[k].cursor
                                 \in {entries[k].cursor, disk[k].cursor}
BY MergeEntryFacts DEF MergeDiskState

\* normalize_queue_items keeps the types and invents no cursor.
LEMMA NormalizeItemFacts ==
    ASSUME NEW item \in Item, NEW e \in Entry
    PROVE  /\ NormalizeItem(item, e) \in Item
           /\ NormalizeItem(item, e).cursor \in {item.cursor, e.cursor}
BY LedgerAssumption
   DEF NormalizeItem, Newest, Entry, Item, ItemStatus, Cursor

LEMMA NormalizeFacts ==
    ASSUME NEW items \in [Keys -> Item], NEW entries \in [Keys -> Entry]
    PROVE  /\ NormalizeQueueItems(items, entries) \in [Keys -> Item]
           /\ \A k \in Keys : NormalizeQueueItems(items, entries)[k].cursor
                                 \in {items[k].cursor, entries[k].cursor}
BY NormalizeItemFacts DEF NormalizeQueueItems

\* upsert_queue_item keeps the types and invents no cursor.
LEMMA UpsertFacts ==
    ASSUME NEW item \in Item, NEW e \in Entry,
           NEW priority \in Priority, NEW born \in Nat
    PROVE  /\ UpsertQueueItem(item, e, priority, born) \in Item
           /\ UpsertQueueItem(item, e, priority, born).cursor
                 \in {item.cursor, e.cursor}
BY LedgerAssumption
   DEF UpsertQueueItem, Newest, Entry, Item, ItemStatus, Reason, Cursor, Priority

\* What every stage of the selection keeps: well-typed items, whose cursors
\* are cursors of the items before it or of the entries.
Requeues(entries, items, after) ==
    /\ after \in [Keys -> Item]
    /\ \A k \in Keys : after[k].cursor \in {items[k].cursor, entries[k].cursor}

LEMMA RequeuesTrans ==
    ASSUME NEW entries, NEW items, NEW mid, NEW after,
           Requeues(entries, items, mid), Requeues(entries, mid, after)
    PROVE  Requeues(entries, items, after)
BY DEF Requeues

\* The creation rank of a new item is a number.
LEMMA BornAtType ==
    ASSUME NEW items, NEW made \in SUBSET Keys, NEW k, NEW S \in SUBSET made
    PROVE  NumItems(items) + Cardinality(S) \in Nat
<1>1. NumItems(items) \in Nat
  BY NumItemsType
<1>2. Cardinality(S) \in Nat
  BY KeysFinite
<1> QED
  BY <1>1, <1>2

LEMMA QueueMarkedFacts ==
    ASSUME NEW entries \in [Keys -> Entry], NEW items \in [Keys -> Item],
           NEW marked \in SUBSET Keys
    PROVE  Requeues(entries, items, QueueMarked(entries, items, marked))
<1> DEFINE made(k) == {j \in marked : items[j].status = "none" /\ (j = k \/ j < k)}
           born(k) == NumItems(items) + Cardinality(made(k))
           up(k)   == UpsertQueueItem(items[k], entries[k], 40, born(k))
<1>1. QueueMarked(entries, items, marked) =
         [k \in Keys |-> IF k \notin marked THEN items[k] ELSE up(k)]
  BY DEF QueueMarked, BornAt
<1>2. ASSUME NEW k \in Keys
      PROVE  up(k) \in Item /\ up(k).cursor \in {items[k].cursor, entries[k].cursor}
  <2>1. born(k) \in Nat
    <3>1. made(k) \in SUBSET marked
      OBVIOUS
    <3> HIDE DEF made
    <3> QED
      BY <3>1, BornAtType
  <2>2. 40 \in Priority /\ items[k] \in Item /\ entries[k] \in Entry
    BY DEF Priority
  <2> HIDE DEF born
  <2> QED
    BY <2>1, <2>2, UpsertFacts
<1> HIDE DEF up
<1> QED
  BY <1>1, <1>2 DEF Requeues

LEMMA QueueProbesFacts ==
    ASSUME NEW entries \in [Keys -> Entry], NEW items \in [Keys -> Item],
           NEW boot \in SUBSET Keys, NEW stale \in SUBSET Keys
    PROVE  Requeues(entries, items, QueueProbes(entries, items, boot, stale))
<1> DEFINE rank == PoolRanks(3, entries, items)
           Before(j, k) == \/ j \in boot /\ k \in stale
                           \/ /\ j \in boot <=> k \in boot
                              /\ RankBefore(rank[j], rank[k])
           made(k) == {j \in boot \cup stale : /\ items[j].status = "none"
                                               /\ j = k \/ Before(j, k)}
           born(k) == NumItems(items) + Cardinality(made(k))
           prio(k) == IF k \in boot THEN 90 ELSE 60
           up(k)   == UpsertQueueItem(items[k], entries[k], prio(k), born(k))
<1>1. QueueProbes(entries, items, boot, stale) =
         [k \in Keys |-> IF k \notin boot \cup stale THEN items[k] ELSE up(k)]
  BY DEF QueueProbes, BornAt
<1>2. ASSUME NEW k \in Keys
      PROVE  up(k) \in Item /\ up(k).cursor \in {items[k].cursor, entries[k].cursor}
  <2>1. born(k) \in Nat
    <3>1. made(k) \in SUBSET (boot \cup stale)
      OBVIOUS
    <3> HIDE DEF made
    <3> QED
      BY <3>1, BornAtType
  <2>2. prio(k) \in Priority /\ items[k] \in Item /\ entries[k] \in Entry
    BY DEF Priority
  <2> HIDE DEF born, prio
  <2> QED
    BY <2>1, <2>2, UpsertFacts
<1> HIDE DEF up
<1> QED
  BY <1>1, <1>2 DEF Requeues

LEMMA ResumeChosenFacts ==
    ASSUME NEW entries \in [Keys -> Entry], NEW items \in [Keys -> Item],
           NEW chosen \in SUBSET Keys
    PROVE  Requeues(entries, items, ResumeChosen(entries, items, chosen))
<1>1. ASSUME NEW k \in Keys
      PROVE  /\ ResumeChosen(entries, items, chosen)[k] \in Item
             /\ ResumeChosen(entries, items, chosen)[k].cursor
                   \in {items[k].cursor, entries[k].cursor}
  <2>1. CASE k \in chosen
    <3>1. ResumeChosen(entries, items, chosen)[k] =
             [items[k] EXCEPT !.cursor = Newest(items[k].cursor, entries[k].cursor)]
      BY <2>1 DEF ResumeChosen
    <3>2. Newest(items[k].cursor, entries[k].cursor)
             \in {items[k].cursor, entries[k].cursor}
      BY NewestChoice
    <3>3. /\ items[k] \in Item
          /\ entries[k].cursor \in Cursor /\ items[k].cursor \in Cursor
      BY DEF Entry, Item
    <3> QED
      BY <3>1, <3>2, <3>3 DEF Item
  <2>2. CASE k \notin chosen
    BY <2>2 DEF ResumeChosen
  <2> QED
    BY <2>1, <2>2
<1> QED
  BY <1>1 DEF Requeues, ResumeChosen

\* A plan of the four pools and the queue that goes with it.
PlanOk(entries, items, chosen) ==
    /\ chosen.plan \in [1..4 -> SUBSET Keys]
    /\ Requeues(entries, items, chosen.items)

LEMMA ChosenFacts ==
    ASSUME NEW entries \in [Keys -> Entry], NEW items \in [Keys -> Item],
           NEW active \in SUBSET Keys, NEW partials \in SUBSET Keys,
           NEW boot \in SUBSET Keys, NEW stale \in SUBSET Keys
    PROVE  PlanOk(entries, items,
                  Chosen(entries, items, active, partials, boot, stale))
<1> DEFINE probed == QueueProbes(entries, items, boot, stale)
           all    == active \cup partials \cup boot \cup stale
<1>1. Requeues(entries, items, probed)
  BY QueueProbesFacts
<1>2. Requeues(entries, probed, ResumeChosen(entries, probed, all))
  <2>1. probed \in [Keys -> Item] /\ all \in SUBSET Keys
    BY <1>1 DEF Requeues
  <2> HIDE DEF probed, all
  <2> QED
    BY <2>1, ResumeChosenFacts
<1>3. Requeues(entries, items, ResumeChosen(entries, probed, all))
  <2> HIDE DEF probed, all
  <2> QED
    BY <1>1, <1>2, RequeuesTrans
<1>4. <<active, partials, boot, stale>> \in [1..4 -> SUBSET Keys]
  OBVIOUS
<1> QED
  BY <1>3, <1>4 DEF PlanOk, Chosen

LEMMA SelectProbesFacts ==
    ASSUME NEW entries \in [Keys -> Entry], NEW items \in [Keys -> Item],
           NEW active \in SUBSET Keys, NEW partials \in SUBSET Keys,
           NEW free, NEW today
    PROVE  PlanOk(entries, items,
                  SelectProbes(entries, items, active, partials, free, today))
<1> DEFINE rank  == PoolRanks(3, entries, items)
           boot  == Bootstrap(entries, today) \ (active \cup partials)
           stale == StaleHealthy(entries, today) \ (active \cup partials)
           now   == FirstN(boot, BootstrapSlots(free, Cardinality(boot),
                                                Cardinality(stale)), rank)
           late  == FirstN(stale, StaleSlots(free, Cardinality(boot),
                                             Cardinality(stale)), rank)
<1>1. SelectProbes(entries, items, active, partials, free, today) =
         Chosen(entries, items, active, partials, now, late)
  BY DEF SelectProbes
<1>2. now \in SUBSET Keys /\ late \in SUBSET Keys
  BY DEF FirstN, Bootstrap, StaleHealthy
<1> HIDE DEF now, late
<1> QED
  BY <1>1, <1>2, ChosenFacts

LEMMA SelectPartialsFacts ==
    ASSUME NEW entries \in [Keys -> Entry], NEW items \in [Keys -> Item],
           NEW active \in SUBSET Keys, NEW marked \in SUBSET Keys,
           NEW free, NEW today
    PROVE  PlanOk(entries, items,
                  SelectPartials(entries, items, active, marked, free, today))
<1> DEFINE queued   == QueueMarked(entries, items, marked)
           partials == FirstN(marked, free, PoolRanks(2, entries, queued))
           probes   == SelectProbes(entries, queued, active, partials,
                                    free - Cardinality(partials), today)
<1>1. SelectPartials(entries, items, active, marked, free, today) = probes
  BY DEF SelectPartials
<1>2. Requeues(entries, items, queued)
  BY QueueMarkedFacts
<1>3. PlanOk(entries, queued, probes)
  <2>1. queued \in [Keys -> Item] /\ partials \in SUBSET Keys
    BY <1>2 DEF Requeues, FirstN
  <2> HIDE DEF queued, partials
  <2> QED
    BY <2>1, SelectProbesFacts
<1> HIDE DEF queued, probes
<1> QED
  BY <1>1, <1>2, <1>3, RequeuesTrans DEF PlanOk

\* select_candidates: the plan is made of keys, the items stay well-typed, and
\* the only cursors written are the item's own and its entry's.
LEMMA SelectFacts ==
    ASSUME NEW entries \in [Keys -> Entry], NEW items \in [Keys -> Item],
           NEW limit \in Nat, NEW today \in Nat
    PROVE  /\ Select(entries, items, limit, today).plan
                 \in [1..4 -> SUBSET Keys]
           /\ Select(entries, items, limit, today).items \in [Keys -> Item]
           /\ \A k \in Keys :
                 Select(entries, items, limit, today).items[k].cursor
                    \in {items[k].cursor, entries[k].cursor}
<1> DEFINE active == FirstN(ActiveWork(entries, items), limit,
                            PoolRanks(1, entries, items))
           free   == limit - Cardinality(active)
           marked == IF free = 0 THEN {} ELSE StateMarked(entries) \ active
<1>1. Select(entries, items, limit, today) =
         SelectPartials(entries, items, active, marked, free, today)
  BY DEF Select
<1>2. active \in SUBSET Keys /\ marked \in SUBSET Keys
  BY DEF FirstN, ActiveWork, StateMarked
<1>3. PlanOk(entries, items, Select(entries, items, limit, today))
  <2> HIDE DEF active, free, marked
  <2> QED
    BY <1>1, <1>2, SelectPartialsFacts
<1> QED
  BY <1>3 DEF PlanOk, Requeues

-----------------------------------------------------------------------------
\* The least and the greatest of some numbers, found without induction of
\* one's own: intervals, ordered by inclusion, are well-founded.
LEMMA LeastOf ==
    ASSUME NEW T \in SUBSET Nat, T # {}
    PROVE  \E x \in T : \A y \in T : x <= y
<1> DEFINE spans == {1..x : x \in T}
<1>1. spans \in SUBSET FiniteSubsetsOf(Nat) /\ spans # {}
  <2>1. ASSUME NEW x \in T PROVE 1..x \in FiniteSubsetsOf(Nat)
    <3>1. IsFiniteSet(1..x) /\ 1..x \in SUBSET Nat
      BY FS_Interval
    <3> QED
      BY <3>1 DEF FiniteSubsetsOf
  <2> QED
    BY <2>1
<1>2. PICK least \in spans : \A s \in spans : ~(<<s, least>> \in StrictSubsetOrdering(Nat))
  BY <1>1, WFMin, FS_StrictSubsetOrderingWellFounded
<1>3. PICK x \in T : least = 1..x
  BY <1>2
<1>4. ASSUME NEW y \in T, y < x PROVE FALSE
  <2>1. 1..y \in SUBSET Nat /\ 1..x \in SUBSET Nat /\ 1..y \subseteq 1..x
    BY <1>4
  <2>2. x \in 1..x /\ x \notin 1..y
    BY <1>4
  <2>3. <<1..y, 1..x>> \in StrictSubsetOrdering(Nat)
    BY <2>1, <2>2 DEF StrictSubsetOrdering
  <2> QED
    BY <1>2, <1>3, <2>3
<1> QED
  BY <1>4

LEMMA GreatestOf ==
    ASSUME NEW n \in Nat, NEW T \in SUBSET (0..n), T # {}
    PROVE  \E x \in T : \A y \in T : y <= x
<1> DEFINE below == {n - x : x \in T}
<1>1. below \in SUBSET Nat /\ below # {}
  <2>1. \A x \in T : x \in 0..n /\ n - x \in Nat
    OBVIOUS
  <2> QED
    BY <2>1
<1>2. PICK b \in below : \A y \in below : b <= y
  BY <1>1, LeastOf
<1>3. PICK x \in T : b = n - x
  BY <1>2
<1>4. \A y \in T : n - x <= n - y
  BY <1>2, <1>3
<1> QED
  BY <1>4

-----------------------------------------------------------------------------

\* What was live and archived before a step still is, for every position.
CoverageKept == \A k \in Keys, c \in Cursor : Covered(k, c) => Covered(k, c)'

ArchiveGrows == \A k \in Keys : RawIds(k) \subseteq RawIds(k)'

ArchiveTypeOK == /\ raw \in [Keys -> [Ids -> Nat]]
                 /\ torn \in [Keys -> SUBSET Ids]

LEMMA GrowthKeepsCoverage ==
    ASSUME UNCHANGED <<posted, live>>, ArchiveGrows
    PROVE  CoverageKept
BY DEF CoverageKept, ArchiveGrows, Covered

LEMMA UnchangedRawGrows ==
    ASSUME UNCHANGED raw
    PROVE  ArchiveGrows
BY DEF ArchiveGrows, RawIds

\* A new message lies past every covered position; a deleted one is no
\* longer asked for.
LEMMA PostKeepsCoverage ==
    ASSUME StoreTypeOK, NEW k \in Keys, Post(k)
    PROVE  CoverageKept
<1> SUFFICES ASSUME NEW j \in Keys, NEW c \in Cursor, Covered(j, c)
             PROVE  Covered(j, c)'
  BY DEF CoverageKept
<1>1. posted \in [Keys -> Cursor] /\ live \in [Keys -> SUBSET Ids]
  BY DEF StoreTypeOK
<1>2. c \in Nat /\ posted[j] \in Nat /\ posted[k] \in Nat
  BY <1>1, LedgerAssumption DEF Cursor
<1>3. posted'[j] \in Nat /\ posted'[j] >= posted[j]
  BY <1>1, <1>2 DEF Post
<1>4. \A m \in live'[j] : m \in live[j] \/ m = posted[j] + 1
  BY <1>1 DEF Post
<1>5. RawIds(j)' = RawIds(j)
  BY DEF Post, archiveVars, RawIds
<1> QED
  BY <1>2, <1>3, <1>4, <1>5 DEF Covered

LEMMA DeleteKeepsCoverage ==
    ASSUME StoreTypeOK, NEW k \in Keys, Delete(k)
    PROVE  CoverageKept
<1>1. \A j \in Keys : live'[j] \subseteq live[j]
  BY DEF StoreTypeOK, Delete
<1>2. \A j \in Keys : RawIds(j)' = RawIds(j)
  BY DEF Delete, archiveVars, RawIds
<1>3. posted' = posted
  BY DEF Delete
<1> QED
  BY <1>1, <1>2, <1>3 DEF CoverageKept, Covered

-----------------------------------------------------------------------------
\* append_batch: raw keeps what it held and gains the batch.
LEMMA WithCopiesFacts ==
    ASSUME raw \in [Keys -> [Ids -> Nat]], NEW k \in Keys, NEW ids \in SUBSET Ids,
           raw' = WithCopies(k, ids)
    PROVE  /\ raw' \in [Keys -> [Ids -> Nat]]
           /\ ArchiveGrows
           /\ \A j \in Keys : RawIds(j)' = RawIds(j) \cup (IF j = k THEN ids ELSE {})
<1>1. ASSUME NEW j \in Keys, NEW m \in Ids
      PROVE  raw'[j][m] = IF j = k /\ m \in ids THEN raw[j][m] + 1 ELSE raw[j][m]
  <2>1. CASE j = k
    <3>1. raw'[k] = [i \in Ids |-> IF i \in ids THEN raw[k][i] + 1 ELSE raw[k][i]]
      BY DEF WithCopies
    <3> QED
      BY <2>1, <3>1
  <2>2. CASE j # k
    BY <2>2 DEF WithCopies
  <2> QED
    BY <2>1, <2>2
<1>2. raw' \in [Keys -> [Ids -> Nat]]
  BY DEF WithCopies
<1>3. ASSUME NEW j \in Keys
      PROVE  RawIds(j)' = RawIds(j) \cup (IF j = k THEN ids ELSE {})
  <2>1. ASSUME NEW m \in Ids
        PROVE  raw'[j][m] > 0 <=> raw[j][m] > 0 \/ (j = k /\ m \in ids)
    <3>1. raw[j][m] \in Nat
      OBVIOUS
    <3> QED
      BY <1>1, <3>1
  <2> QED
    BY <2>1 DEF RawIds
<1> QED
  BY <1>2, <1>3 DEF ArchiveGrows

LEMMA AppendFacts ==
    ASSUME ArchiveTypeOK, NEW k \in Keys, NEW msgs \in SUBSET Ids,
           AppendBatch(k, msgs)
    PROVE  /\ ArchiveTypeOK'
           /\ ArchiveGrows
           /\ msgs \subseteq RawIds(k)'
<1>1. Unarchived(k, msgs) \in SUBSET Ids
  BY DEF Unarchived
<1>2. raw' = WithCopies(k, Unarchived(k, msgs)) /\ torn' = torn
  BY DEF AppendBatch
<1>3. raw \in [Keys -> [Ids -> Nat]] /\ torn \in [Keys -> SUBSET Ids]
  BY DEF ArchiveTypeOK
<1>4. /\ raw' \in [Keys -> [Ids -> Nat]]
      /\ ArchiveGrows
      /\ RawIds(k)' = RawIds(k) \cup Unarchived(k, msgs)
  BY <1>1, <1>2, <1>3, WithCopiesFacts
<1> QED
  BY <1>2, <1>3, <1>4 DEF ArchiveTypeOK, Unarchived

\* An append cut short adds a part of the batch.
LEMMA CutShortFacts ==
    ASSUME ArchiveTypeOK, NEW k \in Keys, NEW msgs \in SUBSET Ids,
           AppendCutShort(k, msgs)
    PROVE  /\ ArchiveTypeOK'
           /\ ArchiveGrows
<1>1. PICK cut \in Cursor :
         LET written == {m \in Unarchived(k, msgs) : m <= cut}
         IN /\ raw' = WithCopies(k, written)
            /\ \E tail \in SUBSET written :
                  torn' = [torn EXCEPT ![k] = @ \cup tail]
  BY DEF AppendCutShort
<1> DEFINE written == {m \in Unarchived(k, msgs) : m <= cut}
<1>2. written \in SUBSET Ids
  BY DEF Unarchived
<1>3. PICK tail \in SUBSET written : torn' = [torn EXCEPT ![k] = @ \cup tail]
  BY <1>1
<1>4. raw' \in [Keys -> [Ids -> Nat]] /\ ArchiveGrows
  BY <1>1, <1>2, WithCopiesFacts DEF ArchiveTypeOK
<1>5. torn' \in [Keys -> SUBSET Ids]
  BY <1>2, <1>3 DEF ArchiveTypeOK
<1> QED
  BY <1>4, <1>5 DEF ArchiveTypeOK

-----------------------------------------------------------------------------
\* A page leaves no message out between the cursor and any of its members.
LEMMA PageFacts ==
    ASSUME live \in [Keys -> SUBSET Ids], NEW k \in Keys,
           NEW cursor \in Nat, NEW n \in Nat
    PROVE  /\ Page(k, cursor, n) \in SUBSET live[k]
           /\ \A m \in Page(k, cursor, n) : \A j \in live[k] :
                 cursor < j /\ j <= m => j \in Page(k, cursor, n)
<1> DEFINE before(m) == {i \in live[k] : cursor < i /\ i < m}
<1>1. SUFFICES ASSUME NEW m \in Page(k, cursor, n), NEW j \in live[k],
                      cursor < j, j <= m
               PROVE  j \in Page(k, cursor, n)
  BY DEF Page
<1>2. IsFiniteSet(Ids)
  BY LedgerAssumption, FS_Interval DEF Ids
<1>3. live[k] \in SUBSET Ids /\ \A i \in live[k] : i \in Nat
  BY LedgerAssumption DEF Ids
<1>4. m \in live[k] /\ Cardinality(before(m)) < n
  BY DEF Page
<1>5. before(j) \in SUBSET before(m)
  BY <1>1, <1>3, <1>4
<1>6. IsFiniteSet(before(m)) /\ IsFiniteSet(before(j))
  BY <1>2, <1>3, FS_Subset
<1>7. Cardinality(before(j)) <= Cardinality(before(m))
  BY <1>5, <1>6, FS_Subset
<1>8. Cardinality(before(j)) \in Nat /\ Cardinality(before(m)) \in Nat
  BY <1>6, FS_CardinalityType
<1>9. Cardinality(before(j)) < n
  <2> HIDE DEF before
  <2> QED
    BY <1>4, <1>7, <1>8
<1> QED
  BY <1>1, <1>9 DEF Page

\* A ledger a process reads is one of the files, or one of the copies.
LEMMA ReadableFacts ==
    ASSUME NEW file, NEW baks, NEW source \in Readable(file, baks)
    PROVE  source = file \/ \E i \in 1..BakKeep : source = baks[i]
BY DEF Readable

\* Rotating a copy in keeps the types, and what is kept was there.
LEMMA RotateTypes ==
    ASSUME NEW S, NEW baks \in [1..BakKeep -> S], NEW file \in S
    PROVE  Rotate(baks, file) \in [1..BakKeep -> S]
<1>1. \A i \in 1..BakKeep : i # 1 => i - 1 \in 1..BakKeep
  BY StoreAssumption
<1> QED
  BY <1>1, StoreAssumption DEF Rotate

LEMMA RotateChoice ==
    ASSUME NEW baks, NEW file, NEW i \in 1..BakKeep
    PROVE  \/ Rotate(baks, file)[i] = file
           \/ \E j \in 1..BakKeep : Rotate(baks, file)[i] = baks[j]
<1>1. i # 1 => i - 1 \in 1..BakKeep
  BY StoreAssumption
<1> QED
  BY <1>1 DEF Rotate
-----------------------------------------------------------------------------
(* The worker.                                                             *)

USE StoreAssumption, WorkerAssumption, LedgerAssumption

LEMMA IdleWorkerTypes ==
    /\ NoEntries \in Entries
    /\ NoItems \in Items
    /\ IdleWorker \in WorkerType
<1>1. NoEntries \in Entries /\ NoItems \in Items
  BY ConstantRecords DEF NoEntries, NoItems, Entries, Items
<1> QED
  BY <1>1
     DEF IdleWorker, WorkerType, WorkerPc, AfterSave, NoPlan, Plans, Cursor

\* Nothing is claimed by a null cursor.
LEMMA ZeroCovered ==
    ASSUME StoreTypeOK, NEW k \in Keys
    PROVE  Covered(k, 0)
BY DEF StoreTypeOK, Covered, Cursor, Ids

LEMMA SameCoverage ==
    ASSUME UNCHANGED <<posted, live, raw>>, NEW k, NEW c, Covered(k, c)
    PROVE  Covered(k, c)'
BY DEF Covered, RawIds

\* Every cursor of v is one w holds for the same channel.
CursorsOf(w, k) == {w.entries[k].cursor, w.items[k].cursor}
                     \cup (IF k = w.key THEN {w.cursor} ELSE {})

Carried(w, v) ==
    /\ \A k \in Keys : /\ v.entries[k].cursor \in CursorsOf(w, k)
                       /\ v.items[k].cursor \in CursorsOf(w, k)
    /\ v.key # 0 => v.cursor \in CursorsOf(w, v.key)

\* The shape all three updates share: one entry, one item and the scalars.
Touched(w, v, e, i) ==
    /\ v.entries = [w.entries EXCEPT ![w.key] = e]
    /\ v.items = [w.items EXCEPT ![w.key] = i]
    /\ v.key = w.key /\ v.today = w.today /\ v.plan = w.plan
    /\ v.total = w.total /\ v.batches = w.batches

LEMMA TouchedFacts ==
    ASSUME NEW w \in WorkerType, w.key \in Keys, NEW v, NEW e \in Entry, NEW i \in Item,
           Touched(w, v, e, i)
    PROVE  /\ v.entries \in Entries /\ v.items \in Items
           /\ \A k \in Keys : v.entries[k].cursor =
                                 IF k = w.key THEN e.cursor ELSE w.entries[k].cursor
           /\ \A k \in Keys : v.items[k].cursor =
                                 IF k = w.key THEN i.cursor ELSE w.items[k].cursor
BY DEF Touched, WorkerType, Entries, Items

LEMMA CaughtUpFacts ==
    ASSUME NEW w \in WorkerType, w.key \in Keys
    PROVE  /\ CaughtUp(w) \in WorkerType
           /\ CaughtUp(w).pc = "merge" /\ CaughtUp(w).then = "pick"
           /\ Carried(w, CaughtUp(w))
<1> DEFINE e == [w.entries[w.key] EXCEPT !.status = "healthy", !.reason = "none",
                                         !.last = w.today]
           i == [w.items[w.key] EXCEPT !.status = "caught_up", !.cursor = w.cursor]
<1>0. /\ w.entries[w.key] \in Entry /\ w.items[w.key] \in Item
      /\ w.cursor \in Cursor /\ w.today \in 0..MaxDay
  BY DEF WorkerType, Entries, Items
<1>1. e \in Entry /\ e.cursor = w.entries[w.key].cursor
  BY <1>0 DEF Entry, EntryStatus, Reason
<1>2. i \in Item /\ i.cursor = w.cursor
  BY <1>0 DEF Item, ItemStatus
<1>3. CaughtUp(w) = [w EXCEPT !.pc = "merge", !.then = "pick",
                              !.entries = [w.entries EXCEPT ![w.key] = e],
                              !.items = [w.items EXCEPT ![w.key] = i]]
  BY DEF CaughtUp, WorkerType
<1> HIDE DEF e, i
<1>4. Touched(w, CaughtUp(w), e, i)
  BY <1>3 DEF Touched, WorkerType
<1>5. /\ CaughtUp(w).pc = "merge" /\ CaughtUp(w).then = "pick"
      /\ CaughtUp(w).cursor = w.cursor
  BY <1>3 DEF WorkerType
<1>6. CaughtUp(w) \in WorkerType
  BY <1>1, <1>2, <1>3, <1>4, TouchedFacts DEF WorkerType, WorkerPc, AfterSave
<1>7. Carried(w, CaughtUp(w))
  BY <1>1, <1>2, <1>4, <1>5, TouchedFacts DEF Carried, CursorsOf, Touched
<1> QED
  BY <1>5, <1>6, <1>7

LEMMA FailedFacts ==
    ASSUME NEW w \in WorkerType, w.key \in Keys
    PROVE  /\ Failed(w) \in WorkerType
           /\ Failed(w).pc = "merge" /\ Failed(w).then = "pick"
           /\ Carried(w, Failed(w))
<1> DEFINE e == [w.entries[w.key] EXCEPT !.status = "error"]
           i == [w.items[w.key] EXCEPT !.status = "retry", !.cursor = w.cursor]
<1>0. /\ w.entries[w.key] \in Entry /\ w.items[w.key] \in Item
      /\ w.cursor \in Cursor /\ w.today \in 0..MaxDay
  BY DEF WorkerType, Entries, Items
<1>1. e \in Entry /\ e.cursor = w.entries[w.key].cursor
  BY <1>0 DEF Entry, EntryStatus
<1>2. i \in Item /\ i.cursor = w.cursor
  BY <1>0 DEF Item, ItemStatus
<1>3. Failed(w) = [w EXCEPT !.pc = "merge", !.then = "pick", !.page = {},
                            !.entries = [w.entries EXCEPT ![w.key] = e],
                            !.items = [w.items EXCEPT ![w.key] = i]]
  BY DEF Failed, WorkerType
<1> HIDE DEF e, i
<1>4. Touched(w, Failed(w), e, i)
  BY <1>3 DEF Touched, WorkerType
<1>5. /\ Failed(w).pc = "merge" /\ Failed(w).then = "pick"
      /\ Failed(w).cursor = w.cursor
  BY <1>3 DEF WorkerType
<1>6. Failed(w) \in WorkerType
  BY <1>1, <1>2, <1>3, <1>4, TouchedFacts DEF WorkerType, WorkerPc, AfterSave
<1>7. Carried(w, Failed(w))
  BY <1>1, <1>2, <1>4, <1>5, TouchedFacts DEF Carried, CursorsOf, Touched
<1> QED
  BY <1>5, <1>6, <1>7

LEMMA AdvancedFacts ==
    ASSUME NEW w \in WorkerType, w.key \in Keys, NEW top \in Cursor
    PROVE  /\ Advanced(w, top) \in WorkerType
           /\ Advanced(w, top).pc = "merge"
           /\ Advanced(w, top).key = w.key
           /\ Advanced(w, top).cursor = top
           /\ \A k \in Keys : Advanced(w, top).entries[k].cursor =
                                 IF k = w.key THEN top ELSE w.entries[k].cursor
           /\ \A k \in Keys : Advanced(w, top).items[k].cursor =
                                 IF k = w.key THEN top ELSE w.items[k].cursor
<1> DEFINE e == [w.entries[w.key] EXCEPT !.cursor = top, !.status = "partial",
                                         !.reason = ReasonAfterPage(w)]
           i == [w.items[w.key] EXCEPT !.status = "queued", !.cursor = top]
<1>0. /\ w.entries[w.key] \in Entry /\ w.items[w.key] \in Item
      /\ w.cursor \in Cursor /\ w.today \in 0..MaxDay
  BY DEF WorkerType, Entries, Items
<1>1. e \in Entry /\ e.cursor = top
  BY <1>0 DEF ReasonAfterPage, Entry, EntryStatus, Reason
<1>2. i \in Item /\ i.cursor = top
  BY <1>0 DEF Item, ItemStatus
<1>3. Advanced(w, top) = [w EXCEPT !.pc = "merge", !.then = AfterPage(w),
                                   !.cursor = top, !.page = {},
                                   !.entries = [w.entries EXCEPT ![w.key] = e],
                                   !.items = [w.items EXCEPT ![w.key] = i]]
  BY DEF Advanced, WorkerType
<1> HIDE DEF e, i
<1>4. Touched(w, Advanced(w, top), e, i)
  BY <1>3 DEF Touched, WorkerType
<1>5. Advanced(w, top).pc = "merge" /\ Advanced(w, top).cursor = top
  BY <1>3 DEF WorkerType
<1>6. AfterPage(w) \in AfterSave
  BY DEF AfterPage, AfterSave
<1>7. Advanced(w, top) \in WorkerType
  BY <1>1, <1>2, <1>3, <1>4, <1>6, TouchedFacts DEF WorkerType, WorkerPc
<1>8. /\ \A k \in Keys : Advanced(w, top).entries[k].cursor =
                            IF k = w.key THEN e.cursor ELSE w.entries[k].cursor
      /\ \A k \in Keys : Advanced(w, top).items[k].cursor =
                            IF k = w.key THEN i.cursor ELSE w.items[k].cursor
  BY <1>4 DEF Touched, WorkerType, Entries, Items
<1> QED
  BY <1>1, <1>2, <1>4, <1>5, <1>7, <1>8 DEF Touched

\* Carried speaks of cursors only, so counting a read changes nothing.
LEMMA CarriedCounted ==
    ASSUME NEW w, NEW u, NEW v,
           u.entries = w.entries, u.items = w.items,
           u.key = w.key, u.cursor = w.cursor, Carried(u, v)
    PROVE  Carried(w, v)
BY DEF Carried, CursorsOf

LEMMA FaultTypes ==
    ASSUME StoreTypeOK
    PROVE  /\ Fault => faults' \in 0..MaxFaults
           /\ \A k : ReadFails(k) => faults' \in 0..MaxFaults
           /\ \A k : ReadSucceeds(k) => faults' \in 0..MaxFaults
BY DEF StoreTypeOK, Fault, ReadFails, ReadSucceeds
-----------------------------------------------------------------------------
(* The worker's steps.                                                     *)

\* What the worker's own steps rest on; its hold of the lock included.
WorkerSide ==
    /\ StoreTypeOK /\ WorkerTypeOK /\ LiveBounded /\ CandidateHeld /\ PageComplete
    /\ lock = "worker" <=> worker.pc # "idle"

\* Every cursor of k the worker may ever write: in the files and their copies,
\* and in its locals.
Held(k) ==
    {0, stateFile.entries[k].cursor, queueFile.items[k].cursor}
      \cup {stateBaks[i].entries[k].cursor : i \in 1..BakKeep}
      \cup {queueBaks[i].items[k].cursor : i \in 1..BakKeep}
      \cup CursorsOf(worker, k)

HeldCovered(k) == \A c \in Held(k) : Covered(k, c)

\* What every step of the worker achieves.
WorkerKeeps ==
    /\ WorkerSide' /\ ArchiveGrows /\ UNCHANGED <<posted, live>>
    /\ lock' # lock => lock \in {Free, "worker"} /\ lock' \in {Free, "worker"}
    /\ \A k \in Keys : HeldCovered(k) => HeldCovered(k)'

\* No new cursor, no new claim.
LEMMA SameHeld ==
    ASSUME UNCHANGED <<posted, live>>, ArchiveGrows,
           NEW k \in Keys, Held(k)' \subseteq Held(k), HeldCovered(k)
    PROVE  HeldCovered(k)'
BY DEF HeldCovered, Covered, ArchiveGrows

LEMMA CarriedHeld ==
    ASSUME NEW w, NEW v, Carried(w, v), NEW k \in Keys
    PROVE  CursorsOf(v, k) \subseteq CursorsOf(w, k)
BY DEF Carried, CursorsOf, Keys

LEMMA OwnCursors ==
    ASSUME NEW k
    PROVE  CursorsOf(worker, k)' = CursorsOf(worker', k)
BY DEF CursorsOf

\* A step on the worker's locals that writes only cursors it already holds.
LEMMA WorkerLocal ==
    ASSUME WorkerSide, UNCHANGED <<discordVars, archiveVars, ledgerVars, lock>>,
           faults' \in 0..MaxFaults, worker' \in WorkerType,
           Carried(worker, worker'), worker.pc # "idle", worker'.pc # "idle",
           CandidateHeld', PageComplete'
    PROVE  WorkerKeeps
<1>1. ArchiveGrows
  BY UnchangedRawGrows DEF archiveVars
<1>2. StoreTypeOK'
  BY DEF WorkerSide, StoreTypeOK, discordVars, archiveVars, ledgerVars
<1>3. WorkerSide'
  BY <1>2 DEF WorkerSide, WorkerTypeOK, LiveBounded, discordVars
<1>4. ASSUME NEW k \in Keys PROVE Held(k)' \subseteq Held(k)
  BY CarriedHeld, OwnCursors DEF Held, ledgerVars
<1> QED
  BY <1>1, <1>3, <1>4, SameHeld DEF WorkerKeeps, discordVars

\* Any exit of the process: the lock is free, the ledgers are as they were.
LEMMA WorkerExits ==
    ASSUME WorkerSide, worker.pc # "idle", worker' = IdleWorker, lock' = Free,
           UNCHANGED <<discordVars, ledgerVars>>,
           faults' \in 0..MaxFaults, ArchiveTypeOK', ArchiveGrows
    PROVE  WorkerKeeps
<1>1. StoreTypeOK'
  BY DEF WorkerSide, StoreTypeOK, discordVars, ledgerVars, ArchiveTypeOK
<1>2. WorkerSide'
  BY <1>1, IdleWorkerTypes
     DEF WorkerSide, WorkerTypeOK, LiveBounded, CandidateHeld, PageComplete,
         discordVars, IdleWorker, Free
<1>3. ASSUME NEW k \in Keys PROVE Held(k)' \subseteq Held(k)
  <2>1. CursorsOf(IdleWorker, k) = {0}
    BY DEF CursorsOf, IdleWorker, NoEntries, NoItems, NoEntry, NoItem
  <2> QED
    BY <2>1, OwnCursors DEF Held, ledgerVars
<1>4. lock = "worker"
  BY DEF WorkerSide
<1> QED
  BY <1>2, <1>3, <1>4, SameHeld DEF WorkerKeeps, discordVars

LEMMA WorkerStartKeeps ==
    ASSUME WorkerSide, WorkerStart
    PROVE  WorkerKeeps
<1>1. PICK source \in Readable(stateFile, stateBaks) :
         worker' = [IdleWorker EXCEPT !.pc = "prepare", !.today = day,
                                      !.entries = source.entries]
  BY DEF WorkerStart
<1>2. source = stateFile \/ \E i \in 1..BakKeep : source = stateBaks[i]
  BY ReadableFacts
<1>3. source.entries \in Entries
  BY <1>2 DEF WorkerSide, StoreTypeOK, StateFiles
<1>4. /\ UNCHANGED <<discordVars, archiveVars, ledgerVars, faults>>
      /\ lock = Free /\ lock' = "worker"
  BY DEF WorkerStart
<1>5. ArchiveGrows
  BY <1>4, UnchangedRawGrows DEF archiveVars
<1>6. StoreTypeOK'
  BY <1>4 DEF WorkerSide, StoreTypeOK, discordVars, archiveVars, ledgerVars, Jobs
<1>7. /\ worker' \in WorkerType
      /\ worker'.pc = "prepare" /\ worker'.key = 0
      /\ worker'.entries = source.entries /\ worker'.items = NoItems
  <2>1. day \in 0..MaxDay
    BY DEF WorkerSide, StoreTypeOK
  <2>2. IdleWorker.key = 0 /\ IdleWorker.items = NoItems
    BY DEF IdleWorker
  <2> QED
    BY <1>1, <1>3, <2>1, <2>2, IdleWorkerTypes DEF WorkerType, WorkerPc
<1>8. WorkerSide'
  BY <1>4, <1>6, <1>7
     DEF WorkerSide, WorkerTypeOK, LiveBounded, CandidateHeld, PageComplete, discordVars
<1>9. ASSUME NEW k \in Keys PROVE Held(k)' \subseteq Held(k)
  <2>1. CursorsOf(worker', k) = {source.entries[k].cursor, 0}
    BY <1>7 DEF CursorsOf, NoItems, NoItem, Keys
  <2>2. source.entries[k].cursor \in Held(k)
    BY <1>2 DEF Held
  <2>3. 0 \in Held(k)
    BY DEF Held
  <2>4. Held(k)' \subseteq Held(k) \cup CursorsOf(worker', k)
    BY <1>4, OwnCursors DEF Held, ledgerVars
  <2> QED
    BY <2>1, <2>2, <2>3, <2>4
<1> QED
  BY <1>4, <1>5, <1>8, <1>9, SameHeld DEF WorkerKeeps, discordVars

LEMMA PrepareFacts ==
    ASSUME StoreTypeOK, WorkerTypeOK, WorkerPrepare
    PROVE  /\ worker' \in WorkerType
           /\ worker'.pc = "pick"
           /\ worker'.entries = worker.entries
           /\ worker'.key = worker.key /\ worker'.cursor = worker.cursor
           /\ \A k \in Keys : worker'.items[k].cursor \in Held(k)
<1>1. PICK source \in Readable(queueFile, queueBaks) :
         \E items \in {NormalizeQueueItems(source.items, worker.entries)} :
         \E chosen \in {Select(worker.entries, items, MaxEntries, worker.today)} :
            worker' = [worker EXCEPT !.pc = "pick", !.items = chosen.items,
                                     !.plan = chosen.plan]
  BY DEF WorkerPrepare
<1> DEFINE items  == NormalizeQueueItems(source.items, worker.entries)
           chosen == Select(worker.entries, items, MaxEntries, worker.today)
<1>2. source = queueFile \/ \E i \in 1..BakKeep : source = queueBaks[i]
  BY ReadableFacts
<1>3. /\ source.items \in [Keys -> Item]
      /\ \A k \in Keys : source.items[k].cursor \in Held(k)
  BY <1>2 DEF StoreTypeOK, QueueFiles, Items, Held
<1>4. /\ worker.entries \in [Keys -> Entry]
      /\ \A k \in Keys : worker.entries[k].cursor \in Held(k)
      /\ worker.today \in Nat
  BY DEF WorkerTypeOK, WorkerType, Entries, Held, CursorsOf
<1>5. /\ items \in [Keys -> Item]
      /\ \A k \in Keys : items[k].cursor \in {source.items[k].cursor,
                                               worker.entries[k].cursor}
  BY <1>3, <1>4, NormalizeFacts
<1>6. /\ chosen.plan \in Plans
      /\ chosen.items \in Items
      /\ \A k \in Keys : chosen.items[k].cursor \in {items[k].cursor,
                                                      worker.entries[k].cursor}
  <2> HIDE DEF items
  <2> QED
    BY <1>4, <1>5, SelectFacts DEF Plans, Items
<1>7. worker' = [worker EXCEPT !.pc = "pick", !.items = chosen.items,
                               !.plan = chosen.plan]
  BY <1>1
<1> HIDE DEF items, chosen
<1>8. \A k \in Keys : chosen.items[k].cursor \in Held(k)
  BY <1>3, <1>4, <1>5, <1>6
<1> QED
  BY <1>6, <1>7, <1>8 DEF WorkerTypeOK, WorkerType, WorkerPc

LEMMA WorkerPrepareKeeps ==
    ASSUME WorkerSide, WorkerPrepare
    PROVE  WorkerKeeps
<1>1. /\ UNCHANGED <<discordVars, archiveVars, stateFile, queueFile, lock, faults>>
      /\ worker.pc = "prepare"
      /\ stateBaks' = Rotate(stateBaks, stateFile)
      /\ queueBaks' = Rotate(queueBaks, queueFile)
  BY DEF WorkerPrepare
<1>2. /\ worker' \in WorkerType
      /\ worker'.pc = "pick"
      /\ worker'.entries = worker.entries
      /\ worker'.key = worker.key /\ worker'.cursor = worker.cursor
      /\ \A k \in Keys : worker'.items[k].cursor \in Held(k)
  BY PrepareFacts DEF WorkerSide
<1>3. ArchiveGrows
  BY <1>1, UnchangedRawGrows DEF archiveVars
<1>4. StoreTypeOK'
  BY <1>1, RotateTypes DEF WorkerSide, StoreTypeOK, discordVars, archiveVars
<1>5. WorkerSide'
  BY <1>1, <1>2, <1>4
     DEF WorkerSide, WorkerTypeOK, LiveBounded, CandidateHeld, PageComplete, discordVars
<1>6. ASSUME NEW k \in Keys PROVE Held(k)' \subseteq Held(k)
  <2>1. CursorsOf(worker', k) \subseteq Held(k)
    BY <1>2 DEF CursorsOf, Held
  <2>2. \A i \in 1..BakKeep : /\ stateBaks'[i].entries[k].cursor \in Held(k)
                              /\ queueBaks'[i].items[k].cursor \in Held(k)
    <3>1. ASSUME NEW i \in 1..BakKeep
          PROVE  /\ \/ stateBaks'[i] = stateFile
                    \/ \E j \in 1..BakKeep : stateBaks'[i] = stateBaks[j]
                 /\ \/ queueBaks'[i] = queueFile
                    \/ \E j \in 1..BakKeep : queueBaks'[i] = queueBaks[j]
      BY <1>1, RotateChoice
    <3> QED
      BY <3>1 DEF Held
  <2> QED
    BY <1>1, <2>1, <2>2, OwnCursors DEF Held
<1> QED
  BY <1>1, <1>3, <1>5, <1>6, SameHeld DEF WorkerKeeps, discordVars

LEMMA WorkerMergeKeeps ==
    ASSUME WorkerSide, WorkerMerge
    PROVE  WorkerKeeps
<1> DEFINE merged == IF stateFile.ok
                     THEN MergeDiskState(worker.entries, stateFile.entries)
                     ELSE worker.entries
<1>1. /\ UNCHANGED storeVars
      /\ worker.pc = "merge"
      /\ worker' = [worker EXCEPT !.pc = "replace", !.entries = merged]
  BY DEF WorkerMerge
<1>2. worker.entries \in Entries /\ stateFile.entries \in Entries
  BY DEF WorkerSide, StoreTypeOK, StateFiles, WorkerTypeOK, WorkerType
<1>3. /\ merged \in Entries
      /\ \A k \in Keys : merged[k].cursor \in {worker.entries[k].cursor,
                                               stateFile.entries[k].cursor}
  BY <1>2, MergeFacts DEF Entries
<1> HIDE DEF merged
<1>4. /\ WorkerTypeOK'
      /\ worker'.pc = "replace" /\ worker'.then = worker.then
      /\ worker'.key = worker.key /\ worker'.cursor = worker.cursor
      /\ worker'.entries = merged /\ worker'.items = worker.items
  BY <1>1, <1>3 DEF WorkerSide, WorkerTypeOK, WorkerType, WorkerPc
<1>5. ArchiveGrows
  BY <1>1, UnchangedRawGrows DEF storeVars, archiveVars
<1>6. StoreTypeOK'
  BY <1>1 DEF WorkerSide, StoreTypeOK, storeVars, discordVars, archiveVars, ledgerVars
<1>7. WorkerSide'
  BY <1>1, <1>4, <1>6
     DEF WorkerSide, LiveBounded, CandidateHeld, PageComplete, storeVars, discordVars
<1>8. ASSUME NEW k \in Keys PROVE Held(k)' \subseteq Held(k)
  <2>1. CursorsOf(worker', k) \subseteq Held(k)
    BY <1>3, <1>4 DEF CursorsOf, Held
  <2> QED
    BY <1>1, <2>1, OwnCursors DEF Held, storeVars, ledgerVars
<1> QED
  BY <1>1, <1>5, <1>7, <1>8, SameHeld DEF WorkerKeeps, storeVars, discordVars

LEMMA WorkerReplaceStateKeeps ==
    ASSUME WorkerSide, WorkerReplaceState
    PROVE  WorkerKeeps
<1>1. /\ UNCHANGED <<discordVars, archiveVars, queueFile, stateBaks, queueBaks,
                     lock, faults>>
      /\ worker.pc = "replace"
      /\ stateFile' = [ok |-> TRUE, entries |-> worker.entries]
      /\ worker' = [worker EXCEPT !.pc = "queue"]
  BY DEF WorkerReplaceState
<1>2. stateFile' \in StateFiles /\ stateFile'.entries = worker.entries
  BY <1>1 DEF StateFiles, WorkerSide, WorkerTypeOK, WorkerType
<1>3. ArchiveGrows
  BY <1>1, UnchangedRawGrows DEF archiveVars
<1>4. StoreTypeOK'
  BY <1>1, <1>2 DEF WorkerSide, StoreTypeOK, discordVars, archiveVars
<1>5. /\ WorkerTypeOK'
      /\ worker'.pc = "queue" /\ worker'.then = worker.then
      /\ Carried(worker, worker') /\ worker'.key = worker.key
  BY <1>1 DEF WorkerSide, WorkerTypeOK, WorkerType, WorkerPc, Carried, CursorsOf
<1>6. WorkerSide'
  BY <1>1, <1>4, <1>5
     DEF WorkerSide, LiveBounded, CandidateHeld, PageComplete, discordVars
<1>7. ASSUME NEW k \in Keys PROVE Held(k)' \subseteq Held(k)
  <2>1. CursorsOf(worker', k) \subseteq CursorsOf(worker, k)
    BY <1>5, CarriedHeld
  <2>2. worker.entries[k].cursor \in CursorsOf(worker, k)
    BY DEF CursorsOf
  <2> QED
    BY <1>1, <1>2, <2>1, <2>2, OwnCursors DEF Held
<1> QED
  BY <1>1, <1>3, <1>6, <1>7, SameHeld DEF WorkerKeeps, discordVars

LEMMA WorkerReplaceQueueKeeps ==
    ASSUME WorkerSide, WorkerReplaceQueue
    PROVE  WorkerKeeps
<1>1. /\ UNCHANGED <<discordVars, archiveVars, stateFile, stateBaks, queueBaks, faults>>
      /\ worker.pc = "queue"
      /\ queueFile' = [ok |-> TRUE, items |-> worker.items]
      /\ \/ worker' = IdleWorker /\ lock' = Free
         \/ /\ worker.then # "idle"
            /\ worker' = [worker EXCEPT !.pc = worker.then]
            /\ UNCHANGED lock
  BY DEF WorkerReplaceQueue
<1>2. queueFile' \in QueueFiles /\ queueFile'.items = worker.items
  BY <1>1 DEF QueueFiles, WorkerSide, WorkerTypeOK, WorkerType
<1>3. ArchiveGrows
  BY <1>1, UnchangedRawGrows DEF archiveVars
<1>4. StoreTypeOK'
  BY <1>1, <1>2 DEF WorkerSide, StoreTypeOK, discordVars, archiveVars
<1>5. /\ WorkerSide'
      /\ lock' # lock => lock \in {Free, "worker"} /\ lock' \in {Free, "worker"}
      /\ \A k \in Keys : CursorsOf(worker', k) \subseteq CursorsOf(worker, k) \cup {0}
  <2>1. CASE worker' = IdleWorker /\ lock' = Free
    <3>1. \A k \in Keys : CursorsOf(worker', k) = {0}
      BY <2>1 DEF CursorsOf, IdleWorker, NoEntries, NoItems, NoEntry, NoItem
    <3>2. WorkerSide' /\ lock = "worker"
      BY <1>1, <1>4, <2>1, IdleWorkerTypes
         DEF WorkerSide, WorkerTypeOK, LiveBounded, CandidateHeld, PageComplete,
             discordVars, IdleWorker, Free
    <3> QED
      BY <2>1, <3>1, <3>2
  <2>2. CASE /\ worker' = [worker EXCEPT !.pc = worker.then]
             /\ worker.then # "idle" /\ UNCHANGED lock
    <3>1. /\ WorkerTypeOK'
          /\ worker'.pc = worker.then /\ worker'.key = worker.key
          /\ Carried(worker, worker')
          /\ worker.then \in {"fetch", "probe", "pick"}
      BY <2>2 DEF WorkerSide, WorkerTypeOK, WorkerType, WorkerPc, AfterSave, Carried, CursorsOf
    <3>2. WorkerSide'
      BY <1>1, <1>4, <2>2, <3>1
         DEF WorkerSide, LiveBounded, CandidateHeld, PageComplete, discordVars
    <3> QED
      BY <2>2, <3>1, <3>2, CarriedHeld
  <2> QED
    BY <1>1, <2>1, <2>2
<1>6. ASSUME NEW k \in Keys PROVE Held(k)' \subseteq Held(k)
  <2>1. worker.items[k].cursor \in CursorsOf(worker, k)
    BY DEF CursorsOf
  <2> QED
    BY <1>1, <1>2, <1>5, <2>1, OwnCursors DEF Held
<1> QED
  BY <1>1, <1>3, <1>5, <1>6, SameHeld DEF WorkerKeeps, discordVars

-----------------------------------------------------------------------------
(* The worker's reading of one candidate.                                  *)

LEMMA WorkerPickKeeps ==
    ASSUME WorkerSide, WorkerPick
    PROVE  WorkerKeeps
<1>1. PICK p \in 1..4, k \in Keys :
         worker' = [worker EXCEPT
                      !.pc = "merge", !.then = "fetch",
                      !.plan[p] = @ \ {k},
                      !.key = k, !.cursor = StartCursor(worker, k), !.batches = 0,
                      !.entries[k] = [@ EXCEPT !.status = "catching_up"],
                      !.items[k] = [@ EXCEPT !.status = "catching_up",
                                             !.cursor = StartCursor(worker, k)]]
  BY DEF WorkerPick
<1> DEFINE start == StartCursor(worker, k)
           e == [worker.entries[k] EXCEPT !.status = "catching_up"]
           i == [worker.items[k] EXCEPT !.status = "catching_up", !.cursor = start]
           left == [worker.plan EXCEPT ![p] = @ \ {k}]
<1>2. worker \in WorkerType
  BY DEF WorkerSide, WorkerTypeOK
<1>3. worker.entries[k] \in Entry /\ worker.items[k] \in Item
  BY <1>2 DEF WorkerType, Entries, Items
<1>4. start \in {worker.entries[k].cursor, worker.items[k].cursor}
  BY NewestChoice DEF StartCursor
<1>5. start \in Cursor
  BY <1>3, <1>4 DEF Entry, Item
<1>6. e \in Entry /\ e.cursor = worker.entries[k].cursor
  BY <1>3 DEF Entry, EntryStatus
<1>7. i \in Item /\ i.cursor = start
  BY <1>3, <1>5 DEF Item, ItemStatus
<1>8. left \in Plans
  BY <1>2 DEF WorkerType, Plans
<1>9. worker' = [worker EXCEPT
                   !.pc = "merge", !.then = "fetch", !.plan = left,
                   !.key = k, !.cursor = start, !.batches = 0,
                   !.entries = [worker.entries EXCEPT ![k] = e],
                   !.items = [worker.items EXCEPT ![k] = i]]
  BY <1>1, <1>2 DEF WorkerType
<1> HIDE DEF start, e, i, left
<1>10. worker' \in WorkerType
  BY <1>2, <1>5, <1>6, <1>7, <1>8, <1>9
     DEF WorkerType, WorkerPc, AfterSave, Entries, Items
<1>11. /\ worker'.pc = "merge" /\ worker'.then = "fetch" /\ worker'.key = k
       /\ worker'.cursor = start
       /\ worker'.entries = [worker.entries EXCEPT ![k] = e]
       /\ worker'.items = [worker.items EXCEPT ![k] = i]
  BY <1>2, <1>9 DEF WorkerType
<1>12. Carried(worker, worker')
  BY <1>2, <1>4, <1>6, <1>7, <1>11 DEF Carried, CursorsOf, WorkerType, Entries, Items
<1>13. UNCHANGED storeVars /\ worker.pc = "pick"
  BY DEF WorkerPick
<1>14. faults' \in 0..MaxFaults
  BY <1>13 DEF WorkerSide, StoreTypeOK, storeVars
<1> QED
  BY <1>10, <1>11, <1>12, <1>13, <1>14, WorkerLocal
     DEF storeVars, CandidateHeld, PageComplete

LEMMA WorkerFinishKeeps ==
    ASSUME WorkerSide, WorkerFinish
    PROVE  WorkerKeeps
<1>1. UNCHANGED storeVars /\ worker.pc = "pick"
  BY DEF WorkerFinish
<1>2. /\ worker' \in WorkerType
      /\ worker'.pc = "merge" /\ worker'.then = "idle"
      /\ Carried(worker, worker')
  BY DEF WorkerFinish, WorkerSide, WorkerTypeOK, WorkerType, WorkerPc, AfterSave,
         Carried, CursorsOf
<1>3. faults' \in 0..MaxFaults
  BY <1>1 DEF WorkerSide, StoreTypeOK, storeVars
<1> QED
  BY <1>1, <1>2, <1>3, WorkerLocal DEF storeVars, CandidateHeld, PageComplete

LEMMA WorkerOutOfBudgetKeeps ==
    ASSUME WorkerSide, WorkerOutOfBudget
    PROVE  WorkerKeeps
<1>1. UNCHANGED storeVars /\ worker.pc = "fetch"
  BY DEF WorkerOutOfBudget
<1>2. /\ worker' \in WorkerType
      /\ worker'.pc = "merge" /\ worker'.then = "pick"
      /\ Carried(worker, worker')
  BY DEF WorkerOutOfBudget, WorkerSide, WorkerTypeOK, WorkerType, WorkerPc,
         AfterSave, Carried, CursorsOf
<1>3. faults' \in 0..MaxFaults
  BY <1>1 DEF WorkerSide, StoreTypeOK, storeVars
<1> QED
  BY <1>1, <1>2, <1>3, WorkerLocal DEF storeVars, CandidateHeld, PageComplete

LEMMA WorkerFetchKeeps ==
    ASSUME WorkerSide, WorkerFetch
    PROVE  WorkerKeeps
<1> DEFINE page    == Page(worker.key, worker.cursor, PageLimit)
           counted == [worker EXCEPT !.total = @ + 1, !.batches = @ + 1]
<1>1. /\ UNCHANGED <<discordVars, archiveVars, ledgerVars, lock>>
      /\ worker.pc = "fetch" /\ ReadSucceeds(worker.key)
      /\ worker' = IF page = {} THEN CaughtUp(counted)
                   ELSE [counted EXCEPT !.pc = "append", !.page = page]
  BY DEF WorkerFetch
<1>2. worker \in WorkerType /\ worker.key \in Keys
  BY <1>1 DEF WorkerSide, WorkerTypeOK, CandidateHeld
<1>3. /\ counted \in WorkerType
      /\ counted.key = worker.key /\ counted.cursor = worker.cursor
      /\ counted.entries = worker.entries /\ counted.items = worker.items
  <2> HIDE DEF page
  <2>1. worker.total + 1 \in Nat /\ worker.batches + 1 \in Nat
    BY <1>2 DEF WorkerType
  <2> QED
    BY <1>2, <2>1 DEF WorkerType
<1>4. faults' \in 0..MaxFaults
  BY <1>1, FaultTypes DEF WorkerSide
<1> HIDE DEF counted
<1>5. CASE page = {}
  <2>1. /\ worker' \in WorkerType
        /\ worker'.pc = "merge" /\ worker'.then = "pick"
        /\ Carried(counted, worker')
    BY <1>1, <1>2, <1>3, <1>5, CaughtUpFacts
  <2>2. Carried(worker, worker')
    BY <1>3, <2>1, CarriedCounted
  <2> QED
    BY <1>1, <1>4, <2>1, <2>2, WorkerLocal DEF CandidateHeld, PageComplete
<1>6. CASE page # {}
  <2>1. worker.cursor \in Nat /\ PageLimit \in Nat /\ live \in [Keys -> SUBSET Ids]
    BY <1>2 DEF WorkerType, Cursor, WorkerSide, StoreTypeOK
  <2>2. /\ page \in SUBSET live[worker.key]
        /\ \A m \in page : \A j \in live[worker.key] :
              worker.cursor < j /\ j <= m => j \in page
    BY <1>2, <2>1, PageFacts
  <2> HIDE DEF page
  <2>3. page \in SUBSET Ids /\ \A m \in page : m <= posted[worker.key]
    BY <1>2, <2>1, <2>2 DEF WorkerSide, LiveBounded
  <2>4. /\ worker' \in WorkerType
        /\ worker'.pc = "append" /\ worker'.page = page
        /\ worker'.key = worker.key /\ worker'.cursor = worker.cursor
        /\ worker'.entries = worker.entries /\ worker'.items = worker.items
    BY <1>1, <1>3, <1>6, <2>3 DEF WorkerType, WorkerPc
  <2>5. Carried(worker, worker')
    BY <2>4 DEF Carried, CursorsOf
  <2>6. PageComplete'
    BY <1>1, <1>2, <1>6, <2>2, <2>3, <2>4 DEF PageComplete, discordVars
  <2>7. CandidateHeld'
    BY <1>2, <2>4 DEF CandidateHeld
  <2> QED
    BY <1>1, <1>4, <2>4, <2>5, <2>6, <2>7, WorkerLocal
<1> QED
  BY <1>5, <1>6

\* The except clause, after a failed read or a failed save.
LEMMA FailedReadKeeps ==
    ASSUME WorkerSide, worker.pc # "idle", worker.key \in Keys, worker' = Failed(worker),
           faults' \in 0..MaxFaults,
           UNCHANGED <<discordVars, archiveVars, ledgerVars, lock>>
    PROVE  WorkerKeeps
<1>1. worker \in WorkerType
  BY DEF WorkerSide, WorkerTypeOK
<1>2. /\ worker' \in WorkerType
      /\ worker'.pc = "merge" /\ worker'.then = "pick"
      /\ Carried(worker, worker')
  BY <1>1, FailedFacts
<1> QED
  BY <1>2, WorkerLocal DEF CandidateHeld, PageComplete

LEMMA WorkerProbeKeeps ==
    ASSUME WorkerSide, WorkerProbe
    PROVE  WorkerKeeps
<1> DEFINE none    == Page(worker.key, worker.cursor, 1) = {}
           counted == [worker EXCEPT !.total = @ + 1]
<1>1. /\ UNCHANGED <<discordVars, archiveVars, ledgerVars, lock>>
      /\ worker.pc = "probe" /\ ReadSucceeds(worker.key)
      /\ worker' = IF none THEN CaughtUp(counted)
                   ELSE [counted EXCEPT !.pc = "merge", !.then = "pick"]
  BY DEF WorkerProbe
<1> HIDE DEF none
<1>2. worker \in WorkerType /\ worker.key \in Keys
  BY <1>1 DEF WorkerSide, WorkerTypeOK, CandidateHeld
<1>3. /\ counted \in WorkerType
      /\ counted.key = worker.key /\ counted.cursor = worker.cursor
      /\ counted.entries = worker.entries /\ counted.items = worker.items
  <2>1. worker.total + 1 \in Nat
    BY <1>2 DEF WorkerType
  <2> QED
    BY <1>2, <2>1 DEF WorkerType
<1>4. faults' \in 0..MaxFaults
  BY <1>1, FaultTypes DEF WorkerSide
<1> HIDE DEF counted
<1>5. /\ worker' \in WorkerType
      /\ worker'.pc = "merge" /\ worker'.then = "pick"
      /\ Carried(counted, worker')
  <2>1. CASE none
    BY <1>1, <1>2, <1>3, <2>1, CaughtUpFacts
  <2>2. CASE ~none
    BY <1>1, <1>3, <2>2 DEF WorkerType, WorkerPc, AfterSave, Carried, CursorsOf
  <2> QED
    BY <2>1, <2>2
<1>6. Carried(worker, worker')
  BY <1>3, <1>5, CarriedCounted
<1> QED
  BY <1>1, <1>4, <1>5, <1>6, WorkerLocal DEF CandidateHeld, PageComplete

\* The heart of the matter: the position the worker moves to is covered when
\* the one it read from was, because the page left nothing out and is in raw
\* before the move.
LEMMA WorkerAppendKeeps ==
    ASSUME WorkerSide, WorkerAppend
    PROVE  WorkerKeeps
<1>1. PICK top \in worker.page : IsTop(top, worker.page) /\ worker' = Advanced(worker, top)
  BY DEF WorkerAppend
<1>2. /\ UNCHANGED <<discordVars, ledgerVars, lock, faults>>
      /\ worker.pc = "append"
      /\ AppendBatch(worker.key, worker.page)
  BY DEF WorkerAppend
<1>3. /\ worker \in WorkerType /\ worker.key \in Keys
      /\ worker.page \in SUBSET Ids
      /\ ArchiveTypeOK
  BY <1>2 DEF WorkerSide, WorkerTypeOK, WorkerType, PageComplete, StoreTypeOK,
              ArchiveTypeOK
<1>4. PICK key \in Keys : key = worker.key
  BY <1>3
<1>5. /\ ArchiveTypeOK' /\ ArchiveGrows
      /\ \A m \in worker.page : m \in RawIds(key)'
  <2>1. PICK msgs \in SUBSET Ids : msgs = worker.page
    BY <1>3
  <2>2. AppendBatch(key, msgs)
    BY <1>4, <1>2, <2>1
  <2> QED
    BY <1>3, <2>1, <2>2, AppendFacts
<1>6. top \in Cursor
  BY <1>3 DEF Ids, Cursor
<1>7. /\ worker' \in WorkerType
      /\ worker'.pc = "merge" /\ worker'.key = worker.key /\ worker'.cursor = top
      /\ \A k \in Keys : worker'.entries[k].cursor =
                            IF k = worker.key THEN top ELSE worker.entries[k].cursor
      /\ \A k \in Keys : worker'.items[k].cursor =
                            IF k = worker.key THEN top ELSE worker.items[k].cursor
  BY <1>1, <1>3, <1>6, AdvancedFacts
<1>8. top <= posted'[key]
  BY <1>4, <1>1, <1>2, <1>3 DEF WorkerSide, PageComplete, discordVars
<1>9. ASSUME Covered(key, worker.cursor), NEW m \in live'[key], m <= top
      PROVE  m \in RawIds(key)'
  <2>1. live' = live /\ m \in live[key]
    BY <1>2, <1>9 DEF discordVars
  <2>2. m \in Nat /\ worker.cursor \in Nat
    BY <1>3, <2>1 DEF WorkerSide, StoreTypeOK, Ids, WorkerType, Cursor
  <2>3. CASE m <= worker.cursor
    <3>1. m \in RawIds(key)
      BY <2>1, <2>3, <1>9 DEF Covered
    <3> QED
      BY <1>5, <3>1 DEF ArchiveGrows
  <2>4. CASE worker.cursor < m
    <3>1. m \in worker.page
      BY <1>4, <1>1, <1>2, <1>9, <2>1, <2>4 DEF WorkerSide, PageComplete
    <3> QED
      BY <1>5, <3>1
  <2> QED
    BY <2>2, <2>3, <2>4
<1>10. Covered(key, worker.cursor) => Covered(key, top)'
  BY <1>8, <1>9 DEF Covered
<1>11. StoreTypeOK'
  BY <1>2, <1>5 DEF WorkerSide, StoreTypeOK, ArchiveTypeOK, discordVars, ledgerVars
<1>12. WorkerSide'
  BY <1>2, <1>3, <1>7, <1>11
     DEF WorkerSide, WorkerTypeOK, LiveBounded, CandidateHeld, PageComplete, discordVars
<1>13. ASSUME NEW k \in Keys, HeldCovered(k) PROVE HeldCovered(k)'
  <2>1. CASE k # key
    <3>1. CursorsOf(worker', k) \subseteq CursorsOf(worker, k)
      BY <1>4, <1>7, <2>1 DEF CursorsOf
    <3>2. Held(k)' \subseteq Held(k)
      BY <1>2, <3>1, OwnCursors DEF Held, ledgerVars
    <3> QED
      BY <1>2, <1>5, <1>13, <3>2, SameHeld DEF discordVars
  <2>2. CASE k = key
    <3>1. CursorsOf(worker', k) = {top}
      BY <1>4, <1>7, <2>2 DEF CursorsOf
    <3>2. Held(k)' \subseteq Held(k) \cup {top}
      BY <1>2, <3>1, OwnCursors DEF Held, ledgerVars
    <3>3. worker.cursor \in Held(k)
      BY <1>4, <2>2 DEF Held, CursorsOf
    <3>4. Covered(k, top)'
      BY <1>10, <1>13, <2>2, <3>3 DEF HeldCovered
    <3>5. ASSUME NEW c \in Held(k) PROVE Covered(k, c)'
      BY <1>2, <1>5, <1>13 DEF HeldCovered, Covered, ArchiveGrows, discordVars
    <3> QED
      BY <3>2, <3>4, <3>5 DEF HeldCovered
  <2> QED
    BY <2>1, <2>2
<1> QED
  BY <1>2, <1>5, <1>12, <1>13 DEF WorkerKeeps, discordVars

LEMMA WorkerAppendFailsKeeps ==
    ASSUME WorkerSide, WorkerAppendFails
    PROVE  WorkerKeeps
<1>1. /\ UNCHANGED <<discordVars, ledgerVars, lock>>
      /\ worker.pc = "append" /\ Fault
      /\ AppendCutShort(worker.key, worker.page)
      /\ worker' = Failed(worker)
  BY DEF WorkerAppendFails
<1>2. /\ worker \in WorkerType /\ worker.key \in Keys
      /\ worker.page \in SUBSET Ids
      /\ ArchiveTypeOK
  BY <1>1 DEF WorkerSide, WorkerTypeOK, WorkerType, PageComplete, StoreTypeOK,
              ArchiveTypeOK
<1>3. ArchiveTypeOK' /\ ArchiveGrows
  BY <1>1, <1>2, CutShortFacts
<1>4. /\ worker' \in WorkerType
      /\ worker'.pc = "merge" /\ worker'.then = "pick"
      /\ Carried(worker, worker')
  BY <1>1, <1>2, FailedFacts
<1>5. faults' \in 0..MaxFaults
  BY <1>1, FaultTypes DEF WorkerSide
<1>6. StoreTypeOK'
  BY <1>1, <1>3, <1>5
     DEF WorkerSide, StoreTypeOK, ArchiveTypeOK, discordVars, ledgerVars
<1>7. WorkerSide'
  BY <1>1, <1>4, <1>6
     DEF WorkerSide, WorkerTypeOK, LiveBounded, CandidateHeld, PageComplete, discordVars
<1>8. ASSUME NEW k \in Keys PROVE Held(k)' \subseteq Held(k)
  BY <1>1, <1>4, CarriedHeld, OwnCursors DEF Held, ledgerVars
<1> QED
  BY <1>1, <1>3, <1>7, <1>8, SameHeld DEF WorkerKeeps, discordVars

LEMMA WorkerKilledKeeps ==
    ASSUME WorkerSide, WorkerKilled
    PROVE  WorkerKeeps
<1>1. /\ UNCHANGED <<discordVars, ledgerVars>>
      /\ worker.pc # "idle" /\ Fault
      /\ worker' = IdleWorker /\ lock' = Free
      /\ \/ worker.pc = "append" /\ AppendCutShort(worker.key, worker.page)
         \/ UNCHANGED archiveVars
  BY DEF WorkerKilled
<1>2. ArchiveTypeOK
  BY DEF WorkerSide, StoreTypeOK, ArchiveTypeOK
<1>3. ArchiveTypeOK' /\ ArchiveGrows
  <2>1. CASE worker.pc = "append" /\ AppendCutShort(worker.key, worker.page)
    <3>1. worker.key \in Keys /\ worker.page \in SUBSET Ids
      BY <2>1 DEF WorkerSide, WorkerTypeOK, WorkerType, PageComplete
    <3> QED
      BY <1>2, <2>1, <3>1, CutShortFacts
  <2>2. CASE UNCHANGED archiveVars
    BY <1>2, <2>2, UnchangedRawGrows DEF archiveVars, ArchiveTypeOK
  <2> QED
    BY <1>1, <2>1, <2>2
<1>4. faults' \in 0..MaxFaults
  BY <1>1, FaultTypes DEF WorkerSide
<1> QED
  BY <1>1, <1>3, <1>4, WorkerExits

LEMMA WorkerFatalKeeps ==
    ASSUME WorkerSide, WorkerFatal
    PROVE  WorkerKeeps
<1>1. /\ UNCHANGED <<discordVars, archiveVars, ledgerVars, faults>>
      /\ worker.pc = "prepare" /\ worker' = IdleWorker /\ lock' = Free
  BY DEF WorkerFatal
<1>2. ArchiveTypeOK' /\ ArchiveGrows /\ faults' \in 0..MaxFaults
  BY <1>1, UnchangedRawGrows
     DEF WorkerSide, StoreTypeOK, ArchiveTypeOK, archiveVars
<1> QED
  BY <1>1, <1>2, WorkerExits

\* Every step of the worker, one case per action.
LEMMA WorkerStepKeeps ==
    ASSUME WorkerSide, WorkerNext
    PROVE  WorkerKeeps
<1>1. CASE WorkerStart
  BY <1>1, WorkerStartKeeps
<1>2. CASE WorkerPrepare
  BY <1>2, WorkerPrepareKeeps
<1>3. CASE WorkerFatal
  BY <1>3, WorkerFatalKeeps
<1>4. CASE WorkerPick
  BY <1>4, WorkerPickKeeps
<1>5. CASE WorkerFinish
  BY <1>5, WorkerFinishKeeps
<1>6. CASE WorkerMerge
  BY <1>6, WorkerMergeKeeps
<1>7. CASE WorkerReplaceState
  BY <1>7, WorkerReplaceStateKeeps
<1>8. CASE WorkerReplaceQueue
  BY <1>8, WorkerReplaceQueueKeeps
<1>9. CASE WorkerOutOfBudget
  BY <1>9, WorkerOutOfBudgetKeeps
<1>10. CASE WorkerFetch
  BY <1>10, WorkerFetchKeeps
<1>11. CASE WorkerFetchFails
  <2>1. faults' \in 0..MaxFaults /\ worker.key \in Keys
    BY <1>11, FaultTypes DEF WorkerFetchFails, WorkerSide, CandidateHeld
  <2> QED
    BY <1>11, <2>1, FailedReadKeeps DEF WorkerFetchFails
<1>12. CASE WorkerAppend
  BY <1>12, WorkerAppendKeeps
<1>13. CASE WorkerAppendFails
  BY <1>13, WorkerAppendFailsKeeps
<1>14. CASE WorkerProbe
  BY <1>14, WorkerProbeKeeps
<1>15. CASE WorkerProbeFails
  <2>1. faults' \in 0..MaxFaults /\ worker.key \in Keys
    BY <1>15, FaultTypes DEF WorkerProbeFails, WorkerSide, CandidateHeld
  <2> QED
    BY <1>15, <2>1, FailedReadKeeps DEF WorkerProbeFails
<1>16. CASE WorkerKilled
  BY <1>16, WorkerKilledKeeps
<1>17. CASE WorkerSaveFails
  <2>1. faults' \in 0..MaxFaults /\ worker.key \in Keys
    BY <1>17, FaultTypes DEF WorkerSaveFails, WorkerSide, CandidateHeld
  <2> QED
    BY <1>17, <2>1, FailedReadKeeps DEF WorkerSaveFails
<1> QED
  BY <1>1, <1>2, <1>3, <1>4, <1>5, <1>6, <1>7, <1>8, <1>9, <1>10, <1>11, <1>12,
     <1>13, <1>14, <1>15, <1>16, <1>17 DEF WorkerNext, WorkerStep

-----------------------------------------------------------------------------
(* Discord and the calendar beside the worker.                             *)

\* Ids only grow: what was not shown before is newer than all that was posted.
HistoryKept ==
    \A k \in Keys :
        /\ posted[k] <= posted'[k]
        /\ \A m \in live'[k] : m \in live[k] \/ m > posted[k]

LEMMA EnvironmentKeeps ==
    ASSUME WorkerSide, Environment, UNCHANGED worker
    PROVE  /\ WorkerSide' /\ CoverageKept /\ HistoryKept
           /\ UNCHANGED <<archiveVars, ledgerVars, lock>>
<1>1. /\ UNCHANGED <<archiveVars, ledgerVars, lock, faults>>
      /\ CoverageKept
      /\ posted' \in [Keys -> Cursor] /\ live' \in [Keys -> SUBSET Ids]
      /\ day' \in 0..MaxDay
      /\ LiveBounded'
      /\ PageComplete'
      /\ HistoryKept
  <2>1. CASE \E k \in Keys : Post(k)
    <3>1. PICK k \in Keys : Post(k)
      BY <2>1
    <3>2. /\ posted[k] < MaxMsg /\ day' = day
          /\ posted' = [posted EXCEPT ![k] = @ + 1]
          /\ live' = [live EXCEPT ![k] = @ \cup {posted[k] + 1}]
          /\ UNCHANGED <<archiveVars, ledgerVars, lock, faults>>
      BY <3>1 DEF Post
    <3>3. /\ posted \in [Keys -> Cursor] /\ live \in [Keys -> SUBSET Ids]
          /\ day \in 0..MaxDay /\ worker \in WorkerType
          /\ LiveBounded /\ PageComplete
      BY DEF WorkerSide, StoreTypeOK, WorkerTypeOK
    <3>4. CoverageKept
      BY <3>1, PostKeepsCoverage DEF WorkerSide
    <3>5. posted[k] + 1 \in Ids /\ posted[k] + 1 \in Cursor
      BY <3>2, <3>3 DEF Ids, Cursor
    <3>6. posted' \in [Keys -> Cursor] /\ live' \in [Keys -> SUBSET Ids]
      BY <3>2, <3>3, <3>5
    <3>7. ASSUME NEW j \in Keys
          PROVE  /\ posted[j] \in Nat /\ posted'[j] \in Nat /\ posted'[j] >= posted[j]
                 /\ \A m \in live'[j] : m \in live[j] \/ m = posted[j] + 1
                 /\ live'[j] # live[j] => posted'[j] = posted[j] + 1
      BY <3>2, <3>3, <3>6 DEF Cursor
    <3>8. LiveBounded'
      <4>1. ASSUME NEW j \in Keys, NEW m \in live'[j] PROVE m \in 1..posted'[j]
        <5>1. CASE m \in live[j]
          <6>1. m \in 1..posted[j]
            BY <3>3, <5>1 DEF LiveBounded
          <6> QED
            BY <3>7, <6>1
        <5>2. CASE m \notin live[j]
          BY <3>7, <4>1, <5>2
        <5> QED
          BY <5>1, <5>2
      <4> QED
        BY <4>1 DEF LiveBounded
    <3>9. PageComplete'
      <4> SUFFICES ASSUME worker'.pc = "append"
                   PROVE  /\ worker.key \in Keys /\ worker.page # {}
                          /\ \A m \in worker.page :
                                /\ m <= posted'[worker.key]
                                /\ \A j \in live'[worker.key] :
                                      worker.cursor < j /\ j <= m => j \in worker.page
        BY DEF PageComplete
      <4>1. /\ worker.key \in Keys /\ worker.page # {}
            /\ worker.page \in SUBSET Ids
            /\ \A m \in worker.page :
                  /\ m <= posted[worker.key]
                  /\ \A j \in live[worker.key] :
                        worker.cursor < j /\ j <= m => j \in worker.page
        BY <3>3 DEF PageComplete, WorkerType
      <4>2. ASSUME NEW m \in worker.page
            PROVE  /\ m <= posted'[worker.key]
                   /\ \A j \in live'[worker.key] :
                         worker.cursor < j /\ j <= m => j \in worker.page
        <5>1. m \in Nat
          BY <4>1 DEF Ids
        <5> QED
          BY <3>7, <4>1, <5>1
      <4> QED
        BY <4>1, <4>2
    <3>10. HistoryKept
      BY <3>7 DEF HistoryKept
    <3> QED
      BY <3>2, <3>3, <3>4, <3>6, <3>8, <3>9, <3>10
  <2>2. CASE \E k \in Keys : Delete(k)
    <3>1. PICK k \in Keys : Delete(k)
      BY <2>2
    <3>2. /\ UNCHANGED <<posted, day, archiveVars, ledgerVars, lock, faults>>
          /\ \E m \in live[k] : live' = [live EXCEPT ![k] = @ \ {m}]
      BY <3>1 DEF Delete
    <3>3. /\ posted \in [Keys -> Cursor] /\ live \in [Keys -> SUBSET Ids]
          /\ day \in 0..MaxDay
      BY DEF WorkerSide, StoreTypeOK
    <3>4. CoverageKept
      BY <3>1, DeleteKeepsCoverage DEF WorkerSide
    <3>5. live' \in [Keys -> SUBSET Ids] /\ \A j \in Keys : live'[j] \subseteq live[j]
      BY <3>2, <3>3
    <3>6. LiveBounded' /\ PageComplete'
      BY <3>2, <3>5 DEF WorkerSide, LiveBounded, PageComplete
    <3>7. HistoryKept
      BY <3>2, <3>3, <3>5 DEF HistoryKept, Cursor
    <3> QED
      BY <3>2, <3>3, <3>4, <3>5, <3>6, <3>7
  <2>3. CASE NextDay
    <3>1. /\ UNCHANGED <<posted, live, archiveVars, ledgerVars, lock, faults>>
          /\ day < MaxDay /\ day' = day + 1
      BY <2>3 DEF NextDay
    <3>2. CoverageKept
      BY <3>1, SameCoverage DEF CoverageKept, archiveVars
    <3>3. day' \in 0..MaxDay
      BY <3>1 DEF WorkerSide, StoreTypeOK
    <3>4. HistoryKept
      BY <3>1 DEF HistoryKept, WorkerSide, StoreTypeOK, Cursor
    <3> QED
      BY <3>1, <3>2, <3>3, <3>4 DEF WorkerSide, StoreTypeOK, LiveBounded, PageComplete
  <2> QED
    BY <2>1, <2>2, <2>3 DEF Environment
<1>2. StoreTypeOK'
  BY <1>1 DEF WorkerSide, StoreTypeOK, archiveVars, ledgerVars
<1>3. WorkerTypeOK' /\ CandidateHeld' /\ (lock = "worker" <=> worker.pc # "idle")'
  BY <1>1 DEF WorkerSide, WorkerTypeOK, CandidateHeld
<1> QED
  BY <1>1, <1>2, <1>3 DEF WorkerSide

-----------------------------------------------------------------------------
(* What a step of the worker can do to the archive.                        *)

\* Some messages of the page the worker holds, none of them in raw, are
\* appended; nothing else the contract speaks of changes.
Archives(k, ids) ==
    /\ ids \in SUBSET Ids
    /\ ids \cap RawIds(k) = {}
    /\ ids \subseteq 1..posted[k]
    /\ raw' = WithCopies(k, ids)
    /\ UNCHANGED <<posted, live, stateFile>>

LEMMA PagePosted ==
    ASSUME WorkerSide, worker.pc = "append"
    PROVE  /\ worker.key \in Keys /\ worker.page \in SUBSET Ids
           /\ worker.page \subseteq 1..posted[worker.key]
<1>1. worker.page \in SUBSET Ids /\ posted \in [Keys -> Cursor]
  BY DEF WorkerSide, StoreTypeOK, WorkerTypeOK, WorkerType
<1>2. worker.key \in Keys /\ \A m \in worker.page : m <= posted[worker.key]
  BY DEF WorkerSide, PageComplete
<1>3. \A m \in worker.page : m \in 1..posted[worker.key]
  BY <1>1, <1>2 DEF Ids, Cursor
<1> QED
  BY <1>1, <1>2, <1>3

LEMMA CutShortArchives ==
    ASSUME WorkerSide, worker.pc = "append", AppendCutShort(worker.key, worker.page),
           UNCHANGED <<posted, live, stateFile>>
    PROVE  \E k \in Keys : \E ids : Archives(k, ids)
<1>1. PICK cut \in Cursor :
         raw' = WithCopies(worker.key,
                           {m \in Unarchived(worker.key, worker.page) : m <= cut})
  BY DEF AppendCutShort
<1> DEFINE ids == {m \in Unarchived(worker.key, worker.page) : m <= cut}
<1>2. ids \subseteq worker.page /\ ids \cap RawIds(worker.key) = {}
  BY DEF Unarchived
<1>3. Archives(worker.key, ids)
  <2> HIDE DEF ids
  <2>1. raw' = WithCopies(worker.key, ids)
    BY <1>1 DEF ids
  <2> QED
    BY <1>2, <2>1, PagePosted DEF Archives
<1> QED
  BY <1>3, PagePosted

LEMMA WorkerArchives ==
    ASSUME WorkerSide, WorkerNext
    PROVE  \/ UNCHANGED <<posted, live, raw>>
           \/ \E k \in Keys : \E ids : Archives(k, ids)
<1>1. CASE WorkerAppend
  <2>1. /\ worker.pc = "append"
        /\ raw' = WithCopies(worker.key, Unarchived(worker.key, worker.page))
        /\ UNCHANGED <<posted, live, stateFile>>
    BY <1>1 DEF WorkerAppend, AppendBatch, discordVars, ledgerVars
  <2>2. Archives(worker.key, Unarchived(worker.key, worker.page))
    BY <2>1, PagePosted DEF Archives, Unarchived
  <2> QED
    BY <2>1, <2>2, PagePosted
<1>2. CASE WorkerAppendFails
  BY <1>2, CutShortArchives DEF WorkerAppendFails, discordVars, ledgerVars
<1>3. CASE WorkerKilled
  BY <1>3, CutShortArchives
     DEF WorkerKilled, discordVars, ledgerVars, archiveVars
<1>4. CASE WorkerStart \/ WorkerPrepare \/ WorkerFatal
  BY <1>4 DEF WorkerStart, WorkerPrepare, WorkerFatal, discordVars, archiveVars
<1>5. CASE WorkerPick \/ WorkerFinish \/ WorkerMerge \/ WorkerOutOfBudget
  BY <1>5 DEF WorkerPick, WorkerFinish, WorkerMerge, WorkerOutOfBudget, storeVars,
              discordVars, archiveVars
<1>6. CASE WorkerReplaceState \/ WorkerReplaceQueue
  BY <1>6 DEF WorkerReplaceState, WorkerReplaceQueue, discordVars, archiveVars
<1>7. CASE WorkerFetch \/ WorkerFetchFails \/ WorkerProbe \/ WorkerProbeFails
           \/ WorkerSaveFails
  BY <1>7 DEF WorkerSaveFails, WorkerFetch, WorkerFetchFails, WorkerProbe, WorkerProbeFails,
              discordVars, archiveVars
<1> QED
  BY <1>1, <1>2, <1>3, <1>4, <1>5, <1>6, <1>7 DEF WorkerNext, WorkerStep

\* Raw holds only what was posted.
RawPosted == \A k \in Keys : RawIds(k) \subseteq 1..posted[k]

LEMMA WorkerRawPosted ==
    ASSUME WorkerSide, RawPosted, WorkerNext
    PROVE  RawPosted'
<1>1. CASE UNCHANGED <<posted, live, raw>>
  BY <1>1 DEF RawPosted, RawIds
<1>2. ASSUME NEW k \in Keys, NEW ids, Archives(k, ids) PROVE RawPosted'
  <2>1. raw \in [Keys -> [Ids -> Nat]] /\ ids \in SUBSET Ids /\ raw' = WithCopies(k, ids)
    BY <1>2 DEF WorkerSide, StoreTypeOK, Archives
  <2>2. \A j \in Keys : RawIds(j)' = RawIds(j) \cup (IF j = k THEN ids ELSE {})
    BY <2>1, WithCopiesFacts
  <2> QED
    BY <1>2, <2>2 DEF RawPosted, Archives
<1> QED
  BY <1>1, <1>2, WorkerArchives

LEMMA EnvironmentRawPosted ==
    ASSUME WorkerSide, RawPosted, UNCHANGED archiveVars, HistoryKept,
           posted' \in [Keys -> Cursor]
    PROVE  RawPosted'
<1>1. posted \in [Keys -> Cursor]
  BY DEF WorkerSide, StoreTypeOK
<1>2. ASSUME NEW k \in Keys, NEW m \in RawIds(k)' PROVE m \in 1..posted'[k]
  <2>1. m \in 1..posted[k] /\ posted[k] <= posted'[k]
    BY <1>2 DEF RawPosted, RawIds, HistoryKept, archiveVars
  <2> QED
    BY <1>1, <2>1 DEF Cursor
<1> QED
  BY <1>2 DEF RawPosted
=============================================================================
