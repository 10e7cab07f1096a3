------------------------- MODULE RichArchiveProofs -------------------------
(***************************************************************************)
(* The daily rich slots and the full baseline keep CURRENT without a hole, *)
(* own every entry that is not healthy, publish a root only over a         *)
(* complete pass and move the scan only over what they read again, for     *)
(* every set of entries and every limit, wherever a process is killed.     *)
(***************************************************************************)
EXTENDS RichArchive, FiniteSetTheorems, SequenceTheorems, TLAPS

(* What each variable and each field can hold. *)
Ids == SUBSET Msgs
Staged == [ids : Ids, manifest : BOOLEAN]
SyncState ==
  [pc : {"idle", "entry", "merge", "grant", "queue", "state"}, todo : Seq(Entries),
   rows : [Entries -> Row \cup {None}], items : [Entries -> Reasons \cup {None}], writes : Nat,
   read : 0..MaxRead, new : Ids, again : Ids, plan : 0..MaxMsg, terminal : BOOLEAN, raise : BOOLEAN]
BaseState ==
  [pc : {"idle", "lock", "evidence", "entry", "built", "install", "seal", "compat", "blocked"},
   todo : Seq(Entries), live : Ids, since : [Entries -> (0..MaxMsg) \cup {None}]]
ServerTypes ==
  /\ posted \in [Entries -> 0..MaxMsg] /\ deleted \in [Entries -> Ids]
  /\ \A e \in Entries : deleted[e] \subseteq 1..posted[e]
StoreTypes ==
  /\ current \in [Entries -> Ids \cup {None}] /\ sealed \in [Entries -> Ids \cup {None}]
  /\ stage \in [Entries -> Staged \cup {None}]
  /\ run \in {"absent", "empty", "evidence", "drifted"} /\ root \in BOOLEAN
LedgerTypes == state \in [Entries -> Row] /\ queue \in [Entries -> Reasons \cup {None}]
Types == ServerTypes /\ StoreTypes /\ LedgerTypes /\ sync \in SyncState /\ base \in BaseState

(* What was posted before the newest message of ids is in ids or deleted. *)
Whole(ids, e) == \A m \in ids : m \in 1..posted[e] /\ \A k \in 1..m : k \in ids \cup deleted[e]
StoresWhole ==
  \A e \in Entries :
    /\ current[e] # None => Whole(current[e], e)
    /\ sealed[e] # None => Whole(sealed[e], e)
    /\ stage[e] # None => Whole(stage[e].ids, e)

(* One writer of the archive at a time. *)
OneWriter == sync.pc = "idle" \/ base.pc \in {"idle", "lock"}

(* The ledgers in memory own what is not healthy, and drop no item. *)
Owned(rows, items) == \A e \in Entries : rows[e].status # "healthy" => items[e] # None
SlotOwns ==
  sync.pc # "idle" =>
    /\ sync.rows \in [Entries -> Row] /\ Owned(sync.rows, sync.items)
    /\ \A e \in Entries : queue[e] # None => sync.items[e] # None
    /\ sync.pc = "state" => queue = sync.items
    /\ sync.pc # "entry" => sync.todo # <<>>
    /\ \A e \in Range(sync.todo) : current[e] # None

(* The new messages are those after the cursor, none left out. *)
Follows(ids, cursor, e) ==
  \A m \in ids : m \in 1..posted[e] /\ \A k \in 1..m : k > cursor => k \in ids \cup deleted[e]
SlotReads ==
  sync.pc = "merge" => /\ R.cursor \in current[E] /\ Follows(sync.new, R.cursor, E)
                       /\ sync.again \subseteq current[E]

(* What the scan may be moved to. *)
ScanSeen(scan, e) == scan \in sync.again \cup deleted[e] \/ Spent
SlotScans ==
  /\ sync.pc \in {"entry", "merge", "grant"} => sync.rows = state
  /\ sync.pc = "entry" => sync.new = {} /\ sync.again = {}
  /\ sync.pc \in {"merge", "grant"} => ScanSeen(sync.plan, E)
  /\ sync.pc \in {"queue", "state"} =>
       \A e \in Entries : sync.rows[e].scan # state[e].scan => ScanSeen(sync.rows[e].scan, e)

(* The baseline has sealed every entry it no longer has to do. *)
Covers(ids, e) == 1..base.since[e] \subseteq ids \cup deleted[e]
PassKnown ==
  /\ base.pc # "idle" => base.since \in [Entries -> 0..MaxMsg] /\ \A e \in Entries : base.since[e] <= posted[e]
  /\ base.pc \in {"built", "install", "seal"} =>
       base.todo # <<>> /\ Whole(base.live, B) /\ Covers(base.live, B)
  /\ base.pc \in {"install", "seal"} => stage[B] \in Staged /\ stage[B].ids = base.live
  /\ base.pc \in {"entry", "built", "install", "seal"} =>
       \A e \in Entries : e \in Range(base.todo) \/ (sealed[e] # None /\ Covers(sealed[e], e))

Inv == /\ Types /\ StoresWhole /\ RetryOwned /\ OneWriter
       /\ SlotOwns /\ SlotReads /\ SlotScans /\ PassKnown

-----------------------------------------------------------------------------
\* The least and the greatest of some numbers.
LEMMA LeastOf ==
    ASSUME NEW T \in SUBSET Nat, T # {}
    PROVE  Min(T) \in T /\ \A y \in T : Min(T) <= y
<1> DEFINE spans == {1..x : x \in T}
<1>1. spans \in SUBSET FiniteSubsetsOf(Nat) /\ spans # {}
  <2>1. ASSUME NEW x \in T PROVE 1..x \in FiniteSubsetsOf(Nat)
    BY FS_Interval DEF FiniteSubsetsOf
  <2> QED
    BY <2>1
<1>2. PICK least \in spans : \A s \in spans : ~(<<s, least>> \in StrictSubsetOrdering(Nat))
  BY <1>1, WFMin, FS_StrictSubsetOrderingWellFounded
<1>3. PICK x \in T : least = 1..x
  BY <1>2
<1>4. ASSUME NEW y \in T, y < x PROVE FALSE
  <2>1. 1..y \in SUBSET Nat /\ 1..x \in SUBSET Nat /\ 1..y \subseteq 1..x
    BY <1>4
  <2>2. x \in 1..x /\ x \notin 1..y
    BY <1>4
  <2>3. <<1..y, 1..x>> \in StrictSubsetOrdering(Nat)
    BY <2>1, <2>2 DEF StrictSubsetOrdering
  <2> QED
    BY <1>2, <1>3, <2>3
<1>5. \A y \in T : x <= y
  BY <1>4
<1> QED
  BY <1>5 DEF Min

LEMMA GreatestOf ==
    ASSUME NEW n \in Nat, NEW T \in SUBSET (0..n), T # {}
    PROVE  Max(T) \in T /\ \A y \in T : y <= Max(T)
<1> DEFINE below == {n - x : x \in T}
<1>1. below \in SUBSET Nat /\ below # {}
  <2>1. \A x \in T : x \in 0..n /\ n - x \in Nat
    OBVIOUS
  <2> QED
    BY <2>1
<1>2. Min(below) \in below /\ \A y \in below : Min(below) <= y
  BY <1>1, LeastOf
<1> HIDE DEF below
<1>3. PICK x \in T : Min(below) = n - x
  BY <1>2 DEF below
<1>4. \A y \in T : n - x <= n - y
  BY <1>2, <1>3 DEF below
<1>5. \A y \in T : y <= x
  BY <1>4
<1> QED
  BY <1>5 DEF Max

LEMMA LesserOf ==
    ASSUME NEW a \in Nat, NEW b \in Nat
    PROVE  Min({a, b}) \in {a, b} /\ Min({a, b}) <= a /\ Min({a, b}) <= b
<1>1. Min({a, b}) \in {a, b} /\ \A y \in {a, b} : Min({a, b}) <= y
  BY LeastOf
<1> QED
  BY <1>1

\* A message number is a number, and some of them are finitely many.
LEMMA SomeMessages ==
    ASSUME NEW S \in Ids
    PROVE  /\ IsFiniteSet(S) /\ Cardinality(S) \in Nat
           /\ S # {} => Max(S) \in S /\ Min(S) \in S /\ \A m \in S : m <= Max(S) /\ Min(S) <= m
<1>1. MaxMsg \in Nat /\ IsFiniteSet(Msgs)
  BY SizesAssumption, FS_Interval DEF Msgs
<1>2. IsFiniteSet(S) /\ Cardinality(S) \in Nat
  BY <1>1, FS_Subset, FS_CardinalityType DEF Ids
<1>3. S \in SUBSET Nat /\ S \in SUBSET (0..MaxMsg)
  BY <1>1 DEF Ids, Msgs
<1>4. S # {} => (Max(S) \in S /\ \A m \in S : m <= Max(S)) /\ (Min(S) \in S /\ \A m \in S : Min(S) <= m)
  BY <1>1, <1>3, LeastOf, GreatestOf
<1> QED
  BY <1>2, <1>4

\* What is left of a list, and what its head is.
LEMMA HeadOfSome ==
    ASSUME NEW S, NEW s \in Seq(S), s # <<>>
    PROVE  /\ Head(s) \in S /\ Tail(s) \in Seq(S) /\ Head(s) \in Range(s)
           /\ \A x \in Range(s) : x = Head(s) \/ x \in Range(Tail(s))
           /\ Range(Tail(s)) \subseteq Range(s)
<1>1. Len(s) \in Nat \ {0} /\ s \in [1..Len(s) -> S]
  BY EmptySeq, LenProperties
<1>2. Head(s) = s[1] /\ Tail(s) \in Seq(S) /\ Len(Tail(s)) = Len(s) - 1
  BY HeadTailProperties
<1>3. \A i \in 1..Len(s) - 1 : Tail(s)[i] = s[i + 1]
  BY HeadTailProperties
<1>4. DOMAIN s = 1..Len(s) /\ DOMAIN Tail(s) = 1..Len(s) - 1
  BY <1>1, <1>2, LenProperties
<1>5. ASSUME NEW x \in Range(s) PROVE x = Head(s) \/ x \in Range(Tail(s))
  <2>1. PICK i \in 1..Len(s) : x = s[i]
    BY <1>4 DEF Range
  <2>2. CASE i = 1
    BY <2>1, <2>2, <1>2
  <2>3. CASE i # 1
    <3>1. i - 1 \in 1..Len(s) - 1 /\ Tail(s)[i - 1] = s[i]
      BY <2>3, <1>1, <1>3
    <3> QED
      BY <3>1, <2>1, <1>4 DEF Range
  <2> QED
    BY <2>2, <2>3
<1>6. ASSUME NEW x \in Range(Tail(s)) PROVE x \in Range(s)
  <2>1. PICK i \in 1..Len(s) - 1 : x = Tail(s)[i]
    BY <1>4 DEF Range
  <2>2. i + 1 \in 1..Len(s) /\ x = s[i + 1]
    BY <2>1, <1>1, <1>3
  <2> QED
    BY <2>2, <1>4 DEF Range
<1>7. Head(s) \in S /\ Head(s) \in Range(s)
  BY <1>1, <1>2, <1>4 DEF Range
<1> QED
  BY <1>2, <1>5, <1>6, <1>7

\* The inventory lists every entry.
LEMMA AllListed == SetToSeq(Entries) \in Seq(Entries) /\ Range(SetToSeq(Entries)) = Entries
<1> DEFINE n == Cardinality(Entries)
<1>1. n \in Nat /\ ExistsBijection(1..n, Entries)
  BY SizesAssumption, FS_CardinalityType
<1>2. PICK f \in Bijection(1..n, Entries) : TRUE
  BY <1>1 DEF ExistsBijection
<1>3. f \in [1..n -> Entries] /\ IsInjective(f)
  BY <1>2 DEF Bijection, Injection, IsInjective
<1>4. SetToSeq(Entries) \in [1..n -> Entries] /\ IsInjective(SetToSeq(Entries))
  BY <1>3 DEF SetToSeq
<1> DEFINE g == SetToSeq(Entries)
<1> HIDE DEF g
<1>5. g \in [1..n -> Entries] /\ IsInjective(g)
  BY <1>4 DEF g
<1>6. g \in Injection(1..n, Entries)
  BY <1>5 DEF Injection, IsInjective
<1>7. IsFiniteSet(1..n) /\ Cardinality(1..n) = n
  BY <1>1, FS_Interval
<1>8. g \in Surjection(1..n, Entries)
  BY <1>6, <1>7, SizesAssumption, FS_Injection
<1>9. Range(g) = Entries
  BY <1>5, <1>8 DEF Surjection, Range
<1>10. g \in Seq(Entries)
  BY <1>1, <1>5, SeqDef
<1> QED
  BY <1>9, <1>10 DEF g

-----------------------------------------------------------------------------
\* Before the first step.
LEMMA InitInv == Init => Inv
<1> SUFFICES ASSUME Init PROVE Inv
  OBVIOUS
<1>1. MaxMsg \in Nat /\ 1 <= MaxMsg /\ IsFiniteSet(Entries) /\ MaxRead \in Nat
  BY SizesAssumption
<1>2. \A e \in Entries : posted[e] \in 0..MaxMsg /\ posted[e] \in {0, 1} /\ deleted[e] = {}
  BY <1>1 DEF Init
<1>3. ServerTypes
  BY <1>1, <1>2 DEF Init, ServerTypes, Ids
<1>4. \A e \in Entries : 1..posted[e] \in Ids
  BY <1>1, <1>2 DEF Ids, Msgs
<1>5. StoreTypes
  BY <1>4 DEF Init, StoreTypes, Nowhere
<1>6. LedgerTypes
  <2>1. ASSUME NEW e \in Entries PROVE 1 \in 0..Cardinality(Entries)
    BY <1>1, FS_EmptySet, FS_CardinalityType
  <2>2. ASSUME NEW e \in Entries
        PROVE [cursor |-> posted[e], status |-> "healthy", age |-> 1, scan |-> 0] \in Row
    BY <1>1, <1>2, <2>1 DEF Row
  <2> QED
    BY <2>2 DEF Init, LedgerTypes, Nowhere
<1>7. sync \in SyncState /\ base \in BaseState
  <2>1. <<>> \in Seq(Entries)
    OBVIOUS
  <2>2. Nowhere \in [Entries -> Row \cup {None}] /\ Nowhere \in [Entries -> Reasons \cup {None}]
    BY DEF Nowhere
  <2>3. Nowhere \in [Entries -> (0..MaxMsg) \cup {None}]
    BY DEF Nowhere
  <2>4. IdleSync \in SyncState
    BY <1>1, <2>1, <2>2 DEF IdleSync, SyncState, Ids
  <2>5. IdleBase \in BaseState
    BY <1>1, <2>1, <2>3 DEF IdleBase, BaseState, Ids
  <2> QED
    BY <2>4, <2>5 DEF Init
<1>8. StoresWhole
  <2> SUFFICES ASSUME NEW e \in Entries, current[e] # None PROVE Whole(current[e], e)
    BY DEF StoresWhole, Init, Nowhere
  <2>1. current[e] = 1..posted[e]
    BY DEF Init, Nowhere
  <2> QED
    BY <2>1, <1>1, <1>2 DEF Whole
<1>9. RetryOwned /\ OneWriter
  BY DEF Init, RetryOwned, OneWriter, IdleSync
<1>10. SlotOwns /\ SlotReads /\ SlotScans
  BY DEF Init, SlotOwns, SlotReads, SlotScans, IdleSync
<1>11. PassKnown
  BY DEF Init, PassKnown, IdleBase
<1> QED
  BY <1>3, <1>5, <1>6, <1>7, <1>8, <1>9, <1>10, <1>11 DEF Inv, Types

\* Discord grows: nothing that was whole, covered or read becomes less so.
Grows == \A e \in Entries : posted[e] <= posted'[e] /\ deleted[e] \subseteq deleted'[e]

LEMMA GrowthKeeps ==
    ASSUME ServerTypes, ServerTypes', Grows, NEW e \in Entries, NEW ids
    PROVE  /\ Whole(ids, e) => Whole(ids, e)'
           /\ \A cursor : Follows(ids, cursor, e) => Follows(ids, cursor, e)'
<1>1. posted[e] \in Nat /\ posted'[e] \in Nat /\ posted[e] <= posted'[e] /\ deleted[e] \subseteq deleted'[e]
  BY SizesAssumption DEF ServerTypes, Grows
<1>2. \A m \in 1..posted[e] : m \in 1..posted'[e]
  BY <1>1
<1>3. ASSUME Whole(ids, e) PROVE Whole(ids, e)'
  BY <1>1, <1>2, <1>3 DEF Whole
<1>4. ASSUME NEW cursor, Follows(ids, cursor, e) PROVE Follows(ids, cursor, e)'
  BY <1>1, <1>2, <1>4 DEF Follows
<1> QED
  BY <1>3, <1>4

LEMMA ServerKeeps ==
    ASSUME Inv, ServerTypes', Grows, UNCHANGED <<state, queue, current, FullStore, sync, base>>
    PROVE  Inv'
<1>1. Types'
  BY DEF Inv, Types, StoreTypes, LedgerTypes, FullStore
<1>2. StoresWhole'
  BY GrowthKeeps DEF Inv, Types, StoresWhole, FullStore
<1>3. RetryOwned' /\ OneWriter' /\ SlotOwns'
  BY DEF Inv, RetryOwned, OneWriter, SlotOwns
<1>4. SlotReads'
  <2> SUFFICES ASSUME sync.pc = "merge" PROVE SlotReads'
    BY DEF SlotReads
  <2>1. sync.todo \in Seq(Entries) /\ sync.todo # <<>>
    BY DEF Inv, Types, SyncState, SlotOwns
  <2>2. E \in Entries
    BY <2>1, HeadOfSome DEF E
  <2>3. E' = E /\ R' = R
    BY DEF E, R
  <2>4. Follows(sync.new, R.cursor, E)'
    <3>0. PICK ids, c : ids = sync.new /\ c = R.cursor
      OBVIOUS
    <3>1. PICK e \in Entries : e = E
      BY <2>2
    <3>2. Follows(ids, c, e)
      BY <3>0, <3>1 DEF Inv, SlotReads
    <3>3. Follows(ids, c, e)'
      BY <3>2, GrowthKeeps DEF Inv, Types
    <3> QED
      BY <3>0, <3>1, <3>3, <2>3 DEF Follows
  <2> QED
    BY <2>3, <2>4 DEF Inv, SlotReads
<1>5. SlotScans'
  <2>1. \A e \in Entries : \A s : ScanSeen(s, e) => ScanSeen(s, e)'
    BY DEF Grows, ScanSeen, Spent
  <2>2. sync.pc \in {"merge", "grant"} => E \in Entries
    <3>1. sync.pc \in {"merge", "grant"} => sync.todo # <<>> /\ sync.todo \in Seq(Entries)
      BY DEF Inv, Types, SyncState, SlotOwns
    <3> QED
      BY <3>1, HeadOfSome DEF E
  <2>3. ASSUME sync.pc \in {"merge", "grant"} PROVE ScanSeen(sync.plan, E)'
    <3>0. PICK s : s = sync.plan
      OBVIOUS
    <3>1. PICK e \in Entries : e = E
      BY <2>2, <2>3
    <3>2. ScanSeen(s, e)'
      BY <3>0, <3>1, <2>1, <2>3 DEF Inv, SlotScans
    <3> QED
      BY <3>0, <3>1, <3>2 DEF ScanSeen, Spent, E
  <2>4. ASSUME NEW e \in Entries, sync.pc \in {"queue", "state"}, sync.rows[e].scan # state[e].scan
        PROVE  ScanSeen(sync.rows[e].scan, e)'
    <3>1. PICK s : s = sync.rows[e].scan
      OBVIOUS
    <3>2. ScanSeen(s, e)'
      BY <3>1, <2>1, <2>4 DEF Inv, SlotScans
    <3> QED
      BY <3>1, <3>2 DEF ScanSeen, Spent
  <2> QED
    BY <2>3, <2>4 DEF Inv, SlotScans
<1>6. PassKnown'
  <2>1. ASSUME base.pc # "idle", NEW e \in Entries PROVE base.since[e] <= posted'[e]
    <3>1. base.since[e] \in Nat /\ posted[e] \in Nat /\ posted'[e] \in Nat /\ base.since[e] <= posted[e]
      BY <2>1, SizesAssumption DEF Inv, PassKnown, Types, ServerTypes
    <3> QED
      BY <3>1 DEF Grows
  <2>2. ASSUME base.pc \in {"built", "install", "seal"}
        PROVE  base.todo # <<>> /\ Whole(base.live, B)' /\ Covers(base.live, B)'
    <3>1. base.todo \in Seq(Entries) /\ base.todo # <<>>
      BY <2>2 DEF Inv, Types, BaseState, PassKnown
    <3>2. B \in Entries
      BY <3>1, HeadOfSome DEF B
    <3>0. PICK ids : ids = base.live
      OBVIOUS
    <3>3. PICK e \in Entries : e = B
      BY <3>2
    <3>4. Whole(ids, e)' /\ Covers(ids, e)'
      BY <3>0, <3>3, <2>2, GrowthKeeps DEF Inv, Types, PassKnown, Covers, Grows
    <3> QED
      BY <3>0, <3>1, <3>3, <3>4 DEF Whole, Covers, B
  <2>3. ASSUME NEW e \in Entries, sealed[e] # None /\ Covers(sealed[e], e) PROVE sealed'[e] # None /\ Covers(sealed[e], e)'
    BY <2>3 DEF Covers, Grows, FullStore
  <2> QED
    BY <2>1, <2>2, <2>3 DEF Inv, PassKnown, FullStore, B
<1> QED
  BY <1>1, <1>2, <1>3, <1>4, <1>5, <1>6 DEF Inv

LEMMA PostKeeps == ASSUME Inv, NEW e \in Entries, Post(e) PROVE Inv'
<1>1. posted[e] \in 0..MaxMsg /\ posted[e] < MaxMsg /\ MaxMsg \in Nat
  BY SizesAssumption DEF Inv, Types, ServerTypes, Post
<1>2. posted' \in [Entries -> 0..MaxMsg]
  BY <1>1 DEF Inv, Types, ServerTypes, Post
<1>3. \A o \in Entries : posted[o] \in Nat /\ posted'[o] \in Nat /\ posted[o] <= posted'[o]
  BY <1>1, SizesAssumption DEF Inv, Types, ServerTypes, Post
<1>4. \A o \in Entries : deleted'[o] = deleted[o] /\ deleted[o] \subseteq 1..posted'[o]
  BY <1>3 DEF Inv, Types, ServerTypes, Post
<1> QED
  BY <1>2, <1>3, <1>4, ServerKeeps DEF Inv, Types, ServerTypes, Grows, Post

LEMMA DeleteKeeps == ASSUME Inv, NEW e \in Entries, NEW m \in Msgs, Delete(e, m) PROVE Inv'
<1>1. m \in 1..posted[e] /\ deleted' \in [Entries -> Ids] /\ posted' = posted
  BY DEF Inv, Types, ServerTypes, Delete, Visible, Ids
<1>2. \A o \in Entries : deleted[o] \subseteq deleted'[o] /\ deleted'[o] \subseteq 1..posted[o]
  BY <1>1 DEF Inv, Types, ServerTypes, Delete
<1>3. \A o \in Entries : posted[o] \in Nat /\ posted[o] <= posted'[o]
  BY <1>1, SizesAssumption DEF Inv, Types, ServerTypes
<1> QED
  BY <1>1, <1>2, <1>3, ServerKeeps DEF Inv, Types, ServerTypes, Grows, Delete

-----------------------------------------------------------------------------
\* A day later every entry has waited longer, in the same order.
LEMMA NextDayKeeps == ASSUME Inv, NextDay PROVE Inv'
<1>1. sync.pc = "idle" /\ sync' = sync
  BY DEF NextDay
<1>2. state \in [Entries -> Row] /\ IsFiniteSet(Entries)
  BY SizesAssumption DEF Inv, Types, LedgerTypes
<1>3. ASSUME NEW e \in Entries
      PROVE  state'[e] \in Row /\ state'[e].status = state[e].status
  <2> DEFINE younger == {x \in Entries : state[x].age < state[e].age}
             ages == {state[o].age : o \in younger}
             rank == [x \in younger |-> state[x].age]
             card == Cardinality(ages)
  <2>1. younger \subseteq Entries \ {e}
    BY <1>2 DEF Row
  <2>2. IsFiniteSet(Entries \ {e}) /\ Cardinality(Entries \ {e}) = Cardinality(Entries) - 1 /\ Cardinality(Entries) \in Nat
    BY <1>2, FS_RemoveElement, FS_CardinalityType
  <2>3. IsFiniteSet(younger) /\ Cardinality(younger) \in Nat /\ Cardinality(younger) <= Cardinality(Entries) - 1
    BY <2>1, <2>2, FS_Subset, FS_CardinalityType
  <2>4. rank \in Surjection(younger, ages)
    BY DEF Surjection
  <2> HIDE DEF rank, ages, younger
  <2>5. IsFiniteSet(ages) /\ card \in Nat /\ card <= Cardinality(younger)
    BY <2>3, <2>4, FS_Surjection, FS_CardinalityType
  <2>6. state'[e] = [state[e] EXCEPT !.age = 1 + card]
    BY DEF NextDay, ages, younger
  <2> HIDE DEF card
  <2>7. 1 + card \in 0..Cardinality(Entries)
    BY <2>2, <2>3, <2>5
  <2> QED
    BY <1>2, <2>6, <2>7 DEF Row
<1>4. state' \in [Entries -> Row]
  BY <1>3 DEF NextDay
<1>5. LedgerTypes' /\ RetryOwned'
  BY <1>3, <1>4 DEF NextDay, Inv, Types, LedgerTypes, RetryOwned
<1>6. ServerTypes' /\ StoreTypes' /\ StoresWhole' /\ OneWriter' /\ PassKnown'
  BY DEF NextDay, Discord, FullStore, Inv, Types, ServerTypes, StoreTypes, StoresWhole, Whole, OneWriter,
         PassKnown, Covers, B
<1>7. SlotOwns' /\ SlotReads' /\ SlotScans'
  BY <1>1 DEF SlotOwns, SlotReads, SlotScans
<1>8. Types'
  BY <1>5, <1>6 DEF NextDay, Inv, Types
<1> QED
  BY <1>5, <1>6, <1>7, <1>8 DEF Inv

LEMMA DriftsKeeps == run \in {"absent", "empty", "evidence", "drifted"} /\ Drifts => run' \in {"absent", "empty", "evidence", "drifted"}
BY DEF Drifts

\* What only the stores and the baseline decide.
LEMMA StoresKeep ==
    ASSUME Inv, UNCHANGED <<Discord, current, stage, sealed, root, base>>,
           run' \in {"absent", "empty", "evidence", "drifted"}
    PROVE  ServerTypes' /\ StoreTypes' /\ base' \in BaseState /\ StoresWhole' /\ PassKnown'
<1>1. ServerTypes' /\ StoreTypes' /\ base' \in BaseState
  BY DEF Inv, Types, ServerTypes, StoreTypes, Discord
<1>2. StoresWhole'
  BY DEF Inv, StoresWhole, Whole, Discord
<1>3. PassKnown'
  BY DEF Inv, PassKnown, Whole, Covers, B, Discord
<1> QED
  BY <1>1, <1>2, <1>3

LEMMA LegacyKeeps == ASSUME Inv, NEW e \in Entries, NEW m \in Msgs, LegacyMoves(e, m) PROVE Inv'
<1>1. sync.pc = "idle" /\ sync' = sync /\ base' = base
  BY DEF LegacyMoves, LockFree
<1>2. m \in 0..MaxMsg
  BY SizesAssumption DEF Msgs
<1>3. state' \in [Entries -> Row] /\ \A o \in Entries : state'[o].status = state[o].status
  BY <1>2 DEF LegacyMoves, Inv, Types, LedgerTypes, Row
<1>4. LedgerTypes' /\ RetryOwned'
  BY <1>3 DEF LegacyMoves, Inv, Types, LedgerTypes, RetryOwned
<1>5. ServerTypes' /\ StoreTypes' /\ base' \in BaseState /\ StoresWhole' /\ PassKnown'
  BY StoresKeep, DriftsKeeps DEF LegacyMoves, Inv, Types, StoreTypes
<1>6. OneWriter' /\ SlotOwns' /\ SlotReads' /\ SlotScans'
  BY <1>1 DEF OneWriter, SlotOwns, SlotReads, SlotScans
<1> QED
  BY <1>1, <1>4, <1>5, <1>6 DEF Inv, Types

-----------------------------------------------------------------------------
\* The entry a slot is at.
LEMMA EntryAt == ASSUME Inv, sync.pc # "idle", sync.todo # <<>>
                 PROVE  E \in Entries /\ E \in Range(sync.todo) /\ R \in Row /\ Tail(sync.todo) \in Seq(Entries)
<1>1. sync.todo \in Seq(Entries) /\ sync.rows \in [Entries -> Row]
  BY DEF Inv, Types, SyncState, SlotOwns
<1>2. E \in Entries /\ E \in Range(sync.todo) /\ Tail(sync.todo) \in Seq(Entries)
  BY <1>1, HeadOfSome DEF E
<1> QED
  BY <1>1, <1>2 DEF R

\* A slot starts on what the ledgers say, with a CURRENT for each entry.
LEMMA StartKeeps == ASSUME Inv, SyncStart PROVE Inv'
<1>1. PICK todo \in Selections :
        /\ todo # <<>> /\ \A i \in DOMAIN todo : HasCurrent(todo[i])
        /\ sync' = [IdleSync EXCEPT !.pc = "entry", !.todo = todo, !.rows = state, !.items = queue]
  BY DEF SyncStart
<1>2. todo \in Seq(Entries)
  <2> DEFINE waiting == {e \in Entries : Eligible(e)}
             size == Cardinality(waiting)
  <2>1. size \in Nat /\ MaxEntries \in Nat
    <3>1. IsFiniteSet(waiting)
      BY SizesAssumption, FS_Subset
    <3> QED
      BY <3>1, SizesAssumption, FS_CardinalityType
  <2>2. todo \in [1..Min({size, MaxEntries}) -> waiting]
    BY DEF Selections
  <2> HIDE DEF size
  <2>3. PICK n \in Nat : n = Min({size, MaxEntries})
    BY <2>1, LesserOf
  <2>4. todo \in [1..n -> Entries]
    BY <2>2, <2>3
  <2> QED
    BY <2>3, <2>4, SeqDef
<1>3. sync' = [pc |-> "entry", todo |-> todo, rows |-> state, items |-> queue, writes |-> 0, read |-> 0,
               new |-> {}, again |-> {}, plan |-> 0, terminal |-> TRUE, raise |-> FALSE]
  BY <1>1 DEF IdleSync
<1>4. UNCHANGED <<Discord, state, queue, current, FullStore, base>>
  BY DEF SyncStart
<1>5. sync' \in SyncState
  <2>1. state \in [Entries -> Row \cup {None}] /\ queue \in [Entries -> Reasons \cup {None}]
    BY DEF Inv, Types, LedgerTypes
  <2>2. 0 \in 0..MaxRead /\ 0 \in 0..MaxMsg /\ {} \in Ids
    BY SizesAssumption DEF Ids
  <2> QED
    BY <1>2, <1>3, <2>1, <2>2 DEF SyncState
<1>6. ServerTypes' /\ StoreTypes' /\ base' \in BaseState /\ StoresWhole' /\ PassKnown'
  BY <1>4, StoresKeep DEF Inv, Types, StoreTypes, FullStore
<1>7. LedgerTypes' /\ RetryOwned'
  BY <1>4 DEF Inv, Types, LedgerTypes, RetryOwned
<1>8. OneWriter'
  BY <1>3, <1>4 DEF SyncStart, LockFree, OneWriter
<1>9. SlotOwns'
  <2>1. \A e \in Range(todo) : current[e] # None
    BY <1>1 DEF Range, HasCurrent
  <2>2. state \in [Entries -> Row] /\ RetryOwned
    BY DEF Inv, Types, LedgerTypes
  <2>3. current' = current /\ queue' = queue
    BY <1>4
  <2>4. /\ sync'.rows = state /\ sync'.items = queue /\ sync'.pc = "entry" /\ sync'.todo = todo
    BY <1>3
  <2> QED
    BY <2>1, <2>2, <2>3, <2>4 DEF RetryOwned, SlotOwns, Owned
<1>10. SlotReads' /\ SlotScans'
  BY <1>3, <1>4 DEF SlotReads, SlotScans
<1> QED
  BY <1>5, <1>6, <1>7, <1>8, <1>9, <1>10 DEF Inv, Types

LEMMA IdleSyncType == IdleSync \in SyncState
<1>1. Nowhere \in [Entries -> Row \cup {None}] /\ Nowhere \in [Entries -> Reasons \cup {None}]
  BY DEF Nowhere
<1>2. 0 \in 0..MaxRead /\ 0 \in 0..MaxMsg /\ {} \in Ids /\ <<>> \in Seq(Entries)
  BY SizesAssumption DEF Ids
<1> QED
  BY <1>1, <1>2 DEF IdleSync, SyncState

\* A slot that ended, or was killed, leaves its memory behind.
LEMMA StopKeeps ==
    ASSUME Inv, sync' = IdleSync, UNCHANGED <<Discord, state, queue, current, FullStore, base>>
    PROVE  Inv'
<1>1. ServerTypes' /\ StoreTypes' /\ base' \in BaseState /\ StoresWhole' /\ PassKnown'
  BY StoresKeep DEF Inv, Types, StoreTypes, FullStore
<1>2. LedgerTypes' /\ RetryOwned'
  BY DEF Inv, Types, LedgerTypes, RetryOwned
<1>3. OneWriter' /\ SlotOwns' /\ SlotReads' /\ SlotScans'
  BY DEF OneWriter, SlotOwns, SlotReads, SlotScans, IdleSync
<1> QED
  BY <1>1, <1>2, <1>3, IdleSyncType DEF Inv, Types

-----------------------------------------------------------------------------
\* An entry's row and item as a slot will save them, in its memory.
Remembers(row, item) ==
  /\ sync' \in SyncState /\ sync'.pc = "queue" /\ sync'.todo = sync.todo
  /\ sync'.rows = [sync.rows EXCEPT ![E] = row] /\ sync'.items = [sync.items EXCEPT ![E] = item]
  /\ sync'.new = sync.new /\ sync'.again = sync.again

\* What is in memory may wait for its two saves when it owns the entry,
\* keeps its item, and moves the scan only over what was read again.
LEMMA RememberedKeeps ==
    ASSUME Inv, sync.pc \in {"entry", "merge", "grant"}, sync.todo # <<>>,
           NEW row \in Row, NEW item \in Reasons \cup {None}, Remembers(row, item),
           row.status # "healthy" => item # None, sync.items[E] # None => item # None,
           row.scan # R.scan => row.scan \in sync.again \cup deleted[E] \/ (sync.new # {} /\ sync'.read = MaxRead),
           UNCHANGED <<Discord, state, queue, current, FullStore, base>>
    PROVE  Inv'
<1>1. E \in Entries /\ R = sync.rows[E]
  BY EntryAt DEF R
<1>2. ServerTypes' /\ StoreTypes' /\ base' \in BaseState /\ StoresWhole' /\ PassKnown'
  BY StoresKeep DEF Inv, Types, StoreTypes, FullStore
<1>3. LedgerTypes' /\ RetryOwned' /\ OneWriter'
  BY DEF Inv, Types, LedgerTypes, RetryOwned, OneWriter
<1>4. sync.rows \in [Entries -> Row] /\ sync.items \in [Entries -> Reasons \cup {None}] /\ sync.rows = state
  BY DEF Inv, Types, SyncState, SlotOwns, SlotScans
<1>5. \A e \in Entries : sync'.rows[e] = (IF e = E THEN row ELSE sync.rows[e])
                         /\ sync'.items[e] = (IF e = E THEN item ELSE sync.items[e])
  BY <1>1, <1>4 DEF Remembers
<1>6. SlotOwns'
  <2>1. Owned(sync.rows, sync.items) /\ (\A e \in Entries : queue[e] # None => sync.items[e] # None)
        /\ \A e \in Range(sync.todo) : current[e] # None
    BY DEF Inv, SlotOwns
  <2>2. sync'.rows \in [Entries -> Row]
    BY <1>1, <1>4 DEF Remembers
  <2>3. Owned(sync'.rows, sync'.items)
    BY <1>5, <2>1 DEF Owned
  <2>4. \A e \in Entries : queue[e] # None => sync'.items[e] # None
    BY <1>1, <1>5, <2>1
  <2> QED
    BY <2>1, <2>2, <2>3, <2>4 DEF SlotOwns, Remembers, Owned
<1>7. SlotReads'
  BY DEF SlotReads, Remembers
<1>8. SlotScans'
  <2>1. ASSUME NEW e \in Entries, sync'.rows[e].scan # state[e].scan PROVE ScanSeen(sync.rows[e].scan, e)'
    <3>1. e = E /\ sync'.rows[e] = row /\ row.scan # R.scan
      BY <1>1, <1>4, <1>5, <2>1
    <3>2. deleted'[E] = deleted[E] /\ sync'.new = sync.new /\ sync'.again = sync.again
      BY DEF Discord, Remembers
    <3>3. row.scan \in sync'.again \cup deleted'[E] \/ (sync'.new # {} /\ sync'.read = MaxRead)
      BY <3>1, <3>2
    <3> QED
      BY <3>1, <3>3 DEF ScanSeen, Spent
  <2>2. state' = state /\ sync'.pc = "queue"
    BY DEF Remembers
  <2> QED
    BY <2>1, <2>2 DEF SlotScans
<1>9. Types'
  BY <1>2, <1>3 DEF Types, Remembers
<1> QED
  BY <1>2, <1>3, <1>6, <1>7, <1>8, <1>9 DEF Inv

LEMMA RememberSets ==
    ASSUME Inv, sync.pc \in {"entry", "merge", "grant"}, sync.todo # <<>>,
           NEW row \in Row, NEW item \in Reasons \cup {None}, NEW read \in Nat, NEW stops \in BOOLEAN,
           sync.read + read <= MaxRead, Remember(row, item, read, stops)
    PROVE  Remembers(row, item) /\ sync'.read = sync.read + read
<1>1. E \in Entries /\ sync \in SyncState
  BY EntryAt DEF Inv, Types
<1>2. sync.read + read \in 0..MaxRead
  BY <1>1, SizesAssumption DEF SyncState
<1>3. [sync.rows EXCEPT ![E] = row] \in [Entries -> Row \cup {None}]
  BY <1>1 DEF SyncState
<1>4. [sync.items EXCEPT ![E] = item] \in [Entries -> Reasons \cup {None}]
  BY <1>1 DEF SyncState
<1>5. sync' = [sync EXCEPT !.rows = [sync.rows EXCEPT ![E] = row], !.items = [sync.items EXCEPT ![E] = item],
                           !.pc = "queue", !.read = sync.read + read, !.raise = stops]
  BY <1>1 DEF Remember, SavedFirst, SyncState
<1>6. sync' \in SyncState
  BY <1>1, <1>2, <1>3, <1>4, <1>5 DEF SyncState
<1> QED
  BY <1>1, <1>5, <1>6 DEF Remembers, SyncState

\* A retry, from wherever the entry failed.
LEMMA RetryKeeps ==
    ASSUME Inv, sync.pc \in {"entry", "merge", "grant"}, sync.todo # <<>>, ForRetry,
           UNCHANGED <<Discord, state, queue, current, FullStore, base>>
    PROVE  Inv'
<1> DEFINE row == [R EXCEPT !.status = "retry"]
<1>1. R \in Row /\ sync.read \in 0..MaxRead
  BY EntryAt DEF Inv, Types, SyncState
<1>2. row \in Row /\ row.scan = R.scan /\ row.status = "retry"
  BY <1>1 DEF Row
<1>3. "rich_incremental_error" \in Reasons \cup {None} /\ "rich_incremental_error" # None
  BY SizesAssumption DEF Reasons
<1>4. sync.read + 0 <= MaxRead
  BY <1>1, SizesAssumption
<1>5. Remember(row, "rich_incremental_error", 0, TRUE)
  BY DEF ForRetry
<1> HIDE DEF row
<1>6. Remembers(row, "rich_incremental_error")
  BY <1>2, <1>3, <1>4, <1>5, RememberSets
<1> QED
  BY <1>2, <1>3, <1>6, RememberedKeeps

\* A quiet entry and one that needs a rebuild.
LEMMA GrantedRow ==
    ASSUME NEW cursor \in 0..MaxMsg, NEW scan \in 0..MaxMsg, NEW partial \in BOOLEAN, R \in Row
    PROVE  /\ Granted(cursor, scan, partial) \in Row /\ Granted(cursor, scan, partial).scan = scan
           /\ Granted(cursor, scan, partial).status = IF partial THEN "partial" ELSE "healthy"
<1>1. 0 \in 0..Cardinality(Entries)
  BY SizesAssumption, FS_CardinalityType
<1> QED
  BY <1>1 DEF Granted, Row

LEMMA QuietKeeps ==
    ASSUME Inv, sync.pc = "entry", sync.todo # <<>>, NEW scan \in 0..MaxMsg, Quiet(scan),
           scan # R.scan => scan \in deleted[E],
           UNCHANGED <<Discord, state, queue, current, FullStore, base>>
    PROVE  Inv'
<1>1. R \in Row /\ E \in Entries /\ sync.read \in 0..MaxRead /\ sync.items[E] \in Reasons \cup {None}
  BY EntryAt DEF Inv, Types, SyncState
<1>2. PICK row : row = Granted(R.cursor, scan, FALSE)
  OBVIOUS
<1>3. row \in Row /\ row.scan = scan /\ row.status = "healthy"
  <2>1. R.cursor \in 0..MaxMsg
    BY <1>1 DEF Row
  <2>2. \A partial \in BOOLEAN : Granted(R.cursor, scan, partial) \in Row
                                /\ Granted(R.cursor, scan, partial).scan = scan
    BY <1>1, <2>1, GrantedRow
  <2>3. row \in Row /\ row.scan = scan
    BY <1>2, <2>2
  <2> QED
    BY <1>1, <1>2, <2>3 DEF Granted, Row
<1>4. sync.read + 0 <= MaxRead
  BY <1>1, SizesAssumption
<1>5. PICK item \in Reasons \cup {None} : item = sync.items[E]
  BY <1>1
<1>6. Remembers(row, item)
  BY <1>2, <1>3, <1>4, <1>5, RememberSets DEF Quiet
<1> QED
  BY <1>3, <1>5, <1>6, RememberedKeeps

LEMMA RebuildKeeps ==
    ASSUME Inv, sync.pc = "entry", sync.todo # <<>>, sync.read < MaxRead, SyncRebuild,
           UNCHANGED <<Discord, state, queue, current, FullStore, base>>
    PROVE  Inv'
<1>1. R \in Row /\ E \in Entries /\ sync.read \in 0..MaxRead /\ MaxRead \in Nat /\ PageSize \in Nat
  BY EntryAt, SizesAssumption DEF Inv, Types, SyncState
<1>2. PICK row : row = [R EXCEPT !.status = "queued"]
  OBVIOUS
<1>3. row \in Row /\ row.scan = R.scan
  BY <1>1, <1>2 DEF Row
<1>4. "rich_full_rebuild_required" \in Reasons \cup {None} /\ "rich_full_rebuild_required" # None
  BY SizesAssumption DEF Reasons
<1>5. Probed \in Nat /\ sync.read + Probed <= MaxRead
  <2> DEFINE three == {Cardinality(Visible(E)), PageSize, MaxRead - sync.read}
  <2>1. Visible(E) \in Ids
    BY <1>1, SizesAssumption DEF Inv, Types, ServerTypes, Visible, Ids, Msgs
  <2>2. three \in SUBSET Nat
    BY <1>1, <2>1, SomeMessages
  <2>3. Min(three) \in Nat /\ Min(three) <= MaxRead - sync.read
    BY <2>2, LeastOf
  <2> QED
    BY <1>1, <2>3 DEF Probed
<1>6. Remembers(row, "rich_full_rebuild_required")
  BY <1>2, <1>3, <1>4, <1>5, RememberSets DEF SyncRebuild, ForRebuild
<1> QED
  BY <1>3, <1>4, <1>6, RememberedKeeps

-----------------------------------------------------------------------------
\* The pages of a slot are the oldest messages of those they ask for.
LEMMA FetchedFirst ==
    ASSUME NEW S \in Ids, Room \in Nat \ {0}
    PROVE  /\ Fetched(S) \in Ids /\ Fetched(S) \subseteq S /\ Cardinality(Fetched(S)) <= Room
           /\ \A m \in Fetched(S), k \in S : k < m => k \in Fetched(S)
<1> DEFINE upto(m) == {k \in S : k <= m}
<1>1. S \in SUBSET Nat /\ Fetched(S) \in Ids /\ Fetched(S) \subseteq S
  <2>1. S \in SUBSET Nat
    BY SizesAssumption DEF Ids, Msgs
  <2>2. Fetched(S) \subseteq S
    BY Zenon DEF Fetched
  <2> QED
    BY <2>1, <2>2 DEF Ids
<1>2. \A m : upto(m) \in Ids /\ IsFiniteSet(upto(m)) /\ Cardinality(upto(m)) \in Nat
  BY SomeMessages DEF Ids
<1>3. Cardinality(Fetched(S)) \in Nat /\ Cardinality(Fetched(S)) <= Room
  <2>1. CASE Fetched(S) = {}
    BY <2>1, FS_EmptySet
  <2>2. CASE Fetched(S) # {}
    <3>1. Max(Fetched(S)) \in Fetched(S) /\ \A m \in Fetched(S) : m <= Max(Fetched(S))
      BY <1>1, <2>2, SomeMessages
    <3>2. PICK top \in Fetched(S) : \A m \in Fetched(S) : m <= top
      BY <3>1
    <3>3. Fetched(S) \subseteq upto(top) /\ Cardinality(upto(top)) <= Room
      BY <1>1, <3>2 DEF Fetched
    <3>4. Cardinality(Fetched(S)) \in Nat /\ Cardinality(Fetched(S)) <= Cardinality(upto(top))
      BY <1>1, <1>2, <3>3, FS_Subset, SomeMessages
    <3> QED
      BY <1>2, <3>3, <3>4
  <2> QED
    BY <2>1, <2>2
<1>4. ASSUME NEW m \in Fetched(S), NEW k \in S, k < m PROVE k \in Fetched(S)
  <2>1. m \in Nat /\ k \in Nat /\ k < m
    BY <1>1, <1>4
  <2>2. \A j \in S : j <= k => j <= m
    BY <1>1, <2>1
  <2>3. upto(k) \subseteq upto(m)
    BY <2>2
  <2>4. Cardinality(upto(k)) <= Cardinality(upto(m))
    BY <1>2, <2>3, FS_Subset
  <2>5. Cardinality(upto(m)) <= Room
    BY DEF Fetched
  <2>6. Cardinality(upto(k)) <= Room
    <3>1. Cardinality(upto(k)) \in Nat /\ Cardinality(upto(m)) \in Nat
      BY <1>2
    <3> HIDE DEF upto
    <3> QED
      BY <2>4, <2>5, <3>1
  <2> QED
    BY <2>6 DEF Fetched
<1> QED
  BY <1>1, <1>3, <1>4

LEMMA NextScanInside ==
    ASSUME NEW ids \in Ids, ids # {}, NEW scan
    PROVE  NextScan(ids, scan) \in ids
<1>1. CASE \E m \in ids : m > scan
  <2>1. {m \in ids : m > scan} \in Ids /\ {m \in ids : m > scan} # {}
    BY <1>1 DEF Ids
  <2>2. Min({m \in ids : m > scan}) \in {m \in ids : m > scan}
    BY <2>1, SomeMessages
  <2> QED
    BY <1>1, <2>2 DEF NextScan
<1>2. CASE ~(\E m \in ids : m > scan)
  BY <1>2, SomeMessages DEF NextScan
<1> QED
  BY <1>1, <1>2

\* What a slot can read of an entry: everything after the cursor, oldest
\* first, and the next message of CURRENT unless the budget is spent.
LEMMA ReadsOf ==
    ASSUME Inv, sync.pc = "entry", sync.todo # <<>>, sync.read < MaxRead, R.cursor \in current[E], HasCurrent(E),
           NEW fresh, fresh = Fetched(Newer), NEW window, window = Window(fresh),
           NEW scan, scan = NextScan(current[E], R.scan)
    PROVE  /\ fresh \in Ids /\ Follows(fresh, R.cursor, E)
           /\ window \in Ids /\ window \subseteq current[E]
           /\ scan \in 0..MaxMsg
           /\ scan \in window \cup deleted[E] \/ (fresh # {} /\ sync.read + Cardinality(fresh) + Cardinality(window) = MaxRead)
           /\ sync.read + Cardinality(fresh) + Cardinality(window) \in 0..MaxRead
<1>1. /\ E \in Entries /\ R \in Row /\ sync.read \in Nat /\ MaxRead \in Nat /\ PageSize * MaxPages \in Nat \ {0}
      /\ posted[E] \in 0..MaxMsg /\ MaxMsg \in Nat /\ current[E] \in Ids
      /\ Whole(current[E], E)
  <2>1. \A a, b \in Nat \ {0} : a * b \in Nat \ {0}
    OBVIOUS
  <2>2. PageSize * MaxPages \in Nat \ {0} /\ MaxRead \in Nat /\ MaxMsg \in Nat
    BY <2>1, SizesAssumption
  <2>3. E \in Entries /\ R \in Row
    BY EntryAt
  <2> QED
    BY <2>2, <2>3 DEF Inv, Types, SyncState, ServerTypes, StoreTypes, StoresWhole, HasCurrent
<1>2. Room \in Nat \ {0} /\ Room <= MaxRead - sync.read
  <2> DEFINE three == {PageSize * MaxPages, MaxMessages, MaxRead - sync.read}
  <2>1. MaxMessages \in Nat \ {0} /\ MaxRead - sync.read \in Nat \ {0}
    <3>1. MaxMessages \in Nat \ {0}
      BY SizesAssumption
    <3>2. \A limit, spent \in Nat : spent < limit => limit - spent \in Nat \ {0}
      OBVIOUS
    <3>3. MaxRead - sync.read \in Nat \ {0}
      BY <1>1, <3>2
    <3> QED
      BY <3>1, <3>3
  <2>2. three \in SUBSET Nat /\ three \subseteq Nat \ {0} /\ MaxRead - sync.read \in three
    BY <1>1, <2>1
  <2>3. Min(three) \in three /\ Min(three) <= MaxRead - sync.read
    BY <2>2, LeastOf
  <2> QED
    BY <2>2, <2>3 DEF Room
<1>3. Newer \in Ids
  BY <1>1 DEF Newer, Visible, Ids, Msgs
<1>4. /\ fresh \in Ids /\ fresh \subseteq Newer /\ Cardinality(fresh) <= Room
      /\ \A m \in fresh, k \in Newer : k < m => k \in fresh
  BY <1>2, <1>3, FetchedFirst
<1>5. Cardinality(fresh) \in Nat /\ (fresh # {} => Cardinality(fresh) # 0) /\ (fresh = {} => Cardinality(fresh) = 0)
  BY <1>4, SomeMessages, FS_EmptySet
<1>6. Follows(fresh, R.cursor, E)
  <2> SUFFICES ASSUME NEW m \in fresh, NEW k \in 1..m, k > R.cursor
               PROVE  m \in 1..posted[E] /\ k \in fresh \cup deleted[E]
    <3>1. \A m \in fresh : m \in 1..posted[E]
      BY <1>4 DEF Newer, Visible
    <3> QED
      BY <3>1 DEF Follows
  <2>1. m \in Newer /\ m \in 1..posted[E]
    BY <1>4 DEF Newer, Visible
  <2>2. k \in 1..posted[E] /\ (k = m \/ k < m)
    BY <1>1, <2>1
  <2>3. k \in Newer \/ k \in deleted[E]
    BY <2>2 DEF Newer, Visible
  <2> QED
    BY <1>4, <2>1, <2>2, <2>3
<1>7. scan \in current[E] /\ scan \in 1..posted[E] /\ scan \in 0..MaxMsg
  <2>1. scan \in current[E]
    BY <1>1, NextScanInside
  <2> QED
    BY <1>1, <2>1 DEF Whole, Ids, Msgs
<1>8. /\ sync.read + Cardinality(fresh) < MaxRead => window = {scan} \cap Visible(E)
      /\ ~(sync.read + Cardinality(fresh) < MaxRead) => window = {}
  BY DEF Window
<1>9. window \in Ids /\ window \subseteq current[E] /\ window \subseteq {scan}
  BY <1>1, <1>7, <1>8 DEF Ids
<1>10. Cardinality(window) \in Nat /\ Cardinality(window) <= 1 /\ (window = {} => Cardinality(window) = 0)
  <2>1. window = {} \/ window = {scan}
    BY <1>9
  <2>2. IsFiniteSet(window)
    BY <1>9, SomeMessages
  <2>3. window = {} => Cardinality(window) = 0
    BY <2>2, FS_EmptySet
  <2>4. window = {scan} => Cardinality(window) = 1
    BY <2>2, FS_Singleton
  <2> QED
    BY <2>1, <2>3, <2>4
<1>11. scan \in window \cup deleted[E] \/ (fresh # {} /\ sync.read + Cardinality(fresh) + Cardinality(window) = MaxRead)
  <2>1. CASE sync.read + Cardinality(fresh) < MaxRead
    BY <2>1, <1>7, <1>8 DEF Visible
  <2>2. CASE ~(sync.read + Cardinality(fresh) < MaxRead)
    BY <2>2, <1>1, <1>2, <1>4, <1>5, <1>8, <1>10
  <2> QED
    BY <2>1, <2>2
<1>12. sync.read + Cardinality(fresh) + Cardinality(window) \in 0..MaxRead
  <2>1. CASE sync.read + Cardinality(fresh) < MaxRead
    BY <2>1, <1>1, <1>5, <1>10
  <2>2. CASE ~(sync.read + Cardinality(fresh) < MaxRead)
    BY <2>2, <1>1, <1>2, <1>4, <1>5, <1>8, <1>10
  <2> QED
    BY <2>1, <2>2
<1> QED
  BY <1>4, <1>6, <1>7, <1>9, <1>11, <1>12

LEMMA ReadsKeep ==
    ASSUME Inv, sync.pc = "entry", sync.todo # <<>>, sync.read < MaxRead, SyncReads,
           UNCHANGED <<Discord, state, queue, current, FullStore, base>>
    PROVE  Inv'
<1>1. E \in Entries /\ R \in Row /\ HasCurrent(E) /\ R.cursor \in current[E]
  BY EntryAt DEF SyncReads, NeedsRebuild, Inv, SlotOwns, HasCurrent
<1>2. PICK fresh \in {Fetched(Newer)} : \E w \in {Window(fresh)}, s \in {NextScan(current[E], R.scan)} :
        IF fresh \cup w = {}
        THEN Quiet(s)
        ELSE sync' = [sync EXCEPT !.pc = "merge", !.new = fresh, !.again = w, !.plan = s,
                      !.read = @ + Cardinality(fresh) + Cardinality(w), !.terminal = Terminal(Newer)]
  BY DEF SyncReads
<1>3. PICK w \in {Window(fresh)}, s \in {NextScan(current[E], R.scan)} :
        IF fresh \cup w = {}
        THEN Quiet(s)
        ELSE sync' = [sync EXCEPT !.pc = "merge", !.new = fresh, !.again = w, !.plan = s,
                      !.read = @ + Cardinality(fresh) + Cardinality(w), !.terminal = Terminal(Newer)]
  BY <1>2
<1>4. /\ fresh \in Ids /\ Follows(fresh, R.cursor, E)
      /\ w \in Ids /\ w \subseteq current[E]
      /\ s \in 0..MaxMsg
      /\ s \in w \cup deleted[E] \/ (fresh # {} /\ sync.read + Cardinality(fresh) + Cardinality(w) = MaxRead)
      /\ sync.read + Cardinality(fresh) + Cardinality(w) \in 0..MaxRead
  BY <1>1, <1>2, <1>3, ReadsOf
<1>5. CASE fresh \cup w = {}
  <2>1. Quiet(s) /\ s \in deleted[E]
    BY <1>3, <1>4, <1>5
  <2> QED
    BY <1>4, <2>1, QuietKeeps
<1>6. CASE fresh \cup w # {}
  <2> DEFINE read == sync.read + Cardinality(fresh) + Cardinality(w)
             last == Terminal(Newer)
  <2>1. sync' = [sync EXCEPT !.pc = "merge", !.new = fresh, !.again = w, !.plan = s, !.read = read, !.terminal = last]
    BY <1>3, <1>6
  <2>2. last \in BOOLEAN /\ read \in 0..MaxRead /\ sync \in SyncState
    BY <1>4 DEF Terminal, Inv, Types
  <2> HIDE DEF read, last
  <2>3. /\ sync' \in SyncState /\ sync'.pc = "merge" /\ sync'.new = fresh /\ sync'.again = w /\ sync'.plan = s
        /\ sync'.read = read /\ sync'.todo = sync.todo /\ sync'.rows = sync.rows /\ sync'.items = sync.items
    BY <1>4, <2>1, <2>2 DEF SyncState
  <2>4. E' = E /\ R' = R
    BY <2>3 DEF E, R
  <2>5. ServerTypes' /\ StoreTypes' /\ base' \in BaseState /\ StoresWhole' /\ PassKnown'
    BY StoresKeep DEF Inv, Types, StoreTypes, FullStore
  <2>6. LedgerTypes' /\ RetryOwned' /\ OneWriter'
    BY DEF Inv, Types, LedgerTypes, RetryOwned, OneWriter
  <2>7. SlotOwns'
    BY <2>3 DEF Inv, SlotOwns, Owned
  <2>8. SlotReads'
    BY <1>1, <1>4, <2>3, <2>4 DEF SlotReads, Follows, Discord
  <2>9. SlotScans'
    <3>1. sync'.rows = state'
      BY <2>3 DEF Inv, SlotScans
    <3>2. s \in w \cup deleted[E] \/ (fresh # {} /\ read = MaxRead)
      BY <1>4 DEF read
    <3>3. ScanSeen(sync.plan, E)'
      BY <2>3, <2>4, <3>2 DEF ScanSeen, Spent, Discord
    <3> QED
      BY <2>3, <3>1, <3>3 DEF SlotScans
  <2> QED
    BY <2>3, <2>5, <2>6, <2>7, <2>8, <2>9 DEF Inv, Types
<1> QED
  BY <1>5, <1>6

LEMMA EntryKeeps == ASSUME Inv, SyncEntry PROVE Inv'
<1>1. sync.pc = "entry" /\ sync.todo # <<>> /\ sync.read < MaxRead
  BY DEF SyncEntry, SyncOpen
<1>2. UNCHANGED <<Discord, state, queue, current, FullStore, base>>
  BY DEF SyncEntry
<1>3. CASE SyncRebuild
  BY <1>1, <1>2, <1>3, RebuildKeeps
<1>4. CASE SyncEmptyHead
  <2>1. R.scan \in 0..MaxMsg
    BY <1>1, EntryAt DEF Row
  <2>2. Quiet(R.scan)
    BY <1>4 DEF SyncEmptyHead
  <2> QED
    BY <1>1, <1>2, <2>1, <2>2, QuietKeeps
<1>5. CASE SyncReads
  BY <1>1, <1>2, <1>5, ReadsKeep
<1>6. CASE SyncReadFails
  BY <1>1, <1>2, <1>6, RetryKeeps DEF SyncReadFails
<1> QED
  BY <1>3, <1>4, <1>5, <1>6 DEF SyncEntry

\* The merge adds what was read to a CURRENT that holds the cursor: no
\* message between them was left out.
LEMMA MergeKeeps == ASSUME Inv, SyncMerge PROVE Inv'
<1>1. sync.pc = "merge" /\ sync.todo # <<>> /\ sync.todo \in Seq(Entries) /\ sync \in SyncState
  BY DEF SyncMerge, Inv, Types, SyncState, SlotOwns
<1>2. E \in Entries /\ E \in Range(sync.todo)
  BY <1>1, EntryAt
<1>3. /\ sync' \in SyncState /\ sync'.pc = "grant" /\ sync'.todo = sync.todo /\ sync'.rows = sync.rows
      /\ sync'.items = sync.items /\ sync'.new = sync.new /\ sync'.again = sync.again /\ sync'.plan = sync.plan
      /\ sync'.read = sync.read
  BY <1>1 DEF SyncMerge, SyncState
<1>4. current[E] \in Ids /\ sync.new \in Ids /\ Whole(current[E], E)
  BY <1>1, <1>2 DEF Inv, Types, SyncState, StoreTypes, StoresWhole, SlotOwns
<1>5. R.cursor \in current[E] /\ Follows(sync.new, R.cursor, E) /\ sync.again \subseteq current[E]
  BY <1>1 DEF Inv, SlotReads
<1>6. PICK merged \in Ids : merged = Merged
  BY <1>4, <1>5 DEF Merged, Ids
<1>7. merged = current[E] \cup sync.new
  BY <1>5, <1>6 DEF Merged
<1>8. Whole(merged, E)
  <2>1. ASSUME NEW m \in current[E] PROVE m \in 1..posted[E] /\ \A k \in 1..m : k \in merged \cup deleted[E]
    BY <1>4, <1>7 DEF Whole
  <2>2. ASSUME NEW m \in sync.new PROVE m \in 1..posted[E] /\ \A k \in 1..m : k \in merged \cup deleted[E]
    <3>1. m \in 1..posted[E] /\ \A k \in 1..m : k > R.cursor => k \in sync.new \cup deleted[E]
      BY <1>5 DEF Follows
    <3>2. R.cursor \in Nat /\ \A k \in 1..R.cursor : k \in current[E] \cup deleted[E]
      BY <1>4, <1>5, SizesAssumption DEF Whole, Ids, Msgs
    <3>3. \A k \in 1..m : k > R.cursor \/ k \in 1..R.cursor
      BY <3>2
    <3> QED
      BY <1>7, <3>1, <3>2, <3>3
  <2> QED
    BY <1>7, <2>1, <2>2 DEF Whole
<1>9. current' = [current EXCEPT ![E] = merged] /\ merged # None
  BY <1>6, SizesAssumption DEF SyncMerge, Ids, Msgs
<1>10. UNCHANGED <<Discord, state, queue, stage, sealed, root, base>> /\ run' \in {"absent", "empty", "evidence", "drifted"}
  BY DriftsKeeps DEF SyncMerge, Inv, Types, StoreTypes
<1>11. current' \in [Entries -> Ids \cup {None}] /\ \A e \in Entries : current'[e] = IF e = E THEN merged ELSE current[e]
  BY <1>2, <1>9 DEF Inv, Types, StoreTypes
<1>12. Types'
  BY <1>3, <1>10, <1>11 DEF Inv, Types, ServerTypes, StoreTypes, LedgerTypes, Discord
<1>13. StoresWhole'
  <2>1. ASSUME NEW e \in Entries, current'[e] # None PROVE Whole(current[e], e)'
    <3>1. CASE e = E
      BY <1>8, <1>10, <1>11, <3>1 DEF Whole, Discord
    <3>2. CASE e # E
      BY <1>10, <1>11, <2>1, <3>2 DEF Inv, StoresWhole, Whole, Discord
    <3> QED
      BY <3>1, <3>2
  <2> QED
    BY <1>10, <2>1 DEF Inv, StoresWhole, Whole, Discord
<1>14. RetryOwned' /\ OneWriter'
  BY <1>1, <1>10 DEF Inv, RetryOwned, OneWriter
<1>15. SlotOwns'
  <2>1. \A e \in Range(sync.todo) : e \in Entries /\ current[e] # None
    BY <1>1, RangeOfSeq DEF Inv, SlotOwns
  <2>2. \A e \in Range(sync.todo) : current'[e] # None
    BY <1>9, <1>11, <2>1
  <2>3. /\ sync.rows \in [Entries -> Row] /\ Owned(sync.rows, sync.items) /\ \A e \in Entries : queue[e] # None => sync.items[e] # None
    BY <1>1 DEF Inv, SlotOwns
  <2> QED
    BY <1>1, <1>3, <1>10, <2>2, <2>3 DEF SlotOwns, Owned
<1>16. SlotReads'
  BY <1>3 DEF SlotReads
<1>17. SlotScans'
  <2>1. sync.rows = state /\ ScanSeen(sync.plan, E)
    BY <1>1 DEF Inv, SlotScans
  <2>2. ScanSeen(sync.plan, E)'
    BY <1>3, <1>10, <2>1 DEF ScanSeen, Spent, E, Discord
  <2> QED
    BY <1>3, <1>10, <2>1, <2>2 DEF SlotScans
<1>18. PassKnown'
  BY <1>10 DEF Inv, PassKnown, Whole, Covers, B, Discord
<1> QED
  BY <1>12, <1>13, <1>14, <1>15, <1>16, <1>17, <1>18 DEF Inv

LEMMA MergeFailsKeeps == ASSUME Inv, SyncMergeFails PROVE Inv'
<1>1. sync.todo # <<>>
  BY DEF SyncMergeFails, Inv, SlotOwns
<1> QED
  BY <1>1, RetryKeeps DEF SyncMergeFails

\* A grant for what was merged; a read that stopped short leaves an item.
LEMMA GrantKeeps == ASSUME Inv, SyncGrant PROVE Inv'
<1>1. sync.pc = "grant" /\ sync.todo # <<>> /\ sync \in SyncState
  BY DEF SyncGrant, Inv, Types, SlotOwns
<1>2. E \in Entries /\ R \in Row
  BY <1>1, EntryAt
<1>3. PICK row : row = Granted(SafeCursor, sync.plan, ~sync.terminal)
  OBVIOUS
<1>4. SafeCursor \in 0..MaxMsg
  <2>1. sync.new # {} => Max(sync.new) \in Msgs
    BY <1>1, SomeMessages DEF SyncState, Ids
  <2> QED
    BY <1>2, <2>1, SizesAssumption DEF SafeCursor, Row, Msgs
<1>5. row \in Row /\ row.scan = sync.plan /\ (row.status # "healthy" => ~sync.terminal)
  BY <1>1, <1>2, <1>3, <1>4, GrantedRow DEF SyncState
<1>6. PICK item \in Reasons \cup {None} : item = ItemAfter
  BY <1>1, <1>2 DEF SyncState, ItemAfter, Reasons
<1>7. (row.status # "healthy" => item # None) /\ (sync.items[E] # None => item # None)
  BY <1>5, <1>6, SizesAssumption DEF ItemAfter, Reasons
<1>8. sync' = [sync EXCEPT !.rows = [sync.rows EXCEPT ![E] = row], !.items = [sync.items EXCEPT ![E] = item],
                           !.writes = sync.writes + 1, !.pc = "queue"]
  BY <1>1, <1>3, <1>6 DEF SyncGrant, SavedFirst, SyncState
<1>9. [sync.rows EXCEPT ![E] = row] \in [Entries -> Row \cup {None}]
      /\ [sync.items EXCEPT ![E] = item] \in [Entries -> Reasons \cup {None}]
  BY <1>1, <1>5 DEF SyncState
<1>10. Remembers(row, item) /\ sync'.read = sync.read
  <2>1. sync.writes + 1 \in Nat
    BY <1>1 DEF SyncState
  <2> DEFINE rows == [sync.rows EXCEPT ![E] = row]
             items == [sync.items EXCEPT ![E] = item]
             writes == sync.writes + 1
  <2>2. sync' = [sync EXCEPT !.rows = rows, !.items = items, !.writes = writes, !.pc = "queue"]
    BY <1>8
  <2>3. rows \in [Entries -> Row \cup {None}] /\ items \in [Entries -> Reasons \cup {None}] /\ writes \in Nat
    BY <1>9, <2>1
  <2> HIDE DEF rows, items, writes
  <2>4. sync' \in SyncState
    BY <1>1, <2>2, <2>3 DEF SyncState
  <2>5. /\ sync'.rows = rows /\ sync'.items = items /\ sync'.pc = "queue" /\ sync'.todo = sync.todo
        /\ sync'.new = sync.new /\ sync'.again = sync.again /\ sync'.read = sync.read
    BY <1>1, <2>2 DEF SyncState
  <2> QED
    BY <2>4, <2>5 DEF Remembers, rows, items
<1>11. row.scan \in sync.again \cup deleted[E] \/ (sync.new # {} /\ sync'.read = MaxRead)
  BY <1>1, <1>5, <1>10 DEF Inv, SlotScans, ScanSeen, Spent
<1>12. UNCHANGED <<Discord, state, queue, current, FullStore, base>>
  BY DEF SyncGrant
<1> QED
  BY <1>1, <1>5, <1>7, <1>10, <1>11, <1>12, RememberedKeeps

\* The two saves: the queue owns the entry before the state says so.
LEMMA SaveQueueKeeps == ASSUME Inv, SyncSaveQueue PROVE Inv'
<1>1. sync.pc = "queue" /\ sync \in SyncState
  BY DEF SyncSaveQueue, Inv, Types
<1>2. /\ sync' \in SyncState /\ sync'.pc = "state" /\ sync'.todo = sync.todo /\ sync'.rows = sync.rows
      /\ sync'.items = sync.items /\ sync'.new = sync.new /\ sync'.again = sync.again /\ sync'.read = sync.read
  BY <1>1 DEF SyncSaveQueue, AfterSave, SavedFirst, SyncState
<1>3. queue' = sync.items /\ queue' \in [Entries -> Reasons \cup {None}]
  BY <1>1 DEF SyncSaveQueue, SyncState
<1>4. UNCHANGED <<Discord, state, current, stage, sealed, root, base>> /\ run' \in {"absent", "empty", "evidence", "drifted"}
  BY DriftsKeeps DEF SyncSaveQueue, Inv, Types, StoreTypes
<1>5. ServerTypes' /\ StoreTypes' /\ base' \in BaseState /\ StoresWhole' /\ PassKnown'
  BY <1>4, StoresKeep
<1>6. LedgerTypes' /\ OneWriter'
  BY <1>1, <1>3, <1>4 DEF Inv, Types, LedgerTypes, OneWriter
<1>7. RetryOwned'
  BY <1>1, <1>3, <1>4 DEF Inv, RetryOwned, SlotOwns
<1>8. SlotOwns'
  <2>1. /\ sync.rows \in [Entries -> Row] /\ Owned(sync.rows, sync.items) /\ sync.todo # <<>>
        /\ \A e \in Range(sync.todo) : current[e] # None
    BY <1>1 DEF Inv, SlotOwns
  <2> QED
    BY <1>2, <1>3, <1>4, <2>1 DEF SlotOwns, Owned
<1>9. SlotReads' /\ SlotScans'
  BY <1>1, <1>2, <1>4 DEF Inv, SlotReads, SlotScans, ScanSeen, Spent, Discord
<1> QED
  BY <1>2, <1>5, <1>6, <1>7, <1>8, <1>9 DEF Inv, Types

LEMMA SaveStateKeeps == ASSUME Inv, SyncSaveState PROVE Inv'
<1>1. sync.pc = "state" /\ sync \in SyncState /\ sync.todo # <<>> /\ sync.todo \in Seq(Entries)
  BY DEF SyncSaveState, Inv, Types, SyncState, SlotOwns
<1>2. PICK todo \in Seq(Entries) : todo = (IF sync.raise THEN <<>> ELSE Tail(sync.todo)) /\ Range(todo) \subseteq Range(sync.todo)
  <2>1. Tail(sync.todo) \in Seq(Entries) /\ Range(Tail(sync.todo)) \subseteq Range(sync.todo)
    BY <1>1, HeadOfSome
  <2>2. <<>> \in Seq(Entries) /\ Range(<<>>) = {}
    BY DEF Range
  <2> QED
    BY <2>1, <2>2
<1>3. sync' = [sync EXCEPT !.pc = "entry", !.todo = todo, !.new = {}, !.again = {}]
  BY <1>1, <1>2 DEF SyncSaveState, AfterSave, SavedFirst, SyncState
<1>4. {} \in Ids
  BY DEF Ids
<1>5. /\ sync' \in SyncState /\ sync'.pc = "entry" /\ sync'.todo = todo /\ sync'.rows = sync.rows
      /\ sync'.items = sync.items /\ sync'.new = {} /\ sync'.again = {}
  BY <1>1, <1>3, <1>4 DEF SyncState
<1>6. /\ state' = sync.rows /\ sync.rows \in [Entries -> Row] /\ Owned(sync.rows, sync.items) /\ queue = sync.items
      /\ \A e \in Range(sync.todo) : current[e] # None
  BY <1>1 DEF SyncSaveState, Inv, SlotOwns
<1>7. UNCHANGED <<Discord, queue, current, stage, sealed, root, base>> /\ run' \in {"absent", "empty", "evidence", "drifted"}
  BY DriftsKeeps DEF SyncSaveState, Inv, Types, StoreTypes
<1>8. ServerTypes' /\ StoreTypes' /\ base' \in BaseState /\ StoresWhole' /\ PassKnown'
  BY <1>7, StoresKeep
<1>9. LedgerTypes' /\ OneWriter' /\ RetryOwned'
  <2>1. LedgerTypes'
    BY <1>6, <1>7 DEF Inv, Types, LedgerTypes
  <2>2. OneWriter'
    BY <1>1, <1>7 DEF Inv, OneWriter
  <2>3. RetryOwned'
    BY <1>6, <1>7 DEF RetryOwned, Owned
  <2> QED
    BY <2>1, <2>2, <2>3
<1>10. SlotOwns'
  BY <1>2, <1>5, <1>6, <1>7 DEF SlotOwns, Owned
<1>11. SlotReads' /\ SlotScans'
  BY <1>5, <1>6 DEF SlotReads, SlotScans
<1> QED
  BY <1>5, <1>8, <1>9, <1>10, <1>11 DEF Inv, Types

LEMMA SyncKeeps == ASSUME Inv, Sync \/ SyncMergeFails \/ SyncKilled PROVE Inv'
<1>1. CASE SyncEnd \/ SyncKilled
  BY <1>1, StopKeeps DEF SyncEnd, SyncKilled
<1> QED
  BY <1>1, StartKeeps, EntryKeeps, MergeKeeps, MergeFailsKeeps, GrantKeeps, SaveQueueKeeps, SaveStateKeeps DEF Sync

-----------------------------------------------------------------------------
\* A baseline at work is alone; one that only reads touches no ledger.
LEMMA BaseFrame ==
    ASSUME Inv, UNCHANGED <<Discord, state, queue, sync>>, sync.pc = "idle" \/ current' = current,
           StoreTypes', base' \in BaseState, StoresWhole', PassKnown', OneWriter'
    PROVE  Inv'
<1>1. Types'
  BY DEF Inv, Types, ServerTypes, LedgerTypes, Discord
<1>2. RetryOwned'
  BY DEF Inv, RetryOwned
<1>3. CASE sync.pc = "idle"
  BY <1>1, <1>2, <1>3 DEF Inv, SlotOwns, SlotReads, SlotScans
<1>4. CASE current' = current
  <2>1. SlotOwns'
    BY <1>4 DEF Inv, SlotOwns, Owned
  <2>2. SlotReads'
    BY <1>4 DEF Inv, SlotReads, Follows, E, R, Discord
  <2>3. SlotScans'
    BY DEF Inv, SlotScans, ScanSeen, Spent, E, Discord
  <2> QED
    BY <1>1, <1>2, <2>1, <2>2, <2>3 DEF Inv
<1> QED
  BY <1>3, <1>4

\* A new place, with the stores as they were.
LEMMA SitKeeps ==
    ASSUME Inv, UNCHANGED <<Discord, state, queue, current, stage, sealed, sync>>, StoreTypes',
           NEW pc \in {"idle", "lock", "evidence", "entry", "built", "install", "seal", "compat", "blocked"},
           NEW todo \in Seq(Entries), NEW live \in Ids,
           base' = [base EXCEPT !.pc = pc, !.todo = todo, !.live = live],
           pc # "idle" => base.pc # "idle",
           sync.pc = "idle" \/ pc = "idle",
           pc \in {"built", "install", "seal"} => todo # <<>> /\ Whole(live, Head(todo)) /\ Covers(live, Head(todo)),
           pc \in {"install", "seal"} => stage[Head(todo)] \in Staged /\ stage[Head(todo)].ids = live,
           pc \in {"entry", "built", "install", "seal"} =>
             \A e \in Entries : e \in Range(todo) \/ (sealed[e] # None /\ Covers(sealed[e], e))
    PROVE  Inv'
<1>1. base \in BaseState
  BY DEF Inv, Types
<1>2. base' \in BaseState /\ base'.pc = pc /\ base'.todo = todo /\ base'.live = live /\ base'.since = base.since
  BY <1>1 DEF BaseState
<1>3. StoresWhole'
  BY DEF Inv, StoresWhole, Whole, Discord
<1>4. OneWriter'
  BY <1>2 DEF OneWriter
<1>5. PassKnown'
  <2>1. pc # "idle" => base.since \in [Entries -> 0..MaxMsg] /\ \A e \in Entries : base.since[e] <= posted[e]
    BY DEF Inv, PassKnown
  <2>2. B' = Head(todo) /\ posted' = posted /\ deleted' = deleted /\ stage' = stage /\ sealed' = sealed
    BY <1>2 DEF B, Discord
  <2>3. \A ids, e : Covers(ids, e) => 1..base'.since[e] \subseteq ids \cup deleted'[e]
    BY <1>2, <2>2 DEF Covers
  <2>4. \A ids, e : Whole(ids, e) => Whole(ids, e)'
    BY <2>2 DEF Whole
  <2> QED
    BY <1>2, <2>1, <2>2, <2>3, <2>4 DEF PassKnown, Covers, Whole
<1> QED
  BY <1>2, <1>3, <1>4, <1>5, BaseFrame

\* The entry a baseline is at.
LEMMA BaseAt ==
    ASSUME Inv, base.todo # <<>>
    PROVE  /\ B \in Entries /\ base.todo \in Seq(Entries) /\ Tail(base.todo) \in Seq(Entries)
           /\ \A e \in Range(base.todo) : e = B \/ e \in Range(Tail(base.todo))
<1>1. base.todo \in Seq(Entries)
  BY DEF Inv, Types, BaseState
<1> QED
  BY <1>1, HeadOfSome DEF B

LEMMA BaseReadKeeps == ASSUME Inv, BaseRead PROVE Inv'
<1>1. base' = [pc |-> "lock", todo |-> <<>>, live |-> {}, since |-> posted]
  BY DEF BaseRead, IdleBase
<1>2. posted \in [Entries -> 0..MaxMsg] /\ <<>> \in Seq(Entries) /\ {} \in Ids
  BY DEF Inv, Types, ServerTypes, Ids
<1>3. posted \in [Entries -> (0..MaxMsg) \cup {None}]
  BY <1>2
<1>4. base' \in BaseState
  BY <1>1, <1>2, <1>3 DEF BaseState
<1>5. UNCHANGED <<Discord, state, queue, current, sync>>
  BY DEF BaseRead
<1>6. StoreTypes' /\ StoresWhole'
  <2>1. CASE UNCHANGED FullStore
    BY <1>5, <2>1 DEF Inv, Types, StoreTypes, StoresWhole, Whole, FullStore, Discord
  <2>2. CASE run' = "absent" /\ stage' = Nowhere /\ sealed' = Nowhere /\ UNCHANGED root
    <3>1. StoreTypes'
      BY <1>5, <2>2 DEF Inv, Types, StoreTypes, Nowhere
    <3>2. \A e \in Entries : stage'[e] = None /\ sealed'[e] = None
      BY <2>2 DEF Nowhere
    <3>3. StoresWhole'
      BY <1>5, <3>2 DEF Inv, StoresWhole, Whole, Discord
    <3> QED
      BY <3>1, <3>3
  <2> QED
    BY <2>1, <2>2 DEF BaseRead
<1>7. PassKnown'
  <2>1. \A e \in Entries : posted[e] \in Nat
    BY <1>2, SizesAssumption
  <2>2. posted' = posted
    BY <1>5 DEF Discord
  <2> QED
    BY <1>1, <1>2, <2>1, <2>2 DEF PassKnown
<1>8. OneWriter'
  BY <1>1 DEF OneWriter
<1> QED
  BY <1>4, <1>5, <1>6, <1>7, <1>8, BaseFrame

LEMMA BaseLockKeeps == ASSUME Inv, BaseLock PROVE Inv'
<1>1. base.pc = "lock" /\ UNCHANGED <<Discord, state, queue, current, stage, sealed, root, sync>>
  BY DEF BaseLock
<1>2. StoreTypes'
  BY DEF BaseLock, Inv, Types, StoreTypes
<1>3. base \in BaseState /\ base.todo \in Seq(Entries) /\ base.live \in Ids
  BY DEF Inv, Types, BaseState
<1>4. SetToSeq(Entries) \in Seq(Entries) /\ Range(SetToSeq(Entries)) = Entries
  BY AllListed
<1>5. CASE ~LockFree /\ Sitting("idle")
  <2>1. base' = [base EXCEPT !.pc = "idle", !.todo = base.todo, !.live = base.live]
    BY <1>3, <1>5 DEF Sitting, BaseState
  <2> QED
    BY <1>1, <1>2, <1>3, <2>1, SitKeeps
<1>6. ASSUME LockFree, NEW pc \in {"evidence", "blocked"}, Sitting(pc) PROVE Inv'
  <2>1. base' = [base EXCEPT !.pc = pc, !.todo = base.todo, !.live = base.live]
    BY <1>3, <1>6 DEF Sitting, BaseState
  <2>2. sync.pc = "idle" /\ base.pc # "idle"
    BY <1>1, <1>6 DEF LockFree
  <2>3. pc \notin {"built", "install", "seal", "entry"}
    BY <1>6
  <2> QED
    BY <1>1, <1>2, <1>3, <2>1, <2>2, <2>3, SitKeeps
<1>7. ASSUME LockFree, NEW pc \in {"compat", "entry"}, base' = [base EXCEPT !.pc = pc, !.todo = SetToSeq(Entries)]
      PROVE  Inv'
  <2>1. base' = [base EXCEPT !.pc = pc, !.todo = SetToSeq(Entries), !.live = base.live]
    BY <1>3, <1>7 DEF BaseState
  <2>2. sync.pc = "idle" /\ base.pc # "idle"
    BY <1>1, <1>7 DEF LockFree
  <2>3. pc \notin {"built", "install", "seal"}
    BY <1>7
  <2> QED
    BY <1>1, <1>2, <1>3, <1>4, <2>1, <2>2, <2>3, SitKeeps
<1> QED
  BY <1>5, <1>6, <1>7 DEF BaseLock

LEMMA BaseEvidenceKeeps == ASSUME Inv, BaseEvidence PROVE Inv'
<1>1. base.pc = "evidence" /\ UNCHANGED <<Discord, state, queue, current, stage, sealed, root, sync>> /\ StoreTypes'
  BY DEF BaseEvidence, Inv, Types, StoreTypes
<1>2. base \in BaseState /\ base.live \in Ids /\ sync.pc = "idle"
  BY <1>1 DEF Inv, Types, BaseState, OneWriter
<1>3. base' = [base EXCEPT !.pc = "entry", !.todo = SetToSeq(Entries), !.live = base.live]
  BY <1>2 DEF BaseEvidence, BaseState
<1> QED
  BY <1>1, <1>2, <1>3, AllListed, SitKeeps

\* The whole history, read now, holds what was posted when the attempt began.
LEMMA BaseCollectKeeps == ASSUME Inv, BaseCollect PROVE Inv'
<1>1. /\ base.pc = "entry" /\ base.todo # <<>> /\ UNCHANGED <<Discord, state, queue, current, stage, sealed, root, sync>>
      /\ StoreTypes' /\ sync.pc = "idle"
  BY DEF BaseCollect, FullStore, Inv, Types, StoreTypes, OneWriter
<1>2. B \in Entries /\ base \in BaseState /\ base.todo \in Seq(Entries)
  BY <1>1, BaseAt DEF Inv, Types
<1>3. PICK live \in Ids : live = Visible(B)
  <2>1. posted[B] \in 0..MaxMsg /\ MaxMsg \in Nat
    BY <1>2, SizesAssumption DEF Inv, Types, ServerTypes
  <2>2. \A m \in 1..posted[B] : m \in 1..MaxMsg
    BY <2>1
  <2>3. Visible(B) \in Ids
    BY <2>2 DEF Visible, Ids, Msgs
  <2> QED
    BY <2>3
<1>4. base' = [base EXCEPT !.pc = "built", !.todo = base.todo, !.live = live]
  BY <1>2, <1>3 DEF BaseCollect, BaseState
<1>5. posted[B] \in Nat /\ base.since[B] \in Nat /\ base.since[B] <= posted[B]
  BY <1>1, <1>2, SizesAssumption DEF Inv, Types, ServerTypes, PassKnown
<1>6. Whole(live, B) /\ Covers(live, B)
  <2>1. \A m \in live : m \in 1..posted[B] /\ \A k \in 1..m : k \in live \cup deleted[B]
    BY <1>3, <1>5 DEF Visible
  <2>2. \A k \in 1..base.since[B] : k \in live \cup deleted[B]
    BY <1>3, <1>5 DEF Visible
  <2> QED
    BY <2>1, <2>2 DEF Whole, Covers
<1>7. \A e \in Entries : e \in Range(base.todo) \/ (sealed[e] # None /\ Covers(sealed[e], e))
  BY <1>1 DEF Inv, PassKnown
<1>8. Whole(live, Head(base.todo)) /\ Covers(live, Head(base.todo))
  BY <1>6 DEF B
<1> QED
  BY <1>1, <1>2, <1>4, <1>7, <1>8, SitKeeps

\* An entry an earlier attempt left is done when it holds the fresh read.
LEMMA BaseReuseKeeps == ASSUME Inv, BaseReuse PROVE Inv'
<1>1. /\ base.pc = "built" /\ base.todo # <<>> /\ UNCHANGED <<Discord, state, queue, current, stage, sealed, root, sync>>
      /\ StoreTypes' /\ sync.pc = "idle" /\ base.live \in Ids /\ base \in BaseState
  BY DEF BaseReuse, FullStore, Inv, Types, BaseState, StoreTypes, OneWriter, PassKnown
<1>2. /\ B \in Entries /\ base.todo \in Seq(Entries) /\ Tail(base.todo) \in Seq(Entries)
      /\ \A e \in Range(base.todo) : e = B \/ e \in Range(Tail(base.todo))
  BY <1>1, BaseAt
<1>3. /\ Whole(base.live, B) /\ Covers(base.live, B)
      /\ \A e \in Entries : e \in Range(base.todo) \/ (sealed[e] # None /\ Covers(sealed[e], e))
  BY <1>1 DEF Inv, PassKnown
<1>4. CASE Sitting("blocked")
  <2>1. base' = [base EXCEPT !.pc = "blocked", !.todo = base.todo, !.live = base.live]
    BY <1>1, <1>4 DEF Sitting, BaseState
  <2> QED
    BY <1>1, <1>2, <2>1, SitKeeps
<1>5. CASE Reusable /\ sealed[B] = None /\ Sitting("install")
  <2>1. base' = [base EXCEPT !.pc = "install", !.todo = base.todo, !.live = base.live]
    BY <1>1, <1>5 DEF Sitting, BaseState
  <2>2. stage[B] = [ids |-> base.live, manifest |-> FALSE]
    BY <1>5 DEF Reusable
  <2>3. stage[B] \in Staged /\ stage[B].ids = base.live
    BY <1>1, <2>2 DEF Staged
  <2>4. B = Head(base.todo)
    BY DEF B
  <2>5. stage[Head(base.todo)] \in Staged /\ stage[Head(base.todo)].ids = base.live
        /\ Whole(base.live, Head(base.todo)) /\ Covers(base.live, Head(base.todo))
    BY <1>3, <2>3, <2>4
  <2> QED
    BY <1>1, <1>2, <1>3, <2>1, <2>5, SitKeeps
<1>6. CASE Reusable /\ sealed[B] # None /\ base' = [base EXCEPT !.pc = "entry", !.todo = Tail(@)]
  <2>1. base' = [base EXCEPT !.pc = "entry", !.todo = Tail(base.todo), !.live = base.live]
    BY <1>1, <1>6 DEF BaseState
  <2>2. sealed[B] # None /\ Covers(sealed[B], B)
    BY <1>3, <1>6 DEF Reusable
  <2>3. \A e \in Entries : e \in Range(Tail(base.todo)) \/ (sealed[e] # None /\ Covers(sealed[e], e))
    BY <1>2, <1>3, <2>2
  <2> QED
    BY <1>1, <1>2, <2>1, <2>3, SitKeeps
<1> QED
  BY <1>4, <1>5, <1>6 DEF BaseReuse

LEMMA BaseMaterializeKeeps == ASSUME Inv, BaseMaterialize PROVE Inv'
<1>1. /\ base.pc = "built" /\ base.todo # <<>> /\ sync.pc = "idle" /\ base.live \in Ids /\ base \in BaseState
      /\ UNCHANGED <<Discord, state, queue, current, sealed, run, root, sync>>
  BY DEF BaseMaterialize, Inv, Types, BaseState, OneWriter, PassKnown
<1>2. B \in Entries
  BY <1>1, BaseAt
<1>3. PICK new : new = [ids |-> base.live, manifest |-> FALSE]
  OBVIOUS
<1>4. new \in Staged /\ new.ids = base.live
  BY <1>1, <1>3 DEF Staged
<1>5. stage' \in [Entries -> Staged \cup {None}] /\ \A e \in Entries : stage'[e] = IF e = B THEN new ELSE stage[e]
  BY <1>2, <1>3, <1>4 DEF BaseMaterialize, Inv, Types, StoreTypes
<1>6. /\ base' \in BaseState /\ base'.pc = "install" /\ base'.todo = base.todo /\ base'.live = base.live
      /\ base'.since = base.since /\ B' = B
  BY <1>1 DEF BaseMaterialize, Sitting, BaseState, B
<1>7. StoreTypes'
  BY <1>1, <1>5 DEF Inv, Types, StoreTypes
<1>8. /\ Whole(base.live, B) /\ Covers(base.live, B)
      /\ base.since \in [Entries -> 0..MaxMsg] /\ (\A e \in Entries : base.since[e] <= posted[e])
      /\ \A e \in Entries : e \in Range(base.todo) \/ (sealed[e] # None /\ Covers(sealed[e], e))
  BY <1>1 DEF Inv, PassKnown
<1>9. StoresWhole'
  <2>1. \A e \in Entries : stage'[e] # None => Whole(stage'[e].ids, e)
    BY <1>4, <1>5, <1>8 DEF Inv, StoresWhole
  <2> QED
    BY <1>1, <2>1 DEF Inv, StoresWhole, Whole, Discord
<1>10. PassKnown'
  <2>1. posted' = posted /\ deleted' = deleted /\ sealed' = sealed
    BY <1>1 DEF Discord
  <2>2. stage'[B] \in Staged /\ stage'[B].ids = base.live
    BY <1>2, <1>4, <1>5
  <2> QED
    BY <1>1, <1>6, <1>8, <2>1, <2>2 DEF PassKnown, Whole, Covers
<1>11. OneWriter'
  BY <1>1 DEF OneWriter
<1> QED
  BY <1>1, <1>6, <1>7, <1>9, <1>10, <1>11, BaseFrame

LEMMA BaseInstallKeeps == ASSUME Inv, BaseInstall PROVE Inv'
<1>1. /\ base.pc = "install" /\ base.todo # <<>> /\ sync.pc = "idle" /\ base \in BaseState
      /\ UNCHANGED <<Discord, state, queue, current, sealed, run, root, sync>>
  BY DEF BaseInstall, Inv, Types, BaseState, OneWriter, PassKnown
<1>2. B \in Entries
  BY <1>1, BaseAt
<1>3. /\ Whole(base.live, B) /\ Covers(base.live, B)
      /\ base.since \in [Entries -> 0..MaxMsg] /\ (\A e \in Entries : base.since[e] <= posted[e])
      /\ stage[B] \in Staged /\ stage[B].ids = base.live
      /\ \A e \in Entries : e \in Range(base.todo) \/ (sealed[e] # None /\ Covers(sealed[e], e))
  BY <1>1 DEF Inv, PassKnown
<1>4. PICK new : new = [stage[B] EXCEPT !.manifest = TRUE]
  OBVIOUS
<1>5. new \in Staged /\ new.ids = base.live
  BY <1>3, <1>4 DEF Staged
<1>6. stage' \in [Entries -> Staged \cup {None}] /\ \A e \in Entries : stage'[e] = IF e = B THEN new ELSE stage[e]
  <2>1. stage' = [stage EXCEPT ![B] = new] /\ stage \in [Entries -> Staged \cup {None}]
    BY <1>2, <1>4 DEF BaseInstall, Inv, Types, StoreTypes
  <2> QED
    BY <1>2, <1>5, <2>1
<1>7. /\ base' \in BaseState /\ base'.pc = "seal" /\ base'.todo = base.todo /\ base'.live = base.live
      /\ base'.since = base.since /\ B' = B
  BY <1>1 DEF BaseInstall, Sitting, BaseState, B
<1>8. StoreTypes'
  BY <1>1, <1>6 DEF Inv, Types, StoreTypes
<1>9. StoresWhole'
  <2>1. \A e \in Entries : stage'[e] # None => Whole(stage'[e].ids, e)
    BY <1>3, <1>5, <1>6 DEF Inv, StoresWhole
  <2> QED
    BY <1>1, <2>1 DEF Inv, StoresWhole, Whole, Discord
<1>10. PassKnown'
  <2>1. posted' = posted /\ deleted' = deleted /\ sealed' = sealed
    BY <1>1 DEF Discord
  <2>2. stage'[B] \in Staged /\ stage'[B].ids = base.live
    BY <1>2, <1>5, <1>6
  <2> QED
    BY <1>1, <1>3, <1>7, <2>1, <2>2 DEF PassKnown, Whole, Covers
<1>11. OneWriter'
  BY <1>1 DEF OneWriter
<1> QED
  BY <1>1, <1>7, <1>8, <1>9, <1>10, <1>11, BaseFrame

LEMMA BaseSealKeeps == ASSUME Inv, BaseSeal PROVE Inv'
<1>1. /\ base.pc = "seal" /\ base.todo # <<>> /\ sync.pc = "idle" /\ base \in BaseState /\ base.live \in Ids
      /\ UNCHANGED <<Discord, state, queue, current, run, root, sync>>
  BY DEF BaseSeal, Inv, Types, BaseState, OneWriter, PassKnown
<1>2. /\ B \in Entries /\ Tail(base.todo) \in Seq(Entries)
      /\ \A e \in Range(base.todo) : e = B \/ e \in Range(Tail(base.todo))
  BY <1>1, BaseAt
<1>3. /\ Whole(base.live, B) /\ Covers(base.live, B)
      /\ base.since \in [Entries -> 0..MaxMsg] /\ (\A e \in Entries : base.since[e] <= posted[e])
      /\ stage[B].ids = base.live
      /\ \A e \in Entries : e \in Range(base.todo) \/ (sealed[e] # None /\ Covers(sealed[e], e))
  BY <1>1 DEF Inv, PassKnown
<1>4. /\ sealed' = [sealed EXCEPT ![B] = base.live] /\ stage' = [stage EXCEPT ![B] = None]
      /\ sealed \in [Entries -> Ids \cup {None}] /\ stage \in [Entries -> Staged \cup {None}]
  BY <1>3 DEF BaseSeal, Inv, Types, StoreTypes
<1>5. /\ sealed' \in [Entries -> Ids \cup {None}] /\ stage' \in [Entries -> Staged \cup {None}]
      /\ \A e \in Entries : sealed'[e] = (IF e = B THEN base.live ELSE sealed[e])
      /\ \A e \in Entries : stage'[e] = (IF e = B THEN None ELSE stage[e])
  BY <1>1, <1>2, <1>4
<1>6. base.live # None
  BY <1>1, SizesAssumption DEF Ids, Msgs
<1>7. /\ base' \in BaseState /\ base'.pc = "entry" /\ base'.todo = Tail(base.todo)
      /\ base'.since = base.since
  BY <1>1, <1>2 DEF BaseSeal, BaseState
<1>8. StoreTypes'
  BY <1>1, <1>5 DEF Inv, Types, StoreTypes
<1>9. StoresWhole'
  <2>1. \A e \in Entries : (stage'[e] # None => Whole(stage'[e].ids, e)) /\ (sealed'[e] # None => Whole(sealed'[e], e))
    BY <1>3, <1>5 DEF Inv, StoresWhole
  <2> QED
    BY <1>1, <2>1 DEF Inv, StoresWhole, Whole, Discord
<1>10. PassKnown'
  <2>1. posted' = posted /\ deleted' = deleted
    BY <1>1 DEF Discord
  <2>2. \A e \in Entries : e \in Range(Tail(base.todo)) \/ (sealed'[e] # None /\ Covers(sealed'[e], e))
    BY <1>2, <1>3, <1>5, <1>6
  <2> QED
    BY <1>3, <1>7, <2>1, <2>2 DEF PassKnown, Covers
<1>11. OneWriter'
  BY <1>1 DEF OneWriter
<1> QED
  BY <1>1, <1>7, <1>8, <1>9, <1>10, <1>11, BaseFrame

LEMMA BaseRootKeeps == ASSUME Inv, BaseRoot PROVE Inv'
<1>1. base.pc = "entry" /\ UNCHANGED <<Discord, state, queue, current, stage, sealed, sync>> /\ StoreTypes'
  BY DEF BaseRoot, Inv, Types, StoreTypes
<1>2. base \in BaseState /\ base.live \in Ids /\ sync.pc = "idle"
  BY <1>1 DEF Inv, Types, BaseState, OneWriter
<1>3. base' = [base EXCEPT !.pc = "compat", !.todo = SetToSeq(Entries), !.live = base.live]
  BY <1>2 DEF BaseRoot, BaseState
<1> QED
  BY <1>1, <1>2, <1>3, AllListed, SitKeeps

LEMMA BaseCompatKeeps == ASSUME Inv, BaseCompat PROVE Inv'
<1>1. /\ base.pc = "compat" /\ base.todo # <<>> /\ sync.pc = "idle" /\ base \in BaseState
      /\ UNCHANGED <<Discord, state, queue, stage, sealed, run, root, sync>>
  BY DEF BaseCompat, FullStore, Inv, Types, OneWriter
<1>2. B \in Entries /\ Tail(base.todo) \in Seq(Entries)
  BY <1>1, BaseAt
<1>3. base' \in BaseState /\ base'.pc = "compat" /\ base'.since = base.since
  BY <1>1, <1>2 DEF BaseCompat, BaseState
<1>4. /\ current' \in [Entries -> Ids \cup {None}]
      /\ \A e \in Entries : current'[e] = IF e = B THEN sealed[B] ELSE current[e]
  BY <1>2 DEF BaseCompat, Inv, Types, StoreTypes
<1>5. StoreTypes'
  BY <1>1, <1>4 DEF Inv, Types, StoreTypes
<1>6. StoresWhole'
  <2>1. \A e \in Entries : current'[e] # None => Whole(current'[e], e)
    BY <1>2, <1>4 DEF Inv, StoresWhole
  <2> QED
    BY <1>1, <2>1 DEF Inv, StoresWhole, Whole, Discord
<1>7. PassKnown' /\ OneWriter'
  BY <1>1, <1>3 DEF Inv, PassKnown, OneWriter, Discord
<1> QED
  BY <1>1, <1>3, <1>5, <1>6, <1>7, BaseFrame

LEMMA BaseStopKeeps ==
    ASSUME Inv, base' = IdleBase, UNCHANGED <<Discord, state, queue, current, FullStore, sync>>
    PROVE  Inv'
<1>1. Nowhere \in [Entries -> (0..MaxMsg) \cup {None}] /\ <<>> \in Seq(Entries) /\ {} \in Ids
  BY DEF Nowhere, Ids
<1>2. base' \in BaseState
  BY <1>1 DEF IdleBase, BaseState
<1>3. StoreTypes' /\ StoresWhole'
  BY DEF Inv, Types, StoreTypes, StoresWhole, Whole, FullStore, Discord
<1>4. PassKnown' /\ OneWriter'
  BY DEF PassKnown, OneWriter, IdleBase
<1> QED
  BY <1>2, <1>3, <1>4, BaseFrame

LEMMA BaseKeeps == ASSUME Inv, BaseRead \/ Base \/ BaseFails PROVE Inv'
<1>1. CASE BaseEnds \/ BaseFails
  BY <1>1, BaseStopKeeps DEF BaseEnds, BaseFails
<1> QED
  BY <1>1, BaseReadKeeps, BaseLockKeeps, BaseEvidenceKeeps, BaseCollectKeeps, BaseReuseKeeps, BaseMaterializeKeeps,
     BaseInstallKeeps, BaseSealKeeps, BaseRootKeeps, BaseCompatKeeps DEF Base

LEMMA NextKeeps == ASSUME Inv, [Next]_vars PROVE Inv'
<1>1. CASE Next
  BY <1>1, SyncKeeps, BaseKeeps, NextDayKeeps, PostKeeps, DeleteKeeps, LegacyKeeps DEF Next
<1>2. CASE UNCHANGED vars
  <2>1. Types' /\ StoresWhole' /\ RetryOwned' /\ OneWriter'
    BY <1>2 DEF vars, Inv, Types, ServerTypes, StoreTypes, LedgerTypes, StoresWhole, Whole, RetryOwned, OneWriter
  <2>2. SlotOwns' /\ SlotReads' /\ SlotScans'
    BY <1>2 DEF vars, Inv, SlotOwns, Owned, SlotReads, Follows, SlotScans, ScanSeen, Spent, E, R
  <2>3. PassKnown'
    BY <1>2 DEF vars, Inv, PassKnown, Whole, Covers, B
  <2> QED
    BY <2>1, <2>2, <2>3 DEF Inv
<1> QED
  BY <1>1, <1>2

LEMMA AlwaysInv == Spec => []Inv
BY InitInv, NextKeeps, PTL DEF Spec

-----------------------------------------------------------------------------
\* Types, and: an entry whose saved state is not healthy has a queue item
\* that owns it, after any save, failure or kill of a daily slot
\* (persist_queue_then_state, _queue_for_rebuild, _queue_for_retry).
THEOREM ArchiveSafe == Spec => []ArchiveInv
<1>1. Inv => ArchiveInv
  <2> SUFFICES ASSUME Inv PROVE ArchiveInv
    OBVIOUS
  <2>1. \A e \in Entries : \A store \in {current, sealed} : store[e] = None \/ store[e] \subseteq 1..posted[e]
    BY DEF Inv, StoresWhole, Whole
  <2>2. \A e \in Entries : stage[e] = None \/ (stage[e].ids \subseteq 1..posted[e] /\ stage[e].manifest \in BOOLEAN)
    BY DEF Inv, Types, StoreTypes, Staged, StoresWhole, Whole
  <2>3. /\ sync.pc \in {"idle", "entry", "merge", "grant", "queue", "state"} /\ sync.read \in 0..MaxRead
        /\ base.pc \in {"idle", "lock", "evidence", "entry", "built", "install", "seal", "compat", "blocked"}
    BY DEF Inv, Types, SyncState, BaseState
  <2> QED
    BY <2>1, <2>2, <2>3 DEF Inv, Types, ServerTypes, StoreTypes, LedgerTypes, ArchiveInv, TypeOK
<1> QED
  BY <1>1, AlwaysInv, PTL

\* CURRENT never has a hole: whatever slots, baselines, deletions and kills
\* came before, below its newest message it misses deleted messages only, so
\* that reading after a cursor it holds loses nothing (fetch_new_messages,
\* merge_incremental, compat republication of a sealed generation).
THEOREM NothingBetween == Spec => []NoHole
<1>1. Inv => NoHole
  <2> SUFFICES ASSUME Inv, NEW e \in Entries, Held(e) # {}, NEW k \in Visible(e), k \in 1..Max(Held(e))
               PROVE  k \in Held(e)
    BY DEF NoHole
  <2>1. current[e] # None /\ Held(e) = current[e] /\ Whole(current[e], e) /\ current[e] \in Ids
    BY DEF Held, Inv, Types, StoreTypes, StoresWhole
  <2>2. Max(current[e]) \in current[e]
    BY <2>1, SomeMessages
  <2>3. k \in current[e] \cup deleted[e]
    BY <2>1, <2>2 DEF Whole
  <2> QED
    BY <2>1, <2>3 DEF Visible
<1> QED
  BY <1>1, AlwaysInv, PTL

\* The root pointer is published only when every entry is sealed with all
\* that was posted before this attempt began, deleted messages excepted,
\* whichever attempt sealed it.
THEOREM RootOverAll == Spec => RootComplete
<1>1. ASSUME Inv, [Next]_vars, root' /\ ~root, NEW e \in Entries
      PROVE  sealed[e] # None /\ 1..base.since[e] \subseteq sealed[e] \cup deleted[e]
  <2>1. root' # root
    BY <1>1
  <2>2. CASE BaseRoot
    <3>1. base.pc = "entry" /\ base.todo = <<>>
      BY <2>2 DEF BaseRoot
    <3>2. e \notin Range(base.todo)
      BY <3>1 DEF Range
    <3> QED
      BY <1>1, <3>1, <3>2 DEF Inv, PassKnown, Covers
  <2>3. CASE BaseRead
    BY <2>1, <2>3 DEF BaseRead, FullStore
  <2>4. CASE Sync \/ SyncMergeFails \/ SyncKilled
    BY <2>1, <2>4 DEF Sync, SyncStart, SyncEntry, SyncMerge, SyncGrant, SyncSaveQueue, SyncSaveState, SyncEnd,
       SyncMergeFails, SyncKilled, FullStore
  <2>5. CASE Base /\ ~BaseRoot
    BY <2>1, <2>5 DEF Base, BaseLock, BaseEvidence, BaseCollect, BaseReuse, BaseMaterialize, BaseInstall, BaseSeal,
       BaseCompat, BaseEnds, FullStore
  <2>6. CASE BaseFails \/ NextDay \/ (\E o \in Entries : Post(o) \/ \E m \in Msgs : Delete(o, m) \/ LegacyMoves(o, m))
    BY <2>1, <2>6 DEF BaseFails, NextDay, Post, Delete, LegacyMoves, FullStore
  <2>7. CASE UNCHANGED vars
    BY <2>1, <2>7 DEF vars
  <2> QED
    BY <1>1, <2>2, <2>3, <2>4, <2>5, <2>6, <2>7 DEF Next
<1>2. Inv /\ [Next]_vars =>
        (root' /\ ~root => \A e \in Entries : sealed[e] # None /\ 1..base.since[e] \subseteq sealed[e] \cup deleted[e])
  BY <1>1
<1> QED
  BY <1>2, AlwaysInv, PTL DEF Spec, RootComplete

\* The mutable scan moves only to a message the slot has read again, to one
\* Discord no longer has, or past one when the new messages used up the read
\* budget (plan_mutable_refresh, fetch_mutable_window, _apply_consumed_grant).
THEOREM ScanOverRead == Spec => ScanHonest
<1>1. ASSUME Inv, [Next]_vars, NEW e \in Entries, state'[e].scan # state[e].scan
      PROVE  state'[e].scan \in sync.again \cup deleted[e] \/ Spent
  <2>1. state' # state
    BY <1>1
  <2>2. CASE SyncSaveState
    BY <1>1, <2>2 DEF SyncSaveState, Inv, SlotScans, ScanSeen
  <2>3. ~NextDay
    <3> SUFFICES ASSUME NextDay PROVE FALSE
      OBVIOUS
    <3> DEFINE age(x) == 1 + Cardinality({state[o].age : o \in {y \in Entries : state[y].age < state[x].age}})
    <3>1. state' = [x \in Entries |-> [state[x] EXCEPT !.age = age(x)]]
      BY DEF NextDay
    <3> HIDE DEF age
    <3> QED
      BY <1>1, <3>1 DEF Inv, Types, LedgerTypes, Row
  <2>4. ASSUME NEW o \in Entries, NEW m \in Msgs, LegacyMoves(o, m) PROVE FALSE
    BY <1>1, <2>4 DEF LegacyMoves, Inv, Types, LedgerTypes, Row
  <2>5. CASE (Sync /\ ~SyncSaveState) \/ SyncMergeFails \/ SyncKilled
    BY <2>1, <2>5 DEF Sync, SyncStart, SyncEntry, SyncMerge, SyncGrant, SyncSaveQueue, SyncEnd, SyncMergeFails, SyncKilled
  <2>6. CASE BaseRead \/ Base \/ BaseFails
    BY <2>1, <2>6 DEF BaseRead, Base, BaseLock, BaseEvidence, BaseCollect, BaseReuse, BaseMaterialize, BaseInstall,
       BaseSeal, BaseRoot, BaseCompat, BaseEnds, BaseFails
  <2>7. CASE \E o \in Entries : Post(o) \/ \E m \in Msgs : Delete(o, m)
    BY <2>1, <2>7 DEF Post, Delete
  <2>8. CASE UNCHANGED vars
    BY <2>1, <2>8 DEF vars
  <2> QED
    BY <1>1, <2>2, <2>3, <2>4, <2>5, <2>6, <2>7, <2>8 DEF Next
<1>2. Inv /\ [Next]_vars =>
        \A e \in Entries : state'[e].scan # state[e].scan => state'[e].scan \in sync.again \cup deleted[e] \/ Spent
  BY <1>1
<1> QED
  BY <1>2, AlwaysInv, PTL DEF Spec, ScanHonest
=============================================================================
