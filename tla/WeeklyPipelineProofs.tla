------------------------ MODULE WeeklyPipelineProofs ------------------------
(***************************************************************************)
(* Proofs about the weekly reconcile beside the backlog worker, for every  *)
(* number of keys and messages, every page size, every bound on the passes *)
(* and whatever damage the archive is found with: what its writes keep,    *)
(* what its evidence holds, and that a green verdict is true.              *)
(***************************************************************************)
EXTENDS WeeklyPipeline, WorkerLemmas

USE StoreAssumption, WorkerAssumption, WeeklyAssumption, DamagedAssumption,
    LedgerAssumption

-----------------------------------------------------------------------------
(* What a run knows while it holds the lock.                               *)

\* Nothing has been read yet.
Unstarted(w) ==
    /\ w.key = 0 /\ w.todo = {} /\ w.errors = {} /\ w.unread = {}
    /\ w.messages = NoIds /\ w.rawIds = NoIds
    /\ w.cutoffs = [k \in Keys |-> NoCutoff]
    /\ w.pass = 0 /\ w.phase = "pass" /\ ~w.copied /\ ~w.ok

\* The first pass is over, and with it the freeze.
Closed(w) ==
    \/ w.pc \in {"evidence", "append", "queue", "done"}
    \/ w.pc = "scan" /\ (w.phase # "pass" \/ w.pass >= 2)

\* Where the run stands: it repairs in the first pass only, and only what was
\* read without errors.
Place(w) ==
    /\ w.pc \in {"load", "lock", "report"} => Unstarted(w)
    /\ w.pc = "scan" => w.pass >= 1
    /\ w.pc \in {"evidence", "append", "queue"} => w.pass = 1 /\ w.errors = {}
    /\ w.pc = "append" => w.copied
    /\ w.pc = "scan" /\ ~Closed(w) => w.errors \subseteq w.unread
    /\ w.key # 0 => w.pc = "scan"
    /\ w.todo \cup w.errors \cup ({w.key} \ {0}) \subseteq Scope(w)
    /\ w.key \notin w.todo
    /\ w.pass <= 2

\* What was read was there to be read, within the cutoffs, which once frozen
\* every channel has.
Bounded(w) ==
    /\ \A k \in Keys :
          /\ w.messages[k] \cup w.rawIds[k] \subseteq 1..posted[k]
          /\ w.messages[k] \cup w.rawIds[k] \subseteq 0..w.cutoffs[k]
          /\ w.rawIds[k] \subseteq RawIds(k)
          /\ w.started[k] <= posted[k]
          /\ w.cutoffs[k] # NoCutoff => w.cutoffs[k] <= posted[k]
    /\ Closed(w) => \A k \in Scope(w) : w.cutoffs[k] # NoCutoff

\* The channels whose whole history the run holds.
ReadKeys(w) ==
    IF w.pc = "scan" THEN Scope(w) \ (w.todo \cup w.errors \cup {w.key})
    ELSE IF w.pc \in {"evidence", "append"} THEN Scope(w)
    ELSE {}

\* Everything of k that Discord has, up to some id and within the cutoff, has
\* been read.
ReadTo(w, k, top) ==
    \A m \in live[k] : m <= top /\ m <= w.cutoffs[k] => m \in w.messages[k]

\* A message of k was not read only if it is past the frozen cutoff or, as
\* long as there is none, newer than the run and than all that was seen.
HistoryRead(w, k) ==
    \A m \in live[k] :
        \/ m \in w.messages[k]
        \/ m > w.cutoffs[k]
        \/ /\ w.cutoffs[k] = NoCutoff
           /\ m > w.started[k]
           /\ \A j \in w.messages[k] \cup w.rawIds[k] : j < m

\* The cutoff of a channel that could be read leaves out nothing that was
\* posted before the run.
ReachesStart(w) ==
    \A k \in Scope(w) \ w.unread :
        \A m \in live[k] : m <= w.started[k] => m <= w.cutoffs[k]

Scanned(w) ==
    /\ w.key # 0 => w.cursor <= posted[w.key] /\ ReadTo(w, w.key, w.cursor)
    /\ \A k \in ReadKeys(w) : HistoryRead(w, k)
    /\ ReachesStart(w)

\* All of k within the cutoff is archived.
Settled(w, k) == \A m \in live[k] : m <= w.cutoffs[k] => m \in RawIds(k)

\* What has been repaired stays repaired, so a second pass finds nothing.
Repairing(w) ==
    /\ w.pc = "append" => \A k \in Scope(w) \ w.todo : Settled(w, k)
    /\ w.pc = "queue" \/ w.pass >= 2 \/ (w.pc = "done" /\ w.ok) =>
          \A k \in Scope(w) : Settled(w, k)
    /\ w.pc = "scan" /\ w.pass >= 2 =>
          \A k \in Scope(w) \ w.todo :
              w.messages[k] \subseteq w.rawIds[k] /\ Within(w, k, RawIds(k)) \subseteq w.rawIds[k]

\* Nothing is written before its evidence, and never outside the scope.
Evidenced(w) ==
    /\ ~w.copied => \A k \in Keys : RawIds(k) = w.before[k]
    /\ \A k \in Scope(w) : w.copied => w.bundle[k] = w.before[k]
    /\ \A k \in Keys \ Scope(w) : RawIds(k) = w.before[k]

RunInv(w) == Place(w) /\ Bounded(w) /\ Scanned(w) /\ Repairing(w) /\ Evidenced(w)

\* Every cursor the weekly run holds or may write.
WeeklyCovered(w, k) ==
    Covered(k, w.entries[k].cursor) /\ Covered(k, w.items[k].cursor)

\* The inductive invariant.
WInv ==
    /\ WorkerSide /\ RawPosted
    /\ WeeklyTypeOK
    /\ lock = "weekly" <=> LocksWeekly(weekly.pc)
    /\ \A k \in Keys \ Damaged : HeldCovered(k) /\ WeeklyCovered(weekly, k)
    /\ ~LocksWeekly(weekly.pc) => Unstarted(weekly)
    /\ LocksWeekly(weekly.pc) => RunInv(weekly)

-----------------------------------------------------------------------------
(* Choices: the first key of a set, the end of a page, the newest id seen. *)

LEMMA FirstOfFacts ==
    ASSUME NEW S \in SUBSET Keys, S # {}
    PROVE  FirstOf(S) \in S
<1>1. \E k \in S : \A j \in S \ {k} : IF k = ReportKey THEN FALSE
                                      ELSE j = ReportKey \/ k < j
  <2>1. CASE S \ {ReportKey} = {}
    <3>1. ReportKey \in S /\ S \ {ReportKey} = {}
      BY <2>1
    <3> QED
      BY <3>1
  <2>2. CASE S \ {ReportKey} # {}
    <3>1. S \ {ReportKey} \in SUBSET Nat
      BY DEF Keys
    <3>2. PICK k \in S \ {ReportKey} : \A j \in S \ {ReportKey} : k <= j
      BY <2>2, <3>1, LeastOf
    <3> QED
      BY <3>1, <3>2
  <2> QED
    BY <2>1, <2>2
<1> QED
  BY <1>1 DEF FirstOf

\* A page is empty only when nothing is left after the cursor.
LEMMA EmptyPage ==
    ASSUME live \in [Keys -> SUBSET Ids], NEW k \in Keys, NEW c \in Cursor,
           Page(k, c, ScanLimit) = {}
    PROVE  \A m \in live[k] : m <= c
<1> DEFINE newer == {m \in live[k] : m > c}
           between(m) == {j \in live[k] : c < j /\ j < m}
<1>1. newer \in SUBSET Nat
  BY DEF Ids
<1>2. CASE newer = {}
  BY <1>2 DEF Ids, Cursor
<1>3. CASE newer # {}
  <2>1. PICK m \in newer : \A j \in newer : m <= j
    BY <1>1, <1>3, LeastOf
  <2>2. between(m) = {}
    BY <1>1, <2>1 DEF Cursor
  <2>3. Cardinality(between(m)) < ScanLimit
    <3> HIDE DEF between
    <3> QED
      BY <2>2, FS_EmptySet
  <2>4. m \in live[k] /\ m > c
    BY <2>1
  <2>5. m \in Page(k, c, ScanLimit)
    BY <2>3, <2>4 DEF Page
  <2> QED
    BY <2>5
<1> QED
  BY <1>2, <1>3

\* The boundary a freeze computes from the ids it has seen.
LEMMA NewestSeen ==
    ASSUME NEW seen \in SUBSET Ids, NEW top,
           top = CHOOSE c \in Cursor : IF seen = {} THEN c = 0 ELSE IsTop(c, seen)
    PROVE  /\ top \in Cursor
           /\ seen \subseteq 0..top
           /\ top \in seen \/ top = 0
<1>1. \E c \in Cursor : IF seen = {} THEN c = 0 ELSE IsTop(c, seen)
  <2>1. CASE seen = {}
    BY <2>1 DEF Cursor
  <2>2. CASE seen # {}
    <3>1. seen \in SUBSET (0..MaxMsg)
      BY DEF Ids
    <3>2. PICK c \in seen : \A j \in seen : j <= c
      BY <2>2, <3>1, GreatestOf
    <3> QED
      BY <2>2, <3>1, <3>2 DEF Cursor, IsTop
  <2> QED
    BY <2>1, <2>2
<1>2. top \in Cursor /\ (IF seen = {} THEN top = 0 ELSE IsTop(top, seen))
  BY <1>1
<1> QED
  BY <1>2 DEF IsTop, Cursor, Ids

LEMMA IdleWeeklyTypes == IdleWeekly \in WeeklyType
<1>1. NoIds \in [Keys -> SUBSET Ids] /\ [k \in Keys |-> NoCutoff] \in [Keys -> 0..NoCutoff]
  BY DEF NoIds, NoCutoff
<1>2. [k \in Keys |-> 0] \in [Keys -> Cursor]
  BY DEF Cursor
<1> QED
  BY <1>1, <1>2, IdleWorkerTypes DEF IdleWeekly, WeeklyType, WeeklyPc, Cursor

-----------------------------------------------------------------------------
(* Steps on the locals of a run that holds the lock.  In these lemmas w is *)
(* the record before the step and v the one after it; Discord and raw      *)
(* stand still.                                                            *)

\* What no step but a repair changes.
Fixed(w, v) ==
    /\ v.entries = w.entries /\ v.items = w.items /\ v.started = w.started
    /\ v.before = w.before /\ v.copied = w.copied /\ v.bundle = w.bundle

LEMMA FixedFacts ==
    ASSUME NEW w, NEW v, Fixed(w, v)
    PROVE  Scope(v) = Scope(w) /\ (Evidenced(w) => Evidenced(v))
BY DEF Fixed, Scope, Evidenced

\* The types the lemmas share.
LEMMA RunTypes ==
    ASSUME StoreTypeOK, LiveBounded, NEW w \in WeeklyType
    PROVE  /\ \A k \in Keys : /\ posted[k] \in Nat /\ posted[k] <= MaxMsg
                              /\ live[k] \subseteq 1..posted[k]
                              /\ RawIds(k) \subseteq Ids
                              /\ w.messages[k] \subseteq Ids
                              /\ w.rawIds[k] \subseteq Ids
                              /\ w.cutoffs[k] \in Nat /\ w.started[k] \in Nat
           /\ w.cursor \in Nat /\ w.pass \in Nat
           /\ Scope(w) \subseteq Keys /\ 0 \notin Keys
<1>1. posted \in [Keys -> Cursor]
  BY DEF StoreTypeOK
<1>2. /\ w.messages \in [Keys -> SUBSET Ids] /\ w.rawIds \in [Keys -> SUBSET Ids]
      /\ w.cutoffs \in [Keys -> 0..NoCutoff] /\ w.started \in [Keys -> Cursor]
      /\ w.cursor \in Cursor /\ w.pass \in 0..MaxPasses
  BY DEF WeeklyType
<1>3. ASSUME NEW k \in Keys
      PROVE  /\ posted[k] \in Nat /\ posted[k] <= MaxMsg
             /\ live[k] \subseteq 1..posted[k]
             /\ RawIds(k) \subseteq Ids
             /\ w.messages[k] \subseteq Ids
             /\ w.rawIds[k] \subseteq Ids
             /\ w.cutoffs[k] \in Nat /\ w.started[k] \in Nat
  <2>1. posted[k] \in Cursor /\ w.cutoffs[k] \in 0..NoCutoff /\ w.started[k] \in Cursor
    BY <1>1, <1>2
  <2>2. live[k] \subseteq 1..posted[k] /\ RawIds(k) \subseteq Ids
    BY DEF LiveBounded, RawIds
  <2> QED
    BY <1>2, <2>1, <2>2 DEF Cursor, NoCutoff
<1>4. Scope(w) \subseteq Keys /\ 0 \notin Keys
  BY DEF Scope, Keys
<1> QED
  BY <1>2, <1>3, <1>4 DEF Cursor

\* A new scan of keys: with none of them read yet, what the run must know is
\* what does not depend on them.
LEMMA BeginScanRun ==
    ASSUME NEW w \in WeeklyType, NEW keys \in SUBSET Scope(w),
           NEW phase \in {"pass", "final", "retry"},
           w.key = 0, w.pass \in {1, 2},
           \A k \in Keys :
              /\ w.messages[k] \cup w.rawIds[k] \subseteq 1..posted[k]
              /\ w.messages[k] \cup w.rawIds[k] \subseteq 0..w.cutoffs[k]
              /\ w.rawIds[k] \subseteq RawIds(k)
              /\ w.started[k] <= posted[k]
              /\ w.cutoffs[k] # NoCutoff => w.cutoffs[k] <= posted[k],
           phase # "pass" \/ w.pass = 2 => \A k \in Scope(w) : w.cutoffs[k] # NoCutoff,
           \A k \in Scope(w) \ keys : HistoryRead(w, k),
           ReachesStart(w),
           w.pass = 2 =>
              /\ \A k \in Scope(w) : Settled(w, k)
              /\ \A k \in Scope(w) \ keys :
                    w.messages[k] \subseteq w.rawIds[k]
                      /\ Within(w, k, RawIds(k)) \subseteq w.rawIds[k],
           Evidenced(w)
    PROVE  /\ BeginScan(w, keys, phase) \in WeeklyType
           /\ RunInv(BeginScan(w, keys, phase))
           /\ Fixed(w, BeginScan(w, keys, phase))
<1> DEFINE v == BeginScan(w, keys, phase)
<1>1. v = [w EXCEPT !.pc = "scan", !.phase = phase, !.todo = keys, !.errors = {}]
  BY DEF BeginScan
<1>2. /\ v.pc = "scan" /\ v.phase = phase /\ v.todo = keys /\ v.errors = {}
      /\ v.key = 0 /\ v.messages = w.messages /\ v.rawIds = w.rawIds
      /\ v.cutoffs = w.cutoffs /\ v.pass = w.pass /\ v.unread = w.unread
      /\ v.started = w.started /\ Fixed(w, v)
  BY <1>1 DEF WeeklyType, Fixed
<1>3. keys \in SUBSET Keys /\ 0 \notin Keys
  BY DEF Scope, Keys
<1> HIDE DEF v
<1>4. v \in WeeklyType
  <2>1. v = [pc |-> "scan", phase |-> phase, today |-> w.today,
             entries |-> w.entries, items |-> w.items,
             todo |-> keys, key |-> w.key, cursor |-> w.cursor,
             messages |-> w.messages, rawIds |-> w.rawIds,
             errors |-> {}, cutoffs |-> w.cutoffs,
             pass |-> w.pass, copied |-> w.copied, bundle |-> w.bundle,
             ok |-> w.ok, started |-> w.started, before |-> w.before,
             unread |-> w.unread]
    BY <1>1 DEF WeeklyType
  <2> QED
    BY <2>1, <1>3 DEF WeeklyType, WeeklyPc
<1>5. Scope(v) = Scope(w) /\ Evidenced(v)
  BY <1>2, FixedFacts
<1>6. Place(v)
  BY <1>2, <1>3, <1>5 DEF Place
<1>7. Bounded(v)
  BY <1>2, <1>5 DEF Bounded, Closed
<1>8. ReadKeys(v) \subseteq Scope(w) \ keys
  BY <1>2, <1>5 DEF ReadKeys
<1>9. Scanned(v)
  BY <1>2, <1>5, <1>8 DEF Scanned, HistoryRead, ReachesStart
<1>10. Repairing(v)
  BY <1>2, <1>5 DEF Repairing, Settled, Within
<1> QED
  BY <1>2, <1>4, <1>5, <1>6, <1>7, <1>9, <1>10 DEF RunInv, v

\* One step of a scan: what it may change.
Moved(w, todo, key, cursor, messages, rawIds, errors, unread) ==
    [pc |-> w.pc, phase |-> w.phase, today |-> w.today,
     entries |-> w.entries, items |-> w.items,
     todo |-> todo, key |-> key, cursor |-> cursor,
     messages |-> messages, rawIds |-> rawIds,
     errors |-> errors, cutoffs |-> w.cutoffs,
     pass |-> w.pass, copied |-> w.copied, bundle |-> w.bundle,
     ok |-> w.ok, started |-> w.started, before |-> w.before,
     unread |-> unread]

LEMMA MovedFacts ==
    ASSUME NEW w \in WeeklyType,
           NEW todo \in SUBSET Keys, NEW key \in Keys \cup {0}, NEW cursor \in Cursor,
           NEW messages \in [Keys -> SUBSET Ids], NEW rawIds \in [Keys -> SUBSET Ids],
           NEW errors \in SUBSET Keys, NEW unread \in SUBSET Keys,
           NEW v, v = Moved(w, todo, key, cursor, messages, rawIds, errors, unread)
    PROVE  /\ v \in WeeklyType /\ Fixed(w, v)
           /\ v.pc = w.pc /\ v.phase = w.phase /\ v.pass = w.pass /\ v.cutoffs = w.cutoffs
           /\ v.todo = todo /\ v.key = key /\ v.cursor = cursor
           /\ v.messages = messages /\ v.rawIds = rawIds
           /\ v.errors = errors /\ v.unread = unread
           /\ Scope(v) = Scope(w) /\ (Evidenced(w) => Evidenced(v))
           /\ (Closed(v) <=> Closed(w))
<1>1. v \in WeeklyType
  BY DEF Moved, WeeklyType
<1>2. Fixed(w, v)
  BY DEF Moved, Fixed
<1> QED
  BY <1>1, <1>2, FixedFacts DEF Moved, Closed

LEMMA OpenRun ==
    ASSUME StoreTypeOK, LiveBounded, RawPosted, NEW w \in WeeklyType, RunInv(w), w.pc = "scan",
           w.key = 0, NEW k \in w.todo, NEW v,
           v = [w EXCEPT !.key = k, !.todo = @ \ {k}, !.cursor = 0,
                         !.messages[k] = {}, !.rawIds[k] = Within(w, k, RawIds(k))]
    PROVE  v \in WeeklyType /\ RunInv(v) /\ Fixed(w, v)
<1> DEFINE messages == [w.messages EXCEPT ![k] = {}]
           rawIds == [w.rawIds EXCEPT ![k] = Within(w, k, RawIds(k))]
<1>1. /\ w.todo \in SUBSET Keys /\ k \in Keys /\ 0 \in Cursor
      /\ w.messages \in [Keys -> SUBSET Ids] /\ w.rawIds \in [Keys -> SUBSET Ids]
      /\ w.errors \in SUBSET Keys /\ w.unread \in SUBSET Keys
  BY DEF WeeklyType, Cursor
<1>2. /\ messages \in [Keys -> SUBSET Ids] /\ rawIds \in [Keys -> SUBSET Ids]
      /\ messages[k] = {} /\ rawIds[k] = Within(w, k, RawIds(k))
      /\ \A j \in Keys \ {k} : messages[j] = w.messages[j] /\ rawIds[j] = w.rawIds[j]
  BY <1>1, RunTypes DEF Within
<1>3. v = Moved(w, w.todo \ {k}, k, 0, messages, rawIds, w.errors, w.unread)
  BY DEF Moved, WeeklyType
<1> HIDE DEF messages, rawIds
<1>4. /\ v \in WeeklyType /\ Fixed(w, v)
      /\ v.pc = "scan" /\ v.phase = w.phase /\ v.pass = w.pass /\ v.cutoffs = w.cutoffs
      /\ v.todo = w.todo \ {k} /\ v.key = k /\ v.cursor = 0
      /\ v.messages = messages /\ v.rawIds = rawIds
      /\ v.errors = w.errors /\ v.unread = w.unread
      /\ Scope(v) = Scope(w) /\ (Evidenced(w) => Evidenced(v))
      /\ (Closed(v) <=> Closed(w))
  BY <1>1, <1>2, <1>3, MovedFacts
<1>5. /\ Place(w) /\ Bounded(w) /\ Scanned(w) /\ Repairing(w) /\ Evidenced(w)
      /\ Scope(w) \subseteq Keys /\ w.todo \subseteq Scope(w) /\ 0 \notin Keys
      /\ v.started = w.started
  BY <1>4, RunTypes DEF RunInv, Place, Fixed
<1>6. Place(v)
  BY <1>1, <1>4, <1>5 DEF Place
<1>7. Bounded(v)
  <2>1. /\ Within(w, k, RawIds(k)) \subseteq RawIds(k)
        /\ Within(w, k, RawIds(k)) \subseteq 0..w.cutoffs[k]
    BY <1>1, RunTypes DEF Within, Ids
  <2> QED
    BY <1>1, <1>2, <1>4, <1>5, <2>1 DEF Bounded, RawPosted
<1>8. Scanned(v)
  <2>1. ReadKeys(v) = ReadKeys(w) \ {k} /\ k \notin ReadKeys(w)
    BY <1>1, <1>4, <1>5 DEF ReadKeys
  <2>2. \A j \in ReadKeys(v) : HistoryRead(v, j)
    BY <1>2, <1>4, <1>5, <2>1 DEF Scanned, HistoryRead, ReadKeys
  <2>3. v.cursor <= posted[k] /\ ReadTo(v, k, v.cursor)
    BY <1>1, <1>4, RunTypes DEF ReadTo
  <2> QED
    BY <1>4, <1>5, <2>2, <2>3 DEF Scanned, ReachesStart
<1>9. Repairing(v)
  BY <1>1, <1>2, <1>4, <1>5 DEF Repairing, Settled, Within
<1> QED
  BY <1>4, <1>5, <1>6, <1>7, <1>8, <1>9 DEF RunInv

\* The page after the cursor is read; what lies within the cutoff is kept.
Fetched(w, k, top) ==
    [w EXCEPT !.cursor = top,
              !.messages[k] = @ \cup Within(w, k, Page(k, w.cursor, ScanLimit))]

LEMMA FetchRun ==
    ASSUME StoreTypeOK, LiveBounded, RawPosted, NEW w \in WeeklyType, RunInv(w),
           w.pc = "scan", NEW k \in Keys, k = w.key,
           NEW top \in Page(k, w.cursor, ScanLimit),
           IsTop(top, Page(k, w.cursor, ScanLimit)),
           NEW v, v = Fetched(w, k, top)
    PROVE  v \in WeeklyType /\ RunInv(v) /\ Fixed(w, v)
<1> DEFINE page == Page(k, w.cursor, ScanLimit)
           messages == [w.messages EXCEPT ![k] = @ \cup Within(w, k, page)]
<1>1. live \in [Keys -> SUBSET Ids]
  BY DEF StoreTypeOK
<1>2. /\ w.todo \in SUBSET Keys /\ w.key \in Keys \cup {0} /\ w.cursor \in Cursor
      /\ w.messages \in [Keys -> SUBSET Ids] /\ w.rawIds \in [Keys -> SUBSET Ids]
      /\ w.errors \in SUBSET Keys /\ w.unread \in SUBSET Keys
  BY DEF WeeklyType
<1>3. /\ page \subseteq live[k]
      /\ \A m \in page, j \in live[k] : w.cursor < j /\ j <= m => j \in page
  BY <1>1, <1>2, PageFacts DEF Cursor
<1>4. /\ live[k] \subseteq 1..posted[k] /\ posted[k] \in Cursor /\ live[k] \subseteq Ids
  BY <1>1 DEF LiveBounded, StoreTypeOK
<1>5. top \in page /\ top \in Cursor /\ top <= posted[k] /\ \A m \in page : m <= top
  BY <1>3, <1>4 DEF Cursor, IsTop, Ids
<1>6. v = Moved(w, w.todo, w.key, top, messages, w.rawIds, w.errors, w.unread)
  BY DEF Fetched, Moved, WeeklyType
<1> HIDE DEF page
<1>7. /\ messages \in [Keys -> SUBSET Ids]
      /\ messages[k] = w.messages[k] \cup Within(w, k, page)
      /\ \A j \in Keys \ {k} : messages[j] = w.messages[j]
  BY <1>2, <1>3, <1>4 DEF Within
<1> HIDE DEF messages
<1>8. /\ v \in WeeklyType /\ Fixed(w, v)
      /\ v.pc = "scan" /\ v.phase = w.phase /\ v.pass = w.pass /\ v.cutoffs = w.cutoffs
      /\ v.todo = w.todo /\ v.key = k /\ v.cursor = top
      /\ v.messages = messages /\ v.rawIds = w.rawIds
      /\ v.errors = w.errors /\ v.unread = w.unread
      /\ Scope(v) = Scope(w) /\ (Evidenced(w) => Evidenced(v))
      /\ (Closed(v) <=> Closed(w))
  BY <1>2, <1>5, <1>6, <1>7, MovedFacts
<1>9. /\ Place(w) /\ Bounded(w) /\ Scanned(w) /\ Repairing(w) /\ Evidenced(w)
      /\ Scope(w) \subseteq Keys /\ k \in Scope(w) /\ k # 0 /\ k \notin w.todo
      /\ v.started = w.started /\ w.cutoffs[k] \in Nat
  BY <1>2, <1>8, RunTypes DEF RunInv, Place, Fixed
<1>10. Place(v)
  BY <1>8, <1>9 DEF Place
<1>11. Bounded(v)
  <2>1. Within(w, k, page) \subseteq 1..posted[k] /\ Within(w, k, page) \subseteq 0..w.cutoffs[k]
    BY <1>3, <1>4, <1>9 DEF Within
  <2> QED
    BY <1>7, <1>8, <1>9, <2>1 DEF Bounded
<1>12. Scanned(v)
  <2>1. ReadTo(v, k, top)
    <3> SUFFICES ASSUME NEW m \in live[k], m <= top, m <= w.cutoffs[k]
                 PROVE  m \in messages[k]
      BY <1>8 DEF ReadTo
    <3>1. CASE m <= w.cursor
      BY <1>7, <1>9, <3>1 DEF Scanned, ReadTo
    <3>2. CASE ~(m <= w.cursor)
      <4>1. m \in page
        BY <1>2, <1>3, <1>4, <1>5, <3>2 DEF Cursor, Ids
      <4> QED
        BY <1>7, <4>1 DEF Within
    <3> QED
      BY <3>1, <3>2
  <2>2. ReadKeys(v) = ReadKeys(w) /\ k \notin ReadKeys(w)
    BY <1>8 DEF ReadKeys
  <2>3. \A j \in ReadKeys(v) : HistoryRead(v, j)
    BY <1>7, <1>8, <1>9, <2>2 DEF Scanned, HistoryRead, ReadKeys
  <2> QED
    BY <1>5, <1>8, <1>9, <2>1, <2>3 DEF Scanned, ReachesStart
<1>13. Repairing(v)
  <2>1. w.pass >= 2 => Within(w, k, page) \subseteq w.rawIds[k]
    BY <1>3, <1>9 DEF Repairing, Settled, Within
  <2> QED
    BY <1>7, <1>8, <1>9, <2>1 DEF Repairing, Settled, Within
<1> QED
  BY <1>8, <1>9, <1>10, <1>11, <1>12, <1>13 DEF RunInv

\* The empty page: the history of the key has been read to its end.
LEMMA ReadRun ==
    ASSUME StoreTypeOK, LiveBounded, NEW w \in WeeklyType, RunInv(w),
           w.pc = "scan", NEW k \in Keys, k = w.key,
           Page(k, w.cursor, ScanLimit) = {}, NEW v, v = [w EXCEPT !.key = 0]
    PROVE  v \in WeeklyType /\ RunInv(v) /\ Fixed(w, v)
<1>1. /\ w.todo \in SUBSET Keys /\ w.key \in Keys \cup {0} /\ w.cursor \in Cursor
      /\ w.messages \in [Keys -> SUBSET Ids] /\ w.rawIds \in [Keys -> SUBSET Ids]
      /\ w.errors \in SUBSET Keys /\ w.unread \in SUBSET Keys
      /\ live \in [Keys -> SUBSET Ids]
  BY DEF WeeklyType, StoreTypeOK
<1>2. \A m \in live[k] : m <= w.cursor
  BY <1>1, EmptyPage
<1>3. v = Moved(w, w.todo, 0, w.cursor, w.messages, w.rawIds, w.errors, w.unread)
  BY DEF Moved, WeeklyType
<1>4. /\ v \in WeeklyType /\ Fixed(w, v)
      /\ v.pc = "scan" /\ v.phase = w.phase /\ v.pass = w.pass /\ v.cutoffs = w.cutoffs
      /\ v.todo = w.todo /\ v.key = 0 /\ v.cursor = w.cursor
      /\ v.messages = w.messages /\ v.rawIds = w.rawIds
      /\ v.errors = w.errors /\ v.unread = w.unread
      /\ Scope(v) = Scope(w) /\ (Evidenced(w) => Evidenced(v))
      /\ (Closed(v) <=> Closed(w))
  BY <1>1, <1>3, MovedFacts
<1>5. /\ Place(w) /\ Bounded(w) /\ Scanned(w) /\ Repairing(w) /\ Evidenced(w)
      /\ Scope(w) \subseteq Keys /\ k \in Scope(w) /\ 0 \notin Keys
      /\ v.started = w.started /\ w.cutoffs[k] \in Nat /\ live[k] \subseteq Nat
  BY <1>1, <1>4, RunTypes DEF RunInv, Place, Fixed, Ids
<1>6. Place(v) /\ Bounded(v) /\ Repairing(v)
  BY <1>4, <1>5 DEF Place, Bounded, Repairing, Settled, Within
<1>7. HistoryRead(v, k)
  BY <1>2, <1>4, <1>5 DEF Scanned, ReadTo, HistoryRead
<1>8. \A j \in ReadKeys(v) : j = k \/ j \in ReadKeys(w)
  BY <1>4, <1>5 DEF ReadKeys
<1>9. Scanned(v)
  BY <1>4, <1>5, <1>7, <1>8 DEF Scanned, HistoryRead, ReachesStart
<1> QED
  BY <1>4, <1>5, <1>6, <1>9 DEF RunInv

\* A read fails: nothing of the key is kept, and in the first pass it is
\* among the unread.
Unreadable(w, k) ==
    [w EXCEPT !.key = 0, !.messages[k] = {}, !.errors = @ \cup {k},
              !.unread = IF w.phase = "pass" /\ w.pass = 1
                         THEN @ \cup {k} ELSE @]

LEMMA FetchFailsRun ==
    ASSUME StoreTypeOK, LiveBounded, NEW w \in WeeklyType, RunInv(w),
           w.pc = "scan", NEW k \in Keys, k = w.key,
           NEW v, v = Unreadable(w, k)
    PROVE  v \in WeeklyType /\ RunInv(v) /\ Fixed(w, v)
<1> DEFINE messages == [w.messages EXCEPT ![k] = {}]
           errors == w.errors \cup {k}
           unread == IF w.phase = "pass" /\ w.pass = 1 THEN w.unread \cup {k} ELSE w.unread
<1>1. /\ w.todo \in SUBSET Keys /\ w.key \in Keys \cup {0} /\ w.cursor \in Cursor
      /\ w.messages \in [Keys -> SUBSET Ids] /\ w.rawIds \in [Keys -> SUBSET Ids]
      /\ w.errors \in SUBSET Keys /\ w.unread \in SUBSET Keys
      /\ w.phase \in {"pass", "final", "retry"} /\ w.pass \in Nat
  BY DEF WeeklyType
<1>2. /\ messages \in [Keys -> SUBSET Ids] /\ messages[k] = {}
      /\ \A j \in Keys \ {k} : messages[j] = w.messages[j]
  BY <1>1
<1>3. /\ errors \in SUBSET Keys /\ errors = w.errors \cup {k}
      /\ unread \in SUBSET Keys /\ w.unread \subseteq unread
      /\ w.phase = "pass" /\ w.pass = 1 => unread = w.unread \cup {k}
  BY <1>1
<1>4. v = Moved(w, w.todo, 0, w.cursor, messages, w.rawIds, errors, unread)
  BY DEF Unreadable, Moved, WeeklyType
<1> HIDE DEF messages, unread, errors
<1>5. /\ v \in WeeklyType /\ Fixed(w, v)
      /\ v.pc = "scan" /\ v.phase = w.phase /\ v.pass = w.pass /\ v.cutoffs = w.cutoffs
      /\ v.todo = w.todo /\ v.key = 0 /\ v.cursor = w.cursor
      /\ v.messages = messages /\ v.rawIds = w.rawIds
      /\ v.errors = errors /\ v.unread = unread
      /\ Scope(v) = Scope(w) /\ (Evidenced(w) => Evidenced(v))
      /\ (Closed(v) <=> Closed(w))
  BY <1>1, <1>2, <1>3, <1>4, MovedFacts
<1>6. /\ Place(w) /\ Bounded(w) /\ Scanned(w) /\ Repairing(w) /\ Evidenced(w)
      /\ Scope(w) \subseteq Keys /\ k \in Scope(w) /\ 0 \notin Keys
      /\ v.started = w.started
  BY <1>1, <1>5, RunTypes DEF RunInv, Place, Fixed
<1>7. Place(v)
  <2>1. ~Closed(w) => w.phase = "pass" /\ w.pass = 1
    BY <1>1, <1>6 DEF Closed, Place
  <2> QED
    BY <1>3, <1>5, <1>6, <2>1 DEF Place
<1>8. Bounded(v) /\ Repairing(v)
  BY <1>2, <1>5, <1>6 DEF Bounded, Repairing, Settled, Within
<1>9. ReadKeys(v) = ReadKeys(w) /\ k \notin ReadKeys(w)
  BY <1>3, <1>5, <1>6 DEF ReadKeys
<1>10. Scanned(v)
  BY <1>2, <1>3, <1>5, <1>6, <1>9 DEF Scanned, HistoryRead, ReachesStart, ReadKeys
<1> QED
  BY <1>5, <1>6, <1>7, <1>8, <1>10 DEF RunInv

-----------------------------------------------------------------------------
(* The end of a pass.                                                      *)

\* The record with the boundaries of the first pass frozen.
Boundaries(w) == [w EXCEPT !.cutoffs = IF w.pass = 1 THEN Frozen(w) ELSE @]

\* What a frozen boundary of one channel is worth.
LEMMA CutoffFacts ==
    ASSUME StoreTypeOK, LiveBounded, NEW w \in WeeklyType, RunInv(w),
           w.pc = "scan", w.key = 0, w.todo = {}, w.phase = "pass",
           NEW k \in Scope(w), NEW c, c = Boundaries(w).cutoffs[k]
    PROVE  /\ c \in Cursor /\ c <= posted[k]
           /\ w.messages[k] \cup w.rawIds[k] \subseteq 0..c
           /\ w.pass = 2 => c = w.cutoffs[k]
           /\ k \notin w.unread => \A m \in live[k] : m <= w.started[k] => m <= c
           /\ k \notin w.errors => \A m \in live[k] : m \in w.messages[k] \/ m > c
<1>1. /\ k \in Keys /\ posted[k] \in Cursor /\ live[k] \subseteq 1..posted[k]
      /\ w.messages[k] \subseteq Ids /\ w.rawIds[k] \subseteq Ids
      /\ w.cutoffs[k] \in 0..NoCutoff /\ w.started[k] \in Cursor
      /\ w.cutoffs \in [Keys -> 0..NoCutoff]
      /\ w.pass \in Nat
  BY DEF WeeklyType, StoreTypeOK, LiveBounded, Scope
<1>2. /\ w.pass = 1 \/ w.pass = 2
      /\ w.pass = 1 => w.errors \subseteq w.unread
      /\ w.pass = 2 => w.cutoffs[k] # NoCutoff
  BY <1>1 DEF RunInv, Place, Bounded, Closed
<1>3. /\ w.messages[k] \cup w.rawIds[k] \subseteq 1..posted[k]
      /\ w.messages[k] \cup w.rawIds[k] \subseteq 0..w.cutoffs[k]
      /\ w.cutoffs[k] # NoCutoff => w.cutoffs[k] <= posted[k]
  BY <1>1 DEF RunInv, Bounded
<1>4. k \notin w.errors => HistoryRead(w, k)
  BY <1>1, <1>2 DEF RunInv, Scanned, ReadKeys, Keys
<1>5. k \notin w.unread => \A m \in live[k] : m <= w.started[k] => m <= w.cutoffs[k]
  BY DEF RunInv, Scanned, ReachesStart
<1>6. Boundaries(w).cutoffs = IF w.pass = 1 THEN Frozen(w) ELSE w.cutoffs
  BY DEF Boundaries, WeeklyType
<1>7. CASE w.pass = 1 /\ w.cutoffs[k] = NoCutoff
  <2> DEFINE seen == w.messages[k] \cup w.rawIds[k]
  <2>1. c = CHOOSE d \in Cursor : IF seen = {} THEN d = 0 ELSE IsTop(d, seen)
    BY <1>1, <1>6, <1>7 DEF Frozen
  <2>2. seen \in SUBSET Ids
    BY <1>1
  <2>3. /\ c \in Cursor /\ seen \subseteq 0..c
        /\ c \in seen \/ c = 0
    <3> HIDE DEF seen
    <3> QED
      BY <2>1, <2>2, NewestSeen
  <2>4. c <= posted[k]
    BY <1>1, <1>3, <2>3 DEF Cursor
  <2>5. ASSUME k \notin w.errors, NEW m \in live[k]
        PROVE  m \in w.messages[k] \/ (m > c /\ m > w.started[k])
    <3>1. m \in 1..MaxMsg
      BY <1>1 DEF Cursor
    <3>2. \/ m \in w.messages[k]
          \/ m > w.cutoffs[k]
          \/ m > w.started[k] /\ \A j \in seen : j < m
      BY <1>4, <2>5 DEF HistoryRead
    <3>3. ~(m > w.cutoffs[k])
      BY <1>7, <3>1 DEF NoCutoff
    <3> QED
      BY <2>3, <3>1, <3>2, <3>3
  <2>6. ASSUME k \notin w.unread, NEW m \in live[k], m <= w.started[k] PROVE m <= c
    <3>1. m \in w.messages[k]
      BY <1>1, <1>2, <1>7, <2>5, <2>6 DEF Cursor
    <3> QED
      BY <2>3, <3>1
  <2> QED
    BY <1>7, <2>3, <2>4, <2>5, <2>6
<1>8. CASE ~(w.pass = 1 /\ w.cutoffs[k] = NoCutoff)
  <2>1. c = w.cutoffs[k] /\ w.cutoffs[k] # NoCutoff
    BY <1>1, <1>2, <1>6, <1>8 DEF Frozen
  <2>2. c \in Cursor
    BY <1>1, <2>1 DEF Cursor, NoCutoff
  <2>3. k \notin w.errors => \A m \in live[k] : m \in w.messages[k] \/ m > c
    BY <1>4, <2>1 DEF HistoryRead
  <2> QED
    BY <1>3, <1>5, <2>1, <2>2, <2>3
<1> QED
  BY <1>7, <1>8

LEMMA BoundariesFacts ==
    ASSUME StoreTypeOK, LiveBounded, NEW w \in WeeklyType, RunInv(w),
           w.pc = "scan", w.key = 0, w.todo = {}, w.phase = "pass",
           NEW f, f = Boundaries(w)
    PROVE  /\ f \in WeeklyType /\ Fixed(w, f)
           /\ f.key = 0 /\ f.todo = {} /\ f.pass = w.pass /\ f.pass \in {1, 2}
           /\ f.messages = w.messages /\ f.rawIds = w.rawIds /\ f.errors = w.errors
           /\ f.unread = w.unread /\ f.phase = w.phase
           /\ w.pass = 2 => f.cutoffs = w.cutoffs
           /\ \A k \in Keys :
                 /\ f.messages[k] \cup f.rawIds[k] \subseteq 1..posted[k]
                 /\ f.messages[k] \cup f.rawIds[k] \subseteq 0..f.cutoffs[k]
                 /\ f.rawIds[k] \subseteq RawIds(k)
                 /\ f.started[k] <= posted[k]
                 /\ f.cutoffs[k] # NoCutoff => f.cutoffs[k] <= posted[k]
           /\ \A k \in Scope(f) : f.cutoffs[k] # NoCutoff
           /\ ReachesStart(f)
           /\ f.errors = {} => \A k \in Scope(f) : HistoryRead(f, k)
           /\ Evidenced(f)
<1> DEFINE cutoffs == f.cutoffs
<1>1. /\ w.cutoffs \in [Keys -> 0..NoCutoff]
      /\ RunInv(w) /\ w.pass \in Nat /\ Scope(w) \subseteq Keys
  BY DEF WeeklyType, Scope
<1>2. w.pass \in {1, 2}
  BY <1>1 DEF RunInv, Place
<1>3. f.cutoffs = IF w.pass = 1 THEN Frozen(w) ELSE w.cutoffs
  BY DEF Boundaries, WeeklyType
<1>4. \A k \in Keys \ Scope(w) : f.cutoffs[k] = w.cutoffs[k]
  BY <1>1, <1>3 DEF Frozen
<1>5. \A k \in Scope(w) :
         /\ f.cutoffs[k] \in Cursor /\ f.cutoffs[k] <= posted[k]
         /\ w.messages[k] \cup w.rawIds[k] \subseteq 0..f.cutoffs[k]
         /\ k \notin w.unread => \A m \in live[k] : m <= w.started[k] => m <= f.cutoffs[k]
         /\ k \notin w.errors => \A m \in live[k] : m \in w.messages[k] \/ m > f.cutoffs[k]
  BY CutoffFacts
<1>6. Cursor \subseteq 0..NoCutoff /\ NoCutoff \notin Cursor
  BY DEF Cursor, NoCutoff
<1>7. f.cutoffs \in [Keys -> 0..NoCutoff]
  <2>1. \A k \in Keys : f.cutoffs[k] \in 0..NoCutoff
    BY <1>1, <1>4, <1>5, <1>6
  <2>2. f.cutoffs = [k \in Keys |-> f.cutoffs[k]]
    BY <1>1, <1>3 DEF Frozen
  <2> QED
    BY <2>1, <2>2
<1>8. f = [w EXCEPT !.cutoffs = cutoffs]
  BY <1>3 DEF Boundaries
<1> HIDE DEF cutoffs
<1>9. /\ f.key = 0 /\ f.todo = {} /\ f.pass = w.pass
      /\ f.messages = w.messages /\ f.rawIds = w.rawIds /\ f.errors = w.errors
      /\ f.unread = w.unread /\ f.phase = w.phase
      /\ f.started = w.started /\ Fixed(w, f) /\ f.cutoffs = cutoffs
  BY <1>8 DEF WeeklyType, Fixed
<1>10. f \in WeeklyType
  BY <1>7, <1>8, <1>9 DEF WeeklyType
<1>11. Scope(f) = Scope(w) /\ Evidenced(f)
  BY <1>1, <1>9, FixedFacts DEF RunInv
<1>12. w.pass = 2 => f.cutoffs = w.cutoffs
  BY <1>3
<1>13. \A k \in Keys :
         /\ f.messages[k] \cup f.rawIds[k] \subseteq 1..posted[k]
         /\ f.messages[k] \cup f.rawIds[k] \subseteq 0..f.cutoffs[k]
         /\ f.rawIds[k] \subseteq RawIds(k)
         /\ f.started[k] <= posted[k]
         /\ f.cutoffs[k] # NoCutoff => f.cutoffs[k] <= posted[k]
  BY <1>1, <1>4, <1>5, <1>9 DEF RunInv, Bounded
<1>14. ReachesStart(f)
  BY <1>5, <1>9, <1>11 DEF ReachesStart
<1>15. f.errors = {} => \A k \in Scope(f) : HistoryRead(f, k)
  BY <1>5, <1>9, <1>11 DEF HistoryRead
<1>16. \A k \in Scope(f) : f.cutoffs[k] # NoCutoff
  BY <1>5, <1>6, <1>11
<1> QED
  BY <1>2, <1>9, <1>10, <1>11, <1>12, <1>13, <1>14, <1>15, <1>16

\* A pass ends in a final scan or, only ever the first one, in a repair.
LEMMA CloseRun ==
    ASSUME StoreTypeOK, LiveBounded, NEW w \in WeeklyType, RunInv(w),
           w.pc = "scan", w.key = 0, w.todo = {}, w.phase = "pass",
           NEW f, f = Boundaries(w), NEW v,
           v = IF w.errors # {} \/ Affected(w) = {}
               THEN BeginScan(f, Scope(f), "final")
               ELSE [f EXCEPT !.pc = "evidence"]
    PROVE  v \in WeeklyType /\ RunInv(v) /\ Fixed(w, v)
<1>1. /\ f \in WeeklyType /\ Fixed(w, f)
      /\ f.key = 0 /\ f.todo = {} /\ f.pass = w.pass /\ f.pass \in {1, 2}
      /\ f.messages = w.messages /\ f.rawIds = w.rawIds /\ f.errors = w.errors
      /\ f.unread = w.unread
      /\ w.pass = 2 => f.cutoffs = w.cutoffs
      /\ \A k \in Keys :
            /\ f.messages[k] \cup f.rawIds[k] \subseteq 1..posted[k]
            /\ f.messages[k] \cup f.rawIds[k] \subseteq 0..f.cutoffs[k]
            /\ f.rawIds[k] \subseteq RawIds(k)
            /\ f.started[k] <= posted[k]
            /\ f.cutoffs[k] # NoCutoff => f.cutoffs[k] <= posted[k]
      /\ \A k \in Scope(f) : f.cutoffs[k] # NoCutoff
      /\ ReachesStart(f)
      /\ f.errors = {} => \A k \in Scope(f) : HistoryRead(f, k)
      /\ Evidenced(f)
  BY BoundariesFacts
<1>2. Scope(f) = Scope(w)
  BY <1>1, FixedFacts
<1>3. CASE w.errors # {} \/ Affected(w) = {}
  <2>1. w.pass = 2 => \A k \in Scope(f) : Settled(f, k)
    BY <1>1, <1>2 DEF RunInv, Repairing, Settled
  <2>2. /\ v \in WeeklyType /\ RunInv(v) /\ Fixed(f, v)
    BY <1>1, <1>3, <2>1, BeginScanRun
  <2> QED
    BY <1>1, <2>2 DEF Fixed
<1>4. CASE ~(w.errors # {} \/ Affected(w) = {})
  <2>1. w.pass = 1
    <3>1. SUFFICES ASSUME w.pass = 2 PROVE Affected(w) = {}
      BY <1>1, <1>4
    <3>2. \A k \in Scope(w) : w.messages[k] \subseteq w.rawIds[k]
      BY <3>1 DEF RunInv, Repairing
    <3> QED
      BY <3>2 DEF Affected, Missing
  <2>2. v = [f EXCEPT !.pc = "evidence"]
    BY <1>4
  <2>3. /\ v \in WeeklyType /\ v.pc = "evidence" /\ v.key = 0 /\ v.todo = {}
        /\ v.pass = 1 /\ v.messages = f.messages /\ v.rawIds = f.rawIds
        /\ v.errors = {} /\ v.unread = f.unread /\ v.cutoffs = f.cutoffs
        /\ v.started = f.started /\ Fixed(f, v)
    <3>1. f \in WeeklyType /\ f.errors = {} /\ f.pass = 1 /\ f.key = 0 /\ f.todo = {}
      BY <1>1, <1>4, <2>1
    <3>2. /\ v.pc = "evidence" /\ v.key = f.key /\ v.todo = f.todo
          /\ v.pass = f.pass /\ v.messages = f.messages /\ v.rawIds = f.rawIds
          /\ v.errors = f.errors /\ v.unread = f.unread /\ v.cutoffs = f.cutoffs
          /\ v.started = f.started /\ Fixed(f, v)
      BY <2>2, <3>1 DEF WeeklyType, Fixed
    <3>3. v \in WeeklyType
      BY <2>2, <3>1 DEF WeeklyType, WeeklyPc
    <3> QED
      BY <3>1, <3>2, <3>3
  <2>4. Scope(v) = Scope(f) /\ Evidenced(v)
    BY <1>1, <2>3, FixedFacts
  <2>5. Place(v)
    BY <2>3 DEF Place, Closed
  <2>6. Bounded(v)
    BY <1>1, <2>3, <2>4 DEF Bounded
  <2>7. Scanned(v)
    <3>1. \A k \in Scope(v) : HistoryRead(v, k)
      BY <1>1, <1>4, <2>3, <2>4 DEF HistoryRead
    <3>2. ReachesStart(v)
      BY <1>1, <2>3, <2>4 DEF ReachesStart
    <3> QED
      BY <2>3, <3>1, <3>2 DEF Scanned, ReadKeys
  <2>8. Repairing(v)
    BY <2>3 DEF Repairing
  <2> QED
    BY <1>1, <2>3, <2>4, <2>5, <2>6, <2>7, <2>8 DEF RunInv, Fixed
<1> QED
  BY <1>3, <1>4

-----------------------------------------------------------------------------
(* Getting the lock, repairing, closing out.                               *)

\* What is needed of the record for a new pass: the second one needs the first
\* to have repaired everything.
LEMMA BeginPassRun ==
    ASSUME NEW w \in WeeklyType, w.key = 0, w.pass \in {0, 1}, w.pass < MaxPasses,
           \A k \in Keys :
              /\ w.messages[k] \cup w.rawIds[k] \subseteq 1..posted[k]
              /\ w.messages[k] \cup w.rawIds[k] \subseteq 0..w.cutoffs[k]
              /\ w.rawIds[k] \subseteq RawIds(k)
              /\ w.started[k] <= posted[k]
              /\ w.cutoffs[k] # NoCutoff => w.cutoffs[k] <= posted[k],
           ReachesStart(w),
           w.pass = 1 => \A k \in Scope(w) : w.cutoffs[k] # NoCutoff /\ Settled(w, k),
           Evidenced(w)
    PROVE  BeginPass(w) \in WeeklyType /\ RunInv(BeginPass(w)) /\ Fixed(w, BeginPass(w))
<1> DEFINE f == [w EXCEPT !.pass = @ + 1]
<1>1. /\ f.pass = w.pass + 1 /\ f.key = 0
      /\ f.messages = w.messages /\ f.rawIds = w.rawIds /\ f.cutoffs = w.cutoffs
      /\ f.started = w.started /\ f.unread = w.unread /\ Fixed(w, f)
  BY DEF WeeklyType, Fixed
<1>2. f \in WeeklyType
  <2>1. w.pass + 1 \in 0..MaxPasses
    OBVIOUS
  <2>2. f = [w EXCEPT !.pass = w.pass + 1]
    OBVIOUS
  <2> HIDE DEF f
  <2> QED
    BY <2>1, <2>2 DEF WeeklyType
<1>3. BeginPass(w) = BeginScan(f, Scope(w), "pass")
  BY DEF BeginPass
<1> HIDE DEF f
<1>4. Scope(f) = Scope(w) /\ Evidenced(f)
  BY <1>1, FixedFacts
<1>5. ReachesStart(f) /\ \A k : Settled(w, k) => Settled(f, k)
  BY <1>1, <1>4 DEF ReachesStart, Settled
<1>6. f.pass \in {1, 2} /\ (f.pass = 2 => w.pass = 1)
  BY <1>1
<1>7. \A k \in Keys :
         /\ f.messages[k] \cup f.rawIds[k] \subseteq 1..posted[k]
         /\ f.messages[k] \cup f.rawIds[k] \subseteq 0..f.cutoffs[k]
         /\ f.rawIds[k] \subseteq RawIds(k)
         /\ f.started[k] <= posted[k]
         /\ f.cutoffs[k] # NoCutoff => f.cutoffs[k] <= posted[k]
  BY <1>1
<1>8. f.pass = 2 => \A k \in Scope(f) : f.cutoffs[k] # NoCutoff /\ Settled(f, k)
  BY <1>1, <1>4, <1>5, <1>6
<1>9. /\ BeginScan(f, Scope(f), "pass") \in WeeklyType
      /\ RunInv(BeginScan(f, Scope(f), "pass"))
      /\ Fixed(f, BeginScan(f, Scope(f), "pass"))
  BY <1>1, <1>2, <1>4, <1>5, <1>6, <1>7, <1>8, BeginScanRun
<1> QED
  BY <1>1, <1>3, <1>4, <1>9 DEF Fixed

\* The run as it gets the lock, before it has read anything.
Locked(w) == [w EXCEPT !.started = posted, !.before = [k \in Keys |-> RawIds(k)]]

LEMMA UnstartedFacts ==
    ASSUME StoreTypeOK, LiveBounded, NEW w \in WeeklyType, Unstarted(w),
           w.started = posted \/ \A k \in Keys : w.started[k] <= posted[k],
           \A k \in Keys : RawIds(k) = w.before[k]
    PROVE  /\ \A k \in Keys :
                 /\ w.messages[k] \cup w.rawIds[k] = {}
                 /\ w.started[k] <= posted[k]
                 /\ w.cutoffs[k] = NoCutoff
           /\ \A k \in Keys : \A m \in live[k] : m < NoCutoff
           /\ Evidenced(w)
<1>1. \A k \in Keys : posted[k] \in Cursor /\ live[k] \subseteq 1..posted[k]
  BY DEF StoreTypeOK, LiveBounded
<1> QED
  BY <1>1 DEF Unstarted, NoIds, NoCutoff, Cursor, Evidenced

LEMMA LockRun ==
    ASSUME StoreTypeOK, LiveBounded, NEW w \in WeeklyType, Unstarted(w), NEW v,
           v = IF ReportKey = 0 THEN BeginPass(Locked(w))
               ELSE [Locked(w) EXCEPT !.pc = "report"]
    PROVE  v \in WeeklyType /\ RunInv(v) /\ v.entries = w.entries /\ v.items = w.items
<1> DEFINE before == [k \in Keys |-> RawIds(k)]
           f == [w EXCEPT !.started = posted, !.before = before]
<1>1. before \in [Keys -> SUBSET Ids] /\ posted \in [Keys -> Cursor]
  BY DEF RawIds, StoreTypeOK
<1>2. \A k \in Keys : before[k] = RawIds(k)
  OBVIOUS
<1>3. f = Locked(w)
  BY DEF Locked
<1> HIDE DEF before
<1>4. /\ f.key = 0 /\ f.todo = {} /\ f.errors = {} /\ f.unread = {}
      /\ f.messages = NoIds /\ f.rawIds = NoIds
      /\ f.cutoffs = [k \in Keys |-> NoCutoff]
      /\ f.pass = 0 /\ f.phase = "pass" /\ ~f.copied /\ ~f.ok
      /\ f.started = posted /\ f.before = before
      /\ f.entries = w.entries /\ f.items = w.items
  BY DEF WeeklyType, Unstarted
<1>5. f \in WeeklyType
  BY <1>1 DEF WeeklyType
<1> HIDE DEF f
<1>6. Unstarted(f)
  BY <1>4 DEF Unstarted
<1>7. /\ \A k \in Keys :
            /\ f.messages[k] \cup f.rawIds[k] = {}
            /\ f.started[k] <= posted[k]
            /\ f.cutoffs[k] = NoCutoff
      /\ \A k \in Keys : \A m \in live[k] : m < NoCutoff
      /\ Evidenced(f)
  BY <1>2, <1>4, <1>5, <1>6, UnstartedFacts
<1>8. Scope(f) \subseteq Keys /\ NoCutoff \in Nat /\ \A k \in Keys : live[k] \subseteq Nat
  BY DEF Scope, NoCutoff, StoreTypeOK, Ids
<1>9. ReachesStart(f)
  BY <1>7, <1>8 DEF ReachesStart
<1>10. CASE ReportKey = 0
  <2>1. BeginPass(f) \in WeeklyType /\ RunInv(BeginPass(f)) /\ Fixed(f, BeginPass(f))
    BY <1>4, <1>5, <1>7, <1>9, BeginPassRun
  <2> QED
    BY <1>3, <1>4, <1>10, <2>1 DEF Fixed
<1>11. CASE ReportKey # 0
  <2>1. v = [f EXCEPT !.pc = "report"]
    BY <1>3, <1>11
  <2>2. /\ v.pc = "report" /\ Fixed(f, v)
        /\ v.key = 0 /\ v.todo = {} /\ v.errors = {} /\ v.unread = {}
        /\ v.messages = f.messages /\ v.rawIds = f.rawIds
        /\ v.cutoffs = f.cutoffs /\ v.started = f.started
        /\ v.pass = 0 /\ v.phase = "pass" /\ ~v.copied /\ ~v.ok
    <3>1. /\ v.pc = "report" /\ Fixed(f, v)
          /\ v.key = f.key /\ v.todo = f.todo /\ v.errors = f.errors
          /\ v.unread = f.unread /\ v.messages = f.messages /\ v.rawIds = f.rawIds
          /\ v.cutoffs = f.cutoffs /\ v.started = f.started
          /\ v.pass = f.pass /\ v.phase = f.phase /\ v.copied = f.copied /\ v.ok = f.ok
      BY <1>5, <2>1 DEF WeeklyType, Fixed
    <3> QED
      BY <1>4, <3>1
  <2>3. v \in WeeklyType
    BY <1>5, <2>1 DEF WeeklyType, WeeklyPc
  <2>4. Scope(v) = Scope(f) /\ Evidenced(v)
    BY <1>7, <2>2, FixedFacts
  <2>5. Unstarted(v)
    BY <1>4, <2>2 DEF Unstarted
  <2>6. Place(v)
    BY <2>2, <2>5 DEF Place, Closed
  <2>7. Bounded(v)
    BY <1>7, <2>2 DEF Bounded, Closed
  <2>8. Scanned(v)
    <3>1. ReadKeys(v) = {}
      BY <2>2 DEF ReadKeys
    <3>2. ReachesStart(v)
      BY <1>4, <1>9, <2>2, <2>4 DEF ReachesStart
    <3> QED
      BY <2>2, <3>1, <3>2 DEF Scanned
  <2>9. Repairing(v)
    BY <2>2 DEF Repairing
  <2> QED
    BY <1>4, <2>2, <2>3, <2>4, <2>6, <2>7, <2>8, <2>9 DEF RunInv, Fixed
<1> QED
  BY <1>10, <1>11

\* The report channel is bounded at once, by its newest message.
LEMMA ReportRun ==
    ASSUME StoreTypeOK, LiveBounded, NEW w \in WeeklyType, RunInv(w), w.pc = "report",
           ReportKey \in Scope(w), NEW latest \in Cursor,
           IF live[ReportKey] = {} THEN latest = 0 ELSE IsTop(latest, live[ReportKey]),
           NEW v, v = BeginPass([w EXCEPT !.cutoffs[ReportKey] = latest])
    PROVE  v \in WeeklyType /\ RunInv(v) /\ Fixed(w, v)
<1> DEFINE cutoffs == [w.cutoffs EXCEPT ![ReportKey] = latest]
           f == [w EXCEPT !.cutoffs = cutoffs]
<1>1. /\ Unstarted(w) /\ Bounded(w) /\ ReachesStart(w) /\ Evidenced(w)
      /\ Scope(w) \subseteq Keys /\ ReportKey \in Keys
      /\ w.cutoffs \in [Keys -> 0..NoCutoff]
  BY DEF RunInv, Place, Scanned, Scope, WeeklyType
<1>2. /\ cutoffs \in [Keys -> 0..NoCutoff] /\ cutoffs[ReportKey] = latest
      /\ \A k \in Keys \ {ReportKey} : cutoffs[k] = w.cutoffs[k]
  BY <1>1 DEF Cursor, NoCutoff
<1>3. v = BeginPass(f)
  OBVIOUS
<1> HIDE DEF cutoffs
<1>4. /\ f.key = w.key /\ f.messages = w.messages /\ f.rawIds = w.rawIds
      /\ f.cutoffs = cutoffs /\ f.pass = w.pass /\ f.unread = w.unread
      /\ f.started = w.started /\ Fixed(w, f)
  BY DEF WeeklyType, Fixed
<1>5. f \in WeeklyType
  BY <1>2 DEF WeeklyType
<1> HIDE DEF f
<1>6. Scope(f) = Scope(w) /\ Evidenced(f) /\ f.key = 0 /\ f.pass = 0
  BY <1>1, <1>4, FixedFacts DEF Unstarted
<1>7. \A m \in live[ReportKey] : m <= latest
  BY DEF IsTop
<1>8. posted[ReportKey] \in Cursor /\ live[ReportKey] \subseteq 1..posted[ReportKey]
  BY <1>1 DEF StoreTypeOK, LiveBounded
<1>9. latest <= posted[ReportKey]
  BY <1>8 DEF IsTop, Cursor
<1>10. \A k \in Keys : f.messages[k] \cup f.rawIds[k] = {}
  BY <1>1, <1>4 DEF Unstarted, NoIds
<1>11. \A k \in Keys :
          /\ f.started[k] <= posted[k]
          /\ f.cutoffs[k] # NoCutoff => f.cutoffs[k] <= posted[k]
  BY <1>1, <1>2, <1>4, <1>9 DEF Bounded
<1>12. ReachesStart(f)
  BY <1>1, <1>2, <1>4, <1>6, <1>7 DEF ReachesStart
<1>13. BeginPass(f) \in WeeklyType /\ RunInv(BeginPass(f)) /\ Fixed(f, BeginPass(f))
  BY <1>5, <1>6, <1>10, <1>11, <1>12, BeginPassRun
<1> QED
  BY <1>3, <1>4, <1>13 DEF Fixed

\* The evidence is made, or was; what it does not list is complete already.
Copied(w) ==
    [w EXCEPT !.pc = "append", !.todo = Affected(w), !.copied = TRUE,
              !.bundle = IF w.copied THEN @ ELSE Bundle(w)]

LEMMA EvidenceRun ==
    ASSUME StoreTypeOK, LiveBounded, NEW w \in WeeklyType, RunInv(w),
           w.pc = "evidence", NEW v, v = Copied(w)
    PROVE  v \in WeeklyType /\ RunInv(v) /\ v.entries = w.entries /\ v.items = w.items
<1> DEFINE todo == Affected(w)
           bundle == IF w.copied THEN w.bundle ELSE Bundle(w)
<1>1. /\ todo \in SUBSET Keys /\ todo \subseteq Scope(w) /\ 0 \notin Keys
      /\ \A k \in Scope(w) \ todo : w.messages[k] \subseteq w.rawIds[k]
  BY DEF Affected, Missing, Scope, Keys
<1>2. bundle \in [Keys -> SUBSET Ids]
  BY DEF Bundle, RawIds, WeeklyType
<1>3. /\ Place(w) /\ Bounded(w) /\ Scanned(w) /\ Evidenced(w) /\ Closed(w)
      /\ Scope(w) \subseteq Keys
  BY DEF RunInv, Closed, Scope
<1>4. \A k \in Scope(w) : bundle[k] = w.before[k]
  <2>1. CASE w.copied
    BY <1>3, <2>1 DEF Evidenced
  <2>2. CASE ~w.copied
    BY <1>3, <2>2 DEF Evidenced, Bundle
  <2> QED
    BY <2>1, <2>2
<1>5. v = [w EXCEPT !.pc = "append", !.todo = todo, !.copied = TRUE, !.bundle = bundle]
  BY DEF Copied, WeeklyType
<1> HIDE DEF todo, bundle
<1>6. /\ v.pc = "append" /\ v.todo = todo /\ v.copied = TRUE /\ v.bundle = bundle
      /\ v.key = w.key /\ v.messages = w.messages /\ v.rawIds = w.rawIds
      /\ v.cutoffs = w.cutoffs /\ v.pass = w.pass /\ v.unread = w.unread
      /\ v.errors = w.errors /\ v.started = w.started /\ v.before = w.before
      /\ v.entries = w.entries /\ v.items = w.items
  BY <1>5 DEF WeeklyType
<1>7. v \in WeeklyType
  <2>1. v = [pc |-> "append", phase |-> w.phase, today |-> w.today,
             entries |-> w.entries, items |-> w.items,
             todo |-> todo, key |-> w.key, cursor |-> w.cursor,
             messages |-> w.messages, rawIds |-> w.rawIds,
             errors |-> w.errors, cutoffs |-> w.cutoffs,
             pass |-> w.pass, copied |-> TRUE, bundle |-> bundle,
             ok |-> w.ok, started |-> w.started, before |-> w.before,
             unread |-> w.unread]
    BY <1>5 DEF WeeklyType
  <2> QED
    BY <1>1, <1>2, <2>1 DEF WeeklyType, WeeklyPc
<1>8. w.pass = 1 /\ w.errors = {} /\ w.key = 0
  BY <1>3 DEF Place
<1>9. Scope(v) = Scope(w)
  BY <1>6 DEF Scope
<1>10. Place(v)
  BY <1>1, <1>6, <1>8, <1>9 DEF Place, Closed
<1>11. Bounded(v)
  BY <1>3, <1>6, <1>9 DEF Bounded
<1>12. \A k \in Scope(w) : HistoryRead(w, k) /\ w.cutoffs[k] # NoCutoff
  BY <1>3 DEF Scanned, ReadKeys, Bounded
<1>13. Scanned(v)
  BY <1>3, <1>6, <1>8, <1>9, <1>12 DEF Scanned, ReadKeys, HistoryRead, ReachesStart
<1>14. \A k \in Scope(w) \ todo : Settled(v, k)
  <2> SUFFICES ASSUME NEW k \in Scope(w) \ todo, NEW m \in live[k], m <= w.cutoffs[k]
               PROVE  m \in RawIds(k)
    BY <1>6 DEF Settled
  <2>1. k \in Keys /\ m \in Nat /\ w.cutoffs[k] \in Nat
    BY <1>3, RunTypes DEF Ids
  <2>2. m \in w.messages[k]
    BY <1>12, <2>1 DEF HistoryRead
  <2> QED
    BY <1>1, <1>3, <2>1, <2>2 DEF Bounded
<1>15. Repairing(v)
  BY <1>6, <1>8, <1>9, <1>14 DEF Repairing
<1>16. Evidenced(v)
  BY <1>3, <1>4, <1>6, <1>9 DEF Evidenced
<1> QED
  BY <1>6, <1>7, <1>10, <1>11, <1>13, <1>15, <1>16 DEF RunInv

\* All repairs are made; the ledgers are written.
LEMMA RepairedRun ==
    ASSUME NEW w \in WeeklyType, RunInv(w), w.pc = "append", w.todo = {},
           NEW v, v = [w EXCEPT !.pc = "queue"]
    PROVE  v \in WeeklyType /\ RunInv(v) /\ Fixed(w, v)
<1>1. /\ v.pc = "queue" /\ v.todo = {} /\ Fixed(w, v)
      /\ v.key = w.key /\ v.messages = w.messages /\ v.rawIds = w.rawIds
      /\ v.cutoffs = w.cutoffs /\ v.pass = w.pass /\ v.unread = w.unread
      /\ v.errors = w.errors /\ v.started = w.started
  BY DEF WeeklyType, Fixed
<1>2. v \in WeeklyType
  BY DEF WeeklyType, WeeklyPc
<1>3. /\ Place(w) /\ Bounded(w) /\ Scanned(w) /\ Repairing(w) /\ Closed(w) /\ Closed(v)
      /\ Scope(v) = Scope(w) /\ Evidenced(v)
  BY <1>1, FixedFacts DEF RunInv, Closed
<1>4. Place(v)
  BY <1>1, <1>3 DEF Place
<1>5. Bounded(v)
  BY <1>1, <1>3 DEF Bounded
<1>6. Scanned(v)
  BY <1>1, <1>3 DEF Scanned, ReadKeys, ReachesStart, Place
<1>7. Repairing(v)
  BY <1>1, <1>3 DEF Repairing, Settled
<1> QED
  BY <1>1, <1>2, <1>3, <1>4, <1>5, <1>6, <1>7 DEF RunInv

\* After the repair: one more pass, or the final scan if no pass is left.
LEMMA RescanRun ==
    ASSUME NEW w \in WeeklyType, RunInv(w), w.pc = "queue", NEW v,
           v = IF w.pass < MaxPasses THEN BeginPass(w)
               ELSE BeginScan(w, Scope(w), "final")
    PROVE  v \in WeeklyType /\ RunInv(v) /\ Fixed(w, v)
<1>1. /\ w.key = 0 /\ w.pass = 1 /\ Closed(w)
      /\ Bounded(w) /\ ReachesStart(w) /\ Evidenced(w)
      /\ \A k \in Scope(w) : Settled(w, k) /\ w.cutoffs[k] # NoCutoff
  BY DEF RunInv, Place, Closed, Scanned, Repairing, Bounded
<1>2. \A k \in Keys :
         /\ w.messages[k] \cup w.rawIds[k] \subseteq 1..posted[k]
         /\ w.messages[k] \cup w.rawIds[k] \subseteq 0..w.cutoffs[k]
         /\ w.rawIds[k] \subseteq RawIds(k)
         /\ w.started[k] <= posted[k]
         /\ w.cutoffs[k] # NoCutoff => w.cutoffs[k] <= posted[k]
  BY <1>1 DEF Bounded
<1>3. CASE w.pass < MaxPasses
  BY <1>1, <1>2, <1>3, BeginPassRun
<1>4. CASE ~(w.pass < MaxPasses)
  BY <1>1, <1>2, <1>4, BeginScanRun
<1> QED
  BY <1>3, <1>4

\* Channels the final scan could not read are scanned once more; the others
\* stay read.
LEMMA RetryRun ==
    ASSUME StoreTypeOK, NEW w \in WeeklyType, RunInv(w), w.pc = "scan", w.key = 0,
           w.todo = {}, w.phase = "final", NEW v, v = BeginScan(w, w.errors, "retry")
    PROVE  v \in WeeklyType /\ RunInv(v) /\ Fixed(w, v)
<1>1. /\ Closed(w) /\ Bounded(w) /\ ReachesStart(w) /\ Evidenced(w) /\ Repairing(w)
      /\ w.pass \in {1, 2} /\ w.errors \in SUBSET Scope(w) /\ 0 \notin Keys
      /\ Scope(w) \subseteq Keys
  <2>1. w.pass \in Nat
    BY DEF WeeklyType
  <2> QED
    BY <2>1 DEF RunInv, Place, Closed, Scanned, Scope, Keys
<1>2. \A k \in Scope(w) \ w.errors : HistoryRead(w, k)
  BY <1>1 DEF RunInv, Scanned, ReadKeys
<1>3. \A k \in Keys :
         /\ w.messages[k] \cup w.rawIds[k] \subseteq 1..posted[k]
         /\ w.messages[k] \cup w.rawIds[k] \subseteq 0..w.cutoffs[k]
         /\ w.rawIds[k] \subseteq RawIds(k)
         /\ w.started[k] <= posted[k]
         /\ w.cutoffs[k] # NoCutoff => w.cutoffs[k] <= posted[k]
  BY <1>1 DEF Bounded
<1>4. \A k \in Scope(w) : w.cutoffs[k] # NoCutoff
  BY <1>1 DEF Bounded
<1>5. w.pass = 2 =>
         /\ \A k \in Scope(w) : Settled(w, k)
         /\ \A k \in Scope(w) \ w.errors :
               w.messages[k] \subseteq w.rawIds[k] /\ Within(w, k, RawIds(k)) \subseteq w.rawIds[k]
  BY <1>1 DEF Repairing
<1> QED
  BY <1>1, <1>2, <1>3, <1>4, <1>5, BeginScanRun

\* The verdict: nothing unread and nothing missing within the boundaries means
\* that all within them is archived.
LEMMA VerdictRun ==
    ASSUME StoreTypeOK, LiveBounded, NEW w \in WeeklyType, RunInv(w), w.pc = "scan",
           w.key = 0, w.todo = {}, w.phase # "pass", NEW v, NEW ok \in BOOLEAN,
           ok => w.errors = {} /\ Affected(w) = {},
           v = [w EXCEPT !.pc = "done", !.ok = ok]
    PROVE  v \in WeeklyType /\ RunInv(v) /\ Fixed(w, v)
<1>1. /\ v.pc = "done" /\ v.ok = ok /\ v.todo = w.todo /\ Fixed(w, v)
      /\ v.key = w.key /\ v.messages = w.messages /\ v.rawIds = w.rawIds
      /\ v.cutoffs = w.cutoffs /\ v.pass = w.pass /\ v.unread = w.unread
      /\ v.errors = w.errors /\ v.started = w.started
  BY DEF WeeklyType, Fixed
<1>2. v \in WeeklyType
  BY DEF WeeklyType, WeeklyPc
<1>3. /\ Place(w) /\ Bounded(w) /\ Scanned(w) /\ Repairing(w) /\ Closed(w) /\ Closed(v)
      /\ Scope(v) = Scope(w) /\ Evidenced(v) /\ Scope(w) \subseteq Keys /\ 0 \notin Keys
  BY <1>1, FixedFacts DEF RunInv, Closed, Scope, Keys
<1>4. Place(v)
  BY <1>1, <1>3 DEF Place
<1>5. Bounded(v)
  BY <1>1, <1>3 DEF Bounded
<1>6. Scanned(v)
  BY <1>1, <1>3 DEF Scanned, ReadKeys, ReachesStart
<1>7. ok => \A k \in Scope(w) : Settled(w, k)
  <2> SUFFICES ASSUME ok, NEW k \in Scope(w), NEW m \in live[k], m <= w.cutoffs[k]
               PROVE  m \in RawIds(k)
    BY DEF Settled
  <2>1. k \in Keys /\ m \in Nat /\ w.cutoffs[k] \in Nat /\ w.cutoffs[k] # NoCutoff
    BY <1>3, RunTypes DEF Ids, Bounded
  <2>2. HistoryRead(w, k)
    BY <1>3, <2>1 DEF Scanned, ReadKeys
  <2>3. m \in w.messages[k]
    BY <2>1, <2>2 DEF HistoryRead
  <2>4. m \in w.rawIds[k]
    BY <2>3 DEF Affected, Missing
  <2> QED
    BY <1>3, <2>1, <2>4 DEF Bounded
<1>8. Repairing(v)
  BY <1>1, <1>3, <1>7 DEF Repairing, Settled
<1> QED
  BY <1>1, <1>2, <1>3, <1>4, <1>5, <1>6, <1>8 DEF RunInv

\* The locals after one repair: the scope is the same, and the only cursor
\* that moves is that of the repaired channel.
RepairOf(w, v, k, latest) ==
    /\ v \in WeeklyType /\ Scope(v) = Scope(w)
    /\ v.todo = w.todo \ {k}
    /\ v.pc = w.pc /\ v.phase = w.phase /\ v.key = w.key /\ v.cursor = w.cursor
    /\ v.messages = w.messages /\ v.rawIds = w.rawIds
    /\ v.errors = w.errors /\ v.cutoffs = w.cutoffs /\ v.pass = w.pass
    /\ v.copied = w.copied /\ v.bundle = w.bundle /\ v.ok = w.ok
    /\ v.started = w.started /\ v.before = w.before /\ v.unread = w.unread
    /\ \A j \in Keys :
          /\ v.entries[j].cursor = IF j = k THEN latest ELSE w.entries[j].cursor
          /\ \/ v.items[j].cursor = w.items[j].cursor
             \/ j = k /\ v.items[j].cursor = latest

LEMMA RepairedFacts ==
    ASSUME NEW w \in WeeklyType, NEW k \in Scope(w), NEW latest \in Cursor,
           NEW v, v = Repaired(w, k, latest)
    PROVE  RepairOf(w, v, k, latest)
<1> DEFINE e == [w.entries[k] EXCEPT !.cursor = latest, !.status = "healthy",
                                     !.reason = "none", !.last = w.today]
           i == IF w.items[k].status = "none" THEN w.items[k]
                ELSE [w.items[k] EXCEPT !.status = "caught_up", !.cursor = latest]
           entries == [w.entries EXCEPT ![k] = e]
           items == [w.items EXCEPT ![k] = i]
<1>1. /\ k \in Keys /\ InScope(w.entries[k])
      /\ w.entries \in [Keys -> Entry] /\ w.items \in [Keys -> Item]
      /\ w.entries[k] \in Entry /\ w.items[k] \in Item /\ w.today \in 0..MaxDay
      /\ w.todo \in SUBSET Keys
  BY DEF Scope, WeeklyType, Entries, Items
<1>2. e \in Entry /\ e.cursor = latest /\ InScope(e)
  BY <1>1 DEF Entry, EntryStatus, Reason, InScope, Registered, IsExcluded
<1>3. i \in Item /\ (i.cursor = w.items[k].cursor \/ i.cursor = latest)
  BY <1>1 DEF Item, ItemStatus
<1>4. v = [w EXCEPT !.todo = @ \ {k}, !.entries = entries, !.items = items]
  BY DEF Repaired, WeeklyType
<1> HIDE DEF e, i
<1>5. /\ entries \in [Keys -> Entry] /\ entries[k] = e
      /\ \A j \in Keys \ {k} : entries[j] = w.entries[j]
      /\ items \in [Keys -> Item] /\ items[k] = i
      /\ \A j \in Keys \ {k} : items[j] = w.items[j]
  BY <1>1, <1>2, <1>3
<1> HIDE DEF entries, items
<1>6. v = [pc |-> w.pc, phase |-> w.phase, today |-> w.today,
           entries |-> entries, items |-> items,
           todo |-> w.todo \ {k}, key |-> w.key, cursor |-> w.cursor,
           messages |-> w.messages, rawIds |-> w.rawIds,
           errors |-> w.errors, cutoffs |-> w.cutoffs,
           pass |-> w.pass, copied |-> w.copied, bundle |-> w.bundle,
           ok |-> w.ok, started |-> w.started, before |-> w.before,
           unread |-> w.unread]
  BY <1>4 DEF WeeklyType
<1>7. v \in WeeklyType
  BY <1>1, <1>5, <1>6 DEF WeeklyType, Entries, Items
<1>8. Scope(v) = Scope(w)
  BY <1>1, <1>2, <1>5, <1>6 DEF Scope
<1>9. \A j \in Keys :
         /\ v.entries[j].cursor = IF j = k THEN latest ELSE w.entries[j].cursor
         /\ \/ v.items[j].cursor = w.items[j].cursor
            \/ j = k /\ v.items[j].cursor = latest
  BY <1>1, <1>2, <1>3, <1>5, <1>6
<1> QED
  BY <1>6, <1>7, <1>8, <1>9 DEF RepairOf

\* What is still missing of a channel is appended: all of it within the cutoff
\* is then archived, and the newest id read is a cursor raw supports.
LEMMA AppendRun ==
    ASSUME StoreTypeOK, LiveBounded, RawPosted, WeeklyTypeOK, RunInv(weekly),
           weekly.pc = "append", NEW k \in weekly.todo,
           AppendBatch(k, Missing(weekly, k)), UNCHANGED <<posted, live>>,
           NEW latest \in weekly.messages[k], IsTop(latest, weekly.messages[k]),
           weekly' = Repaired(weekly, k, latest)
    PROVE  /\ ArchiveTypeOK' /\ ArchiveGrows /\ RawPosted'
           /\ WeeklyTypeOK' /\ weekly'.pc = "append" /\ RunInv(weekly)'
           /\ latest \in Cursor /\ Covered(k, latest)'
           /\ RepairOf(weekly, weekly', k, latest)
<1> DEFINE ids == Unarchived(k, Missing(weekly, k))
<1>1. /\ weekly \in WeeklyType /\ Place(weekly) /\ Bounded(weekly) /\ Scanned(weekly)
      /\ Repairing(weekly) /\ Evidenced(weekly) /\ Closed(weekly)
  BY DEF WeeklyTypeOK, RunInv, Closed
<1>2. /\ k \in Scope(weekly) /\ k \in Keys /\ Scope(weekly) \subseteq Keys /\ 0 \notin Keys
      /\ weekly.key = 0 /\ weekly.pass = 1 /\ weekly.copied /\ weekly.errors = {}
      /\ weekly.todo \subseteq Scope(weekly)
  BY <1>1 DEF Place, Scope, Keys
<1>3. /\ \A j \in Keys : /\ posted[j] \in Nat /\ posted[j] <= MaxMsg
                         /\ live[j] \subseteq 1..posted[j] /\ RawIds(j) \subseteq Ids
                         /\ weekly.messages[j] \subseteq Ids
                         /\ weekly.rawIds[j] \subseteq RawIds(j)
                         /\ weekly.cutoffs[j] \in Nat
                         /\ weekly.messages[j] \subseteq 1..posted[j]
                         /\ weekly.messages[j] \subseteq 0..weekly.cutoffs[j]
      /\ raw \in [Keys -> [Ids -> Nat]]
  BY <1>1, RunTypes DEF Bounded, StoreTypeOK
<1>4. ids \in SUBSET Ids /\ ids \subseteq weekly.messages[k]
  BY <1>2, <1>3 DEF Unarchived, Missing
<1>5. raw' = WithCopies(k, ids) /\ UNCHANGED torn
  BY DEF AppendBatch
<1>6. weekly.messages[k] \subseteq RawIds(k) \cup ids
  BY <1>2, <1>3 DEF Unarchived, Missing
<1> HIDE DEF ids
<1>7. /\ ArchiveTypeOK' /\ ArchiveGrows
      /\ \A j \in Keys : RawIds(j)' = RawIds(j) \cup (IF j = k THEN ids ELSE {})
  BY <1>2, <1>3, <1>4, <1>5, WithCopiesFacts DEF ArchiveTypeOK, StoreTypeOK
<1>8. RawPosted'
  BY <1>2, <1>3, <1>4, <1>7 DEF RawPosted
<1>9. latest \in Cursor /\ latest <= posted[k] /\ latest <= weekly.cutoffs[k]
  BY <1>2, <1>3 DEF Ids, Cursor
<1>10. RepairOf(weekly, weekly', k, latest)
  BY <1>1, <1>2, <1>9, RepairedFacts
<1>11. /\ weekly' \in WeeklyType /\ Scope(weekly') = Scope(weekly)
       /\ weekly'.todo = weekly.todo \ {k}
       /\ weekly'.pc = "append" /\ weekly'.phase = weekly.phase /\ weekly'.key = weekly.key
       /\ weekly'.cursor = weekly.cursor
       /\ weekly'.messages = weekly.messages /\ weekly'.rawIds = weekly.rawIds
       /\ weekly'.errors = weekly.errors /\ weekly'.cutoffs = weekly.cutoffs
       /\ weekly'.pass = weekly.pass /\ weekly'.copied = weekly.copied
       /\ weekly'.bundle = weekly.bundle /\ weekly'.started = weekly.started
       /\ weekly'.before = weekly.before /\ weekly'.unread = weekly.unread
       /\ weekly'.ok = weekly.ok
  BY <1>1, <1>10 DEF RepairOf
<1>12. Scope(weekly)' = Scope(weekly)
  BY <1>11 DEF Scope
<1>13. \A j \in Scope(weekly) : HistoryRead(weekly, j) /\ weekly.cutoffs[j] # NoCutoff
  BY <1>1 DEF Scanned, ReadKeys, Bounded
<1>14. Place(weekly)'
  BY <1>2, <1>11, <1>12 DEF Place
<1>15. Bounded(weekly)'
  BY <1>1, <1>7, <1>11, <1>12, <1>13 DEF Bounded, ArchiveGrows
<1>16. Scanned(weekly)'
  BY <1>1, <1>2, <1>11, <1>12, <1>13 DEF Scanned, ReadKeys, HistoryRead, ReachesStart
<1>17. \A m \in live[k] : m <= weekly.cutoffs[k] => m \in RawIds(k)'
  <2> SUFFICES ASSUME NEW m \in live[k], m <= weekly.cutoffs[k] PROVE m \in RawIds(k)'
    OBVIOUS
  <2>1. m \in weekly.messages[k]
    BY <1>2, <1>3, <1>13 DEF HistoryRead
  <2> QED
    BY <1>2, <1>6, <1>7, <2>1
<1>18. Repairing(weekly)'
  <2>1. ASSUME NEW j \in Scope(weekly) \ (weekly.todo \ {k}) PROVE Settled(weekly, j)'
    <3>1. CASE j = k
      BY <1>11, <1>17, <3>1 DEF Settled
    <3>2. CASE j # k
      <4>1. Settled(weekly, j) /\ RawIds(j) \subseteq RawIds(j)'
        BY <1>1, <1>2, <1>7, <2>1, <3>2 DEF Repairing, ArchiveGrows
      <4> QED
        BY <1>11, <4>1 DEF Settled
    <3> QED
      BY <3>1, <3>2
  <2> QED
    BY <1>2, <1>11, <1>12, <2>1 DEF Repairing
<1>19. Evidenced(weekly)'
  <2>1. weekly'.copied /\ \A j \in Scope(weekly) : weekly.bundle[j] = weekly.before[j]
    BY <1>1, <1>2, <1>11 DEF Evidenced
  <2>2. ASSUME NEW j \in Keys \ Scope(weekly) PROVE RawIds(j)' = weekly.before[j]
    <3>1. j \in Keys /\ j # k /\ RawIds(j) = weekly.before[j]
      BY <1>1, <1>2, <2>2 DEF Evidenced
    <3>2. RawIds(j)' = RawIds(j) \cup {}
      BY <1>7, <3>1
    <3>3. RawIds(j)' = RawIds(j)
      BY <3>2
    <3> QED
      BY <3>1, <3>3
  <2>3. weekly'.bundle = weekly.bundle /\ weekly'.before = weekly.before
    BY <1>11
  <2>4. /\ \A j \in Scope(weekly)' : weekly'.bundle[j] = weekly'.before[j]
        /\ \A j \in Keys \ Scope(weekly)' : RawIds(j)' = weekly'.before[j]
    BY <1>12, <2>1, <2>2, <2>3
  <2> QED
    BY <2>1, <2>4, Zenon DEF Evidenced
<1>20. Covered(k, latest)'
  BY <1>2, <1>3, <1>9, <1>17 DEF Covered, Ids
<1> QED
  BY <1>7, <1>8, <1>9, <1>11, <1>14, <1>15, <1>16, <1>18, <1>19, <1>20, <1>10
     DEF RunInv, WeeklyTypeOK

-----------------------------------------------------------------------------
(* The run while others take steps.                                        *)

\* What is true of the next record in the present world is true next, if
\* Discord and raw stand still.
LEMMA SameRun ==
    ASSUME UNCHANGED <<posted, live, raw>>, RunInv(weekly')
    PROVE  RunInv(weekly)'
<1>1. \A k \in Keys : RawIds(k)' = RawIds(k)
  BY DEF RawIds
<1>2. Scope(weekly') = Scope(weekly)'
  BY DEF Scope
<1>3. Place(weekly)'
  BY <1>2 DEF RunInv, Place, Unstarted, Closed
<1>4. Bounded(weekly)'
  BY <1>1, <1>2 DEF RunInv, Bounded, Closed
<1>5. Scanned(weekly)'
  BY <1>2 DEF RunInv, Scanned, ReadKeys, ReadTo, HistoryRead, ReachesStart
<1>6. Repairing(weekly)'
  BY <1>1, <1>2 DEF RunInv, Repairing, Settled, Within, Scope
<1>7. Evidenced(weekly)'
  BY <1>1, <1>2 DEF RunInv, Evidenced
<1> QED
  BY <1>3, <1>4, <1>5, <1>6, <1>7 DEF RunInv

\* New messages are newer than all that was seen, and than the start of the
\* run and every boundary.
LEMMA RunEnvironment ==
    ASSUME StoreTypeOK, StoreTypeOK', WeeklyTypeOK, LocksWeekly(weekly.pc), RunInv(weekly),
           HistoryKept, UNCHANGED <<weekly, raw>>
    PROVE  RunInv(weekly)'
<1>1. /\ weekly \in WeeklyType /\ Place(weekly) /\ Bounded(weekly) /\ Scanned(weekly)
      /\ Repairing(weekly) /\ Evidenced(weekly) /\ Scope(weekly) \subseteq Keys
      /\ 0 \notin Keys /\ weekly.key \in Keys \cup {0}
  BY DEF WeeklyTypeOK, WeeklyType, RunInv, Scope, Keys
<1>2. \A k \in Keys :
         /\ posted[k] \in Nat /\ posted[k] <= MaxMsg /\ posted'[k] \in Nat
         /\ posted'[k] <= MaxMsg /\ posted[k] <= posted'[k]
         /\ \A m \in live'[k] : m \in Ids /\ (m \in live[k] \/ m > posted[k])
         /\ weekly.messages[k] \subseteq 1..posted[k]
         /\ weekly.rawIds[k] \subseteq 1..posted[k]
         /\ weekly.started[k] \in Nat /\ weekly.cutoffs[k] \in Nat
         /\ weekly.started[k] <= posted[k]
         /\ weekly.cutoffs[k] # NoCutoff => weekly.cutoffs[k] <= posted[k]
  <2>1. /\ posted \in [Keys -> Cursor] /\ posted' \in [Keys -> Cursor]
        /\ live' \in [Keys -> SUBSET Ids]
        /\ weekly.started \in [Keys -> Cursor] /\ weekly.cutoffs \in [Keys -> 0..NoCutoff]
    BY DEF StoreTypeOK, WeeklyTypeOK, WeeklyType
  <2> QED
    BY <1>1, <2>1 DEF Bounded, HistoryKept, Cursor, NoCutoff
<1>3. \A k \in Keys : RawIds(k)' = RawIds(k)
  BY DEF RawIds
<1>4. Scope(weekly)' = Scope(weekly) /\ weekly' = weekly
  BY DEF Scope
<1>5. Place(weekly)'
  BY <1>1, <1>4 DEF Place, Unstarted, Closed
<1>6. Bounded(weekly)'
  <2>1. ASSUME NEW k \in Keys
        PROVE  /\ weekly.messages[k] \cup weekly.rawIds[k] \subseteq 1..posted'[k]
               /\ weekly.started[k] <= posted'[k]
               /\ weekly.cutoffs[k] # NoCutoff => weekly.cutoffs[k] <= posted'[k]
    BY <1>2
  <2> QED
    BY <1>1, <1>3, <1>4, <2>1 DEF Bounded, Closed
<1>7. ASSUME NEW k \in Keys, NEW m \in live'[k], m \notin live[k]
      PROVE  /\ m > weekly.started[k]
             /\ \A j \in weekly.messages[k] \cup weekly.rawIds[k] : j < m
             /\ weekly.cutoffs[k] # NoCutoff => m > weekly.cutoffs[k]
             /\ m \in Nat /\ m > posted[k]
  BY <1>2, <1>7 DEF Ids
<1>8. Scanned(weekly)'
  <2>1. weekly.key # 0 => /\ weekly.cursor <= posted'[weekly.key]
                          /\ ReadTo(weekly, weekly.key, weekly.cursor)'
    <3> SUFFICES ASSUME weekly.key # 0
                 PROVE  /\ weekly.cursor <= posted'[weekly.key]
                        /\ ReadTo(weekly, weekly.key, weekly.cursor)'
      OBVIOUS
    <3>1. /\ weekly.key \in Keys /\ weekly.cursor <= posted[weekly.key]
          /\ ReadTo(weekly, weekly.key, weekly.cursor)
          /\ weekly.cursor \in Nat
      BY <1>1 DEF Scanned, WeeklyType, Cursor
    <3>2. \A m \in live'[weekly.key] : m <= weekly.cursor => m \in live[weekly.key]
      BY <1>2, <1>7, <3>1
    <3> QED
      BY <1>2, <1>4, <3>1, <3>2 DEF ReadTo
  <2>2. ASSUME NEW k \in ReadKeys(weekly) PROVE HistoryRead(weekly, k)'
    <3>1. k \in Keys /\ HistoryRead(weekly, k)
      BY <1>1, <2>2 DEF Scanned, ReadKeys
    <3> QED
      BY <1>4, <1>7, <3>1 DEF HistoryRead
  <2>3. ReadKeys(weekly)' = ReadKeys(weekly)
    BY <1>4 DEF ReadKeys
  <2>4. ReachesStart(weekly)'
    <3>1. ASSUME NEW k \in Keys, NEW m \in live'[k], m <= weekly.started[k]
          PROVE  m \in live[k]
      BY <1>2, <1>7, <3>1
    <3> QED
      BY <1>1, <1>4, <3>1 DEF Scanned, ReachesStart
  <2> QED
    BY <1>4, <2>1, <2>2, <2>3, <2>4 DEF Scanned
<1>9. \A k \in Scope(weekly) :
         weekly.cutoffs[k] # NoCutoff /\ Settled(weekly, k) => Settled(weekly, k)'
  <2> SUFFICES ASSUME NEW k \in Scope(weekly), weekly.cutoffs[k] # NoCutoff,
                      Settled(weekly, k), NEW m \in live'[k], m <= weekly.cutoffs[k]
               PROVE  m \in RawIds(k)
    BY <1>1, <1>3, <1>4 DEF Settled
  <2>1. m \in live[k]
    BY <1>1, <1>2, <1>7
  <2> QED
    BY <2>1 DEF Settled
<1>10. Closed(weekly) => \A k \in Scope(weekly) : weekly.cutoffs[k] # NoCutoff
  BY <1>1 DEF Bounded
<1>11. /\ weekly.pc = "append" \/ weekly.pc = "queue" \/ weekly.pc = "done" => Closed(weekly)
       /\ weekly.pc = "scan" /\ weekly.pass >= 2 => Closed(weekly)
       /\ weekly.pass >= 2 => Closed(weekly)
  <2>1. weekly.pc \in {"report", "scan", "evidence", "append", "queue", "done"}
    BY <1>1 DEF LocksWeekly, WeeklyType, WeeklyPc
  <2>2. weekly.pc = "report" => weekly.pass = 0
    BY <1>1 DEF Place, Unstarted
  <2> QED
    BY <2>1, <2>2 DEF Closed
<1>12. Repairing(weekly)'
  BY <1>1, <1>3, <1>4, <1>9, <1>10, <1>11 DEF Repairing, Within
<1>13. Evidenced(weekly)'
  BY <1>1, <1>3, <1>4 DEF Evidenced
<1> QED
  BY <1>5, <1>6, <1>8, <1>12, <1>13 DEF RunInv

-----------------------------------------------------------------------------
(* What a step of the weekly run has to show to keep the invariant.        *)

LEMMA WeeklyFrame ==
    ASSUME WInv, UNCHANGED <<posted, live, worker>>, StoreTypeOK', RawPosted',
           weekly' \in WeeklyType,
           (lock' = "worker") <=> (lock = "worker"),
           (lock' = "weekly") <=> LocksWeekly(weekly'.pc),
           \A k \in Keys \ Damaged : HeldCovered(k)' /\ WeeklyCovered(weekly, k)',
           ~LocksWeekly(weekly'.pc) => Unstarted(weekly'),
           LocksWeekly(weekly'.pc) => RunInv(weekly)'
    PROVE  WInv'
<1>1. WorkerSide'
  BY DEF WInv, WorkerSide, WorkerTypeOK, LiveBounded, CandidateHeld, PageComplete
<1>2. WeeklyTypeOK'
  BY DEF WeeklyTypeOK
<1>3. (lock = "weekly" <=> LocksWeekly(weekly.pc))'
  BY DEF LocksWeekly
<1>4. (~LocksWeekly(weekly.pc) => Unstarted(weekly))'
  BY DEF Unstarted, LocksWeekly
<1>5. (LocksWeekly(weekly.pc) => RunInv(weekly))'
  BY DEF LocksWeekly
<1> QED
  BY <1>1, <1>2, <1>3, <1>4, <1>5 DEF WInv

\* A step on the run's locals that takes up covered cursors only.
LEMMA WeeklyLocal ==
    ASSUME WInv, UNCHANGED <<discordVars, archiveVars, ledgerVars, worker>>,
           faults' \in 0..MaxFaults, weekly' \in WeeklyType,
           lock' \in Jobs \cup {Free},
           (lock' = "worker") <=> (lock = "worker"),
           (lock' = "weekly") <=> LocksWeekly(weekly'.pc),
           \A k \in Keys \ Damaged : WeeklyCovered(weekly', k),
           ~LocksWeekly(weekly'.pc) => Unstarted(weekly'),
           LocksWeekly(weekly'.pc) => RunInv(weekly')
    PROVE  WInv'
<1>1. StoreTypeOK'
  BY DEF WInv, WorkerSide, StoreTypeOK, discordVars, archiveVars, ledgerVars
<1>2. UNCHANGED <<posted, live, raw, worker>>
  BY DEF discordVars, archiveVars
<1>3. RawPosted'
  BY <1>2 DEF WInv, RawPosted, RawIds
<1>4. ASSUME NEW k \in Keys \ Damaged PROVE HeldCovered(k)' /\ WeeklyCovered(weekly, k)'
  <2>1. Held(k)' = Held(k) /\ ArchiveGrows
    BY <1>2, UnchangedRawGrows, OwnCursors DEF Held, CursorsOf, ledgerVars
  <2>2. HeldCovered(k)'
    BY <1>2, <2>1, SameHeld DEF WInv
  <2>3. WeeklyCovered(weekly, k)'
    BY <1>2, SameCoverage DEF WeeklyCovered
  <2> QED
    BY <2>2, <2>3
<1>5. LocksWeekly(weekly'.pc) => RunInv(weekly)'
  BY <1>2, SameRun
<1> QED
  BY <1>1, <1>2, <1>3, <1>4, <1>5, WeeklyFrame

\* A step of a run that holds the lock and moves no cursor.
LEMMA RunStep ==
    ASSUME WInv, LocksWeekly(weekly.pc),
           UNCHANGED <<discordVars, archiveVars, ledgerVars, lock, worker>>,
           faults' \in 0..MaxFaults, weekly' \in WeeklyType, RunInv(weekly'),
           LocksWeekly(weekly'.pc),
           weekly'.entries = weekly.entries, weekly'.items = weekly.items
    PROVE  WInv'
<1>1. /\ lock = "weekly" /\ lock' = "weekly"
  BY DEF WInv, LocksWeekly
<1>2. \A k \in Keys \ Damaged : WeeklyCovered(weekly', k)
  BY DEF WInv, WeeklyCovered
<1> QED
  BY <1>1, <1>2, WeeklyLocal DEF Jobs

\* The end of a run, planned or not: the lock is free, the ledgers are as
\* they were.
LEMMA RunEnds ==
    ASSUME WInv, UNCHANGED <<discordVars, ledgerVars, worker>>,
           faults' \in 0..MaxFaults, weekly' = IdleWeekly,
           lock' = IF lock = "weekly" THEN Free ELSE lock,
           ArchiveTypeOK', ArchiveGrows, RawPosted'
    PROVE  WInv'
<1>1. /\ weekly' \in WeeklyType /\ weekly'.pc = "idle"
      /\ \A k \in Keys : weekly'.entries[k].cursor = 0 /\ weekly'.items[k].cursor = 0
  BY IdleWeeklyTypes DEF IdleWeekly, NoEntries, NoItems, NoEntry, NoItem
<1>2. /\ lock \in Jobs \cup {Free} /\ lock' \in Jobs \cup {Free}
      /\ lock' # "weekly" /\ ((lock' = "worker") <=> (lock = "worker"))
  BY DEF WInv, WorkerSide, StoreTypeOK, Jobs, Free
<1>3. StoreTypeOK'
  BY <1>2 DEF WInv, WorkerSide, StoreTypeOK, discordVars, ledgerVars, ArchiveTypeOK
<1>4. ASSUME NEW k \in Keys \ Damaged PROVE HeldCovered(k)' /\ WeeklyCovered(weekly, k)'
  <2>1. Held(k)' = Held(k)
    BY DEF Held, CursorsOf, ledgerVars
  <2>2. HeldCovered(k)'
    BY <2>1, SameHeld DEF WInv, discordVars
  <2>3. Covered(k, 0)'
    BY <1>3, ZeroCovered DEF StoreTypeOK, Covered, Cursor, Ids
  <2> QED
    BY <1>1, <2>2, <2>3 DEF WeeklyCovered
<1>5. UNCHANGED <<posted, live, worker>>
  BY DEF discordVars
<1>6. Unstarted(weekly')
  BY DEF Unstarted, IdleWeekly
<1> QED
  BY <1>1, <1>2, <1>3, <1>4, <1>5, <1>6, WeeklyFrame DEF LocksWeekly

-----------------------------------------------------------------------------
(* Before the lock.                                                        *)

\* A run that changes nothing but its own record, faults included.
LEMMA QuietFacts ==
    ASSUME WInv, UNCHANGED faults
    PROVE  /\ faults' \in 0..MaxFaults /\ lock \in Jobs \cup {Free}
           /\ weekly \in WeeklyType /\ StoreTypeOK /\ LiveBounded
           /\ stateFile.entries \in Entries /\ queueFile.items \in Items
           /\ day \in 0..MaxDay /\ stateFile \in StateFiles /\ queueFile \in QueueFiles
BY DEF WInv, WorkerSide, StoreTypeOK, WeeklyTypeOK, StateFiles, QueueFiles

\* A run that gives up before it has the lock.
LEMMA GivesUp ==
    ASSUME WInv, weekly.pc \in {"load", "lock"}, weekly' = IdleWeekly,
           UNCHANGED <<storeVars, worker>>
    PROVE  WInv'
<1>1. /\ lock # "weekly" /\ UNCHANGED <<discordVars, archiveVars, ledgerVars, lock, faults>>
  BY DEF WInv, LocksWeekly, storeVars
<1>2. faults' \in 0..MaxFaults
  BY <1>1, QuietFacts
<1>3. ArchiveTypeOK' /\ ArchiveGrows /\ RawPosted'
  BY <1>1, UnchangedRawGrows
     DEF WInv, WorkerSide, StoreTypeOK, ArchiveTypeOK, archiveVars, discordVars,
         RawPosted, RawIds
<1> QED
  BY <1>1, <1>2, <1>3, RunEnds

LEMMA WeeklyStartKeeps ==
    ASSUME WInv, WeeklyStart, UNCHANGED worker
    PROVE  WInv'
<1> DEFINE entries == stateFile.entries
<1>1. /\ weekly.pc = "idle"
      /\ weekly' = [IdleWeekly EXCEPT !.pc = "load", !.today = day, !.entries = entries]
      /\ UNCHANGED <<discordVars, archiveVars, ledgerVars, lock, faults>>
  BY DEF WeeklyStart, storeVars
<1>2. /\ faults' \in 0..MaxFaults /\ lock \in Jobs \cup {Free}
      /\ entries \in Entries /\ day \in 0..MaxDay
  BY <1>1, QuietFacts
<1>3. \A k \in Keys \ Damaged : Covered(k, 0) /\ Covered(k, entries[k].cursor)
  BY DEF WInv, HeldCovered, Held
<1> HIDE DEF entries
<1>4. /\ weekly'.pc = "load" /\ weekly'.entries = entries /\ weekly'.items = NoItems
      /\ weekly' \in WeeklyType
  BY <1>1, <1>2, IdleWeeklyTypes DEF WeeklyType, WeeklyPc, IdleWeekly
<1>5. Unstarted(weekly')
  BY <1>1 DEF Unstarted, IdleWeekly
<1>6. \A k \in Keys \ Damaged : WeeklyCovered(weekly', k)
  BY <1>3, <1>4 DEF WeeklyCovered, NoItems, NoItem
<1>7. lock # "weekly"
  BY <1>1 DEF WInv, LocksWeekly
<1> QED
  BY <1>1, <1>2, <1>4, <1>5, <1>6, <1>7, WeeklyLocal DEF LocksWeekly

LEMMA WeeklyLoadQueueKeeps ==
    ASSUME WInv, WeeklyLoadQueue, UNCHANGED worker
    PROVE  WInv'
<1> DEFINE items == queueFile.items
<1>1. weekly.pc = "load" /\ UNCHANGED storeVars
  BY DEF WeeklyLoadQueue
<1>2. CASE ~queueFile.ok
  BY <1>1, <1>2, GivesUp DEF WeeklyLoadQueue
<1>3. CASE queueFile.ok
  <2>1. /\ weekly' = [weekly EXCEPT !.pc = "lock", !.items = items]
        /\ UNCHANGED <<discordVars, archiveVars, ledgerVars, lock, faults>>
    BY <1>1, <1>3 DEF WeeklyLoadQueue, storeVars
  <2>2. /\ faults' \in 0..MaxFaults /\ lock \in Jobs \cup {Free}
        /\ items \in Items /\ weekly \in WeeklyType
    BY <2>1, QuietFacts
  <2>3. \A k \in Keys \ Damaged :
           Covered(k, items[k].cursor) /\ Covered(k, weekly.entries[k].cursor)
    BY DEF WInv, HeldCovered, Held, WeeklyCovered
  <2> HIDE DEF items
  <2>4. /\ weekly'.pc = "lock" /\ weekly'.entries = weekly.entries /\ weekly'.items = items
        /\ weekly' \in WeeklyType
    BY <2>1, <2>2 DEF WeeklyType, WeeklyPc
  <2>5. Unstarted(weekly')
    <3>1. Unstarted(weekly)
      BY <1>1 DEF WInv, LocksWeekly
    <3> QED
      BY <2>1, <2>2, <3>1 DEF Unstarted, WeeklyType
  <2>6. \A k \in Keys \ Damaged : WeeklyCovered(weekly', k)
    BY <2>3, <2>4 DEF WeeklyCovered
  <2>7. lock # "weekly"
    BY <1>1 DEF WInv, LocksWeekly
  <2> QED
    BY <2>1, <2>2, <2>4, <2>5, <2>6, <2>7, WeeklyLocal DEF LocksWeekly
<1> QED
  BY <1>2, <1>3

LEMMA WeeklyLockKeeps ==
    ASSUME WInv, WeeklyLock, UNCHANGED worker
    PROVE  WInv'
<1>1. /\ weekly.pc = "lock" /\ lock = Free /\ lock' = "weekly"
      /\ UNCHANGED <<discordVars, archiveVars, ledgerVars, faults>>
      /\ weekly' = IF ReportKey = 0 THEN BeginPass(Locked(weekly))
                   ELSE [Locked(weekly) EXCEPT !.pc = "report"]
  BY DEF WeeklyLock, Locked
<1>2. /\ faults' \in 0..MaxFaults /\ weekly \in WeeklyType /\ StoreTypeOK /\ LiveBounded
      /\ Unstarted(weekly)
  BY <1>1, QuietFacts DEF WInv, LocksWeekly
<1>3. /\ weekly' \in WeeklyType /\ RunInv(weekly')
      /\ weekly'.entries = weekly.entries /\ weekly'.items = weekly.items
  BY <1>1, <1>2, LockRun
<1>4. weekly'.pc \in {"scan", "report"}
  <2>1. BeginPass(Locked(weekly)).pc = "scan"
    BY <1>2 DEF BeginPass, BeginScan, Locked, WeeklyType
  <2>2. [Locked(weekly) EXCEPT !.pc = "report"].pc = "report"
    BY <1>2 DEF Locked, WeeklyType
  <2> QED
    BY <1>1, <2>1, <2>2
<1>5. \A k \in Keys \ Damaged : WeeklyCovered(weekly', k)
  BY <1>3 DEF WInv, WeeklyCovered
<1> QED
  BY <1>1, <1>2, <1>3, <1>4, <1>5, WeeklyLocal DEF LocksWeekly, Jobs, Free

-----------------------------------------------------------------------------
(* With the lock.                                                          *)

\* What a step may take for granted of a run that holds the lock.
LEMMA RunFacts ==
    ASSUME WInv, LocksWeekly(weekly.pc)
    PROVE  /\ weekly \in WeeklyType /\ RunInv(weekly) /\ WeeklyTypeOK
           /\ StoreTypeOK /\ LiveBounded /\ RawPosted /\ lock = "weekly"
           /\ weekly.key \in Keys \cup {0} /\ weekly.todo \in SUBSET Keys
           /\ weekly.cursor \in Cursor
           /\ UNCHANGED faults => faults' \in 0..MaxFaults
           /\ Fault => faults' \in 0..MaxFaults
           /\ \A k : ReadFails(k) => faults' \in 0..MaxFaults
           /\ \A k : ReadSucceeds(k) => UNCHANGED faults
<1>1. /\ StoreTypeOK /\ weekly \in WeeklyType
  BY DEF WInv, WorkerSide, WeeklyTypeOK
<1>2. /\ UNCHANGED faults => faults' \in 0..MaxFaults
      /\ Fault => faults' \in 0..MaxFaults
      /\ \A k : ReadFails(k) => faults' \in 0..MaxFaults
      /\ \A k : ReadSucceeds(k) => UNCHANGED faults
  BY <1>1, FaultTypes DEF StoreTypeOK, ReadSucceeds
<1>3. /\ weekly.key \in Keys \cup {0} /\ weekly.todo \in SUBSET Keys
      /\ weekly.cursor \in Cursor
  BY <1>1 DEF WeeklyType
<1> QED
  BY <1>1, <1>2, <1>3 DEF WInv, WorkerSide

\* A step of the run itself: the record keeps what it knows, and the ledgers
\* and raw are as they were.
LEMMA RunKeeps ==
    ASSUME WInv, LocksWeekly(weekly.pc),
           UNCHANGED <<discordVars, archiveVars, ledgerVars, lock, worker>>,
           faults' \in 0..MaxFaults,
           weekly' \in WeeklyType, RunInv(weekly'), Fixed(weekly, weekly'),
           LocksWeekly(weekly'.pc)
    PROVE  WInv'
BY RunStep DEF Fixed

LEMMA ScanPc ==
    ASSUME NEW w \in WeeklyType, NEW keys, NEW phase
    PROVE  BeginScan(w, keys, phase).pc = "scan" /\ BeginPass(w).pc = "scan"
BY DEF BeginScan, BeginPass, WeeklyType

LEMMA WeeklyReportKeeps ==
    ASSUME WInv, WeeklyReport, UNCHANGED worker
    PROVE  WInv'
<1>1. PICK latest \in Cursor :
         /\ IF live[ReportKey] = {} THEN latest = 0 ELSE IsTop(latest, live[ReportKey])
         /\ weekly' = BeginPass([weekly EXCEPT !.cutoffs[ReportKey] = latest])
  BY DEF WeeklyReport
<1>2. /\ weekly.pc = "report" /\ LocksWeekly(weekly.pc) /\ ReportKey \in Scope(weekly)
      /\ ReadSucceeds(ReportKey)
      /\ UNCHANGED <<discordVars, archiveVars, ledgerVars, lock>>
  BY DEF WeeklyReport, LocksWeekly
<1>3. weekly' \in WeeklyType /\ RunInv(weekly') /\ Fixed(weekly, weekly')
  BY <1>1, <1>2, RunFacts, ReportRun
<1>4. weekly'.pc = "scan"
  BY <1>1, <1>2, RunFacts DEF BeginPass, BeginScan, WeeklyType
<1>5. faults' \in 0..MaxFaults
  BY <1>2, RunFacts
<1> QED
  BY <1>2, <1>3, <1>4, <1>5, RunKeeps DEF LocksWeekly

LEMMA WeeklyReportFailsKeeps ==
    ASSUME WInv, WeeklyReportFails, UNCHANGED worker
    PROVE  WInv'
<1>1. /\ LocksWeekly(weekly.pc) /\ weekly' = IdleWeekly /\ lock' = Free
      /\ UNCHANGED <<discordVars, archiveVars, ledgerVars>>
      /\ ReadFails(ReportKey) \/ UNCHANGED faults
  BY DEF WeeklyReportFails, LocksWeekly
<1>2. faults' \in 0..MaxFaults /\ lock = "weekly" /\ StoreTypeOK /\ RawPosted
  BY <1>1, RunFacts
<1>3. ArchiveTypeOK' /\ ArchiveGrows /\ RawPosted'
  BY <1>1, <1>2, UnchangedRawGrows
     DEF StoreTypeOK, ArchiveTypeOK, archiveVars, discordVars, RawPosted, RawIds
<1> QED
  BY <1>1, <1>2, <1>3, RunEnds

LEMMA WeeklyOpenKeeps ==
    ASSUME WInv, WeeklyOpen, UNCHANGED worker
    PROVE  WInv'
<1> DEFINE k == FirstOf(weekly.todo)
<1>1. /\ weekly.pc = "scan" /\ LocksWeekly(weekly.pc) /\ weekly.key = 0
      /\ weekly.todo # {}
      /\ weekly' = [weekly EXCEPT !.key = k, !.todo = @ \ {k}, !.cursor = 0,
                                  !.messages[k] = {},
                                  !.rawIds[k] = Within(weekly, k, RawIds(k))]
      /\ UNCHANGED <<discordVars, archiveVars, ledgerVars, lock, faults>>
  BY DEF WeeklyOpen, LocksWeekly, storeVars
<1>2. k \in weekly.todo
  BY <1>1, RunFacts, FirstOfFacts
<1> HIDE DEF k
<1>3. weekly' \in WeeklyType /\ RunInv(weekly') /\ Fixed(weekly, weekly')
  BY <1>1, <1>2, RunFacts, OpenRun
<1>4. weekly'.pc = "scan"
  BY <1>1, RunFacts DEF WeeklyType
<1> QED
  BY <1>1, <1>3, <1>4, RunFacts, RunKeeps DEF LocksWeekly

LEMMA WeeklyFetchKeeps ==
    ASSUME WInv, WeeklyFetch, UNCHANGED worker
    PROVE  WInv'
<1> DEFINE k == weekly.key
<1>1. /\ weekly.pc = "scan" /\ LocksWeekly(weekly.pc) /\ k # 0
      /\ ReadSucceeds(k) /\ UNCHANGED <<discordVars, archiveVars, ledgerVars, lock>>
      /\ \/ Page(k, weekly.cursor, ScanLimit) = {} /\ weekly' = [weekly EXCEPT !.key = 0]
         \/ \E top \in Page(k, weekly.cursor, ScanLimit) :
               /\ IsTop(top, Page(k, weekly.cursor, ScanLimit))
               /\ weekly' = Fetched(weekly, k, top)
  BY DEF WeeklyFetch, LocksWeekly, Fetched
<1>2. k \in Keys /\ faults' \in 0..MaxFaults
  BY <1>1, RunFacts
<1>3. /\ weekly' \in WeeklyType /\ RunInv(weekly') /\ Fixed(weekly, weekly')
      /\ weekly'.pc = "scan"
  <2>1. CASE Page(k, weekly.cursor, ScanLimit) = {} /\ weekly' = [weekly EXCEPT !.key = 0]
    <3>1. weekly' \in WeeklyType /\ RunInv(weekly') /\ Fixed(weekly, weekly')
      BY <1>1, <1>2, <2>1, RunFacts, ReadRun
    <3>2. weekly'.pc = "scan"
      BY <1>1, <2>1, RunFacts DEF WeeklyType
    <3> QED
      BY <3>1, <3>2
  <2>2. ASSUME NEW top \in Page(k, weekly.cursor, ScanLimit),
               IsTop(top, Page(k, weekly.cursor, ScanLimit)),
               weekly' = Fetched(weekly, k, top)
        PROVE  /\ weekly' \in WeeklyType /\ RunInv(weekly') /\ Fixed(weekly, weekly')
               /\ weekly'.pc = "scan"
    <3>1. weekly' \in WeeklyType /\ RunInv(weekly') /\ Fixed(weekly, weekly')
      BY <1>1, <1>2, <2>2, RunFacts, FetchRun
    <3>2. weekly'.pc = "scan"
      BY <1>1, <2>2, RunFacts DEF Fetched, WeeklyType
    <3> QED
      BY <3>1, <3>2
  <2> QED
    BY <1>1, <2>1, <2>2
<1> QED
  BY <1>1, <1>2, <1>3, RunKeeps DEF LocksWeekly

LEMMA WeeklyFetchFailsKeeps ==
    ASSUME WInv, WeeklyFetchFails, UNCHANGED worker
    PROVE  WInv'
<1>1. /\ weekly.pc = "scan" /\ LocksWeekly(weekly.pc) /\ weekly.key # 0
      /\ ReadFails(weekly.key) /\ UNCHANGED <<discordVars, archiveVars, ledgerVars, lock>>
      /\ weekly' = Unreadable(weekly, weekly.key)
  BY DEF WeeklyFetchFails, LocksWeekly, Unreadable
<1>2. weekly.key \in Keys /\ faults' \in 0..MaxFaults
  BY <1>1, RunFacts
<1>3. weekly' \in WeeklyType /\ RunInv(weekly') /\ Fixed(weekly, weekly')
  BY <1>1, <1>2, RunFacts, FetchFailsRun
<1>4. weekly'.pc = "scan"
  BY <1>1, RunFacts DEF Unreadable, WeeklyType
<1> QED
  BY <1>1, <1>2, <1>3, <1>4, RunKeeps DEF LocksWeekly

LEMMA WeeklyClosePassKeeps ==
    ASSUME WInv, WeeklyClosePass, UNCHANGED worker
    PROVE  WInv'
<1>1. /\ weekly.pc = "scan" /\ LocksWeekly(weekly.pc) /\ weekly.key = 0
      /\ weekly.todo = {} /\ weekly.phase = "pass"
      /\ weekly' = IF weekly.errors # {} \/ Affected(weekly) = {}
                   THEN BeginScan(Boundaries(weekly), Scope(Boundaries(weekly)), "final")
                   ELSE [Boundaries(weekly) EXCEPT !.pc = "evidence"]
      /\ UNCHANGED <<discordVars, archiveVars, ledgerVars, lock, faults>>
  BY DEF WeeklyClosePass, ScanDone, LocksWeekly, Boundaries, storeVars
<1>2. weekly' \in WeeklyType /\ RunInv(weekly') /\ Fixed(weekly, weekly')
  BY <1>1, RunFacts, CloseRun
<1>3. Boundaries(weekly) \in WeeklyType
  BY <1>1, RunFacts, BoundariesFacts
<1>4. weekly'.pc \in {"scan", "evidence"}
  <2>1. BeginScan(Boundaries(weekly), Scope(Boundaries(weekly)), "final").pc = "scan"
    BY <1>3, ScanPc
  <2>2. [Boundaries(weekly) EXCEPT !.pc = "evidence"].pc = "evidence"
    BY <1>3 DEF WeeklyType
  <2> QED
    BY <1>1, <2>1, <2>2
<1> QED
  BY <1>1, <1>2, <1>4, RunFacts, RunKeeps DEF LocksWeekly

LEMMA WeeklyEvidenceKeeps ==
    ASSUME WInv, WeeklyEvidence, UNCHANGED worker
    PROVE  WInv'
<1>1. /\ weekly.pc = "evidence" /\ LocksWeekly(weekly.pc)
      /\ weekly' = Copied(weekly)
      /\ UNCHANGED <<discordVars, archiveVars, ledgerVars, lock, faults>>
  BY DEF WeeklyEvidence, LocksWeekly, Copied, storeVars
<1>2. /\ weekly' \in WeeklyType /\ RunInv(weekly')
      /\ weekly'.entries = weekly.entries /\ weekly'.items = weekly.items
  BY <1>1, RunFacts, EvidenceRun
<1>3. weekly'.pc = "append"
  BY <1>1, RunFacts DEF Copied, WeeklyType
<1> QED
  BY <1>1, <1>2, <1>3, RunFacts, RunStep DEF LocksWeekly

LEMMA WeeklyAppendKeeps ==
    ASSUME WInv, WeeklyAppend, UNCHANGED worker
    PROVE  WInv'
<1>1. /\ weekly.pc = "append" /\ LocksWeekly(weekly.pc) /\ weekly.todo # {}
      /\ UNCHANGED <<discordVars, ledgerVars, lock, faults>>
  BY DEF WeeklyAppend, LocksWeekly
<1>2. PICK k \in weekly.todo : k = FirstOf(weekly.todo)
  BY <1>1, RunFacts, FirstOfFacts
<1>3. AppendBatch(k, Missing(weekly, k)) /\ \E latest \in weekly.messages[k] :
         IsTop(latest, weekly.messages[k]) /\ weekly' = Repaired(weekly, k, latest)
  BY <1>2 DEF WeeklyAppend
<1>4. PICK latest \in weekly.messages[k] :
         IsTop(latest, weekly.messages[k]) /\ weekly' = Repaired(weekly, k, latest)
  BY <1>3
<1>5. UNCHANGED <<posted, live, worker>>
  BY <1>1 DEF discordVars
<1>6. /\ ArchiveTypeOK' /\ ArchiveGrows /\ RawPosted'
      /\ WeeklyTypeOK' /\ weekly'.pc = "append" /\ RunInv(weekly)'
      /\ latest \in Cursor /\ Covered(k, latest)'
      /\ RepairOf(weekly, weekly', k, latest)
  <2>1. /\ StoreTypeOK /\ LiveBounded /\ RawPosted /\ WeeklyTypeOK /\ RunInv(weekly)
        /\ UNCHANGED <<posted, live>>
    BY <1>1, <1>5, RunFacts
  <2> QED
    BY <1>1, <1>2, <1>3, <1>4, <2>1, AppendRun
<1>7. StoreTypeOK'
  BY <1>1, <1>6 DEF WInv, WorkerSide, StoreTypeOK, ArchiveTypeOK, discordVars, ledgerVars
<1>8. ASSUME NEW j \in Keys \ Damaged PROVE HeldCovered(j)' /\ WeeklyCovered(weekly, j)'
  <2>1. Held(j)' = Held(j)
    BY <1>1, <1>5 DEF Held, CursorsOf, ledgerVars
  <2>2. HeldCovered(j)'
    BY <1>5, <1>6, <2>1, SameHeld DEF WInv
  <2>3. \A c : Covered(j, c) => Covered(j, c)'
    BY <1>5, <1>6 DEF Covered, ArchiveGrows
  <2>4. WeeklyCovered(weekly, j)'
    <3>1. WeeklyCovered(weekly, j)
      BY DEF WInv
    <3>2. /\ weekly'.entries[j].cursor = IF j = k THEN latest ELSE weekly.entries[j].cursor
          /\ \/ weekly'.items[j].cursor = weekly.items[j].cursor
             \/ j = k /\ weekly'.items[j].cursor = latest
      BY <1>6 DEF RepairOf
    <3> QED
      BY <1>6, <2>3, <3>1, <3>2 DEF WeeklyCovered
  <2> QED
    BY <2>2, <2>4
<1>9. lock = "weekly" /\ lock' = "weekly"
  BY <1>1, RunFacts
<1> QED
  BY <1>5, <1>6, <1>7, <1>8, <1>9, WeeklyFrame DEF LocksWeekly, WeeklyTypeOK

\* The state file takes the run's entries; what the run may write is covered.
LEMMA WeeklyReplaceStateKeeps ==
    ASSUME WInv, WeeklyReplaceState, UNCHANGED worker
    PROVE  WInv'
<1>1. /\ weekly.pc = "append" /\ LocksWeekly(weekly.pc) /\ weekly.todo = {}
      /\ stateFile' = [ok |-> TRUE, entries |-> weekly.entries]
      /\ weekly' = [weekly EXCEPT !.pc = "queue"]
      /\ UNCHANGED <<discordVars, archiveVars, queueFile, stateBaks, queueBaks, lock, faults>>
  BY DEF WeeklyReplaceState, LocksWeekly
<1>2. weekly' \in WeeklyType /\ RunInv(weekly') /\ Fixed(weekly, weekly')
  BY <1>1, RunFacts, RepairedRun
<1>3. weekly'.pc = "queue" /\ weekly.entries \in Entries
  BY <1>1, RunFacts DEF WeeklyType
<1>4. StoreTypeOK'
  BY <1>1, <1>3, RunFacts DEF StoreTypeOK, StateFiles, discordVars, archiveVars
<1>5. UNCHANGED <<posted, live, raw, worker>>
  BY <1>1 DEF discordVars, archiveVars
<1>6. ASSUME NEW j \in Keys \ Damaged PROVE HeldCovered(j)' /\ WeeklyCovered(weekly, j)'
  <2>1. Held(j)' \subseteq Held(j) \cup {weekly.entries[j].cursor}
    BY <1>1, <1>5 DEF Held, CursorsOf
  <2>2. \A c \in Held(j) \cup {weekly.entries[j].cursor} : Covered(j, c)
    BY DEF WInv, HeldCovered, WeeklyCovered
  <2>3. HeldCovered(j)'
    BY <1>5, <2>1, <2>2, SameCoverage DEF HeldCovered
  <2>4. WeeklyCovered(weekly, j)'
    BY <1>2, <1>5, SameCoverage DEF WInv, WeeklyCovered, Fixed
  <2> QED
    BY <2>3, <2>4
<1>7. RunInv(weekly)' /\ RawPosted'
  BY <1>2, <1>5, SameRun DEF WInv, RawPosted, RawIds
<1>8. lock = "weekly" /\ lock' = "weekly"
  BY <1>1, RunFacts
<1> QED
  BY <1>2, <1>3, <1>4, <1>5, <1>6, <1>7, <1>8, WeeklyFrame DEF LocksWeekly

LEMMA WeeklyReplaceQueueKeeps ==
    ASSUME WInv, WeeklyReplaceQueue, UNCHANGED worker
    PROVE  WInv'
<1>1. /\ weekly.pc = "queue" /\ LocksWeekly(weekly.pc)
      /\ queueFile' = [ok |-> TRUE, items |-> weekly.items]
      /\ weekly' = IF weekly.pass < MaxPasses THEN BeginPass(weekly)
                   ELSE BeginScan(weekly, Scope(weekly), "final")
      /\ UNCHANGED <<discordVars, archiveVars, stateFile, stateBaks, queueBaks, lock, faults>>
  BY DEF WeeklyReplaceQueue, LocksWeekly
<1>2. weekly' \in WeeklyType /\ RunInv(weekly') /\ Fixed(weekly, weekly')
  BY <1>1, RunFacts, RescanRun
<1>3. weekly'.pc = "scan" /\ weekly.items \in Items
  BY <1>1, RunFacts, ScanPc DEF WeeklyType
<1>4. StoreTypeOK'
  BY <1>1, <1>3, RunFacts DEF StoreTypeOK, QueueFiles, discordVars, archiveVars
<1>5. UNCHANGED <<posted, live, raw, worker>>
  BY <1>1 DEF discordVars, archiveVars
<1>6. ASSUME NEW j \in Keys \ Damaged PROVE HeldCovered(j)' /\ WeeklyCovered(weekly, j)'
  <2>1. Held(j)' \subseteq Held(j) \cup {weekly.items[j].cursor}
    BY <1>1, <1>5 DEF Held, CursorsOf
  <2>2. \A c \in Held(j) \cup {weekly.items[j].cursor} : Covered(j, c)
    BY DEF WInv, HeldCovered, WeeklyCovered
  <2>3. HeldCovered(j)'
    BY <1>5, <2>1, <2>2, SameCoverage DEF HeldCovered
  <2>4. WeeklyCovered(weekly, j)'
    BY <1>2, <1>5, SameCoverage DEF WInv, WeeklyCovered, Fixed
  <2> QED
    BY <2>3, <2>4
<1>7. RunInv(weekly)' /\ RawPosted'
  BY <1>2, <1>5, SameRun DEF WInv, RawPosted, RawIds
<1>8. lock = "weekly" /\ lock' = "weekly"
  BY <1>1, RunFacts
<1> QED
  BY <1>2, <1>3, <1>4, <1>5, <1>6, <1>7, <1>8, WeeklyFrame DEF LocksWeekly

LEMMA WeeklyRetryKeeps ==
    ASSUME WInv, WeeklyRetry, UNCHANGED worker
    PROVE  WInv'
<1>1. /\ weekly.pc = "scan" /\ LocksWeekly(weekly.pc) /\ weekly.key = 0
      /\ weekly.todo = {} /\ weekly.phase = "final"
      /\ weekly' = BeginScan(weekly, weekly.errors, "retry")
      /\ UNCHANGED <<discordVars, archiveVars, ledgerVars, lock, faults>>
  BY DEF WeeklyRetry, ScanDone, LocksWeekly, storeVars
<1>2. weekly' \in WeeklyType /\ RunInv(weekly') /\ Fixed(weekly, weekly')
  BY <1>1, RunFacts, RetryRun
<1>3. weekly'.pc = "scan"
  BY <1>1, RunFacts, ScanPc
<1> QED
  BY <1>1, <1>2, <1>3, RunFacts, RunKeeps DEF LocksWeekly

LEMMA WeeklyVerdictKeeps ==
    ASSUME WInv, WeeklyVerdict, UNCHANGED worker
    PROVE  WInv'
<1> DEFINE ok == weekly.errors = {} /\ Affected(weekly) = {} /\ ActiveQueue(weekly) = {}
<1>1. /\ weekly.pc = "scan" /\ LocksWeekly(weekly.pc) /\ weekly.key = 0
      /\ weekly.todo = {} /\ weekly.phase # "pass"
      /\ weekly' = [weekly EXCEPT !.pc = "done", !.ok = ok]
      /\ UNCHANGED <<discordVars, archiveVars, ledgerVars, lock, faults>>
  BY DEF WeeklyVerdict, ScanDone, LocksWeekly, storeVars
<1>2. ok \in BOOLEAN /\ (ok => weekly.errors = {} /\ Affected(weekly) = {})
  OBVIOUS
<1> HIDE DEF ok
<1>3. weekly' \in WeeklyType /\ RunInv(weekly') /\ Fixed(weekly, weekly')
  BY <1>1, <1>2, RunFacts, VerdictRun
<1>4. weekly'.pc = "done"
  BY <1>1, RunFacts DEF WeeklyType
<1> QED
  BY <1>1, <1>3, <1>4, RunFacts, RunKeeps DEF LocksWeekly

LEMMA WeeklyExitKeeps ==
    ASSUME WInv, WeeklyExit, UNCHANGED worker
    PROVE  WInv'
<1>1. /\ LocksWeekly(weekly.pc) /\ weekly' = IdleWeekly /\ lock' = Free
      /\ UNCHANGED <<discordVars, archiveVars, ledgerVars, faults>>
  BY DEF WeeklyExit, LocksWeekly
<1>2. faults' \in 0..MaxFaults /\ lock = "weekly" /\ StoreTypeOK /\ RawPosted
  BY <1>1, RunFacts
<1>3. ArchiveTypeOK' /\ ArchiveGrows /\ RawPosted'
  BY <1>1, <1>2, UnchangedRawGrows
     DEF StoreTypeOK, ArchiveTypeOK, archiveVars, discordVars, RawPosted, RawIds
<1> QED
  BY <1>1, <1>2, <1>3, RunEnds

\* A kill between two appends or within one: what is in raw stays, and of what
\* was to be appended only messages that were posted can have got there.
LEMMA WeeklyDiesKeeps ==
    ASSUME WInv, WeeklyDies, UNCHANGED worker
    PROVE  WInv'
<1> DEFINE k == FirstOf(weekly.todo)
<1>1. /\ weekly.pc # "idle" /\ Fault /\ weekly' = IdleWeekly
      /\ lock' = IF lock = "weekly" THEN Free ELSE lock
      /\ UNCHANGED <<discordVars, ledgerVars>>
      /\ IF weekly.pc = "append" /\ weekly.todo # {}
         THEN AppendCutShort(k, Missing(weekly, k))
         ELSE UNCHANGED archiveVars
  BY DEF WeeklyDies
<1>2. faults' \in 0..MaxFaults /\ StoreTypeOK /\ RawPosted /\ weekly \in WeeklyType
  BY <1>1, FaultTypes DEF WInv, WorkerSide, WeeklyTypeOK
<1>3. ArchiveTypeOK' /\ ArchiveGrows /\ RawPosted'
  <2>1. CASE weekly.pc = "append" /\ weekly.todo # {}
    <3>1. /\ LocksWeekly(weekly.pc) /\ k \in weekly.todo /\ k \in Keys
          /\ AppendCutShort(k, Missing(weekly, k))
      BY <1>1, <1>2, <2>1, FirstOfFacts DEF LocksWeekly, WeeklyType
    <3> HIDE DEF k
    <3>2. Missing(weekly, k) \subseteq 1..posted[k] /\ Missing(weekly, k) \in SUBSET Ids
      BY <1>2, <3>1 DEF WInv, RunInv, Bounded, Missing, WeeklyType
    <3>3. PICK cut \in Cursor :
             raw' = WithCopies(k, {m \in Unarchived(k, Missing(weekly, k)) : m <= cut})
      BY <3>1 DEF AppendCutShort
    <3> DEFINE ids == {m \in Unarchived(k, Missing(weekly, k)) : m <= cut}
    <3>4. ids \subseteq 1..posted[k] /\ ids \in SUBSET Ids
      BY <3>2 DEF Unarchived
    <3> HIDE DEF ids
    <3>5. ArchiveTypeOK' /\ ArchiveGrows
      BY <1>2, <3>1, <3>2, CutShortFacts DEF StoreTypeOK, ArchiveTypeOK
    <3>6. \A j \in Keys : RawIds(j)' = RawIds(j) \cup (IF j = k THEN ids ELSE {})
      BY <1>2, <3>1, <3>3, <3>4, WithCopiesFacts DEF StoreTypeOK, ids
    <3>7. RawPosted'
      BY <1>1, <1>2, <3>4, <3>6 DEF RawPosted, discordVars
    <3> QED
      BY <3>5, <3>7
  <2>2. CASE ~(weekly.pc = "append" /\ weekly.todo # {})
    <3>1. UNCHANGED archiveVars
      BY <1>1, <2>2
    <3> QED
      BY <1>1, <1>2, <3>1, UnchangedRawGrows
         DEF StoreTypeOK, ArchiveTypeOK, archiveVars, discordVars, RawPosted, RawIds
  <2> QED
    BY <2>1, <2>2
<1> QED
  BY <1>1, <1>2, <1>3, RunEnds

LEMMA WeeklySkippedKeeps ==
    ASSUME WInv, WeeklySkipped, UNCHANGED worker
    PROVE  WInv'
BY GivesUp DEF WeeklySkipped

LEMMA WeeklyStepKeeps ==
    ASSUME WInv, WeeklyNext, UNCHANGED worker
    PROVE  WInv'
<1>1. CASE WeeklyStart
  BY <1>1, WeeklyStartKeeps
<1>2. CASE WeeklyLoadQueue
  BY <1>2, WeeklyLoadQueueKeeps
<1>3. CASE WeeklyLock
  BY <1>3, WeeklyLockKeeps
<1>4. CASE WeeklySkipped
  BY <1>4, WeeklySkippedKeeps
<1>5. CASE WeeklyReport
  BY <1>5, WeeklyReportKeeps
<1>6. CASE WeeklyReportFails
  BY <1>6, WeeklyReportFailsKeeps
<1>7. CASE WeeklyOpen
  BY <1>7, WeeklyOpenKeeps
<1>8. CASE WeeklyFetch
  BY <1>8, WeeklyFetchKeeps
<1>9. CASE WeeklyFetchFails
  BY <1>9, WeeklyFetchFailsKeeps
<1>10. CASE WeeklyClosePass
  BY <1>10, WeeklyClosePassKeeps
<1>11. CASE WeeklyEvidence
  BY <1>11, WeeklyEvidenceKeeps
<1>12. CASE WeeklyAppend
  BY <1>12, WeeklyAppendKeeps
<1>13. CASE WeeklyReplaceState
  BY <1>13, WeeklyReplaceStateKeeps
<1>14. CASE WeeklyReplaceQueue
  BY <1>14, WeeklyReplaceQueueKeeps
<1>15. CASE WeeklyRetry
  BY <1>15, WeeklyRetryKeeps
<1>16. CASE WeeklyVerdict
  BY <1>16, WeeklyVerdictKeeps
<1>17. CASE WeeklyExit
  BY <1>17, WeeklyExitKeeps
<1>18. CASE WeeklyDies
  BY <1>18, WeeklyDiesKeeps
<1> QED
  BY <1>1, <1>2, <1>3, <1>4, <1>5, <1>6, <1>7, <1>8, <1>9, <1>10, <1>11, <1>12, <1>13,
     <1>14, <1>15, <1>16, <1>17, <1>18 DEF WeeklyNext, WeeklyStep

-----------------------------------------------------------------------------
(* Beside the run.                                                         *)

\* The worker steps only while no weekly run holds the lock.
LEMMA WorkerExcluded ==
    ASSUME WInv, WorkerNext
    PROVE  ~LocksWeekly(weekly.pc)
<1>1. lock = Free \/ worker.pc # "idle"
  BY DEF WorkerNext, WorkerStart, WorkerStep, WorkerPrepare, WorkerFatal, WorkerPick,
         WorkerFinish, WorkerMerge, WorkerReplaceState, WorkerReplaceQueue,
         WorkerOutOfBudget, WorkerFetch, WorkerFetchFails, WorkerAppend,
         WorkerAppendFails, WorkerSaveFails, WorkerProbe, WorkerProbeFails, WorkerKilled
<1> QED
  BY <1>1 DEF WInv, WorkerSide, Free

LEMMA WorkerBeside ==
    ASSUME WInv, WorkerNext, UNCHANGED weekly
    PROVE  WInv'
<1>1. WorkerKeeps
  BY WorkerStepKeeps DEF WInv
<1>2. RawPosted'
  BY WorkerRawPosted DEF WInv
<1>3. ~LocksWeekly(weekly.pc) /\ weekly' = weekly
  BY WorkerExcluded
<1>4. (lock = "weekly" <=> LocksWeekly(weekly.pc))'
  BY <1>1, <1>3 DEF WInv, WorkerKeeps, LocksWeekly, Free
<1>5. ASSUME NEW k \in Keys \ Damaged PROVE HeldCovered(k)' /\ WeeklyCovered(weekly, k)'
  <2>1. HeldCovered(k)'
    BY <1>1 DEF WInv, WorkerKeeps
  <2>2. \A c : Covered(k, c) => Covered(k, c)'
    BY <1>1 DEF WorkerKeeps, Covered, ArchiveGrows
  <2>3. WeeklyCovered(weekly, k)
    BY DEF WInv
  <2> QED
    BY <1>3, <2>1, <2>2, <2>3 DEF WeeklyCovered
<1>6. WorkerSide' /\ WeeklyTypeOK' /\ (~LocksWeekly(weekly.pc) => Unstarted(weekly))'
      /\ ~LocksWeekly(weekly.pc)'
  BY <1>1, <1>3 DEF WInv, WorkerKeeps, WeeklyTypeOK, Unstarted, LocksWeekly
<1> QED
  BY <1>2, <1>4, <1>5, <1>6 DEF WInv

LEMMA EnvironmentBeside ==
    ASSUME WInv, Environment, UNCHANGED <<worker, weekly>>
    PROVE  WInv'
<1>1. /\ WorkerSide' /\ CoverageKept /\ HistoryKept
      /\ UNCHANGED <<archiveVars, ledgerVars, lock>>
  BY EnvironmentKeeps DEF WInv
<1>2. /\ StoreTypeOK /\ StoreTypeOK' /\ posted' \in [Keys -> Cursor]
      /\ UNCHANGED <<weekly, raw>> /\ WorkerSide /\ RawPosted /\ WeeklyTypeOK
  BY <1>1 DEF WInv, WorkerSide, StoreTypeOK, archiveVars
<1>3. RawPosted'
  BY <1>1, <1>2, EnvironmentRawPosted
<1>4. ASSUME NEW k \in Keys \ Damaged PROVE HeldCovered(k)' /\ WeeklyCovered(weekly, k)'
  <2>1. /\ Held(k)' = Held(k)
        /\ HeldCovered(k) /\ WeeklyCovered(weekly, k)
    BY <1>1 DEF WInv, Held, CursorsOf, ledgerVars
  <2>2. Held(k) \subseteq Cursor
    <3>1. /\ stateFile.entries \in Entries /\ queueFile.items \in Items
          /\ \A i \in 1..BakKeep : stateBaks[i].entries \in Entries
          /\ \A i \in 1..BakKeep : queueBaks[i].items \in Items
          /\ worker.entries \in Entries /\ worker.items \in Items
          /\ worker.cursor \in Cursor
      BY <1>2 DEF WorkerSide, WorkerTypeOK, WorkerType, StoreTypeOK, StateFiles, QueueFiles
    <3>2. /\ \A entries \in Entries : entries[k].cursor \in Cursor
          /\ \A items \in Items : items[k].cursor \in Cursor
      BY DEF Entries, Items, Entry, Item
    <3> QED
      BY <3>1, <3>2 DEF Held, CursorsOf, Cursor
  <2>3. HeldCovered(k)'
    BY <1>1, <2>1, <2>2 DEF HeldCovered, CoverageKept
  <2>4. weekly.entries[k].cursor \in Cursor /\ weekly.items[k].cursor \in Cursor
    BY <1>2 DEF WeeklyTypeOK, WeeklyType, Entries, Items, Entry, Item
  <2>5. WeeklyCovered(weekly, k)'
    BY <1>1, <2>1, <2>4 DEF WeeklyCovered, CoverageKept
  <2> QED
    BY <2>3, <2>5
<1>5. (lock = "weekly" <=> LocksWeekly(weekly.pc))' /\ WeeklyTypeOK'
      /\ (~LocksWeekly(weekly.pc) => Unstarted(weekly))'
  BY <1>1 DEF WInv, WeeklyTypeOK, Unstarted, LocksWeekly
<1>6. (LocksWeekly(weekly.pc) => RunInv(weekly))'
  <2>1. LocksWeekly(weekly.pc) => RunInv(weekly)'
    BY <1>1, <1>2, RunEnvironment DEF WInv
  <2> QED
    BY <1>2, <2>1 DEF LocksWeekly
<1> QED
  BY <1>1, <1>2, <1>3, <1>4, <1>5, <1>6 DEF WInv

-----------------------------------------------------------------------------
(* The invariant, and what it is for.                                      *)

LEMMA InitReconciles == Init => WInv
<1> SUFFICES ASSUME Init PROVE WInv
  OBVIOUS
<1>1. /\ posted \in [Keys -> Cursor] /\ live = [k \in Keys |-> 1..posted[k]]
      /\ day \in 0..MaxDay /\ weekly = IdleWeekly /\ worker = IdleWorker
      /\ lock = Free /\ faults = 0 /\ torn = [k \in Keys |-> {}]
      /\ queueFile = [ok |-> TRUE, items |-> [k \in Keys |-> InitItem(k)]]
      /\ stateBaks = [i \in 1..BakKeep |-> NoStateBak]
      /\ queueBaks = [i \in 1..BakKeep |-> NoQueueBak]
  BY DEF Init, SmallerOf, WorkerInit, WeeklyInit
<1>2. PICK found \in [Keys -> SUBSET Ids], claimed \in [Keys -> Cursor] :
         /\ \A k \in Keys : /\ found[k] \subseteq 1..posted[k]
                            /\ claimed[k] <= posted[k]
                            /\ k \notin Damaged => found[k] = {} /\ claimed[k] = 0
         /\ raw = [k \in Keys |-> [m \in Ids |-> IF m \in found[k] THEN 1 ELSE 0]]
         /\ stateFile = [ok |-> TRUE, entries |->
               [k \in Keys |-> [InitEntry(k) EXCEPT !.cursor = claimed[k]]]]
  BY DEF Init
<1>3. ASSUME NEW k \in Keys
      PROVE  /\ InitEntry(k) \in Entry
             /\ InitItem(k) \in Item /\ InitItem(k).cursor = 0
  BY ConstantRecords
     DEF InitEntry, InitItem, FreshEntry, NoEntry, NoItem, Entry, Item, EntryStatus,
         ItemStatus, Reason
<1>4. ASSUME NEW k \in Keys
      PROVE  /\ [InitEntry(k) EXCEPT !.cursor = claimed[k]] \in Entry
             /\ [InitEntry(k) EXCEPT !.cursor = claimed[k]].cursor = claimed[k]
  BY <1>2, <1>3 DEF Entry
<1>5. /\ stateFile \in StateFiles /\ queueFile \in QueueFiles
      /\ \A k \in Keys : /\ stateFile.entries[k].cursor = claimed[k]
                          /\ queueFile.items[k].cursor = 0
  BY <1>1, <1>2, <1>3, <1>4 DEF StateFiles, QueueFiles, Entries, Items
<1>6. /\ NoStateBak \in StateFiles /\ NoStateBak.entries = NoEntries
      /\ NoQueueBak \in QueueFiles /\ NoQueueBak.items = NoItems
      /\ \A k \in Keys : NoEntries[k].cursor = 0 /\ NoItems[k].cursor = 0
  BY IdleWorkerTypes
     DEF NoStateBak, NoQueueBak, StateFiles, QueueFiles, NoEntries, NoItems, NoEntry, NoItem
<1>7. live \in [Keys -> SUBSET Ids] /\ LiveBounded
  BY <1>1 DEF LiveBounded, Ids, Cursor
<1>8. raw \in [Keys -> [Ids -> Nat]] /\ \A k \in Keys : RawIds(k) = found[k]
  BY <1>2 DEF RawIds
<1>9. StoreTypeOK
  BY <1>1, <1>5, <1>6, <1>7, <1>8 DEF StoreTypeOK, Free
<1>10. WorkerSide
  BY <1>1, <1>7, <1>9, IdleWorkerTypes
     DEF WorkerSide, WorkerTypeOK, CandidateHeld, PageComplete, IdleWorker, Free
<1>11. RawPosted
  BY <1>2, <1>8 DEF RawPosted
<1>12. /\ WeeklyTypeOK /\ Unstarted(weekly) /\ ~LocksWeekly(weekly.pc)
       /\ weekly.entries = NoEntries /\ weekly.items = NoItems
  BY <1>1, IdleWeeklyTypes DEF WeeklyTypeOK, Unstarted, LocksWeekly, IdleWeekly
<1>13. ASSUME NEW k \in Keys \ Damaged PROVE HeldCovered(k) /\ WeeklyCovered(weekly, k)
  <2>1. Covered(k, 0)
    BY <1>9, ZeroCovered
  <2>2. Held(k) \subseteq {0}
    BY <1>1, <1>2, <1>5, <1>6 DEF Held, CursorsOf, IdleWorker
  <2> QED
    BY <1>6, <1>12, <2>1, <2>2 DEF HeldCovered, WeeklyCovered
<1> QED
  BY <1>1, <1>10, <1>11, <1>12, <1>13 DEF WInv, Free

LEMMA NextReconciles == WInv /\ [Next]_pipelineVars => WInv'
<1> SUFFICES ASSUME WInv, [Next]_pipelineVars PROVE WInv'
  OBVIOUS
<1>1. CASE Environment /\ UNCHANGED <<worker, weekly>>
  BY <1>1, EnvironmentBeside
<1>2. CASE WorkerNext /\ UNCHANGED weekly
  BY <1>2, WorkerBeside
<1>3. CASE WeeklyNext /\ UNCHANGED worker
  BY <1>3, WeeklyStepKeeps
<1>4. CASE UNCHANGED pipelineVars
  <2>1. UNCHANGED <<discordVars, archiveVars, ledgerVars, lock, faults, worker, weekly>>
    BY <1>4 DEF pipelineVars, storeVars
  <2>2. /\ faults' \in 0..MaxFaults /\ lock \in Jobs \cup {Free} /\ weekly \in WeeklyType
    BY <2>1, QuietFacts
  <2>3. weekly' = weekly /\ lock' = lock
    BY <2>1
  <2> QED
    BY <2>1, <2>2, <2>3, WeeklyLocal DEF WInv
<1> QED
  BY <1>1, <1>2, <1>3, <1>4 DEF Next

LEMMA Reconciles == Spec => []WInv
BY InitReconciles, NextReconciles, PTL DEF Spec

\* The weekly run writes the copies of both ledgers it loaded before it had the
\* lock, without a merge, and still no cursor of an intact channel gets ahead of
\* raw: not in the files, not in what either job holds, wherever it is killed.
THEOREM ReconcileSafe == Spec => []ReconcileInv
<1>1. ASSUME WInv, NEW k \in Keys \ Damaged
      PROVE  /\ Covered(k, stateFile.entries[k].cursor)
             /\ Covered(k, queueFile.items[k].cursor)
             /\ Covered(k, worker.entries[k].cursor)
             /\ Covered(k, worker.items[k].cursor)
             /\ worker.key = k => Covered(k, worker.cursor)
             /\ Covered(k, weekly.entries[k].cursor)
             /\ Covered(k, weekly.items[k].cursor)
  <2>1. HeldCovered(k) /\ WeeklyCovered(weekly, k)
    BY <1>1 DEF WInv
  <2> QED
    BY <2>1 DEF HeldCovered, Held, CursorsOf, WeeklyCovered
<1>2. WInv => IntactCovered
  BY <1>1 DEF IntactCovered
<1>3. WInv => ReconcileInv
  BY <1>2 DEF WInv, ReconcileInv, WorkerSide
<1> QED
  BY <1>3, Reconciles, PTL

\* apply_missing writes to a channel's raw only after the evidence bundle holds
\* the raw the run found there.
THEOREM EvidencePrecedesRepair == Spec => []EvidenceFirst
<1>1. WInv => EvidenceFirst
  BY DEF WInv, RunInv, Evidenced, EvidenceFirst
<1> QED
  BY <1>1, Reconciles, PTL

\* However many passes are allowed, the second one finds nothing to repair:
\* freeze_scope_cutoffs keeps the run from chasing live traffic.
THEOREM TwoPassesSuffice == Spec => []NoChasing
<1>1. WInv => NoChasing
  BY DEF WInv, RunInv, Place, Unstarted, NoChasing
<1> QED
  BY <1>1, Reconciles, PTL

\* A green verdict is true: of every channel the first pass could read, all
\* that was posted before the run and that Discord still has is in raw.
THEOREM GreenIsComplete == Spec => []CloseoutComplete
<1>1. ASSUME WInv, weekly.pc = "done", weekly.ok,
             NEW k \in Scope(weekly) \ weekly.unread,
             NEW m \in live[k], m <= weekly.started[k]
      PROVE  m \in RawIds(k)
  <2>1. RunInv(weekly)
    BY <1>1 DEF WInv, LocksWeekly
  <2>2. m <= weekly.cutoffs[k]
    BY <1>1, <2>1 DEF RunInv, Scanned, ReachesStart
  <2>3. Settled(weekly, k)
    BY <1>1, <2>1 DEF RunInv, Repairing
  <2> QED
    BY <2>2, <2>3 DEF Settled
<1>2. WInv => CloseoutComplete
  BY <1>1 DEF CloseoutComplete
<1> QED
  BY <1>2, Reconciles, PTL
=============================================================================
