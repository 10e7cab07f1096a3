------------------------- MODULE RichRebuildProofs -------------------------
(***************************************************************************)
(* Proofs about the full rebuild coordinator, for every set of channels,   *)
(* message and look, and any bounds: what is on disk stays consistent, a   *)
(* published root is complete through one cutoff, knows nothing posted     *)
(* later and is not moved, and no restart falls behind a phase that was    *)
(* reached.                                                                *)
(***************************************************************************)
EXTENDS RichRebuild, TLAPS

USE RoundsAssumption

-----------------------------------------------------------------------------
(* Phases and their ranks.                                                 *)

LEMMA PhaseNames ==
    /\ Range(Phases) = {"PREPARED", "INVENTORY_VERIFIED", "BASELINE_FROZEN", "REBUILDING", "BASELINE_COMPLETE",
                        "DELTA_CONVERGING", "VERIFYING", "READY_TO_COMMIT", "COMMITTED"}
    /\ Range(Phases) \cap Terminal = {}
<1>1. Range(Phases) = {Phases[i] : i \in 1..9}
  BY DEF Range, Phases
<1>2. 1..9 = {1, 2, 3, 4, 5, 6, 7, 8, 9}
  OBVIOUS
<1>3. Range(Phases) = {"PREPARED", "INVENTORY_VERIFIED", "BASELINE_FROZEN", "REBUILDING", "BASELINE_COMPLETE",
                        "DELTA_CONVERGING", "VERIFYING", "READY_TO_COMMIT", "COMMITTED"}
  BY <1>1, <1>2 DEF Phases
<1> QED
  BY <1>3 DEF Terminal

LEMMA RankNat ==
    ASSUME NEW p \in Range(Phases)
    PROVE  Rank(p) \in 1..9
<1>1. DOMAIN Phases = 1..9
  BY DEF Phases
<1>2. \E i \in DOMAIN Phases : Phases[i] = p
  BY DEF Range
<1> QED
  BY <1>1, <1>2 DEF Rank

-----------------------------------------------------------------------------
(* _set_phase, _record_failure and the resumption of a journal.            *)

LEMMA JournalFields ==
    ASSUME NEW j \in Journal
    PROVE  /\ j.phase \in Range(Phases) \cup Terminal /\ j.resume \in Range(Phases) \cup {None}
           /\ j.rounds \in Seq(Round) /\ j.active \in Active \cup {None} /\ j.streak \in 0..2
           /\ Len(j.rounds) \in Nat /\ DOMAIN j.rounds = 1..Len(j.rounds)
BY DEF Journal

LEMMA SetPhaseMoves ==
    ASSUME NEW j \in Journal, Safe(j) \in Range(Phases), j.phase \notin Terminal, NEW p \in Range(Phases)
    PROVE  /\ SetPhase(j, p) \in Journal
           /\ SetPhase(j, p).phase \in Range(Phases) /\ SetPhase(j, p).phase \notin Terminal
           /\ Safe(SetPhase(j, p)) \in Range(Phases)
           /\ Rank(Safe(j)) <= Rank(Safe(SetPhase(j, p)))
           /\ SetPhase(j, p).rounds = j.rounds /\ SetPhase(j, p).active = j.active
           /\ SetPhase(j, p).streak = j.streak
<1>1. Rank(Safe(j)) \in 1..9 /\ Rank(p) \in 1..9
  BY RankNat
<1>2. CASE Rank(p) < Rank(Safe(j))
  BY <1>1, <1>2, PhaseNames DEF SetPhase, Safe
<1>3. CASE ~(Rank(p) < Rank(Safe(j)))
  <2> DEFINE k == [j EXCEPT !.phase = p, !.resume = None]
  <2>1. SetPhase(j, p) = k
    BY <1>3 DEF SetPhase
  <2>2. k \in Journal /\ k.phase = p /\ k.rounds = j.rounds /\ k.active = j.active /\ k.streak = j.streak
    BY DEF Journal
  <2>3. Safe(k) = p
    BY <2>2, PhaseNames DEF Safe
  <2> QED
    BY <1>1, <1>3, <2>1, <2>2, <2>3, PhaseNames
<1> QED
  BY <1>2, <1>3

LEMMA StoppedKeeps ==
    ASSUME NEW j \in Journal, Safe(j) \in Range(Phases), NEW p \in Terminal
    PROVE  /\ Stopped(j, p) \in Journal /\ Safe(Stopped(j, p)) = Safe(j)
           /\ Stopped(j, p).rounds = j.rounds /\ Stopped(j, p).active = j.active
           /\ Stopped(j, p).streak = j.streak
<1> DEFINE k == [j EXCEPT !.phase = p, !.resume = Safe(j)]
<1>1. k \in Journal /\ k.phase = p /\ k.resume = Safe(j) /\ k.rounds = j.rounds /\ k.active = j.active
      /\ k.streak = j.streak
  BY DEF Journal
<1>2. Safe(k) = Safe(j)
  BY <1>1 DEF Safe
<1> QED
  BY <1>1, <1>2 DEF Stopped

LEMMA ResumedKeeps ==
    ASSUME NEW j \in Journal, Safe(j) \in Range(Phases)
    PROVE  /\ Resumed(j) \in Journal /\ Safe(Resumed(j)) = Safe(j)
           /\ Resumed(j).phase \notin Terminal
           /\ Resumed(j).rounds = j.rounds /\ Resumed(j).active = j.active
           /\ Resumed(j).streak = j.streak
<1> DEFINE k == [j EXCEPT !.phase = j.resume, !.resume = None]
<1>1. CASE j.phase \in Terminal
  <2>1. j.resume = Safe(j) /\ j.resume \notin Terminal
    BY <1>1, PhaseNames DEF Safe
  <2>2. k \in Journal /\ k.phase = j.resume /\ k.rounds = j.rounds /\ k.active = j.active /\ k.streak = j.streak
    BY <2>1 DEF Journal
  <2>3. Safe(k) = j.resume
    BY <2>1, <2>2 DEF Safe
  <2> QED
    BY <1>1, <2>1, <2>2, <2>3 DEF Resumed
<1>2. CASE j.phase \notin Terminal
  BY <1>2 DEF Resumed
<1> QED
  BY <1>1, <1>2

-----------------------------------------------------------------------------
(* What a step leaves of the invariant when it touches little.             *)

LEMMA SameRounds ==
    ASSUME NEW j, NEW k, NEW now, JournalOK(j, now), Safe(k) \in Range(Phases),
           k.rounds = j.rounds, k.active = j.active, k.streak = j.streak
    PROVE  JournalOK(k, now)
BY DEF JournalOK, ActiveFollows, StreakEarned, ReadNow

LEMMA RoundTypes ==
    ASSUME NEW j \in Journal, NEW i \in DOMAIN j.rounds
    PROVE  /\ j.rounds[i] \in Round /\ j.rounds[i].data \in Data /\ j.rounds[i].at \in Data
           /\ \A c \in Channels : j.rounds[i].data[c] \in Content /\ j.rounds[i].at[c] \in Content
<1>1. j.rounds \in Seq(Round)
  BY DEF Journal
<1>2. j.rounds[i] \in Round
  BY <1>1
<1>3. j.rounds[i].data \in Data /\ j.rounds[i].at \in Data
  BY <1>2 DEF Round
<1> QED
  BY <1>2, <1>3 DEF Data

(* A message does not come back: After is a preorder.                      *)
LEMMA AfterItself ==
    ASSUME NEW x \in Content
    PROVE  After(x, x)
BY DEF Content, After, Follows

LEMMA AfterEarlier ==
    ASSUME NEW x \in Content, NEW y \in Content, NEW z \in Content, After(z, y), After(y, x)
    PROVE  After(z, x)
<1> SUFFICES ASSUME NEW m \in Messages
             PROVE  Follows(z[m], x[m])
  BY DEF After
<1>1. Follows(z[m], y[m]) /\ Follows(y[m], x[m])
  BY DEF After
<1> QED
  BY <1>1 DEF Follows

(* The channels only move on.                                              *)
LEMMA LaterNow ==
    ASSUME NEW j \in Journal, NEW now \in Data, NEW later \in Data,
           \A c \in Channels : After(later[c], now[c]), JournalOK(j, now)
    PROVE  JournalOK(j, later)
<1>1. \A c \in Channels : now[c] \in Content /\ later[c] \in Content
  BY DEF Data
<1>2. \A i \in DOMAIN j.rounds : \A c \in Channels : j.rounds[i].at[c] \in Content
  BY RoundTypes
<1>3. RoundsFollow(j.rounds, later)
  <2>1. ASSUME NEW i \in DOMAIN j.rounds, NEW c \in Channels
        PROVE  After(later[c], j.rounds[i].at[c])
    <3>1. After(now[c], j.rounds[i].at[c])
      BY DEF JournalOK, RoundsFollow
    <3> QED
      BY <1>1, <1>2, <3>1, AfterEarlier
  <2> QED
    BY <2>1 DEF JournalOK, RoundsFollow
<1>4. ActiveFollows(j, later)
  <2> SUFFICES ASSUME j.active # None, NEW c \in Channels, j.active.entries[c] # None
               PROVE  After(later[c], j.active.entries[c])
    BY DEF JournalOK, ActiveFollows, ReadNow
  <2>1. After(now[c], j.active.entries[c])
    BY DEF JournalOK, ActiveFollows, ReadNow
  <2>2. j.active.entries[c] \in Content
    BY DEF Journal, Active
  <2> QED
    BY <1>1, <2>1, <2>2, AfterEarlier
<1> QED
  BY <1>3, <1>4 DEF JournalOK

-----------------------------------------------------------------------------
(* The steps.                                                              *)

LEMMA InitInv == Init => RebuildInv
BY DEF Init, RebuildInv, TypeOK, JournalInv, ProcessInv, RootInv, Data, Content

(* Whatever happens on Discord, a channel only moves on.                   *)
LEMMA ChangeMoves ==
    ASSUME live \in Data, NEW c \in Channels, NEW m \in Messages, Post(c, m) \/ Edit(c, m) \/ Delete(c, m)
    PROVE  /\ live' \in Data /\ \A d \in Channels : After(live'[d], live[d])
           /\ UNCHANGED <<journal, root, pc, read>>
<1>1. PICK state \in Looks \cup {"deleted"} : Becomes(c, m, state) /\ Follows(state, live[c][m])
  BY DEF Post, Edit, Delete, Follows
<1>2. live' = [live EXCEPT ![c][m] = state] /\ UNCHANGED <<journal, root, pc, read>>
  BY <1>1 DEF Becomes, Disk
<1>3. \A d \in Channels : live[d] \in Content /\ live'[d] = IF d = c THEN [live[c] EXCEPT ![m] = state] ELSE live[d]
  BY <1>2 DEF Data
<1>4. [live[c] EXCEPT ![m] = state] \in Content /\ After([live[c] EXCEPT ![m] = state], live[c])
  BY <1>1, <1>3 DEF Content, After, Follows
<1>5. live' \in Data
  BY <1>2, <1>3, <1>4 DEF Data
<1> QED
  BY <1>2, <1>3, <1>4, <1>5, AfterItself

LEMMA ChangeInv ==
    ASSUME RebuildInv, NEW c \in Channels, NEW m \in Messages, Post(c, m) \/ Edit(c, m) \/ Delete(c, m)
    PROVE  RebuildInv'
<1>1. live \in Data /\ live' \in Data /\ \A d \in Channels : After(live'[d], live[d])
  BY ChangeMoves DEF RebuildInv, TypeOK
<1>2. UNCHANGED <<journal, root, pc, read>>
  BY <1>1, ChangeMoves
<1>3. JournalInv'
  BY <1>1, <1>2, LaterNow DEF RebuildInv, TypeOK, JournalInv
<1>4. ProcessInv'
  <2>1. CASE pc = "seal"
    <3>1. read \in Content /\ C \in Channels
      BY <2>1 DEF RebuildInv, TypeOK, ProcessInv, C, Pending
    <3>2. C' = C /\ Pending' = Pending
      BY <1>2 DEF C, Pending
    <3>3. live[C] \in Content /\ live'[C] \in Content
      BY <1>1, <3>1 DEF Data
    <3>4. After(live[C], read) /\ After(live'[C], live[C])
      BY <1>1, <2>1, <3>1 DEF RebuildInv, ProcessInv, ReadNow
    <3>5. After(live'[C], read)
      BY <3>1, <3>3, <3>4, AfterEarlier
    <3>6. ReadNow(journal, C, read, live')
      BY <2>1, <3>5 DEF RebuildInv, ProcessInv, ReadNow
    <3> QED
      BY <1>2, <2>1, <3>2, <3>6 DEF RebuildInv, ProcessInv
  <2>2. CASE pc # "seal"
    BY <1>2, <2>2 DEF RebuildInv, ProcessInv
  <2> QED
    BY <2>1, <2>2
<1>5. TypeOK' /\ RootInv'
  BY <1>1, <1>2 DEF RebuildInv, TypeOK, RootInv
<1> QED
  BY <1>3, <1>4, <1>5 DEF RebuildInv

LEMMA LedgersInv ==
    ASSUME RebuildInv, LedgersChange \/ UNCHANGED vars
    PROVE  RebuildInv'
<1>1. UNCHANGED <<live, journal, root, pc, read>>
  BY DEF LedgersChange, Disk, vars
<1>2. C' = C /\ Pending' = Pending
  BY <1>1 DEF C, Pending
<1> QED
  BY <1>1, <1>2 DEF RebuildInv, TypeOK, JournalInv, ProcessInv, RootInv

LEMMA StartInv ==
    ASSUME RebuildInv, Start
    PROVE  RebuildInv'
<1>1. UNCHANGED <<live, root, read>> /\ pc' = "inventory"
  BY DEF Start, Goto, Record, Outside
<1>2. CASE journal = None
  <2>1. journal' = Created
    BY <1>2 DEF Start, Record
  <2>2. Created \in Journal
    BY PhaseNames DEF Journal, Created
  <2>3. JournalOK(Created, live)
    BY PhaseNames DEF JournalOK, Created, Safe, Terminal, RoundsFollow, ActiveFollows, StreakEarned
  <2>4. root = None
    BY <1>2 DEF RebuildInv, RootInv, Closed
  <2> QED
    BY <1>1, <2>1, <2>2, <2>3, <2>4, NoneAssumption
       DEF RebuildInv, TypeOK, JournalInv, ProcessInv, RootInv, Created, Terminal
<1>3. CASE journal # None
  <2>1. journal \in Journal /\ JournalOK(journal, live) /\ Safe(journal) \in Range(Phases)
    BY <1>3 DEF RebuildInv, TypeOK, JournalInv, JournalOK
  <2>2. journal' = Resumed(journal)
    BY <1>3 DEF Start, Record
  <2>3. JournalOK(journal', live)
    BY <2>1, <2>2, ResumedKeeps, SameRounds
  <2> QED
    BY <1>1, <2>1, <2>2, <2>3, ResumedKeeps, NoneAssumption
       DEF RebuildInv, TypeOK, JournalInv, ProcessInv, RootInv, Closed
<1> QED
  BY <1>2, <1>3

(* In a running coordinator the journal is a record that is not stopped.   *)
LEMMA RunningJournal ==
    ASSUME RebuildInv, pc # "idle"
    PROVE  /\ journal \in Journal /\ journal # None /\ JournalOK(journal, live)
           /\ Safe(journal) \in Range(Phases) /\ journal.phase \notin Terminal
BY DEF RebuildInv, TypeOK, JournalInv, JournalOK, ProcessInv

(* A step that only replaces the journal by one that says the same of the  *)
(* rounds, and goes to a place where nothing is read.                      *)
LEMMA SameRoundsInv ==
    ASSUME RebuildInv, journal # None, UNCHANGED <<live, root>>,
           read' \in {read, None},
           journal' \in Journal, Safe(journal') \in Range(Phases),
           journal'.rounds = journal.rounds, journal'.active = journal.active,
           journal'.streak = journal.streak,
           pc' \in {"idle", "inventory", "resources", "loop", "publish", "compat", "commit", "receipt"},
           pc' # "idle" => journal'.phase \notin Terminal,
           pc' \in {"publish", "compat", "commit", "receipt"} => Closed(journal)
    PROVE  RebuildInv'
<1>1. JournalOK(journal', live)
  BY SameRounds DEF RebuildInv, JournalInv
<1> QED
  BY <1>1, NoneAssumption DEF RebuildInv, TypeOK, JournalInv, ProcessInv, RootInv, Closed

(* The phases before the rounds, the pause, and a recorded failure.        *)
LEMMA QuietStepsInv ==
    ASSUME RebuildInv, Inventory \/ Resources \/ Pause \/ Fails
    PROVE  RebuildInv'
<1>1. pc # "idle"
  BY DEF Inventory, Resources, Pause, Fails
<1>2. journal \in Journal /\ journal # None /\ Safe(journal) \in Range(Phases) /\ journal.phase \notin Terminal
  BY <1>1, RunningJournal
<1>3. UNCHANGED <<live, root>>
  BY DEF Inventory, Resources, Pause, Fails, Record, Goto, Outside
<1>4. CASE Inventory
  <2>1. journal' = SetPhase(journal, "INVENTORY_VERIFIED") /\ pc' = "resources" /\ read' = read
    BY <1>4 DEF Inventory, Record, Goto
  <2> QED
    BY <1>2, <1>3, <2>1, PhaseNames, SetPhaseMoves, SameRoundsInv
<1>5. CASE Resources
  <2> DEFINE k == SetPhase(journal, "BASELINE_FROZEN")
  <2>1. journal' = SetPhase(k, "REBUILDING") /\ pc' = "loop" /\ read' = read
    BY <1>5 DEF Resources, Record, Goto
  <2>2. /\ k \in Journal /\ Safe(k) \in Range(Phases) /\ k.phase \notin Terminal
        /\ k.rounds = journal.rounds /\ k.active = journal.active /\ k.streak = journal.streak
    BY <1>2, PhaseNames, SetPhaseMoves
  <2> HIDE DEF k
  <2>3. /\ journal' \in Journal /\ Safe(journal') \in Range(Phases) /\ journal'.phase \notin Terminal
        /\ journal'.rounds = k.rounds /\ journal'.active = k.active /\ journal'.streak = k.streak
    BY <2>1, <2>2, PhaseNames, SetPhaseMoves
  <2> QED
    BY <1>2, <1>3, <2>1, <2>2, <2>3, SameRoundsInv
<1>6. CASE Pause
  <2>1. journal' = Stopped(journal, "PAUSED") /\ pc' = "idle" /\ read' = read
    BY <1>6 DEF Pause, Record, Goto
  <2> QED
    BY <1>2, <1>3, <2>1, StoppedKeeps, SameRoundsInv DEF Terminal
<1>7. CASE Fails
  <2>1. journal' = Stopped(journal, "FAILED") /\ pc' = "idle" /\ read' = None
    BY <1>7 DEF Fails, Record
  <2> QED
    BY <1>2, <1>3, <2>1, StoppedKeeps, SameRoundsInv DEF Terminal
<1> QED
  BY <1>4, <1>5, <1>6, <1>7

LEMMA KilledInv ==
    ASSUME RebuildInv, Killed
    PROVE  RebuildInv'
<1>1. UNCHANGED <<live, journal, root>> /\ pc' = "idle" /\ read' = None
  BY DEF Killed, Outside, Disk
<1> QED
  BY <1>1 DEF RebuildInv, TypeOK, JournalInv, ProcessInv, RootInv

LEMMA KindOfNext ==
    \A n \in Nat : KindOf(n + 1) = IF n = 0 THEN "baseline" ELSE IF n = 1 THEN "delta" ELSE "zero"
<1> SUFFICES ASSUME NEW n \in Nat
             PROVE  KindOf(n + 1) = IF n = 0 THEN "baseline" ELSE IF n = 1 THEN "delta" ELSE "zero"
  OBVIOUS
<1>1. (n + 1 = 1 <=> n = 0) /\ (n + 1 = 2 <=> n = 1)
  OBVIOUS
<1> QED
  BY <1>1 DEF KindOf

(* The next round is the one that is due, and nothing of it has been read. *)
LEMMA RoundStartsInv ==
    ASSUME RebuildInv, RoundStarts
    PROVE  RebuildInv'
<1>1. journal \in Journal /\ journal # None /\ JournalOK(journal, live) /\ journal.phase \notin Terminal
  BY RunningJournal DEF RoundStarts
<1>2. UNCHANGED <<live, root, read>> /\ pc' = "entry"
  BY DEF RoundStarts, Record, Goto, Outside
<1>3. CASE journal.active # None
  <2>1. journal' = journal
    BY <1>3 DEF RoundStarts, Record
  <2> QED
    BY <1>1, <1>2, <1>3, <2>1 DEF RebuildInv, TypeOK, JournalInv, ProcessInv, RootInv
<1>4. CASE journal.active = None
  <2> DEFINE a == [kind |-> NextKind(journal), index |-> Len(journal.rounds) + 1,
                   entries |-> [c \in Channels |-> None]]
  <2>1. journal' = [journal EXCEPT !.active = a]
    BY <1>4 DEF RoundStarts, Record
  <2>2. journal.rounds \in Seq(Round) /\ Len(journal.rounds) \in Nat
    BY <1>1, JournalFields
  <2>3. NextKind(journal) = KindOf(Len(journal.rounds) + 1) /\ journal.streak # 2
    <3>1. NextKind(journal) # None
      BY DEF RoundStarts
    <3>2. journal.rounds = <<>> <=> Len(journal.rounds) = 0
      BY <2>2
    <3>3. journal.streak = 2 => journal.rounds # <<>> /\ Len(journal.rounds) # 1
      <4>1. ASSUME journal.streak = 2
            PROVE  Len(journal.rounds) > 1
        <5>1. 1 \in 1..2
          OBVIOUS
        <5>2. 1 \in 1..journal.streak
          BY <4>1, <5>1
        <5> QED
          BY <1>1, <5>2 DEF JournalOK, StreakEarned
      <4>2. Len(journal.rounds) \in Nat
        BY <2>2
      <4>3. \A n \in Nat : n > 1 => n # 0 /\ n # 1
        OBVIOUS
      <4>4. Len(journal.rounds) > 1 => Len(journal.rounds) # 0 /\ Len(journal.rounds) # 1
        BY ONLY <4>2, <4>3
      <4> QED
        BY ONLY <3>2, <4>1, <4>4
    <3>4. journal.streak \in 0..2
      BY <1>1, JournalFields
    <3>5. NextKind(journal) = IF Len(journal.rounds) = 0 THEN "baseline"
                              ELSE IF Len(journal.rounds) = 1 THEN "delta"
                              ELSE IF journal.streak < 2 THEN "zero" ELSE None
      BY <1>4, <3>2 DEF NextKind
    <3>6. journal.streak # 2
      BY <2>2, <3>1, <3>2, <3>3, <3>5
    <3>7. KindOf(Len(journal.rounds) + 1) = IF Len(journal.rounds) = 0 THEN "baseline"
                                            ELSE IF Len(journal.rounds) = 1 THEN "delta" ELSE "zero"
      BY <2>2, KindOfNext
    <3> QED
      BY <2>2, <3>1, <3>4, <3>5, <3>6, <3>7
  <2>4. a \in Active
    BY <2>2, <2>3 DEF Active, KindOf, Kinds
  <2>5. /\ journal' \in Journal /\ journal'.active = a /\ journal'.rounds = journal.rounds
        /\ journal'.streak = journal.streak /\ journal'.phase = journal.phase /\ Safe(journal') = Safe(journal)
    BY <1>1, <2>1, <2>4 DEF Journal, Safe
  <2>6. a # None /\ journal' # None
    BY <2>4, <2>5, NoneAssumption
  <2>7. a.index = Len(journal.rounds) + 1 /\ a.kind = KindOf(Len(journal.rounds) + 1)
        /\ \A c \in Channels : a.entries[c] = None
    BY <2>3
  <2> HIDE DEF a
  <2>8. JournalOK(journal', live)
    BY <1>1, <2>5, <2>6, <2>7 DEF JournalOK, ActiveFollows, StreakEarned
  <2>9. root = None
    BY <2>3 DEF RebuildInv, RootInv, Closed
  <2> QED
    BY <1>1, <1>2, <2>5, <2>6, <2>8, <2>9 DEF RebuildInv, TypeOK, JournalInv, ProcessInv, RootInv
<1> QED
  BY <1>3, <1>4

LEMMA EntryStagedInv ==
    ASSUME RebuildInv, EntryStaged
    PROVE  RebuildInv'
<1>1. journal \in Journal /\ journal # None /\ JournalOK(journal, live) /\ journal.active # None
  BY RunningJournal DEF EntryStaged, RebuildInv, ProcessInv
<1>2. UNCHANGED <<live, root, journal>> /\ pc' = "seal" /\ read' = live[C] /\ Pending # {}
  BY DEF EntryStaged, Goto, Disk, Outside
<1>3. C \in Channels /\ C' = C /\ Pending' = Pending
  BY <1>2 DEF C, Pending
<1>4. live[C] \in Content
  BY <1>3 DEF RebuildInv, TypeOK, Data
<1>5. journal.rounds # <<>> => After(live[C], journal.rounds[Len(journal.rounds)].at[C])
  <2>1. journal.rounds # <<>> => Len(journal.rounds) \in DOMAIN journal.rounds
    BY <1>1, JournalFields
  <2> QED
    BY <1>1, <1>3, <2>1 DEF JournalOK, RoundsFollow
<1>6. ReadNow(journal, C, live[C], live)
  BY <1>4, <1>5, AfterItself DEF ReadNow
<1>7. read' # None /\ read' \in Content
  BY <1>2, <1>4, NoneAssumption
<1>8. pc = "entry" /\ journal.phase \notin Terminal
  BY RunningJournal DEF EntryStaged
<1>9. ProcessInv'
  BY <1>1, <1>2, <1>3, <1>6, <1>7, <1>8 DEF ProcessInv
<1> QED
  BY <1>2, <1>7, <1>9 DEF RebuildInv, TypeOK, JournalInv, RootInv

LEMMA EntrySealedInv ==
    ASSUME RebuildInv, EntrySealed
    PROVE  RebuildInv'
<1>1. /\ journal \in Journal /\ journal # None /\ JournalOK(journal, live) /\ journal.phase \notin Terminal
      /\ journal.active # None
  BY RunningJournal DEF EntrySealed, RebuildInv, ProcessInv
<1> DEFINE a == journal.active
           b == [a EXCEPT !.entries[C] = read]
<1>2. /\ UNCHANGED <<live, root>> /\ pc' = "entry" /\ read' = None
      /\ journal' = [journal EXCEPT !.active = b]
  BY DEF EntrySealed, Goto, Record, Outside
<1>3. C \in Channels /\ read \in Content /\ ReadNow(journal, C, read, live)
  BY DEF EntrySealed, RebuildInv, TypeOK, ProcessInv, C, Pending
<1>4. a \in Active
  BY <1>1 DEF Journal
<1>5. /\ b \in Active /\ b.kind = a.kind /\ b.index = a.index
      /\ b.entries = [a.entries EXCEPT ![C] = read]
  BY <1>3, <1>4 DEF Active
<1>6. \A c \in Channels : b.entries[c] # None => ReadNow(journal, c, b.entries[c], live)
  BY <1>1, <1>3, <1>4, <1>5 DEF JournalOK, ActiveFollows, Active
<1> HIDE DEF a, b
<1>7. /\ journal' \in Journal /\ journal'.active = b /\ journal'.rounds = journal.rounds
      /\ journal'.streak = journal.streak /\ journal'.phase = journal.phase /\ Safe(journal') = Safe(journal)
  BY <1>1, <1>2, <1>5 DEF Journal, Safe
<1>8. b # None /\ journal' # None
  BY <1>5, <1>7, NoneAssumption
<1>9. JournalOK(journal', live)
  <2>1. ActiveFollows(journal', live)
    BY <1>1, <1>5, <1>6, <1>7 DEF JournalOK, ActiveFollows, ReadNow, a
  <2> QED
    BY <1>1, <1>7, <2>1 DEF JournalOK, StreakEarned
<1>10. root = None
  BY <1>1 DEF RebuildInv, RootInv, Closed
<1> QED
  BY <1>1, <1>2, <1>7, <1>8, <1>9, <1>10 DEF RebuildInv, TypeOK, JournalInv, ProcessInv, RootInv

(* The round appended was read after the end of the one before it.         *)
LEMMA AppendFollows ==
    ASSUME NEW rounds \in Seq(Round), NEW now \in Data, NEW data \in Data, NEW kind \in Kinds,
           RoundsFollow(rounds, now), kind = KindOf(Len(rounds) + 1),
           \A c \in Channels : After(now[c], data[c]),
           rounds # <<>> => \A c \in Channels : After(data[c], rounds[Len(rounds)].at[c])
    PROVE  /\ Append(rounds, [kind |-> kind, data |-> data, at |-> now]) \in Seq(Round)
           /\ RoundsFollow(Append(rounds, [kind |-> kind, data |-> data, at |-> now]), now)
<1> DEFINE r == [kind |-> kind, data |-> data, at |-> now]
           after == Append(rounds, r)
<1>1. r \in Round /\ r.kind = kind /\ r.data = data /\ r.at = now
  BY DEF Round
<1> HIDE DEF r
<1>2. Len(rounds) \in Nat /\ DOMAIN rounds = 1..Len(rounds) /\ DOMAIN after = 1..(Len(rounds) + 1)
      /\ after \in Seq(Round) /\ Len(after) = Len(rounds) + 1
  BY <1>1
<1>3. /\ \A i \in 1..Len(rounds) : after[i] = rounds[i]
      /\ after[Len(rounds) + 1] = r
  BY <1>1
<1> HIDE DEF after
<1>4. \A i \in DOMAIN after : i \in DOMAIN rounds \/ i = Len(rounds) + 1
  BY <1>2
<1>5. \A i \in DOMAIN after : after[i].kind = KindOf(i)
  BY <1>1, <1>2, <1>3, <1>4 DEF RoundsFollow
<1>6. \A c \in Channels : After(now[c], now[c])
  BY AfterItself DEF Data
<1>7. \A i \in DOMAIN after : \A c \in Channels :
        After(after[i].at[c], after[i].data[c]) /\ After(now[c], after[i].at[c])
  BY <1>1, <1>2, <1>3, <1>4, <1>6 DEF RoundsFollow
<1>8. ASSUME NEW i \in DOMAIN after, i + 1 \in DOMAIN after, NEW c \in Channels
      PROVE  After(after[i + 1].data[c], after[i].at[c])
  <2>1. i \in DOMAIN rounds
    BY <1>2, <1>8
  <2>2. CASE i + 1 \in DOMAIN rounds
    BY <1>2, <1>3, <1>8, <2>1, <2>2 DEF RoundsFollow
  <2>3. CASE i + 1 = Len(rounds) + 1
    <3>1. i = Len(rounds) /\ rounds # <<>>
      BY <1>2, <2>1, <2>3
    <3> QED
      BY <1>1, <1>2, <1>3, <1>8, <2>1, <2>3, <3>1
  <2> QED
    BY <1>4, <1>8, <2>2, <2>3
<1> QED
  BY <1>2, <1>5, <1>7, <1>8 DEF RoundsFollow, r, after

(* The journal with the round that is sealed, before its phase is set.     *)
LEMMA SealedJournal ==
    ASSUME RebuildInv, RoundSealed
    PROVE  [journal EXCEPT
              !.rounds = Append(@, [kind |-> journal.active.kind, data |-> journal.active.entries, at |-> live]),
              !.streak = Streak(journal), !.active = None] \in Journal
<1> DEFINE a == journal.active
           r == [kind |-> a.kind, data |-> a.entries, at |-> live]
<1>1. journal \in Journal /\ a # None /\ live \in Data /\ Pending = {}
  BY RunningJournal DEF RoundSealed, RebuildInv, ProcessInv, TypeOK
<1>2. a \in Active
  BY <1>1 DEF Journal
<1>3. a.kind \in Kinds /\ a.entries \in Data
  BY <1>1, <1>2 DEF Pending, Active, Data
<1>4. r \in Round
  BY <1>1, <1>3 DEF Round
<1>5. Append(journal.rounds, r) \in Seq(Round) /\ Streak(journal) \in 0..2
  BY <1>1, <1>4, JournalFields DEF Streak
<1> QED
  BY <1>1, <1>5 DEF Journal

LEMMA RoundSealedInv ==
    ASSUME RebuildInv, RoundSealed
    PROVE  RebuildInv'
<1>1. /\ journal \in Journal /\ journal # None /\ JournalOK(journal, live) /\ journal.phase \notin Terminal
      /\ journal.active # None /\ live \in Data
  BY RunningJournal DEF RoundSealed, RebuildInv, ProcessInv, TypeOK
<1> DEFINE a == journal.active
           r == [kind |-> a.kind, data |-> a.entries, at |-> live]
           k == [journal EXCEPT !.rounds = Append(@, r), !.streak = Streak(journal), !.active = None]
           p == PhaseAfter(a.kind, Streak(journal))
<1>2. UNCHANGED <<live, root, read>> /\ pc' = "loop" /\ journal' = SetPhase(k, p) /\ Pending = {}
  BY DEF RoundSealed, Record, Goto, Outside, Finished
<1>3. a \in Active /\ a.kind \in Kinds /\ a.kind = KindOf(Len(journal.rounds) + 1)
  BY <1>1 DEF Journal, Active, JournalOK, ActiveFollows
<1>4. a.entries \in Data /\ \A c \in Channels : a.entries[c] # None
  BY <1>2, <1>3 DEF Pending, Active, Data
<1>5. \A c \in Channels : ReadNow(journal, c, a.entries[c], live)
  BY <1>1, <1>4 DEF JournalOK, ActiveFollows
<1>6. journal.rounds \in Seq(Round) /\ Len(journal.rounds) \in Nat
  BY <1>1, JournalFields
<1>7. Append(journal.rounds, r) \in Seq(Round) /\ RoundsFollow(Append(journal.rounds, r), live)
  BY <1>1, <1>3, <1>4, <1>5, <1>6, AppendFollows DEF JournalOK, ReadNow
<1>8. Streak(journal) \in 0..2
  BY DEF Streak
<1>9. /\ k \in Journal /\ k.rounds = Append(journal.rounds, r) /\ k.streak = Streak(journal)
      /\ k.active = None /\ k.phase = journal.phase /\ Safe(k) = Safe(journal)
  BY <1>1, <1>7, <1>8 DEF Journal, Safe
<1>10. Streak(journal) > 0 =>
         /\ Len(journal.rounds) >= 2
         /\ Quiet(a.entries, journal.rounds[Len(journal.rounds)].data)
  <2>1. Streak(journal) > 0 => a.kind = "zero" /\ ZeroDelta(journal)
    BY DEF Streak
  <2>2. a.kind = "zero" => Len(journal.rounds) >= 2
    BY <1>3, <1>6, KindOfNext
  <2> QED
    BY <2>1, <2>2 DEF ZeroDelta, Last
<1>11. StreakEarned(k)
  <2> SUFFICES ASSUME NEW i \in 1..k.streak
               PROVE  /\ Len(k.rounds) > i
                      /\ Quiet(k.rounds[Len(k.rounds) + 1 - i].data, k.rounds[Len(k.rounds) - i].data)
    BY DEF StreakEarned
  <2>1. Len(journal.rounds) >= 2 /\ Quiet(r.data, journal.rounds[Len(journal.rounds)].data)
    BY <1>8, <1>9, <1>10
  <2>2. i \in {1, 2} /\ (i = 2 => 1 \in 1..journal.streak)
    BY <1>1, <1>8, <1>9, JournalFields DEF Streak
  <2>3. 1 \in 1..journal.streak =>
          /\ Len(journal.rounds) > 1
          /\ Quiet(journal.rounds[Len(journal.rounds) + 1 - 1].data, journal.rounds[Len(journal.rounds) - 1].data)
    BY <1>1 DEF JournalOK, StreakEarned
  <2> HIDE DEF k, r, a
  <2>4. Len(k.rounds) = Len(journal.rounds) + 1 /\ k.rounds[Len(journal.rounds) + 1] = r
        /\ \A n \in 1..Len(journal.rounds) : k.rounds[n] = journal.rounds[n]
    BY <1>6, <1>9
  <2>5. CASE i = 1
    <3>1. Len(k.rounds) + 1 - i = Len(journal.rounds) + 1 /\ Len(k.rounds) - i = Len(journal.rounds)
          /\ Len(journal.rounds) \in 1..Len(journal.rounds) /\ Len(k.rounds) > i
      BY <1>6, <2>1, <2>4, <2>5
    <3> QED
      BY <2>1, <2>4, <3>1
  <2>6. CASE i = 2
    <3>1. Len(k.rounds) + 1 - i = Len(journal.rounds) /\ Len(k.rounds) - i = Len(journal.rounds) - 1
          /\ Len(journal.rounds) \in 1..Len(journal.rounds) /\ Len(journal.rounds) - 1 \in 1..Len(journal.rounds)
          /\ Len(k.rounds) > i /\ Len(journal.rounds) + 1 - 1 = Len(journal.rounds)
      BY <1>6, <2>1, <2>4, <2>6
    <3> QED
      BY <2>2, <2>3, <2>4, <2>6, <3>1
  <2> QED
    BY <2>2, <2>5, <2>6
<1>12. JournalOK(k, live)
  BY <1>1, <1>7, <1>9, <1>11 DEF JournalOK, ActiveFollows
<1>13. p \in Range(Phases)
  BY PhaseNames DEF PhaseAfter
<1> HIDE DEF k, p, a, r
<1>14. /\ journal' \in Journal /\ Safe(journal') \in Range(Phases) /\ journal'.phase \notin Terminal
       /\ journal'.rounds = k.rounds /\ journal'.active = k.active /\ journal'.streak = k.streak
  BY <1>1, <1>2, <1>9, <1>12, <1>13, SetPhaseMoves DEF JournalOK
<1>15. JournalOK(journal', live)
  BY <1>12, <1>14, SameRounds
<1>16. root = None /\ journal' # None
  BY <1>1, <1>14, NoneAssumption DEF RebuildInv, RootInv, Closed
<1> QED
  BY <1>2, <1>14, <1>15, <1>16 DEF RebuildInv, TypeOK, JournalInv, ProcessInv, RootInv

(* The last phases: the rounds are closed and stay as they are.            *)
LEMMA ClosingInv ==
    ASSUME RebuildInv, Converged \/ CompatPublished \/ Commit \/ FinalReceipt
    PROVE  RebuildInv'
<1>1. pc # "idle" /\ UNCHANGED <<live, root, read>>
  BY DEF Converged, CompatPublished, Commit, FinalReceipt, Record, Goto, Outside
<1>2. /\ journal \in Journal /\ journal # None /\ Safe(journal) \in Range(Phases) /\ journal.phase \notin Terminal
  BY <1>1, RunningJournal
<1>3. CASE Converged
  <2>1. Closed(journal)
    <3>1. journal.active = None
      BY <1>2, <1>3, NoneAssumption DEF Converged, NextKind, Journal, Active
    <3> QED
      BY <1>2, <1>3, <3>1, JournalFields DEF Converged, Closed
  <2>2. journal' = SetPhase(journal, "READY_TO_COMMIT") /\ pc' = "publish"
    BY <1>3 DEF Converged, Record, Goto
  <2> QED
    BY <1>1, <1>2, <2>1, <2>2, PhaseNames, SetPhaseMoves, SameRoundsInv
<1>4. CASE CompatPublished \/ FinalReceipt
  <2>1. Closed(journal) /\ journal' = journal /\ pc' \in {"commit", "idle"}
    BY <1>4 DEF CompatPublished, FinalReceipt, RebuildInv, ProcessInv, Goto
  <2> QED
    BY <1>1, <1>2, <2>1, SameRoundsInv
<1>5. CASE Commit
  <2>1. Closed(journal) /\ journal' = SetPhase(journal, "COMMITTED") /\ pc' = "receipt"
    BY <1>5 DEF Commit, RebuildInv, ProcessInv, Record, Goto
  <2> QED
    BY <1>1, <1>2, <2>1, PhaseNames, SetPhaseMoves, SameRoundsInv
<1> QED
  BY <1>3, <1>4, <1>5

LEMMA RootPublishedInv ==
    ASSUME RebuildInv, RootPublished
    PROVE  RebuildInv'
<1>1. /\ UNCHANGED <<live, journal, read>> /\ pc' = "compat" /\ Closed(journal)
      /\ root' = journal.rounds[Len(journal.rounds)].data
  BY DEF RootPublished, Goto, Outside, RebuildInv, ProcessInv, Last
<1>2. journal # None /\ journal.phase \notin Terminal
  BY RunningJournal DEF RootPublished
<1> QED
  BY <1>1, <1>2 DEF RebuildInv, TypeOK, JournalInv, ProcessInv, RootInv, Closed

LEMMA NextInv ==
    ASSUME RebuildInv, [Next]_vars
    PROVE  RebuildInv'
BY StartInv, QuietStepsInv, RoundStartsInv, EntryStagedInv, EntrySealedInv, RoundSealedInv, ClosingInv,
   RootPublishedInv, KilledInv, LedgersInv, ChangeInv
   DEF Next, Step

-----------------------------------------------------------------------------
(* What is on disk, the process and the root agree in every reachable      *)
(* state, after any kills, failures, pauses and restarts.                  *)
THEOREM Invariance == Spec => []RebuildInv
BY InitInv, NextInv, PTL DEF Spec

(* What the rounds say of one message, by the order of the readings.       *)
LEMMA CutoffHolds ==
    ASSUME RebuildInv
    PROVE  CompleteThroughCutoff
<1> SUFFICES ASSUME root # None
             PROVE  LET rounds == journal.rounds
                        n == Len(rounds)
                    IN  \A c \in Channels, m \in Messages :
                          /\ root[c][m] \in Looks => \A i \in {n - 2, n - 1} : rounds[i].at[c][m] \in Looks
                          /\ rounds[n - 1].at[c][m] \in Looks /\ root[c][m] \notin Looks =>
                               rounds[n].at[c][m] = "deleted"
  BY DEF CompleteThroughCutoff
<1> DEFINE n == Len(journal.rounds)
           data(i) == journal.rounds[i].data
           at(i) == journal.rounds[i].at
<1>1. /\ journal \in Journal /\ JournalOK(journal, live) /\ Closed(journal) /\ root = data(n)
  BY DEF RebuildInv, TypeOK, JournalInv, RootInv, Closed
<1>2. n \in Nat /\ DOMAIN journal.rounds = 1..n
  BY <1>1, JournalFields
<1>3. n > 2 /\ Quiet(data(n + 1 - 1), data(n - 1)) /\ Quiet(data(n + 1 - 2), data(n - 2))
  <2>1. 1 \in 1..journal.streak /\ 2 \in 1..journal.streak
    BY <1>1 DEF Closed
  <2> QED
    BY <1>1, <2>1 DEF JournalOK, StreakEarned
<1> HIDE DEF n
<1>4. /\ n \in DOMAIN journal.rounds /\ n - 1 \in DOMAIN journal.rounds /\ n - 2 \in DOMAIN journal.rounds
      /\ (n - 1) + 1 = n /\ (n - 2) + 1 = n - 1 /\ n + 1 - 1 = n /\ n + 1 - 2 = n - 1
  BY <1>2, <1>3
<1>5. \A c \in Channels :
        /\ After(at(n)[c], data(n)[c]) /\ After(data(n)[c], at(n - 1)[c])
        /\ After(at(n - 1)[c], data(n - 1)[c]) /\ After(data(n - 1)[c], at(n - 2)[c])
        /\ After(at(n - 2)[c], data(n - 2)[c])
  BY <1>1, <1>4 DEF JournalOK, RoundsFollow
<1>6. \A c \in Channels :
        /\ data(n)[c] \in Content /\ data(n - 1)[c] \in Content /\ data(n - 2)[c] \in Content
        /\ at(n)[c] \in Content /\ at(n - 1)[c] \in Content /\ at(n - 2)[c] \in Content
  BY <1>1, <1>4, RoundTypes
<1> HIDE DEF data, at
<1>7. ASSUME NEW c \in Channels, NEW m \in Messages
      PROVE  /\ root[c][m] \in Looks => at(n - 2)[c][m] \in Looks /\ at(n - 1)[c][m] \in Looks
             /\ at(n - 1)[c][m] \in Looks /\ root[c][m] \notin Looks => at(n)[c][m] = "deleted"
  <2>1. /\ data(n)[c][m] \in Looks => data(n - 1)[c][m] \in Looks
        /\ data(n - 1)[c][m] \in Looks => data(n - 2)[c][m] \in Looks
    BY <1>3, <1>4 DEF Quiet, QuietIn, NewIds
  <2>2. /\ Follows(at(n)[c][m], data(n)[c][m]) /\ Follows(data(n)[c][m], at(n - 1)[c][m])
        /\ Follows(at(n - 1)[c][m], data(n - 1)[c][m]) /\ Follows(data(n - 1)[c][m], at(n - 2)[c][m])
        /\ Follows(at(n - 2)[c][m], data(n - 2)[c][m])
    BY <1>5 DEF After
  <2>3. /\ at(n)[c][m] \in Looks \cup {"unposted", "deleted"}
        /\ at(n - 1)[c][m] \in Looks \cup {"unposted", "deleted"}
        /\ at(n - 2)[c][m] \in Looks \cup {"unposted", "deleted"}
        /\ data(n)[c][m] \in Looks \cup {"unposted", "deleted"}
    BY <1>6 DEF Content
  <2> QED
    BY <1>1, <2>1, <2>2, <2>3 DEF Follows
<1> QED
  BY <1>7 DEF n, at

(* The root that is published holds no message later than the beginning of *)
(* the two zero rounds, and lacks of the moment when the first of them was *)
(* sealed only what has been deleted, in all channels (zeroDelta,          *)
(* seal_round).                                                            *)
THEOREM RootIsComplete == Spec => []CompleteThroughCutoff
BY Invariance, CutoffHolds, PTL

LEMMA JournalLoadsHolds ==
    ASSUME RebuildInv
    PROVE  JournalLoads
<1> SUFFICES ASSUME journal # None
             PROVE  /\ Safe(journal) \in Range(Phases) /\ journal.streak \in 0..2
                    /\ \A i \in DOMAIN journal.rounds :
                         /\ journal.rounds[i].kind = (IF i = 1 THEN "baseline" ELSE IF i = 2 THEN "delta" ELSE "zero")
                         /\ journal.rounds[i].data \in Data
                    /\ journal.active # None => journal.active.index = Len(journal.rounds) + 1
  BY DEF JournalLoads
<1>1. journal \in Journal /\ JournalOK(journal, live)
  BY DEF RebuildInv, TypeOK, JournalInv
<1>2. \A i \in DOMAIN journal.rounds : journal.rounds[i].data \in Data
  BY <1>1, RoundTypes
<1>3. \A i \in DOMAIN journal.rounds :
        journal.rounds[i].kind = (IF i = 1 THEN "baseline" ELSE IF i = 2 THEN "delta" ELSE "zero")
  BY <1>1 DEF JournalOK, RoundsFollow, KindOf
<1> QED
  BY <1>1, <1>2, <1>3, JournalFields DEF JournalOK, ActiveFollows

(* Whatever was interrupted, the journal on disk passes the checks of the  *)
(* next start (_validate_journal_binding).                                 *)
THEOREM JournalAlwaysLoads == Spec => []JournalLoads
BY Invariance, JournalLoadsHolds, PTL

-----------------------------------------------------------------------------
(* Only RootPublished writes the root, and it writes what is there.        *)
LEMMA RootStays ==
    ASSUME RebuildInv, [Next]_vars, root # None
    PROVE  root' = root
<1>1. CASE RootPublished
  BY <1>1 DEF RootPublished, RebuildInv, RootInv, Last
<1>2. CASE ~RootPublished
  BY <1>2 DEF Next, Step, vars, Start, Inventory, Resources, Pause, RoundStarts, EntryStaged, EntrySealed,
              RoundSealed, Converged, CompatPublished, Commit, FinalReceipt, Fails, Killed, LedgersChange,
              Post, Edit, Delete, Becomes, Record, Disk
<1> QED
  BY <1>1, <1>2

(* A root that was published is not moved by a failure, a kill or a        *)
(* restart before the run is committed (_run_locked).                      *)
THEOREM RootIsKept == Spec => RootKept
BY Invariance, RootStays, PTL DEF Spec, RootKept

LEMMA PhaseStays ==
    ASSUME RebuildInv, [Next]_vars, journal # None
    PROVE  Rank(Safe(journal)) <= Rank(Safe(journal'))
<1>1. journal \in Journal /\ Safe(journal) \in Range(Phases) /\ Rank(Safe(journal)) \in 1..9
  BY RankNat DEF RebuildInv, TypeOK, JournalInv, JournalOK
<1>2. CASE Start
  BY <1>1, <1>2, ResumedKeeps DEF Start, Record
<1>3. CASE Inventory \/ Converged \/ Commit
  <2>1. journal.phase \notin Terminal
    BY <1>3, RunningJournal DEF Inventory, Converged, Commit
  <2>2. \E p \in Range(Phases) : journal' = SetPhase(journal, p)
    BY <1>3, PhaseNames DEF Inventory, Converged, Commit, Record
  <2> QED
    BY <1>1, <2>1, <2>2, SetPhaseMoves
<1>4. CASE Resources
  <2> DEFINE k == SetPhase(journal, "BASELINE_FROZEN")
  <2>1. journal.phase \notin Terminal /\ journal' = SetPhase(k, "REBUILDING")
    BY <1>4, RunningJournal DEF Resources, Record
  <2>2. /\ k \in Journal /\ Safe(k) \in Range(Phases) /\ k.phase \notin Terminal
        /\ Rank(Safe(journal)) <= Rank(Safe(k))
    BY <1>1, <2>1, PhaseNames, SetPhaseMoves
  <2> HIDE DEF k
  <2>3. Rank(Safe(k)) <= Rank(Safe(journal')) /\ Safe(journal') \in Range(Phases)
    BY <2>1, <2>2, PhaseNames, SetPhaseMoves
  <2>4. Rank(Safe(k)) \in 1..9 /\ Rank(Safe(journal')) \in 1..9
    BY <2>2, <2>3, RankNat
  <2> QED
    BY <1>1, <2>2, <2>3, <2>4
<1>5. CASE Pause \/ Fails
  <2>1. \E p \in Terminal : journal' = Stopped(journal, p)
    BY <1>5 DEF Pause, Fails, Record, Terminal
  <2>2. Safe(journal') = Safe(journal)
    BY <1>1, <2>1, StoppedKeeps
  <2> QED
    BY <1>1, <2>2
<1>6. CASE RoundStarts \/ EntrySealed
  <2>1. journal'.phase = journal.phase /\ journal'.resume = journal.resume
    BY <1>1, <1>6 DEF RoundStarts, EntrySealed, Record, Journal
  <2> QED
    BY <1>1, <2>1 DEF Safe
<1>7. CASE RoundSealed
  <2> DEFINE k == [journal EXCEPT
                     !.rounds = Append(@, [kind |-> journal.active.kind, data |-> journal.active.entries, at |-> live]),
                     !.streak = Streak(journal), !.active = None]
             p == PhaseAfter(journal.active.kind, Streak(journal))
  <2>1. journal' = SetPhase(k, p)
    BY <1>7 DEF RoundSealed, Finished, Record
  <2>2. k.phase = journal.phase /\ k.resume = journal.resume
    BY <1>1 DEF Journal
  <2>3. Safe(k) = Safe(journal)
    BY <2>2 DEF Safe
  <2>4. p \in Range(Phases) /\ journal.phase \notin Terminal
    BY <1>7, PhaseNames, RunningJournal DEF PhaseAfter, RoundSealed
  <2>5. k \in Journal
    BY <1>7, <1>1, SealedJournal
  <2> HIDE DEF k, p
  <2> QED
    BY <1>1, <2>1, <2>2, <2>3, <2>4, <2>5, SetPhaseMoves
<1>8. CASE EntryStaged \/ RootPublished \/ CompatPublished \/ FinalReceipt \/ Killed \/ LedgersChange
           \/ (\E c \in Channels, m \in Messages : Post(c, m) \/ Edit(c, m) \/ Delete(c, m)) \/ UNCHANGED vars
  <2>1. journal' = journal
    BY <1>8 DEF EntryStaged, RootPublished, CompatPublished, FinalReceipt, Killed, LedgersChange, Post, Edit,
          Delete, Becomes, vars, Disk
  <2> QED
    BY <1>1, <2>1
<1> QED
  BY <1>2, <1>3, <1>4, <1>5, <1>6, <1>7, <1>8 DEF Next, Step

(* No step, restarts included, falls behind a phase that was reached       *)
(* (_set_phase, _record_failure, _load_or_create_journal).                 *)
THEOREM PhasesGoForward == Spec => PhaseForward
BY Invariance, PhaseStays, PTL DEF Spec, PhaseForward

=============================================================================
