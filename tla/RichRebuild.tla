---------------------------- MODULE RichRebuild ----------------------------
(***************************************************************************)
(* The full rebuild coordinator (run_full_rich_rebuild_v2.py): rounds over *)
(* the whole guild, each reading every channel completely, until two rounds*)
(* in a row count nothing new; then one root pointer selects the last round*)
(* What is counted are IDs the round before did not have, and changed looks*)
(* of messages inside the refresh scope.  Deletions are not counted, nor   *)
(* changes outside the scope.                                              *)
(* What survives a kill is the journal, one atomic file that names a chain *)
(* of event receipts (a receipt no journal names is ignored), the root and *)
(* channel pointers and the final receipt.  The archive adapter is         *)
(* external: its calls succeed as the audits demand, or fail.              *)
(***************************************************************************)
EXTENDS Naturals, Sequences, FiniteSets, SequencesExt

CONSTANTS Channels,
          Messages,      \* IDs in a channel
          Watched,       \* <<channel, ID>> inside the refresh scope
          Looks,         \* what a message can show: text, reactions, pin state
          MaxChanges,    \* bound: posts, changes and deletions
          MaxFaults,     \* bound: failed calls and kills
          MaxZeroRounds, \* limits.max_convergence_rounds
          None

ASSUME RoundsAssumption ==
  /\ MaxZeroRounds \in Nat /\ MaxChanges \in Nat /\ MaxFaults \in Nat /\ Watched \subseteq Channels \X Messages
  /\ "unposted" \notin Looks /\ "deleted" \notin Looks

VARIABLES live,      \* per channel and message: its look, or unposted, or deleted
          changes,   \* of live so far, for the bound
          ledgers,   \* state and queue still have the hashes of the configuration
          journal,   \* run-journal.json, or None
          root,      \* what RUN_CURRENT.json selects, or None
          compat,    \* the channels' own CURRENT pointers select it too
          receipt,   \* full-rebuild-run.json exists
          pc, read,  \* the coordinator: next step; the snapshot staged
          faults

vars == <<live, changes, ledgers, journal, root, compat, receipt, pc, read, faults>>
Outside == <<live, changes, ledgers>>
Disk == <<journal, root, compat, receipt>>

Phases == <<"PREPARED", "INVENTORY_VERIFIED", "BASELINE_FROZEN", "REBUILDING", "BASELINE_COMPLETE",
            "DELTA_CONVERGING", "VERIFYING", "READY_TO_COMMIT", "COMMITTED">>
Rank(p) == CHOOSE i \in DOMAIN Phases : Phases[i] = p
Terminal == {"PAUSED", "FAILED"}
Content == [Messages -> Looks \cup {"unposted", "deleted"}]
Data == [Channels -> Content]
Kinds == {"baseline", "delta", "zero"}
Round == [kind : Kinds, data : Data, at : Data]
Active == [kind : Kinds, index : Nat, entries : [Channels -> Content \cup {None}]]
Journal == [phase : Range(Phases) \cup Terminal, resume : Range(Phases) \cup {None},
            rounds : Seq(Round), active : Active \cup {None}, streak : 0..2]
ASSUME NoneAssumption == None \notin Content /\ None \notin Kinds /\ None \notin Active /\ None \notin Journal

Safe(j) == IF j.phase \in Terminal THEN j.resume ELSE j.phase
Created == [phase |-> "PREPARED", resume |-> None, rounds |-> <<>>, active |-> None, streak |-> 0]
(* _set_phase never goes back.  Mutant: it does. *)
SetPhaseAnyway(j, p) == [j EXCEPT !.phase = p, !.resume = None]
SetPhase(j, p) == IF Rank(p) < Rank(Safe(j)) THEN j ELSE [j EXCEPT !.phase = p, !.resume = None]

(* Mutant of NextKind: one zero round ends the rounds. *)
NextKindOneZero(j) == IF j.active # None THEN j.active.kind
               ELSE IF j.rounds = <<>> THEN "baseline"
               ELSE IF Len(j.rounds) = 1 THEN "delta"
               ELSE IF j.streak < 1 THEN "zero" ELSE None
NextKind(j) == IF j.active # None THEN j.active.kind
               ELSE IF j.rounds = <<>> THEN "baseline"
               ELSE IF Len(j.rounds) = 1 THEN "delta"
               ELSE IF j.streak < 2 THEN "zero" ELSE None
ZeroRounds(j) == Len(SelectSeq(j.rounds, LAMBDA r : r.kind = "zero"))

Init ==
  /\ live \in [Channels -> [Messages -> Looks \cup {"unposted"}]] /\ changes = 0 /\ ledgers = TRUE /\ journal = None /\ root = None
  /\ compat = FALSE /\ receipt = FALSE /\ pc = "idle" /\ read = None /\ faults = 0

(* Discord: an ID is posted once and deleted for good; a look may change,  *)
(* and change back (a reaction, a pin).                                    *)
Becomes(c, m, state) ==
  /\ changes < MaxChanges /\ changes' = changes + 1 /\ live' = [live EXCEPT ![c][m] = state]
  /\ UNCHANGED <<ledgers, Disk, pc, read, faults>>
Post(c, m) == live[c][m] = "unposted" /\ \E look \in Looks : Becomes(c, m, look)
Edit(c, m) == live[c][m] \in Looks /\ \E look \in Looks \ {live[c][m]} : Becomes(c, m, look)
Delete(c, m) == live[c][m] \in Looks /\ Becomes(c, m, "deleted")
(* Another job rewrites a ledger. *)
LedgersChange == /\ ledgers /\ ledgers' = FALSE /\ UNCHANGED <<live, changes, Disk, pc, read, faults>>

-----------------------------------------------------------------------------
Goto(next) == pc' = next /\ UNCHANGED <<Outside, faults>>
Record(j) == journal' = j /\ UNCHANGED <<root, compat, receipt>>

Committed == IF journal = None THEN FALSE ELSE journal.phase = "COMMITTED"
(* Under the lock: the hashes, then the journal, created or resumed.       *)
(* Mutant of Resumed: a resumed run starts to count its zero rounds anew.  *)
ResumedAnew(j) == IF j.phase \in Terminal THEN [j EXCEPT !.phase = j.resume, !.resume = None, !.streak = 0] ELSE j
Resumed(j) == IF j.phase \in Terminal THEN [j EXCEPT !.phase = j.resume, !.resume = None] ELSE j
Start ==
  /\ pc = "idle" /\ ledgers /\ ~Committed
  /\ Record(IF journal = None THEN Created ELSE Resumed(journal))
  /\ Goto("inventory") /\ UNCHANGED read
Inventory == /\ pc = "inventory" /\ Record(SetPhase(journal, "INVENTORY_VERIFIED"))
             /\ Goto("resources") /\ UNCHANGED read
Resources == /\ pc = "resources"
             /\ Record(SetPhase(SetPhase(journal, "BASELINE_FROZEN"), "REBUILDING"))
             /\ Goto("loop") /\ UNCHANGED read

Exhausted(j) == NextKind(j) = "zero" /\ ZeroRounds(j) >= MaxZeroRounds
(* _record_failure: the phase to resume from is kept.                      *)
Stopped(j, phase) == [j EXCEPT !.phase = phase, !.resume = Safe(j)]
Pause == /\ pc = "loop" /\ Exhausted(journal) /\ Record(Stopped(journal, "PAUSED"))
         /\ Goto("idle") /\ UNCHANGED read
RoundStarts ==
  /\ pc = "loop" /\ ledgers /\ NextKind(journal) # None /\ ~Exhausted(journal)
  /\ Record(IF journal.active # None THEN journal
            ELSE [journal EXCEPT !.active = [kind |-> NextKind(journal), index |-> Len(journal.rounds) + 1,
                                             entries |-> [c \in Channels |-> None]]])
  /\ Goto("entry") /\ UNCHANGED read

(* The channels of a round in turn; those the journal holds are recovered. *)
Pending == {c \in Channels : journal.active.entries[c] = None}
C == CHOOSE c \in Pending : TRUE
EntryStaged == /\ pc = "entry" /\ Pending # {} /\ read' = live[C]
               /\ Goto("seal") /\ UNCHANGED Disk
EntrySealed == /\ pc = "seal" /\ ledgers /\ Record([journal EXCEPT !.active.entries[C] = read])
               /\ Goto("entry") /\ read' = None

(* finish_round.  at is a history field: Discord when the round was sealed.*)
(* A reading sees a message or does not; new IDs and changed looks count,  *)
(* refreshes of assets that remain unresolved fail the audit of the entry. *)
NewIds(new, old) == {m \in Messages : new[m] \in Looks /\ old[m] \notin Looks}
MutableChanges(c, new, old) ==
  {m \in Messages : <<c, m>> \in Watched /\ new[m] \in Looks /\ old[m] \in Looks /\ new[m] # old[m]}
QuietIn(c, new, old) == NewIds(new[c], old[c]) = {} /\ MutableChanges(c, new[c], old[c]) = {}
Quiet(new, old) == \A c \in Channels : QuietIn(c, new, old)
(* Mutants of ZeroDelta: changed looks alone count; one quiet channel is enough. *)
ZeroDeltaLooks(j) ==
  \A c \in Channels : MutableChanges(c, j.active.entries[c], Last(j.rounds).data[c]) = {}
ZeroDeltaSome(j) == \E c \in Channels : QuietIn(c, j.active.entries, Last(j.rounds).data)
ZeroDelta(j) == Quiet(j.active.entries, Last(j.rounds).data)
Streak(j) == IF j.active.kind # "zero" \/ ~ZeroDelta(j) THEN 0 ELSE IF j.streak = 0 THEN 1 ELSE 2
PhaseAfter(kind, streak) == IF kind = "baseline" THEN "BASELINE_COMPLETE"
                            ELSE IF streak = 2 THEN "VERIFYING" ELSE "DELTA_CONVERGING"
Finished(j) ==
  SetPhase([j EXCEPT !.rounds = Append(@, [kind |-> j.active.kind, data |-> j.active.entries, at |-> live]),
                     !.streak = Streak(j), !.active = None],
           PhaseAfter(j.active.kind, Streak(j)))
RoundSealed == /\ pc = "entry" /\ Pending = {} /\ Record(Finished(journal))
               /\ Goto("loop") /\ UNCHANGED read

Converged == /\ pc = "loop" /\ ledgers /\ NextKind(journal) = None
             /\ Len(journal.rounds) >= 4 /\ journal.streak = 2
             /\ Record(SetPhase(journal, "READY_TO_COMMIT")) /\ Goto("publish") /\ UNCHANGED read
RootPublished == /\ pc = "publish" /\ root' = Last(journal.rounds).data
                 /\ Goto("compat") /\ UNCHANGED <<journal, compat, receipt, read>>
CompatPublished == /\ pc = "compat" /\ ledgers /\ compat' = TRUE
                   /\ Goto("commit") /\ UNCHANGED <<journal, root, receipt, read>>
Commit == /\ pc = "commit" /\ ledgers /\ Record(SetPhase(journal, "COMMITTED"))
          /\ Goto("receipt") /\ UNCHANGED read
FinalReceipt == /\ pc = "receipt" /\ receipt' = TRUE
                /\ Goto("idle") /\ UNCHANGED <<journal, root, compat, read>>

(* An adapter call, an audit or a hash check fails: the failure is         *)
(* recorded unless the run is committed.                                   *)
Fails ==
  /\ pc \notin {"idle", "receipt"}
  /\ \/ ~ledgers /\ UNCHANGED faults
     \/ faults < MaxFaults /\ faults' = faults + 1
  /\ pc' = "idle" /\ read' = None /\ Record(Stopped(journal, "FAILED")) /\ UNCHANGED Outside
Killed == /\ pc # "idle" /\ faults < MaxFaults /\ faults' = faults + 1
          /\ pc' = "idle" /\ read' = None /\ UNCHANGED <<Outside, Disk>>

Step == \/ Start \/ Inventory \/ Resources \/ Pause \/ RoundStarts \/ EntryStaged \/ EntrySealed
        \/ RoundSealed \/ Converged \/ RootPublished \/ CompatPublished \/ Commit \/ FinalReceipt
Next == \/ Step \/ Fails \/ Killed \/ LedgersChange \/ \E c \in Channels, m \in Messages : Post(c, m) \/ Edit(c, m) \/ Delete(c, m)
Spec == Init /\ [][Next]_vars
(* A started run goes on, and its operator starts it again. *)
FairSpec == Spec /\ WF_vars(Step)

-----------------------------------------------------------------------------
(* What is on disk passes the checks of the next start, whatever a kill    *)
(* interrupted: kinds of rounds in order, the active round the next one,   *)
(* a phase to resume from (_validate_journal_binding).                     *)
JournalLoads == journal # None =>
  /\ Safe(journal) \in Range(Phases) /\ journal.streak \in 0..2
  /\ \A i \in DOMAIN journal.rounds :
       /\ journal.rounds[i].kind = (IF i = 1 THEN "baseline" ELSE IF i = 2 THEN "delta" ELSE "zero")
       /\ journal.rounds[i].data \in Data
  /\ journal.active # None => journal.active.index = Len(journal.rounds) + 1
(* The inductive invariant.                                                *)
KindOf(i) == IF i = 1 THEN "baseline" ELSE IF i = 2 THEN "delta" ELSE "zero"
TypeOK ==
  /\ live \in Data /\ journal \in Journal \cup {None} /\ read \in Content \cup {None}
  /\ pc \in {"idle", "inventory", "resources", "loop", "entry", "seal", "publish", "compat", "commit", "receipt"}
(* Of two looks at a message, or at a channel, the one is not the earlier. *)
Follows(new, old) == old = "unposted" \/ new = "deleted" \/ (old \in Looks /\ new \in Looks)
After(new, old) == \A m \in Messages : Follows(new[m], old[m])
(* Every round has its kind and reads after the end of the round before. *)
RoundsFollow(rounds, now) ==
  /\ \A i \in DOMAIN rounds : rounds[i].kind = KindOf(i)
  /\ \A i \in DOMAIN rounds : \A c \in Channels :
       After(rounds[i].at[c], rounds[i].data[c]) /\ After(now[c], rounds[i].at[c])
  /\ \A i \in DOMAIN rounds : i + 1 \in DOMAIN rounds =>
       \A c \in Channels : After(rounds[i + 1].data[c], rounds[i].at[c])
ReadNow(j, c, value, now) ==
  After(now[c], value) /\ (j.rounds # <<>> => After(value, j.rounds[Len(j.rounds)].at[c]))
ActiveFollows(j, now) == j.active # None =>
  /\ j.active.index = Len(j.rounds) + 1 /\ j.active.kind = KindOf(Len(j.rounds) + 1)
  /\ \A c \in Channels : j.active.entries[c] # None => ReadNow(j, c, j.active.entries[c], now)
(* Each round of the streak counted nothing against the round before it. *)
StreakEarned(j) == \A i \in 1..j.streak :
  Len(j.rounds) > i /\ Quiet(j.rounds[Len(j.rounds) + 1 - i].data, j.rounds[Len(j.rounds) - i].data)
JournalOK(j, now) ==
  Safe(j) \in Range(Phases) /\ RoundsFollow(j.rounds, now) /\ ActiveFollows(j, now) /\ StreakEarned(j)
JournalInv == journal # None => JournalOK(journal, live)
Closed(j) == j # None /\ j.active = None /\ j.streak = 2
ProcessInv ==
  /\ pc # "idle" => journal # None /\ journal.phase \notin Terminal
  /\ pc \in {"entry", "seal"} => journal.active # None
  /\ pc = "seal" => Pending # {} /\ read # None /\ ReadNow(journal, C, read, live)
  /\ pc \in {"publish", "compat", "commit", "receipt"} => Closed(journal)
RootInv == root # None => Closed(journal) /\ root = journal.rounds[Len(journal.rounds)].data
(* What a journal on disk, the process and the root say of each other, and *)
(* of Discord at the ends of the rounds (seal_round, _execute_round).      *)
RebuildInv == TypeOK /\ JournalInv /\ ProcessInv /\ RootInv
(* The root is complete through one cutoff for all channels and knows      *)
(* nothing later: what it has was there when the two zero rounds began and *)
(* when the first of them ended; what was there when the first ended and it*)
(* lacks has been deleted since (seal_round, zeroDelta; the guarantee      *)
(* current-state-complete-through-cutoff).                                 *)
CompleteThroughCutoff == root # None =>
  LET rounds == journal.rounds
      n == Len(rounds)
  IN  \A c \in Channels, m \in Messages :
        /\ root[c][m] \in Looks => \A i \in {n - 2, n - 1} : rounds[i].at[c][m] \in Looks
        /\ rounds[n - 1].at[c][m] \in Looks /\ root[c][m] \notin Looks => rounds[n].at[c][m] = "deleted"
(* A later start never goes back behind a phase that was reached.          *)
PhaseForward == [][journal # None => Rank(Safe(journal)) <= Rank(Safe(journal'))]_vars
(* Once published the root is not moved, whoever is killed before commit.  *)
RootKept == [][root # None => root' = root]_vars
(* A run of which a restart can be had commits, or its rounds are used up, *)
(* unless a ledger changes under it.                                       *)
Concludes == <>(~ledgers \/ Committed \/ (journal # None /\ Exhausted(journal)))
(* docs/tasks/2026-09-05-full-rich-rebuild-saga.md: a crash never leaves a *)
(* COMMITTED journal without its receipt.                                  *)
(* A start after COMMITTED writes nothing: it verifies root and receipt.   *)
Verifies == root # None /\ root = Last(journal.rounds).data /\ journal.streak = 2 /\ receipt
CommittedHasReceipt == pc = "idle" /\ Committed => Verifies
=============================================================================
