---------------------------- MODULE RichArchive ----------------------------
(***************************************************************************)
(* The rich archive of a guild and the two jobs that write it: the daily   *)
(* sync (run_daily_sync_v3.py on the capabilities of                       *)
(* rich_core_adapter_v3.py), which merges new messages into the generation *)
(* CURRENT names, and the full baseline (run_full_rich_baseline_v3.py),    *)
(* which reads every history again and publishes all entries under one     *)
(* root pointer.  Both hold the archive lock; both can be killed anywhere; *)
(* the raw worker moves cursors of its own beside them.                    *)
(***************************************************************************)
EXTENDS Naturals, FiniteSets, Sequences, SequencesExt, FiniteSetsExt

CONSTANTS
  Entries, MaxMsg,          \* entries, and messages per entry
  PageSize, MaxPages,       \* --page-size, --max-pages-per-entry
  MaxMessages,              \* --max-messages-per-entry
  MaxEntries, MaxWrites,    \* --max-entries, --max-write-entries
  MaxRead,                  \* --max-read-messages
  MaxTrouble, MaxBaselines, \* bounds: deletions, failures, kills and cursor moves of
                            \* the raw worker together; baseline attempts
  Silent,                   \* entries without a message so far
  None

Reasons == {"rich_full_rebuild_required", "rich_incremental_partial", "rich_incremental_error"}
ASSUME SizesAssumption ==
  /\ {MaxTrouble, MaxBaselines} \subseteq Nat
  /\ {MaxMsg, PageSize, MaxPages, MaxMessages, MaxEntries, MaxWrites, MaxRead} \subseteq Nat \ {0}
  /\ IsFiniteSet(Entries) /\ Silent \subseteq Entries
  /\ None \notin Reasons /\ \A ids \in SUBSET (1..MaxMsg) : ids # None

VARIABLES
  posted, deleted,  \* per entry: messages posted so far, those deleted since
  state, queue,     \* the two ledgers: fields and items of each entry
  current,          \* messages of the generation CURRENT names, or None
  stage,            \* per entry: staged full generation, or None
  sealed,           \* per entry: sealed full generation, or None
  run,              \* the run directory: "absent", "empty", "evidence", "drifted"
  root,             \* RUN_CURRENT.json is published
  sync, base,       \* the two processes
  counts            \* troubles and baseline attempts so far

vars == <<posted, deleted, state, queue, current, stage, sealed, run, root, sync, base, counts>>
Discord == <<posted, deleted>>
FullStore == <<stage, sealed, run, root>>

Msgs == 1..MaxMsg
Visible(e) == (1..posted[e]) \ deleted[e]
Row == [cursor : 0..MaxMsg, status : {"healthy", "partial", "queued", "retry"}, age : 0..Cardinality(Entries), scan : 0..MaxMsg]
Nowhere == [e \in Entries |-> None]
IdleSync == [pc |-> "idle", todo |-> <<>>, rows |-> Nowhere, items |-> Nowhere, writes |-> 0, read |-> 0,
             new |-> {}, again |-> {}, plan |-> 0, terminal |-> TRUE, raise |-> FALSE]
IdleBase == [pc |-> "idle", todo |-> <<>>, live |-> {}, since |-> Nowhere]

(* Before the first baseline, or after one.                                *)
(* age: 0 when lastBackup is today, else its rank, the most recent first. *)
Init ==
  /\ posted = [e \in Entries |-> IF e \in Silent THEN 0 ELSE 1] /\ deleted = [e \in Entries |-> {}]
  /\ state = [e \in Entries |-> [cursor |-> posted[e], status |-> "healthy", age |-> 1, scan |-> 0]]
  /\ queue = Nowhere /\ stage = Nowhere /\ sealed = Nowhere
  /\ current \in {Nowhere, [e \in Entries |-> 1..posted[e]]}
  /\ run = "absent" /\ root = FALSE /\ sync = IdleSync /\ base = IdleBase
  /\ counts = [trouble |-> 0, baselines |-> 0]

LockFree == sync.pc = "idle" /\ base.pc \in {"idle", "lock"}
(* A ledger or the archive tree changed: the hashes in the evidence of the *)
(* run directory are stale.                                                *)
Trouble == counts.trouble < MaxTrouble /\ counts' = [counts EXCEPT !.trouble = @ + 1]
Drifts == run' = (IF run = "evidence" THEN "drifted" ELSE run)

-----------------------------------------------------------------------------
Post(e) == /\ posted[e] < MaxMsg /\ posted' = [posted EXCEPT ![e] = @ + 1]
           /\ UNCHANGED <<deleted, state, queue, current, FullStore, sync, base, counts>>
Delete(e, m) == /\ Trouble /\ m \in Visible(e)
                /\ deleted' = [deleted EXCEPT ![e] = @ \cup {m}]
                /\ UNCHANGED <<posted, state, queue, current, FullStore, sync, base>>
(* A slot ends on the day it was started. *)
NextDay == /\ sync.pc = "idle" /\ \E e \in Entries : state[e].age = 0
           /\ state' = [e \in Entries |-> [state[e] EXCEPT
                          !.age = 1 + Cardinality({state[o].age : o \in {x \in Entries : state[x].age < @}})]]
           /\ UNCHANGED <<Discord, queue, current, FullStore, sync, base, counts>>
(* The raw worker archives a stale healthy entry up to some message.       *)
(* It locks <state parent>/.channel_backup.lock and the rich jobs lock     *)
(* <archive root>/.channel_backup.lock: one lock excludes both only when   *)
(* the two directories are one or the raw jobs are quiesced, as the        *)
(* deployment has to see to. LockFree is that assumption.                  *)
LegacyMoves(e, m) ==
  /\ LockFree /\ Trouble /\ state[e].status = "healthy" /\ state[e].age > 0
  /\ m \in Visible(e) /\ m > state[e].cursor
  /\ state' = [state EXCEPT ![e].cursor = m] /\ Drifts
  /\ UNCHANGED <<Discord, queue, current, stage, sealed, root, sync, base>>

-----------------------------------------------------------------------------
(* select_candidates: healthy, not owned by an active queue item, not      *)
(* backed up today; those that waited longest first, at most --max-entries *)
(* of them.  Path and key order entries of one age: any order here.        *)
Eligible(e) == state[e].status = "healthy" /\ queue[e] = None /\ state[e].age > 0
Selections ==
  LET waiting == {e \in Entries : Eligible(e)}
      ahead(a, b) == state[a].age >= state[b].age
  IN  {todo \in [1..Min({Cardinality(waiting), MaxEntries}) -> waiting] :
         /\ IsInjective(todo) /\ \A i, j \in DOMAIN todo : i < j => ahead(todo[i], todo[j])
         /\ \A i \in DOMAIN todo, e \in waiting \ Range(todo) : ahead(todo[i], e)}

(* inspect_current of one entry, once per entry when the slot starts. *)
HasCurrent(e) == current[e] # None
(* Ledgers are loaded under the lock; every selected entry must have a     *)
(* CURRENT, or the slot ends before its first request.                     *)
SyncStart ==
  /\ LockFree
  /\ \E todo \in Selections :
       /\ todo # <<>> /\ \A i \in DOMAIN todo : HasCurrent(todo[i])
       /\ sync' = [IdleSync EXCEPT !.pc = "entry", !.todo = todo, !.rows = state, !.items = queue]
  /\ UNCHANGED <<Discord, state, queue, current, FullStore, base, counts>>
E == Head(sync.todo)
R == sync.rows[E]

(* fetch_new_messages: pages after the cursor, oldest first, within what   *)
(* an entry takes and the slot may still read; only an empty page is       *)
(* terminal.                                                               *)
Newer == {m \in Visible(E) : m > R.cursor}
Room == Min({PageSize * MaxPages, MaxMessages, MaxRead - sync.read})
Fetched(S) == {m \in S : Cardinality({k \in S : k <= m}) <= Room}
Terminal(S) == /\ Cardinality(S) <= PageSize * (MaxPages - 1)
               /\ Cardinality(S) < MaxMessages /\ Cardinality(S) < MaxRead - sync.read

(* plan_mutable_refresh: the next canonical message, round and round. *)
(* Mutant of NextScan: the scan does not wrap. *)
NextScanOnce(ids, scan) == IF \E m \in ids : m > scan THEN Min({m \in ids : m > scan}) ELSE scan
NextScan(ids, scan) ==
  IF ids = {} THEN scan ELSE IF \E m \in ids : m > scan THEN Min({m \in ids : m > scan}) ELSE Min(ids)
(* fetch_mutable_window, narrowed to its target: read when the slot may    *)
(* still read something.                                                   *)
(* Mutant of Window: new messages make it skip the window. *)
WindowIfQuiet(fresh) == IF fresh = {} THEN {NextScan(current[E], R.scan)} \cap Visible(E) ELSE {}
Window(fresh) == IF sync.read + Cardinality(fresh) < MaxRead
                 THEN {NextScan(current[E], R.scan)} \cap Visible(E) ELSE {}

(* persist_queue_then_state, and on to the next entry or out. *)
(* Mutant of SavedFirst: the state does not wait for the queue. *)
SavedFirstState == "state"
SavedFirst == "queue"
AfterSave ==
  IF sync.pc = SavedFirst THEN [sync EXCEPT !.pc = IF @ = "queue" THEN "state" ELSE "queue"]
  ELSE [sync EXCEPT !.pc = "entry", !.todo = IF sync.raise THEN <<>> ELSE Tail(@), !.new = {}, !.again = {}]
SyncSaveQueue == /\ sync.pc = "queue" /\ queue' = sync.items /\ sync' = AfterSave /\ Drifts
                 /\ UNCHANGED <<Discord, state, current, stage, sealed, root, base, counts>>
SyncSaveState == /\ sync.pc = "state" /\ state' = sync.rows /\ sync' = AfterSave /\ Drifts
                 /\ UNCHANGED <<Discord, queue, current, stage, sealed, root, base, counts>>

(* _queue_for_rebuild, _queue_for_retry, _apply_consumed_grant, each up to *)
(* the save that follows.                                                  *)
Remember(row, item, read, stops) ==
  sync' = [sync EXCEPT !.rows[E] = row, !.items[E] = item, !.pc = SavedFirst, !.read = @ + read, !.raise = stops]
ForRebuild(read) == Remember([R EXCEPT !.status = "queued"], "rich_full_rebuild_required", read, FALSE)
ForRetry == Remember([R EXCEPT !.status = "retry"], "rich_incremental_error", 0, TRUE)
Granted(cursor, scan, partial) ==
  [R EXCEPT !.status = IF partial THEN "partial" ELSE "healthy", !.age = IF partial THEN @ ELSE 0,
            !.cursor = cursor, !.scan = scan]

(* What inspect_current, probe_head and the reads say of the next entry. A *)
(* cursor CURRENT does not hold, and a first message, need a rebuild.      *)
HeadEmpty == Visible(E) = {}                              \* probe_head
Probed == IF R.cursor = 0 /\ current[E] = {} THEN Min({Cardinality(Visible(E)), PageSize, MaxRead - sync.read}) ELSE 0
Quiet(scan) == Remember(Granted(R.cursor, scan, FALSE), sync.items[E], 0, FALSE)  \* authorize_quiet_update
(* Mutant of NeedsRebuild: a cursor CURRENT does not hold is trusted. *)
NeedsRebuildUnread == R.cursor = 0 /\ (current[E] # {} \/ ~HeadEmpty)
NeedsRebuild == \/ R.cursor = 0 /\ (current[E] # {} \/ ~HeadEmpty)
                \/ R.cursor # 0 /\ R.cursor \notin current[E]
SyncRebuild == NeedsRebuild /\ ForRebuild(Probed)
SyncEmptyHead == /\ ~NeedsRebuild /\ R.cursor = 0
                 /\ Quiet(R.scan)
SyncReads ==
  /\ ~NeedsRebuild /\ R.cursor # 0
  /\ \E fresh \in {Fetched(Newer)} : \E window \in {Window(fresh)}, scan \in {NextScan(current[E], R.scan)} :
       IF fresh \cup window = {}
       THEN Quiet(scan)
       ELSE sync' = [sync EXCEPT !.pc = "merge", !.new = fresh, !.again = window, !.plan = scan,
                     !.read = @ + Cardinality(fresh) + Cardinality(window), !.terminal = Terminal(Newer)]
SyncReadFails == Trouble /\ ForRetry
SyncOpen == sync.pc = "entry" /\ sync.todo # <<>> /\ sync.writes < MaxWrites /\ sync.read < MaxRead
SyncEntry ==
  /\ SyncOpen
  /\ \/ (SyncRebuild \/ SyncEmptyHead \/ SyncReads) /\ UNCHANGED counts
     \/ SyncReadFails
  /\ UNCHANGED <<Discord, state, queue, current, FullStore, base>>

(* merge_incremental publishes a generation with what CURRENT held and     *)
(* what was read; the grant for the cursor names that generation.          *)
Merged == current[E] \cup sync.new \cup sync.again
SyncMerge ==
  /\ sync.pc = "merge" /\ current' = [current EXCEPT ![E] = Merged] /\ sync' = [sync EXCEPT !.pc = "grant"]
  /\ Drifts /\ UNCHANGED <<Discord, state, queue, stage, sealed, root, base, counts>>
SyncMergeFails ==
  /\ sync.pc \in {"merge", "grant"} /\ Trouble
  /\ ForRetry /\ UNCHANGED <<Discord, state, queue, current, FullStore, base>>
SafeCursor == IF sync.new = {} THEN R.cursor ELSE Max(sync.new)
(* Mutant of ItemAfter: a partial read leaves no item. *)
ItemAfterPartial == sync.items[E]
ItemAfter == IF sync.terminal THEN sync.items[E] ELSE "rich_incremental_partial"
SyncGrant ==
  /\ sync.pc = "grant"
  /\ sync' = [sync EXCEPT !.rows[E] = Granted(SafeCursor, sync.plan, ~sync.terminal), !.writes = @ + 1, !.pc = SavedFirst,
              !.items[E] = ItemAfter]
  /\ UNCHANGED <<Discord, state, queue, current, FullStore, base, counts>>

SyncEnd == /\ sync.pc = "entry" /\ ~SyncOpen /\ sync' = IdleSync
           /\ UNCHANGED <<Discord, state, queue, current, FullStore, base, counts>>
SyncKilled == /\ sync.pc # "idle" /\ Trouble
              /\ sync' = IdleSync /\ UNCHANGED <<Discord, state, queue, current, FullStore, base>>

Sync == SyncStart \/ SyncEntry \/ SyncMerge \/ SyncGrant \/ SyncSaveQueue \/ SyncSaveState \/ SyncEnd

-----------------------------------------------------------------------------
(* The full baseline.  The ledgers are hashed and the inventory is read    *)
(* before the lock is taken.                                               *)
Sitting(pc) == base' = [base EXCEPT !.pc = pc]
(* An attempt resumes the run id of the last one or takes a fresh one.     *)
BaseRead ==
  /\ base.pc = "idle" /\ counts.baselines < MaxBaselines /\ counts' = [counts EXCEPT !.baselines = @ + 1]
  /\ base' = [IdleBase EXCEPT !.pc = "lock", !.since = posted]
  /\ \/ UNCHANGED FullStore
     \/ run # "absent" /\ ~root /\ run' = "absent" /\ stage' = Nowhere /\ sealed' = Nowhere /\ UNCHANGED root
  /\ UNCHANGED <<Discord, state, queue, current, sync>>
(* Lock, then by what earlier attempts left: a root pointer is republished *)
(* to the entries, a run directory is resumed if its evidence still fits.  *)
BaseLock ==
  /\ base.pc = "lock"
  /\ \/ ~LockFree /\ Sitting("idle")
     \/ LockFree /\ root /\ base' = [base EXCEPT !.pc = "compat", !.todo = SetToSeq(Entries)]
     \/ LockFree /\ ~root /\ run = "absent" /\ Sitting("evidence")
     \/ LockFree /\ ~root /\ run = "evidence" /\ base' = [base EXCEPT !.pc = "entry", !.todo = SetToSeq(Entries)]
     \/ LockFree /\ ~root /\ run \in {"empty", "drifted"} /\ Sitting("blocked")
  /\ run' = (IF base.pc = "lock" /\ base'.pc = "evidence" THEN "empty" ELSE run)
  /\ UNCHANGED <<Discord, state, queue, current, stage, sealed, root, sync, counts>>
BaseEvidence ==
  /\ base.pc = "evidence" /\ run' = "evidence" /\ base' = [base EXCEPT !.pc = "entry", !.todo = SetToSeq(Entries)]
  /\ UNCHANGED <<Discord, state, queue, current, stage, sealed, root, sync, counts>>

B == Head(base.todo)
(* collect_live_evidence: the whole history, read under a frozen cutoff. *)
BaseCollect ==
  /\ base.pc = "entry" /\ base.todo # <<>> /\ base' = [base EXCEPT !.pc = "built", !.live = Visible(B)]
  /\ UNCHANGED <<Discord, state, queue, current, FullStore, sync, counts>>
(* A generation an earlier attempt sealed, or staged without a manifest,   *)
(* is taken over when it holds what the fresh read says.                   *)
(* Mutant of Reusable: what an earlier attempt sealed is trusted. *)
ReusableSealed == IF sealed[B] # None THEN TRUE ELSE stage[B] = [ids |-> base.live, manifest |-> FALSE]
Reusable == IF sealed[B] # None THEN sealed[B] = base.live ELSE stage[B] = [ids |-> base.live, manifest |-> FALSE]
BaseReuse ==
  /\ base.pc = "built" /\ (sealed[B] # None \/ stage[B] # None)
  /\ \/ ~Reusable /\ Sitting("blocked")
     \/ Reusable /\ sealed[B] = None /\ Sitting("install")
     \/ Reusable /\ sealed[B] # None /\ base' = [base EXCEPT !.pc = "entry", !.todo = Tail(@)]
  /\ UNCHANGED <<Discord, state, queue, current, FullStore, sync, counts>>
(* materialize, reserve and install, seal *)
BaseMaterialize ==
  /\ base.pc = "built" /\ sealed[B] = None /\ stage[B] = None /\ Sitting("install")
  /\ stage' = [stage EXCEPT ![B] = [ids |-> base.live, manifest |-> FALSE]]
  /\ UNCHANGED <<Discord, state, queue, current, sealed, run, root, sync, counts>>
BaseInstall ==
  /\ base.pc = "install" /\ Sitting("seal") /\ stage' = [stage EXCEPT ![B].manifest = TRUE]
  /\ UNCHANGED <<Discord, state, queue, current, sealed, run, root, sync, counts>>
BaseSeal ==
  /\ base.pc = "seal" /\ sealed' = [sealed EXCEPT ![B] = stage[B].ids] /\ stage' = [stage EXCEPT ![B] = None]
  /\ base' = [base EXCEPT !.pc = "entry", !.todo = Tail(@)]
  /\ UNCHANGED <<Discord, state, queue, current, run, root, sync, counts>>
(* All entries are sealed: the run manifest, then RUN_CURRENT, then the    *)
(* CURRENT pointer of each entry.                                          *)
BaseRoot ==
  /\ base.pc = "entry" /\ base.todo = <<>> /\ root' = TRUE
  /\ base' = [base EXCEPT !.pc = "compat", !.todo = SetToSeq(Entries)]
  /\ UNCHANGED <<Discord, state, queue, current, stage, sealed, run, sync, counts>>
BaseCompat ==
  /\ base.pc = "compat" /\ base.todo # <<>> /\ current' = [current EXCEPT ![B] = sealed[B]]
  /\ base' = [base EXCEPT !.todo = Tail(@)]
  /\ UNCHANGED <<Discord, state, queue, FullStore, sync, counts>>
(* COMMITTED, or state_queue_mutated when the hashes of before the lock    *)
(* differ; the lock is released either way.                                *)
BaseEnds ==
  /\ \/ base.pc = "compat" /\ base.todo = <<>>
     \/ base.pc = "blocked"
  /\ base' = IdleBase /\ UNCHANGED <<Discord, state, queue, current, FullStore, sync, counts>>
BaseFails ==
  /\ base.pc \notin {"idle", "lock"} /\ Trouble
  /\ base' = IdleBase /\ UNCHANGED <<Discord, state, queue, current, FullStore, sync>>

Base == \/ BaseLock \/ BaseEvidence \/ BaseCollect \/ BaseReuse \/ BaseMaterialize \/ BaseInstall
        \/ BaseSeal \/ BaseRoot \/ BaseCompat \/ BaseEnds
Next ==
  \/ Sync \/ SyncMergeFails \/ SyncKilled \/ BaseRead \/ Base \/ BaseFails \/ NextDay
  \/ \E e \in Entries : Post(e) \/ \E m \in Msgs : Delete(e, m) \/ LegacyMoves(e, m)
Spec == Init /\ [][Next]_vars
(* cron starts a slot every day; a slot that was started runs on. *)
FairSpec == Spec /\ WF_vars(Sync) /\ WF_vars(Base) /\ WF_vars(NextDay)

-----------------------------------------------------------------------------
Held(e) == IF current[e] = None THEN {} ELSE current[e]
TypeOK ==
  /\ posted \in [Entries -> 0..MaxMsg] /\ \A e \in Entries : deleted[e] \subseteq 1..posted[e]
  /\ state \in [Entries -> Row] /\ queue \in [Entries -> Reasons \cup {None}]
  /\ \A e \in Entries : \A store \in {current, sealed} : store[e] = None \/ store[e] \subseteq 1..posted[e]
  /\ \A e \in Entries : stage[e] = None \/ (stage[e].ids \subseteq 1..posted[e] /\ stage[e].manifest \in BOOLEAN)
  /\ run \in {"absent", "empty", "evidence", "drifted"} /\ root \in BOOLEAN
  /\ sync.pc \in {"idle", "entry", "merge", "grant", "queue", "state"} /\ sync.read \in 0..MaxRead
  /\ base.pc \in {"idle", "lock", "evidence", "entry", "built", "install", "seal", "compat", "blocked"}
(* CURRENT has no hole: below its newest message it misses only messages   *)
(* that were deleted.  The daily sync relies on it: it reads after a       *)
(* cursor and never looks back (fetch_new_messages, merge_incremental).    *)
NoHole == \A e \in Entries : Held(e) # {} => Visible(e) \cap 1..Max(Held(e)) \subseteq Held(e)
(* An entry whose state says it still needs work is owned by a queue item, *)
(* whatever save a kill came after (persist_queue_then_state).             *)
RetryOwned == \A e \in Entries : state[e].status # "healthy" => queue[e] # None
(* What any save, failure or kill of a slot leaves of the two ledgers.     *)
ArchiveInv == TypeOK /\ RetryOwned
(* The root pointer promises one complete pass: when an attempt publishes  *)
(* it, every entry holds all messages posted before that attempt started,  *)
(* deleted ones excepted, whoever sealed the entry                         *)
(* (register_existing_sealed_generation_for_root_run).                     *)
RootComplete ==
  [][root' /\ ~root => \A e \in Entries : sealed[e] # None /\ 1..base.since[e] \subseteq sealed[e] \cup deleted[e]]_vars
(* A daily slot only moves the scan cursor to a message it has just read   *)
(* again, unless Discord no longer has it or the new messages used up what *)
(* the slot may read, to the last one.                                     *)
Spent == sync.new # {} /\ sync.read = MaxRead
ScanHonest ==
  [][\A e \in Entries : state'[e].scan # state[e].scan => state'[e].scan \in sync.again \cup deleted[e] \/ Spent]_vars
(* No message is forgotten: from some time on each is in CURRENT, deleted, *)
(* or in an entry a queue item owns, given that every entry has a CURRENT. *)
Accounted ==
  <>[](\A e \in Entries : current[e] # None) =>
    \A e \in Entries : \A m \in Msgs : <>[](m \in Visible(e) => m \in Held(e) \/ queue[e] # None)
(* The mutable scan reaches every message of CURRENT again and again as    *)
(* long as the queue does not own the entry and CURRENT keeps the message. *)
Rescanned ==
  \A e \in Entries : \A m \in Msgs :
    <>[](queue[e] = None /\ state[e].cursor # 0 /\ m \in Held(e)
         /\ \A o \in Entries : current[o] # None) => []<>(state[e].scan = m)
=============================================================================
