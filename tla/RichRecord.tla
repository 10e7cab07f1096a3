----------------------------- MODULE RichRecord -----------------------------
(***************************************************************************)
(* One message in the rich archive (rich_message_archive.py): what Discord *)
(* shows of it, the canonical record that keeps every content revision and *)
(* every observation of it, and the attachment files of the generation     *)
(* the record is published in.  A message can be read many times (the     *)
(* daily refresh window, a retry, the rebuild), and between a read and  *)
(* its merge, and between two reads, its author is renamed, its reactions  *)
(* move and the CDN serves other bytes under the same address.             *)
(***************************************************************************)
EXTENDS Integers, FiniteSets, FiniteSetsExt

CONSTANTS
  Contents,        \* values of the visible_content fields
  Mutables,        \* values of the visible_mutable fields
  Blobs,           \* files a CDN can serve: [size, sha]
  Assets,          \* subset of {"direct", "proxy", "embed"}
  SentSize,        \* the size Discord declares for the attachment
  MaxTime,         \* bound on the clock
  MaxDrifts,       \* bound on changes of the CDN
  MaxMoves,        \* bound on renames and reactions
  PerMessageFiles, \* AssetLimits.per_message_files
  RunFiles,        \* AssetLimits.full_run_files
  MaxProbes,       \* AssetLimits.max_unknown_size_probes
  Unclassified,    \* contents with a field ROOT_POLICIES does not know
  Absent

ASSUME LimitsAssumption ==
  /\ {SentSize, MaxDrifts, MaxMoves, PerMessageFiles, RunFiles, MaxProbes} \subseteq Nat
  /\ MaxTime \in Nat \ {0}
  /\ Blobs \subseteq [size : Nat, sha : Nat] /\ Absent \notin Blobs \cup Nat
  /\ Assets \subseteq {"direct", "proxy", "embed"}

VARIABLES
  now,        \* clock of the readers
  live,       \* the message as Discord shows it: [version, content, mutable]
  cdn,        \* the file each asset's address serves
  drifts,     \* changes of the CDN so far
  moves,      \* renames and reactions so far
  pending,    \* the capture a run has read and not merged yet, or Absent
  record,     \* observations of the canonical record, {} when absent
  disk,       \* attachment files of the current generation
  budget,     \* AssetRunBudget of the run: [files, probes]
  outcome,    \* how the last merge ended
  committed,  \* history: files of the merges published in this run
  renamed     \* history: content changed without a new version

recordVars == <<now, live, cdn, drifts, moves, pending, record, disk, budget, outcome, committed, renamed>>

Receipt == [status : {"pending", "complete", "error"}, declared : Nat \cup {Absent},
            by : {"payload", "head", "get", "none"}, blob : Blobs \cup {Absent}]
Observation == [at : 1..MaxTime, version : 1..MaxTime, content : Contents,
                mutable : Mutables, assets : [Assets -> Receipt]]

(* inventory_assets: an attachment carries its size, an embed does not. *)
NewReceipt(a) ==
  [status |-> "pending", blob |-> Absent,
   declared |-> IF a = "embed" THEN Absent ELSE SentSize,
   by |-> IF a = "embed" THEN "none" ELSE "payload"]

(* normalize_message: the capture of a message read at time t. *)
Normalize(msg, t) ==
  [at |-> t, version |-> msg.version, content |-> msg.content, mutable |-> msg.mutable,
   assets |-> [a \in Assets |-> NewReceipt(a)]]

(* revisionId and observationId: hashes of exactly these fields. *)
Revision(o) == <<o.version, o.content>>
Identity(o) == <<o.at, o.version, o.content, o.mutable>>

(* _reject_equal_timestamp_conflicts over revisions and observations. *)
Conflicting(obs) ==
  \E o, p \in obs :
    \/ o.version = p.version /\ Revision(o) # Revision(p)
    \/ o.at = p.at /\ Identity(o) # Identity(p)

(* Mutant of Active: the first reading of the newest version. *)
ActiveFirst(obs) ==
  LET newest == Max({o.version : o \in obs})
  IN  CHOOSE o \in obs : o.version = newest /\ \A p \in obs : p.version = newest => o.at <= p.at

(* The newest version, and the newest observation of that version. *)
Active(obs) ==
  LET newest == Max({o.version : o \in obs})
  IN  CHOOSE o \in obs :
        /\ o.version = newest
        /\ \A p \in obs : p.version = newest => p.at <= o.at

(* _merge_asset_receipts: a completed receipt wins, then one with a size;  *)
(* an explicit failure is preferred to a placeholder only when neither has *)
(* a size.                                                                 *)
MergeReceipt(r, s) ==
  IF r.status = "complete" THEN r
  ELSE IF s.status = "complete" THEN s
  ELSE IF r.declared # Absent THEN r
  ELSE IF s.declared # Absent \/ s.status = "error" THEN s
  ELSE r
Disagree(r, s) ==
  \/ r.status = "complete" /\ s.status = "complete" /\ <<r.blob, r.declared, r.by>> # <<s.blob, s.declared, s.by>>
  \/ /\ "complete" \notin {r.status, s.status} /\ Absent \notin {r.declared, s.declared}
     /\ r.declared # s.declared

(* _dedupe_observations *)
Deduped(obs, new) ==
  {IF Identity(o) = Identity(new)
   THEN [o EXCEPT !.assets = [a \in Assets |-> MergeReceipt(o.assets[a], new.assets[a])]]
   ELSE o : o \in obs}
  \cup (IF \E o \in obs : Identity(o) = Identity(new) THEN {} ELSE {new})

(* Mutant of MergeRefused: reactions are compared like content. *)
MergeRefusedMoved(obs, new) ==
  \/ Conflicting(obs \cup {new})
  \/ \E o \in obs : o.version = new.version /\ o.mutable # new.mutable
(* merge_message_records; the merge raises exactly when MergeRefused. *)
MergeRefused(obs, new) ==
  \/ Conflicting(obs \cup {new})
  \/ \E o \in obs : Identity(o) = Identity(new) /\ \E a \in Assets : Disagree(o.assets[a], new.assets[a])
(* Mutant of MergeRecords: only the version shown is kept. *)
MergeNewest(obs, new) == {Active(Deduped(obs, new))}
MergeRecords(obs, new) == Deduped(obs, new)

(* source_field_census: every visible field has a known policy. *)
Classified(o) == o.content \notin Unclassified
(* validate_record over the files of a generation, with verify_generation's *)
(* demand that no visible field is unclassified and no attachment in error. *)
ReceiptHolds(r, file) == r.status = "complete" /\ r.blob = file /\ file # Absent /\ file.size = r.declared
(* Mutant of ValidRecord: only the version shown is verified. *)
ValidActive(obs, files) ==
  LET o == Active(obs)
  IN  Classified(o) /\ \A a \in Assets : ReceiptHolds(o.assets[a], files[a])
ValidRecord(obs, files) ==
  /\ ~Conflicting(obs)
  /\ \A o \in obs : Classified(o)
  /\ \A o \in obs, a \in Assets : ReceiptHolds(o.assets[a], files[a])

(* resolve_asset_sizes: one HEAD for each asset without a size. *)
Unsized(obs) == {x \in obs \X Assets : x[1].assets[x[2]].declared = Absent}
Announced(r, a) == IF r.declared = Absent THEN [r EXCEPT !.declared = cdn[a].size, !.by = "head"] ELSE r
Sized(obs) == {[o EXCEPT !.assets = [a \in Assets |-> Announced(o.assets[a], a)]] : o \in obs}

(* AssetDownloader.download: the file is kept when it is the one of the    *)
(* receipt, else fetched again when the CDN announces the declared size.   *)
Held(r, file) == r.blob # Absent /\ r.blob = file
Downloaded(r, a, file, reach) ==
  IF Held(r, file) THEN [r EXCEPT !.status = "complete"]
  ELSE IF a \in reach /\ cdn[a].size = r.declared THEN [r EXCEPT !.status = "complete", !.blob = cdn[a]]
  ELSE [r EXCEPT !.status = "error"]

(* _retry_verified_discord_size_drift: both addresses of one attachment    *)
(* announce another size, which is then taken for the declared one.        *)
Variants == {"direct", "proxy"}
Drifted(rows, reach) ==
  /\ Variants \subseteq Assets \cap reach
  /\ \A v \in Variants : rows[v].status = "error" /\ cdn[v].size # rows[v].declared
Retried(rows) ==
  [a \in Assets |-> IF a \notin Variants THEN rows[a] ELSE
     [rows[a] EXCEPT !.status = "complete", !.blob = cdn[a], !.declared = cdn[a].size, !.by = "get"]]

(* _recover_equivalent_attachment_variants: the failed address of an       *)
(* attachment gets a copy of the file of the other one.                    *)
HalfFailed(rows) == Variants \subseteq Assets /\ {rows[v].status : v \in Variants} = {"complete", "error"}
Recovered(rows) ==
  LET good == CHOOSE v \in Variants : rows[v].status = "complete"
  IN  [a \in Assets |-> IF a \in Variants \ {good}
         THEN [rows[a] EXCEPT !.status = "complete", !.blob = rows[good].blob] ELSE rows[a]]
RecoveryRefused(rows, files) ==
  LET good == CHOOSE v \in Variants : rows[v].status = "complete"
      bad  == CHOOSE v \in Variants : v # good
  IN  files[bad] # Absent \/ rows[good].by # "payload" \/ rows[good].blob.size # SentSize

(* apply_asset_results on one observation: the files and receipts it       *)
(* leaves, or an exception.                                                *)
ApplyObservation(s, o, reach) ==
  LET got     == [a \in Assets |-> Downloaded(o.assets[a], a, s.files[a], reach)]
      retried == IF Drifted(got, reach) THEN Retried(got) ELSE got
      on(rows) == [a \in Assets |-> IF rows[a].status = "complete" THEN rows[a].blob ELSE s.files[a]]
      rows    == IF HalfFailed(retried) THEN Recovered(retried) ELSE retried
  IN  [obs    |-> s.obs \cup {[o EXCEPT !.assets = rows]},
       files  |-> on(rows),
       raised |-> \/ s.raised
                  \/ Drifted(got, reach) /\ \E v \in Variants : cdn[v].size = SentSize
                  \/ HalfFailed(retried) /\ RecoveryRefused(retried, on(retried))]

(* ... and on all of them, oldest first, over one set of files; at most one *)
(* observation has a given time, or the merge was refused (Conflicting).   *)
AppliedUpTo(obs, files, reach) ==
  LET after[t \in 0..MaxTime] ==
        IF t = 0 THEN [obs |-> {}, files |-> files, raised |-> FALSE]
        ELSE LET read == {o \in obs : o.at = t}
             IN  IF read = {} THEN after[t - 1]
                 ELSE ApplyObservation(after[t - 1], CHOOSE o \in read : TRUE, reach)
  IN  after
ApplyAssets(obs, files, reach) == AppliedUpTo(obs, files, reach)[MaxTime]

-----------------------------------------------------------------------------
Fresh == [files |-> 0, probes |-> MaxProbes]
RecordInit ==
  /\ now = 1 /\ drifts = 0 /\ moves = 0 /\ pending = Absent /\ record = {} /\ outcome = "none"
  /\ live \in [version : {1}, content : Contents, mutable : Mutables]
  /\ cdn \in [Assets -> {b \in Blobs : b.size = SentSize}] /\ disk = [a \in Assets |-> Absent]
  /\ budget = Fresh /\ committed = 0 /\ renamed = FALSE

Environment == <<pending, record, disk, budget, outcome, committed>>
Tick == now < MaxTime /\ now' = now + 1 /\ UNCHANGED <<live, cdn, drifts, moves, renamed, Environment>>
(* An edit carries a new edited_timestamp; the rest changes under it. *)
Edit(c) == /\ live.version < now /\ live' = [live EXCEPT !.version = now, !.content = c]
           /\ UNCHANGED <<now, cdn, drifts, moves, renamed, Environment>>
React(m) == /\ moves < MaxMoves /\ moves' = moves + 1
            /\ m # live.mutable /\ live' = [live EXCEPT !.mutable = m]
            /\ UNCHANGED <<now, cdn, drifts, renamed, Environment>>
Rename(c) == /\ moves < MaxMoves /\ moves' = moves + 1
             /\ c # live.content /\ live' = [live EXCEPT !.content = c] /\ renamed' = TRUE
             /\ UNCHANGED <<now, cdn, drifts, Environment>>
Drift(a, b) == /\ drifts < MaxDrifts /\ b # cdn[a]
               /\ cdn' = [cdn EXCEPT ![a] = b] /\ drifts' = drifts + 1
               /\ UNCHANGED <<now, live, moves, renamed, Environment>>

(* begin_incremental_run mints a fresh AssetRunBudget. *)
NewRun == /\ pending = Absent /\ budget' = Fresh /\ committed' = 0
          /\ UNCHANGED <<now, live, cdn, drifts, moves, pending, record, disk, outcome, renamed>>
Read == /\ pending = Absent /\ pending' = Normalize(live, now)
        /\ UNCHANGED <<now, live, cdn, drifts, moves, record, disk, budget, outcome, committed, renamed>>

(* merge_messages, by how it ends: every check that fails leaves CURRENT,  *)
(* its files and the file budget as they were; the probes stay spent.      *)
Merged == MergeRecords(record, pending)
Rows(obs) == Cardinality(obs) * Cardinality(Assets)
OverQuota(obs) == Rows(obs) > PerMessageFiles \/ budget.files + Rows(obs) > RunFiles
Ends(how, spent) ==
  /\ pending' = Absent /\ outcome' = how /\ budget' = [budget EXCEPT !.probes = @ - spent]
  /\ UNCHANGED <<now, live, cdn, drifts, moves, record, disk, committed, renamed>>
MergeConflicts == pending # Absent /\ MergeRefused(record, pending) /\ Ends("conflict", 0)
MergeOverQuota == /\ pending # Absent /\ ~MergeRefused(record, pending) /\ OverQuota(Merged)
                  /\ Ends("quota", 0)
Admitted == pending # Absent /\ ~MergeRefused(record, pending) /\ ~OverQuota(Merged)
MergeUnprobed ==
  /\ Admitted /\ Unsized(Merged) # {}
  /\ \/ Cardinality(Unsized(Merged)) > budget.probes /\ Ends("quota", 0)
     \/ Cardinality(Unsized(Merged)) <= budget.probes /\ Ends("unreachable", 1)
Applied(reach) == ApplyAssets(Sized(Merged), disk, reach)
Probed(reach) ==
  /\ Cardinality(Unsized(Merged)) <= budget.probes
  /\ {x[2] : x \in Unsized(Merged)} \subseteq reach
MergeUnverified ==
  /\ Admitted
  /\ \E reach \in SUBSET Assets : \E done \in {Applied(reach)} :
       /\ Probed(reach)
       /\ done.raised \/ ~ValidRecord(done.obs, done.files)
       /\ Ends(IF reach = Assets THEN "unverified" ELSE "unreachable", Cardinality(Unsized(Merged)))
(* An address serves a file of another size after its HEAD, before its     *)
(* download: the announced size is not met.                                *)
MergeDrifts ==
  /\ Admitted /\ Probed(Assets) /\ drifts < MaxDrifts /\ drifts' = drifts + 1
  /\ \E x \in Unsized(Merged) : \E b \in {c \in Blobs : c.size # cdn[x[2]].size} :
       cdn' = [cdn EXCEPT ![x[2]] = b]
  /\ pending' = Absent /\ outcome' = "unverified"
  /\ budget' = [budget EXCEPT !.probes = @ - Cardinality(Unsized(Merged))]
  /\ UNCHANGED <<now, live, moves, record, disk, committed, renamed>>
MergePublishes ==
  /\ Admitted
  /\ \E reach \in SUBSET Assets : \E done \in {Applied(reach)} :
       /\ Probed(reach)
       /\ ~done.raised /\ ValidRecord(done.obs, done.files)
       /\ record' = done.obs /\ disk' = done.files
  /\ budget' = [files |-> budget.files + Rows(Merged), probes |-> budget.probes - Cardinality(Unsized(Merged))]
  /\ committed' = committed + Rows(Merged)
  /\ pending' = Absent /\ outcome' = "published"
  /\ UNCHANGED <<now, live, cdn, drifts, moves, renamed>>

(* materialize_full_stage_from_live_evidence: a new generation from one    *)
(* fresh read, downloaded into an empty stage under a budget of its own.   *)
Rebuild ==
  /\ pending = Absent
  /\ \E done \in {ApplyAssets(Sized({Normalize(live, now)}), [a \in Assets |-> Absent], Assets)} :
       /\ ~done.raised /\ ValidRecord(done.obs, done.files)
       /\ record' = done.obs /\ disk' = done.files
  /\ Cardinality(Assets) <= PerMessageFiles /\ Cardinality(Assets) <= RunFiles
  /\ outcome' = "rebuilt" /\ renamed' = FALSE /\ budget' = Fresh /\ committed' = 0
  /\ UNCHANGED <<now, live, cdn, drifts, moves, pending>>

Merge == MergeConflicts \/ MergeOverQuota \/ MergeUnprobed \/ MergeUnverified \/ MergeDrifts \/ MergePublishes
RecordNext == \/ Tick \/ NewRun \/ Read \/ Merge \/ Rebuild
        \/ \E c \in Contents : Edit(c) \/ Rename(c)
        \/ \E m \in Mutables : React(m)
        \/ \E a \in Assets, b \in Blobs : Drift(a, b)
RecordSpec == RecordInit /\ [][RecordNext]_recordVars

-----------------------------------------------------------------------------
RecordTypeOK ==
  /\ now \in 1..MaxTime /\ drifts \in 0..MaxDrifts /\ moves \in 0..MaxMoves /\ renamed \in BOOLEAN
  /\ live \in [version : 1..MaxTime, content : Contents, mutable : Mutables]
  /\ cdn \in [Assets -> Blobs] /\ disk \in [Assets -> Blobs \cup {Absent}]
  /\ pending \in Observation \cup {Absent} /\ record \subseteq Observation
  /\ budget \in [files : Nat, probes : 0..MaxProbes] /\ committed \in Nat
  /\ outcome \in {"none", "conflict", "quota", "unreachable", "unverified", "published", "rebuilt"}

(* The version shown is the one read last: however often the message was   *)
(* edited, reacted to or read, no older reading hides a newer one          *)
(* (merge_message_records sorts by version and then by time of reading).   *)
ActiveNewest == record # {} => \A o \in record : o.at <= Active(record).at

\* Every receipt of every observation matches the file it names.
ReceiptsTrue == \A o \in record, a \in Assets : ReceiptHolds(o.assets[a], disk[a])

(* A refused merge gives its budget back, a published one is charged once, *)
(* and the run stays within its quota.                                     *)
BudgetExact == budget.files = committed /\ committed <= RunFiles

\* Readings happen in the order of the versions they read.
InOrder ==
  /\ live.version <= now
  /\ \A o \in record : o.at <= now /\ o.version <= live.version
  /\ \A o, p \in record : o.at <= p.at => o.version <= p.version
\* The reading that waits for its merge is the newest, and has no file yet.
PendingLast ==
  pending # Absent =>
    /\ pending.at <= now /\ pending.version <= live.version
    /\ pending.assets = [a \in Assets |-> NewReceipt(a)]
    /\ \A o \in record : o.at <= pending.at /\ o.version <= pending.version
\* Without a rename a version has one content, wherever it was read.
NamedByVersion ==
  ~renamed =>
    /\ \A o \in record : o.version = live.version => o.content = live.content
    /\ pending # Absent =>
         /\ pending.version = live.version => pending.content = live.content
         /\ \A o \in record : o.version = pending.version => o.content = pending.content
\* The record satisfies the checks of a validator that name no file.
Coherent == ~Conflicting(record) /\ \A o \in record : Classified(o)
\* The CDN before it drifts: the sizes are those Discord declares, and the
\* two addresses of the attachment serve one file.
SizesAsSent == \A a \in Assets : cdn[a].size = SentSize
Steady == drifts = 0 /\ \A a, b \in Variants \cap Assets : cdn[a] = cdn[b]
\* Before the CDN drifts, every archived file is the one it serves.
CdnFirst ==
  /\ drifts = 0 => SizesAsSent
  /\ Steady => \A o \in record, a \in Assets : o.assets[a].blob = cdn[a]

(* What every merge, refused or published, leaves behind: the newest       *)
(* reading on top, an exact budget, and what makes both inductive.         *)
RecordInv == RecordTypeOK /\ ActiveNewest /\ BudgetExact
             /\ InOrder /\ PendingLast /\ NamedByVersion /\ Coherent /\ CdnFirst

(* A merge never loses a reading that an earlier merge archived.           *)
NothingForgotten ==
  [][outcome' # "rebuilt" => {Identity(o) : o \in record} \subseteq {Identity(o)' : o \in record'}]_recordVars

(* Nor does it replace archived bytes: the files of every reading are      *)
(* fetched over the same paths, whatever their addresses serve by then, and*)
(* a merge that got other bytes is not published.                          *)
BytesKept == [][record # {} /\ outcome' # "rebuilt" => disk' = disk]_recordVars

(* A merge is refused for a cause outside the archive only: content that   *)
(* changed under its version (or within one second), other bytes under an  *)
(* address, an address that cannot be read, a field no policy knows, a     *)
(* quota; edits and reactions alone are always archived.                   *)
Causes(how) ==
  CASE how = "conflict"   -> renamed \/ \E o \in record : o.at = pending.at
    [] how = "unverified" -> \/ drifts' > 0 \/ pending.content \in Unclassified
                             \/ \E a, b \in Variants \cap Assets : cdn[a] # cdn[b]
    [] how = "quota"      -> \/ Rows(record \cup {pending}) > Min({PerMessageFiles, RunFiles - committed})
                             \/ budget.probes < Cardinality(record) + 1
    [] OTHER              -> TRUE
RefusedForCause == [][pending # Absent /\ pending' = Absent => Causes(outcome')]_recordVars
=============================================================================
