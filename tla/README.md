# Discord server backup: a TLA+ verification project

This directory specifies the channel backup of `openclaw-discord-server-backup`
(`src/skill/openclaw-discord-server-backup`, called `skill/` below) in TLA+.
TLC checks the modules on small instances; TLAPS proves the main safety
theorems for every value of the constants.

## 1. The system and its inventory

Cron starts Python scripts ("roles") that copy Discord channels and threads
into Markdown (`raw`, `summary`) and, in its newer half, into a *rich archive*
of JSON records and attachment files.  The raw roles share two JSON
ledgers, the *state* (one entry per channel: cursor, `backlogStatus`,
`backlogReason`, `lastBackup`) and the *backlog queue* (one work item per
channel: cursor, status, priority, creation time), and a `flock` file,
`.channel_backup.lock`, that some of them take without waiting.

| Component | State it keeps | Operations | What makes it correct |
|---|---|---|---|
| Backlog worker `run_backlog_worker_v3.py` (roles `backlog`, `daily-sync-1..3`) | in-memory copies of both ledgers, cursor, budgets; `.bak` copies | lock, load (with `.bak` recovery), rotate, normalise, select, page loop, append, merge-and-save, probe | no cursor ahead of raw, no message twice, every readable channel reached |
| Caught-up audit `audit_caught_up_v3.py` | lock-free copies of both ledgers | probe every healthy entry, requeue, rewrite both ledgers in place | stale rewrites and truncations stay recoverable |
| Inventory discovery `audit_discord_inventory_v3.py` | a state read before the lock | compare with the live inventory, register what is missing under the lock | a registration never resets an entry |
| Weekly raw reconcile `weekly_raw_reconcile_v4.py` | frozen cutoffs, pre-repair evidence, ledgers loaded before the lock | scan the full history, append what is missing, close out | the verdict is right, the repair loses nothing |
| Rich archive library `rich_message_archive.py` | canonical records, attachment files, generations, `CURRENT`, lock tokens and run contexts | capture, merge, download, verify, publish, seal; lease, pin, close | no reading or archived file lost, lock kept as long as it is used |
| Rich adapter and daily sync `rich_core_adapter_v3.py`, `run_daily_sync_v3.py` | grants; state and queue fields `rich…` | inspect, read, refresh window, merge, grant, save | a cursor moves only with a published generation; no hole |
| Full baseline `run_full_rich_baseline_v3.py` | run directory, staged and sealed generations, `RUN_CURRENT.json` | collect, seal, publish, resume | the root is one complete pass |
| Full rebuild `run_full_rich_rebuild_v2.py` | journal, event receipts, root and channel pointers, final receipt | rounds, convergence, publish, commit, resume | the root is complete through one cutoff |
| Core backup `core_workspace_backup.py` | `latest/`, dated snapshots, a lock | stage, snapshot, replace, verify | a good copy exists |
| Asset backup `backup_workspace_assets.py` | dated snapshots, `latest.json` | stage, publish, canary, point | the pointer names a verified snapshot |
| Managed runner `run_managed_component.py`, health report `backup_health_report.py` | one receipt per role | run the commands of a role, classify, report | a failed or missing role is never reported healthy |
| Cron topology manager `manage_cron_topology.py`, installer `install.py` | cron jobs, transaction receipts, skill tree, configuration | quiesce, apply, verify, roll back; swap | an interrupted or failed change can be undone |
| State bootstrap, migration, candidate listing | none | one-shot rewriting of the ledgers | not modelled, see section 5 |

How they interact: only through files and OpenClaw's cron store.  The worker,
the discovery's register step and the weekly reconcile take the lock; the audit
takes none.  The shipped schedule makes them overlap: the third daily sync starts
at 05:50 with a timeout of 1500 s and the audit at 06:10; the backlog role is
hourly with a timeout of 3600 s, discovery runs at 05:25 with a timeout of
1800 s.  A role that overruns its timeout is killed, at any point.  Discord is
external: messages are posted, edited and deleted while the jobs read.

`PROJECT.json` lists under `hazards` what is hard to test in this code, at the
line where it bites, with the properties that would catch it.  The invariants the runs name
(`IInv`, `ReplayInv`, `RecordInv`, `CapabilityInv`, `ArchiveInv`, `RebuildInv`, `DeploymentInv`,
`OperationsInv`, `ReconcileInv`) are conjunctions whose parts are named and commented beside them.

## 2. Modules

| Module | Models | Correspondence |
|---|---|---|
| `BackupLedger` | entries, items and the pure functions over them | `merge_disk_state`, `normalize_queue_items`, `upsert_queue_item`, `select_candidates` |
| `BackupStore` | Discord, raw, the ledger files and `.bak` copies, the lock, the calendar | `discord_messages`, `append_batch`, `load_json`, backup rotation |
| `BacklogWorker` | one process of the worker | one action per stretch of `main()` between two points another process or a kill can be noticed at |
| `CaughtUpAudit` | the audit with `--requeue` | load state, load queue, probe, decide, then truncate and write each file |
| `InventoryDiscovery` | `compare_state` and `register_missing` | observe, lock and re-read, replace |
| `BackupPipeline` | the jobs composed, fairness, their properties | `Scheduled` says which jobs a deployment runs |
| `ArchiveContract` | what the archive promises, in two variables | abstract specification; `BackupPipeline!Contract` is the mapping |
| `WeeklyReconcile`, `WeeklyPipeline` | the weekly job; beside the worker, over archives with lost history | load, lock, scan, freeze, evidence, append, replace, final scan, verdict |
| `RichRecord` | one message: its canonical record, attachments, budgets | `normalize_message`, `merge_message_records`, `apply_asset_results`, `validate_record`, `merge_messages` |
| `ArchiveCapability` | lock tokens, run contexts, leases of the threads of one process | `acquire_lock`, `_mint_run_context`, `_begin_/_end_…_lease`, `_release_…` |
| `RichArchive` | daily rich slots and the full baseline over one archive | `run_daily_sync_v3.execute`, the adapter's session, `run_full_rich_baseline_v3.execute` |
| `RichRebuild` | the rebuild coordinator with its journal | `_run_locked`, `_execute_round`, `_set_phase`, `_record_failure`, `_load_or_create_journal` |
| `CronTopology` | quiesce, apply and rollback transactions, command by command | `prepare_quiescence`, `apply_plan`, `rollback`, `rollback_committed_transaction` |
| `Installer` | `install.py` over the topology, crashes, the operator's recovery | `main()`, `stage_and_swap_skill`, `rollback_skill` |
| `RecoveryCopies` | core backup and asset snapshots | `run_backup`, `replace_latest`, `build_snapshot` |
| `Operations` | days of cron: roles, receipts, health report | `run_role`, `load_receipt`, `supersede_drained_queue_pending`, `render_report` |
| `MC…` | the modules TLC runs | |
| `WorkerLemmas`, `BackupPipelineProofs`, `WeeklyPipelineProofs`, `MessageArchiveProofs`, `RichArchiveProofs`, `RichRebuildProofs`, `OperationsProofs`, `InstallerProofs` | theorems and proofs | |

### The raw archive

* `posted[k]`, `live[k]`: a channel's messages are numbered in snowflake order;
  `posted` counts those ever posted, `live` are those not deleted.
* `raw[k][m]`: how many blocks for message `m` the channel's raw Markdown has.
  `torn[k]`: messages whose header was written and whose body was cut off.
  `append_batch` decides from header lines what is archived, so headers are
  what the model counts.
* `stateFile`, `queueFile`: a ledger as it is on disk.  `ok` is FALSE while the
  file does not parse (after `write_text` truncated it).
* `stateBaks`, `queueBaks`: the rotated copies, newest first (`BakKeep` of them).
* `lock`: the holder of `.channel_backup.lock`; a kill frees it, as the kernel does.
* `worker`, `audit`, `inventory`, `weekly`: a record per process, with its
  program counter `pc` and its locals.

`WorkerStart` (lock, load state) → `WorkerPrepare` (load queue, `.bak` copies,
normalise, select) → for each candidate `WorkerPick` → save → `WorkerFetch` →
`WorkerAppend` → save → `WorkerProbe` or the next `WorkerFetch` … → `WorkerFinish`.
A save is three steps, as in `save_state_merged` and `save_json`:
`WorkerMerge` reads the disk and merges, `WorkerReplaceState` and
`WorkerReplaceQueue` replace the files.  Reads, appends and saves may fail,
and `WorkerKilled` may come between any two steps.
The audit loads the two ledgers without the lock, probes one
entry per step, and writes with `Path.write_text`: one step truncates, the next
writes; bytes written after another job replaced the file go to the unlinked inode.
The weekly job loads both ledgers before it asks for the lock; then report cutoff,
scans by pages, frozen boundaries, evidence, repairs, unmerged saves, the final scan
with one retry, the verdict.  `WeeklyDies` is a kill or an unguarded exception anywhere.

Data: `createdAt` is a creation rank, `lastBackup` a day number, the priority
follows from the reason; reasons are `none`, `legacy` and `rich`, the only distinction
the code makes; `attempts`, `consecutiveErrors`, `lastSeen`, `updatedAt` and the
summaries feed reports only and are left out; one work item per key.

### The rich archive

`RichRecord` follows one message.  A *version* changes with an edit
(`edited_timestamp`); `Rename` changes what is shown without one; `React`
changes the mutable part.  An observation is one reading; the record is the set of
its observations, as `_dedupe_observations` identifies them.  The attachment has
a direct and a proxy address, an embed has a file of undeclared size.  `Merge…`
are the ends of `merge_messages`; which addresses answer (`reach`) is chosen anew
in each, and a refused merge leaves the archive as it was.  `MergeDrifts` is the merge during which an address comes
to serve another size between the size probe and the download; the other merges see one file per address.

`ArchiveCapability` follows the two registries.  `ops[t]` is the stack of leases a
thread holds; an action is what one of the two mutexes covers, so a run can
close between the check of a managed operation and its lease, and a token can be
pinned again between the end of a run and the release of its pin.  The lease of an entry operation goes to the run that is active
when it is taken (`Enters`): another run with the same token, when the checked one is gone, or none.  `kept` is
FALSE when the caller has dropped its reference: the object is then
collected as soon as nothing refers to it.

`RichArchive` has two processes.  The daily slot takes its entries in order of age;
`SyncRebuild`, `SyncEmptyHead`, `SyncReads`, `SyncReadFails` are what the reads say
of an entry, `SyncMerge` publishes the generation, `SyncGrant` uses
the grant, `SyncSaveQueue` and `SyncSaveState` save in that order.  `current[e]` is
the set of messages in the generation `CURRENT` names.  The baseline
hashes the ledgers before its lock (`run` becomes `drifted` when they change), collects,
materialises, installs, seals each entry, publishes the root, then the pointers; an
attempt may resume what an earlier one left.  `LegacyMoves` stands for the raw worker.

*Two lock files.*  The rich jobs lock `<archive root>/.channel_backup.lock`
(`rich_core_adapter_v3.py:1758`), the raw jobs, the gate and the installer
`<state parent>/.channel_backup.lock`.  The adapter's design document says that this is intended
and that "deployment must quiesce legacy jobs before the new topology is enabled"
(`docs/superpowers/specs/2026-09-05-rich-core-adapter-v3.md:37-40`).  The model assumes
what that sentence asks for: `LegacyMoves` happens only while no rich job holds the lock.
As the topology stands (`run_managed_component.command_for`), `daily-sync-1..3` run the raw worker, not
`run_daily_sync_v3.py`; the rich jobs are started by hand.

`RichRebuild` keeps what survives a kill (journal, root, channel pointers, final
receipt) and the coordinator's place.  A channel's messages are posted once, change their look (and back) and are
deleted for good.  A round reads every channel once, each at one moment, as the adapter is external; `at` is a history
field: what Discord held when the round was sealed.  `ZeroDelta` counts what the code counts (1799, 2609-2613): IDs the
round before did not have, and changed looks of messages inside the refresh scope (`Watched`); a refresh that stays
unresolved fails the entry's audit.  Deletions, and changes outside that scope, are not counted
(`docs/tasks/2026-09-05-full-rich-rebuild-saga.md:294`).
An event receipt no journal names is ignored by the code, so journal and receipts are one variable.

### Deployment and operation

In `CronTopology` a slot is an owned job or the adopted legacy job of a role.  A
call is one or several OpenClaw commands; it takes effect, fails before, in
the middle of or after its effect, or claims an effect it did not have.  Probes are the looks at the inventory
and the canary.  The transaction receipt is written before the first command; undo lists follow from
what was tried, in the order of the plan when a committed transaction is undone; a manager that cannot read the
inventory answers at once (`Unread`).  `Installer` adds the installer's own steps in their order, a crash of
the machine anywhere and the operator's receipt-backed rollback of `references/recovery.md`.  A run that gives up writes back every
file it read at its start (`InstallUnfile`), configuration and ledger, whether or not it had changed them, and
beside a job that holds the lock.

In `RecoveryCopies` a tree is the version of the workspace it holds.  `Operations`
starts roles in the order of the schedule, up to two at a time (the second core and asset runs
stand for any late or repeated start), lets each fail or be killed at any step, writes
their receipts, and lets the health report read them.

## 3. Runs

`MaxMsg`, `MaxDay`, `MaxFaults`, `MaxTrouble`, `MaxChanges`, `MaxStarts` and their like
bound what the environment does; the rest are parameters of a deployment.  Deadlock checking is
off because the models really stop: with messages, days and faults used up and no job with
anything to do, nothing is left.

| Run | Instance | Shows |
|---|---|---|
| `locked_jobs` | 2 channels, one new and unreachable; worker and discovery; pages of one | `IInv`: pages skip nothing, no cursor ahead of raw; `ReplayInv`: at most a page replayed, the queue never ahead of the state; cursors never fall among the jobs that lock; the readable channel is archived and drains |
| `pipeline_safety` | 2 channels, one excluded; worker and audit (discovery beside them is left to the theorems), one `.bak` copy, pages of one | the inductive invariant `IInv`, nothing archived twice, `ArchiveContract`; an excluded channel stays so |
| `weekly_repair` | 2 channels, one damaged, one the report channel, pages of one | a green verdict is true of every channel the first pass could read; evidence holds the raw of before the run; there is never a third pass |
| `weekly_beside_worker` | 1 intact channel, weekly job and worker | one lock holder; cursors may move back but stay covered |
| `weekly_liveness` | 2 channels, one damaged, weekly job alone | gaps below the cursor are repaired although a run may die |
| `rich_record` | a message with two contents (one with an unknown field), a direct, a proxy and an embed file, three CDN files | `RecordInv`: the newest reading is shown (`ActiveNewest`), budgets are exact (`BudgetExact`), and the parts that make it inductive; no reading is lost, no archived file is replaced (`BytesKept`), refusals have a cause outside |
| `rich_capability` | 2 threads, 2 runs, 1 token, nesting of 4 | `CapabilityInv`: no operation loses the lock under its feet (`LeasesHonoured`), an active run keeps it (`RunKeepsLock`), one writer (`OneWriter`), no delayed close is forgotten (`NotLeaked`); a close takes effect |
| `rich_archive` | 2 entries, one silent; 2 messages, pages of one, 2 pages and 2 messages per entry, 2 messages read in a slot; one deletion, failure, kill or foreign cursor move; 2 baseline attempts | `ArchiveInv` with owned retries (`RetryOwned`), no hole, a complete root, a scan that passes only what it read (or what a used-up budget made it skip); every message accounted for and rescanned |
| `rich_rebuild` | 2 channels of one message, one outside the refresh scope; 2 posts, edits or deletions, a failure or kill, 5 zero rounds | the inductive invariant, phases go forward, the root is complete through one cutoff and stays; the run concludes |
| `deployment` | 2 roles, one adoptable, 3 faults, one job start, 2 installer runs | `DeploymentInv`: files are swapped in quiet (`QuietSwap`), no role runs from its owned and its adopted job at once (`NeverTwice`), not even during or after a failed rollback; receipts cover every change, reported rollbacks are true, READY is true |
| `operations` | 3 days, 2 processes, 5 starts, out of 2 core runs a day and 2 asset runs on the first, asset receipts good for a day; one edit of the workspace, one fault, one run over midnight | `OperationsInv` with verified pointers (`PointerVerified`); `latest` goes forward, nothing is lost, green reports are true, trouble is shown |
| `ledger_lost` | as `deployment` | violation, see below |

Why the bounds are enough to meet the cases: two messages and pages of one make a
channel need several pages and several runs; two days let an entry become stale and a receipt
old, and a third lets an asset snapshot outlive its age; they let a run end on another day than it began on (`MaxOver`); one fault is a kill or a failed operation at any one point, with a recovery after it; in
`deployment` three faults are a failure, a failed undo and a failed look at the result;
in `rich_rebuild` two changes are a message posted in each channel, or one posted and deleted between two reads, and five zero rounds
let them break the streak and a run still converge, or be used up; two baseline attempts are one that leaves
generations and one that takes them over; two runs over one token are the case that the
registries' two mutexes leave open.  `weekly_*` allow three passes, one more than is ever used.  The theorems of
section 4 depend on no bound.

`MCOperations` uses a VIEW that keeps only what steps and properties can still tell apart: whether a receipt
loads as ok, pending or with a complaint, the newest tree among the core snapshots and which days of a report have one, the
place of the schedule while starts are left; it forgets the order of two receipts where no pending one is to be superseded, the topology's receipt
before a report is rendered, and the version of an asset tree.  It uses symmetry of the two processes; the run checks safety only, and no property distinguishes the processes.
`rich_record` uses symmetry of the mutable values, likewise with safety only.

### The run that expects a violation

`ledger_lost`: `install.py` reads the state ledger (781-784) while jobs may run, and stops them later (912).  In the
trace TLC finds, quiescence is refused because a job runs; the job saves its cursors and ends, and the except clause
restores every file that was read (1017-1019), the old state among them.  The save is lost and the
upgrade reports BLOCKED, although the security report of 2026-09-04 says that the state is preserved on upgrade.
An upgrade that goes on does the same when it writes the state it read (939), after it has taken the
lock (930).  (The cursors fall back to covered ones, so raw is not damaged.)  `HonestRollback` speaks of jobs,
skill and configuration for that reason, not of the ledger.

### Known divergences without a run

These are properties in the modules that the code does not have; each shows with TLC when its
definition is checked with the constants given.

* `BackupPipeline!NoTornBehindCursor` (one channel, one fault): an append cut off
  after a header is taken for complete by the next run, and the cursor passes a message whose body was
  never written.  `references/design.md:26` says `neverAdvancePastUnwrittenRaw`.
* `BackupPipeline!RichNeverConsumed` (`RichKeys` = a channel with a null cursor): the bootstrap pool has no test of the
  reason, so the legacy worker consumes an entry reserved for the rich writer (docstring at
  `run_backlog_worker_v3.py:52`).
* `EventuallyArchived` with `MaxEntries` = 1 and an unreachable channel: failed items keep their
  rank, so unreachable channels that fill `--max-entries` keep every other channel from being
  read (`references/design.md:5` promises eventual completeness).
* `WeeklyPipeline!CloseoutCoversAll`: a read error in the first pass freezes that channel's
  boundary from raw alone, and a green verdict misses messages posted before the run.
* `RichArchive!ScanHonest` without `Spent`: when new messages use up the read budget the refresh window is
  skipped and the scan cursor moves all the same, which the default limits allow too (180 messages for 6 entries of up to 60
  new ones and a window of 10); `docs/superpowers/specs/2026-09-05-deterministic-daily-rich-runner-v2.md:80-86`
  lets it advance only after the refreshed observations are verified.
* `RichRebuild!CommittedHasReceipt`: a kill between the COMMITTED journal and the final receipt
  leaves a run every later start refuses; `docs/tasks/2026-09-05-full-rich-rebuild-saga.md:98-105` excludes it.

More facts the models show and no run asserts: the worker's merge and replacement
of the state are two steps, so a state the lock-free audit writes in between is replaced by older
cursors; its queue is saved without a merge, so work the audit queued meanwhile
is lost; the weekly job writes the state it loaded before it had the lock.  In each
case the older cursor is still covered by raw, which is what the invariants say.  A rebuild that used up its zero
rounds pauses again at every restart.  The weekly job marks an entry it repaired healthy and clears its backlog reason,
the rich writer's reservation included (`weekly_raw_reconcile_v4.py:738`).  An asset run killed between its publication and
`latest.json` leaves the pointer at an older, verified snapshot.  The root of a rebuild need not be an image of one moment: a deletion between the reads of two channels in the last rounds
counts as nothing, and it may show a look outside the refresh scope that is newer or older than the other channels'.  That is
within what the saga document promises (its line 332, `current-state-complete-through-cutoff`), and is why
`CompleteThroughCutoff` speaks of which messages are there.  A kill between the quiescence and the write of the configuration
leaves an adoption map whose fingerprints no longer match, until the receipt is rolled back.  A second core run killed between its two renames leaves the tree it set aside
for hand work (`NothingLost` excepts exactly that kill).

### Fairness

* `BackupPipeline!FairSpec`: cron starts each scheduled role again and again, a running process
  keeps taking steps, days pass (`WF` of each).  Posting stops on `QuietDay` in liveness runs.
  `WeeklyPipeline!FairSpec` assumes the same of the weekly role.
* `RichArchive!FairSpec`: a slot and a baseline that started run on, days pass and a slot is started
  on each.
* `RichRebuild!FairSpec`: a started run goes on and its operator starts it again.
* `ArchiveCapability!FairSpec`: leases end in `finally` clauses (`WF`), an operation makes finitely many nested calls, so
  its outermost lease ends (`SF`), and CPython's reference counts collect what nobody refers to.

Nothing is assumed of kills, faults, posts, edits or deletions; faults are bounded, so a job is not killed for ever.

## 4. Proofs

Assumptions are the named `ASSUME`s of the modules (natural numbers, key sets that
are subsets of `Keys`, disjoint roles of keys; for the capabilities, that `None` is no token and that a lock lease may lie on
a run lease, `MaxDepth >= 2`; for the rebuild, that the bounds are natural numbers, the refresh scope is one of channels and messages, being unposted or
deleted is no look, and `None` is no content, round or journal; for the record of a message, that the limits are natural numbers, the clock has a first tick, files have sizes
and `Absent` is neither a file nor a size; for the rich archive, that the entries are finite, the limits of a slot are positive, as `validate_limits` demands, and
`None` is no reason and no set of messages; for the operation, that the schedule is a sequence of roles and that there is a first day; for the
deployment, that the roles are finite and that `None` and `NoJob` are no receipt, job or slot); no bound is used otherwise.

### The raw archive

`BackupPipelineProofs!Invariance` proves `Spec => []IInv` with

    IInv == TypeOK /\ LiveBounded /\ LockHeld /\ CandidateHeld
                   /\ PageComplete /\ CursorCovered

*Why it is needed.* The property of interest, that the cursor on disk
is covered by raw, is not inductive: what a save writes is the worker's copy, what
recovery reads is a `.bak` copy, what the audit writes is its own stale copy, and what an
append makes true depends on the page in flight.  So `CursorCovered` says it of every
copy of every cursor; `PageComplete` says a page in flight omits no live
message between the cursor and its end, even after posts (newer, since
`LiveBounded`) and deletions; `LockHeld` and `CandidateHeld` say which process
is where.  That every copy is covered is also why the stale rewrites are harmless for
completeness: an older cursor is a covered cursor.

`WorkerLemmas` has, in its first half, what the operators over entries and items return and
preserve, and the least and the greatest of a set of naturals (from the well-foundedness of the strict subset
order, so without an induction); in its second half, that coverage is kept when raw grows and when messages are
posted or deleted, that pages are complete, that rotation and recovery keep coverage, and one lemma per
action of the worker: it keeps its place and types (`WorkerSide`), and of a channel whose every cursor is covered
it keeps that true (`HeldCovered`), whatever the other channels are like.
`BackupPipelineProofs` has one lemma per action of the audit and the discovery, puts the worker's lemmas beside
them, and shows `Spec => Contract!Spec`: the mapping takes `archived[k]` to the ids in raw and `cursor[k]` to the
state ledger's cursor, and every step is an archive step, a claim or a stutter.

Where the audit, which writes without the lock, is not scheduled (`NoAudit`), two more properties hold, by

    LockedInv == audit = IdleAudit(0) /\ LedgersReadable /\ NoClaim(stateFile.entries)
                 /\ QueueNeverAhead /\ RawPosted /\ RawNear
                 /\ WorkerAhead(worker) /\ DiscoveryAhead

which is inductive with `IInv`.  That a cursor on disk never moves back (`NothingTakenBack`) is decided by what the worker and the
discovery hold while they have the lock: their ledgers are at least as new as those on disk (`WorkerAhead`,
`DiscoveryAhead`), and an entry that is not registered claims nothing (`NoClaim`), so its registration takes nothing back.
That little is read again after a kill (`LittleReadAgain`) is `RawNear`: what raw has beyond
the cursor on disk fits one page, because the worker asks for the next page only when the cursor it reads
from is on disk, and because later posts lie beyond raw.  `LedgersReadable` has it that nothing is
recovered from an older `.bak` copy: only the audit can leave a torn ledger.

That an excluded key is terminal (`ExcludedTerminal`) holds with the audit and after any recovery, by

    OmitInv == StateOut /\ WorkerOmits(worker) /\ AuditOmits(audit)
               /\ (inventory.pc = "replace" => Out(inventory.entries))

with `IInv`.  The queue on disk proves nothing by itself: what a save writes are items normalised from entries that
were loaded, recovered from a `.bak` or merged with the disk several steps ago.  So every copy of the state, on disk, in the `.bak`
files and in each process, excludes the key, every process's items of it are dormant, and no process has it in its plan or on its list.

### The weekly reconcile

`WeeklyPipelineProofs!Reconciles` proves `Spec => []WInv` for any set of damaged channels, whatever is missing in them and
wherever their cursors stand, with

    WInv == WorkerSide /\ RawPosted /\ WeeklyTypeOK
            /\ (lock = "weekly" <=> LocksWeekly(weekly.pc))
            /\ \A k \in Keys \ Damaged : HeldCovered(k) /\ WeeklyCovered(weekly, k)
            /\ (~LocksWeekly(weekly.pc) => Unstarted(weekly))
            /\ (LocksWeekly(weekly.pc) => RunInv(weekly))
    RunInv(w) == Place(w) /\ Bounded(w) /\ Scanned(w) /\ Repairing(w) /\ Evidenced(w)

*Why it is needed.* A green verdict is judged from what was read minutes or hours ago, page by page, while
messages came and went, against boundaries that were frozen in between.  `Scanned` says what a read is worth:
a live message of a channel whose scan is complete has been seen, or lies beyond the frozen boundary, or, as long as
there is none, is newer than the run and than all that was seen (`HistoryRead`); and the boundary of a channel that could be read
in the first pass reaches the start of the run (`ReachesStart`).  `Bounded` says that what was seen was
posted and lies within the boundary, which every channel has once the first pass is over.
`Repairing` says that a channel once repaired is complete up to its boundary (`Settled`) and stays so: later posts are
beyond it.  So the second pass cannot find anything, which is `NoChasing`, and the verdict is
`Settled` again, which is `CloseoutComplete`.  `Evidenced` keeps raw as the run found it until the bundle is made.
For the intact channels the run's unmerged saves write cursors that were covered when they were loaded,
or that a repair has just made true.

The worker needs no new argument here: its lemmas are those of the raw archive, and it cannot step while the weekly run has
the lock (`WorkerExcluded`).  Messages read by the run are shown complete by `EmptyPage`: a page is empty only
when nothing is left after the cursor.

### The capabilities

`MessageArchiveProofs!Invariance` proves `Spec => []CapabilityInv` for any set of threads, tokens and
runs and any bound of the nesting, by the inductive

    Ind == TypeOK /\ StacksInv /\ RunsInv /\ TokensInv /\ PinsInv /\ NotLeaked

*Why it is needed.* What the code relies on (`LeasesHonoured`, `RunKeepsLock`, `OneWriter`) speaks of the
innermost lease or of a run's token and is broken by steps of other threads only through the counters.
`RunsInv` and `TokensInv` therefore make the counters exact: a thread's count for a run is the number of its
leases on that run, its count for a token the number of lock leases on *any* run that holds the token.
`StacksInv` says how leases nest, so that the end of a lock lease finds the lease it
turns below it and a pin is released last; `PinsInv` says that the token of an active run, and of a
run that is gone until its one releaser is through, is pinned, so a deferred close waits; the token of a
counted lease or of a pin is held (`TokensInv`), and only one can be.  From this a close can make a run or a
token go only when no stack mentions it in a way that counts.

The steps of a thread all go through `LeaseStep` (`Unpin` through `StepIntro`, on which it rests): a step
gives one thread a new stack and changes at most one run and its token, and it is enough to show that both
counts follow the stack.

### The record of a message

The second half of `MessageArchiveProofs` proves the properties of `RichRecord` for any clock, quotas, contents, files a CDN may
serve and numbers of drifts and moves, and for a message with any of the three kinds of addresses, by

    RInv == RecordTypeOK /\ InOrder /\ PendingLast /\ NamedByVersion
            /\ Published /\ CdnFirst /\ BudgetExact

(`RecordInv` has its parts and what follows from them; `Published` is `Coherent` with the finiteness of the record and
`ReceiptsTrue`, which says that the receipts of all readings fit the files: the validator, which every publication
passes, makes it so).

*Why it is needed.* A merge works on a reading taken earlier, over files that older readings share, so that what it leaves
depends on what happened since both.  `InOrder` says that later readings have later versions, and `PendingLast` that the
reading that waits is the last of all: so the one shown is the newest (`ActiveNewest`), and its receipts are still
placeholders.  `Published` says that the record satisfies the validator, shared files included (`ReceiptsTrue`), and has no
conflict in itself: a conflict is one with the waiting reading.  `NamedByVersion` says that a version has one content
until a rename, which makes a rename or a second reading in one tick the only causes of a conflict.  `CdnFirst` says that
until the CDN drifts every archived file is the one its address serves, of the size Discord declares: with all addresses
reachable a download then cannot fail, so a failed verification has a cause outside.

`apply_asset_results` goes over the observations, oldest first, and every one finds the files the ones before it left.
The model writes it as a recursive function of the clock (`AppliedUpTo`).  That such a function exists and follows its
equation is `ReplayExists` and `ReplaySteps`; what holds at each of its steps is shown at the first tick where it
would fail (`LeastOf`), which takes no induction principle.  Two facts of it carry the rest: it keeps every
observation's identity and types whatever is reachable (`Replayed`), which is why nothing is forgotten
(`NothingForgotten`) and no conflict is introduced; and the receipt of the oldest reading outlives the replay, so that
other bytes under its path fail the validator (`BytesKept`); and over a calm CDN every row stays `Ready` and is `Done` when everything is
reachable (`CalmReplay`).  For the quotas, a merge has at most one row set more than the record (`DedupedKeeps`), and only an
embed of the waiting reading has no size (`Counts`).

### The daily rich slots and the baseline

`RichArchiveProofs!AlwaysInv` proves `Spec => []Inv` for any finite set of entries and any limits, with

    Inv == Types /\ StoresWhole /\ RetryOwned /\ OneWriter
           /\ SlotOwns /\ SlotReads /\ SlotScans /\ PassKnown

*Why it is needed.* What `CURRENT` holds is decided pages earlier, from a cursor that another job may have moved, and a
generation may come from an attempt that was killed.  `StoresWhole` says `NoHole` of every
store a later step can take its messages from (`CURRENT`, the sealed generations, the staged ones), with deleted messages
counted in, so that it is kept when Discord moves on.  `SlotReads` is what makes a merge safe: the
cursor is in `CURRENT` (the rebuild test of `execute`), the new messages follow it without a gap (`Follows`), although pages
and budget cut them off, and the window is part of `CURRENT`.  `SlotOwns` carries `RetryOwned` over the two saves: the
slot's ledgers own what is not healthy and drop no item of the disk's queue, and when the state is saved the queue on disk is the
slot's, which is why the order of the saves matters.  `SlotScans` remembers, from the plan to the save, that a scan
position was read again, is deleted or was skipped for the budget; other entries' positions are those on disk.
`PassKnown` says of a baseline attempt that what it collected covers all posted before it started (`Covers`), that the generation
being sealed is what it collected, also when it is taken over, and that every entry not left to do is sealed over
that much; so the root is complete.  `OneWriter` (the lock) keeps the two writers' memories true of the stores.

Two facts of the operators carry the reads: the messages fetched are the first of those after the cursor
(`FetchedFirst`, by the least message left out), and the scan position is a message of the generation
(`NextScanInside`).

The proof corrected the model twice: `probe_head` counts into the read budget, which the model had left out, and the scan does pass messages
it did not read when that budget is used up, which a generous bound had hidden.

### The rebuild

`RichRebuildProofs!Invariance` proves `Spec => []RebuildInv` with

    RebuildInv == TypeOK /\ JournalInv /\ ProcessInv /\ RootInv

*Why it is needed.* `CompleteThroughCutoff` speaks of the last three rounds of a journal that is closed, and nothing in
it survives a step.  What it says: whatever the root has was there in every channel when the first of its two zero rounds
began and when that round ended; and what was there when it ended and the root lacks has been deleted by the end
of the last.  `JournalInv` orders the readings: a round reads each channel at or after the end of the round
before and at or before its own end (`RoundsFollow`, `ActiveFollows`), where "after" means that a message goes
from unposted to posted to deleted and never back (`Follows`); and each round of the streak counted nothing against
the one before it (`StreakEarned`).  So an ID of the last round was in the two rounds before it, read before the
first zero round began, and has not been deleted since; and an ID that was there at the end of the first zero round is either
read in the last or deleted by then.
`ProcessInv` ties the coordinator's place to the journal
(nothing is published but by a journal with no active round and a streak of two), and `RootInv` keeps the root equal to the last round:
after a kill the journal is still closed, so the resumed run can only publish the same.

`JournalLoads` (whatever a kill interrupts, the next start accepts the journal) follows from
`RebuildInv`, which the run checks in its place.

The proof has a lemma for each group of actions that touch the journal alike, one for the seal of
a round (where the order of readings is extended), and the step lemmas of the two action
properties, `RootStays` and `PhaseStays`, which use the invariant.

### The operation

`OperationsProofs!Inductive` proves `Spec => []IInv` for any number of processes and days and any
schedule, with

    IInv == DiskInv /\ OpsType /\ ProcType /\ Newest /\ PointerVerified
            /\ Backed("core") /\ Backed("assets") /\ \A p \in Procs : ProcInv(p)

*Why it is needed.* What a report says depends on receipts that were written by runs that have ended, about
trees that were published before, perhaps on the day before.  `ProcInv` follows each run: the lock is held exactly in the four
guarded steps of a core run (`Locked`), so only one run is there; the tree it inventoried is as new as
every snapshot and as `latest/` (`CoreRun`), and nothing outdates it while it holds the lock; an asset run
that reached its canary has published (`AssetsRun`); a run that ended without error has left its copy (`Succeeded`), which
makes a receipt without a complaint one (`Backed`) and a green report true.

The proof showed where the promise ends: a run that lasts over *two* midnights reports for a day that is no
longer the one before, and a green report would then have no copy of the two days it allows.  Cron's
time limits are two hours at most (`manifests/owned-cron.v1.json`), so `NextDay` waits for a run that began on
an earlier day.

### The deployment

`InstallerProofs!Inductive` proves `Spec => []IInv` for any finite set of roles, with

    IInv == Typed /\ ReceiptsTell /\ Steered /\ Worklist /\ Answers /\ Achieved
            /\ NotTwice(jobs) /\ NotTwice(was.jobs)
            /\ Known(config, jobs) /\ Known(was.config, was.jobs) /\ HonestRollback

*Why it is needed.* That a rollback gave back what it found is seen only at its end, and rests on a list of
commands that was made up earlier from a receipt.  `ReceiptsTell` says what the receipts on disk say of the jobs as they were
found; `Steered` which transaction the manager works on at which step of the installer;
`Worklist` that the commands left fit that receipt (nothing is removed that was there before,
nothing restored that was not) and that they end with the look that decides the answer; `Answers` what an answer is worth
(`failed` and `restored` mean that the jobs are given back, `ready` that they are as desired), whichever commands
failed or lied; `Achieved` what the installer has done when it goes on.  `NotTwice` and `Known` are about the
order of commands: an adopted job is off before the owned one is created, and is turned on
again only after that one is gone.

Every call goes through a few lemmas on what a command can do to one slot, so that a command that lies needs no
case of its own.

| Theorem | States |
|---|---|
| `BackupPipelineProofs!Invariance` | `Spec => []IInv` |
| `TypesCorrect`, `LockIsHeld`, `CursorsCovered` | its named parts |
| `NoDuplicates` | `Spec => []NoDuplicateRaw` |
| `ImplementsContract` | `Spec => KeepsContract` |
| `LittleReadAgain` | `Spec => [](NoAudit => ReplayInv)` |
| `NothingTakenBack` | under `NoAudit`, the action property `StateMonotonic` |
| `ExcludedForGood` | the action property `ExcludedTerminal` |
| `WeeklyPipelineProofs!ReconcileSafe` | `Spec => []ReconcileInv` |
| `EvidencePrecedesRepair`, `TwoPassesSuffice`, `GreenIsComplete` | `Spec => []EvidenceFirst`, `[]NoChasing`, `[]CloseoutComplete` |
| `MessageArchiveProofs!Invariance` | `Spec => []CapabilityInv` |
| `RecordKept` | `RecordSpec => []RecordInv` |
| `ReadingsKept`, `ArchivedBytesKept`, `RefusalsHaveCauses` | the action properties `NothingForgotten`, `BytesKept`, `RefusedForCause` |
| `RichArchiveProofs!ArchiveSafe`, `NothingBetween` | `Spec => []ArchiveInv`, `Spec => []NoHole` |
| `RootOverAll`, `ScanOverRead` | the action properties `RootComplete`, `ScanHonest` |
| `RichRebuildProofs!Invariance` | `Spec => []RebuildInv` |
| `RootIsComplete`, `JournalAlwaysLoads` | `Spec => []CompleteThroughCutoff`, `Spec => []JournalLoads` |
| `RootIsKept`, `PhasesGoForward` | the action properties `RootKept`, `PhaseForward` |
| `OperationsProofs!OperationsSafe` | `Spec => []OperationsInv` |
| `PlacesNewest`, `NeverLost` | the action properties `LatestForward`, `NothingLost` |
| `GreenIsCopied`, `TroubleNotHidden` | the action properties `GreenMeansCopies`, `TroubleShown` |
| `InstallerProofs!DeploymentSafe` | `Spec => []DeploymentInv` |
| `ReceiptsCover`, `RollbackHonest` | `Spec => []ReceiptCovers`, `Spec => []HonestRollback` |
| `ReadyMeansConverged` | the action property `ReadyConverged` |

Every safety property a passing run checks is the statement of a theorem.  Only model-checked are the liveness properties
(`EventuallyArchived`, `EventuallyDrained`, `EventuallyRepaired`, `CloseTakesEffect`, `Accounted`, `Rescanned`,
`Concludes`): they rest on fairness, which is beyond the prover.

## 5. Not modelled

* `bootstrap_state.py`, `migrate_state_v3.py`, `select_backlog_candidates.py`: sequential functions that run once, before
  the jobs exist.  One fact: run on a state that is V3 already, the migration queues an excluded
  entry without a cursor for bootstrap again and replaces rich reasons by legacy ones.
* `check_daily_sync_gate.py`, `daily_sync_lock_canary.py`: read-only looks at lock and queue; the
  jobs they guard take the lock themselves and the models start them at any time.
* Rendering, path and JSON validation of the rich archive; the contents of the rebuild's audits; that grants cannot be forged.
* Component supplements and the local-only classification of the weekly job.
* The cores of the inventory listing (`collect_inventory`), reports, packaging, path helpers, LanceDB and
  the cron tooling audit (wrappers of external commands).
* Two topology managers at once, and a manager killed without its installer.
* Two inventories at once: what changes the state between the unlocked read and the registration is a save of the worker.
* Rich jobs and raw jobs on two directories with two lock files (section 2): `LockFree` assumes it away, so no property covers it.
* Pending work that a sync queues after the audit read the queue and before the audit's receipt: the report of the day supersedes it
  (`backup_health_report.py:453`), the next one shows it, and no property says more of that window.

## 6. Plan

1. The bootstrap and migration scripts as one-shot functions of the ledgers, checked against `BackupLedger`'s types and
   `CursorCovered`.
2. The component supplements of the weekly job, and two topology managers without a lock between them.
