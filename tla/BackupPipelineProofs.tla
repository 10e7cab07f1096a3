------------------------ MODULE BackupPipelineProofs ------------------------
(***************************************************************************)
(* Proofs about the composed jobs, for every number of keys, messages and  *)
(* days, every schedule and every budget: the inductive invariant IInv of  *)
(* BackupPipeline, what follows from it, and that the jobs implement       *)
(* ArchiveContract.                                                        *)
(***************************************************************************)
EXTENDS BackupPipeline, WorkerLemmas

USE StoreAssumption, WorkerAssumption, AuditAssumption, LedgerAssumption

-----------------------------------------------------------------------------
(* Coverage in one step.                                                   *)

LEMMA IdleCovered ==
    ASSUME StoreTypeOK
    PROVE  /\ WorkerCovered(IdleWorker)
           /\ EntriesCovered(NoEntries)
           /\ ItemsCovered(NoItems)
BY ZeroCovered
   DEF WorkerCovered, EntriesCovered, ItemsCovered, IdleWorker, NoEntries,
       NoItems, NoEntry, NoItem

LEMMA IdleTypes ==
    /\ IdleInventory \in InventoryType
    /\ \A runs \in 0..MaxAudits : IdleAudit(runs) \in AuditType
BY IdleWorkerTypes, ConstantRecords
   DEF IdleInventory, InventoryType, IdleAudit, AuditType, AuditPc

\* A step that keeps coverage keeps every copy nobody touches covered.
LEMMA FileCursors ==
    ASSUME StoreTypeOK
    PROVE  /\ \A k \in Keys : stateFile.entries[k].cursor \in Cursor
           /\ \A k \in Keys : queueFile.items[k].cursor \in Cursor
           /\ \A i \in 1..BakKeep, k \in Keys : stateBaks[i].entries[k].cursor \in Cursor
           /\ \A i \in 1..BakKeep, k \in Keys : queueBaks[i].items[k].cursor \in Cursor
BY DEF StoreTypeOK, StateFiles, QueueFiles, Entries, Items, Entry, Item

LEMMA KeptFiles ==
    ASSUME StoreTypeOK, FilesCovered, CoverageKept, UNCHANGED ledgerVars
    PROVE  FilesCovered'
BY FileCursors
   DEF FilesCovered, EntriesCovered, ItemsCovered, CoverageKept, ledgerVars

LEMMA KeptWorker ==
    ASSUME WorkerTypeOK, WorkerCovered(worker), CoverageKept, UNCHANGED worker
    PROVE  WorkerCovered(worker)'
<1>1. /\ \A k \in Keys : worker.entries[k].cursor \in Cursor
      /\ \A k \in Keys : worker.items[k].cursor \in Cursor
      /\ worker.cursor \in Cursor
      /\ worker.key # 0 => worker.key \in Keys
  BY DEF WorkerTypeOK, WorkerType, Entries, Items, Entry, Item
<1> QED
  BY <1>1 DEF WorkerCovered, EntriesCovered, ItemsCovered, CoverageKept

LEMMA KeptAudit ==
    ASSUME AuditTypeOK, EntriesCovered(audit.entries), ItemsCovered(audit.items),
           CoverageKept, UNCHANGED audit
    PROVE  EntriesCovered(audit.entries)' /\ ItemsCovered(audit.items)'
<1>1. /\ \A k \in Keys : audit.entries[k].cursor \in Cursor
      /\ \A k \in Keys : audit.items[k].cursor \in Cursor
  BY DEF AuditTypeOK, AuditType, Entries, Items, Entry, Item
<1> QED
  BY <1>1 DEF EntriesCovered, ItemsCovered, CoverageKept

LEMMA KeptInventory ==
    ASSUME InventoryTypeOK, EntriesCovered(inventory.entries),
           CoverageKept, UNCHANGED inventory
    PROVE  EntriesCovered(inventory.entries)'
<1>1. \A k \in Keys : inventory.entries[k].cursor \in Cursor
  BY DEF InventoryTypeOK, InventoryType, Entries, Entry
<1> QED
  BY <1>1 DEF EntriesCovered, CoverageKept

-----------------------------------------------------------------------------
(* The worker's steps.                                                     *)

\* What a worker step has to show for itself; the other processes and
\* Discord stand still.
LEMMA WorkerFrame ==
    ASSUME IInv, UNCHANGED <<posted, live, audit, inventory>>, ArchiveGrows,
           StoreTypeOK', WorkerTypeOK', FilesCovered', WorkerCovered(worker)',
           LockHeld', CandidateHeld', PageComplete'
    PROVE  IInv'
<1>1. CoverageKept
  BY GrowthKeepsCoverage
<1>2. AuditTypeOK' /\ InventoryTypeOK' /\ LiveBounded'
  BY DEF IInv, TypeOK, AuditTypeOK, InventoryTypeOK, LiveBounded
<1>3. EntriesCovered(audit.entries)' /\ ItemsCovered(audit.items)'
  BY <1>1, KeptAudit DEF IInv, TypeOK, CursorCovered, MemoryCovered
<1>4. EntriesCovered(inventory.entries)'
  BY <1>1, KeptInventory DEF IInv, TypeOK, CursorCovered, MemoryCovered
<1> QED
  BY <1>2, <1>3, <1>4 DEF IInv, TypeOK, CursorCovered, MemoryCovered

\* The worker's share of the invariant, and its claims channel by channel.
LEMMA WorkerShare ==
    ASSUME IInv
    PROVE  WorkerSide /\ \A k \in Keys : HeldCovered(k)
<1>1. WorkerSide
  BY DEF IInv, TypeOK, LockHeld, WorkerSide
<1>2. ASSUME NEW k \in Keys PROVE HeldCovered(k)
  BY ZeroCovered
     DEF IInv, TypeOK, CursorCovered, FilesCovered, MemoryCovered, WorkerCovered,
         EntriesCovered, ItemsCovered, HeldCovered, Held, CursorsOf, Keys
<1> QED
  BY <1>1, <1>2

\* Every step of the worker; that the inventory does not hold the lock
\* meanwhile is what the lock is for.
LEMMA WorkerPreserves ==
    ASSUME IInv, WorkerNext, UNCHANGED <<audit, inventory>>
    PROVE  IInv'
<1>1. WorkerKeeps /\ \A k \in Keys : HeldCovered(k)'
  BY WorkerShare, WorkerStepKeeps DEF WorkerKeeps
<1>2. /\ WorkerSide' /\ ArchiveGrows /\ UNCHANGED <<posted, live>>
      /\ lock' # lock => lock \in {Free, "worker"} /\ lock' \in {Free, "worker"}
  BY <1>1 DEF WorkerKeeps
<1>3. LockHeld'
  BY <1>2 DEF IInv, LockHeld, WorkerSide, Free
<1>4. FilesCovered'
  BY <1>1 DEF HeldCovered, Held, FilesCovered, EntriesCovered, ItemsCovered
<1>5. worker' \in WorkerType
  BY <1>2 DEF WorkerSide, WorkerTypeOK
<1>6. WorkerCovered(worker)'
  BY <1>1, <1>5 DEF HeldCovered, Held, CursorsOf, WorkerCovered, EntriesCovered,
                    ItemsCovered, WorkerType
<1> QED
  BY <1>2, <1>3, <1>4, <1>6, WorkerFrame DEF WorkerSide

-----------------------------------------------------------------------------
(* The audit's steps.  It holds no lock, so nothing about its copies but   *)
(* their coverage may be assumed; none of its updates invents a cursor.    *)

LEMMA InvalidateFacts ==
    ASSUME NEW items \in Items, NEW entries \in Entries
    PROVE  /\ InvalidateExcluded(items, entries) \in Items
           /\ \A k \in Keys : InvalidateExcluded(items, entries)[k].cursor
                                  = items[k].cursor
<1>1. ASSUME NEW k \in Keys
      PROVE  /\ InvalidateExcluded(items, entries)[k] \in Item
             /\ InvalidateExcluded(items, entries)[k].cursor = items[k].cursor
  <2>1. items[k] \in Item
    BY DEF Items
  <2> QED
    BY <2>1 DEF InvalidateExcluded, Item, ItemStatus
<1> QED
  BY <1>1 DEF InvalidateExcluded, Items

LEMMA RequeueFacts ==
    ASSUME NEW items \in Items, NEW entries \in Entries, NEW found \in SUBSET Keys
    PROVE  /\ RequeueEntries(entries, found) \in Entries
           /\ \A k \in Keys : RequeueEntries(entries, found)[k].cursor
                                  = entries[k].cursor
           /\ RequeueItems(entries, items, found) \in Items
           /\ \A k \in Keys : RequeueItems(entries, items, found)[k].cursor
                                  \in {entries[k].cursor, items[k].cursor}
<1>1. ASSUME NEW k \in Keys
      PROVE  /\ RequeueEntries(entries, found)[k] \in Entry
             /\ RequeueEntries(entries, found)[k].cursor = entries[k].cursor
  <2>1. entries[k] \in Entry
    BY DEF Entries
  <2> QED
    BY <2>1 DEF RequeueEntries, Entry, EntryStatus, Reason
<1>2. ASSUME NEW k \in Keys
      PROVE  /\ RequeueItem(k, entries, items, found) \in Item
             /\ RequeueItem(k, entries, items, found).cursor
                   \in {entries[k].cursor, items[k].cursor}
  <2>1. entries[k] \in Entry /\ items[k] \in Item
    BY DEF Entries, Items
  <2>2. CASE items[k].status = "none"
    <3> DEFINE rank == NumItems(items) + Cardinality({j \in found :
                          items[j].status = "none" /\ j <= k})
    <3>1. NumItems(items) \in Nat
      BY NumItemsType
    <3>2. Cardinality({j \in found : items[j].status = "none" /\ j <= k}) \in Nat
      BY KeysFinite
    <3>3. rank \in Nat
      BY <3>1, <3>2
    <3>4. RequeueItem(k, entries, items, found) =
             [status |-> "queued", cursor |-> entries[k].cursor,
              reason |-> "legacy", prio |-> 25, born |-> rank]
      BY <2>2 DEF RequeueItem
    <3> HIDE DEF rank
    <3> QED
      BY <2>1, <3>3, <3>4 DEF Item, Entry, ItemStatus, Reason, Priority
  <2>3. CASE items[k].status # "none"
    BY <2>1, <2>3 DEF RequeueItem, Item, Entry, ItemStatus, Reason
  <2> QED
    BY <2>2, <2>3
<1>3. \A k \in Keys : RequeueItems(entries, items, found)[k]
                         \in {RequeueItem(k, entries, items, found), items[k]}
  BY DEF RequeueItems
<1>4. \A k \in Keys : items[k] \in Item
  BY DEF Items
<1>5. RequeueItems(entries, items, found) \in Items
  BY <1>2, <1>4 DEF RequeueItems, Items
<1> QED
  BY <1>1, <1>2, <1>3, <1>5 DEF RequeueEntries, Entries
\* What a step of the audit has to show for itself.
LEMMA AuditFrame ==
    ASSUME IInv, UNCHANGED <<discordVars, archiveVars, stateBaks, queueBaks,
                             lock, worker, inventory>>,
           faults' \in 0..MaxFaults,
           stateFile' \in StateFiles, queueFile' \in QueueFiles,
           EntriesCovered(stateFile'.entries), ItemsCovered(queueFile'.items),
           audit' \in AuditType,
           EntriesCovered(audit'.entries), ItemsCovered(audit'.items)
    PROVE  IInv'
<1>1. UNCHANGED <<posted, live, raw>>
  BY DEF discordVars, archiveVars
<1>2. CoverageKept
  BY <1>1, SameCoverage DEF CoverageKept
<1>3. StoreTypeOK'
  BY DEF IInv, TypeOK, StoreTypeOK, discordVars, archiveVars
<1>4. /\ EntriesCovered(stateFile.entries)' /\ ItemsCovered(queueFile.items)'
      /\ EntriesCovered(audit.entries)' /\ ItemsCovered(audit.items)'
  BY <1>1, SameCoverage DEF EntriesCovered, ItemsCovered
<1>5. FilesCovered'
  <2>1. FilesCovered
    BY DEF IInv, CursorCovered
  <2> QED
    BY <1>1, <1>4, <2>1, SameCoverage DEF FilesCovered, EntriesCovered, ItemsCovered
<1>6. WorkerCovered(worker)'
  BY <1>2, KeptWorker DEF IInv, TypeOK, CursorCovered, MemoryCovered
<1>7. EntriesCovered(inventory.entries)'
  BY <1>2, KeptInventory DEF IInv, TypeOK, CursorCovered, MemoryCovered
<1>8. WorkerTypeOK' /\ AuditTypeOK' /\ InventoryTypeOK'
  BY DEF IInv, TypeOK, WorkerTypeOK, AuditTypeOK, InventoryTypeOK
<1>9. LiveBounded' /\ LockHeld' /\ CandidateHeld' /\ PageComplete'
  BY <1>1 DEF IInv, LiveBounded, LockHeld, CandidateHeld, PageComplete
<1> QED
  BY <1>3, <1>4, <1>5, <1>6, <1>7, <1>8, <1>9
     DEF IInv, TypeOK, CursorCovered, MemoryCovered

\* What every step of the audit may assume.
LEMMA AuditContext ==
    ASSUME IInv
    PROVE  /\ audit \in AuditType /\ faults \in 0..MaxFaults
           /\ stateFile \in StateFiles /\ queueFile \in QueueFiles
           /\ EntriesCovered(stateFile.entries) /\ ItemsCovered(queueFile.items)
           /\ EntriesCovered(audit.entries) /\ ItemsCovered(audit.items)
           /\ EntriesCovered(NoEntries) /\ ItemsCovered(NoItems)
BY IdleCovered
   DEF IInv, TypeOK, StoreTypeOK, AuditTypeOK, CursorCovered, FilesCovered,
       MemoryCovered

\* The audit's own copies can always be dropped.
LEMMA IdleAuditFacts ==
    ASSUME IInv
    PROVE  /\ IdleAudit(audit.runs) \in AuditType
           /\ EntriesCovered(IdleAudit(audit.runs).entries)
           /\ ItemsCovered(IdleAudit(audit.runs).items)
<1>1. audit.runs \in 0..MaxAudits
  BY AuditContext DEF AuditType
<1>2. /\ IdleAudit(audit.runs).entries = NoEntries
      /\ IdleAudit(audit.runs).items = NoItems
  BY DEF IdleAudit
<1> QED
  BY <1>1, <1>2, IdleTypes, AuditContext

\* Every step of the audit, one case per action.
LEMMA AuditPreserves ==
    ASSUME IInv, AuditNext, UNCHANGED <<worker, inventory>>
    PROVE  IInv'
<1>1. CASE AuditStart
  <2> DEFINE fresh == IdleAudit(audit.runs + 1)
  <2>1. /\ UNCHANGED storeVars /\ audit.runs < MaxAudits
        /\ audit' = [fresh EXCEPT !.pc = "loadQueue", !.entries = stateFile.entries]
    BY <1>1 DEF AuditStart
  <2>2. audit.runs + 1 \in 0..MaxAudits
    BY <2>1, AuditContext DEF AuditType
  <2>3. fresh \in AuditType /\ fresh.items = NoItems
    BY <2>2, IdleTypes DEF IdleAudit
  <2>4. stateFile.entries \in Entries
    BY AuditContext DEF StateFiles
  <2> HIDE DEF fresh
  <2>5. /\ audit' \in AuditType
        /\ audit'.entries = stateFile.entries /\ audit'.items = NoItems
    BY <2>1, <2>3, <2>4 DEF AuditType, AuditPc
  <2> QED
    BY <2>1, <2>5, AuditContext, AuditFrame DEF storeVars, ledgerVars
<1>2. CASE AuditLoadQueue
  <2> DEFINE items == InvalidateExcluded(queueFile.items, audit.entries)
  <2>1. /\ UNCHANGED storeVars
        /\ \/ audit' = IdleAudit(audit.runs)
           \/ audit' = [audit EXCEPT
                           !.pc = "probe", !.items = items,
                           !.invalidated = items # queueFile.items,
                           !.left = {k \in Keys : InScope(audit.entries[k])
                                               /\ audit.entries[k].cursor # 0}]
    BY <1>2 DEF AuditLoadQueue
  <2>2. items \in Items /\ ItemsCovered(items)
    <3>1. queueFile.items \in Items /\ audit.entries \in Entries
      BY AuditContext DEF QueueFiles, AuditType
    <3> QED
      BY <3>1, InvalidateFacts, AuditContext DEF ItemsCovered
  <2> HIDE DEF items
  <2>3. CASE audit' = IdleAudit(audit.runs)
    BY <2>1, <2>3, IdleAuditFacts, AuditContext, AuditFrame DEF storeVars, ledgerVars
  <2>4. CASE audit' # IdleAudit(audit.runs)
    <3> DEFINE changed == items # queueFile.items
               todo == {k \in Keys : InScope(audit.entries[k])
                                       /\ audit.entries[k].cursor # 0}
    <3>1. changed \in BOOLEAN /\ todo \in SUBSET Keys
      OBVIOUS
    <3>2. audit' = [audit EXCEPT !.pc = "probe", !.items = items,
                                 !.invalidated = changed, !.left = todo]
      BY <2>1, <2>4
    <3> HIDE DEF changed, todo
    <3>3. /\ audit' \in AuditType
          /\ audit'.entries = audit.entries /\ audit'.items = items
      BY <2>2, <3>1, <3>2, AuditContext DEF AuditType, AuditPc
    <3> QED
      BY <2>1, <2>2, <3>3, AuditContext, AuditFrame DEF storeVars, ledgerVars
  <2> QED
    BY <2>3, <2>4
<1>3. CASE AuditProbe
  <2>1. PICK k \in audit.left :
           \/ /\ ReadSucceeds(k)
              /\ audit' = [audit EXCEPT
                   !.left = @ \ {k},
                   !.found = IF Page(k, audit.entries[k].cursor, 1) # {}
                             THEN @ \cup {k} ELSE @]
           \/ ReadFails(k) /\ audit' = [audit EXCEPT !.left = @ \ {k}]
    BY <1>3 DEF AuditProbe
  <2>2. UNCHANGED <<discordVars, archiveVars, ledgerVars, lock>>
    BY <1>3 DEF AuditProbe
  <2>3. faults' \in 0..MaxFaults
    BY <2>1, FaultTypes DEF IInv, TypeOK
  <2>4. audit.left \in SUBSET Keys /\ audit.found \in SUBSET Keys
    BY AuditContext DEF AuditType
  <2>5. /\ audit' \in AuditType
        /\ audit'.entries = audit.entries /\ audit'.items = audit.items
    <3> DEFINE left  == audit.left \ {k}
               found == IF Page(k, audit.entries[k].cursor, 1) # {}
                        THEN audit.found \cup {k} ELSE audit.found
    <3>1. left \in SUBSET Keys /\ found \in SUBSET Keys
      BY <2>4
    <3>2. \/ audit' = [audit EXCEPT !.left = left, !.found = found]
          \/ audit' = [audit EXCEPT !.left = left]
      BY <2>1
    <3> HIDE DEF left, found
    <3> QED
      BY <3>1, <3>2, AuditContext DEF AuditType
  <2> QED
    BY <2>2, <2>3, <2>5, AuditContext, AuditFrame DEF ledgerVars
<1>4. CASE AuditDecide
  <2> DEFINE entries == RequeueEntries(audit.entries, audit.found)
             items   == RequeueItems(audit.entries, audit.items, audit.found)
  <2>1. /\ UNCHANGED storeVars
        /\ \/ audit' = [audit EXCEPT !.pc = "truncState", !.entries = entries,
                                       !.items = items]
           \/ audit' = [audit EXCEPT !.pc = "truncQueue"]
           \/ audit' = IdleAudit(audit.runs)
    BY <1>4 DEF AuditDecide
  <2>2. /\ entries \in Entries /\ EntriesCovered(entries)
        /\ items \in Items /\ ItemsCovered(items)
    <3>1. /\ audit.entries \in Entries /\ audit.items \in Items
          /\ audit.found \in SUBSET Keys
      BY AuditContext DEF AuditType
    <3> QED
      BY <3>1, RequeueFacts, AuditContext DEF EntriesCovered, ItemsCovered
  <2> HIDE DEF entries, items
  <2>3. /\ audit' \in AuditType
        /\ EntriesCovered(audit'.entries) /\ ItemsCovered(audit'.items)
    <3>1. CASE audit' = [audit EXCEPT !.pc = "truncState", !.entries = entries,
                                      !.items = items]
      <4>1. /\ audit' \in AuditType
            /\ audit'.entries = entries /\ audit'.items = items
        BY <2>2, <3>1, AuditContext DEF AuditType, AuditPc
      <4> QED
        BY <2>2, <4>1
    <3>2. CASE audit' = [audit EXCEPT !.pc = "truncQueue"]
      <4>1. /\ audit' \in AuditType
            /\ audit'.entries = audit.entries /\ audit'.items = audit.items
        BY <3>2, AuditContext DEF AuditType, AuditPc
      <4> QED
        BY <4>1, AuditContext
    <3>3. CASE audit' = IdleAudit(audit.runs)
      BY <3>3, IdleAuditFacts
    <3> QED
      BY <2>1, <3>1, <3>2, <3>3
  <2> QED
    BY <2>1, <2>3, AuditContext, AuditFrame DEF storeVars, ledgerVars
<1>5. CASE AuditTruncateState
  <2>1. /\ UNCHANGED <<discordVars, archiveVars, queueFile, stateBaks, queueBaks,
                       lock, faults>>
        /\ stateFile' = [stateFile EXCEPT !.ok = FALSE]
        /\ audit' = [audit EXCEPT !.pc = "writeState"]
    BY <1>5 DEF AuditTruncateState
  <2>2. stateFile' \in StateFiles /\ stateFile'.entries = stateFile.entries
    BY <2>1, AuditContext DEF StateFiles
  <2>3. /\ audit' \in AuditType
        /\ audit'.entries = audit.entries /\ audit'.items = audit.items
    BY <2>1, AuditContext DEF AuditType, AuditPc
  <2> QED
    BY <2>1, <2>2, <2>3, AuditContext, AuditFrame
<1>6. CASE AuditWriteState
  <2>1. /\ UNCHANGED <<discordVars, archiveVars, queueFile, stateBaks, queueBaks,
                       lock, faults>>
        /\ stateFile' = IF stateFile.ok THEN stateFile
                        ELSE [ok |-> TRUE, entries |-> audit.entries]
        /\ audit' = [audit EXCEPT !.pc = "truncQueue"]
    BY <1>6 DEF AuditWriteState
  <2>2. audit.entries \in Entries
    BY AuditContext DEF AuditType
  <2>3. stateFile' \in StateFiles /\ EntriesCovered(stateFile'.entries)
    <3>1. CASE stateFile.ok
      BY <2>1, <3>1, AuditContext
    <3>2. CASE ~stateFile.ok
      <4>1. stateFile' \in StateFiles /\ stateFile'.entries = audit.entries
        BY <2>1, <2>2, <3>2 DEF StateFiles
      <4> QED
        BY <4>1, AuditContext
    <3> QED
      BY <3>1, <3>2
  <2>4. /\ audit' \in AuditType
        /\ audit'.entries = audit.entries /\ audit'.items = audit.items
    BY <2>1, AuditContext DEF AuditType, AuditPc
  <2> QED
    BY <2>1, <2>3, <2>4, AuditContext, AuditFrame
<1>7. CASE AuditTruncateQueue
  <2>1. /\ UNCHANGED <<discordVars, archiveVars, stateFile, stateBaks, queueBaks,
                       lock, faults>>
        /\ queueFile' = [queueFile EXCEPT !.ok = FALSE]
        /\ audit' = [audit EXCEPT !.pc = "writeQueue"]
    BY <1>7 DEF AuditTruncateQueue
  <2>2. queueFile' \in QueueFiles /\ queueFile'.items = queueFile.items
    BY <2>1, AuditContext DEF QueueFiles
  <2>3. /\ audit' \in AuditType
        /\ audit'.entries = audit.entries /\ audit'.items = audit.items
    BY <2>1, AuditContext DEF AuditType, AuditPc
  <2> QED
    BY <2>1, <2>2, <2>3, AuditContext, AuditFrame
<1>8. CASE AuditWriteQueue
  <2>1. /\ UNCHANGED <<discordVars, archiveVars, stateFile, stateBaks, queueBaks,
                       lock, faults>>
        /\ queueFile' = IF queueFile.ok THEN queueFile
                        ELSE [ok |-> TRUE, items |-> audit.items]
        /\ audit' = IdleAudit(audit.runs)
    BY <1>8 DEF AuditWriteQueue
  <2>2. audit.items \in Items
    BY AuditContext DEF AuditType
  <2>3. queueFile' \in QueueFiles /\ ItemsCovered(queueFile'.items)
    <3>1. CASE queueFile.ok
      BY <2>1, <3>1, AuditContext
    <3>2. CASE ~queueFile.ok
      <4>1. queueFile' \in QueueFiles /\ queueFile'.items = audit.items
        BY <2>1, <2>2, <3>2 DEF QueueFiles
      <4> QED
        BY <4>1, AuditContext
    <3> QED
      BY <3>1, <3>2
  <2> QED
    BY <2>1, <2>3, IdleAuditFacts, AuditContext, AuditFrame
<1>9. CASE AuditKilled
  <2>1. /\ UNCHANGED <<discordVars, archiveVars, ledgerVars, lock>>
        /\ Fault /\ audit' = IdleAudit(audit.runs)
    BY <1>9 DEF AuditKilled
  <2>2. faults' \in 0..MaxFaults
    BY <2>1, FaultTypes DEF IInv, TypeOK
  <2> QED
    BY <2>1, <2>2, IdleAuditFacts, AuditContext, AuditFrame DEF ledgerVars
<1> QED
  BY <1>1, <1>2, <1>3, <1>4, <1>5, <1>6, <1>7, <1>8, <1>9 DEF AuditNext, AuditStep

-----------------------------------------------------------------------------
(* The discovery's steps and the environment's.                            *)

LEMMA RegisterFacts ==
    ASSUME NEW entries \in Entries, NEW missing
    PROVE  /\ RegisterMissing(entries, missing) \in Entries
           /\ \A k \in Keys : RegisterMissing(entries, missing)[k].cursor
                                  \in {0, entries[k].cursor}
<1>1. FreshEntry \in Entry /\ FreshEntry.cursor = 0
  BY ConstantRecords DEF FreshEntry, NoEntry
<1>2. \A k \in Keys : RegisterMissing(entries, missing)[k] \in {FreshEntry, entries[k]}
  BY DEF RegisterMissing
<1>3. RegisterMissing(entries, missing) \in Entries
  BY <1>1 DEF RegisterMissing, Entries
<1> QED
  BY <1>1, <1>2, <1>3

\* What a step of the discovery has to show for itself.
LEMMA InventoryFrame ==
    ASSUME IInv, UNCHANGED <<discordVars, archiveVars, queueFile, queueBaks,
                             worker, audit>>,
           faults' \in 0..MaxFaults, lock' \in Jobs \cup {Free},
           stateFile' \in StateFiles, stateBaks' \in [1..BakKeep -> StateFiles],
           EntriesCovered(stateFile'.entries),
           \A i \in 1..BakKeep : EntriesCovered(stateBaks'[i].entries),
           inventory' \in InventoryType, EntriesCovered(inventory'.entries),
           LockHeld'
    PROVE  IInv'
<1>1. UNCHANGED <<posted, live, raw>>
  BY DEF discordVars, archiveVars
<1>2. CoverageKept
  BY <1>1, SameCoverage DEF CoverageKept
<1>3. StoreTypeOK'
  BY DEF IInv, TypeOK, StoreTypeOK, discordVars, archiveVars
<1>4. FilesCovered'
  <2>1. FilesCovered
    BY DEF IInv, CursorCovered
  <2> QED
    BY <1>1, <2>1, SameCoverage DEF FilesCovered, EntriesCovered, ItemsCovered
<1>5. EntriesCovered(inventory.entries)'
  BY <1>1, SameCoverage DEF EntriesCovered
<1>6. WorkerCovered(worker)'
  BY <1>2, KeptWorker DEF IInv, TypeOK, CursorCovered, MemoryCovered
<1>7. EntriesCovered(audit.entries)' /\ ItemsCovered(audit.items)'
  BY <1>2, KeptAudit DEF IInv, TypeOK, CursorCovered, MemoryCovered
<1>8. WorkerTypeOK' /\ AuditTypeOK' /\ InventoryTypeOK'
  BY DEF IInv, TypeOK, WorkerTypeOK, AuditTypeOK, InventoryTypeOK
<1>9. LiveBounded' /\ CandidateHeld' /\ PageComplete'
  BY <1>1 DEF IInv, LiveBounded, CandidateHeld, PageComplete
<1> QED
  BY <1>3, <1>4, <1>5, <1>6, <1>7, <1>8, <1>9
     DEF IInv, TypeOK, CursorCovered, MemoryCovered

\* What every step of the discovery may assume.
LEMMA InventoryContext ==
    ASSUME IInv
    PROVE  /\ inventory \in InventoryType /\ faults \in 0..MaxFaults
           /\ lock \in Jobs \cup {Free}
           /\ stateFile \in StateFiles /\ stateBaks \in [1..BakKeep -> StateFiles]
           /\ EntriesCovered(stateFile.entries)
           /\ \A i \in 1..BakKeep : EntriesCovered(stateBaks[i].entries)
           /\ EntriesCovered(inventory.entries) /\ EntriesCovered(NoEntries)
           /\ IdleInventory \in InventoryType
           /\ IdleInventory.pc = "idle" /\ IdleInventory.entries = NoEntries
           /\ LockHeld
BY IdleCovered, IdleTypes
   DEF IInv, TypeOK, StoreTypeOK, InventoryTypeOK, CursorCovered, FilesCovered,
       MemoryCovered, IdleInventory

\* Every step of the discovery, one case per action.
LEMMA InventoryPreserves ==
    ASSUME IInv, InventoryNext, UNCHANGED <<worker, audit>>
    PROVE  IInv'
<1>1. CASE InventoryObserve
  <2>1. /\ UNCHANGED storeVars /\ inventory.pc = "idle"
        /\ inventory' = [IdleInventory EXCEPT
                           !.pc = "apply",
                           !.missing = Unregistered(stateFile.entries)]
    BY <1>1 DEF InventoryObserve
  <2>2. Unregistered(stateFile.entries) \in SUBSET Keys
    BY DEF Unregistered
  <2>3. /\ inventory' \in InventoryType /\ inventory'.pc = "apply"
        /\ inventory'.entries = NoEntries
    BY <2>1, <2>2, InventoryContext DEF InventoryType
  <2>4. LockHeld'
    BY <2>1, <2>3, InventoryContext DEF LockHeld, storeVars
  <2> QED
    BY <2>1, <2>3, <2>4, InventoryContext, InventoryFrame DEF storeVars, ledgerVars
<1>2. CASE InventoryRegister
  <2> DEFINE entries == RegisterMissing(stateFile.entries, inventory.missing)
  <2>1. /\ UNCHANGED <<discordVars, archiveVars, ledgerVars, faults>>
        /\ inventory.pc = "apply" /\ lock = Free /\ lock' = "inventory"
        /\ inventory' = [inventory EXCEPT !.pc = "replace", !.entries = entries]
    BY <1>2 DEF InventoryRegister
  <2>2. entries \in Entries /\ EntriesCovered(entries)
    <3>1. stateFile.entries \in Entries
      BY InventoryContext DEF StateFiles
    <3>2. \A k \in Keys : Covered(k, 0) /\ Covered(k, stateFile.entries[k].cursor)
      BY ZeroCovered, InventoryContext DEF IInv, TypeOK, EntriesCovered
    <3> QED
      BY <3>1, <3>2, RegisterFacts DEF EntriesCovered
  <2> HIDE DEF entries
  <2>3. /\ inventory' \in InventoryType /\ inventory'.pc = "replace"
        /\ inventory'.entries = entries
    BY <2>1, <2>2, InventoryContext DEF InventoryType
  <2>4. LockHeld' /\ lock' \in Jobs \cup {Free}
    BY <2>1, <2>3, InventoryContext DEF LockHeld, Free, Jobs
  <2> QED
    BY <2>1, <2>2, <2>3, <2>4, InventoryContext, InventoryFrame DEF ledgerVars
<1>3. CASE InventoryGivesUp
  <2>1. /\ UNCHANGED storeVars /\ inventory.pc = "apply"
        /\ inventory' = IdleInventory
    BY <1>3 DEF InventoryGivesUp
  <2>2. LockHeld'
    BY <2>1, InventoryContext DEF LockHeld, storeVars
  <2> QED
    BY <2>1, <2>2, InventoryContext, InventoryFrame DEF storeVars, ledgerVars
<1>4. CASE InventoryReplace
  <2>1. /\ UNCHANGED <<discordVars, archiveVars, queueFile, queueBaks, faults>>
        /\ inventory.pc = "replace" /\ lock' = Free
        /\ inventory' = IdleInventory
        /\ stateBaks' = Rotate(stateBaks, stateFile)
        /\ stateFile' = [ok |-> TRUE, entries |-> inventory.entries]
    BY <1>4 DEF InventoryReplace
  <2>2. /\ stateFile' \in StateFiles /\ stateFile'.entries = inventory.entries
    BY <2>1, InventoryContext DEF StateFiles, InventoryType
  <2>3. stateBaks' \in [1..BakKeep -> StateFiles]
    BY <2>1, InventoryContext, RotateTypes
  <2>4. \A i \in 1..BakKeep : EntriesCovered(stateBaks'[i].entries)
    <3>1. \A i \in 1..BakKeep : \/ stateBaks'[i] = stateFile
                                \/ \E j \in 1..BakKeep : stateBaks'[i] = stateBaks[j]
      BY <2>1, RotateChoice
    <3> QED
      BY <3>1, InventoryContext
  <2>5. LockHeld' /\ lock' \in Jobs \cup {Free}
    BY <2>1, InventoryContext DEF LockHeld, Free
  <2> QED
    BY <2>1, <2>2, <2>3, <2>4, <2>5, InventoryContext, InventoryFrame
<1>5. CASE InventoryKilled
  <2>1. /\ UNCHANGED <<discordVars, archiveVars, ledgerVars>>
        /\ Fault /\ inventory' = IdleInventory
        /\ lock' = IF lock = "inventory" THEN Free ELSE lock
    BY <1>5 DEF InventoryKilled
  <2>2. faults' \in 0..MaxFaults
    BY <2>1, FaultTypes DEF IInv, TypeOK
  <2>3. LockHeld' /\ lock' \in Jobs \cup {Free}
    BY <2>1, InventoryContext DEF LockHeld, Free
  <2> QED
    BY <2>1, <2>2, <2>3, InventoryContext, InventoryFrame DEF ledgerVars
<1> QED
  BY <1>1, <1>2, <1>3, <1>4, <1>5 DEF InventoryNext, InventoryStep
LEMMA EnvironmentPreserves ==
    ASSUME IInv, Environment, UNCHANGED <<worker, audit, inventory>>
    PROVE  IInv'
<1>1. WorkerSide' /\ CoverageKept /\ UNCHANGED <<archiveVars, ledgerVars, lock>>
  BY WorkerShare, EnvironmentKeeps
<1>2. FilesCovered'
  BY <1>1, KeptFiles DEF IInv, TypeOK, CursorCovered
<1>3. /\ WorkerCovered(worker)'
      /\ EntriesCovered(audit.entries)' /\ ItemsCovered(audit.items)'
      /\ EntriesCovered(inventory.entries)'
  BY <1>1, KeptWorker, KeptAudit, KeptInventory
     DEF IInv, TypeOK, CursorCovered, MemoryCovered
<1>4. AuditTypeOK' /\ InventoryTypeOK' /\ LockHeld'
  BY <1>1 DEF IInv, TypeOK, AuditTypeOK, InventoryTypeOK, LockHeld
<1> QED
  BY <1>1, <1>2, <1>3, <1>4 DEF IInv, TypeOK, CursorCovered, MemoryCovered, WorkerSide

-----------------------------------------------------------------------------
(* The theorems.                                                           *)

LEMMA InitEstablishes == Init => IInv
<1> SUFFICES ASSUME Init PROVE IInv
  OBVIOUS
<1>1. /\ posted \in [Keys -> Cursor] /\ live = [k \in Keys |-> 1..posted[k]]
      /\ day \in 0..MaxDay
  BY DEF Init, StoreInit, SmallerOf
<1>2. live \in [Keys -> SUBSET Ids] /\ LiveBounded
  BY <1>1 DEF LiveBounded, Ids, Cursor
<1>3. ASSUME NEW k \in Keys
      PROVE  /\ InitEntry(k) \in Entry /\ InitEntry(k).cursor = 0
             /\ InitItem(k) \in Item /\ InitItem(k).cursor = 0
  BY ConstantRecords
     DEF InitEntry, InitItem, FreshEntry, NoEntry, NoItem, Entry, Item, EntryStatus,
         ItemStatus, Reason
<1>4. /\ stateFile \in StateFiles /\ queueFile \in QueueFiles
      /\ \A k \in Keys : stateFile.entries[k].cursor = 0 /\ queueFile.items[k].cursor = 0
  BY <1>3 DEF Init, StoreInit, StateFiles, QueueFiles, Entries, Items
<1>5. /\ stateBaks = [i \in 1..BakKeep |-> NoStateBak]
      /\ queueBaks = [i \in 1..BakKeep |-> NoQueueBak]
      /\ NoStateBak \in StateFiles /\ NoStateBak.entries = NoEntries
      /\ NoQueueBak \in QueueFiles /\ NoQueueBak.items = NoItems
  BY IdleWorkerTypes DEF Init, StoreInit, NoStateBak, NoQueueBak, StateFiles, QueueFiles
<1>6. StoreTypeOK
  BY <1>1, <1>2, <1>4, <1>5 DEF Init, StoreInit, StoreTypeOK, Free
<1>7. TypeOK
  BY <1>6, IdleTypes, IdleWorkerTypes
     DEF Init, TypeOK, WorkerInit, WorkerTypeOK, AuditInit, AuditTypeOK,
         InventoryInit, InventoryTypeOK
<1>8. FilesCovered
  BY <1>4, <1>5, <1>6, ZeroCovered, IdleCovered
     DEF FilesCovered, EntriesCovered, ItemsCovered
<1>9. MemoryCovered
  BY <1>6, IdleCovered
     DEF MemoryCovered, Init, WorkerInit, AuditInit, InventoryInit, IdleAudit,
         IdleInventory
<1>10. LockHeld /\ CandidateHeld /\ PageComplete
  BY DEF Init, StoreInit, WorkerInit, InventoryInit, LockHeld, CandidateHeld,
         PageComplete, IdleWorker, IdleInventory, Free
<1> QED
  BY <1>2, <1>7, <1>8, <1>9, <1>10 DEF IInv, CursorCovered

LEMMA NextPreserves == IInv /\ [Next]_vars => IInv'
<1> SUFFICES ASSUME IInv, [Next]_vars PROVE IInv'
  OBVIOUS
<1>1. CASE Environment /\ UNCHANGED <<worker, audit, inventory>>
  BY <1>1, EnvironmentPreserves
<1>2. CASE WorkerNext /\ UNCHANGED <<audit, inventory>>
  BY <1>2, WorkerPreserves
<1>3. CASE AuditNext /\ UNCHANGED <<worker, inventory>>
  BY <1>3, AuditPreserves
<1>4. CASE InventoryNext /\ UNCHANGED <<worker, audit>>
  BY <1>4, InventoryPreserves
<1>5. CASE UNCHANGED vars
  <2>1. ArchiveGrows /\ FilesCovered' /\ WorkerCovered(worker)'
    <3>1. ArchiveGrows /\ CoverageKept
      BY <1>5, UnchangedRawGrows, GrowthKeepsCoverage
         DEF vars, storeVars, archiveVars, discordVars
    <3> QED
      BY <1>5, <3>1, KeptFiles, KeptWorker
         DEF vars, storeVars, IInv, TypeOK, CursorCovered, MemoryCovered
  <2>2. StoreTypeOK' /\ WorkerTypeOK'
    BY <1>5 DEF vars, storeVars, discordVars, archiveVars, ledgerVars, IInv, TypeOK,
                StoreTypeOK, WorkerTypeOK
  <2>3. LockHeld' /\ CandidateHeld' /\ PageComplete'
    BY <1>5 DEF vars, storeVars, discordVars, IInv, LockHeld, CandidateHeld,
                PageComplete
  <2> QED
    BY <1>5, <2>1, <2>2, <2>3, WorkerFrame DEF vars, storeVars, discordVars
<1> QED
  BY <1>1, <1>2, <1>3, <1>4, <1>5 DEF Next

\* The inductive invariant holds in every state the jobs can reach.
THEOREM Invariance == Spec => []IInv
BY InitEstablishes, NextPreserves, PTL DEF Spec

\* Every variable keeps its type, whatever the jobs and the bounds.
THEOREM TypesCorrect == Spec => []TypeOK
<1>1. IInv => TypeOK
  BY DEF IInv
<1> QED
  BY <1>1, Invariance, PTL

\* The cross-job lock admits one of the jobs that take it at a time, and is
\* free again after every exit and kill.
THEOREM LockIsHeld == Spec => []LockHeld
<1>1. IInv => LockHeld
  BY DEF IInv
<1> QED
  BY <1>1, Invariance, PTL

\* No cursor, on disk, in a .bak copy or in a process, is ever ahead of raw:
\* not after kills, truncated ledgers, .bak recoveries, stale audit writes
\* and merges, in any order.
THEOREM CursorsCovered == Spec => []CursorCovered
<1>1. IInv => CursorCovered
  BY DEF IInv
<1> QED
  BY <1>1, Invariance, PTL

-----------------------------------------------------------------------------
(* What a step can do to the archive, and the contract.                    *)

LEMMA StepKinds ==
    ASSUME IInv, [Next]_vars
    PROVE  \/ UNCHANGED <<posted, live, raw>>
           \/ \E k \in Keys : Post(k) \/ Delete(k)
           \/ \E k \in Keys : \E ids : Archives(k, ids)
<1>1. CASE Environment
  BY <1>1 DEF Environment, NextDay, archiveVars
<1>2. CASE WorkerNext
  BY <1>2, WorkerArchives, WorkerShare
<1>3. CASE AuditNext
  BY <1>3 DEF AuditNext, AuditStep, AuditStart, AuditLoadQueue, AuditProbe,
              AuditDecide, AuditTruncateState, AuditWriteState, AuditTruncateQueue,
              AuditWriteQueue, AuditKilled, storeVars, discordVars, archiveVars
<1>4. CASE InventoryNext
  BY <1>4 DEF InventoryNext, InventoryStep, InventoryObserve, InventoryRegister,
              InventoryGivesUp, InventoryReplace, InventoryKilled, storeVars,
              discordVars, archiveVars
<1>5. CASE UNCHANGED vars
  BY <1>5 DEF vars, storeVars, discordVars, archiveVars
<1> QED
  BY <1>1, <1>2, <1>3, <1>4, <1>5 DEF Next

LEMMA SingleCopies ==
    ASSUME IInv, NoDuplicateRaw, [Next]_vars
    PROVE  NoDuplicateRaw'
<1>1. CASE UNCHANGED raw
  BY <1>1 DEF NoDuplicateRaw
<1>2. CASE \E k \in Keys : \E ids : Archives(k, ids)
  <2>0. PICK k \in Keys : \E ids : Archives(k, ids)
    BY <1>2
  <2>1. PICK ids : Archives(k, ids)
    BY <2>0
  <2>2. raw \in [Keys -> [Ids -> Nat]]
    BY DEF IInv, TypeOK, StoreTypeOK
  <2>3. ASSUME NEW j \in Keys, NEW m \in Ids PROVE raw'[j][m] <= 1
    <3>1. raw[j][m] \in Nat /\ raw[j][m] <= 1
      BY <2>2 DEF NoDuplicateRaw
    <3>2. raw'[j][m] = IF j = k /\ m \in ids THEN raw[j][m] + 1 ELSE raw[j][m]
      <4>1. CASE j = k
        <5>1. raw'[k] = [i \in Ids |-> IF i \in ids THEN raw[k][i] + 1 ELSE raw[k][i]]
          BY <2>1, <2>2 DEF Archives, WithCopies
        <5> QED
          BY <4>1, <5>1
      <4>2. CASE j # k
        BY <2>1, <2>2, <4>2 DEF Archives, WithCopies
      <4> QED
        BY <4>1, <4>2
    <3>3. m \in ids /\ j = k => raw[j][m] = 0
      BY <2>1, <3>1 DEF Archives, RawIds
    <3> QED
      BY <3>1, <3>2, <3>3
  <2> QED
    BY <2>3 DEF NoDuplicateRaw
<1>3. CASE \E k \in Keys : Post(k) \/ Delete(k)
  BY <1>1, <1>3 DEF Post, Delete, archiveVars
<1> QED
  BY <1>1, <1>2, <1>3, StepKinds

\* Each message has at most one block in raw, however often it is read again.
THEOREM NoDuplicates == Spec => []NoDuplicateRaw
<1>1. Init => NoDuplicateRaw
  BY DEF Init, StoreInit, NoDuplicateRaw
<1>2. IInv /\ NoDuplicateRaw /\ [Next]_vars => NoDuplicateRaw'
  BY SingleCopies
<1> QED
  BY <1>1, <1>2, Invariance, PTL DEF Spec

-----------------------------------------------------------------------------
(* BackupPipeline implements ArchiveContract: under the mapping of         *)
(* Contract, every step of the jobs and of Discord is a Post, a Delete, an *)
(* Archive or a Save of the contract, or changes nothing it speaks of.     *)

\* The mapped variables of the contract.
Archived == [k \in Keys |-> RawIds(k)]
Claimed  == [k \in Keys |-> stateFile.entries[k].cursor]

LEMMA InitMaps == Init => Contract!Init
BY LedgerAssumption
   DEF Init, StoreInit, Contract!Init, RawIds, InitEntry, NoEntry, FreshEntry,
       Cursor

\* A step that leaves Discord and raw alone is a save, whatever it does to the
\* ledgers: the claims after it are covered because the invariant holds again.
LEMMA SaveMaps ==
    ASSUME IInv', UNCHANGED <<posted, live, raw>>
    PROVE  Contract!Save
<1>1. stateFile'.entries \in [Keys -> Entry]
  BY DEF IInv, TypeOK, StoreTypeOK, StateFiles, Entries
<1>2. Claimed' \in [Keys -> Nat]
  BY <1>1, LedgerAssumption DEF Claimed, Entry, Cursor
<1>3. \A k \in Keys : Covered(k, stateFile.entries[k].cursor)'
  BY DEF IInv, CursorCovered, FilesCovered, EntriesCovered
<1>4. \A k \in Keys : /\ Claimed'[k] <= posted[k]
                      /\ \A m \in live[k] : m <= Claimed'[k] => m \in Archived[k]
  BY <1>3 DEF Covered, Archived, Claimed, RawIds
<1> QED
  BY <1>2, <1>4 DEF Contract!Save, Contract!Complete, Claimed, Archived, RawIds

LEMMA DiscordMaps ==
    ASSUME NEW k \in Keys, Post(k) \/ Delete(k)
    PROVE  Contract!Post(k) \/ Contract!Delete(k)
BY DEF Post, Delete, archiveVars, ledgerVars, Contract!Post, Contract!Delete, RawIds

LEMMA ArchiveMaps ==
    ASSUME IInv, NEW k \in Keys, NEW ids, Archives(k, ids)
    PROVE  Contract!Archive(k)
<1>1. raw \in [Keys -> [Ids -> Nat]]
  BY DEF IInv, TypeOK, StoreTypeOK
<1>2. \A j \in Keys : RawIds(j)' = RawIds(j) \cup (IF j = k THEN ids ELSE {})
  BY <1>1, WithCopiesFacts DEF Archives
<1>3. Archived' = [Archived EXCEPT ![k] = @ \cup ids]
  BY <1>2 DEF Archived
<1>4. ids \in SUBSET (1..posted[k]) /\ UNCHANGED <<posted, live, Claimed>>
  BY DEF Archives, Claimed
<1> QED
  BY <1>3, <1>4 DEF Contract!Archive, Archived, Claimed

LEMMA StepMaps ==
    ASSUME IInv, IInv', [Next]_vars
    PROVE  Contract!Next
BY SaveMaps, DiscordMaps, ArchiveMaps, StepKinds DEF Contract!Next

\* Whatever the jobs do, in any order and under any kills, the archive keeps
\* its contract: raw only grows, by messages that were posted, and the state
\* ledger only ever claims positions up to which raw is complete.
THEOREM ImplementsContract == Spec => KeepsContract
<1>1. Init => Contract!Init
  BY InitMaps
<1>2. IInv /\ IInv' /\ [Next]_vars => [Contract!Next]_Contract!contractVars
  BY StepMaps
<1> QED
  BY <1>1, <1>2, Invariance, PTL DEF Spec, KeepsContract, Contract!Spec

-----------------------------------------------------------------------------
(* What holds only where every writer of the ledgers takes the lock, that  *)
(* is without the audit: no cursor on disk ever moves back, and little is  *)
(* read again after a kill.                                                *)

\* One state ledger does not take back what another one claims.
NotAhead(old, new) ==
    \A k \in Keys : /\ old[k].cursor <= new[k].cursor
                    /\ Registered(old[k]) => Registered(new[k])

\* An entry nobody has registered claims nothing.
NoClaim(entries) == \A k \in Keys : ~Registered(entries[k]) => entries[k].cursor = 0

Trails(items, entries) == \A k \in Keys : items[k].cursor <= entries[k].cursor

SameCursors(a, b) == \A k \in Keys : a[k].cursor = b[k].cursor

\* The worker reads a candidate, or will when its save is done.
Reads(w) == \/ w.pc \in {"fetch", "append", "probe"}
            \/ w.pc \in {"merge", "replace", "queue"} /\ w.then \in {"fetch", "probe"}

\* The worker's ledgers are the newest ones, and equal to those on disk but
\* while a save is due; its queue trails its state; the next page follows the
\* cursor on disk.
WorkerAhead(w) ==
    w.pc # "idle" =>
        /\ NotAhead(stateFile.entries, w.entries) /\ NoClaim(w.entries)
        /\ w.pc # "prepare" => Trails(w.items, w.entries)
        /\ w.pc \notin {"merge", "replace"} => SameCursors(stateFile.entries, w.entries)
        /\ Reads(w) => w.cursor = w.entries[w.key].cursor
        /\ w.pc = "append" => /\ Cardinality(w.page) <= PageLimit
                              /\ \A m \in w.page : m > w.cursor

\* At most a page lies between a cursor on disk and any message in raw.
Between(k, c, m) == {j \in live[k] : c < j /\ j <= m}
RawNear ==
    \A k \in Keys : \A m \in RawIds(k) :
        Cardinality(Between(k, stateFile.entries[k].cursor, m)) <= PageLimit

LedgersReadable == stateFile.ok /\ queueFile.ok

DiscoveryAhead ==
    inventory.pc = "replace" => /\ NotAhead(stateFile.entries, inventory.entries)
                                /\ NoClaim(inventory.entries)

LockedInv ==
    /\ audit = IdleAudit(0)
    /\ LedgersReadable /\ NoClaim(stateFile.entries) /\ QueueNeverAhead
    /\ RawPosted /\ RawNear /\ WorkerAhead(worker) /\ DiscoveryAhead

\* The numbers the comparisons are about.
LEMMA Numbers ==
    ASSUME IInv
    PROVE  /\ posted \in [Keys -> Cursor] /\ live \in [Keys -> SUBSET Ids]
           /\ \A k \in Keys : stateFile.entries[k] \in Entry /\ stateFile.entries[k].cursor \in Nat
           /\ \A k \in Keys : queueFile.items[k] \in Item /\ queueFile.items[k].cursor \in Nat
           /\ \A k \in Keys : worker.entries[k] \in Entry /\ worker.entries[k].cursor \in Nat
           /\ \A k \in Keys : worker.items[k] \in Item /\ worker.items[k].cursor \in Nat
           /\ \A k \in Keys : inventory.entries[k] \in Entry /\ inventory.entries[k].cursor \in Nat
           /\ worker \in WorkerType /\ worker.cursor \in Nat
<1>1. /\ posted \in [Keys -> Cursor] /\ live \in [Keys -> SUBSET Ids]
      /\ stateFile.entries \in [Keys -> Entry] /\ queueFile.items \in [Keys -> Item]
  BY DEF IInv, TypeOK, StoreTypeOK, StateFiles, QueueFiles, Entries, Items
<1>2. worker \in WorkerType /\ inventory.entries \in [Keys -> Entry]
  BY DEF IInv, TypeOK, WorkerTypeOK, InventoryTypeOK, InventoryType, Entries
<1>3. /\ worker.entries \in [Keys -> Entry] /\ worker.items \in [Keys -> Item]
      /\ worker.cursor \in Nat
  BY <1>2 DEF WorkerType, Entries, Items, Cursor
<1>4. /\ \A e \in Entry : e.cursor \in Nat
      /\ \A i \in Item : i.cursor \in Nat
  BY DEF Entry, Item, Cursor
<1> QED
  BY <1>1, <1>2, <1>3, <1>4

\* Sets of messages are finite.
LEMMA SomeIds ==
    ASSUME NEW S \in SUBSET Ids
    PROVE  /\ IsFiniteSet(S) /\ Cardinality(S) \in Nat
           /\ \A T \in SUBSET S : IsFiniteSet(T) /\ Cardinality(T) \in Nat /\ Cardinality(T) <= Cardinality(S)
<1>1. IsFiniteSet(Ids)
  BY LedgerAssumption, FS_Interval DEF Ids
<1>2. IsFiniteSet(S)
  BY <1>1, FS_Subset
<1> QED
  BY <1>2, FS_Subset, FS_CardinalityType

\* An update that changes no cursor and registers what it touches.
SameClaims(a, b) ==
    \A k \in Keys : /\ b[k].cursor = a[k].cursor
                    /\ b[k] = a[k] \/ Registered(b[k])

LEMMA SameClaimsKeep ==
    ASSUME NEW s, NEW a, NEW b, SameClaims(a, b)
    PROVE  /\ NotAhead(s, a) => NotAhead(s, b)
           /\ NoClaim(a) => NoClaim(b)
           /\ SameCursors(s, a) => SameCursors(s, b)
BY DEF SameClaims, NotAhead, NoClaim, SameCursors

-----------------------------------------------------------------------------
(* The worker.                                                             *)

\* A step that leaves the files and the archive alone.
LEMMA LocalStep ==
    ASSUME LockedInv, UNCHANGED <<posted, live, raw, stateFile, queueFile, audit, inventory>>,
           WorkerAhead(worker)'
    PROVE  LockedInv'
BY DEF LockedInv, LedgersReadable, NoClaim, QueueNeverAhead, RawPosted, RawNear, RawIds, Between,
       DiscoveryAhead, NotAhead

\* What a read of nothing and a failure leave of the candidate.
LEMMA SettledFacts ==
    ASSUME NEW w \in WorkerType, w.key \in Keys, NEW v \in {CaughtUp(w), Failed(w)}
    PROVE  /\ v.pc = "merge" /\ v.then = "pick"
           /\ SameClaims(w.entries, v.entries)
           /\ \A k \in Keys : v.items[k].cursor = IF k = w.key THEN w.cursor ELSE w.items[k].cursor
<1>1. /\ w.entries \in [Keys -> Entry] /\ w.items \in [Keys -> Item]
      /\ w.entries[w.key] \in Entry /\ w.items[w.key] \in Item
  BY DEF WorkerType, Entries, Items
<1>2. CASE v = CaughtUp(w)
  <2>1. /\ v.pc = "merge" /\ v.then = "pick"
        /\ v.entries = [w.entries EXCEPT ![w.key] = [@ EXCEPT !.status = "healthy", !.reason = "none", !.last = w.today]]
        /\ v.items = [w.items EXCEPT ![w.key] = [@ EXCEPT !.status = "caught_up", !.cursor = w.cursor]]
    BY <1>2 DEF CaughtUp, WorkerType
  <2> QED
    BY <1>1, <2>1 DEF SameClaims, Registered, Entry, Item
<1>3. CASE v = Failed(w)
  <2>1. /\ v.pc = "merge" /\ v.then = "pick"
        /\ v.entries = [w.entries EXCEPT ![w.key] = [@ EXCEPT !.status = "error"]]
        /\ v.items = [w.items EXCEPT ![w.key] = [@ EXCEPT !.status = "retry", !.cursor = w.cursor]]
    BY <1>3 DEF Failed, WorkerType
  <2> QED
    BY <1>1, <2>1 DEF SameClaims, Registered, Entry, Item
<1> QED
  BY <1>2, <1>3

LEMMA SettledAhead ==
    ASSUME IInv, LockedInv, UNCHANGED stateFile, Reads(worker), NEW w \in WorkerType,
           w.entries = worker.entries, w.items = worker.items, w.key = worker.key, w.cursor = worker.cursor,
           worker' \in {CaughtUp(w), Failed(w)}
    PROVE  WorkerAhead(worker)'
<1>1. worker.key \in Keys /\ worker.pc # "idle" /\ worker.pc # "prepare"
  BY DEF Reads, IInv, CandidateHeld
<1>2. /\ worker'.pc = "merge" /\ worker'.then = "pick"
      /\ SameClaims(worker.entries, worker'.entries)
      /\ \A k \in Keys : worker'.items[k].cursor = IF k = worker.key THEN worker.cursor ELSE worker.items[k].cursor
  BY <1>1, SettledFacts
<1>3. NotAhead(stateFile.entries, worker'.entries) /\ NoClaim(worker'.entries)
  BY <1>1, <1>2, SameClaimsKeep DEF LockedInv, WorkerAhead
<1>4. worker.cursor = worker.entries[worker.key].cursor /\ Trails(worker.items, worker.entries)
  BY <1>1 DEF LockedInv, WorkerAhead
<1>5. Trails(worker'.items, worker'.entries)
  BY <1>1, <1>2, <1>4, Numbers DEF Trails, SameClaims
<1> QED
  BY <1>2, <1>3, <1>5 DEF WorkerAhead, Reads, NotAhead, NoClaim, Trails

LEMMA StartAhead ==
    ASSUME IInv, LockedInv, WorkerStart
    PROVE  WorkerAhead(worker)'
<1>1. PICK source \in Readable(stateFile, stateBaks) :
         worker' = [IdleWorker EXCEPT !.pc = "prepare", !.today = day, !.entries = source.entries]
  BY DEF WorkerStart
<1>2. source = stateFile /\ UNCHANGED stateFile
  BY DEF LockedInv, LedgersReadable, Readable, WorkerStart, ledgerVars
<1>3. worker'.pc = "prepare" /\ worker'.entries = stateFile.entries
  BY <1>1, <1>2 DEF IdleWorker
<1> QED
  BY <1>2, <1>3, Numbers DEF WorkerAhead, Reads, NotAhead, NoClaim, SameCursors, LockedInv

\* The queue on disk trails the state on disk, and so do the items made from it.
LEMMA PrepareAhead ==
    ASSUME IInv, LockedInv, WorkerPrepare
    PROVE  WorkerAhead(worker)'
<1>1. PICK source \in Readable(queueFile, queueBaks) :
         \E items \in {NormalizeQueueItems(source.items, worker.entries)} :
         \E chosen \in {Select(worker.entries, items, MaxEntries, worker.today)} :
            worker' = [worker EXCEPT !.pc = "pick", !.items = chosen.items, !.plan = chosen.plan]
  BY DEF WorkerPrepare
<1>2. source = queueFile
  BY DEF LockedInv, LedgersReadable, Readable
<1> DEFINE items  == NormalizeQueueItems(queueFile.items, worker.entries)
           chosen == Select(worker.entries, items, MaxEntries, worker.today)
<1>3. worker' = [worker EXCEPT !.pc = "pick", !.items = chosen.items, !.plan = chosen.plan]
  BY <1>1, <1>2
<1>4. /\ worker.entries \in [Keys -> Entry] /\ queueFile.items \in [Keys -> Item]
      /\ worker.today \in Nat /\ worker \in WorkerType
  BY DEF IInv, TypeOK, StoreTypeOK, QueueFiles, WorkerTypeOK, WorkerType, Entries, Items
<1>5. /\ items \in [Keys -> Item]
      /\ \A k \in Keys : items[k].cursor \in {queueFile.items[k].cursor, worker.entries[k].cursor}
  BY <1>4, NormalizeFacts
<1>6. \A k \in Keys : chosen.items[k].cursor \in {items[k].cursor, worker.entries[k].cursor}
  <2> HIDE DEF items
  <2> QED
    BY <1>4, <1>5, SelectFacts
<1> HIDE DEF items, chosen
<1>7. /\ worker'.pc = "pick" /\ worker'.entries = worker.entries /\ worker'.items = chosen.items
  BY <1>3, <1>4 DEF WorkerType
<1>8. worker.pc = "prepare" /\ UNCHANGED stateFile
  BY DEF WorkerPrepare
<1>9. /\ NotAhead(stateFile.entries, worker.entries) /\ NoClaim(worker.entries)
      /\ SameCursors(stateFile.entries, worker.entries)
  BY <1>8 DEF LockedInv, WorkerAhead
<1>10. Trails(chosen.items, worker.entries)
  BY <1>5, <1>6, <1>9, Numbers DEF Trails, SameCursors, LockedInv, QueueNeverAhead
<1> QED
  BY <1>7, <1>8, <1>9, <1>10 DEF WorkerAhead, Reads, NotAhead, NoClaim, SameCursors, Trails

LEMMA PickAhead ==
    ASSUME IInv, LockedInv, WorkerPick
    PROVE  WorkerAhead(worker)'
<1>1. PICK p \in 1..4, k \in Keys :
         worker' = [worker EXCEPT
                      !.pc = "merge", !.then = "fetch", !.plan[p] = @ \ {k},
                      !.key = k, !.cursor = StartCursor(worker, k), !.batches = 0,
                      !.entries[k] = [@ EXCEPT !.status = "catching_up"],
                      !.items[k] = [@ EXCEPT !.status = "catching_up", !.cursor = StartCursor(worker, k)]]
  BY DEF WorkerPick
<1>2. /\ worker \in WorkerType /\ worker.entries \in [Keys -> Entry] /\ worker.items \in [Keys -> Item]
      /\ worker.pc = "pick" /\ UNCHANGED stateFile
  BY DEF IInv, TypeOK, WorkerTypeOK, WorkerType, Entries, Items, WorkerPick, storeVars, ledgerVars
<1>3. /\ NotAhead(stateFile.entries, worker.entries) /\ NoClaim(worker.entries)
      /\ Trails(worker.items, worker.entries)
  BY <1>2 DEF LockedInv, WorkerAhead
<1>4. StartCursor(worker, k) = worker.entries[k].cursor
  <2>1. worker.items[k].cursor \in Nat /\ worker.entries[k].cursor \in Nat
    BY Numbers
  <2>2. worker.items[k].cursor <= worker.entries[k].cursor
    BY <1>3 DEF Trails
  <2> QED
    BY <2>1, <2>2 DEF StartCursor, Newest
<1>5. /\ worker'.pc = "merge" /\ worker'.key = k /\ worker'.cursor = worker.entries[k].cursor
      /\ worker'.entries = [worker.entries EXCEPT ![k] = [@ EXCEPT !.status = "catching_up"]]
      /\ worker'.items = [worker.items EXCEPT ![k] = [@ EXCEPT !.status = "catching_up", !.cursor = worker.entries[k].cursor]]
  BY <1>1, <1>2, <1>4 DEF WorkerType
<1>6. SameClaims(worker.entries, worker'.entries)
  BY <1>2, <1>5 DEF SameClaims, Entry, Registered
<1>7. NotAhead(stateFile.entries, worker'.entries) /\ NoClaim(worker'.entries)
  BY <1>3, <1>6, SameClaimsKeep
<1>8. Trails(worker'.items, worker'.entries)
  BY <1>2, <1>3, <1>5, <1>6, Numbers DEF Trails, SameClaims, Item
<1>9. worker'.cursor = worker'.entries[worker'.key].cursor
  BY <1>5, <1>6 DEF SameClaims
<1> QED
  BY <1>2, <1>5, <1>7, <1>8, <1>9 DEF WorkerAhead, NotAhead, NoClaim, Trails, Reads

\* What was newer on disk is merged in: under the lock, nothing is.
LEMMA MergeAhead ==
    ASSUME IInv, LockedInv, WorkerMerge
    PROVE  WorkerAhead(worker)'
<1> DEFINE merged == MergeDiskState(worker.entries, stateFile.entries)
<1>1. /\ worker \in WorkerType /\ worker.pc = "merge" /\ UNCHANGED stateFile
      /\ worker' = [worker EXCEPT !.pc = "replace", !.entries = merged]
  BY DEF IInv, TypeOK, WorkerTypeOK, WorkerMerge, storeVars, ledgerVars, LockedInv, LedgersReadable
<1>2. NotAhead(stateFile.entries, worker.entries) /\ NoClaim(worker.entries) /\ NoClaim(stateFile.entries)
  BY <1>1 DEF LockedInv, WorkerAhead
<1>3. ASSUME NEW k \in Keys
      PROVE  /\ merged[k].cursor = worker.entries[k].cursor
             /\ Registered(merged[k]) <=> Registered(worker.entries[k])
  <2>1. merged[k] = MergeEntry(worker.entries[k], stateFile.entries[k])
    BY DEF MergeDiskState
  <2>2. CASE ~Registered(worker.entries[k])
    <3>1. ~Registered(stateFile.entries[k]) /\ merged[k] = stateFile.entries[k]
      BY <1>2, <2>1, <2>2 DEF NotAhead, MergeEntry
    <3> QED
      BY <1>2, <2>2, <3>1 DEF NoClaim
  <2>3. CASE Registered(worker.entries[k])
    <3>1. merged[k] = [worker.entries[k] EXCEPT !.cursor =
             IF Registered(stateFile.entries[k]) THEN Newest(worker.entries[k].cursor, stateFile.entries[k].cursor)
             ELSE worker.entries[k].cursor]
      BY <2>1, <2>3, Numbers DEF MergeEntry, Entry
    <3>2. Newest(worker.entries[k].cursor, stateFile.entries[k].cursor) = worker.entries[k].cursor
      BY <1>2, Numbers DEF NotAhead, Newest
    <3>3. worker.entries[k] \in Entry
      BY Numbers
    <3> QED
      BY <2>3, <3>1, <3>2, <3>3 DEF Entry, Registered
  <2> QED
    BY <2>2, <2>3
<1> HIDE DEF merged
<1>4. /\ worker'.pc = "replace" /\ worker'.then = worker.then /\ worker'.entries = merged
      /\ worker'.items = worker.items /\ worker'.key = worker.key /\ worker'.cursor = worker.cursor
  BY <1>1 DEF WorkerType
<1>5. Reads(worker)' => Reads(worker) /\ worker.key \in Keys
  BY <1>1, <1>4 DEF Reads, IInv, CandidateHeld
<1>6. /\ NotAhead(stateFile.entries, merged) /\ NoClaim(merged)
      /\ Trails(worker.items, merged)
  BY <1>1, <1>2, <1>3 DEF NotAhead, NoClaim, Trails, LockedInv, WorkerAhead
<1>7. Reads(worker)' => worker'.cursor = worker'.entries[worker'.key].cursor
  BY <1>1, <1>3, <1>4, <1>5 DEF LockedInv, WorkerAhead
<1> QED
  BY <1>1, <1>4, <1>6, <1>7 DEF WorkerAhead, NotAhead, NoClaim, Trails, Reads

\* No more than n messages are read at a time.
LEMMA PageSize ==
    ASSUME NEW k \in Keys, NEW c \in Nat, NEW n \in Nat, live \in [Keys -> SUBSET Ids]
    PROVE  /\ Cardinality(Page(k, c, n)) <= n
           /\ \A m \in Page(k, c, n) : m > c
<1> DEFINE P == Page(k, c, n)
           before(m) == {j \in live[k] : c < j /\ j < m}
<1>1. P \in SUBSET Ids /\ \A m \in P : m \in Nat /\ m > c /\ m \in live[k] /\ Cardinality(before(m)) < n
  BY DEF Page, Ids
<1>2. CASE P = {}
  BY <1>1, <1>2, FS_EmptySet
<1>3. CASE P # {}
  <2>1. P \in SUBSET (0..MaxMsg)
    BY <1>1 DEF Ids
  <2>2. PICK top \in P : \A m \in P : m <= top
    <3> HIDE DEF P
    <3> QED
      BY <1>3, <2>1, GreatestOf
  <2>3. P \ {top} \subseteq before(top) /\ before(top) \in SUBSET Ids
    <3> HIDE DEF P
    <3>1. ASSUME NEW m \in P, m # top PROVE m \in before(top)
      <4>0. m \in Nat /\ top \in Nat /\ m <= top
        BY <1>1, <2>2
      <4>2. m \in live[k] /\ m > c
        BY <1>1
      <4>1. m \in live[k] /\ c < m /\ m < top
        BY <3>1, <4>0, <4>2
      <4> QED
        BY <4>1
    <3>2. before(top) \in SUBSET Ids
      OBVIOUS
    <3> HIDE DEF before
    <3> QED
      BY <3>1, <3>2
  <2>4. IsFiniteSet(P) /\ Cardinality(before(top)) \in Nat /\ Cardinality(P \ {top}) <= Cardinality(before(top))
    BY <1>1, <2>3, SomeIds
  <2>5. Cardinality(P) = Cardinality(P \ {top}) + 1 /\ Cardinality(P \ {top}) \in Nat
    <3> HIDE DEF P
    <3>1. Cardinality(P \ {top}) = Cardinality(P) - 1 /\ Cardinality(P) \in Nat
      BY <2>2, <2>4, FS_RemoveElement, FS_CardinalityType
    <3>2. Cardinality(P \ {top}) \in Nat
      BY <2>4, FS_RemoveElement, FS_CardinalityType
    <3> QED
      BY <3>1, <3>2
  <2>6. Cardinality(before(top)) < n
    BY <1>1, <2>2
  <2> QED
    <3> HIDE DEF P, before
    <3>1. Cardinality(P) <= n
      BY <2>4, <2>5, <2>6
    <3> QED
      BY <1>1, <3>1 DEF P
<1> QED
  BY <1>2, <1>3

LEMMA FetchAhead ==
    ASSUME IInv, LockedInv, WorkerFetch
    PROVE  WorkerAhead(worker)'
<1> DEFINE page    == Page(worker.key, worker.cursor, PageLimit)
           counted == [worker EXCEPT !.total = @ + 1, !.batches = @ + 1]
<1>1. /\ worker.pc = "fetch" /\ UNCHANGED stateFile
      /\ worker' = IF page = {} THEN CaughtUp(counted)
                   ELSE [counted EXCEPT !.pc = "append", !.page = page]
  BY DEF WorkerFetch, ledgerVars
<1>2. worker \in WorkerType /\ worker.key \in Keys /\ Reads(worker)
  BY <1>1 DEF IInv, TypeOK, WorkerTypeOK, CandidateHeld, Reads
<1>3. /\ counted \in WorkerType
      /\ counted.entries = worker.entries /\ counted.items = worker.items
      /\ counted.key = worker.key /\ counted.cursor = worker.cursor
  <2>1. worker.total + 1 \in Nat /\ worker.batches + 1 \in Nat
    BY <1>2 DEF WorkerType
  <2>2. counted = [worker EXCEPT !.total = worker.total + 1, !.batches = worker.batches + 1]
    OBVIOUS
  <2> HIDE DEF counted, page
  <2> QED
    BY <1>2, <2>1, <2>2 DEF WorkerType
<1>4. CASE page = {}
  <2> HIDE DEF counted, page
  <2>1. worker' = CaughtUp(counted)
    BY <1>1, <1>4
  <2> QED
    BY <1>1, <1>2, <1>3, <2>1, SettledAhead
<1>5. CASE page # {}
  <2>1. /\ worker'.pc = "append" /\ worker'.page = page
        /\ worker'.entries = worker.entries /\ worker'.items = worker.items
        /\ worker'.key = worker.key /\ worker'.cursor = worker.cursor
    BY <1>1, <1>2, <1>5 DEF WorkerType
  <2>2. Cardinality(page) <= PageLimit /\ \A m \in page : m > worker.cursor
    BY <1>2, Numbers, PageSize
  <2> HIDE DEF page
  <2>3. /\ NotAhead(stateFile.entries, worker.entries) /\ NoClaim(worker.entries)
        /\ Trails(worker.items, worker.entries) /\ SameCursors(stateFile.entries, worker.entries)
        /\ worker.cursor = worker.entries[worker.key].cursor
    BY <1>1, <1>2 DEF LockedInv, WorkerAhead
  <2> QED
    BY <1>1, <2>1, <2>2, <2>3 DEF WorkerAhead, NotAhead, NoClaim, Trails, SameCursors
<1> QED
  BY <1>4, <1>5

\* Steps that only change where the worker stands.
LEMMA MoveAhead ==
    ASSUME IInv, LockedInv, UNCHANGED stateFile, worker.pc \in {"pick", "fetch", "probe"},
           worker'.pc = "merge", worker'.then \in {"pick", "idle"},
           worker'.entries = worker.entries, worker'.items = worker.items
    PROVE  WorkerAhead(worker)'
<1>1. /\ NotAhead(stateFile.entries, worker.entries) /\ NoClaim(worker.entries)
      /\ Trails(worker.items, worker.entries)
  BY DEF LockedInv, WorkerAhead
<1> QED
  BY <1>1 DEF WorkerAhead, NotAhead, NoClaim, Trails, Reads

LEMMA FinishAhead ==
    ASSUME IInv, LockedInv, WorkerFinish \/ WorkerOutOfBudget
    PROVE  WorkerAhead(worker)'
<1>1. /\ worker.pc \in {"pick", "fetch"} /\ UNCHANGED stateFile /\ worker \in WorkerType
      /\ \E then \in {"pick", "idle"} : worker' = [worker EXCEPT !.pc = "merge", !.then = then]
  BY DEF WorkerFinish, WorkerOutOfBudget, storeVars, ledgerVars, IInv, TypeOK, WorkerTypeOK
<1>2. /\ worker'.pc = "merge" /\ worker'.then \in {"pick", "idle"}
      /\ worker'.entries = worker.entries /\ worker'.items = worker.items
  BY <1>1 DEF WorkerType
<1> QED
  BY <1>1, <1>2, MoveAhead

LEMMA ProbeAhead ==
    ASSUME IInv, LockedInv, WorkerProbe
    PROVE  WorkerAhead(worker)'
<1> DEFINE none    == Page(worker.key, worker.cursor, 1) = {}
           counted == [worker EXCEPT !.total = @ + 1]
<1>1. /\ worker.pc = "probe" /\ UNCHANGED stateFile
      /\ worker' = IF none THEN CaughtUp(counted) ELSE [counted EXCEPT !.pc = "merge", !.then = "pick"]
  BY DEF WorkerProbe, ledgerVars
<1>2. worker \in WorkerType /\ worker.key \in Keys /\ Reads(worker)
  BY <1>1 DEF IInv, TypeOK, WorkerTypeOK, CandidateHeld, Reads
<1>3. /\ counted \in WorkerType
      /\ counted.entries = worker.entries /\ counted.items = worker.items
      /\ counted.key = worker.key /\ counted.cursor = worker.cursor
  BY <1>2 DEF WorkerType
<1>4. CASE none
  <2> HIDE DEF counted, none
  <2>1. worker' = CaughtUp(counted)
    BY <1>1, <1>4
  <2> QED
    BY <1>1, <1>2, <1>3, <2>1, SettledAhead
<1>5. CASE ~none
  <2> HIDE DEF none
  <2>1. /\ worker'.pc = "merge" /\ worker'.then = "pick"
        /\ worker'.entries = worker.entries /\ worker'.items = worker.items
    BY <1>1, <1>2, <1>5 DEF WorkerType
  <2> QED
    BY <1>1, <2>1, MoveAhead
<1> QED
  BY <1>4, <1>5

LEMMA FailsAhead ==
    ASSUME IInv, LockedInv, UNCHANGED stateFile, Reads(worker), worker' = Failed(worker)
    PROVE  WorkerAhead(worker)'
BY SettledAhead, Numbers

\* A message appended lies within a page of the cursor on disk.
LEMMA AppendNear ==
    ASSUME IInv, LockedInv, worker.pc = "append", UNCHANGED <<posted, live, stateFile>>,
           NEW ids \in SUBSET worker.page,
           \A j \in Keys : RawIds(j)' = RawIds(j) \cup (IF j = worker.key THEN ids ELSE {})
    PROVE  RawNear' /\ RawPosted'
<1>1. /\ worker.key \in Keys /\ worker.page \in SUBSET Ids
      /\ worker.page \subseteq 1..posted[worker.key]
  BY PagePosted, WorkerShare
<1>2. /\ Cardinality(worker.page) <= PageLimit /\ \A m \in worker.page : m > worker.cursor
      /\ worker.cursor = stateFile.entries[worker.key].cursor
  BY <1>1 DEF LockedInv, WorkerAhead, SameCursors, Reads
<1>3. ASSUME NEW k \in Keys, NEW m \in RawIds(k)'
      PROVE  Cardinality(Between(k, stateFile.entries[k].cursor, m)) <= PageLimit
  <2>1. CASE m \in RawIds(k)
    BY <2>1 DEF LockedInv, RawNear
  <2>2. CASE m \in worker.page /\ k = worker.key
    <3>1. Between(k, stateFile.entries[k].cursor, m) \subseteq worker.page
      BY <1>1, <1>2, <2>2 DEF Between, IInv, PageComplete
    <3>2. /\ Cardinality(Between(k, stateFile.entries[k].cursor, m)) \in Nat
          /\ Cardinality(worker.page) \in Nat
          /\ Cardinality(Between(k, stateFile.entries[k].cursor, m)) <= Cardinality(worker.page)
      BY <1>1, <3>1, SomeIds
    <3> QED
      BY <1>2, <3>2
  <2> QED
    BY <1>3, <2>1, <2>2
<1>4. RawNear'
  BY <1>3 DEF RawNear, Between
<1>5. RawPosted'
  BY <1>1 DEF LockedInv, RawPosted
<1> QED
  BY <1>4, <1>5

\* The ids an append adds are some of its page.
LEMMA AppendAdds ==
    ASSUME StoreTypeOK, NEW k \in Keys, NEW page \in SUBSET Ids,
           AppendBatch(k, page) \/ AppendCutShort(k, page)
    PROVE  \E ids \in SUBSET page :
              \A j \in Keys : RawIds(j)' = RawIds(j) \cup (IF j = k THEN ids ELSE {})
<1>1. PICK ids \in SUBSET page : raw' = WithCopies(k, ids)
  <2>1. CASE AppendBatch(k, page)
    BY <2>1 DEF AppendBatch, Unarchived
  <2>2. CASE AppendCutShort(k, page)
    <3>1. PICK cut \in Cursor : raw' = WithCopies(k, {m \in Unarchived(k, page) : m <= cut})
      BY <2>2 DEF AppendCutShort
    <3>2. {m \in Unarchived(k, page) : m <= cut} \in SUBSET page
      BY DEF Unarchived
    <3> QED
      BY <3>1, <3>2
  <2> QED
    BY <2>1, <2>2
<1>2. raw \in [Keys -> [Ids -> Nat]] /\ ids \in SUBSET Ids
  BY DEF StoreTypeOK
<1> QED
  BY <1>1, <1>2, WithCopiesFacts

\* A step of a worker that archives a page or a part of it.
LEMMA ArchiveStep ==
    ASSUME IInv, LockedInv, worker.pc = "append",
           UNCHANGED <<posted, live, stateFile, queueFile, audit, inventory>>,
           AppendBatch(worker.key, worker.page) \/ AppendCutShort(worker.key, worker.page),
           WorkerAhead(worker)'
    PROVE  LockedInv'
<1>1. StoreTypeOK /\ worker.key \in Keys /\ worker.page \in SUBSET Ids
  BY PagePosted, WorkerShare DEF IInv, TypeOK
<1>2. RawNear' /\ RawPosted'
  BY <1>1, AppendAdds, AppendNear
<1> QED
  BY <1>2 DEF LockedInv, LedgersReadable, NoClaim, QueueNeverAhead, DiscoveryAhead, NotAhead

LEMMA AdvancedAhead ==
    ASSUME IInv, LockedInv, WorkerAppend
    PROVE  WorkerAhead(worker)'
<1>1. PICK top \in worker.page : worker' = Advanced(worker, top)
  BY DEF WorkerAppend
<1>2. /\ worker.pc = "append" /\ UNCHANGED stateFile
      /\ worker \in WorkerType /\ worker.key \in Keys /\ worker.page \in SUBSET Ids
  BY PagePosted, WorkerShare DEF WorkerAppend, ledgerVars, IInv, TypeOK, WorkerTypeOK
<1>3. /\ NotAhead(stateFile.entries, worker.entries) /\ NoClaim(worker.entries)
      /\ Trails(worker.items, worker.entries)
      /\ worker.cursor = worker.entries[worker.key].cursor /\ top > worker.cursor
  BY <1>2 DEF LockedInv, WorkerAhead, Reads
<1>4. top \in Cursor /\ top \in Nat
  BY <1>2 DEF Ids, Cursor
<1>5. /\ worker'.pc = "merge" /\ worker'.key = worker.key /\ worker'.cursor = top
      /\ \A k \in Keys : worker'.entries[k].cursor = IF k = worker.key THEN top ELSE worker.entries[k].cursor
      /\ \A k \in Keys : worker'.items[k].cursor = IF k = worker.key THEN top ELSE worker.items[k].cursor
  BY <1>1, <1>2, <1>4, AdvancedFacts
<1>6. \A k \in Keys : worker'.entries[k] = worker.entries[k] \/ (k = worker.key /\ Registered(worker'.entries[k]))
  <2>1. worker'.entries = [worker.entries EXCEPT ![worker.key] =
            [@ EXCEPT !.cursor = top, !.status = "partial", !.reason = ReasonAfterPage(worker)]]
    BY <1>1, <1>2 DEF Advanced, WorkerType
  <2>2. worker.entries \in [Keys -> Entry]
    BY <1>2 DEF WorkerType, Entries
  <2>3. worker'.entries[worker.key].status = "partial"
    BY <1>2, <2>1, <2>2 DEF Entry
  <2>4. \A k \in Keys \ {worker.key} : worker'.entries[k] = worker.entries[k]
    BY <2>1, <2>2
  <2> QED
    BY <2>3, <2>4 DEF Registered
<1>7. NotAhead(stateFile.entries, worker'.entries)
  BY <1>2, <1>3, <1>4, <1>5, <1>6, Numbers DEF NotAhead
<1>8. NoClaim(worker'.entries) /\ Trails(worker'.items, worker'.entries)
  BY <1>3, <1>4, <1>5, <1>6 DEF NoClaim, Trails
<1> QED
  BY <1>2, <1>5, <1>7, <1>8 DEF WorkerAhead, NotAhead, NoClaim, Trails, Reads

-----------------------------------------------------------------------------
(* The saves.                                                              *)

\* A state ledger that takes nothing back may replace the one on disk.
LEMMA SaveNear ==
    ASSUME IInv, LockedInv, UNCHANGED <<posted, live, raw>>, NEW entries \in [Keys -> Entry],
           stateFile' = [ok |-> TRUE, entries |-> entries], NotAhead(stateFile.entries, entries)
    PROVE  RawNear' /\ RawPosted'
<1>1. ASSUME NEW k \in Keys, NEW m \in RawIds(k)
      PROVE  Cardinality(Between(k, entries[k].cursor, m)) <= PageLimit
  <2>1. /\ stateFile.entries[k].cursor \in Nat /\ entries[k].cursor \in Nat
        /\ stateFile.entries[k].cursor <= entries[k].cursor
        /\ live[k] \in SUBSET Ids
    BY Numbers DEF NotAhead, Entry, Cursor
  <2>2. /\ Between(k, entries[k].cursor, m) \subseteq Between(k, stateFile.entries[k].cursor, m)
        /\ Between(k, stateFile.entries[k].cursor, m) \in SUBSET Ids
    BY <2>1 DEF Between, Ids
  <2>3. Cardinality(Between(k, stateFile.entries[k].cursor, m)) <= PageLimit
    BY DEF LockedInv, RawNear
  <2>4. /\ Cardinality(Between(k, entries[k].cursor, m)) <= Cardinality(Between(k, stateFile.entries[k].cursor, m))
        /\ Cardinality(Between(k, entries[k].cursor, m)) \in Nat
        /\ Cardinality(Between(k, stateFile.entries[k].cursor, m)) \in Nat
    BY <2>2, SomeIds
  <2> QED
    BY <2>3, <2>4
<1> QED
  BY <1>1 DEF LockedInv, RawNear, RawPosted, RawIds, Between

LEMMA ReplaceStateKeeps ==
    ASSUME IInv, LockedInv, WorkerReplaceState, UNCHANGED <<audit, inventory>>
    PROVE  LockedInv'
<1>1. /\ stateFile' = [ok |-> TRUE, entries |-> worker.entries] /\ worker.pc = "replace"
      /\ worker' = [worker EXCEPT !.pc = "queue"]
      /\ UNCHANGED <<posted, live, raw, queueFile>>
      /\ worker \in WorkerType /\ worker.entries \in [Keys -> Entry]
  BY DEF WorkerReplaceState, discordVars, archiveVars, IInv, TypeOK, WorkerTypeOK, WorkerType, Entries
<1>2. /\ NotAhead(stateFile.entries, worker.entries) /\ NoClaim(worker.entries)
      /\ Trails(worker.items, worker.entries)
      /\ Reads(worker) => worker.cursor = worker.entries[worker.key].cursor
  BY <1>1 DEF LockedInv, WorkerAhead
<1>3. RawNear' /\ RawPosted'
  BY <1>1, <1>2, SaveNear
<1>4. QueueNeverAhead'
  <2>1. ASSUME NEW k \in Keys PROVE queueFile.items[k].cursor <= worker.entries[k].cursor
    <3>1. /\ queueFile.items[k].cursor <= stateFile.entries[k].cursor
          /\ stateFile.entries[k].cursor <= worker.entries[k].cursor
      BY <1>2 DEF LockedInv, QueueNeverAhead, NotAhead
    <3> QED
      BY <3>1, Numbers
  <2> QED
    BY <1>1, <2>1 DEF QueueNeverAhead
<1>5. /\ worker'.pc = "queue" /\ worker'.then = worker.then /\ worker'.entries = worker.entries
      /\ worker'.items = worker.items /\ worker'.key = worker.key /\ worker'.cursor = worker.cursor
  BY <1>1 DEF WorkerType
<1>6. WorkerAhead(worker)'
  <2>1. NotAhead(worker.entries, worker.entries)
    BY Numbers DEF NotAhead
  <2> QED
    BY <1>1, <1>2, <1>5, <2>1 DEF WorkerAhead, NotAhead, NoClaim, Trails, SameCursors, Reads
<1>7. DiscoveryAhead'
  BY <1>1 DEF DiscoveryAhead, IInv, LockHeld
<1> QED
  BY <1>1, <1>2, <1>3, <1>4, <1>6, <1>7 DEF LockedInv, LedgersReadable, NoClaim

LEMMA ReplaceQueueKeeps ==
    ASSUME IInv, LockedInv, WorkerReplaceQueue, UNCHANGED <<audit, inventory>>
    PROVE  LockedInv'
<1>1. /\ queueFile' = [ok |-> TRUE, items |-> worker.items] /\ worker.pc = "queue"
      /\ UNCHANGED <<posted, live, raw, stateFile>> /\ worker \in WorkerType
      /\ worker' \in {IdleWorker, [worker EXCEPT !.pc = worker.then]}
      /\ worker.then \in {"fetch", "probe", "pick", "idle"}
  BY DEF WorkerReplaceQueue, discordVars, archiveVars, IInv, TypeOK, WorkerTypeOK, WorkerType, AfterSave
<1>2. /\ NotAhead(stateFile.entries, worker.entries) /\ NoClaim(worker.entries)
      /\ Trails(worker.items, worker.entries) /\ SameCursors(stateFile.entries, worker.entries)
      /\ Reads(worker) => worker.cursor = worker.entries[worker.key].cursor
  BY <1>1 DEF LockedInv, WorkerAhead
<1>3. QueueNeverAhead'
  BY <1>1, <1>2 DEF QueueNeverAhead, Trails, SameCursors
<1>4. WorkerAhead(worker)'
  <2>1. CASE worker' = IdleWorker
    BY <2>1 DEF IdleWorker, WorkerAhead
  <2>2. CASE worker' = [worker EXCEPT !.pc = worker.then]
    <3>1. /\ worker'.pc = worker.then /\ worker'.entries = worker.entries
          /\ worker'.items = worker.items /\ worker'.key = worker.key /\ worker'.cursor = worker.cursor
      BY <1>1, <2>2 DEF WorkerType
    <3>2. Reads(worker)' => Reads(worker)
      BY <1>1, <3>1 DEF Reads
    <3> QED
      BY <1>1, <1>2, <3>1, <3>2 DEF WorkerAhead, NotAhead, NoClaim, Trails, SameCursors
  <2> QED
    BY <1>1, <2>1, <2>2
<1> QED
  BY <1>1, <1>3, <1>4 DEF LockedInv, LedgersReadable, NoClaim, RawPosted, RawNear, RawIds, Between,
                          DiscoveryAhead, NotAhead

LEMMA WorkerKeepsLocked ==
    ASSUME IInv, LockedInv, WorkerNext, UNCHANGED <<audit, inventory>>
    PROVE  LockedInv'
<1>1. CASE WorkerStart \/ WorkerPrepare \/ WorkerPick \/ WorkerMerge \/ WorkerFetch
           \/ WorkerFinish \/ WorkerOutOfBudget \/ WorkerProbe
  <2>1. WorkerAhead(worker)'
    BY <1>1, StartAhead, PrepareAhead, PickAhead, MergeAhead, FetchAhead, FinishAhead, ProbeAhead
  <2>2. UNCHANGED <<posted, live, raw, stateFile, queueFile>>
    BY <1>1 DEF WorkerStart, WorkerPrepare, WorkerPick, WorkerMerge, WorkerFetch, WorkerFinish,
                WorkerOutOfBudget, WorkerProbe, storeVars, discordVars, archiveVars, ledgerVars
  <2> QED
    BY <2>1, <2>2, LocalStep
<1>2. CASE WorkerFetchFails \/ WorkerProbeFails \/ WorkerSaveFails
  <2>1. /\ UNCHANGED <<posted, live, raw, stateFile, queueFile>>
        /\ Reads(worker) /\ worker' = Failed(worker)
    BY <1>2 DEF WorkerFetchFails, WorkerProbeFails, WorkerSaveFails, Reads, discordVars, archiveVars,
                ledgerVars
  <2> QED
    BY <2>1, FailsAhead, LocalStep
<1>3. CASE WorkerFatal \/ (WorkerKilled /\ worker.pc # "append")
  <2>1. UNCHANGED <<posted, live, raw, stateFile, queueFile>> /\ worker'.pc = "idle"
    BY <1>3 DEF WorkerFatal, WorkerKilled, IdleWorker, discordVars, archiveVars, ledgerVars
  <2> QED
    BY <2>1, LocalStep DEF WorkerAhead
<1>4. CASE WorkerKilled /\ worker.pc = "append"
  <2>1. /\ UNCHANGED <<posted, live, stateFile, queueFile>> /\ worker'.pc = "idle"
        /\ AppendCutShort(worker.key, worker.page)
    BY <1>4 DEF WorkerKilled, IdleWorker, discordVars, ledgerVars
  <2> QED
    BY <1>4, <2>1, ArchiveStep DEF WorkerAhead
<1>5. CASE WorkerAppendFails
  <2>1. /\ UNCHANGED <<posted, live, stateFile, queueFile>> /\ worker.pc = "append"
        /\ Reads(worker) /\ worker' = Failed(worker) /\ AppendCutShort(worker.key, worker.page)
    BY <1>5 DEF WorkerAppendFails, Reads, discordVars, ledgerVars
  <2> QED
    BY <2>1, FailsAhead, ArchiveStep
<1>6. CASE WorkerAppend
  <2>1. /\ UNCHANGED <<posted, live, stateFile, queueFile>> /\ worker.pc = "append"
        /\ AppendBatch(worker.key, worker.page)
    BY <1>6 DEF WorkerAppend, discordVars, ledgerVars
  <2> QED
    BY <1>6, <2>1, AdvancedAhead, ArchiveStep
<1> QED
  BY <1>1, <1>2, <1>3, <1>4, <1>5, <1>6, ReplaceStateKeeps, ReplaceQueueKeeps DEF WorkerNext, WorkerStep

-----------------------------------------------------------------------------
(* The discovery and Discord.                                              *)

LEMMA RegisterAhead ==
    ASSUME NEW entries \in [Keys -> Entry], NEW missing, NoClaim(entries)
    PROVE  /\ NotAhead(entries, RegisterMissing(entries, missing))
           /\ NoClaim(RegisterMissing(entries, missing))
<1>1. ASSUME NEW k \in Keys
      PROVE  LET e == RegisterMissing(entries, missing)[k]
             IN  e = entries[k] \/ (~Registered(entries[k]) /\ e = FreshEntry)
  BY DEF RegisterMissing
<1>2. Registered(FreshEntry) /\ FreshEntry.cursor = 0
  BY DEF FreshEntry, NoEntry, Registered
<1>3. \A k \in Keys : entries[k].cursor \in Nat
  BY DEF Entry, Cursor
<1> QED
  BY <1>1, <1>2, <1>3 DEF NotAhead, NoClaim

LEMMA DiscoveryKeepsLocked ==
    ASSUME IInv, LockedInv, InventoryNext, UNCHANGED <<worker, audit>>
    PROVE  LockedInv'
<1>1. CASE InventoryReplace
  <2>1. /\ stateFile' = [ok |-> TRUE, entries |-> inventory.entries] /\ inventory.pc = "replace"
        /\ inventory'.pc = "idle" /\ UNCHANGED <<posted, live, raw, queueFile>>
        /\ inventory.entries \in [Keys -> Entry]
    BY <1>1 DEF InventoryReplace, IdleInventory, discordVars, archiveVars, IInv, TypeOK, InventoryTypeOK,
                InventoryType, Entries
  <2>2. NotAhead(stateFile.entries, inventory.entries) /\ NoClaim(inventory.entries)
    BY <2>1 DEF LockedInv, DiscoveryAhead
  <2>3. RawNear' /\ RawPosted'
    BY <2>1, <2>2, SaveNear
  <2>4. QueueNeverAhead'
    <3>1. ASSUME NEW k \in Keys PROVE queueFile.items[k].cursor <= inventory.entries[k].cursor
      <4>1. /\ queueFile.items[k].cursor <= stateFile.entries[k].cursor
            /\ stateFile.entries[k].cursor <= inventory.entries[k].cursor
        BY <2>2 DEF LockedInv, QueueNeverAhead, NotAhead
      <4> QED
        BY <4>1, Numbers
    <3> QED
      BY <2>1, <3>1 DEF QueueNeverAhead
  <2>5. WorkerAhead(worker)'
    BY <2>1 DEF WorkerAhead, IInv, LockHeld
  <2> QED
    BY <2>1, <2>2, <2>3, <2>4, <2>5 DEF LockedInv, LedgersReadable, NoClaim, DiscoveryAhead
<1>2. CASE InventoryObserve \/ InventoryRegister \/ InventoryGivesUp \/ InventoryKilled
  <2>1. UNCHANGED <<posted, live, raw, stateFile, queueFile>>
    BY <1>2 DEF InventoryObserve, InventoryRegister, InventoryGivesUp, InventoryKilled, storeVars,
                discordVars, archiveVars, ledgerVars
  <2>2. DiscoveryAhead'
    <3>1. CASE InventoryRegister
      <4>1. inventory'.entries = RegisterMissing(stateFile.entries, inventory.missing)
        BY <3>1 DEF InventoryRegister, IInv, TypeOK, InventoryTypeOK, InventoryType
      <4>2. stateFile.entries \in [Keys -> Entry] /\ NoClaim(stateFile.entries)
        BY DEF IInv, TypeOK, StoreTypeOK, StateFiles, Entries, LockedInv
      <4> QED
        BY <2>1, <4>1, <4>2, RegisterAhead DEF DiscoveryAhead, NotAhead, NoClaim
    <3>2. CASE InventoryObserve \/ InventoryGivesUp \/ InventoryKilled
      <4>1. IdleInventory.pc = "idle" /\ DOMAIN IdleInventory = {"pc", "missing", "entries"}
        BY DEF IdleInventory
      <4> HIDE DEF IdleInventory
      <4>2. ASSUME InventoryObserve PROVE inventory'.pc = "apply"
        BY <4>1, <4>2, Zenon DEF InventoryObserve
      <4>3. inventory'.pc # "replace"
        BY <3>2, <4>1, <4>2 DEF InventoryGivesUp, InventoryKilled
      <4> QED
        BY <4>3 DEF DiscoveryAhead
    <3> QED
      BY <1>2, <3>1, <3>2
  <2>3. WorkerAhead(worker)'
    BY <2>1 DEF LockedInv, WorkerAhead, NotAhead, NoClaim, Trails, SameCursors, Reads
  <2> QED
    BY <2>1, <2>2, <2>3 DEF LockedInv, LedgersReadable, NoClaim, QueueNeverAhead, RawPosted, RawNear, RawIds,
                            Between
<1> QED
  BY <1>1, <1>2 DEF InventoryNext, InventoryStep

\* New messages are beyond everything in raw, and a deletion leaves fewer between.
LEMMA DiscordKeepsLocked ==
    ASSUME IInv, LockedInv, Environment, UNCHANGED <<worker, audit, inventory>>
    PROVE  LockedInv'
<1>1. WorkerSide' /\ HistoryKept /\ UNCHANGED <<raw, stateFile, queueFile, archiveVars>>
  BY WorkerShare, EnvironmentKeeps DEF archiveVars, ledgerVars
<1>2. RawPosted'
  BY <1>1, WorkerShare, EnvironmentRawPosted DEF LockedInv, WorkerSide, StoreTypeOK
<1>3. ASSUME NEW k \in Keys, NEW m \in RawIds(k), NEW c \in Nat
      PROVE  Between(k, c, m)' \subseteq Between(k, c, m)
  <2>1. m \in 1..posted[k] /\ posted[k] \in Nat
    BY Numbers DEF LockedInv, RawPosted, Cursor
  <2>2. ASSUME NEW j \in live'[k], j <= m PROVE j \in live[k]
    <3>1. CASE \E i \in Keys : Post(i)
      <4>1. PICK i \in Keys : Post(i)
        BY <3>1
      <4>2. live' = [live EXCEPT ![i] = @ \cup {posted[i] + 1}]
        BY <4>1 DEF Post
      <4>3. j # posted[k] + 1
        BY <2>1, <2>2
      <4> QED
        BY <2>2, <4>2, <4>3, Numbers
    <3>2. CASE \E i \in Keys : Delete(i)
      <4>1. PICK i \in Keys : Delete(i)
        BY <3>2
      <4>2. PICK d \in live[i] : live' = [live EXCEPT ![i] = @ \ {d}]
        BY <4>1 DEF Delete
      <4> QED
        BY <2>2, <4>2, Numbers
    <3>3. CASE NextDay
      BY <2>2, <3>3 DEF NextDay
    <3> QED
      BY <3>1, <3>2, <3>3 DEF Environment
  <2> QED
    BY <2>2 DEF Between
<1>4. RawNear'
  <2>1. ASSUME NEW k \in Keys, NEW m \in RawIds(k)
        PROVE  Cardinality(Between(k, stateFile.entries[k].cursor, m)') <= PageLimit
    <3>1. PICK c \in Nat : c = stateFile.entries[k].cursor
      BY Numbers
    <3>2. c = stateFile'.entries[k].cursor
      BY <1>1, <3>1
    <3>3. Between(k, c, m)' \subseteq Between(k, c, m)
      BY <1>3
    <3>4. Between(k, c, m) \in SUBSET Ids
      BY Numbers DEF Between
    <3>5. Cardinality(Between(k, c, m)) <= PageLimit
      BY <3>1 DEF LockedInv, RawNear
    <3>6. /\ Cardinality(Between(k, c, m)') <= Cardinality(Between(k, c, m))
          /\ Cardinality(Between(k, c, m)') \in Nat /\ Cardinality(Between(k, c, m)) \in Nat
      BY <3>3, <3>4, SomeIds
    <3>7. Cardinality(Between(k, c, m)') <= PageLimit
      BY <3>5, <3>6
    <3>8. Between(k, c, m)' = Between(k, stateFile.entries[k].cursor, m)'
      BY <3>2
    <3> QED
      BY <3>7, <3>8
  <2> QED
    BY <1>1, <2>1 DEF RawNear, RawIds, Between
<1>5. WorkerAhead(worker)' /\ DiscoveryAhead'
  BY <1>1 DEF LockedInv, WorkerAhead, NotAhead, NoClaim, Trails, SameCursors, Reads, DiscoveryAhead
<1> QED
  BY <1>1, <1>2, <1>4, <1>5 DEF LockedInv, LedgersReadable, NoClaim, QueueNeverAhead

-----------------------------------------------------------------------------
LEMMA InitLocked == Init => LockedInv
<1> SUFFICES ASSUME Init PROVE LockedInv
  OBVIOUS
<1>1. \A k \in Keys : InitEntry(k).cursor = 0 /\ InitItem(k).cursor = 0
  BY DEF InitEntry, InitItem, NoEntry, FreshEntry, NoItem
<1>2. \A k \in Keys : stateFile.entries[k].cursor = 0 /\ queueFile.items[k].cursor = 0
  BY <1>1 DEF Init, StoreInit
<1>3. \A k \in Keys : RawIds(k) = {}
  BY DEF Init, StoreInit, RawIds
<1> QED
  BY <1>2, <1>3
     DEF Init, StoreInit, WorkerInit, AuditInit, InventoryInit, IdleWorker, IdleInventory, LockedInv,
         LedgersReadable, NoClaim, QueueNeverAhead, RawPosted, RawNear, WorkerAhead, DiscoveryAhead

\* Where the audit is not scheduled.
NoAudit == "audit" \notin Scheduled

LEMMA NextLocked ==
    ASSUME NoAudit, IInv, LockedInv, [Next]_vars
    PROVE  LockedInv'
<1>1. CASE UNCHANGED vars
  <2>1. /\ UNCHANGED <<posted, live, raw, stateFile, queueFile, audit, inventory, worker>>
    BY <1>1 DEF vars, storeVars, discordVars, archiveVars, ledgerVars
  <2>2. WorkerAhead(worker)'
    BY <2>1 DEF LockedInv, WorkerAhead, NotAhead, NoClaim, Trails, SameCursors, Reads
  <2> QED
    BY <2>1, <2>2, LocalStep
<1> QED
  BY <1>1, WorkerKeepsLocked, DiscoveryKeepsLocked, DiscordKeepsLocked DEF Next, NoAudit

LEMMA AlwaysLocked == Spec => [](NoAudit => LockedInv)
<1>1. Init => (NoAudit => LockedInv)
  BY InitLocked
<1>2. IInv /\ (NoAudit => LockedInv) /\ [Next]_vars => (NoAudit => LockedInv)'
  BY NextLocked DEF NoAudit
<1> QED
  BY <1>1, <1>2, Invariance, PTL DEF Spec

LEMMA FewReadAgain ==
    ASSUME IInv, LockedInv
    PROVE  ReplayInv
<1>1. ASSUME NEW k \in Keys
      PROVE  Cardinality({m \in live[k] \cap RawIds(k) : m > stateFile.entries[k].cursor}) <= PageLimit
  <2> DEFINE c == stateFile.entries[k].cursor
             again == {m \in live[k] \cap RawIds(k) : m > c}
  <2>1. again \in SUBSET Ids /\ again \in SUBSET (0..MaxMsg)
    BY DEF RawIds, Ids
  <2>2. CASE again = {}
    BY <2>2, FS_EmptySet
  <2>3. CASE again # {}
    <3>1. PICK top \in again : \A m \in again : m <= top
      <4> HIDE DEF again
      <4> QED
        BY <2>1, <2>3, GreatestOf
    <3>2. again \subseteq Between(k, c, top) /\ Between(k, c, top) \in SUBSET Ids
      BY <3>1, Numbers DEF Between, Ids
    <3>3. Cardinality(Between(k, c, top)) <= PageLimit
      BY <3>1 DEF LockedInv, RawNear
    <3>4. Cardinality(again) <= Cardinality(Between(k, c, top)) /\ Cardinality(again) \in Nat
          /\ Cardinality(Between(k, c, top)) \in Nat
      <4> HIDE DEF again
      <4> QED
        BY <3>2, SomeIds
    <3> HIDE DEF again
    <3>5. Cardinality(again) <= PageLimit
      BY <3>3, <3>4
    <3> QED
      BY <3>5 DEF again
  <2> QED
    BY <2>2, <2>3
<1> QED
  BY <1>1 DEF LockedInv, ReplayInv, ReplayBounded

\* Where all jobs that write the ledgers take the lock: after a kill at most a
\* page is read again, and the queue on disk never points past the state.
THEOREM LittleReadAgain == Spec => [](NoAudit => ReplayInv)
<1>1. IInv /\ (NoAudit => LockedInv) => (NoAudit => ReplayInv)
  BY FewReadAgain
<1> QED
  BY <1>1, AlwaysLocked, Invariance, PTL

LEMMA StepForward ==
    ASSUME NoAudit, IInv, LockedInv, [Next]_vars, NEW k \in Keys
    PROVE  /\ stateFile'.entries[k].cursor >= stateFile.entries[k].cursor
           /\ Registered(stateFile.entries[k]) => Registered(stateFile'.entries[k])
<1>1. CASE UNCHANGED stateFile
  BY <1>1, Numbers
<1>2. CASE WorkerReplaceState
  <2>1. stateFile'.entries = worker.entries /\ NotAhead(stateFile.entries, worker.entries)
    BY <1>2 DEF WorkerReplaceState, LockedInv, WorkerAhead
  <2> QED
    BY <2>1, Numbers DEF NotAhead
<1>3. CASE InventoryReplace
  <2>1. stateFile'.entries = inventory.entries /\ NotAhead(stateFile.entries, inventory.entries)
    BY <1>3 DEF InventoryReplace, LockedInv, DiscoveryAhead
  <2> QED
    BY <2>1, Numbers DEF NotAhead
<1>4. CASE UNCHANGED vars \/ Environment
  <2>1. UNCHANGED stateFile
    BY <1>4 DEF vars, storeVars, ledgerVars, Environment, Post, Delete, NextDay
  <2> QED
    BY <1>1, <2>1
<1>5. CASE WorkerNext /\ ~WorkerReplaceState
  <2>1. UNCHANGED stateFile
    BY <1>5 DEF WorkerNext, WorkerStep, WorkerStart, WorkerPrepare, WorkerFatal, WorkerPick, WorkerFinish,
                WorkerMerge, WorkerReplaceQueue, WorkerOutOfBudget, WorkerFetch, WorkerFetchFails,
                WorkerAppend, WorkerAppendFails, WorkerSaveFails, WorkerProbe, WorkerProbeFails,
                WorkerKilled, storeVars, ledgerVars
  <2> QED
    BY <1>1, <2>1
<1>6. CASE InventoryNext /\ ~InventoryReplace
  <2>1. UNCHANGED stateFile
    BY <1>6 DEF InventoryNext, InventoryStep, InventoryObserve, InventoryRegister, InventoryGivesUp,
                InventoryKilled, storeVars, ledgerVars
  <2> QED
    BY <1>1, <2>1
<1> QED
  BY <1>2, <1>3, <1>4, <1>5, <1>6 DEF Next, NoAudit

\* Between such jobs no cursor of the state ledger moves back and no entry
\* disappears, whatever is killed.
THEOREM NothingTakenBack ==
    ASSUME NoAudit
    PROVE  Spec => StateMonotonic
<1>1. IInv /\ (NoAudit => LockedInv) /\ [Next]_vars =>
        [\A k \in Keys :
          /\ stateFile'.entries[k].cursor >= stateFile.entries[k].cursor
          /\ Registered(stateFile.entries[k]) => Registered(stateFile'.entries[k])]_vars
  BY StepForward
<1> QED
  BY <1>1, AlwaysLocked, Invariance, PTL DEF Spec, StateMonotonic

-----------------------------------------------------------------------------
(* What an operator excluded stays excluded in every readable copy of the  *)
(* state, its work stays dormant in every process, and no process has it   *)
(* on its list.                                                            *)

Out(entries) == \A k \in ExcludedKeys : IsExcluded(entries[k])
Dormant(items) == \A k \in ExcludedKeys : items[k].status \notin ActiveStatus
Omits(S) == S \cap ExcludedKeys = {}

WorkerOmits(w) ==
    /\ Dormant(w.items) /\ w.key \notin ExcludedKeys
    /\ \A p \in 1..4 : Omits(w.plan[p])
    /\ w.pc # "idle" => Out(w.entries)

AuditOmits(a) ==
    /\ Dormant(a.items) /\ Omits(a.left) /\ Omits(a.found)
    /\ a.pc # "idle" => Out(a.entries)

StateOut ==
    /\ Out(stateFile.entries)
    /\ \A i \in 1..BakKeep : stateBaks[i].ok => Out(stateBaks[i].entries)

OmitInv ==
    /\ StateOut /\ WorkerOmits(worker) /\ AuditOmits(audit)
    /\ inventory.pc = "replace" => Out(inventory.entries)

\* What the types say of excluded keys.
LEMMA ExcludedTypes ==
    ASSUME IInv
    PROVE  /\ stateFile.entries \in [Keys -> Entry] /\ queueFile.items \in [Keys -> Item]
           /\ worker \in WorkerType /\ audit \in AuditType /\ inventory \in InventoryType
           /\ stateBaks \in [1..BakKeep -> StateFiles] /\ queueBaks \in [1..BakKeep -> QueueFiles]
  BY DEF IInv, TypeOK, StoreTypeOK, StateFiles, QueueFiles, Entries, Items, WorkerTypeOK,
         AuditTypeOK, InventoryTypeOK

-----------------------------------------------------------------------------
(* The selection leaves excluded keys where they are.                      *)

SameDormant(items, new) == \A k \in ExcludedKeys : new[k].status = items[k].status

LEMMA MarkedDormant ==
    ASSUME NEW entries, NEW items, NEW marked, Omits(marked)
    PROVE  SameDormant(items, QueueMarked(entries, items, marked))
<1>1. ASSUME NEW k \in ExcludedKeys
      PROVE  QueueMarked(entries, items, marked)[k] = items[k]
  BY k \in Keys, k \notin marked DEF QueueMarked, Omits
<1> QED
  BY <1>1 DEF SameDormant

LEMMA ProbesDormant ==
    ASSUME NEW entries, NEW items, NEW boot, NEW stale, Omits(boot), Omits(stale)
    PROVE  SameDormant(items, QueueProbes(entries, items, boot, stale))
<1>1. ASSUME NEW k \in ExcludedKeys
      PROVE  QueueProbes(entries, items, boot, stale)[k] = items[k]
  BY k \in Keys, k \notin boot \cup stale DEF QueueProbes, Omits
<1> QED
  BY <1>1 DEF SameDormant

LEMMA ResumeDormant ==
    ASSUME NEW entries, NEW items, NEW chosen, Omits(chosen)
    PROVE  SameDormant(items, ResumeChosen(entries, items, chosen))
<1>1. ASSUME NEW k \in ExcludedKeys
      PROVE  ResumeChosen(entries, items, chosen)[k] = items[k]
  BY k \in Keys, k \notin chosen DEF ResumeChosen, Omits
<1> QED
  BY <1>1 DEF SameDormant

PlanOmits(items, chosen) ==
    SameDormant(items, chosen.items) /\ \A p \in 1..4 : Omits(chosen.plan[p])

LEMMA ChosenOmits ==
    ASSUME NEW entries, NEW items, NEW active, NEW partials, NEW boot, NEW stale,
           Omits(active), Omits(partials), Omits(boot), Omits(stale)
    PROVE  PlanOmits(items, Chosen(entries, items, active, partials, boot, stale))
<1> DEFINE probed == QueueProbes(entries, items, boot, stale)
           all    == active \cup partials \cup boot \cup stale
<1>1. SameDormant(items, probed)
  BY ProbesDormant
<1>2. Omits(all)
  BY DEF Omits
<1>3. SameDormant(probed, ResumeChosen(entries, probed, all))
  <2> HIDE DEF probed, all
  <2> QED
    BY <1>2, ResumeDormant
<1>4. \A p \in 1..4 : Omits(<<active, partials, boot, stale>>[p])
  OBVIOUS
<1> HIDE DEF probed
<1> QED
  BY <1>1, <1>3, <1>4 DEF PlanOmits, Chosen, SameDormant, probed

LEMMA SelectProbesOmits ==
    ASSUME NEW entries, NEW items, NEW active, NEW partials, NEW free, NEW today,
           Out(entries), Omits(active), Omits(partials)
    PROVE  PlanOmits(items, SelectProbes(entries, items, active, partials, free, today))
<1> DEFINE rank  == PoolRanks(3, entries, items)
           boot  == Bootstrap(entries, today) \ (active \cup partials)
           stale == StaleHealthy(entries, today) \ (active \cup partials)
           now   == FirstN(boot, BootstrapSlots(free, Cardinality(boot),
                                                Cardinality(stale)), rank)
           late  == FirstN(stale, StaleSlots(free, Cardinality(boot),
                                             Cardinality(stale)), rank)
<1>1. SelectProbes(entries, items, active, partials, free, today) =
         Chosen(entries, items, active, partials, now, late)
  BY DEF SelectProbes
<1>2. Omits(boot) /\ Omits(stale)
  BY DEF Omits, Out, Bootstrap, StaleHealthy, InScope, IsExcluded
<1>3. Omits(now) /\ Omits(late)
  BY <1>2 DEF FirstN, Omits
<1> HIDE DEF now, late
<1> QED
  BY <1>1, <1>3, ChosenOmits

LEMMA SelectPartialsOmits ==
    ASSUME NEW entries, NEW items, NEW active, NEW marked, NEW free, NEW today,
           Out(entries), Omits(active), Omits(marked)
    PROVE  PlanOmits(items, SelectPartials(entries, items, active, marked, free, today))
<1> DEFINE queued   == QueueMarked(entries, items, marked)
           partials == FirstN(marked, free, PoolRanks(2, entries, queued))
           probes   == SelectProbes(entries, queued, active, partials,
                                    free - Cardinality(partials), today)
<1>1. SelectPartials(entries, items, active, marked, free, today) = probes
  BY DEF SelectPartials
<1>2. SameDormant(items, queued)
  BY MarkedDormant
<1>3. PlanOmits(queued, probes)
  <2>1. Omits(partials)
    BY DEF FirstN, Omits
  <2> HIDE DEF queued, partials
  <2> QED
    BY <2>1, SelectProbesOmits
<1> HIDE DEF queued, probes
<1> QED
  BY <1>1, <1>2, <1>3 DEF PlanOmits, SameDormant

LEMMA SelectOmits ==
    ASSUME NEW entries, NEW items, NEW limit, NEW today, Out(entries)
    PROVE  PlanOmits(items, Select(entries, items, limit, today))
<1> DEFINE active == FirstN(ActiveWork(entries, items), limit,
                            PoolRanks(1, entries, items))
           free   == limit - Cardinality(active)
           marked == IF free = 0 THEN {} ELSE StateMarked(entries) \ active
<1>1. Select(entries, items, limit, today) =
         SelectPartials(entries, items, active, marked, free, today)
  BY DEF Select
<1>2. Omits(active) /\ Omits(StateMarked(entries))
  BY DEF FirstN, ActiveWork, StateMarked, Omits, Out, InScope, IsExcluded
<1>3. Omits(marked)
  BY <1>2 DEF Omits
<1> HIDE DEF active, free, marked
<1> QED
  BY <1>1, <1>2, <1>3, SelectPartialsOmits

\* Whatever queue the worker loads, excluded work is dormant in its copy.
LEMMA NormalizeDormant ==
    ASSUME NEW entries, NEW items, Out(entries)
    PROVE  Dormant(NormalizeQueueItems(items, entries))
<1>1. ASSUME NEW k \in ExcludedKeys
      PROVE  NormalizeItem(items[k], entries[k]).status \notin ActiveStatus
  <2>1. entries[k].status = "excluded" /\ IsExcluded(entries[k]) /\ Registered(entries[k])
    BY DEF Out, IsExcluded, Registered
  <2> QED
    BY <2>1 DEF NormalizeItem, ActiveStatus
<1> QED
  BY <1>1 DEF NormalizeQueueItems, Dormant

-----------------------------------------------------------------------------
(* The worker.                                                             *)

\* What a read or an append leaves of the candidate it was about.
LEMMA TouchOmits ==
    ASSUME NEW w \in WorkerType, w.pc # "idle", WorkerOmits(w), NEW top
    PROVE  /\ WorkerOmits(CaughtUp(w)) /\ WorkerOmits(Failed(w))
           /\ WorkerOmits(Advanced(w, top))
<1>1. /\ w.entries \in [Keys -> Entry] /\ w.items \in [Keys -> Item] /\ Out(w.entries)
      /\ w.key \notin ExcludedKeys /\ Dormant(w.items)
  BY DEF WorkerType, Entries, Items, WorkerOmits
<1>2. ASSUME NEW e, NEW i
      PROVE  Out([w.entries EXCEPT ![w.key] = e]) /\ Dormant([w.items EXCEPT ![w.key] = i])
  BY <1>1 DEF Out, Dormant
<1>3. WorkerOmits(CaughtUp(w))
  <2>1. PICK e, i : /\ CaughtUp(w).entries = [w.entries EXCEPT ![w.key] = e]
                    /\ CaughtUp(w).items = [w.items EXCEPT ![w.key] = i]
    BY DEF CaughtUp, WorkerType
  <2>2. CaughtUp(w).plan = w.plan /\ CaughtUp(w).key = w.key
    BY DEF CaughtUp, WorkerType
  <2> QED
    BY <1>2, <2>1, <2>2 DEF WorkerOmits
<1>4. WorkerOmits(Failed(w))
  <2>1. PICK e, i : /\ Failed(w).entries = [w.entries EXCEPT ![w.key] = e]
                    /\ Failed(w).items = [w.items EXCEPT ![w.key] = i]
    BY DEF Failed, WorkerType
  <2>2. Failed(w).plan = w.plan /\ Failed(w).key = w.key
    BY DEF Failed, WorkerType
  <2> QED
    BY <1>2, <2>1, <2>2 DEF WorkerOmits
<1>5. WorkerOmits(Advanced(w, top))
  <2>1. PICK e, i : /\ Advanced(w, top).entries = [w.entries EXCEPT ![w.key] = e]
                    /\ Advanced(w, top).items = [w.items EXCEPT ![w.key] = i]
    BY DEF Advanced, WorkerType
  <2>2. Advanced(w, top).plan = w.plan /\ Advanced(w, top).key = w.key
    BY DEF Advanced, WorkerType
  <2> QED
    BY <1>2, <2>1, <2>2 DEF WorkerOmits
<1> QED
  BY <1>3, <1>4, <1>5

\* A step that leaves the worker's lists and copies alone.
LEMMA SameOmits ==
    ASSUME NEW w, NEW v, WorkerOmits(w), w.pc # "idle",
           v.entries = w.entries, v.items = w.items, v.plan = w.plan, v.key = w.key
    PROVE  WorkerOmits(v)
  BY DEF WorkerOmits

LEMMA IdleOmits == WorkerOmits(IdleWorker) /\ \A runs : AuditOmits(IdleAudit(runs))
<1>1. ExcludedKeys \subseteq Keys /\ 0 \notin Keys
  BY DEF Keys
<1>2. Dormant(NoItems)
  BY <1>1 DEF Dormant, NoItems, NoItem, ActiveStatus
<1>3. /\ IdleWorker.items = NoItems /\ IdleWorker.key = 0 /\ IdleWorker.pc = "idle"
      /\ \A p \in 1..4 : IdleWorker.plan[p] = {}
  BY DEF IdleWorker, NoPlan
<1>4. ASSUME NEW runs
      PROVE  /\ IdleAudit(runs).items = NoItems /\ IdleAudit(runs).left = {}
             /\ IdleAudit(runs).found = {} /\ IdleAudit(runs).pc = "idle"
  BY DEF IdleAudit
<1> QED
  BY <1>1, <1>2, <1>3, <1>4 DEF WorkerOmits, AuditOmits, Omits

LEMMA WorkerStaysOut ==
    ASSUME IInv, OmitInv, WorkerNext
    PROVE  WorkerOmits(worker)'
<1>0. WorkerOmits(worker) /\ StateOut /\ worker \in WorkerType /\ stateFile.entries \in [Keys -> Entry]
  BY ExcludedTypes DEF OmitInv
<1> USE <1>0
<1>1. CASE WorkerStart
  <2>1. PICK source \in Readable(stateFile, stateBaks) :
          worker' = [IdleWorker EXCEPT !.pc = "prepare", !.today = day, !.entries = source.entries]
    BY <1>1 DEF WorkerStart
  <2>2. Out(source.entries)
    BY <1>0 DEF Readable, StateOut
  <2>3. /\ worker'.entries = source.entries /\ worker'.items = IdleWorker.items
        /\ worker'.plan = IdleWorker.plan /\ worker'.key = IdleWorker.key
    BY <2>1 DEF IdleWorker
  <2> QED
    BY <2>2, <2>3, IdleOmits DEF WorkerOmits
<1>2. CASE WorkerPrepare
  <2>1. PICK source \in Readable(queueFile, queueBaks) :
          \E items \in {NormalizeQueueItems(source.items, worker.entries)} :
          \E chosen \in {Select(worker.entries, items, MaxEntries, worker.today)} :
             worker' = [worker EXCEPT !.pc = "pick", !.items = chosen.items, !.plan = chosen.plan]
    BY <1>2 DEF WorkerPrepare
  <2> DEFINE items == NormalizeQueueItems(source.items, worker.entries)
             chosen == Select(worker.entries, items, MaxEntries, worker.today)
  <2>2. worker' = [worker EXCEPT !.pc = "pick", !.items = chosen.items, !.plan = chosen.plan]
    BY <2>1
  <2>3. worker.pc # "idle" /\ Out(worker.entries)
    BY <1>0, <1>2 DEF WorkerOmits, WorkerPrepare
  <2>4. Dormant(items)
    BY <2>3, NormalizeDormant
  <2> HIDE DEF items
  <2>5. PlanOmits(items, chosen)
    BY <2>3, SelectOmits
  <2> HIDE DEF chosen
  <2>6. /\ worker'.entries = worker.entries /\ worker'.items = chosen.items
        /\ worker'.plan = chosen.plan /\ worker'.key = worker.key
    BY <2>2 DEF WorkerType
  <2> QED
    BY <1>0, <2>3, <2>4, <2>5, <2>6 DEF WorkerOmits, PlanOmits, SameDormant, Dormant
<1>3. CASE WorkerFatal \/ WorkerKilled \/ (WorkerReplaceQueue /\ worker' = IdleWorker)
  BY <1>3, IdleOmits DEF WorkerFatal, WorkerKilled
<1>4. CASE WorkerPick
  <2>1. PICK p \in 1..4, k \in Keys :
          /\ NextCandidate(k, p)
          /\ LET start == StartCursor(worker, k)
             IN worker' = [worker EXCEPT
                    !.pc = "merge", !.then = "fetch",
                    !.plan[p] = @ \ {k},
                    !.key = k, !.cursor = start, !.batches = 0,
                    !.entries[k] = [@ EXCEPT !.status = "catching_up"],
                    !.items[k] = [@ EXCEPT !.status = "catching_up",
                                           !.cursor = start]]
    BY <1>4 DEF WorkerPick
  <2>2. k \notin ExcludedKeys /\ worker.pc # "idle"
    BY <1>0, <1>4, <2>1 DEF NextCandidate, WorkerOmits, Omits, WorkerPick
  <2>3. PICK e, i : /\ worker'.entries = [worker.entries EXCEPT ![k] = e]
                    /\ worker'.items = [worker.items EXCEPT ![k] = i]
                    /\ worker'.plan = [worker.plan EXCEPT ![p] = @ \ {k}] /\ worker'.key = k
    BY <2>1 DEF WorkerType
  <2>4. worker.entries \in [Keys -> Entry] /\ worker.items \in [Keys -> Item] /\ worker.plan \in Plans
    BY DEF WorkerType, Entries, Items
  <2>5. Out(worker'.entries) /\ Dormant(worker'.items)
    BY <1>0, <2>2, <2>3, <2>4 DEF WorkerOmits, Out, Dormant
  <2>6. \A q \in 1..4 : Omits(worker'.plan[q])
    BY <1>0, <2>3, <2>4 DEF WorkerOmits, Omits, Plans
  <2> QED
    BY <2>2, <2>3, <2>5, <2>6 DEF WorkerOmits
<1>5. CASE WorkerMerge
  <2>1. worker.pc # "idle" /\ Out(worker.entries)
    BY <1>0, <1>5 DEF WorkerMerge, WorkerOmits
  <2>2. Out(MergeDiskState(worker.entries, stateFile.entries))
    <3>1. ASSUME NEW k \in ExcludedKeys
          PROVE  IsExcluded(MergeEntry(worker.entries[k], stateFile.entries[k]))
      <4>1. /\ worker.entries[k] \in Entry /\ IsExcluded(worker.entries[k])
            /\ Registered(worker.entries[k])
        BY <2>1 DEF Out, WorkerType, Entries, IsExcluded, Registered
      <4> QED
        BY <4>1 DEF MergeEntry, IsExcluded, Entry
    <3> QED
      BY <3>1 DEF Out, MergeDiskState
  <2>3. /\ worker'.entries \in {worker.entries, MergeDiskState(worker.entries, stateFile.entries)}
        /\ worker'.items = worker.items /\ worker'.plan = worker.plan /\ worker'.key = worker.key
    BY <1>5 DEF WorkerMerge, WorkerType
  <2> QED
    BY <1>0, <2>1, <2>2, <2>3 DEF WorkerOmits
<1>6. CASE \/ WorkerFinish \/ WorkerOutOfBudget \/ WorkerReplaceState
           \/ WorkerReplaceQueue /\ worker' # IdleWorker
  <2>1. /\ worker'.entries = worker.entries /\ worker'.items = worker.items
        /\ worker'.plan = worker.plan /\ worker'.key = worker.key /\ worker.pc # "idle"
    BY <1>6 DEF WorkerFinish, WorkerOutOfBudget, WorkerReplaceState, WorkerReplaceQueue, WorkerType
  <2> QED
    BY <1>0, <2>1, SameOmits
<1>7. CASE WorkerFetch
  <2> DEFINE page == Page(worker.key, worker.cursor, PageLimit)
             counted == [worker EXCEPT !.total = @ + 1, !.batches = @ + 1]
  <2>1. worker.pc # "idle"
        /\ worker' = IF page = {} THEN CaughtUp(counted)
                     ELSE [counted EXCEPT !.pc = "append", !.page = page]
    BY <1>7 DEF WorkerFetch
  <2>2. counted \in WorkerType /\ counted.pc = worker.pc /\ WorkerOmits(counted)
    <3>0. worker.total + 1 \in Nat /\ worker.batches + 1 \in Nat
      BY DEF WorkerType
    <3>1. counted \in WorkerType
      BY <3>0 DEF WorkerType
    <3>2. /\ counted.pc = worker.pc /\ counted.entries = worker.entries
          /\ counted.items = worker.items /\ counted.plan = worker.plan /\ counted.key = worker.key
      BY DEF WorkerType
    <3> HIDE DEF counted
    <3> QED
      BY <1>0, <2>1, <3>1, <3>2, SameOmits
  <2>3. WorkerOmits(CaughtUp(counted))
    <3> HIDE DEF counted
    <3> QED
      BY <2>1, <2>2, TouchOmits
  <2>4. LET v == [counted EXCEPT !.pc = "append", !.page = page]
        IN  WorkerOmits(v)
    BY <1>0, <2>1 DEF WorkerOmits, WorkerType
  <2> QED
    BY <2>1, <2>3, <2>4
<1>8. CASE WorkerProbe
  <2> DEFINE counted == [worker EXCEPT !.total = @ + 1]
  <2>1. worker.pc # "idle"
        /\ worker' \in {CaughtUp(counted), [counted EXCEPT !.pc = "merge", !.then = "pick"]}
    BY <1>8 DEF WorkerProbe
  <2>2. counted \in WorkerType /\ counted.pc = worker.pc /\ WorkerOmits(counted)
    <3>1. counted \in WorkerType
      BY DEF WorkerType
    <3>2. /\ counted.pc = worker.pc /\ counted.entries = worker.entries
          /\ counted.items = worker.items /\ counted.plan = worker.plan /\ counted.key = worker.key
      BY DEF WorkerType
    <3> HIDE DEF counted
    <3> QED
      BY <1>0, <2>1, <3>1, <3>2, SameOmits
  <2>3. WorkerOmits(CaughtUp(counted))
    <3> HIDE DEF counted
    <3> QED
      BY <2>1, <2>2, TouchOmits
  <2>4. WorkerOmits([counted EXCEPT !.pc = "merge", !.then = "pick"])
    BY <1>0, <2>1 DEF WorkerOmits, WorkerType
  <2> QED
    BY <2>1, <2>3, <2>4
<1>9. CASE WorkerFetchFails \/ WorkerAppendFails \/ WorkerProbeFails \/ WorkerSaveFails
  BY <1>0, <1>9, TouchOmits DEF WorkerFetchFails, WorkerAppendFails, WorkerProbeFails, WorkerSaveFails
<1>10. CASE WorkerAppend
  BY <1>0, <1>10, TouchOmits DEF WorkerAppend
<1> QED
  BY <1>1, <1>2, <1>3, <1>4, <1>5, <1>6, <1>7, <1>8, <1>9, <1>10 DEF WorkerNext, WorkerStep

-----------------------------------------------------------------------------
(* The files and the other jobs.                                           *)

\* A rotation keeps copies of states only.
LEMMA RotateOut ==
    ASSUME StateOut
    PROVE  \A i \in 1..BakKeep :
              Rotate(stateBaks, stateFile)[i].ok => Out(Rotate(stateBaks, stateFile)[i].entries)
<1>1. ASSUME NEW i \in 1..BakKeep
      PROVE  \/ Rotate(stateBaks, stateFile)[i] = stateFile
             \/ \E j \in 1..BakKeep : Rotate(stateBaks, stateFile)[i] = stateBaks[j]
  <2>1. i = 1 \/ i - 1 \in 1..BakKeep
    OBVIOUS
  <2> QED
    BY <2>1 DEF Rotate
<1> QED
  BY <1>1 DEF StateOut

LEMMA WorkerKeepsStateOut ==
    ASSUME IInv, OmitInv, WorkerNext
    PROVE  StateOut'
<1>0. StateOut /\ WorkerOmits(worker)
  BY DEF OmitInv
<1>1. CASE WorkerReplaceState
  <2>1. /\ stateFile'.entries = worker.entries /\ stateBaks' = stateBaks /\ Out(worker.entries)
    BY <1>0, <1>1 DEF WorkerReplaceState, WorkerOmits
  <2> QED
    BY <1>0, <2>1 DEF StateOut
<1>2. CASE WorkerPrepare
  <2>1. stateFile' = stateFile /\ stateBaks' = Rotate(stateBaks, stateFile)
    BY <1>2 DEF WorkerPrepare
  <2> QED
    BY <1>0, <2>1, RotateOut DEF StateOut
<1>3. CASE ~WorkerReplaceState /\ ~WorkerPrepare
  <2>1. UNCHANGED <<stateFile, stateBaks>>
    BY <1>3 DEF WorkerNext, WorkerStep, WorkerStart, WorkerFatal, WorkerPick, WorkerFinish,
                WorkerMerge, WorkerReplaceQueue, WorkerOutOfBudget, WorkerFetch, WorkerFetchFails,
                WorkerAppend, WorkerAppendFails, WorkerSaveFails, WorkerProbe, WorkerProbeFails,
                WorkerKilled, storeVars, ledgerVars
  <2> QED
    BY <1>0, <2>1 DEF StateOut
<1> QED
  BY <1>1, <1>2, <1>3

LEMMA AuditKeepsOut ==
    ASSUME IInv, OmitInv, AuditNext
    PROVE  AuditOmits(audit)' /\ StateOut'
<1>0. /\ StateOut /\ AuditOmits(audit) /\ audit \in AuditType
      /\ audit.entries \in [Keys -> Entry] /\ audit.items \in [Keys -> Item]
  BY ExcludedTypes DEF OmitInv, AuditType, Entries, Items
<1>1. AuditOmits(audit)'
  <2>1. CASE AuditStart
    <3>1. /\ audit'.entries = stateFile.entries /\ audit'.items = IdleAudit(0).items
          /\ audit'.left = {} /\ audit'.found = {}
      BY <2>1 DEF AuditStart, IdleAudit
    <3> QED
      BY <1>0, <3>1, IdleOmits DEF AuditOmits, StateOut, Omits
  <2>2. CASE AuditLoadQueue /\ queueFile.ok
    <3>1. /\ audit'.entries = audit.entries /\ audit'.found = audit.found
          /\ audit'.items = InvalidateExcluded(queueFile.items, audit.entries)
          /\ audit'.left = {k \in Keys : InScope(audit.entries[k]) /\ audit.entries[k].cursor # 0}
          /\ Out(audit.entries)
      BY <1>0, <2>2 DEF AuditLoadQueue, AuditType, AuditOmits
    <3>2. Omits(audit'.left)
      BY <3>1 DEF Omits, Out, InScope, IsExcluded
    <3>3. ASSUME NEW k \in ExcludedKeys
          PROVE  InvalidateExcluded(queueFile.items, audit.entries)[k].status \notin ActiveStatus
      <4>1. k \in Keys /\ IsExcluded(audit.entries[k]) /\ queueFile.items[k] \in Item
        BY <3>1, ExcludedTypes DEF Out
      <4> QED
        BY <4>1 DEF InvalidateExcluded, ActiveStatus, Item
    <3> QED
      BY <1>0, <3>1, <3>2, <3>3 DEF AuditOmits, Dormant
  <2>3. CASE AuditProbe
    <3>1. PICK k \in audit.left : audit'.found \in {audit.found, audit.found \cup {k}}
      BY <1>0, <2>3 DEF AuditProbe, AuditType
    <3>2. /\ audit'.left \subseteq audit.left /\ audit'.pc = audit.pc
          /\ audit'.entries = audit.entries /\ audit'.items = audit.items
      BY <1>0, <2>3 DEF AuditProbe, AuditType
    <3> QED
      BY <1>0, <3>1, <3>2 DEF AuditOmits, Omits
  <2>4. CASE AuditDecide /\ audit.found # {}
    <3>1. /\ audit'.entries = RequeueEntries(audit.entries, audit.found)
          /\ audit'.items = RequeueItems(audit.entries, audit.items, audit.found)
          /\ audit'.left = audit.left /\ audit'.found = audit.found /\ audit.pc = "probe"
      BY <1>0, <2>4 DEF AuditDecide, AuditType
    <3>2. ASSUME NEW k \in ExcludedKeys
          PROVE  audit'.entries[k] = audit.entries[k] /\ audit'.items[k] = audit.items[k]
      <4>1. k \in Keys /\ k \notin audit.found
        BY <1>0 DEF AuditOmits, Omits
      <4> QED
        BY <3>1, <4>1 DEF RequeueEntries, RequeueItems
    <3> QED
      BY <1>0, <3>1, <3>2 DEF AuditOmits, Out, Dormant
  <2>5. CASE \/ AuditTruncateState \/ AuditWriteState \/ AuditTruncateQueue
             \/ AuditDecide /\ audit.found = {} /\ audit.invalidated
    <3>1. /\ audit'.entries = audit.entries /\ audit'.items = audit.items
          /\ audit'.left = audit.left /\ audit'.found = audit.found /\ audit.pc # "idle"
      BY <1>0, <2>5 DEF AuditTruncateState, AuditWriteState, AuditTruncateQueue, AuditDecide, AuditType
    <3> QED
      BY <1>0, <3>1 DEF AuditOmits
  <2>6. CASE audit' = IdleAudit(audit.runs)
    BY <2>6, IdleOmits
  <2>7. CASE AuditWriteQueue \/ AuditKilled
    BY <2>6, <2>7 DEF AuditWriteQueue, AuditKilled
  <2>8. CASE AuditLoadQueue /\ ~queueFile.ok
    BY <2>6, <2>8 DEF AuditLoadQueue
  <2>9. CASE AuditDecide /\ audit.found = {} /\ ~audit.invalidated
    BY <2>6, <2>9 DEF AuditDecide
  <2> QED
    BY <2>1, <2>2, <2>3, <2>4, <2>5, <2>7, <2>8, <2>9 DEF AuditNext, AuditStep
<1>2. StateOut'
  <2>1. CASE AuditTruncateState
    BY <1>0, <2>1, ExcludedTypes DEF AuditTruncateState, StateOut, StoreTypeOK, StateFiles
  <2>2. CASE AuditWriteState
    BY <1>0, <2>2 DEF AuditWriteState, StateOut, AuditOmits
  <2>3. CASE ~AuditTruncateState /\ ~AuditWriteState
    <3>1. UNCHANGED <<stateFile, stateBaks>>
      BY <2>3 DEF AuditNext, AuditStep, AuditStart, AuditLoadQueue, AuditProbe, AuditDecide,
                  AuditTruncateQueue, AuditWriteQueue, AuditKilled, storeVars, ledgerVars
    <3> QED
      BY <1>0, <3>1 DEF StateOut
  <2> QED
    BY <2>1, <2>2, <2>3
<1> QED
  BY <1>1, <1>2

LEMMA DiscoveryKeepsOut ==
    ASSUME IInv, OmitInv, InventoryNext
    PROVE  StateOut' /\ (inventory'.pc = "replace" => Out(inventory'.entries))
<1>0. StateOut /\ inventory \in InventoryType /\ inventory.pc = "replace" => Out(inventory.entries)
  BY ExcludedTypes DEF OmitInv
<1>1. CASE InventoryReplace
  <2>1. /\ stateBaks' = Rotate(stateBaks, stateFile) /\ stateFile'.entries = inventory.entries
        /\ inventory' = IdleInventory /\ inventory.pc = "replace"
    BY <1>1 DEF InventoryReplace
  <2> QED
    BY <2>1, RotateOut DEF OmitInv, StateOut, IdleInventory
<1>2. CASE InventoryRegister
  <2>1. inventory'.entries = RegisterMissing(stateFile.entries, inventory.missing)
    BY <1>2, ExcludedTypes DEF InventoryRegister, InventoryType
  <2>2. ASSUME NEW k \in ExcludedKeys
        PROVE  RegisterMissing(stateFile.entries, inventory.missing)[k] = stateFile.entries[k]
    <3>1. k \in Keys /\ Registered(stateFile.entries[k])
      BY DEF OmitInv, StateOut, Out, IsExcluded, Registered
    <3> QED
      BY <3>1 DEF RegisterMissing
  <2>3. UNCHANGED <<stateFile, stateBaks>>
    BY <1>2 DEF InventoryRegister, ledgerVars
  <2> QED
    BY <2>1, <2>2, <2>3 DEF OmitInv, StateOut, Out
<1>3. CASE InventoryObserve \/ InventoryGivesUp \/ InventoryKilled
  <2>1. UNCHANGED <<stateFile, stateBaks>>
    BY <1>3 DEF InventoryObserve, InventoryGivesUp, InventoryKilled, storeVars, ledgerVars
  <2>2. IdleInventory.pc = "idle" /\ DOMAIN IdleInventory = {"pc", "missing", "entries"}
    BY DEF IdleInventory
  <2> HIDE DEF IdleInventory
  <2>3. ASSUME InventoryObserve PROVE inventory'.pc = "apply"
    BY <2>2, <2>3, Zenon DEF InventoryObserve
  <2>4. inventory'.pc # "replace"
    BY <1>3, <2>2, <2>3 DEF InventoryGivesUp, InventoryKilled
  <2> QED
    BY <2>1, <2>4 DEF OmitInv, StateOut
<1> QED
  BY <1>1, <1>2, <1>3 DEF InventoryNext, InventoryStep

LEMMA InitOmits == Init => OmitInv
<1> SUFFICES ASSUME Init PROVE OmitInv
  OBVIOUS
<1>1. StateOut
  <2>1. \A k \in ExcludedKeys : IsExcluded(InitEntry(k))
    BY DEF InitEntry, IsExcluded, FreshEntry, NoEntry
  <2>2. /\ stateFile.entries = [k \in Keys |-> InitEntry(k)]
        /\ \A i \in 1..BakKeep : ~stateBaks[i].ok
    BY DEF Init, StoreInit, NoStateBak
  <2> QED
    BY <2>1, <2>2 DEF StateOut, Out
<1>2. inventory.pc # "replace"
  BY DEF Init, InventoryInit, IdleInventory
<1> QED
  BY <1>1, <1>2, IdleOmits DEF OmitInv, Init, WorkerInit, AuditInit

LEMMA NextOmits == IInv /\ OmitInv /\ [Next]_vars => OmitInv'
<1> SUFFICES ASSUME IInv, OmitInv, [Next]_vars PROVE OmitInv'
  OBVIOUS
<1>1. CASE WorkerNext /\ UNCHANGED <<audit, inventory>>
  BY <1>1, WorkerStaysOut, WorkerKeepsStateOut DEF OmitInv
<1>2. CASE AuditNext /\ UNCHANGED <<worker, inventory>>
  BY <1>2, AuditKeepsOut DEF OmitInv
<1>3. CASE InventoryNext /\ UNCHANGED <<worker, audit>>
  BY <1>3, DiscoveryKeepsOut DEF OmitInv
<1>4. CASE UNCHANGED vars \/ (Environment /\ UNCHANGED <<worker, audit, inventory>>)
  <2>1. UNCHANGED <<stateFile, stateBaks, worker, audit, inventory>>
    BY <1>4 DEF vars, storeVars, ledgerVars, Environment, Post, Delete, NextDay
  <2> QED
    BY <2>1 DEF OmitInv, StateOut
<1> QED
  BY <1>1, <1>2, <1>3, <1>4 DEF Next

\* One step: nothing is archived for an excluded key, and the queue file
\* does not make its retired work active again.
LEMMA StaysExcluded ==
    ASSUME IInv, OmitInv, [Next]_vars, NEW k \in ExcludedKeys
    PROVE  /\ raw'[k] = raw[k]
           /\ queueFile.items[k].status = "invalid" =>
                queueFile'.items[k].status \notin ActiveStatus
<1>0. /\ k \in Keys /\ worker.key # k /\ worker.key \in Keys \cup {0}
      /\ raw \in [Keys -> [Ids -> Nat]] /\ "invalid" \notin ActiveStatus
  BY ExcludedTypes DEF OmitInv, WorkerOmits, WorkerType, ActiveStatus, IInv, TypeOK, StoreTypeOK
<1>1. raw'[k] = raw[k]
  <2>1. \A ids : WithCopies(worker.key, ids)[k] = raw[k]
    BY <1>0 DEF WithCopies
  <2>2. CASE WorkerNext
    <3>1. raw' = raw \/ \E ids : raw' = WithCopies(worker.key, ids)
      BY <2>2 DEF WorkerNext, WorkerStep, WorkerStart, WorkerPrepare, WorkerFatal, WorkerPick,
                  WorkerFinish, WorkerMerge, WorkerReplaceState, WorkerReplaceQueue,
                  WorkerOutOfBudget, WorkerFetch, WorkerFetchFails, WorkerAppend,
                  WorkerAppendFails, WorkerSaveFails, WorkerProbe, WorkerProbeFails, WorkerKilled,
                  AppendBatch, AppendCutShort, storeVars, archiveVars
    <3> QED
      BY <2>1, <3>1
  <2>3. CASE ~WorkerNext
    <3>1. UNCHANGED archiveVars
      BY <2>3 DEF Next, vars, storeVars, Environment, Post, Delete, NextDay, AuditNext, AuditStep,
                  AuditStart, AuditLoadQueue, AuditProbe, AuditDecide, AuditTruncateState,
                  AuditWriteState, AuditTruncateQueue, AuditWriteQueue, AuditKilled, InventoryNext,
                  InventoryStep, InventoryObserve, InventoryRegister, InventoryGivesUp,
                  InventoryReplace, InventoryKilled
    <3> QED
      BY <3>1 DEF archiveVars
  <2> QED
    BY <2>2, <2>3
<1>2. queueFile'.items \in {queueFile.items, worker.items, audit.items}
  <2>1. CASE WorkerReplaceQueue
    BY <2>1 DEF WorkerReplaceQueue
  <2>2. CASE AuditWriteQueue \/ AuditTruncateQueue
    BY <2>2, ExcludedTypes DEF AuditWriteQueue, AuditTruncateQueue, IInv, TypeOK, StoreTypeOK, QueueFiles
  <2>3. CASE ~WorkerReplaceQueue /\ ~AuditWriteQueue /\ ~AuditTruncateQueue
    <3>1. UNCHANGED queueFile
      BY <2>3 DEF Next, vars, storeVars, ledgerVars, Environment, Post, Delete, NextDay,
                  WorkerNext, WorkerStep, WorkerStart, WorkerPrepare, WorkerFatal, WorkerPick,
                  WorkerFinish, WorkerMerge, WorkerReplaceState,
                  WorkerOutOfBudget, WorkerFetch, WorkerFetchFails, WorkerAppend,
                  WorkerAppendFails, WorkerSaveFails, WorkerProbe, WorkerProbeFails, WorkerKilled,
                  AuditNext, AuditStep, AuditStart, AuditLoadQueue, AuditProbe, AuditDecide,
                  AuditTruncateState, AuditWriteState, AuditKilled, InventoryNext,
                  InventoryStep, InventoryObserve, InventoryRegister, InventoryGivesUp,
                  InventoryReplace, InventoryKilled
    <3> QED
      BY <3>1
  <2> QED
    BY <2>1, <2>2, <2>3
<1>3. worker.items[k].status \notin ActiveStatus /\ audit.items[k].status \notin ActiveStatus
  BY DEF OmitInv, WorkerOmits, AuditOmits, Dormant
<1> QED
  BY <1>0, <1>1, <1>2, <1>3

\* An excluded key is terminal in every interleaving of the jobs: nothing is
\* archived for it and its retired work never becomes active again.
THEOREM ExcludedForGood == Spec => ExcludedTerminal
<1>1. IInv /\ OmitInv /\ [Next]_vars =>
        [\A k \in ExcludedKeys :
          /\ raw'[k] = raw[k]
          /\ queueFile.items[k].status = "invalid" =>
                queueFile'.items[k].status \notin ActiveStatus]_vars
  BY StaysExcluded
<1> QED
  BY <1>1, InitOmits, NextOmits, Invariance, PTL DEF Spec, ExcludedTerminal
=============================================================================
