---------------------------- MODULE CaughtUpAudit ----------------------------
(***************************************************************************)
(* audit_caught_up_v3.py --requeue: probes every entry after its cursor    *)
(* and requeues those with new messages.  It takes no lock, works on the   *)
(* copies of the ledgers it loaded at its start, and rewrites both files   *)
(* in place (write_text), so a reader can find them truncated and a kill   *)
(* can leave them so.                                                      *)
(***************************************************************************)
EXTENDS BackupStore

CONSTANT MaxAudits      \* bound on the number of audit runs

ASSUME AuditAssumption == MaxAudits \in Nat

VARIABLE audit      \* the process: its program counter and its locals

AuditPc == {"idle", "loadQueue", "probe", "truncState", "writeState",
            "truncQueue", "writeQueue"}

AuditType ==
    [pc : AuditPc, entries : Entries, items : Items,
     left : SUBSET Keys, found : SUBSET Keys, invalidated : BOOLEAN,
     runs : 0..MaxAudits]

IdleAudit(runs) ==
    [pc |-> "idle", entries |-> NoEntries, items |-> NoItems,
     left |-> {}, found |-> {}, invalidated |-> FALSE, runs |-> runs]

AuditTypeOK == audit \in AuditType
AuditInit   == audit = IdleAudit(0)

-----------------------------------------------------------------------------
\* invalidate_excluded_queue
InvalidateExcluded(items, entries) ==
    [k \in Keys |-> IF items[k].status # "none" /\ IsExcluded(entries[k])
                    THEN [items[k] EXCEPT !.status = "invalid"]
                    ELSE items[k]]

\* requeue: the cursor of an existing item is set to the entry's, also when
\* that is older, and its reason is replaced whatever it was.
\* Mutant: the cursor moves to the message the probe returned.
RequeueEntriesSeen(entries, found) ==
    [k \in Keys |-> IF k \in found
                    THEN [entries[k] EXCEPT !.status = "partial",
                                            !.reason = "legacy",
                                            !.cursor = @ + 1]
                    ELSE entries[k]]

RequeueEntries(entries, found) ==
    [k \in Keys |-> IF k \in found
                    THEN [entries[k] EXCEPT !.status = "partial",
                                            !.reason = "legacy"]
                    ELSE entries[k]]

RequeueItem(k, entries, items, found) ==
    IF items[k].status = "none"
    THEN [status |-> "queued", cursor |-> entries[k].cursor,
          reason |-> "legacy", prio |-> 25,
          born |-> NumItems(items) + Cardinality({j \in found :
                       items[j].status = "none" /\ j <= k})]
    ELSE [items[k] EXCEPT !.status = "queued", !.reason = "legacy",
                          !.cursor = entries[k].cursor]

RequeueItems(entries, items, found) ==
    [k \in Keys |-> IF k \in found
                    THEN RequeueItem(k, entries, items, found)
                    ELSE items[k]]

-----------------------------------------------------------------------------
\* A state that does not parse ends the run with nothing changed.
AuditStart ==
    /\ audit.pc = "idle"
    /\ audit.runs < MaxAudits
    /\ stateFile.ok
    /\ audit' = [IdleAudit(audit.runs + 1) EXCEPT
                   !.pc = "loadQueue",
                   !.entries = stateFile.entries]
    /\ UNCHANGED storeVars

AuditLoadQueue ==
    /\ audit.pc = "loadQueue"
    /\ LET items == InvalidateExcluded(queueFile.items, audit.entries)
       IN audit' = IF ~queueFile.ok THEN IdleAudit(audit.runs)
                   ELSE [audit EXCEPT
                           !.pc = "probe", !.items = items,
                           !.invalidated = items # queueFile.items,
                           !.left = {k \in Keys : InScope(audit.entries[k])
                                               /\ audit.entries[k].cursor # 0}]
    /\ UNCHANGED storeVars

\* One live read after the cursor, in inventory order; a failed read is
\* only reported.
AuditProbe ==
    /\ audit.pc = "probe"
    /\ \E k \in audit.left :
          /\ \A j \in audit.left : k <= j
          /\ \/ /\ ReadSucceeds(k)
                /\ audit' = [audit EXCEPT
                     !.left = @ \ {k},
                     !.found = IF Page(k, audit.entries[k].cursor, 1) # {}
                               THEN @ \cup {k} ELSE @]
             \/ /\ ReadFails(k)
                /\ audit' = [audit EXCEPT !.left = @ \ {k}]
    /\ UNCHANGED <<discordVars, archiveVars, ledgerVars, lock>>

\* Every entry probed: requeue what was found in memory, then write.
AuditDecide ==
    /\ audit.pc = "probe"
    /\ audit.left = {}
    /\ audit' =
         IF audit.found # {}
         THEN [audit EXCEPT
                 !.pc = "truncState",
                 !.entries = RequeueEntries(@, audit.found),
                 !.items = RequeueItems(audit.entries, @, audit.found)]
         ELSE IF audit.invalidated THEN [audit EXCEPT !.pc = "truncQueue"]
         ELSE IdleAudit(audit.runs)
    /\ UNCHANGED storeVars

-----------------------------------------------------------------------------
\* save_json is a truncating open and a write.  When another job replaced
\* the file in between, the write goes to the unlinked inode.

AuditTruncateState ==
    /\ audit.pc = "truncState"
    /\ stateFile' = [stateFile EXCEPT !.ok = FALSE]
    /\ audit' = [audit EXCEPT !.pc = "writeState"]
    /\ UNCHANGED <<discordVars, archiveVars, queueFile, stateBaks, queueBaks,
                   lock, faults>>

AuditWriteState ==
    /\ audit.pc = "writeState"
    /\ stateFile' = IF stateFile.ok THEN stateFile
                    ELSE [ok |-> TRUE, entries |-> audit.entries]
    /\ audit' = [audit EXCEPT !.pc = "truncQueue"]
    /\ UNCHANGED <<discordVars, archiveVars, queueFile, stateBaks, queueBaks,
                   lock, faults>>

AuditTruncateQueue ==
    /\ audit.pc = "truncQueue"
    /\ queueFile' = [queueFile EXCEPT !.ok = FALSE]
    /\ audit' = [audit EXCEPT !.pc = "writeQueue"]
    /\ UNCHANGED <<discordVars, archiveVars, stateFile, stateBaks, queueBaks,
                   lock, faults>>

AuditWriteQueue ==
    /\ audit.pc = "writeQueue"
    /\ queueFile' = IF queueFile.ok THEN queueFile
                    ELSE [ok |-> TRUE, items |-> audit.items]
    /\ audit' = IdleAudit(audit.runs)
    /\ UNCHANGED <<discordVars, archiveVars, stateFile, stateBaks, queueBaks,
                   lock, faults>>

AuditKilled ==
    /\ audit.pc # "idle"
    /\ Fault
    /\ audit' = IdleAudit(audit.runs)
    /\ UNCHANGED <<discordVars, archiveVars, ledgerVars, lock>>

AuditStep ==
    \/ AuditLoadQueue \/ AuditProbe \/ AuditDecide
    \/ AuditTruncateState \/ AuditWriteState
    \/ AuditTruncateQueue \/ AuditWriteQueue

AuditNext == AuditStart \/ AuditStep \/ AuditKilled
=============================================================================
