-------------------------- MODULE InventoryDiscovery --------------------------
(***************************************************************************)
(* audit_discord_inventory_v3.py --apply, the discovery role: compares the *)
(* channels and threads Discord shows with the state and registers the     *)
(* missing ones under the lock.                                            *)
(***************************************************************************)
EXTENDS BackupStore

VARIABLE inventory

InventoryType ==
    [pc : {"idle", "apply", "replace"}, missing : SUBSET Keys,
     entries : Entries]

IdleInventory == [pc |-> "idle", missing |-> {}, entries |-> NoEntries]

InventoryTypeOK == inventory \in InventoryType
InventoryInit   == inventory = IdleInventory

\* Every key of the model is a channel the bot can list.
Unregistered(entries) == {k \in Keys : ~Registered(entries[k])}

\* compare_state on a state read before the lock is taken.
InventoryObserve ==
    /\ inventory.pc = "idle"
    /\ stateFile.ok
    /\ inventory' = [IdleInventory EXCEPT
                       !.pc = "apply",
                       !.missing = Unregistered(stateFile.entries)]
    /\ UNCHANGED storeVars

\* The entries register_missing builds.
RegisterMissing(entries, missing) ==
    [k \in Keys |-> IF k \in missing /\ ~Registered(entries[k])
                    THEN FreshEntry ELSE entries[k]]

\* Mutant: registration without the lock.
InventoryRegisterUnlocked ==
    /\ inventory.pc = "apply"
    /\ stateFile.ok
    /\ inventory.missing \cap Unregistered(stateFile.entries) # {}
    /\ inventory' = [inventory EXCEPT
         !.pc = "replace",
         !.entries = RegisterMissing(stateFile.entries, inventory.missing)]
    /\ UNCHANGED storeVars

\* register_missing under the lock, on a state read again: an id another
\* run has registered meanwhile is skipped.
InventoryRegister ==
    /\ inventory.pc = "apply"
    /\ lock = Free
    /\ stateFile.ok
    /\ inventory.missing \cap Unregistered(stateFile.entries) # {}
    /\ inventory' = [inventory EXCEPT
         !.pc = "replace",
         !.entries = RegisterMissing(stateFile.entries, inventory.missing)]
    /\ lock' = "inventory"
    /\ UNCHANGED <<discordVars, archiveVars, ledgerVars, faults>>

\* The lock is held by another job, the state does not parse, or nothing is
\* missing any more: the run ends with nothing changed.
InventoryGivesUp ==
    /\ inventory.pc = "apply"
    /\ \/ lock # Free
       \/ ~stateFile.ok
       \/ inventory.missing \cap Unregistered(stateFile.entries) = {}
    /\ inventory' = IdleInventory
    /\ UNCHANGED storeVars

\* Copy to .bak-inventory, replace the state atomically, release the lock.
\* The next worker run rotates the oldest copy out; here it goes at once.
InventoryReplace ==
    /\ inventory.pc = "replace"
    /\ stateBaks' = Rotate(stateBaks, stateFile)
    /\ stateFile' = [ok |-> TRUE, entries |-> inventory.entries]
    /\ inventory' = IdleInventory
    /\ lock' = Free
    /\ UNCHANGED <<discordVars, archiveVars, queueFile, queueBaks, faults>>

InventoryKilled ==
    /\ inventory.pc # "idle"
    /\ Fault
    /\ inventory' = IdleInventory
    /\ lock' = IF lock = "inventory" THEN Free ELSE lock
    /\ UNCHANGED <<discordVars, archiveVars, ledgerVars>>

InventoryStep == InventoryRegister \/ InventoryGivesUp \/ InventoryReplace
InventoryNext == InventoryObserve \/ InventoryStep \/ InventoryKilled
=============================================================================
