--------------------------- MODULE ArchiveContract ---------------------------
(***************************************************************************)
(* What the channel backup promises, whatever its jobs are: the archive    *)
(* only grows, it holds nothing Discord never showed, and the cursor of a  *)
(* channel is only ever put where every message Discord still shows up to  *)
(* it is archived (architecture.md: "Never update state ahead of raw").    *)
(* How pages, saves, merges, kills and recoveries bring that about is in   *)
(* the modules below BackupPipeline, which is shown to implement this one. *)
(***************************************************************************)
EXTENDS Naturals

CONSTANT Keys

VARIABLES
    posted,     \* number of messages ever posted to each channel
    live,       \* ids Discord still shows
    archived,   \* ids in the archive
    cursor      \* the position the state ledger claims for each channel

contractVars == <<posted, live, archived, cursor>>

Complete(k, c) == \A m \in live[k] : m <= c => m \in archived[k]

Init ==
    /\ posted \in [Keys -> Nat]
    /\ live = [k \in Keys |-> 1..posted[k]]
    /\ archived = [k \in Keys |-> {}]
    /\ cursor = [k \in Keys |-> 0]

Post(k) ==
    /\ posted' = [posted EXCEPT ![k] = @ + 1]
    /\ live' = [live EXCEPT ![k] = @ \cup {posted[k] + 1}]
    /\ UNCHANGED <<archived, cursor>>

Delete(k) ==
    /\ \E m \in live[k] : live' = [live EXCEPT ![k] = @ \ {m}]
    /\ UNCHANGED <<posted, archived, cursor>>

Archive(k) ==
    /\ \E ids \in SUBSET (1..posted[k]) :
          archived' = [archived EXCEPT ![k] = @ \cup ids]
    /\ UNCHANGED <<posted, live, cursor>>

\* A save claims new positions, for any number of channels at once and not
\* always newer ones; none ahead of the archive or of what was posted.
Save ==
    /\ cursor' \in [Keys -> Nat]
    /\ \A k \in Keys : cursor'[k] <= posted[k] /\ Complete(k, cursor'[k])
    /\ UNCHANGED <<posted, live, archived>>

Next == (\E k \in Keys : Post(k) \/ Delete(k) \/ Archive(k)) \/ Save

Spec == Init /\ [][Next]_contractVars
=============================================================================
