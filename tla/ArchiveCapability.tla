------------------------- MODULE ArchiveCapability -------------------------
(***************************************************************************)
(* The capabilities of one process that writes a rich archive              *)
(* (rich_message_archive.py): lock tokens, which stand for the flock on    *)
(* the archive, and run contexts, which pin a token.  Operations of        *)
(* several threads borrow both; a close that comes while something is      *)
(* borrowed or pinned is deferred and carried out by the last one to let   *)
(* go; a token or a run that nobody refers to any more is collected.  The  *)
(* two registries have a mutex each: an action is what one of them covers. *)
(***************************************************************************)
EXTENDS Naturals, Sequences, SequencesExt, FiniteSets

CONSTANTS Threads, Tokens, Runs, MaxDepth, None

(* A run lease and its lock lease nest at least two deep. *)
ASSUME DepthAssumption == MaxDepth \in Nat \ {0, 1}
ASSUME NoneAssumption == None \notin Tokens

VARIABLES
  tok,       \* _LOCK_TOKEN_REGISTRY and the tokens themselves
  run,       \* _RUN_CONTEXT_REGISTRY and the contexts themselves
  ops,       \* leases of each thread, the innermost last
  outsider   \* another process holds the flock

vars == <<tok, run, ops, outsider>>

Idle == [t \in Threads |-> 0]
Token == [st : {"unborn", "held", "gone"}, owners : [Threads -> 0..MaxDepth], pins : SUBSET Runs,
          closeRequested : BOOLEAN, closing : BOOLEAN, kept : BOOLEAN]
Context == [st : {"unborn", "active", "gone"}, owners : [Threads -> 0..MaxDepth],
            token : Tokens \cup {None}, closing : BOOLEAN, kept : BOOLEAN]
Lease == [kind : {"managed", "entry", "none", "left", "run", "lock", "ending", "unpin"}, run : Runs]

Init ==
  /\ tok = [k \in Tokens |-> [st |-> "unborn", owners |-> Idle, pins |-> {},
                              closeRequested |-> FALSE, closing |-> FALSE, kept |-> FALSE]]
  /\ run = [r \in Runs |-> [st |-> "unborn", owners |-> Idle, token |-> None, closing |-> FALSE, kept |-> FALSE]]
  /\ ops = [t \in Threads |-> <<>>] /\ outsider = FALSE

Borrowed(s) == \E t \in Threads : s.owners[t] > 0
Push(t, kind, r) == ops' = [ops EXCEPT ![t] = Append(@, [kind |-> kind, run |-> r])]
Top(t) == IF ops[t] = <<>> THEN [kind |-> "idle", run |-> None] ELSE Last(ops[t])
Turn(t, kind) == ops' = [ops EXCEPT ![t] = Append(Front(@), [kind |-> kind, run |-> Top(t).run])]
Pop(t) == ops' = [ops EXCEPT ![t] = Front(@)]

-----------------------------------------------------------------------------
(* Mutant of ReleaseRegistration: pins are not looked at. *)
ReleaseUnpinned(T, k) ==
  [T EXCEPT ![k] = IF Borrowed(@) THEN [@ EXCEPT !.closeRequested = TRUE, !.closing = TRUE]
                   ELSE [@ EXCEPT !.closeRequested = TRUE, !.st = "gone"]]
(* _release_lock_registration: now, or when the last pin or borrower goes. *)
ReleaseRegistration(T, k) ==
  [T EXCEPT ![k] = LET s == [@ EXCEPT !.closeRequested = TRUE] IN
     CASE s.pins # {}  -> s
       [] s.pins = {} /\ Borrowed(s)  -> [s EXCEPT !.closing = TRUE]
       [] s.pins = {} /\ ~Borrowed(s) -> [s EXCEPT !.st = "gone"]]

(* _release_run_lock_pin: a run that ends asks for the close of its token. *)
ReleasePin(T, k, r) == ReleaseRegistration([T EXCEPT ![k].pins = @ \ {r}], k)

(* _begin_lock_lease, _end_lock_lease *)
Borrowable(s, t) ==
  /\ s.st = "held" /\ \A u \in Threads \ {t} : s.owners[u] = 0
  /\ s.closing => s.owners[t] > 0
BeginLease(T, k, t) == [T EXCEPT ![k].owners[t] = @ + 1]
EndLease(T, k, t) ==
  LET U == [T EXCEPT ![k].owners[t] = @ - 1]
  IN  IF ~Borrowed(U[k]) /\ U[k].pins = {} /\ U[k].closeRequested THEN ReleaseRegistration(U, k) ELSE U

(* Mutant of Usable: work may begin on a run that is closing. *)
UsableClosing(r, t) == run[r].st = "active"
(* _require_run_context: an active run, not closing unless by its owner. *)
Usable(r, t) == run[r].st = "active" /\ (run[r].closing => run[r].owners[t] > 0)

-----------------------------------------------------------------------------
OutsiderLocks == /\ ~outsider /\ \A k \in Tokens : tok[k].st # "held"
                 /\ outsider' = TRUE /\ UNCHANGED <<tok, run, ops>>
OutsiderUnlocks == outsider /\ outsider' = FALSE /\ UNCHANGED <<tok, run, ops>>

(* acquire_lock: a non-blocking flock on a fresh descriptor. *)
AcquireLock(k) ==
  /\ tok[k].st = "unborn" /\ ~outsider /\ \A j \in Tokens : tok[j].st # "held"
  /\ tok' = [tok EXCEPT ![k].st = "held", ![k].kept = TRUE] /\ UNCHANGED <<run, ops, outsider>>

(* _mint_run_context: one run per archive; it pins the token it was given. *)
MintRun(r, k) ==
  /\ run[r].st = "unborn" /\ \A q \in Runs : run[q].st # "active"
  /\ tok[k].st = "held" /\ tok[k].kept /\ ~tok[k].closing /\ ~tok[k].closeRequested
  /\ tok' = [tok EXCEPT ![k].pins = @ \cup {r}]
  /\ run' = [run EXCEPT ![r].st = "active", ![r].token = k, ![r].kept = TRUE]
  /\ UNCHANGED <<ops, outsider>>

(* Every managed mutation first checks its run, then takes an entry lease  *)
(* of the run that is active for the entry by then: none, when the run has *)
(* gone in between; another one's, when that has the same token.           *)
Shallow(t) == Len(ops[t]) < MaxDepth /\ Top(t).kind \in {"idle", "lock"}
Managed(t, r) == /\ Shallow(t) /\ Usable(r, t) /\ (run[r].kept \/ Top(t).run = r)
                 /\ Push(t, "managed", r) /\ UNCHANGED <<tok, run, outsider>>
Running == {r \in Runs : run[r].st = "active"}
Serves(r, t) == run[r].token = run[Top(t).run].token /\ Usable(r, t)
Enters(t, r) == /\ ops' = [ops EXCEPT ![t] = Append(Front(@), [kind |-> "entry", run |-> r])]
                /\ run' = [run EXCEPT ![r].owners[t] = @ + 1]
BeginEntryLease(t) ==
  /\ Top(t).kind = "managed" /\ UNCHANGED <<tok, outsider>>
  /\ \/ Running = {} /\ Turn(t, "none") /\ UNCHANGED run
     \/ \E r \in Running : Serves(r, t) /\ Enters(t, r)
     \/ \E r \in Running : ~Serves(r, t) /\ Pop(t) /\ UNCHANGED run
BeginLockLease(t) ==
  /\ Top(t).kind \in {"entry", "none"} /\ Len(ops[t]) < MaxDepth
  /\ \E k \in {run[Top(t).run].token} : Borrowable(tok[k], t) /\ tok' = BeginLease(tok, k, t)
  /\ Push(t, "lock", Top(t).run) /\ UNCHANGED <<run, outsider>>

(* _begin_run_context_lease: the run and its lock, for a run-wide decision. *)
BeginRunLease(t, r) ==
  /\ ops[t] = <<>> /\ run[r].kept /\ Usable(r, t) /\ Borrowable(tok[run[r].token], t)
  /\ run' = [run EXCEPT ![r].owners[t] = @ + 1] /\ tok' = BeginLease(tok, run[r].token, t)
  /\ ops' = [ops EXCEPT ![t] = <<[kind |-> "run", run |-> r], [kind |-> "lock", run |-> r]>>]
  /\ UNCHANGED outsider

Below(t) == ops[t][Len(ops[t]) - 1]
EndLockLease(t) ==
  /\ Top(t).kind = "lock" /\ tok' = EndLease(tok, run[Top(t).run].token, t)
  /\ ops' = [ops EXCEPT ![t] = Append(Front(Front(@)), [Below(t) EXCEPT !.kind = IF @ = "none" THEN "left" ELSE "ending"])]
  /\ UNCHANGED <<run, outsider>>
(* Closing or letting go of the last lease removes the run; its pin is     *)
(* released under the other mutex, a step later.                           *)
Gone(R, r) == [R EXCEPT ![r].st = "gone"]
EndRunLease(t) ==
  /\ Top(t).kind \in {"entry", "ending"}
  /\ \E r \in {Top(t).run} : \E R \in {[run EXCEPT ![r].owners[t] = @ - 1]} :
       IF R[r].closing /\ ~Borrowed(R[r]) THEN run' = Gone(R, r) /\ Turn(t, "unpin")
                                          ELSE run' = R /\ Pop(t)
  /\ UNCHANGED <<tok, outsider>>
EndNoLease(t) == Top(t).kind \in {"none", "left"} /\ Pop(t) /\ UNCHANGED <<tok, run, outsider>>
Unpin(t) == /\ Top(t).kind = "unpin" /\ tok' = ReleasePin(tok, run[Top(t).run].token, Top(t).run)
            /\ Pop(t) /\ UNCHANGED <<run, outsider>>

(* ArchiveRunContext.close, also reached from the collector. *)
CloseRun(t, r) ==
  /\ run[r].st = "active" /\ Len(ops[t]) < MaxDepth + 1 /\ Top(t).kind # "unpin"
  /\ IF Borrowed(run[r]) THEN run' = [run EXCEPT ![r].closing = TRUE] /\ UNCHANGED ops
                         ELSE run' = Gone(run, r) /\ Push(t, "unpin", r)
  /\ UNCHANGED <<tok, outsider>>
CallerClosesRun(t, r) == run[r].kept /\ ~run[r].closing /\ CloseRun(t, r)
DropRun(r) == /\ run[r].kept /\ run' = [run EXCEPT ![r].kept = FALSE] /\ UNCHANGED <<tok, ops, outsider>>
RunHeld(r) == \E t \in Threads : \E i \in DOMAIN ops[t] : ops[t][i].run = r
RunCollected(t, r) == ~run[r].kept /\ ~RunHeld(r) /\ CloseRun(t, r)

(* ArchiveLockToken.close and its collection: a run and a lease keep the   *)
(* token they use alive.                                                   *)
CallerClosesToken(k) == /\ tok[k].kept /\ tok[k].st = "held" /\ ~tok[k].closeRequested
                        /\ tok' = ReleaseRegistration(tok, k) /\ UNCHANGED <<run, ops, outsider>>
DropToken(k) == /\ tok[k].kept /\ tok' = [tok EXCEPT ![k].kept = FALSE] /\ UNCHANGED <<run, ops, outsider>>
TokenHeld(k) == \E r \in Runs : run[r].token = k /\ (run[r].st = "active" \/ RunHeld(r))
TokenCollected(k) == /\ tok[k].st = "held" /\ ~tok[k].kept /\ ~TokenHeld(k)
                     /\ tok' = ReleaseRegistration(tok, k) /\ UNCHANGED <<run, ops, outsider>>

Steps(t) == BeginEntryLease(t) \/ BeginLockLease(t) \/ EndLockLease(t) \/ EndRunLease(t) \/ EndNoLease(t) \/ Unpin(t)
Next ==
  \/ OutsiderLocks \/ OutsiderUnlocks
  \/ \E k \in Tokens : AcquireLock(k) \/ CallerClosesToken(k) \/ DropToken(k) \/ TokenCollected(k)
  \/ \E t \in Threads : Steps(t)
  \/ \E r \in Runs, k \in Tokens : MintRun(r, k)
  \/ \E r \in Runs : DropRun(r)
  \/ \E t \in Threads, r \in Runs :
       Managed(t, r) \/ BeginRunLease(t, r) \/ CallerClosesRun(t, r) \/ RunCollected(t, r)

(* Every lease ends in a finally clause, an operation makes finitely many  *)
(* nested calls (so its outermost lease ends), and the reference counts of *)
(* CPython collect what nobody refers to.                                  *)
Lets(t) == BeginEntryLease(t) \/ EndLockLease(t) \/ EndRunLease(t) \/ EndNoLease(t) \/ Unpin(t)
Spec == Init /\ [][Next]_vars
Fairness == /\ \A t \in Threads : WF_vars(Lets(t)) /\ SF_vars(EndLockLease(t) /\ Len(ops[t]) = 2)
            /\ \A k \in Tokens : WF_vars(TokenCollected(k))
            /\ \A r \in Runs : WF_vars(\E t \in Threads : RunCollected(t, r))
FairSpec == Spec /\ Fairness

-----------------------------------------------------------------------------
TypeOK ==
  /\ tok \in [Tokens -> Token] /\ run \in [Runs -> Context] /\ outsider \in BOOLEAN
  /\ ops \in [Threads -> Seq(Lease)]

Count(s, kinds, rs) == Cardinality({i \in DOMAIN s : s[i].kind \in kinds /\ s[i].run \in rs})
Leases(t, kinds, r) == Count(ops[t], kinds, {r})

(* No operation loses the lock under its feet: however closes, drops and   *)
(* ends interleave, the lock of a lease is held and the registries still   *)
(* count it, so that its end finds them (no "registry changed" and no      *)
(* "count underflow" in _end_lock_lease and _end_run_context_lease).       *)
LeasesHonoured ==
  \A t \in Threads, r \in Runs :
    /\ Leases(t, {"lock"}, r) > 0 => tok[run[r].token].st = "held"
    /\ Leases(t, {"lock"}, r) <= (IF run[r].token = None THEN 0 ELSE tok[run[r].token].owners[t])
    /\ Leases(t, {"entry", "run", "ending"}, r) = run[r].owners[t]
    /\ Leases(t, {"entry", "run", "ending"}, r) > 0 => run[r].st = "active"
    /\ Leases(t, {"unpin"}, r) > 0 => r \in tok[run[r].token].pins

(* While a run is active its token stays held, whoever closes or drops the *)
(* token: no other process gets between two mutations of one run.          *)
RunKeepsLock == \A r \in Runs : run[r].st = "active" => tok[run[r].token].st = "held" /\ ~outsider

(* Two threads never write under the lock at the same time. *)
OneWriter == \A t, u \in Threads : Top(t).kind = "lock" /\ Top(u).kind = "lock" => t = u

(* A close that had to wait is carried out by whoever lets go last: the    *)
(* lock is not leaked, and other processes can write again.                *)
NotLeaked ==
  /\ \A k \in Tokens : tok[k].closeRequested /\ tok[k].pins = {} /\ ~Borrowed(tok[k]) => tok[k].st = "gone"
  /\ \A r \in Runs : run[r].closing /\ ~Borrowed(run[r]) => run[r].st = "gone"

(* How leases nest: a lock lease lies on the lease of its run, other leases *)
(* on a lock lease, and the release of a pin is the last thing a thread    *)
(* has to do.                                                              *)
Follows(b, x) ==
  \/ x.kind = "lock" /\ b.kind \in {"entry", "none", "run"} /\ b.run = x.run
  \/ x.kind = "unpin" /\ b.kind # "unpin"
  \/ x.kind \in {"managed", "entry", "none", "left", "ending"} /\ b.kind = "lock"
Nested(s) == /\ \A i \in 1..Len(s) - 1 : Follows(s[i], s[i + 1])
             /\ s # <<>> => s[1].kind # "lock"
StacksInv == \A t \in Threads : /\ Nested(ops[t])
                               /\ Len(ops[t]) <= (IF Top(t).kind = "unpin" THEN MaxDepth + 1 ELSE MaxDepth)

(* The counts of both registries are the leases there are, and what is not *)
(* active or held has none.                                                *)
RunLeases == {"entry", "run", "ending"}
Holding(k) == {r \in Runs : run[r].token = k}
RunsInv ==
  \A r \in Runs :
    /\ run[r].st = "unborn" => run[r].token = None /\ ~run[r].closing /\ ~RunHeld(r)
    /\ run[r].st # "unborn" => run[r].token \in Tokens
    /\ run[r].st # "active" => ~Borrowed(run[r])
    /\ \A t \in Threads : run[r].owners[t] = Count(ops[t], RunLeases, {r})
TokensInv ==
  \A k \in Tokens :
       /\ tok[k].pins # {} \/ Borrowed(tok[k]) => tok[k].st = "held"
       /\ tok[k].st = "held" => ~outsider /\ \A j \in Tokens : tok[j].st = "held" => j = k
       /\ \A t, u \in Threads : tok[k].owners[t] > 0 /\ tok[k].owners[u] > 0 => t = u
       /\ \A t \in Threads : tok[k].owners[t] = Count(ops[t], {"lock"}, Holding(k))

(* Every active run has its token pinned, and so has a run that is gone    *)
(* until the one thread that has to has released the pin.                  *)
PinsInv ==
  /\ \A r \in Runs : run[r].st = "active" => r \in tok[run[r].token].pins
  /\ \A t \in Threads : Top(t).kind = "unpin" =>
       /\ run[Top(t).run].st = "gone" /\ Top(t).run \in tok[run[Top(t).run].token].pins
       /\ \A u \in Threads : Top(u).kind = "unpin" /\ Top(u).run = Top(t).run => u = t

(* The registries under every interleaving: no lease or run is undercut,   *)
(* no two threads write at once, and no delayed close is forgotten.        *)
CapabilityInv ==
  /\ TypeOK /\ StacksInv /\ RunsInv /\ TokensInv /\ PinsInv
  /\ LeasesHonoured /\ RunKeepsLock /\ OneWriter /\ NotLeaked

(* A run that is asked to close does so, whatever other threads try to     *)
(* begin meanwhile, and its token is released after it, unless another run *)
(* was given the token between the two mutexes.                            *)
CloseTakesEffect ==
  \A r \in Runs : run[r].closing ~>
    run[r].st = "gone" /\ (tok[run[r].token].st = "gone" \/ \E q \in Runs \ {r} : run[q].token = run[r].token)
=============================================================================
