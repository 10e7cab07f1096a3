------------------------ MODULE MessageArchiveProofs ------------------------
(***************************************************************************)
(* Proofs about the two halves of rich_message_archive.py.                 *)
(*                                                                         *)
(* The capabilities of the archive, for every set of threads, tokens and   *)
(* runs and every depth of nesting: no operation loses the lock under its  *)
(* feet, an active run keeps it, two threads never write at once, and a    *)
(* close that had to wait is never forgotten.                              *)
(*                                                                         *)
(* The record of one message, for every clock, quota, CDN and set of       *)
(* contents: the reading shown is the newest, every receipt matches its    *)
(* file, no reading is lost, and a merge is refused for an outside cause   *)
(* only.  apply_asset_results replays the observations over one set of     *)
(* files by recursion on the clock; what every replay returns is shown at  *)
(* the first tick at which it could fail.                                  *)
(***************************************************************************)
EXTENDS ArchiveCapability, RichRecord, FiniteSetTheorems, SequenceTheorems, WellFoundedInduction, TLAPS

-----------------------------------------------------------------------------
\* The least of some numbers: intervals, ordered by inclusion, are
\* well-founded.
LEMMA LeastOf ==
    ASSUME NEW T \in SUBSET Nat, T # {}
    PROVE  \E x \in T : \A y \in T : x <= y
<1> DEFINE spans == {1..x : x \in T}
<1>1. spans \in SUBSET FiniteSubsetsOf(Nat) /\ spans # {}
  <2>1. ASSUME NEW x \in T PROVE 1..x \in FiniteSubsetsOf(Nat)
    <3>1. IsFiniteSet(1..x) /\ 1..x \in SUBSET Nat
      BY FS_Interval
    <3> QED
      BY <3>1 DEF FiniteSubsetsOf
  <2> QED
    BY <2>1
<1>2. PICK least \in spans : \A s \in spans : ~(<<s, least>> \in StrictSubsetOrdering(Nat))
  BY <1>1, WFMin, FS_StrictSubsetOrderingWellFounded
<1>3. PICK x \in T : least = 1..x
  BY <1>2
<1>4. ASSUME NEW y \in T, y < x PROVE FALSE
  <2>1. 1..y \in SUBSET Nat /\ 1..x \in SUBSET Nat /\ 1..y \subseteq 1..x
    BY <1>4
  <2>2. x \in 1..x /\ x \notin 1..y
    BY <1>4
  <2>3. <<1..y, 1..x>> \in StrictSubsetOrdering(Nat)
    BY <2>1, <2>2 DEF StrictSubsetOrdering
  <2> QED
    BY <1>2, <1>3, <2>3
<1> QED
  BY <1>4

\* The greatest of some numbers below a bound.
LEMMA GreatestOf ==
    ASSUME NEW n \in Nat, NEW T \in SUBSET (0..n), T # {}
    PROVE  \E x \in T : \A y \in T : y <= x
<1> DEFINE below == {n - x : x \in T}
<1>1. below \in SUBSET Nat /\ below # {}
  <2>1. \A x \in T : x \in 0..n /\ n - x \in Nat
    OBVIOUS
  <2> QED
    BY <2>1
<1>2. PICK b \in below : \A y \in below : b <= y
  <2> HIDE DEF below
  <2> QED
    BY <1>1, LeastOf
<1>3. PICK x \in T : b = n - x
  BY <1>2
<1>4. \A y \in T : n - x <= n - y
  BY <1>2, <1>3
<1> QED
  BY <1>4

-----------------------------------------------------------------------------
USE DepthAssumption, NoneAssumption

-----------------------------------------------------------------------------
(* Stacks: the last element and what is below it.                          *)

LEMMA Split ==
    ASSUME NEW s \in Seq(Lease), s # <<>>
    PROVE  /\ Front(s) \in Seq(Lease) /\ Last(s) \in Lease /\ Len(s) \in Nat \ {0}
           /\ s = Append(Front(s), Last(s)) /\ Len(s) = Len(Front(s)) + 1
<1> DEFINE n == Len(s)
<1>1. n \in Nat /\ n > 0
  OBVIOUS
<1>2. Front(s) \in Seq(Lease) /\ Len(Front(s)) = n - 1 /\ \A i \in 1..n - 1 : Front(s)[i] = s[i]
  <2>1. \A i \in 1..n - 1 : s[i] \in Lease
    BY <1>1
  <2>2. n - 1 \in Int /\ 1 \in Int
    BY <1>1
  <2>3. /\ SubSeq(s, 1, n - 1) \in Seq(Lease)
        /\ Len(SubSeq(s, 1, n - 1)) = IF 1 <= n - 1 THEN n - 1 - 1 + 1 ELSE 0
        /\ \A i \in 1..n - 1 - 1 + 1 : SubSeq(s, 1, n - 1)[i] = s[1 + i - 1]
    BY <2>1, <2>2, SubSeqProperties
  <2>4. /\ n - 1 - 1 + 1 = n - 1
        /\ (IF 1 <= n - 1 THEN n - 1 - 1 + 1 ELSE 0) = n - 1
        /\ \A i \in Int : 1 + i - 1 = i
    <3> HIDE DEF n
    <3>1. \A i \in Int : 1 + i - 1 = i
      OBVIOUS
    <3> QED
      BY <1>1, <3>1
  <2> QED
    BY <2>3, <2>4 DEF Front
<1>3. Last(s) \in Lease
  BY <1>1 DEF Last
<1>4. s = Append(Front(s), Last(s))
  BY <1>1, <1>2, <1>3 DEF Last
<1> QED
  BY <1>1, <1>2, <1>3, <1>4

LEMMA Joined ==
    ASSUME NEW s \in Seq(Lease), NEW x \in Lease
    PROVE  /\ Append(s, x) \in Seq(Lease) /\ Append(s, x) # <<>> /\ Len(Append(s, x)) = Len(s) + 1
           /\ Front(Append(s, x)) = s /\ Last(Append(s, x)) = x
<1>1. Append(s, x) \in Seq(Lease) /\ Len(Append(s, x)) = Len(s) + 1 /\ Len(s) \in Nat
  OBVIOUS
<1>2. Append(s, x) # <<>>
  BY <1>1
<1>3. Front(Append(s, x)) = s
  BY <1>1 DEF Front
<1> QED
  BY <1>1, <1>2, <1>3 DEF Last

-----------------------------------------------------------------------------
(* Counting leases.                                                        *)

LEMMA CountFinite ==
    ASSUME NEW s \in Seq(Lease), NEW K, NEW R
    PROVE  /\ IsFiniteSet({i \in DOMAIN s : s[i].kind \in K /\ s[i].run \in R})
           /\ Count(s, K, R) \in Nat /\ Count(s, K, R) <= Len(s)
<1> DEFINE S == {i \in DOMAIN s : s[i].kind \in K /\ s[i].run \in R}
<1>1. IsFiniteSet(1..Len(s)) /\ Cardinality(1..Len(s)) = Len(s)
  BY FS_Interval, Len(s) \in Nat
<1>2. S \subseteq 1..Len(s)
  OBVIOUS
<1>3. IsFiniteSet(S) /\ Cardinality(S) <= Len(s)
  BY <1>1, <1>2, FS_Subset
<1>4. Cardinality(S) \in Nat
  BY <1>3, FS_CardinalityType
<1> QED
  BY <1>3, <1>4 DEF Count

LEMMA CountBound ==
    ASSUME NEW s \in Seq(Lease), NEW K, NEW R
    PROVE  Count(s, K, R) \in Nat /\ Count(s, K, R) <= Len(s) /\ Len(s) \in Nat
<1>1. Count(s, K, R) \in Nat /\ Count(s, K, R) <= Len(s)
  BY CountFinite
<1> QED
  BY <1>1

LEMMA CountEmpty ==
    ASSUME NEW K, NEW R
    PROVE  Count(<<>>, K, R) = 0
<1>1. {i \in DOMAIN <<>> : <<>>[i].kind \in K /\ <<>>[i].run \in R} = {}
  OBVIOUS
<1> QED
  BY <1>1, FS_EmptySet DEF Count

LEMMA CountAppend ==
    ASSUME NEW s \in Seq(Lease), NEW x \in Lease, NEW K, NEW R
    PROVE  Count(Append(s, x), K, R) = Count(s, K, R) + (IF x.kind \in K /\ x.run \in R THEN 1 ELSE 0)
<1> DEFINE S == {i \in DOMAIN s : s[i].kind \in K /\ s[i].run \in R}
           a == Append(s, x)
           A == {i \in DOMAIN a : a[i].kind \in K /\ a[i].run \in R}
           n == Len(s)
<1>1. n \in Nat /\ DOMAIN s = 1..n /\ DOMAIN a = 1..n + 1 /\ a[n + 1] = x /\ \A i \in 1..n : a[i] = s[i]
  OBVIOUS
<1>2. n + 1 \notin S /\ IsFiniteSet(S) /\ Cardinality(S) \in Nat
  <2>1. n + 1 \notin S
    BY <1>1
  <2>2. IsFiniteSet(S) /\ Count(s, K, R) \in Nat
    BY CountFinite
  <2> QED
    BY <2>1, <2>2 DEF Count
<1>3. CASE x.kind \in K /\ x.run \in R
  <2>1. A = S \cup {n + 1}
    BY <1>1, <1>3
  <2> QED
    <3>1. Cardinality(A) = Cardinality(S) + 1
      BY <2>1, <1>2, FS_AddElement
    <3> QED
      BY <3>1, <1>3 DEF Count
<1>4. CASE ~(x.kind \in K /\ x.run \in R)
  <2>1. A = S
    BY <1>1, <1>4
  <2>2. Count(a, K, R) = Count(s, K, R) /\ Count(s, K, R) \in Nat
    BY <2>1, <1>2 DEF Count
  <2> QED
    BY <2>2, <1>4
<1> QED
  BY <1>3, <1>4

LEMMA CountPositive ==
    ASSUME NEW s \in Seq(Lease), NEW K, NEW R
    PROVE  Count(s, K, R) > 0 <=> \E i \in DOMAIN s : s[i].kind \in K /\ s[i].run \in R
<1> DEFINE S == {i \in DOMAIN s : s[i].kind \in K /\ s[i].run \in R}
<1>1. IsFiniteSet(S) /\ Cardinality(S) \in Nat
  BY CountFinite DEF Count
<1>2. Cardinality(S) = 0 <=> S = {}
  BY <1>1, FS_EmptySet
<1> QED
  BY <1>1, <1>2 DEF Count

LEMMA CountMonotone ==
    ASSUME NEW s \in Seq(Lease), NEW K, NEW R, NEW Q,
           \A i \in DOMAIN s : s[i].run \in R => s[i].run \in Q
    PROVE  Count(s, K, R) <= Count(s, K, Q)
<1> DEFINE S == {i \in DOMAIN s : s[i].kind \in K /\ s[i].run \in R}
           T == {i \in DOMAIN s : s[i].kind \in K /\ s[i].run \in Q}
<1>1. S \subseteq T
  OBVIOUS
<1>2. IsFiniteSet(T)
  BY CountFinite
<1>3. Cardinality(S) <= Cardinality(T)
  BY <1>1, <1>2, FS_Subset
<1> QED
  BY <1>3 DEF Count

InStack(s, r) == \E i \in DOMAIN s : s[i].run = r

LEMMA CountUnheld ==
    ASSUME NEW s \in Seq(Lease), NEW K, NEW R, NEW r, ~InStack(s, r)
    PROVE  Count(s, K, R \cup {r}) = Count(s, K, R)
<1>1. {i \in DOMAIN s : s[i].kind \in K /\ s[i].run \in R \cup {r}} = {i \in DOMAIN s : s[i].kind \in K /\ s[i].run \in R}
  BY DEF InStack
<1> QED
  BY <1>1 DEF Count

-----------------------------------------------------------------------------
(* Nesting.                                                                *)

Fits(s, x) == IF s = <<>> THEN x.kind # "lock" ELSE Follows(Last(s), x)

LEMMA NestedAppend ==
    ASSUME NEW s \in Seq(Lease), NEW x \in Lease
    PROVE  Nested(Append(s, x)) <=> Nested(s) /\ Fits(s, x)
<1> DEFINE a == Append(s, x)
           n == Len(s)
<1>1. n \in Nat /\ Len(a) = n + 1 /\ a[n + 1] = x /\ (\A i \in 1..n : a[i] = s[i]) /\ a # <<>>
  BY Joined
<1>2. CASE s = <<>>
  BY <1>1, <1>2 DEF Nested, Fits
<1>3. CASE s # <<>>
  <2>1. n > 0 /\ a[1] = s[1] /\ Last(s) = a[n]
    BY <1>1, <1>3 DEF Last
  <2>2. (\A i \in 1..Len(a) - 1 : Follows(a[i], a[i + 1]))
          <=> (\A i \in 1..n - 1 : Follows(s[i], s[i + 1])) /\ Follows(a[n], a[n + 1])
    <3>1. 1..Len(a) - 1 = (1..n - 1) \cup {n}
      BY <1>1, <2>1
    <3>2. \A i \in 1..n - 1 : a[i] = s[i] /\ a[i + 1] = s[i + 1]
      BY <1>1
    <3> QED
      BY <3>1, <3>2
  <2> QED
    BY <1>1, <1>3, <2>1, <2>2 DEF Nested, Fits
<1> QED
  BY <1>2, <1>3

LEMMA InAppend ==
    ASSUME NEW s \in Seq(Lease), NEW x \in Lease, NEW r
    PROVE  InStack(Append(s, x), r) <=> InStack(s, r) \/ x.run = r
<1> DEFINE a == Append(s, x)
           n == Len(s)
<1>1. n \in Nat /\ DOMAIN s = 1..n /\ DOMAIN a = 1..n + 1 /\ a[n + 1] = x /\ \A i \in 1..n : a[i] = s[i]
  OBVIOUS
<1> QED
  BY <1>1 DEF InStack

-----------------------------------------------------------------------------
(* The inductive part of CapabilityInv, and what one thread's step does to *)
(* its stack and to the counts.                                            *)

Ind == TypeOK /\ StacksInv /\ RunsInv /\ TokensInv /\ PinsInv /\ NotLeaked

LEMMA TopLease ==
    ASSUME TypeOK, NEW t \in Threads, Top(t).kind # "idle"
    PROVE  /\ ops[t] \in Seq(Lease) /\ ops[t] # <<>> /\ Top(t) = Last(ops[t]) /\ Top(t) \in Lease
           /\ Front(ops[t]) \in Seq(Lease) /\ ops[t] = Append(Front(ops[t]), Top(t))
           /\ Len(ops[t]) = Len(Front(ops[t])) + 1
           /\ RunHeld(Top(t).run) /\ Top(t).run \in Runs
<1>1. ops[t] \in Seq(Lease) /\ ops[t] # <<>> /\ Top(t) = Last(ops[t])
  BY DEF TypeOK, Top
<1>2. /\ Front(ops[t]) \in Seq(Lease) /\ Last(ops[t]) \in Lease /\ Len(ops[t]) \in Nat \ {0}
      /\ ops[t] = Append(Front(ops[t]), Last(ops[t])) /\ Len(ops[t]) = Len(Front(ops[t])) + 1
  BY <1>1, Split
<1>3. Len(ops[t]) \in DOMAIN ops[t] /\ ops[t][Len(ops[t])] = Top(t)
  BY <1>1, <1>2 DEF Last
<1>4. Top(t).run \in Runs
  BY <1>1, <1>2 DEF Lease
<1> QED
  BY <1>1, <1>2, <1>3, <1>4 DEF RunHeld

LEMMA NoTop ==
    ASSUME TypeOK, NEW t \in Threads
    PROVE  Top(t).kind = "idle" <=> ops[t] = <<>>
<1>1. CASE ops[t] = <<>>
  BY <1>1 DEF Top
<1>2. CASE ops[t] # <<>>
  <2>1. ops[t] \in Seq(Lease)
    BY DEF TypeOK
  <2>2. Last(ops[t]) \in Lease
    BY <1>2, <2>1, Split
  <2> QED
    BY <1>2, <2>2 DEF Top, Lease
<1> QED
  BY <1>1, <1>2

LEMMA StackStep ==
    ASSUME TypeOK, StacksInv, NEW t \in Threads, NEW s \in Seq(Lease), ops' = [ops EXCEPT ![t] = s],
           Nested(s), Len(s) <= MaxDepth \/ (s # <<>> /\ Last(s).kind = "unpin" /\ Len(s) <= MaxDepth + 1)
    PROVE  /\ ops' \in [Threads -> Seq(Lease)] /\ StacksInv' /\ ops'[t] = s
           /\ \A u \in Threads \ {t} : ops'[u] = ops[u] /\ Top(u)' = Top(u)
           /\ Top(t)' = IF s = <<>> THEN [kind |-> "idle", run |-> None] ELSE Last(s)
<1>1. ops \in [Threads -> Seq(Lease)]
  BY DEF TypeOK
<1>2. ops' \in [Threads -> Seq(Lease)] /\ ops'[t] = s /\ \A u \in Threads \ {t} : ops'[u] = ops[u]
  BY <1>1
<1>3. \A u \in Threads \ {t} : Top(u)' = Top(u)
  BY <1>2 DEF Top
<1>4. Top(t)' = IF s = <<>> THEN [kind |-> "idle", run |-> None] ELSE Last(s)
  BY <1>2 DEF Top
<1>5. ASSUME NEW u \in Threads
      PROVE  /\ Nested(ops'[u])
             /\ Len(ops'[u]) <= (IF Top(u)'.kind = "unpin" THEN MaxDepth + 1 ELSE MaxDepth)
  <2>1. CASE u = t
    <3>1. Len(s) \in Nat
      OBVIOUS
    <3> QED
      BY <2>1, <3>1, <1>2, <1>4
  <2>2. CASE u # t
    BY <2>2, <1>2, <1>3 DEF StacksInv
  <2> QED
    BY <2>1, <2>2
<1> QED
  BY <1>2, <1>3, <1>4, <1>5 DEF StacksInv

(* The runs a step brings into a stack are the ones it had and one more. *)
LEMMA HeldStep ==
    ASSUME NEW t \in Threads, \A u \in Threads \ {t} : ops'[u] = ops[u],
           NEW q \in Runs, \A r \in Runs : InStack(ops'[t], r) => InStack(ops[t], r) \/ r = q
    PROVE  \A r \in Runs : RunHeld(r)' => RunHeld(r) \/ r = q
<1> SUFFICES ASSUME NEW r \in Runs, RunHeld(r)', r # q PROVE RunHeld(r)
  OBVIOUS
<1>1. PICK u \in Threads : \E i \in DOMAIN ops'[u] : ops'[u][i].run = r
  BY DEF RunHeld
<1>2. CASE u = t
  BY <1>1, <1>2 DEF InStack, RunHeld
<1>3. CASE u # t
  BY <1>1, <1>3 DEF RunHeld
<1> QED
  BY <1>2, <1>3
-----------------------------------------------------------------------------
(* Steps that touch the tokens only.                                       *)

LEMMA Still ==
    ASSUME UNCHANGED ops
    PROVE  /\ \A t \in Threads : Top(t)' = Top(t)
           /\ \A r \in Runs : RunHeld(r)' <=> RunHeld(r)
           /\ StacksInv' = StacksInv
BY DEF Top, RunHeld, StacksInv, Nested

LEMMA Unheld ==
    ASSUME TypeOK, TokensInv, NEW k \in Tokens, tok[k].st # "held"
    PROVE  tok[k].pins = {} /\ ~Borrowed(tok[k]) /\ \A t \in Threads : tok[k].owners[t] = 0
<1>1. tok[k].owners \in [Threads -> 0..MaxDepth]
  BY DEF TypeOK, Token
<1>2. tok[k].pins = {} /\ ~Borrowed(tok[k])
  BY DEF TokensInv
<1> QED
  BY <1>1, <1>2 DEF Borrowed

LEMMA TokenFrame ==
    ASSUME Ind, UNCHANGED <<run, ops, outsider>>, tok' \in [Tokens -> Token],
           \A k \in Tokens :
             /\ tok'[k].owners = tok[k].owners /\ tok'[k].pins = tok[k].pins
             /\ \/ tok'[k].st = tok[k].st
                \/ tok'[k].st = "gone" /\ tok[k].pins = {} /\ ~Borrowed(tok[k])
             /\ tok'[k].closeRequested =>
                  tok[k].closeRequested \/ (tok[k].pins = {} /\ ~Borrowed(tok[k]) => tok'[k].st = "gone")
    PROVE  Ind'
<1> USE DEF Ind
<1>1. TypeOK'
  BY DEF TypeOK
<1>2. StacksInv' /\ RunsInv'
  BY Still DEF RunsInv
<1>3. TokensInv'
  <2>1. \A k \in Tokens : Borrowed(tok'[k]) = Borrowed(tok[k]) /\ Holding(k)' = Holding(k)
    BY DEF Borrowed, Holding
  <2> QED
    BY <2>1 DEF TokensInv
<1>4. PinsInv'
  <2>1. \A r \in Runs : run[r].st = "active" \/ run[r].st = "gone" => run[r].token \in Tokens
    BY DEF RunsInv
  <2>2. ASSUME NEW r \in Runs, run'[r].st = "active"
        PROVE  r \in tok'[run'[r].token].pins
    BY <2>1, <2>2 DEF PinsInv
  <2>3. ASSUME NEW t \in Threads, Top(t)'.kind = "unpin"
        PROVE  /\ run'[Top(t)'.run].st = "gone" /\ Top(t)'.run \in tok'[run'[Top(t)'.run].token].pins
               /\ \A u \in Threads : Top(u)'.kind = "unpin" /\ Top(u)'.run = Top(t)'.run => u = t
    <3>1. \A u \in Threads : Top(u)' = Top(u)
      BY Still
    <3>2. Top(t).run \in Runs
      BY <2>3, <3>1, TopLease
    <3> QED
      BY <2>1, <2>3, <3>1, <3>2 DEF PinsInv
  <2> QED
    BY <2>2, <2>3 DEF PinsInv
<1>5. NotLeaked'
  BY DEF NotLeaked, Borrowed
<1> QED
  BY <1>1, <1>2, <1>3, <1>4, <1>5

LEMMA Released ==
    ASSUME NEW T \in [Tokens -> Token], NEW k \in Tokens, NEW U, U = ReleaseRegistration(T, k)
    PROVE  /\ U \in [Tokens -> Token]
           /\ \A j \in Tokens \ {k} : U[j] = T[j]
           /\ U[k].owners = T[k].owners /\ U[k].pins = T[k].pins
           /\ U[k].st = IF T[k].pins = {} /\ ~Borrowed(T[k]) THEN "gone" ELSE T[k].st
<1>1. T[k] \in Token
  OBVIOUS
<1>2. CASE T[k].pins # {}
  BY <1>1, <1>2 DEF ReleaseRegistration, Borrowed, Token
<1>3. CASE T[k].pins = {} /\ Borrowed(T[k])
  BY <1>1, <1>3 DEF ReleaseRegistration, Borrowed, Token
<1>4. CASE T[k].pins = {} /\ ~Borrowed(T[k])
  BY <1>1, <1>4 DEF ReleaseRegistration, Borrowed, Token
<1> QED
  BY <1>2, <1>3, <1>4

LEMMA ReleaseStep ==
    ASSUME Ind, NEW k \in Tokens, tok' = ReleaseRegistration(tok, k), UNCHANGED <<run, ops, outsider>>
    PROVE  Ind'
<1>1. tok \in [Tokens -> Token]
  BY DEF Ind, TypeOK
<1>2. /\ tok' \in [Tokens -> Token]
      /\ \A j \in Tokens \ {k} : tok'[j] = tok[j]
      /\ tok'[k].owners = tok[k].owners /\ tok'[k].pins = tok[k].pins
      /\ tok'[k].st = IF tok[k].pins = {} /\ ~Borrowed(tok[k]) THEN "gone" ELSE tok[k].st
  BY <1>1, Released
<1>3. \A j \in Tokens :
             /\ tok'[j].owners = tok[j].owners /\ tok'[j].pins = tok[j].pins
             /\ \/ tok'[j].st = tok[j].st
                \/ tok'[j].st = "gone" /\ tok[j].pins = {} /\ ~Borrowed(tok[j])
             /\ tok'[j].closeRequested =>
                  tok[j].closeRequested \/ (tok[j].pins = {} /\ ~Borrowed(tok[j]) => tok'[j].st = "gone")
  BY <1>2
<1> QED
  BY <1>2, <1>3, TokenFrame

LEMMA DropTokenStep ==
    ASSUME Ind, NEW k \in Tokens, DropToken(k)
    PROVE  Ind'
<1>1. tok \in [Tokens -> Token] /\ UNCHANGED <<run, ops, outsider>>
  BY DEF Ind, TypeOK, DropToken
<1>2. tok' = [tok EXCEPT ![k].kept = FALSE]
  BY DEF DropToken
<1>3. tok' \in [Tokens -> Token]
  BY <1>1, <1>2 DEF Token
<1>4. \A j \in Tokens : /\ tok'[j].owners = tok[j].owners /\ tok'[j].pins = tok[j].pins
                        /\ tok'[j].st = tok[j].st /\ tok'[j].closeRequested = tok[j].closeRequested
  BY <1>1, <1>2 DEF Token
<1> QED
  BY <1>1, <1>3, <1>4, TokenFrame

LEMMA OutsiderStep ==
    ASSUME Ind, OutsiderLocks \/ OutsiderUnlocks
    PROVE  Ind'
<1> USE DEF Ind
<1>1. UNCHANGED <<tok, run, ops>> /\ outsider' \in BOOLEAN /\ (outsider' => \A k \in Tokens : tok[k].st # "held")
  BY DEF OutsiderLocks, OutsiderUnlocks
<1>2. TypeOK' /\ NotLeaked'
  BY <1>1 DEF TypeOK, NotLeaked, Borrowed
<1>3. StacksInv' /\ RunsInv' /\ PinsInv'
  <2>1. StacksInv' /\ PinsInv'
    BY <1>1, Still DEF PinsInv
  <2>2. RunsInv'
    BY <1>1, Still DEF RunsInv, Borrowed
  <2> QED
    BY <2>1, <2>2
<1>4. TokensInv'
  BY <1>1 DEF TokensInv, Holding, Borrowed
<1> QED
  BY <1>2, <1>3, <1>4

LEMMA AcquireStep ==
    ASSUME Ind, NEW k \in Tokens, AcquireLock(k)
    PROVE  Ind'
<1> USE DEF Ind
<1>1. /\ tok \in [Tokens -> Token] /\ UNCHANGED <<run, ops, outsider>> /\ ~outsider
      /\ tok[k].st = "unborn" /\ \A j \in Tokens : tok[j].st # "held"
      /\ tok' = [tok EXCEPT ![k].st = "held", ![k].kept = TRUE]
  BY DEF TypeOK, AcquireLock
<1>2. /\ tok' \in [Tokens -> Token] /\ tok'[k].st = "held"
      /\ \A j \in Tokens : /\ tok'[j].owners = tok[j].owners /\ tok'[j].pins = tok[j].pins
                           /\ tok'[j].closeRequested = tok[j].closeRequested
      /\ \A j \in Tokens \ {k} : tok'[j] = tok[j]
  BY <1>1 DEF Token
<1>3. \A j \in Tokens : Borrowed(tok'[j]) = Borrowed(tok[j]) /\ Holding(j)' = Holding(j)
  BY <1>1, <1>2 DEF Borrowed, Holding
<1>4. tok[k].pins = {} /\ ~Borrowed(tok[k])
  BY <1>1, Unheld
<1>5. TypeOK' /\ StacksInv' /\ RunsInv'
  <2>1. TypeOK'
    BY <1>1, <1>2 DEF TypeOK
  <2>2. StacksInv'
    BY <1>1, <1>2, Still
  <2>3. \A q \in Runs : RunHeld(q)' <=> RunHeld(q)
    BY <1>1, <1>2, Still
  <2>4. RunsInv'
    <3>1. ASSUME NEW q \in Runs
          PROVE  /\ run[q].st = "unborn" => ~RunHeld(q)'
      BY <2>3 DEF RunsInv
    <3>2. ASSUME NEW q \in Runs
          PROVE  \A t \in Threads : run'[q].owners[t] = Count(ops'[t], RunLeases, {q})
      BY <1>1 DEF RunsInv
    <3>3. ASSUME NEW q \in Runs
          PROVE  /\ run'[q].st = "unborn" => run'[q].token = None /\ ~run'[q].closing
                 /\ run'[q].st # "unborn" => run'[q].token \in Tokens
                 /\ run'[q].st # "active" => ~Borrowed(run'[q])
      BY <1>1 DEF RunsInv
    <3> QED
      BY <1>1, <3>1, <3>2, <3>3 DEF RunsInv
  <2> QED
    BY <2>1, <2>2, <2>4
<1>6. TokensInv'
  BY <1>1, <1>2, <1>3 DEF TokensInv
<1>7. PinsInv'
  <2>1. \A r \in Runs : run[r].st # "unborn" => run[r].token \in Tokens
    BY DEF RunsInv
  <2>2. \A t \in Threads : Top(t)' = Top(t)
    BY <1>1, Still
  <2>3. \A t \in Threads : Top(t).kind = "unpin" => Top(t).run \in Runs
    BY TopLease
  <2> QED
    BY <1>1, <1>2, <2>1, <2>2, <2>3 DEF PinsInv
<1>8. NotLeaked'
  BY <1>1, <1>2, <1>3, <1>4 DEF NotLeaked
<1> QED
  BY <1>5, <1>6, <1>7, <1>8

-----------------------------------------------------------------------------
(* Steps that touch the runs only.                                         *)

LEMMA DropRunStep ==
    ASSUME Ind, NEW r \in Runs, DropRun(r)
    PROVE  Ind'
<1> USE DEF Ind
<1>1. run \in [Runs -> Context] /\ UNCHANGED <<tok, ops, outsider>> /\ run' = [run EXCEPT ![r].kept = FALSE]
  BY DEF TypeOK, DropRun
<1>2. /\ run' \in [Runs -> Context]
      /\ \A q \in Runs : /\ run'[q].st = run[q].st /\ run'[q].token = run[q].token
                         /\ run'[q].owners = run[q].owners /\ run'[q].closing = run[q].closing
  BY <1>1 DEF Context
<1>3. \A q \in Runs : Borrowed(run'[q]) = Borrowed(run[q])
  BY <1>2 DEF Borrowed
<1>4. \A k \in Tokens : Holding(k)' = Holding(k)
  BY <1>2 DEF Holding
<1>5. \A t \in Threads : Top(t).kind = "unpin" => Top(t).run \in Runs
  BY TopLease
<1>6. TypeOK' /\ StacksInv' /\ RunsInv'
  <2>1. TypeOK'
    BY <1>1, <1>2, <1>3 DEF TypeOK
  <2>2. StacksInv'
    BY <1>1, <1>2, <1>3, Still
  <2>3. \A q \in Runs : RunHeld(q)' <=> RunHeld(q)
    BY <1>1, <1>2, <1>3, Still
  <2>4. RunsInv'
    <3>1. ASSUME NEW q \in Runs
          PROVE  run'[q].st = "unborn" => ~RunHeld(q)'
      BY <1>1, <1>2, <1>3, <2>3 DEF RunsInv
    <3>2. ASSUME NEW q \in Runs
          PROVE  \A t \in Threads : run'[q].owners[t] = Count(ops'[t], RunLeases, {q})
      <4>1. run'[q].owners = run[q].owners
        BY <1>2
      <4>2. \A t \in Threads : run[q].owners[t] = Count(ops[t], RunLeases, {q})
        BY DEF RunsInv
      <4> QED
        BY <1>1, <4>1, <4>2
    <3>3. ASSUME NEW q \in Runs
          PROVE  /\ run'[q].st = "unborn" => run'[q].token = None /\ ~run'[q].closing
                 /\ run'[q].st # "unborn" => run'[q].token \in Tokens
                 /\ run'[q].st # "active" => ~Borrowed(run'[q])
      BY <1>1, <1>2, <1>3 DEF RunsInv
    <3> QED
      BY <3>1, <3>2, <3>3 DEF RunsInv
  <2> QED
    BY <2>1, <2>2, <2>4
<1>7. TokensInv'
  BY <1>1, <1>4 DEF TokensInv, Borrowed
<1>8. PinsInv'
  BY <1>1, <1>2, <1>5, Still DEF PinsInv
<1>9. NotLeaked'
  BY <1>1, <1>2, <1>3 DEF NotLeaked, Borrowed
<1> QED
  BY <1>6, <1>7, <1>8, <1>9

LEMMA MintStep ==
    ASSUME Ind, NEW r \in Runs, NEW k \in Tokens, MintRun(r, k)
    PROVE  Ind'
<1> USE DEF Ind
<1>1. /\ run \in [Runs -> Context] /\ tok \in [Tokens -> Token] /\ UNCHANGED <<ops, outsider>>
      /\ run[r].st = "unborn" /\ tok[k].st = "held"
      /\ tok' = [tok EXCEPT ![k].pins = @ \cup {r}]
      /\ run' = [run EXCEPT ![r].st = "active", ![r].token = k, ![r].kept = TRUE]
  BY DEF TypeOK, MintRun
<1>2. /\ run' \in [Runs -> Context] /\ run'[r].st = "active" /\ run'[r].token = k
      /\ run'[r].owners = run[r].owners /\ run'[r].closing = run[r].closing
      /\ \A q \in Runs \ {r} : run'[q] = run[q]
  BY <1>1 DEF Context
<1>3. /\ tok' \in [Tokens -> Token] /\ tok'[k].pins = tok[k].pins \cup {r}
      /\ \A j \in Tokens : /\ tok'[j].owners = tok[j].owners /\ tok'[j].st = tok[j].st
                           /\ tok'[j].closeRequested = tok[j].closeRequested
      /\ \A j \in Tokens \ {k} : tok'[j] = tok[j]
  BY <1>1 DEF Token
<1>4. run[r].token = None /\ ~run[r].closing /\ ~RunHeld(r)
  BY <1>1 DEF RunsInv
<1>5. Holding(k)' = Holding(k) \cup {r} /\ \A j \in Tokens \ {k} : Holding(j)' = Holding(j)
  BY <1>2, <1>4 DEF Holding
<1>6. \A q \in Runs : Borrowed(run'[q]) = Borrowed(run[q])
  BY <1>2 DEF Borrowed
<1>7. \A j \in Tokens : Borrowed(tok'[j]) = Borrowed(tok[j])
  BY <1>3 DEF Borrowed
<1>8. \A t \in Threads : Top(t).kind = "unpin" => Top(t).run \in Runs
  BY TopLease
<1>9. TypeOK' /\ StacksInv' /\ RunsInv'
  <2>1. TypeOK'
    BY <1>1, <1>2, <1>3, <1>4, <1>6 DEF TypeOK
  <2>2. StacksInv'
    BY <1>1, <1>2, <1>3, <1>4, <1>6, Still
  <2>3. \A q \in Runs : RunHeld(q)' <=> RunHeld(q)
    BY <1>1, <1>2, <1>3, <1>4, <1>6, Still
  <2>4. RunsInv'
    <3>1. ASSUME NEW q \in Runs
          PROVE  run'[q].st = "unborn" => ~RunHeld(q)'
      BY <1>1, <1>2, <1>3, <1>4, <1>6, <2>3 DEF RunsInv
    <3>2. ASSUME NEW q \in Runs
          PROVE  \A t \in Threads : run'[q].owners[t] = Count(ops'[t], RunLeases, {q})
      <4>1. run'[q].owners = run[q].owners
        BY <1>2
      <4>2. \A t \in Threads : run[q].owners[t] = Count(ops[t], RunLeases, {q})
        BY DEF RunsInv
      <4> QED
        BY <1>1, <4>1, <4>2
    <3>3. ASSUME NEW q \in Runs
          PROVE  /\ run'[q].st = "unborn" => run'[q].token = None /\ ~run'[q].closing
                 /\ run'[q].st # "unborn" => run'[q].token \in Tokens
                 /\ run'[q].st # "active" => ~Borrowed(run'[q])
      BY <1>1, <1>2, <1>3, <1>4, <1>6 DEF RunsInv
    <3> QED
      BY <3>1, <3>2, <3>3 DEF RunsInv
  <2> QED
    BY <2>1, <2>2, <2>4
<1>10. TokensInv'
  <2>1. \A t \in Threads : Count(ops[t], {"lock"}, Holding(k) \cup {r}) = Count(ops[t], {"lock"}, Holding(k))
    <3>1. \A t \in Threads : ops[t] \in Seq(Lease) /\ ~InStack(ops[t], r)
      BY <1>4 DEF RunHeld, TypeOK, InStack
    <3>2. ASSUME NEW t \in Threads
          PROVE  Count(ops[t], {"lock"}, Holding(k) \cup {r}) = Count(ops[t], {"lock"}, Holding(k))
      <4>1. ops[t] \in Seq(Lease) /\ ~InStack(ops[t], r)
        BY <3>1
      <4> HIDE DEF Ind
      <4> QED
        BY <4>1, CountUnheld
    <3> QED
      BY <3>2
  <2>2. \A j \in Tokens : \A t \in Threads : tok'[j].owners[t] = Count(ops'[t], {"lock"}, Holding(j)')
    <3>1. \A j \in Tokens : \A t \in Threads : tok[j].owners[t] = Count(ops[t], {"lock"}, Holding(j))
      BY DEF TokensInv
    <3>2. ASSUME NEW j \in Tokens, NEW t \in Threads
          PROVE  Count(ops'[t], {"lock"}, Holding(j)') = Count(ops[t], {"lock"}, Holding(j))
      <4>1. CASE j = k
        BY <4>1, <1>1, <1>5, <2>1
      <4>2. CASE j # k
        BY <4>2, <1>1, <1>5
      <4> QED
        BY <4>1, <4>2
    <3> QED
      BY <1>3, <3>1, <3>2
  <2>3. \A j \in Tokens : tok'[j].pins # {} \/ Borrowed(tok'[j]) => tok'[j].st = "held"
    BY <1>1, <1>3, <1>7 DEF TokensInv
  <2> QED
    BY <1>1, <1>3, <2>2, <2>3 DEF TokensInv
<1>11. PinsInv'
  <2>1. \A q \in Runs : run[q].st # "unborn" => run[q].token \in Tokens
    BY DEF RunsInv
  <2>2. \A q \in Runs : run'[q].st = "active" => q \in tok'[run'[q].token].pins
    BY <1>2, <1>3, <2>1 DEF PinsInv
  <2>3. \A t \in Threads : Top(t)' = Top(t)
    BY <1>1, Still
  <2>4. \A t \in Threads : Top(t).kind = "unpin" => Top(t).run # r
    BY <1>1 DEF PinsInv
  <2> QED
    BY <1>2, <1>3, <1>8, <2>1, <2>2, <2>3, <2>4 DEF PinsInv
<1>12. NotLeaked'
  <2>1. \A j \in Tokens : tok'[j].closeRequested /\ tok'[j].pins = {} /\ ~Borrowed(tok'[j]) => tok'[j].st = "gone"
    BY <1>3, <1>7 DEF NotLeaked
  <2>2. \A q \in Runs : run'[q].closing /\ ~Borrowed(run'[q]) => run'[q].st = "gone"
    BY <1>2, <1>4, <1>6 DEF NotLeaked
  <2> QED
    BY <2>1, <2>2 DEF NotLeaked
<1> QED
  BY <1>9, <1>10, <1>11, <1>12
-----------------------------------------------------------------------------
LEMMA SameHolding ==
    ASSUME \A r \in Runs : run'[r].token = run[r].token
    PROVE  \A k \in Tokens : Holding(k)' = Holding(k)
BY DEF Holding

(* Steps of a thread.  StepIntro says what each has to show when it gives  *)
(* thread t the stack s; q is the only run it may bring into the stack.    *)

Lays(t, s) == s \in Seq(Lease) /\ ops' = [ops EXCEPT ![t] = s]
Brings(t, s, q) == /\ q \in Runs /\ run[q].st # "unborn"
                   /\ \A r \in Runs : InStack(s, r) => InStack(ops[t], r) \/ r = q
SameCounts(s, f) == \A R : /\ Count(s, RunLeases, R) = Count(f, RunLeases, R)
                           /\ Count(s, {"lock"}, R) = Count(f, {"lock"}, R)
Grows(s, f, x) == /\ \A r : InStack(s, r) <=> InStack(f, r) \/ x.run = r
                  /\ \A K, R : Count(s, K, R) = Count(f, K, R) + (IF x.kind \in K /\ x.run \in R THEN 1 ELSE 0)
Deep(s) == Len(s) <= MaxDepth \/ (s # <<>> /\ Last(s).kind = "unpin" /\ Len(s) <= MaxDepth + 1)

RunsMove(t, s) ==
  /\ run' \in [Runs -> Context]
  /\ \A r \in Runs : /\ run'[r].token = run[r].token
                     /\ run'[r].st = "unborn" <=> run[r].st = "unborn"
                     /\ run'[r].st = "unborn" => run'[r].closing = run[r].closing
                     /\ run'[r].st # "active" => ~Borrowed(run'[r])
                     /\ run'[r].owners[t] = Count(s, RunLeases, {r})
                     /\ \A u \in Threads \ {t} : run'[r].owners[u] = run[r].owners[u]
TokensMove(t, s) ==
  /\ tok' \in [Tokens -> Token]
  /\ \A k \in Tokens : /\ tok'[k].st = "held" => tok[k].st = "held"
                       /\ tok'[k].pins # {} \/ Borrowed(tok'[k]) => tok'[k].st = "held"
                       /\ tok'[k].owners[t] = Count(s, {"lock"}, Holding(k))
                       /\ tok'[k].owners[t] > 0 => \A u \in Threads \ {t} : tok[k].owners[u] = 0
                       /\ \A u \in Threads \ {t} : tok'[k].owners[u] = tok[k].owners[u]

LEMMA StepIntro ==
    ASSUME Ind, NEW t \in Threads, NEW s, Lays(t, s), Nested(s), Deep(s), NEW q, Brings(t, s, q),
           RunsMove(t, s), TokensMove(t, s), UNCHANGED outsider, PinsInv', NotLeaked'
    PROVE  Ind'
<1>0. /\ s \in Seq(Lease) /\ ops' = [ops EXCEPT ![t] = s] /\ q \in Runs
      /\ \A r \in Runs : InStack(s, r) => InStack(ops[t], r) \/ r = q
  BY DEF Lays, Brings
<1>1. /\ ops' \in [Threads -> Seq(Lease)] /\ StacksInv' /\ ops'[t] = s
      /\ \A u \in Threads \ {t} : ops'[u] = ops[u]
  <2>1. TypeOK /\ StacksInv
    BY DEF Ind
  <2>2. Len(s) <= MaxDepth \/ (s # <<>> /\ Last(s).kind = "unpin" /\ Len(s) <= MaxDepth + 1)
    BY DEF Deep
  <2> QED
    BY ONLY <1>0, <2>1, <2>2, Nested(s), t \in Threads, StackStep
<1> USE DEF Ind, RunsMove, TokensMove
<1>2. TypeOK'
  BY <1>1 DEF TypeOK
<1>3. \A k \in Tokens : Holding(k)' = Holding(k)
  BY SameHolding
<1>4. RunsInv'
  <2>1. \A r \in Runs : RunHeld(r)' => RunHeld(r) \/ r = q
    <3>1. \A r \in Runs : InStack(ops'[t], r) => InStack(ops[t], r) \/ r = q
      BY <1>0, <1>1
    <3>2. \A u \in Threads \ {t} : ops'[u] = ops[u]
      BY <1>1
    <3> QED
      BY <1>0, <3>1, <3>2, HeldStep
  <2>2. ASSUME NEW r \in Runs
        PROVE  run'[r].st = "unborn" => run'[r].token = None /\ ~run'[r].closing /\ ~RunHeld(r)'
    <3>1. run[q].st # "unborn"
      BY DEF Brings
    <3>2. /\ run'[r].token = run[r].token
          /\ run'[r].st = "unborn" => run[r].st = "unborn" /\ run'[r].closing = run[r].closing
      OBVIOUS
    <3>3. run[r].st = "unborn" => run[r].token = None /\ ~run[r].closing /\ ~RunHeld(r)
      BY DEF RunsInv
    <3> QED
      BY <2>1, <3>1, <3>2, <3>3
  <2>3. ASSUME NEW r \in Runs
        PROVE  run'[r].st # "unborn" => run'[r].token \in Tokens
    BY DEF RunsInv
  <2>4. ASSUME NEW r \in Runs, NEW u \in Threads
        PROVE  run'[r].owners[u] = Count(ops'[u], RunLeases, {r})
    <3>1. CASE u = t
      BY <3>1, <1>1
    <3>2. CASE u # t
      <4>1. run[r].owners[u] = Count(ops[u], RunLeases, {r})
        BY DEF RunsInv
      <4>2. run'[r].owners[u] = run[r].owners[u] /\ ops'[u] = ops[u]
        <5>1. u \in Threads \ {t}
          BY <3>2
        <5>2. ops'[u] = ops[u]
          BY <5>1, <1>1
        <5>3. run'[r].owners[u] = run[r].owners[u]
          BY <5>1
        <5> QED
          BY <5>2, <5>3
      <4> QED
        BY <4>1, <4>2
    <3> QED
      BY <3>1, <3>2
  <2> QED
    BY <2>2, <2>3, <2>4 DEF RunsInv
<1>5. TokensInv'
  <2>1. ASSUME NEW k \in Tokens, NEW u \in Threads
        PROVE  tok'[k].owners[u] = Count(ops'[u], {"lock"}, Holding(k)')
    <3>1. CASE u = t
      BY <3>1, <1>1, <1>3
    <3>2. CASE u # t
      <4>1. tok[k].owners[u] = Count(ops[u], {"lock"}, Holding(k))
        BY DEF TokensInv
      <4> QED
        BY <3>2, <4>1, <1>1, <1>3
    <3> QED
      BY <3>1, <3>2
  <2>2. ASSUME NEW k \in Tokens, NEW u \in Threads, NEW v \in Threads,
               tok'[k].owners[u] > 0, tok'[k].owners[v] > 0
        PROVE  u = v
    <3>1. tok[k].owners[u] > 0 /\ tok[k].owners[v] > 0 => u = v
      BY DEF TokensInv
    <3> QED
      BY <2>2, <3>1
  <2>3. ASSUME NEW k \in Tokens
        PROVE  /\ tok'[k].pins # {} \/ Borrowed(tok'[k]) => tok'[k].st = "held"
               /\ tok'[k].st = "held" => ~outsider' /\ \A j \in Tokens : tok'[j].st = "held" => j = k
    BY DEF TokensInv
  <2> QED
    BY <2>1, <2>2, <2>3 DEF TokensInv
<1> QED
  BY <1>1, <1>2, <1>4, <1>5

(* The pins, when the step releases none and ends at most the run q. *)
LEMMA PinsStep ==
    ASSUME Ind, NEW t \in Threads, NEW s \in Seq(Lease), ops' = [ops EXCEPT ![t] = s], Nested(s), Deep(s),
           \A k \in Tokens : tok'[k].pins = tok[k].pins,
           \A r \in Runs : /\ run'[r].token = run[r].token
                           /\ run'[r].st = "active" => run[r].st = "active"
                           /\ run[r].st = "gone" => run'[r].st = "gone",
           s # <<>> /\ Last(s).kind = "unpin" =>
             /\ Last(s).run \in Runs /\ run[Last(s).run].st = "active" /\ run'[Last(s).run].st = "gone"
    PROVE  PinsInv'
<1> USE DEF Ind
<1>1. /\ \A u \in Threads \ {t} : Top(u)' = Top(u)
      /\ Top(t)' = IF s = <<>> THEN [kind |-> "idle", run |-> None] ELSE Last(s)
  <2>1. TypeOK /\ StacksInv
    OBVIOUS
  <2>2. Len(s) <= MaxDepth \/ (s # <<>> /\ Last(s).kind = "unpin" /\ Len(s) <= MaxDepth + 1)
    BY DEF Deep
  <2>3. ops'[t] = s /\ \A u \in Threads \ {t} : ops'[u] = ops[u]
    BY <2>1, <2>2, StackStep
  <2> QED
    BY <2>3 DEF Top
<1>2. \A r \in Runs : run[r].st # "unborn" => run[r].token \in Tokens
  BY DEF RunsInv
<1>3. ASSUME NEW r \in Runs, run'[r].st = "active"
      PROVE  r \in tok'[run'[r].token].pins
  BY <1>2, <1>3 DEF PinsInv
<1>4. \A u \in Threads : Top(u).kind = "unpin" => Top(u).run \in Runs
  BY TopLease
<1>5. \A u \in Threads \ {t} : Top(u)'.kind = "unpin" =>
        /\ Top(u)'.run \in Runs /\ run[Top(u)'.run].st = "gone" /\ run'[Top(u)'.run].st = "gone"
        /\ Top(u)'.run \in tok'[run'[Top(u)'.run].token].pins
        /\ \A v \in Threads \ {t} : Top(v)'.kind = "unpin" /\ Top(v)'.run = Top(u)'.run => v = u
  BY <1>1, <1>2, <1>4 DEF PinsInv
<1>6. Top(t)'.kind = "unpin" =>
        /\ Top(t)'.run \in Runs /\ run[Top(t)'.run].st = "active" /\ run'[Top(t)'.run].st = "gone"
        /\ Top(t)'.run \in tok'[run'[Top(t)'.run].token].pins
  BY <1>1, <1>2 DEF PinsInv
<1>7. ASSUME NEW u \in Threads, Top(u)'.kind = "unpin"
      PROVE  /\ run'[Top(u)'.run].st = "gone" /\ Top(u)'.run \in tok'[run'[Top(u)'.run].token].pins
             /\ \A v \in Threads : Top(v)'.kind = "unpin" /\ Top(v)'.run = Top(u)'.run => v = u
  <2>1. CASE u = t
    BY <2>1, <1>5, <1>6, <1>7
  <2>2. CASE u # t
    BY <2>2, <1>5, <1>6, <1>7
  <2> QED
    BY <2>1, <2>2
<1> QED
  BY <1>3, <1>7 DEF PinsInv

(* A step that changes only the stack, and there neither count. *)
LEMMA PlainStep ==
    ASSUME Ind, NEW t \in Threads, NEW s, Lays(t, s), Nested(s), Deep(s),
           UNCHANGED <<tok, run, outsider>>, s # <<>> => Last(s).kind # "unpin",
           NEW q, Brings(t, s, q), SameCounts(s, ops[t])
    PROVE  Ind'
<1> USE DEF Ind
<1>0. /\ s \in Seq(Lease) /\ ops' = [ops EXCEPT ![t] = s] /\ q \in Runs /\ run[q].st # "unborn"
      /\ \A r \in Runs : InStack(s, r) => InStack(ops[t], r) \/ r = q
  BY DEF Lays, Brings
<1>1. PinsInv'
  BY <1>0, PinsStep
<1>2. NotLeaked'
  BY DEF NotLeaked, Borrowed
<1>3. tok' \in [Tokens -> Token] /\ run' \in [Runs -> Context] /\ UNCHANGED outsider
  BY DEF TypeOK
<1>4. \A r \in Runs : /\ run'[r].st # "active" => ~Borrowed(run'[r])
                      /\ run'[r].owners[t] = Count(s, RunLeases, {r})
  BY DEF RunsInv, SameCounts
<1>5. ASSUME NEW k \in Tokens
      PROVE  /\ tok'[k].pins # {} \/ Borrowed(tok'[k]) => tok'[k].st = "held"
             /\ tok'[k].owners[t] = Count(s, {"lock"}, Holding(k))
             /\ tok'[k].owners[t] > 0 => \A u \in Threads \ {t} : tok[k].owners[u] = 0
  <2>1. tok[k].owners \in [Threads -> 0..MaxDepth]
    BY DEF TypeOK, Token
  <2> QED
    BY <2>1 DEF TokensInv, SameCounts
<1>6. RunsMove(t, s)
  BY <1>3, <1>4 DEF RunsMove
<1>7. TokensMove(t, s)
  BY <1>3, <1>5 DEF TokensMove
<1> HIDE DEF Ind
<1> QED
  BY <1>1, <1>2, <1>3, <1>6, <1>7, StepIntro

-----------------------------------------------------------------------------
(* What a thread finds, and what it leaves when it lays x on f.            *)

LEMMA Found ==
    ASSUME Ind, NEW t \in Threads
    PROVE  /\ ops[t] \in Seq(Lease) /\ Nested(ops[t]) /\ Len(ops[t]) \in Nat
           /\ Len(ops[t]) <= (IF Top(t).kind = "unpin" THEN MaxDepth + 1 ELSE MaxDepth)
           /\ ops[t] = <<>> <=> Top(t).kind = "idle"
           /\ ops[t] # <<>> => Top(t) = Last(ops[t])
<1>1. ops[t] \in Seq(Lease)
  BY DEF Ind, TypeOK
<1>2. Nested(ops[t]) /\ Len(ops[t]) <= (IF Top(t).kind = "unpin" THEN MaxDepth + 1 ELSE MaxDepth)
  BY DEF Ind, StacksInv
<1>3. ops[t] = <<>> <=> Top(t).kind = "idle"
  BY NoTop DEF Ind
<1>4. ops[t] # <<>> => Top(t) = Last(ops[t])
  BY DEF Top
<1> QED
  BY <1>1, <1>2, <1>3, <1>4

LEMMA FoundTop ==
    ASSUME Ind, NEW t \in Threads, Top(t).kind # "idle"
    PROVE  /\ Front(ops[t]) \in Seq(Lease) /\ Top(t) \in Lease /\ ops[t] = Append(Front(ops[t]), Top(t))
           /\ Nested(Front(ops[t])) /\ Fits(Front(ops[t]), Top(t)) /\ Len(ops[t]) = Len(Front(ops[t])) + 1
           /\ Top(t).run \in Runs /\ run[Top(t).run].st # "unborn" /\ run[Top(t).run].token \in Tokens
           /\ Grows(ops[t], Front(ops[t]), Top(t))
<1> DEFINE f == Front(ops[t])
<1>1. /\ f \in Seq(Lease) /\ Top(t) \in Lease /\ ops[t] = Append(f, Top(t)) /\ Len(ops[t]) = Len(f) + 1
      /\ Top(t).run \in Runs /\ RunHeld(Top(t).run)
  BY TopLease DEF Ind
<1> HIDE DEF f
<1>2. Nested(f) /\ Fits(f, Top(t))
  <2>1. Nested(ops[t])
    BY Found
  <2> QED
    BY <1>1, <2>1, NestedAppend
<1>3. run[Top(t).run].st # "unborn" /\ run[Top(t).run].token \in Tokens
  BY <1>1 DEF Ind, RunsInv
<1>4. ASSUME NEW r PROVE InStack(ops[t], r) <=> InStack(f, r) \/ Top(t).run = r
  BY <1>1, InAppend
<1>5. ASSUME NEW K, NEW R
      PROVE  Count(ops[t], K, R) = Count(f, K, R) + (IF Top(t).kind \in K /\ Top(t).run \in R THEN 1 ELSE 0)
  BY <1>1, CountAppend
<1>6. Grows(ops[t], f, Top(t))
  BY <1>4, <1>5 DEF Grows
<1> QED
  BY <1>1, <1>2, <1>3, <1>6 DEF f

LEMMA Left ==
    ASSUME NEW f \in Seq(Lease), NEW x \in Lease, Nested(f), Fits(f, x)
    PROVE  /\ Append(f, x) \in Seq(Lease) /\ Append(f, x) # <<>> /\ Last(Append(f, x)) = x
           /\ Len(Append(f, x)) = Len(f) + 1 /\ Nested(Append(f, x)) /\ Grows(Append(f, x), f, x)
<1>1. /\ Append(f, x) \in Seq(Lease) /\ Append(f, x) # <<>> /\ Last(Append(f, x)) = x
      /\ Len(Append(f, x)) = Len(f) + 1
  BY Joined
<1>2. Nested(Append(f, x))
  BY NestedAppend
<1>3. ASSUME NEW r PROVE InStack(Append(f, x), r) <=> InStack(f, r) \/ x.run = r
  BY InAppend
<1>4. ASSUME NEW K, NEW R
      PROVE  Count(Append(f, x), K, R) = Count(f, K, R) + (IF x.kind \in K /\ x.run \in R THEN 1 ELSE 0)
  BY CountAppend
<1> QED
  BY <1>1, <1>2, <1>3, <1>4 DEF Grows

-----------------------------------------------------------------------------
(* Steps that change a stack and neither count.                            *)

LEMMA ManagedStep ==
    ASSUME Ind, NEW t \in Threads, NEW r \in Runs, Managed(t, r)
    PROVE  Ind'
<1> DEFINE x == [kind |-> "managed", run |-> r]
           s == Append(ops[t], x)
<1>1. /\ ops' = [ops EXCEPT ![t] = s] /\ UNCHANGED <<tok, run, outsider>>
      /\ Len(ops[t]) < MaxDepth /\ Top(t).kind \in {"idle", "lock"} /\ run[r].st = "active"
  BY DEF Managed, Shallow, Push, Usable
<1>2. x \in Lease /\ x.kind = "managed" /\ x.run = r
  BY DEF Lease
<1> HIDE DEF x
<1>3. ops[t] \in Seq(Lease) /\ Nested(ops[t]) /\ Len(ops[t]) \in Nat /\ Fits(ops[t], x)
  BY <1>1, <1>2, Found DEF Fits, Follows
<1>4. s \in Seq(Lease) /\ s # <<>> /\ Last(s) = x /\ Len(s) = Len(ops[t]) + 1 /\ Nested(s) /\ Grows(s, ops[t], x)
  BY <1>2, <1>3, Left
<1> HIDE DEF s
<1>5. Deep(s)
  BY <1>1, <1>3, <1>4 DEF Deep
<1>6. SameCounts(s, ops[t])
  <2>1. \A K, R : Count(ops[t], K, R) \in Nat
    BY <1>3, CountFinite
  <2> QED
    BY <1>2, <1>4, <2>1 DEF RunLeases, Grows, SameCounts
<1>7. Lays(t, s) /\ Brings(t, s, r)
  BY <1>1, <1>2, <1>4 DEF Lays, Brings, Grows
<1>8. Last(s).kind # "unpin"
  BY <1>2, <1>4
<1> QED
  BY <1>1, <1>4, <1>5, <1>6, <1>7, <1>8, PlainStep

(* The top is popped, when it counts for nothing. *)
LEMMA PopStep ==
    ASSUME Ind, NEW t \in Threads, Top(t).kind \in {"managed", "none", "left"}, Pop(t),
           UNCHANGED <<tok, run, outsider>>
    PROVE  Ind'
<1> DEFINE f == Front(ops[t])
<1>1. /\ f \in Seq(Lease) /\ Nested(f) /\ Fits(f, Top(t)) /\ Len(ops[t]) = Len(f) + 1
      /\ Top(t).run \in Runs /\ run[Top(t).run].st # "unborn" /\ Grows(ops[t], f, Top(t))
  BY FoundTop
<1>2. Len(ops[t]) <= MaxDepth /\ Len(f) \in Nat
  BY <1>1, Found
<1>3. ops' = [ops EXCEPT ![t] = f]
  BY DEF Pop
<1> HIDE DEF f
<1>4. f # <<>> => Last(f).kind # "unpin"
  BY <1>1 DEF Fits, Follows
<1>5. SameCounts(f, ops[t])
  <2>1. \A K, R : Count(f, K, R) \in Nat
    BY <1>1, CountFinite
  <2> QED
    BY <1>1, <2>1 DEF RunLeases, Grows, SameCounts
<1>6. Deep(f) /\ Lays(t, f) /\ Brings(t, f, Top(t).run)
  BY <1>1, <1>2, <1>3 DEF Deep, Lays, Brings, Grows
<1> QED
  BY <1>1, <1>4, <1>5, <1>6, PlainStep

(* What the top of a thread may be turned into. *)
LEMMA Turned ==
    ASSUME Ind, NEW t \in Threads, Top(t).kind \in {"managed", "entry", "ending"},
           NEW x \in Lease, x.kind \in {"none", "entry", "unpin"}, x.run \in Runs, run[x.run].st # "unborn",
           NEW s, s = Append(Front(ops[t]), x)
    PROVE  /\ s \in Seq(Lease) /\ s # <<>> /\ Last(s) = x /\ Nested(s) /\ Deep(s)
           /\ Len(s) <= MaxDepth /\ Brings(t, s, x.run) /\ Grows(s, Front(ops[t]), x)
           /\ Grows(ops[t], Front(ops[t]), Top(t)) /\ Front(ops[t]) \in Seq(Lease)
<1> DEFINE f == Front(ops[t])
<1>1. /\ f \in Seq(Lease) /\ Nested(f) /\ Fits(f, Top(t)) /\ Len(ops[t]) = Len(f) + 1
      /\ Top(t).run \in Runs /\ run[Top(t).run].st # "unborn" /\ Grows(ops[t], f, Top(t))
  BY FoundTop
<1>2. Len(ops[t]) <= MaxDepth
  BY Found
<1> HIDE DEF f
<1>3. Fits(f, x)
  BY <1>1 DEF Fits, Follows
<1>4. s \in Seq(Lease) /\ s # <<>> /\ Last(s) = x /\ Len(s) = Len(f) + 1 /\ Nested(s) /\ Grows(s, f, x)
  <2>1. s = Append(f, x)
    BY DEF f
  <2> QED
    BY <1>1, <1>3, <2>1, Left
<1>5. Deep(s) /\ Len(s) <= MaxDepth
  BY <1>1, <1>2, <1>4 DEF Deep
<1>6. Brings(t, s, x.run)
  BY <1>1, <1>4 DEF Brings, Grows
<1> QED
  BY <1>1, <1>4, <1>5, <1>6 DEF f

LEMMA TurnNoneStep ==
    ASSUME Ind, NEW t \in Threads, Top(t).kind = "managed", Turn(t, "none"), UNCHANGED <<tok, run, outsider>>
    PROVE  Ind'
<1> DEFINE f == Front(ops[t])
           x == [kind |-> "none", run |-> Top(t).run]
           s == Append(f, x)
<1>1. x \in Lease /\ x.kind = "none" /\ x.run \in Runs /\ run[x.run].st # "unborn"
  BY FoundTop DEF Lease
<1>2. ops' = [ops EXCEPT ![t] = s]
  BY DEF Turn
<1> HIDE DEF x
<1>3. /\ s \in Seq(Lease) /\ s # <<>> /\ Last(s) = x /\ Nested(s) /\ Deep(s)
      /\ Brings(t, s, x.run) /\ Grows(s, f, x) /\ Grows(ops[t], f, Top(t)) /\ f \in Seq(Lease)
  BY <1>1, Turned
<1> HIDE DEF s, f
<1>4. SameCounts(s, ops[t])
  <2>1. \A K, R : Count(f, K, R) \in Nat
    BY <1>3, CountFinite
  <2> QED
    BY <1>1, <1>3, <2>1 DEF RunLeases, Grows, SameCounts
<1>5. Lays(t, s) /\ Last(s).kind # "unpin"
  BY <1>1, <1>2, <1>3 DEF Lays
<1> QED
  BY <1>3, <1>4, <1>5, PlainStep

-----------------------------------------------------------------------------
(* Steps that change a stack, the run r and its token k: c and d are what  *)
(* the registries then hold.                                               *)

RunCounts(t, s, r, n) ==
  \A q \in Runs : Count(s, RunLeases, {q}) = IF q = r THEN n ELSE Count(ops[t], RunLeases, {q})
LockCounts(t, s, k, n) ==
  \A j \in Tokens : Count(s, {"lock"}, Holding(j)) = IF j = k THEN n ELSE Count(ops[t], {"lock"}, Holding(j))
RunMoves(t, r, c) ==
  /\ run' = [run EXCEPT ![r] = c] /\ c \in Context /\ c.token = run[r].token /\ c.st # "unborn"
  /\ c.st = "active" => run[r].st = "active"
  /\ run[r].st = "gone" => c.st = "gone"
  /\ c.st # "active" => ~Borrowed(c)
  /\ c.closing /\ ~Borrowed(c) => c.st = "gone"
  /\ \A u \in Threads \ {t} : c.owners[u] = run[r].owners[u]
TokenMoves(t, k, d) ==
  /\ tok' = [tok EXCEPT ![k] = d] /\ d \in Token /\ d.pins = tok[k].pins
  /\ d.st = "held" => tok[k].st = "held"
  /\ d.pins # {} \/ Borrowed(d) => d.st = "held"
  /\ d.closeRequested /\ d.pins = {} /\ ~Borrowed(d) => d.st = "gone"
  /\ \A u \in Threads \ {t} : d.owners[u] = tok[k].owners[u]
  /\ d.owners[t] > 0 => \A u \in Threads \ {t} : tok[k].owners[u] = 0

LEMMA LeaseStep ==
    ASSUME Ind, NEW t \in Threads, NEW s, Lays(t, s), Nested(s), Deep(s), UNCHANGED outsider,
           NEW r, Brings(t, s, r), NEW k, k = run[r].token,
           NEW c, RunMoves(t, r, c), NEW d, TokenMoves(t, k, d),
           RunCounts(t, s, r, c.owners[t]), LockCounts(t, s, k, d.owners[t]),
           s # <<>> /\ Last(s).kind = "unpin" => Last(s).run = r /\ run[r].st = "active" /\ c.st = "gone"
    PROVE  Ind'
<1> USE DEF Ind
<1>0. /\ s \in Seq(Lease) /\ ops' = [ops EXCEPT ![t] = s] /\ r \in Runs /\ run[r].st # "unborn"
      /\ \A q \in Runs : InStack(s, q) => InStack(ops[t], q) \/ q = r
  BY DEF Lays, Brings
<1>1. k \in Tokens /\ run \in [Runs -> Context] /\ tok \in [Tokens -> Token]
  BY <1>0 DEF RunsInv, TypeOK
<1>2. /\ run' \in [Runs -> Context] /\ run'[r] = c /\ \A q \in Runs \ {r} : run'[q] = run[q]
      /\ tok' \in [Tokens -> Token] /\ tok'[k] = d /\ \A j \in Tokens \ {k} : tok'[j] = tok[j]
  BY <1>0, <1>1 DEF RunMoves, TokenMoves
<1>3. ASSUME NEW q \in Runs
      PROVE  /\ run'[q].token = run[q].token
             /\ run'[q].st = "unborn" <=> run[q].st = "unborn"
             /\ run'[q].st = "unborn" => run'[q].closing = run[q].closing
             /\ run'[q].st # "active" => ~Borrowed(run'[q])
             /\ run'[q].owners[t] = Count(s, RunLeases, {q})
             /\ \A u \in Threads \ {t} : run'[q].owners[u] = run[q].owners[u]
             /\ run'[q].st = "active" => run[q].st = "active"
             /\ run[q].st = "gone" => run'[q].st = "gone"
  <2>1. CASE q = r
    BY <2>1, <1>0, <1>2 DEF RunMoves, RunCounts
  <2>2. CASE q # r
    <3>1. run'[q] = run[q]
      BY <2>2, <1>2
    <3>2. /\ run[q].st # "active" => ~Borrowed(run[q])
          /\ run[q].owners[t] = Count(ops[t], RunLeases, {q})
      BY DEF RunsInv
    <3>3. Count(s, RunLeases, {q}) = Count(ops[t], RunLeases, {q})
      BY <2>2 DEF RunCounts
    <3> HIDE DEF Ind
    <3> QED
      BY <3>1, <3>2, <3>3
  <2> QED
    BY <2>1, <2>2
<1>4. ASSUME NEW j \in Tokens
      PROVE  /\ tok'[j].pins = tok[j].pins
             /\ tok'[j].st = "held" => tok[j].st = "held"
             /\ tok'[j].pins # {} \/ Borrowed(tok'[j]) => tok'[j].st = "held"
             /\ tok'[j].owners[t] = Count(s, {"lock"}, Holding(j))
             /\ tok'[j].owners[t] > 0 => \A u \in Threads \ {t} : tok[j].owners[u] = 0
             /\ \A u \in Threads \ {t} : tok'[j].owners[u] = tok[j].owners[u]
  <2>1. CASE j = k
    BY <2>1, <1>2 DEF TokenMoves, LockCounts
  <2>2. CASE j # k
    <3>1. tok[j].owners \in [Threads -> 0..MaxDepth]
      BY <1>1 DEF Token
    <3> QED
      BY <2>2, <3>1, <1>2 DEF TokensInv, LockCounts
  <2> QED
    BY <2>1, <2>2
<1>5. PinsInv'
  <2>1. s # <<>> /\ Last(s).kind = "unpin" =>
          /\ Last(s).run \in Runs /\ run[Last(s).run].st = "active" /\ run'[Last(s).run].st = "gone"
    BY <1>0, <1>2
  <2>2. \A q \in Runs : /\ run'[q].token = run[q].token
                        /\ run'[q].st = "active" => run[q].st = "active"
                        /\ run[q].st = "gone" => run'[q].st = "gone"
    BY <1>3
  <2>3. \A j \in Tokens : tok'[j].pins = tok[j].pins
    BY <1>4
  <2> QED
    BY <1>0, <2>1, <2>2, <2>3, PinsStep
<1>6. NotLeaked'
  <2>1. ASSUME NEW j \in Tokens
        PROVE  tok'[j].closeRequested /\ tok'[j].pins = {} /\ ~Borrowed(tok'[j]) => tok'[j].st = "gone"
    <3>1. CASE j = k
      BY <3>1, <1>2 DEF TokenMoves
    <3>2. CASE j # k
      BY <3>2, <1>2 DEF NotLeaked
    <3> QED
      BY <3>1, <3>2
  <2>2. ASSUME NEW q \in Runs
        PROVE  run'[q].closing /\ ~Borrowed(run'[q]) => run'[q].st = "gone"
    <3>1. CASE q = r
      BY <3>1, <1>2 DEF RunMoves
    <3>2. CASE q # r
      BY <3>2, <1>2 DEF NotLeaked
    <3> QED
      BY <3>1, <3>2
  <2> QED
    BY <2>1, <2>2 DEF NotLeaked
<1>7. RunsMove(t, s)
  BY <1>2, <1>3 DEF RunsMove
<1>8. TokensMove(t, s)
  BY <1>2, <1>4 DEF TokensMove
<1> HIDE DEF Ind
<1> QED
  BY <1>5, <1>6, <1>7, <1>8, StepIntro

(* What does not move, moves to what it is. *)
LEMMA TokenStays ==
    ASSUME Ind, NEW t \in Threads, NEW k \in Tokens, UNCHANGED tok
    PROVE  TokenMoves(t, k, tok[k]) /\ tok[k].owners[t] = Count(ops[t], {"lock"}, Holding(k))
<1>1. tok \in [Tokens -> Token] /\ tok[k].owners \in [Threads -> 0..MaxDepth]
  BY DEF Ind, TypeOK, Token
<1>2. tok' = [tok EXCEPT ![k] = tok[k]] /\ tok[k] \in Token
  BY <1>1
<1>3. tok[k].owners[t] > 0 => \A u \in Threads \ {t} : tok[k].owners[u] = 0
  BY <1>1 DEF Ind, TokensInv
<1> QED
  BY <1>2, <1>3 DEF Ind, TokensInv, NotLeaked, TokenMoves

LEMMA RunStays ==
    ASSUME Ind, NEW t \in Threads, NEW r \in Runs, run[r].st # "unborn", UNCHANGED run
    PROVE  RunMoves(t, r, run[r]) /\ run[r].owners[t] = Count(ops[t], RunLeases, {r})
<1>1. run \in [Runs -> Context]
  BY DEF Ind, TypeOK
<1>2. run' = [run EXCEPT ![r] = run[r]] /\ run[r] \in Context
  BY <1>1
<1> QED
  BY <1>2 DEF Ind, RunsInv, NotLeaked, RunMoves

LEMMA RunCounted ==
    ASSUME NEW x \in Context, NEW t \in Threads, NEW n \in 0..MaxDepth, NEW c, c = [x EXCEPT !.owners[t] = n]
    PROVE  /\ c \in Context /\ c.owners[t] = n /\ c.st = x.st /\ c.token = x.token /\ c.closing = x.closing
           /\ \A u \in Threads \ {t} : c.owners[u] = x.owners[u]
BY DEF Context

LEMMA TokenCounted ==
    ASSUME NEW x \in Token, NEW t \in Threads, NEW n \in 0..MaxDepth, NEW d, d = [x EXCEPT !.owners[t] = n]
    PROVE  /\ d \in Token /\ d.owners[t] = n /\ d.st = x.st /\ d.pins = x.pins
           /\ d.closeRequested = x.closeRequested
           /\ \A u \in Threads \ {t} : d.owners[u] = x.owners[u]
BY DEF Token

(* On f, the stack s has y where thread t had x; y is of run r, and so is  *)
(* x if it counts.                                                         *)
Replaces(t, s, f, x, y, r) ==
  f \in Seq(Lease) /\ Grows(ops[t], f, x) /\ Grows(s, f, y) /\ r \in Runs /\ (x.kind \in RunLeases => x.run = r) /\ y.run = r
Tallies(n, m, x, y) == n = m - (IF x.kind \in RunLeases THEN 1 ELSE 0) + (IF y.kind \in RunLeases THEN 1 ELSE 0)

(* A lease of run r more or less, of a kind that counts or of none. *)
LEMMA RunTally ==
    ASSUME Ind, NEW t \in Threads, NEW f, NEW s, NEW x, NEW y, NEW r, Replaces(t, s, f, x, y, r),
           NEW n, Tallies(n, run[r].owners[t], x, y)
    PROVE  RunCounts(t, s, r, n) /\ n = Count(s, RunLeases, {r}) /\ run[r].owners[t] = Count(ops[t], RunLeases, {r})
<1> USE DEF Replaces
<1>1. \A q \in Runs : Count(f, RunLeases, {q}) \in Nat
  BY CountFinite
<1>2. run[r].owners[t] = Count(ops[t], RunLeases, {r})
  BY DEF Ind, RunsInv
<1>3. \A q \in Runs :
        /\ Count(ops[t], RunLeases, {q}) = Count(f, RunLeases, {q}) + (IF x.kind \in RunLeases /\ q = r THEN 1 ELSE 0)
        /\ Count(s, RunLeases, {q}) = Count(f, RunLeases, {q}) + (IF y.kind \in RunLeases /\ q = r THEN 1 ELSE 0)
  BY DEF Grows
<1>4. n = Count(s, RunLeases, {r})
  <2>1. Count(ops[t], RunLeases, {r}) = Count(f, RunLeases, {r}) + (IF x.kind \in RunLeases THEN 1 ELSE 0)
    BY <1>3
  <2>2. Count(s, RunLeases, {r}) = Count(f, RunLeases, {r}) + (IF y.kind \in RunLeases THEN 1 ELSE 0)
    BY <1>3
  <2>3. Count(f, RunLeases, {r}) \in Nat
    BY <1>1
  <2> QED
    BY <1>2, <2>1, <2>2, <2>3 DEF Tallies
<1>5. \A q \in Runs : q # r => Count(s, RunLeases, {q}) = Count(ops[t], RunLeases, {q})
  BY <1>1, <1>3
<1> QED
  BY <1>2, <1>4, <1>5 DEF RunCounts

(* Neither x nor y is a lock lease: the tokens are counted as before. *)
LEMMA LockTally ==
    ASSUME Ind, NEW t \in Threads, NEW f \in Seq(Lease), NEW s, NEW x, NEW y, NEW k \in Tokens,
           Grows(ops[t], f, x), Grows(s, f, y), x.kind # "lock", y.kind # "lock"
    PROVE  LockCounts(t, s, k, tok[k].owners[t])
<1>1. \A j : Count(f, {"lock"}, Holding(j)) \in Nat
  BY CountFinite
<1>2. tok[k].owners[t] = Count(ops[t], {"lock"}, Holding(k))
  BY DEF Ind, TokensInv
<1>3. \A j : Count(ops[t], {"lock"}, Holding(j)) = Count(s, {"lock"}, Holding(j))
  BY <1>1 DEF Grows
<1> QED
  BY <1>2, <1>3 DEF LockCounts

-----------------------------------------------------------------------------
(* The entry lease of an operation.                                        *)

Counted(d, c, t, n) == d = [c EXCEPT !.owners[t] = n]
OneMore(n, m) == n = m + 1
Owned(t, r) == run' = [run EXCEPT ![r].owners[t] = @ + 1]

LEMMA Entered ==
    ASSUME Ind, NEW t \in Threads, NEW r \in Runs, run[r].st = "active", Owned(t, r),
           NEW n, OneMore(n, run[r].owners[t]), n <= MaxDepth, NEW c, Counted(c, run[r], t, n)
    PROVE  RunMoves(t, r, c) /\ c.owners[t] = n
<1>1. run' = [run EXCEPT ![r] = c] /\ run[r] \in Context /\ run[r].owners[t] \in Nat
  BY DEF Ind, TypeOK, Context, Owned, Counted, OneMore
<1>2. n \in 0..MaxDepth /\ n > 0
  BY <1>1 DEF OneMore
<1>3. /\ c \in Context /\ c.owners[t] = n /\ c.st = run[r].st /\ c.token = run[r].token
      /\ \A u \in Threads \ {t} : c.owners[u] = run[r].owners[u]
  BY <1>1, <1>2, RunCounted DEF Counted
<1>4. Borrowed(c)
  BY <1>2, <1>3 DEF Borrowed
<1> QED
  BY <1>1, <1>3, <1>4 DEF RunMoves

LEMMA EntryStep ==
    ASSUME Ind, NEW t \in Threads, NEW r \in Running, Top(t).kind = "managed", Serves(r, t), Enters(t, r),
           UNCHANGED <<tok, outsider>>
    PROVE  Ind'
<1> DEFINE f == Front(ops[t])
           x == [kind |-> "entry", run |-> r]
           s == Append(f, x)
           k == run[r].token
           n == run[r].owners[t] + 1
           c == [run[r] EXCEPT !.owners[t] = n]
<1>1. /\ x \in Lease /\ x.kind = "entry" /\ x.run = r /\ r \in Runs /\ run[r].st = "active"
      /\ x.run \in Runs /\ run[x.run].st # "unborn" /\ k \in Tokens
  <2>1. r \in Runs /\ run[r].st = "active"
    BY DEF Running
  <2>2. k \in Tokens
    BY <2>1 DEF Ind, RunsInv
  <2> QED
    BY <2>1, <2>2 DEF Lease
<1>2. ops' = [ops EXCEPT ![t] = s]
  BY DEF Enters
<1>3. Counted(c, run[r], t, n) /\ OneMore(n, run[r].owners[t]) /\ run[r].owners[t] \in Nat
  BY <1>1 DEF Counted, OneMore, Ind, TypeOK, Context
<1> HIDE DEF x, k, c
<1>4. /\ s \in Seq(Lease) /\ s # <<>> /\ Last(s) = x /\ Nested(s) /\ Deep(s) /\ Len(s) <= MaxDepth
      /\ Brings(t, s, x.run) /\ Grows(s, f, x) /\ Grows(ops[t], f, Top(t)) /\ f \in Seq(Lease)
  BY <1>1, Turned
<1> HIDE DEF s, f
<1>5. RunCounts(t, s, r, n) /\ n = Count(s, RunLeases, {r})
  <2>1. Tallies(n, run[r].owners[t], Top(t), x)
    BY <1>1, <1>3 DEF RunLeases, Tallies
  <2> HIDE DEF n
  <2>2. Top(t).kind \notin RunLeases /\ x.run = r
    BY <1>1 DEF RunLeases
  <2> QED
    <3>1. Replaces(t, s, f, Top(t), x, r)
      BY <1>1, <1>4, <2>2 DEF Replaces
    <3>2. f \in Seq(Lease)
      BY <1>4
    <3> QED
      BY <3>1, <2>1, RunTally
<1>6. LockCounts(t, s, k, tok[k].owners[t])
  BY <1>1, <1>4, LockTally
<1>7. n <= MaxDepth
  <2>1. Count(s, RunLeases, {r}) \in Nat /\ Count(s, RunLeases, {r}) <= Len(s) /\ Len(s) \in Nat
    BY <1>4, CountBound
  <2> QED
    BY <1>4, <1>5, <2>1
<1> HIDE DEF n
<1>8. RunMoves(t, r, c) /\ c.owners[t] = n
  <2>1. Owned(t, r)
    BY DEF Enters, Owned
  <2> QED
    BY <1>1, <1>3, <1>7, <2>1, Entered
<1>9. k = run[r].token
  BY DEF k
<1>10. TokenMoves(t, k, tok[k])
  BY <1>1, TokenStays
<1>11. Lays(t, s) /\ Brings(t, s, r) /\ Last(s).kind # "unpin"
  BY <1>1, <1>2, <1>4 DEF Lays
<1> QED
  BY <1>4, <1>5, <1>6, <1>8, <1>9, <1>10, <1>11, LeaseStep

LEMMA BeginEntryStep ==
    ASSUME Ind, NEW t \in Threads, BeginEntryLease(t)
    PROVE  Ind'
<1>1. \/ Turn(t, "none") /\ UNCHANGED run
      \/ \E r \in Running : Serves(r, t) /\ Enters(t, r)
      \/ Pop(t) /\ UNCHANGED run
  BY DEF BeginEntryLease
<1>2. Top(t).kind = "managed" /\ UNCHANGED <<tok, outsider>>
  BY DEF BeginEntryLease
<1>3. CASE Turn(t, "none") /\ UNCHANGED run
  BY <1>2, <1>3, TurnNoneStep
<1>4. CASE \E r \in Running : Serves(r, t) /\ Enters(t, r)
  <2>1. PICK r \in Running : Serves(r, t) /\ Enters(t, r)
    BY <1>4
  <2> QED
    BY <1>2, <2>1, EntryStep
<1>5. CASE Pop(t) /\ UNCHANGED run
  BY <1>2, <1>5, PopStep
<1> QED
  BY <1>1, <1>3, <1>4, <1>5

-----------------------------------------------------------------------------
(* The lock lease of an operation.                                         *)

(* A lock lease on y's run is one more for the token of that run only. *)
LEMMA LockLaid ==
    ASSUME Ind, NEW t \in Threads, NEW f \in Seq(Lease), NEW s, NEW y, NEW r \in Runs, y.run = r, y.kind = "lock",
           Grows(s, f, y), NEW k, k = run[r].token
    PROVE  \A j : Count(s, {"lock"}, Holding(j)) = Count(f, {"lock"}, Holding(j)) + (IF j = k THEN 1 ELSE 0)
<1>1. \A j : y.run \in Holding(j) <=> j = k
  BY DEF Holding
<1>2. \A j : Count(s, {"lock"}, Holding(j)) = Count(f, {"lock"}, Holding(j)) + (IF y.run \in Holding(j) THEN 1 ELSE 0)
  BY DEF Grows
<1> QED
  BY <1>1, <1>2

(* One more lease of token k for thread t, which may borrow it. *)
LEMMA Begun ==
    ASSUME Ind, NEW t \in Threads, NEW k \in Tokens, Borrowable(tok[k], t), tok' = BeginLease(tok, k, t),
           NEW n, OneMore(n, tok[k].owners[t]), n <= MaxDepth, NEW d, Counted(d, tok[k], t, n)
    PROVE  TokenMoves(t, k, d) /\ d.owners[t] = n
<1>1. /\ tok' = [tok EXCEPT ![k] = d] /\ tok[k] \in Token /\ tok[k].owners[t] \in Nat
      /\ \A u \in Threads : tok[k].owners[u] \in Nat
  BY DEF Ind, TypeOK, Token, BeginLease, Counted, OneMore
<1>2. n \in 0..MaxDepth /\ n > 0
  BY <1>1 DEF OneMore
<1>3. /\ d \in Token /\ d.owners[t] = n /\ d.st = tok[k].st /\ d.pins = tok[k].pins
      /\ d.closeRequested = tok[k].closeRequested
      /\ \A u \in Threads \ {t} : d.owners[u] = tok[k].owners[u]
  BY <1>1, <1>2, TokenCounted DEF Counted
<1>4. tok[k].st = "held" /\ \A u \in Threads \ {t} : tok[k].owners[u] = 0
  BY DEF Borrowable
<1>5. Borrowed(d)
  BY <1>2, <1>3 DEF Borrowed
<1> QED
  BY <1>1, <1>3, <1>4, <1>5 DEF TokenMoves

LEMMA BeginLockStep ==
    ASSUME Ind, NEW t \in Threads, BeginLockLease(t)
    PROVE  Ind'
<1> DEFINE r == Top(t).run
           k == run[r].token
           y == [kind |-> "lock", run |-> r]
           s == Append(ops[t], y)
           n == tok[k].owners[t] + 1
           d == [tok[k] EXCEPT !.owners[t] = n]
<1>1. /\ Top(t).kind \in {"entry", "none"} /\ Len(ops[t]) < MaxDepth
      /\ Borrowable(tok[k], t) /\ tok' = BeginLease(tok, k, t) /\ UNCHANGED <<run, outsider>>
      /\ ops' = [ops EXCEPT ![t] = s]
  BY DEF BeginLockLease, Push
<1>2. r \in Runs /\ run[r].st # "unborn" /\ k \in Tokens /\ r = Top(t).run
  BY <1>1, FoundTop
<1>3. y \in Lease /\ y.kind = "lock" /\ y.run = r
  BY <1>2 DEF Lease
<1>4. ops[t] \in Seq(Lease) /\ Nested(ops[t]) /\ Len(ops[t]) \in Nat /\ Fits(ops[t], y)
  BY <1>1, <1>3, Found DEF Fits, Follows
<1> HIDE DEF y, d, r
<1>5. s \in Seq(Lease) /\ s # <<>> /\ Last(s) = y /\ Len(s) = Len(ops[t]) + 1 /\ Nested(s) /\ Grows(s, ops[t], y)
  BY <1>3, <1>4, Left
<1> HIDE DEF s, k
<1>6. Deep(s) /\ Len(s) <= MaxDepth
  BY <1>1, <1>4, <1>5 DEF Deep
<1>7. \A j : Count(s, {"lock"}, Holding(j)) = Count(ops[t], {"lock"}, Holding(j)) + (IF j = k THEN 1 ELSE 0)
  BY <1>2, <1>3, <1>4, <1>5, LockLaid DEF k
<1>8. \A R : Count(ops[t], {"lock"}, R) \in Nat /\ Count(s, {"lock"}, R) <= Len(s)
  BY <1>4, <1>5, CountBound
<1>9. n = Count(s, {"lock"}, Holding(k)) /\ n <= MaxDepth /\ LockCounts(t, s, k, n)
  <2>1. tok[k].owners[t] = Count(ops[t], {"lock"}, Holding(k))
    BY <1>2 DEF Ind, TokensInv
  <2>2. n = Count(s, {"lock"}, Holding(k))
    BY <1>7, <2>1
  <2>3. n <= MaxDepth
    <3>1. Count(s, {"lock"}, Holding(k)) <= Len(s) /\ Len(s) \in Nat /\ Count(s, {"lock"}, Holding(k)) \in Nat
      BY <1>5, CountBound
    <3> QED
      BY <1>6, <2>2, <3>1
  <2>4. \A j \in Tokens : j # k => Count(s, {"lock"}, Holding(j)) = Count(ops[t], {"lock"}, Holding(j))
    BY <1>7, <1>8
  <2> HIDE DEF n
  <2> QED
    BY <2>2, <2>3, <2>4 DEF LockCounts
<1>10. OneMore(n, tok[k].owners[t]) /\ Counted(d, tok[k], t, n)
  BY DEF d, OneMore, Counted
<1> HIDE DEF n
<1>11. TokenMoves(t, k, d) /\ d.owners[t] = n
  BY <1>1, <1>2, <1>9, <1>10, Begun
<1>12. RunMoves(t, r, run[r]) /\ RunCounts(t, s, r, run[r].owners[t])
  <2>1. RunMoves(t, r, run[r]) /\ run[r].owners[t] = Count(ops[t], RunLeases, {r})
    BY <1>1, <1>2, RunStays
  <2>2. \A R : Count(ops[t], RunLeases, R) \in Nat
    BY <1>4, CountBound
  <2>3. \A R : Count(s, RunLeases, R) = Count(ops[t], RunLeases, R)
    BY <1>3, <1>5, <2>2 DEF Grows, RunLeases
  <2> QED
    BY <2>1, <2>3 DEF RunCounts
<1>13. Lays(t, s) /\ Brings(t, s, r) /\ Last(s).kind # "unpin" /\ UNCHANGED outsider
  BY <1>1, <1>2, <1>3, <1>5 DEF Lays, Brings, Grows
<1>14. k = run[r].token
  BY DEF k
<1> QED
  BY <1>5, <1>6, <1>9, <1>11, <1>12, <1>13, <1>14, LeaseStep

-----------------------------------------------------------------------------
(* The run lease of a decision about the run, with its lock lease.         *)

LEMMA Pair ==
    ASSUME NEW x \in Lease, NEW y \in Lease
    PROVE  <<x, y>> = Append(Append(<<>>, x), y)
<1> DEFINE e == Append(<<>>, x)
           p == Append(e, y)
<1>1. e \in Seq(Lease) /\ Len(e) = 1 /\ e[1] = x
  OBVIOUS
<1> HIDE DEF e
<1>2. p \in Seq(Lease) /\ Len(p) = 2 /\ p[1] = x /\ p[2] = y
  <2>1. /\ p \in Seq(Lease) /\ Len(p) = Len(e) + 1
        /\ (\A i \in 1..Len(e) : p[i] = e[i]) /\ p[Len(e) + 1] = y
    BY <1>1, AppendProperties
  <2> HIDE DEF p
  <2>2. 1 \in 1..Len(e) /\ Len(e) + 1 = 2
    BY <1>1
  <2> QED
    BY <1>1, <2>1, <2>2
<1>3. <<x, y>> \in Seq(Lease) /\ Len(<<x, y>>) = 2 /\ <<x, y>>[1] = x /\ <<x, y>>[2] = y
  OBVIOUS
<1> HIDE DEF p
<1>4. ASSUME NEW i \in 1..2
      PROVE  p[i] = <<x, y>>[i]
  BY <1>2, <1>3, i = 1 \/ i = 2
<1>5. p = <<x, y>>
  <2>1. Len(p) = Len(<<x, y>>) /\ \A i \in 1..Len(p) : p[i] = <<x, y>>[i]
    BY <1>2, <1>3, <1>4
  <2> QED
    BY <1>2, <1>3, <2>1, SeqEqual
<1> QED
  BY <1>5 DEF p, e

LEMMA BeginRunStep ==
    ASSUME Ind, NEW t \in Threads, NEW r \in Runs, BeginRunLease(t, r)
    PROVE  Ind'
<1> DEFINE k == run[r].token
           a == [kind |-> "run", run |-> r]
           b == [kind |-> "lock", run |-> r]
           g == Append(<<>>, a)
           s == Append(g, b)
           one == 1
           d == [tok[k] EXCEPT !.owners[t] = one]
           c == [run[r] EXCEPT !.owners[t] = one]
<1>1. /\ ops[t] = <<>> /\ Borrowable(tok[k], t) /\ tok' = BeginLease(tok, k, t) /\ Owned(t, r)
      /\ run[r].st = "active" /\ UNCHANGED outsider /\ ops' = [ops EXCEPT ![t] = <<a, b>>]
  BY DEF BeginRunLease, Owned, Usable
<1>2. a \in Lease /\ b \in Lease /\ a.kind = "run" /\ b.kind = "lock" /\ a.run = r /\ b.run = r
  BY DEF Lease
<1>3. Counted(c, run[r], t, one) /\ Counted(d, tok[k], t, one) /\ k = run[r].token
  BY DEF Counted
<1> HIDE DEF a, b, c, d, k
<1>4. k \in Tokens
  BY <1>1, <1>3 DEF Ind, RunsInv
<1>5. <<>> \in Seq(Lease) /\ Nested(<<>>) /\ Fits(<<>>, a) /\ Len(<<>>) = 0
  BY <1>2 DEF Nested, Fits
<1>6. g \in Seq(Lease) /\ g # <<>> /\ Last(g) = a /\ Len(g) = Len(<<>>) + 1 /\ Nested(g) /\ Grows(g, <<>>, a)
  BY <1>2, <1>5, Left
<1> HIDE DEF g
<1>7. Fits(g, b)
  BY <1>2, <1>6 DEF Fits, Follows
<1>8. s \in Seq(Lease) /\ s # <<>> /\ Last(s) = b /\ Len(s) = Len(g) + 1 /\ Nested(s) /\ Grows(s, g, b)
  BY <1>2, <1>6, <1>7, Left
<1>9. Deep(s)
  BY <1>5, <1>6, <1>8 DEF Deep
<1>0. s = <<a, b>>
  BY <1>2, Pair DEF g
<1> HIDE DEF s
<1>10. Lays(t, s) /\ Last(s).kind # "unpin"
  BY <1>0, <1>1, <1>2, <1>8 DEF Lays
<1>11. Brings(t, s, r)
  BY <1>1, <1>2, <1>6, <1>8 DEF Brings, Grows
<1>12. \A K, R : Count(ops[t], K, R) = 0 /\ Count(<<>>, K, R) = 0
  BY <1>1, CountEmpty
<1>13. run[r].owners[t] = 0 /\ RunCounts(t, s, r, one)
  <2>1. run[r].owners[t] = 0
    BY <1>12 DEF Ind, RunsInv
  <2>2. \A q \in Runs : Count(g, RunLeases, {q}) = (IF q = r THEN 1 ELSE 0)
    BY <1>2, <1>6, <1>12 DEF Grows, RunLeases
  <2>3. \A q \in Runs : Count(s, RunLeases, {q}) = Count(g, RunLeases, {q}) + 0
    BY <1>2, <1>8 DEF Grows, RunLeases
  <2> QED
    BY <1>12, <2>1, <2>2, <2>3 DEF RunCounts
<1>14. tok[k].owners[t] = 0 /\ LockCounts(t, s, k, one)
  <2>1. tok[k].owners[t] = 0
    BY <1>4, <1>12 DEF Ind, TokensInv
  <2>2. \A j : Count(g, {"lock"}, Holding(j)) = 0
    BY <1>2, <1>6, <1>12 DEF Grows
  <2>3. \A j : Count(s, {"lock"}, Holding(j)) = Count(g, {"lock"}, Holding(j)) + (IF j = k THEN 1 ELSE 0)
    BY <1>2, <1>3, <1>6, <1>8, LockLaid
  <2> QED
    BY <1>12, <2>1, <2>2, <2>3 DEF LockCounts
<1>15. OneMore(one, run[r].owners[t]) /\ OneMore(one, tok[k].owners[t]) /\ one <= MaxDepth
  BY <1>13, <1>14 DEF OneMore
<1> HIDE DEF one
<1>16. RunMoves(t, r, c) /\ c.owners[t] = one
  BY <1>1, <1>3, <1>15, Entered
<1>17. TokenMoves(t, k, d) /\ d.owners[t] = one
  BY <1>1, <1>3, <1>4, <1>15, Begun
<1> QED
  BY <1>1, <1>3, <1>8, <1>9, <1>10, <1>11, <1>13, <1>14, <1>16, <1>17, LeaseStep

-----------------------------------------------------------------------------
(* A lock lease ends, and with it perhaps the token.                       *)

LEMMA Ended ==
    ASSUME Ind, NEW t \in Threads, NEW k \in Tokens, tok[k].owners[t] > 0, tok' = EndLease(tok, k, t),
           NEW n \in Nat, OneMore(tok[k].owners[t], n)
    PROVE  TokenMoves(t, k, tok'[k]) /\ tok'[k].owners[t] = n
<1> DEFINE e == [tok[k] EXCEPT !.owners[t] = n]
           U == [tok EXCEPT ![k] = e]
<1>1. /\ tok \in [Tokens -> Token] /\ tok[k] \in Token /\ tok[k].owners \in [Threads -> 0..MaxDepth]
      /\ n = tok[k].owners[t] - 1
  BY DEF Ind, TypeOK, Token, OneMore
<1>2. n \in 0..MaxDepth
  BY <1>1
<1>3. tok' = IF ~Borrowed(U[k]) /\ U[k].pins = {} /\ U[k].closeRequested THEN ReleaseRegistration(U, k) ELSE U
  BY <1>1 DEF EndLease
<1>4. /\ e \in Token /\ e.owners[t] = n /\ e.st = tok[k].st /\ e.pins = tok[k].pins
      /\ e.closeRequested = tok[k].closeRequested
      /\ \A u \in Threads \ {t} : e.owners[u] = tok[k].owners[u]
  BY <1>1, <1>2, TokenCounted
<1>5. tok[k].st = "held" /\ \A u \in Threads \ {t} : tok[k].owners[u] = 0
  <2>1. Borrowed(tok[k])
    BY DEF Borrowed
  <2> QED
    BY <1>1, <2>1 DEF Ind, TokensInv
<1> HIDE DEF e
<1>6. U \in [Tokens -> Token] /\ U[k] = e
  BY <1>1, <1>4
<1>7. CASE ~Borrowed(e) /\ e.pins = {} /\ e.closeRequested
  <2>1. tok' = ReleaseRegistration(U, k)
    BY <1>3, <1>6, <1>7
  <2> HIDE DEF U
  <2>2. /\ tok' \in [Tokens -> Token]
        /\ \A j \in Tokens \ {k} : tok'[j] = U[j]
        /\ tok'[k].owners = e.owners /\ tok'[k].pins = e.pins /\ tok'[k].st = "gone"
    BY <1>6, <1>7, <2>1, Released
  <2>3. \A j \in Tokens \ {k} : tok'[j] = tok[j]
    BY <1>1, <2>2 DEF U
  <2>4. tok' = [tok EXCEPT ![k] = tok'[k]]
    BY <1>1, <2>2, <2>3
  <2>5. ~Borrowed(tok'[k])
    BY <1>7, <2>2 DEF Borrowed
  <2> QED
    BY <1>4, <1>5, <1>7, <2>2, <2>4, <2>5 DEF TokenMoves
<1>8. CASE ~(~Borrowed(e) /\ e.pins = {} /\ e.closeRequested)
  <2>1. tok' = [tok EXCEPT ![k] = e] /\ tok'[k] = e
    BY <1>1, <1>3, <1>6, <1>8
  <2> QED
    BY <1>4, <1>5, <1>8, <2>1 DEF TokenMoves
<1> QED
  BY <1>7, <1>8

LEMMA EndLockStep ==
    ASSUME Ind, NEW t \in Threads, EndLockLease(t)
    PROVE  Ind'
<1> DEFINE x == Top(t)
           r == x.run
           k == run[r].token
           f == Front(ops[t])
           g == Front(f)
           b == Last(f)
           y == [b EXCEPT !.kind = IF @ = "none" THEN "left" ELSE "ending"]
           s == Append(g, y)
           n == Count(s, {"lock"}, Holding(k))
<1>1. x.kind = "lock" /\ tok' = EndLease(tok, k, t) /\ UNCHANGED <<run, outsider>>
  BY DEF EndLockLease
<1>2. /\ f \in Seq(Lease) /\ Nested(f) /\ Fits(f, x) /\ Len(ops[t]) = Len(f) + 1 /\ ops[t] = Append(f, x)
      /\ r \in Runs /\ run[r].st # "unborn" /\ k \in Tokens /\ Grows(ops[t], f, x) /\ x \in Lease
  BY <1>1, FoundTop
<1>3. f # <<>> /\ b.kind \in {"entry", "none", "run"} /\ b.run = r
  BY <1>1, <1>2 DEF Fits, Follows
<1>4. ops' = [ops EXCEPT ![t] = s]
  <2>1. Below(t) = b
    <3>1. Len(f) \in Nat \ {0}
      BY <1>2, <1>3, Split
    <3>2. ops[t][Len(f)] = f[Len(f)]
      BY <1>2, <3>1, AppendProperties
    <3>3. Len(ops[t]) - 1 = Len(f)
      BY <1>2, <3>1
    <3> QED
      BY <3>2, <3>3 DEF Below, Last
  <2> QED
    BY <2>1 DEF EndLockLease
<1>5. Len(ops[t]) <= MaxDepth /\ Len(f) \in Nat
  BY <1>1, <1>2, Found
<1> HIDE DEF x, f
<1>6. g \in Seq(Lease) /\ b \in Lease /\ f = Append(g, b) /\ Len(f) = Len(g) + 1 /\ Len(g) \in Nat
  BY <1>2, <1>3, Split
<1> HIDE DEF g, b
<1>7. Fits(g, b) /\ Nested(g) /\ Grows(f, g, b)
  <2>1. Nested(g) /\ Fits(g, b)
    BY <1>2, <1>6, NestedAppend
  <2> QED
    BY <1>6, <2>1, Left
<1>8. y \in Lease /\ y.run = r /\ y.kind = IF b.kind = "none" THEN "left" ELSE "ending"
  BY <1>3, <1>6 DEF Lease
<1> HIDE DEF y, r, k
<1>9. Fits(g, y)
  BY <1>3, <1>7, <1>8 DEF Fits, Follows
<1>10. s \in Seq(Lease) /\ s # <<>> /\ Last(s) = y /\ Len(s) = Len(g) + 1 /\ Nested(s) /\ Grows(s, g, y)
  BY <1>6, <1>7, <1>8, <1>9, Left
<1> HIDE DEF s, n
<1>11. Deep(s) /\ Lays(t, s)
  BY <1>2, <1>4, <1>5, <1>6, <1>10 DEF Deep, Lays
<1>12. Brings(t, s, r)
  BY <1>2, <1>7, <1>8, <1>10 DEF Brings, Grows
<1>13. RunCounts(t, s, r, run[r].owners[t]) /\ RunMoves(t, r, run[r])
  <2>1. \A R : Count(g, RunLeases, R) \in Nat
    BY <1>6, CountBound
  <2>2. \A R : Count(f, RunLeases, R) = Count(g, RunLeases, R) + (IF b.kind # "none" /\ r \in R THEN 1 ELSE 0)
    BY <1>3, <1>7 DEF Grows, RunLeases
  <2>3. \A R : Count(s, RunLeases, R) = Count(g, RunLeases, R) + (IF b.kind # "none" /\ r \in R THEN 1 ELSE 0)
    BY <1>3, <1>8, <1>10 DEF Grows, RunLeases
  <2>4. \A R : Count(ops[t], RunLeases, R) = Count(f, RunLeases, R) + 0
    BY <1>1, <1>2 DEF Grows, RunLeases
  <2>5. \A R : Count(s, RunLeases, R) = Count(ops[t], RunLeases, R)
    BY <2>1, <2>2, <2>3, <2>4
  <2>6. RunMoves(t, r, run[r]) /\ run[r].owners[t] = Count(ops[t], RunLeases, {r})
    BY <1>1, <1>2, RunStays
  <2> QED
    BY <2>5, <2>6 DEF RunCounts
<1>14. \A j : /\ Count(ops[t], {"lock"}, Holding(j)) = Count(s, {"lock"}, Holding(j)) + (IF j = k THEN 1 ELSE 0)
              /\ Count(s, {"lock"}, Holding(j)) \in Nat
  <2>1. \A j : Count(g, {"lock"}, Holding(j)) \in Nat /\ Count(s, {"lock"}, Holding(j)) \in Nat
    BY <1>6, <1>10, CountBound
  <2>2. \A j : Count(f, {"lock"}, Holding(j)) = Count(g, {"lock"}, Holding(j)) + 0
    BY <1>3, <1>7 DEF Grows
  <2>3. \A j : Count(s, {"lock"}, Holding(j)) = Count(g, {"lock"}, Holding(j)) + 0
    BY <1>8, <1>10 DEF Grows
  <2>4. k = run[r].token /\ r = x.run
    BY DEF k, r
  <2>5. \A j : Count(ops[t], {"lock"}, Holding(j)) = Count(f, {"lock"}, Holding(j)) + (IF j = k THEN 1 ELSE 0)
    BY <1>1, <1>2, <2>4, LockLaid
  <2> QED
    BY <2>1, <2>2, <2>3, <2>5
<1>15. /\ OneMore(tok[k].owners[t], n) /\ tok[k].owners[t] > 0 /\ n \in Nat
       /\ LockCounts(t, s, k, n)
  <2>1. tok[k].owners[t] = Count(ops[t], {"lock"}, Holding(k))
    BY <1>2 DEF Ind, TokensInv
  <2>2. n = Count(s, {"lock"}, Holding(k)) /\ n \in Nat
    BY <1>14 DEF n
  <2>3. OneMore(tok[k].owners[t], n) /\ tok[k].owners[t] > 0
    BY <1>14, <2>1, <2>2 DEF OneMore
  <2>4. \A j \in Tokens : j # k => Count(s, {"lock"}, Holding(j)) = Count(ops[t], {"lock"}, Holding(j))
    BY <1>14
  <2> QED
    BY <2>2, <2>3, <2>4 DEF LockCounts
<1>16. TokenMoves(t, k, tok'[k]) /\ tok'[k].owners[t] = n
  BY <1>1, <1>2, <1>15, Ended
<1>17. k = run[r].token /\ Last(s).kind # "unpin" /\ UNCHANGED outsider
  BY <1>1, <1>8, <1>10 DEF k
<1> QED
  BY <1>10, <1>11, <1>12, <1>13, <1>15, <1>16, <1>17, LeaseStep

-----------------------------------------------------------------------------
(* A run lease ends, and with it perhaps the run.                          *)

LEMMA Exited ==
    ASSUME Ind, NEW t \in Threads, NEW r \in Runs, run[r].owners[t] > 0,
           NEW n \in Nat, OneMore(run[r].owners[t], n), NEW e, Counted(e, run[r], t, n)
    PROVE  /\ e \in Context /\ e.owners[t] = n /\ e.st = "active" /\ run[r].st = "active"
           /\ e.token = run[r].token /\ e.closing = run[r].closing
           /\ \A u \in Threads \ {t} : e.owners[u] = run[r].owners[u]
<1>1. run[r] \in Context /\ run[r].owners \in [Threads -> 0..MaxDepth]
  BY DEF Ind, TypeOK, Context
<1>2. n \in 0..MaxDepth
  BY <1>1 DEF OneMore
<1>3. run[r].st = "active"
  <2>1. Borrowed(run[r])
    BY DEF Borrowed
  <2> QED
    BY <2>1 DEF Ind, RunsInv
<1> QED
  BY <1>1, <1>2, <1>3, RunCounted DEF Counted

Exits(R, t, r) == R = [run EXCEPT ![r].owners[t] = @ - 1]

LEMMA EndRunStep ==
    ASSUME Ind, NEW t \in Threads, EndRunLease(t)
    PROVE  Ind'
<1> DEFINE x == Top(t)
           r == x.run
           k == run[r].token
           f == Front(ops[t])
           n == Count(f, RunLeases, {r})
           e == [run[r] EXCEPT !.owners[t] = n]
<1>1. PICK R : /\ Exits(R, t, r)
               /\ IF R[r].closing /\ ~Borrowed(R[r]) THEN run' = Gone(R, r) /\ Turn(t, "unpin")
                                                     ELSE run' = R /\ Pop(t)
  BY DEF EndRunLease, Exits
<1>2. x.kind \in {"entry", "ending"} /\ UNCHANGED <<tok, outsider>> /\ x = Top(t)
  BY DEF EndRunLease
<1>3. /\ f \in Seq(Lease) /\ Nested(f) /\ Fits(f, x) /\ Len(ops[t]) = Len(f) + 1
      /\ r \in Runs /\ run[r].st # "unborn" /\ k \in Tokens /\ Grows(ops[t], f, x) /\ x \in Lease
  BY <1>2, FoundTop
<1>4. Len(ops[t]) <= MaxDepth /\ Len(f) \in Nat
  BY <1>2, <1>3, Found
<1>5. Counted(e, run[r], t, n) /\ r = x.run /\ k = run[r].token
  BY DEF Counted
<1> HIDE DEF e, r, k
<1>6. OneMore(run[r].owners[t], n) /\ run[r].owners[t] > 0 /\ n \in Nat
  <2>1. run[r].owners[t] = Count(ops[t], RunLeases, {r})
    BY <1>3 DEF Ind, RunsInv
  <2>2. Count(ops[t], RunLeases, {r}) = Count(f, RunLeases, {r}) + 1
    BY <1>2, <1>3, <1>5 DEF Grows, RunLeases
  <2>3. Count(f, RunLeases, {r}) \in Nat
    BY <1>3, CountBound
  <2> QED
    BY <2>1, <2>2, <2>3 DEF OneMore
<1> HIDE DEF n
<1>7. /\ e \in Context /\ e.owners[t] = n /\ e.st = "active" /\ run[r].st = "active"
      /\ e.token = run[r].token /\ e.closing = run[r].closing
      /\ \A u \in Threads \ {t} : e.owners[u] = run[r].owners[u]
  BY <1>3, <1>5, <1>6, Exited
<1>8. run \in [Runs -> Context] /\ R = [run EXCEPT ![r] = e] /\ R[r] = e
  <2>1. run \in [Runs -> Context] /\ run[r].owners[t] \in Nat /\ n = run[r].owners[t] - 1
    BY <1>3, <1>6 DEF Ind, TypeOK, Context, OneMore
  <2>2. R = [run EXCEPT ![r] = e]
    BY <1>1, <1>3, <1>5, <2>1 DEF Exits, Counted
  <2> QED
    BY <1>3, <2>1, <2>2
<1>9. TokenMoves(t, k, tok[k]) /\ tok[k].owners[t] = Count(ops[t], {"lock"}, Holding(k))
  BY <1>2, <1>3, TokenStays
<1>10. \A K, Q : Count(f, K, Q) \in Nat
  BY <1>3, CountBound
<1> HIDE DEF f, x
<1>11. CASE e.closing /\ ~Borrowed(e)
  <2> DEFINE y == [kind |-> "unpin", run |-> r]
             s == Append(Front(ops[t]), y)
             c == [e EXCEPT !.st = "gone"]
  <2>1. run' = Gone(R, r) /\ Turn(t, "unpin")
    BY <1>1, <1>8, <1>11
  <2>2. run' = [run EXCEPT ![r] = c]
    BY <1>3, <1>7, <1>8, <2>1 DEF Gone
  <2>3. /\ c \in Context /\ c.owners = e.owners /\ c.st = "gone" /\ c.token = e.token
    BY <1>7 DEF Context
  <2> HIDE DEF c
  <2>4. RunMoves(t, r, c) /\ c.owners[t] = n
    <3>1. ~Borrowed(c)
      BY <1>11, <2>3 DEF Borrowed
    <3> QED
      BY <1>7, <2>2, <2>3, <3>1 DEF RunMoves
  <2>5. y \in Lease /\ y.kind = "unpin" /\ y.run = r /\ y.run \in Runs /\ run[y.run].st # "unborn"
    BY <1>3, <1>7 DEF Lease
  <2>6. ops' = [ops EXCEPT ![t] = s]
    BY <1>5, <2>1 DEF Turn, x
  <2> HIDE DEF y
  <2>7. /\ s \in Seq(Lease) /\ s # <<>> /\ Last(s) = y /\ Nested(s) /\ Deep(s)
        /\ Brings(t, s, y.run) /\ Grows(s, f, y)
    BY <1>2, <1>5, <2>5, Turned DEF f
  <2> HIDE DEF s
  <2>8. Replaces(t, s, f, x, y, r)
    BY <1>3, <1>5, <2>5, <2>7 DEF Replaces
  <2>9. RunCounts(t, s, r, n)
    <3>1. Tallies(n, run[r].owners[t], x, y)
      BY <1>2, <1>6, <2>5 DEF Tallies, RunLeases, OneMore
    <3> QED
      BY <2>8, <3>1, RunTally
  <2>10. LockCounts(t, s, k, tok[k].owners[t])
    BY <1>2, <1>3, <2>5, <2>7, LockTally
  <2>11. Lays(t, s) /\ Brings(t, s, r) /\ UNCHANGED outsider
    BY <1>2, <2>5, <2>6, <2>7 DEF Lays
  <2>12. Last(s).run = r /\ run[r].st = "active" /\ c.st = "gone"
    BY <1>7, <2>3, <2>5, <2>7
  <2> QED
    BY <1>5, <1>9, <2>4, <2>7, <2>9, <2>10, <2>11, <2>12, LeaseStep
<1>12. CASE ~(e.closing /\ ~Borrowed(e))
  <2>1. run' = R /\ Pop(t)
    BY <1>1, <1>8, <1>12
  <2>2. RunMoves(t, r, e)
    BY <1>7, <1>8, <1>12, <2>1 DEF RunMoves
  <2>3. ops' = [ops EXCEPT ![t] = f]
    BY <2>1 DEF Pop, f
  <2>4. f # <<>> => Last(f).kind # "unpin"
    BY <1>2, <1>3 DEF Fits, Follows
  <2>5. Deep(f) /\ Lays(t, f) /\ Brings(t, f, r)
    BY <1>3, <1>4, <2>3 DEF Deep, Lays, Brings, Grows
  <2>6. RunCounts(t, f, r, n)
    <3>1. \A q \in Runs : q # r => Count(ops[t], RunLeases, {q}) = Count(f, RunLeases, {q}) + 0
      BY <1>3, <1>5 DEF Grows
    <3> QED
      <4>1. n = Count(f, RunLeases, {r})
        BY DEF n
      <4>2. \A q \in Runs : q # r => Count(ops[t], RunLeases, {q}) = Count(f, RunLeases, {q})
        BY <1>10, <3>1
      <4> QED
        BY <4>1, <4>2 DEF RunCounts
  <2>7. LockCounts(t, f, k, tok[k].owners[t])
    <3>1. \A j : Count(ops[t], {"lock"}, Holding(j)) = Count(f, {"lock"}, Holding(j)) + 0
      BY <1>2, <1>3 DEF Grows
    <3> QED
      BY <1>9, <1>10, <3>1 DEF LockCounts
  <2>8. Nested(f) /\ UNCHANGED outsider
    BY <1>2, <1>3
  <2> QED
    BY <1>5, <1>7, <1>9, <2>2, <2>4, <2>5, <2>6, <2>7, <2>8, LeaseStep
<1> QED
  BY <1>11, <1>12

LEMMA EndNoStep ==
    ASSUME Ind, NEW t \in Threads, EndNoLease(t)
    PROVE  Ind'
BY PopStep DEF EndNoLease

-----------------------------------------------------------------------------
(* The pin of a run that is gone is released.                              *)

LEMMA PinReleased ==
    ASSUME Ind, NEW r \in Runs, NEW k \in Tokens, r \in tok[k].pins, tok' = ReleasePin(tok, k, r)
    PROVE  /\ tok' \in [Tokens -> Token] /\ \A j \in Tokens \ {k} : tok'[j] = tok[j]
           /\ tok'[k].owners = tok[k].owners /\ tok'[k].pins = tok[k].pins \ {r} /\ tok[k].st = "held"
           /\ tok'[k].st = IF tok'[k].pins = {} /\ ~Borrowed(tok'[k]) THEN "gone" ELSE "held"
<1> DEFINE T == [tok EXCEPT ![k].pins = @ \ {r}]
<1>1. tok \in [Tokens -> Token]
  BY DEF Ind, TypeOK
<1>2. /\ T \in [Tokens -> Token] /\ (\A j \in Tokens \ {k} : T[j] = tok[j])
      /\ T[k].owners = tok[k].owners /\ T[k].pins = tok[k].pins \ {r} /\ T[k].st = tok[k].st
  BY <1>1 DEF Token
<1>3. tok' = ReleaseRegistration(T, k)
  BY DEF ReleasePin
<1> HIDE DEF T
<1>4. /\ tok' \in [Tokens -> Token]
      /\ \A j \in Tokens \ {k} : tok'[j] = T[j]
      /\ tok'[k].owners = T[k].owners /\ tok'[k].pins = T[k].pins
      /\ tok'[k].st = IF T[k].pins = {} /\ ~Borrowed(T[k]) THEN "gone" ELSE T[k].st
  BY <1>2, <1>3, Released
<1>5. tok[k].st = "held"
  BY DEF Ind, TokensInv
<1>6. Borrowed(tok'[k]) <=> Borrowed(T[k])
  BY <1>4 DEF Borrowed
<1> QED
  BY <1>2, <1>4, <1>5, <1>6

LEMMA UnpinStep ==
    ASSUME Ind, NEW t \in Threads, Unpin(t)
    PROVE  Ind'
<1> DEFINE x == Top(t)
           r == x.run
           k == run[r].token
           f == Front(ops[t])
<1>1. /\ x.kind = "unpin" /\ tok' = ReleasePin(tok, k, r) /\ UNCHANGED <<run, outsider>>
      /\ ops' = [ops EXCEPT ![t] = f]
  BY DEF Unpin, Pop
<1>2. /\ f \in Seq(Lease) /\ Nested(f) /\ Fits(f, x) /\ Len(ops[t]) = Len(f) + 1
      /\ r \in Runs /\ run[r].st # "unborn" /\ k \in Tokens /\ Grows(ops[t], f, x) /\ x \in Lease
  BY <1>1, FoundTop
<1>3. Len(ops[t]) <= MaxDepth + 1 /\ Len(f) \in Nat
  BY <1>1, <1>2, Found
<1>4. Deep(f) /\ (f # <<>> => Last(f).kind # "unpin")
  BY <1>1, <1>2, <1>3 DEF Deep, Fits, Follows
<1>5. /\ run[r].st = "gone" /\ r \in tok[k].pins
      /\ \A u \in Threads \ {t} : Top(u).kind = "unpin" => Top(u).run # r
  BY <1>1 DEF Ind, PinsInv
<1> HIDE DEF x, f, r, k
<1>6. /\ tok' \in [Tokens -> Token] /\ \A j \in Tokens \ {k} : tok'[j] = tok[j]
      /\ tok'[k].owners = tok[k].owners /\ tok'[k].pins = tok[k].pins \ {r} /\ tok[k].st = "held"
      /\ tok'[k].st = IF tok'[k].pins = {} /\ ~Borrowed(tok'[k]) THEN "gone" ELSE "held"
  BY <1>1, <1>2, <1>5, PinReleased
<1>7. \A R : /\ Count(f, RunLeases, R) = Count(ops[t], RunLeases, R)
             /\ Count(f, {"lock"}, R) = Count(ops[t], {"lock"}, R)
  <2>1. \A K, R : Count(f, K, R) \in Nat
    BY <1>2, CountBound
  <2> QED
    BY <1>1, <1>2, <2>1 DEF RunLeases, Grows
<1>8. \A q \in Runs : InStack(f, q) => InStack(ops[t], q) \/ q = r
  BY <1>2 DEF Grows
<1>9. PinsInv'
  <2>1. \A q \in Runs : run[q].st # "unborn" => run[q].token \in Tokens
    BY DEF Ind, RunsInv
  <2>2. /\ \A u \in Threads \ {t} : Top(u)' = Top(u)
        /\ Top(t)' = IF f = <<>> THEN [kind |-> "idle", run |-> None] ELSE Last(f)
    <3>1. ops'[t] = f /\ \A u \in Threads \ {t} : ops'[u] = ops[u]
      BY <1>1 DEF Ind, TypeOK
    <3> QED
      BY <3>1 DEF Top
  <2>3. \A j \in Tokens : \A q \in tok[j].pins : q # r => q \in tok'[j].pins
    BY <1>6
  <2>4. ASSUME NEW q \in Runs, run'[q].st = "active"
        PROVE  q \in tok'[run'[q].token].pins
    BY <1>1, <1>5, <2>1, <2>3, <2>4 DEF Ind, PinsInv
  <2>5. Top(t)'.kind # "unpin"
    BY <1>4, <2>2
  <2>6. ASSUME NEW u \in Threads, Top(u)'.kind = "unpin"
        PROVE  /\ run'[Top(u)'.run].st = "gone" /\ Top(u)'.run \in tok'[run'[Top(u)'.run].token].pins
               /\ \A v \in Threads : Top(v)'.kind = "unpin" /\ Top(v)'.run = Top(u)'.run => v = u
    <3>1. u # t /\ Top(u)' = Top(u) /\ Top(u).kind = "unpin" /\ Top(u).run # r
      BY <1>5, <2>2, <2>5, <2>6
    <3>2. Top(u).run \in Runs
      BY <3>1, TopLease DEF Ind
    <3>3. /\ run[Top(u).run].st = "gone" /\ Top(u).run \in tok[run[Top(u).run].token].pins
          /\ \A v \in Threads : Top(v).kind = "unpin" /\ Top(v).run = Top(u).run => v = u
      BY <3>1 DEF Ind, PinsInv
    <3>4. run[Top(u).run].token \in Tokens
      BY <2>1, <3>2, <3>3
    <3>5. Top(u)'.run \in tok'[run'[Top(u)'.run].token].pins
      BY <1>1, <2>3, <3>1, <3>3, <3>4
    <3>6. \A v \in Threads : Top(v)'.kind = "unpin" /\ Top(v)'.run = Top(u)'.run => v = u
      BY <2>2, <2>5, <3>1, <3>3
    <3> QED
      BY <1>1, <3>1, <3>3, <3>5, <3>6
  <2> QED
    BY <2>4, <2>6 DEF PinsInv
<1>10. NotLeaked'
  <2>1. \A j \in Tokens : tok'[j].closeRequested /\ tok'[j].pins = {} /\ ~Borrowed(tok'[j]) => tok'[j].st = "gone"
    BY <1>6 DEF Ind, NotLeaked
  <2>2. \A q \in Runs : run'[q].closing /\ ~Borrowed(run'[q]) => run'[q].st = "gone"
    BY <1>1 DEF Ind, NotLeaked
  <2> QED
    BY <2>1, <2>2 DEF NotLeaked
<1>11. RunsMove(t, f)
  <2>1. run' \in [Runs -> Context]
    BY <1>1 DEF Ind, TypeOK
  <2> QED
    BY <1>1, <1>7, <2>1 DEF Ind, RunsInv, RunsMove
<1>12. TokensMove(t, f)
  <2>1. \A j \in Tokens : tok'[j].owners = tok[j].owners
    BY <1>6
  <2>2. \A j \in Tokens : tok[j].owners[t] = Count(f, {"lock"}, Holding(j))
    BY <1>7 DEF Ind, TokensInv
  <2>3. \A j \in Tokens : tok[j].owners[t] > 0 => \A u \in Threads \ {t} : tok[j].owners[u] = 0
    BY DEF Ind, TypeOK, Token, TokensInv
  <2>4. \A j \in Tokens : /\ tok'[j].st = "held" => tok[j].st = "held"
                          /\ tok'[j].pins # {} \/ Borrowed(tok'[j]) => tok'[j].st = "held"
    BY <1>6 DEF Ind, TokensInv
  <2> QED
    BY <1>6, <2>1, <2>2, <2>3, <2>4 DEF TokensMove
<1>13. Lays(t, f) /\ Brings(t, f, r) /\ Nested(f) /\ UNCHANGED outsider
  BY <1>1, <1>2, <1>8 DEF Lays, Brings
<1> QED
  BY <1>4, <1>9, <1>10, <1>11, <1>12, <1>13, StepIntro

-----------------------------------------------------------------------------
(* A run is closed: at once, or by the last lease of it that ends.         *)

LEMMA CloseStep ==
    ASSUME Ind, NEW t \in Threads, NEW r \in Runs, CloseRun(t, r)
    PROVE  Ind'
<1> DEFINE k == run[r].token
           o == ops[t]
<1>1. run[r].st = "active" /\ Top(t).kind # "unpin" /\ UNCHANGED <<tok, outsider>> /\ k = run[r].token
  BY DEF CloseRun
<1>2. k \in Tokens /\ run \in [Runs -> Context] /\ ops \in [Threads -> Seq(Lease)]
  BY <1>1 DEF Ind, RunsInv, TypeOK
<1>3. /\ o \in Seq(Lease) /\ Nested(o) /\ Len(o) \in Nat /\ Len(o) <= MaxDepth
      /\ o # <<>> => Last(o) = Top(t)
  BY <1>1, Found
<1>4. TokenMoves(t, k, tok[k]) /\ tok[k].owners[t] = Count(o, {"lock"}, Holding(k))
  BY <1>1, <1>2, TokenStays
<1>5. run[r].owners[t] = Count(o, RunLeases, {r})
  BY DEF Ind, RunsInv
<1>6. \A K, R : Count(o, K, R) \in Nat
  BY <1>3, CountBound
<1> HIDE DEF k, o
<1>7. CASE Borrowed(run[r])
  <2> DEFINE c == [run[r] EXCEPT !.closing = TRUE]
  <2>1. run' = [run EXCEPT ![r] = c] /\ UNCHANGED ops
    BY <1>2, <1>7 DEF CloseRun
  <2>2. c \in Context /\ c.owners = run[r].owners /\ c.st = "active" /\ c.token = run[r].token
    BY <1>1, <1>2 DEF Context
  <2> HIDE DEF c
  <2>3. RunMoves(t, r, c)
    <3>1. Borrowed(c)
      BY <1>7, <2>2 DEF Borrowed
    <3> QED
      BY <1>1, <2>1, <2>2, <3>1 DEF RunMoves
  <2>4. Lays(t, o) /\ Brings(t, o, r) /\ Deep(o)
    BY <1>1, <1>2, <1>3, <2>1 DEF Lays, Brings, Deep, o
  <2>5. RunCounts(t, o, r, c.owners[t])
    BY <1>5, <2>2 DEF RunCounts, o
  <2>6. LockCounts(t, o, k, tok[k].owners[t])
    BY <1>4 DEF LockCounts, o
  <2>7. UNCHANGED outsider /\ ~(o # <<>> /\ Last(o).kind = "unpin")
    BY <1>1, <1>3
  <2> QED
    BY <1>1, <1>3, <1>4, <2>3, <2>4, <2>5, <2>6, <2>7, LeaseStep
<1>8. CASE ~Borrowed(run[r])
  <2> DEFINE c == [run[r] EXCEPT !.st = "gone"]
             y == [kind |-> "unpin", run |-> r]
             s == Append(o, y)
  <2>1. run' = [run EXCEPT ![r] = c] /\ ops' = [ops EXCEPT ![t] = s]
    BY <1>2, <1>8 DEF CloseRun, Gone, Push, o
  <2>2. c \in Context /\ c.owners = run[r].owners /\ c.st = "gone" /\ c.token = run[r].token
    BY <1>1, <1>2 DEF Context
  <2>3. y \in Lease /\ y.kind = "unpin" /\ y.run = r
    BY DEF Lease
  <2> HIDE DEF c, y
  <2>4. RunMoves(t, r, c)
    <3>1. ~Borrowed(c)
      BY <1>8, <2>2 DEF Borrowed
    <3> QED
      BY <1>1, <2>1, <2>2, <3>1 DEF RunMoves
  <2>5. Fits(o, y)
    BY <1>1, <1>3, <2>3 DEF Fits, Follows
  <2>6. s \in Seq(Lease) /\ s # <<>> /\ Last(s) = y /\ Len(s) = Len(o) + 1 /\ Nested(s) /\ Grows(s, o, y)
    BY <1>3, <2>3, <2>5, Left
  <2> HIDE DEF s
  <2>7. Lays(t, s) /\ Brings(t, s, r) /\ Deep(s)
    <3>1. Len(s) <= MaxDepth + 1 /\ Last(s).kind = "unpin"
      BY <1>3, <2>3, <2>6
    <3> QED
      BY <1>1, <2>1, <2>3, <2>6, <3>1 DEF Lays, Brings, Deep, Grows, o
  <2>8. \A R : Count(s, RunLeases, R) = Count(o, RunLeases, R) /\ Count(s, {"lock"}, R) = Count(o, {"lock"}, R)
    BY <1>6, <2>3, <2>6 DEF Grows, RunLeases
  <2>9. RunCounts(t, s, r, c.owners[t])
    BY <1>5, <2>2, <2>8 DEF RunCounts, o
  <2>10. LockCounts(t, s, k, tok[k].owners[t])
    BY <1>4, <2>8 DEF LockCounts, o
  <2>11. UNCHANGED outsider /\ Last(s).run = r /\ run[r].st = "active" /\ c.st = "gone"
    BY <1>1, <2>2, <2>3, <2>6
  <2> QED
    BY <1>1, <1>4, <2>4, <2>6, <2>7, <2>9, <2>10, <2>11, LeaseStep
<1> QED
  BY <1>7, <1>8

-----------------------------------------------------------------------------
(* The inductive invariant.                                                *)

LEMMA Initially ==
    ASSUME Init
    PROVE  Ind
<1>1. tok \in [Tokens -> Token] /\ run \in [Runs -> Context] /\ ops \in [Threads -> Seq(Lease)]
  <2>1. Idle \in [Threads -> 0..MaxDepth] /\ <<>> \in Seq(Lease)
    BY DEF Idle
  <2> QED
    BY <2>1 DEF Init, Token, Context
<1>2. \A t \in Threads : ops[t] = <<>> /\ Top(t) = [kind |-> "idle", run |-> None]
  BY DEF Init, Top
<1>3. \A t \in Threads : \A K, R : Count(ops[t], K, R) = 0
  BY <1>2, CountEmpty
<1>4. /\ \A r \in Runs : /\ run[r].st = "unborn" /\ run[r].token = None /\ run[r].closing = FALSE
                         /\ \A t \in Threads : run[r].owners[t] = 0
      /\ \A k \in Tokens : /\ tok[k].st = "unborn" /\ tok[k].pins = {} /\ tok[k].closeRequested = FALSE
                           /\ \A t \in Threads : tok[k].owners[t] = 0
  BY DEF Init, Idle
<1>5. TypeOK
  BY <1>1 DEF TypeOK, Init
<1>6. StacksInv
  <2>1. Nested(<<>>) /\ Len(<<>>) = 0
    BY DEF Nested
  <2> QED
    BY <1>2, <2>1 DEF StacksInv
<1>7. RunsInv
  <2>1. \A r \in Runs : ~RunHeld(r) /\ ~Borrowed(run[r])
    BY <1>2, <1>4 DEF RunHeld, Borrowed
  <2> QED
    BY <1>3, <1>4, <2>1 DEF RunsInv
<1>8. TokensInv
  <2>1. \A k \in Tokens : ~Borrowed(tok[k])
    BY <1>4 DEF Borrowed
  <2> QED
    BY <1>3, <1>4, <2>1 DEF TokensInv
<1>9. PinsInv /\ NotLeaked
  BY <1>2, <1>4 DEF PinsInv, NotLeaked
<1> QED
  BY <1>5, <1>6, <1>7, <1>8, <1>9 DEF Ind

LEMMA Stutter ==
    ASSUME Ind, UNCHANGED vars
    PROVE  Ind'
<1>1. tok' = tok /\ run' = run /\ ops' = ops /\ outsider' = outsider
  BY DEF vars
<1>2. /\ tok' \in [Tokens -> Token]
      /\ \A k \in Tokens : /\ tok'[k].owners = tok[k].owners /\ tok'[k].pins = tok[k].pins
                           /\ tok'[k].st = tok[k].st /\ tok'[k].closeRequested = tok[k].closeRequested
  BY <1>1 DEF Ind, TypeOK
<1> QED
  BY <1>1, <1>2, TokenFrame

LEMMA NextStep ==
    ASSUME Ind, Next
    PROVE  Ind'
<1>1. CASE OutsiderLocks \/ OutsiderUnlocks
  BY <1>1, OutsiderStep
<1>2. ASSUME NEW k \in Tokens, AcquireLock(k) \/ CallerClosesToken(k) \/ DropToken(k) \/ TokenCollected(k)
      PROVE  Ind'
  <2>1. CASE AcquireLock(k)
    BY <2>1, AcquireStep
  <2>2. CASE CallerClosesToken(k)
    BY <2>2, ReleaseStep DEF CallerClosesToken
  <2>3. CASE DropToken(k)
    BY <2>3, DropTokenStep
  <2>4. CASE TokenCollected(k)
    BY <2>4, ReleaseStep DEF TokenCollected
  <2> QED
    BY <1>2, <2>1, <2>2, <2>3, <2>4
<1>3. ASSUME NEW t \in Threads, Steps(t)
      PROVE  Ind'
  <2>1. CASE BeginEntryLease(t)
    BY <2>1, BeginEntryStep
  <2>2. CASE BeginLockLease(t)
    BY <2>2, BeginLockStep
  <2>3. CASE EndLockLease(t)
    BY <2>3, EndLockStep
  <2>4. CASE EndRunLease(t)
    BY <2>4, EndRunStep
  <2>5. CASE EndNoLease(t)
    BY <2>5, EndNoStep
  <2>6. CASE Unpin(t)
    BY <2>6, UnpinStep
  <2> QED
    BY <1>3, <2>1, <2>2, <2>3, <2>4, <2>5, <2>6 DEF Steps
<1>4. ASSUME NEW r \in Runs, NEW k \in Tokens, MintRun(r, k)
      PROVE  Ind'
  BY <1>4, MintStep
<1>5. ASSUME NEW r \in Runs, DropRun(r)
      PROVE  Ind'
  BY <1>5, DropRunStep
<1>6. ASSUME NEW t \in Threads, NEW r \in Runs,
             Managed(t, r) \/ BeginRunLease(t, r) \/ CallerClosesRun(t, r) \/ RunCollected(t, r)
      PROVE  Ind'
  <2>1. CASE Managed(t, r)
    BY <2>1, ManagedStep
  <2>2. CASE BeginRunLease(t, r)
    BY <2>2, BeginRunStep
  <2>3. CASE CloseRun(t, r)
    BY <2>3, CloseStep
  <2> QED
    BY <1>6, <2>1, <2>2, <2>3 DEF CallerClosesRun, RunCollected
<1> QED
  BY <1>1, <1>2, <1>3, <1>4, <1>5, <1>6 DEF Next

-----------------------------------------------------------------------------
(* What it says of the leases, the runs and the writers.                   *)

(* An operation of a thread is counted for the run, and its lock for the   *)
(* token, so neither can have gone.                                        *)
LEMMA Honoured ==
    ASSUME Ind
    PROVE  LeasesHonoured
<1> SUFFICES ASSUME NEW t \in Threads, NEW r \in Runs
             PROVE  /\ Leases(t, {"lock"}, r) > 0 => tok[run[r].token].st = "held"
                    /\ Leases(t, {"lock"}, r) <= (IF run[r].token = None THEN 0 ELSE tok[run[r].token].owners[t])
                    /\ Leases(t, RunLeases, r) = run[r].owners[t]
                    /\ Leases(t, RunLeases, r) > 0 => run[r].st = "active"
                    /\ Leases(t, {"unpin"}, r) > 0 => r \in tok[run[r].token].pins
  BY DEF LeasesHonoured, RunLeases, Leases, Count
<1> DEFINE k == run[r].token
<1>1. ops[t] \in Seq(Lease) /\ Nested(ops[t]) /\ Len(ops[t]) \in Nat
  BY Found
<1>2. \A K, R : Count(ops[t], K, R) \in Nat
  BY <1>1, CountBound
<1>3. Leases(t, RunLeases, r) = run[r].owners[t]
  BY DEF Ind, RunsInv, Leases
<1>4. Leases(t, RunLeases, r) > 0 => run[r].st = "active"
  BY <1>3 DEF Ind, RunsInv, Borrowed
<1>5. CASE run[r].st = "unborn"
  <2>1. k = None /\ \A i \in DOMAIN ops[t] : ops[t][i].run # r
    BY <1>5 DEF Ind, RunsInv, RunHeld
  <2>2. \A K : ~(Leases(t, K, r) > 0)
    <3>1. \A K : Count(ops[t], K, {r}) > 0 => \E i \in DOMAIN ops[t] : ops[t][i].run \in {r}
      BY <1>1, CountPositive
    <3> QED
      BY <2>1, <3>1 DEF Leases
  <2>3. Leases(t, {"lock"}, r) \in Nat
    BY <1>2 DEF Leases
  <2> QED
    BY <1>3, <1>4, <2>1, <2>2, <2>3
<1>6. CASE run[r].st # "unborn"
  <2>1. k \in Tokens /\ r \in Holding(k)
    BY <1>6 DEF Ind, RunsInv, Holding
  <2>2. tok[k].owners[t] = Count(ops[t], {"lock"}, Holding(k))
    BY <2>1 DEF Ind, TokensInv
  <2>3. Leases(t, {"lock"}, r) <= tok[k].owners[t]
    <3>1. Count(ops[t], {"lock"}, {r}) <= Count(ops[t], {"lock"}, Holding(k))
      BY <1>1, <2>1, CountMonotone
    <3> QED
      BY <2>2, <3>1 DEF Leases
  <2>4. Leases(t, {"lock"}, r) > 0 => tok[k].st = "held"
    <3>1. Leases(t, {"lock"}, r) > 0 => tok[k].owners[t] > 0
      BY <1>2, <2>2, <2>3 DEF Leases
    <3> QED
      BY <2>1, <3>1 DEF Ind, TokensInv, Borrowed
  <2>5. Leases(t, {"unpin"}, r) > 0 => r \in tok[k].pins
    <3>1. SUFFICES ASSUME NEW i \in DOMAIN ops[t], ops[t][i].kind = "unpin", ops[t][i].run = r
                   PROVE  r \in tok[k].pins
      BY <1>1, CountPositive DEF Leases
    <3>2. i = Len(ops[t])
      <4>1. i \in 1..Len(ops[t])
        BY <1>1
      <4>2. i \in 1..Len(ops[t]) - 1 => Follows(ops[t][i], ops[t][i + 1])
        BY <1>1 DEF Nested
      <4>3. ~Follows(ops[t][i], ops[t][i + 1])
        BY <3>1 DEF Follows
      <4> QED
        BY <1>1, <4>1, <4>2, <4>3
    <3>3. Top(t).kind = "unpin" /\ Top(t).run = r
      BY <1>1, <3>1, <3>2, Found DEF Last
    <3> QED
      BY <3>3 DEF Ind, PinsInv
  <2>6. k # None
    BY <2>1
  <2> QED
    BY <1>3, <1>4, <2>3, <2>4, <2>5, <2>6
<1> QED
  BY <1>5, <1>6

LEMMA KeepsLock ==
    ASSUME Ind
    PROVE  RunKeepsLock
<1> SUFFICES ASSUME NEW r \in Runs, run[r].st = "active"
             PROVE  tok[run[r].token].st = "held" /\ ~outsider
  BY DEF RunKeepsLock
<1>1. run[r].token \in Tokens /\ r \in tok[run[r].token].pins
  BY DEF Ind, RunsInv, PinsInv
<1> QED
  BY <1>1 DEF Ind, TokensInv

(* A lock lease on top makes its thread an owner of the one held token. *)
LEMMA Writing ==
    ASSUME Ind, NEW t \in Threads, Top(t).kind = "lock"
    PROVE  \E k \in Tokens : tok[k].st = "held" /\ tok[k].owners[t] > 0
<1> DEFINE r == Top(t).run
           k == run[r].token
<1>1. r \in Runs /\ k \in Tokens /\ ops[t] = Append(Front(ops[t]), Top(t))
  BY FoundTop
<1>2. Len(ops[t]) \in DOMAIN ops[t] /\ ops[t][Len(ops[t])] = Top(t)
  BY TopLease, Found, Split DEF Ind, Last
<1>3. r \in Holding(k)
  BY <1>1 DEF Holding
<1>4. Count(ops[t], {"lock"}, Holding(k)) > 0
  BY <1>2, <1>3, Found, CountPositive
<1>5. tok[k].owners[t] > 0
  BY <1>1, <1>4 DEF Ind, TokensInv
<1> QED
  BY <1>1, <1>5 DEF Ind, TokensInv, Borrowed

LEMMA Alone ==
    ASSUME Ind
    PROVE  OneWriter
<1> SUFFICES ASSUME NEW t \in Threads, NEW u \in Threads, Top(t).kind = "lock", Top(u).kind = "lock"
             PROVE  t = u
  BY DEF OneWriter
<1>1. PICK k \in Tokens : tok[k].st = "held" /\ tok[k].owners[t] > 0
  BY Writing
<1>2. PICK j \in Tokens : tok[j].st = "held" /\ tok[j].owners[u] > 0
  BY Writing
<1>3. j = k
  BY <1>1, <1>2 DEF Ind, TokensInv
<1> QED
  BY <1>1, <1>2, <1>3 DEF Ind, TokensInv

LEMMA Implied ==
    ASSUME Ind
    PROVE  CapabilityInv
BY Honoured, KeepsLock, Alone DEF Ind, CapabilityInv

-----------------------------------------------------------------------------
(* However the operations, closes, drops and collections of any number of  *)
(* threads interleave: every lease finds the run and the token it counts   *)
(* on, an active run keeps its lock, at most one thread writes under it,   *)
(* and a deferred close is not forgotten (the registries of                *)
(* rich_message_archive.py).                                               *)
THEOREM Invariance == Spec => []CapabilityInv
<1>1. Init => Ind
  BY Initially
<1>2. Ind /\ [Next]_vars => Ind'
  BY NextStep, Stutter
<1>3. Ind => CapabilityInv
  BY Implied
<1> QED
  BY <1>1, <1>2, <1>3, PTL DEF Spec

USE LimitsAssumption

-----------------------------------------------------------------------------
(* The replay of a record's observations over its files is a function of   *)
(* the clock defined by recursion.  It exists because a shortest clock     *)
(* without one would have a predecessor with one.                          *)

\* The files before the oldest observation, and one tick of the replay.
Start(files) == [obs |-> {}, files |-> files, raised |-> FALSE]
Step(obs, reach, s, t) ==
    LET read == {o \in obs : o.at = t}
    IN  IF read = {} THEN s
        ELSE ApplyObservation(s, CHOOSE o \in read : TRUE, reach)
Replays(f, n, obs, files, reach) ==
    f = [t \in 0..n |-> IF t = 0 THEN Start(files) ELSE Step(obs, reach, f[t - 1], t)]

LEMMA ReplayExists ==
    ASSUME NEW obs, NEW files, NEW reach, NEW n \in Nat
    PROVE  \E f : Replays(f, n, obs, files, reach)
<1> DEFINE T == {m \in Nat : ~\E f : Replays(f, m, obs, files, reach)}
<1> SUFFICES ASSUME T # {} PROVE FALSE
  OBVIOUS
<1>1. PICK m \in T : \A y \in T : m <= y
  BY LeastOf
<1>2. m # 0
  <2> DEFINE f == [t \in 0..0 |-> Start(files)]
  <2>1. f = [t \in 0..0 |-> IF t = 0 THEN Start(files) ELSE Step(obs, reach, f[t - 1], t)]
    OBVIOUS
  <2>2. Replays(f, 0, obs, files, reach)
    BY <2>1 DEF Replays
  <2> QED
    BY <2>2, <1>1
<1>3. m - 1 \in Nat /\ m - 1 \notin T
  BY <1>1, <1>2
<1>4. PICK g : Replays(g, m - 1, obs, files, reach)
  BY <1>3
<1> DEFINE f == [t \in 0..m |-> IF t = m THEN Step(obs, reach, g[m - 1], m) ELSE g[t]]
<1>5. \A t \in 0..(m - 1) : g[t] = IF t = 0 THEN Start(files) ELSE Step(obs, reach, g[t - 1], t)
  BY <1>4 DEF Replays
<1>6. ASSUME NEW t \in 0..m
      PROVE  f[t] = IF t = 0 THEN Start(files) ELSE Step(obs, reach, f[t - 1], t)
  <2>1. CASE t = m
    <3>1. m - 1 \in 0..m /\ m - 1 # m /\ t # 0
      BY <2>1, <1>2, <1>3
    <3>2. f[m - 1] = g[m - 1]
      BY <3>1
    <3> QED
      BY <2>1, <3>1, <3>2
  <2>2. CASE t # m /\ t = 0
    <3>1. t \in 0..(m - 1)
      BY <1>3, <2>2
    <3> QED
      BY <2>2, <3>1, <1>5
  <2>3. CASE t # m /\ t # 0
    <3>1. t \in 0..(m - 1) /\ t - 1 \in 0..m /\ t - 1 # m
      BY <1>3, <2>3
    <3>2. f[t] = g[t] /\ f[t - 1] = g[t - 1]
      BY <2>3, <3>1
    <3> QED
      BY <2>3, <3>1, <3>2, <1>5
  <2> QED
    BY <2>1, <2>2, <2>3
<1>7. f = [t \in 0..m |-> f[t]]
  OBVIOUS
<1>8. f = [t \in 0..m |-> IF t = 0 THEN Start(files) ELSE Step(obs, reach, f[t - 1], t)]
  <2> HIDE DEF f
  <2> QED
    BY <1>6, <1>7
<1>9. Replays(f, m, obs, files, reach)
  BY <1>8 DEF Replays
<1> QED
  BY <1>9, <1>1

LEMMA ReplaySteps ==
    ASSUME NEW obs, NEW files, NEW reach
    PROVE  LET after == AppliedUpTo(obs, files, reach)
           IN  /\ after[0] = Start(files)
               /\ \A t \in 1..MaxTime : after[t] = Step(obs, reach, after[t - 1], t)
<1> DEFINE after == AppliedUpTo(obs, files, reach)
<1>1. after = CHOOSE f : f = [t \in 0..MaxTime |->
                 IF t = 0 THEN [obs |-> {}, files |-> files, raised |-> FALSE]
                 ELSE LET read == {o \in obs : o.at = t}
                      IN  IF read = {} THEN f[t - 1]
                          ELSE ApplyObservation(f[t - 1], CHOOSE o \in read : TRUE, reach)]
  BY DEF AppliedUpTo
<1>2. \E f : f = [t \in 0..MaxTime |->
                 IF t = 0 THEN [obs |-> {}, files |-> files, raised |-> FALSE]
                 ELSE LET read == {o \in obs : o.at = t}
                      IN  IF read = {} THEN f[t - 1]
                          ELSE ApplyObservation(f[t - 1], CHOOSE o \in read : TRUE, reach)]
  <2>1. MaxTime \in Nat
    OBVIOUS
  <2>2. PICK f : Replays(f, MaxTime, obs, files, reach)
    BY <2>1, ReplayExists
  <2>3. f = [t \in 0..MaxTime |->
                 IF t = 0 THEN [obs |-> {}, files |-> files, raised |-> FALSE]
                 ELSE LET read == {o \in obs : o.at = t}
                      IN  IF read = {} THEN f[t - 1]
                          ELSE ApplyObservation(f[t - 1], CHOOSE o \in read : TRUE, reach)]
    BY <2>2 DEF Replays, Start, Step
  <2> QED
    BY ONLY <2>3
<1>3. after = [t \in 0..MaxTime |->
                 IF t = 0 THEN [obs |-> {}, files |-> files, raised |-> FALSE]
                 ELSE LET read == {o \in obs : o.at = t}
                      IN  IF read = {} THEN after[t - 1]
                          ELSE ApplyObservation(after[t - 1], CHOOSE o \in read : TRUE, reach)]
  <2> HIDE DEF after
  <2> QED
    BY <1>1, <1>2
<1>4. after = [t \in 0..MaxTime |-> IF t = 0 THEN Start(files) ELSE Step(obs, reach, after[t - 1], t)]
  <2> HIDE DEF after
  <2> QED
    BY <1>3 DEF Start, Step
<1> HIDE DEF after
<1>5. 0 \in 0..MaxTime /\ \A t \in 1..MaxTime : t \in 0..MaxTime /\ t # 0
  OBVIOUS
<1>6. after[0] = Start(files)
  BY <1>4, <1>5
<1>7. \A t \in 1..MaxTime : after[t] = Step(obs, reach, after[t - 1], t)
  BY <1>4, <1>5
<1> QED
  BY <1>6, <1>7 DEF after

-----------------------------------------------------------------------------
(* What the operators on one observation return.                           *)
Files == [Assets -> Blobs \cup {Absent}]
CdnTyped == cdn \in [Assets -> Blobs]

\* The receipts of an observation are no part of its identity.
Kept(o, p) == /\ Identity(o) = Identity(p)
              /\ o.at = p.at /\ o.version = p.version
              /\ o.content = p.content /\ o.mutable = p.mutable
LEMMA ReceiptsReplaced ==
    ASSUME NEW o \in Observation, NEW rows \in [Assets -> Receipt]
    PROVE  LET p == [o EXCEPT !.assets = rows]
           IN  p \in Observation /\ p.assets = rows /\ Kept(p, o)
BY DEF Observation, Kept, Identity

LEMMA BlobsSized ==
    ASSUME CdnTyped, NEW a \in Assets
    PROVE  cdn[a] \in Blobs /\ cdn[a].size \in Nat
BY DEF CdnTyped

LEMMA DownloadedReceipt ==
    ASSUME CdnTyped, NEW r \in Receipt, NEW a \in Assets, NEW file, NEW reach
    PROVE  Downloaded(r, a, file, reach) \in Receipt
BY BlobsSized DEF Downloaded, Held, Receipt

LEMMA AnnouncedReceipt ==
    ASSUME CdnTyped, NEW r \in Receipt, NEW a \in Assets
    PROVE  Announced(r, a) \in Receipt
BY BlobsSized DEF Announced, Receipt

LEMMA NewReceiptTyped == \A a \in Assets : NewReceipt(a) \in Receipt
BY DEF NewReceipt, Receipt

LEMMA RetriedReceipts ==
    ASSUME CdnTyped, NEW rows \in [Assets -> Receipt]
    PROVE  Retried(rows) \in [Assets -> Receipt]
<1>1. ASSUME NEW a \in Assets
      PROVE  [rows[a] EXCEPT !.status = "complete", !.blob = cdn[a], !.declared = cdn[a].size, !.by = "get"] \in Receipt
  <2>1. rows[a] \in Receipt
    OBVIOUS
  <2> QED
    BY <2>1, BlobsSized DEF Receipt
<1> QED
  BY <1>1 DEF Retried

LEMMA RecoveredReceipts ==
    ASSUME NEW rows \in [Assets -> Receipt], HalfFailed(rows)
    PROVE  Recovered(rows) \in [Assets -> Receipt]
<1> DEFINE good == CHOOSE v \in Variants : rows[v].status = "complete"
<1>1. good \in Variants /\ good \in Assets
  BY DEF HalfFailed
<1>2. rows[good].blob \in Blobs \cup {Absent}
  BY <1>1 DEF Receipt
<1> HIDE DEF good
<1>3. ASSUME NEW a \in Assets
      PROVE  [rows[a] EXCEPT !.status = "complete", !.blob = rows[good].blob] \in Receipt
  <2>1. rows[a] \in Receipt
    OBVIOUS
  <2> QED
    BY <1>2, <2>1 DEF Receipt
<1>4. \A a \in Assets : (IF a \in Variants \ {good}
         THEN [rows[a] EXCEPT !.status = "complete", !.blob = rows[good].blob] ELSE rows[a]) \in Receipt
  BY <1>3
<1> QED
  BY <1>4 DEF Recovered, good

\* The steps of apply_asset_results on one observation, named.
Got(s, o, reach) == [a \in Assets |-> Downloaded(o.assets[a], a, s.files[a], reach)]
Again(rows, reach) == IF Drifted(rows, reach) THEN Retried(rows) ELSE rows
Whole(rows) == IF HalfFailed(rows) THEN Recovered(rows) ELSE rows
Stored(s, rows) == [a \in Assets |-> IF rows[a].status = "complete" THEN rows[a].blob ELSE s.files[a]]
RowsOf(s, o, reach) == Whole(Again(Got(s, o, reach), reach))

LEMMA RowsTyped ==
    ASSUME CdnTyped, NEW s, NEW o \in Observation, NEW reach
    PROVE  /\ Got(s, o, reach) \in [Assets -> Receipt]
           /\ RowsOf(s, o, reach) \in [Assets -> Receipt]
<1>1. Got(s, o, reach) \in [Assets -> Receipt]
  <2>1. \A a \in Assets : o.assets[a] \in Receipt
    BY DEF Observation
  <2> QED
    BY <2>1, DownloadedReceipt DEF Got
<1>2. Again(Got(s, o, reach), reach) \in [Assets -> Receipt]
  BY <1>1, RetriedReceipts DEF Again
<1>3. RowsOf(s, o, reach) \in [Assets -> Receipt]
  BY <1>2, RecoveredReceipts DEF RowsOf, Whole
<1> QED
  BY <1>1, <1>3

LEMMA AppliedParts ==
    ASSUME NEW s, NEW o, NEW reach
    PROVE  LET done == ApplyObservation(s, o, reach)
           IN  /\ done.obs = s.obs \cup {[o EXCEPT !.assets = RowsOf(s, o, reach)]}
               /\ done.files = Stored(s, RowsOf(s, o, reach))
               /\ done.raised <=>
                    \/ s.raised
                    \/ Drifted(Got(s, o, reach), reach) /\ \E v \in Variants : cdn[v].size = SentSize
                    \/ /\ HalfFailed(Again(Got(s, o, reach), reach))
                       /\ RecoveryRefused(Again(Got(s, o, reach), reach), Stored(s, Again(Got(s, o, reach), reach)))
BY DEF ApplyObservation, RowsOf, Got, Again, Whole, Stored

LEMMA StoredTyped ==
    ASSUME NEW s, s.files \in Files, NEW rows \in [Assets -> Receipt]
    PROVE  Stored(s, rows) \in Files
BY DEF Stored, Files, Receipt

-----------------------------------------------------------------------------
(* The replay keeps every observation's identity and the types.            *)
IdsOf(obs) == {Identity(o) : o \in obs}
Until(obs, t) == {o \in obs : o.at <= t}
Built(s, ids) == /\ s.obs \in SUBSET Observation /\ IsFiniteSet(s.obs)
                 /\ s.files \in Files
                 /\ IdsOf(s.obs) = ids

\* Facts about observations with one identity.
LEMMA SameIdentity ==
    ASSUME NEW o, NEW p, Identity(o) = Identity(p)
    PROVE  Kept(o, p) /\ Revision(o) = Revision(p)
BY DEF Identity, Kept, Revision

LEMMA ConflictsByIdentity ==
    ASSUME NEW A, NEW B, IdsOf(A) \subseteq IdsOf(B), Conflicting(A)
    PROVE  Conflicting(B)
<1>1. PICK o \in A, p \in A : \/ o.version = p.version /\ Revision(o) # Revision(p)
                              \/ o.at = p.at /\ Identity(o) # Identity(p)
  BY DEF Conflicting
<1>2. Identity(o) \in IdsOf(B) /\ Identity(p) \in IdsOf(B)
  BY DEF IdsOf
<1>3. PICK x \in B : Identity(o) = Identity(x)
  BY <1>2 DEF IdsOf
<1>4. PICK y \in B : Identity(p) = Identity(y)
  BY <1>2 DEF IdsOf
<1>5. Kept(o, x) /\ Revision(o) = Revision(x) /\ Kept(p, y) /\ Revision(p) = Revision(y)
  BY <1>3, <1>4, SameIdentity
<1>6. \/ x.version = y.version /\ Revision(x) # Revision(y)
      \/ x.at = y.at /\ Identity(x) # Identity(y)
  BY <1>1, <1>3, <1>4, <1>5 DEF Kept
<1> QED
  BY <1>6 DEF Conflicting

LEMMA WitnessOf ==
    ASSUME NEW A, NEW B, IdsOf(A) \subseteq IdsOf(B), NEW o \in A
    PROVE  \E p \in B : Identity(o) = Identity(p) /\ Kept(o, p)
<1>1. Identity(o) \in IdsOf(B)
  BY DEF IdsOf
<1>2. PICK p \in B : Identity(o) = Identity(p)
  BY <1>1 DEF IdsOf
<1> QED
  BY <1>2, SameIdentity

LEMMA ObservedOnce ==
    ASSUME CdnTyped, NEW s, NEW ids, Built(s, ids), NEW o \in Observation, NEW reach
    PROVE  Built(ApplyObservation(s, o, reach), ids \cup {Identity(o)})
<1> DEFINE rows == RowsOf(s, o, reach)
           kept == [o EXCEPT !.assets = rows]
<1>1. rows \in [Assets -> Receipt]
  BY RowsTyped
<1>2. kept \in Observation /\ Kept(kept, o)
  BY <1>1, ReceiptsReplaced
<1>3. ApplyObservation(s, o, reach).obs = s.obs \cup {kept}
  BY AppliedParts
<1>4. ApplyObservation(s, o, reach).files \in Files
  BY <1>1, AppliedParts, StoredTyped DEF Built
<1> HIDE DEF kept
<1>5. IsFiniteSet(s.obs \cup {kept})
  BY FS_AddElement DEF Built
<1>6. IdsOf(s.obs \cup {kept}) = IdsOf(s.obs) \cup {Identity(o)}
  BY <1>2 DEF IdsOf, Kept
<1> QED
  BY <1>2, <1>3, <1>4, <1>5, <1>6 DEF Built

LEMMA ReplayedUntil ==
    ASSUME CdnTyped, NEW obs \in SUBSET Observation, ~Conflicting(obs),
           NEW files \in Files, NEW reach, NEW t \in 0..MaxTime
    PROVE  Built(AppliedUpTo(obs, files, reach)[t], IdsOf(Until(obs, t)))
<1> DEFINE after == AppliedUpTo(obs, files, reach)
           T == {m \in 0..MaxTime : ~Built(after[m], IdsOf(Until(obs, m)))}
<1> HIDE DEF after
<1> SUFFICES ASSUME T # {} PROVE FALSE
  BY DEF after
<1>1. PICK m \in T : \A y \in T : m <= y
  <2>1. T \in SUBSET Nat
    OBVIOUS
  <2> HIDE DEF T
  <2> QED
    BY <2>1, LeastOf
<1>2. after[0] = Start(files) /\ \A n \in 1..MaxTime : after[n] = Step(obs, reach, after[n - 1], n)
  BY ReplaySteps DEF after
<1>3. \A o \in obs : o.at \in 1..MaxTime
  BY DEF Observation
<1>4. Built(Start(files), IdsOf(Until(obs, 0)))
  <2>1. Until(obs, 0) = {}
    BY <1>3 DEF Until
  <2> QED
    BY <2>1, FS_EmptySet DEF Built, Start, IdsOf
<1>5. m \in 1..MaxTime /\ m - 1 \in 0..MaxTime /\ m - 1 \notin T
  BY <1>1, <1>2, <1>4
<1>6. Built(after[m - 1], IdsOf(Until(obs, m - 1)))
  BY <1>5
<1> DEFINE read == {o \in obs : o.at = m}
<1>7. Until(obs, m) = Until(obs, m - 1) \cup read
  BY <1>3, <1>5 DEF Until
<1>8. CASE read = {}
  <2>1. after[m] = after[m - 1]
    BY <1>2, <1>5, <1>8 DEF Step
  <2> QED
    BY <2>1, <1>1, <1>6, <1>7, <1>8
<1>9. CASE read # {}
  <2> DEFINE o == CHOOSE x \in read : TRUE
  <2>1. o \in read
    BY <1>9
  <2>2. after[m] = ApplyObservation(after[m - 1], o, reach)
    BY <1>2, <1>5, <1>9 DEF Step
  <2>3. \A p \in read : Identity(p) = Identity(o)
    BY <2>1 DEF Conflicting
  <2>4. IdsOf(Until(obs, m)) = IdsOf(Until(obs, m - 1)) \cup {Identity(o)}
    BY <2>1, <2>3, <1>7 DEF IdsOf
  <2>5. o \in Observation
    BY <2>1
  <2> HIDE DEF o
  <2>6. Built(after[m], IdsOf(Until(obs, m)))
    BY <2>2, <2>4, <2>5, <1>6, ObservedOnce
  <2> QED
    BY <2>6, <1>1
<1> QED
  BY <1>8, <1>9

\* Whatever is reachable, apply_asset_results keeps every reading it is
\* given, and types.
LEMMA Replayed ==
    ASSUME CdnTyped, NEW obs \in SUBSET Observation, ~Conflicting(obs),
           NEW files \in Files, NEW reach
    PROVE  Built(ApplyAssets(obs, files, reach), IdsOf(obs))
<1>1. MaxTime \in 0..MaxTime
  OBVIOUS
<1>2. Until(obs, MaxTime) = obs
  BY DEF Until, Observation
<1> QED
  BY <1>1, <1>2, ReplayedUntil DEF ApplyAssets

-----------------------------------------------------------------------------
(* A calm CDN (Steady, SizesAsSent): every address serves one file of the  *)
(* declared size, the two addresses of the attachment the same one.        *)
\* Receipts that name the file the address serves, or none, and its size.
Ready(rows) == \A a \in Assets : rows[a].declared = SentSize /\ rows[a].blob \in {Absent, cdn[a]}
Done(rows) == \A a \in Assets : rows[a].status = "complete" /\ rows[a].blob = cdn[a]
Calm(s, reach) ==
    /\ \A o \in s.obs : Ready(o.assets)
    /\ reach = Assets => /\ ~s.raised
                         /\ \A o \in s.obs : Done(o.assets)
                         /\ s.obs # {} => s.files = cdn

LEMMA CalmRows ==
    ASSUME CdnTyped, Steady, SizesAsSent, NEW s, NEW o \in Observation, Ready(o.assets), NEW reach
    PROVE  /\ ~Drifted(Got(s, o, reach), reach)
           /\ Ready(RowsOf(s, o, reach))
           /\ reach = Assets =>
                /\ Done(RowsOf(s, o, reach))
                /\ ~HalfFailed(Again(Got(s, o, reach), reach))
<1> DEFINE got == Got(s, o, reach)
<1>1. got \in [Assets -> Receipt]
  BY RowsTyped
<1>2. ASSUME NEW a \in Assets
      PROVE  /\ got[a].declared = SentSize /\ got[a].blob \in {Absent, cdn[a]}
             /\ got[a].status = "complete" => got[a].blob = cdn[a]
             /\ reach = Assets => got[a].status = "complete"
  <2>1. got[a] = Downloaded(o.assets[a], a, s.files[a], reach)
    BY DEF Got
  <2>2. o.assets[a] \in Receipt /\ o.assets[a].declared = SentSize /\ o.assets[a].blob \in {Absent, cdn[a]}
    BY DEF Observation, Ready
  <2>3. cdn[a].size = SentSize
    BY DEF SizesAsSent
  <2> HIDE DEF got
  <2>4. CASE Held(o.assets[a], s.files[a])
    BY <2>1, <2>2, <2>3, <2>4 DEF Downloaded, Held, Receipt
  <2>5. CASE ~Held(o.assets[a], s.files[a]) /\ a \in reach
    BY <2>1, <2>2, <2>3, <2>5 DEF Downloaded, Receipt
  <2>6. CASE ~Held(o.assets[a], s.files[a]) /\ a \notin reach
    BY <2>1, <2>2, <2>3, <2>6 DEF Downloaded, Receipt
  <2> QED
    BY <2>4, <2>5, <2>6
<1> HIDE DEF got
<1>3. ~Drifted(got, reach)
  <2>1. ASSUME Drifted(got, reach) PROVE FALSE
    <3>1. "direct" \in Assets /\ cdn["direct"].size # got["direct"].declared
      BY <2>1 DEF Drifted, Variants
    <3> QED
      BY <3>1, <1>2 DEF SizesAsSent
  <2> QED
    BY <2>1
<1>4. Again(got, reach) = got
  BY <1>3 DEF Again
<1>5. RowsOf(s, o, reach) = Whole(got)
  BY <1>4 DEF RowsOf, got
<1>6. Ready(got) /\ (reach = Assets => Done(got))
  BY <1>2 DEF Ready, Done
<1>7. reach = Assets => ~HalfFailed(got)
  <2>1. ASSUME reach = Assets, HalfFailed(got) PROVE FALSE
    <3>1. Variants \subseteq Assets /\ "error" \in {got[v].status : v \in Variants}
      BY <2>1 DEF HalfFailed
    <3>2. PICK v \in Variants : got[v].status = "error"
      BY <3>1
    <3> QED
      BY <2>1, <3>1, <3>2, <1>2
  <2> QED
    BY <2>1
<1>8. Ready(Whole(got))
  <2>1. CASE ~HalfFailed(got)
    BY <2>1, <1>6 DEF Whole
  <2>2. CASE HalfFailed(got)
    <3> DEFINE good == CHOOSE v \in Variants : got[v].status = "complete"
    <3>1. Variants \subseteq Assets /\ good \in Variants /\ got[good].status = "complete"
      BY <2>2 DEF HalfFailed
    <3>2. Recovered(got) = [a \in Assets |-> IF a \in Variants \ {good}
             THEN [got[a] EXCEPT !.status = "complete", !.blob = got[good].blob] ELSE got[a]]
      BY DEF Recovered
    <3> HIDE DEF good
    <3>3. got[good].blob = cdn[good]
      BY <3>1, <1>2
    <3>4. ASSUME NEW a \in Assets
          PROVE  Recovered(got)[a].declared = SentSize /\ Recovered(got)[a].blob \in {Absent, cdn[a]}
      <4>1. CASE a \in Variants \ {good}
        <5>1. cdn[a] = cdn[good]
          BY <3>1, <4>1 DEF Steady
        <5>2. Recovered(got)[a] = [got[a] EXCEPT !.status = "complete", !.blob = cdn[good]]
          BY <3>2, <3>3, <4>1
        <5>3. got[a] \in Receipt /\ got[a].declared = SentSize
          BY <1>1, <1>2
        <5> QED
          BY <5>1, <5>2, <5>3 DEF Receipt
      <4>2. CASE a \notin Variants \ {good}
        BY <3>2, <4>2, <1>2
      <4> QED
        BY <4>1, <4>2
    <3> QED
      BY <3>4, <2>2 DEF Whole, Ready
  <2> QED
    BY <2>1, <2>2
<1>9. reach = Assets => Done(Whole(got))
  BY <1>6, <1>7 DEF Whole
<1> QED
  BY <1>3, <1>4, <1>5, <1>7, <1>8, <1>9 DEF got

LEMMA CalmOnce ==
    ASSUME CdnTyped, Steady, SizesAsSent, NEW s, NEW reach, Calm(s, reach),
           NEW o \in Observation, Ready(o.assets)
    PROVE  Calm(ApplyObservation(s, o, reach), reach)
<1> DEFINE rows == RowsOf(s, o, reach)
           kept == [o EXCEPT !.assets = rows]
           done == ApplyObservation(s, o, reach)
<1>1. rows \in [Assets -> Receipt]
  BY RowsTyped
<1>2. kept.assets = rows
  BY <1>1, ReceiptsReplaced
<1>3. done.obs = s.obs \cup {kept} /\ done.files = Stored(s, rows)
  BY AppliedParts
<1>4. Ready(rows) /\ (reach = Assets => Done(rows))
  BY CalmRows
<1>5. reach = Assets => ~done.raised
  BY CalmRows, AppliedParts DEF Calm
<1>6. reach = Assets => done.files = cdn
  <2>1. ASSUME Done(rows) PROVE Stored(s, rows) = cdn
    <3>1. \A a \in Assets : rows[a].status = "complete" /\ rows[a].blob = cdn[a]
      BY <2>1 DEF Done
    <3> HIDE DEF rows
    <3>2. Stored(s, rows) = [a \in Assets |-> cdn[a]]
      BY <3>1 DEF Stored
    <3> QED
      BY <3>2 DEF CdnTyped
  <2> QED
    BY <2>1, <1>3, <1>4
<1> HIDE DEF rows, kept, done
<1>7. Calm(done, reach)
  BY <1>2, <1>3, <1>4, <1>5, <1>6 DEF Calm
<1> QED
  BY <1>7 DEF done

LEMMA CalmUntil ==
    ASSUME CdnTyped, Steady, SizesAsSent, NEW obs \in SUBSET Observation,
           \A o \in obs : Ready(o.assets), NEW files, NEW reach, NEW t \in 0..MaxTime
    PROVE  Calm(AppliedUpTo(obs, files, reach)[t], reach)
<1> DEFINE after == AppliedUpTo(obs, files, reach)
           T == {m \in 0..MaxTime : ~Calm(after[m], reach)}
<1> HIDE DEF after
<1> SUFFICES ASSUME T # {} PROVE FALSE
  BY DEF after
<1>1. PICK m \in T : \A y \in T : m <= y
  <2>1. T \in SUBSET Nat
    OBVIOUS
  <2> HIDE DEF T
  <2> QED
    BY <2>1, LeastOf
<1>2. after[0] = Start(files) /\ \A n \in 1..MaxTime : after[n] = Step(obs, reach, after[n - 1], n)
  BY ReplaySteps DEF after
<1>3. Calm(Start(files), reach)
  BY DEF Calm, Start
<1>4. m \in 1..MaxTime /\ m - 1 \in 0..MaxTime /\ m - 1 \notin T
  BY <1>1, <1>2, <1>3
<1>5. Calm(after[m - 1], reach)
  BY <1>4
<1> DEFINE read == {o \in obs : o.at = m}
<1>6. CASE read = {}
  <2>1. after[m] = after[m - 1]
    BY <1>2, <1>4, <1>6 DEF Step
  <2> QED
    BY <2>1, <1>1, <1>5
<1>7. CASE read # {}
  <2> DEFINE o == CHOOSE x \in read : TRUE
  <2>1. o \in Observation /\ Ready(o.assets)
    BY <1>7
  <2>2. after[m] = ApplyObservation(after[m - 1], o, reach)
    BY <1>2, <1>4, <1>7 DEF Step
  <2> HIDE DEF o
  <2>3. Calm(after[m], reach)
    BY <2>1, <2>2, <1>5, CalmOnce
  <2> QED
    BY <2>3, <1>1
<1> QED
  BY <1>6, <1>7

LEMMA CalmReplay ==
    ASSUME CdnTyped, Steady, SizesAsSent, NEW obs \in SUBSET Observation,
           \A o \in obs : Ready(o.assets), NEW files, NEW reach
    PROVE  Calm(ApplyAssets(obs, files, reach), reach)
<1>1. MaxTime \in 0..MaxTime
  OBVIOUS
<1> QED
  BY <1>1, CalmUntil DEF ApplyAssets

-----------------------------------------------------------------------------
(* resolve_asset_sizes and merge_message_records.                          *)
LEMMA SizedTyped ==
    ASSUME CdnTyped, NEW o \in Observation
    PROVE  [a \in Assets |-> Announced(o.assets[a], a)] \in [Assets -> Receipt]
<1>1. \A a \in Assets : o.assets[a] \in Receipt
  BY DEF Observation
<1> QED
  BY <1>1, AnnouncedReceipt

LEMMA SizedKeeps ==
    ASSUME CdnTyped, NEW obs \in SUBSET Observation
    PROVE  Sized(obs) \in SUBSET Observation /\ IdsOf(Sized(obs)) = IdsOf(obs)
<1> DEFINE sized(o) == [o EXCEPT !.assets = [a \in Assets |-> Announced(o.assets[a], a)]]
<1>1. ASSUME NEW o \in obs PROVE sized(o) \in Observation /\ Identity(sized(o)) = Identity(o)
  BY SizedTyped, ReceiptsReplaced DEF Kept
<1>2. Sized(obs) = {sized(o) : o \in obs}
  BY DEF Sized
<1> HIDE DEF sized
<1> QED
  BY <1>1, <1>2 DEF IdsOf

\* Receipts of this CDN, with or without the size.
Sendable(rows) == \A a \in Assets : rows[a].declared \in {Absent, SentSize} /\ rows[a].blob \in {Absent, cdn[a]}
LEMMA SizedReady ==
    ASSUME CdnTyped, SizesAsSent, NEW obs \in SUBSET Observation, \A o \in obs : Sendable(o.assets)
    PROVE  \A o \in Sized(obs) : Ready(o.assets)
<1>1. ASSUME NEW o \in obs, NEW a \in Assets
      PROVE  Announced(o.assets[a], a).declared = SentSize /\ Announced(o.assets[a], a).blob \in {Absent, cdn[a]}
  <2>1. o.assets[a] \in Receipt
    BY DEF Observation
  <2>2. o.assets[a].declared \in {Absent, SentSize} /\ o.assets[a].blob \in {Absent, cdn[a]}
    BY DEF Sendable
  <2>3. cdn[a].size = SentSize
    BY DEF SizesAsSent
  <2> QED
    BY <2>1, <2>2, <2>3 DEF Announced, Receipt
<1>2. ASSUME NEW o \in obs
      PROVE  [o EXCEPT !.assets = [a \in Assets |-> Announced(o.assets[a], a)]].assets
               = [a \in Assets |-> Announced(o.assets[a], a)]
  BY SizedTyped, ReceiptsReplaced
<1>3. ASSUME NEW x \in Sized(obs) PROVE Ready(x.assets)
  <2>1. PICK o \in obs : x = [o EXCEPT !.assets = [a \in Assets |-> Announced(o.assets[a], a)]]
    BY DEF Sized
  <2>2. x.assets = [a \in Assets |-> Announced(o.assets[a], a)]
    BY <2>1, <1>2
  <2> QED
    BY <2>2, <1>1 DEF Ready
<1> QED
  BY <1>3

LEMMA MergedReceipt ==
    ASSUME NEW r \in Receipt, NEW s \in Receipt
    PROVE  /\ MergeReceipt(r, s) \in {r, s}
           /\ r.status = "complete" => MergeReceipt(r, s) = r
BY DEF MergeReceipt

LEMMA DedupedKeeps ==
    ASSUME NEW obs \in SUBSET Observation, IsFiniteSet(obs), NEW new \in Observation
    PROVE  /\ Deduped(obs, new) \in SUBSET Observation
           /\ IsFiniteSet(Deduped(obs, new))
           /\ IdsOf(Deduped(obs, new)) = IdsOf(obs \cup {new})
           /\ Cardinality(Deduped(obs, new)) <= Cardinality(obs \cup {new})
           /\ Cardinality(obs \cup {new}) <= Cardinality(obs) + 1
<1> DEFINE rows(o) == [a \in Assets |-> MergeReceipt(o.assets[a], new.assets[a])]
           kept(o) == IF Identity(o) = Identity(new) THEN [o EXCEPT !.assets = rows(o)] ELSE o
<1>1. ASSUME NEW o \in obs PROVE kept(o) \in Observation /\ Identity(kept(o)) = Identity(o)
  <2>1. \A a \in Assets : o.assets[a] \in Receipt /\ new.assets[a] \in Receipt
    BY DEF Observation
  <2>2. rows(o) \in [Assets -> Receipt]
    BY <2>1, MergedReceipt
  <2> HIDE DEF rows
  <2> QED
    BY <2>2, ReceiptsReplaced DEF Kept
<1>2. Deduped(obs, new) = {kept(o) : o \in obs}
        \cup (IF \E o \in obs : Identity(o) = Identity(new) THEN {} ELSE {new})
  BY DEF Deduped
<1>3. \A o \in obs : Identity(o) # Identity(new) => kept(o) = o
  OBVIOUS
<1> HIDE DEF kept
<1>4. IsFiniteSet(obs \cup {new}) /\ Cardinality(obs \cup {new}) <= Cardinality(obs) + 1
      /\ Cardinality(obs) <= Cardinality(obs \cup {new})
  <2>1. Cardinality(obs) \in Nat
    BY FS_CardinalityType
  <2>2. /\ IsFiniteSet(obs \cup {new})
        /\ Cardinality(obs \cup {new}) = IF new \in obs THEN Cardinality(obs) ELSE Cardinality(obs) + 1
    BY FS_AddElement
  <2> QED
    BY <2>1, <2>2
<1>5. CASE \E o \in obs : Identity(o) = Identity(new)
  <2> DEFINE image == {kept(o) : o \in obs}
             f == [o \in obs |-> kept(o)]
  <2>1. f \in Surjection(obs, image)
    BY DEF Surjection
  <2>2. Deduped(obs, new) = image
    BY <1>2, <1>5
  <2>3. IdsOf(image) = IdsOf(obs \cup {new})
    BY <1>1, <1>5 DEF IdsOf
  <2>4. image \in SUBSET Observation
    BY <1>1
  <2> HIDE DEF image, f
  <2>5. IsFiniteSet(image) /\ Cardinality(image) <= Cardinality(obs)
    BY <2>1, FS_Surjection
  <2>6. Cardinality(image) \in Nat /\ Cardinality(obs) \in Nat /\ Cardinality(obs \cup {new}) \in Nat
    BY <2>5, <1>4, FS_CardinalityType
  <2> QED
    BY <2>2, <2>3, <2>4, <2>5, <2>6, <1>4
<1>6. CASE \A o \in obs : Identity(o) # Identity(new)
  <2>1. Deduped(obs, new) = obs \cup {new}
    BY <1>2, <1>3, <1>6
  <2>2. Cardinality(obs \cup {new}) \in Nat
    BY <1>4, FS_CardinalityType
  <2> QED
    BY <2>1, <2>2, <1>4
<1> QED
  BY <1>5, <1>6

\* A completed receipt of the record survives every merge.
LEMMA DedupedRows ==
    ASSUME NEW obs \in SUBSET Observation, NEW new \in Observation,
           \A o \in obs, a \in Assets : o.assets[a].status = "complete",
           NEW x \in Deduped(obs, new)
    PROVE  \/ x = new /\ \A o \in obs : Identity(o) # Identity(new)
           \/ \E o \in obs : \A a \in Assets : x.assets[a] = o.assets[a]
<1>1. CASE x = new /\ \A o \in obs : Identity(o) # Identity(new)
  BY <1>1
<1>2. CASE \E o \in obs : x = o
  BY <1>2
<1>3. ASSUME NEW o \in obs,
             x = [o EXCEPT !.assets = [a \in Assets |-> MergeReceipt(o.assets[a], new.assets[a])]]
      PROVE  \A a \in Assets : x.assets[a] = o.assets[a]
  <2>1. \A a \in Assets : o.assets[a] \in Receipt /\ new.assets[a] \in Receipt
    BY DEF Observation
  <2>2. \A a \in Assets : MergeReceipt(o.assets[a], new.assets[a]) = o.assets[a]
    BY <2>1, MergedReceipt
  <2>3. [a \in Assets |-> MergeReceipt(o.assets[a], new.assets[a])] \in [Assets -> Receipt]
    BY <2>1, <2>2
  <2>4. x.assets = [a \in Assets |-> MergeReceipt(o.assets[a], new.assets[a])]
    BY <1>3, <2>3, ReceiptsReplaced
  <2> QED
    BY <2>2, <2>4
<1>4. \/ x = new /\ \A o \in obs : Identity(o) # Identity(new)
      \/ \E o \in obs : x = o
      \/ \E o \in obs : x = [o EXCEPT !.assets = [a \in Assets |-> MergeReceipt(o.assets[a], new.assets[a])]]
  BY DEF Deduped
<1> QED
  BY <1>1, <1>2, <1>3, <1>4

-----------------------------------------------------------------------------
(* The inductive invariant of the record.                                  *)

\* What is published is what a validator accepts.
Published == IsFiniteSet(record) /\ ReceiptsTrue /\ Coherent
RInv == RecordTypeOK /\ InOrder /\ PendingLast /\ NamedByVersion /\ Published /\ CdnFirst /\ BudgetExact

-----------------------------------------------------------------------------
(* What a merge of the waiting reading produces.                           *)
Pending == RInv /\ pending # Absent

LEMMA PendingTyped ==
    ASSUME Pending
    PROVE  /\ CdnTyped /\ disk \in Files
           /\ pending \in Observation /\ record \in SUBSET Observation
           /\ IsFiniteSet(record) /\ record \cup {pending} \in SUBSET Observation
BY DEF Pending, RInv, RecordTypeOK, Published, Coherent, CdnTyped, Files

LEMMA MergedKeeps ==
    ASSUME Pending
    PROVE  /\ Merged \in SUBSET Observation /\ IsFiniteSet(Merged)
           /\ IdsOf(Merged) = IdsOf(record \cup {pending})
           /\ Cardinality(Merged) <= Cardinality(record \cup {pending})
           /\ Cardinality(record \cup {pending}) <= Cardinality(record) + 1
BY PendingTyped, DedupedKeeps DEF Merged, MergeRecords

LEMMA AppliedBuilt ==
    ASSUME Pending, ~MergeRefused(record, pending), NEW reach
    PROVE  Built(Applied(reach), IdsOf(record \cup {pending}))
<1>1. CdnTyped /\ disk \in Files
  BY PendingTyped
<1>2. Sized(Merged) \in SUBSET Observation /\ IdsOf(Sized(Merged)) = IdsOf(record \cup {pending})
  BY <1>1, MergedKeeps, SizedKeeps
<1>3. ~Conflicting(record \cup {pending})
  BY DEF MergeRefused
<1>4. ~Conflicting(Sized(Merged))
  BY <1>2, <1>3, ConflictsByIdentity
<1> QED
  BY <1>1, <1>2, <1>4, Replayed DEF Applied

LEMMA NewSendable == Sendable([a \in Assets |-> NewReceipt(a)])
BY DEF Sendable, NewReceipt

LEMMA RecordRows ==
    ASSUME RInv, NEW o \in record, NEW a \in Assets
    PROVE  /\ o.assets[a].status = "complete" /\ o.assets[a].declared \in Nat
           /\ o.assets[a].blob = disk[a]
           /\ Steady => o.assets[a].declared = SentSize /\ o.assets[a].blob = cdn[a]
<1>1. ReceiptHolds(o.assets[a], disk[a])
  BY DEF RInv, Published, Coherent, ReceiptsTrue
<1>2. disk[a] \in Blobs /\ disk[a].size \in Nat
  BY <1>1 DEF ReceiptHolds, RInv, RecordTypeOK
<1>3. Steady => o.assets[a].blob = cdn[a] /\ cdn[a].size = SentSize
  BY DEF RInv, CdnFirst, Steady, SizesAsSent
<1> QED
  BY <1>1, <1>2, <1>3 DEF ReceiptHolds

\* A row of the merge is one of the record, as it was, or one of the reading.
LEMMA MergedRows ==
    ASSUME Pending, NEW x \in Merged
    PROVE  \/ x = pending /\ \A o \in record : Identity(o) # Identity(pending)
           \/ \E o \in record : \A a \in Assets : x.assets[a] = o.assets[a]
<1>1. \A o \in record, a \in Assets : o.assets[a].status = "complete"
  BY RecordRows DEF Pending
<1>2. x \in Deduped(record, pending)
  BY DEF Merged, MergeRecords
<1>3. record \in SUBSET Observation /\ pending \in Observation
  BY PendingTyped
<1>4. \/ x = pending /\ \A o \in record : Identity(o) # Identity(pending)
      \/ \E o \in record : \A a \in Assets : x.assets[a] = o.assets[a]
  BY ONLY <1>1, <1>2, <1>3, DedupedRows
<1> QED
  BY <1>4

LEMMA MergedSendable ==
    ASSUME Pending, Steady, NEW x \in Merged
    PROVE  Sendable(x.assets)
<1>1. pending.assets = [a \in Assets |-> NewReceipt(a)]
  BY DEF Pending, RInv, PendingLast
<1>2. Sendable(pending.assets)
  BY <1>1, NewSendable
<1>3. \A o \in record, a \in Assets :
        /\ o.assets[a].status = "complete"
        /\ o.assets[a].declared = SentSize /\ o.assets[a].blob = cdn[a]
  BY RecordRows DEF Pending
<1>4. x.assets = pending.assets \/ \E o \in record : \A a \in Assets : x.assets[a] = o.assets[a]
  BY MergedRows
<1>5. CASE x.assets = pending.assets
  BY <1>2, <1>5
<1>6. ASSUME NEW o \in record, \A a \in Assets : x.assets[a] = o.assets[a]
      PROVE  Sendable(x.assets)
  <2>1. \A a \in Assets : x.assets[a].declared = SentSize /\ x.assets[a].blob = cdn[a]
    BY <1>3, <1>6
  <2> QED
    BY <2>1 DEF Sendable
<1> QED
  BY <1>4, <1>5, <1>6

LEMMA AppliedCalm ==
    ASSUME Pending, Steady, NEW reach
    PROVE  Calm(Applied(reach), reach)
<1>1. CdnTyped /\ Merged \in SUBSET Observation
  BY PendingTyped, MergedKeeps
<1>2. SizesAsSent
  BY DEF Pending, RInv, CdnFirst, Steady
<1>3. Sized(Merged) \in SUBSET Observation /\ \A o \in Sized(Merged) : Ready(o.assets)
  BY <1>1, <1>2, SizedKeeps, SizedReady, MergedSendable
<1> QED
  BY <1>1, <1>2, <1>3, CalmReplay DEF Applied

LEMMA Counts ==
    ASSUME Pending
    PROVE  /\ Cardinality(Unsized(Merged)) \in Nat /\ Rows(Merged) \in Nat
           /\ Unsized(Merged) # {} => Cardinality(Unsized(Merged)) >= 1
           /\ Cardinality(record) \in Nat /\ Rows(record \cup {pending}) \in Nat
           /\ Rows(Merged) <= Rows(record \cup {pending})
           /\ Cardinality(Unsized(Merged)) <= Cardinality(record) + 1
<1>1. IsFiniteSet(Merged) /\ IsFiniteSet(record) /\ IsFiniteSet(record \cup {pending})
  BY PendingTyped, MergedKeeps, FS_AddElement
<1>2. /\ Cardinality(Merged) \in Nat /\ Cardinality(record) \in Nat
      /\ Cardinality(record \cup {pending}) \in Nat
      /\ Cardinality(Merged) <= Cardinality(record \cup {pending})
      /\ Cardinality(Merged) <= Cardinality(record) + 1
  <2>1. /\ Cardinality(Merged) \in Nat /\ Cardinality(record) \in Nat
        /\ Cardinality(record \cup {pending}) \in Nat
    BY <1>1, FS_CardinalityType
  <2> QED
    BY <2>1, MergedKeeps
<1>3. IsFiniteSet(Assets) /\ Cardinality(Assets) \in Nat
  <2>1. IsFiniteSet({"direct", "proxy", "embed"})
    <3>1. IsFiniteSet({}) /\ IsFiniteSet({} \cup {"direct"})
      BY FS_EmptySet, FS_AddElement
    <3>2. IsFiniteSet(({} \cup {"direct"}) \cup {"proxy"})
      BY <3>1, FS_AddElement
    <3>3. IsFiniteSet((({} \cup {"direct"}) \cup {"proxy"}) \cup {"embed"})
      BY <3>2, FS_AddElement
    <3>4. (({} \cup {"direct"}) \cup {"proxy"}) \cup {"embed"} = {"direct", "proxy", "embed"}
      OBVIOUS
    <3> QED
      BY <3>3, <3>4
  <2>2. Assets \in SUBSET {"direct", "proxy", "embed"}
    OBVIOUS
  <2>3. IsFiniteSet(Assets)
    BY <2>1, <2>2, FS_Subset
  <2> QED
    BY <2>3, FS_CardinalityType
<1>4. ASSUME NEW x \in Nat, NEW y \in Nat, x <= y, NEW z \in Nat
      PROVE  x * z \in Nat /\ y * z \in Nat /\ x * z <= y * z
  BY <1>4
<1>5. /\ Rows(Merged) \in Nat /\ Rows(record \cup {pending}) \in Nat
      /\ Rows(Merged) <= Rows(record \cup {pending})
  BY <1>2, <1>3, <1>4 DEF Rows
\* Only the embed of a reading that no merge has completed has no size.
<1> DEFINE embeds == {<<o, "embed">> : o \in Merged}
           f == [o \in Merged |-> <<o, "embed">>]
<1>6. Unsized(Merged) \in SUBSET embeds
  <2>1. pending.assets = [a \in Assets |-> NewReceipt(a)]
    BY DEF Pending, RInv, PendingLast
  <2>2. \A o \in record, a \in Assets :
          o.assets[a].status = "complete" /\ o.assets[a].declared \in Nat
    BY RecordRows DEF Pending
  <2>3. ASSUME NEW x \in Merged, NEW a \in Assets, x.assets[a].declared = Absent
        PROVE  a = "embed"
    <3>1. x.assets = pending.assets \/ \E o \in record : \A b \in Assets : x.assets[b] = o.assets[b]
      BY MergedRows
    <3>2. x.assets = pending.assets
      BY <3>1, <2>2, <2>3
    <3> QED
      BY <3>2, <2>1, <2>3 DEF NewReceipt
  <2> QED
    BY <2>3 DEF Unsized
<1>7. f \in Surjection(Merged, embeds)
  BY DEF Surjection
<1> HIDE DEF embeds, f
<1>8. IsFiniteSet(embeds) /\ Cardinality(embeds) <= Cardinality(Merged)
  BY <1>1, <1>7, FS_Surjection
<1>9. IsFiniteSet(Unsized(Merged)) /\ Cardinality(Unsized(Merged)) <= Cardinality(embeds)
  BY <1>6, <1>8, FS_Subset
<1>10. Cardinality(Unsized(Merged)) \in Nat /\ Cardinality(embeds) \in Nat
  BY <1>8, <1>9, FS_CardinalityType
<1>11. Unsized(Merged) # {} => Cardinality(Unsized(Merged)) # 0
  BY <1>9, FS_EmptySet
<1> QED
  BY <1>2, <1>5, <1>8, <1>9, <1>10, <1>11

-----------------------------------------------------------------------------
(* Init, and one lemma per action.                                         *)
LEMMA RecordStarts == RecordInit => RInv
<1> SUFFICES ASSUME RecordInit PROVE RInv
  OBVIOUS
<1>1. RecordTypeOK
  <2>1. 1 \in 1..MaxTime /\ 0 \in 0..MaxDrifts /\ 0 \in 0..MaxMoves /\ MaxProbes \in 0..MaxProbes
    OBVIOUS
  <2> QED
    BY <2>1 DEF RecordInit, RecordTypeOK, Fresh
<1>2. InOrder /\ PendingLast /\ NamedByVersion
  BY DEF RecordInit, InOrder, PendingLast, NamedByVersion
<1>3. Published
  BY FS_EmptySet DEF RecordInit, Published, Coherent, ReceiptsTrue, Conflicting
<1>4. CdnFirst
  BY DEF RecordInit, CdnFirst, SizesAsSent
<1>5. BudgetExact
  BY DEF RecordInit, BudgetExact, Fresh
<1> QED
  BY <1>1, <1>2, <1>3, <1>4, <1>5 DEF RInv

\* What a step leaves alone when it touches neither record, files nor CDN.
LEMMA ArchiveUntouched ==
    ASSUME RInv, UNCHANGED <<record, disk, cdn, drifts>>
    PROVE  Published' /\ CdnFirst'
<1>1. Published'
  BY DEF RInv, Published, Coherent, ReceiptsTrue, ReceiptHolds, Conflicting, Revision, Identity, Classified
<1>2. CdnFirst'
  BY DEF RInv, CdnFirst, Steady, SizesAsSent
<1> QED
  BY <1>1, <1>2

LEMMA TickKeeps ==
    ASSUME RInv, Tick
    PROVE  RInv'
<1>1. Published' /\ CdnFirst'
  BY ArchiveUntouched DEF Tick, Environment
<1>2. RecordTypeOK'
  BY DEF RInv, RecordTypeOK, Tick, Environment
<1>3. InOrder' /\ PendingLast' /\ NamedByVersion' /\ BudgetExact'
  <2>1. now \in Nat /\ live.version \in Nat
    BY DEF RInv, RecordTypeOK
  <2>2. \A o \in record \cup ({pending} \ {Absent}) : o.at \in Nat /\ o.version \in Nat
    BY DEF RInv, RecordTypeOK, Observation
  <2>3. InOrder'
    BY <2>1, <2>2 DEF RInv, InOrder, Tick, Environment
  <2>4. PendingLast'
    BY <2>1, <2>2 DEF RInv, PendingLast, Tick, Environment, NewReceipt
  <2>5. NamedByVersion' /\ BudgetExact'
    BY DEF RInv, NamedByVersion, BudgetExact, Tick, Environment
  <2> QED
    BY <2>3, <2>4, <2>5
<1> QED
  BY <1>1, <1>2, <1>3 DEF RInv

LEMMA LiveFields ==
    ASSUME RInv, NEW c \in Contents, NEW v \in 1..MaxTime, NEW m \in Mutables
    PROVE  /\ [live EXCEPT !.version = v, !.content = c] \in [version : 1..MaxTime, content : Contents, mutable : Mutables]
           /\ [live EXCEPT !.version = v, !.content = c].version = v
           /\ [live EXCEPT !.version = v, !.content = c].content = c
           /\ [live EXCEPT !.content = c] \in [version : 1..MaxTime, content : Contents, mutable : Mutables]
           /\ [live EXCEPT !.content = c].version = live.version
           /\ [live EXCEPT !.mutable = m] \in [version : 1..MaxTime, content : Contents, mutable : Mutables]
           /\ [live EXCEPT !.mutable = m].version = live.version
           /\ [live EXCEPT !.mutable = m].content = live.content
BY DEF RInv, RecordTypeOK

LEMMA EditKeeps ==
    ASSUME RInv, NEW c \in Contents, Edit(c)
    PROVE  RInv'
<1>1. Published' /\ CdnFirst'
  BY ArchiveUntouched DEF Edit, Environment
<1>2. now \in 1..MaxTime /\ live.mutable \in Mutables
  BY DEF RInv, RecordTypeOK
<1>3. /\ live' \in [version : 1..MaxTime, content : Contents, mutable : Mutables]
      /\ live'.version = now /\ live.version < now
  BY <1>2, LiveFields DEF Edit
<1>4. RecordTypeOK'
  BY <1>3 DEF RInv, RecordTypeOK, Edit, Environment
<1>5. live.version \in Nat /\ now \in Nat
  BY DEF RInv, RecordTypeOK
<1>6. \A o \in record \cup ({pending} \ {Absent}) :
        o.at \in Nat /\ o.version \in Nat /\ o.version <= live.version
  BY DEF RInv, RecordTypeOK, Observation, InOrder, PendingLast
<1>7. InOrder'
  BY <1>3, <1>5, <1>6 DEF RInv, InOrder, Edit, Environment
<1>8. PendingLast'
  BY <1>3, <1>5, <1>6 DEF RInv, PendingLast, Edit, Environment, NewReceipt
<1>9. NamedByVersion' /\ BudgetExact'
  BY <1>3, <1>5, <1>6 DEF RInv, NamedByVersion, BudgetExact, Edit, Environment
<1> QED
  BY <1>1, <1>4, <1>7, <1>8, <1>9 DEF RInv

LEMMA MoveKeeps ==
    ASSUME RInv, (\E c \in Contents : Rename(c)) \/ (\E m \in Mutables : React(m))
    PROVE  RInv'
<1> DEFINE moved == /\ live'.version = live.version
                    /\ renamed' \in BOOLEAN /\ (~renamed' => ~renamed /\ live'.content = live.content)
                    /\ UNCHANGED <<now, cdn, drifts, Environment>>
                    /\ live' \in [version : 1..MaxTime, content : Contents, mutable : Mutables]
                    /\ moves' \in 0..MaxMoves
<1>1. moves \in 0..MaxMoves /\ live.version \in 1..MaxTime /\ live.content \in Contents
      /\ live.mutable \in Mutables /\ renamed \in BOOLEAN /\ MaxMoves \in Nat
  BY DEF RInv, RecordTypeOK
<1>2. moves < MaxMoves => moves + 1 \in 0..MaxMoves
  BY <1>1
<1>3. ASSUME NEW c \in Contents, Rename(c) PROVE moved
  BY <1>1, <1>2, <1>3, LiveFields DEF Rename
<1>4. ASSUME NEW m \in Mutables, React(m) PROVE moved
  BY <1>1, <1>2, <1>4, LiveFields DEF React
<1>5. moved
  BY <1>3, <1>4
<1>6. Published' /\ CdnFirst'
  BY <1>5, ArchiveUntouched DEF Environment
<1>7. RecordTypeOK'
  BY <1>5 DEF RInv, RecordTypeOK, Environment
<1>8. InOrder'
  BY <1>5 DEF RInv, InOrder, Environment
<1>9. PendingLast'
  BY <1>5 DEF RInv, PendingLast, Environment, NewReceipt
<1>10. NamedByVersion' /\ BudgetExact'
  BY <1>5 DEF RInv, NamedByVersion, BudgetExact, Environment
<1> QED
  BY <1>6, <1>7, <1>8, <1>9, <1>10 DEF RInv

LEMMA DriftKeeps ==
    ASSUME RInv, NEW a \in Assets, NEW b \in Blobs, Drift(a, b)
    PROVE  RInv'
<1>1. drifts \in 0..MaxDrifts /\ drifts < MaxDrifts /\ drifts' = drifts + 1 /\ MaxDrifts \in Nat
  BY DEF RInv, RecordTypeOK, Drift
<1>2. drifts' \in 0..MaxDrifts /\ drifts' # 0
  BY <1>1
<1>3. cdn' \in [Assets -> Blobs]
  BY DEF RInv, RecordTypeOK, Drift
<1>4. RecordTypeOK'
  BY <1>2, <1>3 DEF RInv, RecordTypeOK, Drift, Environment
<1>5. CdnFirst'
  BY <1>2 DEF CdnFirst, Steady
<1>6. Published'
  BY DEF RInv, Published, Coherent, ReceiptsTrue, ReceiptHolds, Conflicting, Revision, Identity, Classified, Drift, Environment
<1>7. InOrder' /\ NamedByVersion' /\ BudgetExact'
  BY DEF RInv, InOrder, NamedByVersion, BudgetExact, Drift, Environment
<1>8. PendingLast'
  BY DEF RInv, PendingLast, Drift, Environment, NewReceipt
<1> QED
  BY <1>4, <1>5, <1>6, <1>7, <1>8 DEF RInv

LEMMA FreshTyped == Fresh \in [files : Nat, probes : 0..MaxProbes] /\ Fresh.files = 0 /\ 0 <= RunFiles
BY DEF Fresh

LEMMA NewRunKeeps ==
    ASSUME RInv, NewRun
    PROVE  RInv'
<1>1. Published' /\ CdnFirst'
  BY ArchiveUntouched DEF NewRun
<1>2. RecordTypeOK' /\ BudgetExact'
  BY FreshTyped DEF RInv, RecordTypeOK, BudgetExact, NewRun
<1>3. InOrder' /\ NamedByVersion'
  BY DEF RInv, InOrder, NamedByVersion, NewRun
<1>4. PendingLast'
  BY DEF RInv, PendingLast, NewRun, NewReceipt
<1> QED
  BY <1>1, <1>2, <1>3, <1>4 DEF RInv

\* A fresh reading of the live message.
LEMMA ReadingTyped ==
    ASSUME RInv
    PROVE  LET new == Normalize(live, now)
           IN  /\ new \in Observation
               /\ new.at = now /\ new.version = live.version
               /\ new.content = live.content
               /\ new.assets = [a \in Assets |-> NewReceipt(a)]
<1>1. [a \in Assets |-> NewReceipt(a)] \in [Assets -> Receipt]
  BY NewReceiptTyped
<1>2. /\ now \in 1..MaxTime /\ live.version \in 1..MaxTime
      /\ live.content \in Contents /\ live.mutable \in Mutables
  BY DEF RInv, RecordTypeOK
<1> DEFINE rows == [a \in Assets |-> NewReceipt(a)]
<1>3. Normalize(live, now) = [at |-> now, version |-> live.version, content |-> live.content,
                              mutable |-> live.mutable, assets |-> rows]
  BY DEF Normalize
<1> HIDE DEF rows
<1>4. Normalize(live, now) \in Observation
  BY <1>1, <1>2, <1>3 DEF Observation, rows
<1> QED
  BY <1>3, <1>4 DEF rows

LEMMA ReadKeeps ==
    ASSUME RInv, Read
    PROVE  RInv'
<1>1. Published' /\ CdnFirst'
  BY ArchiveUntouched DEF Read
<1>2. pending' = Normalize(live, now)
  BY DEF Read
<1>3. /\ pending' \in Observation /\ pending'.at = now /\ pending'.version = live.version
      /\ pending'.content = live.content /\ pending'.assets = [a \in Assets |-> NewReceipt(a)]
  BY <1>2, ReadingTyped
<1>4. RecordTypeOK'
  BY <1>3 DEF RInv, RecordTypeOK, Read
<1>5. InOrder' /\ BudgetExact'
  BY DEF RInv, InOrder, BudgetExact, Read
<1>6. PendingLast'
  <2>1. now \in Nat /\ live.version \in Nat /\ live.version <= now
    BY DEF RInv, RecordTypeOK, InOrder
  <2>2. \A o \in record : o.at <= now /\ o.version <= live.version
    BY DEF RInv, InOrder
  <2>3. now' = now /\ live' = live /\ record' = record
    BY DEF Read
  <2> QED
    BY <1>3, <2>1, <2>2, <2>3 DEF PendingLast, NewReceipt
<1>7. NamedByVersion'
  <2>1. now' = now /\ live' = live /\ record' = record /\ renamed' = renamed
    BY DEF Read
  <2> QED
    BY <1>3, <2>1 DEF RInv, NamedByVersion
<1> QED
  BY <1>1, <1>4, <1>5, <1>6, <1>7 DEF RInv

Refused == MergeConflicts \/ MergeOverQuota \/ MergeUnprobed \/ MergeUnverified

\* A refused merge drops the reading and spends probes it had.
LEMMA RefusedEnds ==
    ASSUME RInv, Refused
    PROVE  /\ pending # Absent /\ pending' = Absent
           /\ UNCHANGED <<now, live, cdn, drifts, moves, record, disk, committed, renamed>>
           /\ outcome' \in {"conflict", "quota", "unreachable", "unverified"}
           /\ budget' \in [files : Nat, probes : 0..MaxProbes] /\ budget'.files = budget.files
<1>1. pending # Absent
  BY DEF Refused, MergeConflicts, MergeOverQuota, MergeUnprobed, MergeUnverified, Admitted
<1>2. Pending
  BY <1>1 DEF Pending
<1> DEFINE ends(how, spent) ==
      /\ Ends(how, spent) /\ how \in {"conflict", "quota", "unreachable", "unverified"}
      /\ spent \in Nat /\ spent <= budget.probes
<1>3. budget \in [files : Nat, probes : 0..MaxProbes] /\ budget.probes \in Nat /\ MaxProbes \in Nat
  BY DEF RInv, RecordTypeOK
<1>4. /\ Cardinality(Unsized(Merged)) \in Nat
      /\ Unsized(Merged) # {} => Cardinality(Unsized(Merged)) >= 1
  BY <1>2, Counts
<1>5. \E how, spent : ends(how, spent)
  <2>1. CASE MergeConflicts
    BY <2>1, <1>3 DEF MergeConflicts
  <2>2. CASE MergeOverQuota
    BY <2>2, <1>3 DEF MergeOverQuota
  <2>3. CASE MergeUnprobed
    BY <2>3, <1>3, <1>4 DEF MergeUnprobed
  <2>4. CASE MergeUnverified
    <3>1. PICK reach \in SUBSET Assets :
            /\ Probed(reach)
            /\ Ends(IF reach = Assets THEN "unverified" ELSE "unreachable", Cardinality(Unsized(Merged)))
      BY <2>4 DEF MergeUnverified
    <3>2. ends(IF reach = Assets THEN "unverified" ELSE "unreachable", Cardinality(Unsized(Merged)))
      BY <3>1, <1>4 DEF Probed
    <3> HIDE DEF ends
    <3> QED
      BY <3>2
  <2> QED
    BY <2>1, <2>2, <2>3, <2>4 DEF Refused
<1>6. PICK how, spent : ends(how, spent)
  BY <1>5
<1>7. budget.probes - spent \in 0..MaxProbes
  BY <1>3, <1>6
<1>8. budget' = [budget EXCEPT !.probes = @ - spent]
  BY <1>6 DEF Ends
<1>9. budget' \in [files : Nat, probes : 0..MaxProbes] /\ budget'.files = budget.files
  BY <1>3, <1>7, <1>8
<1> QED
  BY <1>1, <1>6, <1>9 DEF Ends

LEMMA RefusedKeeps ==
    ASSUME RInv, Refused
    PROVE  RInv'
<1>1. /\ pending # Absent /\ pending' = Absent
      /\ UNCHANGED <<now, live, cdn, drifts, moves, record, disk, committed, renamed>>
      /\ outcome' \in {"conflict", "quota", "unreachable", "unverified"}
      /\ budget' \in [files : Nat, probes : 0..MaxProbes] /\ budget'.files = budget.files
  BY RefusedEnds
<1>2. Published' /\ CdnFirst'
  BY <1>1, ArchiveUntouched
<1>3. RecordTypeOK'
  BY <1>1 DEF RInv, RecordTypeOK
<1>4. InOrder' /\ NamedByVersion' /\ BudgetExact'
  BY <1>1 DEF RInv, InOrder, NamedByVersion, BudgetExact
<1>5. PendingLast'
  BY <1>1 DEF PendingLast
<1> QED
  BY <1>2, <1>3, <1>4, <1>5 DEF RInv

\* A drift between the HEAD and the download of a merge is a drift.
LEMMA MergeDriftsMoves ==
    ASSUME RInv, MergeDrifts
    PROVE  /\ cdn' \in [Assets -> Blobs] /\ drifts' \in 0..MaxDrifts /\ drifts' # 0
           /\ pending # Absent /\ pending' = Absent /\ outcome' = "unverified"
           /\ budget' \in [files : Nat, probes : 0..MaxProbes] /\ budget'.files = budget.files
           /\ UNCHANGED <<now, live, moves, record, disk, committed, renamed>>
<1>1. drifts \in 0..MaxDrifts /\ drifts < MaxDrifts /\ drifts' = drifts + 1 /\ MaxDrifts \in Nat
  BY DEF RInv, RecordTypeOK, MergeDrifts
<1>2. drifts' \in 0..MaxDrifts /\ drifts' # 0
  BY <1>1
<1>3. /\ pending # Absent /\ pending' = Absent /\ outcome' = "unverified"
      /\ UNCHANGED <<now, live, moves, record, disk, committed, renamed>>
  BY DEF MergeDrifts, Admitted
<1>4. cdn' \in [Assets -> Blobs]
  <2>1. PICK x \in Unsized(Merged) : \E b \in Blobs : cdn' = [cdn EXCEPT ![x[2]] = b]
    BY DEF MergeDrifts
  <2>2. cdn \in [Assets -> Blobs]
    BY DEF RInv, RecordTypeOK
  <2> QED
    BY <2>1, <2>2
<1>5. Cardinality(Unsized(Merged)) \in Nat /\ Cardinality(Unsized(Merged)) <= budget.probes
  <2>1. Pending
    BY <1>3 DEF Pending
  <2>2. Cardinality(Unsized(Merged)) <= budget.probes
    BY DEF MergeDrifts, Probed
  <2> QED
    BY <2>1, <2>2, Counts
<1>6. budget \in [files : Nat, probes : 0..MaxProbes] /\ budget.probes \in Nat /\ MaxProbes \in Nat
  BY DEF RInv, RecordTypeOK
<1>7. budget' = [budget EXCEPT !.probes = @ - Cardinality(Unsized(Merged))]
  BY DEF MergeDrifts
<1> DEFINE n == Cardinality(Unsized(Merged))
<1> HIDE DEF n
<1>8. budget.probes - n \in 0..MaxProbes
  BY <1>5, <1>6 DEF n
<1>9. budget' \in [files : Nat, probes : 0..MaxProbes] /\ budget'.files = budget.files
  BY <1>6, <1>7, <1>8 DEF n
<1> QED
  BY <1>2, <1>3, <1>4, <1>9

LEMMA MergeDriftsKeeps ==
    ASSUME RInv, MergeDrifts
    PROVE  RInv'
<1>1. /\ cdn' \in [Assets -> Blobs] /\ drifts' \in 0..MaxDrifts /\ drifts' # 0
      /\ pending' = Absent /\ outcome' = "unverified"
      /\ budget' \in [files : Nat, probes : 0..MaxProbes] /\ budget'.files = budget.files
      /\ UNCHANGED <<now, live, moves, record, disk, committed, renamed>>
  BY MergeDriftsMoves
<1>2. RecordTypeOK'
  BY <1>1 DEF RInv, RecordTypeOK
<1>3. CdnFirst' /\ PendingLast'
  BY <1>1 DEF CdnFirst, Steady, PendingLast
<1>4. Published'
  BY <1>1 DEF RInv, Published, Coherent, ReceiptsTrue, ReceiptHolds, Conflicting, Revision, Identity, Classified
<1>5. InOrder' /\ NamedByVersion' /\ BudgetExact'
  BY <1>1 DEF RInv, InOrder, NamedByVersion, BudgetExact
<1> QED
  BY <1>2, <1>3, <1>4, <1>5 DEF RInv

\* What a validated replay is fit to be published as.
LEMMA ValidPublished ==
    ASSUME NEW s, NEW ids, Built(s, ids), ValidRecord(s.obs, s.files),
           record' = s.obs, disk' = s.files
    PROVE  Published'
BY DEF Built, ValidRecord, Published, Coherent, ReceiptsTrue, ReceiptHolds, Conflicting, Revision, Identity, Classified

LEMMA CalmPublished ==
    ASSUME NEW s, NEW reach, Steady => Calm(s, reach), ValidRecord(s.obs, s.files),
           record' = s.obs, UNCHANGED <<cdn, drifts>>, CdnFirst
    PROVE  CdnFirst'
<1>1. ASSUME Steady, NEW o \in s.obs, NEW a \in Assets PROVE o.assets[a].blob = cdn[a]
  <2>1. o.assets[a].blob \in {Absent, cdn[a]}
    BY <1>1 DEF Calm, Ready
  <2>2. o.assets[a].blob # Absent
    BY <1>1 DEF ValidRecord, ReceiptHolds
  <2> QED
    BY <2>1, <2>2
<1>2. Steady' <=> Steady
  BY DEF Steady
<1> QED
  BY <1>1, <1>2 DEF CdnFirst, SizesAsSent

LEMMA PublishesKeeps ==
    ASSUME RInv, MergePublishes
    PROVE  RInv'
<1>1. Pending /\ pending # Absent /\ ~MergeRefused(record, pending) /\ ~OverQuota(Merged)
  BY DEF Pending, MergePublishes, Admitted
<1>2. PICK reach \in SUBSET Assets :
        /\ Probed(reach)
        /\ ValidRecord(Applied(reach).obs, Applied(reach).files)
        /\ record' = Applied(reach).obs /\ disk' = Applied(reach).files
  BY DEF MergePublishes
<1> DEFINE done == Applied(reach)
           both == record \cup {pending}
<1>3. Built(done, IdsOf(both)) /\ (Steady => Calm(done, reach))
  BY <1>1, AppliedBuilt, AppliedCalm
<1>4. ~Conflicting(both)
  BY <1>1 DEF MergeRefused
<1>5. UNCHANGED <<now, live, cdn, drifts, moves, renamed>> /\ pending' = Absent /\ outcome' = "published"
  BY DEF MergePublishes
<1>6. record' \in SUBSET Observation /\ disk' \in Files /\ IdsOf(record') \subseteq IdsOf(both)
  BY <1>2, <1>3 DEF Built
<1>7. Published'
  BY <1>2, <1>3, ValidPublished
<1>8. CdnFirst'
  BY <1>2, <1>3, <1>5, CalmPublished DEF RInv
<1> HIDE DEF done, both
<1>9. \A o \in record' : \E p \in both : Identity(o) = Identity(p) /\ Kept(o, p)
  BY <1>6, WitnessOf
<1>10. \A p \in both : p.at \in Nat /\ p.version \in Nat
  BY <1>1, PendingTyped DEF both, Observation
<1>11. InOrder'
  <2>1. live.version <= now /\ \A p \in both : p.at <= now /\ p.version <= live.version
    BY <1>1 DEF RInv, InOrder, PendingLast, both
  <2>2. ASSUME NEW p \in both, NEW q \in both, p.at <= q.at PROVE p.version <= q.version
    <3>1. CASE p \in record /\ q \in record
      BY <2>2, <3>1 DEF RInv, InOrder
    <3>2. CASE q = pending
      BY <1>1, <1>10, <3>2 DEF RInv, PendingLast, both
    <3>3. CASE p = pending /\ q \in record
      <4>1. q.at <= p.at
        BY <1>1, <3>3 DEF RInv, PendingLast
      <4>2. q.at = p.at
        BY <2>2, <4>1, <1>10
      <4>3. Identity(q) = Identity(p)
        BY <1>4, <4>2 DEF Conflicting
      <4>4. q.version = p.version
        BY <4>3, SameIdentity DEF Kept
      <4> QED
        BY <4>4, <1>10
    <3> QED
      BY <3>1, <3>2, <3>3 DEF both
  <2>3. ASSUME NEW o \in record', NEW p \in record', o.at <= p.at PROVE o.version <= p.version
    <3>1. PICK x \in both : Kept(o, x)
      BY <1>9
    <3>2. PICK y \in both : Kept(p, y)
      BY <1>9
    <3> QED
      BY <2>2, <2>3, <3>1, <3>2 DEF Kept
  <2>4. ASSUME NEW o \in record' PROVE o.at <= now /\ o.version <= live.version
    <3>1. PICK x \in both : Kept(o, x)
      BY <1>9
    <3> QED
      BY <2>1, <3>1 DEF Kept
  <2> QED
    BY <2>1, <2>3, <2>4, <1>5 DEF InOrder
<1>12. PendingLast'
  BY <1>5 DEF PendingLast
<1>13. NamedByVersion'
  <2>1. ASSUME ~renamed, NEW o \in record', o.version = live.version PROVE o.content = live.content
    <3>1. PICK x \in both : Kept(o, x)
      BY <1>9
    <3>2. x.version = live.version => x.content = live.content
      BY <1>1, <2>1 DEF RInv, NamedByVersion, both
    <3> QED
      BY <2>1, <3>1, <3>2 DEF Kept
  <2> QED
    BY <2>1, <1>5 DEF NamedByVersion
<1>14. budget' = [files |-> budget.files + Rows(Merged), probes |-> budget.probes - Cardinality(Unsized(Merged))]
       /\ committed' = committed + Rows(Merged)
  BY DEF MergePublishes
<1>15. /\ budget.files \in Nat /\ budget.files = committed /\ committed \in Nat
       /\ budget.probes \in 0..MaxProbes /\ MaxProbes \in Nat /\ RunFiles \in Nat
  BY DEF RInv, RecordTypeOK, BudgetExact
<1>16. /\ Rows(Merged) \in Nat /\ Cardinality(Unsized(Merged)) \in Nat
       /\ Cardinality(Unsized(Merged)) <= budget.probes
       /\ ~(budget.files + Rows(Merged) > RunFiles)
  BY <1>1, <1>2, Counts DEF Probed, OverQuota
<1>17. budget.files + Rows(Merged) \in Nat /\ budget.probes - Cardinality(Unsized(Merged)) \in 0..MaxProbes
  BY <1>15, <1>16
<1>18. BudgetExact'
  BY <1>14, <1>15, <1>16 DEF BudgetExact
<1>19. budget' \in [files : Nat, probes : 0..MaxProbes] /\ committed' \in Nat
  BY <1>14, <1>15, <1>17
<1>20. RecordTypeOK'
  BY <1>5, <1>6, <1>19 DEF RInv, RecordTypeOK, Files
<1> QED
  BY <1>7, <1>8, <1>11, <1>12, <1>13, <1>18, <1>20 DEF RInv

LEMMA RebuildKeeps ==
    ASSUME RInv, Rebuild
    PROVE  RInv'
<1> DEFINE new == Normalize(live, now)
           blank == [a \in Assets |-> Absent]
           done == ApplyAssets(Sized({new}), blank, Assets)
<1>1. /\ ValidRecord(done.obs, done.files) /\ record' = done.obs /\ disk' = done.files
      /\ pending = Absent /\ pending' = Absent /\ outcome' = "rebuilt" /\ renamed' = FALSE
      /\ budget' = Fresh /\ committed' = 0
      /\ UNCHANGED <<now, live, cdn, drifts, moves>>
  BY DEF Rebuild
<1>2. /\ new \in Observation /\ new.at = now /\ new.version = live.version
      /\ new.content = live.content /\ new.assets = [a \in Assets |-> NewReceipt(a)]
  BY ReadingTyped
<1>3. CdnTyped /\ blank \in Files
  BY DEF RInv, RecordTypeOK, CdnTyped, Files
<1> HIDE DEF new, blank
<1>4. Sized({new}) \in SUBSET Observation /\ IdsOf(Sized({new})) = IdsOf({new})
  BY <1>2, <1>3, SizedKeeps
<1>5. ~Conflicting({new})
  BY DEF Conflicting
<1>6. ~Conflicting(Sized({new}))
  BY <1>4, <1>5, ConflictsByIdentity
<1>7. Built(done, IdsOf({new}))
  BY <1>3, <1>4, <1>6, Replayed
<1>8. Steady => Calm(done, Assets)
  <2>1. ASSUME Steady PROVE Calm(done, Assets)
    <3>1. SizesAsSent
      BY <2>1 DEF RInv, CdnFirst, Steady
    <3>2. \A o \in {new} : Sendable(o.assets)
      BY <1>2, NewSendable
    <3>3. \A o \in Sized({new}) : Ready(o.assets)
      BY <1>2, <1>3, <3>1, <3>2, SizedReady
    <3> QED
      BY <2>1, <3>1, <3>3, <1>3, <1>4, CalmReplay
  <2> QED
    BY <2>1
<1> HIDE DEF done
<1>9. Published'
  BY <1>1, <1>7, ValidPublished
<1>10. CdnFirst'
  BY <1>1, <1>8, CalmPublished DEF RInv
<1>11. record' \in SUBSET Observation /\ disk' \in Files /\ IdsOf(record') \subseteq IdsOf({new})
  BY <1>1, <1>7 DEF Built
<1>12. \A o \in record' : o.at = now /\ o.version = live.version /\ o.content = live.content
  <2>1. ASSUME NEW o \in record' PROVE o.at = now /\ o.version = live.version /\ o.content = live.content
    <3>1. PICK p \in {new} : Identity(o) = Identity(p) /\ Kept(o, p)
      BY <1>11, WitnessOf
    <3> QED
      BY <3>1, <1>2 DEF Kept
  <2> QED
    BY <2>1
<1>13. now \in Nat /\ live.version \in Nat /\ live.version <= now
  BY DEF RInv, RecordTypeOK, InOrder
<1>14. InOrder' /\ PendingLast' /\ NamedByVersion'
  BY <1>1, <1>12, <1>13 DEF InOrder, PendingLast, NamedByVersion
<1>15. RecordTypeOK' /\ BudgetExact'
  BY <1>1, <1>11, FreshTyped DEF RInv, RecordTypeOK, BudgetExact, Files
<1> QED
  BY <1>9, <1>10, <1>14, <1>15 DEF RInv

LEMMA StutterKeeps ==
    ASSUME RInv, UNCHANGED recordVars
    PROVE  RInv'
<1>1. Published' /\ CdnFirst'
  BY ArchiveUntouched DEF recordVars
<1>2. RecordTypeOK'
  BY DEF RInv, RecordTypeOK, recordVars
<1>3. InOrder' /\ NamedByVersion' /\ BudgetExact'
  BY DEF RInv, InOrder, NamedByVersion, BudgetExact, recordVars
<1>4. PendingLast'
  BY DEF RInv, PendingLast, NewReceipt, recordVars
<1> QED
  BY <1>1, <1>2, <1>3, <1>4 DEF RInv

LEMMA RecordSteps ==
    ASSUME RInv, [RecordNext]_recordVars
    PROVE  RInv'
<1>1. CASE Tick
  BY <1>1, TickKeeps
<1>2. CASE NewRun
  BY <1>2, NewRunKeeps
<1>3. CASE Read
  BY <1>3, ReadKeeps
<1>4. CASE Merge
  BY <1>4, RefusedKeeps, MergeDriftsKeeps, PublishesKeeps DEF Merge, Refused
<1>5. CASE Rebuild
  BY <1>5, RebuildKeeps
<1>6. CASE \E c \in Contents : Edit(c) \/ Rename(c)
  BY <1>6, EditKeeps, MoveKeeps
<1>7. CASE \E m \in Mutables : React(m)
  BY <1>7, MoveKeeps
<1>8. CASE \E a \in Assets, b \in Blobs : Drift(a, b)
  BY <1>8, DriftKeeps
<1>9. CASE UNCHANGED recordVars
  BY <1>9, StutterKeeps
<1> QED
  BY <1>1, <1>2, <1>3, <1>4, <1>5, <1>6, <1>7, <1>8, <1>9 DEF RecordNext

LEMMA RecordInvariant == RecordSpec => []RInv
<1>1. RecordInit => RInv
  BY RecordStarts
<1>2. RInv /\ [RecordNext]_recordVars => RInv'
  BY RecordSteps
<1> QED
  BY <1>1, <1>2, PTL DEF RecordSpec

-----------------------------------------------------------------------------
(* The reading shown.                                                      *)
LEMMA ActiveIs ==
    ASSUME NEW obs \in SUBSET Observation, obs # {}
    PROVE  /\ Active(obs) \in obs
           /\ \A o \in obs : o.version <= Active(obs).version
           /\ \A o \in obs : o.version = Active(obs).version => o.at <= Active(obs).at
<1> DEFINE versions == {o.version : o \in obs}
           newest == Max(versions)
<1>1. versions \in SUBSET (0..MaxTime) /\ versions # {}
  BY DEF Observation
<1>2. \E v \in versions : \A w \in versions : v >= w
  <2> HIDE DEF versions
  <2>1. PICK v \in versions : \A w \in versions : w <= v
    BY <1>1, GreatestOf
  <2> QED
    BY <2>1, <1>1
<1>3. newest \in versions /\ \A w \in versions : newest >= w
  <2> HIDE DEF versions
  <2> QED
    BY <1>2 DEF Max
<1> DEFINE top == {o \in obs : o.version = newest}
           times == {o.at : o \in top}
<1> HIDE DEF newest
<1>4. times \in SUBSET (0..MaxTime) /\ times # {}
  BY <1>3 DEF Observation
<1>5. \E t \in times : \A u \in times : u <= t
  <2> HIDE DEF times
  <2> QED
    BY <1>4, GreatestOf
<1>6. PICK o \in top : \A p \in top : p.at <= o.at
  BY <1>5
<1>7. \E x \in obs : x.version = newest /\ \A p \in obs : p.version = newest => p.at <= x.at
  BY <1>6
<1>8. Active(obs) = CHOOSE x \in obs : x.version = newest /\ \A p \in obs : p.version = newest => p.at <= x.at
  BY DEF Active, newest
<1>9. /\ Active(obs) \in obs /\ Active(obs).version = newest
      /\ \A p \in obs : p.version = newest => p.at <= Active(obs).at
  BY <1>7, <1>8
<1>10. \A p \in obs : p.version \in Nat /\ newest \in Nat /\ newest >= p.version
  BY <1>1, <1>3 DEF Observation
<1> QED
  BY <1>9, <1>10

LEMMA InvariantShowsNewest == RInv => ActiveNewest
<1> SUFFICES ASSUME RInv, record # {}, NEW o \in record PROVE o.at <= Active(record).at
  BY DEF ActiveNewest
<1> DEFINE shown == Active(record)
<1>1. record \in SUBSET Observation
  BY DEF RInv, RecordTypeOK
<1>2. /\ shown \in record /\ \A p \in record : p.version <= shown.version
      /\ \A p \in record : p.version = shown.version => p.at <= shown.at
  BY <1>1, ActiveIs
<1> HIDE DEF shown
<1>3. o.at \in Nat /\ o.version \in Nat /\ shown.at \in Nat /\ shown.version \in Nat
  BY <1>1, <1>2 DEF Observation
<1>4. shown.at <= o.at => shown.version <= o.version
  BY <1>2 DEF RInv, InOrder
<1> QED
  BY <1>2, <1>3, <1>4 DEF shown

(* Whatever is edited, moved, renamed, read and merged, and however the    *)
(* merges end, the reading shown is the newest one archived and the run's  *)
(* file budget is exactly what its merges published, within its quota      *)
(* (merge_message_records, AssetRunBudget); readings follow versions, and  *)
(* before a drift every archived file is the one its address serves.       *)
THEOREM RecordKept == RecordSpec => []RecordInv
<1>1. RInv => RecordInv
  BY InvariantShowsNewest DEF RInv, RecordInv, Published
<1> QED
  BY <1>1, RecordInvariant, PTL

LEMMA StepForgetsNothing ==
    ASSUME RInv, [RecordNext]_recordVars, outcome' # "rebuilt"
    PROVE  {Identity(o) : o \in record} \subseteq {Identity(o)' : o \in record'}
<1>1. IdsOf(record) \subseteq IdsOf(record')
  <2>1. CASE record' = record
    BY <2>1
  <2>2. CASE record' # record
    <3>1. MergePublishes
      BY <2>2, RefusedEnds, MergeDriftsMoves DEF RecordNext, recordVars, Tick, NewRun, Read, Merge, Refused, Rebuild, Edit,
                               Rename, React, Drift, Environment
    <3>2. Pending /\ ~MergeRefused(record, pending)
      BY <3>1 DEF Pending, MergePublishes, Admitted
    <3>3. PICK reach \in SUBSET Assets : record' = Applied(reach).obs
      BY <3>1 DEF MergePublishes
    <3>4. IdsOf(record') = IdsOf(record \cup {pending})
      BY <3>2, <3>3, AppliedBuilt DEF Built
    <3> QED
      BY <3>4 DEF IdsOf
  <2> QED
    BY <2>1, <2>2
<1> QED
  BY <1>1 DEF IdsOf, Identity

(* A merge never loses a reading that an earlier merge archived            *)
(* (merge_message_records keeps every revision and every observation).     *)
THEOREM ReadingsKept == RecordSpec => NothingForgotten
<1>1. RInv /\ [RecordNext]_recordVars =>
        [outcome' # "rebuilt" => {Identity(o) : o \in record} \subseteq {Identity(o)' : o \in record'}]_recordVars
  BY StepForgetsNothing
<1> QED
  BY <1>1, RecordInvariant, PTL DEF RecordSpec, NothingForgotten

-----------------------------------------------------------------------------
(* What was archived before a merge keeps its files.                       *)

\* Receipts of a record that a validator accepted over these files.
Archived(rows, files) ==
    \A a \in Assets : /\ rows[a].status = "complete" /\ rows[a].declared \in Nat
                      /\ rows[a].blob = files[a] /\ files[a] # Absent
Names(obs, files) == \E x \in obs : \A a \in Assets : x.assets[a].blob = files[a]

\* A file that is the one of its receipt is not fetched again.
LEMMA ArchivedRows ==
    ASSUME CdnTyped, NEW s, s.files \in Files, NEW o \in Observation, Archived(o.assets, s.files), NEW reach
    PROVE  RowsOf(s, o, reach) = o.assets /\ Stored(s, o.assets) = s.files
<1>1. o.assets \in [Assets -> Receipt]
  BY DEF Observation
<1>2. ASSUME NEW a \in Assets PROVE Downloaded(o.assets[a], a, s.files[a], reach) = o.assets[a]
  <2>1. o.assets[a] \in Receipt /\ o.assets[a].status = "complete" /\ Held(o.assets[a], s.files[a])
    BY <1>1 DEF Archived, Held
  <2>2. [o.assets[a] EXCEPT !.status = "complete"] = o.assets[a]
    BY <2>1 DEF Receipt
  <2> QED
    BY <2>1, <2>2 DEF Downloaded
<1>3. Got(s, o, reach) = o.assets
  BY <1>1, <1>2 DEF Got
<1>4. ~Drifted(o.assets, reach)
  BY DEF Drifted, Variants, Archived
<1>5. ~HalfFailed(o.assets)
  <2>1. ASSUME Variants \subseteq Assets PROVE "error" \notin {o.assets[v].status : v \in Variants}
    BY <2>1 DEF Archived
  <2> QED
    BY <2>1 DEF HalfFailed
<1>6. Stored(s, o.assets) = s.files
  <2>1. \A a \in Assets : (IF o.assets[a].status = "complete" THEN o.assets[a].blob ELSE s.files[a]) = s.files[a]
    BY DEF Archived
  <2> QED
    BY <2>1 DEF Stored, Files
<1> QED
  BY <1>3, <1>4, <1>5, <1>6 DEF RowsOf, Again, Whole

\* The replay starts with archived files, and no later reading of it can
\* take the receipts of the first one away.
LEMMA NamedUntil ==
    ASSUME CdnTyped, NEW obs \in SUBSET Observation, ~Conflicting(obs), NEW files \in Files, NEW reach,
           \A x \in obs : Archived(x.assets, files) \/ \E y \in obs : y.at < x.at,
           NEW t \in 0..MaxTime
    PROVE  LET s == AppliedUpTo(obs, files, reach)[t]
           IN  IF Until(obs, t) = {} THEN s.files = files ELSE Names(s.obs, files)
<1> DEFINE after == AppliedUpTo(obs, files, reach)
           good(n) == IF Until(obs, n) = {} THEN after[n].files = files ELSE Names(after[n].obs, files)
           T == {m \in 0..MaxTime : ~good(m)}
<1> HIDE DEF after
<1> SUFFICES ASSUME T # {} PROVE FALSE
  BY DEF after
<1>1. PICK m \in T : \A y \in T : m <= y
  <2>1. T \in SUBSET Nat
    OBVIOUS
  <2> HIDE DEF T
  <2> QED
    BY <2>1, LeastOf
<1>2. after[0] = Start(files) /\ \A n \in 1..MaxTime : after[n] = Step(obs, reach, after[n - 1], n)
  BY ReplaySteps DEF after
<1>3. \A o \in obs : o.at \in 1..MaxTime
  BY DEF Observation
<1>4. good(0)
  <2>1. Until(obs, 0) = {}
    BY <1>3 DEF Until
  <2> QED
    BY <2>1, <1>2 DEF Start
<1>5. m \in 1..MaxTime /\ m - 1 \in 0..MaxTime /\ m - 1 \notin T
  <2>1. m \in 0..MaxTime /\ m # 0
    BY <1>1, <1>4
  <2>2. m \in 1..MaxTime /\ m - 1 \in 0..MaxTime /\ ~(m <= m - 1)
    BY <2>1
  <2> HIDE DEF T
  <2> QED
    BY <2>2, <1>1
<1>6. good(m - 1)
  BY <1>5
<1> DEFINE read == {o \in obs : o.at = m}
<1>7. Until(obs, m) = Until(obs, m - 1) \cup read
  BY <1>3, <1>5 DEF Until
<1>8. CASE read = {}
  <2>1. after[m] = after[m - 1]
    BY <1>2, <1>5, <1>8 DEF Step
  <2>2. Until(obs, m) = Until(obs, m - 1)
    BY <1>7, <1>8
  <2> QED
    BY <2>1, <2>2, <1>1, <1>6
<1>9. CASE read # {}
  <2> DEFINE o == CHOOSE x \in read : TRUE
             rows == RowsOf(after[m - 1], o, reach)
             kept == [o EXCEPT !.assets = rows]
  <2>1. o \in read
    BY <1>9
  <2>2. after[m] = ApplyObservation(after[m - 1], o, reach)
    BY <1>2, <1>5, <1>9 DEF Step
  <2>3. o \in obs /\ o \in Observation /\ o.at = m
    BY <2>1
  <2> HIDE DEF o
  <2>4. after[m].obs = after[m - 1].obs \cup {kept}
    BY <2>2, AppliedParts
  <2>5. Until(obs, m) # {}
    BY <2>1, <1>7
  <2>6. CASE Until(obs, m - 1) # {}
    <3>1. Names(after[m - 1].obs, files)
      BY <2>6, <1>6
    <3>2. Names(after[m].obs, files)
      BY <3>1, <2>4 DEF Names
    <3> QED
      BY <3>2, <2>5, <1>1
  <2>7. CASE Until(obs, m - 1) = {}
    <3>1. after[m - 1].files = files
      BY <2>7, <1>6
    <3>2. Archived(o.assets, files)
      <4>1. ASSUME NEW y \in obs, y.at < o.at PROVE FALSE
        <5>1. y.at <= m - 1
          BY <4>1, <2>3, <1>3, <1>5
        <5> QED
          BY <5>1, <2>7 DEF Until
      <4> QED
        BY <4>1, <2>3
    <3>3. rows = o.assets
      BY <2>3, <3>1, <3>2, ArchivedRows
    <3>4. o.assets \in [Assets -> Receipt]
      BY <2>3 DEF Observation
    <3>5. kept.assets = o.assets
      BY <2>3, <3>3, <3>4, ReceiptsReplaced
    <3> HIDE DEF kept
    <3>6. Names(after[m].obs, files)
      BY <2>4, <3>2, <3>5 DEF Names, Archived
    <3> QED
      BY <3>6, <2>5, <1>1
  <2> QED
    BY <2>6, <2>7
<1> QED
  BY <1>8, <1>9

\* The oldest reading of a merge is one the record has, with its receipts.
LEMMA OldestArchived ==
    ASSUME Pending, record # {}, ~MergeRefused(record, pending), NEW x \in Sized(Merged)
    PROVE  Archived(x.assets, disk) \/ \E y \in Sized(Merged) : y.at < x.at
<1>1. CdnTyped /\ pending \in Observation /\ record \in SUBSET Observation /\ Merged \in SUBSET Observation
  BY PendingTyped, MergedKeeps
<1> DEFINE rows(z) == [a \in Assets |-> Announced(z.assets[a], a)]
<1>2. PICK z \in Merged : x = [z EXCEPT !.assets = rows(z)]
  BY DEF Sized
<1>3. rows(z) \in [Assets -> Receipt] /\ z \in Observation
  BY <1>1, SizedTyped
<1>4. x.assets = rows(z) /\ Identity(x) = Identity(z)
  BY <1>2, <1>3, ReceiptsReplaced DEF Kept
<1>5. CASE z = pending /\ \A o \in record : Identity(o) # Identity(pending)
  <2>1. PICK o \in record : TRUE
    OBVIOUS
  <2>2. o.at <= pending.at /\ o.at \in Nat /\ pending.at \in Nat
    BY <1>1 DEF Pending, RInv, PendingLast, Observation
  <2>3. o.at # pending.at
    BY <1>5, <2>1 DEF MergeRefused, Conflicting
  <2>4. o.at < pending.at
    BY <2>2, <2>3
  <2>5. IdsOf(Sized(Merged)) = IdsOf(record \cup {pending})
    BY <1>1, MergedKeeps, SizedKeeps
  <2>6. PICK y \in Sized(Merged) : Identity(o) = Identity(y) /\ Kept(o, y)
    <3>1. IdsOf(record) \subseteq IdsOf(Sized(Merged))
      BY <2>5 DEF IdsOf
    <3> QED
      BY <3>1, <2>1, WitnessOf
  <2>7. y.at = o.at /\ x.at = pending.at
    BY <2>6, <1>4, <1>5, SameIdentity DEF Kept
  <2> QED
    BY <2>4, <2>6, <2>7
<1>6. ASSUME NEW o \in record, \A a \in Assets : z.assets[a] = o.assets[a]
      PROVE  Archived(x.assets, disk)
  <2>1. ASSUME NEW a \in Assets
        PROVE  /\ x.assets[a].status = "complete" /\ x.assets[a].declared \in Nat
               /\ x.assets[a].blob = disk[a] /\ disk[a] # Absent
    <3>1. /\ o.assets[a].status = "complete" /\ o.assets[a].declared \in Nat
          /\ o.assets[a].blob = disk[a]
      BY RecordRows DEF Pending
    <3>2. disk[a] # Absent
      BY DEF Pending, RInv, Published, ReceiptsTrue, ReceiptHolds
    <3>3. Announced(z.assets[a], a) = z.assets[a]
      BY <1>6, <3>1 DEF Announced
    <3> QED
      BY <3>1, <3>2, <3>3, <1>4, <1>6
  <2> QED
    BY <2>1 DEF Archived
<1> QED
  BY <1>5, <1>6, MergedRows

LEMMA MergeKeepsFiles ==
    ASSUME RInv, MergePublishes, record # {}
    PROVE  disk' = disk
<1>1. Pending /\ ~MergeRefused(record, pending)
  BY DEF Pending, MergePublishes, Admitted
<1>2. PICK reach \in SUBSET Assets :
        /\ ValidRecord(Applied(reach).obs, Applied(reach).files)
        /\ disk' = Applied(reach).files
  BY DEF MergePublishes
<1> DEFINE done == Applied(reach)
           obs == Sized(Merged)
<1>3. CdnTyped /\ disk \in Files /\ Merged \in SUBSET Observation
  BY <1>1, PendingTyped, MergedKeeps
<1>4. obs \in SUBSET Observation /\ IdsOf(obs) = IdsOf(record \cup {pending})
  BY <1>1, <1>3, MergedKeeps, SizedKeeps
<1>5. ~Conflicting(obs)
  <2>1. ~Conflicting(record \cup {pending})
    BY <1>1 DEF MergeRefused
  <2> QED
    BY <1>4, <2>1, ConflictsByIdentity
<1>6. \A x \in obs : Archived(x.assets, disk) \/ \E y \in obs : y.at < x.at
  BY <1>1, OldestArchived
<1>7. obs # {}
  BY <1>4 DEF IdsOf
<1>8. done.files \in Files
  BY <1>1, AppliedBuilt DEF Built
<1>9. done = AppliedUpTo(obs, disk, reach)[MaxTime]
  BY DEF Applied, ApplyAssets
<1> HIDE DEF obs
<1>10. Until(obs, MaxTime) = obs /\ MaxTime \in 0..MaxTime
  BY <1>4 DEF Until, Observation
<1>11. Names(done.obs, disk)
  BY <1>3, <1>4, <1>5, <1>6, <1>7, <1>9, <1>10, NamedUntil
<1> HIDE DEF done
<1>12. PICK x \in done.obs : \A a \in Assets : x.assets[a].blob = disk[a]
  BY <1>11 DEF Names
<1>13. \A a \in Assets : x.assets[a].blob = done.files[a]
  BY <1>2 DEF ValidRecord, ReceiptHolds, done
<1>14. \A a \in Assets : done.files[a] = disk[a]
  BY <1>12, <1>13
<1>15. ASSUME NEW f \in Files, NEW g \in Files, \A a \in Assets : f[a] = g[a]
       PROVE  f = g
  <2>1. f \in [Assets -> Blobs \cup {Absent}] /\ g \in [Assets -> Blobs \cup {Absent}]
    BY DEF Files
  <2> QED
    BY ONLY <2>1, <1>15
<1>16. done.files = disk
  BY <1>3, <1>8, <1>14, <1>15
<1> QED
  BY <1>2, <1>16 DEF done

LEMMA StepKeepsFiles ==
    ASSUME RInv, [RecordNext]_recordVars, record # {}, outcome' # "rebuilt"
    PROVE  disk' = disk
<1>1. CASE MergePublishes
  BY <1>1, MergeKeepsFiles
<1>2. CASE ~MergePublishes
  BY <1>2, RefusedEnds, MergeDriftsMoves DEF RecordNext, recordVars, Tick, NewRun, Read, Merge, Refused, Rebuild, Edit,
                           Rename, React, Drift, Environment
<1> QED
  BY <1>1, <1>2

(* A merge beside archived readings replaces none of their files: a        *)
(* receipt of the oldest one outlives the whole replay, so that other      *)
(* bytes under its path fail the validator (apply_asset_results,           *)
(* validate_record).                                                       *)
THEOREM ArchivedBytesKept == RecordSpec => BytesKept
<1>1. RInv /\ [RecordNext]_recordVars => [record # {} /\ outcome' # "rebuilt" => disk' = disk]_recordVars
  BY StepKeepsFiles
<1> QED
  BY <1>1, RecordInvariant, PTL DEF RecordSpec, BytesKept

-----------------------------------------------------------------------------
(* Why a merge is refused.                                                 *)
LEMMA ConflictCause ==
    ASSUME Pending, MergeConflicts
    PROVE  renamed \/ \E o \in record : o.at = pending.at
<1> SUFFICES ASSUME ~renamed PROVE \E o \in record : o.at = pending.at
  BY DEF Pending, RInv, RecordTypeOK
<1>1. CASE \E o \in record : Identity(o) = Identity(pending)
  BY <1>1, SameIdentity DEF Kept
<1>2. CASE Conflicting(record \cup {pending})
  <2> DEFINE clash(o, p) == \/ o.version = p.version /\ Revision(o) # Revision(p)
                            \/ o.at = p.at /\ Identity(o) # Identity(p)
  <2>1. PICK o \in record \cup {pending}, p \in record \cup {pending} : clash(o, p)
    BY <1>2 DEF Conflicting
  <2>2. ~(o \in record /\ p \in record)
    BY <2>1 DEF Pending, RInv, Published, Coherent, Conflicting
  <2>3. \E q \in record : clash(q, pending) \/ clash(pending, q)
    BY <2>1, <2>2
  <2>4. PICK q \in record : clash(q, pending) \/ clash(pending, q)
    BY <2>3
  <2>5. q.version = pending.version => q.content = pending.content
    BY DEF Pending, RInv, NamedByVersion
  <2>6. q.version = pending.version => Revision(q) = Revision(pending)
    BY <2>5 DEF Revision
  <2> QED
    BY <2>4, <2>6
<1> QED
  BY <1>1, <1>2 DEF MergeConflicts, MergeRefused

LEMMA UnverifiedCause ==
    ASSUME Pending, ~MergeRefused(record, pending), Steady, Classified(pending)
    PROVE  ~Applied(Assets).raised /\ ValidRecord(Applied(Assets).obs, Applied(Assets).files)
<1> DEFINE done == Applied(Assets)
           both == record \cup {pending}
<1>1. Built(done, IdsOf(both)) /\ Calm(done, Assets)
  BY AppliedBuilt, AppliedCalm
<1>2. ~Conflicting(both)
  BY DEF MergeRefused
<1>3. \A p \in both : Classified(p)
  BY DEF Pending, RInv, Published, Coherent
<1>4. \A a \in Assets : cdn[a] \in Blobs /\ cdn[a] # Absent /\ cdn[a].size = SentSize
  BY PendingTyped, BlobsSized DEF Pending, RInv, CdnFirst, Steady, SizesAsSent
<1> HIDE DEF done, both
<1>5. ~Conflicting(done.obs)
  BY <1>1, <1>2, ConflictsByIdentity DEF Built
<1>6. \A o \in done.obs : Classified(o)
  <2>1. ASSUME NEW o \in done.obs PROVE Classified(o)
    <3>1. IdsOf(done.obs) \subseteq IdsOf(both)
      BY <1>1 DEF Built
    <3>2. PICK p \in both : Identity(o) = Identity(p) /\ Kept(o, p)
      BY <3>1, WitnessOf
    <3> QED
      BY <3>2, <1>3 DEF Kept, Classified
  <2> QED
    BY <2>1
<1>7. ASSUME NEW o \in done.obs, NEW a \in Assets PROVE ReceiptHolds(o.assets[a], done.files[a])
  <2>1. o.assets[a].status = "complete" /\ o.assets[a].blob = cdn[a] /\ o.assets[a].declared = SentSize
    BY <1>1 DEF Calm, Ready, Done
  <2>2. done.files = cdn
    BY <1>1 DEF Calm
  <2> QED
    BY <2>1, <2>2, <1>4 DEF ReceiptHolds
<1>8. ~done.raised
  BY <1>1 DEF Calm
<1> QED
  BY <1>5, <1>6, <1>7, <1>8 DEF ValidRecord, done

LEMMA MinOfTwo ==
    ASSUME NEW x \in Int, NEW y \in Int
    PROVE  Min({x, y}) \in Int /\ Min({x, y}) <= x /\ Min({x, y}) <= y
<1>1. \E m \in {x, y} : \A z \in {x, y} : m <= z
  <2>1. x <= y \/ y <= x
    OBVIOUS
  <2> QED
    BY <2>1
<1> QED
  BY <1>1 DEF Min

LEMMA QuotaCause ==
    ASSUME Pending,
           \/ OverQuota(Merged)
           \/ Cardinality(Unsized(Merged)) > budget.probes
    PROVE  \/ Rows(record \cup {pending}) > Min({PerMessageFiles, RunFiles - committed})
           \/ budget.probes < Cardinality(record) + 1
<1>1. /\ Cardinality(Unsized(Merged)) \in Nat /\ Rows(Merged) \in Nat
      /\ Cardinality(record) \in Nat /\ Rows(record \cup {pending}) \in Nat
      /\ Rows(Merged) <= Rows(record \cup {pending})
      /\ Cardinality(Unsized(Merged)) <= Cardinality(record) + 1
  BY Counts
<1>2. /\ budget.files = committed /\ committed \in Nat /\ budget.probes \in Nat
      /\ RunFiles \in Nat /\ PerMessageFiles \in Nat
  BY DEF Pending, RInv, RecordTypeOK, BudgetExact
<1>3. CASE OverQuota(Merged)
  <2> DEFINE least == Min({PerMessageFiles, RunFiles - committed})
  <2>1. RunFiles - committed \in Int /\ PerMessageFiles \in Int
    BY <1>2
  <2>2. least \in Int /\ least <= PerMessageFiles /\ least <= RunFiles - committed
    BY <2>1, MinOfTwo
  <2> HIDE DEF least
  <2>3. Rows(Merged) > PerMessageFiles \/ committed + Rows(Merged) > RunFiles
    BY <1>2, <1>3 DEF OverQuota
  <2>4. Rows(record \cup {pending}) > least
    BY <1>1, <1>2, <2>2, <2>3
  <2> QED
    BY <2>4 DEF least
<1>4. CASE Cardinality(Unsized(Merged)) > budget.probes
  BY <1>1, <1>2, <1>4
<1> QED
  BY <1>3, <1>4

LEMMA StepRefusedForCause ==
    ASSUME RInv, [RecordNext]_recordVars, pending # Absent, pending' = Absent
    PROVE  Causes(outcome')
<1>1. Pending
  BY DEF Pending
<1>2. MergeConflicts \/ MergeOverQuota \/ MergeUnprobed \/ MergeUnverified \/ MergeDrifts \/ MergePublishes
  BY DEF RecordNext, recordVars, Tick, NewRun, Read, Merge, Rebuild, Edit, Rename, React, Drift, Environment
<1>3. CASE MergeConflicts
  <2>1. outcome' = "conflict"
    BY <1>3 DEF MergeConflicts, Ends
  <2>2. renamed \/ \E o \in record : o.at = pending.at
    BY <1>1, <1>3, ConflictCause
  <2> QED
    BY <2>1, <2>2 DEF Causes
<1>4. ASSUME outcome' = "quota",
             OverQuota(Merged) \/ Cardinality(Unsized(Merged)) > budget.probes
      PROVE  Causes(outcome')
  <2>1. \/ Rows(record \cup {pending}) > Min({PerMessageFiles, RunFiles - committed})
        \/ budget.probes < Cardinality(record) + 1
    BY <1>1, <1>4, QuotaCause
  <2> QED
    BY <2>1, <1>4 DEF Causes
<1>5. ASSUME outcome' \in {"unreachable", "published"} PROVE Causes(outcome')
  BY <1>5 DEF Causes
<1>6. CASE MergeOverQuota
  BY <1>4, <1>6 DEF MergeOverQuota, Ends
<1>7. CASE MergeUnprobed
  BY <1>4, <1>5, <1>7 DEF MergeUnprobed, Ends
<1>8. CASE MergeUnverified
  <2>1. ~MergeRefused(record, pending)
    BY <1>8 DEF MergeUnverified, Admitted
  <2>2. PICK reach \in SUBSET Assets :
          /\ Applied(reach).raised \/ ~ValidRecord(Applied(reach).obs, Applied(reach).files)
          /\ outcome' = (IF reach = Assets THEN "unverified" ELSE "unreachable") /\ drifts' = drifts
    BY <1>8 DEF MergeUnverified, Ends
  <2>3. CASE reach # Assets
    BY <2>2, <2>3, <1>5
  <2>4. CASE reach = Assets
    <3>1. ~Steady \/ ~Classified(pending)
      BY <1>1, <2>1, <2>2, <2>4, UnverifiedCause
    <3>2. drifts \in Nat
      BY DEF RInv, RecordTypeOK
    <3>3. \/ drifts' > 0 \/ pending.content \in Unclassified
          \/ \E a, b \in Variants \cap Assets : cdn[a] # cdn[b]
      BY <2>2, <3>1, <3>2 DEF Steady, Classified
    <3> QED
      BY <3>3, <2>2, <2>4 DEF Causes
  <2> QED
    BY <2>3, <2>4
<1>9. CASE MergePublishes
  BY <1>5, <1>9 DEF MergePublishes
<1>10. CASE MergeDrifts
  <2>1. drifts' \in 0..MaxDrifts /\ drifts' # 0 /\ outcome' = "unverified"
    BY <1>10, MergeDriftsMoves
  <2>2. drifts' > 0
    BY <2>1
  <2> QED
    BY <2>1, <2>2 DEF Causes
<1> QED
  BY <1>2, <1>3, <1>6, <1>7, <1>8, <1>9, <1>10

(* A merge is refused only for what happened outside the archive: a        *)
(* rename, two readings of one second, a file that changed, an address or  *)
(* a field that cannot be taken, a quota.  Edits and reactions alone are   *)
(* always archived (merge_messages).                                       *)
THEOREM RefusalsHaveCauses == RecordSpec => RefusedForCause
<1>1. RInv /\ [RecordNext]_recordVars =>
        [pending # Absent /\ pending' = Absent => Causes(outcome')]_recordVars
  BY StepRefusedForCause
<1> QED
  BY <1>1, RecordInvariant, PTL DEF RecordSpec, RefusedForCause
=============================================================================
