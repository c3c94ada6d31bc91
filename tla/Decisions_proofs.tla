--------------------------- MODULE Decisions_proofs ---------------------------
(***************************************************************************)
(* Proofs about what is decided in one go, for inputs of any size: lists   *)
(* picked from lists, who is let in and what may be said, the helpers.     *)
(***************************************************************************)
EXTENDS MCPages, SequenceTheorems, FiniteSetTheorems, WellFoundedInduction, TLAPS

-----------------------------------------------------------------------------
(* Numbers and lists                                                       *)

\* A set of numbers that is not empty has a least one, which Min chooses.
LEMMA SmallestOf ==
    ASSUME NEW S \in SUBSET Nat, S # {}
    PROVE  Min(S) \in S /\ \A x \in S : Min(S) <= x
<1> DEFINE Less == OpToRel(LAMBDA m, n : m < n, Nat)
<1>1. IsWellFoundedOn(Less, Nat)
  BY NatLessThanWellFounded
<1>2. \A m, n \in Nat : m < n => <<m, n>> \in Less
  BY DEF OpToRel
<1> HIDE DEF Less
<1>3. PICK x \in S : \A y \in S : ~(<<y, x>> \in Less)
  BY <1>1, WFMin
<1>4. ASSUME NEW y \in S PROVE x <= y
  <2>1. x \in Nat /\ y \in Nat /\ ~(y < x)
    BY <1>2, <1>3
  <2> QED BY <2>1
<1> QED BY <1>4 DEF Min

\* One that has a bound has a greatest, which Max chooses.
LEMMA GreatestOf ==
    ASSUME NEW N \in Nat, NEW S \in SUBSET (0..N), S # {}
    PROVE  Max(S) \in S /\ \A x \in S : x <= Max(S)
<1> DEFINE Down == {N - x : x \in S}
<1>1. Down \in SUBSET Nat /\ Down # {}
  <2>1. \A x \in S : x \in 0..N
    OBVIOUS
  <2>2. \A x \in 0..N : N - x \in Nat
    OBVIOUS
  <2>3. Down \in SUBSET Nat
    BY <2>1, <2>2
  <2> QED BY <2>3
<1>2. PICK d \in Down : \A e \in Down : d <= e
  BY <1>1, SmallestOf
<1>3. PICK x \in S : d = N - x
  BY <1>2
<1>4. ASSUME NEW y \in S PROVE y <= x
  <2>1. d <= N - y
    BY <1>2
  <2>2. x \in 0..N /\ y \in 0..N
    OBVIOUS
  <2> QED BY <1>3, <2>1, <2>2
<1> QED BY <1>4 DEF Max

LEMMA ListHas ==
    ASSUME NEW T, NEW list \in Seq(T)
    PROVE  \E n \in Nat : n = Len(list) /\ DOMAIN list = 1..n /\ \A i \in 1..n : list[i] \in T
<1>1. Len(list) \in Nat /\ DOMAIN list = 1..Len(list)
  OBVIOUS
<1>2. \A i \in 1..Len(list) : list[i] \in T
  OBVIOUS
<1> QED BY <1>1, <1>2

Below(S, e) == {f \in S : f < e}

LEMMA BelowGrows ==
    ASSUME NEW S \in SUBSET Nat, IsFiniteSet(S)
    PROVE  /\ Cardinality(S) \in Nat
           /\ \A e \in S : IsFiniteSet(Below(S, e)) /\ Cardinality(Below(S, e)) \in 0..(Cardinality(S) - 1)
           /\ \A e, f \in S : e < f => Cardinality(Below(S, e)) < Cardinality(Below(S, f))
<1> DEFINE n == Cardinality(S)
<1>0. n \in Nat
  BY FS_CardinalityType
<1>1. ASSUME NEW e \in S
      PROVE  IsFiniteSet(Below(S, e)) /\ Cardinality(Below(S, e)) \in 0..(n - 1)
  <2>1. Below(S, e) \in SUBSET (S \ {e})
    BY DEF Below
  <2>2. IsFiniteSet(S \ {e}) /\ Cardinality(S \ {e}) = n - 1
    BY FS_RemoveElement
  <2>3. IsFiniteSet(Below(S, e)) /\ Cardinality(Below(S, e)) <= n - 1
    BY <2>1, <2>2, FS_Subset
  <2>4. Cardinality(Below(S, e)) \in Nat
    BY <2>3, FS_CardinalityType
  <2> QED BY <1>0, <2>3, <2>4
<1>2. ASSUME NEW e \in S, NEW f \in S, e < f
      PROVE  Cardinality(Below(S, e)) < Cardinality(Below(S, f))
  <2>1. Below(S, e) \union {e} \in SUBSET Below(S, f) /\ e \notin Below(S, e)
    <3>1. e \in Nat /\ f \in Nat /\ ~(e < e)
      OBVIOUS
    <3>2. ASSUME NEW g \in Below(S, e) PROVE g \in Below(S, f)
      <4>1. g \in S /\ g \in Nat /\ g < e
        BY DEF Below
      <4> QED BY <1>2, <3>1, <4>1 DEF Below
    <3> QED BY <1>2, <3>1, <3>2 DEF Below
  <2>2. IsFiniteSet(Below(S, e)) /\ IsFiniteSet(Below(S, f))
        /\ Cardinality(Below(S, e)) \in Nat /\ Cardinality(Below(S, f)) \in Nat
    BY <1>0, <1>1
  <2>3. Cardinality(Below(S, e) \union {e}) = Cardinality(Below(S, e)) + 1
    BY <2>1, <2>2, FS_AddElement
  <2>4. Cardinality(Below(S, e) \union {e}) <= Cardinality(Below(S, f))
    BY <2>1, <2>2, FS_Subset
  <2> QED BY <2>2, <2>3, <2>4
<1> QED BY <1>0, <1>1, <1>2

\* The n-th number of a set has n - 1 below it, and every number is one of them.
LEMMA NthIsNth ==
    ASSUME NEW S \in SUBSET Nat, IsFiniteSet(S)
    PROVE  /\ \A k \in 1..Cardinality(S) :
                Nth(S, k) \in S /\ Cardinality(Below(S, Nth(S, k))) = k - 1
           /\ \A e \in S : \E k \in 1..Cardinality(S) :
                k = Cardinality(Below(S, e)) + 1 /\ Nth(S, k) = e
           /\ \A j, k \in 1..Cardinality(S) : j < k <=> Nth(S, j) < Nth(S, k)
<1> DEFINE n == Cardinality(S)
           place == [e \in S |-> Cardinality(Below(S, e)) + 1]
<1>0. n \in Nat
  BY BelowGrows
<1>1. \A e \in S : Cardinality(Below(S, e)) \in 0..(n - 1)
  BY BelowGrows
<1>2. ASSUME NEW e \in S, NEW f \in S, Cardinality(Below(S, e)) = Cardinality(Below(S, f)) PROVE e = f
  <2>1. ~(e < f) /\ ~(f < e)
    <3>1. Cardinality(Below(S, e)) \in Nat /\ Cardinality(Below(S, f)) \in Nat
      BY <1>0, <1>1
    <3>2. /\ e < f => Cardinality(Below(S, e)) < Cardinality(Below(S, f))
          /\ f < e => Cardinality(Below(S, f)) < Cardinality(Below(S, e))
      BY BelowGrows
    <3> QED BY <1>2, <3>1, <3>2
  <2>2. e \in Nat /\ f \in Nat
    OBVIOUS
  <2> QED BY <2>1, <2>2
<1>3. place \in Injection(S, 1..n)
  <2>1. place \in [S -> 1..n]
    BY <1>0, <1>1
  <2>2. ASSUME NEW e \in S, NEW f \in S, place[e] = place[f] PROVE e = f
    <3>1. Cardinality(Below(S, e)) = Cardinality(Below(S, f))
      BY <1>0, <1>1, <2>2
    <3> QED BY <1>2, <3>1
  <2> QED BY <2>1, <2>2 DEF Injection, IsInjective
<1>4. place \in Surjection(S, 1..n)
  <2>1. IsFiniteSet(1..n) /\ Cardinality(1..n) = n
    BY <1>0, FS_Interval
  <2> HIDE DEF place, n
  <2> QED BY <1>3, <2>1, FS_Injection DEF n
<1>5. \A k \in 1..n : \E e \in S : Cardinality(Below(S, e)) = k - 1
  <2>1. ASSUME NEW k \in 1..n PROVE \E e \in S : Cardinality(Below(S, e)) = k - 1
    <3>1. PICK e \in S : place[e] = k
      BY <1>4 DEF Surjection
    <3>2. Cardinality(Below(S, e)) \in Int
      BY <1>0, <1>1
    <3> QED BY <1>0, <3>1, <3>2
  <2> QED BY <2>1
<1>6. ASSUME NEW k \in 1..n PROVE Nth(S, k) \in S /\ Cardinality(Below(S, Nth(S, k))) = k - 1
  <2>1. Nth(S, k) = CHOOSE e \in S : Cardinality(Below(S, e)) = k - 1
    BY DEF Nth, Below
  <2> QED BY <1>5, <2>1
<1>7. ASSUME NEW e \in S
      PROVE  \E k \in 1..n : k = Cardinality(Below(S, e)) + 1 /\ Nth(S, k) = e
  <2>1. PICK k : k = Cardinality(Below(S, e)) + 1
    OBVIOUS
  <2>2. k \in 1..n /\ k - 1 = Cardinality(Below(S, e))
    BY <1>0, <1>1, <2>1
  <2> QED BY <1>2, <1>6, <2>1, <2>2
<1>8. ASSUME NEW j \in 1..n, NEW k \in 1..n PROVE j < k <=> Nth(S, j) < Nth(S, k)
  <2>1. /\ Nth(S, j) \in S /\ Cardinality(Below(S, Nth(S, j))) = j - 1
        /\ Nth(S, k) \in S /\ Cardinality(Below(S, Nth(S, k))) = k - 1
    BY <1>6
  <2>2. /\ Nth(S, j) < Nth(S, k) => j - 1 < k - 1
        /\ Nth(S, k) < Nth(S, j) => k - 1 < j - 1
    BY <2>1, BelowGrows
  <2>3. Nth(S, j) \in Nat /\ Nth(S, k) \in Nat
    BY <2>1
  <2> HIDE DEF n
  <2> QED BY <1>0, <2>1, <2>2, <2>3
<1> QED BY <1>6, <1>7, <1>8

\* What is chosen of a list is what stands at those places.
LEMMA ChosenListsAll ==
    ASSUME NEW T, NEW list \in Seq(T), NEW S \in SUBSET DOMAIN list
    PROVE  /\ S \in SUBSET Nat /\ IsFiniteSet(S) /\ Cardinality(S) \in Nat
           /\ Chosen(list, S) \in Seq(T) /\ DOMAIN Chosen(list, S) = 1..Cardinality(S)
           /\ \A k \in 1..Cardinality(S) : Chosen(list, S)[k] = list[Nth(S, k)]
           /\ Range(Chosen(list, S)) = {list[i] : i \in S}
           /\ IsInjective(list) => IsInjective(Chosen(list, S))
<1>1. Len(list) \in Nat /\ DOMAIN list = 1..Len(list) /\ \A i \in DOMAIN list : list[i] \in T
  OBVIOUS
<1>2. S \in SUBSET Nat /\ IsFiniteSet(S)
  <2>1. IsFiniteSet(1..Len(list))
    BY <1>1, FS_Interval
  <2>2. S \in SUBSET (1..Len(list)) /\ S \in SUBSET Nat
    BY <1>1
  <2> QED BY <2>1, <2>2, FS_Subset
<1>3. PICK n \in Nat : n = Cardinality(S)
  BY <1>2, FS_CardinalityType
<1>4. PICK c : c = Chosen(list, S)
  OBVIOUS
<1>5. c = [k \in 1..n |-> list[Nth(S, k)]]
  BY <1>3, <1>4 DEF Chosen
<1>6. /\ \A k \in 1..n : Nth(S, k) \in S
      /\ \A e \in S : \E k \in 1..n : Nth(S, k) = e
      /\ \A j, k \in 1..n : j < k <=> Nth(S, j) < Nth(S, k)
  BY <1>2, <1>3, NthIsNth
<1>7. c \in Seq(T) /\ DOMAIN c = 1..n
  <2>1. c \in [1..n -> T]
    BY <1>1, <1>5, <1>6
  <2> QED BY <2>1, SeqDef
<1>8. Range(c) = {list[i] : i \in S}
  <2>1. ASSUME NEW t \in Range(c) PROVE t \in {list[i] : i \in S}
    <3>1. PICK k \in 1..n : t = list[Nth(S, k)]
      BY <1>5, <1>7 DEF Range
    <3> QED BY <1>6, <3>1
  <2>2. ASSUME NEW e \in S PROVE list[e] \in Range(c)
    <3>1. PICK k \in 1..n : Nth(S, k) = e
      BY <1>6
    <3>2. c[k] = list[e]
      BY <1>5, <3>1
    <3> QED BY <1>7, <3>2 DEF Range
  <2> QED BY <2>1, <2>2
<1>9. ASSUME IsInjective(list) PROVE IsInjective(c)
  <2>1. ASSUME NEW j \in 1..n, NEW k \in 1..n, c[j] = c[k] PROVE j = k
    <3>1. Nth(S, j) \in DOMAIN list /\ Nth(S, k) \in DOMAIN list /\ list[Nth(S, j)] = list[Nth(S, k)]
      BY <1>5, <1>6, <2>1
    <3>2. Nth(S, j) = Nth(S, k) /\ Nth(S, j) \in Nat
      BY <1>1, <1>9, <3>1 DEF IsInjective
    <3>3. ~(j < k) /\ ~(k < j)
      BY <1>6, <3>2
    <3> QED BY <3>3
  <2> QED BY <1>7, <2>1 DEF IsInjective
<1> QED BY <1>2, <1>3, <1>4, <1>5, <1>7, <1>8, <1>9

\* Choosing from what was chosen is choosing at once.
LEMMA ChosenTwice ==
    ASSUME NEW T, NEW list \in Seq(T), NEW S \in SUBSET DOMAIN list, NEW R \in SUBSET S
    PROVE  Chosen(Chosen(list, S), {k \in DOMAIN Chosen(list, S) : Nth(S, k) \in R}) = Chosen(list, R)
<1>1. PICK c \in Seq(T) : c = Chosen(list, S)
  BY ChosenListsAll
<1>2. PICK Q \in SUBSET DOMAIN c : Q = {k \in DOMAIN c : Nth(S, k) \in R}
  OBVIOUS
<1>3. /\ S \in SUBSET Nat /\ IsFiniteSet(S) /\ R \in SUBSET Nat /\ IsFiniteSet(R)
      /\ Q \in SUBSET Nat /\ IsFiniteSet(Q)
  BY ChosenListsAll
<1>4. PICK m \in Nat, n \in Nat, q \in Nat :
        m = Cardinality(R) /\ n = Cardinality(S) /\ q = Cardinality(Q)
  BY <1>3, FS_CardinalityType
<1>5. DOMAIN c = 1..n /\ \A k \in 1..n : c[k] = list[Nth(S, k)]
  BY <1>1, <1>4, ChosenListsAll
<1>6. /\ \A k \in 1..n : Nth(S, k) \in S
      /\ \A e \in S : \E k \in 1..n : Nth(S, k) = e
      /\ \A j, k \in 1..n : j < k <=> Nth(S, j) < Nth(S, k)
  BY <1>3, <1>4, NthIsNth
\* The places of S lead from any part of Q to the part of R they name.
<1>7. ASSUME NEW P \in SUBSET Q
      PROVE  Cardinality({Nth(S, k) : k \in P}) = Cardinality(P)
  <2>1. PICK f : f = [k \in P |-> Nth(S, k)]
    OBVIOUS
  <2>2. IsFiniteSet(P)
    BY <1>3, FS_Subset
  <2>3. \A j, k \in P : Nth(S, j) = Nth(S, k) => j = k
    <3>1. ASSUME NEW j \in P, NEW k \in P, Nth(S, j) = Nth(S, k) PROVE j = k
      <4>1. j \in 1..n /\ k \in 1..n
        BY <1>5
      <4>2. Nth(S, j) \in Nat
        BY <1>3, <1>6, <4>1
      <4>3. ~(j < k) /\ ~(k < j)
        BY <1>6, <3>1, <4>1, <4>2
      <4> QED BY <4>1, <4>3
    <3> QED BY <3>1
  <2>4. f \in Bijection(P, {Nth(S, k) : k \in P})
    BY <2>1, <2>3 DEF Bijection, Injection, Surjection, IsInjective
  <2> QED BY <2>2, <2>4, FS_Bijection DEF ExistsBijection
<1>8. R = {Nth(S, k) : k \in Q}
  BY <1>2, <1>5, <1>6
<1>9. m = q
  BY <1>4, <1>7, <1>8
<1>10. ASSUME NEW k \in 1..q PROVE Nth(Q, k) \in 1..n /\ Nth(S, Nth(Q, k)) = Nth(R, k)
  <2>1. PICK p \in Q : p = Nth(Q, k) /\ Cardinality(Below(Q, p)) = k - 1
    BY <1>3, <1>4, NthIsNth
  <2>2. p \in 1..n /\ Nth(S, p) \in R
    BY <1>2, <1>5
  <2>3. Below(R, Nth(S, p)) = {Nth(S, j) : j \in Below(Q, p)}
    <3>1. \A j \in Q : j \in 1..n /\ (j < p <=> Nth(S, j) < Nth(S, p))
      BY <1>5, <1>6, <2>2
    <3> QED BY <1>8, <3>1 DEF Below
  <2>4. Cardinality(Below(R, Nth(S, p))) = k - 1
    <3>1. Below(Q, p) \in SUBSET Q
      BY DEF Below
    <3> QED BY <1>7, <2>1, <2>3, <3>1
  <2>5. PICK h \in 1..m : h = Cardinality(Below(R, Nth(S, p))) + 1 /\ Nth(R, h) = Nth(S, p)
    BY <1>3, <1>4, <2>2, NthIsNth
  <2> QED BY <2>1, <2>2, <2>4, <2>5
<1>11. Chosen(c, Q) = [k \in 1..q |-> c[Nth(Q, k)]]
  BY <1>4 DEF Chosen
<1>12. Chosen(list, R) = [k \in 1..m |-> list[Nth(R, k)]]
  BY <1>4 DEF Chosen
<1>13. Chosen(c, Q) = Chosen(list, R)
  BY <1>5, <1>9, <1>10, <1>11, <1>12
<1> QED BY <1>1, <1>2, <1>13

-----------------------------------------------------------------------------
(* Who is let in                                                           *)

\* Roles may have any name that the answers of the libraries do not use; "Names" is
\* any set of names, of which the prover need not know that they are strings.
AnyToken(Names) == [made : Names, ids : BOOLEAN, role : Names \ {Refused, "authentication"}]
AnyOutcome == {"returns", "authentication", "authorization", "not_found", "validation",
               "unavailable", "conflict", "quota", "org_isolation", "port", "crash"}
AnyRequest(Names) ==
    [bearer : AnyToken(Names), query : AnyToken(Names), path : Paths, method : Names,
     room : BOOLEAN, budget : Names, outcome : AnyOutcome, trace : Names]

\* A token is refused or carries a role.
LEMMA TokenRead ==
    ASSUME NEW Names, NEW t \in AnyToken(Names)
    PROVE  DecodeToken(t) # Refused <=> t.made = "signed" /\ t.ids
BY DEF AnyToken, DecodeToken, Refused

\* A reply is secured and traced unless it is that of a crashed handler.
SaidWell(a, r) == /\ a.secured <=> ~(a.handled /\ r.outcome = "crash")
                  /\ a.trace # "" <=> a.secured
                  /\ a.trace # "" /\ r.trace # "" => a.trace = r.trace

\* Whatever a request carries, its answer passed every check of the chain, and
\* has its headers and its trace unless its handler crashed: then it has neither.
THEOREM EveryRequestGuarded ==
    ASSUME NEW Names
    PROVE  \A r \in AnyRequest(Names) : GatewayGuards(r, Respond(r))
<1> SUFFICES ASSUME NEW r \in AnyRequest(Names) PROVE GatewayGuards(r, Respond(r))
  OBVIOUS
<1>1. r.path \in Paths /\ r.outcome \in AnyOutcome /\ r.room \in BOOLEAN
  BY DEF AnyRequest
<1>2. PICK tok \in AnyToken(Names) : tok = TokenOf(r)
  BY DEF TokenOf, AnyRequest
<1>3. PICK role : role = DecodeToken(tok)
  OBVIOUS
<1>4. /\ r.path \in UnderAdmin /\ CheckAccess(r.path, role) => role = "admin"
  BY DEF CheckAccess, GatewayPermissions
<1>5. /\ Authenticate(tok, r.path) # Refused <=> r.path \in Exempt \/ role # Refused
      /\ ExtractContext(TRUE, TRUE, r.path, role) = IF r.path \in Exempt THEN "none" ELSE role
      /\ r.path \notin Exempt => ExtractContext(FALSE, FALSE, r.path, role) = "authentication"
  BY <1>3, TokenRead DEF Authenticate, ExtractContext, AnyToken, DecodeToken, Refused
<1>6. PICK a : a = Respond(r)
  OBVIOUS
<1>7. CASE r.method = "OPTIONS" \/ r.path \in Exempt \/ r.path \notin Routed
  <2>1. CASE r.method = "OPTIONS"
    <3>1. a = Reply(200, FALSE, FALSE, r)
      BY <1>6, <2>1 DEF Respond
    <3>2. /\ ~a.handled /\ ~a.slot
          /\ a.secured = ~(FALSE /\ r.outcome = "crash")
          /\ a.trace = IF FALSE /\ r.outcome = "crash" THEN ""
                       ELSE IF r.trace # "" THEN r.trace ELSE "new"
      BY <3>1, Zenon DEF Reply
    <3>4. SaidWell(a, r)
      BY <3>2 DEF SaidWell
    <3> QED BY <1>6, <2>1, <3>2, <3>4 DEF GatewayGuards, SaidWell
  <2>2. CASE r.method # "OPTIONS" /\ r.path \in Exempt /\ r.path \in Routed
    <3>1. a = Reply(StatusOf(r.outcome), TRUE, FALSE, r)
      BY <1>6, <2>2 DEF Respond, Handle
    <3>2. /\ a.handled /\ ~a.slot
          /\ a.secured = ~(TRUE /\ r.outcome = "crash")
          /\ a.trace = IF TRUE /\ r.outcome = "crash" THEN ""
                       ELSE IF r.trace # "" THEN r.trace ELSE "new"
      BY <3>1, Zenon DEF Reply
    <3>4. SaidWell(a, r)
      BY <3>2 DEF SaidWell
    <3>3. /\ (Authenticate(tok, r.path) # Refused) = TRUE
          /\ ExtractContext(TRUE, TRUE, r.path, role) # "authentication"
      BY <1>5, <2>2
    <3> QED BY <1>2, <1>3, <1>6, <2>2, <3>2, <3>3, <3>4 DEF GatewayGuards, SaidWell
  <2>3. CASE r.method # "OPTIONS" /\ r.path \notin Routed
    <3>1. a = Reply(404, FALSE, FALSE, r)
      BY <1>6, <2>3 DEF Respond, Handle
    <3>2. /\ a.status = 404 /\ ~a.handled /\ ~a.slot
          /\ a.secured = ~(FALSE /\ r.outcome = "crash")
          /\ a.trace = IF FALSE /\ r.outcome = "crash" THEN ""
                       ELSE IF r.trace # "" THEN r.trace ELSE "new"
      BY <3>1, Zenon DEF Reply
    <3>4. SaidWell(a, r)
      BY <3>2 DEF SaidWell
    <3> QED BY <1>6, <2>3, <3>2, <3>4 DEF GatewayGuards, SaidWell
  <2> QED BY <1>1, <1>7, <2>1, <2>2, <2>3
<1>8. CASE r.method # "OPTIONS" /\ r.path \notin Exempt /\ r.path \in Routed
  <2>1. CASE role = Refused
    BY <1>1, <1>2, <1>3, <1>5, <1>6, <1>8, <2>1 DEF GatewayGuards, Respond, Reply
  <2>2. CASE role # Refused
    <3>1. a = Chain(r, role)
      BY <1>2, <1>3, <1>6, <1>8, <2>2 DEF Respond
    <3>3. /\ a.handled => r.room /\ r.budget # "exhausted" /\ CheckAccess(r.path, role)
          /\ a.slot => r.room
          /\ a.status # 401 \/ a.handled
          /\ SaidWell(a, r)
      <4>1. CASE ~r.room
        <5>1. a = Reply(429, FALSE, FALSE, r)
          BY <3>1, <4>1 DEF Chain
        <5>3. a.status = 429
          BY <5>1, Zenon DEF Reply
        <5>2. /\ ~a.handled /\ ~a.slot
              /\ a.secured = ~(FALSE /\ r.outcome = "crash")
              /\ a.trace = IF FALSE /\ r.outcome = "crash" THEN ""
                           ELSE IF r.trace # "" THEN r.trace ELSE "new"
          BY <5>1, Zenon DEF Reply
        <5>4. SaidWell(a, r)
          BY <5>2 DEF SaidWell
        <5>6. a.status # 401
          BY <5>3
        <5> QED BY <4>1, <5>2, <5>4, <5>6
      <4>2. CASE r.room /\ ~CheckAccess(r.path, role)
        <5>1. a = Reply(403, FALSE, TRUE, r)
          BY <3>1, <4>2 DEF Chain
        <5>3. a.status = 403
          BY <5>1, Zenon DEF Reply
        <5>2. /\ ~a.handled /\ a.slot
              /\ a.secured = ~(FALSE /\ r.outcome = "crash")
              /\ a.trace = IF FALSE /\ r.outcome = "crash" THEN ""
                           ELSE IF r.trace # "" THEN r.trace ELSE "new"
          BY <5>1, Zenon DEF Reply
        <5>4. SaidWell(a, r)
          BY <5>2 DEF SaidWell
        <5>6. a.status # 401
          BY <5>3
        <5> QED BY <4>2, <5>2, <5>4, <5>6
      <4>3. CASE r.room /\ CheckAccess(r.path, role) /\ r.budget = "exhausted"
        <5>1. a = Reply(402, FALSE, TRUE, r)
          BY <3>1, <4>3 DEF Chain
        <5>3. a.status = 402
          BY <5>1, Zenon DEF Reply
        <5>2. /\ ~a.handled /\ a.slot
              /\ a.secured = ~(FALSE /\ r.outcome = "crash")
              /\ a.trace = IF FALSE /\ r.outcome = "crash" THEN ""
                           ELSE IF r.trace # "" THEN r.trace ELSE "new"
          BY <5>1, Zenon DEF Reply
        <5>4. SaidWell(a, r)
          BY <5>2 DEF SaidWell
        <5>6. a.status # 401
          BY <5>3
        <5> QED BY <4>3, <5>2, <5>4, <5>6
      <4>4. CASE r.room /\ CheckAccess(r.path, role) /\ r.budget # "exhausted"
        <5>1. a = Reply(StatusOf(r.outcome), TRUE, TRUE, r)
          BY <1>8, <3>1, <4>4 DEF Chain, Handle
        <5>2. /\ a.handled /\ a.slot
              /\ a.secured = ~(TRUE /\ r.outcome = "crash")
              /\ a.trace = IF TRUE /\ r.outcome = "crash" THEN ""
                           ELSE IF r.trace # "" THEN r.trace ELSE "new"
          BY <5>1, Zenon DEF Reply
        <5>4. SaidWell(a, r)
          BY <5>2 DEF SaidWell
        <5> QED BY <4>4, <5>2, <5>4
      <4> QED BY <1>1, <4>1, <4>2, <4>3, <4>4
    <3>4. (Authenticate(tok, r.path) # Refused) = TRUE
      BY <1>5, <2>2
    <3>5. ExtractContext(TRUE, TRUE, r.path, role) = role
      BY <1>5, <1>8
    <3>6. role # "authentication"
      BY <1>2, <1>3, <2>2 DEF AnyToken, DecodeToken, Refused
    <3>7. a.handled /\ r.path \notin Exempt =>
             /\ role # Refused /\ r.room /\ r.budget # "exhausted"
             /\ r.path \in UnderAdmin => role = "admin"
      BY <1>4, <2>2, <3>3
    <3>8. a.slot => role # Refused /\ r.room
      BY <2>2, <3>3
    <3>9. /\ TRUE <=> a.status # 401 \/ a.handled
          /\ TRUE <=> ExtractContext(TRUE, TRUE, r.path, role) # "authentication"
          /\ r.path \notin Exempt /\ TRUE => ExtractContext(TRUE, TRUE, r.path, role) = role
      BY <3>3, <3>5, <3>6
    <3> QED BY <1>2, <1>3, <1>6, <1>8, <3>3, <3>4, <3>7, <3>8, <3>9 DEF GatewayGuards, SaidWell
  <2> QED BY <2>1, <2>2
<1> QED BY <1>6, <1>7, <1>8

\* Whatever a socket offers, it opens only with a token the gateway signed.
THEOREM EverySocketGuarded ==
    ASSUME NEW Names
    PROVE  \A query \in AnyToken(Names), offered \in Seq(AnyToken(Names)) :
        SocketGuarded([query |-> query, offered |-> offered], AcceptSocket(query, offered))
<1> SUFFICES ASSUME NEW query \in AnyToken(Names), NEW offered \in Seq(AnyToken(Names))
             PROVE  SocketGuarded([query |-> query, offered |-> offered], AcceptSocket(query, offered))
  OBVIOUS
<1>1. PICK at \in SUBSET DOMAIN offered : at = {i \in DOMAIN offered : offered[i].made # "absent"}
  OBVIOUS
<1>2. at # {} => Min(at) \in DOMAIN offered
  BY SmallestOf
<1>3. at # {} => offered[Min(at)] \in Range(offered)
  BY <1>2 DEF Range
<1>4. DecodeToken(NoToken) = Refused
  BY DEF DecodeToken, NoToken, Refused
<1> QED BY <1>1, <1>3, <1>4 DEF SocketGuarded, AcceptSocket, DecodeToken, Refused, AnyToken

-----------------------------------------------------------------------------
(* What may be said                                                        *)

NumberWords == [is : {"number"}, digits : Nat, x : BOOLEAN, a : 0..9, b : 0..9]
Kinds == {"word", "email", "email_mark", "email_detected", "id_card", "bank_card", "phone",
          "phone_detected", "credit_card_detected"}
OtherWords == [is : Kinds]
AnyWord == NumberWords \union OtherWords

LEMMA WordsRedacted ==
    ASSUME NEW w \in AnyWord
    PROVE  /\ Redact(w) \in AnyWord /\ Redact(w).is # "email" /\ Redact(Redact(w)) = Redact(w)
           /\ MaskOf(w) \in AnyWord /\ MaskOf(MaskOf(w)) = MaskOf(w)
           /\ MaskOf(w) # w => w.is \in {"email", "number"}
           /\ w.is # "email" /\ MaskOf(w) # w => MaskOf(w).is # "email_detected"
<1>0. ASSUME NEW k \in Kinds, k # "email"
      PROVE  /\ Mark(k) \in AnyWord /\ Mark(k).is = k
             /\ Redact(Mark(k)) = Mark(k) /\ MaskOf(Mark(k)) = Mark(k)
  <2>1. Mark(k).is = k /\ Mark(k) \in OtherWords /\ k # "number"
    BY <1>0 DEF Mark, OtherWords, Kinds
  <2>2. Redact(Mark(k)) = Mark(k)
    BY <1>0, <2>1 DEF Redact
  <2>3. MaskOf(Mark(k)) = Mark(k)
    BY <1>0, <2>1 DEF MaskOf
  <2> QED BY <2>1, <2>2, <2>3 DEF AnyWord
<1>1. CASE w \in OtherWords
  <2>1. w.is \in Kinds /\ w.is # "number"
    BY <1>1 DEF OtherWords, Kinds
  <2>2. CASE w.is = "email"
    <3>1. Redact(w) = Mark("email_mark") /\ MaskOf(w) = Mark("email_detected")
      BY <2>2 DEF Redact, MaskOf
    <3>2. /\ Mark("email_mark") \in AnyWord /\ Mark("email_mark").is = "email_mark"
          /\ Redact(Mark("email_mark")) = Mark("email_mark")
      BY <1>0 DEF Kinds
    <3>3. Mark("email_detected") \in AnyWord /\ MaskOf(Mark("email_detected")) = Mark("email_detected")
      BY <1>0 DEF Kinds
    <3> QED BY <2>2, <3>1, <3>2, <3>3
  <2>3. CASE w.is # "email"
    <3>1. Redact(w) = w
      BY <2>1, <2>3 DEF Redact
    <3>2. MaskOf(w) = w
      BY <2>1, <2>3 DEF MaskOf
    <3> QED BY <2>3, <3>1, <3>2
  <2> QED BY <2>2, <2>3
<1>2. CASE w \in NumberWords
  <2>1. w.is = "number"
    BY <1>2 DEF NumberWords
  <2>2. ClassifyNumeric(w) \in {w, Mark("id_card"), Mark("bank_card"), Mark("phone")}
    BY DEF ClassifyNumeric
  <2>3. Redact(w) = w \/ Redact(w) \in {Mark("id_card"), Mark("bank_card"), Mark("phone")}
    BY <2>1, <2>2 DEF Redact
  <2>4. MaskOf(w) = w \/ MaskOf(w) \in {Mark("phone_detected"), Mark("credit_card_detected")}
    BY <2>1 DEF MaskOf
  <2>5. \A k \in {"id_card", "bank_card", "phone", "phone_detected", "credit_card_detected"} :
          /\ Mark(k) \in AnyWord /\ Redact(Mark(k)) = Mark(k) /\ MaskOf(Mark(k)) = Mark(k)
          /\ Mark(k).is = k
    <3>1. ASSUME NEW k \in {"id_card", "bank_card", "phone", "phone_detected", "credit_card_detected"}
          PROVE  k \in Kinds /\ k # "email"
      BY DEF Kinds
    <3> QED BY <1>0, <3>1
  <2> QED BY <2>1, <2>3, <2>4, <2>5
<1> QED BY <1>1, <1>2 DEF AnyWord

\* What the layers find decides; what the sanitizer returns it would return again.
THEOREM EveryTextFiltered ==
    \A matches \in SUBSET Range(Layers), text \in Seq(AnyWord), injected \in BOOLEAN :
        /\ FiltersHold(matches, CheckContent(matches), text, injected, Sanitize(text, injected))
        /\ PromotionClean(text, SanitizeContent(text))
<1> SUFFICES ASSUME NEW matches \in SUBSET Range(Layers), NEW text \in Seq(AnyWord),
                    NEW injected \in BOOLEAN
             PROVE  /\ FiltersHold(matches, CheckContent(matches), text, injected,
                                   Sanitize(text, injected))
                    /\ PromotionClean(text, SanitizeContent(text))
  OBVIOUS
<1>1. PICK check : check = CheckContent(matches)
  OBVIOUS
<1>2. /\ check.status = "blocked" <=> matches \intersect {"injection", "xss", "keyword"} # {}
      /\ check.status = "clean" <=> matches = {}
  <2>0. DOMAIN Layers = 1..4
    BY DEF Layers
  <2>1. PICK at \in SUBSET (1..4) : at = {n \in DOMAIN Layers : Layers[n] \in matches}
    BY <2>0
  <2>2. Layers = <<"injection", "xss", "keyword", "pii">> /\ matches \subseteq {"injection", "xss", "keyword", "pii"}
    BY DEF Layers, Range
  <2>3. \A n \in 1..4 : n \in at <=> Layers[n] \in matches
    BY <2>0, <2>1
  <2>4. at = {} <=> matches = {}
    BY <2>2, <2>3
  <2>5. ASSUME at # {} PROVE Min(at) \in at /\ \A n \in at : Min(at) <= n
    <3>1. at \in SUBSET Nat
      OBVIOUS
    <3> QED BY <2>5, <3>1, SmallestOf
  <2>6. CASE at = {}
    BY <1>1, <2>1, <2>4, <2>6 DEF CheckContent
  <2>7. CASE at # {}
    <3>1. PICK n \in 1..4 : n = Min(at) /\ n \in at /\ \A k \in at : n <= k
      BY <2>5, <2>7
    <3>0. PICK first : first = Layers[n]
      OBVIOUS
    <3>a. check = CASE first \in {"injection", "xss"} ->
                         [status |-> "blocked", layer |-> first, confidence |-> 95]
                    [] first = "keyword" ->
                         [status |-> "blocked", layer |-> "keyword", confidence |-> 90]
                    [] first = "pii" ->
                         [status |-> "flagged", layer |-> "pii", confidence |-> 75]
      BY <1>1, <2>1, <2>7, <3>0, <3>1 DEF CheckContent
    <3>b. /\ first \in {"injection", "xss", "keyword"} => check.status = "blocked"
          /\ first = "pii" => check.status = "flagged"
      BY <3>a
    <3>c. first \in matches
      BY <2>3, <3>0, <3>1
    <3>2. CASE n = 4
      BY <2>2, <2>3, <3>0, <3>1, <3>b, <3>c, <3>2
    <3>3. CASE n = 3
      BY <2>2, <2>3, <3>0, <3>1, <3>b, <3>c, <3>3
    <3>4. CASE n \in {1, 2}
      BY <2>2, <2>3, <3>0, <3>1, <3>b, <3>c, <3>4
    <3> QED BY <3>1, <3>2, <3>3, <3>4
  <2> QED BY <2>6, <2>7
<1>3. \A i \in DOMAIN text : text[i] \in AnyWord
  OBVIOUS
<1>4. PICK said : said = [i \in DOMAIN text |-> Redact(text[i])]
  OBVIOUS
<1>5. said \in Seq(AnyWord) /\ Len(said) = Len(text) /\ DOMAIN said = DOMAIN text
      /\ \A i \in DOMAIN text : said[i] = Redact(text[i])
  BY <1>3, <1>4, WordsRedacted
<1>6. \A s \in Seq(AnyWord) : (\A i \in DOMAIN s : Redact(s[i]) = s[i]) => Sanitize(s, FALSE).redacted = 0
  <2>1. ASSUME NEW s \in Seq(AnyWord), \A i \in DOMAIN s : Redact(s[i]) = s[i]
        PROVE  Sanitize(s, FALSE).redacted = 0
    <3>1. {i \in DOMAIN s : Redact(s[i]) # s[i]} = {}
      BY <2>1
    <3>2. Sanitize(s, FALSE).redacted = Cardinality({i \in DOMAIN s : Redact(s[i]) # s[i]})
      BY DEF Sanitize
    <3> QED BY <3>1, <3>2, FS_EmptySet
  <2> QED BY <2>1
<1>7. FiltersHold(matches, check, text, injected, Sanitize(text, injected))
  <2>1. CASE injected
    <3>1. Sanitize(text, injected).text = <<>> /\ Sanitize(text, injected).blocked
      BY <2>1 DEF Sanitize
    <3>2. Sanitize(<<>>, FALSE).redacted = 0
      <4>1. <<>> \in Seq(AnyWord) /\ DOMAIN <<>> = {}
        OBVIOUS
      <4> QED BY <1>6, <4>1
    <3> QED BY <1>2, <3>1, <3>2 DEF FiltersHold
  <2>2. CASE ~injected
    <3>1. Sanitize(text, injected).text = said /\ ~Sanitize(text, injected).blocked
      BY <1>4, <2>2 DEF Sanitize
    <3>2. \A i \in DOMAIN said : Redact(said[i]) = said[i] /\ said[i].is # "email"
      BY <1>3, <1>5, WordsRedacted
    <3>3. Sanitize(said, FALSE).redacted = 0
      BY <1>5, <1>6, <3>2
    <3> QED BY <1>2, <1>5, <3>1, <3>2, <3>3 DEF FiltersHold
  <2> QED BY <2>1, <2>2
<1>8. PICK masked : masked = [i \in DOMAIN text |-> MaskOf(text[i])]
  OBVIOUS
<1>9. masked \in Seq(AnyWord) /\ Len(masked) = Len(text) /\ DOMAIN masked = DOMAIN text
      /\ \A i \in DOMAIN text : masked[i] = MaskOf(text[i]) /\ MaskOf(masked[i]) = masked[i]
  BY <1>3, <1>8, WordsRedacted
<1>10. PromotionClean(text, SanitizeContent(text))
  <2>1. PICK found : found = {masked[i].is : i \in {j \in DOMAIN text : masked[j] # text[j]}}
    OBVIOUS
  <2>2. SanitizeContent(text) = [text |-> masked, violations |-> found]
    BY <1>8, <2>1 DEF SanitizeContent
  <2>3. found = {} <=> masked = text
    <3>1. found = {} <=> \A i \in DOMAIN text : masked[i] = text[i]
      BY <2>1
    <3>2. (\A i \in DOMAIN text : masked[i] = text[i]) => masked = text
      BY <1>9
    <3> QED BY <3>1, <3>2
  <2>4. SanitizeContent(masked) = [text |-> masked, violations |-> {}]
    <3>1. [i \in DOMAIN masked |-> MaskOf(masked[i])] = masked
      BY <1>9
    <3> QED BY <3>1 DEF SanitizeContent
  <2>5. \A i \in DOMAIN text : masked[i] # text[i] => text[i].is \in {"email", "number"}
    BY <1>3, <1>9, WordsRedacted
  <2>6. "email_detected" \notin SanitizeContent(Sanitize(text, FALSE).text).violations
    <3>1. Sanitize(text, FALSE).text = said
      BY <1>4 DEF Sanitize
    <3>2. \A i \in DOMAIN said : /\ said[i] \in AnyWord /\ said[i].is # "email"
                                 /\ MaskOf(said[i]) # said[i] => MaskOf(said[i]).is # "email_detected"
      BY <1>3, <1>5, WordsRedacted
    <3>3. SanitizeContent(said).violations =
            {MaskOf(said[i]).is : i \in {j \in DOMAIN said : MaskOf(said[j]) # said[j]}}
      BY DEF SanitizeContent
    <3>4. "email_detected" \notin {MaskOf(said[i]).is : i \in {j \in DOMAIN said : MaskOf(said[j]) # said[j]}}
      <4>1. SUFFICES ASSUME NEW i \in DOMAIN said, MaskOf(said[i]) # said[i]
                     PROVE  MaskOf(said[i]).is # "email_detected"
        OBVIOUS
      <4> QED BY <3>2, <4>1
    <3>5. "email_detected" \notin SanitizeContent(said).violations
      BY <3>3, <3>4
    <3> QED BY <3>1, <3>5
  <2>7. PICK c : c = SanitizeContent(text)
    OBVIOUS
  <2>8. c.text = masked /\ c.violations = found
    BY <2>2, <2>7
  <2>9. PromotionClean(text, c)
    BY <2>3, <2>4, <2>5, <2>6, <2>8 DEF PromotionClean
  <2> QED BY <2>7, <2>9
<1> QED BY <1>1, <1>7, <1>10

-----------------------------------------------------------------------------
(* The shared helpers                                                      *)

Steps == {"key", "secret_key", "item"}

\* A leaf is hidden when its first step that is no plain key names a secret.
LEMMA LeafHidden ==
    ASSUME NEW leaf \in Seq(Steps)
    PROVE  RedactSensitive(leaf) = "[REDACTED]" <=>
             \E i \in DOMAIN leaf : leaf[i] = "secret_key" /\ \A j \in 1..(i - 1) : leaf[j] = "key"
<1>1. PICK n \in Nat : DOMAIN leaf = 1..n
  BY ListHas
<1>2. PICK stops : stops = {i \in DOMAIN leaf : leaf[i] # "key"} /\ stops \in SUBSET Nat
  <2>1. \A i \in DOMAIN leaf : i \in Nat
    BY <1>1
  <2> QED BY <2>1
<1>3. RedactSensitive(leaf) = IF stops # {} /\ leaf[Min(stops)] = "secret_key"
                              THEN "[REDACTED]" ELSE "kept"
  BY <1>2 DEF RedactSensitive
<1>4. ASSUME stops # {} PROVE Min(stops) \in stops /\ \A j \in stops : Min(stops) <= j
  BY <1>2, <1>4, SmallestOf
<1>5. ASSUME stops # {}, leaf[Min(stops)] = "secret_key"
      PROVE  \E i \in DOMAIN leaf : leaf[i] = "secret_key" /\ \A j \in 1..(i - 1) : leaf[j] = "key"
  <2>1. PICK i \in DOMAIN leaf : i = Min(stops) /\ \A j \in stops : i <= j
    BY <1>2, <1>4, <1>5
  <2>2. \A j \in 1..(i - 1) : leaf[j] = "key"
    BY <1>1, <1>2, <2>1
  <2> QED BY <1>5, <2>1, <2>2
<1>6. ASSUME NEW i \in DOMAIN leaf, leaf[i] = "secret_key", \A j \in 1..(i - 1) : leaf[j] = "key"
      PROVE  stops # {} /\ leaf[Min(stops)] = "secret_key"
  <2>1. i \in stops
    BY <1>2, <1>6
  <2>2. PICK m \in stops : m = Min(stops) /\ m <= i
    BY <1>4, <2>1
  <2>3. m \in 1..n /\ leaf[m] # "key" /\ i \in 1..n
    BY <1>1, <1>2
  <2>4. m = i
    BY <1>6, <2>2, <2>3
  <2> QED BY <1>6, <2>1, <2>2, <2>4
<1> QED BY <1>3, <1>5, <1>6

\* A record of any depth hides its secrets and nothing else, and has a code.
THEOREM EveryRecordSafe ==
    ASSUME NEW context \in SUBSET Seq(Steps), NEW given, NEW own, NEW type, type # Blank
    PROVE  RecordSafe(context, StructuredError(given, own, type, context))
<1>1. ErrorCode(given, own, type) # Blank
  BY DEF ErrorCode
<1>2. PICK result : result = StructuredError(given, own, type, context)
  OBVIOUS
<1>3. result.code # Blank /\ \A leaf \in context : result.context[leaf] = RedactSensitive(leaf)
  BY <1>1, <1>2 DEF StructuredError
<1> QED BY <1>2, <1>3, LeafHidden DEF RecordSafe

Masked(p) == IF LooksLikeId(p) THEN AnyId ELSE p

LEMMA PartsDiffer == Blank \notin {"word", "identifier", "7", AnyId} /\ AnyId \notin {"word", "identifier", "7"}
BY Zenon DEF Blank, AnyId

\* What is left of a path ends at its last part that is not empty.
LEMMA PathEnds ==
    ASSUME NEW parts \in Seq(PathPart)
    PROVE  \E m \in 0..Len(parts) :
             /\ NormalizePath(parts) = [i \in 1..m |-> Masked(parts[i])]
             /\ m > 0 => parts[m] # Blank
             /\ \A i \in (m + 1)..Len(parts) : parts[i] = Blank
<1>1. PICK n \in Nat : n = Len(parts) /\ DOMAIN parts = 1..n
  BY ListHas
<1>2. PICK S : S = {0} \union {k \in DOMAIN parts : parts[k] # Blank} /\ S \in SUBSET (0..n)
  <2>1. 0 \in 0..n /\ \A k \in DOMAIN parts : k \in 0..n
    BY <1>1
  <2> QED BY <2>1
<1>3. PICK m \in S : m = Max(S) /\ \A x \in S : x <= m
  BY <1>1, <1>2, GreatestOf
<1>4. m \in 0..n /\ (m > 0 => parts[m] # Blank)
  BY <1>1, <1>2
<1>5. \A i \in (m + 1)..n : parts[i] = Blank
  <2>1. ASSUME NEW i \in (m + 1)..n, parts[i] # Blank PROVE FALSE
    <3>1. i \in S
      BY <1>1, <1>2, <1>4, <2>1
    <3> QED BY <1>3, <1>4, <2>1, <3>1
  <2> QED BY <2>1
<1>6. StripSlashes(parts) = [i \in 1..m |-> parts[i]]
  <2>1. StripSlashes(parts) = SubSeq(parts, 1, m)
    BY <1>2, <1>3 DEF StripSlashes
  <2> QED BY <1>1, <1>4, <2>1
<1>7. NormalizePath(parts) = [i \in 1..m |-> Masked(parts[i])]
  <2>1. PICK kept : kept = [i \in 1..m |-> parts[i]]
    OBVIOUS
  <2>2. NormalizePath(parts) = [i \in DOMAIN kept |-> Masked(kept[i])]
    BY <1>6, <2>1 DEF NormalizePath, Masked
  <2> QED BY <2>1, <2>2
<1> QED BY <1>1, <1>4, <1>5, <1>7

\* Two paths that differ in identifiers and in slashes at the end have one label.
LEMMA SameLabel ==
    ASSUME NEW one \in Seq(PathPart), NEW two \in Seq(PathPart),
           \A i \in DOMAIN one \intersect DOMAIN two : Masked(one[i]) = Masked(two[i]),
           \A i \in DOMAIN one \ DOMAIN two : one[i] = Blank,
           \A i \in DOMAIN two \ DOMAIN one : two[i] = Blank
    PROVE  NormalizePath(one) = NormalizePath(two)
<1>4. PICK k \in Nat, l \in Nat :
        /\ k = Len(one) /\ DOMAIN one = 1..k /\ \A i \in 1..k : one[i] \in PathPart
        /\ l = Len(two) /\ DOMAIN two = 1..l /\ \A i \in 1..l : two[i] \in PathPart
  BY ListHas
<1>1. PICK m \in 0..k :
        /\ NormalizePath(one) = [i \in 1..m |-> Masked(one[i])]
        /\ m > 0 => one[m] # Blank
        /\ \A i \in (m + 1)..k : one[i] = Blank
  BY <1>4, PathEnds
<1>2. PICK n \in 0..l :
        /\ NormalizePath(two) = [i \in 1..n |-> Masked(two[i])]
        /\ n > 0 => two[n] # Blank
        /\ \A i \in (n + 1)..l : two[i] = Blank
  BY <1>4, PathEnds
<1>3. \A p \in PathPart : Masked(p) = Blank <=> p = Blank
  BY PartsDiffer DEF Masked, LooksLikeId
<1>5. ~(m < n)
  <2>1. ASSUME m < n PROVE FALSE
    <3>1. n \in DOMAIN two /\ two[n] # Blank
      BY <1>2, <1>4, <2>1
    <3>2. CASE n \in DOMAIN one
      <4>1. one[n] = Blank
        BY <1>1, <1>4, <2>1, <3>2
      <4> QED BY <1>3, <1>4, <3>1, <3>2, <4>1
    <3> QED BY <3>1, <3>2
  <2> QED BY <2>1
<1>6. ~(n < m)
  <2>1. ASSUME n < m PROVE FALSE
    <3>1. m \in DOMAIN one /\ one[m] # Blank
      BY <1>1, <1>4, <2>1
    <3>2. CASE m \in DOMAIN two
      <4>1. two[m] = Blank
        BY <1>2, <1>4, <2>1, <3>2
      <4> QED BY <1>3, <1>4, <3>1, <3>2, <4>1
    <3> QED BY <3>1, <3>2
  <2> QED BY <2>1
<1>7. m = n
  BY <1>5, <1>6
<1>8. \A i \in 1..m : Masked(one[i]) = Masked(two[i])
  BY <1>4, <1>7
<1> QED BY <1>1, <1>2, <1>7, <1>8

\* A path of any length is counted under one label, whatever its identifiers.
THEOREM EveryLabelFew ==
    \A parts \in Seq(PathPart) : LabelsFew(parts, NormalizePath(parts))
<1> SUFFICES ASSUME NEW parts \in Seq(PathPart) PROVE LabelsFew(parts, NormalizePath(parts))
  OBVIOUS
<1>3. PICK n \in Nat : n = Len(parts) /\ DOMAIN parts = 1..n /\ \A i \in 1..n : parts[i] \in PathPart
  BY ListHas
<1>1. PICK m \in 0..n :
        /\ NormalizePath(parts) = [i \in 1..m |-> Masked(parts[i])]
        /\ m > 0 => parts[m] # Blank
        /\ \A i \in (m + 1)..n : parts[i] = Blank
  BY <1>3, PathEnds
<1>2. /\ \A p \in PathPart : Masked(p) \in PathPart /\ Masked(p) # "identifier"
      /\ \A p \in PathPart : Masked(p) = "word" <=> p = "word"
  BY PartsDiffer DEF Masked, LooksLikeId, PathPart
<1>a. \A p \in PathPart : Masked(Masked(p)) = Masked(p)
  BY PartsDiffer DEF Masked, LooksLikeId, PathPart
<1>4. PICK label : label = NormalizePath(parts)
  OBVIOUS
<1>5. /\ label \in Seq(PathPart) /\ DOMAIN label = 1..m
      /\ \A i \in 1..m : label[i] = Masked(parts[i]) /\ i \in DOMAIN parts /\ parts[i] \in PathPart
  <2>1. label = [i \in 1..m |-> Masked(parts[i])]
    BY <1>1, <1>4
  <2>2. \A i \in 1..m : i \in 1..n
    BY <1>3
  <2>3. \A i \in 1..m : Masked(parts[i]) \in PathPart
    BY <1>2, <1>3, <2>2
  <2>4. label \in [1..m -> PathPart] /\ m \in Nat
    BY <1>3, <2>1, <2>3
  <2>5. label \in Seq(PathPart)
    BY <2>4, SeqDef
  <2> QED BY <1>3, <2>1, <2>2, <2>5
<1>6. NormalizePath(label) = label
  <2>1. \A i \in DOMAIN parts \ DOMAIN label : parts[i] = Blank
    BY <1>1, <1>3, <1>5
  <2>2. \A i \in DOMAIN label \intersect DOMAIN parts : Masked(label[i]) = Masked(parts[i])
    BY <1>a, <1>5
  <2>3. DOMAIN label \ DOMAIN parts = {}
    BY <1>5
  <2>4. NormalizePath(label) = NormalizePath(parts)
    BY <1>5, <2>1, <2>2, <2>3, SameLabel
  <2> QED BY <1>4, <2>4
<1>7. NormalizePath(parts \o <<Blank>>) = label
  <2>1. PICK longer \in Seq(PathPart) : longer = parts \o <<Blank>>
    <3>1. <<Blank>> \in Seq(PathPart)
      BY DEF PathPart
    <3> QED BY <3>1, ConcatProperties
  <2>2. /\ DOMAIN longer = 1..(n + 1) /\ longer[n + 1] = Blank
        /\ \A i \in DOMAIN parts : longer[i] = parts[i]
    BY <1>3, <2>1
  <2>3. \A i \in DOMAIN longer \ DOMAIN parts : i = n + 1
    BY <1>3, <2>2
  <2>4. NormalizePath(longer) = NormalizePath(parts)
    BY <1>3, <2>2, <2>3, SameLabel
  <2> QED BY <1>4, <2>1, <2>4
<1>8. NormalizePath([i \in DOMAIN parts |-> IF parts[i] = "identifier" THEN AnyId ELSE parts[i]]) = label
  <2>1. PICK masked : masked = [i \in DOMAIN parts |-> IF parts[i] = "identifier" THEN AnyId ELSE parts[i]]
    OBVIOUS
  <2>2. /\ masked \in Seq(PathPart) /\ DOMAIN masked = DOMAIN parts
        /\ \A i \in DOMAIN parts : masked[i] = Masked(parts[i])
    <3>1. masked = [i \in 1..n |-> Masked(parts[i])]
      BY <1>3, <2>1 DEF Masked, LooksLikeId
    <3>2. masked \in [1..n -> PathPart]
      BY <1>2, <1>3, <3>1
    <3> QED BY <1>3, <3>1, <3>2, SeqDef
  <2>3. NormalizePath(masked) = NormalizePath(parts)
    <3>1. \A i \in DOMAIN masked \intersect DOMAIN parts : Masked(masked[i]) = Masked(parts[i])
      BY <1>a, <1>3, <2>2
    <3>2. DOMAIN masked \ DOMAIN parts = {} /\ DOMAIN parts \ DOMAIN masked = {}
      BY <2>2
    <3> QED BY <2>2, <3>1, <3>2, SameLabel
  <2> QED BY <1>4, <2>1, <2>3
<1>9. \A i \in DOMAIN parts : parts[i] = "word" <=> i \in DOMAIN label /\ label[i] = "word"
  <2>1. ASSUME NEW i \in DOMAIN parts PROVE parts[i] = "word" <=> i \in DOMAIN label /\ label[i] = "word"
    <3>1. CASE i \in 1..m
      BY <1>2, <1>3, <1>5, <3>1
    <3>2. CASE i \notin 1..m
      <4>1. parts[i] = Blank
        BY <1>1, <1>3, <3>2
      <4> QED BY <1>5, <3>2, <4>1, PartsDiffer
    <3> QED BY <3>1, <3>2
  <2> QED BY <2>1
<1>10. \A i \in DOMAIN label : label[i] # "identifier"
  BY <1>2, <1>5
<1> QED BY <1>4, <1>6, <1>7, <1>8, <1>9, <1>10 DEF LabelsFew

\* A batch of any keys reports each once and what became of it.
THEOREM EveryBatchReported ==
    ASSUME NEW connected \in BOOLEAN, NEW objects, NEW keys, NEW failing
    PROVE  BatchReported(objects, keys, DeleteObjects(connected, objects, keys, failing))
<1>1. PICK batch : batch = DeleteObjects(connected, objects, keys, failing)
  OBVIOUS
<1>2. CASE keys = {}
  <2>1. /\ batch.result = [raises |-> "no", deleted |-> {}, errors |-> {}]
        /\ batch.objects = objects
    BY <1>1, <1>2 DEF DeleteObjects
  <2> QED BY <1>1, <1>2, <2>1 DEF BatchReported
<1>3. CASE keys # {} /\ ~connected
  <2>1. batch.result = NotConnected /\ batch.objects = objects
    BY <1>1, <1>3 DEF DeleteObjects
  <2>2. batch.result.raises # "no" /\ batch.result.deleted = {} /\ batch.result.errors = {}
    BY <2>1 DEF NotConnected
  <2> QED BY <1>1, <2>1, <2>2 DEF BatchReported
<1>4. CASE keys # {} /\ connected
  <2>1. /\ batch.result = [raises |-> "no", deleted |-> keys \ failing,
                            errors |-> keys \intersect failing]
        /\ batch.objects = objects \ (keys \ failing)
    BY <1>1, <1>4 DEF DeleteObjects
  <2> QED BY <1>1, <2>1 DEF BatchReported
<1> QED BY <1>2, <1>3, <1>4

\* Only an object that is missing is said to be missing.
LEMMA HeadTruthful ==
    ASSUME NEW connected \in BOOLEAN,
           NEW object \in {"missing", "forbidden", "unreachable", "with_sha256", "with_etag"},
           HeadObject(connected, object) = "FileNotFoundError"
    PROVE  object = "missing"
BY DEF HeadObject

LEMMA Powers == /\ 2 ^ 0 = 1 /\ 2 ^ 1 = 2 /\ 2 ^ 2 = 4 /\ 2 ^ 3 = 8 /\ 2 ^ 4 = 16
                /\ 5 ^ 0 = 1 /\ 5 ^ 1 = 5 /\ 5 ^ 2 = 25
OBVIOUS

\* A threshold grows with the half-lives that passed.
LEMMA ThresholdGrows ==
    ASSUME NEW threshold \in Nat
    PROVE  /\ threshold * 2 ^ 0 = threshold
           /\ \A h \in 0..4 : threshold * 2 ^ h \in Nat
           /\ \A g, h \in 0..4 : g <= h => threshold * 2 ^ g <= threshold * 2 ^ h
<1>1. /\ threshold * 2 ^ 0 = threshold /\ threshold * 2 ^ 1 = 2 * threshold
      /\ threshold * 2 ^ 2 = 4 * threshold /\ threshold * 2 ^ 3 = 8 * threshold
      /\ threshold * 2 ^ 4 = 16 * threshold
  BY Powers
<1>2. PICK F : F = [h \in 0..4 |-> threshold * 2 ^ h]
  OBVIOUS
<1>3. /\ F[0] = threshold /\ F[1] = 2 * threshold /\ F[2] = 4 * threshold
      /\ F[3] = 8 * threshold /\ F[4] = 16 * threshold
  <2>1. 0 \in 0..4 /\ 1 \in 0..4 /\ 2 \in 0..4 /\ 3 \in 0..4 /\ 4 \in 0..4
    OBVIOUS
  <2>2. /\ F[0] = threshold * 2 ^ 0 /\ F[1] = threshold * 2 ^ 1 /\ F[2] = threshold * 2 ^ 2
        /\ F[3] = threshold * 2 ^ 3 /\ F[4] = threshold * 2 ^ 4
    BY <1>2, <2>1, Zenon
  <2> QED BY <1>1, <2>2
<1>4. \A h \in 0..4 : h = 0 \/ h = 1 \/ h = 2 \/ h = 3 \/ h = 4
  OBVIOUS
<1>5. \A h \in 0..4 : F[h] \in Nat
  BY <1>3, <1>4
<1>6. \A g, h \in 0..4 : g <= h => F[g] <= F[h]
  BY <1>3, <1>4
<1>7. \A h \in 0..4 : F[h] = threshold * 2 ^ h
  BY <1>2, Zenon
<1>8. \A h \in 0..4 : threshold * 2 ^ h \in Nat
  BY <1>5, <1>7, Zenon
<1>9. \A g, h \in 0..4 : g <= h => threshold * 2 ^ g <= threshold * 2 ^ h
  BY <1>6, <1>7, Zenon
<1> QED BY <1>1, <1>8, <1>9, Zenon

\* Of any confidence, what is stale stays stale until it is validated.
THEOREM EveryDecayOrdered ==
    \A q \in [base : Nat, validAt : 1..4, validatedAt : 0..4, now : 1..4, threshold : Nat] :
        DecayOrdered(q)
<1> SUFFICES ASSUME NEW q \in [base : Nat, validAt : 1..4, validatedAt : 0..4, now : 1..4,
                               threshold : Nat]
             PROVE  DecayOrdered(q)
  OBVIOUS
<1>5. PICK base \in Nat, validAt \in 1..4, validatedAt \in 0..4, now \in 1..4, threshold \in Nat :
        /\ q.base = base /\ q.validAt = validAt /\ q.validatedAt = validatedAt /\ q.now = now
        /\ q.threshold = threshold
  OBVIOUS
<1>1. PICK h, later, fresh \in 0..4 :
        /\ h = HalvingsSince(now, validAt, validatedAt)
        /\ later = HalvingsSince(now + 1, validAt, validatedAt)
        /\ fresh = HalvingsSince(now, validAt, now)
        /\ h <= later /\ fresh = 0
        /\ now < Baseline(validAt, validatedAt) => h = 0
  BY DEF HalvingsSince, Baseline, Never
<1>2. /\ threshold * 2 ^ fresh = threshold
      /\ threshold * 2 ^ h \in Nat /\ threshold * 2 ^ later \in Nat
      /\ threshold * 2 ^ h <= threshold * 2 ^ later /\ threshold <= threshold * 2 ^ h
      /\ now < Baseline(validAt, validatedAt) => threshold * 2 ^ h = threshold
  <2>1. 0 \in 0..4 /\ 0 <= h
    OBVIOUS
  <2>2. threshold * 2 ^ 0 = threshold /\ threshold * 2 ^ 0 <= threshold * 2 ^ h
    BY <2>1, ThresholdGrows, Zenon
  <2>3. threshold * 2 ^ h \in Nat /\ threshold * 2 ^ later \in Nat
    BY ThresholdGrows, Zenon
  <2>4. threshold * 2 ^ h <= threshold * 2 ^ later
    BY <1>1, ThresholdGrows, Zenon
  <2> QED BY <1>1, <2>2, <2>3, <2>4, Zenon
<1>3. /\ \A b : IsStale(b, validAt, validatedAt, now, threshold) <=> b < threshold * 2 ^ h
      /\ \A b : IsStale(b, validAt, validatedAt, now + 1, threshold) <=> b < threshold * 2 ^ later
      /\ \A b : IsStale(b, validAt, now, now, threshold) <=> b < threshold * 2 ^ fresh
  BY <1>1 DEF IsStale
<1>6. PICK x \in Nat, y \in Nat : x = threshold * 2 ^ h /\ y = threshold * 2 ^ later /\ x <= y /\ threshold <= x
                         /\ (now < Baseline(validAt, validatedAt) => x = threshold)
  BY <1>2
<1>7. /\ \A b : IsStale(b, q.validAt, q.validatedAt, q.now, q.threshold) <=> b < x
      /\ \A b : IsStale(b, q.validAt, q.validatedAt, q.now + 1, q.threshold) <=> b < y
      /\ \A b : IsStale(b, q.validAt, q.now, q.now, q.threshold) <=> b < threshold
  BY <1>2, <1>3, <1>5, <1>6
<1>8. DecayOrdered(q)
  <2>1. base < x => base < y
    BY <1>6
  <2>2. base < threshold => base < x
    BY <1>6
  <2>3. base + 10 < x => base < x
    BY <1>6
  <2> QED BY <1>5, <1>6, <1>7, <2>1, <2>2, <2>3 DEF DecayOrdered
<1> QED BY <1>8

AnyEntry(Names) == [action : Names, user : Names, at : Nat]
AnyFilters(Names) == [action : Names, user : Names, from : Nat, to : Nat]
FitsFilters(e, f) ==
    /\ f.action # "all" => e.action = f.action
    /\ f.user \notin Blanks => f.user = e.user
    /\ f.from # NoDay => e.at >= f.from * DayLength
    /\ f.to # NoDay => e.at <= f.to * DayLength + DayLength

\* The filters show, in the log's order, what they choose and nothing else.
LEMMA AuditShows ==
    ASSUME NEW Names, NEW log \in Seq(AnyEntry(Names)), NEW f
    PROVE  /\ FilterAudit(log, f) = Chosen(log, {i \in DOMAIN log : FitsFilters(log[i], f)})
           /\ Range(FilterAudit(log, f)) = {log[i] : i \in {j \in DOMAIN log : FitsFilters(log[j], f)}}
<1>1. PICK S \in SUBSET DOMAIN log : S = {i \in DOMAIN log : FitsFilters(log[i], f)}
  OBVIOUS
<1>2. FilterAudit(log, f) = Chosen(log, S)
  BY <1>1, Zenon DEF FilterAudit, FitsFilters
<1>3. Range(Chosen(log, S)) = {log[i] : i \in S}
  BY ChosenListsAll
<1> QED BY <1>1, <1>2, <1>3

Wider(f) == {[f EXCEPT !.action = "all"], [f EXCEPT !.user = Space],
             [f EXCEPT !.from = NoDay], [f EXCEPT !.to = NoDay]}

\* A filter that is left out shows no entry less.
LEMMA WiderShows ==
    ASSUME NEW Names, NEW f \in AnyFilters(Names), NEW e \in AnyEntry(Names), FitsFilters(e, f),
           NEW wider \in Wider(f)
    PROVE  FitsFilters(e, wider)
<1>1. Space \in Blanks
  BY Zenon DEF Blanks
<1>2. /\ wider.action = f.action \/ wider.action = "all"
      /\ wider.user = f.user \/ wider.user = Space
      /\ wider.from = f.from \/ wider.from = NoDay
      /\ wider.to = f.to \/ wider.to = NoDay
  BY DEF AnyFilters, Wider
<1> QED BY <1>1, <1>2 DEF FitsFilters

\* Every entry of any log that fits is shown in its place, and none of another day
\* but the first instant after the last.
THEOREM EveryAuditFiltered ==
    ASSUME NEW Names
    PROVE  \A log \in Seq(AnyEntry(Names)), f \in AnyFilters(Names) :
               AuditFiltered(log, f, FilterAudit(log, f))
<1> SUFFICES ASSUME NEW log \in Seq(AnyEntry(Names)), NEW f \in AnyFilters(Names)
             PROVE  AuditFiltered(log, f, FilterAudit(log, f))
  OBVIOUS
<1> DEFINE Fits(e) == f.action \in {"all", e.action} /\ f.user \in Blanks \union {e.user}
           Day(e) == e.at \div DayLength
           Before(e) == f.to = NoDay \/ Day(e) <= f.to
           From(e) == f.from = NoDay \/ Day(e) >= f.from
<1>1. PICK result : result = FilterAudit(log, f)
  OBVIOUS
<1>2. PICK S \in SUBSET DOMAIN log : S = {i \in DOMAIN log : FitsFilters(log[i], f)}
  OBVIOUS
<1>3. PICK R \in SUBSET DOMAIN log :
        R = {i \in DOMAIN log : Fits(log[i]) /\ Before(log[i]) /\ From(log[i])}
  OBVIOUS
<1>4. result = Chosen(log, S) /\ Range(result) = {log[i] : i \in S}
  BY <1>1, <1>2, AuditShows
<1>5. \A i \in DOMAIN log : log[i] \in AnyEntry(Names)
  OBVIOUS
<1>6. ASSUME NEW e \in AnyEntry(Names)
      PROVE  /\ Fits(e) /\ Before(e) /\ From(e) => FitsFilters(e, f)
             /\ FitsFilters(e, f) => Fits(e) /\ From(e)
             /\ FitsFilters(e, f) /\ f.to # NoDay /\ Day(e) > f.to => e.at = (f.to + 1) * DayLength
  <2>1. PICK at \in Nat, from \in Nat, to \in Nat : at = e.at /\ from = f.from /\ to = f.to
    BY DEF AnyEntry, AnyFilters
  <2>2. /\ at \div 2 <= to => at <= to * 2 + 2
        /\ at \div 2 >= from <=> at >= from * 2
        /\ at <= to * 2 + 2 /\ at \div 2 > to => at = (to + 1) * 2
    OBVIOUS
  <2>3. /\ Day(e) <= f.to => e.at <= f.to * DayLength + DayLength
        /\ Day(e) >= f.from <=> e.at >= f.from * DayLength
        /\ e.at <= f.to * DayLength + DayLength /\ Day(e) > f.to => e.at = (f.to + 1) * DayLength
    BY <2>1, <2>2 DEF DayLength
  <2> HIDE DEF Day
  <2> QED BY <2>3 DEF FitsFilters
<1>7. R \in SUBSET S /\ \A i \in S : i \in R <=> Before(log[i])
  <2> HIDE DEF Fits, Before, From
  <2> QED BY <1>2, <1>3, <1>5, <1>6
<1>8. {n \in DOMAIN result : Before(result[n])} = {n \in DOMAIN result : Nth(S, n) \in R}
  <2>1. /\ DOMAIN result = 1..Cardinality(S) /\ S \in SUBSET Nat /\ IsFiniteSet(S)
        /\ \A k \in 1..Cardinality(S) : result[k] = log[Nth(S, k)]
    BY <1>4, ChosenListsAll
  <2>2. \A k \in 1..Cardinality(S) : Nth(S, k) \in S
    BY <2>1, NthIsNth
  <2> HIDE DEF Before
  <2> QED BY <1>7, <2>1, <2>2
<1>9. Chosen(result, {n \in DOMAIN result : Before(result[n])}) = Chosen(log, R)
  <2>1. Chosen(Chosen(log, S), {n \in DOMAIN Chosen(log, S) : Nth(S, n) \in R}) = Chosen(log, R)
    BY <1>7, ChosenTwice
  <2> HIDE DEF Before
  <2> QED BY <1>4, <1>8, <2>1
<1>10. \A e \in Range(result) : f.to # NoDay /\ Day(e) > f.to => e.at = (f.to + 1) * DayLength
  <2> HIDE DEF Fits, Before, From, Day
  <2> QED BY <1>2, <1>4, <1>5, <1>6
<1>11. ASSUME NEW wider \in Wider(f)
       PROVE  Range(result) \subseteq Range(FilterAudit(log, wider))
  <2>1. Range(FilterAudit(log, wider)) = {log[i] : i \in {j \in DOMAIN log : FitsFilters(log[j], wider)}}
    BY AuditShows
  <2>2. \A i \in S : FitsFilters(log[i], wider)
    <3>1. \A e \in AnyEntry(Names) : FitsFilters(e, f) => FitsFilters(e, wider)
      BY WiderShows
    <3> QED BY <1>2, <1>5, <3>1
  <2> QED BY <1>4, <2>1, <2>2
<1> QED BY <1>1, <1>3, <1>9, <1>10, <1>11, Zenon DEF AuditFiltered, Wider

\* A header is the last token that was set, by any number of calls.
THEOREM EveryHeaderFits ==
    ASSUME NEW Names
    PROVE  \A mode \in {"saas", "private"}, calls \in Seq([mode : {"saas", "private"}, token : Names]) :
               HeaderFits(mode, calls, GetAuthHeader(mode, calls))
<1> SUFFICES ASSUME NEW mode \in {"saas", "private"},
                    NEW calls \in Seq([mode : {"saas", "private"}, token : Names])
             PROVE  HeaderFits(mode, calls, GetAuthHeader(mode, calls))
  OBVIOUS
<1>1. PICK n \in Nat : /\ n = Len(calls) /\ DOMAIN calls = 1..n
                       /\ \A i \in 1..n : calls[i] \in [mode : {"saas", "private"}, token : Names]
  BY ListHas
<1>2. PICK own : own = {i \in DOMAIN calls : calls[i].mode = "private"} /\ own \in SUBSET (0..n)
  <2>1. \A i \in DOMAIN calls : i \in 0..n
    BY <1>1
  <2> QED BY <2>1
<1>3. InMemoryToken(calls) = IF own = {} THEN Blank ELSE calls[Max(own)].token
  BY <1>2 DEF InMemoryToken
<1>4. CASE own = {}
  <2>1. GetAuthHeader(mode, calls) = Blank
    BY <1>3, <1>4 DEF GetAuthHeader
  <2>2. ASSUME calls # <<>> PROVE Last(calls).mode # "private"
    <3>1. Last(calls) = calls[n] /\ n \in 1..n
      BY <1>1, <2>2 DEF Last
    <3> QED BY <1>1, <1>2, <1>4, <3>1
  <2> QED BY <2>1, <2>2 DEF HeaderFits
<1>5. CASE own # {}
  <2>1. PICK m \in own : m = Max(own) /\ \A i \in own : i <= m
    BY <1>2, <1>5, GreatestOf
  <2>2. m \in 1..n /\ calls[m].mode = "private" /\ calls[m] = [mode |-> "private", token |-> calls[m].token]
    BY <1>1, <1>2
  <2>3. \A j \in (m + 1)..n : calls[j].mode = "saas"
    <3>1. ASSUME NEW j \in (m + 1)..n, calls[j].mode # "saas" PROVE FALSE
      <4>1. j \in 1..n /\ calls[j].mode = "private"
        BY <1>1, <2>2, <3>1
      <4>2. j \in own
        BY <1>1, <1>2, <4>1
      <4> QED BY <2>1, <2>2, <3>1, <4>2
    <3> QED BY <3>1
  <2>4. GetAuthHeader(mode, calls) = IF mode = "saas" THEN Blank ELSE calls[m].token
    BY <1>3, <1>5, <2>1 DEF GetAuthHeader
  <2>5. ASSUME calls # <<>>, Last(calls).mode = "private" PROVE Last(calls).token = calls[m].token
    <3>1. Last(calls) = calls[n] /\ n \in 1..n
      BY <1>1, <2>5 DEF Last
    <3>2. n \in own
      BY <1>1, <1>2, <2>5, <3>1
    <3>3. m = n
      BY <1>1, <2>1, <2>2, <3>2
    <3> QED BY <3>1, <3>3
  <2> QED BY <1>1, <2>2, <2>3, <2>4, <2>5 DEF HeaderFits
<1> QED BY <1>4, <1>5

ReportKeys == {"Token", "token", "apiKey", "apikey", "userId"}

\* A name is hidden in all its spellings or in none, and no report is lost.
THEOREM EveryReportSafe ==
    \A context \in SUBSET ReportKeys, endpoint, production \in BOOLEAN :
        ReportSafe(context, endpoint, production, ReportError(context, endpoint, production))
<1> SUFFICES ASSUME NEW context \in SUBSET ReportKeys, NEW endpoint \in BOOLEAN,
                    NEW production \in BOOLEAN
             PROVE  ReportSafe(context, endpoint, production,
                               ReportError(context, endpoint, production))
  OBVIOUS
<1>1. PICK report : report = ReportError(context, endpoint, production)
  OBVIOUS
<1>2. /\ \A key \in context : report.context[key] =
             IF LowerCase(key) \in SensitiveKeys THEN "[REDACTED]" ELSE "kept"
      /\ report.posted = endpoint /\ report.logged = ~production
  BY <1>1 DEF ReportError
<1>3. \A key \in {"Token", "token"} : LowerCase(key) = "token"
  BY DEF LowerCase
<1>4. "token" \in SensitiveKeys /\ "userid" \notin SensitiveKeys
  BY DEF SensitiveKeys
<1> QED BY <1>1, <1>2, <1>3, <1>4 DEF ReportSafe

AnyOutcomes(most) == [1..(1 + most) -> {"returns", "retriable", "fatal"}]

LEMMA DelaysGrow ==
    /\ DelayForAttempt(0) = 100 /\ DelayForAttempt(1) = 500 /\ DelayForAttempt(2) = 2000
<1>1. ASSUME NEW d \in Nat PROVE Min({d, 2000}) = IF d < 2000 THEN d ELSE 2000
  <2>1. {d, 2000} \in SUBSET Nat /\ {d, 2000} # {}
    OBVIOUS
  <2>2. Min({d, 2000}) \in {d, 2000} /\ \A x \in {d, 2000} : Min({d, 2000}) <= x
    BY <2>1, SmallestOf
  <2> QED BY <2>2
<1>2. 100 * 5 ^ 0 = 100 /\ 100 * 5 ^ 1 = 500 /\ 100 * 5 ^ 2 = 2500
  BY Powers
<1> QED BY <1>1, <1>2 DEF DelayForAttempt

\* A call that is repeated at most three times ends with what the last one said,
\* waits longer each time, and is never made once too often.
THEOREM EveryRetryBounded ==
    \A most \in 0..3 : \A outcomes \in AnyOutcomes(most) :
        RetryBounded(outcomes, most, RetryWithBackoff(outcomes, most))
<1> SUFFICES ASSUME NEW most \in 0..3, NEW outcomes \in AnyOutcomes(most)
             PROVE  RetryBounded(outcomes, most, RetryWithBackoff(outcomes, most))
  OBVIOUS
<1>1. \A i \in 1..(1 + most) : outcomes[i] \in {"returns", "retriable", "fatal"}
  BY DEF AnyOutcomes
<1>2. PICK final \in SUBSET (1..(1 + most)) :
        final = {i \in 1..(1 + most) : outcomes[i] # "retriable"}
  OBVIOUS
<1>3. PICK calls \in 1..(1 + most) :
        /\ calls = IF final = {} THEN 1 + most ELSE Min(final)
        /\ final # {} => calls \in final
        /\ \A i \in 1..(calls - 1) : i \notin final
  <2>1. CASE final = {}
    BY <2>1
  <2>2. CASE final # {}
    <3>1. final \in SUBSET Nat
      OBVIOUS
    <3>2. Min(final) \in final /\ \A x \in final : Min(final) <= x
      BY <2>2, <3>1, SmallestOf
    <3>3. PICK m \in final : m = Min(final) /\ \A x \in final : m <= x
      BY <3>2
    <3>4. m \in 1..(1 + most)
      OBVIOUS
    <3>5. \A i \in 1..(m - 1) : i \notin final
      <4>1. \A i \in 1..(m - 1) : ~(m <= i)
        BY <3>4
      <4> QED BY <3>3, <4>1
    <3> QED BY <2>2, <3>3, <3>4, <3>5
  <2> QED BY <2>1, <2>2
<1>4. PICK run : run = RetryWithBackoff(outcomes, most)
  OBVIOUS
<1>5. /\ run.calls = calls
      /\ run.slept = [i \in 1..(calls - 1) |-> DelayForAttempt(i - 1)]
      /\ run.result = IF final = {} THEN "RetryExhaustedError" ELSE outcomes[calls]
  BY <1>2, <1>3, <1>4 DEF RetryWithBackoff
<1>6. \A i \in 1..(calls - 1) : outcomes[i] = "retriable"
  BY <1>2, <1>3
<1>7. run.result = "RetryExhaustedError" <=> \A i \in 1..(1 + most) : outcomes[i] = "retriable"
  BY <1>1, <1>2, <1>3, <1>5
<1>8. run.result = "returns" => outcomes[run.calls] = "returns"
  BY <1>5
<1>9. DOMAIN run.slept = 1..(run.calls - 1) /\ Len(run.slept) = run.calls - 1
  <2>1. calls - 1 \in Nat
    OBVIOUS
  <2> QED BY <1>5, <2>1
<1>10. \A i \in DOMAIN run.slept :
          run.slept[i] <= 2000 /\ \A j \in 1..(i - 1) : run.slept[j] < run.slept[i]
  <2>1. \A i \in 1..(calls - 1) : i = 1 \/ i = 2 \/ i = 3
    OBVIOUS
  <2>2. PICK slept : slept = run.slept /\ \A i \in 1..(calls - 1) : slept[i] = DelayForAttempt(i - 1)
    BY <1>5
  <2>3. ASSUME NEW i \in 1..(calls - 1)
        PROVE  /\ i = 1 => slept[i] = 100
               /\ i = 2 => slept[i] = 500
               /\ i = 3 => slept[i] = 2000
    <3>1. slept[i] = DelayForAttempt(i - 1)
      BY <2>2
    <3>2. /\ i = 1 => i - 1 = 0
          /\ i = 2 => i - 1 = 1
          /\ i = 3 => i - 1 = 2
      OBVIOUS
    <3> QED BY <3>1, <3>2, DelaysGrow
  <2>4. ASSUME NEW i \in 1..(calls - 1) PROVE slept[i] <= 2000
    BY <2>1, <2>3
  <2>5. ASSUME NEW i \in 1..(calls - 1), NEW j \in 1..(i - 1) PROVE slept[j] < slept[i]
    <3>1. j \in 1..(calls - 1) /\ i \in 2..3 /\ j < i
      BY <2>1
    <3>2. (j = 1 /\ i = 2) \/ (j = 1 /\ i = 3) \/ (j = 2 /\ i = 3)
      BY <3>1
    <3> QED BY <2>3, <3>1, <3>2
  <2>6. \A i \in 1..(calls - 1) : slept[i] <= 2000 /\ \A j \in 1..(i - 1) : slept[j] < slept[i]
    BY <2>4, <2>5
  <2>7. DOMAIN slept = 1..(calls - 1)
    BY <1>5, <1>9, <2>2
  <2> QED BY <2>2, <2>6, <2>7
<1>11. /\ run.calls \in 1..(1 + most)
       /\ \A i \in 1..(run.calls - 1) : outcomes[i] = "retriable"
  BY <1>3, <1>5, <1>6
<1>12. Len(run.slept) = run.calls - 1
  BY <1>9
<1>13. RetryBounded(outcomes, most, run)
  BY <1>7, <1>8, <1>10, <1>11, <1>12 DEF RetryBounded
<1> QED BY <1>4, <1>13

-----------------------------------------------------------------------------
(* Roles                                                                   *)

\* The roles of infra are a hierarchy of eleven permissions.
LEMMA RolesAreOrdered == RolesOrdered
<1>1. /\ ViewerGrants \subseteq MemberGrants /\ MemberGrants \subseteq ManagerGrants
      /\ ManagerGrants \subseteq OrgAdminGrants /\ OrgAdminGrants \subseteq AllGrants
  BY DEF MemberGrants, ManagerGrants, OrgAdminGrants, AllGrants
<1>2. /\ "knowledge:write" \in MemberGrants \ ViewerGrants
      /\ "audit:read" \in ManagerGrants \ MemberGrants
      /\ "admin:access" \in OrgAdminGrants \ ManagerGrants
      /\ "admin:system" \in AllGrants \ OrgAdminGrants
  BY DEF ViewerGrants, MemberGrants, ManagerGrants, OrgAdminGrants, AllGrants
<1>3. PICK G : G = [i \in 1..5 |-> RolePermissions(Hierarchy[i])]
  OBVIOUS
<1>4. /\ DOMAIN Hierarchy = 1..5 /\ Len(Hierarchy) = 5
      /\ \A i \in 1..5 : G[i] = RolePermissions(Hierarchy[i])
      /\ G[1] = ViewerGrants /\ G[2] = MemberGrants /\ G[3] = ManagerGrants
      /\ G[4] = OrgAdminGrants /\ G[5] = AllGrants
  BY <1>3 DEF Hierarchy, RolePermissions
<1>5. \A i \in 1..5 : i = 1 \/ i = 2 \/ i = 3 \/ i = 4 \/ i = 5
  OBVIOUS
<1>6. ASSUME NEW i \in 1..5, NEW j \in i..5 PROVE G[i] \subseteq G[j]
  <2>1. j \in 1..5 /\ i <= j
    OBVIOUS
  <2> QED BY <1>1, <1>4, <1>5, <2>1
<1>7. ASSUME NEW i \in 1..5, NEW j \in 1..5, i < j PROVE G[i] # G[j]
  <2>1. /\ i = 1 => "knowledge:write" \in G[j] \ G[i]
        /\ i = 2 => "audit:read" \in G[j] \ G[i]
        /\ i = 3 => "admin:access" \in G[j] \ G[i]
        /\ i = 4 => "admin:system" \in G[j] \ G[i]
    BY <1>1, <1>2, <1>4, <1>5, <1>7
  <2>2. i \in 1..4
    BY <1>7
  <2> QED BY <1>5, <2>1, <2>2
<1>8. Cardinality(AllGrants) = 11
  <2> DEFINE A1 == {"conversation:read"}
             A2 == A1 \union {"knowledge:read"}
             A3 == A2 \union {"conversation:write"}
             A4 == A3 \union {"knowledge:write"}
             A5 == A4 \union {"audit:read"}
             A6 == A5 \union {"members:manage"}
             A7 == A6 \union {"settings:manage"}
             A8 == A7 \union {"roles:manage"}
             A9 == A8 \union {"admin:access"}
             A10 == A9 \union {"admin:billing"}
             A11 == A10 \union {"admin:system"}
  <2>1. AllGrants = A11
    BY DEF AllGrants, OrgAdminGrants, ManagerGrants, MemberGrants, ViewerGrants
  <2>2. /\ "knowledge:read" \notin A1 /\ "conversation:write" \notin A2 /\ "knowledge:write" \notin A3
        /\ "audit:read" \notin A4 /\ "members:manage" \notin A5 /\ "settings:manage" \notin A6
        /\ "roles:manage" \notin A7 /\ "admin:access" \notin A8 /\ "admin:billing" \notin A9
        /\ "admin:system" \notin A10
    OBVIOUS
  <2>3. IsFiniteSet(A1) /\ Cardinality(A1) = 1
    BY FS_Singleton
  <2> HIDE DEF A1, A2, A3, A4, A5, A6, A7, A8, A9, A10, A11
  <2>4. IsFiniteSet(A2) /\ Cardinality(A2) = 2
    BY <2>2, <2>3, FS_AddElement, SMTT(30) DEF A2
  <2>5. IsFiniteSet(A3) /\ Cardinality(A3) = 3
    BY <2>2, <2>4, FS_AddElement, SMTT(30) DEF A3
  <2>6. IsFiniteSet(A4) /\ Cardinality(A4) = 4
    BY <2>2, <2>5, FS_AddElement, SMTT(30) DEF A4
  <2>7. IsFiniteSet(A5) /\ Cardinality(A5) = 5
    BY <2>2, <2>6, FS_AddElement, SMTT(30) DEF A5
  <2>8. IsFiniteSet(A6) /\ Cardinality(A6) = 6
    BY <2>2, <2>7, FS_AddElement, SMTT(30) DEF A6
  <2>9. IsFiniteSet(A7) /\ Cardinality(A7) = 7
    BY <2>2, <2>8, FS_AddElement, SMTT(30) DEF A7
  <2>10. IsFiniteSet(A8) /\ Cardinality(A8) = 8
    BY <2>2, <2>9, FS_AddElement, SMTT(30) DEF A8
  <2>11. IsFiniteSet(A9) /\ Cardinality(A9) = 9
    BY <2>2, <2>10, FS_AddElement, SMTT(30) DEF A9
  <2>12. IsFiniteSet(A10) /\ Cardinality(A10) = 10
    BY <2>2, <2>11, FS_AddElement, SMTT(30) DEF A10
  <2>13. IsFiniteSet(A11) /\ Cardinality(A11) = 11
    BY <2>2, <2>12, FS_AddElement, SMTT(30) DEF A11
  <2> QED BY <2>1, <2>13
<1>9. ASSUME NEW p, NEW i \in 1..5, NEW extra, CheckPermission(Hierarchy[i], p, extra),
             NEW j \in i..5
      PROVE  CheckPermission(Hierarchy[j], p, extra)
  <2>1. j \in 1..5
    OBVIOUS
  <2> QED BY <1>4, <1>6, <1>9, <2>1 DEF CheckPermission
<1>10. /\ GatewayPermissions("viewer") \subseteq GatewayPermissions("member")
       /\ GatewayPermissions("member") \subseteq GatewayPermissions("admin")
  BY DEF GatewayPermissions
<1>11. \A i, j \in DOMAIN Hierarchy : i < j =>
         /\ RolePermissions(Hierarchy[i]) \subseteq RolePermissions(Hierarchy[j])
         /\ RolePermissions(Hierarchy[i]) # RolePermissions(Hierarchy[j])
  <2>1. \A i, j \in 1..5 : i < j => G[i] \subseteq G[j] /\ G[i] # G[j]
    <3>1. \A i, j \in 1..5 : i < j => j \in i..5
      OBVIOUS
    <3> QED BY <1>6, <1>7, <3>1
  <2> QED BY <1>4, <2>1
<1>12. \A p \in AllGrants, i \in DOMAIN Hierarchy, extra \in {{}, {"audit:read"}} :
         CheckPermission(Hierarchy[i], p, extra) =>
            \A j \in i..Len(Hierarchy) : CheckPermission(Hierarchy[j], p, extra)
  BY <1>4, <1>9
<1> QED BY <1>8, <1>10, <1>11, <1>12, Zenon DEF RolesOrdered

-----------------------------------------------------------------------------
(* Turns, tools and the context                                            *)

LEMMA MinOfTwo ==
    ASSUME NEW a \in Int, NEW b \in Int
    PROVE  Min({a, b}) = IF a <= b THEN a ELSE b
BY DEF Min

LEMMA MaxOfTwo ==
    ASSUME NEW a \in Int, NEW b \in Int
    PROVE  Max({a, b}) = IF a >= b THEN a ELSE b
BY DEF Max

AnyTurn(Phrases) ==
    [classifier : BOOLEAN, message : SUBSET Phrases, memory : {"works", "fails"},
     skill : {"none", "unrouted", "succeeds", "fails", "raises"},
     model : {"answers", "silent", "fails"}, tracker : BOOLEAN,
     store : {"none", "works", "half", "fails"}, pipeline : {"none", "works", "fails"}]

\* Whatever the message says and whatever fails: somebody answers or nothing is kept,
\* and what is only tried changes nothing of the answer.
THEOREM EveryTurnHolds ==
    ASSUME NEW Phrases
    PROVE  \A c \in AnyTurn(Phrases) : TurnHolds(c, Turn(c))
<1> SUFFICES ASSUME NEW c \in AnyTurn(Phrases) PROVE TurnHolds(c, Turn(c))
  OBVIOUS
<1>1. PICK d : d = [c EXCEPT !.store = "none", !.pipeline = "none", !.tracker = FALSE]
  OBVIOUS
<1>2. /\ d.classifier = c.classifier /\ d.message = c.message /\ d.memory = c.memory
      /\ d.skill = c.skill /\ d.model = c.model
  BY <1>1 DEF AnyTurn
<1>3. (BySkill(d) <=> BySkill(c)) /\ (TurnFails(d) <=> TurnFails(c))
  BY <1>2 DEF BySkill, TurnFails
<1>4. BySkill(c) => c.message # {} /\ c.skill = "succeeds"
  <2>1. c.message = {} => {n \in DOMAIN Triggers : Triggers[n][1] \in c.message} = {}
    OBVIOUS
  <2>2. c.message = {} => Classify(c.message).intent = "chat"
    BY <2>1 DEF Classify
  <2> QED BY <2>2 DEF BySkill
<1>5. PICK t : t = Turn(c)
  OBVIOUS
<1>6. Turn(d).by = t.by
  BY <1>3, <1>5 DEF Turn, NoTurn
<1>7. CASE TurnFails(c)
  <2>1. t = NoTurn
    BY <1>5, <1>7 DEF Turn
  <2>2. t.by = "nobody" /\ t.events = <<>>
    BY <2>1 DEF NoTurn
  <2>3. "assistant_message" \notin Range(t.events)
    BY <2>2 DEF Range
  <2>4. c.memory = "works" /\ (c.skill # "succeeds" \/ c.message = {}) => c.model = "fails"
    BY <1>4, <1>7 DEF TurnFails
  <2> QED BY <1>1, <1>5, <1>6, <2>1, <2>2, <2>3, <2>4, Zenon DEF TurnHolds
<1>8. CASE ~TurnFails(c)
  <2>1. PICK events : events = CASE c.store = "works" -> <<"user_message", "assistant_message">>
                                 [] c.store = "half" -> <<"user_message">>
                                 [] OTHER -> <<>>
    OBVIOUS
  <2>2. PICK metered \in BOOLEAN : metered <=> c.tracker /\ ~BySkill(c) /\ c.model = "answers"
    OBVIOUS
  <2>3. t = [by |-> IF BySkill(c) THEN "skill" ELSE "model",
             metered |-> c.tracker /\ ~BySkill(c) /\ c.model = "answers",
             events |-> events, remembered |-> c.pipeline = "works"]
    BY <1>5, <1>8, <2>1 DEF Turn
  <2>4. t.by = IF BySkill(c) THEN "skill" ELSE "model"
    BY <2>3
  <2>5. t.metered <=> c.tracker /\ ~BySkill(c) /\ c.model = "answers"
    BY <2>3, Zenon
  <2>6. t.events = events
    BY <2>3
  <2>7. "assistant_message" \in Range(events) => events[1] = "user_message"
    BY <2>1 DEF Range
  <2>8. c.memory = "works" /\ (c.skill # "succeeds" \/ c.message = {}) =>
           (t.by = "model" <=> c.model # "fails")
    BY <1>4, <1>8, <2>4 DEF TurnFails
  <2>9. t.by # "nobody"
    BY <2>4
  <2>10. t.by = "skill" => c.message # {} /\ ~t.metered
    BY <1>4, <2>4, <2>5
  <2>11. t.by = "model" /\ c.tracker /\ c.model = "answers" => t.metered
    BY <2>4, <2>5
  <2> QED BY <1>1, <1>5, <1>6, <2>6, <2>7, <2>8, <2>9, <2>10, <2>11, Zenon DEF TurnHolds
<1> QED BY <1>7, <1>8

\* For parameters of any names: no error exactly when what is required is there and
\* everything has its type.
THEOREM EveryParamChecked ==
    ASSUME NEW Given, NEW params \in [Given -> {"absent", "blank", "text", "number"}],
           NEW required, NEW Specified, NEW specs \in [Specified -> {"int", "str"}]
    PROVE  ParamsChecked(params, required, specs, ValidateParams(params, required, specs))
<1>1. \A p : ValueOf(params, p) \in {"absent", "blank", "text", "number"}
  BY DEF ValueOf
<1>2. ValidateRequired(params, required) = {} <=>
        \A p \in required : ValueOf(params, p) \in {"text", "number"}
  BY <1>1 DEF ValidateRequired
<1>3. ValidateTypes(params, specs) = {} <=>
        \A p \in DOMAIN specs : LET v == ValueOf(params, p) IN
            v = "absent" \/ (IF v = "number" THEN "int" ELSE "str") = specs[p]
  BY DEF ValidateTypes
<1>4. \A p \in DOMAIN specs : specs[p] \in {"int", "str"}
  OBVIOUS
<1>5. ValidateTypes(params, specs) = {} <=>
        /\ \A p \in DOMAIN specs : ValueOf(params, p) = "number" => specs[p] = "int"
        /\ \A p \in DOMAIN specs : ValueOf(params, p) \in {"text", "blank"} => specs[p] = "str"
  <2>1. \A p \in DOMAIN specs :
          (LET v == ValueOf(params, p) IN
            v = "absent" \/ (IF v = "number" THEN "int" ELSE "str") = specs[p])
          <=> /\ ValueOf(params, p) = "number" => specs[p] = "int"
              /\ ValueOf(params, p) \in {"text", "blank"} => specs[p] = "str"
    BY <1>1, <1>4
  <2> QED BY <1>3, <2>1
<1>6. ValidateParams(params, required, specs) = {} <=>
        ValidateRequired(params, required) = {} /\ ValidateTypes(params, specs) = {}
  BY DEF ValidateParams
<1> QED BY <1>2, <1>5, <1>6 DEF ParamsChecked

\* No tool hands its backend a file from elsewhere or one too large, and no search
\* returns more than was asked for.
THEOREM EveryToolGuarded ==
    /\ \A tool \in {"image_analyze", "audio_transcribe"}, source \in AllowedSources \union {"none", "ftp"},
          storage, backend \in {"none", "answers", "fails"}, size \in Nat :
            MediaGuarded(tool, source, storage, size, backend,
                         ReadMedia(tool, source, storage, size, backend))
    /\ \A query \in BOOLEAN, topK, found \in Nat, backend \in {"none", "answers", "fails"} :
            WebAnswers([query |-> query, topK |-> topK, backend |-> backend, found |-> found],
                       SearchWeb(query, topK, backend, found))
<1>1. ASSUME NEW tool \in {"image_analyze", "audio_transcribe"},
             NEW source \in AllowedSources \union {"none", "ftp"},
             NEW storage \in {"none", "answers", "fails"}, NEW backend \in {"none", "answers", "fails"},
             NEW size \in Nat
      PROVE  MediaGuarded(tool, source, storage, size, backend,
                          ReadMedia(tool, source, storage, size, backend))
  <2>1. SizeLimit(tool) \in Nat
    BY DEF SizeLimit, MaxImageSize, MaxAudioSize
  <2>2. PICK result : result = ReadMedia(tool, source, storage, size, backend)
    OBVIOUS
  <2>3. /\ ToolError(FALSE).reached = FALSE /\ ToolError(FALSE).status = "error"
        /\ ToolError(TRUE).reached = TRUE /\ ToolError(TRUE).status = "error"
    BY DEF ToolError
  <2>4. "none" \notin AllowedSources
    BY DEF AllowedSources
  <2>5. CASE source \notin AllowedSources \/ storage = "fails"
             \/ (storage = "answers" /\ size > SizeLimit(tool))
    <3>1. result = ToolError(FALSE)
      BY <2>2, <2>5 DEF ReadMedia
    <3> QED BY <2>2, <2>3, <3>1 DEF MediaGuarded
  <2>6. CASE ~(source \notin AllowedSources \/ storage = "fails"
             \/ (storage = "answers" /\ size > SizeLimit(tool)))
    <3>1. result.status = "success" => backend # "fails"
      BY <2>2, <2>3, <2>6 DEF ReadMedia
    <3> QED BY <2>1, <2>2, <2>4, <2>6, <3>1 DEF MediaGuarded
  <2> QED BY <2>5, <2>6
<1>2. ASSUME NEW query \in BOOLEAN, NEW topK \in Nat, NEW found \in Nat,
             NEW backend \in {"none", "answers", "fails"}
      PROVE  WebAnswers([query |-> query, topK |-> topK, backend |-> backend, found |-> found],
                        SearchWeb(query, topK, backend, found))
  <2>1. Min({topK, found}) = IF topK <= found THEN topK ELSE found
    BY MinOfTwo
  <2>2. PICK most \in Nat : most = Min({topK, found})
    BY <2>1
  <2>3. PICK result : result = SearchWeb(query, topK, backend, found)
    OBVIOUS
  <2>4. /\ ToolError(FALSE).reached = FALSE /\ ToolError(FALSE).status = "error"
        /\ ToolError(TRUE).reached = TRUE /\ ToolError(TRUE).status = "error"
        /\ ToolError(FALSE).results = 0 /\ ToolError(TRUE).results = 0
    BY DEF ToolError
  <2>5. CASE ~query \/ backend = "fails"
    <3>1. result = ToolError(FALSE) \/ (query /\ result = ToolError(TRUE))
      BY <2>3, <2>5 DEF SearchWeb
    <3>2. result.results = 0 /\ result.status = "error"
      BY <2>4, <3>1
    <3>3. ~query => ~result.reached
      BY <2>4, <3>1
    <3>4. 0 <= Min({topK, found})
      BY <2>2
    <3> QED BY <2>3, <2>5, <3>2, <3>3, <3>4 DEF WebAnswers
  <2>6. CASE query /\ backend # "fails"
    <3>1. result = [status |-> "success", reached |-> backend # "none",
                    results |-> IF backend = "none" THEN 0 ELSE Min({topK, found})]
      BY <2>3, <2>6 DEF SearchWeb
    <3>2. result.results <= Min({topK, found}) /\ result.status = "success"
      BY <2>2, <3>1
    <3> QED BY <2>3, <2>6, <3>2 DEF WebAnswers
  <2> QED BY <2>5, <2>6
<1> QED BY <1>1, <1>2

AnyCount == Nat \union {Unknown}

\* A budget of any size is handed out whole but for two tokens at most, and one
\* below the floor of the system prompt is exceeded by just what the floor lacks.
THEOREM EveryAllocationWhole ==
    \A total \in Nat, history, memories \in AnyCount, knowledge \in BOOLEAN :
        AllocationWhole(total, history, memories, Allocate(total, history, memories, knowledge))
<1> SUFFICES ASSUME NEW total \in Nat, NEW history \in AnyCount, NEW memories \in AnyCount,
                    NEW knowledge \in BOOLEAN
             PROVE  AllocationWhole(total, history, memories,
                                    Allocate(total, history, memories, knowledge))
  OBVIOUS
<1>1. PICK reserve \in Nat : /\ reserve = Percent(25, total)
                             /\ reserve <= total
  BY DEF Percent
<1>2. PICK room \in Nat : /\ room = Max({0, total - reserve - MinSystemPrompt})
                          /\ total - reserve >= 128 => room = total - reserve - 128
                          /\ total - reserve < 128 => room = 0
  BY <1>1, MaxOfTwo DEF MinSystemPrompt
<1>3. PICK m \in Nat, k \in Nat, h \in Nat :
        /\ Shares(room, knowledge) = [memories |-> m, knowledge |-> k, history |-> h]
        /\ m + k + h <= room /\ room - 2 <= m + k + h
  <2>1. CASE knowledge
    <3>1. Percent(40, room) \in Nat /\ Percent(30, room) \in Nat
      BY DEF Percent
    <3>2. Shares(room, knowledge) = [memories |-> Percent(40, room), knowledge |-> Percent(30, room),
                                     history |-> Percent(30, room)]
      BY <2>1 DEF Shares
    <3>3. /\ Percent(40, room) + Percent(30, room) + Percent(30, room) <= room
          /\ room - 2 <= Percent(40, room) + Percent(30, room) + Percent(30, room)
      BY DEF Percent
    <3> QED BY <3>1, <3>2, <3>3
  <2>2. CASE ~knowledge
    <3>1. Percent(55, room) \in Nat /\ Percent(45, room) \in Nat
      BY DEF Percent
    <3>2. Shares(room, knowledge) = [memories |-> Percent(55, room), knowledge |-> 0,
                                     history |-> Percent(45, room)]
      BY <2>2 DEF Shares
    <3>3. /\ Percent(55, room) + 0 + Percent(45, room) <= room
          /\ room - 2 <= Percent(55, room) + 0 + Percent(45, room)
      BY DEF Percent
    <3> QED BY <3>1, <3>2, <3>3
  <2> QED BY <2>1, <2>2
<1>4. PICK cm \in Nat, ch \in Nat :
        /\ cm = CapTo(m, memories) /\ ch = CapTo(h, history)
        /\ cm <= m /\ ch <= h
        /\ memories # Unknown => cm <= memories
        /\ history # Unknown => ch <= history
        /\ memories = Unknown => cm = m
        /\ history = Unknown => ch = h
  BY DEF CapTo, AnyCount, Unknown
<1>5. PICK surplus \in Nat : surplus = (m - cm) + (h - ch)
  BY <1>4
<1>6. PICK takes \in {"knowledge", "memories", "history", "response"} :
        /\ takes = CASE k > 0 -> "knowledge"
                     [] k = 0 /\ memories = Unknown -> "memories"
                     [] k = 0 /\ memories # Unknown /\ history = Unknown -> "history"
                     [] OTHER -> "response"
        /\ takes = "memories" => memories = Unknown
        /\ takes = "history" => history = Unknown
  OBVIOUS
<1>7. PICK b : b = Allocate(total, history, memories, knowledge)
  OBVIOUS
<1>8. b = [system |-> MinSystemPrompt,
           memories |-> cm + (IF takes = "memories" THEN surplus ELSE 0),
           knowledge |-> k + (IF takes = "knowledge" THEN surplus ELSE 0),
           history |-> ch + (IF takes = "history" THEN surplus ELSE 0),
           response |-> reserve + (IF takes = "response" THEN surplus ELSE 0)]
  BY <1>1, <1>2, <1>3, <1>4, <1>5, <1>6, <1>7 DEF Allocate
<1>9. /\ b.system = 128
      /\ b.memories = cm + (IF takes = "memories" THEN surplus ELSE 0)
      /\ b.knowledge = k + (IF takes = "knowledge" THEN surplus ELSE 0)
      /\ b.history = ch + (IF takes = "history" THEN surplus ELSE 0)
      /\ b.response = reserve + (IF takes = "response" THEN surplus ELSE 0)
      /\ DOMAIN b = {"system", "memories", "knowledge", "history", "response"}
  BY <1>8 DEF MinSystemPrompt
<1>10. \A p \in DOMAIN b : b[p] >= 0
  <2>1. b.system >= 0 /\ b.memories >= 0 /\ b.knowledge >= 0 /\ b.history >= 0 /\ b.response >= 0
    BY <1>9
  <2> QED BY <1>9, <2>1
<1>11. Allocated(b) = 128 + cm + k + ch + reserve + surplus
  <2>1. b.system + b.memories + b.knowledge + b.history + b.response
          = 128 + cm + k + ch + reserve + surplus
    BY <1>6, <1>9
  <2> QED BY <2>1 DEF Allocated
<1>12. PICK whole \in Nat : /\ whole = Max({total, Percent(25, total) + MinSystemPrompt})
                            /\ total - reserve >= 128 => whole = total
                            /\ total - reserve < 128 => whole = reserve + 128 /\ whole > total
  BY <1>1, MaxOfTwo DEF MinSystemPrompt
<1>14. m - cm \in Nat /\ h - ch \in Nat /\ m = cm + (m - cm) /\ h = ch + (h - ch)
  BY <1>4
<1>15. Allocated(b) = 128 + reserve + (m + k + h)
  BY <1>5, <1>11, <1>14
<1>16. Allocated(b) \in (whole - 2)..whole
  <2>1. whole = 128 + reserve + room
    BY <1>1, <1>2, <1>12
  <2> QED BY <1>1, <1>3, <1>15, <2>1
<1>17. whole > total => b.memories + b.knowledge + b.history = 0
  <2>1. whole > total => room = 0
    BY <1>1, <1>2, <1>12
  <2>2. room = 0 => m = 0 /\ k = 0 /\ h = 0 /\ cm = 0 /\ ch = 0 /\ surplus = 0
    BY <1>3, <1>4, <1>5
  <2> QED BY <1>9, <2>1, <2>2
<1>13. /\ memories # Unknown => b.memories <= memories
       /\ history # Unknown => b.history <= history
  BY <1>4, <1>6, <1>9 DEF AnyCount
<1> QED BY <1>7, <1>10, <1>12, <1>13, <1>16, <1>17 DEF AllocationWhole

AnyContext == [memories : Nat, entries : Nat, port : {"missing", "fails", "answers"},
               hasOrg : BOOLEAN, hasStore : BOOLEAN, failing : SUBSET Nat]

\* A context of any size says what it lacks, and every memory leaves its receipt.
THEOREM EveryContextComplete == \A c \in AnyContext : ContextComplete(c, Assemble(c))
<1> SUFFICES ASSUME NEW c \in AnyContext PROVE ContextComplete(c, Assemble(c))
  OBVIOUS
<1>1. /\ c.memories \in Nat /\ c.entries \in Nat /\ c.port \in {"missing", "fails", "answers"}
      /\ c.hasOrg \in BOOLEAN /\ c.hasStore \in BOOLEAN
  BY DEF AnyContext
<1>2. PICK k : k = FetchKnowledge(c.port, c.hasOrg, c.entries)
  OBVIOUS
<1>3. /\ k.reason # "none" <=> k.bundle = NoBundle
      /\ k.reason # "none" <=> c.port # "answers" \/ ~c.hasOrg
      /\ k.bundle \in Int
  <2>1. CASE c.port = "answers" /\ c.hasOrg
    <3>1. k = [bundle |-> c.entries, reason |-> "none"]
      BY <1>2, <2>1 DEF FetchKnowledge
    <3> QED BY <1>1, <2>1, <3>1 DEF NoBundle
  <2>2. CASE ~(c.port = "answers" /\ c.hasOrg)
    <3>1. k.bundle = NoBundle /\ k.reason \in {"not_configured", "no_org_context", "unavailable"}
      BY <1>1, <1>2, <2>2 DEF FetchKnowledge
    <3> QED BY <1>1, <2>2, <3>1 DEF NoBundle
  <2> QED BY <2>1, <2>2
<1>4. PICK a : a = Assemble(c)
  OBVIOUS
<1>5. /\ a.memories = c.memories /\ a.bundle = k.bundle /\ a.degraded = (k.reason # "none")
      /\ a.receipts = RetrievalReceipts(c.memories, c.hasStore, c.hasOrg, c.failing)
      /\ a.promptMemories = Min({c.memories, 5})
      /\ a.promptEntries = Max({0, Min({k.bundle, 3})})
  BY <1>2, <1>4, Zenon DEF Assemble
<1>6. a.promptMemories <= a.memories
  BY <1>1, <1>5, MinOfTwo
<1>7. k.bundle = NoBundle => a.promptEntries = 0
  <2>1. k.bundle = NoBundle => Min({k.bundle, 3}) = -1
    BY MinOfTwo DEF NoBundle
  <2>2. Max({0, -1}) = 0
    BY MaxOfTwo
  <2> QED BY <1>5, <2>1, <2>2
<1>8. c.hasStore /\ c.hasOrg => a.receipts \union (c.failing \intersect 1..c.memories) = 1..c.memories
  BY <1>5 DEF RetrievalReceipts
<1> QED BY <1>3, <1>4, <1>5, <1>6, <1>7, <1>8 DEF ContextComplete

-----------------------------------------------------------------------------
(* Sorted lists                                                            *)

\* Keys are compared as numbers are, whatever the numbers: not both ways, and what is
\* greater than another is greater than a third or the third is greater than the other.
Keyed(greater, n) ==
    \A i, j, k \in 1..n : /\ <<i, j>> \in greater => <<j, i>> \notin greater
                          /\ <<i, k>> \in greater => <<i, j>> \in greater \/ <<j, k>> \in greater

AheadOf(n, greater, i) == {j \in 1..n : Precedes(greater, j, i)}

\* With ties broken by the place, any two places are in order, and so are any three.
LEMMA AheadOrders ==
    ASSUME NEW n \in Nat, NEW greater, Keyed(greater, n)
    PROVE  /\ \A i \in 1..n : ~Precedes(greater, i, i)
           /\ \A i, j \in 1..n : i # j => Precedes(greater, i, j) \/ Precedes(greater, j, i)
           /\ \A i, j, k \in 1..n : Precedes(greater, i, j) /\ Precedes(greater, j, k) => Precedes(greater, i, k)
<1>1. \A i \in 1..n : ~Precedes(greater, i, i)
  BY DEF Precedes, Keyed
<1>2. \A i, j \in 1..n : i # j => Precedes(greater, i, j) \/ Precedes(greater, j, i)
  BY DEF Precedes
<1>3. ASSUME NEW i \in 1..n, NEW j \in 1..n, NEW k \in 1..n, Precedes(greater, i, j), Precedes(greater, j, k)
      PROVE  Precedes(greater, i, k)
  <2>1. /\ <<i, j>> \in greater => <<j, i>> \notin greater
        /\ <<j, k>> \in greater => <<k, j>> \notin greater
        /\ <<i, j>> \in greater => <<i, k>> \in greater \/ <<k, j>> \in greater
        /\ <<j, k>> \in greater => <<j, i>> \in greater \/ <<i, k>> \in greater
        /\ <<k, i>> \in greater => <<k, j>> \in greater \/ <<j, i>> \in greater
    BY DEF Keyed
  <2> QED BY <1>3, <2>1 DEF Precedes
<1> QED BY <1>1, <1>2, <1>3

\* So the number of places ahead tells the places apart and is the place in the order.
LEMMA PlaceIsPlace ==
    ASSUME NEW n \in Nat, NEW greater, Keyed(greater, n)
    PROVE  /\ \A m \in 1..n : PlaceOf(1..n, greater, m) \in 1..n
           /\ \A i \in 1..n : \E m \in 1..n : PlaceOf(1..n, greater, m) = i
           /\ \A l, m \in 1..n :
                l < m <=> Precedes(greater, PlaceOf(1..n, greater, l), PlaceOf(1..n, greater, m))
<1> DEFINE place == [i \in 1..n |-> Cardinality(AheadOf(n, greater, i)) + 1]
<1>1. IsFiniteSet(1..n) /\ Cardinality(1..n) = n
  BY FS_Interval
<1>2. ASSUME NEW i \in 1..n
      PROVE  IsFiniteSet(AheadOf(n, greater, i)) /\ Cardinality(AheadOf(n, greater, i)) \in 0..(n - 1)
  <2>1. AheadOf(n, greater, i) \in SUBSET ((1..n) \ {i})
    BY AheadOrders DEF AheadOf
  <2>2. IsFiniteSet((1..n) \ {i}) /\ Cardinality((1..n) \ {i}) = n - 1
    BY <1>1, FS_RemoveElement
  <2>3. IsFiniteSet(AheadOf(n, greater, i)) /\ Cardinality(AheadOf(n, greater, i)) <= n - 1
    BY <2>1, <2>2, FS_Subset
  <2> QED BY <2>3, FS_CardinalityType
<1>3. ASSUME NEW i \in 1..n, NEW j \in 1..n, Precedes(greater, i, j)
      PROVE  Cardinality(AheadOf(n, greater, i)) < Cardinality(AheadOf(n, greater, j))
  <2>1. AheadOf(n, greater, i) \union {i} \in SUBSET AheadOf(n, greater, j) /\ i \notin AheadOf(n, greater, i)
    BY <1>3, AheadOrders DEF AheadOf
  <2>2. Cardinality(AheadOf(n, greater, i) \union {i}) = Cardinality(AheadOf(n, greater, i)) + 1
    BY <1>2, <2>1, FS_AddElement
  <2>3. Cardinality(AheadOf(n, greater, i) \union {i}) <= Cardinality(AheadOf(n, greater, j))
    BY <1>2, <2>1, FS_Subset
  <2>4. Cardinality(AheadOf(n, greater, i)) \in Int /\ Cardinality(AheadOf(n, greater, j)) \in Int
    BY <1>2
  <2> QED BY <2>2, <2>3, <2>4
<1>4. ASSUME NEW i \in 1..n, NEW j \in 1..n,
             Cardinality(AheadOf(n, greater, i)) = Cardinality(AheadOf(n, greater, j))
      PROVE  i = j
  <2>1. Cardinality(AheadOf(n, greater, i)) \in Int /\ Cardinality(AheadOf(n, greater, j)) \in Int
    BY <1>2
  <2>2. ~Precedes(greater, i, j) /\ ~Precedes(greater, j, i)
    BY <1>3, <1>4, <2>1
  <2> QED BY <2>2, AheadOrders
<1>5. place \in Injection(1..n, 1..n)
  <2>1. place \in [1..n -> 1..n]
    BY <1>2
  <2>2. ASSUME NEW i \in 1..n, NEW j \in 1..n, place[i] = place[j] PROVE i = j
    <3>1. Cardinality(AheadOf(n, greater, i)) = Cardinality(AheadOf(n, greater, j))
      BY <1>2, <2>2
    <3> QED BY <1>4, <3>1
  <2> QED BY <2>1, <2>2 DEF Injection, IsInjective
<1>6. place \in Surjection(1..n, 1..n)
  <2> HIDE DEF place
  <2> QED BY <1>1, <1>5, FS_Injection
<1>7. ASSUME NEW m \in 1..n
      PROVE  /\ PlaceOf(1..n, greater, m) \in 1..n
             /\ Cardinality(AheadOf(n, greater, PlaceOf(1..n, greater, m))) = m - 1
  <2>1. PICK i \in 1..n : place[i] = m
    BY <1>6 DEF Surjection
  <2>2. Cardinality(AheadOf(n, greater, i)) = m - 1
    BY <1>2, <2>1
  <2>3. PlaceOf(1..n, greater, m) = CHOOSE p \in 1..n : Cardinality(AheadOf(n, greater, p)) = m - 1
    BY DEF PlaceOf, AheadOf
  <2> QED BY <2>2, <2>3
<1>8. ASSUME NEW i \in 1..n PROVE \E m \in 1..n : PlaceOf(1..n, greater, m) = i
  <2>1. PICK m : m = Cardinality(AheadOf(n, greater, i)) + 1
    OBVIOUS
  <2>2. m \in 1..n /\ m - 1 = Cardinality(AheadOf(n, greater, i))
    BY <1>2, <2>1
  <2> QED BY <1>4, <1>7, <2>2
<1>9. ASSUME NEW l \in 1..n, NEW m \in 1..n
      PROVE  l < m <=> Precedes(greater, PlaceOf(1..n, greater, l), PlaceOf(1..n, greater, m))
  <2>1. PICK i \in 1..n, j \in 1..n :
           /\ i = PlaceOf(1..n, greater, l) /\ Cardinality(AheadOf(n, greater, i)) = l - 1
           /\ j = PlaceOf(1..n, greater, m) /\ Cardinality(AheadOf(n, greater, j)) = m - 1
    BY <1>7
  <2>2. Precedes(greater, i, j) => l - 1 < m - 1
    BY <1>3, <2>1
  <2>3. Precedes(greater, j, i) => m - 1 < l - 1
    BY <1>3, <2>1
  <2>4. i = j => l - 1 = m - 1
    BY <2>1
  <2>5. i # j => Precedes(greater, i, j) \/ Precedes(greater, j, i)
    BY AheadOrders
  <2>6. i = j => ~Precedes(greater, i, j)
    BY AheadOrders
  <2> QED BY <2>1, <2>2, <2>3, <2>4, <2>5, <2>6
<1> QED BY <1>7, <1>8, <1>9

\* What is sorted is the list in another order, "at" is where each came from.
Places(n) == Bijection(1..n, 1..n)
SortedBy(list, greater, at) ==
    /\ Sorted(list, greater) = [m \in DOMAIN list |-> list[at[m]]]
    /\ \A l, m \in DOMAIN list : l < m <=> Precedes(greater, at[l], at[m])

LEMMA SortedIs ==
    ASSUME NEW T, NEW n \in Nat, NEW list \in [1..n -> T], NEW greater, Keyed(greater, n)
    PROVE  \E at \in Places(n) : SortedBy(list, greater, at)
<1>1. DOMAIN list = 1..n
  OBVIOUS
<1>2. Keyed(greater, n)
  OBVIOUS
<1>3. PICK at : at = [m \in 1..n |-> PlaceOf(1..n, greater, m)]
  OBVIOUS
<1>4. /\ \A m \in 1..n : at[m] \in 1..n
      /\ \A i \in 1..n : \E m \in 1..n : at[m] = i
      /\ \A l, m \in 1..n : l < m <=> Precedes(greater, at[l], at[m])
  <2>1. /\ \A m \in 1..n : PlaceOf(1..n, greater, m) \in 1..n
        /\ \A i \in 1..n : \E m \in 1..n : PlaceOf(1..n, greater, m) = i
        /\ \A l, m \in 1..n :
             l < m <=> Precedes(greater, PlaceOf(1..n, greater, l), PlaceOf(1..n, greater, m))
    BY <1>2, PlaceIsPlace
  <2>2. \A m \in 1..n : at[m] = PlaceOf(1..n, greater, m)
    BY <1>3
  <2> QED BY <2>1, <2>2
<1>5. \A l, m \in 1..n : at[l] = at[m] => l = m
  <2>1. ASSUME NEW l \in 1..n, NEW m \in 1..n, at[l] = at[m] PROVE l = m
    <3>1. ~Precedes(greater, at[l], at[m]) /\ ~Precedes(greater, at[m], at[l])
      BY <1>2, <1>4, <2>1, AheadOrders
    <3>2. ~(l < m) /\ ~(m < l)
      BY <1>4, <3>1
    <3> QED BY <3>2
  <2> QED BY <2>1
<1>6. at \in Places(n)
  BY <1>3, <1>4, <1>5 DEF Places, Bijection, Injection, Surjection, IsInjective
<1>7. Sorted(list, greater) = [m \in 1..n |-> list[at[m]]]
  BY <1>1, <1>3 DEF Sorted
<1> QED BY <1>1, <1>4, <1>6, <1>7 DEF SortedBy

\* A sorted list has what the list has, as often.
LEMMA SortedHas ==
    ASSUME NEW T, NEW n \in Nat, NEW list \in [1..n -> T], NEW greater,
           NEW at \in Places(n), SortedBy(list, greater, at)
    PROVE  /\ Sorted(list, greater) \in Seq(T)
           /\ Len(Sorted(list, greater)) = n /\ DOMAIN Sorted(list, greater) = 1..n
           /\ \A m \in 1..n : at[m] \in 1..n
           /\ \A m \in 1..n : Sorted(list, greater)[m] = list[at[m]]
           /\ \A i \in 1..n : \E m \in 1..n : at[m] = i
           /\ \A l, m \in 1..n : at[l] = at[m] => l = m
           /\ Range(Sorted(list, greater)) = Range(list)
           /\ IsInjective(list) => IsInjective(Sorted(list, greater))
<1>1. DOMAIN list = 1..n /\ \A i \in 1..n : list[i] \in T
  OBVIOUS
<1>2. /\ \A m \in 1..n : at[m] \in 1..n
      /\ \A i \in 1..n : \E m \in 1..n : at[m] = i
      /\ \A l, m \in 1..n : at[l] = at[m] => l = m
  BY <1>1 DEF Places, Bijection, Injection, Surjection, IsInjective
<1>3. PICK s : s = Sorted(list, greater)
  OBVIOUS
<1>4. s = [m \in 1..n |-> list[at[m]]]
  BY <1>1, <1>3 DEF SortedBy
<1>5. s \in Seq(T) /\ Len(s) = n /\ DOMAIN s = 1..n
  <2>1. s \in [1..n -> T]
    BY <1>1, <1>2, <1>4
  <2> QED BY <1>4, <2>1, SeqDef
<1>6. Range(s) = Range(list)
  <2>1. Range(s) = {s[m] : m \in 1..n} /\ Range(list) = {list[i] : i \in 1..n}
    BY <1>1, <1>5 DEF Range
  <2>2. \A m \in 1..n : s[m] = list[at[m]]
    BY <1>4
  <2>3. ASSUME NEW t \in Range(s) PROVE t \in Range(list)
    <3>1. PICK m \in 1..n : t = s[m]
      BY <2>1
    <3>2. at[m] \in 1..n /\ t = list[at[m]]
      BY <1>2, <2>2, <3>1
    <3> QED BY <2>1, <3>2
  <2>4. ASSUME NEW t \in Range(list) PROVE t \in Range(s)
    <3>1. PICK i \in 1..n : t = list[i]
      BY <2>1
    <3>2. PICK m \in 1..n : at[m] = i
      BY <1>2
    <3> QED BY <2>1, <2>2, <3>1, <3>2
  <2> QED BY <2>3, <2>4
<1>7. ASSUME IsInjective(list) PROVE IsInjective(s)
  <2>1. ASSUME NEW l \in 1..n, NEW m \in 1..n, s[l] = s[m] PROVE l = m
    <3>1. at[l] \in 1..n /\ at[m] \in 1..n /\ list[at[l]] = list[at[m]]
      BY <1>2, <1>4, <2>1
    <3>2. at[l] = at[m]
      BY <1>1, <1>7, <3>1 DEF IsInjective
    <3> QED BY <1>2, <3>2
  <2> QED BY <1>5, <2>1 DEF IsInjective
<1> QED BY <1>1, <1>2, <1>3, <1>4, <1>5, <1>6, <1>7

\* Whole numbers are keys.
LEMMA NumbersKey ==
    ASSUME NEW n \in Nat, NEW key \in [1..n -> Int], NEW greater,
           \A i, j \in 1..n : <<i, j>> \in greater <=> key[i] > key[j]
    PROVE  Keyed(greater, n)
<1> SUFFICES ASSUME NEW i \in 1..n, NEW j \in 1..n, NEW k \in 1..n
             PROVE  /\ <<i, j>> \in greater => <<j, i>> \notin greater
                    /\ <<i, k>> \in greater => <<i, j>> \in greater \/ <<j, k>> \in greater
  BY DEF Keyed
<1>1. key[i] \in Int /\ key[j] \in Int /\ key[k] \in Int
  OBVIOUS
<1> QED BY <1>1

-----------------------------------------------------------------------------
(* Searches                                                                *)

LEMMA MinAtMost ==
    ASSUME NEW a \in Nat, NEW b \in Nat
    PROVE  Min({a, b}) <= a
<1>1. PICK m : m = Min({a, b})
  OBVIOUS
<1>2. m = IF a <= b THEN a ELSE b
  BY <1>1, MinOfTwo
<1> QED BY <1>1, <1>2

LEMMA FirstOf ==
    ASSUME NEW T, NEW list \in Seq(T), NEW n \in Nat
    PROVE  \E m \in 0..Len(list) :
              /\ m = Min({n, Len(list)}) /\ m = IF n <= Len(list) THEN n ELSE Len(list)
              /\ First(n, list) \in Seq(T) /\ Len(First(n, list)) = m /\ DOMAIN First(n, list) = 1..m
              /\ \A i \in 1..m : First(n, list)[i] = list[i]
              /\ IsInjective(list) => IsInjective(First(n, list))
<1>1. PICK l \in Nat : l = Len(list) /\ DOMAIN list = 1..l /\ \A i \in 1..l : list[i] \in T
  BY ListHas
<1>2. PICK m : m = Min({n, l})
  OBVIOUS
<1>3. m = (IF n <= l THEN n ELSE l) /\ m \in 0..l
  BY <1>2, MinOfTwo
<1>4. PICK f : f = First(n, list)
  OBVIOUS
<1>5. f = SubSeq(list, 1, m)
  BY <1>1, <1>2, <1>4 DEF First
<1>6. /\ f \in Seq(T) /\ Len(f) = m /\ \A i \in 1..m : f[i] = list[i]
  <2>1. m \in Int /\ \A i \in 1..m : list[i] \in T
    BY <1>1, <1>3
  <2>2. /\ f \in Seq(T) /\ Len(f) = (IF 1 <= m THEN m - 1 + 1 ELSE 0)
        /\ \A i \in 1..(m - 1 + 1) : f[i] = list[1 + i - 1]
    BY <1>5, <2>1, SubSeqProperties
  <2>3. m - 1 + 1 = m /\ \A i \in 1..m : 1 + i - 1 = i
    BY <1>3
  <2>4. Len(f) = m
    BY <1>3, <2>2
  <2>5. \A i \in 1..m : f[i] = list[i]
    BY <2>2, <2>3
  <2> QED BY <2>2, <2>4, <2>5
<1>7. DOMAIN f = 1..m
  BY <1>6
<1>8. ASSUME IsInjective(list) PROVE IsInjective(f)
  <2>1. ASSUME NEW i \in 1..m, NEW j \in 1..m, f[i] = f[j] PROVE i = j
    <3>1. i \in 1..l /\ j \in 1..l /\ list[i] = list[j]
      BY <1>3, <1>6, <2>1
    <3> QED BY <1>1, <1>8, <3>1 DEF IsInjective
  <2> QED BY <1>7, <2>1 DEF IsInjective
<1> QED BY <1>1, <1>2, <1>3, <1>4, <1>6, <1>7, <1>8

Falls(list, key) == \A i, j \in DOMAIN list : i < j => key[list[i]] >= key[list[j]]

\* A list sorted by a key has what it had and falls along the key.
LEMMA KeySorted ==
    ASSUME NEW Ids, NEW list \in Seq(Ids), NEW key \in [Ids -> Int]
    PROVE  \E s \in Seq(Ids) :
              /\ s = Sorted(list, ByKey(list, key)) /\ Len(s) = Len(list) /\ Range(s) = Range(list)
              /\ IsInjective(list) => IsInjective(s)
              /\ Falls(s, key)
<1>1. PICK n \in Nat : /\ n = Len(list) /\ DOMAIN list = 1..n /\ list \in [1..n -> Ids]
                       /\ \A i \in 1..n : list[i] \in Ids
  BY ListHas
<1>2. PICK greater : greater = ByKey(list, key)
  OBVIOUS
<1>3. \A i, j \in 1..n : <<i, j>> \in greater <=> key[list[i]] > key[list[j]]
  BY <1>1, <1>2 DEF ByKey, PlacePairs
<1>4. Keyed(greater, n)
  <2>1. PICK k : k = [i \in 1..n |-> key[list[i]]]
    OBVIOUS
  <2>2. k \in [1..n -> Int] /\ \A i, j \in 1..n : <<i, j>> \in greater <=> k[i] > k[j]
    BY <1>1, <1>3, <2>1
  <2> QED BY <2>2, NumbersKey
<1>5. PICK at \in Places(n) : SortedBy(list, greater, at)
  BY <1>1, <1>4, SortedIs
<1>6. PICK s : s = Sorted(list, greater)
  OBVIOUS
<1>7. /\ s \in Seq(Ids) /\ Len(s) = n /\ Range(s) = Range(list)
      /\ IsInjective(list) => IsInjective(s)
      /\ \A m \in 1..n : at[m] \in 1..n /\ s[m] = list[at[m]]
  <2>1. /\ s \in Seq(Ids) /\ Len(s) = n
        /\ Range(s) = Range(list)
        /\ IsInjective(list) => IsInjective(s)
    BY <1>1, <1>5, <1>6, SortedHas
  <2>2. \A m \in 1..n : at[m] \in 1..n
    BY <1>1, <1>5, SortedHas
  <2>3. \A m \in 1..n : Sorted(list, greater)[m] = list[at[m]]
    BY <1>1, <1>5 DEF SortedBy
  <2> QED BY <1>6, <2>1, <2>2, <2>3
<1>8. ASSUME NEW i \in 1..n, NEW j \in 1..n, i < j PROVE key[s[i]] >= key[s[j]]
  <2>1. Precedes(greater, at[i], at[j])
    BY <1>1, <1>5, <1>8 DEF SortedBy
  <2>2. at[i] \in 1..n /\ at[j] \in 1..n /\ s[i] = list[at[i]] /\ s[j] = list[at[j]]
    BY <1>7
  <2>3. key[list[at[j]]] \in Int /\ key[list[at[i]]] \in Int
    BY <1>1, <2>2
  <2>4. <<at[j], at[i]>> \notin greater \/ <<at[i], at[j]>> \in greater
    BY <2>1 DEF Precedes
  <2>5. ~(key[list[at[j]]] > key[list[at[i]]])
    <3>1. <<at[j], at[i]>> \in greater <=> key[list[at[j]]] > key[list[at[i]]]
      BY <1>3, <2>2
    <3>2. <<at[i], at[j]>> \in greater <=> key[list[at[i]]] > key[list[at[j]]]
      BY <1>3, <2>2
    <3> QED BY <2>3, <2>4, <3>1, <3>2
  <2> QED BY <2>2, <2>3, <2>5
<1>9. Falls(s, key)
  BY <1>7, <1>8 DEF Falls
<1> QED BY <1>1, <1>2, <1>6, <1>7, <1>9

BestOf(f, n, list, key) ==
    /\ f = First(n, Sorted(list, ByKey(list, key))) /\ Len(f) = Min({n, Len(list)})
    /\ Range(f) \subseteq Range(list) /\ IsInjective(f) /\ Len(f) <= Len(list)
    /\ Falls(f, key)

\* The first of a list that falls along a key fall along it.
LEMMA FirstByKey ==
    ASSUME NEW Ids, NEW list \in Seq(Ids), IsInjective(list), NEW key \in [Ids -> Int], NEW n \in Nat
    PROVE  \E f \in Seq(Ids) : BestOf(f, n, list, key)
<1>1. PICK s \in Seq(Ids) :
              /\ s = Sorted(list, ByKey(list, key)) /\ Len(s) = Len(list) /\ Range(s) = Range(list)
              /\ IsInjective(s) /\ Falls(s, key)
  BY KeySorted
<1>2. PICK m \in 0..Len(s) :
         /\ First(n, s) \in Seq(Ids) /\ Len(First(n, s)) = m /\ DOMAIN First(n, s) = 1..m
         /\ \A i \in 1..m : First(n, s)[i] = s[i]
         /\ IsInjective(First(n, s)) /\ Len(First(n, s)) = Min({n, Len(s)})
  <2>1. PICK m \in 0..Len(s) :
           /\ m = Min({n, Len(s)}) /\ m = IF n <= Len(s) THEN n ELSE Len(s)
           /\ First(n, s) \in Seq(Ids) /\ Len(First(n, s)) = m /\ DOMAIN First(n, s) = 1..m
           /\ \A i \in 1..m : First(n, s)[i] = s[i]
           /\ IsInjective(s) => IsInjective(First(n, s))
    BY FirstOf, Zenon
  <2>2. IsInjective(First(n, s))
    BY <1>1, <2>1
  <2>3. Len(First(n, s)) = Min({n, Len(s)})
    BY <2>1, Zenon
  <2> QED BY <2>1, <2>2, <2>3, Zenon
<1>3. Len(s) \in Nat /\ DOMAIN s = 1..Len(s)
  OBVIOUS
<1>4. PICK f : f = First(n, s)
  OBVIOUS
<1>5. Falls(f, key)
  <2>1. ASSUME NEW i \in 1..m PROVE i \in DOMAIN s /\ f[i] = s[i]
    <3>1. i \in 1..Len(s)
      BY <1>3
    <3> QED BY <1>2, <1>3, <1>4, <3>1
  <2>2. DOMAIN f = 1..m
    BY <1>2, <1>4
  <2> QED BY <1>1, <2>1, <2>2 DEF Falls
<1>6. Range(f) \subseteq Range(list)
  <2>1. ASSUME NEW t \in Range(f) PROVE t \in Range(s)
    <3>1. PICK i \in 1..m : t = s[i]
      BY <1>2, <1>4 DEF Range
    <3>2. i \in DOMAIN s
      BY <1>2, <1>3
    <3> QED BY <3>1, <3>2 DEF Range
  <2> QED BY <1>1, <2>1
<1>7. m <= Len(list)
  BY <1>1, <1>2, <1>3
<1>8. BestOf(f, n, list, key)
  BY <1>1, <1>2, <1>4, <1>5, <1>6, <1>7 DEF BestOf
<1>9. f \in Seq(Ids)
  BY <1>2, <1>4
<1> QED BY <1>8, <1>9

\* What either search returns, for engines of any size.
Searched(vector, keyword, order, similarity, frequency, n) ==
    /\ vector = SearchVector(order, similarity, n) /\ keyword = SearchKeyword(order, frequency, n)
    /\ IsInjective(vector) /\ IsInjective(keyword)
    /\ Len(vector) <= n /\ Len(keyword) <= n
    /\ Len(vector) <= Len(order) /\ Len(keyword) <= Len(order)
    /\ Len(vector) = Min({n, Len(order)})
    /\ Falls(vector, similarity)
    /\ \A id \in Range(keyword) : frequency[id] > 0
    /\ Falls(keyword, frequency)

LEMMA SearchesReturn ==
    ASSUME NEW Ids, NEW order \in Seq(Ids), IsInjective(order),
           NEW similarity \in [Ids -> Int], NEW frequency \in [Ids -> Int], NEW n \in Nat
    PROVE  \E vector, keyword \in Seq(Ids) : Searched(vector, keyword, order, similarity, frequency, n)
<1>1. PICK vector \in Seq(Ids) :
         /\ vector = First(n, Sorted(order, ByKey(order, similarity))) /\ Len(vector) = Min({n, Len(order)})
         /\ IsInjective(vector) /\ Len(vector) <= Len(order)
         /\ Falls(vector, similarity)
  <2>1. PICK f \in Seq(Ids) : BestOf(f, n, order, similarity)
    BY FirstByKey
  <2> QED BY <2>1 DEF BestOf
<1>2. PICK S \in SUBSET DOMAIN order : S = {i \in DOMAIN order : frequency[order[i]] > 0}
  OBVIOUS
<1>3. PICK found : found = Chosen(order, S)
  OBVIOUS
<1>4. /\ found \in Seq(Ids) /\ IsInjective(found) /\ DOMAIN found = 1..Cardinality(S)
      /\ Cardinality(S) \in Nat /\ Range(found) = {order[i] : i \in S}
  BY <1>3, ChosenListsAll
<1>5. PICK keyword \in Seq(Ids) :
         /\ keyword = First(n, Sorted(found, ByKey(found, frequency))) /\ Len(keyword) = Min({n, Len(found)})
         /\ Range(keyword) \subseteq Range(found) /\ IsInjective(keyword) /\ Len(keyword) <= Len(found)
         /\ Falls(keyword, frequency)
  <2>1. found \in Seq(Ids) /\ IsInjective(found)
    BY <1>4
  <2>2. found \in Seq(Ids)
    BY <2>1
  <2>3. IsInjective(found)
    BY <2>1
  <2>4. PICK f \in Seq(Ids) : BestOf(f, n, found, frequency)
    BY <2>2, <2>3, FirstByKey
  <2> QED BY <2>4 DEF BestOf
<1>6. Len(found) <= Len(order)
  <2>1. DOMAIN order = 1..Len(order) /\ Len(order) \in Nat
    OBVIOUS
  <2>2. IsFiniteSet(1..Len(order)) /\ Cardinality(1..Len(order)) = Len(order)
    <3>1. \A k \in Nat : IsFiniteSet(1..k) /\ Cardinality(1..k) = k
      BY FS_Interval
    <3> QED BY <2>1, <3>1
  <2>3. Cardinality(S) <= Len(order)
    BY <2>1, <2>2, FS_Subset
  <2>4. Len(found) = Cardinality(S)
    BY <1>4
  <2> QED BY <2>3, <2>4
<1>7. Len(order) \in Nat /\ Len(found) \in Nat /\ Len(vector) \in Nat /\ Len(keyword) \in Nat
  BY <1>4
<1>8. Len(vector) <= n /\ Len(keyword) <= n
  <2>1. PICK a \in Nat, b \in Nat : a = Len(order) /\ b = Len(found)
    BY <1>7
  <2>2. Min({n, a}) <= n /\ Min({n, b}) <= n
    BY MinAtMost, Zenon
  <2>3. Len(vector) <= n
    BY <1>1, <2>1, <2>2
  <2>4. Len(keyword) <= n
    BY <1>5, <2>1, <2>2
  <2> QED BY <2>3, <2>4
<1>9. \A id \in Range(keyword) : frequency[id] > 0
  BY <1>2, <1>4, <1>5
<1>10. vector = SearchVector(order, similarity, n)
  BY <1>1 DEF SearchVector
<1>11. keyword = SearchKeyword(order, frequency, n)
  BY <1>2, <1>3, <1>5 DEF SearchKeyword
<1>12. Len(keyword) <= Len(order)
  BY <1>5, <1>6, <1>7
<1>13. Searched(vector, keyword, order, similarity, frequency, n)
  BY <1>1, <1>5, <1>8, <1>9, <1>10, <1>11, <1>12 DEF Searched
<1> QED BY <1>13

\* A search of any size finds the best of each kind.
THEOREM EverySearchFinds ==
    ASSUME NEW Ids, NEW order \in Seq(Ids), IsInjective(order),
           NEW similarity \in [Ids -> Int], NEW frequency \in [Ids -> Int], NEW topN \in Nat
    PROVE  SearchFinds(order, [vector |-> SearchVector(order, similarity, 2 * topN),
                               keyword |-> SearchKeyword(order, frequency, 2 * topN),
                               topN |-> topN, similarity |-> similarity, frequency |-> frequency])
<1>1. 2 * topN \in Nat
  OBVIOUS
<1>2. PICK vector \in Seq(Ids), keyword \in Seq(Ids) :
         /\ vector = SearchVector(order, similarity, 2 * topN)
         /\ keyword = SearchKeyword(order, frequency, 2 * topN)
         /\ Len(vector) = Min({2 * topN, Len(order)})
         /\ Falls(vector, similarity) /\ Falls(keyword, frequency)
         /\ \A id \in Range(keyword) : frequency[id] > 0
  <2>1. PICK n \in Nat : n = 2 * topN
    BY <1>1
  <2>2. PICK vector \in Seq(Ids), keyword \in Seq(Ids) :
           Searched(vector, keyword, order, similarity, frequency, n)
    BY SearchesReturn
  <2> QED BY <2>1, <2>2 DEF Searched
<1>3. SearchFinds(order, [vector |-> vector, keyword |-> keyword, topN |-> topN,
                          similarity |-> similarity, frequency |-> frequency])
  BY <1>2 DEF SearchFinds, Falls
<1> QED BY <1>2, <1>3

-----------------------------------------------------------------------------
(* The fusion                                                              *)

Fractions == [of : Nat, over : Nat \ {0}]
AtLeast(x, y) == x.of * y.over >= y.of * x.over

LEMMA TimesKeeps ==
    ASSUME NEW a \in Int, NEW b \in Int, NEW c \in Nat
    PROVE  /\ a <= b => a * c <= b * c
           /\ a < b /\ c # 0 => a * c < b * c
           /\ a * c < b * c => a < b
OBVIOUS

\* Fractions are keys, compared by what they are worth.
LEMMA FractionsKey ==
    ASSUME NEW n \in Nat, NEW key \in [1..n -> Fractions], NEW greater,
           \A i, j \in 1..n : <<i, j>> \in greater <=> Exceeds(key[i], key[j])
    PROVE  Keyed(greater, n)
<1> SUFFICES ASSUME NEW i \in 1..n, NEW j \in 1..n, NEW k \in 1..n
             PROVE  /\ <<i, j>> \in greater => <<j, i>> \notin greater
                    /\ <<i, k>> \in greater => <<i, j>> \in greater \/ <<j, k>> \in greater
  BY DEF Keyed
<1>1. PICK a \in Nat, b \in Nat \ {0} : key[i].of = a /\ key[i].over = b
  BY DEF Fractions
<1>2. PICK c \in Nat, d \in Nat \ {0} : key[j].of = c /\ key[j].over = d
  BY DEF Fractions
<1>3. PICK e \in Nat, f \in Nat \ {0} : key[k].of = e /\ key[k].over = f
  BY DEF Fractions
<1>4. /\ <<i, j>> \in greater <=> a * d > c * b
      /\ <<j, i>> \in greater <=> c * b > a * d
      /\ <<i, k>> \in greater <=> a * f > e * b
      /\ <<j, k>> \in greater <=> c * f > e * d
  BY <1>1, <1>2, <1>3 DEF Exceeds
<1>5. a * d \in Int /\ c * b \in Int /\ a * f \in Int /\ e * b \in Int /\ c * f \in Int /\ e * d \in Int
  OBVIOUS
<1>6. ASSUME a * f > e * b, ~(a * d > c * b), ~(c * f > e * d) PROVE FALSE
  <2>1. (a * d) * f <= (c * b) * f
    BY <1>5, <1>6, TimesKeeps
  <2>2. (c * f) * b <= (e * d) * b
    BY <1>5, <1>6, TimesKeeps
  <2>3. (e * b) * d < (a * f) * d
    BY <1>5, <1>6, TimesKeeps
  <2>4. /\ (a * d) * f = (a * f) * d /\ (c * b) * f = (c * f) * b /\ (e * d) * b = (e * b) * d
    OBVIOUS
  <2> QED BY <1>5, <2>1, <2>2, <2>3, <2>4
<1> QED BY <1>4, <1>5, <1>6

\* Of two sums, the one with no smaller part and a greater one is greater.
LEMMA PlusExceeds ==
    ASSUME NEW x \in Fractions, NEW y \in Fractions, NEW u \in Fractions, NEW w \in Fractions,
           AtLeast(x, u), AtLeast(y, w), Exceeds(x, u) \/ Exceeds(y, w)
    PROVE  Exceeds(Plus(x, y), Plus(u, w))
<1>1. PICK a \in Nat, b \in Nat \ {0} : x.of = a /\ x.over = b
  BY DEF Fractions
<1>2. PICK c \in Nat, d \in Nat \ {0} : y.of = c /\ y.over = d
  BY DEF Fractions
<1>3. PICK e \in Nat, f \in Nat \ {0} : u.of = e /\ u.over = f
  BY DEF Fractions
<1>4. PICK g \in Nat, h \in Nat \ {0} : w.of = g /\ w.over = h
  BY DEF Fractions
<1>5. /\ e * b <= a * f /\ g * d <= c * h /\ (e * b < a * f \/ g * d < c * h)
  BY <1>1, <1>2, <1>3, <1>4 DEF AtLeast, Exceeds
<1>6. /\ Plus(x, y).of = a * d + c * b /\ Plus(x, y).over = b * d
      /\ Plus(u, w).of = e * h + g * f /\ Plus(u, w).over = f * h
  BY <1>1, <1>2, <1>3, <1>4 DEF Plus
<1>7. d * h \in Nat \ {0} /\ b * f \in Nat \ {0} /\ e * b \in Int /\ a * f \in Int /\ g * d \in Int /\ c * h \in Int
  OBVIOUS
<1>8. /\ (e * b) * (d * h) <= (a * f) * (d * h)
      /\ e * b < a * f => (e * b) * (d * h) < (a * f) * (d * h)
  BY <1>5, <1>7, TimesKeeps
<1>9. /\ (g * d) * (b * f) <= (c * h) * (b * f)
      /\ g * d < c * h => (g * d) * (b * f) < (c * h) * (b * f)
  BY <1>5, <1>7, TimesKeeps
<1>10. (e * b) * (d * h) + (g * d) * (b * f) < (a * f) * (d * h) + (c * h) * (b * f)
  BY <1>5, <1>7, <1>8, <1>9
<1>11. /\ (a * d + c * b) * (f * h) = (a * f) * (d * h) + (c * h) * (b * f)
       /\ (e * h + g * f) * (b * d) = (e * b) * (d * h) + (g * d) * (b * f)
  OBVIOUS
<1> QED BY <1>6, <1>10, <1>11 DEF Exceeds

LEMMA PartsAre ==
    \A r \in Nat : /\ Part(r) \in Fractions /\ Part(r).over = 60 + r
                   /\ Part(r).of = IF r = 0 THEN 0 ELSE 1
BY DEF Part, Fractions, RrfK

LEMMA PlusIs ==
    ASSUME NEW x \in Fractions, NEW y \in Fractions
    PROVE  Plus(x, y) \in Fractions
<1>1. PICK a \in Nat, b \in Nat \ {0} : x.of = a /\ x.over = b
  BY DEF Fractions
<1>2. PICK c \in Nat, d \in Nat \ {0} : y.of = c /\ y.over = d
  BY DEF Fractions
<1>3. a * d + c * b \in Nat /\ b * d \in Nat \ {0}
  OBVIOUS
<1> QED BY <1>1, <1>2, <1>3 DEF Plus, Fractions

\* A better place in a list, the one after its end for what is not in it, is worth more.
LEMMA PlaceWorth ==
    ASSUME NEW n \in Nat, NEW r \in 0..n, NEW s \in 0..n
    PROVE  LET Of(rank) == IF rank = 0 THEN n + 1 ELSE rank IN
           /\ Of(r) <= Of(s) => AtLeast(Part(r), Part(s))
           /\ Of(r) < Of(s) => Exceeds(Part(r), Part(s))
<1>1. /\ Part(r).over = 60 + r /\ Part(r).of = IF r = 0 THEN 0 ELSE 1
      /\ Part(s).over = 60 + s /\ Part(s).of = IF s = 0 THEN 0 ELSE 1
  BY PartsAre
<1>2. CASE r = 0
  BY <1>1, <1>2 DEF AtLeast, Exceeds
<1>3. CASE r # 0 /\ s = 0
  BY <1>1, <1>3 DEF AtLeast, Exceeds
<1>4. CASE r # 0 /\ s # 0
  BY <1>1, <1>4 DEF AtLeast, Exceeds
<1> QED BY <1>2, <1>3, <1>4

\* Up to the 61st place, two places are worth more than the first place of one list.
LEMMA BothWorthMore ==
    ASSUME NEW v \in 1..(RrfK + 1), NEW k \in 1..(RrfK + 1), NEW w \in Nat \ {0}
    PROVE  /\ Exceeds(Plus(Part(v), Part(k)), Plus(Part(w), Part(0)))
           /\ Exceeds(Plus(Part(v), Part(k)), Plus(Part(0), Part(w)))
<1>1. PICK p \in 61..121, q \in 61..121, m \in Nat : p = 60 + v /\ q = 60 + k /\ m = 60 + w /\ 61 <= m
  <2>1. v \in 1..61 /\ k \in 1..61
    BY DEF RrfK
  <2>2. 60 + v \in 61..121 /\ 60 + k \in 61..121 /\ 60 + w \in Nat /\ 61 <= 60 + w
    BY <2>1
  <2> QED BY <2>2
<1>2. Plus(Part(v), Part(k)).of = q + p /\ Plus(Part(v), Part(k)).over = p * q
  BY <1>1, PartsAre DEF Plus, RrfK
<1>3. /\ Plus(Part(w), Part(0)).of = 60 /\ Plus(Part(w), Part(0)).over = m * 60
      /\ Plus(Part(0), Part(w)).of = 60 /\ Plus(Part(0), Part(w)).over = 60 * m
  BY <1>1, PartsAre DEF Plus
<1>4. (121 - p) * (q - 61) >= 0
  <2>1. PICK c \in Nat, d \in Nat : c = 121 - p /\ d = q - 61
    OBVIOUS
  <2> QED BY <2>1
<1>5. (121 - p) * (q - 61) = 121 * q - 7381 - p * q + 61 * p
  OBVIOUS
<1>6. p * q < (q + p) * 61
  BY <1>4, <1>5
<1>7. (q + p) * 61 <= (q + p) * m
  <2>1. q + p \in Nat /\ (q + p) * 61 = 61 * (q + p) /\ (q + p) * m = m * (q + p)
    OBVIOUS
  <2> QED BY <1>1, <2>1, TimesKeeps
<1>8. p * q < (q + p) * m
  <2>1. p * q \in Int /\ (q + p) * m \in Int /\ (q + p) * 61 \in Int
    OBVIOUS
  <2> QED BY <1>6, <1>7, <2>1
<1>9. (p * q) * 60 < ((q + p) * m) * 60
  BY <1>8, TimesKeeps
<1>10. /\ (q + p) * (m * 60) = ((q + p) * m) * 60 /\ (q + p) * (60 * m) = ((q + p) * m) * 60
       /\ 60 * (p * q) = (p * q) * 60
  OBVIOUS
<1> QED BY <1>2, <1>3, <1>9, <1>10 DEF Exceeds

\* The rank of an item is the place it stands at.
LEMMA RankOf ==
    ASSUME NEW Ids, NEW list \in Seq(Ids), IsInjective(list)
    PROVE  /\ \A id : RankIn(list, id) \in 0..Len(list)
           /\ \A id : RankIn(list, id) # 0 <=> id \in Range(list)
           /\ \A i \in 1..Len(list) : RankIn(list, list[i]) = i
<1>1. PICK n \in Nat : n = Len(list) /\ DOMAIN list = 1..n
  BY ListHas
<1>2. ASSUME NEW id \in Range(list) PROVE RankIn(list, id) \in 1..n /\ list[RankIn(list, id)] = id
  <2>1. \E r \in 1..n : list[r] = id
    BY <1>1, <1>2 DEF Range
  <2>2. RankIn(list, id) = CHOOSE r \in 1..n : list[r] = id
    BY <1>1 DEF RankIn
  <2> QED BY <2>1, <2>2
<1>3. ASSUME NEW id, id \notin Range(list) PROVE RankIn(list, id) = 0
  BY <1>3 DEF RankIn
<1>4. ASSUME NEW i \in 1..n PROVE RankIn(list, list[i]) = i
  <2>1. list[i] \in Range(list)
    BY <1>1 DEF Range
  <2>2. RankIn(list, list[i]) \in 1..n /\ list[RankIn(list, list[i])] = list[i]
    BY <1>2, <2>1
  <2> QED BY <1>1, <2>2 DEF IsInjective
<1>5. \A id : RankIn(list, id) \in 0..n /\ (RankIn(list, id) # 0 <=> id \in Range(list))
  <2>1. ASSUME NEW id PROVE RankIn(list, id) \in 0..n /\ (RankIn(list, id) # 0 <=> id \in Range(list))
    <3>1. CASE id \in Range(list)
      BY <1>2, <3>1
    <3>2. CASE id \notin Range(list)
      BY <1>3, <3>2
    <3> QED BY <3>1, <3>2
  <2> QED BY <2>1
<1> QED BY <1>1, <1>4, <1>5

\* A list without repetition has as many items as places.
LEMMA ItemsCounted ==
    ASSUME NEW Ids, NEW list \in Seq(Ids), IsInjective(list)
    PROVE  IsFiniteSet(Range(list)) /\ Cardinality(Range(list)) = Len(list)
<1>1. PICK n \in Nat : n = Len(list) /\ DOMAIN list = 1..n /\ list = [i \in 1..n |-> list[i]]
  BY ListHas
<1>2. list \in Bijection(1..n, Range(list))
  <2>1. list \in [1..n -> Range(list)]
    BY <1>1 DEF Range
  <2>2. \A t \in Range(list) : \E i \in 1..n : list[i] = t
    BY <1>1 DEF Range
  <2>3. list \in Injection(1..n, Range(list)) /\ list \in Surjection(1..n, Range(list))
    BY <2>1, <2>2 DEF Injection, Surjection
  <2> QED BY <2>3 DEF Bijection
<1>3. \A k \in Nat : IsFiniteSet(1..k) /\ Cardinality(1..k) = k
  BY FS_Interval
<1>4. ExistsBijection(1..n, Range(list))
  BY <1>2 DEF ExistsBijection
<1>5. IsFiniteSet(1..n) /\ Cardinality(1..n) = n
  BY <1>3
<1>6. IsFiniteSet(Range(list)) /\ Cardinality(Range(list)) = n
  BY <1>4, <1>5, FS_Bijection
<1> QED BY <1>1, <1>6

\* What the searches found is listed once.
LEMMA FoundOnce ==
    ASSUME NEW Ids, NEW vector \in Seq(Ids), NEW keyword \in Seq(Ids),
           IsInjective(vector), IsInjective(keyword)
    PROVE  /\ FoundBy(vector, keyword) \in Seq(Ids) /\ IsInjective(FoundBy(vector, keyword))
           /\ Range(FoundBy(vector, keyword)) = Range(vector) \union Range(keyword)
<1>1. PICK K \in SUBSET DOMAIN keyword : K = {i \in DOMAIN keyword : keyword[i] \notin Range(vector)}
  OBVIOUS
<1>2. PICK rest \in Seq(Ids) : rest = Chosen(keyword, K)
  BY ChosenListsAll
<1>3. IsInjective(rest) /\ Range(rest) = {keyword[i] : i \in K}
  BY <1>2, ChosenListsAll
<1>4. PICK m \in Nat, n \in Nat : m = Len(vector) /\ n = Len(rest)
  OBVIOUS
<1>5. PICK found : found = vector \o rest
  OBVIOUS
<1>6. /\ found \in Seq(Ids) /\ DOMAIN found = 1..(m + n)
      /\ \A i \in 1..(m + n) : found[i] = IF i <= m THEN vector[i] ELSE rest[i - m]
  <2>1. /\ found \in Seq(Ids) /\ Len(found) = Len(vector) + Len(rest)
        /\ \A i \in 1..(Len(vector) + Len(rest)) :
             found[i] = IF i <= Len(vector) THEN vector[i] ELSE rest[i - Len(vector)]
    BY <1>5, ConcatProperties
  <2> QED BY <1>4, <2>1
<1>7. Range(found) = Range(vector) \union Range(rest)
  BY <1>5, RangeConcatenation
<1>8. /\ Range(vector) \union Range(rest) = Range(vector) \union Range(keyword)
      /\ Range(vector) \intersect Range(rest) = {}
  <2>1. Range(keyword) = {keyword[i] : i \in DOMAIN keyword}
    BY DEF Range
  <2> QED BY <1>1, <1>3, <2>1
<1>9. /\ \A i \in 1..m : vector[i] \in Range(vector)
      /\ \A i \in 1..n : rest[i] \in Range(rest)
      /\ \A i, j \in 1..m : vector[i] = vector[j] => i = j
      /\ \A i, j \in 1..n : rest[i] = rest[j] => i = j
  <2>1. DOMAIN vector = 1..m /\ DOMAIN rest = 1..n
    BY <1>4
  <2>2. /\ \A i \in 1..m : vector[i] \in Range(vector)
        /\ \A i \in 1..n : rest[i] \in Range(rest)
    BY <2>1 DEF Range
  <2>3. /\ \A i, j \in 1..m : vector[i] = vector[j] => i = j
        /\ \A i, j \in 1..n : rest[i] = rest[j] => i = j
    BY <1>3, <2>1 DEF IsInjective
  <2> QED BY <2>2, <2>3
<1>10. ASSUME NEW i \in 1..(m + n), NEW j \in 1..(m + n), found[i] = found[j] PROVE i = j
  <2>1. CASE i <= m /\ j <= m
    <3>1. i \in 1..m /\ j \in 1..m /\ vector[i] = vector[j]
      BY <1>6, <1>10, <2>1
    <3> QED BY <1>9, <3>1
  <2>2. CASE i > m /\ j > m
    <3>1. i - m \in 1..n /\ j - m \in 1..n /\ rest[i - m] = rest[j - m]
      BY <1>6, <1>10, <2>2
    <3>2. i - m = j - m
      BY <1>9, <3>1
    <3> QED BY <3>2
  <2>3. CASE i <= m /\ j > m
    <3>1. i \in 1..m /\ j - m \in 1..n /\ vector[i] = rest[j - m]
      BY <1>6, <1>10, <2>3
    <3> QED BY <1>8, <1>9, <3>1
  <2>4. CASE i > m /\ j <= m
    <3>1. i - m \in 1..n /\ j \in 1..m /\ vector[j] = rest[i - m]
      BY <1>6, <1>10, <2>4
    <3> QED BY <1>8, <1>9, <3>1
  <2> QED BY <2>1, <2>2, <2>3, <2>4
<1>11. IsInjective(found)
  BY <1>6, <1>10 DEF IsInjective
<1>12. found = FoundBy(vector, keyword)
  BY <1>1, <1>2, <1>5 DEF FoundBy
<1> QED BY <1>6, <1>7, <1>8, <1>11, <1>12

\* What "a" has to have over "b" for the fusion to put it first.
Over(vector, keyword, a, b) ==
    LET Place(list, id) == IF id \in Range(list) THEN RankIn(list, id) ELSE Len(list) + 1
        both == Range(vector) \intersect Range(keyword)
    IN \/ /\ Place(vector, a) <= Place(vector, b) /\ Place(keyword, a) <= Place(keyword, b)
          /\ Place(vector, a) < Place(vector, b) \/ Place(keyword, a) < Place(keyword, b)
       \/ a \in both /\ b \notin both

LEMMA OverScores ==
    ASSUME NEW Ids, NEW vector \in Seq(Ids), NEW keyword \in Seq(Ids),
           IsInjective(vector), IsInjective(keyword),
           Len(vector) <= RrfK + 1, Len(keyword) <= RrfK + 1,
           NEW a, NEW b, b \in Range(vector) \union Range(keyword), Over(vector, keyword, a, b)
    PROVE  Exceeds(RrfScore(vector, keyword, a), RrfScore(vector, keyword, b))
<1>1. PICK m \in Nat, n \in Nat :
         m = Len(vector) /\ n = Len(keyword) /\ m <= RrfK + 1 /\ n <= RrfK + 1
  OBVIOUS
<1>2. PICK va \in 0..m, vb \in 0..m : va = RankIn(vector, a) /\ vb = RankIn(vector, b)
  BY <1>1, RankOf
<1>3. PICK ka \in 0..n, kb \in 0..n : ka = RankIn(keyword, a) /\ kb = RankIn(keyword, b)
  BY <1>1, RankOf
<1>4. /\ va # 0 <=> a \in Range(vector)
      /\ vb # 0 <=> b \in Range(vector)
      /\ ka # 0 <=> a \in Range(keyword)
      /\ kb # 0 <=> b \in Range(keyword)
  BY <1>2, <1>3, RankOf
<1>5. /\ RrfScore(vector, keyword, a) = Plus(Part(va), Part(ka))
      /\ RrfScore(vector, keyword, b) = Plus(Part(vb), Part(kb))
  BY <1>2, <1>3 DEF RrfScore
<1>6. /\ Part(va) \in Fractions /\ Part(vb) \in Fractions /\ Part(ka) \in Fractions /\ Part(kb) \in Fractions
  <2>1. va \in Nat /\ vb \in Nat /\ ka \in Nat /\ kb \in Nat
    OBVIOUS
  <2> QED BY <2>1, PartsAre
<1>7. CASE a \in Range(vector) /\ a \in Range(keyword) /\ ~(b \in Range(vector) /\ b \in Range(keyword))
  <2>1. va \in 1..(RrfK + 1) /\ ka \in 1..(RrfK + 1)
    BY <1>1, <1>4, <1>7 DEF RrfK
  <2>2. CASE vb # 0 /\ kb = 0
    <3>1. vb \in Nat \ {0}
      BY <2>2
    <3>2. Exceeds(Plus(Part(va), Part(ka)), Plus(Part(vb), Part(0)))
      BY <2>1, <3>1, BothWorthMore
    <3> QED BY <1>5, <2>2, <3>2
  <2>3. CASE vb = 0 /\ kb # 0
    <3>1. kb \in Nat \ {0}
      BY <2>3
    <3>2. Exceeds(Plus(Part(va), Part(ka)), Plus(Part(0), Part(kb)))
      BY <2>1, <3>1, BothWorthMore
    <3> QED BY <1>5, <2>3, <3>2
  <2> QED BY <1>4, <1>7, <2>2, <2>3
<1>8. CASE ~(a \in Range(vector) /\ a \in Range(keyword) /\ ~(b \in Range(vector) /\ b \in Range(keyword)))
  <2> DEFINE Of(last, rank) == IF rank = 0 THEN last + 1 ELSE rank
  <2>1. /\ Of(m, va) <= Of(m, vb) /\ Of(n, ka) <= Of(n, kb)
        /\ Of(m, va) < Of(m, vb) \/ Of(n, ka) < Of(n, kb)
    BY <1>1, <1>2, <1>3, <1>4, <1>8 DEF Over
  <2>2. /\ AtLeast(Part(va), Part(vb))
        /\ Of(m, va) < Of(m, vb) => Exceeds(Part(va), Part(vb))
    BY <2>1, PlaceWorth
  <2>3. /\ AtLeast(Part(ka), Part(kb))
        /\ Of(n, ka) < Of(n, kb) => Exceeds(Part(ka), Part(kb))
    BY <2>1, PlaceWorth
  <2>4. Exceeds(Part(va), Part(vb)) \/ Exceeds(Part(ka), Part(kb))
    BY <2>1, <2>2, <2>3
  <2> QED BY <1>5, <1>6, <2>2, <2>3, <2>4, PlusExceeds
<1> QED BY <1>7, <1>8

\* The fusion sorts what was found by its score.
LEMMA FusionSorted ==
    ASSUME NEW Ids, NEW vector \in Seq(Ids), NEW keyword \in Seq(Ids),
           IsInjective(vector), IsInjective(keyword)
    PROVE  \E s \in Seq(Ids) :
              /\ s = Sorted(FoundBy(vector, keyword),
                            ByScore(vector, keyword, FoundBy(vector, keyword)))
              /\ IsInjective(s) /\ Range(s) = Range(vector) \union Range(keyword)
              /\ \A l, m \in 1..Len(s) :
                    Exceeds(RrfScore(vector, keyword, s[l]), RrfScore(vector, keyword, s[m])) => l < m
<1>1. PICK found \in Seq(Ids) :
         /\ found = FoundBy(vector, keyword) /\ IsInjective(found)
         /\ Range(found) = Range(vector) \union Range(keyword)
  BY FoundOnce
<1>2. PICK n \in Nat : n = Len(found) /\ DOMAIN found = 1..n /\ found \in [1..n -> Ids]
  BY ListHas
<1>3. PICK greater : greater = ByScore(vector, keyword, found)
  OBVIOUS
<1>4. PICK score : score = [i \in 1..n |-> RrfScore(vector, keyword, found[i])]
  OBVIOUS
<1>5. score \in [1..n -> Fractions]
  <2>1. \A id : RankIn(vector, id) \in Nat /\ RankIn(keyword, id) \in Nat
    BY RankOf
  <2>2. \A id : Part(RankIn(vector, id)) \in Fractions /\ Part(RankIn(keyword, id)) \in Fractions
    BY <2>1, PartsAre
  <2>3. \A id : RrfScore(vector, keyword, id) \in Fractions
    BY <2>2, PlusIs DEF RrfScore
  <2> QED BY <1>4, <2>3
<1>6. \A i, j \in 1..n : <<i, j>> \in greater <=> Exceeds(score[i], score[j])
  BY <1>2, <1>3, <1>4 DEF ByScore, PlacePairs
<1>7. Keyed(greater, n)
  BY <1>5, <1>6, FractionsKey
<1>8. PICK at \in Places(n) : SortedBy(found, greater, at)
  BY <1>2, <1>7, SortedIs
<1>9. PICK s : s = Sorted(found, greater)
  OBVIOUS
<1>10. /\ s \in Seq(Ids) /\ Len(s) = n /\ Range(s) = Range(found)
       /\ IsInjective(s)
  BY <1>1, <1>2, <1>8, <1>9, SortedHas
<1>11. \A m \in 1..n : at[m] \in 1..n
  BY <1>2, <1>8, SortedHas
<1>12. \A m \in 1..n : s[m] = found[at[m]]
  BY <1>2, <1>8, <1>9 DEF SortedBy
<1>13. ASSUME NEW l \in 1..n, NEW m \in 1..n,
              Exceeds(RrfScore(vector, keyword, s[l]), RrfScore(vector, keyword, s[m]))
       PROVE  l < m
  <2>1. at[l] \in 1..n /\ at[m] \in 1..n /\ Exceeds(score[at[l]], score[at[m]])
    BY <1>4, <1>11, <1>12, <1>13
  <2>2. Precedes(greater, at[l], at[m])
    BY <1>6, <2>1 DEF Precedes
  <2> QED BY <1>2, <1>8, <2>2 DEF SortedBy
<1> QED BY <1>1, <1>3, <1>9, <1>10, <1>13

\* Two searches of any size, of which neither returns more than 61 items, are fused fairly.
THEOREM EveryFusionFair ==
    ASSUME NEW Ids, NEW vector \in Seq(Ids), NEW keyword \in Seq(Ids),
           IsInjective(vector), IsInjective(keyword),
           Len(vector) <= RrfK + 1, Len(keyword) <= RrfK + 1, NEW topN \in Nat
    PROVE  FusionFair(vector, keyword, topN, RrfFuse(vector, keyword, topN))
<1>1. PICK s \in Seq(Ids) :
              /\ s = Sorted(FoundBy(vector, keyword),
                            ByScore(vector, keyword, FoundBy(vector, keyword)))
              /\ IsInjective(s) /\ Range(s) = Range(vector) \union Range(keyword)
              /\ \A l, m \in 1..Len(s) :
                    Exceeds(RrfScore(vector, keyword, s[l]), RrfScore(vector, keyword, s[m])) => l < m
  BY FusionSorted
<1>2. PICK all : all = Range(vector) \union Range(keyword)
  OBVIOUS
<1>3. PICK n \in Nat : n = Len(s) /\ DOMAIN s = 1..n
  BY ListHas
<1>4. PICK k \in 0..Len(s) :
                        /\ First(topN, s) \in Seq(Ids) /\ Len(First(topN, s)) = k
                        /\ DOMAIN First(topN, s) = 1..k /\ \A i \in 1..k : First(topN, s)[i] = s[i]
                        /\ IsInjective(First(topN, s)) /\ Len(First(topN, s)) = Min({topN, Len(s)})
  BY <1>1, FirstOf
<1>5. PICK result : result = RrfFuse(vector, keyword, topN)
  OBVIOUS
<1>6. PICK ids : ids = First(topN, s)
  OBVIOUS
<1>7. ids \in Seq(Ids) /\ Len(ids) = k /\ DOMAIN ids = 1..k /\ IsInjective(ids)
  BY <1>4, <1>6
<1>8. \A i \in 1..k : i \in 1..n /\ ids[i] = s[i]
  <2>1. k \in 0..n
    BY <1>3, <1>4
  <2>2. \A i \in 1..k : i \in 1..n
    BY <2>1
  <2> QED BY <1>4, <1>6, <2>2
<1>9. result = [i \in 1..k |-> [id |-> ids[i], vectorRank |-> RankIn(vector, ids[i]),
                                keywordRank |-> RankIn(keyword, ids[i])]]
  BY <1>1, <1>5, <1>6, <1>7 DEF RrfFuse
<1>10. [i \in DOMAIN result |-> result[i].id] = ids
  <2>1. [i \in DOMAIN result |-> result[i].id] = [i \in 1..k |-> ids[i]]
    BY <1>9
  <2>2. ids = [i \in 1..k |-> ids[i]]
    BY <1>7
  <2> QED BY <2>1, <2>2
<1>11. Range(ids) \subseteq all
  <2>1. ASSUME NEW t \in Range(ids) PROVE t \in Range(s)
    <3>1. PICK i \in 1..k : t = ids[i]
      BY <1>7 DEF Range
    <3>2. i \in 1..n /\ t = s[i]
      BY <1>8, <3>1
    <3> QED BY <1>3, <3>2 DEF Range
  <2> QED BY <1>1, <1>2, <2>1
<1>12. Cardinality(Range(ids)) = Len(ids)
  BY <1>7, ItemsCounted
<1>13. Len(ids) = Min({topN, Cardinality(all)})
  <2>1. Cardinality(all) = n
    BY <1>1, <1>2, <1>3, ItemsCounted
  <2> QED BY <1>3, <1>4, <1>6, <2>1
<1>14. ASSUME NEW b \in Range(ids), NEW a \in all, Over(vector, keyword, a, b)
       PROVE  a \in Range(ids) /\ RankIn(ids, a) < RankIn(ids, b)
  <2>1. PICK m \in 1..k : b = ids[m]
    BY <1>7 DEF Range
  <2>2. PICK l \in 1..n : a = s[l]
    BY <1>1, <1>2, <1>3 DEF Range
  <2>3. m \in 1..n /\ b = s[m]
    BY <1>8, <2>1
  <2>4. b \in Range(vector) \union Range(keyword)
    BY <1>2, <1>11
  <2>5. Exceeds(RrfScore(vector, keyword, a), RrfScore(vector, keyword, b))
    BY <1>14, <2>4, OverScores
  <2>6. l < m
    BY <1>1, <1>3, <2>2, <2>3, <2>5
  <2>7. l \in 1..k /\ a = ids[l]
    BY <1>8, <2>2, <2>6
  <2>8. a \in Range(ids)
    BY <1>7, <2>7 DEF Range
  <2>9. RankIn(ids, ids[l]) = l /\ RankIn(ids, ids[m]) = m
    BY <1>7, <2>7, RankOf
  <2> QED BY <2>1, <2>6, <2>7, <2>8, <2>9
<1>15. FusionFair(vector, keyword, topN, result)
  BY <1>2, <1>10, <1>11, <1>12, <1>13, <1>14, Zenon DEF FusionFair, Over
<1> QED BY <1>5, <1>15

-----------------------------------------------------------------------------
(* The truncation                                                          *)

\* The sum of some of the numbers.
Count(s, P) == Cardinality(Units(s, P))

\* Sums add up over places that are told apart.
LEMMA UnitsAdd ==
    ASSUME NEW n \in Nat, NEW s \in [1..n -> Nat]
    PROVE  /\ \A P \in SUBSET (1..n) : IsFiniteSet(Units(s, P)) /\ Count(s, P) \in Nat
           /\ \A P, Q \in SUBSET (1..n) :
                P \intersect Q = {} => Count(s, P \union Q) = Count(s, P) + Count(s, Q)
           /\ \A i \in 1..n : Count(s, {i}) = s[i]
           /\ Count(s, {}) = 0
<1>1. \A k \in Nat : IsFiniteSet(1..k) /\ Cardinality(1..k) = k
  BY FS_Interval
<1>2. ASSUME NEW i \in 1..n
      PROVE  IsFiniteSet({i} \X (1..s[i])) /\ Cardinality({i} \X (1..s[i])) = s[i]
  <2>1. PICK k \in Nat : k = s[i]
    OBVIOUS
  <2>2. IsFiniteSet({i}) /\ Cardinality({i}) = 1
    BY FS_Singleton
  <2>3. IsFiniteSet(1..k) /\ Cardinality(1..k) = k
    BY <1>1
  <2>4. /\ IsFiniteSet({i} \X (1..k))
        /\ Cardinality({i} \X (1..k)) = Cardinality({i}) * Cardinality(1..k)
    BY <2>2, <2>3, FS_Product, Zenon
  <2>5. Cardinality({i} \X (1..k)) = k
    BY <2>2, <2>3, <2>4
  <2> QED BY <2>1, <2>4, <2>5
<1>3. ASSUME NEW P \in SUBSET (1..n) PROVE IsFiniteSet(Units(s, P)) /\ Count(s, P) \in Nat
  <2>1. IsFiniteSet(P)
    BY <1>1, FS_Subset
  <2>2. PICK f : f = [i \in P |-> {i} \X (1..s[i])]
    OBVIOUS
  <2>3. PICK W : W = {{i} \X (1..s[i]) : i \in P}
    OBVIOUS
  <2>4. f \in Surjection(P, W)
    BY <2>2, <2>3 DEF Surjection
  <2>5. IsFiniteSet(W)
    BY <2>1, <2>4, FS_Surjection
  <2>6. \A w \in W : IsFiniteSet(w)
    BY <1>2, <2>3
  <2>7. IsFiniteSet(UNION W)
    BY <2>5, <2>6, FS_UNION
  <2>8. UNION W = Units(s, P)
    BY <2>3 DEF Units
  <2>9. IsFiniteSet(Units(s, P))
    BY <2>7, <2>8, Zenon
  <2>10. Cardinality(Units(s, P)) \in Nat
    BY <2>9, FS_CardinalityType
  <2> QED BY <2>9, <2>10 DEF Count
<1>4. ASSUME NEW P \in SUBSET (1..n), NEW Q \in SUBSET (1..n), P \intersect Q = {}
      PROVE  Count(s, P \union Q) = Count(s, P) + Count(s, Q)
  <2>1. Units(s, P \union Q) = Units(s, P) \union Units(s, Q)
    BY DEF Units
  <2>2. Units(s, P) \intersect Units(s, Q) = {}
    <3>1. \A u \in Units(s, P) : u[1] \in P
      BY DEF Units
    <3>2. \A u \in Units(s, Q) : u[1] \in Q
      BY DEF Units
    <3> QED BY <1>4, <3>1, <3>2
  <2>3. IsFiniteSet(Units(s, P)) /\ IsFiniteSet(Units(s, Q))
    BY <1>3
  <2>4. Cardinality(Units(s, P) \union Units(s, Q)) =
          Cardinality(Units(s, P)) + Cardinality(Units(s, Q)) - Cardinality({})
    BY <2>2, <2>3, FS_Union
  <2>5. Cardinality({}) = 0
    BY FS_EmptySet
  <2>6. Cardinality(Units(s, P)) \in Nat /\ Cardinality(Units(s, Q)) \in Nat
    BY <2>3, FS_CardinalityType
  <2>7. Cardinality(Units(s, P) \union Units(s, Q)) = Cardinality(Units(s, P)) + Cardinality(Units(s, Q))
    BY <2>4, <2>5, <2>6
  <2>8. Cardinality(Units(s, P \union Q)) = Cardinality(Units(s, P)) + Cardinality(Units(s, Q))
    BY <2>1, <2>7
  <2> QED BY <2>8, Zenon DEF Count
<1>5. ASSUME NEW i \in 1..n PROVE Count(s, {i}) = s[i]
  <2>1. Units(s, {i}) = {i} \X (1..s[i])
    BY DEF Units
  <2> QED BY <1>2, <2>1 DEF Count
<1>6. Count(s, {}) = 0
  <2>1. Units(s, {}) = {}
    BY DEF Units
  <2> QED BY <2>1, FS_EmptySet DEF Count
<1> QED BY <1>3, <1>4, <1>5, <1>6

LEMMA CountBoth ==
    ASSUME NEW n \in Nat, NEW s \in [1..n -> Nat], NEW P \in SUBSET (1..n), NEW Q \in SUBSET (1..n),
           P \intersect Q = {}
    PROVE  Count(s, P \union Q) = Count(s, P) + Count(s, Q)
BY UnitsAdd

\* A sum does not depend on where its numbers stand.
Moves(f, s, P, r, Q) == f \in Bijection(P, Q) /\ \A i \in P : r[f[i]] = s[i]

LEMMA CountMoved ==
    ASSUME NEW m \in Nat, NEW s \in [1..m -> Nat], NEW P \in SUBSET (1..m),
           NEW n \in Nat, NEW r \in [1..n -> Nat], NEW Q \in SUBSET (1..n),
           NEW f, Moves(f, s, P, r, Q)
    PROVE  Count(s, P) = Count(r, Q)
<1>1. /\ \A i \in P : f[i] \in Q
      /\ \A j \in Q : \E i \in P : f[i] = j
      /\ \A i, j \in P : f[i] = f[j] => i = j
      /\ \A i \in P : r[f[i]] = s[i]
  BY DEF Moves, Bijection, Injection, Surjection, IsInjective
<1>2. /\ \A u : u \in Units(s, P) <=> \E i \in P : \E k \in 1..s[i] : u = <<i, k>>
      /\ \A u : u \in Units(r, Q) <=> \E j \in Q : \E k \in 1..r[j] : u = <<j, k>>
  BY DEF Units
<1>3. PICK g : g = [u \in Units(s, P) |-> <<f[u[1]], u[2]>>]
  OBVIOUS
<1>4. g \in [Units(s, P) -> Units(r, Q)]
  <2>1. ASSUME NEW u \in Units(s, P) PROVE <<f[u[1]], u[2]>> \in Units(r, Q)
    <3>1. PICK i \in P, k \in Nat : k \in 1..s[i] /\ u = <<i, k>>
      BY <1>2
    <3>2. f[i] \in Q /\ k \in 1..r[f[i]] /\ <<f[u[1]], u[2]>> = <<f[i], k>>
      BY <1>1, <3>1
    <3> QED BY <1>2, <3>2
  <2> QED BY <1>3, <2>1
<1>5. ASSUME NEW u \in Units(s, P), NEW v \in Units(s, P), g[u] = g[v] PROVE u = v
  <2>1. PICK i \in P, k \in Nat : k \in 1..s[i] /\ u = <<i, k>>
    BY <1>2
  <2>2. PICK j \in P, l \in Nat : l \in 1..s[j] /\ v = <<j, l>>
    BY <1>2
  <2>3. <<f[i], k>> = <<f[j], l>>
    BY <1>3, <1>5, <2>1, <2>2
  <2> QED BY <1>1, <2>1, <2>2, <2>3
<1>6. ASSUME NEW v \in Units(r, Q) PROVE \E u \in Units(s, P) : g[u] = v
  <2>1. PICK j \in Q, k \in Nat : k \in 1..r[j] /\ v = <<j, k>>
    BY <1>2
  <2>2. PICK i \in P : f[i] = j
    BY <1>1
  <2>3. k \in 1..s[i]
    BY <1>1, <2>1, <2>2
  <2>4. <<i, k>> \in Units(s, P)
    BY <1>2, <2>3
  <2>5. g[<<i, k>>] = v
    BY <1>3, <2>1, <2>2, <2>4
  <2> QED BY <2>4, <2>5
<1>7. g \in Bijection(Units(s, P), Units(r, Q))
  BY <1>4, <1>5, <1>6 DEF Bijection, Injection, Surjection, IsInjective
<1>8. IsFiniteSet(Units(s, P))
  BY UnitsAdd
<1>9. ExistsBijection(Units(s, P), Units(r, Q))
  BY <1>7 DEF ExistsBijection
<1>10. Cardinality(Units(r, Q)) = Cardinality(Units(s, P))
  BY <1>8, <1>9, FS_Bijection
<1> QED BY <1>10 DEF Count

LEMMA CountSame ==
    ASSUME NEW s, NEW r, NEW P, \A i \in P : s[i] = r[i]
    PROVE  Count(s, P) = Count(r, P)
<1>1. {{i} \X (1..s[i]) : i \in P} = {{i} \X (1..r[i]) : i \in P}
  OBVIOUS
<1> QED BY <1>1 DEF Count, Units

\* The sums over the first places grow, number by number.
LEMMA CountGrows ==
    ASSUME NEW n \in Nat, NEW s \in [1..n -> Nat]
    PROVE  /\ \A k \in 0..n : Count(s, 1..k) \in Nat
           /\ Count(s, 1..0) = 0
           /\ \A k \in 1..n : Count(s, 1..k) = Count(s, 1..(k - 1)) + s[k]
           /\ \A k, l \in 0..n : k <= l => Count(s, 1..k) <= Count(s, 1..l)
<1>1. \A k \in 0..n : 1..k \in SUBSET (1..n)
  OBVIOUS
<1>2. \A k \in 0..n : Count(s, 1..k) \in Nat
  BY <1>1, UnitsAdd
<1>3. Count(s, 1..0) = 0
  <2>1. 1..0 = {}
    OBVIOUS
  <2> QED BY <2>1, UnitsAdd
<1>4. ASSUME NEW k \in 1..n PROVE Count(s, 1..k) = Count(s, 1..(k - 1)) + s[k]
  <2>1. PICK P : P = 1..(k - 1)
    OBVIOUS
  <2>2. P \in SUBSET (1..n) /\ {k} \in SUBSET (1..n) /\ P \intersect {k} = {} /\ P \union {k} = 1..k
    BY <2>1
  <2>5. PICK Q : Q = {k}
    OBVIOUS
  <2>6. P \in SUBSET (1..n) /\ Q \in SUBSET (1..n) /\ P \intersect Q = {}
    BY <2>2, <2>5
  <2>7. Count(s, P \union Q) = Count(s, P) + Count(s, Q)
    BY <2>6, UnitsAdd
  <2>3. Count(s, P \union {k}) = Count(s, P) + Count(s, {k})
    BY <2>5, <2>7
  <2>4. Count(s, {k}) = s[k]
    BY UnitsAdd
  <2> QED BY <2>1, <2>2, <2>3, <2>4
<1>5. ASSUME NEW k \in 0..n, NEW l \in 0..n, k <= l PROVE Count(s, 1..k) <= Count(s, 1..l)
  <2>1. PICK P : P = 1..k
    OBVIOUS
  <2>2. PICK Q : Q = (k + 1)..l
    OBVIOUS
  <2>3. P \in SUBSET (1..n) /\ Q \in SUBSET (1..n) /\ P \intersect Q = {} /\ P \union Q = 1..l
    BY <1>5, <2>1, <2>2
  <2>4. Count(s, P \union Q) = Count(s, P) + Count(s, Q)
    BY <2>3, UnitsAdd
  <2>5. Count(s, P) \in Nat /\ Count(s, Q) \in Nat
    BY <2>3, UnitsAdd
  <2>6. Count(s, 1..l) = Count(s, P) + Count(s, Q)
    BY <2>3, <2>4
  <2>7. Count(s, 1..k) = Count(s, P)
    BY <2>1
  <2>8. Count(s, P) <= Count(s, P) + Count(s, Q)
    BY <2>5
  <2> QED BY <2>6, <2>7, <2>8
<1> QED BY <1>2, <1>3, <1>4, <1>5

LEMMA CountLast ==
    ASSUME NEW n \in Nat, n > 1, NEW s \in [1..n -> Nat]
    PROVE  Count(s, 2..n) = Count(s, 2..(n - 1)) + s[n]
<1>1. PICK P : P = 2..(n - 1)
  OBVIOUS
<1>2. PICK Q : Q = {n}
  OBVIOUS
<1>3. P \in SUBSET (1..n) /\ Q \in SUBSET (1..n) /\ P \intersect Q = {} /\ P \union Q = 2..n
  BY <1>1, <1>2
<1>4. Count(s, P \union Q) = Count(s, P) + Count(s, Q)
  <2>1. P \in SUBSET (1..n)
    BY <1>3
  <2>2. Q \in SUBSET (1..n)
    BY <1>3
  <2>3. P \intersect Q = {}
    BY <1>3
  <2> QED BY <2>1, <2>2, <2>3, CountBoth
<1>5. Count(s, {n}) = s[n]
  BY UnitsAdd
<1> QED BY <1>1, <1>2, <1>3, <1>4, <1>5

\* What is left of the first number when the others are taken from it.
Left(s) ==
    IF Count(s, 2..Len(s)) <= s[1] THEN s[1] - Count(s, 2..Len(s)) ELSE 0
Rest(s) == IF Len(s) <= 1 THEN s[1] ELSE Left(s)

\* One more asks: it takes what it asks, or all that is left.
LEMMA LeftStep ==
    ASSUME NEW n \in Nat, n > 1, NEW s \in Seq(Nat), Len(s) = n
    PROVE  /\ SubSeq(s, 1, n - 1) \in Seq(Nat) /\ Len(SubSeq(s, 1, n - 1)) = n - 1
           /\ Rest(SubSeq(s, 1, n - 1)) \in Nat
           /\ Rest(s) = Rest(SubSeq(s, 1, n - 1)) - Min({s[n], Rest(SubSeq(s, 1, n - 1))})
<1>1. s \in [1..n -> Nat] /\ n - 1 \in Nat /\ 1 \in 1..n /\ n \in 1..n /\ s[1] \in Nat /\ s[n] \in Nat
  OBVIOUS
<1>2. PICK m \in Nat : m = n - 1
  BY <1>1
<1>3. PICK t : t = SubSeq(s, 1, m)
  OBVIOUS
<1>4. t \in Seq(Nat) /\ Len(t) = m /\ t \in [1..m -> Nat] /\ \A i \in 1..m : t[i] = s[i]
  <2>1. t = [i \in 1..m |-> s[i]]
    BY <1>1, <1>2, <1>3
  <2>2. t \in [1..m -> Nat]
    BY <1>1, <1>2, <2>1
  <2> QED BY <1>2, <2>1, <2>2
<1>5. PICK a \in Nat : a = Count(s, 2..m)
  <2>1. 2..m \in SUBSET (1..n)
    BY <1>2
  <2> QED BY <1>1, <2>1, UnitsAdd
<1>6. Count(t, 2..m) = a
  <2>1. \A i \in 2..m : t[i] = s[i]
    BY <1>4
  <2> QED BY <1>5, <2>1, CountSame
<1>7. Count(s, 2..n) = a + s[n]
  BY <1>1, <1>2, <1>5, CountLast
<1>8. PICK l \in Nat : l = Rest(t) /\ l = IF a <= s[1] THEN s[1] - a ELSE 0
  <2>1. CASE m = 1
    <3>1. 2..m = {}
      BY <2>1
    <3>2. a = 0
      BY <1>1, <1>5, <3>1, UnitsAdd
    <3> QED BY <1>1, <1>4, <2>1, <3>2 DEF Rest
  <2>2. CASE m > 1
    <3>1. Rest(t) = Left(t) /\ t[1] = s[1]
      BY <1>4, <2>2 DEF Rest
    <3>2. Left(t) = IF a <= s[1] THEN s[1] - a ELSE 0
      BY <1>4, <1>6, <3>1 DEF Left
    <3> QED BY <1>1, <3>1, <3>2
  <2> QED BY <1>2, <2>1, <2>2
<1>9. Rest(s) = IF a + s[n] <= s[1] THEN s[1] - (a + s[n]) ELSE 0
  BY <1>7 DEF Rest, Left
<1>10. Min({s[n], l}) = IF s[n] <= l THEN s[n] ELSE l
  BY <1>1, <1>8, MinOfTwo
<1>11. Rest(s) = l - Min({s[n], l})
  BY <1>1, <1>8, <1>9, <1>10
<1> QED BY <1>2, <1>3, <1>4, <1>8, <1>11

\* So the recursion is well defined, and is what is left.
LEMMA RemainingIs ==
    ASSUME NEW s \in Seq(Nat), Len(s) > 0
    PROVE  Remaining[s] = Rest(s)
<1> DEFINE Step(f, t) ==
             IF Len(t) <= 1 THEN t[1]
             ELSE f[SubSeq(t, 1, Len(t) - 1)] - Min({t[Len(t)], f[SubSeq(t, 1, Len(t) - 1)]})
<1>1. PICK f : f = [t \in Seq(Nat) |-> Rest(t)]
  OBVIOUS
<1>2. ASSUME NEW t \in Seq(Nat) PROVE Rest(t) = Step(f, t)
  <2>1. PICK n \in Nat : n = Len(t)
    OBVIOUS
  <2>2. CASE n <= 1
    BY <2>1, <2>2 DEF Rest
  <2>3. CASE n > 1
    <3>1. /\ SubSeq(t, 1, n - 1) \in Seq(Nat)
          /\ Rest(t) = Rest(SubSeq(t, 1, n - 1)) - Min({t[n], Rest(SubSeq(t, 1, n - 1))})
      BY <2>1, <2>3, LeftStep
    <3>2. f[SubSeq(t, 1, n - 1)] = Rest(SubSeq(t, 1, n - 1))
      BY <1>1, <3>1
    <3> QED BY <2>1, <2>3, <3>1, <3>2
  <2> QED BY <2>1, <2>2, <2>3
<1>3. f = [t \in Seq(Nat) |-> Step(f, t)]
  <2>1. \A t \in Seq(Nat) : Rest(t) = Step(f, t)
    BY <1>2
  <2> HIDE DEF Step
  <2> QED BY <1>1, <2>1
<1>4. Remaining = [t \in Seq(Nat) |-> Step(Remaining, t)]
  <2>1. Remaining = CHOOSE g : g = [t \in Seq(Nat) |-> Step(g, t)]
    BY DEF Remaining
  <2>2. \E g : g = [t \in Seq(Nat) |-> Step(g, t)]
    BY <1>3
  <2> QED BY <2>1, <2>2, Zenon
<1>5. \A t \in Seq(Nat) : Remaining[t] = Step(Remaining, t)
  <2> HIDE DEF Step
  <2> QED BY <1>4
<1>6. PICK Bad : Bad = {n \in Nat : \E t \in Seq(Nat) : Len(t) = n /\ n > 0 /\ Remaining[t] # Rest(t)}
  OBVIOUS
<1>7. Bad = {}
  <2> SUFFICES ASSUME Bad # {} PROVE FALSE
    OBVIOUS
  <2>1. PICK n \in Bad : \A m \in Bad : n <= m
    BY <1>6, SmallestOf
  <2>2. PICK t \in Seq(Nat) : n \in Nat /\ Len(t) = n /\ n > 0 /\ Remaining[t] # Rest(t)
    BY <1>6
  <2>3. n > 1
    <3> SUFFICES ASSUME n <= 1 PROVE FALSE
      BY <2>2
    <3>1. Remaining[t] = Step(Remaining, t)
      BY <1>5, <2>2
    <3>2. Remaining[t] = t[1] /\ Rest(t) = t[1]
      BY <2>2, <3>1 DEF Rest
    <3> QED BY <2>2, <3>2
  <2>4. /\ SubSeq(t, 1, n - 1) \in Seq(Nat) /\ Len(SubSeq(t, 1, n - 1)) = n - 1
        /\ Rest(t) = Rest(SubSeq(t, 1, n - 1)) - Min({t[n], Rest(SubSeq(t, 1, n - 1))})
    BY <2>2, <2>3, LeftStep
  <2>5. Remaining[SubSeq(t, 1, n - 1)] = Rest(SubSeq(t, 1, n - 1))
    <3>1. n - 1 \in Nat /\ n - 1 > 0 /\ n - 1 \notin Bad
      BY <2>1, <2>2, <2>3
    <3> QED BY <1>6, <2>4, <3>1
  <2>6. Remaining[t] = Step(Remaining, t)
    BY <1>5, <2>2
  <2>7. Remaining[t] = Remaining[SubSeq(t, 1, n - 1)] - Min({t[n], Remaining[SubSeq(t, 1, n - 1)]})
    BY <2>2, <2>3, <2>6
  <2> QED BY <2>2, <2>4, <2>5, <2>7
<1>8. Len(s) \in Nat
  OBVIOUS
<1> QED BY <1>6, <1>7, <1>8

\* What one of the asking is given: what it asks, or what those before it left.
Takes(given, asks, budget, k) ==
    \E left \in Nat :
        /\ left = IF Count(asks, 1..(k - 1)) <= budget THEN budget - Count(asks, 1..(k - 1)) ELSE 0
        /\ given[k] = IF asks[k] <= left THEN asks[k] ELSE left

LEMMA TakenIs ==
    ASSUME NEW n \in Nat, NEW asks \in [1..n -> Nat], NEW budget \in Nat, NEW k \in 1..n
    PROVE  Takes(TakenBy(asks, budget), asks, budget, k)
<1>1. k - 1 \in Nat /\ k - 1 \in 0..n /\ asks[k] \in Nat
  OBVIOUS
<1>2. PICK t : t = SubSeq(asks, 1, k - 1)
  OBVIOUS
<1>3. t \in Seq(Nat) /\ Len(t) = k - 1 /\ \A i \in 1..(k - 1) : t[i] = asks[i]
  <2>1. t = [i \in 1..(k - 1) |-> asks[i]]
    BY <1>1, <1>2
  <2>2. t \in [1..(k - 1) -> Nat]
    BY <2>1
  <2> QED BY <1>1, <2>1, <2>2
<1>4. PICK r : r = <<budget>> \o t
  OBVIOUS
<1>5. r \in Seq(Nat) /\ Len(r) = k /\ r[1] = budget /\ \A i \in 1..(k - 1) : r[i + 1] = t[i]
  BY <1>1, <1>3, <1>4
<1>6. r \in [1..k -> Nat]
  BY <1>5
<1>7. Count(r, 2..k) = Count(asks, 1..(k - 1))
  <2>1. PICK P : P = 1..(k - 1)
    OBVIOUS
  <2>2. PICK Q : Q = 2..k
    OBVIOUS
  <2>3. PICK f : f = [i \in P |-> i + 1]
    OBVIOUS
  <2>4. f \in Bijection(P, Q)
    <3>1. f \in [P -> Q] /\ \A i, j \in P : f[i] = f[j] => i = j
      BY <2>1, <2>2, <2>3
    <3>2. ASSUME NEW j \in Q PROVE \E i \in P : f[i] = j
      <4>1. j - 1 \in P /\ f[j - 1] = j
        BY <2>1, <2>2, <2>3
      <4> QED BY <4>1
    <3> QED BY <3>1, <3>2 DEF Bijection, Injection, Surjection, IsInjective
  <2>5. \A i \in P : r[f[i]] = asks[i]
    BY <1>3, <1>5, <2>1, <2>3
  <2>6. P \in SUBSET (1..n)
    BY <2>1
  <2>7. Q \in SUBSET (1..k)
    BY <2>2
  <2>8. Moves(f, asks, P, r, Q)
    BY <2>4, <2>5 DEF Moves
  <2>9. Count(asks, P) = Count(r, Q)
    <3>1. k \in Nat
      OBVIOUS
    <3> QED BY <1>6, <2>6, <2>7, <2>8, <3>1, CountMoved, SMTT(20)
  <2> QED BY <2>1, <2>2, <2>9
<1>8. Count(asks, 1..(k - 1)) \in Nat
  BY <1>1, CountGrows
<1>9. Remaining[r] = Rest(r)
  BY <1>5, RemainingIs
<1>10. PICK left \in Nat :
         left = Remaining[r] /\ left = IF Count(asks, 1..(k - 1)) <= budget
                                       THEN budget - Count(asks, 1..(k - 1)) ELSE 0
  <2>1. CASE k = 1
    <3>1. Rest(r) = budget
      BY <1>5, <2>1 DEF Rest
    <3>2. Count(asks, 1..0) = 0
      BY CountGrows
    <3> QED BY <1>9, <2>1, <3>1, <3>2
  <2>2. CASE k > 1
    <3>1. Rest(r) = Left(r)
      BY <1>5, <2>2 DEF Rest
    <3>2. Left(r) = IF Count(asks, 1..(k - 1)) <= budget THEN budget - Count(asks, 1..(k - 1)) ELSE 0
      BY <1>5, <1>7 DEF Left
    <3> QED BY <1>8, <1>9, <3>1, <3>2
  <2> QED BY <2>1, <2>2
<1>11. TakenBy(asks, budget)[k] = Min({asks[k], left})
  <2>1. TakenBy(asks, budget)[k] = Min({asks[k], Remaining[<<budget>> \o SubSeq(asks, 1, k - 1)]})
    BY DEF TakenBy
  <2> QED BY <1>2, <1>4, <1>10, <2>1
<1>12. Min({asks[k], left}) = IF asks[k] <= left THEN asks[k] ELSE left
  BY <1>1, MinOfTwo
<1> QED BY <1>10, <1>11, <1>12 DEF Takes

\* The budget is taken as far as it goes, and who got less than it asked for was the last.
LEMMA TakenWhole ==
    ASSUME NEW n \in Nat, NEW asks \in [1..n -> Nat], NEW budget \in Nat
    PROVE  \E given \in [1..n -> Nat] :
              /\ given = TakenBy(asks, budget)
              /\ \A k \in 1..n : given[k] <= asks[k]
              /\ Count(given, 1..n) = Min({budget, Count(asks, 1..n)})
              /\ \A k, l \in 1..n : k < l /\ given[k] < asks[k] => given[l] = 0
<1>1. PICK given : given = TakenBy(asks, budget)
  OBVIOUS
<1>2. \A k \in 1..n : \E left \in Nat :
         /\ left = IF Count(asks, 1..(k - 1)) <= budget THEN budget - Count(asks, 1..(k - 1)) ELSE 0
         /\ given[k] = IF asks[k] <= left THEN asks[k] ELSE left
  <2>1. ASSUME NEW k \in 1..n
        PROVE  \E left \in Nat :
                  /\ left = IF Count(asks, 1..(k - 1)) <= budget THEN budget - Count(asks, 1..(k - 1)) ELSE 0
                  /\ given[k] = IF asks[k] <= left THEN asks[k] ELSE left
    <3>1. Takes(given, asks, budget, k)
      BY <1>1, TakenIs
    <3> QED BY <3>1 DEF Takes
  <2> QED BY <2>1, Zenon
<1>3. \A k \in 1..n : asks[k] \in Nat /\ given[k] \in Nat /\ given[k] <= asks[k]
  BY <1>2
<1>4. given \in [1..n -> Nat]
  <2>1. given = [k \in 1..n |-> Min({asks[k], Remaining[<<budget>> \o SubSeq(asks, 1, k - 1)]})]
    BY <1>1 DEF TakenBy
  <2> QED BY <1>3, <2>1
<1>5. PICK a : a = [k \in 0..n |-> Count(asks, 1..k)]
  OBVIOUS
<1>6. PICK g : g = [k \in 0..n |-> Count(given, 1..k)]
  OBVIOUS
<1>7. /\ \A k \in 0..n : a[k] \in Nat
      /\ a[0] = 0
      /\ \A k \in 1..n : k - 1 \in 0..n /\ a[k] = a[k - 1] + asks[k]
      /\ \A k, l \in 0..n : k <= l => a[k] <= a[l]
  <2>1. /\ \A k \in 0..n : Count(asks, 1..k) \in Nat
        /\ Count(asks, 1..0) = 0
        /\ \A k \in 1..n : Count(asks, 1..k) = Count(asks, 1..(k - 1)) + asks[k]
        /\ \A k, l \in 0..n : k <= l => Count(asks, 1..k) <= Count(asks, 1..l)
    BY CountGrows
  <2>2. \A k \in 1..n : k - 1 \in 0..n
    OBVIOUS
  <2> QED BY <1>5, <2>1, <2>2
<1>8. /\ \A k \in 0..n : g[k] \in Nat
      /\ g[0] = 0
      /\ \A k \in 1..n : g[k] = g[k - 1] + given[k]
  <2>1. /\ \A k \in 0..n : Count(given, 1..k) \in Nat
        /\ Count(given, 1..0) = 0
        /\ \A k \in 1..n : Count(given, 1..k) = Count(given, 1..(k - 1)) + given[k]
    BY <1>4, CountGrows
  <2>2. \A k \in 1..n : k - 1 \in 0..n
    OBVIOUS
  <2> QED BY <1>6, <2>1, <2>2
<1>9. \A k \in 1..n : \E left \in Nat :
         /\ left = IF a[k - 1] <= budget THEN budget - a[k - 1] ELSE 0
         /\ given[k] = IF asks[k] <= left THEN asks[k] ELSE left
  BY <1>2, <1>5, <1>7
<1>10. PICK Bad : Bad = {k \in 0..n : g[k] # IF budget <= a[k] THEN budget ELSE a[k]}
  OBVIOUS
<1>11. Bad = {}
  <2> SUFFICES ASSUME Bad # {} PROVE FALSE
    OBVIOUS
  <2>1. Bad \in SUBSET Nat
    BY <1>10
  <2>2. PICK k \in Bad : \A j \in Bad : k <= j
    BY <2>1, SmallestOf
  <2>3. k \in 0..n /\ g[k] # IF budget <= a[k] THEN budget ELSE a[k]
    BY <1>10
  <2>4. k \in 1..n
    BY <1>7, <1>8, <2>3
  <2>5. k - 1 \in 0..n /\ k - 1 \notin Bad
    BY <2>2, <2>4
  <2>6. g[k - 1] = IF budget <= a[k - 1] THEN budget ELSE a[k - 1]
    BY <1>10, <2>5
  <2>7. PICK left \in Nat :
          /\ left = IF a[k - 1] <= budget THEN budget - a[k - 1] ELSE 0
          /\ given[k] = IF asks[k] <= left THEN asks[k] ELSE left
    BY <1>9, <2>4
  <2>8. /\ g[k] = g[k - 1] + given[k] /\ a[k] = a[k - 1] + asks[k]
        /\ a[k - 1] \in Nat /\ g[k - 1] \in Nat /\ asks[k] \in Nat /\ given[k] \in Nat
    BY <1>3, <1>7, <1>8, <2>4, <2>5
  <2>9. CASE a[k - 1] <= budget
    <3>1. left = budget - a[k - 1] /\ g[k - 1] = a[k - 1]
      BY <2>6, <2>7, <2>8, <2>9
    <3>2. g[k] = IF asks[k] <= left THEN a[k - 1] + asks[k] ELSE a[k - 1] + left
      BY <2>7, <2>8, <3>1
    <3>3. asks[k] <= left <=> a[k] <= budget
      BY <2>8, <3>1
    <3>4. CASE asks[k] <= left
      BY <2>3, <2>8, <3>2, <3>3, <3>4
    <3>5. CASE ~(asks[k] <= left)
      BY <2>3, <2>8, <3>1, <3>2, <3>3, <3>5
    <3> QED BY <3>4, <3>5
  <2>10. CASE a[k - 1] > budget
    <3>1. given[k] = 0 /\ g[k - 1] = budget
      BY <2>6, <2>7, <2>8, <2>10
    <3> QED BY <2>3, <2>8, <2>10, <3>1
  <2> QED BY <2>8, <2>9, <2>10
<1>12. Count(given, 1..n) = Min({budget, Count(asks, 1..n)})
  <2>1. g[n] = IF budget <= a[n] THEN budget ELSE a[n]
    BY <1>10, <1>11
  <2>2. a[n] \in Nat
    BY <1>7
  <2>3. Min({budget, a[n]}) = IF budget <= a[n] THEN budget ELSE a[n]
    BY <2>2, MinOfTwo
  <2>4. a[n] = Count(asks, 1..n) /\ g[n] = Count(given, 1..n)
    BY <1>5, <1>6
  <2> QED BY <2>1, <2>3, <2>4
<1>13. ASSUME NEW k \in 1..n, NEW l \in 1..n, k < l, given[k] < asks[k] PROVE given[l] = 0
  <2>1. PICK left \in Nat :
          /\ left = IF a[k - 1] <= budget THEN budget - a[k - 1] ELSE 0
          /\ given[k] = IF asks[k] <= left THEN asks[k] ELSE left
    BY <1>9
  <2>2. a[k] = a[k - 1] + asks[k] /\ a[k - 1] \in Nat /\ a[k] \in Nat /\ asks[k] \in Nat
    BY <1>3, <1>7
  <2>3. budget < a[k]
    <3>1. left < asks[k]
      BY <1>13, <2>1, <2>2
    <3> QED BY <2>1, <2>2, <3>1
  <2>4. a[k] <= a[l - 1] /\ a[l - 1] \in Nat
    <3>1. l - 1 \in 0..n /\ k \in 0..n /\ k <= l - 1
      BY <1>13
    <3> QED BY <1>7, <3>1
  <2>5. PICK rest \in Nat :
          /\ rest = IF a[l - 1] <= budget THEN budget - a[l - 1] ELSE 0
          /\ given[l] = IF asks[l] <= rest THEN asks[l] ELSE rest
    BY <1>9
  <2>6. rest = 0
    <3>1. a[l - 1] > budget
      BY <2>2, <2>3, <2>4
    <3> QED BY <2>4, <2>5, <3>1
  <2> QED BY <1>3, <2>5, <2>6
<1> QED BY <1>1, <1>3, <1>4, <1>12, <1>13

\* A set of one has that one as its greatest.
LEMMA GreatestOne ==
    ASSUME NEW m \in Int
    PROVE  Max({m}) = m
BY DEF Max

LEMMA CountOrder ==
    ASSUME NEW n \in Nat, NEW s \in [1..n -> Nat], NEW r \in [1..n -> Nat],
           NEW at \in Bijection(1..n, 1..n), \A m \in 1..n : r[at[m]] = s[m]
    PROVE  Count(s, 1..n) = Count(r, 1..n)
<1>1. PICK P \in SUBSET (1..n) : P = 1..n
  OBVIOUS
<1>2. Moves(at, s, P, r, P)
  BY <1>1 DEF Moves
<1>3. Count(s, P) = Count(r, P)
  BY <1>2, CountMoved
<1> QED BY <1>1, <1>3

Block(Names) == [name : Names, tokens : Nat, priority : Int]
Told(blocks) == \A i, j \in DOMAIN blocks : i # j => blocks[i].name # blocks[j].name

\* "at" tells where each place of the order of the priorities came from.
CutAs(n, blocks, most, at, asks, given) ==
    /\ \A l, m \in 1..n : blocks[at[l]].priority > blocks[at[m]].priority => l < m
    /\ \A m \in 1..n : at[m] \in 1..n /\ asks[m] = blocks[at[m]].tokens
    /\ given = TakenBy(asks, Max({0, most}))
    /\ DOMAIN Truncate(blocks, most) = 1..n
    /\ \A m \in 1..n : Truncate(blocks, most)[at[m]] =
                         [name |-> blocks[at[m]].name, tokens |-> given[m],
                          priority |-> blocks[at[m]].priority]

\* What a block is given is what its place in the order of the priorities got.
LEMMA TruncateIs ==
    ASSUME NEW Names, NEW n \in Nat, NEW blocks \in [1..n -> Block(Names)], Told(blocks), NEW most \in Int
    PROVE  \E at \in Places(n), asks \in [1..n -> Nat], given \in [1..n -> Nat] : CutAs(n, blocks, most, at, asks, given)
<1>1. PICK greater : greater = ByPriority(blocks)
  OBVIOUS
<1>2. DOMAIN blocks = 1..n /\ \A i \in 1..n : blocks[i] \in Block(Names)
  OBVIOUS
<1>3. /\ \A i \in 1..n : blocks[i].priority \in Int /\ blocks[i].tokens \in Nat
      /\ \A i \in 1..n : blocks[i] = [name |-> blocks[i].name, tokens |-> blocks[i].tokens,
                                      priority |-> blocks[i].priority]
  BY <1>2 DEF Block
<1>4. \A i, j \in 1..n : <<i, j>> \in greater <=> blocks[i].priority > blocks[j].priority
  BY <1>1, <1>2 DEF ByPriority, PlacePairs
<1>5. Keyed(greater, n)
  <2>1. PICK key \in [1..n -> Int] : \A i \in 1..n : key[i] = blocks[i].priority
    <3>1. [i \in 1..n |-> blocks[i].priority] \in [1..n -> Int]
      BY <1>3
    <3> QED BY <3>1
  <2>2. \A i, j \in 1..n : <<i, j>> \in greater <=> key[i] > key[j]
    BY <1>4, <2>1
  <2> QED BY <2>2, NumbersKey
<1>6. PICK at \in Places(n) : SortedBy(blocks, greater, at)
  BY <1>5, SortedIs
<1>7. PICK sorted : sorted = Sorted(blocks, greater)
  OBVIOUS
<1>8. /\ DOMAIN sorted = 1..n
      /\ \A m \in 1..n : at[m] \in 1..n
      /\ \A m \in 1..n : sorted[m] = blocks[at[m]]
      /\ \A i \in 1..n : \E m \in 1..n : at[m] = i
      /\ \A l, m \in 1..n : at[l] = at[m] => l = m
  <2>1. PICK T : T = Block(Names)
    OBVIOUS
  <2>2. blocks \in [1..n -> T]
    BY <2>1
  <2>3. /\ Sorted(blocks, greater) \in Seq(T)
        /\ Len(Sorted(blocks, greater)) = n /\ DOMAIN Sorted(blocks, greater) = 1..n
        /\ \A m \in 1..n : at[m] \in 1..n
        /\ \A m \in 1..n : Sorted(blocks, greater)[m] = blocks[at[m]]
        /\ \A i \in 1..n : \E m \in 1..n : at[m] = i
        /\ \A l, m \in 1..n : at[l] = at[m] => l = m
        /\ Range(Sorted(blocks, greater)) = Range(blocks)
        /\ IsInjective(blocks) => IsInjective(Sorted(blocks, greater))
    BY <1>6, <2>2, SortedHas, Zenon
  <2> QED BY <1>7, <2>3
<1>9. \A l, m \in 1..n : l < m <=> Precedes(greater, at[l], at[m])
  BY <1>2, <1>6 DEF SortedBy
<1>10. \A l, m \in 1..n : blocks[at[l]].priority > blocks[at[m]].priority => l < m
  BY <1>4, <1>8, <1>9 DEF Precedes
<1>11. PICK asks : asks = [m \in DOMAIN sorted |-> sorted[m].tokens]
  OBVIOUS
<1>12. asks \in [1..n -> Nat] /\ \A m \in 1..n : asks[m] = blocks[at[m]].tokens
  <2>1. \A m \in 1..n : blocks[at[m]].tokens \in Nat /\ sorted[m] = blocks[at[m]]
    BY <1>3, <1>8
  <2>2. asks = [m \in 1..n |-> sorted[m].tokens]
    BY <1>8, <1>11
  <2> QED BY <2>1, <2>2
<1>13. PICK budget \in Nat : budget = Max({0, most})
  <2>1. Max({0, most}) = IF 0 >= most THEN 0 ELSE most
    BY MaxOfTwo
  <2> QED BY <2>1
<1>14. PICK given : given = TakenBy(asks, budget) /\ given \in [1..n -> Nat]
  <2>1. PICK g \in [1..n -> Nat] :
              /\ g = TakenBy(asks, budget)
              /\ \A k \in 1..n : g[k] <= asks[k]
              /\ Count(g, 1..n) = Min({budget, Count(asks, 1..n)})
              /\ \A k, l \in 1..n : k < l /\ g[k] < asks[k] => g[l] = 0
    BY <1>12, TakenWhole
  <2> QED BY <2>1
<1>15. PICK Allocation : Allocation = [name \in Names |-> given[Max({m \in DOMAIN sorted : sorted[m].name = name})]]
  OBVIOUS
<1>16. ASSUME NEW m \in 1..n PROVE Allocation[blocks[at[m]].name] = given[m]
  <2>1. {l \in DOMAIN sorted : sorted[l].name = blocks[at[m]].name} = {m}
    <3>1. ASSUME NEW l \in 1..n, sorted[l].name = blocks[at[m]].name PROVE l = m
      <4>1. at[l] \in 1..n /\ at[m] \in 1..n /\ blocks[at[l]].name = blocks[at[m]].name
        BY <1>8, <3>1
      <4>2. at[l] = at[m]
        BY <1>2, <4>1 DEF Told
      <4>3. \A i, j \in 1..n : at[i] = at[j] => i = j
        BY <1>8
      <4> QED BY <4>2, <4>3, Zenon
    <3>2. DOMAIN sorted = 1..n /\ sorted[m].name = blocks[at[m]].name
      BY <1>8
    <3>3. \A l \in 1..n : sorted[l].name = blocks[at[m]].name <=> l = m
      BY <3>1, <3>2
    <3> QED BY <3>2, <3>3
  <2>2. blocks[at[m]].name \in Names
    BY <1>2, <1>8 DEF Block
  <2>3. Max({m}) = m
    BY GreatestOne
  <2> QED BY <1>15, <2>1, <2>2, <2>3
<1>17. Truncate(blocks, most) =
         [i \in DOMAIN blocks |-> [blocks[i] EXCEPT !.tokens =
            given[Max({m \in DOMAIN sorted : sorted[m].name = blocks[i].name})]]]
  BY <1>1, <1>7, <1>11, <1>13, <1>14, Zenon DEF Truncate
<1>18. ASSUME NEW m \in 1..n
       PROVE  Truncate(blocks, most)[at[m]] = [name |-> blocks[at[m]].name, tokens |-> given[m],
                                               priority |-> blocks[at[m]].priority]
  <2>1. PICK i \in 1..n : i = at[m]
    BY <1>8
  <2>2. blocks[i].name \in Names
    BY <1>2, <2>1 DEF Block
  <2>3. Truncate(blocks, most)[i] = [blocks[i] EXCEPT !.tokens = Allocation[blocks[i].name]]
    BY <1>2, <1>15, <1>17, <2>2
  <2>4. Truncate(blocks, most)[i] = [blocks[i] EXCEPT !.tokens = given[m]]
    BY <1>16, <2>1, <2>3
  <2>5. [blocks[i] EXCEPT !.tokens = given[m]] =
           [name |-> blocks[i].name, tokens |-> given[m], priority |-> blocks[i].priority]
    BY <1>2 DEF Block
  <2> QED BY <2>1, <2>4, <2>5
<1>19. DOMAIN Truncate(blocks, most) = 1..n
  BY <1>2, <1>17
<1>20. \A m \in 1..n : at[m] \in 1..n /\ asks[m] = blocks[at[m]].tokens
  BY <1>8, <1>12
<1>21. given = TakenBy(asks, Max({0, most}))
  BY <1>13, <1>14
<1>22. \A m \in 1..n : Truncate(blocks, most)[at[m]] =
                          [name |-> blocks[at[m]].name, tokens |-> given[m],
                           priority |-> blocks[at[m]].priority]
  BY <1>18
<1>23. asks \in [1..n -> Nat] /\ given \in [1..n -> Nat]
  BY <1>12, <1>14
<1>24. CutAs(n, blocks, most, at, asks, given)
  BY <1>10, <1>19, <1>20, <1>21, <1>22, Zenon DEF CutAs
<1> QED BY <1>23, <1>24

(* Whatever the blocks, of different names, and whatever the budget, the cut uses the
   budget as far as there is something to use it for, no block grows, and a block is
   cut only when nothing of a lower priority is kept (FixedPriorityPolicy.truncate). *)
THEOREM EveryTruncationByPriority ==
    ASSUME NEW Names, NEW n \in Nat, NEW blocks \in [1..n -> Block(Names)], Told(blocks), NEW most \in Int
    PROVE  TruncationByPriority(blocks, most, Truncate(blocks, most))
<1>1. PICK result : result = Truncate(blocks, most)
  OBVIOUS
<1>2. PICK at \in Places(n), asks \in [1..n -> Nat], given \in [1..n -> Nat] : CutAs(n, blocks, most, at, asks, given)
  BY TruncateIs, Zenon
<1>3. PICK budget \in Nat : budget = Max({0, most})
  <2>1. Max({0, most}) = IF 0 >= most THEN 0 ELSE most
    BY MaxOfTwo
  <2> QED BY <2>1
<1>4. /\ \A k \in 1..n : given[k] <= asks[k]
      /\ Count(given, 1..n) = Min({budget, Count(asks, 1..n)})
      /\ \A k, l \in 1..n : k < l /\ given[k] < asks[k] => given[l] = 0
  <2>1. PICK g \in [1..n -> Nat] :
              /\ g = TakenBy(asks, budget)
              /\ \A k \in 1..n : g[k] <= asks[k]
              /\ Count(g, 1..n) = Min({budget, Count(asks, 1..n)})
              /\ \A k, l \in 1..n : k < l /\ g[k] < asks[k] => g[l] = 0
    BY TakenWhole
  <2>2. given = g
    BY <1>2, <1>3, <2>1 DEF CutAs
  <2> QED BY <2>1, <2>2
<1>5. /\ \A m \in 1..n : result[at[m]].tokens = given[m]
      /\ \A m \in 1..n : result[at[m]].name = blocks[at[m]].name
      /\ \A i \in 1..n : \E m \in 1..n : at[m] = i
      /\ at \in Bijection(1..n, 1..n)
  <2>1. at \in Bijection(1..n, 1..n)
    BY DEF Places
  <2>2. \A i \in 1..n : \E m \in 1..n : at[m] = i
    BY <2>1 DEF Bijection, Surjection
  <2>3. \A m \in 1..n : result[at[m]].tokens = given[m] /\ result[at[m]].name = blocks[at[m]].name
    <3>1. ASSUME NEW m \in 1..n
          PROVE  result[at[m]].tokens = given[m] /\ result[at[m]].name = blocks[at[m]].name
      <4>1. result[at[m]] = [name |-> blocks[at[m]].name, tokens |-> given[m],
                             priority |-> blocks[at[m]].priority]
        BY <1>1, <1>2 DEF CutAs
      <4> QED BY <4>1
    <3> QED BY <3>1
  <2> QED BY <2>1, <2>2, <2>3
<1>6. DOMAIN blocks = 1..n /\ DOMAIN result = 1..n
  BY <1>1, <1>2 DEF CutAs
<1>7. ASSUME NEW i \in 1..n PROVE blocks[i].tokens \in Nat /\ result[i].tokens \in Nat
  <2>1. PICK m \in 1..n : at[m] = i
    BY <1>5
  <2>2. given[m] \in Nat /\ asks[m] \in Nat
    OBVIOUS
  <2>3. result[i].tokens = given[m] /\ blocks[i].tokens = asks[m]
    BY <1>2, <1>5, <2>1 DEF CutAs
  <2> QED BY <2>2, <2>3
<1>8. TokensOf(blocks) = Count(asks, 1..n) /\ TokensOf(result) = Count(given, 1..n)
  <2>1. PICK b : b = [i \in DOMAIN blocks |-> blocks[i].tokens]
    OBVIOUS
  <2>2. PICK r : r = [i \in DOMAIN result |-> result[i].tokens]
    OBVIOUS
  <2>3. b \in [1..n -> Nat] /\ r \in [1..n -> Nat] /\ DOMAIN b = 1..n /\ DOMAIN r = 1..n
    BY <1>6, <1>7, <2>1, <2>2
  <2>4. (\A m \in 1..n : b[at[m]] = asks[m]) /\ (\A m \in 1..n : r[at[m]] = given[m])
    BY <1>2, <1>5, <1>6, <2>1, <2>2 DEF CutAs
  <2>5. Count(asks, 1..n) = Count(b, 1..n)
    BY <1>5, <2>3, <2>4, CountOrder
  <2>6. Count(given, 1..n) = Count(r, 1..n)
    BY <1>5, <2>3, <2>4, CountOrder
  <2>7. Total(b) = Count(b, 1..n) /\ Total(r) = Count(r, 1..n)
    BY <2>3 DEF Total, Count
  <2> QED BY <2>1, <2>2, <2>5, <2>6, <2>7 DEF TokensOf
<1>9. ASSUME NEW i \in 1..n
      PROVE  /\ result[i].name = blocks[i].name
             /\ result[i].tokens <= blocks[i].tokens
             /\ result[i].tokens < blocks[i].tokens =>
                  \A j \in 1..n : blocks[j].priority < blocks[i].priority => result[j].tokens = 0
  <2>1. PICK m \in 1..n : at[m] = i
    BY <1>5
  <2>2. result[i].tokens = given[m] /\ blocks[i].tokens = asks[m]
    BY <1>2, <1>5, <2>1 DEF CutAs
  <2>3. result[i].name = blocks[i].name
    BY <1>5, <2>1
  <2>4. ASSUME result[i].tokens < blocks[i].tokens, NEW j \in 1..n, blocks[j].priority < blocks[i].priority
        PROVE  result[j].tokens = 0
    <3>1. PICK l \in 1..n : at[l] = j
      BY <1>5
    <3>2. blocks[at[m]].priority > blocks[at[l]].priority
      BY <2>1, <2>4, <3>1
    <3>3. m < l
      BY <1>2, <3>2 DEF CutAs
    <3>4. given[l] = 0
      BY <1>4, <2>2, <2>4, <3>3
    <3> QED BY <1>5, <3>1, <3>4
  <2> QED BY <1>4, <2>2, <2>3, <2>4
<1>10. Len(result) = Len(blocks)
  BY <1>6
<1> QED BY <1>1, <1>3, <1>4, <1>6, <1>8, <1>9, <1>10 DEF TruncationByPriority

-----------------------------------------------------------------------------
(* The rewritten query                                                     *)

\* The greatest of a set of places are the last of it.
LEMMA LastOfAll ==
    ASSUME NEW S \in SUBSET Nat, IsFiniteSet(S), NEW c \in Int,
           NEW T \in SUBSET S, \A i \in S : i \in T <=> i > c
    PROVE  \E r \in Nat : /\ Cardinality(T) \in Nat /\ Cardinality(S) = r + Cardinality(T)
                          /\ \A k \in 1..Cardinality(T) : Nth(T, k) = Nth(S, r + k)
<1>1. T \in SUBSET Nat /\ IsFiniteSet(T)
  BY FS_Subset
<1>2. PICK R : R = S \ T
  OBVIOUS
<1>3. R \in SUBSET S /\ R \intersect T = {} /\ R \union T = S
  BY <1>2
<1>4. IsFiniteSet(R)
  BY <1>3, FS_Subset
<1>5. PICK r \in Nat, t \in Nat : r = Cardinality(R) /\ t = Cardinality(T)
  BY <1>1, <1>4, FS_CardinalityType
<1>6. Cardinality({}) = 0
  BY FS_EmptySet
<1>7. Cardinality(R \union T) = Cardinality(R) + Cardinality(T) - Cardinality(R \intersect T)
  BY <1>1, <1>4, FS_Union
<1>8. Cardinality(S) = r + t
  <2>1. Cardinality(S) = Cardinality(R \union T) /\ Cardinality(R \intersect T) = 0
    BY <1>3, <1>6
  <2> QED BY <1>5, <1>7, <2>1
<1>9. ASSUME NEW k \in 1..t PROVE Nth(T, k) = Nth(S, r + k)
  <2>1. PICK e : e = Nth(T, k)
    OBVIOUS
  <2>2. e \in T /\ Cardinality(Below(T, e)) = k - 1
    BY <1>1, <1>5, <2>1, NthIsNth
  <2>3. Below(S, e) = R \union Below(T, e)
    <3>1. e \in S /\ e > c /\ e \in Int
      BY <2>2
    <3>2. ASSUME NEW i \in R PROVE i < e
      <4>1. i \in S /\ i \notin T /\ i \in Int
        BY <1>2
      <4>2. ~(i > c)
        BY <4>1
      <4> QED BY <3>1, <4>1, <4>2
    <3> QED BY <1>3, <3>2 DEF Below
  <2>4. R \intersect Below(T, e) = {}
    BY <1>3 DEF Below
  <2>5. IsFiniteSet(Below(T, e))
    BY <1>1, <2>2, BelowGrows
  <2>6. Cardinality(R \union Below(T, e)) =
          Cardinality(R) + Cardinality(Below(T, e)) - Cardinality(R \intersect Below(T, e))
    BY <1>4, <2>5, FS_Union
  <2>7. Cardinality(Below(S, e)) = r + (k - 1)
    <3>1. Cardinality(Below(S, e)) = Cardinality(R \union Below(T, e))
      BY <2>3
    <3>2. Cardinality(R \intersect Below(T, e)) = 0
      BY <1>6, <2>4
    <3> QED BY <1>5, <2>2, <2>6, <3>1, <3>2
  <2>8. PICK l \in 1..Cardinality(S) : l = Cardinality(Below(S, e)) + 1 /\ Nth(S, l) = e
    <3>1. e \in S
      BY <2>2
    <3> QED BY <3>1, NthIsNth
  <2>9. l = r + k
    BY <2>7, <2>8
  <2> QED BY <2>1, <2>8, <2>9
<1> QED BY <1>5, <1>8, <1>9

Spoken(Roles, Contents) == [role : Roles, content : Contents]

(* Whatever was said before, the query itself comes last in what is searched for, at
   most two messages come before it, they are what the user said last, and a word just
   said by the user is among them (_rewrite_query). *)
THEOREM EveryRewriteKeeps ==
    ASSUME NEW Roles, NEW Contents, NEW history \in Seq(Spoken(Roles, Contents)), NEW query \in Contents
    PROVE  RewriteKeeps(query, history, RewriteQuery(query, history))
<1>1. PICK M : M = Spoken(Roles, Contents)
  OBVIOUS
<1>2. history \in Seq(M) /\ \A x \in M : x.content \in Contents
  BY <1>1 DEF Spoken
<1>3. PICK n \in Nat : n = Len(history) /\ DOMAIN history = 1..n /\ \A i \in 1..n : history[i] \in M
  BY <1>2, ListHas
<1>4. PICK S \in SUBSET (DOMAIN history) :
         S = {i \in DOMAIN history : history[i].role = "user" /\ history[i].content # ""}
  OBVIOUS
<1>5. PICK T \in SUBSET S :
         T = {i \in {j \in DOMAIN history : j > Len(history) - 3} :
                history[i].role = "user" /\ history[i].content # ""}
  BY <1>4
<1>6. \A i \in S : i \in T <=> i > n - 3
  BY <1>3, <1>4, <1>5
<1>7. T \in SUBSET (DOMAIN history)
  BY <1>4
<1>8. PICK said : said = Chosen(history, S)
  OBVIOUS
<1>9. PICK top : top = Chosen(history, T)
  OBVIOUS
<1>10. said = SaidBy(history, DOMAIN history)
  BY <1>4, <1>8 DEF SaidBy
<1>11. top = SaidBy(history, {i \in DOMAIN history : i > Len(history) - 3})
  BY <1>5, <1>9 DEF SaidBy
<1>12. /\ S \in SUBSET Nat /\ IsFiniteSet(S) /\ Cardinality(S) \in Nat
       /\ said \in Seq(M) /\ DOMAIN said = 1..Cardinality(S)
       /\ \A k \in 1..Cardinality(S) : said[k] = history[Nth(S, k)]
  BY <1>2, <1>8, ChosenListsAll
<1>13. /\ T \in SUBSET Nat /\ IsFiniteSet(T) /\ Cardinality(T) \in Nat
       /\ top \in Seq(M) /\ DOMAIN top = 1..Cardinality(T)
       /\ \A k \in 1..Cardinality(T) : top[k] = history[Nth(T, k)]
  BY <1>2, <1>7, <1>9, ChosenListsAll
<1>14. PICK t \in Nat : t = Cardinality(T)
  BY <1>13
<1>15. PICK r \in Nat : Cardinality(S) = r + t /\ \A k \in 1..t : Nth(T, k) = Nth(S, r + k)
  <2>1. n - 3 \in Int
    OBVIOUS
  <2>2. PICK c \in Int : c = n - 3
    BY <2>1
  <2>3. S \in SUBSET Nat /\ IsFiniteSet(S)
    BY <1>12
  <2>4. \A i \in S : i \in T <=> i > c
    BY <1>6, <2>2
  <2>5. \E p \in Nat : /\ Cardinality(T) \in Nat /\ Cardinality(S) = p + Cardinality(T)
                       /\ \A k \in 1..Cardinality(T) : Nth(T, k) = Nth(S, p + k)
    BY <2>3, <2>4, LastOfAll
  <2> QED BY <1>14, <2>5
<1>16. Len(said) = r + t /\ Len(top) = t
  BY <1>12, <1>13, <1>14, <1>15
<1>17. \A k \in 1..t : top[k] = said[r + k] /\ top[k] \in M
  <2>1. ASSUME NEW k \in 1..t PROVE top[k] = said[r + k] /\ top[k] \in M
    <3>1. r + k \in 1..Cardinality(S)
      BY <1>15
    <3>2. said[r + k] = history[Nth(S, r + k)]
      BY <1>12, <3>1
    <3>3. top[k] = history[Nth(T, k)]
      BY <1>13, <1>14
    <3>4. top[k] \in M
      BY <1>13, <1>14
    <3> QED BY <1>15, <3>2, <3>3, <3>4
  <2> QED BY <2>1
<1>18. PICK m \in 0..2 : m = (IF t <= 2 THEN t ELSE 2)
  OBVIOUS
<1>19. PICK last : last = SubSeq(top, Max({1, t - 1}), t)
  OBVIOUS
<1>20. DOMAIN last = 1..m /\ \A i \in 1..m : last[i] = top[t - m + i]
  <2>1. Max({1, t - 1}) = IF 1 >= t - 1 THEN 1 ELSE t - 1
    BY MaxOfTwo
  <2>2. PICK b \in Nat : b = Max({1, t - 1}) /\ b = IF t <= 2 THEN 1 ELSE t - 1
    BY <2>1
  <2>3. last = SubSeq(top, b, t) /\ top \in Seq(M) /\ Len(top) = t
    BY <1>13, <1>16, <1>19, <2>2
  <2>4. t - b + 1 = m /\ t - b + 1 \in Nat
    BY <1>18, <2>2
  <2>5. b \in 1..(t + 1)
    BY <2>2
  <2>6. /\ Len(SubSeq(top, b, t)) = t - b + 1
        /\ \A i \in 1..t - b + 1 : SubSeq(top, b, t)[i] = top[b + i - 1]
        /\ DOMAIN SubSeq(top, b, t) = 1..(t - b + 1)
    <3>1. top \in Seq(M)
      BY <2>3
    <3>2. SubSeq(top, b, t) \in Seq(M) /\ Len(SubSeq(top, b, t)) = IF b <= t THEN t - b + 1 ELSE 0
      BY <2>3, <2>5, <3>1
    <3>3. \A i \in 1..t - b + 1 : SubSeq(top, b, t)[i] = top[b + i - 1]
      BY <2>3, <2>5, <3>1
    <3>4. Len(SubSeq(top, b, t)) = t - b + 1
      BY <2>5, <3>2
    <3>5. DOMAIN SubSeq(top, b, t) = 1..Len(SubSeq(top, b, t))
      BY <3>2
    <3> QED BY <3>3, <3>4, <3>5
  <2>7. Len(last) = m /\ DOMAIN last = 1..m /\ \A i \in 1..m : last[i] = top[b + i - 1]
    BY <2>3, <2>4, <2>6
  <2>8. \A i \in 1..m : b + i - 1 = t - m + i
    BY <2>4
  <2> QED BY <2>7, <2>8
<1>21. \A i \in 1..m : last[i] = said[r + t - m + i] /\ last[i].content \in Contents
  <2>1. ASSUME NEW i \in 1..m PROVE last[i] = said[r + t - m + i] /\ last[i].content \in Contents
    <3>1. t - m + i \in 1..t /\ r + (t - m + i) = r + t - m + i
      BY <1>18
    <3>2. top[t - m + i] = said[r + (t - m + i)] /\ top[t - m + i] \in M
      BY <1>17, <3>1
    <3> QED BY <1>2, <1>20, <3>1, <3>2
  <2> QED BY <2>1
<1>22. PICK w : w = [i \in DOMAIN last |-> last[i].content]
  OBVIOUS
<1>23. w \in Seq(Contents) /\ Len(w) = m /\ \A i \in 1..m : w[i] = said[r + t - m + i].content
  <2>1. w \in [1..m -> Contents]
    BY <1>20, <1>21, <1>22
  <2>2. w \in Seq(Contents) /\ Len(w) = m
    BY <2>1
  <2>3. \A i \in 1..m : w[i] = last[i].content
    BY <1>20, <1>22
  <2>4. \A i \in 1..m : last[i] = said[r + t - m + i]
    BY <1>21
  <2> QED BY <2>2, <2>3, <2>4
<1>24. PICK rewritten : rewritten = Append(w, query)
  OBVIOUS
<1>25. RewriteQuery(query, history) = rewritten
  <2>1. last = SubSeq(top, Max({1, Len(top) - 1}), Len(top))
    BY <1>16, <1>19
  <2> QED BY <1>11, <1>22, <1>24, <2>1 DEF RewriteQuery
<1>26. Len(rewritten) = m + 1 /\ rewritten[m + 1] = query /\ \A i \in 1..m : rewritten[i] = w[i]
  BY <1>23, <1>24
<1>27. Len(rewritten) - 1 = m
  BY <1>26
<1>28. Last(rewritten) = query
  BY <1>26 DEF Last
<1>29. m \in 0..Min({2, Len(said)})
  <2>1. Min({2, r + t}) = IF 2 <= r + t THEN 2 ELSE r + t
    BY MinOfTwo
  <2> QED BY <1>16, <1>18, <2>1
<1>30. \A i \in 1..m : rewritten[i] = said[Len(said) - m + i].content
  BY <1>16, <1>23, <1>26
<1>31. ASSUME history # <<>>, Last(history).role = "user", Last(history).content # "" PROVE m > 0
  <2>1. n > 0
    <3>1. history \in Seq(M) /\ history # <<>>
      BY <1>2, <1>31
    <3>2. Len(history) # 0
      BY <3>1
    <3> QED BY <1>3, <3>2
  <2>2. n \in DOMAIN history /\ Last(history) = history[n]
    BY <1>3, <2>1 DEF Last
  <2>3. n \in S
    BY <1>4, <1>31, <2>2
  <2>4. n \in T
    BY <1>6, <2>3
  <2>5. t # 0
    BY <1>13, <1>14, <2>4, FS_EmptySet
  <2> QED BY <1>18, <2>5
<1> QED BY <1>10, <1>25, <1>27, <1>28, <1>29, <1>30, <1>31 DEF RewriteKeeps

-----------------------------------------------------------------------------
(* What the pages ask                                                      *)

\* A decision that no filter, role or helper makes leaves them nothing to answer for.
OtherKinds == {"fusion", "search", "allocation", "truncation", "context", "rewrite", "persona",
               "turn", "prompt", "params", "outfits", "media", "web", "model", "usage",
               "settings", "markup"}

LEMMA OtherAsked ==
    ASSUME question'.kind \in OtherKinds
    PROVE  AccessDecides'
BY DEF OtherKinds, AccessDecides, GatewayDecides, HelpersDecide, Fresh

NamesMade == {"absent", "empty", "forged", "expired", "signed", "none", "admin", "member", "viewer",
              "org_admin", "OPTIONS", "GET", "active", "exhausted", Blank, "t1"}

LEMMA MadeTokens ==
    /\ TokensMade \subseteq AnyToken(NamesMade)
    /\ QueryTokens \subseteq AnyToken(NamesMade)
<1>1. {"admin", "member", "viewer", "absent", "org_admin", "none"} \subseteq NamesMade \ {Refused, "authentication"}
  BY Zenon DEF NamesMade, Refused
<1>2. {"absent", "empty", "forged", "expired", "signed"} \subseteq NamesMade
  BY Zenon DEF NamesMade
<1> HIDE DEF NamesMade
<1>3. NoToken \in AnyToken(NamesMade)
  BY <1>1, <1>2 DEF NoToken, AnyToken
<1>4. EmptyToken \in AnyToken(NamesMade)
  BY <1>1, <1>2 DEF NoToken, EmptyToken, AnyToken
<1>5. \A role \in {"admin", "member", "viewer", "absent", "org_admin"} :
         EncodeToken(role) \in AnyToken(NamesMade)
  BY <1>1, <1>2 DEF EncodeToken, AnyToken
<1>6. /\ [made |-> "forged", ids |-> TRUE, role |-> "admin"] \in AnyToken(NamesMade)
      /\ [made |-> "expired", ids |-> TRUE, role |-> "admin"] \in AnyToken(NamesMade)
      /\ [made |-> "signed", ids |-> FALSE, role |-> "admin"] \in AnyToken(NamesMade)
  BY <1>1, <1>2 DEF AnyToken
<1> QED BY <1>3, <1>4, <1>5, <1>6 DEF TokensMade, QueryTokens

LEMMA GatewayAsked == ASSUME AskGateway PROVE AccessDecides'
<1>1. PICK r \in [bearer : TokensMade, query : QueryTokens, path : Paths,
                 method : {"OPTIONS", "GET"}, room : BOOLEAN,
                 budget : {"none", "active", "exhausted"}, outcome : Outcomes,
                 trace : {Blank, "t1"}] : Ask("gateway", r, Respond(r))
  BY DEF AskGateway
<1>2. question'.kind = "gateway" /\ question'.in = r /\ answer' = Respond(r)
  BY <1>1 DEF Ask
<1>3. {"OPTIONS", "GET", "none", "active", "exhausted", Blank, "t1"} \subseteq NamesMade
  BY Zenon DEF NamesMade
<1>4. Outcomes \subseteq AnyOutcome
  BY DEF Outcomes, AnyOutcome
<1>5. r \in AnyRequest(NamesMade)
  BY <1>1, <1>3, <1>4, MadeTokens DEF AnyRequest
<1>6. GatewayGuards(r, Respond(r))
  BY <1>5, EveryRequestGuarded
<1> QED BY <1>2, <1>6 DEF AccessDecides, GatewayDecides, HelpersDecide, Fresh

LEMMA SocketAsked == ASSUME AskSocket PROVE AccessDecides'
<1>1. PICK inQuery \in TokensMade, first \in TokensMade, second \in TokensMade :
        Ask("socket", [query |-> inQuery, offered |-> <<first, second>>],
            AcceptSocket(inQuery, <<first, second>>))
  BY DEF AskSocket
<1>2. /\ question'.kind = "socket"
      /\ question'.in = [query |-> inQuery, offered |-> <<first, second>>]
      /\ answer' = AcceptSocket(inQuery, <<first, second>>)
  BY <1>1 DEF Ask
<1>3. inQuery \in AnyToken(NamesMade) /\ <<first, second>> \in Seq(AnyToken(NamesMade))
  BY MadeTokens
<1>4. SocketGuarded([query |-> inQuery, offered |-> <<first, second>>],
                    AcceptSocket(inQuery, <<first, second>>))
  BY <1>3, EverySocketGuarded
<1> QED BY <1>2, <1>4 DEF AccessDecides, GatewayDecides, HelpersDecide, Fresh

LEMMA FiltersAsked == ASSUME AskFilters PROVE AccessDecides'
<1>1. PICK matches \in SUBSET Range(Layers), text \in Seq(AnyWord), injected \in BOOLEAN :
        Ask("content", [matches |-> matches, text |-> text, injected |-> injected],
            [check |-> CheckContent(matches), out |-> Sanitize(text, injected),
             promoted |-> SanitizeContent(text)])
  <2>1. CASE \E matches \in SUBSET Range(Layers) :
            Ask("content", [matches |-> matches, text |-> <<>>, injected |-> FALSE],
                [check |-> CheckContent(matches), out |-> Sanitize(<<>>, FALSE),
                 promoted |-> SanitizeContent(<<>>)])
    <3>1. <<>> \in Seq(AnyWord) /\ FALSE \in BOOLEAN
      OBVIOUS
    <3> QED BY <2>1, <3>1
  <2>2. CASE \E one, two \in Words, injected \in BOOLEAN :
            Ask("content", [matches |-> {}, text |-> <<one, two>>, injected |-> injected],
                [check |-> CheckContent({}), out |-> Sanitize(<<one, two>>, injected),
                 promoted |-> SanitizeContent(<<one, two>>)])
    <3>1. Words \subseteq AnyWord
      <4>1. Numbers \subseteq NumberWords
        BY DEF Numbers, NumberWords
      <4>2. Email \in OtherWords /\ Mark("word") \in OtherWords
        BY DEF Email, Mark, OtherWords, Kinds
      <4> QED BY <4>1, <4>2 DEF Words, AnyWord
    <3>2. \A one, two \in Words : <<one, two>> \in Seq(AnyWord)
      BY <3>1
    <3>3. {} \in SUBSET Range(Layers)
      OBVIOUS
    <3> QED BY <2>2, <3>2, <3>3
  <2> QED BY <2>1, <2>2 DEF AskFilters
<1>2. /\ question'.kind = "content"
      /\ question'.in.matches = matches /\ question'.in.text = text /\ question'.in.injected = injected
      /\ answer'.check = CheckContent(matches) /\ answer'.out = Sanitize(text, injected)
      /\ answer'.promoted = SanitizeContent(text)
  BY <1>1 DEF Ask
<1>3. /\ FiltersHold(matches, CheckContent(matches), text, injected, Sanitize(text, injected))
      /\ PromotionClean(text, SanitizeContent(text))
  BY EveryTextFiltered
<1> QED BY <1>2, <1>3 DEF AccessDecides, GatewayDecides, HelpersDecide, Fresh

LEMMA RedactionAsked == ASSUME AskRedaction PROVE AccessDecides'
<1>1. PICK one \in Leaves, two \in Leaves, given \in {Blank, "E1"}, own \in {Blank, "E1"} :
        Ask("redaction", {one, two}, StructuredError(given, own, "ValueError", {one, two}))
  BY DEF AskRedaction
<1>2. /\ question'.kind = "redaction" /\ question'.in = {one, two}
      /\ answer' = StructuredError(given, own, "ValueError", {one, two})
  BY <1>1 DEF Ask
<1>3. Leaves \subseteq Seq(Steps)
  <2>1. \A n \in 1..3 : [1..n -> {"key", "secret_key", "item"}] \subseteq Seq(Steps)
    BY DEF Steps
  <2> QED BY <2>1 DEF Leaves
<1>4. "ValueError" # Blank
  BY Zenon DEF Blank
<1>5. RecordSafe({one, two}, StructuredError(given, own, "ValueError", {one, two}))
  <2>1. {one, two} \in SUBSET Seq(Steps)
    BY <1>3
  <2> QED BY <1>4, <2>1, EveryRecordSafe
<1> QED BY <1>2, <1>5 DEF AccessDecides, GatewayDecides, HelpersDecide, Fresh

LEMMA LabelAsked == ASSUME AskLabel PROVE AccessDecides'
<1>1. PICK n \in 1..5 : \E parts \in [1..n -> PathPart] : Ask("label", parts, NormalizePath(parts))
  BY DEF AskLabel
<1>2. PICK parts \in [1..n -> PathPart] : Ask("label", parts, NormalizePath(parts))
  BY <1>1
<1>3. question'.kind = "label" /\ question'.in = parts /\ answer' = NormalizePath(parts)
  BY <1>2 DEF Ask
<1>4. parts \in Seq(PathPart)
  OBVIOUS
<1>5. LabelsFew(parts, NormalizePath(parts))
  BY <1>4, EveryLabelFew
<1> QED BY <1>3, <1>5 DEF AccessDecides, GatewayDecides, HelpersDecide, Fresh

LEMMA StorageAsked == ASSUME AskStorage PROVE AccessDecides'
<1>1. CASE \E connected \in BOOLEAN, objects, keys, failing \in SUBSET Objects :
            Ask("batch", [objects |-> objects, keys |-> keys],
                DeleteObjects(connected, objects, keys, failing))
  <2>1. PICK connected \in BOOLEAN, objects \in SUBSET Objects, keys \in SUBSET Objects,
             failing \in SUBSET Objects :
            Ask("batch", [objects |-> objects, keys |-> keys],
                DeleteObjects(connected, objects, keys, failing))
    BY <1>1
  <2>2. /\ question'.kind = "batch" /\ question'.in.objects = objects /\ question'.in.keys = keys
        /\ answer' = DeleteObjects(connected, objects, keys, failing)
    BY <2>1 DEF Ask
  <2>3. BatchReported(objects, keys, DeleteObjects(connected, objects, keys, failing))
    BY EveryBatchReported
  <2> QED BY <2>2, <2>3 DEF AccessDecides, GatewayDecides, HelpersDecide, Fresh
<1>2. CASE \E connected \in BOOLEAN,
             object \in {"missing", "forbidden", "unreachable", "with_sha256", "with_etag"} :
            Ask("head", object, HeadObject(connected, object))
  <2>1. PICK connected \in BOOLEAN,
             object \in {"missing", "forbidden", "unreachable", "with_sha256", "with_etag"} :
            Ask("head", object, HeadObject(connected, object))
    BY <1>2
  <2>2. /\ question'.kind = "head" /\ question'.in = object
        /\ answer' = HeadObject(connected, object)
    BY <2>1 DEF Ask
  <2>3. HeadObject(connected, object) = "FileNotFoundError" => object = "missing"
    BY HeadTruthful
  <2> QED BY <2>2, <2>3 DEF AccessDecides, GatewayDecides, HelpersDecide, Fresh
<1> QED BY <1>1, <1>2 DEF AskStorage

LEMMA ConfidenceAsked == ASSUME AskConfidence PROVE AccessDecides'
<1>1. PICK base \in {0, 20, 30, 60, 90}, validAt \in 1..4, now \in 1..4, validatedAt \in 0..4,
           threshold \in {0, 30} :
         Ask("confidence", [base |-> base, validAt |-> validAt, validatedAt |-> validatedAt,
                            now |-> now, threshold |-> threshold],
             IsStale(base, validAt, validatedAt, now, threshold))
  BY DEF AskConfidence
<1>2. /\ question'.kind = "confidence"
      /\ question'.in = [base |-> base, validAt |-> validAt, validatedAt |-> validatedAt,
                         now |-> now, threshold |-> threshold]
  BY <1>1 DEF Ask
<1>3. question'.in \in [base : Nat, validAt : 1..4, validatedAt : 0..4, now : 1..4, threshold : Nat]
  BY <1>2
<1>4. DecayOrdered(question'.in)
  BY <1>3, EveryDecayOrdered
<1> QED BY <1>2, <1>4 DEF AccessDecides, GatewayDecides, HelpersDecide, Fresh

NamesLogged == {"login", "update", "a", "b", "all", Blank}

LEMMA AuditAsked == ASSUME AskAudit PROVE AccessDecides'
<1>1. PICK log \in AuditLogs,
           f \in [action : {"all", "login"}, user : {Blank, "a"}, from : {NoDay, 1}, to : {NoDay, 0, 1}] :
         Ask("audit", [log |-> log, filters |-> f], FilterAudit(log, f))
  BY DEF AskAudit
<1>2. /\ question'.kind = "audit" /\ question'.in.log = log /\ question'.in.filters = f
      /\ answer' = FilterAudit(log, f)
  BY <1>1 DEF Ask
<1>3. log \in Seq(AnyEntry(NamesLogged))
  <2>1. {"login", "update"} \subseteq NamesLogged /\ {"a", "b"} \subseteq NamesLogged
    BY Zenon DEF NamesLogged
  <2>2. [action : {"login", "update"}, user : {"a", "b"}, at : {1, 2, 3, 4, 5}]
          \subseteq AnyEntry(NamesLogged)
    BY <2>1 DEF AnyEntry
  <2>3. \A n \in 0..2 :
          [1..n -> [action : {"login", "update"}, user : {"a", "b"}, at : {1, 2, 3, 4, 5}]]
            \subseteq Seq(AnyEntry(NamesLogged))
    BY <2>2
  <2> QED BY <2>3 DEF AuditLogs
<1>4. f \in AnyFilters(NamesLogged)
  <2>1. {"all", "login"} \subseteq NamesLogged /\ {Blank, "a"} \subseteq NamesLogged
    BY Zenon DEF NamesLogged
  <2>2. NoDay \in Nat
    BY DEF NoDay
  <2> QED BY <2>1, <2>2 DEF AnyFilters
<1>5. AuditFiltered(log, f, FilterAudit(log, f))
  BY <1>3, <1>4, EveryAuditFiltered
<1> QED BY <1>2, <1>5 DEF AccessDecides, GatewayDecides, HelpersDecide, Fresh

LEMMA RetryAsked == ASSUME AskRetry PROVE AccessDecides'
<1>1. PICK most \in 0..3 : \E outcomes \in [1..(1 + most) -> {"returns", "retriable", "fatal"}] :
         Ask("retry", [outcomes |-> outcomes, most |-> most], RetryWithBackoff(outcomes, most))
  BY DEF AskRetry
<1>2. PICK outcomes \in AnyOutcomes(most) :
         Ask("retry", [outcomes |-> outcomes, most |-> most], RetryWithBackoff(outcomes, most))
  BY <1>1 DEF AnyOutcomes
<1>3. /\ question'.kind = "retry" /\ question'.in.outcomes = outcomes /\ question'.in.most = most
      /\ answer' = RetryWithBackoff(outcomes, most)
  BY <1>2 DEF Ask
<1>4. RetryBounded(outcomes, most, RetryWithBackoff(outcomes, most))
  BY EveryRetryBounded
<1> QED BY <1>3, <1>4 DEF AccessDecides, GatewayDecides, HelpersDecide, Fresh

LEMMA HeaderAsked == ASSUME AskHeader PROVE AccessDecides'
<1>1. PICK given \in {"unset", "saas", "private"}, deployMode \in {Blank, "saas", "SaaS"},
           calls \in TokenCalls :
         Ask("header", [mode |-> CreateTokenStore(given, deployMode), calls |-> calls],
             GetAuthHeader(CreateTokenStore(given, deployMode), calls))
  BY DEF AskHeader
<1>2. PICK mode \in {"saas", "private"} : mode = CreateTokenStore(given, deployMode)
  BY DEF CreateTokenStore
<1>3. /\ question'.kind = "header" /\ question'.in.mode = mode /\ question'.in.calls = calls
      /\ answer' = GetAuthHeader(mode, calls)
  BY <1>1, <1>2 DEF Ask
<1>4. calls \in Seq([mode : {"saas", "private"}, token : {Blank, "t1", "t2"}])
  <2>1. \A T : \A n \in 0..3 : [1..n -> T] \subseteq Seq(T)
    OBVIOUS
  <2>2. \A n \in 0..3 : [1..n -> [mode : {"saas", "private"}, token : {Blank, "t1", "t2"}]]
            \subseteq Seq([mode : {"saas", "private"}, token : {Blank, "t1", "t2"}])
    BY <2>1, Zenon
  <2> QED BY <2>2 DEF TokenCalls
<1>5. HeaderFits(mode, calls, GetAuthHeader(mode, calls))
  BY <1>4, EveryHeaderFits
<1> QED BY <1>3, <1>5 DEF AccessDecides, GatewayDecides, HelpersDecide, Fresh

LEMMA ReportAsked == ASSUME AskReport PROVE AccessDecides'
<1>1. PICK context \in SUBSET ReportKeys, endpoint \in BOOLEAN, production \in BOOLEAN :
         Ask("report", [context |-> context, endpoint |-> endpoint, production |-> production],
             ReportError(context, endpoint, production))
  BY DEF AskReport, ReportKeys
<1>2. /\ question'.kind = "report" /\ question'.in.context = context
      /\ question'.in.endpoint = endpoint /\ question'.in.production = production
      /\ answer' = ReportError(context, endpoint, production)
  BY <1>1 DEF Ask
<1>3. ReportSafe(context, endpoint, production, ReportError(context, endpoint, production))
  BY EveryReportSafe
<1> QED BY <1>2, <1>3 DEF AccessDecides, GatewayDecides, HelpersDecide, Fresh

LEMMA OtherKind ==
    ASSUME NEW kind \in OtherKinds, NEW input, NEW result, Ask(kind, input, result)
    PROVE  question'.kind \in OtherKinds
BY DEF Ask

LEMMA TurnsAsked ==
    ASSUME AskFusion \/ AskSearch \/ AskAllocation \/ AskTruncation \/ AskContext
           \/ AskPersona \/ AskTurn \/ AskPrompt \/ AskParams \/ AskOutfits \/ AskTool
           \/ AskModel \/ AskUsage \/ AskSettings \/ AskMarkup
    PROVE  AccessDecides'
<1>1. question'.kind \in OtherKinds
  <2>1. CASE AskFusion
    BY <2>1 DEF AskFusion, Ask, OtherKinds
  <2>2. CASE AskSearch
    BY <2>2 DEF AskSearch, Ask, OtherKinds
  <2>3. CASE AskAllocation
    BY <2>3 DEF AskAllocation, Ask, OtherKinds
  <2>4. CASE AskTruncation
    BY <2>4, OtherKind, Zenon DEF AskTruncation, OtherKinds
  <2>5. CASE AskContext
    BY <2>5 DEF AskContext, Ask, OtherKinds
  <2>6. CASE AskPersona
    BY <2>6 DEF AskPersona, Ask, OtherKinds
  <2>7. CASE AskTurn
    BY <2>7 DEF AskTurn, Ask, OtherKinds
  <2>8. CASE AskPrompt
    BY <2>8, OtherKind, Zenon DEF AskPrompt, OtherKinds
  <2>9. CASE AskParams
    BY <2>9 DEF AskParams, Ask, OtherKinds
  <2>10. CASE AskOutfits
    BY <2>10, OtherKind, Zenon DEF AskOutfits, OtherKinds
  <2>11. CASE AskTool
    BY <2>11 DEF AskTool, Ask, OtherKinds
  <2>12. CASE AskModel
    BY <2>12, OtherKind, Zenon DEF AskModel, OtherKinds
  <2>13. CASE AskUsage
    BY <2>13, OtherKind, Zenon DEF AskUsage, OtherKinds
  <2>14. CASE AskSettings
    BY <2>14 DEF AskSettings, Ask, OtherKinds
  <2>15. CASE AskMarkup
    BY <2>15 DEF AskMarkup, Ask, OtherKinds
  <2> QED BY <2>1, <2>2, <2>3, <2>4, <2>5, <2>6, <2>7, <2>8, <2>9, <2>10, <2>11, <2>12,
             <2>13, <2>14, <2>15
<1> QED BY <1>1, OtherAsked

\* At the edge of the program every answer is the right one: who is let in, what may
\* be said and what is noted of it, under every order in which the pages ask.
THEOREM AccessIsRight == PagesSpec => []AccessDecides
<1>1. PagesInit => AccessDecides
  BY RolesAreOrdered DEF PagesInit, Init, AccessDecides, GatewayDecides, HelpersDecide
<1>2. ASSUME AccessDecides, Next PROVE AccessDecides'
  BY <1>2, TurnsAsked, GatewayAsked, SocketAsked, FiltersAsked, RedactionAsked, LabelAsked,
     StorageAsked, ConfidenceAsked, AuditAsked, RetryAsked, HeaderAsked, ReportAsked DEF Next
<1>3. ASSUME AccessDecides, UNCHANGED Questions PROVE AccessDecides'
  BY <1>3 DEF Questions, AccessDecides, GatewayDecides, HelpersDecide, Fresh
<1>4. AccessDecides /\ [PagesNext]_<<Questions, clientVars, adminVars, part>> => AccessDecides'
  BY <1>2, <1>3 DEF PagesNext, WebStep, AdminStep
<1> QED BY <1>1, <1>4, PTL DEF PagesSpec

-----------------------------------------------------------------------------
(* What the pages ask of the context                                       *)

\* A decision that makes no context leaves it nothing to answer for.
EdgeKinds == {"gateway", "socket", "content", "persona", "turn", "prompt", "params", "outfits",
              "media", "web", "model", "usage", "settings", "markup", "redaction", "label",
              "batch", "head", "confidence", "audit", "retry", "header", "report"}

LEMMA EdgeAsked ==
    ASSUME question'.kind \in EdgeKinds
    PROVE  RetrievalDecides'
BY DEF EdgeKinds, RetrievalDecides

LEMMA FusionAsked == ASSUME AskFusion PROVE RetrievalDecides'
<1>1. PICK vector \in Rankings, keyword \in Rankings, topN \in {2, 4} :
        Ask("fusion", [vector |-> vector, keyword |-> keyword, topN |-> topN],
            RrfFuse(vector, keyword, topN))
  BY DEF AskFusion
<1>2. /\ question'.kind = "fusion"
      /\ question'.in = [vector |-> vector, keyword |-> keyword, topN |-> topN]
      /\ answer' = RrfFuse(vector, keyword, topN)
  BY <1>1 DEF Ask
<1>3. \A s \in Rankings : s \in Seq(Docs) /\ IsInjective(s) /\ Len(s) <= 3
  <2>1. ASSUME NEW s \in Rankings PROVE s \in Seq(Docs) /\ IsInjective(s) /\ Len(s) <= 3
    <3>1. PICK n \in 0..3 : s \in [1..n -> Docs] /\ IsInjective(s)
      BY DEF Rankings
    <3>2. s \in Seq(Docs) /\ Len(s) = n
      BY <3>1
    <3> QED BY <3>1, <3>2
  <2> QED BY <2>1
<1>4. Len(vector) <= RrfK + 1 /\ Len(keyword) <= RrfK + 1
  BY <1>3 DEF RrfK
<1>5. FusionFair(vector, keyword, topN, RrfFuse(vector, keyword, topN))
  BY <1>3, <1>4, EveryFusionFair
<1> QED BY <1>2, <1>5 DEF RetrievalDecides

LEMMA SearchAsked == ASSUME AskSearch PROVE RetrievalDecides'
<1>1. PICK similarity \in [Range(Inserted) -> 0..2], frequency \in [Range(Inserted) -> 0..2],
           topK \in {1, 2} :
         Ask("search",
             [vector |-> SearchVector(Inserted, similarity, 2 * topK),
              keyword |-> SearchKeyword(Inserted, frequency, 2 * topK), topN |-> topK,
              similarity |-> similarity, frequency |-> frequency],
             HybridSearch(Inserted, similarity, frequency, topK))
  BY DEF AskSearch
<1>2. PICK Ids : Ids = Range(Inserted)
  OBVIOUS
<1>3. Inserted \in Seq(Ids) /\ IsInjective(Inserted) /\ Len(Inserted) = 3
  <2>1. Len(Inserted) = 3 /\ DOMAIN Inserted = 1..3
    BY DEF Inserted
  <2>2. Inserted[1] = "a" /\ Inserted[2] = "b" /\ Inserted[3] = "c"
    BY DEF Inserted
  <2>3. \A i, j \in 1..3 : Inserted[i] = Inserted[j] => i = j
    BY <2>2
  <2>4. IsInjective(Inserted)
    BY <2>1, <2>3 DEF IsInjective
  <2>5. "a" \in Ids /\ "b" \in Ids /\ "c" \in Ids
    BY <1>2, <2>1, <2>2 DEF Range
  <2>6. Inserted \in Seq(Ids)
    BY <2>5 DEF Inserted
  <2> QED BY <2>1, <2>4, <2>6
<1>4. similarity \in [Ids -> Int] /\ frequency \in [Ids -> Int] /\ topK \in Nat /\ 2 * topK \in Nat
  BY <1>2
<1>5. PICK n \in Nat : n = 2 * topK
  BY <1>4
<1>6. PICK vector \in Seq(Ids), keyword \in Seq(Ids) :
         Searched(vector, keyword, Inserted, similarity, frequency, n)
  BY <1>3, <1>4, SearchesReturn
<1>7. Len(vector) <= RrfK + 1 /\ Len(keyword) <= RrfK + 1
  BY <1>3, <1>6 DEF RrfK, Searched
<1>8. FusionFair(vector, keyword, topK, RrfFuse(vector, keyword, topK))
  <2>1. IsInjective(vector) /\ IsInjective(keyword)
    BY <1>6 DEF Searched
  <2> QED BY <1>4, <1>7, <2>1, EveryFusionFair
<1>9. vector = SearchVector(Inserted, similarity, 2 * topK)
      /\ keyword = SearchKeyword(Inserted, frequency, 2 * topK)
  BY <1>5, <1>6 DEF Searched
<1>10. PICK q : q = [vector |-> SearchVector(Inserted, similarity, 2 * topK),
                     keyword |-> SearchKeyword(Inserted, frequency, 2 * topK), topN |-> topK,
                     similarity |-> similarity, frequency |-> frequency]
  OBVIOUS
<1>11. SearchFinds(Inserted, q)
  <2>1. similarity \in [Ids -> Int]
    BY <1>4
  <2>2. frequency \in [Ids -> Int]
    BY <1>4
  <2>3. Inserted \in Seq(Ids)
    BY <1>3
  <2>4. IsInjective(Inserted)
    BY <1>3
  <2>5. topK \in Nat
    BY <1>4
  <2> QED BY <1>10, <2>1, <2>2, <2>3, <2>4, <2>5, EverySearchFinds, Zenon
<1>12. question'.kind = "search" /\ question'.in = q
       /\ answer' = HybridSearch(Inserted, similarity, frequency, topK)
  BY <1>1, <1>10 DEF Ask
<1>13. HybridSearch(Inserted, similarity, frequency, topK) = RrfFuse(vector, keyword, topK)
  BY <1>9 DEF HybridSearch
<1>14. q.vector = vector /\ q.keyword = keyword /\ q.topN = topK
  BY <1>9, <1>10
<1> QED BY <1>8, <1>11, <1>12, <1>13, <1>14 DEF RetrievalDecides

LEMMA AllocationAsked == ASSUME AskAllocation PROVE RetrievalDecides'
<1>1. PICK total \in {0, 100, 160, 170, 171, 172, 173, 400, 1001, 4096},
           history \in Needs, memories \in Needs, knowledge \in BOOLEAN :
         Ask("allocation", [total |-> total, history |-> history, memories |-> memories],
             Allocate(total, history, memories, knowledge))
  BY DEF AskAllocation
<1>2. /\ question'.kind = "allocation"
      /\ question'.in = [total |-> total, history |-> history, memories |-> memories]
      /\ answer' = Allocate(total, history, memories, knowledge)
  BY <1>1 DEF Ask
<1>3. total \in Nat /\ history \in AnyCount /\ memories \in AnyCount
  BY DEF Needs, AnyCount
<1>4. AllocationWhole(total, history, memories, Allocate(total, history, memories, knowledge))
  BY <1>3, EveryAllocationWhole
<1> QED BY <1>2, <1>4 DEF RetrievalDecides

BlockNames == {"memory", "knowledge", "history"}

LEMMA TruncationAsked == ASSUME AskTruncation PROVE RetrievalDecides'
<1>1. PICK n \in 0..3 : \E blocks \in [1..n -> Blocks], most \in -1..5 :
         /\ \A i, j \in 1..n : i # j => blocks[i].name # blocks[j].name
         /\ Ask("truncation", [blocks |-> blocks, most |-> most], Truncate(blocks, most))
  BY DEF AskTruncation
<1>2. PICK blocks \in [1..n -> Blocks], most \in -1..5 :
         /\ \A i, j \in 1..n : i # j => blocks[i].name # blocks[j].name
         /\ Ask("truncation", [blocks |-> blocks, most |-> most], Truncate(blocks, most))
  BY <1>1
<1>3. /\ question'.kind = "truncation"
      /\ question'.in = [blocks |-> blocks, most |-> most]
      /\ answer' = Truncate(blocks, most)
  BY <1>2 DEF Ask
<1>4. Blocks \subseteq Block(BlockNames)
  BY DEF Blocks, Block, BlockNames
<1>5. blocks \in [1..n -> Block(BlockNames)]
  BY <1>4
<1>6. Told(blocks)
  BY <1>2 DEF Told
<1>7. n \in Nat /\ most \in Int
  OBVIOUS
<1>8. TruncationByPriority(blocks, most, Truncate(blocks, most))
  BY <1>5, <1>6, <1>7, EveryTruncationByPriority
<1> QED BY <1>3, <1>8 DEF RetrievalDecides

LEMMA ContextAsked == ASSUME AskContext PROVE RetrievalDecides'
<1>1. CASE \E c \in [memories : {0, 2, 6}, entries : {0, 2, 4},
                     port : {"missing", "fails", "answers"}, hasOrg : BOOLEAN,
                     hasStore : BOOLEAN, failing : SUBSET {1, 2}] :
              Ask("context", c, Assemble(c))
  <2>1. PICK c \in [memories : {0, 2, 6}, entries : {0, 2, 4},
                     port : {"missing", "fails", "answers"}, hasOrg : BOOLEAN,
                     hasStore : BOOLEAN, failing : SUBSET {1, 2}] :
              Ask("context", c, Assemble(c))
    BY <1>1
  <2>2. question'.kind = "context" /\ question'.in = c /\ answer' = Assemble(c)
    BY <2>1 DEF Ask
  <2>3. c \in AnyContext
    BY DEF AnyContext
  <2>4. ContextComplete(c, Assemble(c))
    BY <2>3, EveryContextComplete
  <2> QED BY <2>2, <2>4 DEF RetrievalDecides
<1>2. CASE \E history \in Histories :
              Ask("rewrite", [history |-> history], RewriteQuery("query", history))
  <2>1. PICK history \in Histories :
              Ask("rewrite", [history |-> history], RewriteQuery("query", history))
    BY <1>2
  <2>2. /\ question'.kind = "rewrite" /\ question'.in = [history |-> history]
        /\ answer' = RewriteQuery("query", history)
    BY <2>1 DEF Ask
  <2>3. PICK Roles, Contents : Roles = {"user", "assistant"} /\ Contents = {"x", "y", "", "query"}
    OBVIOUS
  <2>4. [role : {"user", "assistant"}, content : {"x", "y", ""}] \subseteq Spoken(Roles, Contents)
    BY <2>3 DEF Spoken
  <2>5. PICK n \in 0..4 : history \in [1..n -> [role : {"user", "assistant"}, content : {"x", "y", ""}]]
    BY DEF Histories
  <2>6. history \in Seq(Spoken(Roles, Contents))
    <3>1. PICK T : T = Spoken(Roles, Contents)
      OBVIOUS
    <3>2. history \in [1..n -> T]
      BY <2>4, <2>5, <3>1
    <3>3. history \in Seq(T)
      BY <3>2
    <3> QED BY <3>1, <3>3
  <2>7. "query" \in Contents
    BY <2>3
  <2>8. RewriteKeeps("query", history, RewriteQuery("query", history))
    BY <2>6, <2>7, EveryRewriteKeeps
  <2> QED BY <2>2, <2>8 DEF RetrievalDecides
<1> QED BY <1>1, <1>2 DEF AskContext

LEMMA EdgeKind ==
    ASSUME NEW kind \in EdgeKinds, NEW input, NEW result, Ask(kind, input, result)
    PROVE  question'.kind \in EdgeKinds
BY DEF Ask

LEMMA EdgesAsked ==
    ASSUME AskGateway \/ AskSocket \/ AskFilters
           \/ AskPersona \/ AskTurn \/ AskPrompt \/ AskParams \/ AskOutfits \/ AskTool
           \/ AskModel \/ AskUsage \/ AskSettings \/ AskMarkup
           \/ AskRedaction \/ AskLabel \/ AskStorage \/ AskConfidence \/ AskAudit
           \/ AskRetry \/ AskHeader \/ AskReport
    PROVE  RetrievalDecides'
<1>1. question'.kind \in EdgeKinds
  <2>1. CASE AskGateway
    BY <2>1, EdgeKind, Zenon DEF AskGateway, EdgeKinds
  <2>2. CASE AskSocket
    BY <2>2, EdgeKind, Zenon DEF AskSocket, EdgeKinds
  <2>3. CASE AskFilters
    BY <2>3, EdgeKind, Zenon DEF AskFilters, EdgeKinds
  <2>4. CASE AskRedaction
    BY <2>4, EdgeKind, Zenon DEF AskRedaction, EdgeKinds
  <2>5. CASE AskLabel
    BY <2>5, EdgeKind, Zenon DEF AskLabel, EdgeKinds
  <2>6. CASE AskPersona
    BY <2>6 DEF AskPersona, Ask, EdgeKinds
  <2>7. CASE AskTurn
    BY <2>7 DEF AskTurn, Ask, EdgeKinds
  <2>8. CASE AskPrompt
    BY <2>8, EdgeKind, Zenon DEF AskPrompt, EdgeKinds
  <2>9. CASE AskParams
    BY <2>9 DEF AskParams, Ask, EdgeKinds
  <2>10. CASE AskOutfits
    BY <2>10, EdgeKind, Zenon DEF AskOutfits, EdgeKinds
  <2>11. CASE AskTool
    BY <2>11 DEF AskTool, Ask, EdgeKinds
  <2>12. CASE AskModel
    BY <2>12, EdgeKind, Zenon DEF AskModel, EdgeKinds
  <2>13. CASE AskUsage
    BY <2>13, EdgeKind, Zenon DEF AskUsage, EdgeKinds
  <2>14. CASE AskSettings
    BY <2>14 DEF AskSettings, Ask, EdgeKinds
  <2>15. CASE AskMarkup
    BY <2>15 DEF AskMarkup, Ask, EdgeKinds
  <2>16. CASE AskStorage
    BY <2>16, EdgeKind, Zenon DEF AskStorage, EdgeKinds
  <2>17. CASE AskConfidence
    <3>1. PICK base \in {0, 20, 30, 60, 90}, validAt \in 1..4, now \in 1..4, validatedAt \in 0..4,
               threshold \in {0, 30} :
             Ask("confidence", [base |-> base, validAt |-> validAt, validatedAt |-> validatedAt,
                                now |-> now, threshold |-> threshold],
                 IsStale(base, validAt, validatedAt, now, threshold))
      BY <2>17 DEF AskConfidence
    <3> QED BY <3>1 DEF Ask, EdgeKinds
  <2>18. CASE AskAudit
    BY <2>18, EdgeKind, Zenon DEF AskAudit, EdgeKinds
  <2>19. CASE AskRetry
    BY <2>19, EdgeKind, Zenon DEF AskRetry, EdgeKinds
  <2>20. CASE AskHeader
    BY <2>20, EdgeKind, Zenon DEF AskHeader, EdgeKinds
  <2>21. CASE AskReport
    BY <2>21, EdgeKind, Zenon DEF AskReport, EdgeKinds
  <2> QED BY <2>1, <2>2, <2>3, <2>4, <2>5, <2>6, <2>7, <2>8, <2>9, <2>10, <2>11, <2>12,
             <2>13, <2>14, <2>15, <2>16, <2>17, <2>18, <2>19, <2>20, <2>21
<1> QED BY <1>1, EdgeAsked

\* What goes into a context is chosen, cut and filled as it should be, under every
\* order in which the pages ask.
THEOREM RetrievalIsRight == PagesSpec => []RetrievalDecides
<1>1. PagesInit => RetrievalDecides
  BY DEF PagesInit, Init, RetrievalDecides
<1>2. ASSUME RetrievalDecides, Next PROVE RetrievalDecides'
  BY <1>2, FusionAsked, SearchAsked, AllocationAsked, TruncationAsked, ContextAsked, EdgesAsked DEF Next
<1>3. ASSUME RetrievalDecides, UNCHANGED Questions PROVE RetrievalDecides'
  BY <1>3 DEF Questions, RetrievalDecides
<1>4. RetrievalDecides /\ [PagesNext]_<<Questions, clientVars, adminVars, part>> => RetrievalDecides'
  BY <1>2, <1>3 DEF PagesNext, WebStep, AdminStep
<1> QED BY <1>1, <1>4, PTL DEF PagesSpec
=============================================================================
