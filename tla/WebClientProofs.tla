-------------------------- MODULE WebClientProofs --------------------------
(***************************************************************************)
(* Proofs for WebClient: every variable of the client and of the server it *)
(* asks is of its type, and every page shows what the answers and pushes   *)
(* it got say, for any number of accounts, transactions, blocks, peers,    *)
(* delegates, requests and pages.                                          *)
(***************************************************************************)
EXTENDS WebClient, FiniteSetTheorems, WellFoundedInduction, SequenceTheorems, TLAPS

-----------------------------------------------------------------------------
(* Induction over numbers and over the subsets of a finite set: sets take the *)
(* place of predicates.                                                       *)

\* A set of naturals has a least member.
LEMMA SmallestOf ==
    ASSUME NEW T, T \subseteq Nat, T # {}
    PROVE  \E x \in T : \A y \in T : x <= y
<1> DEFINE R == OpToRel(<, Nat)
<1>1. PICK x \in T : \A y \in T : ~ (<<y, x>> \in R)
  BY NatLessThanWellFounded, WFMin, Zenon
<1>2. \A i, j \in Nat : i < j => <<i, j>> \in R
  BY DEF OpToRel
<1> HIDE DEF R
<1>3. \A y \in T : y \in Nat /\ x \in Nat /\ ~ (y < x)
  BY <1>1, <1>2
<1> QED BY <1>3

\* What holds of zero, and of a number's successor with it, holds of all naturals.
LEMMA Induction ==
    ASSUME NEW T, 0 \in T, \A n \in Nat : n \in T => n + 1 \in T
    PROVE  Nat \subseteq T
<1> SUFFICES ASSUME Nat \ T # {} PROVE FALSE
  OBVIOUS
<1>1. PICK m \in Nat \ T : \A y \in Nat \ T : m <= y
  BY SmallestOf
<1>2. PICK k \in Nat : k + 1 = m
  BY m # 0
<1>3. k \in T
  BY <1>1, <1>2
<1> QED BY <1>1, <1>2, <1>3

\* What holds of a set if it holds of the set without any one member holds of all subsets.
LEMMA SetInduction ==
    ASSUME NEW U, IsFiniteSet(U), NEW T,
           \A s \in SUBSET U : (\A x \in s : s \ {x} \in T) => s \in T
    PROVE  SUBSET U \subseteq T
<1> DEFINE G == {n \in Nat : \A s \in SUBSET U : Cardinality(s) = n => s \in T}
<1>1. ASSUME NEW s \in SUBSET U
      PROVE  IsFiniteSet(s) /\ Cardinality(s) \in Nat
  BY FS_Subset, FS_CardinalityType
<1>2. 0 \in G
  <2> SUFFICES ASSUME NEW s \in SUBSET U, Cardinality(s) = 0 PROVE s \in T
    OBVIOUS
  <2>1. s = {}
    BY <1>1, FS_EmptySet
  <2> QED BY <2>1
<1>3. ASSUME NEW n \in Nat, n \in G PROVE n + 1 \in G
  <2> SUFFICES ASSUME NEW s \in SUBSET U, Cardinality(s) = n + 1 PROVE s \in T
    OBVIOUS
  <2>1. ASSUME NEW x \in s PROVE s \ {x} \in T
    <3>1. Cardinality(s \ {x}) = Cardinality(s) - 1
      BY <1>1, FS_RemoveElement
    <3>2. Cardinality(s \ {x}) = n
      BY <3>1
    <3> QED BY <1>3, <3>2
  <2> QED BY <2>1
<1> HIDE DEF G
<1>4. Nat \subseteq G
  BY <1>2, <1>3, Induction
<1> QED BY <1>1, <1>4 DEF G

-----------------------------------------------------------------------------
(* Sums over finite sets. *)

\* The sum of a function's values: MapThenSumSet for an operator that applies a function.
SumOf(f, S) == MapThenSumSet(LAMBDA x : f[x], S)

\* What MapThenSumSet computes step by step, for every subset of S.
SumStep(f, h, s) == IF s = {} THEN 0
                    ELSE LET x == CHOOSE x \in s : TRUE IN f[x] + h[s \ {x}]

\* SumOf is what the last value of the step function is.
LEMMA SumDef ==
    ASSUME NEW f, NEW S
    PROVE  SumOf(f, S) = (CHOOSE h : h = [s \in SUBSET S |-> SumStep(f, h, s)])[S]
BY DEF SumOf, MapThenSumSet, MapThenFoldSet, SumStep

\* There is such a function.
LEMMA SumExists ==
    ASSUME NEW S, IsFiniteSet(S), NEW f
    PROVE  \E h : h = [s \in SUBSET S |-> SumStep(f, h, s)]
<1> DEFINE Upto(h, n) == /\ h = [s \in SUBSET S |-> h[s]]
                         /\ \A s \in SUBSET S : Cardinality(s) <= n => h[s] = SumStep(f, h, s)
           G == {n \in Nat : \E h : Upto(h, n)}
<1>0. \A s \in SUBSET S : IsFiniteSet(s) /\ Cardinality(s) \in Nat /\ Cardinality(s) <= Cardinality(S)
  BY FS_Subset, FS_CardinalityType
<1>1. 0 \in G
  <2> DEFINE h == [s \in SUBSET S |-> 0]
  <2>1. ASSUME NEW s \in SUBSET S, Cardinality(s) <= 0 PROVE h[s] = SumStep(f, h, s)
    <3>1. s = {}
      BY <1>0, <2>1, FS_EmptySet
    <3> QED BY <3>1 DEF SumStep
  <2>2. h = [s \in SUBSET S |-> h[s]]
    OBVIOUS
  <2> HIDE DEF h
  <2> QED BY <2>1, <2>2
<1>2. ASSUME NEW n \in Nat, n \in G PROVE n + 1 \in G
  <2>1. PICK h : Upto(h, n)
    BY <1>2
  <2> DEFINE k == [s \in SUBSET S |-> SumStep(f, h, s)]
  <2>2. \A s \in SUBSET S : k[s] = SumStep(f, h, s)
    OBVIOUS
  <2>3. k = [s \in SUBSET S |-> k[s]]
    OBVIOUS
  <2> HIDE DEF k
  <2>4. ASSUME NEW s \in SUBSET S, Cardinality(s) <= n + 1 PROVE k[s] = SumStep(f, k, s)
    <3>1. CASE s = {}
      BY <2>2, <3>1 DEF SumStep
    <3>2. CASE s # {}
      <4> DEFINE x == CHOOSE x \in s : TRUE
      <4>1. x \in s
        BY <3>2
      <4> HIDE DEF x
      <4>2. s \ {x} \in SUBSET S /\ Cardinality(s \ {x}) <= n
        <5>1. Cardinality(s \ {x}) = Cardinality(s) - 1
          BY <1>0, <4>1, FS_RemoveElement
        <5> QED BY <1>0, <2>4, <5>1
      <4>3. h[s \ {x}] = k[s \ {x}]
        BY <2>1, <2>2, <4>2
      <4>4. SumStep(f, h, s) = f[x] + h[s \ {x}] /\ SumStep(f, k, s) = f[x] + k[s \ {x}]
        BY <3>2 DEF SumStep, x
      <4> QED BY <2>2, <4>3, <4>4
    <3> QED BY <3>1, <3>2
  <2>5. Upto(k, n + 1)
    BY <2>3, <2>4
  <2> HIDE DEF Upto
  <2> QED BY <2>5
<1> HIDE DEF G
<1>3. Nat \subseteq G
  BY <1>1, <1>2, Induction
<1>4. Cardinality(S) \in Nat
  BY FS_CardinalityType
<1>5. PICK h : Upto(h, Cardinality(S))
  BY <1>3, <1>4 DEF G
<1>6. h = [s \in SUBSET S |-> SumStep(f, h, s)]
  BY <1>0, <1>5
<1> QED BY <1>6

\* A function that sums the subsets up.
SumsUp(h, f, S) == \A s \in SUBSET S : h[s] = SumStep(f, h, s)

\* The partial sums, which two functions that agree have in common.
LEMMA SumUnique ==
    ASSUME NEW S, IsFiniteSet(S), NEW f, NEW e,
           \A x \in S : f[x] = e[x],
           NEW h, SumsUp(h, f, S), NEW k, SumsUp(k, e, S)
    PROVE  \A s \in SUBSET S : h[s] = k[s]
<1> DEFINE G == {s \in SUBSET S : h[s] = k[s]}
<1>1. ASSUME NEW s \in SUBSET S, \A x \in s : s \ {x} \in G PROVE s \in G
  <2>1. h[s] = SumStep(f, h, s) /\ k[s] = SumStep(e, k, s)
    <3>1. s \in SUBSET S
      OBVIOUS
    <3> QED BY <3>1 DEF SumsUp
  <2>2. CASE s = {}
    BY <2>1, <2>2 DEF SumStep
  <2>3. CASE s # {}
    <3> DEFINE x == CHOOSE x \in s : TRUE
    <3>1. x \in s
      BY <2>3
    <3>2. SumStep(f, h, s) = f[x] + h[s \ {x}] /\ SumStep(e, k, s) = e[x] + k[s \ {x}]
      BY <2>3 DEF SumStep
    <3> HIDE DEF x
    <3>3. h[s \ {x}] = k[s \ {x}] /\ f[x] = e[x]
      BY <1>1, <3>1
    <3> QED BY <2>1, <3>2, <3>3
  <2> QED BY <2>2, <2>3
<1> HIDE DEF G
<1>3. SUBSET S \subseteq G
  BY <1>1, SetInduction
<1> QED BY <1>3 DEF G

\* The sums over all subsets.  A sum takes its members in any order.
IsSum(g, f, S) ==
    /\ g \in [SUBSET S -> Int] /\ g[{}] = 0
    /\ \A s \in SUBSET S : \A x \in s : g[s] = f[x] + g[s \ {x}]
    /\ \A s \in SUBSET S : g[s] = SumOf(f, s)

\* Every finite set with integers has its partial sums.
LEMMA PartialSums ==
    ASSUME NEW S, IsFiniteSet(S), NEW f, \A x \in S : f[x] \in Int
    PROVE  \E g : IsSum(g, f, S)
<1> DEFINE g == CHOOSE h : h = [s \in SUBSET S |-> SumStep(f, h, s)]
<1>1. g = [s \in SUBSET S |-> SumStep(f, g, s)]
  BY SumExists
<1> HIDE DEF g
<1>2. \A s \in SUBSET S : g[s] = SumStep(f, g, s)
  BY <1>1, Zenon
<1>3. \A s \in SUBSET S : IsFiniteSet(s)
  BY FS_Subset
<1>4. g[{}] = 0
  BY <1>2 DEF SumStep
<1> DEFINE G == {s \in SUBSET S : /\ g[s] \in Int
                                /\ \A x \in s : g[s \ {x}] \in Int /\ g[s] = f[x] + g[s \ {x}]}
<1>5. ASSUME NEW s \in SUBSET S, \A x \in s : s \ {x} \in G PROVE s \in G
  <2>1. CASE s = {}
    BY <1>4, <2>1
  <2>2. CASE s # {}
    <3> DEFINE c == CHOOSE c \in s : TRUE
    <3>1. c \in s
      BY <2>2
    <3>2. g[s] = f[c] + g[s \ {c}]
      BY <1>2, <2>2 DEF SumStep
    <3> HIDE DEF c
    <3>3. \A x \in s : f[x] \in Int /\ g[s \ {x}] \in Int
      BY <1>5
    <3>4. g[s] \in Int
      <4>1. f[c] \in Int /\ g[s \ {c}] \in Int
        BY <3>1, <3>3
      <4> QED BY <3>2, <4>1
    <3>5. ASSUME NEW x \in s PROVE g[s] = f[x] + g[s \ {x}]
      <4>1. CASE x = c
        BY <3>2, <4>1
      <4>2. CASE x # c
        <5> DEFINE both == (s \ {c}) \ {x}
        <5>1. g[s \ {c}] = f[x] + g[both]
          BY <1>5, <3>1, <4>2
        <5>2. g[s \ {x}] = f[c] + g[(s \ {x}) \ {c}]
          BY <1>5, <3>1, <4>2
        <5>3. (s \ {x}) \ {c} = both
          OBVIOUS
        <5>4. g[both] \in Int
          BY <1>5, <3>1, <4>2
        <5>5. f[c] \in Int /\ f[x] \in Int
          BY <3>1, <3>3
        <5>6. g[s] = f[c] + (f[x] + g[both]) /\ g[s \ {x}] = f[c] + g[both]
          <6> HIDE DEF both
          <6> QED BY <3>2, <5>1, <5>2, <5>3
        <5> HIDE DEF both
        <5> QED BY <5>4, <5>5, <5>6
      <4> QED BY <4>1, <4>2
    <3> QED BY <3>3, <3>4, <3>5
  <2> QED BY <2>1, <2>2
<1> HIDE DEF G
<1>6. SUBSET S \subseteq G
  BY <1>5, SetInduction
<1>7. ASSUME NEW s \in SUBSET S PROVE g[s] = SumOf(f, s)
  <2> DEFINE k == CHOOSE k : k = [r \in SUBSET s |-> SumStep(f, k, r)]
  <2>1. k = [r \in SUBSET s |-> SumStep(f, k, r)]
    BY <1>3, SumExists
  <2>2. SumOf(f, s) = k[s]
    BY SumDef
  <2> HIDE DEF k
  <2>3. \A r \in SUBSET s : g[r] = k[r]
    <3>1. SumsUp(g, f, s)
      BY <1>2 DEF SumsUp
    <3>2. SumsUp(k, f, s)
      BY <2>1, Zenon DEF SumsUp
    <3> QED BY <1>3, <3>1, <3>2, SumUnique
  <2> QED BY <2>2, <2>3
<1>8. g \in [SUBSET S -> Int]
  <2>1. \A s \in SUBSET S : g[s] \in Int
    BY <1>6 DEF G
  <2>2. g = [s \in SUBSET S |-> g[s]]
    BY <1>1, <1>2, Zenon
  <2> QED BY <2>1, <2>2
<1>9. \A s \in SUBSET S : \A x \in s : g[s] = f[x] + g[s \ {x}]
  BY <1>6 DEF G
<1>10. \A s \in SUBSET S : g[s] = SumOf(f, s)
  BY <1>7
<1>11. IsSum(g, f, S)
  BY <1>4, <1>8, <1>9, <1>10 DEF IsSum
<1> QED BY <1>11, Zenon

\* Functions that agree on a set have the same sum over it.
LEMMA SumSame ==
    ASSUME NEW S, IsFiniteSet(S), NEW f, NEW e, \A x \in S : f[x] = e[x]
    PROVE  SumOf(f, S) = SumOf(e, S)
<1> DEFINE h == CHOOSE h : h = [s \in SUBSET S |-> SumStep(f, h, s)]
           k == CHOOSE k : k = [s \in SUBSET S |-> SumStep(e, k, s)]
<1>1. h = [s \in SUBSET S |-> SumStep(f, h, s)]
  BY SumExists
<1>2. k = [s \in SUBSET S |-> SumStep(e, k, s)]
  BY SumExists
<1>3. SumOf(f, S) = h[S] /\ SumOf(e, S) = k[S]
  BY SumDef
<1> HIDE DEF h, k
<1>4. \A s \in SUBSET S : h[s] = k[s]
  <2>1. SumsUp(h, f, S)
    BY <1>1, Zenon DEF SumsUp
  <2>2. SumsUp(k, e, S)
    BY <1>2, Zenon DEF SumsUp
  <2> QED BY <2>1, <2>2, SumUnique
<1> QED BY <1>3, <1>4

\* What is counted apart, value by value, is counted once.
LEMMA CountsAddUp ==
    ASSUME NEW P, IsFiniteSet(P), NEW v, NEW K, IsFiniteSet(K), NEW parts,
           \A k \in K : parts[k] = Cardinality({p \in P : v[p] = k})
    PROVE  SumOf(parts, K) = Cardinality({p \in P : v[p] \in K})
<1> DEFINE Of(s) == {p \in P : v[p] \in s}
           One(k) == {p \in P : v[p] = k}
<1>1. \A s : IsFiniteSet(Of(s)) /\ Cardinality(Of(s)) \in Nat
  BY FS_Subset, FS_CardinalityType
<1>2. \A k : IsFiniteSet(One(k)) /\ Cardinality(One(k)) \in Nat
  BY FS_Subset, FS_CardinalityType
<1>3. \A k \in K : parts[k] \in Int /\ parts[k] = Cardinality(One(k))
  <2>1. \A k \in K : parts[k] = Cardinality(One(k))
    OBVIOUS
  <2> HIDE DEF One
  <2> QED BY <1>2, <2>1
<1>4. PICK g : IsSum(g, parts, K)
  BY <1>3, PartialSums
<1> DEFINE G == {s \in SUBSET K : g[s] = Cardinality(Of(s))}
<1>5. ASSUME NEW s \in SUBSET K, \A k \in s : s \ {k} \in G PROVE s \in G
  <2>1. CASE s = {}
    <3>1. Of(s) = {}
      BY <2>1
    <3> QED BY <1>4, <2>1, <3>1, FS_EmptySet DEF IsSum
  <2>2. CASE s # {}
    <3>1. PICK k \in s : TRUE
      BY <2>2
    <3>2. Of(s) = One(k) \cup Of(s \ {k}) /\ One(k) \cap Of(s \ {k}) = {}
      BY <3>1
    <3>3. g[s \ {k}] = Cardinality(Of(s \ {k})) /\ g[s] = parts[k] + g[s \ {k}]
      BY <1>4, <1>5, <3>1 DEF IsSum
    <3> DEFINE all == Of(s)
               one == One(k)
               rest == Of(s \ {k})
    <3>8. IsFiniteSet(one) /\ IsFiniteSet(rest) /\ all = one \cup rest /\ one \cap rest = {}
      BY <1>1, <1>2, <3>2
    <3> HIDE DEF Of, One
    <3>4. Cardinality(Of(s)) = Cardinality(One(k)) + Cardinality(Of(s \ {k})) - Cardinality({})
      <4> HIDE DEF all, one, rest
      <4>1. Cardinality(all) = Cardinality(one) + Cardinality(rest) - Cardinality({})
        BY <3>8, FS_Union
      <4> QED BY <4>1 DEF all, one, rest
    <3>5. Cardinality({}) = 0
      BY FS_EmptySet
    <3>6. g[s] = Cardinality(Of(s))
      BY <1>1, <1>2, <1>3, <3>1, <3>3, <3>4, <3>5
    <3> QED BY <3>6
  <2> QED BY <2>1, <2>2
<1> HIDE DEF G, Of, One
<1>6. SUBSET K \subseteq G
  BY <1>5, SetInduction
<1>7. K \in SUBSET K
  OBVIOUS
<1> QED BY <1>4, <1>6, <1>7 DEF G, Of, IsSum

\* Renaming the members one by one does not change a sum.
LEMMA SumRenamed ==
    ASSUME NEW S, IsFiniteSet(S), NEW f, \A x \in S : f[x] \in Int,
           NEW R, IsFiniteSet(R), NEW e, NEW F \in [S -> R], \A x, y \in S : F[x] = F[y] => x = y,
           \A x \in S : e[F[x]] = f[x], R = {F[x] : x \in S}
    PROVE  SumOf(e, R) = SumOf(f, S)
<1>1. \A y \in R : e[y] \in Int
  OBVIOUS
<1>2. PICK g : IsSum(g, f, S)
  BY PartialSums
<1>3. PICK h : IsSum(h, e, R)
  BY <1>1, PartialSums
<1> DEFINE Im(s) == {F[x] : x \in s}
           G == {s \in SUBSET S : h[Im(s)] = g[s]}
<1>4. ASSUME NEW s \in SUBSET S, \A x \in s : s \ {x} \in G PROVE s \in G
  <2>1. CASE s = {}
    <3>1. Im(s) = {}
      BY <2>1
    <3> QED BY <1>2, <1>3, <2>1, <3>1 DEF IsSum
  <2>2. CASE s # {}
    <3>1. PICK x \in s : TRUE
      BY <2>2
    <3>2. Im(s) \in SUBSET R /\ F[x] \in Im(s) /\ Im(s) \ {F[x]} = Im(s \ {x})
      BY <3>1
    <3>3. h[Im(s \ {x})] = g[s \ {x}]
      BY <1>4, <3>1
    <3> HIDE DEF Im
    <3>4. h[Im(s)] = e[F[x]] + h[Im(s) \ {F[x]}] /\ g[s] = f[x] + g[s \ {x}] /\ e[F[x]] = f[x]
      BY <1>2, <1>3, <3>1, <3>2 DEF IsSum
    <3> QED BY <3>2, <3>3, <3>4
  <2> QED BY <2>1, <2>2
<1> HIDE DEF G
<1>5. SUBSET S \subseteq G
  BY <1>4, SetInduction
<1>6. S \in SUBSET S /\ R \in SUBSET R /\ Im(S) = R
  OBVIOUS
<1> QED BY <1>2, <1>3, <1>5, <1>6 DEF G, IsSum

-----------------------------------------------------------------------------
(* The page of the peers. *)

\* The ips that are to have a marker.
Located(L) == {p.ip : p \in {q \in L : q.located}}

\* addConnected leaves a marker for each located peer, and no other.
LEMMA MarkersOfConnected ==
    ASSUME NEW markers, NEW L PROVE AddConnected(markers, L) = Located(L)
BY DEF AddConnected, Located

\* A set and what is left out of it.
LEMMA CountParted ==
    ASSUME NEW P, IsFiniteSet(P), NEW A, NEW B, A \cup B = P, A \cap B = {}
    PROVE  Cardinality(A) + Cardinality(B) = Cardinality(P)
<1>1. IsFiniteSet(A) /\ IsFiniteSet(B)
  BY FS_Subset
<1>2. Cardinality(A \cup B) = Cardinality(A) + Cardinality(B) - Cardinality({})
  BY <1>1, FS_Union
<1>3. Cardinality(A) \in Nat /\ Cardinality(B) \in Nat /\ Cardinality({}) = 0
  BY <1>1, FS_CardinalityType, FS_EmptySet
<1>4. Cardinality(P) = Cardinality(A) + Cardinality(B) - Cardinality({})
  BY <1>2
<1> QED BY <1>3, <1>4

\* The values of a field of the peers are finitely many.
LEMMA FieldFinite ==
    ASSUME NEW L, IsFiniteSet(L), NEW v
    PROVE  IsFiniteSet({v[p] : p \in L})
<1> DEFINE F == [p \in L |-> v[p]]
           V == {v[p] : p \in L}
<1>1. F \in Surjection(L, V)
  BY DEF Surjection
<1> HIDE DEF F, V
<1>2. IsFiniteSet(V)
  BY <1>1, FS_Surjection
<1> QED BY <1>2 DEF V

\* One count for each value in K, and the peers that have one of these values.
Counted(parts, K, v, L) ==
    /\ IsFiniteSet(L) /\ IsFiniteSet(K) /\ DOMAIN parts = K
    /\ \A k \in K : parts[k] = Cardinality({p \in L : v[p] = k})
Within(L, v, K) == {p \in L : v[p] \in K}

\* They count these peers once.
LEMMA CountedWithin ==
    ASSUME NEW parts, NEW K, NEW v, NEW L, Counted(parts, K, v, L)
    PROVE  CountsOf(parts) = Cardinality(Within(L, v, K))
<1>1. SumOf(parts, K) = Cardinality(Within(L, v, K))
  BY CountsAddUp DEF Counted, Within
<1> QED BY <1>1 DEF CountsOf, SumOf, Counted

\* With all the others they are all peers.
LEMMA CountedApart ==
    ASSUME NEW parts, NEW K, NEW v, NEW L, Counted(parts, K, v, L)
    PROVE  CountsOf(parts) + Cardinality(L \ Within(L, v, K)) = Cardinality(L)
<1> DEFINE A == Within(L, v, K)
<1>1. A \cup (L \ A) = L /\ A \cap (L \ A) = {}
  BY DEF Within
<1>2. Cardinality(A) + Cardinality(L \ A) = Cardinality(L)
  <2> HIDE DEF A
  <2> QED BY <1>1, CountParted DEF Counted
<1>3. CountsOf(parts) = Cardinality(A)
  BY CountedWithin
<1> HIDE DEF A
<1>4. CountsOf(parts) + Cardinality(L \ A) = Cardinality(L)
  BY <1>2, <1>3
<1> QED BY <1>4 DEF A

\* Each count of Counter counts every peer once.
CounterOf(c, L) ==
    /\ c.connected = Cardinality(L)
    /\ CountsOf(c.platforms) = c.connected
    /\ CountsOf(c.versions.one) + c.versions.other = c.connected
    /\ CountsOf(c.heights.one) + c.heights.other = c.connected
    /\ CountsOf(c.versionDistribution) = c.connected
    /\ CountsOf(c.platformDistribution) = c.connected
    /\ CountsOf(c.heightDistribution) = Cardinality({p \in L : p.height # 0})

\* Of finitely many values the greatest ones are finitely many.
LEMMA GreatestFinite ==
    ASSUME NEW V, IsFiniteSet(V), NEW n PROVE IsFiniteSet(Greatest(V, n)) /\ Greatest(V, n) \subseteq V
<1>1. Greatest(V, n) \subseteq V
  BY DEF Greatest
<1> QED BY <1>1, FS_Subset

\* Platforms counts every peer once: each belongs to one platform.
LEMMA PlatformsCounted ==
    ASSUME NEW L, L \subseteq Peer
    PROVE  CountsOf(Platforms(L)) = Cardinality(L)
<1> DEFINE v == [p \in L |-> p.group]
<1>1. IsFiniteSet(L) /\ IsFiniteSet(0 .. 3)
  <2>1. IsFiniteSet(L)
    BY PeerAssumption, FS_Subset
  <2>2. 0 \in Int /\ 3 \in Int
    OBVIOUS
  <2>3. IsFiniteSet(0 .. 3)
    BY ONLY <2>2, FS_Interval, Zenon
  <2> QED BY <2>1, <2>3
<1>2. DOMAIN Platforms(L) = 0 .. 3
  BY DEF Platforms
<1>3. \A k \in 0 .. 3 : Platforms(L)[k] = Cardinality({p \in L : v[p] = k})
  <2> SUFFICES ASSUME NEW k \in 0 .. 3 PROVE Platforms(L)[k] = Cardinality({p \in L : v[p] = k})
    OBVIOUS
  <2>1. {p \in L : v[p] = k} = {p \in L : p.group = k}
    OBVIOUS
  <2> QED BY <2>1 DEF Platforms
<1>4. Within(L, v, 0 .. 3) = L
  BY PeerAssumption DEF Within
<1> HIDE DEF v
<1>5. Counted(Platforms(L), 0 .. 3, v, L)
  BY <1>1, <1>2, <1>3 DEF Counted
<1> QED BY <1>4, <1>5, CountedWithin

\* Distribution has a count for every version or platform there is.
LEMMA DistributionsCounted ==
    ASSUME NEW L, L \subseteq Peer, NEW f \in {"version", "group"}
    PROVE  CountsOf(Distribution(L, f)) = Cardinality(L)
<1> DEFINE v == [p \in L |-> p[f]]
           K == {p[f] : p \in L}
           parts == Distribution(L, f)
<1>1. IsFiniteSet(L)
  BY PeerAssumption, FS_Subset
<1>2. IsFiniteSet(K)
  <2>1. K = {v[p] : p \in L}
    OBVIOUS
  <2> HIDE DEF v, K
  <2> QED BY <1>1, <2>1, FieldFinite
<1>3. DOMAIN parts = K
  BY DEF Distribution
<1>4. \A k \in K : parts[k] = Cardinality({p \in L : v[p] = k})
  <2> SUFFICES ASSUME NEW k \in K PROVE parts[k] = Cardinality({p \in L : v[p] = k})
    OBVIOUS
  <2>1. {p \in L : v[p] = k} = {p \in L : p[f] = k}
    OBVIOUS
  <2> QED BY <2>1 DEF Distribution
<1>5. Within(L, v, K) = L
  BY DEF Within
<1> HIDE DEF v, K, parts
<1>6. CountsOf(parts) = Cardinality(L)
  <2>1. Counted(parts, K, v, L)
    BY <1>1, <1>2, <1>3, <1>4 DEF Counted
  <2> QED BY <1>5, <2>1, CountedWithin
<1> QED BY <1>6 DEF parts

\* Versions counts the greatest versions apart and all others together.
LEMMA VersionsCounted ==
    ASSUME NEW L, L \subseteq Peer
    PROVE  CountsOf(Versions(L).one) + Versions(L).other = Cardinality(L)
<1> DEFINE v == [p \in L |-> p.version]
           V == {p.version : p \in L}
           K == Greatest(V, 3)
           parts == [k \in K |-> Cardinality({p \in L : p.version = k})]
           rest == {p \in L : p.version \notin K}
<1>1. IsFiniteSet(L)
  BY PeerAssumption, FS_Subset
<1>2. IsFiniteSet(K)
  <2>1. V = {v[p] : p \in L}
    OBVIOUS
  <2>2. IsFiniteSet(V)
    <3> HIDE DEF v, V
    <3> QED BY <1>1, <2>1, FieldFinite
  <2> HIDE DEF V
  <2> QED BY <2>2, GreatestFinite
<1>3. Versions(L).one = parts /\ Versions(L).other = Cardinality(rest)
  BY DEF Versions
<1> HIDE DEF K
<1>4. DOMAIN parts = K
  OBVIOUS
<1>5. \A k \in K : parts[k] = Cardinality({p \in L : v[p] = k})
  <2> SUFFICES ASSUME NEW k \in K PROVE parts[k] = Cardinality({p \in L : v[p] = k})
    OBVIOUS
  <2>1. {p \in L : v[p] = k} = {p \in L : p.version = k}
    OBVIOUS
  <2> QED BY <2>1
<1>6. L \ Within(L, v, K) = rest
  BY DEF Within
<1> HIDE DEF v, parts, rest
<1>7. CountsOf(parts) + Cardinality(rest) = Cardinality(L)
  <2>1. Counted(parts, K, v, L)
    BY <1>1, <1>2, <1>4, <1>5 DEF Counted
  <2> QED BY <1>6, <2>1, CountedApart
<1> QED BY <1>3, <1>7

\* Those with a height.
LEMMA HeightsCounted ==
    ASSUME NEW L, L \subseteq Peer
    PROVE  /\ CountsOf(Heights(L).one) + Heights(L).other = Cardinality(L)
           /\ CountsOf(HeightDistribution(L)) = Cardinality({p \in L : p.height # 0})
<1> DEFINE H == {p \in L : p.height # 0}
           v == [p \in H |-> p.height]
           V == {p.height : p \in L}
           K == TopHeights(L)
           parts == [k \in K |-> Cardinality({p \in L : p.height = k /\ k # 0})]
           first == {p \in L : p.height \in K /\ p.height # 0}
           rest == {p \in L : p.height \notin K \/ p.height = 0}
<1>1. IsFiniteSet(L) /\ IsFiniteSet(H)
  BY PeerAssumption, FS_Subset
<1>2. IsFiniteSet(V)
  <2> DEFINE w == [p \in L |-> p.height]
  <2>1. V = {w[p] : p \in L}
    OBVIOUS
  <2> HIDE DEF w, V
  <2> QED BY <1>1, <2>1, FieldFinite
<1>3. IsFiniteSet(K)
  <2>1. IsFiniteSet(V \ {0}) /\ IsFiniteSet({0})
    BY <1>2, FS_Subset, FS_Singleton
  <2>2. IsFiniteSet(Greatest(V, 4)) /\ IsFiniteSet(Greatest(V \ {0}, 3))
    <3> HIDE DEF V
    <3> QED BY <1>2, <2>1, GreatestFinite
  <2>3. IsFiniteSet({0} \cup Greatest(V \ {0}, 3))
    BY <2>1, <2>2, FS_Union
  <2>4. K = {0} \cup Greatest(V \ {0}, 3) \/ K = Greatest(V, 4)
    BY DEF TopHeights
  <2> HIDE DEF K, V
  <2> QED BY <2>2, <2>3, <2>4
<1>4. Heights(L).one = parts /\ Heights(L).other = Cardinality(rest)
  BY DEF Heights
<1> HIDE DEF K
<1>5. \A k \in K : parts[k] = Cardinality({p \in H : v[p] = k})
  <2> SUFFICES ASSUME NEW k \in K PROVE parts[k] = Cardinality({p \in H : v[p] = k})
    OBVIOUS
  <2>1. {p \in H : v[p] = k} = {p \in L : p.height = k /\ k # 0}
    OBVIOUS
  <2> QED BY <2>1
<1>6. CountsOf(parts) = Cardinality(first)
  <2>1. DOMAIN parts = K
    OBVIOUS
  <2>2. Within(H, v, K) = first
    BY DEF Within
  <2> HIDE DEF H, v, parts, first
  <2>3. Counted(parts, K, v, H)
    BY <1>1, <1>3, <1>5, <2>1 DEF Counted
  <2> QED BY <2>2, <2>3, CountedWithin
<1>7. Cardinality(first) + Cardinality(rest) = Cardinality(L)
  <2>1. first \cup rest = L /\ first \cap rest = {}
    OBVIOUS
  <2> HIDE DEF first, rest
  <2> QED BY <1>1, <2>1, CountParted
<1>8. CountsOf(HeightDistribution(L)) = Cardinality(H)
  <2> DEFINE W == V \ {0}
             all == HeightDistribution(L)
  <2>1. IsFiniteSet(W)
    BY <1>2, FS_Subset
  <2>2. DOMAIN all = W
    BY DEF HeightDistribution
  <2>3. \A k \in W : all[k] = Cardinality({p \in H : v[p] = k})
    <3> SUFFICES ASSUME NEW k \in W PROVE all[k] = Cardinality({p \in H : v[p] = k})
      OBVIOUS
    <3>1. {p \in H : v[p] = k} = {p \in L : p.height = k}
      OBVIOUS
    <3> QED BY <3>1 DEF HeightDistribution
  <2>4. Within(H, v, W) = H
    BY DEF Within
  <2> HIDE DEF W, all, H, v
  <2>5. CountsOf(all) = Cardinality(H)
    <3>1. Counted(all, W, v, H)
      BY <1>1, <2>1, <2>2, <2>3 DEF Counted
    <3> QED BY <2>4, <3>1, CountedWithin
  <2> QED BY <2>5 DEF all
<1> HIDE DEF parts, first, rest
<1>9. CountsOf(Heights(L).one) + Heights(L).other = Cardinality(L)
  BY <1>4, <1>6, <1>7
<1> QED BY <1>8, <1>9

\* So every count of Counter adds up.
LEMMA CounterCounts ==
    ASSUME NEW L, L \subseteq Peer PROVE CounterOf(Counter(L), L)
<1> DEFINE pl == Platforms(L)
           ve == Versions(L)
           he == Heights(L)
           vd == VersionDistribution(L)
           pd == PlatformDistribution(L)
           hd == HeightDistribution(L)
           c == Counter(L)
<1>1. CountsOf(pl) = Cardinality(L)
  BY PlatformsCounted
<1>2. CountsOf(ve.one) + ve.other = Cardinality(L)
  BY VersionsCounted
<1>3. CountsOf(he.one) + he.other = Cardinality(L) /\ CountsOf(hd) = Cardinality({p \in L : p.height # 0})
  BY HeightsCounted
<1>4. CountsOf(vd) = Cardinality(L) /\ CountsOf(pd) = Cardinality(L)
  BY DistributionsCounted DEF VersionDistribution, PlatformDistribution
<1> HIDE DEF pl, ve, he, vd, pd, hd
<1>5. /\ c.connected = Cardinality(L) /\ c.platforms = pl /\ c.versions = ve /\ c.heights = he
      /\ c.versionDistribution = vd /\ c.platformDistribution = pd /\ c.heightDistribution = hd
  BY DEF Counter, pl, ve, he, vd, pd, hd
<1> HIDE DEF c
<1>6. CounterOf(c, L)
  BY <1>1, <1>2, <1>3, <1>4, <1>5 DEF CounterOf
<1> QED BY <1>6 DEF c

\* What holds of the page of the peers in every state.
PeersInv ==
    /\ PeersTypeOK
    /\ map \in [there : BOOLEAN, waits : BOOLEAN, markers : SUBSET {p.ip : p \in Peer}]
    /\ counter = NoCounter \/ counter = Counter(peers)
    /\ map.there /\ ~map.waits => map.markers = Located(peers)

\* Nothing is shown, and there is no map, when the page is opened.
LEMMA PeersInitially == PeersInit => PeersInv
<1> SUFFICES ASSUME PeersInit PROVE PeersInv
  OBVIOUS
<1>1. PeersTypeOK
  BY PeerAssumption DEF PeersInit, PeersTypeOK, NoPeers, Rate
<1> QED BY <1>1 DEF PeersInit, PeersInv

\* What is shown is taken whole from the peers there are.
LEMMA UpdateKeeps ==
    ASSUME PeersInv, UpdatePeers
    PROVE  /\ peers' \subseteq Peer /\ counter' = Counter(peers')
           /\ map' \in [there : BOOLEAN, waits : BOOLEAN, markers : SUBSET {p.ip : p \in Peer}]
           /\ map'.there /\ ~map'.waits => map'.markers = Located(peers')
<1> DEFINE Ips == {p.ip : p \in Peer}
           Maps == [there : BOOLEAN, waits : BOOLEAN, markers : SUBSET Ips]
<1>1. online \subseteq Peer /\ map \in Maps
  BY DEF PeersInv, PeersTypeOK
<1>2. peers' = online /\ counter' = Counter(online)
  BY DEF UpdatePeers
<1>3. map' = IF map.there THEN [map EXCEPT !.markers = Located(online)] ELSE map
  BY MarkersOfConnected DEF UpdatePeers
<1>4. Located(online) \in SUBSET Ips
  BY <1>1 DEF Located
<1> HIDE DEF Ips
<1>5. map' \in Maps
  BY <1>1, <1>3, <1>4
<1>6. map'.there /\ ~map'.waits => map'.markers = Located(online)
  BY <1>1, <1>3
<1> QED BY <1>1, <1>2, <1>5, <1>6 DEF Ips

\* Each step of the page of the peers keeps its invariant.
LEMMA PeersKept ==
    ASSUME PeersInv, PeersStep \/ UNCHANGED peerVars
    PROVE  PeersInv'
<1> DEFINE Ips == {p.ip : p \in Peer}
           Maps == [there : BOOLEAN, waits : BOOLEAN, markers : SUBSET Ips]
<1>1. online \subseteq Peer /\ peers \subseteq Peer /\ moves \in 0 .. MaxMoves /\ period \in 0 .. Rate
  BY DEF PeersInv, PeersTypeOK
<1>2. map \in Maps /\ (counter = NoCounter \/ counter = Counter(peers))
  BY DEF PeersInv
<1>3. map.there /\ ~map.waits => map.markers = Located(peers)
  BY DEF PeersInv
<1>4. SUFFICES /\ online' \subseteq Peer /\ peers' \subseteq Peer
               /\ moves' \in 0 .. MaxMoves /\ period' \in 0 .. Rate
               /\ map' \in Maps /\ (counter' = NoCounter \/ counter' = Counter(peers'))
               /\ map'.there /\ ~map'.waits => map'.markers = Located(peers')
  BY DEF PeersInv, PeersTypeOK
<1>5. Located(peers) \in SUBSET Ips
  BY <1>1 DEF Located
<1>6. CASE \E p \in Peer : PeerMoves(p)
  <2>1. online' \subseteq Peer /\ moves' \in 0 .. MaxMoves
    BY <1>1, <1>6, PeerAssumption DEF PeerMoves
  <2>2. period' = period /\ peers' = peers /\ counter' = counter /\ map' = map
    BY <1>6 DEF PeerMoves
  <2> HIDE DEF Ips
  <2> QED BY <1>1, <1>2, <1>3, <2>1, <2>2
<1>7. CASE PushData
  <2>1. online' = online /\ moves' = moves /\ period' = period /\ UpdatePeers
    BY <1>7 DEF PushData
  <2> QED BY <1>1, <2>1, UpdateKeeps
<1>8. CASE PushPeers
  <2>1. online' = online /\ moves' = moves
    BY <1>8 DEF PushPeers
  <2>2. period' \in 0 .. Rate
    BY <1>1, <1>8 DEF PushPeers, Rate
  <2>3. CASE UpdatePeers
    BY <1>1, <2>1, <2>2, <2>3, UpdateKeeps
  <2>4. CASE UNCHANGED <<peers, counter, map>>
    <3>1. peers' = peers /\ counter' = counter /\ map' = map
      BY <2>4
    <3> HIDE DEF Ips
    <3> QED BY <1>1, <1>2, <1>3, <2>1, <2>2, <3>1
  <2> QED BY <1>8, <2>3, <2>4 DEF PushPeers
<1>9. CASE EnableMap
  <2>1. online' = online /\ moves' = moves /\ period' = period /\ peers' = peers /\ counter' = counter
    BY <1>9 DEF EnableMap
  <2>2. map' = [map EXCEPT !.there = TRUE, !.waits = TRUE]
    BY <1>9 DEF EnableMap
  <2> HIDE DEF Ips
  <2>3. map' \in Maps /\ map'.waits
    BY <1>2, <2>2
  <2> QED BY <1>1, <1>2, <2>1, <2>3
<1>10. CASE FillMap
  <2>1. online' = online /\ moves' = moves /\ period' = period /\ peers' = peers /\ counter' = counter
    BY <1>10 DEF FillMap
  <2>2. map' = [map EXCEPT !.waits = FALSE, !.markers = Located(peers)]
    BY <1>10, MarkersOfConnected DEF FillMap
  <2> HIDE DEF Ips
  <2>3. map' \in Maps /\ map'.markers = Located(peers)
    BY <1>2, <1>5, <2>2
  <2> QED BY <1>1, <1>2, <2>1, <2>3
<1>11. CASE UNCHANGED peerVars
  <2>1. /\ online' = online /\ moves' = moves /\ period' = period /\ peers' = peers
        /\ counter' = counter /\ map' = map
    BY <1>11 DEF peerVars
  <2> HIDE DEF Ips
  <2> QED BY <1>1, <1>2, <1>3, <2>1
<1> QED BY <1>6, <1>7, <1>8, <1>9, <1>10, <1>11 DEF PeersStep

\* What the page of the peers shows is true.
LEMMA PeersShown == PeersInv => PeersTrue
<1> SUFFICES ASSUME PeersInv PROVE PeersTrue
  OBVIOUS
<1>1. peers \subseteq Peer
  BY DEF PeersInv, PeersTypeOK
<1>2. ASSUME map.there, ~map.waits
      PROVE  \A ip \in {p.ip : p \in Peer} :
                 ip \in map.markers <=> \E p \in peers : p.ip = ip /\ p.located
  BY <1>2 DEF PeersInv, Located
<1>3. ASSUME counter # NoCounter PROVE CounterOf(counter, peers)
  <2>1. CounterOf(Counter(peers), peers)
    BY <1>1, CounterCounts
  <2>2. counter = Counter(peers)
    BY <1>3 DEF PeersInv
  <2> QED BY <2>1, <2>2
<1> QED BY <1>2, <1>3 DEF PeersTrue, CounterOf

-----------------------------------------------------------------------------
(* The page of the activity graph. *)

\* The nodes of a block, a transaction and an account.
BlockNode(b) == Node(b.id, "block", b.timestamp)
TxNode(t) == Node(t.id, "tx", t.amount)
AccountNode(a) == Node(a, "account", 0)

\* All nodes there can be: no two have the same id.
AllNodes ==
    {BlockNode(b) : b \in Block} \cup {TxNode(t) : t \in AllTxs}
    \cup {AccountNode(a) : a \in AllAccounts}

\* Two nodes with the same id are one.
LEMMA NodesById ==
    ASSUME NEW m \in AllNodes, NEW n \in AllNodes, m.id = n.id PROVE m = n
BY IdAssumption DEF AllNodes, BlockNode, TxNode, AccountNode, Node

\* The ids of nodes and edges, and a state that has these nodes and edges and no others.
IdsOf(N, E) == {<<n.id>> : n \in N} \cup {<<e.source, e.target>> : e \in E}
AllEdgesOf(E) == \A e \in E : e = Edge(e.source, e.target)
Has(s, N, E) ==
    /\ N \subseteq AllNodes /\ AllEdgesOf(E)
    /\ s = [graph |-> [nodes |-> N, edges |-> E], indexes |-> IdsOf(N, E)]

\* The id of a node is known exactly if the node is there: no edge has an id like it.
LEMMA IdIndexed ==
    ASSUME NEW N, N \subseteq AllNodes, NEW E, NEW n \in AllNodes
    PROVE  <<n.id>> \in IdsOf(N, E) <=> n \in N
<1>1. ASSUME <<n.id>> \in IdsOf(N, E) PROVE n \in N
  <2>1. \A x, y, z : <<x>> # <<y, z>>
    <3> SUFFICES ASSUME NEW x, NEW y, NEW z PROVE <<x>> # <<y, z>>
      OBVIOUS
    <3>1. Len(<<x>>) = 1 /\ Len(<<y, z>>) = 2
      OBVIOUS
    <3> QED BY <3>1
  <2>2. PICK m \in N : <<n.id>> = <<m.id>>
    BY <1>1, <2>1 DEF IdsOf
  <2>3. m.id = n.id
    BY <2>2
  <2> QED BY <2>3, NodesById
<1>2. ASSUME n \in N PROVE <<n.id>> \in IdsOf(N, E)
  BY <1>2 DEF IdsOf
<1> QED BY <1>1, <1>2

\* The id of an edge is known exactly if the edge is there.
LEMMA EdgeIndexed ==
    ASSUME NEW N, NEW E, AllEdgesOf(E), NEW x, NEW y
    PROVE  <<x, y>> \in IdsOf(N, E) <=> Edge(x, y) \in E
<1>1. ASSUME <<x, y>> \in IdsOf(N, E) PROVE Edge(x, y) \in E
  <2>1. \A a : <<a>> # <<x, y>>
    <3> SUFFICES ASSUME NEW a PROVE <<a>> # <<x, y>>
      OBVIOUS
    <3>1. Len(<<a>>) = 1 /\ Len(<<x, y>>) = 2
      OBVIOUS
    <3> QED BY <3>1
  <2>2. PICK e \in E : <<x, y>> = <<e.source, e.target>>
    BY <1>1, <2>1 DEF IdsOf
  <2>3. x = e.source /\ y = e.target
    BY <2>2
  <2>4. e = Edge(e.source, e.target)
    BY DEF AllEdgesOf
  <2> QED BY <2>3, <2>4
<1>2. ASSUME Edge(x, y) \in E PROVE <<x, y>> \in IdsOf(N, E)
  <2>1. Edge(x, y).source = x /\ Edge(x, y).target = y
    BY DEF Edge
  <2> QED BY <1>2, <2>1 DEF IdsOf
<1> QED BY <1>1, <1>2

\* addNode adds a node that is not there, addEdge an edge.
LEMMA NodeAdded ==
    ASSUME NEW s, NEW N, NEW E, Has(s, N, E), NEW n \in AllNodes
    PROVE  Has(AddNode(s, n), N \cup {n}, E)
<1>1. N \subseteq AllNodes /\ AllEdgesOf(E) /\ s.indexes = IdsOf(N, E)
      /\ s.graph = [nodes |-> N, edges |-> E] /\ s = [graph |-> s.graph, indexes |-> s.indexes]
  BY DEF Has
<1>2. CASE <<n.id>> \in s.indexes
  <2>1. n \in N
    BY <1>1, <1>2, IdIndexed
  <2>2. N \cup {n} = N /\ AddNode(s, n) = s
    BY <1>2, <2>1 DEF AddNode
  <2> QED BY <2>2
<1>3. CASE <<n.id>> \notin s.indexes
  <2>1. AddNode(s, n) = [graph |-> [s.graph EXCEPT !.nodes = @ \cup {n}],
                         indexes |-> s.indexes \cup {<<n.id>>}]
    BY <1>3 DEF AddNode
  <2>2. [s.graph EXCEPT !.nodes = @ \cup {n}] = [nodes |-> N \cup {n}, edges |-> E]
    BY <1>1
  <2>3. s.indexes \cup {<<n.id>>} = IdsOf(N \cup {n}, E)
    BY <1>1 DEF IdsOf
  <2>4. N \cup {n} \subseteq AllNodes
    BY <1>1
  <2> QED BY <1>1, <2>1, <2>2, <2>3, <2>4 DEF Has
<1> QED BY <1>2, <1>3

\* addEdge adds an edge that is not there, and changes nothing otherwise.
LEMMA EdgeAdded ==
    ASSUME NEW s, NEW N, NEW E, Has(s, N, E), NEW x, NEW y
    PROVE  Has(AddEdge(s, Edge(x, y)), N, E \cup {Edge(x, y)})
<1> DEFINE e == Edge(x, y)
<1>1. N \subseteq AllNodes /\ AllEdgesOf(E) /\ s.indexes = IdsOf(N, E)
      /\ s.graph = [nodes |-> N, edges |-> E]
  BY DEF Has
<1>2. e.source = x /\ e.target = y /\ e = Edge(e.source, e.target)
  BY DEF Edge
<1>3. <<e.source, e.target>> \in s.indexes <=> e \in E
  BY <1>1, <1>2, EdgeIndexed
<1> HIDE DEF e
<1>4. CASE e \in E
  <2>1. E \cup {e} = E /\ AddEdge(s, e) = s
    BY <1>3, <1>4 DEF AddEdge
  <2> QED BY <2>1 DEF e
<1>5. CASE e \notin E
  <2>1. AddEdge(s, e) = [graph |-> [s.graph EXCEPT !.edges = @ \cup {e}],
                         indexes |-> s.indexes \cup {<<e.source, e.target>>}]
    BY <1>3, <1>5 DEF AddEdge
  <2>2. [s.graph EXCEPT !.edges = @ \cup {e}] = [nodes |-> N, edges |-> E \cup {e}]
    BY <1>1
  <2>3. s.indexes \cup {<<e.source, e.target>>} = IdsOf(N, E \cup {e})
    BY <1>1 DEF IdsOf
  <2>4. AllEdgesOf(E \cup {e})
    BY <1>1, <1>2 DEF AllEdgesOf
  <2>5. Has(AddEdge(s, e), N, E \cup {e})
    BY <1>1, <2>1, <2>2, <2>3, <2>4 DEF Has
  <2> QED BY <2>5 DEF e
<1> QED BY <1>4, <1>5

\* What a transaction adds, and a graph that has all of it for each of its transactions.
Parties(t) == {t.sender} \cup ({t.recipient} \ {NoAccount})
TxNodes(t) == {TxNode(t)} \cup {AccountNode(a) : a \in Parties(t)}
TxEdges(t) == {Edge(t.sender, t.id)} \cup {Edge(t.id, a) : a \in {t.recipient} \ {NoAccount}}
Closed(N, E) == \A t \in AllTxs : TxNode(t) \in N => TxNodes(t) \subseteq N /\ TxEdges(t) \subseteq E

\* The accounts of a transaction are among all accounts.
LEMMA PartyKnown ==
    ASSUME NEW t \in AllTxs, NEW a \in Parties(t)
    PROVE  AccountNode(a) \in AllNodes
<1>1. PICK b \in Block : t \in b.txs
  BY DEF AllTxs
<1>2. a \in AccountsOf(b)
  BY <1>1 DEF Parties, AccountsOf
<1>3. a \in AllAccounts
  BY <1>2 DEF AllAccounts
<1> QED BY <1>3 DEF AllNodes

\* A transaction's node is that of no other, nor of an account.
LEMMA TxNodeOf ==
    ASSUME NEW t \in AllTxs, NEW u \in AllTxs, TxNode(t) \in TxNodes(u)
    PROVE  t = u
<1>1. TxNode(t).type = "tx" /\ TxNode(t).id = t.id /\ TxNode(u).id = u.id
  BY DEF TxNode, Node
<1>2. \A a : AccountNode(a).type = "account"
  BY DEF AccountNode, Node
<1>3. TxNode(t) = TxNode(u)
  BY <1>1, <1>2 DEF TxNodes
<1>4. t.id = u.id
  BY <1>1, <1>3
<1> QED BY <1>4, IdAssumption

\* addTx adds what belongs to a transaction, and leaves the graph closed.
LEMMA TxAdded ==
    ASSUME NEW s, NEW N, NEW E, Has(s, N, E), Closed(N, E), NEW t \in AllTxs
    PROVE  /\ Has(AddTx(s, t), N \cup TxNodes(t), E \cup TxEdges(t))
           /\ Closed(N \cup TxNodes(t), E \cup TxEdges(t))
<1>1. TxNode(t) \in AllNodes /\ TxNode(t).id = t.id
  BY DEF AllNodes, TxNode, Node
<1>2. <<t.id>> \in s.indexes <=> TxNode(t) \in N
  BY <1>1, IdIndexed DEF Has
<1>3. ASSUME <<t.id>> \in s.indexes PROVE Has(AddTx(s, t), N \cup TxNodes(t), E \cup TxEdges(t))
  <2>1. N \cup TxNodes(t) = N /\ E \cup TxEdges(t) = E
    BY <1>2, <1>3 DEF Closed
  <2>2. AddTx(s, t) = s
    BY <1>3 DEF AddTx
  <2> QED BY <2>1, <2>2
<1>4. ASSUME <<t.id>> \notin s.indexes PROVE Has(AddTx(s, t), N \cup TxNodes(t), E \cup TxEdges(t))
  <2> DEFINE s1 == AddNode(s, TxNode(t))
             s2 == AddTxSender(s1, t)
             s3 == AddTxRecipient(s2, t)
             N1 == N \cup {TxNode(t)}
             N2 == N1 \cup {AccountNode(t.sender)}
             E2 == E \cup {Edge(t.sender, t.id)}
             N3 == N2 \cup {AccountNode(t.recipient)}
             E3 == E2 \cup {Edge(t.id, t.recipient)}
  <2>1. Has(s1, N1, E)
    BY <1>1, NodeAdded
  <2>2. AccountNode(t.sender) \in AllNodes
    BY PartyKnown DEF Parties
  <2>3. Has(s2, N2, E2)
    <3>1. Has(AddAccount(s1, t.sender), N2, E)
      <4> HIDE DEF s1, N1
      <4> QED BY <2>1, <2>2, NodeAdded DEF AddAccount, AccountNode
    <3> HIDE DEF s1, N1, N2
    <3> QED BY <3>1, EdgeAdded DEF AddTxSender
  <2>4. CASE t.recipient = NoAccount
    <3>1. s3 = s2
      BY <2>4 DEF AddTxRecipient
    <3>2. N \cup TxNodes(t) = N2 /\ E \cup TxEdges(t) = E2
      BY <2>4 DEF TxNodes, TxEdges, Parties
    <3>3. AddTx(s, t) = s3
      BY <1>4 DEF AddTx, TxNode
    <3> HIDE DEF s2, s3, N2, E2
    <3> QED BY <2>3, <3>1, <3>2, <3>3
  <2>5. CASE t.recipient # NoAccount
    <3>1. AccountNode(t.recipient) \in AllNodes
      BY <2>5, PartyKnown DEF Parties
    <3>2. Has(s3, N3, E3)
      <4>1. Has(AddAccount(s2, t.recipient), N3, E2)
        <5> HIDE DEF s2, N2, E2
        <5> QED BY <2>3, <3>1, NodeAdded DEF AddAccount, AccountNode
      <4> HIDE DEF s2, N3, E2
      <4> QED BY <2>5, <4>1, EdgeAdded DEF AddTxRecipient
    <3>3. N \cup TxNodes(t) = N3 /\ E \cup TxEdges(t) = E3
      BY <2>5 DEF TxNodes, TxEdges, Parties
    <3>4. AddTx(s, t) = s3
      BY <1>4 DEF AddTx, TxNode
    <3> HIDE DEF s3, N3, E3
    <3> QED BY <3>2, <3>3, <3>4
  <2> QED BY <2>4, <2>5
<1>5. Closed(N \cup TxNodes(t), E \cup TxEdges(t))
  <2> SUFFICES ASSUME NEW u \in AllTxs, TxNode(u) \in N \cup TxNodes(t)
               PROVE  TxNodes(u) \subseteq N \cup TxNodes(t) /\ TxEdges(u) \subseteq E \cup TxEdges(t)
    BY DEF Closed
  <2>1. CASE TxNode(u) \in N
    BY <2>1 DEF Closed
  <2>2. CASE TxNode(u) \in TxNodes(t)
    BY <2>2, TxNodeOf
  <2> QED BY <2>1, <2>2
<1> QED BY <1>3, <1>4, <1>5

\* An edge more leaves a graph closed.
LEMMA ClosedWithEdge ==
    ASSUME NEW N, NEW E, Closed(N, E), NEW e PROVE Closed(N, E \cup {e})
BY DEF Closed

\* Adding the transactions of a block one by one.
TxsStep(b, base, h, u) ==
    IF u = {} THEN base
    ELSE LET t == CHOOSE t \in u : TRUE
         IN  AddEdge(AddTx(h[u \ {t}], t), Edge(b.id, t.id))

\* AddBlockTxs is what the last value of the step function is.
LEMMA AddBlockTxsDef ==
    ASSUME NEW base, NEW b
    PROVE  AddBlockTxs(base, b) = (CHOOSE h : h = [u \in SUBSET b.txs |-> TxsStep(b, base, h, u)])[b.txs]
BY DEF AddBlockTxs, FoldSet, MapThenFoldSet, TxsStep

\* There is such a function.
LEMMA TxsExist ==
    ASSUME NEW S, IsFiniteSet(S), NEW b, NEW base
    PROVE  \E h : h = [u \in SUBSET S |-> TxsStep(b, base, h, u)]
<1> DEFINE Upto(h, n) == /\ h = [s \in SUBSET S |-> h[s]]
                         /\ \A s \in SUBSET S : Cardinality(s) <= n => h[s] = TxsStep(b, base, h, s)
           G == {n \in Nat : \E h : Upto(h, n)}
<1>0. \A s \in SUBSET S : IsFiniteSet(s) /\ Cardinality(s) \in Nat /\ Cardinality(s) <= Cardinality(S)
  BY FS_Subset, FS_CardinalityType
<1>1. 0 \in G
  <2> DEFINE h == [s \in SUBSET S |-> base]
  <2>1. ASSUME NEW s \in SUBSET S, Cardinality(s) <= 0 PROVE h[s] = TxsStep(b, base, h, s)
    <3>1. s = {}
      BY <1>0, <2>1, FS_EmptySet
    <3> QED BY <3>1 DEF TxsStep
  <2>2. h = [s \in SUBSET S |-> h[s]]
    OBVIOUS
  <2> HIDE DEF h
  <2> QED BY <2>1, <2>2
<1>2. ASSUME NEW n \in Nat, n \in G PROVE n + 1 \in G
  <2>1. PICK h : Upto(h, n)
    BY <1>2
  <2> DEFINE k == [s \in SUBSET S |-> TxsStep(b, base, h, s)]
  <2>2. \A s \in SUBSET S : k[s] = TxsStep(b, base, h, s)
    OBVIOUS
  <2>3. k = [s \in SUBSET S |-> k[s]]
    OBVIOUS
  <2> HIDE DEF k
  <2>4. ASSUME NEW s \in SUBSET S, Cardinality(s) <= n + 1 PROVE k[s] = TxsStep(b, base, k, s)
    <3>1. CASE s = {}
      BY <2>2, <3>1 DEF TxsStep
    <3>2. CASE s # {}
      <4> DEFINE x == CHOOSE t \in s : TRUE
      <4>1. x \in s
        BY <3>2
      <4> HIDE DEF x
      <4>2. s \ {x} \in SUBSET S /\ Cardinality(s \ {x}) <= n
        <5>1. Cardinality(s \ {x}) = Cardinality(s) - 1
          BY <1>0, <4>1, FS_RemoveElement
        <5> QED BY <1>0, <2>4, <5>1
      <4>3. h[s \ {x}] = k[s \ {x}]
        BY <2>1, <2>2, <4>2
      <4>4. /\ TxsStep(b, base, h, s) = AddEdge(AddTx(h[s \ {x}], x), Edge(b.id, x.id))
            /\ TxsStep(b, base, k, s) = AddEdge(AddTx(k[s \ {x}], x), Edge(b.id, x.id))
        BY <3>2 DEF TxsStep, x
      <4> QED BY <2>2, <4>3, <4>4
    <3> QED BY <3>1, <3>2
  <2>5. Upto(k, n + 1)
    BY <2>3, <2>4
  <2> HIDE DEF Upto
  <2> QED BY <2>5
<1> HIDE DEF G
<1>3. Nat \subseteq G
  BY <1>1, <1>2, Induction
<1>4. Cardinality(S) \in Nat
  BY FS_CardinalityType
<1>5. PICK h : Upto(h, Cardinality(S))
  BY <1>3, <1>4 DEF G
<1>6. h = [s \in SUBSET S |-> TxsStep(b, base, h, s)]
  BY <1>0, <1>5
<1> QED BY <1>6

\* What the transactions u of block b add.
NodesIn(u) == UNION {TxNodes(t) : t \in u}
EdgesIn(b, u) == UNION {TxEdges(t) \cup {Edge(b.id, t.id)} : t \in u}

\* A block's transactions are added with all that belongs to them.
LEMMA TxsAdded ==
    ASSUME NEW s, NEW N, NEW E, Has(s, N, E), Closed(N, E), NEW b \in Block
    PROVE  LET M == N \cup NodesIn(b.txs)
               F == E \cup EdgesIn(b, b.txs)
           IN  Has(AddBlockTxs(s, b), M, F) /\ Closed(M, F)
<1> DEFINE S == b.txs
           h == CHOOSE h : h = [u \in SUBSET S |-> TxsStep(b, s, h, u)]
           Nu(u) == N \cup NodesIn(u)
           Eu(u) == E \cup EdgesIn(b, u)
           G == {u \in SUBSET S : Has(h[u], Nu(u), Eu(u)) /\ Closed(Nu(u), Eu(u))}
<1>1. IsFiniteSet(S) /\ S \subseteq AllTxs
  BY BlockAssumption DEF AllTxs
<1>2. h = [u \in SUBSET S |-> TxsStep(b, s, h, u)]
  <2> HIDE DEF S
  <2> QED BY <1>1, TxsExist
<1>3. AddBlockTxs(s, b) = h[S]
  BY AddBlockTxsDef
<1> HIDE DEF h, S
<1>4. ASSUME NEW u \in SUBSET S, \A t \in u : u \ {t} \in G PROVE u \in G
  <2>1. h[u] = TxsStep(b, s, h, u)
    BY <1>2, Zenon
  <2>2. CASE u = {}
    <3>1. h[u] = s
      BY <2>1, <2>2 DEF TxsStep
    <3>2. Nu(u) = N /\ Eu(u) = E
      BY <2>2 DEF NodesIn, EdgesIn
    <3> HIDE DEF Nu, Eu
    <3> QED BY <3>1, <3>2
  <2>3. CASE u # {}
    <3> DEFINE t == CHOOSE t \in u : TRUE
               w == u \ {t}
    <3>1. t \in u
      BY <2>3
    <3>2. h[u] = AddEdge(AddTx(h[w], t), Edge(b.id, t.id))
      BY <2>1, <2>3 DEF TxsStep
    <3> HIDE DEF t
    <3>3. w \in G
      BY <1>4, <3>1
    <3>4. Nu(w) \cup TxNodes(t) = Nu(u)
      BY <3>1 DEF NodesIn
    <3>5. (Eu(w) \cup TxEdges(t)) \cup {Edge(b.id, t.id)} = Eu(u)
      BY <3>1 DEF EdgesIn
    <3>6. t \in AllTxs
      BY <1>1, <3>1
    <3> DEFINE Nw == Nu(w)
               Ew == Eu(w)
               hw == h[w]
    <3>7. Has(hw, Nw, Ew) /\ Closed(Nw, Ew)
      BY <3>3
    <3> HIDE DEF Nu, Eu, w, G, Nw, Ew, hw
    <3>8. Has(AddTx(hw, t), Nw \cup TxNodes(t), Ew \cup TxEdges(t)) /\ Closed(Nw \cup TxNodes(t), Ew \cup TxEdges(t))
      BY <3>6, <3>7, TxAdded
    <3>9. /\ Has(AddEdge(AddTx(hw, t), Edge(b.id, t.id)), Nw \cup TxNodes(t), (Ew \cup TxEdges(t)) \cup {Edge(b.id, t.id)})
          /\ Closed(Nw \cup TxNodes(t), (Ew \cup TxEdges(t)) \cup {Edge(b.id, t.id)})
      BY <3>8, EdgeAdded, ClosedWithEdge
    <3>10. Has(h[u], Nu(u), Eu(u)) /\ Closed(Nu(u), Eu(u))
      BY <3>2, <3>4, <3>5, <3>9 DEF Nw, Ew, hw
    <3> QED BY <3>10 DEF G
  <2> QED BY <2>2, <2>3
<1>5. SUBSET S \subseteq G
  <2> HIDE DEF G
  <2> QED BY <1>1, <1>4, SetInduction
<1>6. S \in G
  BY <1>5
<1> QED BY <1>3, <1>6 DEF S

\* The graph of one block, and of a set of blocks.
BlockNodes(b) == {BlockNode(b), AccountNode(b.generator)} \cup NodesIn(b.txs)
BlockEdges(b) == {Edge(b.generator, b.id)} \cup EdgesIn(b, b.txs)
NodesOf(D) == UNION {BlockNodes(b) : b \in D}
EdgesOf(D) == UNION {BlockEdges(b) : b \in D}

\* Nodes of blocks, transactions and accounts differ.
LEMMA TypesDiffer ==
    ASSUME NEW t
    PROVE  \A b, a : TxNode(t) # BlockNode(b) /\ TxNode(t) # AccountNode(a) /\ BlockNode(b) # AccountNode(a)
<1>1. TxNode(t).type = "tx"
  BY DEF TxNode, Node
<1>2. \A b : BlockNode(b).type = "block"
  BY DEF BlockNode, Node
<1>3. \A a : AccountNode(a).type = "account"
  BY DEF AccountNode, Node
<1> QED BY <1>1, <1>2, <1>3

\* The graph of a set of blocks is closed.
LEMMA GraphClosed ==
    ASSUME NEW D \in SUBSET Block
    PROVE  Closed(NodesOf(D), EdgesOf(D))
<1> SUFFICES ASSUME NEW t \in AllTxs, TxNode(t) \in NodesOf(D)
             PROVE  TxNodes(t) \subseteq NodesOf(D) /\ TxEdges(t) \subseteq EdgesOf(D)
  BY DEF Closed
<1>1. PICK b \in D : TxNode(t) \in BlockNodes(b)
  BY DEF NodesOf
<1>2. TxNode(t) \in NodesIn(b.txs)
  BY <1>1, TypesDiffer DEF BlockNodes
<1>3. PICK u \in b.txs : TxNode(t) \in TxNodes(u)
  BY <1>2 DEF NodesIn
<1>4. t = u
  BY <1>3, TxNodeOf DEF AllTxs
<1>5. TxNodes(t) \subseteq NodesIn(b.txs) /\ TxEdges(t) \subseteq EdgesIn(b, b.txs)
  BY <1>3, <1>4 DEF NodesIn, EdgesIn
<1>6. TxNodes(t) \subseteq BlockNodes(b) /\ TxEdges(t) \subseteq BlockEdges(b)
  BY <1>5 DEF BlockNodes, BlockEdges
<1> QED BY <1>6 DEF NodesOf, EdgesOf

\* What addBlock adds to a graph.
WithBlock(s, b) ==
    AddBlockTxs(AddBlockGenerator(AddNode(s, BlockNode(b)), b), b)

\* With a block the graph is that of one block more.
LEMMA BlockAdded ==
    ASSUME NEW D \in SUBSET Block, NEW s, Has(s, NodesOf(D), EdgesOf(D)), NEW b \in Block
    PROVE  Has(WithBlock(s, b), NodesOf(D \cup {b}), EdgesOf(D \cup {b}))
<1> DEFINE N == NodesOf(D)
           E == EdgesOf(D)
           N1 == N \cup {BlockNode(b)}
           N2 == N1 \cup {AccountNode(b.generator)}
           E2 == E \cup {Edge(b.generator, b.id)}
           s1 == AddNode(s, BlockNode(b))
           s2 == AddBlockGenerator(s1, b)
<1>1. BlockNode(b) \in AllNodes /\ AccountNode(b.generator) \in AllNodes
  <2>1. b.generator \in AllAccounts
    BY DEF AllAccounts, AccountsOf
  <2> QED BY <2>1 DEF AllNodes
<1>2. Has(s1, N1, E)
  BY <1>1, NodeAdded
<1>3. Has(s2, N2, E2)
  <2>1. Has(AddAccount(s1, b.generator), N2, E)
    <3> HIDE DEF s1, N1, E
    <3> QED BY <1>1, <1>2, NodeAdded DEF AddAccount, AccountNode
  <2> HIDE DEF s1, N1, N2, E
  <2> QED BY <2>1, EdgeAdded DEF AddBlockGenerator
<1>4. Closed(N2, E2)
  <2>1. Closed(N, E)
    BY GraphClosed
  <2>2. \A t : TxNode(t) \in N2 => TxNode(t) \in N
    BY TypesDiffer
  <2> HIDE DEF N, E
  <2> QED BY <2>1, <2>2 DEF Closed
<1>5. /\ N2 \cup NodesIn(b.txs) = NodesOf(D \cup {b})
      /\ E2 \cup EdgesIn(b, b.txs) = EdgesOf(D \cup {b})
  <2>1. NodesOf(D \cup {b}) = NodesOf(D) \cup BlockNodes(b)
    BY DEF NodesOf
  <2>2. EdgesOf(D \cup {b}) = EdgesOf(D) \cup BlockEdges(b)
    BY DEF EdgesOf
  <2>3. N2 \cup NodesIn(b.txs) = N \cup BlockNodes(b)
    BY DEF BlockNodes
  <2>4. E2 \cup EdgesIn(b, b.txs) = E \cup BlockEdges(b)
    BY DEF BlockEdges
  <2> QED BY <2>1, <2>2, <2>3, <2>4
<1> HIDE DEF N2, E2, s2
<1>6. Has(AddBlockTxs(s2, b), N2 \cup NodesIn(b.txs), E2 \cup EdgesIn(b, b.txs))
  BY <1>3, <1>4, TxsAdded
<1> QED BY <1>5, <1>6 DEF WithBlock, s2

\* The block's id is known exactly if the block is one of those of the graph.
LEMMA BlockIndexed ==
    ASSUME NEW D \in SUBSET Block, NEW s, Has(s, NodesOf(D), EdgesOf(D)), NEW b \in Block
    PROVE  /\ <<b.id>> \in s.indexes <=> b \in D
           /\ BlockNode(b) \in NodesOf(D) <=> b \in D
<1>1. BlockNode(b) \in AllNodes /\ BlockNode(b).id = b.id
  BY DEF AllNodes, BlockNode, Node
<1>2. <<b.id>> \in s.indexes <=> BlockNode(b) \in NodesOf(D)
  BY <1>1, IdIndexed DEF Has
<1>3. ASSUME b \in D PROVE BlockNode(b) \in NodesOf(D)
  BY <1>3 DEF NodesOf, BlockNodes
<1>4. ASSUME BlockNode(b) \in NodesOf(D) PROVE b \in D
  <2>1. PICK c \in D : BlockNode(b) \in BlockNodes(c)
    BY <1>4 DEF NodesOf
  <2>2. BlockNode(b) = BlockNode(c)
    BY <2>1, TypesDiffer DEF BlockNodes, NodesIn, TxNodes
  <2>3. b.id = c.id
    BY <2>2 DEF BlockNode, Node
  <2> QED BY <2>3, IdAssumption
<1> QED BY <1>2, <1>3, <1>4

\* What holds of the page of the graph in every state: it is the graph of the blocks D.
GraphOf(D) ==
    /\ Has(State, NodesOf(D), EdgesOf(D))
    /\ blocks = Cardinality(D) /\ blocks <= MaxBlocks
    /\ lastPush \subseteq D
    /\ D # {} => figures = Refreshed(graph)
SelectedOne ==
    /\ selected = [id |-> selected.id, live |-> selected.live] /\ selected.live \in BOOLEAN
    /\ painted = IF selected.live THEN {selected.id} ELSE {}
GraphInv == (\E D \in SUBSET Block : GraphOf(D)) /\ SelectedOne

\* The graph of no blocks is empty.
LEMMA NoBlocksGraph ==
    /\ NodesOf({}) = {} /\ EdgesOf({}) = {} /\ IdsOf({}, {}) = {}
    /\ Has([graph |-> EmptyGraph, indexes |-> {}], NodesOf({}), EdgesOf({}))
<1>1. NodesOf({}) = {} /\ EdgesOf({}) = {} /\ IdsOf({}, {}) = {}
  BY DEF NodesOf, EdgesOf, IdsOf
<1> QED BY <1>1 DEF Has, EmptyGraph, AllEdgesOf

\* The page opens with the graph of no blocks.
LEMMA GraphInitially == GraphInit => GraphInv
<1> SUFFICES ASSUME GraphInit PROVE GraphInv
  OBVIOUS
<1>1. State = [graph |-> EmptyGraph, indexes |-> {}]
  BY DEF GraphInit, State
<1>2. Has(State, NodesOf({}), EdgesOf({}))
  BY <1>1, NoBlocksGraph
<1>3. blocks = Cardinality({}) /\ blocks <= MaxBlocks
  BY BlockAssumption, FS_EmptySet DEF GraphInit
<1>4. GraphOf({})
  BY <1>2, <1>3 DEF GraphInit, GraphOf
<1>5. SelectedOne
  BY DEF GraphInit, SelectedOne, NoNode
<1> QED BY <1>4, <1>5 DEF GraphInv

\* A pushed block is added, is left as it is when it is known, or begins a new graph.
LEMMA PushKeeps ==
    ASSUME GraphInv, NEW b \in Block, Push(b) PROVE GraphInv'
<1>1. PICK D \in SUBSET Block : GraphOf(D)
  BY DEF GraphInv
<1>2. Has(State, NodesOf(D), EdgesOf(D)) /\ State.indexes = indexes
  BY <1>1 DEF GraphOf, State
<1>3. <<b.id>> \in indexes <=> b \in D
  BY <1>2, BlockIndexed
<1>4. lastPush' = {b} /\ figures' = Refreshed(graph')
  BY DEF Push
<1>5. CASE <<b.id>> \in indexes
  <2>1. graph' = graph /\ indexes' = indexes /\ blocks' = blocks /\ selected' = selected /\ painted' = painted
    BY <1>5 DEF Push
  <2>2. State' = State
    BY <2>1 DEF State
  <2>3. Has(State', NodesOf(D), EdgesOf(D))
    BY <1>2, <2>2
  <2>4. GraphOf(D)'
    BY <1>1, <1>3, <1>4, <1>5, <2>1, <2>3 DEF GraphOf
  <2>5. SelectedOne'
    BY <2>1 DEF GraphInv, SelectedOne
  <2> QED BY <2>4, <2>5 DEF GraphInv
<1>6. CASE <<b.id>> \notin indexes
  <2> DEFINE C == IF IsFull THEN {} ELSE D
             s == IF IsFull THEN Cleared ELSE State
             n == IF IsFull THEN 0 ELSE blocks
  <2>1. AddBlock(b) /\ painted' = (IF IsFull THEN {} ELSE painted)
        /\ selected' = [selected EXCEPT !.live = @ /\ ~IsFull]
    BY <1>6 DEF Push
  <2>2. C \in SUBSET Block /\ b \notin C
    BY <1>3, <1>6
  <2>3. Has(s, NodesOf(C), EdgesOf(C))
    BY <1>2, NoBlocksGraph DEF Cleared
  <2>4. /\ graph' = WithBlock(s, b).graph /\ indexes' = WithBlock(s, b).indexes
        /\ blocks' = n + 1
    BY <2>1 DEF AddBlock, WithBlock, BlockNode
  <2>5. n = Cardinality(C) /\ n + 1 <= MaxBlocks /\ n \in Nat
    <3>1. IsFiniteSet(D) /\ Cardinality(D) \in Nat
      BY BlockAssumption, FS_Subset, FS_CardinalityType
    <3>2. Cardinality({}) = 0
      BY FS_EmptySet
    <3> QED BY <1>1, <3>1, <3>2, BlockAssumption DEF GraphOf, IsFull
  <2> HIDE DEF C, s, n
  <2>6. Has(WithBlock(s, b), NodesOf(C \cup {b}), EdgesOf(C \cup {b}))
    BY <2>2, <2>3, BlockAdded
  <2>7. Has(State', NodesOf(C \cup {b}), EdgesOf(C \cup {b}))
    <3>1. WithBlock(s, b) = [graph |-> WithBlock(s, b).graph, indexes |-> WithBlock(s, b).indexes]
      BY <2>6 DEF Has
    <3>2. State' = WithBlock(s, b)
      BY <2>4, <3>1 DEF State
    <3> QED BY <2>6, <3>2
  <2>8. blocks' = Cardinality(C \cup {b}) /\ blocks' <= MaxBlocks
    <3>1. IsFiniteSet(C)
      BY <2>2, BlockAssumption, FS_Subset
    <3>2. Cardinality(C \cup {b}) = Cardinality(C) + 1
      BY <2>2, <3>1, FS_AddElement
    <3> QED BY <2>4, <2>5, <3>2
  <2>9. PICK B \in SUBSET Block : B = C \cup {b}
    BY <2>2
  <2>11. GraphOf(B)'
    <3>1. Has(State', NodesOf(B), EdgesOf(B)) /\ blocks' = Cardinality(B) /\ blocks' <= MaxBlocks
      BY <2>7, <2>8, <2>9
    <3>2. lastPush' \subseteq B
      BY <1>4, <2>9
    <3> QED BY <1>4, <3>1, <3>2 DEF GraphOf
  <2>10. SelectedOne'
    <3>1. selected' = [id |-> selected.id, live |-> selected.live /\ ~IsFull]
      BY <2>1 DEF GraphInv, SelectedOne
    <3>2. CASE IsFull
      <4>1. selected' = [id |-> selected.id, live |-> FALSE]
        BY <3>1, <3>2
      <4> QED BY <2>1, <3>2, <4>1 DEF SelectedOne
    <3>3. CASE ~IsFull
      <4>1. selected' = selected
        BY <3>1, <3>3 DEF GraphInv, SelectedOne
      <4> QED BY <2>1, <3>3, <4>1 DEF GraphInv, SelectedOne
    <3> QED BY <3>2, <3>3
  <2> QED BY <2>10, <2>11 DEF GraphInv
<1> QED BY <1>5, <1>6

\* Each step of the page of the graph keeps its invariant.
LEMMA GraphKept ==
    ASSUME GraphInv, GraphStep \/ UNCHANGED graphVars
    PROVE  GraphInv'
<1>1. CASE \E b \in Block : Push(b)
  BY <1>1, PushKeeps
<1>2. ASSUME UNCHANGED <<graph, indexes, blocks, figures, lastPush>>, SelectedOne'
      PROVE  GraphInv'
  <2>1. PICK D \in SUBSET Block : GraphOf(D)
    BY DEF GraphInv
  <2>2. State' = State
    BY <1>2 DEF State
  <2>3. GraphOf(D)'
    BY <1>2, <2>1, <2>2 DEF GraphOf
  <2> QED BY <1>2, <2>3 DEF GraphInv
<1>3. CASE \E node \in graph.nodes : Select(node)
  <2>1. PICK node \in graph.nodes : Select(node)
    BY <1>3
  <2>2. SelectedOne'
    BY <2>1 DEF Select, SelectedOne, GraphInv
  <2> QED BY <1>2, <2>1, <2>2 DEF Select
<1>4. CASE Unselect
  <2>1. SelectedOne'
    BY <1>4 DEF Unselect, SelectedOne, GraphInv, NoNode
  <2> QED BY <1>2, <1>4, <2>1 DEF Unselect
<1>5. CASE UNCHANGED graphVars
  <2>1. SelectedOne'
    BY <1>5 DEF graphVars, SelectedOne, GraphInv
  <2> QED BY <1>2, <1>5, <2>1 DEF graphVars
<1> QED BY <1>1, <1>3, <1>4, <1>5 DEF GraphStep

\* The nodes and edges of a set of blocks, told apart.
TxsOf(D) == UNION {b.txs : b \in D}

\* The nodes of a graph by their types.
LEMMA NodesTold ==
    ASSUME NEW D \in SUBSET Block
    PROVE  NodesOf(D) = {BlockNode(b) : b \in D} \cup {TxNode(t) : t \in TxsOf(D)}
                        \cup {AccountNode(a) : a \in UNION {AccountsOf(b) : b \in D}}
<1> DEFINE As == UNION {AccountsOf(b) : b \in D}
           M == {BlockNode(b) : b \in D} \cup {TxNode(t) : t \in TxsOf(D)} \cup {AccountNode(a) : a \in As}
<1>1. ASSUME NEW b \in D PROVE BlockNodes(b) \subseteq M
  <2>1. b.generator \in As
    BY DEF AccountsOf
  <2>2. ASSUME NEW t \in b.txs PROVE t \in TxsOf(D) /\ Parties(t) \subseteq As
    BY DEF AccountsOf, Parties, TxsOf
  <2>3. NodesIn(b.txs) \subseteq M
    <3> HIDE DEF As
    <3> QED BY <2>2 DEF NodesIn, TxNodes
  <2> HIDE DEF As
  <2> QED BY <2>1, <2>3 DEF BlockNodes
<1>2. ASSUME NEW b \in D PROVE BlockNode(b) \in NodesOf(D)
  BY DEF NodesOf, BlockNodes
<1>3. ASSUME NEW t \in TxsOf(D) PROVE TxNode(t) \in NodesOf(D)
  BY DEF NodesOf, BlockNodes, NodesIn, TxNodes, TxsOf
<1>4. ASSUME NEW a \in As PROVE AccountNode(a) \in NodesOf(D)
  <2>1. PICK b \in D : a \in AccountsOf(b)
    OBVIOUS
  <2>2. AccountNode(a) \in BlockNodes(b)
    <3>1. CASE a = b.generator
      BY <3>1 DEF BlockNodes
    <3>2. CASE \E t \in b.txs : a \in Parties(t)
      BY <3>2 DEF BlockNodes, NodesIn, TxNodes
    <3> QED BY <2>1, <3>1, <3>2 DEF AccountsOf, Parties
  <2> QED BY <2>2 DEF NodesOf
<1> HIDE DEF As
<1>5. NodesOf(D) \subseteq M
  <2> HIDE DEF M
  <2> QED BY <1>1 DEF NodesOf
<1>6. M \subseteq NodesOf(D)
  BY <1>2, <1>3, <1>4
<1> QED BY <1>5, <1>6 DEF As

\* The edges of a graph by what they connect.
LEMMA EdgesTold ==
    ASSUME NEW D \in SUBSET Block
    PROVE  EdgesOf(D) = {Edge(b.generator, b.id) : b \in D}
                        \cup (UNION {{Edge(b.id, t.id) : t \in b.txs} : b \in D})
                        \cup {Edge(t.sender, t.id) : t \in TxsOf(D)}
                        \cup {Edge(t.id, t.recipient) : t \in {u \in TxsOf(D) : u.recipient # NoAccount}}
<1> DEFINE A == {Edge(b.generator, b.id) : b \in D}
           B == UNION {{Edge(b.id, t.id) : t \in b.txs} : b \in D}
           C == {Edge(t.sender, t.id) : t \in TxsOf(D)}
           F == {Edge(t.id, t.recipient) : t \in {u \in TxsOf(D) : u.recipient # NoAccount}}
<1>1. ASSUME NEW b \in D, NEW t \in b.txs
      PROVE  TxEdges(t) \subseteq C \cup F /\ Edge(b.id, t.id) \in B
  <2>1. t \in TxsOf(D)
    BY DEF TxsOf
  <2>2. Edge(t.sender, t.id) \in C
    BY <2>1
  <2>3. t.recipient # NoAccount => Edge(t.id, t.recipient) \in F
    BY <2>1
  <2> HIDE DEF C, F
  <2> QED BY <2>2, <2>3 DEF TxEdges
<1>2. ASSUME NEW b \in D PROVE Edge(b.generator, b.id) \in A
  OBVIOUS
<1>3. A \subseteq EdgesOf(D)
  BY DEF EdgesOf, BlockEdges
<1>4. B \subseteq EdgesOf(D)
  BY DEF EdgesOf, BlockEdges, EdgesIn
<1>5. ASSUME NEW t \in TxsOf(D) PROVE TxEdges(t) \subseteq EdgesOf(D)
  BY DEF EdgesOf, BlockEdges, EdgesIn, TxsOf
<1>6. C \subseteq EdgesOf(D) /\ F \subseteq EdgesOf(D)
  BY <1>5 DEF TxEdges
<1> HIDE DEF A, B, C, F
<1>7. ASSUME NEW b \in D PROVE BlockEdges(b) \subseteq A \cup B \cup C \cup F
  BY <1>1, <1>2 DEF BlockEdges, EdgesIn
<1>8. EdgesOf(D) \subseteq A \cup B \cup C \cup F
  BY <1>7 DEF EdgesOf
<1>9. EdgesOf(D) = A \cup B \cup C \cup F
  BY <1>3, <1>4, <1>6, <1>8
<1> QED BY <1>9 DEF A, B, C, F

\* nodesByType finds the blocks and the transactions.
LEMMA NodesByTypes ==
    ASSUME NEW D \in SUBSET Block, NEW g, g.nodes = NodesOf(D)
    PROVE  /\ NodesByType(g, "block") = {BlockNode(b) : b \in D}
           /\ NodesByType(g, "tx") = {TxNode(t) : t \in TxsOf(D)}
<1> DEFINE A == {BlockNode(b) : b \in D}
           B == {TxNode(t) : t \in TxsOf(D)}
           C == {AccountNode(a) : a \in UNION {AccountsOf(b) : b \in D}}
<1>1. \A n \in A : n.type = "block"
  BY DEF BlockNode, Node
<1>2. \A n \in B : n.type = "tx"
  BY DEF TxNode, Node
<1>3. \A n \in C : n.type = "account"
  BY DEF AccountNode, Node
<1>4. g.nodes = A \cup B \cup C
  BY NodesTold
<1> HIDE DEF A, B, C
<1>5. NodesByType(g, "block") = A /\ NodesByType(g, "tx") = B
  BY <1>1, <1>2, <1>3, <1>4 DEF NodesByType
<1> QED BY <1>5 DEF A, B

\* The sum of the values of a set of nodes is that of a function.
LEMMA ValuesSummed ==
    ASSUME NEW R, IsFiniteSet(R), NEW e, \A x \in R : e[x] = x.value
    PROVE  MapThenSumSet(LAMBDA n : n.value, R) = SumOf(e, R)
<1> DEFINE h == CHOOSE h : h = [s \in SUBSET R |-> SumStep(e, h, s)]
           V(f, s) == IF s = {} THEN 0 ELSE LET x == CHOOSE x \in s : TRUE IN x.value + f[s \ {x}]
           k == CHOOSE k : k = [s \in SUBSET R |-> V(k, s)]
<1>1. MapThenSumSet(LAMBDA n : n.value, R) = k[R]
  BY DEF MapThenSumSet, MapThenFoldSet
<1>2. SumOf(e, R) = h[R]
  BY SumDef
<1>3. \A f : \A s \in SUBSET R : V(f, s) = SumStep(e, f, s)
  <2> SUFFICES ASSUME NEW f, NEW s \in SUBSET R PROVE V(f, s) = SumStep(e, f, s)
    OBVIOUS
  <2>1. CASE s = {}
    BY <2>1 DEF SumStep
  <2>2. CASE s # {}
    <3> DEFINE x == CHOOSE x \in s : TRUE
    <3>1. x \in R
      BY <2>2
    <3>2. V(f, s) = x.value + f[s \ {x}] /\ SumStep(e, f, s) = e[x] + f[s \ {x}]
      BY <2>2 DEF SumStep
    <3> HIDE DEF x, V
    <3> QED BY <3>1, <3>2
  <2> QED BY <2>1, <2>2
<1>4. h = [s \in SUBSET R |-> SumStep(e, h, s)]
  BY SumExists
<1> HIDE DEF V
<1>5. h = [s \in SUBSET R |-> V(h, s)]
  <2> HIDE DEF h
  <2>1. [s \in SUBSET R |-> SumStep(e, h, s)] = [s \in SUBSET R |-> V(h, s)]
    BY <1>3
  <2> QED BY <1>4, <2>1
<1>6. k = [s \in SUBSET R |-> V(k, s)]
  <2>1. \E f : f = [s \in SUBSET R |-> V(f, s)]
    <3> HIDE DEF h
    <3> QED BY <1>5
  <2> QED BY <2>1
<1> HIDE DEF h, k
<1>7. SumsUp(h, e, R)
  BY <1>4, Zenon DEF SumsUp
<1>8. SumsUp(k, e, R)
  <2>1. \A s \in SUBSET R : k[s] = V(k, s)
    BY <1>6, Zenon
  <2> QED BY <1>3, <2>1 DEF SumsUp
<1>10. \A s \in SUBSET R : k[s] = h[s]
  BY <1>7, <1>8, SumUnique
<1> QED BY <1>1, <1>2, <1>10

\* The sum of the amounts of a set of transactions is that of a function.
LEMMA AmountsSummed ==
    ASSUME NEW R, IsFiniteSet(R), NEW e, \A x \in R : e[x] = x.amount
    PROVE  MapThenSumSet(LAMBDA n : n.amount, R) = SumOf(e, R)
<1> DEFINE h == CHOOSE h : h = [s \in SUBSET R |-> SumStep(e, h, s)]
           V(f, s) == IF s = {} THEN 0 ELSE LET x == CHOOSE x \in s : TRUE IN x.amount + f[s \ {x}]
           k == CHOOSE k : k = [s \in SUBSET R |-> V(k, s)]
<1>1. MapThenSumSet(LAMBDA n : n.amount, R) = k[R]
  BY DEF MapThenSumSet, MapThenFoldSet
<1>2. SumOf(e, R) = h[R]
  BY SumDef
<1>3. \A f : \A s \in SUBSET R : V(f, s) = SumStep(e, f, s)
  <2> SUFFICES ASSUME NEW f, NEW s \in SUBSET R PROVE V(f, s) = SumStep(e, f, s)
    OBVIOUS
  <2>1. CASE s = {}
    BY <2>1 DEF SumStep
  <2>2. CASE s # {}
    <3> DEFINE x == CHOOSE x \in s : TRUE
    <3>1. x \in R
      BY <2>2
    <3>2. V(f, s) = x.amount + f[s \ {x}] /\ SumStep(e, f, s) = e[x] + f[s \ {x}]
      BY <2>2 DEF SumStep
    <3> HIDE DEF x, V
    <3> QED BY <3>1, <3>2
  <2> QED BY <2>1, <2>2
<1>4. h = [s \in SUBSET R |-> SumStep(e, h, s)]
  BY SumExists
<1> HIDE DEF V
<1>5. h = [s \in SUBSET R |-> V(h, s)]
  <2> HIDE DEF h
  <2>1. [s \in SUBSET R |-> SumStep(e, h, s)] = [s \in SUBSET R |-> V(h, s)]
    BY <1>3
  <2> QED BY <1>4, <2>1
<1>6. k = [s \in SUBSET R |-> V(k, s)]
  <2>1. \E f : f = [s \in SUBSET R |-> V(f, s)]
    <3> HIDE DEF h
    <3> QED BY <1>5
  <2> QED BY <2>1
<1> HIDE DEF h, k
<1>7. SumsUp(h, e, R)
  BY <1>4, Zenon DEF SumsUp
<1>8. SumsUp(k, e, R)
  <2>1. \A s \in SUBSET R : k[s] = V(k, s)
    BY <1>6, Zenon
  <2> QED BY <1>3, <2>1 DEF SumsUp
<1>10. \A s \in SUBSET R : k[s] = h[s]
  BY <1>7, <1>8, SumUnique
<1> QED BY <1>1, <1>2, <1>10

\* What one renames one by one is as many, and finite.
LEMMA Renamed ==
    ASSUME NEW S, IsFiniteSet(S), NEW R, NEW F \in [S -> R],
           \A x, y \in S : F[x] = F[y] => x = y, \A y \in R : \E x \in S : F[x] = y
    PROVE  IsFiniteSet(R) /\ Cardinality(R) = Cardinality(S)
<1>1. F \in Surjection(S, R)
  BY DEF Surjection
<1>2. F \in Injection(S, R)
  BY DEF Injection, IsInjective
<1> QED BY <1>1, <1>2, FS_Surjection

\* Finitely many blocks have finitely many transactions.
LEMMA TxsFinite ==
    ASSUME NEW D \in SUBSET Block PROVE IsFiniteSet(TxsOf(D))
<1> DEFINE F == [b \in D |-> b.txs]
           T == {b.txs : b \in D}
<1>1. IsFiniteSet(D)
  BY BlockAssumption, FS_Subset
<1>2. F \in Surjection(D, T)
  BY DEF Surjection
<1>3. \A u \in T : IsFiniteSet(u)
  BY BlockAssumption
<1>4. TxsOf(D) = UNION T
  BY DEF TxsOf
<1> HIDE DEF F, T
<1>5. IsFiniteSet(T)
  BY <1>1, <1>2, FS_Surjection
<1> QED BY <1>3, <1>4, <1>5, FS_UNION

\* A finite set of numbers has a greatest member.
LEMMA GreatestOf ==
    ASSUME NEW V, IsFiniteSet(V), V \subseteq Nat, V # {}
    PROVE  \E m \in V : \A v \in V : v <= m
<1> DEFINE G == {s \in SUBSET V : s = {} \/ \E m \in s : \A v \in s : v <= m}
<1>1. ASSUME NEW s \in SUBSET V, \A x \in s : s \ {x} \in G PROVE s \in G
  <2> SUFFICES ASSUME NEW x \in s PROVE \E m \in s : \A v \in s : v <= m
    OBVIOUS
  <2>1. CASE s \ {x} = {}
    <3>1. \A v \in s : v <= x
      BY <2>1
    <3> QED BY <3>1
  <2>2. CASE s \ {x} # {}
    <3>1. PICK m \in s \ {x} : \A v \in s \ {x} : v <= m
      BY <1>1, <2>2
    <3>2. CASE m <= x
      <4>1. \A v \in s : v <= x
        BY <3>1, <3>2
      <4> QED BY <4>1
    <3>3. CASE ~ (m <= x)
      <4>1. \A v \in s : v <= m
        BY <3>1, <3>3
      <4> QED BY <3>1, <4>1
    <3> QED BY <3>2, <3>3
  <2> QED BY <2>1, <2>2
<1> HIDE DEF G
<1>2. SUBSET V \subseteq G
  BY <1>1, SetInduction
<1>3. V \in G
  BY <1>2
<1> QED BY <1>3 DEF G

\* Every member of a finite set of numbers is between its least and its greatest.
LEMMA MinMax ==
    ASSUME NEW V, IsFiniteSet(V), V \subseteq Nat, NEW v \in V
    PROVE  Min(V) <= v /\ v <= Max(V)
<1>1. Min(V) <= v
  <2>1. \E m \in V : \A w \in V : m <= w
    BY SmallestOf
  <2> QED BY <2>1 DEF Min
<1>2. v <= Max(V)
  <2>1. PICK m \in V : \A w \in V : w <= m
    BY GreatestOf
  <2>2. \E x \in V : \A w \in V : x >= w
    BY <2>1
  <2>3. Max(V) \in V /\ \A w \in V : Max(V) >= w
    BY <2>2 DEF Max
  <2> QED BY <2>3
<1> QED BY <1>1, <1>2

\* The statistics of a graph are those of its blocks.
LEMMA FiguresTrue ==
    ASSUME NEW D \in SUBSET Block, NEW g, g.nodes = NodesOf(D)
    PROVE  /\ Refreshed(g).blocks = Cardinality(D)
           /\ Refreshed(g).txs = Cardinality(TxsOf(D))
           /\ Refreshed(g).volume = MapThenSumSet(LAMBDA t : t.amount, TxsOf(D))
           /\ \A b \in D : Refreshed(g).beginning <= b.timestamp /\ b.timestamp <= Refreshed(g).end
<1> DEFINE B == {BlockNode(b) : b \in D}
           T == {TxNode(t) : t \in TxsOf(D)}
           V == {n.value : n \in B}
           S == TxsOf(D)
<1>1. NodesByType(g, "block") = B /\ NodesByType(g, "tx") = T
  BY NodesByTypes
<1>2. /\ Refreshed(g).blocks = Cardinality(B) /\ Refreshed(g).txs = Cardinality(T)
      /\ Refreshed(g).volume = MapThenSumSet(LAMBDA n : n.value, T)
      /\ Refreshed(g).beginning = Min(V) /\ Refreshed(g).end = Max(V)
  <2> HIDE DEF B, T
  <2> QED BY <1>1 DEF Refreshed, Values
<1>3. IsFiniteSet(D) /\ IsFiniteSet(S) /\ S \subseteq AllTxs
  BY BlockAssumption, FS_Subset, TxsFinite DEF TxsOf, AllTxs
<1>4. IsFiniteSet(B) /\ Cardinality(B) = Cardinality(D)
  <2> DEFINE F == [b \in D |-> BlockNode(b)]
  <2>1. F \in [D -> B] /\ \A y \in B : \E x \in D : F[x] = y
    OBVIOUS
  <2>2. \A x, y \in D : F[x] = F[y] => x = y
    BY IdAssumption DEF BlockNode, Node
  <2> HIDE DEF F, B
  <2> QED BY <1>3, <2>1, <2>2, Renamed
<1> DEFINE F == [t \in S |-> TxNode(t)]
           f == [t \in S |-> t.amount]
           e == [n \in T |-> n.value]
<1>5. F \in [S -> T] /\ T = {F[t] : t \in S} /\ \A y \in T : \E x \in S : F[x] = y
  OBVIOUS
<1>6. \A x, y \in S : F[x] = F[y] => x = y
  BY <1>3, IdAssumption DEF TxNode, Node
<1>7. IsFiniteSet(T) /\ Cardinality(T) = Cardinality(S)
  <2> HIDE DEF F, S, T
  <2> QED BY <1>3, <1>5, <1>6, Renamed
<1>8. MapThenSumSet(LAMBDA n : n.value, T) = MapThenSumSet(LAMBDA t : t.amount, S)
  <2>1. \A t \in S : f[t] \in Int /\ f[t] = t.amount
    BY <1>3, BlockAssumption DEF AllTxs
  <2>2. \A t \in S : e[F[t]] = f[t]
    BY DEF TxNode, Node
  <2>3. \A n \in T : e[n] = n.value
    OBVIOUS
  <2> HIDE DEF F, S, T, e, f
  <2>4. SumOf(e, T) = SumOf(f, S)
    BY <1>3, <1>5, <1>6, <1>7, <2>1, <2>2, SumRenamed
  <2>5. MapThenSumSet(LAMBDA n : n.value, T) = SumOf(e, T)
    BY <1>7, <2>3, ValuesSummed
  <2>6. MapThenSumSet(LAMBDA t : t.amount, S) = SumOf(f, S)
    BY <1>3, <2>1, AmountsSummed
  <2> QED BY <2>4, <2>5, <2>6
<1>9. ASSUME NEW b \in D PROVE Min(V) <= b.timestamp /\ b.timestamp <= Max(V)
  <2> DEFINE w == [n \in B |-> n.value]
  <2>1. V = {w[n] : n \in B}
    OBVIOUS
  <2>2. IsFiniteSet(V)
    <3> HIDE DEF w, V, B
    <3> QED BY <1>4, <2>1, FieldFinite
  <2>3. \A c \in D : BlockNode(c).value = c.timestamp
    BY DEF BlockNode, Node
  <2>4. V \subseteq Nat /\ b.timestamp \in V
    BY <2>3, BlockAssumption
  <2> HIDE DEF V
  <2> QED BY <2>2, <2>4, MinMax
<1> HIDE DEF B, T, V, S
<1>10. Refreshed(g).txs = Cardinality(S) /\ Refreshed(g).volume = MapThenSumSet(LAMBDA t : t.amount, S)
  BY <1>2, <1>7, <1>8
<1>11. Refreshed(g).blocks = Cardinality(D)
  BY <1>2, <1>4
<1>12. \A b \in D : Refreshed(g).beginning <= b.timestamp /\ b.timestamp <= Refreshed(g).end
  BY <1>2, <1>9
<1> QED BY <1>10, <1>11, <1>12 DEF S

\* The edges of a graph are between its nodes.
LEMMA EdgesAtNodes ==
    ASSUME NEW D \in SUBSET Block, NEW e \in EdgesOf(D)
    PROVE  {e.source, e.target} \subseteq {n.id : n \in NodesOf(D)}
<1> DEFINE Ids == {n.id : n \in NodesOf(D)}
<1>1. PICK b \in D : e \in BlockEdges(b)
  BY DEF EdgesOf
<1>2. \A x, y : Edge(x, y).source = x /\ Edge(x, y).target = y
  BY DEF Edge
<1>3. BlockNodes(b) \subseteq NodesOf(D)
  BY DEF NodesOf
<1>4. b.id \in Ids /\ b.generator \in Ids
  <2>1. BlockNode(b).id = b.id /\ AccountNode(b.generator).id = b.generator
    BY DEF BlockNode, AccountNode, Node
  <2>2. BlockNode(b) \in NodesOf(D) /\ AccountNode(b.generator) \in NodesOf(D)
    BY <1>3 DEF BlockNodes
  <2> QED BY <2>1, <2>2
<1>5. ASSUME NEW t \in b.txs, NEW a \in Parties(t) PROVE t.id \in Ids /\ a \in Ids
  <2>1. TxNode(t).id = t.id /\ AccountNode(a).id = a
    BY DEF TxNode, AccountNode, Node
  <2>2. TxNode(t) \in NodesIn(b.txs) /\ AccountNode(a) \in NodesIn(b.txs)
    BY DEF NodesIn, TxNodes
  <2> QED BY <1>3, <2>1, <2>2 DEF BlockNodes
<1> HIDE DEF Ids
<1>6. ASSUME e = Edge(b.generator, b.id) PROVE {e.source, e.target} \subseteq Ids
  BY <1>2, <1>4, <1>6
<1>7. ASSUME \E t \in b.txs : e \in TxEdges(t) \/ e = Edge(b.id, t.id)
      PROVE  {e.source, e.target} \subseteq Ids
  <2>1. PICK t \in b.txs : e \in TxEdges(t) \/ e = Edge(b.id, t.id)
    BY <1>7
  <2>2. t.id \in Ids /\ t.sender \in Ids
    BY <1>5 DEF Parties
  <2>3. t.recipient # NoAccount => t.recipient \in Ids
    BY <1>5 DEF Parties
  <2> QED BY <1>2, <1>4, <2>1, <2>2, <2>3 DEF TxEdges
<1>8. {e.source, e.target} \subseteq Ids
  BY <1>1, <1>6, <1>7 DEF BlockEdges, EdgesIn
<1> QED BY <1>8 DEF Ids

\* The graph page's variables are of their types.
LEMMA GraphTyped == GraphInv => GraphTypeOK
<1> SUFFICES ASSUME GraphInv PROVE GraphTypeOK
  OBVIOUS
<1>1. PICK D \in SUBSET Block : GraphOf(D)
  BY DEF GraphInv
<1>2. graph.nodes = NodesOf(D) /\ graph.edges = EdgesOf(D) /\ indexes = IdsOf(graph.nodes, graph.edges)
  <2>1. State.graph = graph /\ State.indexes = indexes
    BY DEF State
  <2>2. State.graph.nodes = NodesOf(D) /\ State.graph.edges = EdgesOf(D) /\ State.indexes = IdsOf(NodesOf(D), EdgesOf(D))
    BY <1>1 DEF GraphOf, Has
  <2> QED BY <2>1, <2>2
<1>3. \A e \in graph.edges : {e.source, e.target} \subseteq {n.id : n \in graph.nodes}
  BY <1>2, EdgesAtNodes
<1>4. blocks \in 0 .. MaxBlocks
  <2>1. Cardinality(D) \in Nat
    BY BlockAssumption, FS_Subset, FS_CardinalityType
  <2> QED BY <1>1, <2>1, BlockAssumption DEF GraphOf
<1>5. {<<n.id>> : n \in graph.nodes} \subseteq indexes
  BY <1>2 DEF IdsOf
<1> QED BY <1>1, <1>3, <1>4, <1>5 DEF GraphOf, GraphTypeOK

\* The graph has the nodes and edges of the blocks it counts, and no other.
LEMMA GraphShown == GraphInv => GraphExact
<1> SUFFICES ASSUME GraphInv PROVE GraphExact
  OBVIOUS
<1>1. PICK D \in SUBSET Block : GraphOf(D)
  BY DEF GraphInv
<1> DEFINE shown == {b \in Block : \E n \in NodesByType(graph, "block") : n.id = b.id}
           txs == UNION {b.txs : b \in shown}
<1>2. graph.nodes = NodesOf(D) /\ graph.edges = EdgesOf(D)
  <2>1. State.graph = graph
    BY DEF State
  <2>2. State.graph.nodes = NodesOf(D) /\ State.graph.edges = EdgesOf(D)
    BY <1>1 DEF GraphOf, Has
  <2> QED BY <2>1, <2>2
<1>3. shown = D
  <2>1. NodesByType(graph, "block") = {BlockNode(b) : b \in D}
    BY <1>2, NodesByTypes
  <2>2. \A b : BlockNode(b).id = b.id
    BY DEF BlockNode, Node
  <2> QED BY <2>1, <2>2, IdAssumption
<1>4. txs = TxsOf(D)
  BY <1>3 DEF TxsOf
<1> HIDE DEF shown, txs
<1>5. graph.nodes = {Node(b.id, "block", b.timestamp) : b \in shown}
                    \cup {Node(t.id, "tx", t.amount) : t \in txs}
                    \cup {Node(a, "account", 0) : a \in UNION {AccountsOf(b) : b \in shown}}
  <2>1. graph.nodes = {BlockNode(b) : b \in shown} \cup {TxNode(t) : t \in txs}
                      \cup {AccountNode(a) : a \in UNION {AccountsOf(b) : b \in shown}}
    BY <1>2, <1>3, <1>4, NodesTold
  <2> QED BY <2>1 DEF BlockNode, TxNode, AccountNode
<1>6. graph.edges = {Edge(b.generator, b.id) : b \in shown}
                    \cup (UNION {{Edge(b.id, t.id) : t \in b.txs} : b \in shown})
                    \cup {Edge(t.sender, t.id) : t \in txs}
                    \cup {Edge(t.id, t.recipient) : t \in {u \in txs : u.recipient # NoAccount}}
  BY <1>2, <1>3, <1>4, EdgesTold
<1>7. blocks = Cardinality(shown) /\ lastPush \subseteq shown
  BY <1>1, <1>3 DEF GraphOf
<1>8. shown # {} =>
         /\ figures.blocks = blocks /\ figures.txs = Cardinality(txs)
         /\ figures.volume = MapThenSumSet(LAMBDA t : t.amount, txs)
         /\ \A b \in shown : figures.beginning <= b.timestamp /\ b.timestamp <= figures.end
  <2> SUFFICES ASSUME shown # {}
               PROVE  /\ figures.blocks = blocks /\ figures.txs = Cardinality(txs)
                      /\ figures.volume = MapThenSumSet(LAMBDA t : t.amount, txs)
                      /\ \A b \in shown : figures.beginning <= b.timestamp /\ b.timestamp <= figures.end
    OBVIOUS
  <2>1. figures = Refreshed(graph)
    BY <1>1, <1>3 DEF GraphOf
  <2> QED BY <1>2, <1>3, <1>4, <1>7, <2>1, FiguresTrue
<1>9. painted = IF selected.live THEN {selected.id} ELSE {}
  BY DEF GraphInv, SelectedOne
<1> QED BY <1>5, <1>6, <1>7, <1>8, <1>9 DEF GraphExact, shown, txs

-----------------------------------------------------------------------------
(* The header and the page of the delegates. *)

\* What the page has of a delegate, and of all of them.
Shown(n) == [last : 0 .. n, flag : BOOLEAN, code : 0 .. 5]
DelegatesOK ==
    /\ delegates = [active |-> delegates.active, totals |-> delegates.totals]
    /\ delegates.active = NoDelegates \/ delegates.active \in [Active -> Shown(Height)]

\* What holds of it in every state: no timer without a lost connection.
StatusInv ==
    /\ chain \in [blocks : Seq(Active), slots : 0 .. MaxSlots]
    /\ monitor \in [last : [Active -> 0 .. Height], round : SUBSET Active, flagged : SUBSET Active]
    /\ sockets \in [up : SUBSET {"header", "monitor"}, drops : 0 .. MaxDrops]
    /\ header \in [height : 0 .. Height, connected : BOOLEAN, timers : 0 .. sockets.drops]
    /\ DelegatesOK

\* updateStatus gives one of the six codes.
LEMMA CodeType ==
    ASSUME NEW last, NEW flag, NEW height PROVE Code(last, flag, height) \in 0 .. 5
BY DEF Code

\* The last of the blocks of a delegate.
LEMMA LastBlockType ==
    ASSUME chain.blocks \in Seq(Active), NEW d
    PROVE  LastBlockOf(d) \in 0 .. Height
<1> DEFINE mine == {h \in 1 .. Height : chain.blocks[h] = d}
<1>1. Height \in Nat
  BY DEF Height
<1>2. CASE mine = {}
  BY <1>1, <1>2 DEF LastBlockOf, None
<1>3. CASE mine # {}
  <2>1. IsFiniteSet(1 .. Height)
    BY <1>1, FS_Interval
  <2>2. IsFiniteSet(mine)
    BY <2>1, FS_Subset
  <2>3. mine \subseteq Nat
    BY <1>1
  <2>4. LastBlockOf(d) = CHOOSE h \in mine : \A other \in mine : other <= h
    BY <1>3 DEF LastBlockOf
  <2>5. mine \subseteq 0 .. Height
    BY <1>1
  <2> HIDE DEF mine
  <2>6. \E h \in mine : \A other \in mine : other <= h
    BY <1>3, <2>2, <2>3, GreatestOf
  <2> QED BY <2>4, <2>5, <2>6
<1> QED BY <1>2, <1>3

\* Whichever slot it is, the roster has a delegate for it.
LEMMA RosterTurns ==
    ASSUME NEW n \in Nat PROVE Roster[(n % RoundLength) + 1] \in Active
<1>1. Len(Roster) \in Nat /\ Len(Roster) # 0 /\ DOMAIN Roster = 1 .. Len(Roster)
  BY StatusAssumption
<1> DEFINE L == Len(Roster)
<1> HIDE DEF L
<1>2. n % L \in 0 .. L - 1
  BY <1>1 DEF L
<1>3. (n % L) + 1 \in 1 .. L
  BY <1>1, <1>2 DEF L
<1> QED BY <1>1, <1>3 DEF Active, RoundLength, L

\* The delegates of the round are active ones, and so is the next forger.
LEMMA RoundDelegatesType ==
    ASSUME chain.slots \in Nat
    PROVE  RoundDelegates \subseteq Active /\ NextForger(0) \in Active
<1>1. \A i \in Nat : NextForger(i) \in Active
  BY RosterTurns DEF NextForger
<1>2. RoundLength \in Nat
  BY StatusAssumption DEF RoundLength
<1> QED BY <1>1, <1>2 DEF RoundDelegates

\* updateActive leaves statuses of the delegates.
LEMMA UpdateActiveType ==
    ASSUME DelegatesOK, UNCHANGED chain, NEW p,
           p.last \in [Active -> 0 .. Height], UpdateActive(p)
    PROVE  DelegatesOK'
<1>1. Height' = Height
  BY DEF Height
<1>2. CASE UNCHANGED delegates
  BY <1>1, <1>2 DEF DelegatesOK
<1>3. CASE \E active, totals : active \in [Active -> Shown(Height)]
                               /\ delegates' = [active |-> active, totals |-> totals]
  BY <1>1, <1>3 DEF DelegatesOK
<1> DEFINE active == [d \in Active |->
                        [last |-> p.last[d], flag |-> d \in p.flagged,
                         code |-> Code(p.last[d], d \in p.flagged, header.height)]]
<1>4. active \in [Active -> Shown(Height)]
  <2> SUFFICES ASSUME NEW d \in Active PROVE active[d] \in Shown(Height)
    OBVIOUS
  <2> DEFINE c == Code(p.last[d], d \in p.flagged, header.height)
             f == d \in p.flagged
  <2>1. c \in 0 .. 5
    BY CodeType
  <2>2. active[d] = [last |-> p.last[d], flag |-> f, code |-> c]
    OBVIOUS
  <2>3. p.last[d] \in 0 .. Height /\ f \in BOOLEAN
    OBVIOUS
  <2> HIDE DEF active, c, f
  <2> QED BY <2>1, <2>2, <2>3 DEF Shown
<1>5. UNCHANGED delegates \/ delegates' = [active |-> active, totals |-> Totals(active)]
  BY DEF UpdateActive
<1> HIDE DEF active
<1> QED BY <1>2, <1>3, <1>4, <1>5

\* updateLastBlocks changes one delegate's status, and counts again.
LEMMA UpdateLastBlocksType ==
    ASSUME DelegatesOK, UNCHANGED chain, NEW d \in Active, NEW last \in 0 .. Height,
           NEW flag \in BOOLEAN, UpdateLastBlocks(d, last, flag)
    PROVE  DelegatesOK'
<1>1. Height' = Height
  BY DEF Height
<1>2. CASE UNCHANGED delegates
  BY <1>1, <1>2 DEF DelegatesOK
<1>3. CASE \E new, totals : new \in [Active -> Shown(Height)]
                            /\ delegates' = [active |-> new, totals |-> totals]
  BY <1>1, <1>3 DEF DelegatesOK
<1>4. CASE ~ UNCHANGED delegates
  <2> DEFINE active == delegates.active
             again == [e \in Active |->
                [active[e] EXCEPT !.code = Code(active[e].last, active[e].flag, header.height)]]
             one == [last |-> last, flag |-> active[d].flag, code |-> Code(last, flag, header.height)]
             changed == [again EXCEPT ![d] = one]
             half == [again EXCEPT ![d].last = last]
  <2>1. active # NoDelegates
        /\ delegates' = IF Throws(last) THEN [delegates EXCEPT !.active = half]
                        ELSE [active |-> changed, totals |-> Totals(changed)]
    BY <1>4 DEF UpdateLastBlocks
  <2>2. active \in [Active -> Shown(Height)]
    BY <2>1 DEF DelegatesOK
  <2>3. again \in [Active -> Shown(Height)]
    <3> SUFFICES ASSUME NEW e \in Active PROVE again[e] \in Shown(Height)
      OBVIOUS
    <3> DEFINE c == Code(active[e].last, active[e].flag, header.height)
               a == active[e]
    <3>1. again[e] = [a EXCEPT !.code = c]
      OBVIOUS
    <3>2. c \in 0 .. 5 /\ a \in Shown(Height)
      BY <2>2, CodeType
    <3> HIDE DEF again, a, c
    <3> QED BY <3>1, <3>2 DEF Shown
  <2>4. one \in Shown(Height)
    <3> DEFINE c == Code(last, flag, header.height)
               a == active[d]
    <3>1. one = [last |-> last, flag |-> a.flag, code |-> c] /\ c \in 0 .. 5 /\ a \in Shown(Height)
      BY <2>2, CodeType
    <3> HIDE DEF one, a, c
    <3> QED BY <3>1 DEF Shown
  <2> HIDE DEF again, one
  <2>5. changed \in [Active -> Shown(Height)]
    BY <2>3, <2>4
  <2>6. half \in [Active -> Shown(Height)]
    <3>1. half = [again EXCEPT ![d] = [again[d] EXCEPT !.last = last]]
      BY <2>3
    <3> DEFINE h == [again[d] EXCEPT !.last = last]
    <3>2. h \in Shown(Height)
      BY <2>3 DEF Shown
    <3> HIDE DEF h, half
    <3> QED BY <2>3, <3>1, <3>2 DEF h
  <2> HIDE DEF active, changed, half
  <2>7. [delegates EXCEPT !.active = half] = [active |-> half, totals |-> delegates.totals]
    BY DEF DelegatesOK
  <2> QED BY <1>3, <2>1, <2>5, <2>6, <2>7
<1> QED BY <1>2, <1>4

\* The page opens with nothing known of the delegates.
LEMMA StatusInitially == StatusInit => StatusInv
<1> SUFFICES ASSUME StatusInit PROVE StatusInv
  OBVIOUS
<1>1. chain \in [blocks : Seq(Active), slots : 0 .. MaxSlots]
  <2>1. Before \subseteq Seq(Active)
    BY StatusAssumption DEF Active
  <2>2. 0 \in 0 .. MaxSlots
    BY StatusAssumption
  <2> QED BY <2>1, <2>2 DEF StatusInit
<1>2. Height \in Nat
  BY <1>1 DEF Height
<1>3. monitor \in [last : [Active -> 0 .. Height], round : SUBSET Active, flagged : SUBSET Active]
  <2>1. RoundDelegates \in SUBSET Active
    BY <1>1, RoundDelegatesType
  <2>2. [d \in Active |-> None] \in [Active -> 0 .. Height]
    BY <1>2 DEF None
  <2> QED BY <2>1, <2>2 DEF StatusInit
<1>4. sockets \in [up : SUBSET {"header", "monitor"}, drops : 0 .. MaxDrops]
  BY StatusAssumption DEF StatusInit
<1>5. header \in [height : 0 .. Height, connected : BOOLEAN, timers : 0 .. sockets.drops]
  BY <1>2 DEF StatusInit, None
<1>6. DelegatesOK
  BY DEF StatusInit, DelegatesOK
<1> QED BY <1>1, <1>3, <1>4, <1>5, <1>6 DEF StatusInv

\* The variables of header and delegates are of their types.
LEMMA StatusTyped == StatusInv => StatusTypeOK
<1> SUFFICES ASSUME StatusInv PROVE StatusTypeOK
  OBVIOUS
<1>1. sockets.drops \in 0 .. MaxDrops /\ MaxDrops \in Nat
  BY StatusAssumption DEF StatusInv
<1>2. header \in [height : 0 .. Height, connected : BOOLEAN, timers : 0 .. MaxDrops]
  <2>1. header.timers \in 0 .. MaxDrops
    BY <1>1 DEF StatusInv
  <2> QED BY <2>1 DEF StatusInv
<1> QED BY <1>2 DEF StatusInv, StatusTypeOK, DelegatesOK, Shown

\* Each step of chain, server, connections and page keeps the invariant.
LEMMA StatusKept ==
    ASSUME StatusInv, StatusStep \/ UNCHANGED statusVars
    PROVE  StatusInv'
<1> DEFINE Chains == [blocks : Seq(Active), slots : 0 .. MaxSlots]
           Monitors(n) == [last : [Active -> 0 .. n], round : SUBSET Active, flagged : SUBSET Active]
           Sockets == [up : SUBSET {"header", "monitor"}, drops : 0 .. MaxDrops]
           Headers(n, k) == [height : 0 .. n, connected : BOOLEAN, timers : 0 .. k]
<1>1. /\ chain \in Chains /\ monitor \in Monitors(Height) /\ sockets \in Sockets
      /\ header \in Headers(Height, sockets.drops) /\ DelegatesOK
  BY DEF StatusInv
<1>2. SUFFICES /\ chain' \in Chains /\ monitor' \in Monitors(Height') /\ sockets' \in Sockets
               /\ header' \in Headers(Height', sockets'.drops) /\ DelegatesOK'
  BY DEF StatusInv
<1>3. Height \in Nat /\ sockets.drops \in Nat /\ chain.slots \in Nat /\ chain.blocks \in Seq(Active)
  BY <1>1, StatusAssumption DEF Height
<1>4. RoundDelegates \in SUBSET Active /\ NextForger(0) \in Active
  BY <1>3, RoundDelegatesType
<1>5. UNCHANGED chain => Height' = Height
  BY DEF Height
<1>6. UNCHANGED <<chain, delegates>> => DelegatesOK'
  BY <1>1, <1>5 DEF DelegatesOK
<1>7. CASE Slot
  <2>1. PICK forged \in BOOLEAN :
          chain' = [blocks |-> IF forged THEN Append(chain.blocks, NextForger(0)) ELSE chain.blocks,
                    slots  |-> chain.slots + 1]
    BY <1>7 DEF Slot
  <2>2. chain.slots + 1 \in 0 .. MaxSlots
    BY <1>1, <1>7, StatusAssumption DEF Slot
  <2>3. chain'.blocks \in Seq(Active) /\ chain' \in Chains
    BY <1>3, <1>4, <2>1, <2>2
  <2>4. Height' \in Nat /\ Height <= Height'
    <3>1. Len(chain'.blocks) = Len(chain.blocks) \/ Len(chain'.blocks) = Len(chain.blocks) + 1
      BY <1>3, <1>4, <2>1
    <3> QED BY <1>3, <3>1 DEF Height
  <2>5. monitor' = monitor /\ sockets' = sockets /\ header' = header /\ delegates' = delegates
    BY <1>7 DEF Slot
  <2>6. 0 .. Height \subseteq 0 .. Height'
    BY <1>3, <2>4
  <2>7. monitor' \in Monitors(Height')
    BY <1>1, <2>5, <2>6
  <2>8. header' \in Headers(Height', sockets'.drops)
    BY <1>1, <2>5, <2>6
  <2>9. DelegatesOK'
    <3>1. Shown(Height) \subseteq Shown(Height')
      BY <2>6 DEF Shown
    <3> QED BY <1>1, <2>5, <3>1 DEF DelegatesOK
  <2> QED BY <1>1, <2>3, <2>5, <2>7, <2>8, <2>9
<1>8. CASE HeaderPush
  <2>1. chain' = chain /\ monitor' = monitor /\ sockets' = sockets /\ delegates' = delegates
    BY <1>8 DEF HeaderPush
  <2>2. header' = [header EXCEPT !.height = Height, !.connected = TRUE]
    BY <1>8 DEF HeaderPush
  <2>3. header' \in Headers(Height, sockets.drops)
    <3>1. header' = [height |-> Height, connected |-> TRUE, timers |-> header.timers]
      BY <1>1, <2>2
    <3>2. header.timers \in 0 .. sockets.drops /\ Height \in 0 .. Height
      BY <1>1, <1>3
    <3> QED BY <3>1, <3>2
  <2> QED BY <1>1, <1>5, <1>6, <2>1, <2>3
<1>9. CASE DataPush
  <2>1. chain' = chain /\ sockets' = sockets /\ header' = header /\ Height' = Height
    BY <1>5, <1>9 DEF DataPush
  <2>2. monitor' = [monitor EXCEPT !.round = RoundDelegates, !.flagged = RoundDelegates]
    BY <1>9 DEF DataPush
  <2>3. monitor' \in Monitors(Height)
    BY <1>1, <1>4, <2>2
  <2>4. CASE "monitor" \in sockets.up
    <3>1. PICK p : p = monitor'
      OBVIOUS
    <3>2. UpdateActive(p) /\ p.last \in [Active -> 0 .. Height]
      BY <1>9, <2>3, <2>4, <3>1 DEF DataPush
    <3>3. DelegatesOK'
      BY <1>1, <2>1, <3>2, UpdateActiveType
    <3> QED BY <1>1, <2>1, <2>3, <3>3
  <2>5. CASE "monitor" \notin sockets.up
    <3>1. delegates' = delegates
      BY <1>9, <2>5 DEF DataPush
    <3> QED BY <1>1, <1>6, <2>1, <2>3, <3>1
  <2> QED BY <2>4, <2>5
<1>10. CASE TimerFires
  <2>1. chain' = chain /\ monitor' = monitor /\ sockets' = sockets /\ delegates' = delegates
    BY <1>10 DEF TimerFires
  <2>2. header' = [header EXCEPT !.timers = @ - 1, !.connected = FALSE] /\ header.timers > 0
    BY <1>10 DEF TimerFires
  <2>3. header' \in Headers(Height, sockets.drops)
    <3>1. header' = [height |-> header.height, connected |-> FALSE, timers |-> header.timers - 1]
      BY <1>1, <2>2
    <3>2. header.timers \in 0 .. sockets.drops /\ header.height \in 0 .. Height
      BY <1>1
    <3>3. header.timers - 1 \in 0 .. sockets.drops
      BY <1>3, <2>2, <3>2
    <3> QED BY <3>1, <3>2, <3>3
  <2> QED BY <1>1, <1>5, <1>6, <2>1, <2>3
<1>11. ASSUME NEW d \in Active, DelegatePush(d)
       PROVE  /\ chain' \in Chains /\ monitor' \in Monitors(Height') /\ sockets' \in Sockets
              /\ header' \in Headers(Height', sockets'.drops) /\ DelegatesOK'
  <2> DEFINE last == LastBlockOf(d)
             flag == d \in monitor.round
  <2>1. chain' = chain /\ sockets' = sockets /\ header' = header /\ Height' = Height
    BY <1>5, <1>11 DEF DelegatePush
  <2>2. last \in 0 .. Height /\ flag \in BOOLEAN
    BY <1>3, LastBlockType
  <2>3. monitor' = [monitor EXCEPT !.last[d] = last,
                      !.flagged = IF flag THEN @ \cup {d} ELSE @ \ {d}]
    BY <1>11 DEF DelegatePush
  <2>4. IF "monitor" \in sockets.up THEN UpdateLastBlocks(d, last, flag) ELSE UNCHANGED delegates
    BY <1>11 DEF DelegatePush
  <2>5. monitor' \in Monitors(Height)
    <3>1. [monitor.last EXCEPT ![d] = last] \in [Active -> 0 .. Height]
      BY <1>1, <2>2
    <3>2. (IF flag THEN monitor.flagged \cup {d} ELSE monitor.flagged \ {d}) \in SUBSET Active
      BY <1>1
    <3> HIDE DEF last, flag
    <3>3. monitor' = [monitor EXCEPT !.last = [monitor.last EXCEPT ![d] = last],
                        !.flagged = IF flag THEN monitor.flagged \cup {d} ELSE monitor.flagged \ {d}]
      BY <1>1, <2>3
    <3> QED BY <1>1, <3>1, <3>2, <3>3
  <2> HIDE DEF last, flag
  <2>6. DelegatesOK'
    <3>1. CASE "monitor" \in sockets.up
      BY <1>1, <2>1, <2>2, <2>4, <3>1, UpdateLastBlocksType
    <3>2. CASE "monitor" \notin sockets.up
      BY <1>6, <2>1, <2>4, <3>2
    <3> QED BY <3>1, <3>2
  <2> QED BY <1>1, <2>1, <2>5, <2>6
<1>12. ASSUME NEW s \in {"header", "monitor"}, Drop(s)
       PROVE  /\ chain' \in Chains /\ monitor' \in Monitors(Height') /\ sockets' \in Sockets
              /\ header' \in Headers(Height', sockets'.drops) /\ DelegatesOK'
  <2>1. chain' = chain /\ monitor' = monitor /\ delegates' = delegates /\ Height' = Height
    BY <1>5, <1>12 DEF Drop
  <2>2. sockets' = [up |-> sockets.up \ {s}, drops |-> sockets.drops + 1] /\ sockets.drops < MaxDrops
    BY <1>12 DEF Drop
  <2>3. sockets' \in Sockets /\ sockets'.drops = sockets.drops + 1
    BY <1>1, <1>3, <2>2, StatusAssumption
  <2>4. header' = header \/ header' = [header EXCEPT !.timers = @ + 1]
    BY <1>12 DEF Drop
  <2>5. header' \in Headers(Height, sockets.drops + 1)
    <3>1. header.timers \in 0 .. sockets.drops /\ header.height \in 0 .. Height /\ header.connected \in BOOLEAN
      BY <1>1
    <3>2. header.timers \in 0 .. sockets.drops + 1 /\ header.timers + 1 \in 0 .. sockets.drops + 1
      BY <1>3, <3>1
    <3>3. \/ header' = [height |-> header.height, connected |-> header.connected, timers |-> header.timers]
          \/ header' = [height |-> header.height, connected |-> header.connected, timers |-> header.timers + 1]
      BY <1>1, <2>4
    <3> QED BY <3>1, <3>2, <3>3
  <2> QED BY <1>1, <1>6, <2>1, <2>3, <2>5
<1>13. ASSUME NEW s \in {"header", "monitor"}, Connect(s)
       PROVE  /\ chain' \in Chains /\ monitor' \in Monitors(Height') /\ sockets' \in Sockets
              /\ header' \in Headers(Height', sockets'.drops) /\ DelegatesOK'
  <2>1. chain' = chain /\ monitor' = monitor /\ Height' = Height
    BY <1>5, <1>13 DEF Connect
  <2>2. sockets' = [sockets EXCEPT !.up = @ \cup {s}]
    BY <1>13 DEF Connect
  <2>3. sockets' \in Sockets /\ sockets'.drops = sockets.drops
    BY <1>1, <2>2
  <2>4. CASE s = "header"
    <3>1. header' = [header EXCEPT !.connected = TRUE] /\ delegates' = delegates
      BY <1>13, <2>4 DEF Connect
    <3>2. header' \in Headers(Height, sockets.drops)
      BY <1>1, <3>1
    <3> QED BY <1>1, <1>6, <2>1, <2>3, <3>1, <3>2
  <2>5. CASE s # "header"
    <3>1. UpdateActive(monitor) /\ header' = header
      BY <1>13, <2>5 DEF Connect
    <3>2. PICK p : p = monitor
      OBVIOUS
    <3>3. p.last \in [Active -> 0 .. Height] /\ UpdateActive(p)
      BY <1>1, <3>1, <3>2
    <3>4. DelegatesOK'
      BY <1>1, <2>1, <3>3, UpdateActiveType
    <3> QED BY <1>1, <2>1, <2>3, <3>1, <3>4
  <2> QED BY <2>4, <2>5
<1>14. CASE UNCHANGED statusVars
  <2>1. /\ chain' = chain /\ monitor' = monitor /\ sockets' = sockets /\ header' = header
        /\ delegates' = delegates
    BY <1>14 DEF statusVars
  <2> QED BY <1>1, <1>5, <1>6, <2>1
<1> QED BY <1>7, <1>8, <1>9, <1>10, <1>11, <1>12, <1>13, <1>14 DEF StatusStep

-----------------------------------------------------------------------------
(* The server of the lists. *)

\* What an answer that is kept, or a request, can be.
Kept(n) == {NotSaved} \cup [version : 1 .. n, age : 0 .. TTL - 1]
Requests(n) == [stage : {"idle", "asked", "read", "answered", "lost"}, path : Path, version : 0 .. n]
HttpInv == HttpTypeOK /\ \A r \in Request : request[r].stage = "read" => request[r].version # 0

\* What HttpInv says of each variable.
LEMMA HttpUnfolded ==
    HttpInv <=> /\ version \in 1 .. MaxVersion /\ httpFaults \in 0 .. MaxHttpFaults
                /\ server \in {"asking", "pausing", "listening"}
                /\ saved \in [Path -> Kept(version)]
                /\ request \in [Request -> Requests(version)]
                /\ \A r \in Request : request[r].stage = "read" => request[r].version # 0
BY DEF HttpInv, HttpTypeOK, Kept, Requests

\* What is assumed of the constants of server and lists.
LEMMA Bounds ==
    /\ TTL \in Nat \ {0} /\ MaxVersion \in Nat \ {0} /\ MaxHttpFaults \in Nat
    /\ Limit \in Nat \ {0} /\ Accounts \in Nat \ {0} /\ Maximum \in Nat \ {0} /\ MaxPages \in Nat \ {0}
    /\ 0 \notin Request
BY HttpAssumption, ListAssumption

\* More versions, more that can be.
LEMMA KeptGrows ==
    ASSUME NEW m \in Nat, NEW n \in Nat, m <= n
    PROVE  Kept(m) \subseteq Kept(n) /\ Requests(m) \subseteq Requests(n)
<1>1. 1 .. m \subseteq 1 .. n /\ 0 .. m \subseteq 0 .. n
  OBVIOUS
<1> QED BY <1>1 DEF Kept, Requests

\* The fields of an answer that is kept.
LEMMA KeptVersion ==
    ASSUME NEW n \in Nat, NEW k \in Kept(n), k # NotSaved
    PROVE  k.version \in 1 .. n /\ k.age \in 0 .. TTL - 1 /\ k = [version |-> k.version, age |-> k.age]
BY DEF Kept

\* The server starts with nothing kept and no request.
LEMMA HttpInitially == HttpInit => HttpInv
<1> SUFFICES ASSUME HttpInit PROVE HttpInv
  OBVIOUS
<1>1. 0 \in Path
  <2>1. 0 = 0 * Limit /\ 0 \in 0 .. MaxPages - 1
    BY Bounds
  <2> QED BY <2>1, ListAssumption
<1>2. SomePath \in Path
  BY <1>1 DEF SomePath
<1>3. version \in 1 .. MaxVersion /\ httpFaults \in 0 .. MaxHttpFaults
  BY Bounds DEF HttpInit
<1>4. saved \in [Path -> Kept(version)]
  BY DEF HttpInit, Kept
<1>5. Idle(SomePath) \in Requests(version) /\ Idle(SomePath).stage = "idle"
  BY <1>2, <1>3 DEF Idle, Requests
<1>6. request \in [Request -> Requests(version)] /\ \A r \in Request : request[r].stage = "idle"
  BY <1>5 DEF HttpInit
<1> QED BY <1>3, <1>4, <1>6, HttpUnfolded DEF HttpInit

\* What the browser can tell of a step of the server.
Untouched == \A r \in Request : /\ request'[r].path = request[r].path
                                /\ request'[r].stage = "idle" <=> request[r].stage = "idle"

\* The node's data change.
LEMMA ChangeKeeps ==
    ASSUME HttpInv, Change PROVE HttpInv' /\ version' = version + 1 /\ Untouched
<1>1. version' = version + 1 /\ version < MaxVersion /\ UNCHANGED <<server, saved, request, httpFaults>>
  BY DEF Change
<1>2. version' \in 1 .. MaxVersion /\ version \in Nat /\ version + 1 \in Nat /\ version <= version + 1
  BY <1>1, HttpUnfolded, Bounds
<1>3. saved \in [Path -> Kept(version)] /\ request \in [Request -> Requests(version)]
  BY HttpUnfolded
<1>4. saved' \in [Path -> Kept(version')] /\ request' \in [Request -> Requests(version')]
  BY <1>1, <1>2, <1>3, KeptGrows
<1>5. \A r \in Request : request'[r].stage = "read" => request'[r].version # 0
  BY <1>1, HttpUnfolded
<1>6. HttpInv'
  <2>1. httpFaults' \in 0 .. MaxHttpFaults /\ server' \in {"asking", "pausing", "listening"}
    BY <1>1, HttpUnfolded
  <2> QED BY <1>2, <1>4, <1>5, <2>1 DEF HttpInv, HttpTypeOK, Kept, Requests
<1> QED BY <1>1, <1>6 DEF Untouched

\* A step that leaves the data of the node as they are.
LEMMA HttpSame ==
    ASSUME HttpInv, version' = version,
           httpFaults' = httpFaults \/ HttpFault,
           server' \in {"asking", "pausing", "listening"},
           saved' \in [Path -> Kept(version)], request' \in [Request -> Requests(version)],
           \A r \in Request : request'[r].stage = "read" => request'[r].version # 0
    PROVE  HttpInv'
<1>1. httpFaults' \in 0 .. MaxHttpFaults
  BY HttpUnfolded, Bounds DEF HttpFault
<1>2. version' \in 1 .. MaxVersion
  BY HttpUnfolded
<1> QED BY <1>1, <1>2 DEF HttpInv, HttpTypeOK, Kept, Requests

\* The server asks the node, waits, and listens.
LEMMA StartKeeps ==
    ASSUME HttpInv, NodeMissing \/ AskNode \/ Listen
    PROVE  HttpInv' /\ version' = version /\ saved' = saved /\ request' = request /\ Untouched
<1>1. /\ version' = version /\ saved' = saved /\ request' = request
      /\ server' \in {"asking", "pausing", "listening"} /\ (httpFaults' = httpFaults \/ HttpFault)
  BY DEF NodeMissing, AskNode, Listen
<1>2. saved' \in [Path -> Kept(version)] /\ request' \in [Request -> Requests(version)]
      /\ \A r \in Request : request'[r].stage = "read" => request'[r].version # 0
  BY <1>1, HttpUnfolded
<1> QED BY <1>1, <1>2, HttpSame DEF Untouched

\* One request goes on.
LEMMA OneRequest ==
    ASSUME HttpInv, NEW r \in Request, NEW q \in Requests(version),
           request' = [request EXCEPT ![r] = q], q.stage = "read" => q.version # 0
    PROVE  /\ request' \in [Request -> Requests(version)]
           /\ \A s \in Request : request'[s].stage = "read" => request'[s].version # 0
           /\ request'[r] = q /\ \A s \in Request \ {r} : request'[s] = request[s]
BY HttpUnfolded

\* Which answer an action of the server leaves with a request, and with Redis.
LEMMA ReadKeeps ==
    ASSUME HttpInv, NEW r \in Request, Read(r)
    PROVE  /\ HttpInv' /\ version' = version /\ saved' = saved /\ Untouched
           /\ \A s \in Request : \/ request'[s] = request[s]
                                 \/ (request[s].stage = "asked" /\ request'[s].version = version)
<1> DEFINE q == [request[r] EXCEPT !.stage = "read", !.version = version]
<1>1. request[r] \in Requests(version) /\ version \in 1 .. MaxVersion
  BY HttpUnfolded
<1>2. q \in Requests(version) /\ q.stage = "read" /\ q.version = version /\ q.path = request[r].path
  <2>1. version \in 0 .. version
    BY <1>1
  <2> QED BY <1>1, <2>1 DEF Requests
<1>3. request[r].stage = "asked"
  BY DEF Read
<1>4. request' = [request EXCEPT ![r] = q] /\ UNCHANGED <<version, server, saved, httpFaults>>
  <2>1. request' = [request EXCEPT ![r].stage = "read", ![r].version = version]
    BY DEF Read
  <2>2. request \in [Request -> Requests(version)]
    BY HttpUnfolded
  <2>3. request' = [request EXCEPT ![r] = q]
    BY <2>1, <2>2
  <2> QED BY <2>3 DEF Read
<1> HIDE DEF q
<1>5. version # 0
  BY <1>1
<1>6. /\ request' \in [Request -> Requests(version)]
      /\ \A s \in Request : request'[s].stage = "read" => request'[s].version # 0
      /\ request'[r] = q /\ \A s \in Request \ {r} : request'[s] = request[s]
  BY <1>2, <1>4, <1>5, OneRequest
<1>7. HttpInv'
  <2>1. saved' \in [Path -> Kept(version)] /\ server' \in {"asking", "pausing", "listening"}
    BY <1>4, HttpUnfolded
  <2> QED BY <1>4, <1>6, <2>1, HttpSame
<1>8. Untouched
  BY <1>2, <1>3, <1>6 DEF Untouched
<1> QED BY <1>2, <1>3, <1>4, <1>6, <1>7, <1>8

\* A handler succeeds, and its answer is kept or not.
LEMMA SucceedKeeps ==
    ASSUME HttpInv, NEW r \in Request, Succeed(r)
    PROVE  /\ HttpInv' /\ version' = version /\ Untouched
           /\ \A s \in Request : request'[s].version = request[s].version
           /\ \A p \in Path : \/ saved'[p] = saved[p]
                              \/ /\ request[r].stage # "idle" /\ request[r].version # 0
                                 /\ request[r].path = p /\ saved'[p].version = request[r].version
<1> DEFINE q == [request[r] EXCEPT !.stage = "answered"]
           k == [version |-> request[r].version, age |-> 0]
<1>1. request[r] \in Requests(version) /\ version \in 1 .. MaxVersion /\ request[r].stage = "read"
      /\ request[r].version # 0
  BY HttpUnfolded DEF Succeed
<1>2. /\ q \in Requests(version) /\ q.stage = "answered" /\ q.path = request[r].path
      /\ q.version = request[r].version
  BY <1>1 DEF Requests
<1>3. request' = [request EXCEPT ![r] = q] /\ version' = version /\ server' = server
  <2>1. request' = [request EXCEPT ![r].stage = "answered"]
    BY DEF Succeed
  <2>2. request \in [Request -> Requests(version)]
    BY HttpUnfolded
  <2>3. request' = [request EXCEPT ![r] = q]
    BY <2>1, <2>2
  <2> QED BY <2>3 DEF Succeed
<1>4. k \in Kept(version) /\ request[r].path \in Path /\ k.version = request[r].version
  <2>1. request[r].version \in 1 .. version /\ 0 \in 0 .. TTL - 1
    BY <1>1, Bounds DEF Requests
  <2> QED BY <1>1, <2>1 DEF Kept, Requests
<1>5. \/ saved' = [saved EXCEPT ![request[r].path] = k] /\ httpFaults' = httpFaults
      \/ saved' = saved /\ HttpFault
  BY DEF Succeed
<1> HIDE DEF q, k
<1>6. /\ request' \in [Request -> Requests(version)]
      /\ \A s \in Request : request'[s].stage = "read" => request'[s].version # 0
      /\ request'[r] = q /\ \A s \in Request \ {r} : request'[s] = request[s]
  BY <1>2, <1>3, OneRequest
<1>7. saved \in [Path -> Kept(version)] /\ server \in {"asking", "pausing", "listening"}
  BY HttpUnfolded
<1>8. saved' \in [Path -> Kept(version)]
  BY <1>4, <1>5, <1>7
<1>9. HttpInv'
  BY <1>3, <1>5, <1>6, <1>7, <1>8, HttpSame
<1>10. Untouched
  BY <1>1, <1>2, <1>6 DEF Untouched
<1>11. \A p \in Path : saved'[p] = saved[p] \/ (request[r].path = p /\ saved'[p].version = request[r].version)
  BY <1>4, <1>5, <1>7
<1>12. \A s \in Request : request'[s].version = request[s].version
  BY <1>2, <1>6
<1> QED BY <1>1, <1>3, <1>9, <1>10, <1>11, <1>12

\* A handler calls error.
LEMMA RefuseKeeps ==
    ASSUME HttpInv, NEW r \in Request, Refuse(r)
    PROVE  /\ HttpInv' /\ version' = version /\ saved' = saved /\ Untouched
           /\ \A s \in Request : request'[s] = request[s] \/ request'[s].version = 0
<1> DEFINE q == [request[r] EXCEPT !.stage = "answered", !.version = 0]
<1>1. request[r] \in Requests(version) /\ version \in 1 .. MaxVersion
      /\ request[r].stage \in {"asked", "read"}
  BY HttpUnfolded DEF Refuse
<1>2. q \in Requests(version) /\ q.stage = "answered" /\ q.version = 0 /\ q.path = request[r].path
  <2>1. 0 \in 0 .. version
    BY <1>1
  <2> QED BY <1>1, <2>1 DEF Requests
<1>3. request' = [request EXCEPT ![r] = q] /\ UNCHANGED <<version, server, saved>> /\ HttpFault
  <2>1. request' = [request EXCEPT ![r].stage = "answered", ![r].version = 0]
    BY DEF Refuse
  <2>2. request \in [Request -> Requests(version)]
    BY HttpUnfolded
  <2>3. request' = [request EXCEPT ![r] = q]
    BY <2>1, <2>2
  <2> QED BY <2>3 DEF Refuse
<1> HIDE DEF q
<1>4. /\ request' \in [Request -> Requests(version)]
      /\ \A s \in Request : request'[s].stage = "read" => request'[s].version # 0
      /\ request'[r] = q /\ \A s \in Request \ {r} : request'[s] = request[s]
  BY <1>2, <1>3, OneRequest
<1>5. HttpInv'
  <2>1. saved' \in [Path -> Kept(version)] /\ server' \in {"asking", "pausing", "listening"}
    BY <1>3, HttpUnfolded
  <2> QED BY <1>3, <1>4, <2>1, HttpSame
<1>6. Untouched
  BY <1>1, <1>2, <1>4 DEF Untouched
<1> QED BY <1>2, <1>3, <1>4, <1>5, <1>6

\* The process ends, and with it the requests it has.
LEMMA EndKeeps ==
    ASSUME HttpInv, End
    PROVE  /\ HttpInv' /\ version' = version /\ saved' = saved /\ Untouched
           /\ \A s \in Request : request'[s].version = request[s].version
<1>1. /\ request' = [r \in Request |-> IF r \in Open THEN [request[r] EXCEPT !.stage = "lost"] ELSE request[r]]
      /\ server' = "asking" /\ UNCHANGED <<version, saved>> /\ HttpFault
  BY DEF End
<1>2. request \in [Request -> Requests(version)] /\ saved \in [Path -> Kept(version)]
  BY HttpUnfolded
<1>3. ASSUME NEW r \in Request
      PROVE  /\ request'[r] \in Requests(version) /\ request'[r].path = request[r].path
             /\ request'[r].version = request[r].version
             /\ request'[r].stage = "idle" <=> request[r].stage = "idle"
             /\ request'[r].stage = "read" => request'[r].version # 0
  <2>1. CASE r \in Open
    <3>1. request'[r] = [request[r] EXCEPT !.stage = "lost"] /\ request[r].stage # "idle"
      BY <1>1, <2>1 DEF Open
    <3>2. request[r] \in Requests(version)
      BY <1>2
    <3> QED BY <3>1, <3>2 DEF Requests
  <2>2. CASE r \notin Open
    <3>1. request'[r] = request[r]
      BY <1>1, <2>2
    <3> QED BY <1>2, <3>1, HttpUnfolded
  <2> QED BY <2>1, <2>2
<1>4. request' \in [Request -> Requests(version)]
  <2>1. request' = [r \in Request |-> request'[r]]
    BY <1>1, Zenon
  <2> QED BY <1>3, <2>1
<1>5. HttpInv'
  BY <1>1, <1>2, <1>3, <1>4, HttpSame
<1> QED BY <1>1, <1>3, <1>5 DEF Untouched

\* Redis forgets.
LEMMA TickKeeps ==
    ASSUME HttpInv, Tick
    PROVE  /\ HttpInv' /\ version' = version /\ request' = request /\ Untouched
           /\ \A p \in Path : \/ saved'[p] = NotSaved
                              \/ (saved[p] # NotSaved /\ saved'[p].version = saved[p].version)
<1>1. /\ saved' = [p \in Path |->
            IF saved[p] = NotSaved \/ saved[p].age + 1 = TTL THEN NotSaved
            ELSE [saved[p] EXCEPT !.age = @ + 1]]
      /\ UNCHANGED <<version, server, request, httpFaults>>
  BY DEF Tick
<1>2. saved \in [Path -> Kept(version)] /\ version \in Nat
  BY HttpUnfolded, Bounds
<1>3. ASSUME NEW p \in Path
      PROVE  /\ saved'[p] \in Kept(version)
             /\ saved'[p] = NotSaved \/ (saved[p] # NotSaved /\ saved'[p].version = saved[p].version)
  <2>1. CASE saved[p] = NotSaved \/ saved[p].age + 1 = TTL
    BY <1>1, <2>1 DEF Kept
  <2>2. CASE ~ (saved[p] = NotSaved \/ saved[p].age + 1 = TTL)
    <3>1. saved'[p] = [saved[p] EXCEPT !.age = @ + 1]
      BY <1>1, <2>2
    <3>2. /\ saved[p].version \in 1 .. version /\ saved[p].age \in 0 .. TTL - 1
          /\ saved[p] = [version |-> saved[p].version, age |-> saved[p].age]
      BY <1>2, <2>2, KeptVersion
    <3>3. saved'[p] = [version |-> saved[p].version, age |-> saved[p].age + 1]
      BY <3>1, <3>2
    <3>4. saved[p].age + 1 \in 0 .. TTL - 1
      BY <2>2, <3>2, Bounds
    <3> QED BY <2>2, <3>2, <3>3, <3>4 DEF Kept
  <2> QED BY <2>1, <2>2
<1>4. saved' \in [Path -> Kept(version)]
  <2>1. saved' = [p \in Path |-> saved'[p]]
    BY <1>1, Zenon
  <2> QED BY <1>3, <2>1
<1>5. HttpInv'
  BY <1>1, <1>4, HttpUnfolded, HttpSame
<1> QED BY <1>1, <1>3, <1>5 DEF Untouched

\* A page asks: it is refused, gets what Redis has, or waits for a handler.
LEMMA AskKeeps ==
    ASSUME HttpInv, NEW r \in Request, NEW p \in Path, Ask(r, p)
    PROVE  /\ HttpInv' /\ version' = version /\ saved' = saved
           /\ request[r].stage = "idle" /\ request'[r].stage # "idle" /\ request'[r].path = p
           /\ \/ request'[r].version = 0
              \/ (saved[p] # NotSaved /\ request'[r].version = saved[p].version)
           /\ \A s \in Request \ {r} : request'[s] = request[s]
<1>1. request[r].stage = "idle" /\ version' = version /\ server' = server
      /\ (Refused(r, p) \/ Hit(r, p) \/ Miss(r, p))
  BY DEF Ask, Come
<1>2. saved \in [Path -> Kept(version)] /\ version \in Nat /\ server \in {"asking", "pausing", "listening"}
      /\ request \in [Request -> Requests(version)]
  BY HttpUnfolded, Bounds
<1> DEFINE Answered(v, stage) ==
             /\ request' = [request EXCEPT ![r] = [stage |-> stage, path |-> p, version |-> v]]
             /\ v = 0 \/ (saved[p] # NotSaved /\ v = saved[p].version)
<1>3. /\ saved' = saved /\ (httpFaults' = httpFaults \/ HttpFault)
      /\ \E v \in 0 .. version, stage \in {"lost", "answered", "asked"} : Answered(v, stage)
  <2>0. 0 \in 0 .. version
    BY <1>2
  <2>1. CASE Refused(r, p)
    <3>1. Answered(0, "lost") /\ saved' = saved /\ httpFaults' = httpFaults
      BY <2>1 DEF Refused
    <3> HIDE DEF Answered
    <3> QED BY <2>0, <3>1
  <2>2. CASE Miss(r, p)
    <3>1. Answered(0, "asked") /\ saved' = saved /\ (httpFaults' = httpFaults \/ HttpFault)
      BY <2>2 DEF Miss
    <3> HIDE DEF Answered
    <3> QED BY <2>0, <3>1
  <2>3. CASE Hit(r, p)
    <3>1. saved[p] # NotSaved /\ saved[p] \in Kept(version)
      BY <1>2, <2>3 DEF Hit
    <3>2. saved[p].version \in 0 .. version
      BY <1>2, <3>1, KeptVersion
    <3>3. Answered(saved[p].version, "answered") /\ saved' = saved /\ httpFaults' = httpFaults
      BY <2>3, <3>1 DEF Hit
    <3> HIDE DEF Answered
    <3> QED BY <3>2, <3>3
  <2> HIDE DEF Answered
  <2> QED BY <1>1, <2>1, <2>2, <2>3
<1>4. PICK v \in 0 .. version, stage \in {"lost", "answered", "asked"} : Answered(v, stage)
  BY <1>3
<1> DEFINE a == [stage |-> stage, path |-> p, version |-> v]
<1>5. a \in Requests(version) /\ a.stage # "read" /\ a.stage # "idle" /\ a.path = p /\ a.version = v
  BY DEF Requests
<1> HIDE DEF a
<1>6. /\ request' \in [Request -> Requests(version)]
      /\ \A s \in Request : request'[s].stage = "read" => request'[s].version # 0
      /\ request'[r] = a /\ \A s \in Request \ {r} : request'[s] = request[s]
  BY <1>4, <1>5, OneRequest DEF a
<1>7. HttpInv'
  BY <1>1, <1>2, <1>3, <1>6, HttpSame
<1> QED BY <1>1, <1>3, <1>4, <1>5, <1>6, <1>7

\* A page takes an answer, and the request is over.
LEMMA TakeKeeps ==
    ASSUME HttpInv, NEW r \in Request, Take(r)
    PROVE  /\ HttpInv' /\ version' = version /\ saved' = saved /\ page' = page
           /\ request[r].stage \in {"answered", "lost"} /\ request'[r].stage = "idle"
           /\ request[r].path \in Path /\ request[r].version \in 0 .. version
           /\ Answer(r) => request[r].version \in 1 .. version
           /\ \A s \in Request \ {r} : request'[s] = request[s]
<1> DEFINE q == Idle(request[r].path)
<1>1. request[r] \in Requests(version) /\ version \in 1 .. MaxVersion
  BY HttpUnfolded
<1>2. q \in Requests(version) /\ q.stage = "idle"
  <2>1. 0 \in 0 .. version
    BY <1>1
  <2> QED BY <1>1, <2>1 DEF Requests, Idle
<1>3. /\ request' = [request EXCEPT ![r] = q] /\ UNCHANGED <<version, server, saved, httpFaults, page>>
      /\ request[r].stage \in {"answered", "lost"}
  BY DEF Take
<1> HIDE DEF q
<1>4. /\ request' \in [Request -> Requests(version)]
      /\ \A s \in Request : request'[s].stage = "read" => request'[s].version # 0
      /\ request'[r] = q /\ \A s \in Request \ {r} : request'[s] = request[s]
  BY <1>2, <1>3, OneRequest
<1>5. HttpInv'
  <2>1. saved' \in [Path -> Kept(version)] /\ server' \in {"asking", "pausing", "listening"}
    BY <1>3, HttpUnfolded
  <2> QED BY <1>3, <1>4, <2>1, HttpSame
<1>6. request[r].path \in Path /\ request[r].version \in 0 .. version
      /\ (Answer(r) => request[r].version \in 1 .. version)
  BY <1>1 DEF Requests, Answer
<1> QED BY <1>2, <1>3, <1>4, <1>5, <1>6

-----------------------------------------------------------------------------
(* The entries of a list. *)

\* The node's ranking has an account at every place.
LEMMA RankingType ==
    ASSUME NEW v \in Nat
    PROVE  Ranking(v) \in Seq(Nat) /\ Len(Ranking(v)) = Accounts
<1>1. Ranking(v) \in [1 .. Accounts -> Nat]
  <2> SUFFICES ASSUME NEW i \in 1 .. Accounts
               PROVE  (CASE i = v /\ v < Accounts -> v + 1 [] i = v + 1 -> v [] OTHER -> i) \in Nat
    BY DEF Ranking
  <2> QED BY Bounds
<1> QED BY <1>1, Bounds, LenProperties

\* How many entries a slice has.
SliceLen(offset, n) == IF offset + n < Accounts THEN n ELSE Accounts - offset

\* A slice of the ranking has the accounts from its offset on.
LEMMA SliceType ==
    ASSUME NEW v \in Nat, NEW offset \in Nat, offset < Accounts, NEW n \in Nat \ {0}
    PROVE  /\ Slice(v, offset, n) \in Seq(Nat) /\ Len(Slice(v, offset, n)) = SliceLen(offset, n)
           /\ SliceLen(offset, n) \in 1 .. n
           /\ \A i \in 1 .. SliceLen(offset, n) : Slice(v, offset, n)[i] = Ranking(v)[offset + i]
<1> DEFINE R == Ranking(v)
           e == IF offset + n < Accounts THEN offset + n ELSE Accounts
           s == SubSeq(R, offset + 1, e)
<1>1. R \in Seq(Nat) /\ Len(R) = Accounts /\ Accounts \in Nat
  BY RankingType, Bounds
<1>2. offset + 1 \in 1 .. Len(R) /\ e \in offset .. Len(R)
  BY <1>1
<1>3. SliceLen(offset, n) = e - offset /\ SliceLen(offset, n) \in 1 .. n
  BY <1>1 DEF SliceLen
<1>4. Slice(v, offset, n) = s
  BY DEF Slice
<1> HIDE DEF R, e
<1>5. s \in Seq(Nat) /\ Len(s) = e - offset /\ \A i \in 1 .. e - offset : s[i] = R[offset + i]
  <2>0. /\ offset + 1 \in 1 .. Len(R) + 1 /\ e \in offset + 1 - 1 .. Len(R)
        /\ offset + 1 \in Int /\ e \in Int /\ e >= offset /\ offset + 1 <= Len(R)
    BY <1>1, <1>2
  <2>1. \A i \in offset + 1 .. e : R[i] \in Nat
    BY <1>1, <1>2, ElementOfSeq
  <2>2. s \in Seq(Nat)
    BY <1>1, <2>0, <2>1
  <2>3. Len(s) = e - offset
    BY <1>1, <2>0
  <2>4. \A i \in 1 .. e - offset : s[i] = R[offset + i]
    <3>1. \A i \in 1 .. e - (offset + 1) + 1 : s[i] = R[offset + 1 + i - 1]
      BY <2>0, <2>1, SubSeqProperties
    <3> SUFFICES ASSUME NEW i \in 1 .. e - offset PROVE s[i] = R[offset + i]
      OBVIOUS
    <3>2. i \in 1 .. e - (offset + 1) + 1 /\ offset + 1 + i - 1 = offset + i
      BY <2>0
    <3>3. s[i] = R[offset + 1 + i - 1]
      BY <3>1, <3>2, Zenon
    <3> QED BY <3>2, <3>3
  <2> QED BY <2>2, <2>3, <2>4
<1> QED BY <1>3, <1>4, <1>5 DEF R

\* A page of the ranking.
LEMMA PageType ==
    ASSUME NEW v \in Nat, NEW offset \in Nat, offset < Accounts
    PROVE  /\ Slice(v, offset, Limit) \in Seq(Nat)
           /\ Len(Slice(v, offset, Limit)) = SliceLen(offset, Limit)
           /\ SliceLen(offset, Limit) \in 1 .. Limit
<1>1. Limit \in Nat \ {0}
  BY Bounds
<1> QED BY <1>1, SliceType

\* The first accounts of the ranking.
LEMMA FirstType ==
    ASSUME NEW v \in Nat, NEW n \in Nat \ {0}
    PROVE  /\ Slice(v, 0, n) \in Seq(Nat) /\ Len(Slice(v, 0, n)) = SliceLen(0, n)
           /\ SliceLen(0, n) \in 1 .. n
           /\ \A i \in 1 .. SliceLen(0, n) : Slice(v, 0, n)[i] = Ranking(v)[0 + i]
<1>1. 0 \in Nat /\ 0 < Accounts
  BY Bounds
<1> QED BY <1>1, SliceType

-----------------------------------------------------------------------------
(* Numbers of entries and of pages. *)

\* Pages in a row, of L entries each.
LEMMA Times ==
    ASSUME NEW L \in Nat \ {0}, NEW k \in Nat, NEW m \in Nat
    PROVE  /\ k * L \in Nat /\ (k + 1) * L = k * L + L /\ 0 * L = 0 /\ 1 * L = L
           /\ k < m => k * L + L <= m * L
           /\ k <= m => k * L <= m * L
           /\ k * L < m * L => k < m
<1>1. k * L \in Nat /\ m * L \in Nat /\ (k + 1) * L = k * L + L /\ 0 * L = 0 /\ 1 * L = L
  OBVIOUS
<1>2. ASSUME NEW a \in Nat, NEW b \in Nat, a <= b PROVE a * L <= b * L
  BY <1>2
<1>3. k < m => k * L + L <= m * L
  <2>1. k < m => k + 1 <= m /\ k + 1 \in Nat
    OBVIOUS
  <2>2. k < m => (k + 1) * L <= m * L
    BY <1>2, <2>1
  <2> QED BY <1>1, <2>2
<1>4. k <= m => k * L <= m * L
  BY <1>2
<1>5. m <= k => m * L <= k * L
  BY <1>2
<1> QED BY <1>1, <1>3, <1>4, <1>5

\* What can be asked for are the first entries of pages.
LEMMA PathsAre ==
    /\ \A k \in Nat : k < MaxPages => k * Limit \in Path
    /\ \A p \in Path : \E k \in 0 .. MaxPages - 1 : p = k * Limit
    /\ Path \subseteq Nat /\ 0 \in Path
<1>1. \A k \in Nat : k < MaxPages => k \in 0 .. MaxPages - 1
  BY Bounds
<1>2. Path = {k * Limit : k \in 0 .. MaxPages - 1}
  BY ListAssumption
<1>3. \A k \in Nat : k < MaxPages => k * Limit \in Path
  BY <1>1, <1>2
<1>4. \A p \in Path : \E k \in 0 .. MaxPages - 1 : p = k * Limit
  BY <1>2
<1>5. \A k \in 0 .. MaxPages - 1 : k * Limit \in Nat
  BY Bounds, Times
<1>6. 0 * Limit = 0 /\ 0 < MaxPages
  BY Bounds
<1> QED BY <1>3, <1>4, <1>5, <1>6

\* The page that begins before the end of a list is among them.
LEMMA PathBefore ==
    ASSUME NEW k \in Nat, NEW c \in Nat, k * Limit < c, c <= MaxPages * Limit
    PROVE  k * Limit \in Path /\ k < MaxPages
<1>1. k * Limit \in Nat /\ MaxPages * Limit \in Nat /\ (k * Limit < MaxPages * Limit => k < MaxPages)
  BY Bounds, Times
<1>2. k < MaxPages
  BY <1>1
<1> QED BY <1>2, PathsAre

\* There is more exactly if the entry behind the page is there.
LEMMA MoreThanAPage ==
    ASSUME NEW length \in 0 .. Limit + 1
    PROVE  AnyMore(length) <=> length = Limit + 1
<1>0. Limit \in Nat \ {0} /\ length \in Nat
  BY Bounds
<1>1. CASE Limit = 1
  <2>1. length \in {0, 1, 2} /\ 1 % 1 = 0 /\ 1 % 2 = 1 /\ 2 % 1 = 0
    BY <1>0, <1>1
  <2> QED BY <1>1, <2>1 DEF AnyMore
<1>2. CASE Limit > 1
  <2>1. AnyMore(length) <=> length > 1 /\ length % Limit = 1
    BY <1>0, <1>2 DEF AnyMore
  <2>2. CASE length < Limit
    <3>1. length % Limit = length
      BY <1>0, <2>2
    <3> QED BY <1>0, <2>1, <2>2, <3>1
  <2>3. CASE length = Limit
    <3>1. length % Limit = 0
      BY <1>0, <2>3
    <3> QED BY <1>0, <2>1, <2>3, <3>1
  <2>4. CASE length = Limit + 1
    <3>1. length % Limit = 1
      BY <1>0, <1>2, <2>4
    <3> QED BY <1>0, <1>2, <2>1, <2>4, <3>1
  <2> QED BY <1>0, <2>2, <2>3, <2>4
<1> QED BY <1>0, <1>1, <1>2

\* What loadLess takes away is never more than a page, and is the last page.
LEMMA SpliceLess ==
    ASSUME NEW length \in Nat
    PROVE  /\ LessSplice(length) \in 0 .. Limit
           /\ \A k \in Nat : k > 0 /\ k * Limit < length /\ length <= k * Limit + Limit
                             => LessSplice(length) = length - k * Limit
<1>1. LessSplice(length) \in 0 .. Limit
  <2>1. length % Limit \in 0 .. Limit - 1
    BY Bounds
  <2> QED BY <2>1, Bounds DEF LessSplice
<1>2. ASSUME NEW k \in Nat, k > 0, k * Limit < length, length <= k * Limit + Limit
      PROVE  LessSplice(length) = length - k * Limit
  <2>1. k * Limit \in Nat /\ k * Limit >= Limit
    BY <1>2, Bounds, Times
  <2>2. PICK d \in 1 .. Limit : length = k * Limit + d
    <3>1. length - k * Limit \in 1 .. Limit /\ length = k * Limit + (length - k * Limit)
      BY <1>2, <2>1, Bounds
    <3> QED BY <3>1
  <2>3. CASE d = Limit
    <3>1. length % Limit = 0
      <4>1. length = (k + 1) * Limit /\ k + 1 \in Nat
        BY <2>2, <2>3, Bounds
      <4>2. \A m \in Nat : (m * Limit) % Limit = 0
        BY Bounds
      <4> QED BY <4>1, <4>2
    <3>2. LessSplice(length) = IF length <= Limit THEN 0 ELSE Limit
      BY <3>1 DEF LessSplice
    <3>3. ~ (length <= Limit) /\ length - k * Limit = d
      BY <2>1, <2>2, Bounds
    <3> QED BY <2>3, <3>2, <3>3
  <2>4. CASE d < Limit
    <3>1. length % Limit = d
      BY <2>2, <2>4, Bounds
    <3>2. LessSplice(length) = IF length <= Limit THEN 0 ELSE d
      BY <2>2, <3>1 DEF LessSplice
    <3>3. ~ (length <= Limit) /\ length - k * Limit = d
      BY <2>1, <2>2, Bounds
    <3> QED BY <3>2, <3>3
  <2>5. d = Limit \/ d < Limit
    BY Bounds
  <2> QED BY <2>3, <2>4, <2>5
<1> QED BY <1>1, <1>2

\* How many pages so many entries make.
LEMMA PagesOf ==
    ASSUME NEW c \in Nat \ {0}
    PROVE  LET n == (c + Limit - 1) \div Limit
           IN  n \in Nat \ {0} /\ (n - 1) * Limit < c /\ c <= n * Limit
<1>1. c + Limit - 1 \in Nat /\ Limit \in Nat \ {0} /\ c + Limit - 1 >= Limit
  BY Bounds
<1> DEFINE d == c + Limit - 1
           n == d \div Limit
<1>2. n \in Int /\ n * Limit <= d /\ d < (n + 1) * Limit
  BY <1>1
<1>3. n \in Nat \ {0}
  BY <1>1, <1>2
<1>4. (n - 1) * Limit = n * Limit - Limit /\ (n + 1) * Limit = n * Limit + Limit /\ n * Limit \in Nat
  BY <1>1, <1>3
<1> QED BY <1>1, <1>2, <1>3, <1>4

\* The entries without the one that only tells that there is more are those of the page.
LEMMA PageOfAnswer ==
    ASSUME NEW v \in Nat, NEW offset \in Nat, offset < Accounts
    PROVE  LET data == Slice(v, offset, Limit + 1)
           IN  /\ SpliceData(data) = Slice(v, offset, Limit)
               /\ AnyMore(Len(data)) <=> offset + Limit < Accounts
<1> DEFINE data == Slice(v, offset, Limit + 1)
           part == Slice(v, offset, Limit)
<1>0. Limit \in Nat \ {0} /\ Limit + 1 \in Nat \ {0} /\ Accounts \in Nat
  BY Bounds
<1>1. /\ data \in Seq(Nat) /\ Len(data) = SliceLen(offset, Limit + 1)
      /\ SliceLen(offset, Limit + 1) \in 1 .. Limit + 1
      /\ \A i \in 1 .. SliceLen(offset, Limit + 1) : data[i] = Ranking(v)[offset + i]
  BY <1>0, SliceType
<1>2. /\ part \in Seq(Nat) /\ Len(part) = SliceLen(offset, Limit)
      /\ SliceLen(offset, Limit) \in 1 .. Limit
      /\ \A i \in 1 .. SliceLen(offset, Limit) : part[i] = Ranking(v)[offset + i]
  BY <1>0, SliceType
<1> HIDE DEF data, part
<1>3. Len(data) \in 0 .. Limit + 1 /\ (Len(data) = Limit + 1 <=> offset + Limit < Accounts)
  BY <1>0, <1>1 DEF SliceLen
<1>4. AnyMore(Len(data)) <=> offset + Limit < Accounts
  BY <1>3, MoreThanAPage
<1>5. SpliceData(data) = part
  <2>1. CASE offset + Limit < Accounts
    <3>1. Len(data) = Limit + 1 /\ Len(part) = Limit
      BY <1>0, <1>1, <1>2, <2>1 DEF SliceLen
    <3>2. SpliceData(data) = SubSeq(data, 1, Limit)
      BY <1>0, <1>4, <2>1, <3>1 DEF SpliceData, Front
    <3>3. \A i \in 1 .. Limit : data[i] \in Nat
      BY <1>0, <1>1, <3>1, ElementOfSeq
    <3>4. /\ SubSeq(data, 1, Limit) \in Seq(Nat) /\ Len(SubSeq(data, 1, Limit)) = Limit
          /\ \A i \in 1 .. Limit : SubSeq(data, 1, Limit)[i] = data[i]
      BY <1>0, <3>3, SubSeqProperties
    <3>5. \A i \in 1 .. Limit : data[i] = part[i]
      <4>1. \A i \in 1 .. Limit : i \in 1 .. Len(data) /\ i \in 1 .. Len(part)
        BY <1>0, <3>1
      <4> QED BY <1>1, <1>2, <4>1
    <3> QED BY <1>2, <3>1, <3>2, <3>4, <3>5, SeqEqual
  <2>2. CASE ~ (offset + Limit < Accounts)
    <3>1. Len(data) = Accounts - offset /\ Len(part) = Accounts - offset
      BY <1>0, <1>1, <1>2, <2>2 DEF SliceLen
    <3>2. SpliceData(data) = data
      BY <1>4, <2>2 DEF SpliceData
    <3>3. \A i \in 1 .. Len(data) : data[i] = part[i]
      BY <1>0, <1>1, <1>2, <3>1
    <3> QED BY <1>1, <1>2, <3>1, <3>2, <3>3, SeqEqual
  <2> QED BY <2>1, <2>2
<1> QED BY <1>4, <1>5 DEF data, part

-----------------------------------------------------------------------------
(* Pages one behind the other. *)

\* What FlattenSeq puts together step by step.
FlatStep(h, s, i) == IF i = 1 THEN s[i] ELSE h[i - 1] \o s[i]

Flattens(h, s, n) == h = [i \in 1 .. n |-> FlatStep(h, s, i)]

\* FlattenSeq is what the last value of the step function is.
LEMMA FlatDef ==
    ASSUME NEW s, Len(s) # 0
    PROVE  FlattenSeq(s) = (CHOOSE h : Flattens(h, s, Len(s)))[Len(s)]
BY DEF FlattenSeq, FlatStep, Flattens

\* There is such a function.
LEMMA FlatExists ==
    ASSUME NEW s, NEW n \in Nat
    PROVE  \E h : Flattens(h, s, n)
<1> DEFINE Upto(h, m) == h = [i \in 1 .. m |-> FlatStep(h, s, i)]
           G == {m \in Nat : \E h : Upto(h, m)}
<1>1. 0 \in G
  <2> DEFINE h == [i \in 1 .. 0 |-> 0]
  <2>1. Upto(h, 0)
    OBVIOUS
  <2> HIDE DEF h, Upto
  <2> QED BY <2>1
<1>2. ASSUME NEW m \in Nat, m \in G PROVE m + 1 \in G
  <2>1. PICK h : Upto(h, m)
    BY <1>2
  <2> DEFINE k == [i \in 1 .. m + 1 |-> FlatStep(h, s, i)]
  <2>2. \A i \in 1 .. m : k[i] = h[i]
    BY <2>1
  <2>3. \A i \in 1 .. m + 1 : FlatStep(h, s, i) = FlatStep(k, s, i)
    <3> SUFFICES ASSUME NEW i \in 1 .. m + 1, i # 1 PROVE h[i - 1] = k[i - 1]
      BY DEF FlatStep
    <3>1. i - 1 \in 1 .. m
      OBVIOUS
    <3> HIDE DEF k
    <3> QED BY <2>2, <3>1
  <2>4. Upto(k, m + 1)
    BY <2>3
  <2> HIDE DEF k, Upto
  <2>5. m + 1 \in Nat
    OBVIOUS
  <2> QED BY <2>4, <2>5
<1> HIDE DEF G
<1>3. n \in G
  BY <1>1, <1>2, Induction
<1> QED BY <1>3 DEF G, Flattens

Agree(s, t, m) == \A i \in 1 .. m : s[i] = t[i]

\* Two such functions agree as far as their pages do.
LEMMA FlatUnique ==
    ASSUME NEW s, NEW t, NEW m \in Nat, NEW n \in Nat, Agree(s, t, m), m <= n,
           NEW h, Flattens(h, s, m), NEW k, Flattens(k, t, n)
    PROVE  Agree(h, k, m)
<1> DEFINE G == {i \in Nat : i \in 1 .. m => h[i] = k[i]}
<1>1. 0 \in G
  OBVIOUS
<1>2. ASSUME NEW i \in Nat, i \in G PROVE i + 1 \in G
  <2> SUFFICES ASSUME i + 1 \in 1 .. m PROVE h[i + 1] = k[i + 1]
    OBVIOUS
  <2>1. i + 1 \in 1 .. n
    OBVIOUS
  <2>2. h[i + 1] = FlatStep(h, s, i + 1) /\ k[i + 1] = FlatStep(k, t, i + 1) /\ s[i + 1] = t[i + 1]
    BY <2>1 DEF Flattens, Agree
  <2>3. CASE i = 0
    <3>1. i + 1 = 1
      BY <2>3
    <3>2. FlatStep(h, s, i + 1) = s[i + 1] /\ FlatStep(k, t, i + 1) = t[i + 1]
      BY <3>1 DEF FlatStep
    <3> QED BY <2>2, <3>2, Zenon
  <2>4. CASE i # 0
    <3>1. i \in 1 .. m /\ i + 1 # 1 /\ (i + 1) - 1 = i
      BY <2>4
    <3>2. h[i] = k[i]
      BY <1>2, <3>1
    <3>3. FlatStep(h, s, i + 1) = h[i] \o s[i + 1] /\ FlatStep(k, t, i + 1) = k[i] \o t[i + 1]
      BY <3>1, Zenon DEF FlatStep
    <3> QED BY <2>2, <3>2, <3>3, Zenon
  <2> QED BY <2>3, <2>4
<1> HIDE DEF G
<1>3. Nat \subseteq G
  BY <1>1, <1>2, Induction
<1>4. \A i \in 1 .. m : i \in G
  BY <1>3
<1> QED BY <1>4 DEF G, Agree

\* The pages of a sequence, and they one behind the other.
Pages(vs) == [i \in 1 .. Len(vs) |-> Slice(vs[i], (i - 1) * Limit, Limit)]
Flat(vs) == FlattenSeq(Pages(vs))

\* There is a page for each version.
LEMMA PagesLength ==
    ASSUME NEW vs \in Seq(Nat)
    PROVE  /\ Len(vs) \in Nat /\ Len(Pages(vs)) = Len(vs)
           /\ \A i \in 1 .. Len(vs) : Pages(vs)[i] = Slice(vs[i], (i - 1) * Limit, Limit)
<1>1. Len(vs) \in Nat
  BY LenProperties
<1> DEFINE S == {Slice(vs[i], (i - 1) * Limit, Limit) : i \in 1 .. Len(vs)}
<1>2. Pages(vs) \in [1 .. Len(vs) -> S]
  BY DEF Pages
<1> HIDE DEF S
<1>3. Pages(vs) \in Seq(S)
  BY <1>1, <1>2
<1>4. Len(Pages(vs)) = Len(vs)
  <2>1. DOMAIN Pages(vs) = 1 .. Len(vs) /\ DOMAIN Pages(vs) = 1 .. Len(Pages(vs)) /\ Len(Pages(vs)) \in Nat
    BY <1>2, <1>3, LenProperties
  <2> QED BY <1>1, <2>1
<1> QED BY <1>1, <1>4 DEF Pages

\* No pages put behind each other are empty.
LEMMA FlatEmpty == Flat(<<>>) = <<>>
<1>1. <<>> \in Seq(Nat) /\ Len(<<>>) = 0
  BY EmptySeq
<1>2. Len(Pages(<<>>)) = 0
  BY <1>1, PagesLength
<1>3. Pages(<<>>) = <<>>
  BY <1>1 DEF Pages
<1> QED BY <1>2, <1>3 DEF Flat, FlattenSeq

\* One more page is put behind the others.
LEMMA FlatAppend ==
    ASSUME NEW vs \in Seq(Nat), NEW v \in Nat
    PROVE  LET last == Slice(v, Len(vs) * Limit, Limit)
           IN  Flat(Append(vs, v)) = IF vs = <<>> THEN last ELSE Flat(vs) \o last
<1> DEFINE ws == Append(vs, v)
           n == Len(vs)
           last == Slice(v, n * Limit, Limit)
<1>1. /\ ws \in Seq(Nat) /\ Len(ws) = n + 1 /\ n \in Nat
      /\ (\A i \in 1 .. n : ws[i] = vs[i]) /\ ws[n + 1] = v
  BY AppendProperties, LenProperties
<1>2. /\ Len(Pages(ws)) = n + 1 /\ Len(Pages(vs)) = n
      /\ \A i \in 1 .. n : Pages(ws)[i] = Slice(ws[i], (i - 1) * Limit, Limit)
      /\ Pages(ws)[n + 1] = Slice(ws[n + 1], ((n + 1) - 1) * Limit, Limit)
      /\ \A i \in 1 .. n : Pages(vs)[i] = Slice(vs[i], (i - 1) * Limit, Limit)
  <2>1. n + 1 \in 1 .. n + 1 /\ \A i \in 1 .. n : i \in 1 .. n + 1
    BY <1>1
  <2> HIDE DEF ws
  <2> QED BY <1>1, <2>1, PagesLength
<1>3. Pages(ws)[n + 1] = last
  <2>1. (n + 1) - 1 = n
    BY <1>1
  <2> QED BY <1>1, <1>2, <2>1, Zenon
<1>4. Agree(Pages(vs), Pages(ws), n)
  BY <1>1, <1>2 DEF Agree
<1> DEFINE h == CHOOSE h : Flattens(h, Pages(ws), n + 1)
<1>5. Flattens(h, Pages(ws), n + 1)
  <2>0. n + 1 \in Nat
    BY <1>1
  <2>1. \E g : Flattens(g, Pages(ws), n + 1)
    BY <2>0, FlatExists
  <2> QED BY <2>1
<1>6. Flat(ws) = h[n + 1]
  <2>1. Len(Pages(ws)) # 0
    BY <1>1, <1>2
  <2> QED BY <1>2, <2>1, FlatDef DEF Flat
<1> HIDE DEF h, ws
<1>7. h[n + 1] = FlatStep(h, Pages(ws), n + 1)
  <2>1. n + 1 \in 1 .. n + 1
    BY <1>1
  <2> QED BY <1>5, <2>1 DEF Flattens
<1>8. CASE vs = <<>>
  <2>1. n = 0
    BY <1>8, EmptySeq
  <2>2. h[n + 1] = Pages(ws)[n + 1]
    BY <1>7, <2>1 DEF FlatStep
  <2> QED BY <1>3, <1>6, <1>8, <2>2 DEF ws
<1>9. CASE vs # <<>>
  <2>1. n \in Nat \ {0} /\ n + 1 # 1 /\ (n + 1) - 1 = n
    BY <1>9, EmptySeq
  <2>2. h[n + 1] = h[n] \o Pages(ws)[n + 1]
    BY <1>7, <2>1, Zenon DEF FlatStep
  <2> DEFINE k == CHOOSE k : Flattens(k, Pages(vs), n)
  <2>3. Flattens(k, Pages(vs), n)
    <3>1. \E g : Flattens(g, Pages(vs), n)
      BY <1>1, FlatExists
    <3> QED BY <3>1
  <2>4. Flat(vs) = k[n]
    <3>1. Len(Pages(vs)) # 0
      BY <1>2, <2>1
    <3> QED BY <1>2, <3>1, FlatDef DEF Flat
  <2> HIDE DEF k
  <2>5. n <= n + 1 /\ n + 1 \in Nat /\ n \in 1 .. n
    BY <1>1, <2>1
  <2>6. k[n] = h[n]
    <3>1. Agree(k, h, n)
      <4>1. n \in Nat
        BY <1>1
      <4> QED BY <1>4, <1>5, <2>3, <2>5, <4>1, FlatUnique
    <3> QED BY <2>5, <3>1 DEF Agree
  <2> QED BY <1>3, <1>6, <1>9, <2>2, <2>4, <2>6 DEF ws
<1> QED BY <1>8, <1>9

\* How many entries so many pages have.
ShownBy(n) == IF n * Limit < Accounts THEN n * Limit ELSE Accounts

\* A page that begins before the end adds what there is behind its beginning.
LEMMA ShownNext ==
    ASSUME NEW n \in Nat, n * Limit < Accounts
    PROVE  /\ n * Limit \in Nat /\ (n + 1) * Limit = n * Limit + Limit /\ ShownBy(n) = n * Limit
           /\ ShownBy(n) + SliceLen(n * Limit, Limit) = ShownBy(n + 1)
           /\ ShownBy(n + 1) > n * Limit /\ ShownBy(n + 1) <= n * Limit + Limit
<1>1. n * Limit \in Nat /\ (n + 1) * Limit = n * Limit + Limit /\ Limit \in Nat \ {0} /\ Accounts \in Nat
  BY Bounds, Times
<1>2. ShownBy(n) = n * Limit
  BY DEF ShownBy
<1>3. ShownBy(n + 1) = IF n * Limit + Limit < Accounts THEN n * Limit + Limit ELSE Accounts
  BY <1>1, Zenon DEF ShownBy
<1>4. SliceLen(n * Limit, Limit) = IF n * Limit + Limit < Accounts THEN Limit ELSE Accounts - n * Limit
  BY DEF SliceLen
<1> QED BY <1>1, <1>2, <1>3, <1>4

\* No pages have no entries.
LEMMA ShownNone ==
    ShownBy(0) = 0
<1>1. 0 * Limit = 0 /\ 0 < Accounts
  BY Bounds
<1> QED BY <1>1, Zenon DEF ShownBy

\* A load of pages each of which begins before the end.
LEMMA FlatLength ==
    ASSUME NEW vs \in Seq(Nat), Len(vs) = 0 \/ (Len(vs) - 1) * Limit < Accounts
    PROVE  Flat(vs) \in Seq(Nat) /\ Len(Flat(vs)) = ShownBy(Len(vs))
<1> DEFINE Good(n) == n = 0 \/ (n - 1) * Limit < Accounts
           G == {n \in Nat : \A us \in Seq(Nat) : Len(us) = n /\ Good(n) =>
                                 Flat(us) \in Seq(Nat) /\ Len(Flat(us)) = ShownBy(n)}
<1>1. 0 \in G
  <2> SUFFICES ASSUME NEW us \in Seq(Nat), Len(us) = 0
               PROVE  Flat(us) \in Seq(Nat) /\ Len(Flat(us)) = ShownBy(0)
    OBVIOUS
  <2>1. us = <<>>
    BY EmptySeq
  <2> QED BY <2>1, ShownNone, FlatEmpty, EmptySeq
<1>2. ASSUME NEW n \in Nat, n \in G PROVE n + 1 \in G
  <2> SUFFICES ASSUME NEW us \in Seq(Nat), Len(us) = n + 1, Good(n + 1)
               PROVE  Flat(us) \in Seq(Nat) /\ Len(Flat(us)) = ShownBy(n + 1)
    OBVIOUS
  <2>1. n * Limit < Accounts
    <3>1. (n + 1) - 1 = n /\ n + 1 # 0
      OBVIOUS
    <3> QED BY <3>1, Zenon
  <2>2. us # <<>>
    BY EmptySeq
  <2>3. PICK vt \in Seq(Nat), v \in Nat : us = Append(vt, v)
    BY <2>2, SequenceEmptyOrAppend
  <2>4. Len(vt) = n
    BY <2>3, AppendProperties, LenProperties
  <2>5. Good(n)
    <3>1. CASE n = 0
      BY <3>1
    <3>2. CASE n # 0
      <4>1. n - 1 \in Nat /\ n - 1 <= n
        BY <3>2
      <4>2. (n - 1) * Limit <= n * Limit /\ (n - 1) * Limit \in Nat /\ n * Limit \in Nat
        BY <4>1, Bounds, Times
      <4> QED BY <2>1, <4>2, Bounds
    <3> QED BY <3>1, <3>2
  <2>6. Flat(vt) \in Seq(Nat) /\ Len(Flat(vt)) = ShownBy(n)
    BY <1>2, <2>4, <2>5
  <2> DEFINE last == Slice(v, n * Limit, Limit)
  <2>7. last \in Seq(Nat) /\ Len(last) = SliceLen(n * Limit, Limit) /\ SliceLen(n * Limit, Limit) \in Nat
    <3>1. n * Limit \in Nat /\ Limit \in Nat \ {0}
      BY Bounds, Times
    <3> HIDE DEF last
    <3>2. last = Slice(v, n * Limit, Limit)
      BY DEF last
    <3>3. /\ Slice(v, n * Limit, Limit) \in Seq(Nat)
          /\ Len(Slice(v, n * Limit, Limit)) = SliceLen(n * Limit, Limit)
          /\ SliceLen(n * Limit, Limit) \in 1 .. Limit
      BY <2>1, <3>1, SliceType
    <3> QED BY <3>1, <3>2, <3>3
  <2>8. Flat(us) = IF vt = <<>> THEN last ELSE Flat(vt) \o last
    BY <2>3, <2>4, FlatAppend
  <2>9. ShownBy(n) + SliceLen(n * Limit, Limit) = ShownBy(n + 1)
    BY <2>1, ShownNext
  <2> HIDE DEF last
  <2>10. CASE vt = <<>>
    <3>1. n = 0
      BY <2>4, <2>10, EmptySeq
    <3>2. ShownBy(n) = 0 /\ Flat(us) = last
      BY <2>8, <2>10, <3>1, ShownNone
    <3>3. ShownBy(n + 1) = SliceLen(n * Limit, Limit)
      BY <2>7, <2>9, <3>2
    <3> QED BY <2>7, <3>2, <3>3, Zenon
  <2>11. CASE vt # <<>>
    <3>1. Flat(us) = Flat(vt) \o last /\ last \in Seq(Nat)
      BY <2>7, <2>8, <2>11
    <3>2. Flat(vt) \o last \in Seq(Nat) /\ Len(Flat(vt) \o last) = Len(Flat(vt)) + Len(last)
      BY <2>6, <3>1, ConcatProperties, Zenon
    <3>3. Len(Flat(vt)) + Len(last) = ShownBy(n + 1)
      BY <2>6, <2>7, <2>9, Zenon
    <3> QED BY <3>1, <3>2, <3>3, Zenon
  <2> QED BY <2>10, <2>11
<1> HIDE DEF G
<1>3. Len(vs) \in Nat /\ Nat \subseteq G
  BY <1>1, <1>2, Induction, LenProperties
<1> QED BY <1>3 DEF G

-----------------------------------------------------------------------------
(* The page of the richest accounts. *)

ListType(n) ==
    [results : Seq(Nat), loading : BOOLEAN, offset : Nat, splice : 0 .. Limit,
     more : BOOLEAN, less : BOOLEAN, pages : SUBSET (1 .. MaxPages),
     asked : Request \cup {NoRequest}, versions : Seq(1 .. n), broken : BOOLEAN]

\* What is known of the fields of a list.
LEMMA ListFields ==
    ASSUME NEW n \in Nat, NEW l \in ListType(n)
    PROVE  /\ l.results \in Seq(Nat) /\ l.loading \in BOOLEAN /\ l.offset \in Nat /\ l.splice \in 0 .. Limit
           /\ l.more \in BOOLEAN /\ l.less \in BOOLEAN /\ l.pages \in SUBSET (1 .. MaxPages)
           /\ l.asked \in Request \cup {NoRequest} /\ l.versions \in Seq(1 .. n) /\ l.broken \in BOOLEAN
           /\ l.versions \in Seq(Nat) /\ Len(l.results) \in Nat /\ Len(l.versions) \in Nat
<1>1. /\ l.results \in Seq(Nat) /\ l.loading \in BOOLEAN /\ l.offset \in Nat /\ l.splice \in 0 .. Limit
      /\ l.more \in BOOLEAN /\ l.less \in BOOLEAN /\ l.pages \in SUBSET (1 .. MaxPages)
      /\ l.asked \in Request \cup {NoRequest} /\ l.versions \in Seq(1 .. n) /\ l.broken \in BOOLEAN
  BY DEF ListType
<1>2. 1 .. n \subseteq Nat
  OBVIOUS
<1>3. l.versions \in Seq(Nat)
  BY <1>1, <1>2, SeqMonotonic
<1> QED BY <1>1, <1>3, LenProperties

\* More versions, more lists there can be.
LEMMA ListGrows ==
    ASSUME NEW m \in Nat, NEW n \in Nat, m <= n
    PROVE  ListType(m) \subseteq ListType(n)
<1>1. 1 .. m \subseteq 1 .. n
  OBVIOUS
<1>2. Seq(1 .. m) \subseteq Seq(1 .. n)
  BY <1>1, SeqMonotonic
<1> QED BY <1>2 DEF ListType

\* The empty list is of the type of lists.
LEMMA EmptyTyped ==
    ASSUME NEW n \in Nat
    PROVE  EmptyList \in ListType(n)
<1>1. <<>> \in Seq(Nat) /\ <<>> \in Seq(1 .. n) /\ 0 \in 0 .. Limit
  BY EmptySeq, Bounds
<1> QED BY <1>1 DEF EmptyList, ListType, NoRequest

\* While no load has failed: what is shown, and which buttons there are.
Whole(l) ==
    LET n == Len(l.versions)
    IN  /\ l.results = Flat(l.versions) /\ l.offset = n * Limit
        /\ n >= 2 => n * Limit <= Maximum
        /\ ~l.loading => /\ n >= 1 /\ l.less = (n > 1)
                         /\ l.more = (n * Limit < Accounts /\ (n + 1) * Limit <= Maximum)
        /\ l.loading /\ n >= 1 => (n + 1) * Limit <= Maximum

\* While it waits it has no buttons; the next offset is where a page begins, never more
\* than one page behind the end; what loadLess takes away is up to date.
AccountsOK(l) ==
    /\ l.loading => ~l.more /\ ~l.less /\ l.offset < Accounts
    /\ l.more => l.offset < Accounts
    /\ l.asked = NoRequest => l.loading
    /\ \E k \in Nat : l.offset = k * Limit /\ (k > 0 => (k - 1) * Limit < Accounts)
    /\ Len(l.results) <= l.offset
    /\ l.less => Len(l.results) > Limit /\ l.splice = LessSplice(Len(l.results))
    /\ ~l.broken => Whole(l)

\* A page of accounts that has just been opened is as it should be.
LEMMA AccountsFirst == AccountsOK(EmptyList)
<1>1. /\ EmptyList.results = <<>> /\ EmptyList.versions = <<>> /\ EmptyList.loading = TRUE
      /\ EmptyList.offset = 0 /\ EmptyList.more = FALSE /\ EmptyList.less = FALSE
  BY DEF EmptyList
<1>2. Len(<<>>) = 0 /\ 0 * Limit = 0 /\ 0 < Accounts /\ 0 \in Nat
  BY Bounds, EmptySeq
<1>3. Whole(EmptyList)
  BY <1>1, <1>2, FlatEmpty DEF Whole
<1> QED BY <1>1, <1>2, <1>3 DEF AccountsOK

\* A request for the list is noted.
LEMMA AccountsAsked ==
    ASSUME NEW n \in Nat, NEW l \in ListType(n), AccountsOK(l), NEW r \in Request
    PROVE  LET m == [l EXCEPT !.asked = r] IN AccountsOK(m) /\ m \in ListType(n)
<1> DEFINE m == [l EXCEPT !.asked = r]
<1>1. /\ m.results = l.results /\ m.loading = l.loading /\ m.offset = l.offset /\ m.splice = l.splice
      /\ m.more = l.more /\ m.less = l.less /\ m.versions = l.versions /\ m.broken = l.broken
      /\ m.asked = r
  BY DEF ListType
<1>2. m \in ListType(n)
  BY DEF ListType
<1>3. m.asked # NoRequest
  BY <1>1, Bounds DEF NoRequest
<1> HIDE DEF m
<1>4. Whole(l) => Whole(m)
  BY <1>1, Zenon DEF Whole
<1>5. AccountsOK(m)
  BY <1>1, <1>3, <1>4 DEF AccountsOK
<1> QED BY <1>2, <1>5 DEF m

\* The button for more.
LEMMA AccountsMore ==
    ASSUME NEW n \in Nat, NEW l \in ListType(n), AccountsOK(l), l.more, NEW r \in Request
    PROVE  LET m == [l EXCEPT !.more = FALSE, !.less = FALSE, !.loading = TRUE, !.asked = r]
           IN  /\ AccountsOK(m) /\ m \in ListType(n) /\ m.loading /\ m.asked = r
               /\ m.offset = l.offset
<1> DEFINE m == [l EXCEPT !.more = FALSE, !.less = FALSE, !.loading = TRUE, !.asked = r]
<1>1. /\ m.results = l.results /\ m.loading = TRUE /\ m.offset = l.offset
      /\ m.more = FALSE /\ m.less = FALSE /\ m.versions = l.versions /\ m.broken = l.broken
      /\ m.asked = r
  BY DEF ListType
<1>2. m \in ListType(n)
  BY DEF ListType
<1>3. ~l.loading /\ l.offset < Accounts
  BY DEF AccountsOK
<1> HIDE DEF m
<1>4. Whole(l) => Whole(m)
  BY <1>1, <1>3 DEF Whole
<1>5. AccountsOK(m)
  BY <1>1, <1>3, <1>4 DEF AccountsOK
<1> QED BY <1>1, <1>2, <1>5 DEF m

\* A sequence without its last element.
LEMMA FrontOf ==
    ASSUME NEW S, NEW us \in Seq(S), NEW v \in S
    PROVE  Front(Append(us, v)) = us
<1> DEFINE vs == Append(us, v)
<1>1. vs \in Seq(S) /\ Len(vs) = Len(us) + 1 /\ Len(us) \in Nat /\ \A i \in 1 .. Len(us) : vs[i] = us[i]
  BY AppendProperties, LenProperties
<1>2. Front(vs) = SubSeq(vs, 1, Len(us))
  BY <1>1 DEF Front
<1> HIDE DEF vs
<1>3. \A i \in 1 .. Len(us) : vs[i] \in S
  BY <1>1, ElementOfSeq
<1>4. /\ SubSeq(vs, 1, Len(us)) \in Seq(S) /\ Len(SubSeq(vs, 1, Len(us))) = Len(us)
      /\ \A i \in 1 .. Len(us) : SubSeq(vs, 1, Len(us))[i] = vs[i]
  BY <1>1, <1>3, SubSeqProperties
<1>5. \A i \in 1 .. Len(us) : SubSeq(vs, 1, Len(us))[i] = us[i]
  BY <1>1, <1>4
<1> QED BY <1>2, <1>4, <1>5, SeqEqual DEF vs

\* A sequence without its last element is one shorter.
LEMMA FrontTyped ==
    ASSUME NEW S, NEW vs \in Seq(S), vs # <<>>
    PROVE  Front(vs) \in Seq(S) /\ Len(Front(vs)) = Len(vs) - 1
<1>1. PICK us \in Seq(S), v \in S : vs = Append(us, v)
  BY SequenceEmptyOrAppend
<1>2. Len(vs) = Len(us) + 1 /\ Len(us) \in Nat
  BY <1>1, AppendProperties, LenProperties
<1> QED BY <1>1, <1>2, FrontOf

\* The pages without the last one.
LEMMA FlatFront ==
    ASSUME NEW vs \in Seq(Nat), NEW j \in Nat \ {0}, Len(vs) = j + 1, j * Limit < Accounts
    PROVE  /\ SubSeq(Flat(vs), 1, j * Limit) = Flat(Front(vs))
           /\ Len(Flat(Front(vs))) = j * Limit
           /\ Len(Flat(vs)) > j * Limit /\ Len(Flat(vs)) <= j * Limit + Limit
<1>1. PICK us \in Seq(Nat), v \in Nat : vs = Append(us, v)
  <2>1. vs # <<>>
    BY EmptySeq
  <2> QED BY <2>1, SequenceEmptyOrAppend
<1>2. Len(us) = j /\ Front(vs) = us /\ us # <<>>
  BY <1>1, AppendProperties, LenProperties, FrontOf, EmptySeq
<1> DEFINE last == Slice(v, j * Limit, Limit)
<1>3. Flat(vs) = Flat(us) \o last
  BY <1>1, <1>2, FlatAppend
<1>4. /\ j * Limit \in Nat /\ ShownBy(j) = j * Limit
      /\ ShownBy(j) + SliceLen(j * Limit, Limit) = ShownBy(j + 1)
      /\ ShownBy(j + 1) > j * Limit /\ ShownBy(j + 1) <= j * Limit + Limit
  BY ShownNext
<1>5. (j - 1) * Limit < Accounts
  <2>1. j - 1 \in Nat /\ j - 1 <= j
    OBVIOUS
  <2>2. (j - 1) * Limit <= j * Limit /\ (j - 1) * Limit \in Nat
    BY <2>1, Bounds, Times
  <2> QED BY <1>4, <2>2, Bounds
<1>6. Flat(us) \in Seq(Nat) /\ Len(Flat(us)) = j * Limit
  BY <1>2, <1>4, <1>5, FlatLength
<1>7. last \in Seq(Nat) /\ Len(last) = SliceLen(j * Limit, Limit) /\ SliceLen(j * Limit, Limit) \in 1 .. Limit
  BY <1>4, Bounds, SliceType
<1> HIDE DEF last
<1>8. Len(Flat(vs)) = Len(Flat(us)) + Len(last)
  BY <1>3, <1>6, <1>7, ConcatProperties
<1>9. Len(Flat(vs)) > j * Limit /\ Len(Flat(vs)) <= j * Limit + Limit
  BY <1>4, <1>6, <1>7, <1>8
<1>10. SubSeq(Flat(us) \o last, 1, j * Limit) = SubSeq(Flat(us), 1, j * Limit)
  <2>1. 1 \in 1 .. Len(Flat(us)) /\ j * Limit \in 1 .. Len(Flat(us))
    <3>1. \A x \in Nat : x >= Limit => x >= 1
      BY Bounds
    <3>2. j > 0 /\ j \in Nat
      OBVIOUS
    <3>3. j * Limit >= Limit
      BY <3>2, Bounds, Times
    <3>4. j * Limit >= 1
      BY <1>4, <3>1, <3>3, Zenon
    <3> QED BY <1>4, <1>6, <3>4
  <2> QED BY <1>6, <1>7, <2>1, SubSeqOfConcat1
<1>11. SubSeq(Flat(us), 1, j * Limit) = Flat(us)
  BY <1>6, SubSeqFull
<1> QED BY <1>2, <1>3, <1>6, <1>9, <1>10, <1>11

\* The button for less.
LEMMA AccountsLess ==
    ASSUME NEW n \in Nat, NEW l \in ListType(n), AccountsOK(l), l.less
    PROVE  LET results == SubSeq(l.results, 1, Len(l.results) - l.splice)
               m == [l EXCEPT
                      !.results = results, !.more = TRUE, !.offset = @ - Limit,
                      !.less = Len(results) > Limit, !.splice = LessSplice(Len(results)),
                      !.versions = IF l.broken THEN @ ELSE Front(@)]
           IN  ~l.loading /\ AccountsOK(m) /\ m \in ListType(n) /\ ~m.loading /\ m.asked = l.asked
<1> DEFINE R == SubSeq(l.results, 1, Len(l.results) - l.splice)
           V == IF l.broken THEN l.versions ELSE Front(l.versions)
           m == [l EXCEPT !.results = R, !.more = TRUE, !.offset = @ - Limit,
                          !.less = Len(R) > Limit, !.splice = LessSplice(Len(R)), !.versions = V]
<1>0. /\ l.results \in Seq(Nat) /\ l.loading \in BOOLEAN /\ l.offset \in Nat /\ l.splice \in 0 .. Limit
      /\ l.more \in BOOLEAN /\ l.less \in BOOLEAN /\ l.broken \in BOOLEAN
      /\ l.versions \in Seq(1 .. n) /\ l.versions \in Seq(Nat)
      /\ Len(l.results) \in Nat /\ Len(l.versions) \in Nat
  BY ListFields
<1>1. ~l.loading /\ Len(l.results) > Limit /\ l.splice = LessSplice(Len(l.results))
      /\ Len(l.results) <= l.offset /\ l.asked # NoRequest
  BY DEF AccountsOK
<1>2. PICK j \in Nat \ {0} : /\ l.offset = (j + 1) * Limit /\ l.offset = j * Limit + Limit
                             /\ j * Limit < Accounts /\ j * Limit \in Nat
  <2>1. PICK k \in Nat : l.offset = k * Limit /\ (k > 0 => (k - 1) * Limit < Accounts)
    BY DEF AccountsOK
  <2>2. k > 1
    <3>1. 0 * Limit = 0 /\ 1 * Limit = Limit
      BY Bounds, Times
    <3>2. k # 0 /\ k # 1
      BY <1>0, <1>1, <2>1, <3>1, Bounds
    <3> QED BY <3>2
  <2>3. PICK j \in Nat \ {0} : k = j + 1
    <3>1. k - 1 \in Nat \ {0} /\ k = (k - 1) + 1
      BY <2>2
    <3> QED BY <3>1
  <2>4. k - 1 = j /\ k > 0
    BY <2>3
  <2>5. (j + 1) * Limit = j * Limit + Limit /\ j * Limit \in Nat
    BY Bounds, Times
  <2> QED BY <2>1, <2>3, <2>4, <2>5
<1>3. /\ R \in Seq(Nat) /\ Len(R) = Len(l.results) - l.splice /\ Len(R) \in Nat /\ Len(R) <= j * Limit
  <2>1. \A i \in 1 .. Len(l.results) - l.splice : l.results[i] \in Nat
    <3>1. \A i \in 1 .. Len(l.results) - l.splice : i \in 1 .. Len(l.results)
      BY <1>0, Bounds
    <3> QED BY <1>0, <3>1, ElementOfSeq
  <2>2. 1 \in Int /\ Len(l.results) - l.splice \in Nat
    BY <1>0, <1>1, Bounds
  <2>3. R \in Seq(Nat) /\ Len(R) = Len(l.results) - l.splice
    BY <2>1, <2>2, SubSeqProperties
  <2>4. CASE Len(l.results) <= j * Limit
    <3>1. PICK x \in Nat : x = j * Limit
      BY <1>2
    <3>2. Len(l.results) - l.splice <= x
      BY <1>0, <2>4, <3>1, Bounds
    <3>3. Len(R) \in Nat /\ Len(R) <= x
      BY <2>2, <2>3, <3>2, Zenon
    <3> QED BY <2>3, <3>1, <3>3
  <2>5. CASE Len(l.results) > j * Limit
    <3>1. j > 0 /\ j * Limit < Len(l.results) /\ Len(l.results) <= j * Limit + Limit
      BY <1>0, <1>1, <1>2, <2>5
    <3>2. l.splice = Len(l.results) - j * Limit
      BY <1>0, <1>1, <3>1, SpliceLess
    <3> QED BY <1>0, <1>2, <2>2, <2>3, <3>2
  <2> QED BY <1>0, <1>2, <2>2, <2>3, <2>4, <2>5
<1>4. ~l.broken => Whole(l)
  BY DEF AccountsOK
<1>5. ASSUME ~l.broken PROVE Len(l.versions) = j + 1
  <2>1. l.offset = Len(l.versions) * Limit
    BY <1>4, <1>5 DEF Whole
  <2> DEFINE c == Len(l.versions)
  <2>2. c \in Nat /\ j + 1 \in Nat
    BY <1>0
  <2>3. (c < j + 1 => c * Limit + Limit <= (j + 1) * Limit) /\ (j + 1 < c => (j + 1) * Limit + Limit <= c * Limit)
    BY <2>2, Bounds, Times
  <2> HIDE DEF c
  <2>4. c * Limit = (j + 1) * Limit /\ c * Limit \in Nat
    BY <1>0, <1>2, <2>1 DEF c
  <2>5. ~ (c < j + 1) /\ ~ (j + 1 < c)
    BY <2>3, <2>4, Bounds
  <2> QED BY <2>2, <2>5 DEF c
<1>6. V \in Seq(1 .. n)
  <2>1. CASE l.broken
    BY <1>0, <2>1
  <2>2. CASE ~l.broken
    <3>1. l.versions # <<>>
      BY <1>5, <2>2, EmptySeq
    <3>2. Front(l.versions) \in Seq(1 .. n)
      BY <1>0, <3>1, FrontTyped
    <3> QED BY <2>2, <3>2
  <2> QED BY <2>1, <2>2
<1>7. LessSplice(Len(R)) \in 0 .. Limit /\ l.offset - Limit = j * Limit /\ l.offset - Limit \in Nat
  <2>1. LessSplice(Len(R)) \in 0 .. Limit
    BY <1>3, SpliceLess, Zenon
  <2>2. l.offset - Limit = j * Limit
    BY <1>0, <1>2, Bounds
  <2> QED BY <1>2, <2>1, <2>2
<1> HIDE DEF R, V
<1>8. /\ m.results = R /\ m.loading = l.loading /\ m.offset = l.offset - Limit
      /\ m.splice = LessSplice(Len(R)) /\ m.less = (Len(R) > Limit) /\ m.more = TRUE
      /\ m.versions = V /\ m.broken = l.broken /\ m.asked = l.asked
  BY DEF ListType
<1>9. m \in ListType(n)
  <2> DEFINE x == LessSplice(Len(R))
             b == Len(R) > Limit
             d == l.offset - Limit
  <2> HIDE DEF x, b, d
  <2>1. m = [l EXCEPT !.results = R, !.more = TRUE, !.offset = d, !.less = b, !.splice = x, !.versions = V]
    BY DEF x, b, d
  <2>2. b \in BOOLEAN /\ x \in 0 .. Limit /\ d \in Nat
    BY <1>7 DEF b, x, d
  <2> QED BY <1>3, <1>6, <2>1, <2>2 DEF ListType
<1> HIDE DEF m
<1>10. ASSUME ~l.broken PROVE Whole(m)
  <2>1. /\ l.results = Flat(l.versions) /\ Len(l.versions) = j + 1 /\ V = Front(l.versions)
        /\ (j + 1) * Limit <= Maximum
    <3>1. j + 1 >= 2
      OBVIOUS
    <3> QED BY <1>4, <1>5, <1>10, <3>1 DEF Whole, V
  <2>2. /\ SubSeq(Flat(l.versions), 1, j * Limit) = Flat(V)
        /\ Len(Flat(V)) = j * Limit
        /\ Len(Flat(l.versions)) > j * Limit /\ Len(Flat(l.versions)) <= j * Limit + Limit
    BY <1>0, <1>2, <2>1, FlatFront
  <2>3. Len(l.results) - l.splice = j * Limit
    <3>1. l.splice = Len(l.results) - j * Limit
      BY <1>0, <1>1, <1>2, <2>1, <2>2, SpliceLess
    <3> QED BY <1>0, <1>2, <3>1
  <2>4. R = Flat(V) /\ Len(R) = j * Limit
    BY <2>1, <2>2, <2>3 DEF R
  <2>5. Len(V) = j
    <3>1. l.versions # <<>>
      BY <2>1, EmptySeq
    <3>2. Len(Front(l.versions)) = Len(l.versions) - 1
      BY <1>0, <3>1, FrontTyped
    <3> QED BY <2>1, <3>2
  <2>6. j * Limit > Limit <=> j > 1
    <3>1. 1 * Limit = Limit /\ (1 < j => 1 * Limit + Limit <= j * Limit) /\ (j <= 1 => j * Limit <= 1 * Limit)
      BY Bounds, Times
    <3> QED BY <1>2, <3>1, Bounds
  <2>7. j * Limit <= Maximum
    BY <1>2, <2>1, Bounds
  <2>8. m.less = (j > 1)
    BY <1>8, <2>4, <2>6
  <2>9. m.results = Flat(m.versions) /\ m.offset = Len(m.versions) * Limit /\ Len(m.versions) = j
    BY <1>7, <1>8, <2>4, <2>5
  <2>10. ~m.loading => m.more = (j * Limit < Accounts /\ (j + 1) * Limit <= Maximum)
    BY <1>2, <1>8, <2>1
  <2>11. j >= 1 /\ ~ m.loading
    BY <1>1, <1>8
  <2> QED BY <2>7, <2>8, <2>9, <2>10, <2>11 DEF Whole
<1>11. \E k \in Nat : m.offset = k * Limit /\ (k > 0 => (k - 1) * Limit < Accounts)
  <2>1. (j - 1) * Limit < Accounts
    <3>1. j - 1 \in Nat /\ j - 1 <= j
      OBVIOUS
    <3>2. (j - 1) * Limit <= j * Limit /\ (j - 1) * Limit \in Nat
      BY <3>1, Bounds, Times
    <3> QED BY <1>2, <3>2, Bounds
  <2> QED BY <1>7, <1>8, <2>1
<1>12. AccountsOK(m)
  BY <1>1, <1>2, <1>3, <1>7, <1>8, <1>10, <1>11 DEF AccountsOK
<1> QED BY <1>1, <1>8, <1>9, <1>12 DEF m, R, V

\* What acceptData leaves, when the data are those of a page.
Accepted(n, l, data, part, results, a) ==
    /\ results \in Seq(Nat) /\ Len(results) = Len(l.results) + Len(part)
    /\ a \in ListType(n) /\ a.results = results /\ a.loading = FALSE
    /\ a.offset = l.offset + Limit
    /\ a.more <=> AnyMore(Len(data)) /\ Len(results) + Limit <= Maximum
    /\ a.less <=> Len(results) > Limit
    /\ a.splice = LessSplice(Len(results))
    /\ a.pages = l.pages /\ a.asked = l.asked /\ a.versions = l.versions /\ a.broken = l.broken

\* acceptData leaves the results it had with the page's behind them.
LEMMA AcceptTyped ==
    ASSUME NEW n \in Nat, NEW l \in ListType(n), NEW data, NEW part \in Seq(Nat), SpliceData(data) = part
    PROVE  Accepted(n, l, data, part, l.results \o part, AcceptData(l, data))
<1> DEFINE R == l.results \o part
           x == LessSplice(Len(R))
           b == Len(R) > Limit
           c == AnyMore(Len(data)) /\ Len(R) + Limit <= Maximum
           d == l.offset + Limit
           a == AcceptData(l, data)
<1>1. R \in Seq(Nat) /\ Len(R) = Len(l.results) + Len(part) /\ Len(R) \in Nat
  <2>1. l.results \in Seq(Nat) /\ Len(l.results) \in Nat /\ Len(part) \in Nat
    BY ListFields, LenProperties
  <2> QED BY <2>1, ConcatProperties
<1>2. x \in 0 .. Limit
  <2> HIDE DEF R
  <2> QED BY <1>1, SpliceLess
<1>3. b \in BOOLEAN /\ c \in BOOLEAN
  OBVIOUS
<1>4. d \in Nat
  BY ListFields, Bounds
<1>5. a = [l EXCEPT !.results = R, !.loading = FALSE, !.offset = d, !.more = c, !.less = b, !.splice = x]
  BY DEF AcceptData
<1> HIDE DEF R, x, b, c, d, a
<1>6. a \in ListType(n) /\ a.results = R /\ a.loading = FALSE /\ a.offset = d /\ a.more = c /\ a.less = b
      /\ a.splice = x /\ a.pages = l.pages /\ a.asked = l.asked /\ a.versions = l.versions
      /\ a.broken = l.broken
  BY <1>1, <1>2, <1>3, <1>4, <1>5 DEF ListType
<1>7. Accepted(n, l, data, part, R, a)
  BY <1>1, <1>6 DEF Accepted, x, b, c, d
<1> QED BY <1>7 DEF R, a

\* Then the page is as it should be.
LEMMA AccountsAccept ==
    ASSUME NEW n \in Nat, NEW l \in ListType(n), AccountsOK(l), l.loading,
           NEW part \in Seq(Nat), Len(part) <= Limit,
           NEW m \in ListType(n), m.results = l.results \o part, m.loading = FALSE,
           m.offset = l.offset + Limit, m.more => l.offset + Limit < Accounts,
           m.less <=> Len(m.results) > Limit, m.splice = LessSplice(Len(m.results)),
           m.asked = l.asked, l.asked # NoRequest, ~m.broken => Whole(m)
    PROVE  AccountsOK(m)
<1>1. /\ Len(l.results) <= l.offset /\ l.offset < Accounts
  BY DEF AccountsOK
<1>2. Len(m.results) = Len(l.results) + Len(part) /\ Len(part) \in Nat /\ Len(l.results) \in Nat
      /\ l.offset \in Nat
  BY ListFields, ConcatProperties, LenProperties
<1>3. Len(m.results) <= m.offset
  BY <1>1, <1>2, Bounds
<1>4. \E k \in Nat : m.offset = k * Limit /\ (k > 0 => (k - 1) * Limit < Accounts)
  <2>1. PICK k \in Nat : l.offset = k * Limit
    BY DEF AccountsOK
  <2>2. (k + 1) * Limit = k * Limit + Limit /\ k + 1 \in Nat /\ (k + 1) - 1 = k
    BY Bounds, Times
  <2>3. m.offset = (k + 1) * Limit /\ ((k + 1) - 1) * Limit < Accounts
    BY <1>1, <2>1, <2>2
  <2> QED BY <2>2, <2>3
<1> QED BY <1>1, <1>3, <1>4 DEF AccountsOK

\* An answer.
LEMMA AccountsGet ==
    ASSUME NEW n \in Nat, NEW l \in ListType(n), AccountsOK(l), l.loading, l.asked # NoRequest,
           NEW v \in 1 .. n
    PROVE  LET m == [AcceptData(l, Slice(v, l.offset, Limit + 1)) EXCEPT
                       !.versions = IF l.broken THEN @ ELSE Append(@, v)]
           IN  AccountsOK(m) /\ m \in ListType(n) /\ ~m.loading /\ m.asked = l.asked
<1> DEFINE data == Slice(v, l.offset, Limit + 1)
           part == Slice(v, l.offset, Limit)
           a == AcceptData(l, data)
           V == IF l.broken THEN l.versions ELSE Append(l.versions, v)
           m == [a EXCEPT !.versions = V]
<1>0. /\ l.results \in Seq(Nat) /\ l.offset \in Nat /\ l.broken \in BOOLEAN
      /\ l.versions \in Seq(1 .. n) /\ l.versions \in Seq(Nat)
      /\ Len(l.results) \in Nat /\ Len(l.versions) \in Nat /\ v \in Nat
  BY ListFields
<1>1. Len(l.results) <= l.offset /\ l.offset < Accounts /\ Limit \in Nat \ {0} /\ Accounts \in Nat
      /\ Maximum \in Nat
  BY Bounds DEF AccountsOK
<1>2. SpliceData(data) = part /\ (AnyMore(Len(data)) <=> l.offset + Limit < Accounts)
  BY <1>0, <1>1, PageOfAnswer
<1>3. /\ part \in Seq(Nat) /\ Len(part) = SliceLen(l.offset, Limit)
      /\ SliceLen(l.offset, Limit) \in 1 .. Limit
  <2>1. l.offset \in Nat /\ l.offset < Accounts /\ v \in Nat
    BY <1>0, <1>1
  <2> HIDE DEF data
  <2> QED BY <2>1, PageType
<1> HIDE DEF data, part
<1> DEFINE R == l.results \o part
<1>4. /\ R \in Seq(Nat) /\ Len(R) = Len(l.results) + Len(part)
      /\ a \in ListType(n) /\ a.results = R /\ a.loading = FALSE
      /\ a.offset = l.offset + Limit
      /\ a.more <=> AnyMore(Len(data)) /\ Len(R) + Limit <= Maximum
      /\ a.less <=> Len(R) > Limit
      /\ a.splice = LessSplice(Len(R))
      /\ a.pages = l.pages /\ a.asked = l.asked /\ a.versions = l.versions /\ a.broken = l.broken
  <2>1. SpliceData(data) = part /\ part \in Seq(Nat)
    BY <1>2, <1>3
  <2>2. Accepted(n, l, data, part, R, a)
    BY <2>1, AcceptTyped
  <2> HIDE DEF R, a
  <2> QED BY <2>2 DEF Accepted
<1>5. V \in Seq(1 .. n)
  BY <1>0, AppendProperties
<1> HIDE DEF a, V, R
<1>6. /\ m \in ListType(n) /\ m.results = R /\ m.loading = FALSE /\ m.offset = l.offset + Limit
      /\ m.more = a.more /\ m.less = a.less /\ m.splice = a.splice /\ m.asked = l.asked
      /\ m.versions = V /\ m.broken = l.broken
  BY <1>4, <1>5 DEF ListType
<1>7. m = [AcceptData(l, Slice(v, l.offset, Limit + 1)) EXCEPT
             !.versions = IF l.broken THEN @ ELSE Append(@, v)]
  <2>1. a.versions = l.versions
    BY <1>4
  <2> QED BY <2>1 DEF a, V, data
<1> HIDE DEF m
<1>8. ASSUME ~l.broken PROVE Whole(m)
  <2>1. Whole(l)
    BY <1>8 DEF AccountsOK
  <2> DEFINE N == Len(l.versions)
  <2>2. l.results = Flat(l.versions) /\ l.offset = N * Limit /\ (N >= 1 => (N + 1) * Limit <= Maximum)
    BY <2>1 DEF Whole
  <2>3. V = Append(l.versions, v) /\ Len(V) = N + 1
    BY <1>0, <1>8, AppendProperties DEF V
  <2>4. N \in Nat
    BY <1>0
  <2>5. Flat(V) = R
    <3>1. Flat(V) = IF l.versions = <<>> THEN part ELSE Flat(l.versions) \o part
      <4> DEFINE last == Slice(v, Len(l.versions) * Limit, Limit)
      <4>1. Flat(Append(l.versions, v)) = IF l.versions = <<>> THEN last ELSE Flat(l.versions) \o last
        BY <1>0, FlatAppend
      <4>2. last = part
        BY <2>2 DEF part
      <4> HIDE DEF last
      <4> QED BY <2>3, <4>1, <4>2, Zenon
    <3>2. CASE l.versions = <<>>
      <4>1. l.results = <<>>
        BY <2>2, <3>2, FlatEmpty
      <4>2. <<>> \o part = part
        BY <1>3, ConcatEmptySeq
      <4> QED BY <3>1, <3>2, <4>1, <4>2 DEF R
    <3>3. CASE l.versions # <<>>
      BY <2>2, <3>1, <3>3 DEF R
    <3> QED BY <3>2, <3>3
  <2> HIDE DEF N
  <2>6. /\ N * Limit \in Nat /\ (N + 1) * Limit = N * Limit + Limit /\ ShownBy(N + 1) > N * Limit
        /\ ShownBy(N + 1) <= N * Limit + Limit
    BY <1>1, <2>2, <2>4, ShownNext
  <2>7. Len(R) = ShownBy(N + 1)
    <3>1. V \in Seq(Nat)
      BY <1>5, SeqMonotonic
    <3>2. (Len(V) - 1) * Limit < Accounts
      <4>1. Len(V) - 1 = N
        BY <2>3, <2>4
      <4> QED BY <1>1, <2>2, <4>1
    <3> QED BY <2>3, <2>5, <3>1, <3>2, FlatLength
  <2>8. m.less <=> N + 1 > 1
    <3>1. m.less <=> ShownBy(N + 1) > Limit
      BY <1>4, <1>6, <2>7
    <3>2. ShownBy(N + 1) > Limit <=> N + 1 > 1
      <4>1. CASE N = 0
        <5>1. N * Limit = 0
          BY <4>1, Bounds
        <5>2. ShownBy(N + 1) <= Limit
          BY <1>1, <2>6, <5>1
        <5>3. ShownBy(N + 1) \in Int
          BY <1>1, <2>6 DEF ShownBy
        <5> QED BY <1>1, <4>1, <5>2, <5>3
      <4>2. CASE N > 0
        <5>1. N * Limit >= Limit
          BY <2>4, <4>2, Bounds, Times
        <5>2. ShownBy(N + 1) \in Int
          BY <1>1, <2>6 DEF ShownBy
        <5> QED BY <1>1, <2>4, <2>6, <4>2, <5>1, <5>2
      <4> QED BY <2>4, <4>1, <4>2
    <3> QED BY <3>1, <3>2, Zenon
  <2>9. m.more <=> (N + 1) * Limit < Accounts /\ ((N + 1) + 1) * Limit <= Maximum
    <3>1. m.more <=> (N + 1) * Limit < Accounts /\ ShownBy(N + 1) + Limit <= Maximum
      BY <1>2, <1>4, <1>6, <2>2, <2>6, <2>7
    <3>2. ((N + 1) + 1) * Limit = (N + 1) * Limit + Limit
      <4>1. N + 1 \in Nat
        BY <2>4
      <4> QED BY <4>1, Bounds, Times
    <3>3. (N + 1) * Limit < Accounts => ShownBy(N + 1) = (N + 1) * Limit
      BY DEF ShownBy
    <3> QED BY <3>1, <3>2, <3>3
  <2>10. N + 1 >= 2 => (N + 1) * Limit <= Maximum
    <3>1. N + 1 >= 2 => N >= 1
      BY <2>4
    <3> QED BY <2>2, <3>1
  <2>11. m.results = Flat(m.versions) /\ m.offset = Len(m.versions) * Limit /\ Len(m.versions) = N + 1
    BY <1>6, <2>2, <2>3, <2>5, <2>6
  <2>12. m.less \in BOOLEAN /\ m.more \in BOOLEAN /\ N + 1 >= 1 /\ ~(~ m.loading => FALSE)
    BY <1>6, <2>4, ListFields
  <2>13. m.less = (N + 1 > 1) /\ m.more = ((N + 1) * Limit < Accounts /\ ((N + 1) + 1) * Limit <= Maximum)
    BY <2>8, <2>9, <2>12
  <2> QED BY <1>6, <2>10, <2>11, <2>12, <2>13 DEF Whole
<1>9. AccountsOK(m)
  <2>1. m.more => l.offset + Limit < Accounts
    BY <1>2, <1>4, <1>6
  <2>2. Len(part) <= Limit
    BY <1>1, <1>3
  <2>3. m.results = l.results \o part
    BY <1>6 DEF R
  <2>4. m.less <=> Len(m.results) > Limit
    BY <1>4, <1>6
  <2>5. m.splice = LessSplice(Len(m.results)) /\ (~m.broken => Whole(m))
    BY <1>4, <1>6, <1>8
  <2> QED BY <1>3, <1>6, <2>1, <2>2, <2>3, <2>4, <2>5, AccountsAccept
<1> QED BY <1>6, <1>7, <1>9

\* No answer: acceptData gets no data.
LEMMA AccountsFail ==
    ASSUME NEW n \in Nat, NEW l \in ListType(n), AccountsOK(l), l.loading, l.asked # NoRequest
    PROVE  LET m == [AcceptData(l, <<>>) EXCEPT !.broken = TRUE, !.versions = <<>>]
           IN  AccountsOK(m) /\ m \in ListType(n) /\ ~m.loading /\ m.asked = l.asked
<1> DEFINE data == <<>>
           a == AcceptData(l, data)
           R == l.results \o data
           m == [a EXCEPT !.broken = TRUE, !.versions = <<>>]
<1>1. data \in Seq(Nat) /\ Len(data) = 0 /\ data \in Seq(1 .. n)
  BY EmptySeq
<1>2. ~AnyMore(Len(data)) /\ SpliceData(data) = data
  <2>1. 0 \in 0 .. Limit + 1 /\ 0 # Limit + 1
    BY Bounds
  <2>2. ~AnyMore(0)
    BY <2>1, MoreThanAPage
  <2> QED BY <1>1, <2>2 DEF SpliceData
<1>3. Accepted(n, l, data, data, R, a)
  BY <1>1, <1>2, AcceptTyped
<1>4. /\ R \in Seq(Nat) /\ a \in ListType(n) /\ a.results = R /\ a.loading = FALSE
      /\ a.offset = l.offset + Limit /\ ~a.more /\ (a.less <=> Len(R) > Limit)
      /\ a.splice = LessSplice(Len(R)) /\ a.asked = l.asked
  <2> HIDE DEF R, a, data
  <2> QED BY <1>2, <1>3 DEF Accepted
<1> HIDE DEF a, R
<1>5. /\ m \in ListType(n) /\ m.results = R /\ m.loading = FALSE /\ m.offset = l.offset + Limit
      /\ m.more = a.more /\ m.less = a.less /\ m.splice = a.splice /\ m.asked = l.asked
      /\ m.broken = TRUE
  BY <1>1, <1>4 DEF ListType
<1> HIDE DEF m
<1>6. m.less <=> Len(m.results) > Limit
  BY <1>4, <1>5
<1>7. m.results = l.results \o data /\ Len(data) <= Limit
  BY <1>1, <1>5, Bounds DEF R
<1>8. m.splice = LessSplice(Len(m.results)) /\ ~m.more
  BY <1>4, <1>5
<1>9. AccountsOK(m)
  BY <1>1, <1>5, <1>6, <1>7, <1>8, AccountsAccept
<1> QED BY <1>5, <1>9 DEF m, a

\* The page whose list is there shows what it should.
LEMMA AccountsTold ==
    ASSUME NEW n \in Nat, NEW l \in ListType(n), AccountsOK(l), ~l.loading, ~l.broken
    PROVE  LET c == Len(l.versions)
           IN  /\ l.results =
                    FlattenSeq([i \in 1 .. c |-> Slice(l.versions[i], (i - 1) * Limit, Limit)])
               /\ l.offset = c * Limit
               /\ l.less = (c > 1)
               /\ l.more = (c * Limit < Accounts /\ (c + 1) * Limit <= Maximum)
<1>1. Whole(l)
  BY DEF AccountsOK
<1> QED BY <1>1 DEF Whole, Flat, Pages

\* The one request under way is the one for what comes next.
AccountsInv ==
    /\ AccountsOK(list)
    /\ \A r \in Request : request[r].stage # "idle" =>
           r = list.asked /\ request[r].path = list.offset /\ list.loading

\* The offset of a page that begins before the end can be asked for.
LEMMA OffsetPath ==
    ASSUME NEW n \in Nat, NEW l \in ListType(n), AccountsOK(l), l.offset < Accounts
    PROVE  l.offset \in Path
<1>1. PICK k \in Nat : l.offset = k * Limit
  BY DEF AccountsOK
<1>2. Accounts <= MaxPages * Limit /\ Accounts \in Nat
  BY ListAssumption, Bounds
<1>3. k * Limit < Accounts
  BY <1>1
<1>4. k * Limit \in Path
  BY <1>2, <1>3, PathBefore
<1> QED BY <1>1, <1>4

\* loadData asks for the first page.
LEMMA AccountsLoad ==
    ASSUME HttpInv, list \in ListType(version), AccountsInv, LoadData
    PROVE  HttpInv' /\ (list \in ListType(version))' /\ AccountsInv'
<1>1. PICK r \in Request : Ask(r, list.offset) /\ list' = [list EXCEPT !.asked = r]
  BY DEF LoadData
<1>2. list.asked = NoRequest /\ version \in Nat /\ NoRequest \notin Request
  BY HttpUnfolded, Bounds DEF LoadData, NoRequest
<1>3. AccountsOK(list) /\ list.loading /\ list.offset < Accounts
  BY <1>2 DEF AccountsInv, AccountsOK
<1>4. list.offset \in Path
  BY <1>2, <1>3, OffsetPath
<1>5. /\ HttpInv' /\ version' = version /\ request'[r].path = list.offset
      /\ \A s \in Request \ {r} : request'[s] = request[s]
  BY <1>1, <1>4, AskKeeps
<1>6. AccountsOK(list') /\ list' \in ListType(version)
  BY <1>1, <1>2, <1>3, AccountsAsked
<1>7. list'.asked = r /\ list'.offset = list.offset /\ list'.loading = list.loading
  BY <1>1 DEF ListType
<1>8. \A s \in Request : request[s].stage = "idle"
  BY <1>2 DEF AccountsInv
<1>9. \A s \in Request : request'[s].stage # "idle" => s = r
  BY <1>5, <1>8
<1>10. \A s \in Request : request'[s].stage # "idle" =>
           s = list'.asked /\ request'[s].path = list'.offset /\ list'.loading
  BY <1>3, <1>5, <1>7, <1>9
<1>11. AccountsInv'
  BY <1>6, <1>10 DEF AccountsInv
<1> QED BY <1>5, <1>6, <1>11

\* loadMore asks for the page that comes next.
LEMMA AccountsMoreKept ==
    ASSUME HttpInv, list \in ListType(version), AccountsInv, LoadMore
    PROVE  HttpInv' /\ (list \in ListType(version))' /\ AccountsInv'
<1>1. PICK r \in Request :
        /\ Ask(r, list.offset)
        /\ list' = [list EXCEPT !.more = FALSE, !.less = FALSE, !.loading = TRUE, !.asked = r]
  BY DEF LoadMore
<1>2. list.more /\ version \in Nat
  BY HttpUnfolded, Bounds DEF LoadMore
<1>3. AccountsOK(list) /\ ~list.loading /\ list.offset < Accounts
  BY <1>2 DEF AccountsInv, AccountsOK
<1>4. list.offset \in Path
  BY <1>2, <1>3, OffsetPath
<1>5. /\ HttpInv' /\ version' = version /\ request'[r].path = list.offset
      /\ \A s \in Request \ {r} : request'[s] = request[s]
  BY <1>1, <1>4, AskKeeps
<1>6. AccountsOK(list') /\ list' \in ListType(version) /\ list'.loading /\ list'.asked = r
      /\ list'.offset = list.offset
  <2> DEFINE m == [list EXCEPT !.more = FALSE, !.less = FALSE, !.loading = TRUE, !.asked = r]
  <2>1. AccountsOK(m) /\ m \in ListType(version) /\ m.loading /\ m.asked = r /\ m.offset = list.offset
    BY <1>2, <1>3, AccountsMore
  <2>2. list' = m
    BY <1>1
  <2> HIDE DEF m
  <2> QED BY <2>1, <2>2
<1>7. \A s \in Request : request[s].stage = "idle"
  BY <1>3 DEF AccountsInv
<1>8. \A s \in Request : request'[s].stage # "idle" => s = r
  BY <1>5, <1>7
<1>9. \A s \in Request : request'[s].stage # "idle" =>
           s = list'.asked /\ request'[s].path = list'.offset /\ list'.loading
  BY <1>5, <1>6, <1>8
<1>10. AccountsInv'
  BY <1>6, <1>9 DEF AccountsInv
<1> QED BY <1>5, <1>6, <1>10

\* loadLess takes the last page away.
LEMMA AccountsLessKept ==
    ASSUME HttpInv, list \in ListType(version), AccountsInv, LoadLess
    PROVE  HttpInv' /\ (list \in ListType(version))' /\ AccountsInv'
<1>1. list.less /\ UNCHANGED <<version, server, saved, request, httpFaults>> /\ version \in Nat
      /\ AccountsOK(list)
  BY HttpUnfolded, Bounds DEF LoadLess, httpVars, AccountsInv
<1>2. ~list.loading /\ AccountsOK(list') /\ list' \in ListType(version)
  BY <1>1, AccountsLess DEF LoadLess
<1>3. \A s \in Request : request'[s].stage = "idle"
  BY <1>1, <1>2 DEF AccountsInv
<1>4. HttpInv'
  BY <1>1 DEF HttpInv, HttpTypeOK
<1>5. AccountsInv'
  BY <1>2, <1>3 DEF AccountsInv
<1> QED BY <1>1, <1>2, <1>4, <1>5

\* Answers, errors and lost requests leave the page of accounts as it should be.
LEMMA AccountsArriveKept ==
    ASSUME HttpInv, list \in ListType(version), AccountsInv, NEW r \in Request, AccountsArrive(r)
    PROVE  HttpInv' /\ (list \in ListType(version))' /\ AccountsInv'
<1>1. /\ HttpInv' /\ version' = version /\ request[r].stage \in {"answered", "lost"}
      /\ request'[r].stage = "idle" /\ (Answer(r) => request[r].version \in 1 .. version)
      /\ \A s \in Request \ {r} : request'[s] = request[s]
  BY TakeKeeps DEF AccountsArrive
<1>2. r = list.asked /\ request[r].path = list.offset /\ list.loading /\ AccountsOK(list)
      /\ version \in Nat
  BY <1>1, HttpUnfolded, Bounds DEF AccountsInv
<1>3. list.asked # NoRequest
  BY <1>2, Bounds DEF NoRequest
<1>4. AccountsOK(list') /\ list' \in ListType(version)
  <2>1. CASE Answer(r)
    <3>1. list' = [AcceptData(list, Slice(request[r].version, list.offset, Limit + 1)) EXCEPT
                     !.versions = IF list.broken THEN @ ELSE Append(@, request[r].version)]
      BY <1>2, <2>1 DEF AccountsArrive
    <3> QED BY <1>1, <1>2, <1>3, <2>1, <3>1, AccountsGet
  <2>2. CASE ~Answer(r)
    <3>1. list' = [AcceptData(list, <<>>) EXCEPT !.broken = TRUE, !.versions = <<>>]
      BY <2>2 DEF AccountsArrive
    <3> QED BY <1>2, <1>3, <3>1, AccountsFail
  <2> QED BY <2>1, <2>2
<1>5. \A s \in Request : request'[s].stage = "idle"
  BY <1>1, <1>2 DEF AccountsInv
<1>6. AccountsInv'
  BY <1>4, <1>5 DEF AccountsInv
<1> QED BY <1>1, <1>4, <1>6

-----------------------------------------------------------------------------
(* The server, while a list is open. *)

\* What the server does leaves the list, and which requests there are.
LEMMA ServerKeeps ==
    ASSUME HttpInv, ServerStep
    PROVE  HttpInv' /\ version \in Nat /\ version' \in Nat /\ version <= version' /\ Untouched
<1>1. version \in Nat
  BY HttpUnfolded, Bounds
<1>2. HttpInv' /\ Untouched /\ (version' = version \/ version' = version + 1)
  <2>1. CASE NodeMissing \/ AskNode \/ Listen
    BY <2>1, StartKeeps
  <2>2. CASE End
    BY <2>2, EndKeeps
  <2>3. CASE Tick
    BY <2>3, TickKeeps
  <2>4. CASE Change
    BY <2>4, ChangeKeeps
  <2>5. CASE \E r \in Request : Read(r) \/ Succeed(r) \/ Refuse(r)
    BY <2>5, ReadKeeps, SucceedKeeps, RefuseKeeps
  <2> QED BY <2>1, <2>2, <2>3, <2>4, <2>5 DEF ServerStep
<1> QED BY <1>1, <1>2

\* The list stays of its type when there are more versions.
LEMMA ListStays ==
    ASSUME HttpInv, list \in ListType(version), ServerStep, UNCHANGED listVars
    PROVE  (list \in ListType(version))'
<1>1. version \in Nat /\ version' \in Nat /\ version <= version' /\ list' = list
  BY ServerKeeps DEF listVars
<1> QED BY <1>1, ListGrows

\* Which offsets are asked for, and what is kept, is of transactions there are.
Served ==
    /\ \A p \in Path : saved[p] # NotSaved => p < TxCount(saved[p].version)
    /\ \A r \in Request : request[r].stage # "idle" =>
           /\ request[r].path < TxCount(version)
           /\ request[r].version # 0 => request[r].path < TxCount(request[r].version)

\* There is a transaction in every version, more in later ones, and the pages hold all.
LEMMA Counts ==
    /\ \A v \in Nat : TxCount(v) \in Nat \ {0}
    /\ \A v, w \in Nat : v <= w => TxCount(v) <= TxCount(w)
    /\ \A v \in 1 .. MaxVersion : TxCount(v) <= MaxPages * Limit
<1>1. \A v \in Nat : TxCount(v) \in Nat \ {0}
  BY Bounds DEF TxCount
<1>2. \A v, w \in Nat : v <= w => TxCount(v) <= TxCount(w)
  BY Bounds DEF TxCount
<1>3. TxCount(MaxVersion) <= MaxPages * Limit /\ MaxPages * Limit \in Nat
  BY ListAssumption, Bounds
<1>4. \A v \in 1 .. MaxVersion : v \in Nat /\ MaxVersion \in Nat /\ v <= MaxVersion
  BY Bounds
<1> QED BY <1>1, <1>2, <1>3, <1>4

\* The server answers with data in which the offsets asked for exist.
LEMMA ServedKept ==
    ASSUME HttpInv, Served, ServerStep
    PROVE  Served'
<1>0. /\ version \in Nat /\ saved \in [Path -> Kept(version)] /\ request \in [Request -> Requests(version)]
      /\ Path \subseteq Nat
  BY HttpUnfolded, Bounds, PathsAre
<1>1. CASE NodeMissing \/ AskNode \/ Listen
  <2>1. version' = version /\ saved' = saved /\ request' = request
    BY <1>1, StartKeeps
  <2> QED BY <2>1 DEF Served
<1>2. CASE End
  <2>1. /\ version' = version /\ saved' = saved /\ Untouched
        /\ \A s \in Request : request'[s].version = request[s].version
    BY <1>2, EndKeeps
  <2> QED BY <2>1 DEF Served, Untouched
<1>3. CASE Tick
  <2>1. /\ version' = version /\ request' = request
        /\ \A p \in Path : \/ saved'[p] = NotSaved
                           \/ (saved[p] # NotSaved /\ saved'[p].version = saved[p].version)
    BY <1>3, TickKeeps
  <2> QED BY <2>1 DEF Served
<1>4. CASE Change
  <2>1. version' = version + 1 /\ UNCHANGED <<saved, request>>
    BY <1>4 DEF Change
  <2>2. TxCount(version) <= TxCount(version') /\ TxCount(version) \in Nat /\ TxCount(version') \in Nat
    BY <1>0, <2>1, Counts
  <2>3. \A r \in Request : request[r].path \in Nat
    BY <1>0 DEF Requests
  <2> QED BY <2>1, <2>2, <2>3 DEF Served
<1>5. CASE \E r \in Request : Read(r)
  <2>1. PICK r \in Request : Read(r)
    BY <1>5
  <2>2. /\ version' = version /\ saved' = saved /\ Untouched
        /\ \A s \in Request : \/ request'[s] = request[s]
                              \/ (request[s].stage = "asked" /\ request'[s].version = version)
    BY <2>1, ReadKeeps
  <2> QED BY <2>2 DEF Served, Untouched
<1>6. CASE \E r \in Request : Succeed(r)
  <2>1. PICK r \in Request : Succeed(r)
    BY <1>6
  <2>2. /\ version' = version /\ Untouched
        /\ \A s \in Request : request'[s].version = request[s].version
        /\ \A p \in Path : \/ saved'[p] = saved[p]
                           \/ /\ request[r].stage # "idle" /\ request[r].version # 0
                              /\ request[r].path = p /\ saved'[p].version = request[r].version
    BY <2>1, SucceedKeeps
  <2> QED BY <2>2 DEF Served, Untouched
<1>7. CASE \E r \in Request : Refuse(r)
  <2>1. PICK r \in Request : Refuse(r)
    BY <1>7
  <2>2. /\ version' = version /\ saved' = saved /\ Untouched
        /\ \A s \in Request : request'[s] = request[s] \/ request'[s].version = 0
    BY <2>1, RefuseKeeps
  <2> QED BY <2>2 DEF Served, Untouched
<1> QED BY <1>1, <1>2, <1>3, <1>4, <1>5, <1>6, <1>7 DEF ServerStep

\* A request for transactions there are.
LEMMA ServedAsk ==
    ASSUME HttpInv, Served, NEW r \in Request, NEW p \in Path, Ask(r, p), p < TxCount(version)
    PROVE  Served'
<1>1. /\ version' = version /\ saved' = saved /\ request'[r].path = p
      /\ (request'[r].version = 0 \/ (saved[p] # NotSaved /\ request'[r].version = saved[p].version))
      /\ \A s \in Request \ {r} : request'[s] = request[s]
  BY AskKeeps
<1>2. \A q \in Path : saved'[q] # NotSaved => q < TxCount(saved'[q].version)
  BY <1>1 DEF Served
<1>3. ASSUME NEW s \in Request, request'[s].stage # "idle"
      PROVE  /\ request'[s].path < TxCount(version)
             /\ request'[s].version # 0 => request'[s].path < TxCount(request'[s].version)
  <2>1. CASE s = r
    BY <1>1, <2>1 DEF Served
  <2>2. CASE s # r
    BY <1>1, <1>3, <2>2 DEF Served
  <2> QED BY <2>1, <2>2
<1> QED BY <1>1, <1>2, <1>3 DEF Served

\* Taking an answer leaves less to be said.
LEMMA ServedTake ==
    ASSUME HttpInv, Served, NEW r \in Request, Take(r)
    PROVE  Served'
<1>1. /\ version' = version /\ saved' = saved /\ request'[r].stage = "idle"
      /\ \A s \in Request \ {r} : request'[s] = request[s]
  BY TakeKeeps
<1> QED BY <1>1 DEF Served

\* The server's steps leave what a page of accounts waits for.
LEMMA AccountsServed ==
    ASSUME AccountsInv, ServerStep, HttpInv, UNCHANGED listVars
    PROVE  AccountsInv'
<1>1. Untouched /\ list' = list
  BY ServerKeeps DEF listVars
<1> QED BY <1>1 DEF AccountsInv, Untouched

-----------------------------------------------------------------------------
(* The page of the voters of a delegate. *)

\* What a sequence shows is also shown when another one is put before or behind it.
LEMMA ShownBoth ==
    ASSUME NEW s \in Seq(Nat), NEW t \in Seq(Nat)
    PROVE  /\ s \o t \in Seq(Nat) /\ Len(s \o t) = Len(s) + Len(t) /\ Len(s) \in Nat /\ Len(t) \in Nat
           /\ \A x \in ToSet(s) : x \in ToSet(s \o t)
           /\ \A i \in 1 .. Len(t) : t[i] \in ToSet(s \o t)
<1>1. /\ s \o t \in Seq(Nat) /\ Len(s \o t) = Len(s) + Len(t) /\ Len(s) \in Nat /\ Len(t) \in Nat
      /\ \A i \in 1 .. Len(s) + Len(t) : (s \o t)[i] = IF i <= Len(s) THEN s[i] ELSE t[i - Len(s)]
  BY ConcatProperties, LenProperties
<1> DEFINE u == s \o t
<1>2. DOMAIN s = 1 .. Len(s) /\ DOMAIN u = 1 .. Len(u)
  BY <1>1, LenProperties
<1> HIDE DEF u
<1>3. Len(u) = Len(s) + Len(t) /\ u \in Seq(Nat)
      /\ \A i \in 1 .. Len(s) + Len(t) : u[i] = IF i <= Len(s) THEN s[i] ELSE t[i - Len(s)]
  BY <1>1 DEF u
<1>4. ASSUME NEW x \in ToSet(s) PROVE x \in ToSet(u)
  <2>1. PICK i \in 1 .. Len(s) : x = s[i]
    BY <1>2 DEF ToSet
  <2>2. i \in 1 .. Len(s) + Len(t) /\ i <= Len(s)
    BY <1>1
  <2>3. u[i] = x /\ i \in DOMAIN u
    BY <1>2, <1>3, <2>1, <2>2
  <2> QED BY <2>3 DEF ToSet
<1>5. ASSUME NEW i \in 1 .. Len(t) PROVE t[i] \in ToSet(u)
  <2> DEFINE d == Len(s) + i
  <2>1. d \in 1 .. Len(s) + Len(t) /\ ~ (d <= Len(s)) /\ d - Len(s) = i
    BY <1>1
  <2> HIDE DEF d
  <2>2. u[d] = t[i] /\ d \in DOMAIN u
    BY <1>2, <1>3, <2>1
  <2> QED BY <2>2 DEF ToSet
<1> QED BY <1>1, <1>4, <1>5 DEF u

\* All answers so far are of one version.
AllOf(vs, v) == \A i \in 1 .. Len(vs) : vs[i] = v

\* The first n of the ranking are shown.
FirstShown(results, v, n) == \A i \in 1 .. n : Ranking(v)[i] \in ToSet(results)

\* The pages up to the k-th have come, and with them all voters up to its end.
VotersUpto(l, k) ==
    /\ k * Limit < Accounts
    /\ \E j \in Nat : j <= k /\ l.offset = j * Limit
    /\ Len(l.results) >= ShownBy(k + 1)
    /\ l.more => Len(l.results) < Accounts
    /\ \A v \in Nat : AllOf(l.versions, v) => FirstShown(l.results, v, ShownBy(k + 1))

\* What an answer leaves of a list of voters.
VotersGot(l, m, v, offset) ==
    /\ m.results = l.results \o Slice(v, offset, Limit) /\ m.offset = offset
    /\ m.more => Len(m.results) < Accounts
    /\ m.versions = Append(l.versions, v)

\* Answers of one version are so without the last of them.
LEMMA AllAppended ==
    ASSUME NEW vs \in Seq(Nat), NEW v \in Nat, NEW w, AllOf(Append(vs, v), w)
    PROVE  AllOf(vs, w) /\ v = w
<1>1. /\ Len(Append(vs, v)) = Len(vs) + 1 /\ Len(vs) \in Nat
      /\ (\A i \in 1 .. Len(vs) : Append(vs, v)[i] = vs[i]) /\ Append(vs, v)[Len(vs) + 1] = v
  BY AppendProperties, LenProperties
<1>2. Len(vs) + 1 \in 1 .. Len(vs) + 1 /\ \A i \in 1 .. Len(vs) : i \in 1 .. Len(vs) + 1
  BY <1>1
<1> QED BY <1>1, <1>2 DEF AllOf

\* A page that has come before, whether of the same or of another version.
LEMMA VotersAgain ==
    ASSUME NEW n \in Nat, NEW l \in ListType(n), NEW m, NEW k \in Nat, VotersUpto(l, k),
           NEW i \in Nat, i <= k, i * Limit < Accounts, NEW v \in Nat, VotersGot(l, m, v, i * Limit)
    PROVE  VotersUpto(m, k)
<1> DEFINE s == Slice(v, i * Limit, Limit)
<1>0. l.results \in Seq(Nat) /\ l.versions \in Seq(Nat) /\ i * Limit \in Nat /\ Accounts \in Nat
  BY ListFields, Bounds, Times
<1>1. s \in Seq(Nat)
  BY <1>0, Bounds, SliceType
<1>2. m.results = l.results \o s /\ m.versions = Append(l.versions, v) /\ m.offset = i * Limit
      /\ (m.more => Len(m.results) < Accounts)
  BY DEF VotersGot
<1> HIDE DEF s
<1>3. /\ Len(m.results) = Len(l.results) + Len(s) /\ Len(l.results) \in Nat /\ Len(s) \in Nat
      /\ \A x \in ToSet(l.results) : x \in ToSet(m.results)
  BY <1>0, <1>1, <1>2, ShownBoth
<1>4. Len(m.results) >= ShownBy(k + 1)
  <2>1. ShownBy(k + 1) \in Nat
    BY Bounds DEF ShownBy
  <2>2. Len(l.results) >= ShownBy(k + 1)
    BY DEF VotersUpto
  <2> QED BY <1>3, <2>1, <2>2
<1>5. ASSUME NEW w \in Nat, AllOf(m.versions, w) PROVE FirstShown(m.results, w, ShownBy(k + 1))
  <2>1. AllOf(l.versions, w)
    BY <1>0, <1>2, <1>5, AllAppended
  <2>2. FirstShown(l.results, w, ShownBy(k + 1))
    BY <2>1 DEF VotersUpto
  <2> QED BY <1>3, <2>2 DEF FirstShown
<1>6. k * Limit < Accounts
  BY DEF VotersUpto
<1> QED BY <1>2, <1>4, <1>5, <1>6 DEF VotersUpto

\* The next page.
LEMMA VotersFurther ==
    ASSUME NEW results \in Seq(Nat), NEW vs \in Seq(Nat), NEW i \in Nat, i * Limit < Accounts,
           NEW v \in Nat, NEW m, Len(results) >= ShownBy(i),
           AllOf(vs, v) => FirstShown(results, v, ShownBy(i)),
           m.results = results \o Slice(v, i * Limit, Limit), m.offset = i * Limit,
           m.more => Len(m.results) < Accounts, m.versions = Append(vs, v)
    PROVE  VotersUpto(m, i)
<1> DEFINE s == Slice(v, i * Limit, Limit)
           c == SliceLen(i * Limit, Limit)
<1>0. /\ i * Limit \in Nat /\ Accounts \in Nat /\ Limit \in Nat \ {0}
      /\ ShownBy(i) = i * Limit /\ ShownBy(i) + c = ShownBy(i + 1)
  BY Bounds, ShownNext
<1>1. /\ s \in Seq(Nat) /\ Len(s) = c /\ c \in 1 .. Limit
      /\ \A d \in 1 .. c : s[d] = Ranking(v)[i * Limit + d]
  BY <1>0, SliceType
<1> HIDE DEF s, c
<1>2. m.results = results \o s
  BY DEF s
<1>3. /\ Len(m.results) = Len(results) + Len(s) /\ Len(results) \in Nat /\ Len(s) \in Nat
      /\ \A x \in ToSet(results) : x \in ToSet(m.results)
      /\ \A d \in 1 .. Len(s) : s[d] \in ToSet(m.results)
  BY <1>1, <1>2, ShownBoth
<1>4. Len(m.results) >= ShownBy(i + 1)
  BY <1>0, <1>1, <1>3
<1>5. ASSUME NEW w \in Nat, AllOf(m.versions, w) PROVE FirstShown(m.results, w, ShownBy(i + 1))
  <2>1. AllOf(vs, w) /\ v = w
    BY <1>5, AllAppended
  <2>2. FirstShown(results, v, ShownBy(i))
    BY <2>1
  <2>3. ASSUME NEW x \in 1 .. ShownBy(i + 1) PROVE Ranking(v)[x] \in ToSet(m.results)
    <3>1. CASE x <= i * Limit
      <4>1. x \in 1 .. ShownBy(i)
        BY <1>0, <3>1
      <4> QED BY <1>3, <2>2, <4>1 DEF FirstShown
    <3>2. CASE x > i * Limit
      <4>1. PICK d \in 1 .. c : x = i * Limit + d
        <5>1. x - i * Limit \in 1 .. c /\ x = i * Limit + (x - i * Limit)
          BY <1>0, <1>1, <3>2
        <5> QED BY <5>1
      <4>2. s[d] = Ranking(v)[x]
        BY <1>1, <4>1
      <4> QED BY <1>1, <1>3, <4>2
    <3> QED BY <1>0, <3>1, <3>2
  <2> QED BY <2>1, <2>3 DEF FirstShown
<1> QED BY <1>4, <1>5 DEF VotersUpto

\* Nothing has come yet; or the pages up to the k-th have, and none further than the
\* next one is asked for.
VotersNone ==
    /\ list.versions = <<>> /\ list.results = <<>> /\ list.offset = 0 /\ ~list.more
    /\ \A r \in Request :
         request[r].stage # "idle" => request[r].path = 0 /\ list.asked # NoRequest
VotersSome(k) ==
    /\ list.versions # <<>> /\ list.asked # NoRequest /\ VotersUpto(list, k)
    /\ \A r \in Request : request[r].stage # "idle" =>
           request[r].path < Accounts /\ \E i \in Nat : i <= k + 1 /\ request[r].path = i * Limit
VotersInv == VotersNone \/ \E k \in Nat : VotersSome(k)

\* getVoters asks for the first page.
LEMMA VotersAsked ==
    ASSUME HttpInv, list \in ListType(version), VotersInv, GetVoters
    PROVE  HttpInv' /\ (list \in ListType(version))' /\ VotersInv'
<1>1. PICK r \in Request : Ask(r, 0) /\ list' = [list EXCEPT !.asked = r]
  BY DEF GetVoters
<1>2. list.asked = NoRequest /\ version \in Nat /\ r # NoRequest
  BY HttpUnfolded, Bounds DEF GetVoters, NoRequest
<1>3. VotersNone
  BY <1>2 DEF VotersInv, VotersSome
<1>4. /\ HttpInv' /\ version' = version /\ request'[r].path = 0
      /\ \A s \in Request \ {r} : request'[s] = request[s]
  BY <1>1, PathsAre, AskKeeps
<1>5. /\ list' \in ListType(version) /\ list'.asked = r /\ list'.versions = list.versions
      /\ list'.results = list.results /\ list'.offset = list.offset /\ list'.more = list.more
  BY <1>1 DEF ListType
<1>6. VotersNone'
  BY <1>2, <1>3, <1>4, <1>5 DEF VotersNone
<1> QED BY <1>4, <1>5, <1>6 DEF VotersInv

\* loadMoreVoters asks for the next page, again if it is used again.
LEMMA VotersMore ==
    ASSUME HttpInv, list \in ListType(version), VotersInv, LoadMoreVoters
    PROVE  HttpInv' /\ (list \in ListType(version))' /\ VotersInv'
<1>1. PICK r \in Request : Ask(r, list.offset + Limit)
  BY DEF LoadMoreVoters
<1>2. list.more /\ list' = list
  BY DEF LoadMoreVoters, listVars
<1>3. PICK k \in Nat : VotersSome(k)
  BY <1>2 DEF VotersInv, VotersNone
<1>4. /\ list.versions # <<>> /\ list.asked # NoRequest /\ VotersUpto(list, k)
      /\ Len(list.results) >= ShownBy(k + 1) /\ Len(list.results) < Accounts
  BY <1>2, <1>3 DEF VotersSome, VotersUpto
<1>5. PICK j \in Nat : j <= k /\ list.offset = j * Limit
  BY <1>4 DEF VotersUpto
<1>6. (k + 1) * Limit < Accounts
  <2>1. Len(list.results) \in Nat /\ Accounts \in Nat
    BY HttpUnfolded, Bounds, ListFields
  <2>2. ShownBy(k + 1) = IF (k + 1) * Limit < Accounts THEN (k + 1) * Limit ELSE Accounts
    BY DEF ShownBy
  <2> QED BY <1>4, <2>1, <2>2
<1> DEFINE p == list.offset + Limit
<1>7. p = (j + 1) * Limit /\ (j + 1) * Limit <= (k + 1) * Limit /\ p \in Nat
      /\ j + 1 \in Nat /\ j + 1 <= k + 1 /\ (k + 1) * Limit \in Nat
  <2>1. j + 1 \in Nat /\ k + 1 \in Nat /\ j + 1 <= k + 1
    BY <1>5
  <2>2. (j + 1) * Limit = j * Limit + Limit
    BY Bounds, Times
  <2>3. (j + 1) * Limit <= (k + 1) * Limit /\ (j + 1) * Limit \in Nat /\ (k + 1) * Limit \in Nat
    BY <2>1, Bounds, Times
  <2> QED BY <1>5, <2>1, <2>2, <2>3
<1>8. p < Accounts /\ p \in Path
  <2>1. p < Accounts
    BY <1>6, <1>7, Bounds
  <2>2. Accounts \in Nat /\ Accounts <= MaxPages * Limit
    BY ListAssumption, Bounds
  <2> HIDE DEF p
  <2> QED BY <1>7, <2>1, <2>2, PathBefore
<1> HIDE DEF p
<1>9. /\ HttpInv' /\ version' = version /\ request'[r].path = p
      /\ \A s \in Request \ {r} : request'[s] = request[s]
  BY <1>1, <1>8, AskKeeps DEF p
<1>10. ASSUME NEW s \in Request, request'[s].stage # "idle"
       PROVE  request'[s].path < Accounts /\ \E i \in Nat : i <= k + 1 /\ request'[s].path = i * Limit
  <2>1. CASE s = r
    BY <1>7, <1>8, <1>9, <2>1
  <2>2. CASE s # r
    BY <1>3, <1>9, <1>10, <2>2 DEF VotersSome
  <2> QED BY <2>1, <2>2
<1>11. VotersSome(k)'
  <2>1. VotersUpto(list', k)
    BY <1>2, <1>4
  <2> QED BY <1>2, <1>4, <1>10, <2>1 DEF VotersSome
<1> QED BY <1>2, <1>9, <1>11 DEF VotersInv

\* Nobody stands behind the last account.
LEMMA VotersNext ==
    ASSUME NEW n \in Nat, NEW l \in ListType(n), NEW m, NEW k \in Nat, VotersUpto(l, k),
           NEW i \in Nat, i <= k + 1, i * Limit < Accounts, NEW v \in Nat, VotersGot(l, m, v, i * Limit)
    PROVE  \E h \in Nat : k <= h /\ VotersUpto(m, h)
<1>1. CASE i <= k
  <2>1. VotersUpto(m, k)
    BY <1>1, VotersAgain
  <2> QED BY <2>1
<1>2. CASE ~ (i <= k)
  <2>1. i = k + 1
    BY <1>2
  <2>2. l.results \in Seq(Nat) /\ l.versions \in Seq(Nat)
    BY ListFields
  <2>3. Len(l.results) >= ShownBy(i) /\ (AllOf(l.versions, v) => FirstShown(l.results, v, ShownBy(i)))
    BY <2>1 DEF VotersUpto
  <2>4. /\ m.results = l.results \o Slice(v, i * Limit, Limit) /\ m.offset = i * Limit
        /\ (m.more => Len(m.results) < Accounts) /\ m.versions = Append(l.versions, v)
    BY DEF VotersGot
  <2>5. VotersUpto(m, i)
    BY <2>2, <2>3, <2>4, VotersFurther
  <2> QED BY <2>1, <2>5
<1> QED BY <1>1, <1>2

\* The first page has come.
LEMMA VotersBegin ==
    ASSUME NEW m, NEW v \in Nat, m.results = Slice(v, 0, Limit), m.offset = 0,
           m.more => Len(m.results) < Accounts, m.versions = Append(<<>>, v)
    PROVE  VotersUpto(m, 0)
<1>1. 0 * Limit = 0 /\ 0 < Accounts /\ 0 \in Nat /\ Limit \in Nat \ {0}
  BY Bounds
<1>2. Slice(v, 0, Limit) \in Seq(Nat)
  BY <1>1, SliceType
<1>3. m.results = <<>> \o Slice(v, 0 * Limit, Limit) /\ m.offset = 0 * Limit
  BY <1>1, <1>2, ConcatEmptySeq
<1>4. Len(<<>>) >= ShownBy(0) /\ <<>> \in Seq(Nat) /\ FirstShown(<<>>, v, ShownBy(0))
  BY EmptySeq, ShownNone DEF FirstShown
<1> QED BY <1>1, <1>3, <1>4, VotersFurther

\* In whichever order answers come, no page is skipped.
LEMMA VotersArriveKept ==
    ASSUME HttpInv, list \in ListType(version), VotersInv, NEW r \in Request, VotersArrive(r)
    PROVE  HttpInv' /\ (list \in ListType(version))' /\ VotersInv'
<1>1. /\ HttpInv' /\ version' = version /\ request[r].stage \in {"answered", "lost"}
      /\ request'[r].stage = "idle" /\ (Answer(r) => request[r].version \in 1 .. version)
      /\ \A s \in Request \ {r} : request'[s] = request[s]
  BY TakeKeeps DEF VotersArrive
<1>2. version \in Nat /\ request[r].stage # "idle"
  BY <1>1, HttpUnfolded, Bounds
<1> DEFINE v == request[r].version
           p == request[r].path
           voters == list.results \o Slice(v, p, Limit)
<1>3. CASE ~Answer(r)
  <2>1. list' = [list EXCEPT !.loading = FALSE]
    BY <1>3 DEF VotersArrive
  <2>2. /\ list' \in ListType(version) /\ list'.asked = list.asked /\ list'.versions = list.versions
        /\ list'.results = list.results /\ list'.offset = list.offset /\ list'.more = list.more
    BY <2>1 DEF ListType
  <2>3. ASSUME VotersNone PROVE VotersNone'
    BY <1>1, <2>2, <2>3 DEF VotersNone
  <2>4. ASSUME NEW k \in Nat, VotersSome(k) PROVE VotersSome(k)'
    <3>1. VotersUpto(list', k)
      BY <2>2, <2>4, Zenon DEF VotersSome, VotersUpto
    <3> QED BY <1>1, <2>2, <2>4, <3>1 DEF VotersSome
  <2>5. VotersInv'
    BY <2>3, <2>4 DEF VotersInv
  <2> QED BY <1>1, <2>2, <2>5
<1>4. CASE Answer(r)
  <2>1. v \in 1 .. version /\ v \in Nat
    BY <1>1, <1>2, <1>4
  <2>2. PICK i \in Nat : p = i * Limit /\ i * Limit < Accounts /\ (\A k \in Nat : VotersSome(k) => i <= k + 1)
    <3>1. CASE VotersNone
      <4>1. p = 0 /\ 0 = 0 * Limit /\ 0 < Accounts
        BY <1>2, <3>1, Bounds DEF VotersNone
      <4>2. p = 0 * Limit /\ 0 * Limit < Accounts /\ (\A k \in Nat : VotersSome(k) => 0 <= k + 1)
        BY <4>1
      <4> QED BY <4>2
    <3>2. CASE ~VotersNone
      <4>1. PICK k \in Nat : VotersSome(k)
        BY <3>2 DEF VotersInv
      <4>2. PICK i \in Nat : p = i * Limit
        BY <1>2, <4>1 DEF VotersSome
      <4>3. i * Limit < Accounts
        BY <1>2, <4>1, <4>2 DEF VotersSome
      <4>4. ASSUME NEW h \in Nat, VotersSome(h) PROVE i <= h + 1
        <5>1. PICK j \in Nat : j <= h + 1 /\ p = j * Limit
          BY <1>2, <4>4 DEF VotersSome
        <5>2. j < i => j * Limit + Limit <= i * Limit
          BY Bounds, Times
        <5>3. j * Limit = i * Limit /\ j * Limit \in Nat /\ Limit \in Nat \ {0}
          BY <4>2, <5>1, Bounds, Times
        <5>4. ~ (j < i)
          BY <5>2, <5>3
        <5> QED BY <5>1, <5>4
      <4> QED BY <4>2, <4>3, <4>4
    <3> QED BY <3>1, <3>2
  <2>3. p \in Nat /\ Slice(v, p, Limit) \in Seq(Nat)
    <3>1. i * Limit \in Nat /\ Limit \in Nat \ {0}
      BY Bounds, Times
    <3>2. Slice(v, i * Limit, Limit) \in Seq(Nat)
      BY <2>1, <2>2, <3>1, SliceType
    <3> QED BY <2>2, <3>1, <3>2
  <2>4. voters \in Seq(Nat) /\ list.versions \in Seq(1 .. version)
    BY <1>2, <2>3, ListFields, ConcatProperties
  <2> DEFINE V == Append(list.versions, v)
             b == Len(voters) < Accounts
  <2>5. V \in Seq(1 .. version) /\ V # <<>> /\ b \in BOOLEAN
    <3>1. V \in Seq(1 .. version) /\ V # <<>>
      <4> HIDE DEF v
      <4>1. v \in 1 .. version /\ list.versions \in Seq(1 .. version)
        BY <2>1, <2>4
      <4> DEFINE S == 1 .. version
                 vs == list.versions
      <4>2. v \in S /\ vs \in Seq(S)
        BY <4>1
      <4> HIDE DEF S, vs
      <4>3. Append(vs, v) \in Seq(S) /\ Append(vs, v) # <<>>
        BY <4>2, AppendProperties
      <4> QED BY <4>3 DEF S, vs
    <3> QED BY <3>1
  <2>6. list' = [list EXCEPT !.results = voters, !.loading = FALSE, !.offset = p, !.more = b, !.versions = V]
    BY <1>4 DEF VotersArrive
  <2> HIDE DEF V, b, voters, p, v
  <2>7. /\ list' \in ListType(version) /\ list'.results = voters /\ list'.offset = p /\ list'.more = b
        /\ list'.versions = V /\ list'.asked = list.asked
    BY <2>3, <2>4, <2>5, <2>6 DEF ListType
  <2>8. list'.more => Len(list'.results) < Accounts
    BY <2>7 DEF b
  <2>9. ASSUME NEW h \in Nat, VotersUpto(list', h), list.asked # NoRequest,
               \A s \in Request : request'[s].stage # "idle" =>
                   request'[s].path < Accounts /\ \E j \in Nat : j <= h + 1 /\ request'[s].path = j * Limit
        PROVE  VotersInv'
    <3>1. list'.versions # <<>> /\ list'.asked # NoRequest
      BY <2>5, <2>7, <2>9
    <3>2. VotersSome(h)'
      BY <2>9, <3>1 DEF VotersSome
    <3> QED BY <3>2 DEF VotersInv
  <2>10. CASE VotersNone
    <3>1. list.versions = <<>> /\ list.results = <<>> /\ p = 0 /\ list.asked # NoRequest
      BY <1>2, <2>10 DEF VotersNone, p
    <3>2. list'.results = Slice(v, 0, Limit) /\ list'.offset = 0 /\ list'.versions = Append(<<>>, v)
      BY <2>3, <2>7, <3>1, ConcatEmptySeq DEF voters, V
    <3>3. VotersUpto(list', 0)
      BY <2>1, <2>8, <3>2, VotersBegin
    <3>4. ASSUME NEW s \in Request, request'[s].stage # "idle"
          PROVE  request'[s].path < Accounts /\ \E j \in Nat : j <= 0 + 1 /\ request'[s].path = j * Limit
      <4>1. request'[s].path = 0
        BY <1>1, <2>10, <3>4 DEF VotersNone
      <4>2. 0 = 0 * Limit /\ 0 < Accounts /\ 0 \in Nat /\ 0 <= 0 + 1
        BY Bounds
      <4> QED BY <4>1, <4>2
    <3>5. VotersInv'
      BY <2>9, <3>1, <3>3, <3>4
    <3> QED BY <1>1, <2>7, <3>5
  <2>11. CASE ~VotersNone
    <3>1. PICK k \in Nat : VotersSome(k)
      BY <2>11 DEF VotersInv
    <3>2. VotersUpto(list, k) /\ list.asked # NoRequest /\ i <= k + 1
      BY <2>2, <3>1 DEF VotersSome
    <3>3. VotersGot(list, list', v, i * Limit)
      BY <2>2, <2>7, <2>8 DEF VotersGot, voters, V, p
    <3>4. PICK h \in Nat : k <= h /\ VotersUpto(list', h)
      BY <1>2, <2>1, <2>2, <3>2, <3>3, VotersNext
    <3>5. ASSUME NEW s \in Request, request'[s].stage # "idle"
          PROVE  request'[s].path < Accounts /\ \E j \in Nat : j <= h + 1 /\ request'[s].path = j * Limit
      <4>1. request'[s] = request[s]
        BY <1>1, <3>5
      <4>2. request[s].path < Accounts
        BY <3>1, <3>5, <4>1 DEF VotersSome
      <4>3. PICK j \in Nat : j <= k + 1 /\ request[s].path = j * Limit
        BY <3>1, <3>5, <4>1 DEF VotersSome
      <4>4. j <= h + 1
        BY <3>4, <4>3
      <4> QED BY <4>1, <4>2, <4>3, <4>4
    <3>6. VotersInv'
      BY <2>9, <3>2, <3>4, <3>5
    <3> QED BY <1>1, <2>7, <3>6
  <2> QED BY <1>1, <2>7, <2>10, <2>11
<1> QED BY <1>3, <1>4

\* The server's steps leave what a page of voters waits for.
LEMMA VotersServed ==
    ASSUME VotersInv, ServerStep, HttpInv, UNCHANGED listVars
    PROVE  VotersInv'
<1>1. Untouched /\ list' = list
  BY ServerKeeps DEF listVars
<1>2. ASSUME VotersNone PROVE VotersNone'
  BY <1>1, <1>2 DEF VotersNone, Untouched
<1>3. ASSUME NEW k \in Nat, VotersSome(k) PROVE VotersSome(k)'
  <2>1. VotersUpto(list', k)
    BY <1>1, <1>3 DEF VotersSome
  <2> QED BY <1>1, <1>3, <2>1 DEF VotersSome, Untouched
<1> QED BY <1>2, <1>3 DEF VotersInv

\* No voter before the end of what was loaded is left out.
LEMMA VotersTold ==
    ASSUME HttpInv, list \in ListType(version), VotersInv, NEW v \in Nat,
           list.versions # <<>>, ToSet(list.versions) = {v}
    PROVE  ToSet(Slice(v, 0, list.offset + Limit)) \subseteq ToSet(list.results)
<1>1. PICK k \in Nat : VotersUpto(list, k)
  BY DEF VotersInv, VotersNone, VotersSome
<1>2. PICK j \in Nat : j <= k /\ list.offset = j * Limit
  BY <1>1 DEF VotersUpto
<1>3. list.versions \in Seq(Nat)
  BY HttpUnfolded, Bounds, ListFields
<1>4. AllOf(list.versions, v)
  <2>1. DOMAIN list.versions = 1 .. Len(list.versions)
    BY <1>3, LenProperties
  <2>2. \A i \in DOMAIN list.versions : list.versions[i] \in ToSet(list.versions)
    BY DEF ToSet
  <2> QED BY <2>1, <2>2 DEF AllOf
<1>5. FirstShown(list.results, v, ShownBy(k + 1))
  BY <1>1, <1>4 DEF VotersUpto
<1> DEFINE n == list.offset + Limit
           s == Slice(v, 0, n)
           c == SliceLen(0, n)
<1>6. n \in Nat \ {0} /\ n <= (k + 1) * Limit /\ (k + 1) * Limit \in Nat
  <2>1. j + 1 \in Nat /\ k + 1 \in Nat /\ j + 1 <= k + 1
    BY <1>2
  <2>2. (j + 1) * Limit = j * Limit + Limit /\ j * Limit \in Nat
    BY Bounds, Times
  <2>3. (j + 1) * Limit <= (k + 1) * Limit /\ (k + 1) * Limit \in Nat
    BY <2>1, Bounds, Times
  <2>4. n = (j + 1) * Limit
    BY <1>2, <2>2
  <2>5. n \in Nat \ {0}
    BY <1>2, <2>2, Bounds
  <2> QED BY <2>3, <2>4, <2>5
<1> HIDE DEF n
<1>7. 0 \in Nat /\ 0 < Accounts /\ Accounts \in Nat
  BY Bounds
<1>8. s \in Seq(Nat) /\ Len(s) = c /\ c \in 1 .. n /\ \A i \in 1 .. c : s[i] = Ranking(v)[0 + i]
  <2>1. s = Slice(v, 0, n) /\ c = SliceLen(0, n)
    BY DEF s, c
  <2>2. n \in Nat \ {0}
    BY <1>6
  <2> QED BY <2>1, <2>2, FirstType
<1>9. c <= ShownBy(k + 1) /\ ShownBy(k + 1) \in Nat
  BY <1>6, <1>7 DEF SliceLen, ShownBy
<1> HIDE DEF s, c
<1>10. ASSUME NEW x \in ToSet(s) PROVE x \in ToSet(list.results)
  <2>1. DOMAIN s = 1 .. c
    BY <1>8, LenProperties
  <2>2. PICK i \in 1 .. c : x = s[i]
    BY <2>1 DEF ToSet
  <2>3. i \in 1 .. ShownBy(k + 1) /\ 0 + i = i
    BY <1>6, <1>8, <1>9
  <2>4. x = Ranking(v)[i]
    BY <1>8, <2>2, <2>3
  <2> QED BY <1>5, <2>3, <2>4 DEF FirstShown
<1> QED BY <1>10 DEF s, n

-----------------------------------------------------------------------------
(* The numbered pages of transactions. *)

\* The numbers that are links are those of pages there are, and the page is among them.
LEMMA LinksExist ==
    ASSUME NEW n \in Nat \ {0}, NEW N \in Nat, n <= N
    PROVE  RealPagination(n, N) \subseteq 1 .. N /\ n \in RealPagination(n, N)
<1>1. CASE n = N
  <2>1. RealPagination(n, N) = Positive(n - 4 .. n)
    BY <1>1, Zenon DEF RealPagination
  <2> QED BY <1>1, <2>1 DEF Positive
<1>2. CASE n # N /\ n + 1 = N
  <2>1. RealPagination(n, N) = Positive(n - 3 .. n + 1)
    BY <1>2, Zenon DEF RealPagination
  <2> QED BY <1>2, <2>1 DEF Positive
<1>3. CASE n # N /\ n + 1 # N /\ N >= 5
  <2>1. RealPagination(n, N) = Positive(CASE N >= 5 /\ n = 1 -> n .. n + 4
                                          [] N >= 5 /\ n = 2 -> n - 1 .. n + 3
                                          [] N >= 5 /\ n > 2 -> n - 2 .. n + 2
                                          [] OTHER -> 0 .. N - 1)
    BY <1>3, Zenon DEF RealPagination
  <2>2. CASE n = 1
    <3>1. RealPagination(n, N) = Positive(n .. n + 4)
      BY <1>3, <2>1, <2>2
    <3> QED BY <1>3, <2>2, <3>1 DEF Positive
  <2>3. CASE n = 2
    <3>1. RealPagination(n, N) = Positive(n - 1 .. n + 3)
      BY <1>3, <2>1, <2>3
    <3> QED BY <1>3, <2>3, <3>1 DEF Positive
  <2>4. CASE n > 2
    <3>1. RealPagination(n, N) = Positive(n - 2 .. n + 2)
      BY <1>3, <2>1, <2>4
    <3> QED BY <1>3, <2>4, <3>1 DEF Positive
  <2> QED BY <2>2, <2>3, <2>4
<1>4. CASE n # N /\ n + 1 # N /\ ~ (N >= 5)
  <2>1. RealPagination(n, N) = Positive(CASE N >= 5 /\ n = 1 -> n .. n + 4
                                          [] N >= 5 /\ n = 2 -> n - 1 .. n + 3
                                          [] N >= 5 /\ n > 2 -> n - 2 .. n + 2
                                          [] OTHER -> 0 .. N - 1)
    BY <1>4, Zenon DEF RealPagination
  <2>2. RealPagination(n, N) = Positive(0 .. N - 1)
    BY <1>4, <2>1
  <2> QED BY <1>4, <2>2 DEF Positive
<1> QED BY <1>1, <1>2, <1>3, <1>4

\* The page shown, if there is one: its links, and whether there is a next one.
TxShown(l, v) ==
    /\ l.versions = <<v>>
    /\ \A n \in l.pages : (n - 1) * Limit < TxCount(v)
    /\ l.offset \in l.pages
    /\ l.more = (l.offset * Limit < TxCount(v))

TxInv ==
    /\ Served
    /\ list.versions = <<>> => list.pages = {} /\ ~list.more
    /\ list.versions # <<>> => \E v \in 1 .. version : TxShown(list, v)
    /\ list.asked \in Request /\ request[list.asked].stage # "idle" =>
           list.offset \in Nat \ {0} /\ request[list.asked].path = (list.offset - 1) * Limit

\* A new page.
LEMMA TxNewPage ==
    ASSUME HttpInv, list \in ListType(version), TxInv, NEW r \in Request, NEW n \in Nat \ {0},
           (n - 1) * Limit < TxCount(version), Ask(r, (n - 1) * Limit),
           list' = [EmptyList EXCEPT !.offset = n, !.asked = r]
    PROVE  HttpInv' /\ (list \in ListType(version))' /\ TxInv'
<1>0. version \in 1 .. MaxVersion /\ version \in Nat
  BY HttpUnfolded, Bounds
<1> DEFINE p == (n - 1) * Limit
<1>1. p \in Path
  <2>1. n - 1 \in Nat /\ TxCount(version) \in Nat /\ TxCount(version) <= MaxPages * Limit
    BY <1>0, Counts
  <2> QED BY <2>1, PathBefore
<1> HIDE DEF p
<1>2. /\ HttpInv' /\ version' = version /\ request'[r].path = p
      /\ \A s \in Request \ {r} : request'[s] = request[s]
  BY <1>1, AskKeeps DEF p
<1>3. Served'
  BY <1>1, ServedAsk DEF TxInv, p
<1>4. EmptyList \in ListType(version) /\ EmptyList.versions = <<>> /\ EmptyList.pages = {} /\ ~EmptyList.more
  BY <1>0, EmptyTyped DEF EmptyList
<1>5. /\ list' \in ListType(version) /\ list'.versions = <<>> /\ list'.pages = {} /\ ~list'.more
      /\ list'.offset = n /\ list'.asked = r
  <2>1. n \in Nat
    OBVIOUS
  <2> QED BY <1>4, <2>1 DEF ListType
<1>6. TxInv'
  <2>1. request'[list'.asked].path = (list'.offset - 1) * Limit /\ list'.offset \in Nat \ {0}
    BY <1>2, <1>5 DEF p
  <2> QED BY <1>3, <1>5, <2>1 DEF TxInv
<1> QED BY <1>2, <1>5, <1>6

\* A link or an arrow leads to a page that exists.
LEMMA TxGoes ==
    ASSUME HttpInv, list \in ListType(version), TxInv, NEW n \in 1 .. MaxPages, GoTo(n)
    PROVE  HttpInv' /\ (list \in ListType(version))' /\ TxInv'
<1>1. PICK r \in Request : Ask(r, (n - 1) * Limit) /\ list' = [EmptyList EXCEPT !.offset = n, !.asked = r]
  BY DEF GoTo
<1>2. n \in list.pages \/ (list.more /\ n = list.offset + 1)
  BY DEF GoTo
<1>3. list.versions # <<>>
  BY <1>2 DEF TxInv
<1>4. PICK v \in 1 .. version : TxShown(list, v)
  BY <1>3 DEF TxInv
<1>5. (n - 1) * Limit < TxCount(v)
  <2>1. CASE n \in list.pages
    BY <1>4, <2>1 DEF TxShown
  <2>2. CASE list.more /\ n = list.offset + 1
    <3>1. n - 1 = list.offset
      BY <1>4, <2>2, HttpUnfolded, Bounds, ListFields
    <3> QED BY <1>4, <2>2, <3>1 DEF TxShown
  <2> QED BY <1>2, <2>1, <2>2
<1>6. TxCount(v) <= TxCount(version) /\ TxCount(v) \in Nat /\ TxCount(version) \in Nat
  BY HttpUnfolded, Bounds, Counts
<1>7. n \in Nat \ {0} /\ (n - 1) * Limit \in Nat
  <2>1. n \in Nat \ {0} /\ n - 1 \in Nat
    BY Bounds
  <2> QED BY <2>1, Bounds, Times
<1>8. (n - 1) * Limit < TxCount(version)
  BY <1>5, <1>6, <1>7
<1> QED BY <1>1, <1>7, <1>8, TxNewPage

\* The first page always exists.
LEMMA TxOpens ==
    ASSUME HttpInv, list \in ListType(version), TxInv, OpenTransactions
    PROVE  HttpInv' /\ (list \in ListType(version))' /\ TxInv'
<1>1. PICK r \in Request : Ask(r, 0) /\ list' = [EmptyList EXCEPT !.offset = 1, !.asked = r]
  BY DEF OpenTransactions
<1>2. 1 - 1 = 0 /\ 0 * Limit = 0 /\ 1 \in Nat \ {0}
  BY Bounds
<1>3. (1 - 1) * Limit = 0
  BY <1>2
<1>4. 0 < TxCount(version)
  BY HttpUnfolded, Bounds, Counts
<1> QED BY <1>1, <1>2, <1>3, <1>4, TxNewPage

\* The entries of a page.
LEMMA TxEntries ==
    ASSUME NEW p \in Nat, NEW d \in Nat
    PROVE  [i \in 1 .. d |-> p + i] \in Seq(Nat)
<1>1. [i \in 1 .. d |-> p + i] \in [1 .. d -> Nat]
  OBVIOUS
<1> DEFINE f == [i \in 1 .. d |-> p + i]
<1> HIDE DEF f
<1>2. f \in [1 .. d -> Nat] => f \in Seq(Nat)
  OBVIOUS
<1> QED BY <1>1, <1>2 DEF f

\* What an answer says of its page.
LEMMA TxNumbers ==
    ASSUME NEW v \in 1 .. MaxVersion, NEW n \in Nat \ {0}, (n - 1) * Limit < TxCount(v)
    PROVE  LET count == TxCount(v)
               N == (count + Limit - 1) \div Limit
               rest == count - (n - 1) * Limit
           IN  /\ RealPagination(n, N) \subseteq 1 .. MaxPages /\ n \in RealPagination(n, N)
               /\ \A k \in RealPagination(n, N) : (k - 1) * Limit < count
               /\ rest > 0 /\ rest \in Nat /\ (rest > Limit <=> n * Limit < count)
<1> DEFINE count == TxCount(v)
           N == (count + Limit - 1) \div Limit
<1>1. count \in Nat \ {0} /\ count <= MaxPages * Limit
  BY Bounds, Counts
<1> HIDE DEF count
<1>2. N \in Nat \ {0} /\ (N - 1) * Limit < count /\ count <= N * Limit
  BY <1>1, PagesOf
<1> HIDE DEF N
<1>3. (n - 1) * Limit \in Nat /\ n * Limit = (n - 1) * Limit + Limit /\ (n - 1) * Limit < count
      /\ n * Limit \in Nat
  <2>1. n - 1 \in Nat /\ (n - 1) + 1 = n
    OBVIOUS
  <2>2. (n - 1) * Limit \in Nat /\ ((n - 1) + 1) * Limit = (n - 1) * Limit + Limit
    BY <2>1, Bounds, Times
  <2>3. n * Limit = (n - 1) * Limit + Limit
    BY <2>1, <2>2, Zenon
  <2> QED BY <2>2, <2>3, Bounds DEF count
<1>4. n <= N
  <2>1. n - 1 \in Nat /\ N \in Nat /\ N * Limit \in Nat
    BY <1>2, Bounds, Times
  <2>2. (n - 1) * Limit < N * Limit
    BY <1>1, <1>2, <1>3, <2>1
  <2>3. n - 1 < N
    BY <2>1, <2>2, Bounds, Times
  <2> QED BY <1>2, <2>3
<1>5. N <= MaxPages
  <2>1. N - 1 \in Nat /\ MaxPages \in Nat /\ MaxPages * Limit \in Nat /\ (N - 1) * Limit \in Nat
    BY <1>2, Bounds, Times
  <2>2. (N - 1) * Limit < MaxPages * Limit
    BY <1>1, <1>2, <2>1
  <2>3. N - 1 < MaxPages
    BY <2>1, <2>2, Bounds, Times
  <2> QED BY <1>2, <2>1, <2>3
<1>6. RealPagination(n, N) \subseteq 1 .. N /\ n \in RealPagination(n, N)
  BY <1>2, <1>4, LinksExist
<1>7. ASSUME NEW k \in 1 .. N PROVE k \in 1 .. MaxPages /\ (k - 1) * Limit < count
  <2>1. k - 1 \in Nat /\ N - 1 \in Nat /\ k - 1 <= N - 1 /\ k \in 1 .. MaxPages
    BY <1>2, <1>5, Bounds
  <2>2. (k - 1) * Limit <= (N - 1) * Limit /\ (k - 1) * Limit \in Nat /\ (N - 1) * Limit \in Nat
    BY <2>1, Bounds, Times
  <2> QED BY <1>1, <1>2, <2>1, <2>2
<1>8. count - (n - 1) * Limit > 0 /\ count - (n - 1) * Limit \in Nat
      /\ (count - (n - 1) * Limit > Limit <=> n * Limit < count)
  BY <1>1, <1>3, Bounds
<1> QED BY <1>6, <1>7, <1>8 DEF N, count

\* The answer to the last request is shown, and any other dropped.
LEMMA TxArriveKept ==
    ASSUME HttpInv, list \in ListType(version), TxInv, NEW r \in Request, TransactionsArrive(r)
    PROVE  HttpInv' /\ (list \in ListType(version))' /\ TxInv'
<1>1. /\ HttpInv' /\ version' = version /\ request[r].stage \in {"answered", "lost"}
      /\ request'[r].stage = "idle" /\ (Answer(r) => request[r].version \in 1 .. version)
      /\ request[r].path \in Path
      /\ \A s \in Request \ {r} : request'[s] = request[s]
  BY TakeKeeps DEF TransactionsArrive
<1>2. version \in Nat /\ version \in 1 .. MaxVersion /\ MaxVersion \in Nat /\ request[r].stage # "idle"
  BY <1>1, HttpUnfolded, Bounds
<1>3. Served'
  BY ServedTake DEF TxInv, TransactionsArrive
<1>4. ASSUME list'.asked = list.asked, list'.offset = list.offset
      PROVE  list'.asked \in Request /\ request'[list'.asked].stage # "idle" =>
               list'.offset \in Nat \ {0} /\ request'[list'.asked].path = (list'.offset - 1) * Limit
  BY <1>1, <1>4 DEF TxInv
<1>5. CASE r # list.asked
  <2>1. list' = list
    BY <1>5 DEF TransactionsArrive
  <2>2. TxInv'
    BY <1>1, <1>3, <1>4, <2>1 DEF TxInv
  <2> QED BY <1>1, <2>1, <2>2
<1>6. CASE r = list.asked /\ ~Answer(r)
  <2>1. list' = [list EXCEPT !.loading = FALSE] \/ list' = [list EXCEPT !.broken = TRUE]
    BY <1>6 DEF TransactionsArrive
  <2>2. /\ list' \in ListType(version) /\ list'.asked = list.asked /\ list'.versions = list.versions
        /\ list'.pages = list.pages /\ list'.offset = list.offset /\ list'.more = list.more
    BY <2>1 DEF ListType
  <2>3. ASSUME NEW v \in 1 .. version, TxShown(list, v) PROVE TxShown(list', v)
    BY <2>2, <2>3 DEF TxShown
  <2>4. list'.versions # <<>> => \E v \in 1 .. version : TxShown(list', v)
    BY <2>2, <2>3 DEF TxInv
  <2>5. list'.versions = <<>> => list'.pages = {} /\ ~list'.more
    BY <2>2 DEF TxInv
  <2>6. TxInv'
    BY <1>1, <1>3, <1>4, <2>2, <2>4, <2>5 DEF TxInv
  <2> QED BY <1>1, <2>2, <2>6
<1>7. CASE r = list.asked /\ Answer(r)
  <2> DEFINE v == request[r].version
             p == request[r].path
             n == list.offset
             count == TxCount(v)
             rest == count - p
             data == IF rest <= 0 THEN 0 ELSE IF rest < 2 * Limit + 1 THEN rest ELSE 2 * Limit + 1
             N == (count + Limit - 1) \div Limit
             b == data > Limit
             R == [i \in 1 .. IF data < Limit THEN data ELSE Limit |-> p + i]
  <2>1. n \in Nat \ {0} /\ p = (n - 1) * Limit
    BY <1>2, <1>7 DEF TxInv
  <2>2. v \in 1 .. version /\ v \in 1 .. MaxVersion /\ v # 0
    BY <1>1, <1>2, <1>7
  <2>3. (n - 1) * Limit < count
    BY <1>2, <2>1, <2>2 DEF TxInv, Served
  <2>4. /\ RealPagination(n, N) \subseteq 1 .. MaxPages /\ n \in RealPagination(n, N)
        /\ (\A k \in RealPagination(n, N) : (k - 1) * Limit < count)
        /\ rest > 0 /\ rest \in Nat /\ (rest > Limit <=> n * Limit < count)
    BY <2>1, <2>2, <2>3, TxNumbers
  <2>5. list' = [list EXCEPT !.loading = FALSE, !.more = b, !.pages = RealPagination(n, N),
                             !.results = R, !.versions = <<v>>]
    BY <1>7 DEF TransactionsArrive
  <2> HIDE DEF rest, N, count
  <2>6. data \in Nat /\ (b <=> rest > Limit)
    BY <2>4, Bounds
  <2> HIDE DEF data
  <2>7. R \in Seq(Nat)
    <3>1. p \in Nat /\ (IF data < Limit THEN data ELSE Limit) \in Nat
      BY <1>1, <2>6, PathsAre, Bounds
    <3> QED BY <3>1, TxEntries
  <2>8. <<v>> \in Seq(1 .. version) /\ <<v>> # <<>>
    BY <2>2
  <2>9. b \in BOOLEAN /\ RealPagination(n, N) \in SUBSET (1 .. MaxPages)
    BY <2>4
  <2> DEFINE L == RealPagination(n, N)
             V == <<v>>
  <2>10. list' = [list EXCEPT !.loading = FALSE, !.more = b, !.pages = L, !.results = R, !.versions = V]
    BY <2>5
  <2> HIDE DEF R, b, L, V
  <2>11. /\ list' \in ListType(version) /\ list'.asked = list.asked /\ list'.versions = V
         /\ list'.pages = L /\ list'.offset = list.offset /\ list'.more = b
    BY <2>7, <2>8, <2>9, <2>10 DEF ListType, V, L
  <2>12. TxShown(list', v)
    <3>1. n \in L /\ \A k \in L : (k - 1) * Limit < TxCount(v)
      BY <2>4 DEF L, count
    <3>2. b = (n * Limit < TxCount(v))
      BY <2>4, <2>6, <2>9 DEF count
    <3> QED BY <2>11, <3>1, <3>2 DEF TxShown, V
  <2>13. TxInv'
    <3>1. list'.versions # <<>>
      BY <2>8, <2>11 DEF V
    <3>2. \E w \in 1 .. version' : TxShown(list', w)
      BY <1>1, <2>2, <2>12
    <3> QED BY <1>1, <1>3, <1>4, <2>11, <3>1, <3>2 DEF TxInv
  <2> QED BY <1>1, <2>11, <2>13
<1> QED BY <1>5, <1>6, <1>7

\* The server's steps leave what a page of transactions waits for.
LEMMA TxServed ==
    ASSUME TxInv, ServerStep, HttpInv, UNCHANGED listVars
    PROVE  TxInv'
<1>1. Untouched /\ list' = list /\ version \in Nat /\ version' \in Nat /\ version <= version'
  BY ServerKeeps DEF listVars
<1>2. Served'
  BY ServedKept DEF TxInv
<1>3. 1 .. version \subseteq 1 .. version'
  BY <1>1
<1> QED BY <1>1, <1>2, <1>3 DEF TxInv, Untouched

-----------------------------------------------------------------------------
(* The search box. *)

\* A search asks for one of the first two pages.
LEMMA SearchKept ==
    ASSUME HttpInv, list \in ListType(version), NEW q \in {0, Limit}, Search(q)
    PROVE  HttpInv' /\ (list \in ListType(version))'
<1>1. PICK r \in Request : /\ Ask(r, q)
                           /\ list' = [list EXCEPT !.loading = TRUE, !.asked = r,
                                                   !.results = <<>>, !.broken = FALSE]
  BY DEF Search
<1>2. q \in Path
  <2>1. 0 \in Path
    BY PathsAre
  <2>2. Limit \in Path
    <3>1. 1 \in 1 .. MaxVersion /\ TxCount(1) <= MaxPages * Limit
      BY Bounds, Counts
    <3>2. 1 * Limit = Limit /\ TxCount(1) = 3 + Limit
      BY Bounds, Times DEF TxCount
    <3>3. PICK x \in Nat : x = 1 * Limit
      BY Bounds, <3>2
    <3>4. x < TxCount(1) /\ TxCount(1) \in Nat
      BY <3>2, <3>3, Bounds
    <3>5. x \in Path
      BY <3>1, <3>3, <3>4, PathBefore
    <3> QED BY <3>2, <3>3, <3>5
  <2> QED BY <2>1, <2>2
<1>3. HttpInv' /\ version' = version
  BY <1>1, <1>2, AskKeeps
<1>4. <<>> \in Seq(Nat)
  BY EmptySeq
<1>5. list' \in ListType(version)
  BY <1>1, <1>4 DEF ListType
<1> QED BY <1>3, <1>5

\* The page shown is the one of the answer that came last.
LEMMA ResultsArriveKept ==
    ASSUME HttpInv, list \in ListType(version), NEW r \in Request, ResultsArrive(r)
    PROVE  HttpInv' /\ (list \in ListType(version))'
<1>1. Take(r)
  BY DEF ResultsArrive
<1>2. HttpInv' /\ version' = version
  BY <1>1, TakeKeeps
<1>3. request[r].path \in Nat
  BY HttpUnfolded, PathsAre DEF Requests
<1>4. <<request[r].path>> \in Seq(Nat)
  BY <1>3
<1>5. list' \in ListType(version)
  BY <1>4 DEF ResultsArrive, ListType
<1> QED BY <1>2, <1>5

-----------------------------------------------------------------------------
(* The pages with lists together. *)

ListInv ==
    /\ HttpInv /\ list \in ListType(version)
    /\ page = "accounts" => AccountsInv
    /\ page = "voters" => VotersInv
    /\ page = "transactions" => TxInv

\* A page opens with an empty list and no request.
LEMMA ListInitially == ListInit => ListInv
<1> SUFFICES ASSUME ListInit PROVE ListInv
  OBVIOUS
<1>1. HttpInit /\ list = [EmptyList EXCEPT !.loading = (page # "search")]
  BY DEF ListInit
<1>2. HttpInv /\ version \in Nat
  BY <1>1, HttpInitially, HttpUnfolded, Bounds
<1>3. EmptyList \in ListType(version)
  BY <1>2, EmptyTyped
<1>4. list \in ListType(version)
  BY <1>1, <1>3 DEF ListType
<1>5. (\A r \in Request : request[r].stage = "idle") /\ \A p \in Path : saved[p] = NotSaved
  BY <1>1 DEF HttpInit, Idle
<1>6. /\ list.results = <<>> /\ list.versions = <<>> /\ list.offset = 0 /\ ~list.more /\ ~list.less
      /\ list.asked = NoRequest /\ list.pages = {} /\ ~list.broken
      /\ page # "search" => list.loading
  BY <1>1 DEF EmptyList
<1>7. ASSUME page = "accounts" PROVE AccountsInv
  <2>1. Len(list.results) = 0 /\ Len(list.versions) = 0
    BY <1>6, EmptySeq
  <2>2. 0 * Limit = 0 /\ 0 < Accounts
    BY Bounds, Times
  <2>3. list.results = Flat(list.versions)
    BY <1>6, FlatEmpty
  <2>4. Whole(list)
    BY <1>6, <1>7, <2>1, <2>2, <2>3 DEF Whole
  <2>5. \E k \in Nat : list.offset = k * Limit /\ (k > 0 => (k - 1) * Limit < Accounts)
    <3>1. list.offset = 0 * Limit /\ 0 \in Nat /\ ~(0 > 0)
      BY <1>6, <2>2
    <3> QED BY <3>1
  <2>6. AccountsOK(list)
    BY <1>6, <1>7, <2>1, <2>2, <2>4, <2>5 DEF AccountsOK
  <2> QED BY <1>5, <2>6 DEF AccountsInv
<1>8. VotersInv
  BY <1>5, <1>6 DEF VotersInv, VotersNone
<1>9. TxInv
  <2>1. Served
    BY <1>5 DEF Served
  <2> QED BY <1>5, <1>6, <2>1 DEF TxInv
<1> QED BY <1>2, <1>4, <1>7, <1>8, <1>9 DEF ListInv

\* Each page keeps what holds of its list, and of its requests.
LEMMA ListKept ==
    ASSUME ListInv, ListStep
    PROVE  ListInv' /\ page' = page
<1>1. HttpInv /\ list \in ListType(version)
  BY DEF ListInv
<1>2. ASSUME ServerStep, UNCHANGED listVars PROVE ListInv' /\ page' = page
  <2>1. HttpInv'
    BY <1>1, <1>2, ServerKeeps
  <2>2. (list \in ListType(version))'
    BY <1>1, <1>2, ListStays
  <2>3. page' = page
    BY <1>2 DEF listVars
  <2>4. AccountsInv => AccountsInv'
    BY <1>1, <1>2, AccountsServed
  <2>5. VotersInv => VotersInv'
    BY <1>1, <1>2, VotersServed
  <2>6. TxInv => TxInv'
    BY <1>1, <1>2, TxServed
  <2> QED BY <2>1, <2>2, <2>3, <2>4, <2>5, <2>6 DEF ListInv
<1>3. ASSUME LoadData \/ LoadMore \/ LoadLess \/ \E r \in Request : AccountsArrive(r)
      PROVE  ListInv' /\ page' = page
  <2>1. page = "accounts" /\ page' = page
    BY <1>3 DEF LoadData, LoadMore, LoadLess, AccountsArrive, Take
  <2>2. AccountsInv
    BY <2>1 DEF ListInv
  <2>3. HttpInv' /\ (list \in ListType(version))' /\ AccountsInv'
    BY <1>1, <1>3, <2>2, AccountsLoad, AccountsMoreKept, AccountsLessKept, AccountsArriveKept
  <2> QED BY <2>1, <2>3 DEF ListInv
<1>4. ASSUME GetVoters \/ LoadMoreVoters \/ \E r \in Request : VotersArrive(r)
      PROVE  ListInv' /\ page' = page
  <2>1. page = "voters" /\ page' = page
    BY <1>4 DEF GetVoters, LoadMoreVoters, VotersArrive, Take, listVars
  <2>2. VotersInv
    BY <2>1 DEF ListInv
  <2>3. HttpInv' /\ (list \in ListType(version))' /\ VotersInv'
    BY <1>1, <1>4, <2>2, VotersAsked, VotersMore, VotersArriveKept
  <2> QED BY <2>1, <2>3 DEF ListInv
<1>5. ASSUME \/ OpenTransactions \/ \E n \in 1 .. MaxPages : GoTo(n)
             \/ \E r \in Request : TransactionsArrive(r)
      PROVE  ListInv' /\ page' = page
  <2>1. page = "transactions" /\ page' = page
    BY <1>5 DEF OpenTransactions, GoTo, TransactionsArrive, Take
  <2>2. TxInv
    BY <2>1 DEF ListInv
  <2>3. HttpInv' /\ (list \in ListType(version))' /\ TxInv'
    BY <1>1, <1>5, <2>2, TxOpens, TxGoes, TxArriveKept
  <2> QED BY <2>1, <2>3 DEF ListInv
<1>6. ASSUME (\E q \in {0, Limit} : Search(q)) \/ \E r \in Request : ResultsArrive(r)
      PROVE  ListInv' /\ page' = page
  <2>1. page = "search" /\ page' = page
    BY <1>6 DEF Search, ResultsArrive, Take
  <2>2. HttpInv' /\ (list \in ListType(version))'
    BY <1>1, <1>6, SearchKept, ResultsArriveKept
  <2> QED BY <2>1, <2>2 DEF ListInv
<1> QED BY <1>2, <1>3, <1>4, <1>5, <1>6 DEF ListStep, Arrive

\* Steps of other pages leave lists and server alone.
LEMMA ListSame ==
    ASSUME ListInv, UNCHANGED <<httpVars, listVars>>
    PROVE  ListInv' /\ page' = page
<1>1. /\ version' = version /\ server' = server /\ saved' = saved /\ request' = request
      /\ httpFaults' = httpFaults /\ page' = page /\ list' = list
  BY DEF httpVars, listVars
<1>2. HttpInv'
  BY <1>1 DEF ListInv, HttpInv, HttpTypeOK
<1>3. AccountsInv => AccountsInv'
  BY <1>1 DEF AccountsInv
<1>4. VotersInv => VotersInv'
  BY <1>1 DEF VotersInv, VotersNone, VotersSome
<1>5. TxInv => TxInv'
  BY <1>1 DEF TxInv, Served
<1> QED BY <1>1, <1>2, <1>3, <1>4, <1>5 DEF ListInv

\* The variables of lists and server are of their types.
LEMMA ListTyped == ListInv => ListTypeOK
BY DEF ListInv, HttpInv, ListTypeOK, ListType

\* What the pages with lists promise.
LEMMA ListsShown == ListInv => ListsTrue
<1> SUFFICES ASSUME ListInv PROVE AccountsWhole /\ NoVoterSkipped /\ PagesExist
  BY DEF ListsTrue
<1>1. HttpInv /\ list \in ListType(version) /\ version \in Nat
  BY HttpUnfolded, Bounds DEF ListInv
<1>2. AccountsWhole
  <2> SUFFICES ASSUME page = "accounts", ~list.loading, ~list.broken
               PROVE  LET n == Len(list.versions)
                      IN  /\ list.results =
                               FlattenSeq([i \in 1 .. n |-> Slice(list.versions[i], (i - 1) * Limit, Limit)])
                          /\ list.offset = n * Limit
                          /\ list.less = (n > 1)
                          /\ list.more = (n * Limit < Accounts /\ (n + 1) * Limit <= Maximum)
    BY DEF AccountsWhole
  <2>1. AccountsOK(list)
    BY DEF ListInv, AccountsInv
  <2> QED BY <1>1, <2>1, AccountsTold
<1>3. NoVoterSkipped
  <2> SUFFICES ASSUME NEW v \in 1 .. version, page = "voters", list.versions # <<>>,
                      ToSet(list.versions) = {v}
               PROVE  ToSet(Slice(v, 0, list.offset + Limit)) \subseteq ToSet(list.results)
    BY DEF NoVoterSkipped
  <2>1. VotersInv /\ v \in Nat
    BY DEF ListInv
  <2> QED BY <1>1, <2>1, VotersTold
<1>4. PagesExist
  <2> SUFFICES ASSUME page = "transactions", list.versions # <<>>
               PROVE  LET count == TxCount(list.versions[1])
                      IN  /\ \A n \in list.pages : (n - 1) * Limit < count
                          /\ list.offset \in list.pages
                          /\ list.more = (list.offset * Limit < count)
    BY DEF PagesExist
  <2>1. PICK v \in 1 .. version : TxShown(list, v)
    BY DEF ListInv, TxInv
  <2>2. list.versions[1] = v
    BY <2>1 DEF TxShown
  <2> QED BY <2>1, <2>2 DEF TxShown
<1> QED BY <1>2, <1>3, <1>4

-----------------------------------------------------------------------------
(* The web client. *)

\* What holds in every state, whichever page is open.
ClientInv == ListInv /\ GraphInv /\ StatusInv /\ PeersInv

\* All pages begin as they should.
LEMMA ClientInitially == Init => ClientInv
BY ListInitially, GraphInitially, StatusInitially, PeersInitially DEF Init, ClientInv

\* One page takes a step, and what the others stand on stays.
LEMMA ClientKept ==
    ASSUME ClientInv, [Next]_vars
    PROVE  ClientInv'
<1>1. ListInv /\ GraphInv /\ StatusInv /\ PeersInv
  BY DEF ClientInv
<1>2. UNCHANGED <<httpVars, listVars>> => ListInv'
  BY <1>1, ListSame
<1>3. UNCHANGED graphVars => GraphInv'
  BY <1>1, GraphKept
<1>4. UNCHANGED statusVars => StatusInv'
  BY <1>1, StatusKept
<1>5. UNCHANGED peerVars => PeersInv'
  BY <1>1, PeersKept
<1>6. ASSUME ListStep, OnLists PROVE ClientInv'
  <2>1. ListInv'
    BY <1>1, <1>6, ListKept
  <2> QED BY <1>3, <1>4, <1>5, <1>6, <2>1 DEF OnLists, ClientInv
<1>7. ASSUME GraphStep, OnGraph PROVE ClientInv'
  <2>1. GraphInv'
    BY <1>1, <1>7, GraphKept
  <2> QED BY <1>2, <1>4, <1>5, <1>7, <2>1 DEF OnGraph, ClientInv
<1>8. ASSUME StatusStep, OnDelegates PROVE ClientInv'
  <2>1. StatusInv'
    BY <1>1, <1>8, StatusKept
  <2> QED BY <1>2, <1>3, <1>5, <1>8, <2>1 DEF OnDelegates, ClientInv
<1>9. ASSUME PeersStep, OnPeers PROVE ClientInv'
  <2>1. PeersInv'
    BY <1>1, <1>9, PeersKept
  <2> QED BY <1>2, <1>3, <1>4, <1>9, <2>1 DEF OnPeers, ClientInv
<1>10. ASSUME UNCHANGED vars PROVE ClientInv'
  BY <1>2, <1>3, <1>4, <1>5, <1>10 DEF vars, ClientInv
<1> QED BY <1>6, <1>7, <1>8, <1>9, <1>10 DEF Next

\* The invariant of the web client holds in every state.
THEOREM ClientAlways == Spec => []ClientInv
<1>1. Init => ClientInv
  BY ClientInitially
<1>2. ClientInv /\ [Next]_vars => ClientInv'
  BY ClientKept
<1> QED BY <1>1, <1>2, PTL DEF Spec

\* Whatever page is open and whatever fails on the way to it, every variable of the
\* client and of the server it asks is of its type.
THEOREM ClientTyped == Spec => []TypeOK
<1>1. ClientInv => TypeOK
  BY ListTyped, GraphTyped, StatusTyped DEF ClientInv, TypeOK, PeersInv
<1> QED BY <1>1, ClientAlways, PTL

\* services/less-more.js, components/address, services/pagination.js: whatever is loaded
\* again, overtaken or lost, lists have no hole and the right buttons.
THEOREM ListsAlwaysTrue == Spec => []ListsTrue
<1>1. ClientInv => ListsTrue
  BY ListsShown DEF ClientInv
<1> QED BY <1>1, ClientAlways, PTL

\* activity-graph.service.js: whatever blocks come again, are left out or are replaced by
\* others, the graph has the nodes and edges of the blocks it counts, and no other.
THEOREM GraphAlwaysExact == Spec => []GraphExact
<1>1. ClientInv => GraphExact
  BY GraphShown DEF ClientInv
<1> QED BY <1>1, ClientAlways, PTL

\* network-monitor.service.js: whoever comes or goes and whenever the map is opened, it
\* has the markers of the peers shown, and what is counted apart adds up.
THEOREM PeersAlwaysTrue == Spec => []PeersTrue
<1>1. ClientInv => PeersTrue
  BY PeersShown DEF ClientInv
<1> QED BY <1>1, ClientAlways, PTL

\* Every page shows what the answers and pushes it got say.
THEOREM PagesAlwaysTrue == Spec => []PagesTrue
<1>1. ClientInv => PagesTrue
  BY ListsShown, GraphShown, PeersShown DEF ClientInv, PagesTrue
<1> QED BY <1>1, ClientAlways, PTL
=============================================================================
