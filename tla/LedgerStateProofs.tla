------------------------- MODULE LedgerStateProofs --------------------------
(***************************************************************************)
(* Proofs about LedgerState: for any keys, book and ranges, and while no   *)
(* row is old enough to expire, what is read from the tables is what the   *)
(* ledgers hold.                                                           *)
(*                                                                         *)
(* The argument: each link that a ledger writes is right in it, a link     *)
(* that it does not write has not changed, and a read of a ledger finds    *)
(* the newest row that is not newer than the ledger.  So the link of every *)
(* live key leads to the next one, in every ledger, and a walk that        *)
(* follows links that do is complete.  That is an induction over the       *)
(* steps of the walk, done with the least natural number that fails.       *)
(***************************************************************************)
EXTENDS LedgerState, FiniteSetTheorems, WellFoundedInduction, TLAPS

(* A set of naturals that is not empty has a least element.                 *)
LEMMA LeastNat ==
    ASSUME NEW T, T \subseteq Nat, T # {}
    PROVE  \E m \in T : \A n \in T : m <= n
<1>1. PICK m \in T : \A n \in T : ~(<<n, m>> \in OpToRel(<, Nat))
  BY NatLessThanWellFounded, WFMin
<1>2. \A n \in T : ~(n < m)
  BY <1>1 DEF OpToRel
<1>3. m \in Nat /\ \A n \in T : n \in Nat
  OBVIOUS
<1>4. \A n \in T : m <= n
  BY <1>2, <1>3
<1> QED
  BY <1>4

(* Induction, for a set of naturals in place of a predicate.                *)
LEMMA Induction ==
    ASSUME NEW P, 0 \in P, \A n \in Nat : n \in P => n + 1 \in P
    PROVE  Nat \subseteq P
<1> DEFINE T == Nat \ P
<1> SUFFICES ASSUME T # {} PROVE FALSE
  OBVIOUS
<1>1. PICK m \in T : \A n \in T : m <= n
  BY LeastNat
<1>2. m \in Nat /\ m # 0
  OBVIOUS
<1>3. m - 1 \in Nat /\ (m - 1) + 1 = m /\ ~(m <= m - 1)
  BY <1>2
<1>4. m - 1 \in T
  BY <1>3
<1> QED
  BY <1>1, <1>3, <1>4

LEMMA MinIn ==
    ASSUME NEW S, S \subseteq Nat, S # {}
    PROVE  Min(S) \in S /\ \A n \in S : Min(S) <= n
BY LeastNat DEF Min

(* A finite set of naturals has a greatest element: one without would give, *)
(* without one of its elements, a smaller one.                              *)
LEMMA MaxIn ==
    ASSUME NEW S, S \subseteq Nat, S # {}, IsFiniteSet(S)
    PROVE  Max(S) \in S /\ \A n \in S : n <= Max(S)
<1> DEFINE HasMax(U) == \E m \in U : \A n \in U : m >= n
           P == {c \in Nat : \A U \in SUBSET S : U # {} /\ Cardinality(U) = c => HasMax(U)}
<1>1. \A U \in SUBSET S : IsFiniteSet(U) /\ Cardinality(U) \in Nat
  BY FS_Subset, FS_CardinalityType
<1>2. 0 \in P
  <2>1. \A U \in SUBSET S : Cardinality(U) = 0 => U = {}
    BY <1>1, FS_EmptySet
  <2> QED
    BY <2>1
<1>3. ASSUME NEW c \in Nat, c \in P
      PROVE  c + 1 \in P
  <2> SUFFICES ASSUME NEW U \in SUBSET S, U # {}, Cardinality(U) = c + 1
               PROVE  HasMax(U)
    OBVIOUS
  <2>1. PICK x \in U : TRUE
    OBVIOUS
  <2>2. Cardinality(U \ {x}) = c
    <3>1. Cardinality(U \ {x}) = Cardinality(U) - 1
      BY <1>1, <2>1, FS_RemoveElement
    <3> QED
      BY <3>1
  <2>3. CASE U \ {x} = {}
    <3>1. x \in Nat /\ U = {x}
      BY <2>1, <2>3
    <3> QED
      BY <3>1
  <2>4. CASE U \ {x} # {}
    <3>1. HasMax(U \ {x})
      BY <1>3, <2>2, <2>4
    <3>2. PICK y \in U \ {x} : \A n \in U \ {x} : y >= n
      BY <3>1
    <3>3. x \in Nat /\ y \in Nat /\ \A n \in U : n \in Nat
      BY <2>1
    <3>4. CASE x >= y
      <4>1. \A n \in U : x >= n
        BY <3>2, <3>3, <3>4
      <4> QED
        BY <2>1, <4>1
    <3>5. CASE ~(x >= y)
      <4>1. \A n \in U : y >= n
        BY <3>2, <3>3, <3>5
      <4> QED
        BY <4>1
    <3> QED
      BY <3>4, <3>5
  <2> QED
    BY <2>3, <2>4
<1>4. Cardinality(S) \in P
  <2> HIDE DEF P
  <2> QED
    BY <1>1, <1>2, <1>3, Induction
<1>5. HasMax(S)
  BY <1>1, <1>4
<1>6. Max(S) \in S /\ \A n \in S : Max(S) >= n
  BY <1>5 DEF Max
<1>7. Max(S) \in Nat /\ \A n \in S : n \in Nat
  BY <1>6
<1> QED
  BY <1>6, <1>7

-----------------------------------------------------------------------------
(* Walks.  n is what follows k in S, or NoKey at the end.                   *)
IsNext(S, k, n) ==
    \/ n = NoKey /\ \A j \in S : j <= k
    \/ n \in S /\ k < n /\ \A j \in S : k < j => n <= j

LEMMA NextUnique ==
    ASSUME NEW S, S \subseteq Nat, NEW k \in Int, NEW m, NEW n, IsNext(S, k, m), IsNext(S, k, n)
    PROVE  m = n
<1>1. NoKey \notin S /\ \A j \in S : j \in Nat
  BY DEF NoKey
<1>2. CASE m = NoKey /\ n = NoKey
  BY <1>2
<1>3. CASE m \in S /\ n \in S
  <2>1. m \in Nat /\ n \in Nat /\ NoKey \notin S
    BY <1>1, <1>3 DEF NoKey
  <2>2. k < m /\ k < n /\ m <= n /\ n <= m
    BY <1>3, <2>1 DEF IsNext
  <2> QED
    BY <2>1, <2>2
<1>4. CASE m = NoKey /\ n # NoKey
  <2>1. n \in S /\ k < n /\ n <= k
    BY <1>1, <1>4 DEF IsNext
  <2> QED
    BY <1>1, <2>1
<1>5. CASE m # NoKey /\ n = NoKey
  <2>1. m \in S /\ k < m /\ m <= k
    BY <1>1, <1>5 DEF IsNext
  <2> QED
    BY <1>1, <2>1
<1> QED
  BY <1>2, <1>3, <1>4, <1>5 DEF IsNext

(* The recursive function of Walk exists.                                   *)
WalkStep(next, k, keys, n) ==
    IF n = 0 THEN << >>
    ELSE LET found == keys[n - 1]
             succ == next[IF found = << >> THEN k ELSE found[Len(found)]]
         IN  IF Len(found) < n - 1 \/ succ = NoKey THEN found ELSE Append(found, succ)

LEMMA WalkDef ==
    ASSUME NEW next, NEW k, NEW limit \in Nat
    PROVE  \E f : /\ \A n \in 0 .. limit : f[n] = WalkStep(next, k, f, n)
                  /\ Walk(next, k, limit) = f[limit]
<1> DEFINE P == {m \in Nat : \E f : f = [n \in 0 .. m |-> WalkStep(next, k, f, n)]}
<1>1. 0 \in P
  <2> DEFINE g == [n \in 0 .. 0 |-> << >>]
  <2>1. g = [n \in 0 .. 0 |-> WalkStep(next, k, g, n)]
    BY DEF WalkStep
  <2> HIDE DEF g
  <2> QED
    BY <2>1
<1>2. ASSUME NEW m \in Nat, m \in P
      PROVE  m + 1 \in P
  <2>1. PICK f : f = [n \in 0 .. m |-> WalkStep(next, k, f, n)]
    BY <1>2
  <2> DEFINE g == [n \in 0 .. m + 1 |-> IF n <= m THEN f[n] ELSE WalkStep(next, k, f, m + 1)]
  <2>2. \A n \in 0 .. m : f[n] = WalkStep(next, k, f, n)
    BY <2>1
  <2>3. \A n \in 0 .. m + 1 : WalkStep(next, k, g, n) = WalkStep(next, k, f, n)
    <3> TAKE n \in 0 .. m + 1
    <3>1. n # 0 => g[n - 1] = f[n - 1]
      OBVIOUS
    <3> HIDE DEF g
    <3> QED
      BY <3>1 DEF WalkStep
  <2>4. \A n \in 0 .. m + 1 : g[n] = WalkStep(next, k, f, n)
    <3> TAKE n \in 0 .. m + 1
    <3>1. CASE n <= m
      BY <2>2, <3>1
    <3>2. CASE ~(n <= m)
      <4>1. n = m + 1
        BY <3>2
      <4>2. ~(m + 1 <= m)
        OBVIOUS
      <4>3. g[m + 1] = WalkStep(next, k, f, m + 1)
        BY <4>2
      <4> QED
        BY <4>1, <4>3
    <3> QED
      BY <3>1, <3>2
  <2>5. g = [n \in 0 .. m + 1 |-> WalkStep(next, k, g, n)]
    <3>1. g = [n \in 0 .. m + 1 |-> g[n]]
      OBVIOUS
    <3> HIDE DEF g
    <3> QED
      BY <2>3, <2>4, <3>1
  <2> HIDE DEF g
  <2> QED
    BY <2>5
<1>3. limit \in P
  <2> HIDE DEF P
  <2> QED
    BY <1>1, <1>2, Induction
<1> DEFINE F == CHOOSE f : f = [n \in 0 .. limit |-> WalkStep(next, k, f, n)]
<1>4. F = [n \in 0 .. limit |-> WalkStep(next, k, F, n)]
  BY <1>3
<1>5. Walk(next, k, limit) = F[limit]
  BY DEF Walk, WalkStep
<1>6. \A n \in 0 .. limit : F[n] = WalkStep(next, k, F, n)
  <2> HIDE DEF F
  <2> QED
    BY <1>4
<1> HIDE DEF F
<1> QED
  BY <1>5, <1>6

(* What a walk of n steps has found: keys of S beyond k in order, all of    *)
(* them if it is shorter than n, and else all up to its last.               *)
WalkFound(S, k, w, n) ==
    /\ w \in Seq(S) /\ Len(w) <= n
    /\ Ascending(w)
    /\ \A i \in DOMAIN w : k < w[i]
    /\ \A x \in S : k < x => \/ x \in ToSet(w)
                             \/ Len(w) = n /\ (n > 0 => w[n] < x)

LEMMA WalkFinds ==
    ASSUME NEW S, S \subseteq Nat, NEW k \in Int, NEW next, NEW limit \in Nat,
           \A j \in S \cup {k} : IsNext(S, j, next[j])
    PROVE  WalkFound(S, k, Walk(next, k, limit), limit)
<1>1. PICK f : /\ \A n \in 0 .. limit : f[n] = WalkStep(next, k, f, n)
               /\ Walk(next, k, limit) = f[limit]
  BY WalkDef
<1> DEFINE P == {n \in Nat : n <= limit => WalkFound(S, k, f[n], n)}
<1>2. 0 \in P
  <2>1. f[0] = << >>
    BY <1>1 DEF WalkStep
  <2>2. WalkFound(S, k, << >>, 0)
    BY DEF WalkFound, Ascending
  <2> QED
    BY <2>1, <2>2
<1>3. ASSUME NEW m \in Nat, m \in P
      PROVE  m + 1 \in P
  <2> SUFFICES ASSUME m + 1 <= limit PROVE WalkFound(S, k, f[m + 1], m + 1)
    OBVIOUS
  <2> DEFINE w == f[m]
             cur == IF w = << >> THEN k ELSE w[Len(w)]
             succ == next[cur]
  <2>1. WalkFound(S, k, w, m)
    BY <1>3
  <2>2. f[m + 1] = IF Len(w) < m \/ succ = NoKey THEN w ELSE Append(w, succ)
    <3>1. f[m + 1] = WalkStep(next, k, f, m + 1)
      BY <1>1
    <3>2. m + 1 # 0 /\ (m + 1) - 1 = m
      OBVIOUS
    <3> QED
      BY <3>1, <3>2 DEF WalkStep
  <2>3. w \in Seq(S) /\ Len(w) <= m /\ Len(w) \in Nat
    BY <2>1 DEF WalkFound
  <2>4. cur \in S \cup {k} /\ cur \in Int
    <3>1. w # << >> => w[Len(w)] \in S
      BY <2>3
    <3>2. \A j \in S : j \in Int
      OBVIOUS
    <3> HIDE DEF w
    <3> QED
      BY <3>1, <3>2
  <2>5. IsNext(S, cur, succ)
    BY <2>4
  <2>6. Len(w) = m /\ m > 0 => cur = w[m]
    BY <2>3
  <2>7. m = 0 /\ Len(w) = m => cur = k
    BY <2>3
  <2> HIDE DEF w, cur, succ
  <2>8. CASE Len(w) < m
    <3>1. f[m + 1] = w
      BY <2>2, <2>8
    <3>2. WalkFound(S, k, w, m + 1)
      BY <2>1, <2>3, <2>8 DEF WalkFound
    <3> QED
      BY <3>1, <3>2
  <2>9. CASE Len(w) = m /\ succ = NoKey
    <3>1. f[m + 1] = w
      BY <2>2, <2>9
    <3>2. \A x \in S : x <= cur
      BY <2>5, <2>9 DEF IsNext, NoKey
    <3>3. \A x \in S : k < x => x \in ToSet(w)
      <4> SUFFICES ASSUME NEW x \in S, k < x, x \notin ToSet(w) PROVE FALSE
        OBVIOUS
      <4>1. x \in Nat /\ x <= cur
        BY <3>2
      <4>2. m > 0 => w[m] < x
        BY <2>1, <2>9 DEF WalkFound
      <4>3. m > 0 => cur < x
        BY <2>6, <2>9, <4>2
      <4> QED
        BY <2>4, <2>7, <2>9, <4>1, <4>3
    <3>4. WalkFound(S, k, w, m + 1)
      BY <2>1, <2>3, <3>3 DEF WalkFound
    <3> QED
      BY <3>1, <3>4
  <2>10. CASE Len(w) = m /\ succ # NoKey
    <3> DEFINE v == Append(w, succ)
    <3>1. f[m + 1] = v
      BY <2>2, <2>10
    <3>2. succ \in S /\ succ \in Nat /\ cur < succ /\ \A j \in S : cur < j => succ <= j
      BY <2>5, <2>10 DEF IsNext
    <3>3. /\ v \in Seq(S) /\ Len(v) = m + 1 /\ v[m + 1] = succ
          /\ \A i \in DOMAIN w : i \in DOMAIN v /\ v[i] = w[i]
          /\ DOMAIN v = DOMAIN w \cup {m + 1} /\ DOMAIN w = 1 .. m
      BY <2>3, <2>10, <3>2
    <3>4. \A i \in DOMAIN w : w[i] \in Nat /\ w[i] <= cur
      <4> TAKE i \in DOMAIN w
      <4>1. w[i] \in Nat /\ i \in 1 .. m /\ w[m] \in Nat
        <5>1. i \in 1 .. m /\ m \in 1 .. m
          BY <2>3, <2>10
        <5>2. w[i] \in S /\ w[m] \in S
          BY <2>3, <2>10, <5>1
        <5> QED
          BY <5>1, <5>2
      <4>2. i < m => w[i] < w[m]
        BY <2>1, <2>3, <2>10 DEF WalkFound, Ascending
      <4>3. cur = w[m]
        BY <2>6, <2>10, <4>1
      <4> QED
        BY <4>1, <4>2, <4>3
    <3>5. Ascending(v)
      <4> SUFFICES ASSUME NEW i \in DOMAIN v, NEW j \in DOMAIN v, i < j
                   PROVE  v[i] < v[j]
        BY DEF Ascending
      <4>1. i \in DOMAIN w
        BY <3>3
      <4>2. CASE j \in DOMAIN w
        BY <2>1, <3>3, <4>1, <4>2 DEF WalkFound, Ascending
      <4>3. CASE j = m + 1
        BY <2>4, <3>2, <3>3, <3>4, <4>1, <4>3
      <4> QED
        BY <3>3, <4>2, <4>3
    <3>6. \A i \in DOMAIN v : k < v[i]
      <4>1. k <= cur
        <5>1. CASE m = 0
          BY <2>7, <2>10, <5>1
        <5>2. CASE m > 0
          <6>1. m \in DOMAIN w /\ cur = w[m]
            BY <2>3, <2>6, <2>10, <5>2
          <6>2. k < w[m]
            BY <2>1, <6>1 DEF WalkFound
          <6> QED
            BY <2>4, <6>1, <6>2
        <5> QED
          BY <5>1, <5>2
      <4>2. k < v[m + 1]
        BY <2>4, <3>2, <3>3, <4>1
      <4>3. \A i \in DOMAIN w : k < v[i]
        BY <2>1, <3>3 DEF WalkFound
      <4> QED
        BY <3>3, <4>2, <4>3
    <3>7. ASSUME NEW x \in S, k < x
          PROVE  x \in ToSet(v) \/ (Len(v) = m + 1 /\ (m + 1 > 0 => v[m + 1] < x))
      <4>1. x \in Nat
        OBVIOUS
      <4>2. CASE x \in ToSet(w)
        <5>1. PICK i \in DOMAIN w : x = w[i]
          BY <4>2 DEF ToSet
        <5>2. i \in DOMAIN v /\ x = v[i]
          BY <3>3, <5>1
        <5> QED
          BY <5>2 DEF ToSet
      <4>3. CASE x = succ
        <5>1. m + 1 \in DOMAIN v /\ v[m + 1] = x
          BY <3>3, <4>3
        <5> QED
          BY <5>1 DEF ToSet
      <4>4. CASE x \notin ToSet(w) /\ x # succ
        <5>1. m > 0 => w[m] < x
          BY <2>1, <2>10, <3>7, <4>4 DEF WalkFound
        <5>2. cur < x
          BY <2>6, <2>7, <2>10, <3>7, <5>1
        <5>3. succ <= x
          BY <3>2, <5>2
        <5> QED
          BY <3>2, <3>3, <4>1, <4>4, <5>3
      <4> QED
        BY <4>2, <4>3, <4>4
    <3>8. WalkFound(S, k, v, m + 1)
      <4> HIDE DEF v
      <4> QED
        BY <3>3, <3>5, <3>6, <3>7 DEF WalkFound
    <3> QED
      BY <3>1, <3>8
  <2> QED
    BY <2>3, <2>8, <2>9, <2>10
<1>4. limit \in P
  <2> HIDE DEF P
  <2> QED
    BY <1>2, <1>3, Induction
<1> QED
  BY <1>1, <1>4

(* A walk with more steps than S has keys finds all beyond k.               *)
LEMMA WalkFindsAll ==
    ASSUME NEW S, S \subseteq Nat, IsFiniteSet(S), NEW k \in Int, NEW w, NEW limit \in Nat,
           WalkFound(S, k, w, limit), limit > Cardinality(S)
    PROVE  ToSet(w) = {x \in S : k < x}
<1>1. w \in [1 .. Len(w) -> S] /\ Len(w) \in Nat /\ DOMAIN w = 1 .. Len(w)
  BY DEF WalkFound
<1>2. \A i, j \in DOMAIN w : w[i] = w[j] => i = j
  <2> SUFFICES ASSUME NEW i \in DOMAIN w, NEW j \in DOMAIN w, w[i] = w[j], i # j PROVE FALSE
    OBVIOUS
  <2>1. i \in Nat /\ j \in Nat /\ w[i] \in Nat /\ w[j] \in Nat
    <3>1. w[i] \in S /\ w[j] \in S
      BY <1>1
    <3>2. w[i] \in Nat /\ w[j] \in Nat
      BY <3>1
    <3>3. i \in Nat /\ j \in Nat
      BY <1>1
    <3> QED
      BY <3>2, <3>3
  <2>2. CASE i < j
    BY <2>1, <2>2 DEF WalkFound, Ascending
  <2>3. CASE j < i
    BY <2>1, <2>3 DEF WalkFound, Ascending
  <2> QED
    BY <2>1, <2>2, <2>3
<1>3. w \in Injection(1 .. Len(w), S)
  BY <1>1, <1>2 DEF Injection, IsInjective
<1>4. Cardinality(1 .. Len(w)) = Len(w)
  <2> DEFINE n == Len(w)
  <2>1. n \in Int /\ 1 \in Int
    BY <1>1
  <2>2. Cardinality(1 .. n) = IF 1 > n THEN 0 ELSE n - 1 + 1
    <3> HIDE DEF n
    <3> QED
      BY <2>1, FS_Interval
  <2>3. n \in Nat
    BY <1>1
  <2> HIDE DEF n
  <2>4. Cardinality(1 .. n) = n
    BY <2>2, <2>3
  <2> QED
    BY <2>4 DEF n
<1>5. Len(w) <= Cardinality(S) /\ Cardinality(S) \in Nat
  BY <1>3, <1>4, FS_Injection, FS_CardinalityType
<1>6. Len(w) # limit
  <2> DEFINE c == Cardinality(S)
             n == Len(w)
  <2>1. n <= c /\ c \in Nat /\ n \in Nat /\ limit > c
    BY <1>1, <1>5
  <2> HIDE DEF c, n
  <2>2. n # limit
    BY <2>1
  <2> QED
    BY <2>2 DEF n
<1>7. \A x \in S : k < x => x \in ToSet(w)
  BY <1>6 DEF WalkFound
<1>8. \A x \in ToSet(w) : x \in S /\ k < x
  BY <1>1 DEF ToSet, WalkFound
<1> QED
  BY <1>7, <1>8

-----------------------------------------------------------------------------
(* Positions that are kept: the one at i comes at its rank.                 *)
LEMMA IntervalSize ==
    ASSUME NEW n \in Nat
    PROVE  IsFiniteSet(1 .. n) /\ Cardinality(1 .. n) = n
<1>1. n \in Int /\ 1 \in Int
  OBVIOUS
<1>2. IsFiniteSet(1 .. n) /\ Cardinality(1 .. n) = IF 1 > n THEN 0 ELSE n - 1 + 1
  BY <1>1, FS_Interval
<1> QED
  BY <1>2

LEMMA RankFacts ==
    ASSUME NEW n \in Nat, NEW I, I \subseteq 1 .. n
    PROVE  /\ IsFiniteSet(I) /\ Cardinality(I) \in Nat
           /\ \A i \in I : Rank(I, i) \in 1 .. Cardinality(I)
           /\ \A i, j \in I : Rank(I, i) = Rank(I, j) => i = j
<1>1. IsFiniteSet(I) /\ Cardinality(I) \in Nat
  BY IntervalSize, FS_Subset, FS_CardinalityType
<1> DEFINE U(i) == {m \in I : m <= i}
<1>2. \A i \in I : i \in Nat
  OBVIOUS
<1>3. \A i \in I : /\ IsFiniteSet(U(i)) /\ Cardinality(U(i)) \in Nat
                   /\ Cardinality(U(i)) <= Cardinality(I)
  <2> TAKE i \in I
  <2>1. U(i) \in SUBSET I
    OBVIOUS
  <2> HIDE DEF U
  <2> QED
    BY <1>1, <2>1, FS_Subset, FS_CardinalityType
<1>4. \A i \in I : Cardinality(U(i)) # 0
  <2> TAKE i \in I
  <2>1. i \in U(i)
    BY <1>2
  <2> HIDE DEF U
  <2> QED
    BY <1>3, <2>1, FS_EmptySet
<1>5. ASSUME NEW i \in I, NEW j \in I, i < j
      PROVE  Cardinality(U(i)) # Cardinality(U(j))
  <2>1. U(i) \in SUBSET U(j) /\ j \in U(j) /\ j \notin U(i)
    <3>1. i \in Nat /\ j \in Nat /\ \A m \in I : m \in Nat
      BY <1>2
    <3>2. \A m \in I : m <= i => m <= j
      BY <1>5, <3>1
    <3>3. ~(j <= i) /\ j <= j
      BY <1>5, <3>1
    <3> QED
      BY <3>2, <3>3
  <2> HIDE DEF U
  <2>2. U(i) # U(j)
    BY <2>1
  <2> QED
    BY <1>3, <2>1, <2>2, FS_Subset
<1>6. \A i \in I : Rank(I, i) = Cardinality(U(i))
  BY DEF Rank
<1> HIDE DEF U
<1>7. \A i \in I : Rank(I, i) \in 1 .. Cardinality(I)
  BY <1>1, <1>3, <1>4, <1>6
<1>8. ASSUME NEW i \in I, NEW j \in I, Rank(I, i) = Rank(I, j)
      PROVE  i = j
  <2>1. ~(i < j) /\ ~(j < i)
    BY <1>5, <1>6, <1>8
  <2> QED
    BY <1>2, <2>1
<1> QED
  BY <1>1, <1>7, <1>8

LEMMA KeptAt ==
    ASSUME NEW n \in Nat, NEW I, I \subseteq 1 .. n, NEW s, NEW i \in I
    PROVE  /\ DOMAIN Kept(s, I) = 1 .. Cardinality(I)
           /\ Rank(I, i) \in DOMAIN Kept(s, I)
           /\ Kept(s, I)[Rank(I, i)] = s[i]
<1>1. Rank(I, i) \in 1 .. Cardinality(I) /\ \A j \in I : Rank(I, i) = Rank(I, j) => i = j
  BY RankFacts
<1>2. (CHOOSE j \in I : Rank(I, j) = Rank(I, i)) = i
  BY <1>1
<1> QED
  BY <1>1, <1>2 DEF Kept

LEMMA KeptAll ==
    ASSUME NEW S, NEW s \in Seq(S)
    PROVE  Kept(s, DOMAIN s) = s
<1>1. Len(s) \in Nat /\ DOMAIN s = 1 .. Len(s)
  OBVIOUS
<1>2. Cardinality(DOMAIN s) = Len(s)
  BY <1>1, IntervalSize
<1>3. \A i \in DOMAIN s : Rank(DOMAIN s, i) = i
  <2> TAKE i \in DOMAIN s
  <2>1. i \in Nat /\ {m \in DOMAIN s : m <= i} = 1 .. i
    BY <1>1
  <2> QED
    BY <2>1, IntervalSize DEF Rank
<1>4. \A i \in DOMAIN s : Kept(s, DOMAIN s)[i] = s[i]
  <2> TAKE i \in DOMAIN s
  <2> DEFINE I == DOMAIN s
             n == Len(s)
  <2>1. n \in Nat /\ I \subseteq 1 .. n /\ i \in I
    BY <1>1
  <2> HIDE DEF I, n
  <2>2. Kept(s, I)[Rank(I, i)] = s[i]
    BY <2>1, KeptAt
  <2> QED
    BY <1>3, <2>2 DEF I
<1>5. Kept(s, DOMAIN s) = [i \in 1 .. Len(s) |-> Kept(s, DOMAIN s)[i]]
  BY <1>2 DEF Kept
<1>6. s = [i \in 1 .. Len(s) |-> s[i]]
  BY <1>1
<1> QED
  BY <1>1, <1>4, <1>5, <1>6

-----------------------------------------------------------------------------
(* Keys and neighbours.                                                     *)
LEMMA KeyFacts ==
    /\ IsFiniteSet(Key) /\ Key \subseteq Nat
    /\ Max(Key) \in Key /\ BookEnd <= Max(Key) /\ BookEnd \in Nat
    /\ lastKey \in Nat /\ lastKey \notin Key
    /\ \A k \in Key : k \in Nat /\ 0 < k /\ k < lastKey /\ k <= Max(Key)
    /\ firstKey = 0 /\ firstKey \notin Key /\ NoKey = -1 /\ NoKey \notin Key
    /\ Base \in Nat /\ Base \notin Key
    /\ Dir \subseteq Key /\ \A k \in Key : k \in Dir <=> Base < k /\ k < BookEnd
<1>1. IsFiniteSet(Key) /\ Key \subseteq Nat /\ 0 \notin Key /\ Key # {}
  BY LedgerStateAssumption
<1>2. Max(Key) \in Key /\ \A k \in Key : k <= Max(Key)
  BY <1>1, MaxIn
<1>3. \A k \in Key : k \in Nat
  BY <1>1
<1>4. PICK e \in Key : e >= BookEnd
  BY LedgerStateAssumption
<1>5. BookEnd \in Nat /\ e \in Nat /\ Max(Key) \in Nat /\ e <= Max(Key)
  BY <1>2, <1>3, LedgerStateAssumption
<1>6. BookEnd <= Max(Key)
  BY <1>4, <1>5
<1>7. lastKey \in Nat /\ \A k \in Key : k < lastKey
  BY <1>2, <1>3, <1>5 DEF lastKey
<1>8. lastKey \notin Key
  BY <1>7
<1>9. \A k \in Key : 0 < k
  BY <1>1, <1>3
<1>10. NoKey \notin Key
  BY <1>3 DEF NoKey
<1>11. firstKey \notin Key /\ firstKey = 0 /\ NoKey = -1
  BY <1>1 DEF firstKey, NoKey
<1>12. Base \in Nat /\ Base \notin Key /\ Dir \subseteq Key /\ Dir = {k \in Key : Base < k /\ k < BookEnd}
  BY LedgerStateAssumption
<1> QED
  BY <1>1, <1>2, <1>3, <1>5, <1>6, <1>7, <1>8, <1>9, <1>10, <1>11, <1>12

LEMMA SuccessorIsNext ==
    ASSUME NEW l, NEW k \in Int
    PROVE  IsNext(Live(l), k, getSuccessor(l, k))
<1> DEFINE above == {j \in Live(l) : j > k}
<1>1. above \subseteq Nat /\ \A j \in Live(l) : j \in Nat
  BY KeyFacts DEF Live
<1>2. CASE above = {}
  <2>1. getSuccessor(l, k) = NoKey
    BY <1>2 DEF getSuccessor
  <2>2. \A j \in Live(l) : ~(j > k)
    BY <1>2
  <2>3. \A j \in Live(l) : j <= k
    BY <1>1, <2>2
  <2> QED
    BY <2>1, <2>3 DEF IsNext
<1>3. CASE above # {}
  <2>1. getSuccessor(l, k) = Min(above)
    BY <1>3 DEF getSuccessor
  <2>2. Min(above) \in above /\ \A j \in above : Min(above) <= j
    <3> HIDE DEF above
    <3> QED
      BY <1>1, <1>3, MinIn
  <2>3. Min(above) \in Live(l) /\ Min(above) > k
    BY <2>2
  <2>4. k < Min(above)
    BY <1>1, <2>3
  <2>5. \A j \in Live(l) : k < j => Min(above) <= j
    BY <1>1, <2>2
  <2> QED
    BY <2>1, <2>3, <2>4, <2>5 DEF IsNext
<1> QED
  BY <1>2, <1>3

(* p is what comes before k in S, or NoKey at the beginning.                *)
IsPrevious(S, k, p) ==
    \/ p = NoKey /\ \A j \in S : k <= j
    \/ p \in S /\ p < k /\ \A j \in S : j < k => j <= p

LEMMA PredecessorIsPrevious ==
    ASSUME NEW l, NEW k \in Int
    PROVE  IsPrevious(Live(l), k, getPredecessor(l, k))
<1> DEFINE below == {j \in Live(l) : j < k}
<1>1. below \subseteq Nat /\ IsFiniteSet(below) /\ \A j \in Live(l) : j \in Nat
  <2>1. below \in SUBSET Key
    BY DEF Live
  <2> HIDE DEF below
  <2> QED
    BY <2>1, KeyFacts, FS_Subset DEF Live
<1>2. CASE below = {}
  <2>1. getPredecessor(l, k) = NoKey
    BY <1>2 DEF getPredecessor
  <2>2. \A j \in Live(l) : ~(j < k)
    BY <1>2
  <2>3. \A j \in Live(l) : k <= j
    BY <1>1, <2>2
  <2> QED
    BY <2>1, <2>3 DEF IsPrevious
<1>3. CASE below # {}
  <2>1. getPredecessor(l, k) = Max(below)
    BY <1>3 DEF getPredecessor
  <2>2. Max(below) \in below /\ \A j \in below : j <= Max(below)
    <3> HIDE DEF below
    <3> QED
      BY <1>1, <1>3, MaxIn
  <2> QED
    BY <2>1, <2>2 DEF IsPrevious
<1> QED
  BY <1>2, <1>3

(* A position leads to the next live key, or to the last key.               *)
LEMMA OrLastFacts ==
    ASSUME NEW l, NEW k \in Nat, k < lastKey
    PROVE  /\ OrLast(getSuccessor(l, k)) \in Key \cup {lastKey}
           /\ k < OrLast(getSuccessor(l, k))
           /\ (IF OrLast(getSuccessor(l, k)) = lastKey THEN NoKey ELSE OrLast(getSuccessor(l, k)))
              = getSuccessor(l, k)
<1> DEFINE n == getSuccessor(l, k)
<1>1. IsNext(Live(l), k, n) /\ Live(l) \subseteq Key
  BY SuccessorIsNext DEF Live
<1> HIDE DEF n
<1>2. CASE n = NoKey
  BY <1>2, KeyFacts DEF OrLast, n
<1>3. CASE n # NoKey
  <2>1. n \in Key /\ k < n
    BY <1>1, <1>3 DEF IsNext
  <2>2. n # lastKey
    BY <2>1, KeyFacts
  <2> QED
    BY <1>3, <2>1, <2>2 DEF OrLast, n
<1> QED
  BY <1>2, <1>3

(* What lies between a key that is not live and its neighbours: the one     *)
(* before it leads to the one after it.                                     *)
LEMMA BeforeFacts ==
    ASSUME NEW l, NEW k \in Key
    PROVE  LET b == OrFirst(getPredecessor(l, k))
           IN  /\ b \in Live(l) \cup {firstKey} /\ b \in Nat /\ b < k /\ b < lastKey
               /\ \A j \in Live(l) : b < j => k <= j
               /\ k \in Live(l) => getSuccessor(l, b) = k
               /\ k \notin Live(l) => getSuccessor(l, b) = getSuccessor(l, k)
<1> DEFINE p == getPredecessor(l, k)
           b == OrFirst(p)
<1>1. k \in Nat /\ 0 < k /\ k < lastKey /\ lastKey \in Nat
  BY KeyFacts
<1>2. Live(l) \subseteq Key /\ NoKey \notin Live(l) /\ (\A j \in Live(l) : j \in Nat) /\ Live(l) \subseteq Nat
  BY KeyFacts DEF Live
<1>3. IsPrevious(Live(l), k, p)
  BY <1>1, PredecessorIsPrevious
<1> HIDE DEF p
<1>4. /\ b \in Live(l) \cup {firstKey} /\ b \in Nat /\ b < k
      /\ \A j \in Live(l) : b < j => k <= j
  <2>1. CASE p = NoKey
    <3>1. b = 0 /\ b = firstKey
      BY <2>1, KeyFacts DEF OrFirst
    <3>2. \A j \in Live(l) : k <= j
      BY <1>2, <1>3, <2>1 DEF IsPrevious
    <3> QED
      BY <1>1, <3>1, <3>2
  <2>2. CASE p # NoKey
    <3>1. b = p
      BY <2>2 DEF OrFirst
    <3>2. p \in Live(l) /\ p \in Nat /\ p < k /\ \A j \in Live(l) : j < k => j <= p
      BY <1>2, <1>3, <2>2 DEF IsPrevious
    <3>3. \A j \in Live(l) : p < j => k <= j
      BY <1>1, <1>2, <3>2
    <3> QED
      BY <3>1, <3>2, <3>3
  <2> QED
    BY <2>1, <2>2
<1> HIDE DEF b
<1>5. b < lastKey
  BY <1>1, <1>4
<1>6. IsNext(Live(l), b, getSuccessor(l, b)) /\ IsNext(Live(l), k, getSuccessor(l, k))
  BY <1>1, <1>4, SuccessorIsNext
<1>7. ASSUME k \in Live(l)
      PROVE  getSuccessor(l, b) = k
  <2>1. IsNext(Live(l), b, k)
    BY <1>4, <1>7 DEF IsNext
  <2> QED
    BY <1>2, <1>4, <1>6, <2>1, NextUnique
<1>8. ASSUME k \notin Live(l)
      PROVE  getSuccessor(l, b) = getSuccessor(l, k)
  <2> DEFINE n == getSuccessor(l, k)
  <2>1. IsNext(Live(l), k, n)
    BY <1>6
  <2> HIDE DEF n
  <2>2. \A j \in Live(l) : b < j => k < j
    BY <1>1, <1>2, <1>4, <1>8
  <2>3. ASSUME n = NoKey
        PROVE  IsNext(Live(l), b, n)
    <3>1. \A j \in Live(l) : j <= k
      BY <1>2, <2>1, <2>3 DEF IsNext
    <3>2. \A j \in Live(l) : j <= b
      BY <1>1, <1>2, <1>4, <2>2, <3>1
    <3> QED
      BY <2>3, <3>2 DEF IsNext
  <2>4. ASSUME n # NoKey
        PROVE  IsNext(Live(l), b, n)
    <3>1. n \in Live(l) /\ n \in Nat /\ k < n /\ \A j \in Live(l) : k < j => n <= j
      BY <1>2, <2>1, <2>4 DEF IsNext
    <3>2. b < n
      BY <1>1, <1>4, <3>1
    <3>3. \A j \in Live(l) : b < j => n <= j
      BY <2>2, <3>1
    <3> QED
      BY <3>1, <3>2, <3>3 DEF IsNext
  <2>5. IsNext(Live(l), b, n)
    BY <2>3, <2>4 
  <2> QED
    BY <1>2, <1>4, <1>6, <2>5, NextUnique DEF n
<1> QED
  BY <1>4, <1>5, <1>7, <1>8 DEF b, p

-----------------------------------------------------------------------------
(* The inductive invariant.                                                 *)

(* No row gets old enough to expire while the ledgers of the behaviour are  *)
(* written.                                                                 *)
NothingExpires == Ttl >= MaxLedgers

(* The ledgers: an object is as old as its last change says, and one key    *)
(* beyond the book is always there.                                         *)
LedgersOK ==
    /\ ledger \in Seq([Key -> Nat]) /\ Len(ledger) \in 1 .. MaxLedgers + 1
    /\ minSequence \in 1 .. Len(ledger) /\ full \in BOOLEAN
    /\ \A i \in 1 .. Len(ledger) : \A k \in Key : ledger[i][k] <= i
    /\ \A i \in 1 .. Len(ledger) : ledger[i][Max(Key)] # None
    /\ \A i, j \in 1 .. Len(ledger) : \A k \in Key :
          i <= j /\ ledger[j][k] # None /\ ledger[j][k] <= i => ledger[i][k] = ledger[j][k]

ObjectRowsOK ==
    \A r \in objects : /\ r.key \in Key /\ r.seq \in 1 .. Len(ledger)
                       /\ r.object \in 0 .. Len(ledger) /\ r.at \in 1 .. Len(ledger)

SuccessorRowsOK ==
    \A r \in successor : /\ r.key \in Position /\ r.seq \in 1 .. Len(ledger)
                         /\ r.next \in Key \cup {lastKey} /\ r.key < r.next
                         /\ r.at \in 1 .. Len(ledger)

(* The object rows give every ledger since the first.                       *)
ObjectsRight ==
    \A seq \in 1 .. Len(ledger) : \A k \in Key : doFetchLedgerObject(k, seq) = ledger[seq][k]

ChangedKeys(seq) == {k \in Key : ledger[seq][k] # ledger[seq - 1][k]}

DiffsRight ==
    /\ \A d \in diff : d.seq \in 2 .. Len(ledger)
    /\ \A seq \in 2 .. Len(ledger) :
          {d.key : d \in {d \in diff : d.seq = seq}} = ChangedKeys(seq)

(* In each ledger the link from a live key, and from the first one, is to   *)
(* the next live key.                                                       *)
LinksRight ==
    \A seq \in 1 .. Len(ledger) : \A k \in Live(ledger[seq]) \cup {firstKey} :
        doFetchSuccessorKey(k, seq) = getSuccessor(ledger[seq], k)

InBook(k) == IF k >= BookEnd THEN NoKey ELSE k

(* The link from the base, once there is one, is to the first directory; to *)
(* some key beyond the book if the book is empty.                           *)
BookRight ==
    \A seq \in 1 .. Len(ledger) :
        (\E r \in successor : r.key = Base /\ r.seq <= seq) =>
            IsNext(Live(ledger[seq]) \cap Dir, Base, InBook(doFetchSuccessorKey(Base, seq)))

(* A client has the keys of its ledger up to its cursor.                    *)
PagerRight ==
    \/ pager = NoPager
    \/ /\ pager \in [seq : 1 .. Len(ledger), cursor : Position \cup {NoKey},
                     got : SUBSET Key, inOrder : BOOLEAN]
       /\ pager.inOrder
       /\ pager.cursor = NoKey => pager.got = Live(ledger[pager.seq])
       /\ pager.cursor # NoKey =>
              /\ pager.cursor \in Live(ledger[pager.seq]) \cup {firstKey}
              /\ pager.got = {k \in Live(ledger[pager.seq]) : k <= pager.cursor}

IInv ==
    /\ LedgersOK /\ ObjectRowsOK /\ SuccessorRowsOK
    /\ ObjectsRight /\ DiffsRight /\ LinksRight /\ BookRight /\ PagerRight

-----------------------------------------------------------------------------
(* The links of a new ledger.                                               *)

(* Every link that is written is right in the new ledger.                   *)
LEMMA LinkRowsRight ==
    ASSUME NEW old, NEW new, NEW seq,
           NEW r \in LinkRows(old, new, seq) \cup BookRows(old, new, seq)
    PROVE  /\ r.seq = seq /\ r.at = seq
           /\ r.key \in Position /\ r.key \in Live(new) \cup {firstKey, Base}
           /\ r.next = OrLast(getSuccessor(new, r.key))
           /\ r.next \in Key \cup {lastKey} /\ r.key < r.next
<1> DEFINE before(k) == OrFirst(getPredecessor(new, k))
           after(k) == OrLast(getSuccessor(new, k))
           Good(k, n) == /\ k \in Nat /\ k < lastKey /\ k \in Live(new) \cup {firstKey, Base}
                         /\ n = OrLast(getSuccessor(new, k))
<1>1. ASSUME NEW k, NEW n, Good(k, n), r = SuccessorRow(k, seq, n)
      PROVE  /\ r.seq = seq /\ r.at = seq
             /\ r.key \in Position /\ r.key \in Live(new) \cup {firstKey, Base}
             /\ r.next = OrLast(getSuccessor(new, r.key))
             /\ r.next \in Key \cup {lastKey} /\ r.key < r.next
  <2>1. r.key = k /\ r.seq = seq /\ r.next = n /\ r.at = seq
    BY <1>1 DEF SuccessorRow
  <2>2. n \in Key \cup {lastKey} /\ k < n
    BY <1>1, OrLastFacts
  <2>3. k \in Position
    BY <1>1 DEF Position, Live
  <2> QED
    BY <1>1, <2>1, <2>2, <2>3
<1>2. CASE \E k \in Deleted(old, new) : r = SuccessorRow(before(k), seq, after(k))
  <2>1. PICK k \in Deleted(old, new) : r = SuccessorRow(before(k), seq, after(k))
    BY <1>2
  <2>2. k \in Key /\ k \notin Live(new)
    BY DEF Deleted, Live
  <2>3. Good(before(k), after(k))
    BY <2>2, BeforeFacts
  <2> QED
    BY <1>1, <2>1, <2>3
<1>3. CASE \E k \in Created(old, new) : r = SuccessorRow(before(k), seq, k)
  <2>1. PICK k \in Created(old, new) : r = SuccessorRow(before(k), seq, k)
    BY <1>3
  <2>2. k \in Key /\ k \in Live(new) /\ k # NoKey
    BY KeyFacts DEF Created, Live
  <2>3. getSuccessor(new, before(k)) = k
    BY <2>2, BeforeFacts
  <2>4. Good(before(k), k)
    BY <2>2, <2>3, BeforeFacts DEF OrLast
  <2> QED
    BY <1>1, <2>1, <2>4
<1>4. CASE \E k \in Created(old, new) : r = SuccessorRow(k, seq, after(k))
  <2>1. PICK k \in Created(old, new) : r = SuccessorRow(k, seq, after(k))
    BY <1>4
  <2>2. k \in Key /\ k \in Live(new)
    BY DEF Created, Live
  <2>3. Good(k, after(k))
    BY <2>2, KeyFacts
  <2> QED
    BY <1>1, <2>1, <2>3
<1>5. CASE r \in BookRows(old, new, seq)
  <2>1. r = SuccessorRow(Base, seq, after(Base))
    BY <1>5 DEF BookRows
  <2>2. PICK d \in Dir : TRUE
    BY <1>5 DEF BookRows
  <2>3. d \in Key /\ Base < d
    BY <2>2, KeyFacts
  <2>4. Good(Base, after(Base))
    BY <2>3, KeyFacts
  <2> QED
    BY <1>1, <2>1, <2>4
<1>6. CASE r \in LinkRows(old, new, seq)
  <2>1. \/ \E k \in Deleted(old, new) : r = SuccessorRow(before(k), seq, after(k))
        \/ \E k \in Created(old, new) : r = SuccessorRow(before(k), seq, k)
        \/ \E k \in Created(old, new) : r = SuccessorRow(k, seq, after(k))
    BY <1>6 DEF LinkRows
  <2> QED
    BY <1>2, <1>3, <1>4, <2>1
<1> QED
  BY <1>5, <1>6

(* A link that is not written has not changed.                              *)
LEMMA LinksChange ==
    ASSUME NEW old, NEW new, NEW seq, NEW k \in Live(new) \cup {firstKey},
           \A r \in LinkRows(old, new, seq) : r.key # k
    PROVE  k \in Live(old) \cup {firstKey} /\ getSuccessor(new, k) = getSuccessor(old, k)
<1> DEFINE before(j) == OrFirst(getPredecessor(new, j))
           after(j) == OrLast(getSuccessor(new, j))
           a == getSuccessor(old, k)
           b == getSuccessor(new, k)
<1>1. k \in Nat /\ (\A j \in Key : j \in Nat) /\ NoKey \notin Key
  BY KeyFacts DEF Live
<1>2. \A j \in Created(old, new) : j # k /\ before(j) # k
  <2> TAKE j \in Created(old, new)
  <2>1. SuccessorRow(j, seq, after(j)) \in LinkRows(old, new, seq)
    BY DEF LinkRows
  <2>2. SuccessorRow(before(j), seq, j) \in LinkRows(old, new, seq)
    BY DEF LinkRows
  <2> QED
    BY <2>1, <2>2 DEF SuccessorRow
<1>3. \A j \in Deleted(old, new) : before(j) # k
  <2> TAKE j \in Deleted(old, new)
  <2>1. SuccessorRow(before(j), seq, after(j)) \in LinkRows(old, new, seq)
    BY DEF LinkRows
  <2> QED
    BY <2>1 DEF SuccessorRow
<1>4. k \in Live(old) \cup {firstKey}
  BY <1>2 DEF Live, Created
<1>5. IsNext(Live(old), k, a) /\ IsNext(Live(new), k, b)
  BY <1>1, SuccessorIsNext
<1>6. /\ Live(old) \subseteq Key /\ Live(new) \subseteq Key
      /\ Live(old) \subseteq Nat /\ Live(new) \subseteq Nat
  BY <1>1 DEF Live
<1> HIDE DEF a, b
<1>7. ASSUME NEW j \in Key, k < j, \A i \in Live(new) : k < i => j <= i
      PROVE  before(j) = k
  <2> DEFINE p == before(j)
  <2>1. p \in Live(new) \cup {firstKey} /\ p \in Nat /\ p < j /\ \A i \in Live(new) : p < i => j <= i
    BY BeforeFacts
  <2> HIDE DEF p
  <2>2. j \in Nat /\ firstKey = 0
    BY KeyFacts
  <2>3. ~(k < p)
    <3> SUFFICES ASSUME k < p PROVE FALSE
      OBVIOUS
    <3>1. p # firstKey
      BY <1>1, <2>1, <2>2
    <3>2. j <= p
      BY <1>7, <2>1, <3>1
    <3> QED
      BY <2>1, <2>2, <3>2
  <2>4. ~(p < k)
    <3> SUFFICES ASSUME p < k PROVE FALSE
      OBVIOUS
    <3>1. k \in Live(new)
      BY <1>1, <2>1, <2>2
    <3>2. j <= k
      BY <2>1, <3>1
    <3> QED
      BY <1>1, <1>7, <2>2, <3>2
  <2>5. p = k
    BY <1>1, <2>1, <2>3, <2>4
  <2> QED
    BY <2>5 DEF p
<1>8. ASSUME a \in Live(old), k < a, a \notin Live(new), \A i \in Live(new) : k < i => a <= i
      PROVE  FALSE
  <2>1. a \in Deleted(old, new)
    BY <1>8 DEF Live, Deleted
  <2>2. before(a) = k
    BY <1>6, <1>7, <1>8
  <2> QED
    BY <1>3, <2>1, <2>2
<1>9. ASSUME b \in Live(new), k < b, b \notin Live(old)
      PROVE  FALSE
  <2>1. b \in Created(old, new)
    BY <1>9 DEF Live, Created
  <2>2. \A i \in Live(new) : k < i => b <= i
    BY <1>5, <1>6, <1>9, <1>1 DEF IsNext
  <2>3. before(b) = k
    BY <1>6, <1>7, <1>9, <2>2
  <2> QED
    BY <1>2, <2>1, <2>3
<1>10. IsNext(Live(old), k, b)
  <2>1. CASE b = NoKey
    <3>1. \A i \in Live(new) : i <= k
      BY <1>5, <1>6, <1>1, <2>1 DEF IsNext
    <3>2. \A i \in Live(new) : ~(k < i)
      BY <1>1, <1>6, <3>1
    <3>3. CASE a = NoKey
      BY <1>5, <2>1, <3>3
    <3>4. CASE a # NoKey
      <4>1. a \in Live(old) /\ k < a
        BY <1>5, <3>4 DEF IsNext
      <4>2. a \notin Live(new)
        BY <3>2, <4>1
      <4> QED
        BY <1>8, <3>2, <4>1, <4>2
    <3> QED
      BY <3>3, <3>4
  <2>2. CASE b # NoKey
    <3>1. b \in Live(new) /\ k < b /\ \A i \in Live(new) : k < i => b <= i
      BY <1>5, <2>2 DEF IsNext
    <3>2. b \in Live(old)
      BY <1>9, <3>1
    <3>3. a \in Live(old) /\ k < a /\ (\A i \in Live(old) : k < i => a <= i) /\ a <= b
      <4>1. a # NoKey
        <5> SUFFICES ASSUME a = NoKey PROVE FALSE
          OBVIOUS
        <5>1. b <= k /\ b \in Nat
          BY <1>1, <1>5, <1>6, <3>2 DEF IsNext
        <5> QED
          BY <1>1, <3>1, <5>1
      <4> QED
        BY <1>5, <3>1, <3>2, <4>1 DEF IsNext
    <3>4. a \in Live(new)
      <4> SUFFICES ASSUME a \notin Live(new) PROVE FALSE
        OBVIOUS
      <4>1. \A i \in Live(new) : k < i => a <= i
        <5> TAKE i \in Live(new)
        <5>1. i \in Nat /\ a \in Nat /\ b \in Nat
          BY <1>6, <3>1, <3>3
        <5>2. k < i => b <= i
          BY <3>1
        <5> QED
          BY <3>3, <5>1, <5>2
      <4> QED
        BY <1>8, <3>3, <4>1
    <3>5. b <= a /\ a \in Nat /\ b \in Nat
      BY <1>6, <3>1, <3>3, <3>4
    <3>6. a = b
      BY <3>3, <3>5
    <3> QED
      BY <1>5, <3>6
  <2> QED
    BY <2>1, <2>2
<1>11. b = a
  BY <1>1, <1>5, <1>6, <1>10, NextUnique
<1> QED
  BY <1>4, <1>11 DEF a, b

(* The directory that follows k in the book is the successor of k, unless   *)
(* that is beyond the book.                                                 *)
LEMMA NextInBook ==
    ASSUME NEW l, NEW k \in Nat, Base <= k
    PROVE  IsNext(Live(l) \cap Dir, k, InBook(getSuccessor(l, k)))
<1> DEFINE n == getSuccessor(l, k)
           D == Live(l) \cap Dir
<1>1. IsNext(Live(l), k, n)
  BY SuccessorIsNext
<1>2. /\ Live(l) \subseteq Key /\ NoKey \notin Live(l) /\ NoKey = -1
      /\ \A j \in Key : j \in Nat /\ (j \in Dir <=> Base < j /\ j < BookEnd)
      /\ BookEnd \in Nat /\ Base \in Nat
  BY KeyFacts DEF Live
<1> HIDE DEF n
<1>3. CASE n = NoKey
  <2>1. InBook(n) = NoKey
    BY <1>2, <1>3 DEF InBook
  <2>2. \A j \in D : j <= k
    BY <1>1, <1>2, <1>3 DEF IsNext
  <2> HIDE DEF D
  <2>3. IsNext(D, k, InBook(n))
    BY <2>1, <2>2 DEF IsNext
  <2> QED
    BY <2>3 DEF D, n
<1>4. CASE n # NoKey /\ n >= BookEnd
  <2>1. InBook(n) = NoKey
    BY <1>4 DEF InBook
  <2>2. n \in Nat /\ \A j \in Live(l) : k < j => n <= j
    BY <1>1, <1>2, <1>4 DEF IsNext
  <2>3. \A j \in D : j <= k
    <3> TAKE j \in D
    <3>1. j \in Nat /\ j < BookEnd /\ j \in Live(l)
      BY <1>2
    <3> QED
      BY <1>2, <1>4, <2>2, <3>1
  <2> HIDE DEF D
  <2>4. IsNext(D, k, InBook(n))
    BY <2>1, <2>3 DEF IsNext
  <2> QED
    BY <2>4 DEF D, n
<1>5. CASE n # NoKey /\ ~(n >= BookEnd)
  <2>1. InBook(n) = n
    BY <1>5 DEF InBook
  <2>2. n \in Live(l) /\ n \in Nat /\ k < n /\ \A j \in Live(l) : k < j => n <= j
    BY <1>1, <1>2, <1>5 DEF IsNext
  <2>3. n \in D
    BY <1>2, <1>5, <2>2
  <2>4. \A j \in D : k < j => n <= j
    BY <2>2
  <2> HIDE DEF D
  <2>5. IsNext(D, k, InBook(n))
    BY <2>1, <2>2, <2>3, <2>4 DEF IsNext
  <2> QED
    BY <2>5 DEF D, n
<1> QED
  BY <1>3, <1>4, <1>5

(* Where the link from the base is not written, the first directory of the  *)
(* book is what it was.                                                     *)
LEMMA BookChange ==
    ASSUME NEW old, NEW new, NEW seq, BookRows(old, new, seq) = {},
           Max(Key) \in Live(old), NEW n, IsNext(Live(old) \cap Dir, Base, n)
    PROVE  IsNext(Live(new) \cap Dir, Base, n)
<1> DEFINE f == getSuccessor(old, Base)
           D == Live(old) \cap Dir
           E == Live(new) \cap Dir
<1>1. /\ f \notin Deleted(old, new) \cap Dir
      /\ \A k \in Created(old, new) \cap Dir : ~(k < f)
  BY DEF BookRows
<1>2. /\ Live(old) \subseteq Key /\ Live(new) \subseteq Key /\ NoKey \notin Key
      /\ \A j \in Key : j \in Nat /\ (j \in Dir <=> Base < j /\ j < BookEnd)
      /\ BookEnd \in Nat /\ Base \in Nat /\ BookEnd <= Max(Key) /\ Max(Key) \in Nat
      /\ D \subseteq Nat /\ E \subseteq Nat
  BY KeyFacts DEF Live
<1>3. IsNext(Live(old), Base, f)
  BY <1>2, SuccessorIsNext
<1>4. \A j \in E : j \in D \/ j \in Created(old, new) \cap Dir
  BY <1>2 DEF Live, Created
<1>5. f \in Live(old) /\ f \in Dir => f \in E
  BY <1>1 DEF Live, Deleted
<1> HIDE DEF f
<1>6. CASE Dir = {}
  BY <1>6
<1>7. CASE Dir # {}
  <2>1. PICK d \in Dir : TRUE
    BY <1>7
  <2>2. d \in Key /\ d \in Nat /\ Base < d /\ d < BookEnd
    BY <2>1, <1>2, KeyFacts
  <2>3. Base < Max(Key)
    BY <1>2, <2>2
  <2>4. f # NoKey
    <3> SUFFICES ASSUME f = NoKey PROVE FALSE
      OBVIOUS
    <3>1. Max(Key) <= Base
      BY <1>2, <1>3 DEF IsNext
    <3> QED
      BY <1>2, <2>3, <3>1
  <2>5. f \in Live(old) /\ f \in Nat /\ f \in Key /\ Base < f /\ \A j \in Live(old) : Base < j => f <= j
    BY <1>2, <1>3, <2>4 DEF IsNext
  <2>6. CASE f \in Dir
    <3>1. IsNext(D, Base, f)
      BY <2>5, <2>6 DEF IsNext
    <3>2. n = f
      <4> HIDE DEF D
      <4>1. IsNext(D, Base, n)
        BY DEF D
      <4>2. D \subseteq Nat /\ Base \in Int
        BY <1>2
      <4> QED
        BY <3>1, <4>1, <4>2, NextUnique
    <3>3. \A j \in E : Base < j => f <= j
      <4> TAKE j \in E
      <4>1. j \in Nat
        BY <1>2
      <4>2. CASE j \in D
        BY <2>5, <4>2
      <4>3. CASE j \in Created(old, new) \cap Dir
        BY <1>1, <2>5, <4>1, <4>3
      <4> QED
        BY <1>4, <4>2, <4>3
    <3>4. f \in E
      BY <1>5, <2>5, <2>6
    <3> HIDE DEF E
    <3>5. IsNext(E, Base, n)
      BY <2>5, <3>2, <3>3, <3>4 DEF IsNext
    <3> QED
      BY <3>5 DEF E
  <2>7. CASE f \notin Dir
    <3>1. f >= BookEnd
      BY <1>2, <2>5, <2>7
    <3>2. D = {}
      <4> SUFFICES ASSUME NEW j \in D PROVE FALSE
        OBVIOUS
      <4>1. j \in Nat /\ Base < j /\ j < BookEnd /\ j \in Live(old)
        BY <1>2
      <4>2. f <= j
        BY <2>5, <4>1
      <4> QED
        BY <1>2, <2>5, <3>1, <4>1, <4>2
    <3>3. E = {}
      <4> SUFFICES ASSUME NEW j \in E PROVE FALSE
        OBVIOUS
      <4>1. j \in Nat /\ Base < j /\ j < BookEnd
        BY <1>2
      <4>2. ~(j < f)
        BY <1>1, <1>4, <3>2
      <4> QED
        BY <1>2, <2>5, <3>1, <4>1, <4>2
    <3> QED
      BY <3>2, <3>3
  <2> QED
    BY <2>6, <2>7
<1> QED
  BY <1>6, <1>7

-----------------------------------------------------------------------------
(* Rows.                                                                    *)
NextIn(rows, k, seq) ==
    LET found == Select(rows, k, seq)
        next == (CHOOSE r \in found : TRUE).next
    IN  IF found = {} \/ next = lastKey THEN NoKey ELSE next

ObjectIn(rows, k, seq) ==
    LET found == Select(rows, k, seq)
    IN  IF found = {} THEN None ELSE (CHOOSE r \in found : TRUE).object

(* Rows of a ledger newer than all the others are added to them.            *)
LEMMA InsertNewer ==
    ASSUME NEW rows, NEW new, NEW seq, \A r \in rows : r.seq # seq, \A r \in new : r.seq = seq
    PROVE  Insert(rows, new) = rows \cup new
<1>1. \A r \in rows, n \in new : <<n.key, n.seq>> # <<r.key, r.seq>>
  <2> TAKE r \in rows, n \in new
  <2>1. n.seq # r.seq
    OBVIOUS
  <2> QED
    BY <2>1
<1> QED
  BY <1>1 DEF Insert

LEMMA ExpireNone ==
    ASSUME NothingExpires, NEW rows, NEW now \in 1 .. MaxLedgers + 1, \A r \in rows : r.at \in Nat \ {0}
    PROVE  Expire(rows, now) = rows
<1>1. Ttl \in Nat /\ MaxLedgers \in Nat
  BY LedgerStateAssumption
<1>2. \A r \in rows : now - r.at <= Ttl
  <2> TAKE r \in rows
  <2>1. r.at \in Nat /\ r.at # 0
    OBVIOUS
  <2> QED
    BY <1>1, <2>1 DEF NothingExpires
<1> QED
  BY <1>2 DEF Expire

NewerRows(rows, new, all, n) ==
    /\ n \in Nat /\ all = rows \cup new
    /\ \A r \in rows : r.seq \in Nat /\ r.seq <= n
    /\ \A r \in new : r.seq = n + 1

(* A read of an older ledger does not see them.                             *)
LEMMA SelectOlder ==
    ASSUME NEW rows, NEW new, NEW all, NEW n, NewerRows(rows, new, all, n),
           NEW k, NEW seq \in 1 .. n
    PROVE  Select(all, k, seq) = Select(rows, k, seq)
<1>1. \A r \in new : ~(r.seq <= seq)
  BY DEF NewerRows
<1>2. {r \in all : r.key = k /\ r.seq <= seq} = {r \in rows : r.key = k /\ r.seq <= seq}
  BY <1>1 DEF NewerRows
<1> QED
  BY <1>2 DEF Select

(* A read of the new ledger sees them, or the rows that the one before has. *)
LEMMA SelectNew ==
    ASSUME NEW rows, NEW new, NEW all, NEW seq, NewerRows(rows, new, all, seq), NEW k
    PROVE  /\ (\A r \in new : r.key # k) =>
                 Select(all, k, seq + 1) = Select(rows, k, seq)
           /\ (\E r \in new : r.key = k) =>
                 Select(all, k, seq + 1) = {r \in new : r.key = k}
<1> USE DEF NewerRows
<1>1. \A r \in rows : r.seq <= seq + 1 /\ ~(seq + 1 <= r.seq)
  OBVIOUS
<1>2. seq + 1 <= seq + 1
  OBVIOUS
<1>3. ASSUME \A r \in new : r.key # k
      PROVE  Select(all, k, seq + 1) = Select(rows, k, seq)
  <2>1. {r \in all : r.key = k /\ r.seq <= seq + 1} = {r \in rows : r.key = k /\ r.seq <= seq}
    BY <1>1, <1>3
  <2> QED
    BY <2>1 DEF Select
<1>4. ASSUME NEW n \in new, n.key = k
      PROVE  Select(all, k, seq + 1) = {r \in new : r.key = k}
  <2> DEFINE found == {r \in all : r.key = k /\ r.seq <= seq + 1}
  <2>1. \A r \in new : r.key = k => r \in found /\ r.seq = seq + 1
    BY <1>2
  <2>2. \A r \in found : r.seq <= seq + 1
    OBVIOUS
  <2>3. \A r \in found : (\A o \in found : o.seq <= r.seq) => r \in new
    BY <1>1, <1>4, <2>1
  <2>4. \A r \in found : r.key = k
    OBVIOUS
  <2> HIDE DEF found
  <2>5. {r \in found : \A o \in found : o.seq <= r.seq} = {r \in new : r.key = k}
    BY <2>1, <2>2, <2>3, <2>4
  <2> QED
    BY <2>5 DEF Select, found
<1> QED
  BY <1>3, <1>4

LEMMA FetchIsIn ==
    ASSUME NEW k, NEW seq
    PROVE  /\ doFetchSuccessorKey(k, seq) = NextIn(successor, k, seq)
           /\ doFetchSuccessorKey(k, seq)' = NextIn(successor', k, seq)
           /\ doFetchLedgerObject(k, seq) = ObjectIn(objects, k, seq)
           /\ doFetchLedgerObject(k, seq)' = ObjectIn(objects', k, seq)
BY DEF doFetchSuccessorKey, doFetchLedgerObject, NextIn, ObjectIn

(* A read that finds rows of one value returns it.                          *)
LEMMA ReadOne ==
    ASSUME NEW rows, NEW k, NEW seq, Select(rows, k, seq) # {}
    PROVE  \E r \in Select(rows, k, seq) :
               /\ NextIn(rows, k, seq) = IF r.next = lastKey THEN NoKey ELSE r.next
               /\ ObjectIn(rows, k, seq) = r.object
BY DEF NextIn, ObjectIn

(* Reads of the same rows return the same.                                  *)
LEMMA ReadSame ==
    ASSUME NEW rows, NEW others, NEW k, NEW seq, NEW old,
           Select(rows, k, seq) = Select(others, k, old)
    PROVE  /\ NextIn(rows, k, seq) = NextIn(others, k, old)
           /\ ObjectIn(rows, k, seq) = ObjectIn(others, k, old)
BY DEF NextIn, ObjectIn

-----------------------------------------------------------------------------
(* What the reads return where the tables are right.                        *)

(* The cache has an object of the newest ledger only for the ledgers since  *)
(* its last change, and these hold it too.                                  *)
LEMMA GetRight ==
    ASSUME LedgersOK, NEW seq \in 1 .. Len(ledger), NEW k \in Key
    PROVE  get(k, seq) = None \/ get(k, seq) = ledger[seq][k]
<1> DEFINE n == Len(ledger)
<1>1. n \in 1 .. n /\ n \in Nat /\ seq <= n
  BY DEF LedgersOK
<1>2. ledger[n][k] # None /\ ledger[n][k] <= seq => ledger[seq][k] = ledger[n][k]
  BY <1>1 DEF LedgersOK
<1>3. ledger[n][k] \in Nat
  <2>1. ledger[n] \in [Key -> Nat]
    BY <1>1 DEF LedgersOK
  <2> QED
    BY <2>1
<1>4. seq >= ledger[n][k] => ledger[n][k] <= seq
  BY <1>3
<1> QED
  BY <1>2, <1>4 DEF get, maxSequence

LEMMA FetchObject ==
    ASSUME LedgersOK, ObjectsRight, NEW seq \in 1 .. Len(ledger), NEW k \in Key
    PROVE  fetchLedgerObject(k, seq) = ledger[seq][k]
BY GetRight DEF fetchLedgerObject, ObjectsRight

LEMMA FetchObjects ==
    ASSUME LedgersOK, ObjectsRight, NEW seq \in 1 .. Len(ledger), NEW keys \in Seq(Key)
    PROVE  fetchLedgerObjects(keys, seq) = [i \in DOMAIN keys |-> ledger[seq][keys[i]]]
<1> DEFINE missed == {i \in DOMAIN keys : get(keys[i], seq) = None}
           asked == Kept(keys, missed)
           objs == doFetchLedgerObjects(asked, seq)
           answer(i) == IF i \in missed THEN objs[Rank(missed, i)] ELSE get(keys[i], seq)
<1>1. fetchLedgerObjects(keys, seq) = [i \in DOMAIN keys |-> answer(i)]
  BY DEF fetchLedgerObjects
<1>2. Len(keys) \in Nat /\ missed \subseteq 1 .. Len(keys) /\ \A i \in DOMAIN keys : keys[i] \in Key
  OBVIOUS
<1>3. ASSUME NEW i \in DOMAIN keys
      PROVE  answer(i) = ledger[seq][keys[i]]
  <2>1. CASE i \in missed
    <3> DEFINE len == Len(keys)
    <3>1. len \in Nat /\ missed \subseteq 1 .. len
      BY <1>2
    <3> HIDE DEF missed, len
    <3>2. Rank(missed, i) \in DOMAIN asked /\ asked[Rank(missed, i)] = keys[i]
      BY <2>1, <3>1, KeptAt
    <3> HIDE DEF asked
    <3>3. objs[Rank(missed, i)] = doFetchLedgerObject(keys[i], seq)
      BY <3>2 DEF doFetchLedgerObjects
    <3> HIDE DEF objs
    <3>4. answer(i) = doFetchLedgerObject(keys[i], seq)
      BY <2>1, <3>3
    <3> QED
      BY <1>2, <3>4 DEF ObjectsRight
  <2>2. CASE i \notin missed
    <3>1. get(keys[i], seq) # None /\ answer(i) = get(keys[i], seq)
      BY <2>2
    <3> QED
      BY <1>2, <3>1, GetRight
  <2> QED
    BY <2>1, <2>2
<1> HIDE DEF answer
<1> QED
  BY <1>1, <1>3

LEMMA FetchSuccessor ==
    ASSUME LinksRight, NEW seq \in 1 .. Len(ledger), NEW k \in Live(ledger[seq]) \cup {firstKey}
    PROVE  fetchSuccessorKey(k, seq) = getSuccessor(ledger[seq], k)
BY DEF fetchSuccessorKey, LinksRight

(* A page is the walk over the live keys, none of its objects missing.      *)
LEMMA FetchPage ==
    ASSUME LedgersOK, ObjectsRight, LinksRight, NEW seq \in 1 .. Len(ledger),
           NEW k \in Live(ledger[seq]) \cup {firstKey}, NEW limit \in Nat
    PROVE  LET page == fetchLedgerPage(k, seq, limit)
           IN  /\ WalkFound(Live(ledger[seq]), k, page.objects, limit)
               /\ page.cursor = IF Len(page.objects) = limit THEN page.objects[limit] ELSE NoKey
<1> DEFINE S == Live(ledger[seq])
           next == [j \in Position |-> fetchSuccessorKey(j, seq)]
           keys == Keys(k, seq, limit)
           objs == fetchLedgerObjects(keys, seq)
<1>1. S \subseteq Key /\ S \subseteq Nat /\ k \in Int /\ S \cup {k} \subseteq Position /\ \A j \in S : j \in Int
  <2>1. S \subseteq Key
    BY DEF Live
  <2>2. S \subseteq Nat /\ \A j \in S : j \in Int
    <3> HIDE DEF S
    <3>1. \A j \in S : j \in Nat
      BY <2>1, KeyFacts
    <3> QED
      BY <3>1
  <2>3. k \in Int
    BY <2>2, KeyFacts
  <2>4. S \cup {k} \subseteq Position
    BY <2>1 DEF Position
  <2> QED
    BY <2>1, <2>2, <2>3, <2>4
<1>2. \A j \in S \cup {k} : IsNext(S, j, next[j])
  <2> TAKE j \in S \cup {k}
  <2>1. j \in Int /\ j \in Position /\ j \in S \cup {firstKey}
    BY <1>1
  <2>2. next[j] = getSuccessor(ledger[seq], j)
    BY <2>1, FetchSuccessor
  <2> QED
    BY <2>1, <2>2, SuccessorIsNext
<1>3. keys = Walk(next, k, limit)
  BY DEF Keys
<1>4. WalkFound(S, k, keys, limit)
  <2> HIDE DEF S, next, keys
  <2> QED
    BY <1>1, <1>2, <1>3, WalkFinds
<1>5. keys \in Seq(S) /\ keys \in Seq(Key)
  <2>1. keys \in Seq(S)
    BY <1>4 DEF WalkFound
  <2>2. S \subseteq Key
    BY <1>1
  <2> HIDE DEF S, keys
  <2>3. keys \in Seq(Key)
    BY <2>1, <2>2
  <2> QED
    BY <2>1, <2>3
<1>6. objs = [i \in DOMAIN keys |-> ledger[seq][keys[i]]]
  <2> HIDE DEF keys
  <2> QED
    BY <1>5, FetchObjects
<1>7. \A i \in DOMAIN keys : objs[i] # None
  <2> TAKE i \in DOMAIN keys
  <2>1. keys[i] \in S
    <3> HIDE DEF S, keys
    <3> QED
      BY <1>5
  <2>2. ledger[seq][keys[i]] # None
    BY <2>1 DEF Live
  <2> HIDE DEF keys, objs
  <2> QED
    BY <1>6, <2>2
<1>8. {i \in DOMAIN keys : objs[i] # None} = DOMAIN keys
  <2> HIDE DEF keys, objs
  <2> QED
    BY <1>7
<1>9. fetchLedgerPage(k, seq, limit) = [objects |-> keys, cursor |-> IF Len(keys) = limit THEN keys[limit] ELSE NoKey]
  <2>1. Kept(keys, DOMAIN keys) = keys
    <3> HIDE DEF keys
    <3> QED
      BY <1>5, KeptAll
  <2> HIDE DEF S, next
  <2> QED
    BY <1>8, <2>1 DEF fetchLedgerPage
<1> HIDE DEF keys, S
<1> QED
  BY <1>4, <1>9 DEF S

(* A read that finds only right links returns the right one.                *)
LEMMA ReadRight ==
    ASSUME NEW rows, NEW k \in Nat, k < lastKey, NEW seq, NEW l, Select(rows, k, seq) # {},
           \A r \in Select(rows, k, seq) : r.next = OrLast(getSuccessor(l, k))
    PROVE  NextIn(rows, k, seq) = getSuccessor(l, k)
<1>1. PICK r \in Select(rows, k, seq) :
           NextIn(rows, k, seq) = IF r.next = lastKey THEN NoKey ELSE r.next
  BY ReadOne
<1> QED
  BY <1>1, OrLastFacts

-----------------------------------------------------------------------------
(* The first ledger.                                                        *)

(* Every link that loadInitialLedger writes is right, and there is one for  *)
(* each live key and the first one: within a range, across an edge, or to   *)
(* the last key.                                                            *)
LEMMA InitialLinks ==
    ASSUME NEW l, Live(l) # {}
    PROVE  /\ \A r \in InitialSuccessors(l, 1) :
                 /\ r.seq = 1 /\ r.at = 1 /\ r.key \in Live(l) \cup {firstKey}
                 /\ r.next = OrLast(getSuccessor(l, r.key))
           /\ \A k \in Live(l) \cup {firstKey} : \E r \in InitialSuccessors(l, 1) : r.key = k
<1> DEFINE S == Live(l)
           succ(k) == getSuccessor(l, k)
           within == {SuccessorRow(k, 1, succ(k)) : k \in S \ EdgeKeys(l)}
           edges == {SuccessorRow(k, 1, succ(k)) : k \in {e \in EdgeKeys(l) : succ(e) # NoKey}}
           ends == {SuccessorRow(firstKey, 1, Min(S)), SuccessorRow(Max(S), 1, lastKey)}
           Good(r) == /\ r.seq = 1 /\ r.at = 1 /\ r.key \in S \cup {firstKey}
                      /\ r.next = OrLast(succ(r.key))
<1>1. InitialSuccessors(l, 1) = within \cup edges \cup ends
  BY DEF InitialSuccessors, BookSuccessors
<1>2. S \subseteq Key /\ S \subseteq Nat /\ NoKey \notin S /\ \A j \in S : j \in Nat /\ 0 < j
  BY KeyFacts DEF Live
<1>3. IsFiniteSet(S)
  <2> HIDE DEF S
  <2> QED
    BY <1>2, KeyFacts, FS_Subset
<1>4. Min(S) \in S /\ (\A n \in S : Min(S) <= n) /\ Max(S) \in S /\ \A n \in S : n <= Max(S)
  BY <1>2, <1>3, MinIn, MaxIn
<1>5. \A k \in S \cup {firstKey} : IsNext(S, k, succ(k)) /\ k \in Int
  <2> TAKE k \in S \cup {firstKey}
  <2>1. k \in Int
    BY <1>2, KeyFacts
  <2> QED
    BY <2>1, SuccessorIsNext
<1>6. \A k \in S \ EdgeKeys(l) : succ(k) # NoKey
  <2> TAKE k \in S \ EdgeKeys(l)
  <2>1. PICK j \in S : ~(j <= k)
    BY DEF EdgeKeys
  <2> HIDE DEF S, succ
  <2> QED
    BY <1>2, <1>5, <2>1 DEF IsNext
<1>7. succ(firstKey) = Min(S)
  <2> DEFINE m == Min(S)
  <2>1. IsNext(S, firstKey, m)
    BY <1>2, <1>4, KeyFacts DEF IsNext
  <2>2. IsNext(S, firstKey, succ(firstKey)) /\ firstKey \in Int
    BY <1>5
  <2> HIDE DEF S, succ, m
  <2>3. succ(firstKey) = m
    BY <1>2, <2>1, <2>2, NextUnique
  <2> QED
    BY <2>3 DEF m
<1>8. \A k \in S : succ(k) = NoKey <=> k = Max(S)
  <2> TAKE k \in S
  <2> HIDE DEF S, succ
  <2>1. ASSUME succ(k) = NoKey
        PROVE  k = Max(S)
    <3>1. \A j \in S : j <= k
      BY <1>2, <1>5, <2>1 DEF IsNext
    <3>2. Max(S) <= k /\ k <= Max(S)
      BY <1>4, <3>1
    <3>3. Max(S) \in Nat /\ k \in Nat
      BY <1>2, <1>4
    <3> QED
      BY <3>2, <3>3
  <2>2. ASSUME k = Max(S), succ(k) # NoKey
        PROVE  FALSE
    <3>1. succ(k) \in S /\ k < succ(k)
      BY <1>5, <2>2 DEF IsNext
    <3>2. succ(k) <= k
      BY <1>4, <2>2, <3>1
    <3>3. succ(k) \in Nat /\ k \in Nat
      BY <1>2, <3>1
    <3> QED
      BY <3>1, <3>2, <3>3
  <2> QED
    BY <2>1, <2>2
<1>9. EdgeKeys(l) \subseteq S
  BY DEF EdgeKeys
<1> HIDE DEF S, succ
<1>10. ASSUME NEW k \in S \cup {firstKey}, succ(k) # NoKey
       PROVE  Good(SuccessorRow(k, 1, succ(k))) /\ SuccessorRow(k, 1, succ(k)).key = k
  BY <1>10 DEF SuccessorRow, OrLast
<1>11. \A r \in within : Good(r)
  BY <1>6, <1>10
<1>12. \A r \in edges : Good(r)
  BY <1>9, <1>10
<1>13. firstKey \in S \cup {firstKey} /\ succ(firstKey) # NoKey
  BY <1>2, <1>4, <1>7
<1>14. \A r \in ends : Good(r)
  <2>1. Good(SuccessorRow(firstKey, 1, Min(S)))
    BY <1>7, <1>10, <1>13
  <2>2. Good(SuccessorRow(Max(S), 1, lastKey))
    BY <1>4, <1>8 DEF SuccessorRow, OrLast
  <2> QED
    BY <2>1, <2>2
<1>15. ASSUME NEW k \in S \cup {firstKey}
       PROVE  \E r \in within \cup edges \cup ends : r.key = k
  <2>1. CASE k = firstKey
    <3>1. SuccessorRow(firstKey, 1, Min(S)) \in ends
      OBVIOUS
    <3>2. SuccessorRow(firstKey, 1, Min(S)).key = k
      BY <2>1 DEF SuccessorRow
    <3> HIDE DEF within, edges, ends
    <3> QED
      BY <3>1, <3>2
  <2>2. CASE k \in S /\ succ(k) = NoKey
    <3>1. SuccessorRow(Max(S), 1, lastKey) \in ends /\ k = Max(S)
      BY <1>8, <2>2
    <3>2. SuccessorRow(Max(S), 1, lastKey).key = k
      BY <3>1 DEF SuccessorRow
    <3> HIDE DEF within, edges, ends
    <3> QED
      BY <3>1, <3>2
  <2>3. CASE k \in S /\ succ(k) # NoKey
    <3>1. SuccessorRow(k, 1, succ(k)) \in within \cup edges
      BY <2>3
    <3>2. SuccessorRow(k, 1, succ(k)).key = k
      BY DEF SuccessorRow
    <3> HIDE DEF within, edges, ends
    <3> QED
      BY <3>1, <3>2
  <2> QED
    BY <2>1, <2>2, <2>3
<1>16. \A r \in InitialSuccessors(l, 1) : Good(r)
  BY <1>1, <1>11, <1>12, <1>14
<1>17. \A k \in S \cup {firstKey} : \E r \in InitialSuccessors(l, 1) : r.key = k
  BY <1>1, <1>15
<1> QED
  BY <1>16, <1>17 DEF S, succ

LEMMA InitIInv == Init => IInv
<1> SUFFICES ASSUME Init PROVE IInv
  OBVIOUS
<1>1. PICK live \in SUBSET CanChange :
        LET l == [k \in Key |-> IF k \in live \cup {Max(Key)} THEN 1 ELSE None]
        IN  /\ ledger = <<l>>
            /\ objects = {ObjectRow(k, 1, 1, 1) : k \in Live(l)}
            /\ successor = InitialSuccessors(l, 1)
  BY DEF Init
<1> DEFINE l == [k \in Key |-> IF k \in live \cup {Max(Key)} THEN 1 ELSE None]
<1>2. /\ ledger = <<l>> /\ objects = {ObjectRow(k, 1, 1, 1) : k \in Live(l)}
      /\ successor = InitialSuccessors(l, 1)
  BY <1>1
<1>3. minSequence = 1 /\ diff = {} /\ full = TRUE /\ pager = NoPager
  BY DEF Init
<1>4. l \in [Key -> Nat] /\ (\A k \in Key : l[k] = 0 \/ l[k] = 1) /\ l[Max(Key)] = 1 /\ Max(Key) \in Key
  BY KeyFacts DEF None
<1>5. \A k \in Key : l[k] = IF k \in Live(l) THEN 1 ELSE None
  BY DEF Live, None
<1>6. Live(l) # {} /\ Live(l) \subseteq Key
  BY <1>4 DEF Live, None
<1> HIDE DEF l
<1>7. Len(ledger) = 1 /\ ledger[1] = l /\ ledger \in Seq([Key -> Nat]) /\ 1 .. Len(ledger) = {1}
  BY <1>2, <1>4
<1>8. LedgersOK
  <2>1. 1 \in 1 .. MaxLedgers + 1
    BY LedgerStateAssumption
  <2>2. /\ \A i \in 1 .. Len(ledger) : \A k \in Key : ledger[i][k] <= i
        /\ \A i \in 1 .. Len(ledger) : ledger[i][Max(Key)] # None
    BY <1>4, <1>7 DEF None
  <2>3. \A i, j \in 1 .. Len(ledger) : i = j
    BY <1>7
  <2> QED
    BY <1>3, <1>7, <2>1, <2>2, <2>3 DEF LedgersOK
<1>9. \A r \in objects : r.key \in Live(l) /\ r.seq = 1 /\ r.object = 1 /\ r.at = 1
  BY <1>2 DEF ObjectRow
<1>10. ObjectRowsOK
  BY <1>6, <1>7, <1>9 DEF ObjectRowsOK
<1>11. \A r \in successor : /\ r.seq = 1 /\ r.at = 1 /\ r.key \in Live(l) \cup {firstKey}
                            /\ r.next = OrLast(getSuccessor(l, r.key))
  BY <1>2, <1>6, InitialLinks
<1>12. \A k \in Live(l) \cup {firstKey} : \E r \in successor : r.key = k
  BY <1>2, <1>6, InitialLinks
<1>13. \A k \in Live(l) \cup {firstKey} : k \in Nat /\ k < lastKey /\ k \in Position
  <2> TAKE k \in Live(l) \cup {firstKey}
  <2>1. CASE k \in Key
    BY <2>1, KeyFacts DEF Position
  <2>2. CASE k = firstKey
    <3>1. lastKey \in Nat /\ Max(Key) \in Key /\ Max(Key) < lastKey /\ 0 < Max(Key) /\ Max(Key) \in Nat
      BY KeyFacts
    <3>2. firstKey = 0
      BY KeyFacts
    <3> QED
      BY <2>2, <3>1, <3>2 DEF Position
  <2> QED
    BY <1>6, <2>1, <2>2
<1>14. SuccessorRowsOK
  <2> SUFFICES ASSUME NEW r \in successor
               PROVE  /\ r.key \in Position /\ r.seq \in 1 .. Len(ledger)
                      /\ r.next \in Key \cup {lastKey} /\ r.key < r.next
                      /\ r.at \in 1 .. Len(ledger)
    BY DEF SuccessorRowsOK
  <2>1. r.key \in Nat /\ r.key < lastKey /\ r.key \in Position
    BY <1>11, <1>13
  <2>2. r.next \in Key \cup {lastKey} /\ r.key < r.next
    BY <1>11, <2>1, OrLastFacts
  <2> QED
    BY <1>7, <1>11, <2>1, <2>2
<1>15. ObjectsRight
  <2> SUFFICES ASSUME NEW k \in Key PROVE ObjectIn(objects, k, 1) = l[k]
    BY <1>7, FetchIsIn DEF ObjectsRight
  <2>1. CASE k \in Live(l)
    <3>1. ObjectRow(k, 1, 1, 1) \in objects /\ ObjectRow(k, 1, 1, 1).key = k
      BY <1>2, <2>1 DEF ObjectRow
    <3>2. ObjectRow(k, 1, 1, 1) \in Select(objects, k, 1)
      BY <1>9, <3>1 DEF Select
    <3>3. \A r \in Select(objects, k, 1) : r.object = 1
      BY <1>9 DEF Select
    <3>4. ObjectIn(objects, k, 1) = 1
      BY <3>2, <3>3, ReadOne
    <3> QED
      BY <1>5, <2>1, <3>4
  <2>2. CASE k \notin Live(l)
    <3>1. Select(objects, k, 1) = {}
      BY <1>9, <2>2 DEF Select
    <3> QED
      BY <1>5, <2>2, <3>1 DEF ObjectIn
  <2> QED
    BY <2>1, <2>2
<1>16. DiffsRight
  <2>1. 2 .. Len(ledger) = {}
    BY <1>7
  <2> QED
    BY <1>3, <2>1 DEF DiffsRight
<1>17. LinksRight
  <2> SUFFICES ASSUME NEW k \in Live(l) \cup {firstKey}
               PROVE  NextIn(successor, k, 1) = getSuccessor(l, k)
    BY <1>7, FetchIsIn DEF LinksRight
  <2>1. PICK r \in successor : r.key = k
    BY <1>12
  <2>2. r \in Select(successor, k, 1)
    BY <1>11, <2>1 DEF Select
  <2>3. \A s \in Select(successor, k, 1) : s.next = OrLast(getSuccessor(l, k))
    BY <1>11 DEF Select
  <2> QED
    BY <1>13, <2>2, <2>3, ReadRight
<1>18. BookRight
  <2> SUFFICES ASSUME NEW r \in successor, r.key = Base
               PROVE  IsNext(Live(l) \cap Dir, Base, InBook(doFetchSuccessorKey(Base, 1)))
    BY <1>7 DEF BookRight
  <2>1. Base \in Live(l) \cup {firstKey} /\ Base \in Nat
    BY <1>11, KeyFacts
  <2>2. doFetchSuccessorKey(Base, 1) = getSuccessor(l, Base)
    BY <1>7, <1>17, <2>1 DEF LinksRight
  <2> QED
    BY <2>1, <2>2, NextInBook
<1>19. PagerRight
  BY <1>3 DEF PagerRight
<1> QED
  BY <1>8, <1>10, <1>14, <1>15, <1>16, <1>17, <1>18, <1>19 DEF IInv

-----------------------------------------------------------------------------
(* The next ledger: one whose changed keys, and no others, have a new       *)
(* version or are gone, with the rows that buildNextLedger adds.            *)
Extended(new, changed) ==
    LET seq == Len(ledger) + 1
        old == ledger[Len(ledger)]
    IN  /\ Len(ledger) <= MaxLedgers
        /\ new \in [Key -> Nat] /\ changed \subseteq Key /\ new[Max(Key)] # None
        /\ \A k \in changed : new[k] \in {None, seq} /\ new[k] # old[k]
        /\ \A k \in Key \ changed : new[k] = old[k]
        /\ ledger' = Append(ledger, new)
        /\ objects' = objects \cup {ObjectRow(k, seq, new[k], seq) : k \in changed}
        /\ successor' = successor \cup (LinkRows(old, new, seq) \cup BookRows(old, new, seq))
        /\ diff' = diff \cup {[seq |-> seq, key |-> k] : k \in changed}
        /\ UNCHANGED <<minSequence, full, pager>>

LEMMA NewestFacts ==
    ASSUME LedgersOK
    PROVE  /\ Len(ledger) \in Nat /\ 1 <= Len(ledger) /\ Len(ledger) + 1 \in Nat
           /\ Len(ledger) \in 1 .. Len(ledger)
           /\ \A i \in 1 .. Len(ledger) : ledger[i] \in [Key -> Nat]
BY DEF LedgersOK

(* No row is gone, and the new ones replace none.                           *)
LEMMA BuildExtends ==
    ASSUME NothingExpires, IInv, BuildNextLedger
    PROVE  \E new, changed : Extended(new, changed)
<1> DEFINE n == Len(ledger)
           seq == n + 1
           old == ledger[n]
<1>1. PICK toggled \in SUBSET CanChange :
      \E modified \in SUBSET (Live(old) \ toggled) :
         LET new == Change(old, toggled, modified, seq)
             changed == toggled \cup modified
         IN  /\ ledger' = Append(ledger, new)
             /\ objects' = Insert(Expire(objects, seq),
                                  {ObjectRow(k, seq, new[k], seq) : k \in changed})
             /\ successor' = Insert(Expire(successor, seq),
                                    LinkRows(old, new, seq) \cup BookRows(old, new, seq))
             /\ diff' = diff \cup {[seq |-> seq, key |-> k] : k \in changed}
  BY DEF BuildNextLedger, maxSequence
<1>2. PICK modified \in SUBSET (Live(old) \ toggled) :
         LET new == Change(old, toggled, modified, seq)
             changed == toggled \cup modified
         IN  /\ ledger' = Append(ledger, new)
             /\ objects' = Insert(Expire(objects, seq),
                                  {ObjectRow(k, seq, new[k], seq) : k \in changed})
             /\ successor' = Insert(Expire(successor, seq),
                                    LinkRows(old, new, seq) \cup BookRows(old, new, seq))
             /\ diff' = diff \cup {[seq |-> seq, key |-> k] : k \in changed}
  BY <1>1
<1> DEFINE new == Change(old, toggled, modified, seq)
           changed == toggled \cup modified
<1>3. n <= MaxLedgers /\ UNCHANGED <<minSequence, full, pager>>
  BY DEF BuildNextLedger, maxSequence
<1>4. /\ LedgersOK /\ ObjectRowsOK /\ SuccessorRowsOK /\ n \in Nat /\ 1 <= n /\ n \in 1 .. n
      /\ old \in [Key -> Nat] /\ seq \in 1 .. MaxLedgers + 1 /\ seq \in Nat /\ seq # 0
      /\ \A k \in Key : old[k] # seq
  <2>1. LedgersOK /\ ObjectRowsOK /\ SuccessorRowsOK
    BY DEF IInv
  <2>2. n \in Nat /\ 1 <= n /\ n \in 1 .. n /\ old \in [Key -> Nat]
    BY <2>1, NewestFacts
  <2>3. seq \in 1 .. MaxLedgers + 1 /\ seq \in Nat /\ seq # 0
    BY <1>3, <2>2, LedgerStateAssumption
  <2>4. \A k \in Key : old[k] <= n /\ old[k] \in Nat
    BY <2>1, <2>2 DEF LedgersOK
  <2>5. \A k \in Key : old[k] # seq
    BY <2>2, <2>4
  <2> QED
    BY <2>1, <2>2, <2>3, <2>5
<1>5. toggled \subseteq CanChange
  OBVIOUS
<1>6. modified \subseteq Live(old) \ toggled
  OBVIOUS
<1>7. toggled \subseteq Key /\ modified \subseteq Key /\ Max(Key) \in Key /\ Max(Key) \notin toggled
  BY <1>5, <1>6, KeyFacts DEF CanChange, Live
<1>8. old[Max(Key)] # None
  BY <1>4 DEF LedgersOK
<1>9. \A k \in modified : old[k] # None /\ k \notin toggled
  BY <1>6 DEF Live
<1> HIDE DEF n, seq, old
<1>10. \A k \in Key : new[k] = IF k \in toggled THEN IF old[k] = None THEN seq ELSE None
                               ELSE IF k \in modified THEN seq ELSE old[k]
  BY DEF Change
<1>11. new \in [Key -> Nat]
  <2>1. new = [k \in Key |-> new[k]]
    BY DEF Change
  <2>2. \A k \in Key : new[k] \in Nat
    BY <1>4, <1>10 DEF None
  <2> HIDE DEF new
  <2> QED
    BY <2>1, <2>2
<1> HIDE DEF new
<1>12. /\ new[Max(Key)] # None
       /\ \A k \in changed : new[k] \in {None, seq} /\ new[k] # old[k]
       /\ \A k \in Key \ changed : new[k] = old[k]
  <2>1. seq # None
    BY <1>4 DEF None
  <2>2. \A k \in toggled : new[k] \in {None, seq} /\ new[k] # old[k]
    BY <1>7, <1>10, <2>1
  <2>3. \A k \in modified : new[k] \in {None, seq} /\ new[k] # old[k]
    BY <1>4, <1>7, <1>9, <1>10
  <2>4. new[Max(Key)] # None
    BY <1>7, <1>8, <1>10, <2>1
  <2> QED
    BY <1>10, <2>2, <2>3, <2>4
<1>13. Expire(objects, seq) = objects
  <2>1. \A r \in objects : r.at \in Nat \ {0}
    BY <1>4 DEF ObjectRowsOK, n
  <2> QED
    BY <1>4, <2>1, ExpireNone
<1>14. Expire(successor, seq) = successor
  <2>1. \A r \in successor : r.at \in Nat \ {0}
    BY <1>4 DEF SuccessorRowsOK, n
  <2> QED
    BY <1>4, <2>1, ExpireNone
<1>15. objects' = objects \cup {ObjectRow(k, seq, new[k], seq) : k \in changed}
  <2> DEFINE rows == {ObjectRow(k, seq, new[k], seq) : k \in changed}
  <2>1. \A r \in rows : r.seq = seq
    BY DEF ObjectRow
  <2>2. \A r \in objects : r.seq # seq
    BY <1>4 DEF ObjectRowsOK, n, seq
  <2>3. objects' = Insert(objects, rows)
    BY <1>2, <1>13 DEF new
  <2> HIDE DEF rows
  <2>4. objects' = objects \cup rows
    BY <2>1, <2>2, <2>3, InsertNewer
  <2> QED
    BY <2>4 DEF rows
<1>16. successor' = successor \cup (LinkRows(old, new, seq) \cup BookRows(old, new, seq))
  <2> DEFINE rows == LinkRows(old, new, seq) \cup BookRows(old, new, seq)
  <2>1. \A r \in rows : r.seq = seq
    BY LinkRowsRight
  <2>2. \A r \in successor : r.seq # seq
    BY <1>4 DEF SuccessorRowsOK, n, seq
  <2>3. successor' = Insert(successor, rows)
    BY <1>2, <1>14 DEF new
  <2> HIDE DEF rows
  <2>4. successor' = successor \cup rows
    BY <2>1, <2>2, <2>3, InsertNewer
  <2> QED
    BY <2>4 DEF rows
<1>17. ledger' = Append(ledger, new) /\ diff' = diff \cup {[seq |-> seq, key |-> k] : k \in changed}
  BY <1>2 DEF new
<1>18. changed \subseteq Key
  BY <1>7
<1> HIDE DEF changed
<1>19. Extended(new, changed)
  BY <1>3, <1>11, <1>12, <1>15, <1>16, <1>17, <1>18 DEF Extended, seq, old, n
<1> QED
  BY <1>19

LEMMA ExtendedLedgers ==
    ASSUME LedgersOK, NEW new, NEW changed, Extended(new, changed)
    PROVE  /\ Len(ledger') = Len(ledger) + 1
           /\ \A i \in 1 .. Len(ledger) : ledger'[i] = ledger[i]
           /\ ledger'[Len(ledger) + 1] = new
           /\ \A i \in 1 .. Len(ledger') : i \in 1 .. Len(ledger) \/ i = Len(ledger) + 1
           /\ LedgersOK'
<1> DEFINE n == Len(ledger)
           old == ledger[n]
<1>1. /\ n \in Nat /\ 1 <= n /\ n + 1 \in Nat /\ n \in 1 .. n
      /\ \A i \in 1 .. n : ledger[i] \in [Key -> Nat]
  BY NewestFacts
<1>2. ledger \in Seq([Key -> Nat]) /\ new \in [Key -> Nat] /\ ledger' = Append(ledger, new)
  BY DEF LedgersOK, Extended
<1>3. /\ Len(ledger') = n + 1 /\ ledger' \in Seq([Key -> Nat])
      /\ \A i \in 1 .. n : ledger'[i] = ledger[i]
      /\ ledger'[n + 1] = new
  BY <1>2
<1>4. n <= MaxLedgers /\ MaxLedgers \in Nat
  BY LedgerStateAssumption DEF Extended
<1>5. /\ changed \subseteq Key /\ new[Max(Key)] # None
      /\ \A k \in changed : new[k] \in {None, n + 1} /\ new[k] # old[k]
      /\ \A k \in Key \ changed : new[k] = old[k]
  BY DEF Extended
<1>6. minSequence' = minSequence /\ full' = full
  BY DEF Extended
<1>7. /\ \A i \in 1 .. n : \A k \in Key : ledger[i][k] <= i
      /\ \A i \in 1 .. n : ledger[i][Max(Key)] # None
      /\ \A i, j \in 1 .. n : \A k \in Key :
            i <= j /\ ledger[j][k] # None /\ ledger[j][k] <= i => ledger[i][k] = ledger[j][k]
      /\ minSequence \in 1 .. n /\ full \in BOOLEAN
  BY DEF LedgersOK
<1>8. \A k \in Key : new[k] \in Nat /\ old[k] \in Nat
  BY <1>1, <1>2
<1> HIDE DEF n
<1>9. \A i \in 1 .. n + 1 : i \in 1 .. n \/ i = n + 1
  BY <1>1
<1>10. \A k \in Key : new[k] <= n + 1
  <2> TAKE k \in Key
  <2>1. old[k] <= n
    BY <1>1, <1>7
  <2> HIDE DEF old
  <2> QED
    BY <1>1, <1>5, <1>8, <2>1 DEF None
<1>11. ASSUME NEW i \in 1 .. n, NEW k \in Key, new[k] # None, new[k] <= i
       PROVE  ledger[i][k] = new[k]
  <2>1. k \notin changed
    BY <1>1, <1>5, <1>11
  <2>2. new[k] = old[k]
    BY <1>5, <2>1
  <2>3. i <= n
    BY <1>1
  <2> QED
    BY <1>1, <1>7, <1>11, <2>2, <2>3
<1>12. \A i, j \in 1 .. n + 1 : \A k \in Key :
          i <= j /\ ledger'[j][k] # None /\ ledger'[j][k] <= i => ledger'[i][k] = ledger'[j][k]
  <2> SUFFICES ASSUME NEW i \in 1 .. n + 1, NEW j \in 1 .. n + 1, NEW k \in Key,
                      i <= j, ledger'[j][k] # None, ledger'[j][k] <= i
               PROVE  ledger'[i][k] = ledger'[j][k]
    OBVIOUS
  <2>1. CASE i = n + 1
    <3>1. j = n + 1
      BY <1>1, <2>1
    <3> QED
      BY <2>1, <3>1
  <2>2. CASE i \in 1 .. n /\ j \in 1 .. n
    <3>1. ledger'[i] = ledger[i] /\ ledger'[j] = ledger[j]
      BY <1>3, <2>2
    <3>2. ledger[i][k] = ledger[j][k]
      BY <1>7, <2>2, <3>1
    <3> QED
      BY <3>1, <3>2
  <2>3. CASE i \in 1 .. n /\ j = n + 1
    BY <1>3, <1>11, <2>3
  <2> QED
    BY <1>9, <2>1, <2>2, <2>3
<1>13. minSequence' \in 1 .. n + 1 /\ n + 1 \in 1 .. MaxLedgers + 1
  BY <1>1, <1>4, <1>6, <1>7
<1>14. /\ \A i \in 1 .. n + 1 : \A k \in Key : ledger'[i][k] <= i
       /\ \A i \in 1 .. n + 1 : ledger'[i][Max(Key)] # None
  BY <1>3, <1>5, <1>7, <1>9, <1>10
<1>15. LedgersOK'
  BY <1>3, <1>6, <1>7, <1>12, <1>13, <1>14 DEF LedgersOK
<1> QED
  BY <1>3, <1>9, <1>15 DEF n

LEMMA ExtendedObjects ==
    ASSUME LedgersOK, ObjectRowsOK, ObjectsRight, NEW new, NEW changed, Extended(new, changed)
    PROVE  ObjectRowsOK' /\ ObjectsRight'
<1> DEFINE n == Len(ledger)
           old == ledger[n]
           rows == {ObjectRow(k, n + 1, new[k], n + 1) : k \in changed}
<1>1. /\ Len(ledger') = n + 1 /\ (\A i \in 1 .. n : ledger'[i] = ledger[i]) /\ ledger'[n + 1] = new
      /\ \A i \in 1 .. n + 1 : i \in 1 .. n \/ i = n + 1
  BY ExtendedLedgers
<1>2. n \in Nat /\ 1 <= n /\ n + 1 \in Nat /\ n \in 1 .. n
  BY NewestFacts
<1>3. /\ changed \subseteq Key /\ objects' = objects \cup rows
      /\ \A k \in changed : new[k] \in {None, n + 1}
      /\ \A k \in Key \ changed : new[k] = old[k]
  BY DEF Extended
<1>4. \A r \in objects : /\ r.key \in Key /\ r.seq \in 1 .. n
                         /\ r.object \in 0 .. n /\ r.at \in 1 .. n
  BY DEF ObjectRowsOK
<1>5. \A r \in rows : /\ r.key \in changed /\ r.seq = n + 1 /\ r.at = n + 1
                      /\ r.object = new[r.key]
  BY DEF ObjectRow
<1>6. \A k \in changed : \E r \in rows : r.key = k
  <2> TAKE k \in changed
  <2>1. ObjectRow(k, n + 1, new[k], n + 1) \in rows
    OBVIOUS
  <2> QED
    BY <2>1 DEF ObjectRow
<1>7. \A seq \in 1 .. n : \A k \in Key : ObjectIn(objects, k, seq) = ledger[seq][k]
  BY FetchIsIn DEF ObjectsRight
<1> HIDE DEF n, rows
<1>7a. NewerRows(objects, rows, objects', n)
  <2>1. \A r \in objects : r.seq \in Nat /\ r.seq <= n
    BY <1>2, <1>4
  <2> QED
    BY <1>2, <1>3, <1>5, <2>1 DEF NewerRows
<1>8. ObjectRowsOK'
  <2>1. \A r \in objects : /\ r.key \in Key /\ r.seq \in 1 .. n + 1
                           /\ r.object \in 0 .. n + 1 /\ r.at \in 1 .. n + 1
    BY <1>2, <1>4
  <2>2. \A r \in rows : /\ r.key \in Key /\ r.seq \in 1 .. n + 1
                        /\ r.object \in 0 .. n + 1 /\ r.at \in 1 .. n + 1
    BY <1>2, <1>3, <1>5 DEF None
  <2> QED
    BY <1>1, <1>3, <2>1, <2>2 DEF ObjectRowsOK
<1>9. ASSUME NEW seq \in 1 .. n, NEW k \in Key
      PROVE  ObjectIn(objects', k, seq) = ledger'[seq][k]
  <2>1. Select(objects', k, seq) = Select(objects, k, seq)
    BY <1>7a, SelectOlder
  <2>2. ObjectIn(objects', k, seq) = ObjectIn(objects, k, seq)
    BY <2>1, ReadSame
  <2> QED
    BY <1>1, <1>7, <2>2
<1>10. ASSUME NEW k \in Key
       PROVE  ObjectIn(objects', k, n + 1) = new[k]
  <2>1. /\ (\A r \in rows : r.key # k) =>
              Select(objects', k, n + 1) = Select(objects, k, n)
        /\ (\E r \in rows : r.key = k) =>
              Select(objects', k, n + 1) = {r \in rows : r.key = k}
    BY <1>7a, SelectNew
  <2>2. CASE k \in changed
    <3>1. Select(objects', k, n + 1) = {r \in rows : r.key = k}
      BY <1>6, <2>1, <2>2
    <3>2. Select(objects', k, n + 1) # {}
      BY <1>6, <2>2, <3>1
    <3>3. \A r \in Select(objects', k, n + 1) : r.object = new[k]
      BY <1>5, <3>1
    <3> QED
      BY <3>2, <3>3, ReadOne
  <2>3. CASE k \notin changed
    <3>1. Select(objects', k, n + 1) = Select(objects, k, n)
      BY <1>5, <2>1, <2>3
    <3>2. ObjectIn(objects', k, n + 1) = ObjectIn(objects, k, n)
      BY <3>1, ReadSame
    <3> QED
      BY <1>2, <1>3, <1>7, <2>3, <3>2
  <2> QED
    BY <2>2, <2>3
<1>11. \A seq \in 1 .. n + 1 : \A k \in Key : ObjectIn(objects', k, seq) = ledger'[seq][k]
  BY <1>1, <1>9, <1>10
<1>12. ObjectsRight'
  BY <1>1, <1>11, FetchIsIn DEF ObjectsRight
<1> QED
  BY <1>8, <1>12

LEMMA ExtendedDiffs ==
    ASSUME LedgersOK, DiffsRight, NEW new, NEW changed, Extended(new, changed)
    PROVE  DiffsRight'
<1> DEFINE n == Len(ledger)
           old == ledger[n]
           D(d, seq) == {e.key : e \in {e \in d : e.seq = seq}}
           C(l, seq) == {k \in Key : l[seq][k] # l[seq - 1][k]}
<1>1. /\ Len(ledger') = n + 1 /\ (\A i \in 1 .. n : ledger'[i] = ledger[i]) /\ ledger'[n + 1] = new
      /\ n \in Nat /\ 1 <= n /\ n \in 1 .. n
  BY ExtendedLedgers, NewestFacts
<1>2. /\ changed \subseteq Key /\ diff' = diff \cup {[seq |-> n + 1, key |-> k] : k \in changed}
      /\ \A k \in changed : new[k] # old[k]
      /\ \A k \in Key \ changed : new[k] = old[k]
  BY DEF Extended
<1>3. (\A d \in diff : d.seq \in 2 .. n) /\ \A seq \in 2 .. n : D(diff, seq) = C(ledger, seq)
  BY DEF DiffsRight, ChangedKeys
<1> HIDE DEF n
<1>4. \A d \in diff' : d.seq \in 2 .. n + 1
  BY <1>1, <1>2, <1>3
<1>5. ASSUME NEW seq \in 2 .. n
      PROVE  D(diff', seq) = C(ledger', seq)
  <2>1. seq # n + 1 /\ seq \in 1 .. n /\ seq - 1 \in 1 .. n
    BY <1>1
  <2>2. {e \in diff' : e.seq = seq} = {e \in diff : e.seq = seq}
    BY <1>2, <2>1
  <2>3. C(ledger', seq) = C(ledger, seq)
    BY <1>1, <2>1
  <2> QED
    BY <1>3, <2>2, <2>3
<1>6. D(diff', n + 1) = C(ledger', n + 1)
  <2>1. D(diff', n + 1) = changed
    <3>1. \A d \in diff : d.seq # n + 1
      BY <1>1, <1>3
    <3> DEFINE E == {e \in diff' : e.seq = n + 1}
    <3>2. E = {[seq |-> n + 1, key |-> k] : k \in changed}
      BY <1>2, <3>1
    <3>3. \A k \in changed : [seq |-> n + 1, key |-> k] \in E
      BY <3>2
    <3>4. \A e \in E : e.key \in changed
      BY <3>2
    <3> HIDE DEF E
    <3>5. {e.key : e \in E} \subseteq changed
      BY <3>4
    <3>6. changed \subseteq {e.key : e \in E}
      <4> SUFFICES ASSUME NEW k \in changed PROVE \E e \in E : k = e.key
        OBVIOUS
      <4>1. [seq |-> n + 1, key |-> k] \in E /\ k = [seq |-> n + 1, key |-> k].key
        BY <3>3
      <4> QED
        BY <4>1
    <3> QED
      BY <3>5, <3>6 DEF E
  <2>2. ledger'[(n + 1) - 1] = old /\ ledger'[n + 1] = new
    BY <1>1
  <2>3. C(ledger', n + 1) = changed
    BY <1>2, <2>2
  <2> QED
    BY <2>1, <2>3
<1>7. \A seq \in 2 .. n + 1 : seq \in 2 .. n \/ seq = n + 1
  BY <1>1
<1>8. \A seq \in 2 .. n + 1 : D(diff', seq) = C(ledger', seq)
  <2> HIDE DEF D, C
  <2> QED
    BY <1>5, <1>6, <1>7
<1> QED
  BY <1>1, <1>4, <1>8 DEF DiffsRight, ChangedKeys

LEMMA ExtendedLinks ==
    ASSUME LedgersOK, SuccessorRowsOK, LinksRight, BookRight,
           NEW new, NEW changed, Extended(new, changed)
    PROVE  SuccessorRowsOK' /\ LinksRight' /\ BookRight'
<1> DEFINE n == Len(ledger)
           old == ledger[n]
           links == LinkRows(old, new, n + 1)
           book == BookRows(old, new, n + 1)
           rows == links \cup book
           Follows(seq) == InBook(NextIn(successor', Base, seq))
<1>1. /\ Len(ledger') = n + 1 /\ (\A i \in 1 .. n : ledger'[i] = ledger[i]) /\ ledger'[n + 1] = new
      /\ \A i \in 1 .. n + 1 : i \in 1 .. n \/ i = n + 1
  BY ExtendedLedgers
<1>2. n \in Nat /\ 1 <= n /\ n + 1 \in Nat /\ n \in 1 .. n
  BY NewestFacts
<1>3. successor' = successor \cup rows
  BY DEF Extended
<1>4. \A r \in successor : /\ r.key \in Position /\ r.seq \in 1 .. n
                           /\ r.next \in Key \cup {lastKey} /\ r.key < r.next
                           /\ r.at \in 1 .. n
  BY DEF SuccessorRowsOK
<1>5. \A r \in rows : /\ r.seq = n + 1 /\ r.at = n + 1
                      /\ r.key \in Position /\ r.key \in Live(new) \cup {firstKey, Base}
                      /\ r.next = OrLast(getSuccessor(new, r.key))
                      /\ r.next \in Key \cup {lastKey} /\ r.key < r.next
  BY LinkRowsRight
<1>6. \A seq \in 1 .. n : \A k \in Live(ledger[seq]) \cup {firstKey} :
          NextIn(successor, k, seq) = getSuccessor(ledger[seq], k)
  BY FetchIsIn DEF LinksRight
<1>7. \A seq \in 1 .. n : (\E r \in successor : r.key = Base /\ r.seq <= seq) =>
          IsNext(Live(ledger[seq]) \cap Dir, Base, InBook(NextIn(successor, Base, seq)))
  BY FetchIsIn DEF BookRight
<1>8. Max(Key) \in Live(old)
  BY <1>2, KeyFacts DEF LedgersOK, Live
<1>9. (\A r \in links : r \in rows) /\ (book # {} => \E r \in rows : r.key = Base)
  BY DEF BookRows, SuccessorRow
<1> HIDE DEF n, rows, links, book
<1>9a. NewerRows(successor, rows, successor', n)
  <2>1. \A r \in successor : r.seq \in Nat /\ r.seq <= n
    BY <1>2, <1>4
  <2> QED
    BY <1>2, <1>3, <1>5, <2>1 DEF NewerRows
<1>10. SuccessorRowsOK'
  <2>1. \A r \in successor : r.seq \in 1 .. n + 1 /\ r.at \in 1 .. n + 1
    BY <1>2, <1>4
  <2>2. \A r \in rows : r.seq \in 1 .. n + 1 /\ r.at \in 1 .. n + 1
    BY <1>2, <1>5
  <2> QED
    BY <1>1, <1>3, <1>4, <1>5, <2>1, <2>2 DEF SuccessorRowsOK
<1>11. ASSUME NEW seq \in 1 .. n, NEW k
       PROVE  NextIn(successor', k, seq) = NextIn(successor, k, seq)
  <2>1. Select(successor', k, seq) = Select(successor, k, seq)
    BY <1>9a, SelectOlder
  <2> QED
    BY <2>1, ReadSame
<1>12. ASSUME NEW k, \A r \in rows : r.key # k
       PROVE  NextIn(successor', k, n + 1) = NextIn(successor, k, n)
  <2>1. Select(successor', k, n + 1) = Select(successor, k, n)
    BY <1>12, <1>9a, SelectNew
  <2> QED
    BY <2>1, ReadSame
<1>13. ASSUME NEW k \in Nat, NEW t \in rows, t.key = k
       PROVE  NextIn(successor', k, n + 1) = getSuccessor(new, k)
  <2>3. Select(successor', k, n + 1) = {r \in rows : r.key = k}
    BY <1>13, <1>9a, SelectNew
  <2>4. k < lastKey
    <3>1. t.next \in Key \cup {lastKey} /\ k < t.next
      BY <1>5, <1>13
    <3>2. CASE t.next = lastKey
      BY <3>1, <3>2
    <3>3. CASE t.next \in Key
      <4>1. t.next \in Nat /\ t.next < lastKey /\ lastKey \in Nat
        BY <3>3, KeyFacts
      <4> QED
        BY <3>1, <4>1
    <3> QED
      BY <3>1, <3>2, <3>3
  <2>5. t \in Select(successor', k, n + 1)
    BY <1>13, <2>3
  <2>6. \A r \in Select(successor', k, n + 1) : r.next = OrLast(getSuccessor(new, k))
    BY <1>5, <2>3
  <2> QED
    BY <2>4, <2>5, <2>6, ReadRight
<1>14. ASSUME NEW k \in Live(new) \cup {firstKey}
       PROVE  NextIn(successor', k, n + 1) = getSuccessor(new, k)
  <2>1. k \in Nat
    BY KeyFacts DEF Live
  <2>2. CASE \E r \in rows : r.key = k
    BY <1>13, <2>1, <2>2
  <2>3. CASE \A r \in rows : r.key # k
    <3>1. \A r \in LinkRows(old, new, n + 1) : r.key # k
      BY <1>9, <2>3 DEF links
    <3>2. k \in Live(old) \cup {firstKey} /\ getSuccessor(new, k) = getSuccessor(old, k)
      <4> HIDE DEF old
      <4> QED
        BY <3>1, LinksChange
    <3>3. NextIn(successor, k, n) = getSuccessor(old, k)
      BY <1>2, <1>6, <3>2
    <3> QED
      BY <1>12, <2>3, <3>2, <3>3
  <2> QED
    BY <2>2, <2>3
<1>15. LinksRight'
  <2>1. ASSUME NEW seq \in 1 .. n + 1, NEW k \in Live(ledger'[seq]) \cup {firstKey}
        PROVE  NextIn(successor', k, seq) = getSuccessor(ledger'[seq], k)
    <3>1. CASE seq \in 1 .. n
      BY <1>1, <1>6, <1>11, <2>1, <3>1
    <3>2. CASE seq = n + 1
      BY <1>1, <1>14, <2>1, <3>2
    <3> QED
      BY <1>1, <3>1, <3>2
  <2>2. ASSUME NEW seq \in 1 .. n + 1, NEW k \in Live(ledger'[seq]) \cup {firstKey}
        PROVE  doFetchSuccessorKey(k, seq)' = getSuccessor(ledger'[seq], k)
    BY <2>1, <2>2, FetchIsIn
  <2> QED
    BY <1>1, <2>2 DEF LinksRight, getSuccessor, Live
<1>16. ASSUME NEW seq \in 1 .. n, NEW r \in successor', r.key = Base, r.seq <= seq
       PROVE  IsNext(Live(ledger'[seq]) \cap Dir, Base, Follows(seq))
  <2>1. r \in successor
    BY <1>2, <1>3, <1>5, <1>16
  <2>2. IsNext(Live(ledger[seq]) \cap Dir, Base, InBook(NextIn(successor, Base, seq)))
    BY <1>7, <1>16, <2>1
  <2> QED
    BY <1>1, <1>11, <2>2
<1>17. ASSUME NEW r \in successor', r.key = Base
       PROVE  IsNext(Live(new) \cap Dir, Base, Follows(n + 1))
  <2>1. CASE \E t \in rows : t.key = Base
    <3>1. NextIn(successor', Base, n + 1) = getSuccessor(new, Base) /\ Base \in Nat /\ Base <= Base
      BY <1>13, <2>1, KeyFacts
    <3> QED
      BY <3>1, NextInBook
  <2>2. CASE \A t \in rows : t.key # Base
    <3>1. book = {}
      BY <1>9, <2>2
    <3>2. r \in successor /\ r.seq <= n
      BY <1>2, <1>3, <1>4, <1>17, <2>2
    <3>3. IsNext(Live(old) \cap Dir, Base, InBook(NextIn(successor, Base, n)))
      BY <1>2, <1>7, <1>17, <3>2
    <3>4. NextIn(successor', Base, n + 1) = NextIn(successor, Base, n)
      BY <1>12, <2>2
    <3> DEFINE f == Follows(n + 1)
    <3>5. IsNext(Live(old) \cap Dir, Base, f)
      BY <3>3, <3>4
    <3> HIDE DEF old, f
    <3>6. IsNext(Live(new) \cap Dir, Base, f)
      BY <1>8, <3>1, <3>5, BookChange DEF book
    <3> QED
      BY <3>6 DEF f
  <2> QED
    BY <2>1, <2>2
<1>18. BookRight'
  <2>1. ASSUME NEW seq \in 1 .. n + 1, NEW r \in successor', r.key = Base, r.seq <= seq
        PROVE  IsNext(Live(ledger'[seq]) \cap Dir, Base, Follows(seq))
    <3>1. CASE seq \in 1 .. n
      BY <1>16, <2>1, <3>1
    <3>2. CASE seq = n + 1
      BY <1>1, <1>17, <2>1, <3>2
    <3> QED
      BY <1>1, <3>1, <3>2
  <2>2. ASSUME NEW seq \in 1 .. n + 1, NEW r \in successor', r.key = Base, r.seq <= seq
        PROVE  IsNext(Live(ledger'[seq]) \cap Dir, Base, InBook(doFetchSuccessorKey(Base, seq)'))
    BY <2>1, <2>2, FetchIsIn
  <2> QED
    BY <1>1, <2>2 DEF BookRight, IsNext, InBook, Live
<1> QED
  BY <1>10, <1>15, <1>18

LEMMA BuildIInv ==
    ASSUME NothingExpires, IInv, BuildNextLedger
    PROVE  IInv'
<1>1. PICK new, changed : Extended(new, changed)
  BY BuildExtends
<1>2. LedgersOK' /\ ObjectRowsOK' /\ ObjectsRight' /\ DiffsRight'
  BY <1>1, ExtendedLedgers, ExtendedObjects, ExtendedDiffs DEF IInv
<1>3. SuccessorRowsOK' /\ LinksRight' /\ BookRight'
  BY <1>1, ExtendedLinks DEF IInv
<1>4. PagerRight'
  <2>1. /\ pager' = pager /\ Len(ledger') = Len(ledger) + 1 /\ Len(ledger) \in Nat
        /\ \A i \in 1 .. Len(ledger) : ledger'[i] = ledger[i]
    BY <1>1, ExtendedLedgers, NewestFacts DEF IInv, Extended
  <2>2. CASE pager = NoPager
    BY <2>1, <2>2 DEF PagerRight, NoPager
  <2>3. CASE pager # NoPager
    <3>1. /\ pager \in [seq : 1 .. Len(ledger), cursor : Position \cup {NoKey},
                       got : SUBSET Key, inOrder : BOOLEAN]
          /\ pager.inOrder
          /\ pager.cursor = NoKey => pager.got = Live(ledger[pager.seq])
          /\ pager.cursor # NoKey =>
                /\ pager.cursor \in Live(ledger[pager.seq]) \cup {firstKey}
                /\ pager.got = {k \in Live(ledger[pager.seq]) : k <= pager.cursor}
      BY <2>3 DEF IInv, PagerRight
    <3>2. pager.seq \in 1 .. Len(ledger) /\ ledger'[pager.seq] = ledger[pager.seq]
      BY <2>1, <3>1
    <3>3. \A s \in 1 .. Len(ledger) : s \in 1 .. Len(ledger')
      BY <2>1
    <3>4. pager \in [seq : 1 .. Len(ledger'), cursor : Position \cup {NoKey},
                     got : SUBSET Key, inOrder : BOOLEAN]
      BY <3>1, <3>3
    <3> QED
      BY <2>1, <3>1, <3>2, <3>4 DEF PagerRight, Live
  <2> QED
    BY <2>2, <2>3
<1> QED
  BY <1>2, <1>3, <1>4 DEF IInv

-----------------------------------------------------------------------------
(* Online delete.                                                           *)

(* Rows that are written again at ledger m are seen by the ledgers from m   *)
(* on, unless there is a newer row; then there was none between either.     *)
Rewritten(rows, new, all, m) ==
    /\ m \in Nat /\ all = Insert(rows, new)
    /\ \A r \in rows : r.seq \in Nat
    /\ \A r \in new : r.seq = m

LEMMA SelectRewritten ==
    ASSUME NEW rows, NEW new, NEW all, NEW m, Rewritten(rows, new, all, m), NEW k, NEW seq \in Nat
    PROVE  LET newer == \E r \in rows : r.key = k /\ m < r.seq /\ r.seq <= seq
           IN  /\ (\A r \in new : r.key # k) \/ seq < m \/ newer =>
                     Select(all, k, seq) = Select(rows, k, seq)
               /\ (\E r \in new : r.key = k) /\ ~(seq < m) /\ ~newer =>
                     /\ Select(all, k, seq) = {r \in new : r.key = k}
                     /\ Select(rows, k, seq) = Select(rows, k, m)
<1> USE DEF Rewritten
<1> DEFINE found(t, s) == {r \in t : r.key = k /\ r.seq <= s}
           newer == \E r \in rows : r.key = k /\ m < r.seq /\ r.seq <= seq
<1>1. \A r \in rows : r.key # k \/ r.seq # m \/ (\A n \in new : n.key # k) =>
                          (r.key = k => r \in all)
  <2> TAKE r \in rows
  <2> SUFFICES ASSUME r.key # k \/ r.seq # m \/ (\A n \in new : n.key # k), r.key = k, NEW n \in new
               PROVE  <<n.key, n.seq>> # <<r.key, r.seq>>
    BY DEF Insert
  <2>1. n.key # r.key \/ n.seq # r.seq
    OBVIOUS
  <2> QED
    BY <2>1
<1>2. \A r \in all : r \in rows \/ r \in new
  BY DEF Insert
<1>3. \A r \in new : r \in all
  BY DEF Insert
<1>4. \A r \in all : r \in rows /\ r.key = k => r.seq # m \/ r \in new \/ \A n \in new : n.key # k
  <2> SUFFICES ASSUME NEW r \in all, r \in rows, r.key = k, r.seq = m, r \notin new, NEW n \in new, n.key = k
               PROVE  FALSE
    OBVIOUS
  <2>1. <<n.key, n.seq>> # <<r.key, r.seq>>
    BY DEF Insert
  <2>2. n.key = r.key /\ n.seq = r.seq
    OBVIOUS
  <2> QED
    BY <2>1, <2>2

<1> DEFINE last(t, s) == {r \in found(t, s) : \A o \in found(t, s) : o.seq <= r.seq}
<1>5. /\ Select(all, k, seq) = last(all, seq) /\ Select(rows, k, seq) = last(rows, seq)
      /\ Select(rows, k, m) = last(rows, m)
  BY DEF Select
<1>6. ASSUME (\A r \in new : r.key # k) \/ seq < m
      PROVE  Select(all, k, seq) = Select(rows, k, seq)
  <2>1. ASSUME NEW r
        PROVE  r \in found(all, seq) <=> r \in found(rows, seq)
    <3>1. CASE \A n \in new : n.key # k
      BY <1>1, <1>2, <3>1
    <3>2. CASE seq < m
      <4>1. \A n \in new : ~(n.seq <= seq)
        BY <3>2
      <4>2. \A n \in rows : n.seq <= seq => n.seq # m
        BY <3>2
      <4> QED
        BY <1>1, <1>2, <4>1, <4>2
    <3> QED
      BY <1>6, <3>1, <3>2
  <2> HIDE DEF found
  <2>2. found(all, seq) = found(rows, seq)
    BY <2>1
  <2>3. last(all, seq) = last(rows, seq)
    BY <2>2
  <2> HIDE DEF last
  <2> QED
    BY <1>5, <2>3
<1>7. ASSUME newer
      PROVE  Select(all, k, seq) = Select(rows, k, seq)
  <2>1. PICK t \in rows : t.key = k /\ m < t.seq /\ t.seq <= seq
    BY <1>7
  <2>2. t \in found(all, seq) /\ t \in found(rows, seq) /\ t.seq \in Nat
    BY <1>1, <2>1
  <2>3. \A r \in found(all, seq) : r.seq \in Nat /\ (m < r.seq => r \in found(rows, seq))
    BY <1>2
  <2>4. \A r \in found(rows, seq) : r.seq \in Nat /\ (m < r.seq => r \in found(all, seq))
    BY <1>1
  <2>5. \A r \in new : r.seq = m /\ ~(m < r.seq)
    OBVIOUS
  <2> HIDE DEF found
  <2>6. ASSUME NEW r, r \in found(all, seq), \A o \in found(all, seq) : o.seq <= r.seq
        PROVE  r \in found(rows, seq) /\ \A o \in found(rows, seq) : o.seq <= r.seq
    <3>1. m < r.seq /\ r.seq \in Nat
      BY <2>1, <2>2, <2>3, <2>6
    <3>2. \A o \in found(rows, seq) : o.seq <= r.seq
      BY <2>4, <2>6, <3>1
    <3> QED
      BY <2>3, <2>6, <3>1, <3>2
  <2>7. ASSUME NEW r, r \in found(rows, seq), \A o \in found(rows, seq) : o.seq <= r.seq
        PROVE  r \in found(all, seq) /\ \A o \in found(all, seq) : o.seq <= r.seq
    <3>1. m < r.seq /\ r.seq \in Nat
      BY <2>1, <2>2, <2>4, <2>7
    <3>2. \A o \in found(all, seq) : o.seq <= r.seq
      BY <2>3, <2>7, <3>1
    <3> QED
      BY <2>4, <2>7, <3>1, <3>2
  <2>8. last(all, seq) = last(rows, seq)
    BY <2>6, <2>7
  <2> HIDE DEF last
  <2> QED
    BY <1>5, <2>8
<1>8. ASSUME NEW n \in new, n.key = k, ~(seq < m), ~newer
      PROVE  /\ Select(all, k, seq) = {r \in new : r.key = k}
             /\ Select(rows, k, seq) = Select(rows, k, m)
  <2>1. m <= seq
    BY <1>8
  <2>2. \A r \in rows : r.key = k /\ r.seq <= seq => r.seq <= m
    BY <1>8
  <2>3. found(rows, seq) = found(rows, m)
    BY <2>1, <2>2
  <2>4. \A r \in found(all, seq) : r.seq \in Nat /\ r.seq <= m /\ (r.seq = m => r \in new) /\ r.key = k
    BY <1>2, <1>4, <1>8, <2>2
  <2>5. \A r \in new : r.key = k => r \in found(all, seq) /\ r.seq = m
    BY <1>3, <2>1
  <2>6. last(rows, seq) = last(rows, m)
    BY <2>3
  <2> HIDE DEF found
  <2>7. ASSUME NEW r, r \in found(all, seq), \A o \in found(all, seq) : o.seq <= r.seq
        PROVE  r \in new /\ r.key = k
    <3>1. m <= r.seq /\ r.seq \in Nat /\ r.seq <= m
      BY <1>8, <2>4, <2>5, <2>7
    <3> QED
      BY <2>4, <2>7, <3>1
  <2>8. last(all, seq) = {r \in new : r.key = k}
    BY <2>4, <2>5, <2>7
  <2> HIDE DEF last
  <2> QED
    BY <1>5, <2>6, <2>8
<1> QED
  BY <1>6, <1>7, <1>8

LEMMA OnlineDeleteIInv ==
    ASSUME IInv, OnlineDelete
    PROVE  IInv'
<1> DEFINE n == Len(ledger)
           m == n - NumLedgersToKeep
           page == fetchLedgerPage(firstKey, m, Cardinality(Key) + 1)
           w == page.objects
           rows == {ObjectRow(w[i], m, fetchLedgerObject(w[i], m), n) : i \in DOMAIN w}
<1>1. /\ m > minSequence /\ minSequence' = m /\ objects' = Insert(objects, rows)
      /\ UNCHANGED <<ledger, successor, diff, full, pager>>
  BY DEF OnlineDelete, maxSequence
<1>2. LedgersOK /\ ObjectRowsOK /\ ObjectsRight /\ LinksRight
  BY DEF IInv
<1>3. n \in Nat /\ m \in 1 .. n /\ m \in Nat /\ n \in 1 .. n
  <2>1. n \in Nat /\ minSequence \in 1 .. n /\ NumLedgersToKeep \in Nat
    BY <1>2, LedgerStateAssumption DEF LedgersOK
  <2> QED
    BY <1>1, <2>1
<1>4. w \in Seq(Key)
  <2> DEFINE limit == Cardinality(Key) + 1
  <2>1. limit \in Nat
    BY KeyFacts, FS_CardinalityType
  <2>2. firstKey \in Live(ledger[m]) \cup {firstKey}
    OBVIOUS
  <2>3. WalkFound(Live(ledger[m]), firstKey, fetchLedgerPage(firstKey, m, limit).objects, limit)
    <3> HIDE DEF limit, m
    <3> QED
      BY <1>2, <1>3, <2>1, <2>2, FetchPage
  <2>4. w \in Seq(Live(ledger[m])) /\ Live(ledger[m]) \subseteq Key
    BY <2>3 DEF WalkFound, Live
  <2> HIDE DEF w
  <2> QED
    BY <2>4
<1> HIDE DEF w, m
<1>5. \A r \in rows : /\ r.key \in Key /\ r.seq = m /\ r.at = n
                      /\ r.object = ledger[m][r.key] /\ r.object \in 0 .. n
  <2> TAKE r \in rows
  <2>1. PICK i \in DOMAIN w : r = ObjectRow(w[i], m, fetchLedgerObject(w[i], m), n)
    OBVIOUS
  <2>2. w[i] \in Key
    BY <1>4
  <2>3. fetchLedgerObject(w[i], m) = ledger[m][w[i]]
    BY <1>2, <1>3, <2>2, FetchObject
  <2>4. ledger[m][w[i]] \in Nat /\ ledger[m][w[i]] <= m
    BY <1>2, <1>3, <2>2, NewestFacts DEF LedgersOK
  <2>5. ledger[m][w[i]] \in 0 .. n
    BY <1>3, <2>4
  <2> QED
    BY <2>1, <2>2, <2>3, <2>5 DEF ObjectRow
<1> HIDE DEF rows
<1>6. \A r \in objects : /\ r.key \in Key /\ r.seq \in 1 .. n
                         /\ r.object \in 0 .. n /\ r.at \in 1 .. n
  BY <1>2 DEF ObjectRowsOK
<1>7. \A r \in objects' : r \in objects \/ r \in rows
  BY <1>1 DEF Insert
<1>8. \A seq \in 1 .. n : \A k \in Key : ObjectIn(objects, k, seq) = ledger[seq][k]
  BY <1>2, FetchIsIn DEF ObjectsRight
<1>9. ledger' = ledger
  BY <1>1
<1>10. ObjectRowsOK'
  BY <1>3, <1>5, <1>6, <1>7, <1>9 DEF ObjectRowsOK
<1>11. ASSUME NEW seq \in 1 .. n, NEW k \in Key
       PROVE  ObjectIn(objects', k, seq) = ledger[seq][k]
  <2> DEFINE newer == \E r \in objects : r.key = k /\ m < r.seq /\ r.seq <= seq
             same == (\A r \in rows : r.key # k) \/ seq < m \/ newer
  <2>1. /\ same => Select(objects', k, seq) = Select(objects, k, seq)
        /\ ~same => /\ Select(objects', k, seq) = {r \in rows : r.key = k}
                    /\ Select(objects, k, seq) = Select(objects, k, m)
    <3>1. \A r \in objects : r.seq \in Nat
      BY <1>6
    <3>2. \A r \in rows : r.seq = m
      BY <1>5
    <3>3. seq \in Nat
      OBVIOUS
    <3>4. Rewritten(objects, rows, objects', m)
      BY <1>1, <1>3, <3>1, <3>2 DEF Rewritten
    <3>5. /\ (\A r \in rows : r.key # k) \/ seq < m \/ newer =>
               Select(objects', k, seq) = Select(objects, k, seq)
          /\ (\E r \in rows : r.key = k) /\ ~(seq < m) /\ ~newer =>
               /\ Select(objects', k, seq) = {r \in rows : r.key = k}
               /\ Select(objects, k, seq) = Select(objects, k, m)
      BY <3>3, <3>4, SelectRewritten
    <3> QED
      BY <3>5
  <2>2. CASE same
    <3>1. ObjectIn(objects', k, seq) = ObjectIn(objects, k, seq)
      BY <2>1, <2>2, ReadSame
    <3> QED
      BY <1>8, <3>1
  <2>3. CASE ~same
    <3>1. ObjectIn(objects, k, seq) = ObjectIn(objects, k, m)
      BY <2>1, <2>3, ReadSame
    <3>2. ledger[seq][k] = ledger[m][k]
      BY <1>3, <1>8, <3>1
    <3>3. Select(objects', k, seq) # {}
      BY <2>1, <2>3
    <3>4. \A r \in Select(objects', k, seq) : r.object = ledger[m][k]
      BY <1>5, <2>1, <2>3
    <3> QED
      BY <3>2, <3>3, <3>4, ReadOne
  <2> QED
    BY <2>2, <2>3
<1>12. ObjectsRight'
  BY <1>9, <1>11, FetchIsIn DEF ObjectsRight
<1>13. LedgersOK'
  BY <1>1, <1>2, <1>3 DEF LedgersOK
<1>14. SuccessorRowsOK' /\ LinksRight' /\ BookRight'
  <2>1. ledger' = ledger /\ successor' = successor
    BY <1>1
  <2>2. SuccessorRowsOK'
    BY <2>1 DEF IInv, SuccessorRowsOK
  <2>3. LinksRight'
    BY <2>1 DEF IInv, LinksRight, doFetchSuccessorKey
  <2>4. BookRight'
    BY <2>1 DEF IInv, BookRight, doFetchSuccessorKey
  <2> QED
    BY <2>2, <2>3, <2>4
<1>15. DiffsRight'
  BY <1>1 DEF IInv, DiffsRight, ChangedKeys
<1>16. PagerRight'
  BY <1>1 DEF IInv, PagerRight
<1> QED
  BY <1>10, <1>12, <1>13, <1>14, <1>15, <1>16 DEF IInv

-----------------------------------------------------------------------------
(* The cache and the client.                                                *)

(* With the next page the client has the keys up to the new cursor, or, if  *)
(* the page is short, all of them.                                          *)
Paged(S, w, got) ==
    /\ ToSet(w) \subseteq S /\ Ascending(w)
    /\ \A old \in got, k \in ToSet(w) : old < k
    /\ Len(w) # PageLimit => got \cup ToSet(w) = S
    /\ Len(w) = PageLimit => /\ w[PageLimit] \in S
                             /\ got \cup ToSet(w) = {k \in S : k <= w[PageLimit]}

LEMMA NextPage ==
    ASSUME NEW S, S \subseteq Nat, NEW c \in Nat, NEW w, WalkFound(S, c, w, PageLimit),
           NEW got, got \subseteq S, \A k \in S : k \in got <=> k <= c
    PROVE  Paged(S, w, got)
<1> DEFINE L == PageLimit
<1>1. /\ w \in Seq(S) /\ Ascending(w) /\ (\A i \in DOMAIN w : c < w[i]) /\ L = 2
      /\ \A x \in S : c < x => x \in ToSet(w) \/ (Len(w) = L /\ (L > 0 => w[L] < x))
  BY DEF WalkFound, PageLimit
<1> HIDE DEF L
<1>2. \A x \in S : x \in Nat
  OBVIOUS
<1>3. \A x \in ToSet(w) : x \in S /\ c < x
  BY <1>1 DEF ToSet
<1>4. \A old \in got, k \in ToSet(w) : old < k
  <2> TAKE old \in got, k \in ToSet(w)
  <2>1. old \in S /\ old <= c /\ k \in S /\ c < k
    BY <1>3
  <2> QED
    BY <1>2, <2>1
<1>5. got \subseteq S
  OBVIOUS
<1>6. ASSUME Len(w) # L
      PROVE  got \cup ToSet(w) = S
  <2>1. \A x \in S : x <= c \/ x \in ToSet(w)
    BY <1>1, <1>2, <1>6
  <2> QED
    BY <1>3, <2>1
<1>7. ASSUME Len(w) = L
      PROVE  w[L] \in S /\ got \cup ToSet(w) = {k \in S : k <= w[L]}
  <2>1. L \in DOMAIN w /\ w[L] \in S
    BY <1>1, <1>7
  <2>2. w[L] \in ToSet(w)
    BY <2>1 DEF ToSet
  <2>3. c < w[L] /\ w[L] \in Nat
    BY <1>2, <1>3, <2>1, <2>2
  <2>4. \A x \in ToSet(w) : x <= w[L]
    <3> TAKE x \in ToSet(w)
    <3>1. PICK i \in DOMAIN w : x = w[i]
      BY DEF ToSet
    <3>2. x \in Nat /\ i \in 1 .. L
      <4>1. DOMAIN w = 1 .. Len(w)
        BY <1>1
      <4> QED
        BY <1>2, <1>3, <1>7, <3>1, <4>1
    <3>3. CASE i = L
      BY <2>3, <3>1, <3>3
    <3>4. CASE i < L
      <4>1. w[i] < w[L]
        BY <1>1, <2>1, <3>1, <3>4 DEF Ascending
      <4> QED
        BY <2>3, <3>1, <3>2, <4>1
    <3> QED
      BY <1>1, <3>2, <3>3, <3>4
  <2>5. \A x \in S : x <= c => x <= w[L]
    BY <1>2, <2>3
  <2>6. \A x \in S : x <= w[L] => x <= c \/ x \in ToSet(w)
    <3> SUFFICES ASSUME NEW x \in S, x <= w[L], ~(x <= c), x \notin ToSet(w) PROVE FALSE
      OBVIOUS
    <3>1. x \in Nat /\ c < x
      BY <1>2
    <3>2. w[L] < x
      BY <1>1, <3>1
    <3> QED
      BY <2>3, <3>1, <3>2
  <2> QED
    BY <1>3, <2>1, <2>4, <2>5, <2>6
<1> QED
  BY <1>1, <1>3, <1>4, <1>6, <1>7 DEF L, Paged

LEMMA PageIInv ==
    ASSUME IInv, Page
    PROVE  PagerRight'
<1> DEFINE s == pager.seq
           c == pager.cursor
           page == fetchLedgerPage(c, s, PageLimit)
           w == page.objects
           S == Live(ledger[s])
<1>1. LedgersOK /\ ObjectsRight /\ LinksRight /\ PagerRight
  BY DEF IInv
<1>2. pager.cursor # NoKey /\ ledger' = ledger
  BY DEF Page
<1>3. pager' = [pager EXCEPT !.cursor = page.cursor, !.got = @ \cup ToSet(w),
                             !.inOrder = /\ @ /\ Ascending(w)
                                         /\ \A old \in pager.got, k \in ToSet(w) : old < k]
  BY DEF Page
<1>4. /\ pager \in [seq : 1 .. Len(ledger), cursor : Position \cup {NoKey},
                    got : SUBSET Key, inOrder : BOOLEAN]
      /\ pager.inOrder /\ c \in S \cup {firstKey}
      /\ pager.got = {k \in S : k <= c}
  BY <1>1, <1>2 DEF PagerRight, NoPager
<1>5. s \in 1 .. Len(ledger) /\ PageLimit \in Nat
  BY <1>4 DEF PageLimit
<1>6. S \subseteq Key /\ S \subseteq Nat /\ c \in Nat
  <2>1. S \subseteq Key
    BY DEF Live
  <2> HIDE DEF S
  <2>2. S \subseteq Nat
    BY <2>1, KeyFacts
  <2>3. \A x \in S \cup {firstKey} : x \in Nat
    BY <2>2, KeyFacts
  <2>4. c \in Nat
    BY <1>4, <2>3
  <2> QED
    BY <2>1, <2>2, <2>4
<1>7. /\ WalkFound(S, c, w, PageLimit)
      /\ page.cursor = IF Len(w) = PageLimit THEN w[PageLimit] ELSE NoKey
  <2> HIDE DEF s, c
  <2> QED
    BY <1>1, <1>4, <1>5, FetchPage
<1> HIDE DEF page, w, S, s, c
<1> DEFINE got == pager.got
<1>7a. got \subseteq S /\ \A k \in S : k \in got <=> k <= c
  BY <1>4
<1> HIDE DEF got
<1>7b. Paged(S, w, got)
  BY <1>6, <1>7, <1>7a, NextPage
<1>8. /\ ToSet(w) \subseteq S
      /\ Ascending(w) /\ \A old \in got, k \in ToSet(w) : old < k
      /\ Len(w) # PageLimit => got \cup ToSet(w) = S
      /\ Len(w) = PageLimit => /\ w[PageLimit] \in S
                               /\ got \cup ToSet(w) = {k \in S : k <= w[PageLimit]}
  BY <1>7b DEF Paged
<1>9. pager' = [seq |-> s, cursor |-> page.cursor, got |-> got \cup ToSet(w), inOrder |-> TRUE]
  <2>1. pager.inOrder = TRUE
    BY <1>4
  <2> QED
    BY <1>3, <1>4, <1>8, <2>1 DEF s, got
<1> DEFINE new == got \cup ToSet(w)
<1>10. new \subseteq Key
  BY <1>6, <1>7a, <1>8
<1>11. /\ pager'.seq = s /\ pager'.cursor = page.cursor /\ pager'.got = new /\ pager'.inOrder = TRUE
  BY <1>9
<1>12. CASE Len(w) = PageLimit
  <2>1. page.cursor = w[PageLimit] /\ w[PageLimit] \in S /\ new = {k \in S : k <= w[PageLimit]}
    BY <1>7, <1>8, <1>12
  <2>2. page.cursor \in Position /\ page.cursor # NoKey
    BY <1>6, <2>1, KeyFacts DEF Position
  <2> HIDE DEF new
  <2>3. pager' \in [seq : 1 .. Len(ledger), cursor : Position \cup {NoKey},
                    got : SUBSET Key, inOrder : BOOLEAN]
    BY <1>5, <1>9, <1>10, <2>2 DEF new
  <2> QED
    BY <1>2, <1>11, <2>1, <2>2, <2>3 DEF PagerRight, S
<1>13. CASE Len(w) # PageLimit
  <2>1. page.cursor = NoKey /\ new = S
    BY <1>7, <1>8, <1>13
  <2> HIDE DEF new
  <2>2. pager' \in [seq : 1 .. Len(ledger), cursor : Position \cup {NoKey},
                    got : SUBSET Key, inOrder : BOOLEAN]
    BY <1>5, <1>9, <1>10, <2>1 DEF new
  <2> QED
    BY <1>2, <1>11, <2>1, <2>2 DEF PagerRight, S
<1> QED
  BY <1>12, <1>13

LEMMA TablesUnchanged ==
    ASSUME IInv, UNCHANGED <<ledger, minSequence, tables>>, full' \in BOOLEAN
    PROVE  /\ LedgersOK' /\ ObjectRowsOK' /\ SuccessorRowsOK' /\ ObjectsRight' /\ DiffsRight'
           /\ LinksRight' /\ BookRight' /\ (pager' = pager => PagerRight')
<1>1. /\ ledger' = ledger /\ minSequence' = minSequence /\ objects' = objects
      /\ successor' = successor /\ diff' = diff
  BY DEF tables
<1>2. LedgersOK' /\ ObjectRowsOK' /\ SuccessorRowsOK'
  BY <1>1 DEF IInv, LedgersOK, ObjectRowsOK, SuccessorRowsOK
<1>3. ObjectsRight'
  BY <1>1 DEF IInv, ObjectsRight, doFetchLedgerObject
<1>4. DiffsRight'
  BY <1>1 DEF IInv, DiffsRight, ChangedKeys
<1>5. LinksRight'
  BY <1>1 DEF IInv, LinksRight, doFetchSuccessorKey
<1>6. BookRight'
  BY <1>1 DEF IInv, BookRight, doFetchSuccessorKey
<1>7. pager' = pager => PagerRight'
  BY <1>1 DEF IInv, PagerRight
<1> QED
  BY <1>2, <1>3, <1>4, <1>5, <1>6, <1>7

LEMMA BeginPagingIInv ==
    ASSUME IInv, BeginPaging
    PROVE  PagerRight'
<1>1. PICK seq \in minSequence .. Len(ledger) :
          pager' = [seq |-> seq, cursor |-> firstKey, got |-> {}, inOrder |-> TRUE]
  BY DEF BeginPaging, maxSequence
<1>2. seq \in 1 .. Len(ledger)
  BY DEF IInv, LedgersOK
<1>3. ledger' = ledger /\ firstKey \in Position /\ firstKey # NoKey
  BY KeyFacts DEF BeginPaging, Position
<1>4. {k \in Live(ledger[seq]) : k <= firstKey} = {}
  <2>1. \A k \in Live(ledger[seq]) : k \in Nat /\ 0 < k
    BY KeyFacts DEF Live
  <2> QED
    BY <2>1, KeyFacts
<1>5. pager' \in [seq : 1 .. Len(ledger), cursor : Position \cup {NoKey},
                  got : SUBSET Key, inOrder : BOOLEAN]
  BY <1>1, <1>2, <1>3
<1> QED
  BY <1>1, <1>3, <1>4, <1>5 DEF PagerRight

LEMMA NextIInv ==
    ASSUME NothingExpires, IInv, [Next]_vars
    PROVE  IInv'
<1> USE DEF IInv
<1>1. CASE BuildNextLedger
  BY <1>1, BuildIInv
<1>2. CASE OnlineDelete
  BY <1>2, OnlineDeleteIInv
<1>3. CASE Restart
  BY <1>3, TablesUnchanged DEF Restart
<1>4. CASE CacheLoaded
  BY <1>4, TablesUnchanged DEF CacheLoaded
<1>5. CASE BeginPaging
  <2>1. full' \in BOOLEAN
    BY <1>5 DEF BeginPaging, LedgersOK
  <2> QED
    BY <1>5, <2>1, TablesUnchanged, BeginPagingIInv DEF BeginPaging
<1>6. CASE Page
  <2>1. full' \in BOOLEAN
    BY <1>6 DEF Page, LedgersOK
  <2> QED
    BY <1>6, <2>1, TablesUnchanged, PageIInv DEF Page
<1>7. CASE PagingDone
  <2>1. full' \in BOOLEAN
    BY <1>7 DEF PagingDone, LedgersOK
  <2>2. PagerRight'
    BY <1>7 DEF PagingDone, PagerRight, NoPager
  <2> QED
    BY <1>7, <2>1, <2>2, TablesUnchanged DEF PagingDone
<1>8. CASE UNCHANGED vars
  <2>1. full' \in BOOLEAN
    BY <1>8 DEF vars, LedgersOK
  <2> QED
    BY <1>8, <2>1, TablesUnchanged DEF vars
<1> QED
  BY <1>1, <1>2, <1>3, <1>4, <1>5, <1>6, <1>7, <1>8 DEF Next

-----------------------------------------------------------------------------
(* What the invariant says of the reads.                                    *)

(* The keys of a diff, in any order, are all there once.                    *)
LEMMA SetToSeqFacts ==
    ASSUME NEW S, IsFiniteSet(S)
    PROVE  SetToSeq(S) \in Seq(S) /\ {SetToSeq(S)[i] : i \in DOMAIN SetToSeq(S)} = S
<1> DEFINE n == Cardinality(S)
           f == SetToSeq(S)
<1>1. n \in Nat /\ ExistsBijection(1 .. n, S)
  BY FS_CardinalityType
<1>2. IsFiniteSet(1 .. n) /\ Cardinality(1 .. n) = n
  <2> HIDE DEF n
  <2> QED
    BY <1>1, IntervalSize
<1>3. \E g \in [1 .. n -> S] : IsInjective(g)
  BY <1>1 DEF ExistsBijection, Bijection, Injection
<1>4. f \in [1 .. n -> S] /\ IsInjective(f)
  BY <1>3 DEF SetToSeq
<1>5. f \in Injection(1 .. n, S)
  BY <1>4 DEF Injection
<1>6. f \in Surjection(1 .. n, S)
  <2> HIDE DEF f
  <2>1. Cardinality(1 .. n) = Cardinality(S)
    BY <1>2
  <2> HIDE DEF n
  <2> QED
    BY <1>5, <2>1, FS_Injection
<1>7. \A t \in S : \E i \in 1 .. n : f[i] = t
  BY <1>6 DEF Surjection
<1> HIDE DEF f, n
<1>8. DOMAIN f = 1 .. n /\ \A i \in 1 .. n : f[i] \in S
  BY <1>4
<1>9. f \in Seq(S)
  BY <1>1, <1>4
<1>10. {f[i] : i \in DOMAIN f} = S
  BY <1>7, <1>8
<1> QED
  BY <1>9, <1>10 DEF f

LEMMA DiffsAreDifferences ==
    ASSUME LedgersOK, ObjectsRight, DiffsRight, NEW seq \in 2 .. Len(ledger)
    PROVE  fetchLedgerDiff(seq) = {[key |-> k, object |-> ledger[seq][k]] : k \in ChangedKeys(seq)}
<1> DEFINE D == ChangedKeys(seq)
           keys == DiffKeys(seq)
           objs == fetchLedgerObjects(keys, seq)
           row(k) == [key |-> k, object |-> ledger[seq][k]]
<1>1. seq \in 1 .. Len(ledger)
  BY NewestFacts
<1>2. D \in SUBSET Key /\ IsFiniteSet(D)
  <2>1. D \in SUBSET Key
    BY DEF ChangedKeys
  <2> HIDE DEF D
  <2> QED
    BY <2>1, KeyFacts, FS_Subset
<1>3. keys = SetToSeq(D)
  BY DEF DiffKeys, DiffsRight
<1>4. keys \in Seq(D) /\ {keys[i] : i \in DOMAIN keys} = D
  <2> HIDE DEF D, keys
  <2> QED
    BY <1>2, <1>3, SetToSeqFacts
<1>5. keys \in Seq(Key)
  <2> HIDE DEF D, keys
  <2> QED
    BY <1>2, <1>4
<1>6. objs = [i \in DOMAIN keys |-> ledger[seq][keys[i]]]
  <2> HIDE DEF keys
  <2> QED
    BY <1>1, <1>5, FetchObjects
<1> HIDE DEF D, keys, objs
<1>7. {[key |-> keys[i], object |-> objs[i]] : i \in DOMAIN keys} = {row(k) : k \in D}
  <2>1. \A i \in DOMAIN keys : keys[i] \in D /\ [key |-> keys[i], object |-> objs[i]] = row(keys[i])
    BY <1>4, <1>6
  <2>2. \A k \in D : \E i \in DOMAIN keys : k = keys[i]
    BY <1>4
  <2> HIDE DEF row
  <2>3. {[key |-> keys[i], object |-> objs[i]] : i \in DOMAIN keys} \subseteq {row(k) : k \in D}
    BY <2>1
  <2>4. \A k \in D : row(k) \in {[key |-> keys[i], object |-> objs[i]] : i \in DOMAIN keys}
    BY <2>1, <2>2
  <2> QED
    BY <2>3, <2>4
<1> QED
  BY <1>7 DEF fetchLedgerDiff, Paired, keys, objs, D

LEMMA RowsFollow == IInv => RowsAreLedger
<1> SUFFICES ASSUME IInv PROVE RowsAreLedger
  OBVIOUS
<1> DEFINE n == Len(ledger)
<1>1. LedgersOK /\ ObjectRowsOK /\ SuccessorRowsOK /\ ObjectsRight /\ DiffsRight
  BY DEF IInv
<1>2. /\ n \in Nat /\ n <= MaxLedgers + 1 /\ minSequence \in 1 .. n /\ DOMAIN ledger = 1 .. n
      /\ MaxLedgers \in Nat /\ minSequence \in Nat
  BY <1>1, LedgerStateAssumption DEF LedgersOK
<1>3. TypeOK
  <2>1. ASSUME NEW i \in DOMAIN ledger
        PROVE  ledger[i] \in [Key -> 0 .. MaxLedgers + 1]
    <3>1. i \in 1 .. n /\ ledger[i] \in [Key -> Nat]
      BY <1>1, <1>2, NewestFacts
    <3>2. \A k \in Key : ledger[i][k] \in Nat /\ ledger[i][k] <= i
      BY <1>1, <3>1 DEF LedgersOK
    <3>3. \A k \in Key : ledger[i][k] \in 0 .. MaxLedgers + 1
      BY <1>2, <3>1, <3>2
    <3> QED
      BY <3>1, <3>3
  <2>2. \A r \in objects : r.key \in Key /\ r.object \in 0 .. n
    BY <1>1 DEF ObjectRowsOK
  <2>3. \A r \in successor : r.next \in Key \cup {lastKey} /\ r.key < r.next
    BY <1>1 DEF SuccessorRowsOK
  <2> QED
    BY <1>2, <2>1, <2>2, <2>3 DEF TypeOK, maxSequence
<1>4. ObjectsAreLedger
  BY <1>1, <1>2 DEF ObjectsAreLedger, ObjectsRight, maxSequence
<1>5. DiffIsDifference
  BY <1>1, DiffsAreDifferences DEF DiffIsDifference, ChangedKeys, maxSequence
<1> QED
  BY <1>3, <1>4, <1>5 DEF RowsAreLedger

LEMMA ChainFollows ==
    ASSUME LedgersOK, LinksRight, NEW seq \in 1 .. Len(ledger)
    PROVE  Ascending(Chain(seq)) /\ ToSet(Chain(seq)) = Live(ledger[seq])
<1> DEFINE S == Live(ledger[seq])
           next == [j \in Position |-> doFetchSuccessorKey(j, seq)]
           limit == Cardinality(Key) + 1
           w == Chain(seq)
<1>1. S \in SUBSET Key
  BY DEF Live
<1>2. /\ \A j \in S : j \in Nat /\ 0 < j /\ j \in Position
      /\ firstKey = 0 /\ firstKey \in Position
  BY <1>1, KeyFacts DEF Position
<1>3. \A j \in S \cup {firstKey} : IsNext(S, j, next[j])
  <2> TAKE j \in S \cup {firstKey}
  <2>1. j \in Int /\ j \in Position
    BY <1>2
  <2>2. next[j] = getSuccessor(ledger[seq], j)
    BY <2>1 DEF LinksRight
  <2> QED
    BY <2>1, <2>2, SuccessorIsNext
<1> HIDE DEF S
<1>4. /\ IsFiniteSet(S) /\ Cardinality(S) \in Nat /\ limit \in Nat /\ limit > Cardinality(S)
  <2>1. IsFiniteSet(S) /\ Cardinality(S) <= Cardinality(Key) /\ Cardinality(Key) \in Nat
    BY <1>1, KeyFacts, FS_Subset, FS_CardinalityType
  <2>2. Cardinality(S) \in Nat
    BY <2>1, FS_CardinalityType
  <2> QED
    BY <2>1, <2>2
<1>5. w = Walk(next, firstKey, limit)
  BY DEF Chain
<1> HIDE DEF next, limit, w
<1>6. S \subseteq Nat /\ firstKey \in Int
  BY <1>2
<1>7. WalkFound(S, firstKey, w, limit)
  BY <1>3, <1>4, <1>5, <1>6, WalkFinds
<1>8. ToSet(w) = {x \in S : firstKey < x}
  BY <1>4, <1>6, <1>7, WalkFindsAll
<1>9. ToSet(w) = S
  BY <1>2, <1>8
<1> QED
  BY <1>7, <1>9 DEF WalkFound, w, S

LEMMA BookFollows ==
    ASSUME LedgersOK, LinksRight, BookRight, NEW seq \in 1 .. Len(ledger),
           NEW r \in successor, r.key = Base, r.seq <= seq
    PROVE  /\ Ascending(fetchBookOffers(seq))
           /\ ToSet(fetchBookOffers(seq)) = Live(ledger[seq]) \cap Dir
<1> DEFINE S == Live(ledger[seq]) \cap Dir
           next == [j \in Position |-> InBook(fetchSuccessorKey(j, seq))]
           limit == Cardinality(Dir) + 1
           w == fetchBookOffers(seq)
<1>1. S \in SUBSET Dir /\ S \in SUBSET Key /\ Dir \in SUBSET Key
  BY KeyFacts
<1>2. /\ \A j \in S : j \in Nat /\ Base < j /\ Base <= j /\ j \in Position
      /\ Base \in Nat /\ Base \in Int /\ Base <= Base /\ Base \in Position
  <2>1. \A j \in S : j \in Nat /\ Base < j /\ j \in Key
    BY <1>1, KeyFacts
  <2>2. Base \in Nat
    BY KeyFacts
  <2> QED
    BY <2>1, <2>2 DEF Position
<1>3. ASSUME NEW j \in S
      PROVE  IsNext(S, j, next[j])
  <2>1. fetchSuccessorKey(j, seq) = getSuccessor(ledger[seq], j)
    BY FetchSuccessor
  <2>2. next[j] = InBook(getSuccessor(ledger[seq], j))
    BY <1>2, <2>1
  <2> QED
    BY <1>2, <2>2, NextInBook
<1>4. IsNext(S, Base, next[Base])
  <2>1. next[Base] = InBook(fetchSuccessorKey(Base, seq))
    BY <1>2
  <2> HIDE DEF next
  <2>2. CASE fetchSuccessorKey(Base, seq) = getSuccessor(ledger[seq], Base)
    BY <1>2, <2>1, <2>2, NextInBook
  <2>3. CASE fetchSuccessorKey(Base, seq) = doFetchSuccessorKey(Base, seq)
    BY <2>1, <2>3 DEF BookRight
  <2> QED
    BY <2>2, <2>3 DEF fetchSuccessorKey
<1> HIDE DEF S
<1>5. /\ IsFiniteSet(S) /\ Cardinality(S) \in Nat /\ limit \in Nat /\ limit > Cardinality(S)
  <2>1. IsFiniteSet(Dir)
    BY <1>1, KeyFacts, FS_Subset
  <2>2. IsFiniteSet(S) /\ Cardinality(S) <= Cardinality(Dir) /\ Cardinality(Dir) \in Nat
    BY <1>1, <2>1, FS_Subset, FS_CardinalityType
  <2>3. Cardinality(S) \in Nat
    BY <2>2, FS_CardinalityType
  <2> QED
    BY <2>2, <2>3
<1>6. w = Walk(next, Base, limit)
  BY DEF fetchBookOffers, InBook
<1> HIDE DEF next, limit, w
<1>7. S \subseteq Nat
  BY <1>2
<1>8. WalkFound(S, Base, w, limit)
  BY <1>2, <1>3, <1>4, <1>5, <1>6, <1>7, WalkFinds
<1>9. ToSet(w) = {x \in S : Base < x}
  BY <1>2, <1>5, <1>7, <1>8, WalkFindsAll
<1>10. ToSet(w) = S
  BY <1>2, <1>9
<1> QED
  BY <1>8, <1>10 DEF WalkFound, w, S

LEMMA LinksFollow == IInv => LinksAreLedger
<1> SUFFICES ASSUME IInv PROVE LinksAreLedger
  OBVIOUS
<1>1. LedgersOK /\ SuccessorRowsOK /\ LinksRight /\ BookRight
  BY DEF IInv
<1>2. \A seq \in minSequence .. maxSequence : seq \in 1 .. Len(ledger)
  BY <1>1 DEF LedgersOK, maxSequence
<1>3. ChainIsLedger
  BY <1>1, <1>2, ChainFollows DEF ChainIsLedger
<1>4. BookIsLedger
  <2> SUFFICES ASSUME NEW seq \in minSequence .. maxSequence,
                      NEW r \in successor, r.key = Base, ~(r.seq > seq)
               PROVE  /\ Ascending(fetchBookOffers(seq))
                      /\ ToSet(fetchBookOffers(seq)) = Live(ledger[seq]) \cap Dir
    BY DEF BookIsLedger
  <2>1. r.seq <= seq
    BY <1>1, <1>2 DEF SuccessorRowsOK
  <2> QED
    BY <1>1, <1>2, <2>1, BookFollows
<1> QED
  BY <1>3, <1>4 DEF LinksAreLedger

LEMMA PagerFollows == IInv => PagedAll
<1> SUFFICES ASSUME PagerRight, pager # NoPager
             PROVE  /\ pager.inOrder /\ pager.got \subseteq Live(ledger[pager.seq])
                    /\ pager.cursor = NoKey => pager.got = Live(ledger[pager.seq])
  BY DEF IInv, PagedAll
<1> QED
  BY DEF PagerRight

(* The inductive invariant, of which the theorems are consequences.         *)
LEMMA InductiveInvariant ==
    ASSUME NothingExpires
    PROVE  Spec => []IInv
<1>1. IInv /\ [Next]_vars => IInv'
  BY NextIInv
<1> QED
  BY <1>1, InitIInv, PTL DEF Spec

(* While no row is old enough to expire, the object and diff tables give    *)
(* every ledger of the range, whatever buildNextLedger has changed since    *)
(* and doOnlineDelete has written again, from the cache or from the         *)
(* database.                                                                *)
THEOREM TablesAreLedger ==
    ASSUME NothingExpires
    PROVE  Spec => []RowsAreLedger
BY InductiveInvariant, RowsFollow, PTL

(* While no row is old enough to expire, the successor table, written only  *)
(* where a ledger changes it, leads from the first key through all objects  *)
(* of any ledger of the range, and from the base of a book through its      *)
(* directories, for any set of keys and any ranges of the first download.   *)
THEOREM LinksListLedger ==
    ASSUME NothingExpires
    PROVE  Spec => []LinksAreLedger
BY InductiveInvariant, LinksFollow, PTL

(* While no row is old enough to expire, a client that follows the cursors  *)
(* of fetchLedgerPage gets each object of its ledger once and in order, and *)
(* with the last page it has them all, while ledgers come and go.           *)
THEOREM PagesAreComplete ==
    ASSUME NothingExpires
    PROVE  Spec => []PagedAll
BY InductiveInvariant, PagerFollows, PTL
=============================================================================
