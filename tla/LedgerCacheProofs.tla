-------------------------- MODULE LedgerCacheProofs --------------------------
(***************************************************************************)
(* The cache is the ledger, for every set of keys, every size of page and  *)
(* every number of peers, walks and ledgers.                               *)
(***************************************************************************)
EXTENDS LedgerCache, FiniteSetTheorems, TLAPS

USE DEF Absent, NoKey

-----------------------------------------------------------------------------
(* Least and greatest keys.                                                 *)

(* A set of numbers that is not empty has a least element.                  *)
LEMMA LeastLemma ==
    ASSUME NEW S \in SUBSET Nat, S # {}
    PROVE  \E x \in S : \A y \in S : x <= y
  <1>1. PICK x \in S : \A y \in S : ~ (<<y, x>> \in OpToRel(<, Nat))
    BY WFMin, NatLessThanWellFounded
  <1>2. \A y \in S : ~ (y < x)
    BY <1>1 DEF OpToRel
  <1> QED
    BY <1>2

(* A finite one also has a greatest.                                        *)
LEMMA GreatestLemma ==
    ASSUME NEW S \in SUBSET Nat, IsFiniteSet(S), S # {}
    PROVE  \E x \in S : \A y \in S : y <= x
  <1> DEFINE Up(x) == {y \in S : y > x}
             T == {Cardinality(Up(x)) : x \in S}
  <1>1. \A x \in S : IsFiniteSet(Up(x)) /\ Cardinality(Up(x)) \in Nat
    <2> SUFFICES ASSUME NEW x \in S PROVE IsFiniteSet(Up(x)) /\ Cardinality(Up(x)) \in Nat
      OBVIOUS
    <2>1. Up(x) \in SUBSET S
      OBVIOUS
    <2> HIDE DEF Up
    <2> QED
      BY <2>1, FS_Subset, FS_CardinalityType
  <1>2. T \in SUBSET Nat /\ T # {}
    BY <1>1
  <1>3. PICK m \in T : \A n \in T : m <= n
    BY <1>2, LeastLemma
  <1>4. PICK x \in S : m = Cardinality(Up(x))
    BY <1>3
  <1>5. ASSUME NEW y \in S, y > x PROVE FALSE
    <2>1. Up(y) \in SUBSET Up(x) /\ y \in Up(x) /\ y \notin Up(y)
      <3>1. x \in Nat /\ y \in Nat /\ \A z \in S : z \in Nat
        OBVIOUS
      <3>2. \A z \in S : z > y => z > x
        BY <1>5, <3>1
      <3>3. ~(y > y)
        BY <3>1
      <3> QED
        BY <1>5, <3>2, <3>3
    <2>2. Cardinality(Up(x)) <= Cardinality(Up(y))
      BY <1>3, <1>4
    <2> HIDE DEF Up
    <2>3. Cardinality(Up(y)) <= Cardinality(Up(x)) /\ Cardinality(Up(x)) # Cardinality(Up(y))
      BY <1>1, <2>1, FS_Subset
    <2> QED
      BY <1>1, <2>2, <2>3
  <1> QED
    BY <1>5

(* What First and Last return.                                              *)
LEMMA LastLemma ==
    ASSUME NEW S \in SUBSET Key, S # {}
    PROVE  Last(S) \in S /\ \A y \in S : y <= Last(S)
  <1>1. S \in SUBSET Nat /\ IsFiniteSet(S)
    BY KeyAssumption, FS_Subset
  <1>2. \E x \in S : \A y \in S : y <= x
    BY <1>1, GreatestLemma
  <1> QED
    BY <1>2 DEF Last

LEMMA FirstLemma ==
    ASSUME NEW S \in SUBSET Key, S # {}
    PROVE  First(S) \in S /\ \A y \in S : First(S) <= y
  <1>1. S \in SUBSET Nat
    BY KeyAssumption
  <1>2. \E x \in S : \A y \in S : x <= y
    BY <1>1, LeastLemma
  <1> QED
    BY <1>2 DEF First

(* A page is the start of what is ahead of the cursor, and all of it unless *)
(* the page is full.                                                        *)
LEMMA PageLemma ==
    ASSUME NEW S \in SUBSET Key, NEW c \in Nat, NEW P, P = PageKeys(S, c, PageSize)
    PROVE  /\ P \in SUBSET S
           /\ Cardinality(P) # PageSize => \A k \in S : k > c => k \in P
           /\ Cardinality(P) < PageSize => \A k \in S : k > c => k \in P
           /\ \/ Cardinality(P) < PageSize
              \/ /\ Last(P) \in P
                 /\ \A k \in S : (k > c /\ k <= Last(P)) => k \in P
           /\ Last(P) \in Key \cup {NoKey} /\ Last(P) \in Nat
  <1> DEFINE Below(x) == {j \in S : c < j /\ j < x}
  <1>1. P \in SUBSET S /\ P \in SUBSET Key /\ P \in SUBSET Nat /\ S \in SUBSET Nat /\ \A k \in P : k > c
    BY KeyAssumption DEF PageKeys
  <1>2. IsFiniteSet(S) /\ IsFiniteSet(P) /\ Cardinality(P) \in Nat
    BY <1>1, KeyAssumption, FS_Subset, FS_CardinalityType
  <1>3. \A x \in S : x \in P <=> x > c /\ Cardinality(Below(x)) < PageSize
    BY DEF PageKeys
  <1>4. \A x : IsFiniteSet(Below(x)) /\ Cardinality(Below(x)) \in Nat
    <2> SUFFICES ASSUME NEW x PROVE IsFiniteSet(Below(x)) /\ Cardinality(Below(x)) \in Nat
      OBVIOUS
    <2>1. Below(x) \in SUBSET S
      OBVIOUS
    <2> HIDE DEF Below
    <2> QED
      BY <1>2, <2>1, FS_Subset, FS_CardinalityType
  <1>5. ASSUME NEW x \in P, NEW y \in S, y > c, y <= x PROVE y \in P
    <2>1. Below(y) \in SUBSET Below(x)
      <3>1. x \in Nat /\ y \in Nat /\ \A z \in S : z \in Nat
        BY <1>1
      <3>2. \A z \in S : z < y => z < x
        BY <1>5, <3>1
      <3> QED
        BY <3>2
    <2>2. x \in S /\ Cardinality(Below(x)) < PageSize
      BY <1>1, <1>3
    <2> HIDE DEF Below
    <2>3. Cardinality(Below(y)) <= Cardinality(Below(x))
      BY <1>4, <2>1, FS_Subset
    <2>4. Cardinality(Below(y)) < PageSize
      BY <1>4, <2>2, <2>3, LoaderAssumption
    <2> QED
      BY <1>3, <1>5, <2>4
  <1>6. ASSUME Cardinality(P) < PageSize, NEW k \in S, k > c, k \notin P PROVE FALSE
    <2> DEFINE M == {j \in S : j > c /\ j \notin P}
    <2>1. M \in SUBSET Nat /\ M # {}
      BY <1>1, <1>6
    <2>2. PICK x \in M : \A y \in M : x <= y
      BY <2>1, LeastLemma
    <2>3. Below(x) \in SUBSET P
      <3>1. x \in Nat /\ \A z \in S : z \in Nat
        BY <1>1, <2>2
      <3>2. \A z \in S : z < x => z \notin M
        BY <2>2, <3>1
      <3>3. \A z \in S : c < z => z > c
        BY <3>1
      <3> QED
        BY <3>2, <3>3
    <2>4. x \in S /\ x > c /\ x \notin P
      BY <2>2
    <2> HIDE DEF Below
    <2>5. Cardinality(Below(x)) <= Cardinality(P)
      BY <1>2, <2>3, FS_Subset
    <2>6. Cardinality(Below(x)) < PageSize
      BY <1>2, <1>4, <1>6, <2>5, LoaderAssumption
    <2> QED
      BY <1>3, <2>4, <2>6
  <1>7. Cardinality(P) <= PageSize
    <2>1. CASE P = {}
      BY <2>1, FS_EmptySet, LoaderAssumption
    <2>2. CASE P # {}
      <3>1. PICK x \in P : \A y \in P : y <= x
        BY <1>1, <1>2, <2>2, GreatestLemma
      <3>2. P \ {x} \in SUBSET Below(x)
        BY <1>1, <3>1
      <3>3. Cardinality(Below(x)) < PageSize
        BY <1>1, <1>3
      <3> HIDE DEF Below
      <3>4. Cardinality(P \ {x}) = Cardinality(P) - 1
        BY <1>2, FS_RemoveElement
      <3>5. Cardinality(P \ {x}) <= Cardinality(Below(x))
        BY <1>4, <3>2, FS_Subset
      <3> QED
        BY <1>2, <1>4, <3>3, <3>4, <3>5, LoaderAssumption
    <2> QED
      BY <2>1, <2>2
  <1>8. Cardinality(P) # PageSize => Cardinality(P) < PageSize
    BY <1>2, <1>7, LoaderAssumption
  <1>9. ~(Cardinality(P) < PageSize) => P # {}
    BY FS_EmptySet, LoaderAssumption
  <1>10. P # {} => Last(P) \in P /\ Last(P) \in Key
    BY <1>1, LastLemma
  <1>11. P = {} => Last(P) = NoKey
    BY DEF Last
  <1>12. Last(P) \in Key \cup {NoKey} /\ Last(P) \in Nat
    <2>1. \A k \in Key : k \in Nat
      BY KeyAssumption
    <2>2. CASE P = {}
      BY <1>11, <2>2
    <2>3. CASE P # {}
      BY <1>10, <2>1, <2>3
    <2> QED
      BY <2>2, <2>3
  <1>13. \/ Cardinality(P) < PageSize
         \/ /\ Last(P) \in P
            /\ \A k \in S : (k > c /\ k <= Last(P)) => k \in P
    BY <1>5, <1>9, <1>10
  <1>14. Cardinality(P) < PageSize => \A k \in S : k > c => k \in P
    BY <1>6
  <1> QED
    BY <1>1, <1>8, <1>12, <1>13, <1>14

-----------------------------------------------------------------------------
(* The ledgers and the updates.                                             *)

LEMMA LedgerTypes ==
    ASSUME TypeOK
    PROVE  /\ MaxSequence \in Nat
           /\ \A s \in 1 .. MaxSequence, k \in Key : ledgers[s][k] \in Nat
           /\ \A s : Live(s) \in SUBSET Key
           /\ \A k \in Key : k \in Nat /\ k > 0
  BY KeyAssumption DEF TypeOK, MaxSequence, Live

(* An object that is not there any more was deleted by some ledger.         *)
LEMMA GoneLemma ==
    ASSUME TypeOK, Phase, NEW k \in Key, NEW n \in loadSeq .. MaxSequence,
           ledgers[loadSeq][k] # Absent, ledgers[n][k] = Absent
    PROVE  Gone(k, n)
  <1> DEFINE S == {s \in loadSeq .. n : ledgers[s][k] = Absent}
  <1>1. loadSeq \in Nat /\ n \in Nat /\ MaxSequence \in Nat
    BY LedgerTypes DEF Phase
  <1>2. S \in SUBSET Nat /\ S # {}
    BY <1>1
  <1>3. PICK s \in S : \A r \in S : s <= r
    BY <1>2, LeastLemma
  <1>4. s \in loadSeq .. n /\ ledgers[s][k] = Absent /\ s # loadSeq
    BY <1>3
  <1>5. s - 1 \in loadSeq .. n /\ s - 1 < s
    BY <1>1, <1>4
  <1>6. s - 1 \notin S
    BY <1>3, <1>5
  <1>7. ledgers[s - 1][k] # Absent
    BY <1>5, <1>6
  <1>8. s \in loadSeq + 1 .. n
    BY <1>1, <1>4
  <1> QED
    BY <1>4, <1>7, <1>8 DEF Gone

(* What update makes of a cache c that is in use: with a page of the loader *)
(* while the cache is not full, and with the diff of a new ledger.          *)
Paged(c, objs, seq, d) ==
    /\ d \in Cache /\ ~d.full /\ ~d.disabled
    /\ d.latestSeq = IF seq > c.latestSeq THEN seq ELSE c.latestSeq
    /\ d.deletes = c.deletes
    /\ \A k \in Key :
         d.map[k] = IF k \in DOMAIN objs /\ k \notin c.deletes /\ seq > c.map[k].seq
                    THEN [seq |-> seq, blob |-> objs[k]]
                    ELSE c.map[k]

Applied(c, objs, seq, d) ==
    /\ d \in Cache /\ d.full = c.full /\ ~d.disabled
    /\ d.latestSeq = IF seq > c.latestSeq THEN seq ELSE c.latestSeq
    /\ d.deletes = IF c.full THEN c.deletes
                   ELSE c.deletes \cup {k \in DOMAIN objs : objs[k] = Absent}
    /\ \A k \in Key :
         d.map[k] = IF k \in DOMAIN objs /\ objs[k] = Absent THEN NoEntry
                    ELSE IF k \in DOMAIN objs /\ seq > c.map[k].seq
                         THEN [seq |-> seq, blob |-> objs[k]]
                    ELSE c.map[k]

LEMMA PageUpdate ==
    ASSUME NEW c \in Cache, ~c.disabled, ~c.full, NEW objs, DOMAIN objs \subseteq Key,
           \A k \in DOMAIN objs : objs[k] \in Nat /\ objs[k] # Absent,
           NEW seq \in Nat
    PROVE  Paged(c, objs, seq, Update(c, objs, seq, TRUE))
  <1> DEFINE m == [k \in Key |-> IF k \in DOMAIN objs /\ k \notin c.deletes /\ seq > c.map[k].seq
                                 THEN [seq |-> seq, blob |-> objs[k]]
                                 ELSE c.map[k]]
             lat == IF seq > c.latestSeq THEN seq ELSE c.latestSeq
  <1>1. Update(c, objs, seq, TRUE) =
          [map |-> m, latestSeq |-> lat, full |-> c.full, disabled |-> c.disabled, deletes |-> c.deletes]
    BY DEF Update, Cache
  <1>2. m \in [Key -> Entry]
    <2> SUFFICES ASSUME NEW k \in Key PROVE m[k] \in Entry
      OBVIOUS
    <2> QED
      BY DEF Cache, Entry
  <1>3. lat \in Nat /\ c.full = FALSE /\ c.disabled = FALSE /\ c.deletes \in SUBSET Key
    BY DEF Cache
  <1>4. \A k \in Key : m[k] = IF k \in DOMAIN objs /\ k \notin c.deletes /\ seq > c.map[k].seq
                              THEN [seq |-> seq, blob |-> objs[k]]
                              ELSE c.map[k]
    OBVIOUS
  <1> HIDE DEF m, lat
  <1>5. lat = IF seq > c.latestSeq THEN seq ELSE c.latestSeq
    BY DEF lat
  <1>6. PICK d : d = [map |-> m, latestSeq |-> lat, full |-> c.full, disabled |-> c.disabled,
                      deletes |-> c.deletes]
    OBVIOUS
  <1>7. d \in Cache
    BY <1>2, <1>3, <1>6 DEF Cache
  <1>8. /\ d.map = m /\ d.latestSeq = lat /\ d.full = FALSE /\ d.disabled = FALSE
        /\ d.deletes = c.deletes
    BY <1>3, <1>6
  <1>9. Paged(c, objs, seq, d)
    BY <1>4, <1>5, <1>7, <1>8 DEF Paged
  <1> QED
    BY <1>1, <1>6, <1>9, Zenon

LEMMA DiffUpdate ==
    ASSUME NEW c \in Cache, ~c.disabled, NEW objs, DOMAIN objs \subseteq Key,
           \A k \in DOMAIN objs : objs[k] \in Nat,
           NEW seq \in Nat
    PROVE  Applied(c, objs, seq, Update(c, objs, seq, FALSE))
  <1> DEFINE m == [k \in Key |-> IF k \in DOMAIN objs /\ objs[k] = Absent THEN NoEntry
                                 ELSE IF k \in DOMAIN objs /\ seq > c.map[k].seq
                                      THEN [seq |-> seq, blob |-> objs[k]]
                                 ELSE c.map[k]]
             lat == IF seq > c.latestSeq THEN seq ELSE c.latestSeq
             dels == IF c.full THEN c.deletes
                     ELSE c.deletes \cup {k \in DOMAIN objs : objs[k] = Absent}
  <1>1. Update(c, objs, seq, FALSE) =
          [map |-> m, latestSeq |-> lat, full |-> c.full, disabled |-> c.disabled, deletes |-> dels]
    BY DEF Update, Cache
  <1>2. m \in [Key -> Entry]
    <2> SUFFICES ASSUME NEW k \in Key PROVE m[k] \in Entry
      OBVIOUS
    <2> QED
      BY DEF Cache, Entry, NoEntry
  <1>3. lat \in Nat /\ c.full \in BOOLEAN /\ c.disabled = FALSE /\ dels \in SUBSET Key
    BY DEF Cache
  <1>4. \A k \in Key : m[k] = IF k \in DOMAIN objs /\ objs[k] = Absent THEN NoEntry
                              ELSE IF k \in DOMAIN objs /\ seq > c.map[k].seq
                                   THEN [seq |-> seq, blob |-> objs[k]]
                              ELSE c.map[k]
    OBVIOUS
  <1>5. dels = IF c.full THEN c.deletes
               ELSE c.deletes \cup {k \in DOMAIN objs : objs[k] = Absent}
    OBVIOUS
  <1>6. lat = IF seq > c.latestSeq THEN seq ELSE c.latestSeq
    OBVIOUS
  <1> HIDE DEF m, dels, lat
  <1>7. PICK d : d = [map |-> m, latestSeq |-> lat, full |-> c.full, disabled |-> c.disabled,
                      deletes |-> dels]
    OBVIOUS
  <1>8. d \in Cache
    BY <1>2, <1>3, <1>7 DEF Cache
  <1>9. /\ d.map = m /\ d.latestSeq = lat /\ d.full = c.full /\ d.disabled = FALSE
        /\ d.deletes = dels
    BY <1>3, <1>7
  <1>10. Applied(c, objs, seq, d)
    BY <1>4, <1>5, <1>6, <1>8, <1>9 DEF Applied
  <1> QED
    BY <1>1, <1>7, <1>10, Zenon

(* A page of ledger loadSeq, however late it comes, leaves the cache with   *)
(* what is in its latest ledger and accounts for the keys of the page.      *)
LEMMA PageApplied ==
    ASSUME IInv, ~cache.disabled, ~cache.full,
           NEW objs, DOMAIN objs \subseteq Live(loadSeq),
           \A k \in DOMAIN objs : objs[k] = ledgers[loadSeq][k],
           Paged(cache, objs, loadSeq, cache'),
           UNCHANGED <<ledgers, populated, nextSequence, loadSeq>>
    PROVE  /\ cache' \in Cache /\ ~cache'.disabled /\ ~cache'.full
           /\ cache'.latestSeq = nextSequence - 1 /\ cache'.latestSeq # 0
           /\ Accounted' = Accounted \cup DOMAIN objs
           /\ EntriesCurrent' /\ MissingKnown'
  <1> USE DEF IInv
  <1>1. /\ loadSeq = 2 /\ MaxSequence \in Nat /\ MaxSequence >= 2
        /\ nextSequence \in 3 .. MaxSequence + 1 /\ cache \in Cache
    BY LedgerTypes DEF Phase, TypeOK
  <1>2. /\ DOMAIN objs \subseteq Key
        /\ \A k \in DOMAIN objs : objs[k] \in Nat /\ objs[k] # Absent
    BY <1>1, LedgerTypes DEF Live
  <1>3. /\ cache' \in Cache
        /\ cache'.latestSeq = IF 2 > cache.latestSeq THEN 2 ELSE cache.latestSeq
        /\ ~cache'.full /\ ~cache'.disabled
        /\ cache'.deletes = cache.deletes
        /\ \A k \in Key :
             cache'.map[k] = IF k \in DOMAIN objs /\ k \notin cache.deletes /\ 2 > cache.map[k].seq
                             THEN [seq |-> 2, blob |-> objs[k]]
                             ELSE cache.map[k]
    BY <1>1 DEF Paged
  <1>4. /\ cache.latestSeq \in Nat /\ cache'.latestSeq = nextSequence - 1
        /\ cache'.latestSeq # 0 /\ cache'.latestSeq \in Nat
    <2>1. cache.latestSeq \in Nat
      BY <1>1 DEF Cache
    <2>2. cache.latestSeq = nextSequence - 1 \/ (cache.latestSeq = 0 /\ nextSequence = 3)
      BY DEF Phase
    <2> QED
      BY <1>1, <1>3, <2>1, <2>2
  <1>5. \A k \in Key : /\ cache.map[k].seq \in Nat
                       /\ k \in Held(cache) => cache.map[k].seq >= 2
                       /\ k \notin Held(cache) => cache.map[k].seq = 0
    BY <1>1 DEF EntriesCurrent, Held, Cache, Entry, NoEntry
  <1>6. \A k \in Key :
          IF k \in DOMAIN objs /\ k \notin cache.deletes /\ k \notin Held(cache)
          THEN k \in Held(cache') /\ cache'.map[k] = [seq |-> 2, blob |-> objs[k]]
          ELSE cache'.map[k] = cache.map[k] /\ (k \in Held(cache') <=> k \in Held(cache))
    <2> SUFFICES ASSUME NEW k \in Key
        PROVE IF k \in DOMAIN objs /\ k \notin cache.deletes /\ k \notin Held(cache)
              THEN k \in Held(cache') /\ cache'.map[k] = [seq |-> 2, blob |-> objs[k]]
              ELSE cache'.map[k] = cache.map[k] /\ (k \in Held(cache') <=> k \in Held(cache))
      OBVIOUS
    <2>1. 2 > cache.map[k].seq <=> k \notin Held(cache)
      BY <1>5
    <2>2. [seq |-> 2, blob |-> objs[k]] # NoEntry
      BY DEF NoEntry
    <2> QED
      BY <1>3, <2>1, <2>2 DEF Held
  <1>7. Accounted' = Accounted \cup DOMAIN objs
    <2>1. Accounted' = Held(cache') \cup cache.deletes
      BY <1>3 DEF Accounted
    <2>2. Held(cache') \subseteq Key /\ Held(cache) \subseteq Key
      BY DEF Held
    <2> QED
      BY <1>2, <1>6, <2>1, <2>2 DEF Accounted
  <1>8. EntriesCurrent'
    <2> SUFFICES ASSUME NEW k \in Held(cache')
        PROVE  /\ cache'.map[k].seq \in 2 .. cache'.latestSeq /\ cache'.map[k].blob # Absent
               /\ \A s \in cache'.map[k].seq .. cache'.latestSeq :
                     ledgers[s][k] = cache'.map[k].blob
      BY <1>1 DEF EntriesCurrent
    <2>1. k \in Key
      BY DEF Held
    <2>2. CASE k \in DOMAIN objs /\ k \notin cache.deletes /\ k \notin Held(cache)
      <3>1. cache'.map[k].seq = 2 /\ cache'.map[k].blob = objs[k]
        <4>1. cache'.map[k] = [seq |-> 2, blob |-> objs[k]]
          BY <1>6, <2>1, <2>2
        <4> QED
          BY <4>1
      <3>2. \A s \in 2 .. nextSequence - 1 : ledgers[s][k] = ledgers[2][k]
        BY <1>1, <2>1, <2>2 DEF MissingKnown
      <3> QED
        BY <1>1, <1>2, <1>4, <2>2, <3>1, <3>2
    <2>3. CASE ~(k \in DOMAIN objs /\ k \notin cache.deletes /\ k \notin Held(cache))
      <3>1. cache'.map[k] = cache.map[k] /\ k \in Held(cache)
        BY <1>6, <2>1, <2>3
      <3>2. cache.map[k].seq \in 2 .. cache.latestSeq
        BY <1>1, <3>1 DEF EntriesCurrent
      <3>3. cache'.latestSeq = cache.latestSeq
        BY <1>1, <1>4, <3>2 DEF Phase
      <3> QED
        BY <1>1, <3>1, <3>3 DEF EntriesCurrent
    <2> QED
      BY <2>2, <2>3
  <1>9. MissingKnown'
    <2> SUFFICES ASSUME NEW k \in Key \ Held(cache')
        PROVE  IF k \in cache'.deletes THEN ledgers[nextSequence - 1][k] = Absent
               ELSE \A s \in loadSeq .. nextSequence - 1 : ledgers[s][k] = ledgers[loadSeq][k]
      BY DEF MissingKnown
    <2>1. k \in Key \ Held(cache)
      BY <1>6
    <2> QED
      BY <1>3, <2>1 DEF MissingKnown
  <1> QED
    BY <1>3, <1>4, <1>7, <1>8, <1>9

LEMMA DiffLemma ==
    ASSUME TypeOK, populated, NEW n \in 2 .. MaxSequence
    PROVE  /\ DOMAIN Diff(n) = {k \in Key : ledgers[n][k] # ledgers[n - 1][k]}
           /\ \A k \in DOMAIN Diff(n) : Diff(n)[k] = ledgers[n][k] /\ Diff(n)[k] \in Nat
  <1>1. MaxSequence \in Nat /\ n \in 1 .. MaxSequence
    BY LedgerTypes
  <1> QED
    BY <1>1, LedgerTypes DEF Diff

(* A live update moves the cache to the new ledger, full or not.            *)
LEMMA DiffApplied ==
    ASSUME IInv, LiveUpdate
    PROVE  /\ cache' \in Cache /\ cache'.disabled = cache.disabled /\ cache'.full = cache.full
           /\ ~cache.disabled => cache'.latestSeq = nextSequence
           /\ cache.disabled => cache' = cache
           /\ ~cache.full => Accounted \subseteq Accounted'
           /\ EntriesCurrent' /\ MissingKnown' /\ FullIsLive'
  <1> DEFINE n == nextSequence
             objs == Diff(nextSequence)
  <1> USE DEF IInv
  <1>1. /\ loadSeq = 2 /\ MaxSequence \in Nat /\ n \in 3 .. MaxSequence /\ cache \in Cache
        /\ populated /\ n \in Nat /\ n - 1 \in Nat /\ n - 1 \in 1 .. MaxSequence
        /\ n \in 2 .. MaxSequence /\ n \in 1 .. MaxSequence
    <2>1. loadSeq = 2 /\ MaxSequence \in Nat /\ n \in 3 .. MaxSequence + 1 /\ n <= MaxSequence /\ populated
      BY LedgerTypes DEF Phase, LiveUpdate
    <2>2. cache \in Cache
      BY DEF TypeOK
    <2> QED
      BY <2>1, <2>2
  <1>2. UNCHANGED <<ledgers, populated, emptyStart, loadSeq, stopping>> /\ nextSequence' = n + 1
    BY DEF LiveUpdate, database
  <1>3. /\ DOMAIN objs \subseteq Key /\ \A k \in DOMAIN objs : objs[k] \in Nat
        /\ \A k \in Key : k \in DOMAIN objs <=> ledgers[n][k] # ledgers[n - 1][k]
        /\ \A k \in DOMAIN objs : objs[k] = ledgers[n][k]
    BY <1>1, DiffLemma
  <1>4. CASE cache.disabled
    <2>1. cache' = cache
      BY <1>4 DEF LiveUpdate, Update
    <2>2. cache.latestSeq = 0 /\ ~cache.full
      BY <1>4 DEF Phase
    <2>3. Held(cache) = {}
      BY <1>1, <2>2 DEF EntriesCurrent
    <2> QED
      BY <1>1, <1>4, <2>1, <2>2, <2>3 DEF EntriesCurrent, MissingKnown, FullIsLive, Accounted
  <1>5. CASE ~cache.disabled
    <2>1. Applied(cache, objs, n, cache')
      <3>1. Applied(cache, objs, n, Update(cache, objs, n, FALSE))
        BY <1>1, <1>3, <1>5, DiffUpdate
      <3> QED
        BY <3>1, Zenon DEF LiveUpdate
    <2> HIDE DEF objs
    <2>2. cache.latestSeq \in Nat /\ (cache.latestSeq = n - 1 \/ (cache.latestSeq = 0 /\ n = 3))
      BY <1>1, <1>5 DEF Phase, Cache
    <2>3. /\ cache' \in Cache /\ ~cache'.disabled /\ cache'.full = cache.full
          /\ cache'.latestSeq = n
      BY <1>1, <2>1, <2>2 DEF Applied
    <2>4. \A k \in Key : cache.map[k].seq \in Nat /\ cache.map[k].seq < n
      <3> SUFFICES ASSUME NEW k \in Key PROVE cache.map[k].seq \in Nat /\ cache.map[k].seq < n
        OBVIOUS
      <3>1. cache.map[k].seq \in Nat
        BY <1>1 DEF Cache, Entry
      <3>2. CASE k \in Held(cache)
        BY <1>1, <2>2, <3>1, <3>2 DEF EntriesCurrent
      <3>3. CASE k \notin Held(cache)
        BY <1>1, <3>3 DEF Held, NoEntry
      <3> QED
        BY <3>1, <3>2, <3>3
    <2>5. \A k \in Key :
            /\ ledgers[n][k] = ledgers[n - 1][k] =>
                  cache'.map[k] = cache.map[k] /\ (k \in Held(cache') <=> k \in Held(cache))
            /\ ledgers[n][k] # ledgers[n - 1][k] /\ ledgers[n][k] = Absent => k \notin Held(cache')
            /\ ledgers[n][k] # ledgers[n - 1][k] /\ ledgers[n][k] # Absent =>
                  k \in Held(cache') /\ cache'.map[k] = [seq |-> n, blob |-> ledgers[n][k]]
      <3> SUFFICES ASSUME NEW k \in Key
          PROVE
            /\ ledgers[n][k] = ledgers[n - 1][k] =>
                  cache'.map[k] = cache.map[k] /\ (k \in Held(cache') <=> k \in Held(cache))
            /\ ledgers[n][k] # ledgers[n - 1][k] /\ ledgers[n][k] = Absent => k \notin Held(cache')
            /\ ledgers[n][k] # ledgers[n - 1][k] /\ ledgers[n][k] # Absent =>
                  k \in Held(cache') /\ cache'.map[k] = [seq |-> n, blob |-> ledgers[n][k]]
        OBVIOUS
      <3>1. [seq |-> n, blob |-> ledgers[n][k]] # NoEntry
        BY <1>1 DEF NoEntry
      <3>2. n > cache.map[k].seq
        BY <1>1, <2>4
      <3>3. cache'.map[k] = IF k \in DOMAIN objs /\ objs[k] = Absent THEN NoEntry
                            ELSE IF k \in DOMAIN objs /\ n > cache.map[k].seq
                                 THEN [seq |-> n, blob |-> objs[k]]
                            ELSE cache.map[k]
        BY <2>1 DEF Applied
      <3>4. k \in DOMAIN objs => objs[k] = ledgers[n][k]
        BY <1>3
      <3>5. k \in DOMAIN objs <=> ledgers[n][k] # ledgers[n - 1][k]
        BY <1>3
      <3> QED
        BY <3>1, <3>2, <3>3, <3>4, <3>5 DEF Held
    <2>6. ~cache.full => /\ cache.deletes \subseteq cache'.deletes
                         /\ \A k \in Key :
                              k \in cache'.deletes <=>
                                 \/ k \in cache.deletes
                                 \/ ledgers[n][k] # ledgers[n - 1][k] /\ ledgers[n][k] = Absent
      BY <1>3, <2>1 DEF Applied
    <2>7. ~cache.full => Accounted \subseteq Accounted'
      <3> SUFFICES ASSUME ~cache.full, NEW k \in Accounted, k \notin cache'.deletes
                   PROVE  k \in Held(cache')
        BY DEF Accounted
      <3>1. k \in Held(cache) /\ k \in Key
        BY <2>6 DEF Accounted, Held
      <3> QED
        BY <2>5, <2>6, <3>1
    <2>8. EntriesCurrent'
      <3> SUFFICES ASSUME NEW k \in Held(cache')
          PROVE  /\ cache'.map[k].seq \in 2 .. n /\ cache'.map[k].blob # Absent
                 /\ \A s \in cache'.map[k].seq .. n : ledgers[s][k] = cache'.map[k].blob
        BY <1>1, <1>2, <2>3 DEF EntriesCurrent
      <3>1. k \in Key
        BY DEF Held
      <3>2. CASE ledgers[n][k] = ledgers[n - 1][k]
        <4>1. cache'.map[k] = cache.map[k] /\ k \in Held(cache)
          BY <2>5, <3>1, <3>2
        <4>2. /\ cache.map[k].seq \in 2 .. cache.latestSeq /\ cache.map[k].blob # Absent
              /\ \A s \in cache.map[k].seq .. cache.latestSeq : ledgers[s][k] = cache.map[k].blob
          BY <1>1, <4>1 DEF EntriesCurrent
        <4>3. cache.latestSeq = n - 1
          BY <1>1, <2>2, <4>2
        <4>4. \A s \in cache.map[k].seq .. n : s = n \/ s \in cache.map[k].seq .. n - 1
          BY <1>1, <4>2, <4>3
        <4>5. n - 1 \in cache.map[k].seq .. n - 1
          BY <1>1, <4>2, <4>3
        <4>6. ledgers[n][k] = cache.map[k].blob
          BY <3>2, <4>2, <4>3, <4>5
        <4>7. cache.map[k].seq \in 2 .. n
          BY <1>1, <4>2, <4>3
        <4> QED
          BY <4>1, <4>2, <4>3, <4>4, <4>6, <4>7
      <3>3. CASE ledgers[n][k] # ledgers[n - 1][k]
        <4>1. ledgers[n][k] # Absent /\ cache'.map[k] = [seq |-> n, blob |-> ledgers[n][k]]
          BY <2>5, <3>1, <3>3
        <4>2. cache'.map[k].seq = n /\ cache'.map[k].blob = ledgers[n][k]
          BY <4>1
        <4>3. \A s \in n .. n : s = n
          BY <1>1
        <4> QED
          BY <1>1, <4>1, <4>2, <4>3
      <3> QED
        BY <3>2, <3>3
    <2>9. MissingKnown'
      <3> SUFFICES ASSUME ~cache.full, NEW k \in Key, k \notin Held(cache')
          PROVE  IF k \in cache'.deletes THEN ledgers[n][k] = Absent
                 ELSE \A s \in 2 .. n : ledgers[s][k] = ledgers[2][k]
        BY <1>1, <1>2, <2>3 DEF MissingKnown
      <3>1. CASE ledgers[n][k] = ledgers[n - 1][k]
        <4>1. k \notin Held(cache)
          BY <2>5, <3>1
        <4>2. IF k \in cache.deletes THEN ledgers[n - 1][k] = Absent
              ELSE \A s \in 2 .. n - 1 : ledgers[s][k] = ledgers[2][k]
          BY <1>1, <1>5, <4>1 DEF MissingKnown
        <4>3. k \in cache'.deletes <=> k \in cache.deletes
          BY <2>6, <3>1
        <4>4. \A s \in 2 .. n : s = n \/ s \in 2 .. n - 1
          BY <1>1
        <4>5. n - 1 \in 2 .. n - 1
          BY <1>1
        <4> QED
          BY <3>1, <4>2, <4>3, <4>4, <4>5
      <3>2. CASE ledgers[n][k] # ledgers[n - 1][k]
        BY <2>5, <2>6, <3>2
      <3> QED
        BY <3>1, <3>2
    <2>10. FullIsLive'
      <3> SUFFICES ASSUME cache.full, ~emptyStart, ~stopping, NEW k \in Key
          PROVE  k \in Held(cache') <=> ledgers[n][k] # Absent
        <4>1. PICK m : m = n
          OBVIOUS
        <4>2. Held(cache') \subseteq Key /\ Live(m)' = {k \in Key : ledgers[m][k] # Absent}
          BY <1>1, <1>2 DEF Held, Live
        <4>3. cache'.latestSeq = m /\ m # 0
          BY <1>1, <2>3, <4>1
        <4>4. FullIsLive' <=> ((cache.full /\ ~emptyStart /\ ~stopping) => Held(cache') = Live(m)')
          BY <1>2, <2>3, <4>3 DEF FullIsLive
        <4> QED
          BY <4>1, <4>2, <4>4
      <3>1. cache.latestSeq = n - 1 /\ (k \in Held(cache) <=> ledgers[n - 1][k] # Absent)
        BY <1>1, <2>2 DEF FullIsLive, Live
      <3> QED
        BY <2>5, <3>1
    <2>11. cache'.disabled = cache.disabled
      BY <1>1, <1>5, <2>3 DEF Cache
    <2> QED
      BY <1>5, <2>3, <2>7, <2>8, <2>9, <2>10, <2>11
  <1> QED
    BY <1>4, <1>5

-----------------------------------------------------------------------------
(* What an action leaves alone.                                             *)

LEMMA CacheKept ==
    ASSUME IInv, UNCHANGED <<ledgers, populated, emptyStart, cache, nextSequence, loadSeq>>,
           stopping => stopping'
    PROVE  /\ EntriesCurrent' /\ MissingKnown' /\ FullIsLive'
           /\ Accounted' = Accounted /\ Live(loadSeq)' = Live(loadSeq)
  <1>1. EntriesCurrent' /\ MissingKnown'
    BY DEF IInv, EntriesCurrent, MissingKnown
  <1>2. Accounted' = Accounted /\ Live(loadSeq)' = Live(loadSeq)
    BY DEF Accounted, Live
  <1>3. Live(cache.latestSeq)' = Live(cache.latestSeq)
    BY DEF Live
  <1>4. FullIsLive'
    BY <1>3 DEF IInv, FullIsLive
  <1> QED
    BY <1>1, <1>2, <1>4

LEMMA PeerKept ==
    ASSUME PeerWalk, loader' = "peer" => loader = "peer",
           UNCHANGED <<ledgers, populated, emptyStart, loadSeq, peersLeft, peerMax, request, reply, segments>>,
           loader = "peer" => Accounted \subseteq Accounted'
    PROVE  PeerWalk'
  <1> SUFFICES ASSUME loader = "peer" PROVE PeerWalk'
    BY DEF PeerWalk
  <1>1. Live(loadSeq)' = Live(loadSeq) /\ \A k, n : Gone(k, n)' = Gone(k, n)
    BY DEF Live, Gone
  <1>2. Due(request)' = Due(request) /\ Due(reply.marker)' = Due(reply.marker)
    BY <1>1 DEF Due
  <1>3. MarkerOK(request)' = MarkerOK(request) /\ MarkerOK(reply.marker)' = MarkerOK(reply.marker)
    BY DEF MarkerOK
  <1> QED
    BY <1>1, <1>2, <1>3 DEF PeerWalk

LEMMA DbKept ==
    ASSUME DbWalk, loader' = "db" => loader = "db", stopping => stopping',
           UNCHANGED <<ledgers, populated, emptyStart, loadSeq, segments>>,
           loader = "db" => Accounted \subseteq Accounted',
           cache.latestSeq # 0 => cache'.latestSeq # 0
    PROVE  DbWalk'
  <1> SUFFICES ASSUME loader = "db" PROVE DbWalk'
    BY DEF DbWalk
  <1>1. Live(loadSeq)' = Live(loadSeq)
    BY DEF Live
  <1>2. \A g : Walked(g)' = Walked(g)
    BY <1>1 DEF Walked, Within
  <1> QED
    BY <1>2 DEF DbWalk, Within

(* The conjunct of the types that the others rely on.                       *)
LEMMA PhaseFacts ==
    ASSUME IInv
    PROVE  /\ loadSeq = 2 /\ MaxSequence \in Nat /\ MaxSequence >= 2
           /\ nextSequence \in Nat /\ nextSequence \in 3 .. MaxSequence + 1
           /\ cache \in Cache /\ cache.latestSeq \in Nat /\ cache.latestSeq <= MaxSequence
           /\ peerMax \in Nat /\ peerMax <= MaxSequence
  <1>1. /\ loadSeq = 2 /\ MaxSequence \in Nat /\ MaxSequence >= 2
        /\ nextSequence \in 3 .. MaxSequence + 1 /\ cache \in Cache
    BY LedgerTypes DEF IInv, Phase, TypeOK
  <1>2. cache.latestSeq \in Nat
    BY <1>1 DEF Cache
  <1>3. cache.latestSeq = nextSequence - 1 \/ cache.latestSeq = 0
    BY DEF IInv, Phase
  <1>4. peerMax \in 0 .. MaxSequence
    BY DEF IInv, TypeOK
  <1> QED
    BY <1>1, <1>2, <1>3, <1>4

-----------------------------------------------------------------------------
(* One lemma for each action.                                               *)

LEMMA NewLedgerStep ==
    ASSUME IInv, NewLedger
    PROVE  IInv'
  <1> USE DEF IInv
  <1>0. /\ loadSeq = 2 /\ MaxSequence \in Nat /\ MaxSequence >= 2
        /\ nextSequence \in Nat /\ nextSequence \in 3 .. MaxSequence + 1
        /\ cache.latestSeq \in Nat /\ cache.latestSeq <= MaxSequence
        /\ peerMax \in Nat /\ peerMax <= MaxSequence
    BY PhaseFacts
  <1>1. PICK state \in Successors(ledgers[MaxSequence], MaxSequence + 1) :
          ledgers' = Append(ledgers, state)
    BY DEF NewLedger
  <1>2. state \in [Key -> Nat]
    BY <1>0, <1>1 DEF Successors
  <1>3. UNCHANGED <<emptyStart, populated, cache, nextSequence, blocking, loadSeq, loader,
                    peersLeft, peerMax, request, reply, segments, stopping>>
    BY DEF NewLedger, peer
  <1>4. /\ ledgers' \in Seq([Key -> Nat]) /\ MaxSequence' = MaxSequence + 1
        /\ \A s \in 1 .. MaxSequence : ledgers'[s] = ledgers[s]
    BY <1>1, <1>2 DEF TypeOK, MaxSequence
  <1>5. TypeOK'
    <2>1. peerMax' \in 0 .. MaxSequence'
      BY <1>0, <1>3, <1>4
    <2>2. Running' = Running
      BY <1>3 DEF Running
    <2> QED
      BY <1>3, <1>4, <2>1, <2>2 DEF TypeOK
  <1>6. \A s \in 1 .. MaxSequence : Live(s)' = Live(s)
    BY <1>3, <1>4 DEF Live
  <1>7. Live(loadSeq)' = Live(loadSeq) /\ Accounted' = Accounted
    BY <1>0, <1>3, <1>6 DEF Accounted
  <1>8. Phase'
    BY <1>0, <1>3, <1>4, <1>7 DEF Phase
  <1>9. EntriesCurrent'
    <2> SUFFICES ASSUME NEW k \in Held(cache)
        PROVE  /\ cache.map[k].seq \in 2 .. cache.latestSeq /\ cache.map[k].blob # Absent
               /\ \A s \in cache.map[k].seq .. cache.latestSeq :
                     ledgers'[s][k] = cache.map[k].blob
      BY <1>0, <1>3 DEF EntriesCurrent
    <2>1. /\ cache.map[k].seq \in 2 .. cache.latestSeq /\ cache.map[k].blob # Absent
          /\ \A s \in cache.map[k].seq .. cache.latestSeq : ledgers[s][k] = cache.map[k].blob
      BY <1>0 DEF EntriesCurrent
    <2>2. \A s \in cache.map[k].seq .. cache.latestSeq : s \in 1 .. MaxSequence
      BY <1>0, <2>1
    <2> QED
      BY <1>4, <2>1, <2>2
  <1>10. MissingKnown'
    <2>1. \A s \in loadSeq .. nextSequence - 1 : ledgers'[s] = ledgers[s]
      BY <1>0, <1>4
    <2>2. loadSeq \in loadSeq .. nextSequence - 1 /\ nextSequence - 1 \in loadSeq .. nextSequence - 1
      BY <1>0
    <2> QED
      BY <1>3, <2>1, <2>2 DEF MissingKnown
  <1>11. \A k, n : n \in Nat /\ n <= MaxSequence => Gone(k, n)' = Gone(k, n)
    <2> SUFFICES ASSUME NEW k, NEW n \in Nat, n <= MaxSequence PROVE Gone(k, n)' = Gone(k, n)
      OBVIOUS
    <2>1. \A s \in loadSeq + 1 .. n : ledgers'[s] = ledgers[s] /\ ledgers'[s - 1] = ledgers[s - 1]
      BY <1>0, <1>4
    <2> QED
      BY <1>3, <2>1 DEF Gone
  <1>12. \A m : MarkerOK(m) => Due(m)' = Due(m) /\ MarkerOK(m)'
    <2> SUFFICES ASSUME NEW m, MarkerOK(m) PROVE Due(m)' = Due(m) /\ MarkerOK(m)'
      OBVIOUS
    <2>1. MarkerOK(m)'
      BY <1>3 DEF MarkerOK
    <2>2. m.type = "diff" => m.value \in Nat /\ m.value <= MaxSequence
      BY <1>0 DEF MarkerOK
    <2>3. /\ m.type = "diff" => \A k : Gone(k, m.value)' = Gone(k, m.value)
          /\ \A k : Gone(k, peerMax)' = Gone(k, peerMax)
      BY <1>0, <1>3, <1>11, <2>2
    <2> QED
      BY <1>3, <1>7, <2>1, <2>3 DEF Due
  <1>13. PeerWalk'
    <2> SUFFICES ASSUME loader = "peer" PROVE PeerWalk'
      BY <1>3 DEF PeerWalk
    <2>1. MarkerOK(request) /\ (reply # NoReply => MarkerOK(reply.marker))
      BY DEF PeerWalk
    <2>2. Due(request)' = Due(request) /\ MarkerOK(request)'
      <3>1. PICK m : m = request
        OBVIOUS
      <3>2. Due(m)' = Due(m) /\ MarkerOK(m)'
        BY <1>12, <2>1, <3>1
      <3>3. m = request'
        BY <1>3, <3>1
      <3> QED
        BY <3>1, <3>2, <3>3 DEF Due, MarkerOK
    <2>3. reply # NoReply => Due(reply.marker)' = Due(reply.marker) /\ MarkerOK(reply.marker)'
      <3>1. PICK m : m = reply.marker
        OBVIOUS
      <3>2. reply # NoReply => Due(m)' = Due(m) /\ MarkerOK(m)'
        BY <1>12, <2>1, <3>1
      <3>3. m = reply'.marker
        BY <1>3, <3>1
      <3> QED
        BY <3>1, <3>2, <3>3 DEF Due, MarkerOK
    <2>4. ledgers'[loadSeq] = ledgers[loadSeq]
      BY <1>0, <1>4
    <2> QED
      BY <1>3, <1>7, <2>2, <2>3, <2>4 DEF PeerWalk
  <1>14. DbWalk'
    <2>1. \A g : Walked(g)' = Walked(g)
      BY <1>3, <1>7 DEF Walked, Within
    <2> QED
      BY <1>3, <1>7, <2>1 DEF DbWalk, Within
  <1>15. FullIsLive'
    <2>1. PICK m : m = cache.latestSeq
      OBVIOUS
    <2>2. m # 0 => Live(m)' = Live(m)
      BY <1>0, <1>6, <2>1
    <2> QED
      BY <1>3, <2>1, <2>2 DEF FullIsLive, Live
  <1> QED
    BY <1>5, <1>8, <1>9, <1>10, <1>13, <1>14, <1>15

LEMMA QuietStep ==
    ASSUME IInv, Populate \/ Stop \/ UNCHANGED vars
    PROVE  IInv'
  <1> USE DEF IInv
  <1>1. ASSUME Populate PROVE IInv'
    <2>1. emptyStart /\ UNCHANGED <<ledgers, emptyStart, cache, nextSequence, blocking, loadSeq, loader,
                      peersLeft, peerMax, request, reply, segments, stopping>> /\ populated' = TRUE
      BY <1>1 DEF Populate, Phase, peer
    <2>2. TypeOK'
      BY <2>1 DEF TypeOK, MaxSequence, Running
    <2>3. Phase'
      BY <2>1 DEF Phase, MaxSequence
    <2>4. EntriesCurrent' /\ MissingKnown' /\ FullIsLive'
      BY <2>1 DEF EntriesCurrent, MissingKnown, FullIsLive
    <2>5. PeerWalk' /\ DbWalk'
      BY <2>1 DEF PeerWalk, DbWalk, Within
    <2> QED
      BY <2>2, <2>3, <2>4, <2>5
  <1>2. ASSUME Stop \/ UNCHANGED vars PROVE IInv'
    <2>1. /\ UNCHANGED <<ledgers, emptyStart, populated, cache, nextSequence, blocking, loadSeq, loader,
                         peersLeft, peerMax, request, reply, segments>>
          /\ stopping => stopping'
          /\ stopping' \in BOOLEAN
      BY <1>2 DEF Stop, database, peer, vars, TypeOK
    <2>2. TypeOK'
      BY <2>1 DEF TypeOK, MaxSequence, Running
    <2>3. /\ EntriesCurrent' /\ MissingKnown' /\ FullIsLive'
          /\ Accounted' = Accounted /\ Live(loadSeq)' = Live(loadSeq)
      BY <2>1, CacheKept
    <2>4. Phase'
      BY <2>1, <2>3 DEF Phase, MaxSequence
    <2>5. PeerWalk'
      BY <2>1, <2>3, PeerKept
    <2>6. DbWalk'
      BY <2>1, <2>3, DbKept
    <2> QED
      BY <2>2, <2>3, <2>4, <2>5, <2>6
  <1> QED
    BY <1>1, <1>2

LEMMA LiveStep ==
    ASSUME IInv, LiveUpdate
    PROVE  IInv'
  <1> USE DEF IInv
  <1>1. UNCHANGED <<ledgers, emptyStart, populated, blocking, loadSeq, loader, peersLeft, peerMax,
                    request, reply, segments, stopping>> /\ nextSequence' = nextSequence + 1
    BY DEF LiveUpdate, database, peer
  <1>2. /\ cache' \in Cache /\ cache'.disabled = cache.disabled /\ cache'.full = cache.full
        /\ ~cache.disabled => cache'.latestSeq = nextSequence
        /\ cache.disabled => cache' = cache
        /\ ~cache.full => Accounted \subseteq Accounted'
        /\ EntriesCurrent' /\ MissingKnown' /\ FullIsLive'
    BY DiffApplied
  <1>3. /\ loadSeq = 2 /\ MaxSequence \in Nat /\ MaxSequence >= 2
        /\ nextSequence \in Nat /\ nextSequence \in 3 .. MaxSequence + 1
    BY PhaseFacts
  <1>4. nextSequence <= MaxSequence
    BY DEF LiveUpdate
  <1>5. TypeOK'
    BY <1>1, <1>2, <1>3 DEF TypeOK, MaxSequence, Running
  <1>6. Live(loadSeq)' = Live(loadSeq)
    BY <1>1 DEF Live
  <1>7. loader # "done" => ~cache.full /\ ~cache.disabled /\ Accounted \subseteq Accounted'
    BY <1>2 DEF Phase
  <1>8. Phase'
    <2>1. MaxSequence' = MaxSequence
      BY <1>1 DEF MaxSequence
    <2>2. nextSequence' \in 3 .. MaxSequence' + 1
      BY <1>1, <1>3, <1>4, <2>1
    <2>3. \/ cache'.latestSeq = nextSequence' - 1
          \/ cache'.latestSeq = 0 /\ cache'.disabled
      BY <1>1, <1>2, <1>3 DEF Phase
    <2>4. cache'.disabled => ~cache'.full /\ cache'.latestSeq = 0 /\ loader' = "done"
      BY <1>1, <1>2 DEF Phase
    <2>5. loader = "loaded" => /\ ~emptyStart /\ cache'.latestSeq # 0
                               /\ Live(loadSeq)' \subseteq Accounted'
      BY <1>2, <1>3, <1>6, <1>7 DEF Phase
    <2> QED
      BY <1>1, <1>2, <1>3, <2>1, <2>2, <2>3, <2>4, <2>5 DEF Phase
  <1>9. PeerWalk'
    BY <1>1, <1>7, PeerKept
  <1>10. DbWalk'
    <2>1. cache.latestSeq # 0 => cache'.latestSeq # 0
      BY <1>2, <1>3
    <2> QED
      BY <1>1, <1>7, <2>1, DbKept
  <1> QED
    BY <1>2, <1>5, <1>8, <1>9, <1>10

LEMMA PeerAdvancesStep ==
    ASSUME IInv, PeerAdvances
    PROVE  IInv'
  <1> USE DEF IInv
  <1>1. /\ UNCHANGED <<ledgers, emptyStart, populated, cache, nextSequence, blocking, loadSeq, loader,
                       peersLeft, request, reply, segments, stopping>>
        /\ peerMax' = peerMax + 1 /\ peerMax < MaxSequence /\ loader = "peer"
    BY DEF PeerAdvances, database
  <1>2. loadSeq = 2 /\ MaxSequence \in Nat /\ peerMax \in Nat
    BY PhaseFacts
  <1>3. /\ EntriesCurrent' /\ MissingKnown' /\ FullIsLive'
        /\ Accounted' = Accounted /\ Live(loadSeq)' = Live(loadSeq)
    BY <1>1, CacheKept
  <1>4. TypeOK'
    <2>1. peerMax' \in 0 .. MaxSequence'
      BY <1>1, <1>2 DEF MaxSequence
    <2> QED
      BY <1>1, <2>1 DEF TypeOK, MaxSequence, Running
  <1>5. Phase'
    BY <1>1, <1>3 DEF Phase, MaxSequence
  <1>6. \A k : /\ Gone(k, peerMax) => Gone(k, peerMax)'
               /\ \A n : Gone(k, n)' = Gone(k, n)
    <2>1. \A s \in loadSeq + 1 .. peerMax : s \in loadSeq + 1 .. peerMax + 1
      BY <1>2
    <2> QED
      BY <1>1, <2>1 DEF Gone
  <1>7. \A m : Due(m) \subseteq Due(m)' /\ (MarkerOK(m) => MarkerOK(m)')
    <2> SUFFICES ASSUME NEW m PROVE Due(m) \subseteq Due(m)' /\ (MarkerOK(m) => MarkerOK(m)')
      OBVIOUS
    <2>1. MarkerOK(m) => MarkerOK(m)'
      BY <1>1, <1>2 DEF MarkerOK
    <2> QED
      BY <1>1, <1>3, <1>6, <2>1 DEF Due
  <1>8. PeerWalk'
    <2>1. Due(request) \subseteq Due(request)' /\ (MarkerOK(request) => MarkerOK(request)')
      <3>1. PICK m : m = request
        OBVIOUS
      <3>2. Due(m) \subseteq Due(m)' /\ (MarkerOK(m) => MarkerOK(m)') /\ m = request'
        BY <1>1, <1>7, <3>1
      <3> QED
        BY <3>1, <3>2 DEF Due, MarkerOK
    <2>2. /\ Due(reply.marker) \subseteq Due(reply.marker)'
          /\ MarkerOK(reply.marker) => MarkerOK(reply.marker)'
      <3>1. PICK m : m = reply.marker
        OBVIOUS
      <3>2. Due(m) \subseteq Due(m)' /\ (MarkerOK(m) => MarkerOK(m)') /\ m = reply'.marker
        BY <1>1, <1>7, <3>1
      <3> QED
        BY <3>1, <3>2 DEF Due, MarkerOK
    <2> QED
      BY <1>1, <1>3, <2>1, <2>2 DEF PeerWalk
  <1>9. DbWalk'
    BY <1>1 DEF DbWalk
  <1> QED
    BY <1>3, <1>4, <1>5, <1>8, <1>9

(* What a peer answers leaves nothing out: what the pages miss, because it  *)
(* was deleted before they were read, comes with the diffs.                 *)
LEMMA PageAnswer ==
    ASSUME IInv, loader = "peer", peerMax >= loadSeq, request.type # "diff"
    PROVE  /\ MarkerOK(PeerPage.marker)
           /\ DOMAIN PeerPage.objects \subseteq Live(loadSeq)
           /\ \A k \in DOMAIN PeerPage.objects : PeerPage.objects[k] = ledgers[loadSeq][k]
           /\ Live(loadSeq) \subseteq Accounted \cup DOMAIN PeerPage.objects \cup Due(PeerPage.marker)
  <1> USE DEF IInv
  <1> DEFINE P == PageKeys(Live(peerMax), request.value, PageSize)
             full == Cardinality(P) = PageSize
  <1>1. /\ loadSeq = 2 /\ MaxSequence \in Nat /\ peerMax \in Nat /\ peerMax \in loadSeq .. MaxSequence
        /\ populated
    <2>1. populated
      BY DEF PeerWalk, Phase
    <2> QED
      BY <2>1, PhaseFacts
  <1>2. request.value \in Nat /\ request.type \in {"start", "key", "end"}
    BY DEF PeerWalk, MarkerOK
  <1>3. /\ P \in SUBSET Live(peerMax)
        /\ ~full => \A k \in Live(peerMax) : k > request.value => k \in P
        /\ full => \A k \in Live(peerMax) : (k > request.value /\ k <= Last(P)) => k \in P
        /\ Last(P) \in Nat
    <2>1. Live(peerMax) \in SUBSET Key
      BY LedgerTypes
    <2>2. full => ~(Cardinality(P) < PageSize)
      BY LoaderAssumption
    <2> HIDE DEF P
    <2>3. P = PageKeys(Live(peerMax), request.value, PageSize)
      BY DEF P
    <2> QED
      BY <1>2, <2>1, <2>2, <2>3, PageLemma
  <1> HIDE DEF P
  <1>4. /\ PeerPage.objects = [k \in P \cap Live(loadSeq) |-> ledgers[loadSeq][k]]
        /\ full => PeerPage.marker = KeyMarker(Last(P))
        /\ ~full => PeerPage.marker = DiffMarker(peerMax)
    BY DEF PeerPage, Objects, P
  <1>5. MarkerOK(PeerPage.marker)
    <2>1. MarkerOK(KeyMarker(Last(P)))
      BY <1>3 DEF MarkerOK, KeyMarker
    <2>2. MarkerOK(DiffMarker(peerMax))
      BY <1>1 DEF MarkerOK, DiffMarker
    <2> QED
      BY <1>4, <2>1, <2>2
  <1>6. ASSUME NEW k \in Live(loadSeq), k \notin Accounted, k \notin P
        PROVE  k \in Due(PeerPage.marker)
    <2>1. k > request.value \/ Gone(k, peerMax)
      BY <1>2, <1>6 DEF PeerWalk, Due
    <2>2. k \in Key /\ ledgers[loadSeq][k] # Absent /\ k \in Nat
      BY LedgerTypes DEF Live
    <2>3. CASE k \in Live(peerMax) /\ ~Gone(k, peerMax)
      <3>1. full /\ k > Last(P)
        BY <1>3, <1>6, <2>1, <2>2, <2>3
      <3> QED
        BY <1>4, <3>1 DEF Due, KeyMarker
    <2>4. CASE k \notin Live(peerMax) \/ Gone(k, peerMax)
      <3>1. Gone(k, peerMax)
        BY <1>1, <2>2, <2>4, GoneLemma DEF Live
      <3>2. k \in Due(KeyMarker(Last(P))) /\ k \in Due(DiffMarker(peerMax))
        BY <3>1 DEF Due, KeyMarker, DiffMarker
      <3> QED
        BY <1>4, <3>2
    <2> QED
      BY <2>3, <2>4
  <1> QED
    BY <1>4, <1>5, <1>6

LEMMA DiffAnswer ==
    ASSUME IInv, loader = "peer", request.type = "diff"
    PROVE  /\ MarkerOK(PeerDiff.marker)
           /\ DOMAIN PeerDiff.objects \subseteq Live(loadSeq)
           /\ \A k \in DOMAIN PeerDiff.objects : PeerDiff.objects[k] = ledgers[loadSeq][k]
           /\ Live(loadSeq) \subseteq Accounted \cup DOMAIN PeerDiff.objects \cup Due(PeerDiff.marker)
  <1> USE DEF IInv
  <1> DEFINE s == request.value
             deleted == {k \in DOMAIN Diff(s) : Diff(s)[k] = Absent}
  <1>1. /\ loadSeq = 2 /\ MaxSequence \in Nat /\ peerMax \in Nat /\ peerMax <= MaxSequence
        /\ populated /\ s \in loadSeq .. peerMax
    <2>1. populated /\ s \in loadSeq .. peerMax
      BY DEF PeerWalk, Phase, MarkerOK
    <2> QED
      BY <2>1, PhaseFacts
  <1>2. s \in 2 .. MaxSequence /\ s \in Nat
    BY <1>1
  <1>3. \A k \in Key : k \in deleted <=> ledgers[s][k] # ledgers[s - 1][k] /\ ledgers[s][k] = Absent
    BY <1>1, <1>2, DiffLemma
  <1> HIDE DEF deleted
  <1>4. /\ PeerDiff.objects = [k \in deleted \cap Live(loadSeq) |-> ledgers[loadSeq][k]]
        /\ PeerDiff.marker = IF s > loadSeq THEN DiffMarker(s - 1) ELSE End
    BY DEF PeerDiff, Objects, deleted
  <1>5. MarkerOK(PeerDiff.marker)
    <2>1. s > loadSeq => MarkerOK(DiffMarker(s - 1))
      BY <1>1 DEF MarkerOK, DiffMarker
    <2>2. MarkerOK(End)
      BY DEF MarkerOK, End
    <2> QED
      BY <1>4, <2>1, <2>2
  <1>6. ASSUME NEW k \in Live(loadSeq), k \notin Accounted, k \notin deleted
        PROVE  k \in Due(PeerDiff.marker)
    <2>1. Gone(k, s) /\ k \in Key
      BY <1>6 DEF PeerWalk, Due, Live
    <2>2. PICK d \in loadSeq + 1 .. s : ledgers[d - 1][k] # Absent /\ ledgers[d][k] = Absent
      BY <2>1 DEF Gone
    <2>3. d # s
      BY <1>3, <1>6, <2>1, <2>2
    <2>4. s > loadSeq /\ d \in loadSeq + 1 .. s - 1
      BY <1>1, <1>2, <2>2, <2>3
    <2>5. Gone(k, s - 1)
      BY <2>2, <2>4 DEF Gone
    <2>6. k \in Due(DiffMarker(s - 1))
      BY <2>5 DEF Due, DiffMarker
    <2> QED
      BY <1>4, <2>4, <2>6
  <1> QED
    BY <1>4, <1>5, <1>6

LEMMA PeerAnswersStep ==
    ASSUME IInv, PeerAnswers
    PROVE  IInv'
  <1> USE DEF IInv
  <1>1. /\ UNCHANGED <<ledgers, emptyStart, populated, cache, nextSequence, blocking, loadSeq, loader,
                       peersLeft, peerMax, request, segments, stopping>>
        /\ loader = "peer" /\ peerMax >= loadSeq
        /\ reply' = IF request.type = "diff" THEN PeerDiff ELSE PeerPage
    BY DEF PeerAnswers, database
  <1>2. PICK r : r = reply'
    OBVIOUS
  <1>3. /\ MarkerOK(r.marker)
        /\ DOMAIN r.objects \subseteq Live(loadSeq)
        /\ \A k \in DOMAIN r.objects : r.objects[k] = ledgers[loadSeq][k]
        /\ Live(loadSeq) \subseteq Accounted \cup DOMAIN r.objects \cup Due(r.marker)
    BY <1>1, <1>2, PageAnswer, DiffAnswer
  <1>4. /\ EntriesCurrent' /\ MissingKnown' /\ FullIsLive'
        /\ Accounted' = Accounted /\ Live(loadSeq)' = Live(loadSeq)
    BY <1>1, CacheKept
  <1>5. TypeOK'
    <2>1. DOMAIN reply'.objects \subseteq Key
      BY <1>2, <1>3, LedgerTypes
    <2> QED
      BY <1>1, <2>1 DEF TypeOK, MaxSequence, Running
  <1>6. Phase'
    BY <1>1, <1>4 DEF Phase, MaxSequence
  <1>7. \A m : Due(m)' = Due(m) /\ MarkerOK(m)' = MarkerOK(m)
    BY <1>1, <1>4 DEF Due, MarkerOK, Gone
  <1>8. PeerWalk'
    <2>1. Due(request)' = Due(request) /\ MarkerOK(request)' = MarkerOK(request)
      BY <1>1, <1>4 DEF Due, MarkerOK, Gone
    <2>2. MarkerOK(r.marker)' /\ Due(r.marker)' = Due(r.marker)
      BY <1>3, <1>7
    <2>3. MarkerOK(reply.marker)' /\ Due(reply.marker)' = Due(r.marker)
      BY <1>2, <2>2 DEF MarkerOK, Due
    <2> QED
      BY <1>1, <1>2, <1>3, <1>4, <2>1, <2>3 DEF PeerWalk
  <1>9. DbWalk'
    BY <1>1 DEF DbWalk
  <1> QED
    BY <1>4, <1>5, <1>6, <1>8, <1>9

LEMMA ApplyReplyStep ==
    ASSUME IInv, ApplyReply
    PROVE  IInv'
  <1> USE DEF IInv
  <1>1. /\ UNCHANGED <<ledgers, emptyStart, populated, nextSequence, blocking, loadSeq,
                       peersLeft, peerMax, segments, stopping>>
        /\ loader = "peer" /\ reply # NoReply /\ reply' = NoReply /\ request' = reply.marker
        /\ loader' = IF reply.marker = End THEN "loaded" ELSE "peer"
    BY DEF ApplyReply, database
  <1>2. /\ MarkerOK(reply.marker) /\ ~emptyStart /\ peersLeft > 0 /\ segments = << >>
        /\ DOMAIN reply.objects \subseteq Live(loadSeq)
        /\ \A k \in DOMAIN reply.objects : reply.objects[k] = ledgers[loadSeq][k]
        /\ Live(loadSeq) \subseteq Accounted \cup DOMAIN reply.objects \cup Due(reply.marker)
    BY <1>1 DEF PeerWalk
  <1>3. /\ loadSeq = 2 /\ MaxSequence \in Nat /\ MaxSequence >= 2 /\ cache \in Cache
        /\ ~cache.disabled /\ ~cache.full
    BY <1>1, PhaseFacts DEF Phase
  <1>4. Paged(cache, reply.objects, loadSeq, cache')
    <2>1. /\ DOMAIN reply.objects \subseteq Key
          /\ \A k \in DOMAIN reply.objects : reply.objects[k] \in Nat /\ reply.objects[k] # Absent
      BY <1>2, <1>3, LedgerTypes DEF Live
    <2>2. Paged(cache, reply.objects, loadSeq, Update(cache, reply.objects, loadSeq, TRUE))
      BY <1>3, <2>1, PageUpdate
    <2> QED
      BY <2>2, Zenon DEF ApplyReply
  <1>5. /\ cache' \in Cache /\ ~cache'.disabled /\ ~cache'.full
        /\ cache'.latestSeq = nextSequence - 1 /\ cache'.latestSeq # 0
        /\ Accounted' = Accounted \cup DOMAIN reply.objects
        /\ EntriesCurrent' /\ MissingKnown'
    BY <1>1, <1>2, <1>3, <1>4, PageApplied
  <1>6. /\ Live(loadSeq)' = Live(loadSeq)
        /\ \A m : Due(m)' = Due(m) /\ MarkerOK(m)' = MarkerOK(m)
    <2>1. Live(loadSeq)' = Live(loadSeq)
      BY <1>1 DEF Live
    <2> QED
      BY <1>1, <2>1 DEF Due, MarkerOK, Gone
  <1>7. PICK m : m = request'
    OBVIOUS
  <1>8. MarkerOK(m) /\ Live(loadSeq)' \subseteq Accounted' \cup Due(m)' /\ MarkerOK(m)'
    BY <1>1, <1>2, <1>5, <1>6, <1>7
  <1>9. TypeOK'
    <2>1. request'.type \in {"start", "key", "diff", "end"}
      BY <1>7, <1>8 DEF MarkerOK
    <2> QED
      BY <1>1, <1>5, <2>1 DEF TypeOK, MaxSequence, Running
  <1>10. Phase'
    <2>1. loader' = "loaded" => Live(loadSeq)' \subseteq Accounted'
      <3>1. Due(End)' = {}
        BY DEF Due, End
      <3>2. loader' = "loaded" => m = End
        BY <1>1, <1>7
      <3> QED
        BY <1>8, <3>1, <3>2
    <2> QED
      BY <1>1, <1>2, <1>5, <2>1 DEF Phase, MaxSequence
  <1>11. PeerWalk'
    <2>1. MarkerOK(request)' /\ Due(request)' = Due(m)'
      BY <1>7, <1>8 DEF MarkerOK, Due
    <2> QED
      BY <1>1, <1>2, <1>8, <2>1 DEF PeerWalk
  <1>12. DbWalk' /\ FullIsLive'
    BY <1>1, <1>5 DEF DbWalk, FullIsLive
  <1> QED
    BY <1>5, <1>9, <1>10, <1>11, <1>12

LEMMA PeerFailsStep ==
    ASSUME IInv, PeerFails
    PROVE  IInv'
  <1> USE DEF IInv
  <1>1. /\ UNCHANGED <<ledgers, emptyStart, populated, cache, nextSequence, blocking, loadSeq,
                       peerMax, segments, stopping>>
        /\ loader = "peer" /\ peersLeft' = peersLeft - 1 /\ reply' = NoReply /\ request' = Start
        /\ loader' = IF peersLeft' = 0 THEN "db" ELSE "peer"
    BY DEF PeerFails, database
  <1>2. ~emptyStart /\ peersLeft > 0 /\ segments = << >>
    BY <1>1 DEF PeerWalk
  <1>3. /\ EntriesCurrent' /\ MissingKnown' /\ FullIsLive'
        /\ Accounted' = Accounted /\ Live(loadSeq)' = Live(loadSeq)
    BY <1>1, CacheKept
  <1>4. peersLeft \in 0 .. NumPeers /\ peersLeft' \in 0 .. NumPeers /\ (peersLeft' # 0 => peersLeft' > 0)
    <2>1. peersLeft \in 0 .. NumPeers
      BY DEF TypeOK
    <2> QED
      BY <1>1, <1>2, <2>1, LoaderAssumption
  <1>5. TypeOK'
    BY <1>1, <1>4 DEF TypeOK, MaxSequence, Running, Start
  <1>6. Phase'
    BY <1>1, <1>3 DEF Phase, MaxSequence
  <1>7. PeerWalk'
    <2>1. MarkerOK(request)'
      BY <1>1 DEF MarkerOK, Start
    <2>2. Live(loadSeq)' \subseteq Due(request)'
      <3>1. \A k \in Live(loadSeq)' : k > 0
        BY <1>3, LedgerTypes
      <3> QED
        BY <1>1, <3>1 DEF Due, Start
    <2> QED
      BY <1>1, <1>2, <1>4, <2>1, <2>2 DEF PeerWalk
  <1>8. DbWalk'
    <2>1. DOMAIN segments' = {} /\ segments' = << >>
      BY <1>1, <1>2
    <2> QED
      BY <2>1 DEF DbWalk
  <1> QED
    BY <1>3, <1>5, <1>6, <1>7, <1>8

(* The pieces cover the key space.                                          *)
LEMMA CutLemma ==
    /\ Segment # {} /\ IsFiniteSet(Segment)
    /\ \A g \in Segment : g.start \in Key \cup {NoKey} /\ g.end \in Key \cup {NoKey}
    /\ \A k \in Key : \E g \in Segment : Within(g, k)
  <1> DEFINE C == Cursors
             S == C \cup {NoKey}
             After(c) == {d \in C : d > c}
             f == [c \in S |-> [start |-> c, end |-> First(After(c))]]
  <1>1. C \in SUBSET Key
    BY DEF Cursors
  <1>2. \A k \in Key : k \in Nat /\ k > 0
    BY KeyAssumption
  <1>3. Segment = {[start |-> c, end |-> First(After(c))] : c \in S}
    BY DEF Segment
  <1> HIDE DEF C
  <1>4. \A c \in S : First(After(c)) \in Key \cup {NoKey}
    <2> SUFFICES ASSUME NEW c \in S PROVE First(After(c)) \in Key \cup {NoKey}
      OBVIOUS
    <2>1. After(c) \in SUBSET Key
      BY <1>1
    <2> HIDE DEF After
    <2>2. CASE After(c) = {}
      BY <2>2 DEF First
    <2>3. CASE After(c) # {}
      BY <2>1, <2>3, FirstLemma
    <2> QED
      BY <2>2, <2>3
  <1>5. IsFiniteSet(S)
    <2>1. IsFiniteSet(C)
      BY <1>1, KeyAssumption, FS_Subset
    <2> QED
      BY <2>1, FS_AddElement
  <1>6. IsFiniteSet(Segment)
    <2>1. f \in Surjection(S, Segment)
      BY <1>3 DEF Surjection
    <2> HIDE DEF f, S
    <2> QED
      BY <1>5, <2>1, FS_Surjection
  <1>7. Segment # {}
    BY <1>3
  <1>8. ASSUME NEW g \in Segment PROVE g.start \in Key \cup {NoKey} /\ g.end \in Key \cup {NoKey}
    <2>1. PICK c \in S : g = [start |-> c, end |-> First(After(c))]
      BY <1>3
    <2> HIDE DEF After
    <2>2. g.start = c /\ g.end = First(After(c))
      BY <2>1
    <2>3. c \in Key \cup {NoKey} /\ First(After(c)) \in Key \cup {NoKey}
      BY <1>1, <1>4
    <2> QED
      BY <2>2, <2>3
  <1>9. ASSUME NEW k \in Key PROVE \E g \in Segment : Within(g, k)
    <2> DEFINE B == {c \in S : c < k}
    <2>1. B \in SUBSET Nat /\ B \in SUBSET S /\ B # {}
      BY <1>1, <1>2
    <2>2. IsFiniteSet(B)
      BY <1>5, <2>1, FS_Subset
    <2>3. PICK c \in B : \A b \in B : b <= c
      BY <2>1, <2>2, GreatestLemma
    <2>4. c \in S /\ c < k /\ c \in Nat /\ After(c) \in SUBSET Key
      BY <1>1, <2>1, <2>3
    <2>5. PICK g : g = [start |-> c, end |-> First(After(c))]
      OBVIOUS
    <2>6. g \in Segment /\ g.start = c /\ g.end = First(After(c))
      BY <1>3, <2>4, <2>5
    <2>7. CASE After(c) = {}
      <3>1. First(After(c)) = NoKey
        BY <2>7 DEF First
      <3> QED
        BY <2>4, <2>6, <3>1 DEF Within
    <2>8. CASE After(c) # {}
      <3>1. First(After(c)) \in After(c)
        BY <2>4, <2>8, FirstLemma
      <3>2. PICK e : e = First(After(c))
        OBVIOUS
      <3>3. e \in C /\ e > c /\ e \in Nat
        BY <1>1, <1>2, <3>1, <3>2
      <3>4. ~(e < k)
        BY <2>3, <2>4, <3>3
      <3>5. k <= e
        BY <1>2, <3>3, <3>4
      <3> QED
        BY <2>4, <2>6, <3>2, <3>5 DEF Within
    <2> QED
      BY <2>7, <2>8
  <1> QED
    BY <1>6, <1>7, <1>8, <1>9

LEMMA RunningFinite ==
    ASSUME IInv
    PROVE  IsFiniteSet(Running) /\ Cardinality(Running) \in Nat /\ Cardinality(Running) <= NumCacheMarkers
  <1>1. Running \in SUBSET DOMAIN segments
    BY DEF Running
  <1>2. IsFiniteSet(DOMAIN segments) /\ Cardinality(Running) <= NumCacheMarkers
    BY DEF IInv, Phase, TypeOK
  <1> QED
    BY <1>1, <1>2, FS_Subset, FS_CardinalityType

LEMMA SplitStep ==
    ASSUME IInv, SplitKeySpace
    PROVE  IInv'
  <1> USE DEF IInv
  <1>1. /\ UNCHANGED <<ledgers, emptyStart, populated, cache, nextSequence, blocking, loadSeq, loader,
                       peersLeft, peerMax, request, reply, stopping>>
        /\ loader = "db" /\ DOMAIN segments' = Segment
        /\ \A g \in Segment : segments'[g] = [state |-> "waiting", cursor |-> g.start]
    BY DEF SplitKeySpace, database, peer
  <1>2. /\ EntriesCurrent' /\ MissingKnown' /\ FullIsLive'
        /\ Accounted' = Accounted /\ Live(loadSeq)' = Live(loadSeq)
    BY <1>1, CacheKept
  <1>3. TypeOK'
    <2>1. \A g \in DOMAIN segments' :
            /\ g.start \in Key \cup {NoKey} /\ g.end \in Key \cup {NoKey}
            /\ segments'[g] \in [state : {"waiting", "running", "done"}, cursor : Key \cup {NoKey}]
      BY <1>1, CutLemma
    <2>2. Running' = {}
      BY <1>1 DEF Running
    <2>3. Cardinality(Running') <= NumCacheMarkers
      BY <2>2, FS_EmptySet, LoaderAssumption
    <2> QED
      BY <1>1, <2>1, <2>3 DEF TypeOK, MaxSequence
  <1>4. Phase'
    BY <1>1, <1>2, CutLemma DEF Phase, MaxSequence
  <1>5. PeerWalk'
    BY <1>1 DEF PeerWalk
  <1>6. DbWalk'
    <2>1. \A g \in Segment : Walked(g)' = {}
      <3> SUFFICES ASSUME NEW g \in Segment, NEW k \in Live(loadSeq), g.start < k, k <= g.start
                   PROVE  FALSE
        BY <1>1, <1>2 DEF Walked
      <3>1. k \in Nat /\ g.start \in Nat
        BY CutLemma, LedgerTypes
      <3> QED
        BY <3>1
    <2>2. \A g \in Segment : segments'[g].state # "done"
      BY <1>1
    <2> QED
      BY <1>1, <2>1, <2>2, CutLemma DEF DbWalk, Within
  <1> QED
    BY <1>2, <1>3, <1>4, <1>5, <1>6

LEMMA StartStep ==
    ASSUME IInv, NEW g \in DOMAIN segments, StartSegment(g) \/ AbandonSegment(g)
    PROVE  IInv'
  <1> USE DEF IInv
  <1>1. /\ UNCHANGED <<ledgers, emptyStart, populated, cache, nextSequence, blocking, loadSeq, loader,
                       peersLeft, peerMax, request, reply, stopping>>
        /\ loader = "db" /\ segments[g].state \in {"waiting", "running"}
        /\ \/ segments[g].state = "waiting" /\ Cardinality(Running) # NumCacheMarkers
              /\ segments' = [segments EXCEPT ![g].state = "running"]
           \/ stopping /\ segments' = [segments EXCEPT ![g].state = "done"]
    BY DEF StartSegment, AbandonSegment, database, peer, Running
  <1>2. /\ EntriesCurrent' /\ MissingKnown' /\ FullIsLive'
        /\ Accounted' = Accounted /\ Live(loadSeq)' = Live(loadSeq)
    BY <1>1, CacheKept
  <1>3. /\ \A h \in DOMAIN segments : segments[h] \in [state : {"waiting", "running", "done"}, cursor : Key \cup {NoKey}]
        /\ DOMAIN segments' = DOMAIN segments
    BY <1>1 DEF TypeOK
  <1>4. /\ \A h \in DOMAIN segments : h # g => segments'[h] = segments[h]
        /\ segments'[g].cursor = segments[g].cursor
        /\ segments'[g].state \in {"running", "done"} /\ (~stopping => segments'[g].state = "running")
        /\ segments'[g] \in [state : {"waiting", "running", "done"}, cursor : Key \cup {NoKey}]
    BY <1>1, <1>3
  <1>5. Cardinality(Running') <= NumCacheMarkers
    <2>1. CASE /\ segments[g].state = "waiting" /\ Cardinality(Running) # NumCacheMarkers
               /\ segments' = [segments EXCEPT ![g].state = "running"]
      <3>1. Running' = Running \cup {g} /\ g \notin Running
        BY <1>3, <1>4, <2>1 DEF Running
      <3>2. Cardinality(Running') = Cardinality(Running) + 1
        BY <3>1, RunningFinite, FS_AddElement
      <3> QED
        BY <2>1, <3>2, RunningFinite, LoaderAssumption
    <2>2. CASE segments' = [segments EXCEPT ![g].state = "done"]
      <3>1. Running' \in SUBSET Running
        BY <1>3, <1>4, <2>2 DEF Running
      <3>2. Cardinality(Running') <= Cardinality(Running) /\ Cardinality(Running') \in Nat
        BY <3>1, RunningFinite, FS_Subset, FS_CardinalityType
      <3> QED
        BY <3>2, RunningFinite, LoaderAssumption
    <2> QED
      BY <1>1, <2>1, <2>2
  <1>6. TypeOK'
    <2>1. \A h \in DOMAIN segments' :
            /\ h.start \in Key \cup {NoKey} /\ h.end \in Key \cup {NoKey}
            /\ segments'[h] \in [state : {"waiting", "running", "done"}, cursor : Key \cup {NoKey}]
      BY <1>3, <1>4 DEF TypeOK
    <2> QED
      BY <1>1, <1>5, <2>1 DEF TypeOK, MaxSequence
  <1>7. Phase'
    BY <1>1, <1>2, <1>3 DEF Phase, MaxSequence
  <1>8. PeerWalk'
    BY <1>1 DEF PeerWalk
  <1>9. DbWalk'
    <2>1. segments # << >>
      OBVIOUS
    <2>2. ~stopping => \A h \in DOMAIN segments : Walked(h)' = Walked(h)
      BY <1>1, <1>2, <1>4 DEF Walked, Within
    <2>3. ~stopping => \A h \in DOMAIN segments : segments'[h].state = "done" => segments[h].state = "done"
      BY <1>4
    <2> QED
      BY <1>1, <1>2, <1>3, <2>1, <2>2, <2>3 DEF DbWalk, Within
  <1> QED
    BY <1>2, <1>6, <1>7, <1>8, <1>9

LEMMA LoadStep ==
    ASSUME IInv, NEW g \in DOMAIN segments, LoadPage(g)
    PROVE  IInv'
  <1> USE DEF IInv
  <1> DEFINE c == segments[g].cursor
  <1>1. PICK P : P = PageKeys(Live(loadSeq), c, PageSize)
    OBVIOUS
  <1>2. PICK atEnd \in BOOLEAN : atEnd <=> (Cardinality(P) < PageSize \/ (g.end # NoKey /\ Last(P) > g.end))
    OBVIOUS
  <1>3. /\ UNCHANGED <<ledgers, emptyStart, populated, nextSequence, blocking, loadSeq, loader,
                       peersLeft, peerMax, request, reply, stopping>>
        /\ loader = "db" /\ segments[g].state = "running" /\ ~stopping
        /\ segments' = [segments EXCEPT ![g] = IF atEnd THEN [@ EXCEPT !.state = "done"]
                                               ELSE [@ EXCEPT !.cursor = Last(P)]]
    BY <1>1, <1>2 DEF LoadPage, database, peer, Running
  <1>4. /\ loadSeq = 2 /\ MaxSequence \in Nat /\ MaxSequence >= 2 /\ cache \in Cache
        /\ ~cache.disabled /\ ~cache.full
    BY <1>3, PhaseFacts DEF Phase
  <1>5. /\ \A h \in DOMAIN segments :
             /\ h.start \in Key \cup {NoKey} /\ h.end \in Key \cup {NoKey}
             /\ segments[h] \in [state : {"waiting", "running", "done"}, cursor : Key \cup {NoKey}]
        /\ DOMAIN segments' = DOMAIN segments
    BY <1>3 DEF TypeOK
  <1>6. c \in Nat /\ g.start \in Nat /\ g.end \in Nat
    <2>1. \A k \in Key \cup {NoKey} : k \in Nat
      BY KeyAssumption
    <2>2. c \in Key \cup {NoKey}
      BY <1>5
    <2> QED
      BY <1>5, <2>1, <2>2
  <1>7. /\ P \in SUBSET Live(loadSeq)
        /\ Cardinality(P) < PageSize => \A k \in Live(loadSeq) : k > c => k \in P
        /\ \/ Cardinality(P) < PageSize
           \/ /\ Last(P) \in P
              /\ \A k \in Live(loadSeq) : (k > c /\ k <= Last(P)) => k \in P
        /\ Last(P) \in Key \cup {NoKey} /\ Last(P) \in Nat
    <2>1. Live(loadSeq) \in SUBSET Key
      BY LedgerTypes
    <2> QED
      BY <1>1, <1>6, <2>1, PageLemma
  <1>8. PICK objs : objs = Objects(P, loadSeq)
    OBVIOUS
  <1>9. /\ DOMAIN objs = P
        /\ \A k \in DOMAIN objs : objs[k] = ledgers[loadSeq][k]
    BY <1>7, <1>8 DEF Objects
  <1>10. Paged(cache, objs, loadSeq, cache')
    <2>1. /\ DOMAIN objs \subseteq Key
          /\ \A k \in DOMAIN objs : objs[k] \in Nat /\ objs[k] # Absent
      BY <1>4, <1>7, <1>9, LedgerTypes DEF Live
    <2>2. Paged(cache, objs, loadSeq, Update(cache, objs, loadSeq, TRUE))
      BY <1>4, <2>1, PageUpdate
    <2>3. cache' = Update(cache, objs, loadSeq, TRUE)
      BY <1>1, <1>8, Zenon DEF LoadPage
    <2> QED
      BY <2>2, <2>3, Zenon
  <1>11. /\ cache' \in Cache /\ ~cache'.disabled /\ ~cache'.full
         /\ cache'.latestSeq = nextSequence - 1 /\ cache'.latestSeq # 0
         /\ Accounted' = Accounted \cup P
         /\ EntriesCurrent' /\ MissingKnown'
    <2>1. DOMAIN objs \subseteq Live(loadSeq) /\ UNCHANGED <<ledgers, populated, nextSequence, loadSeq>>
      BY <1>3, <1>7, <1>9
    <2> QED
      BY <1>4, <1>9, <1>10, <2>1, PageApplied
  <1>12. /\ \A h \in DOMAIN segments : h # g => segments'[h] = segments[h]
         /\ atEnd => segments'[g] = [state |-> "done", cursor |-> c]
         /\ ~atEnd => segments'[g] = [state |-> "running", cursor |-> Last(P)]
    BY <1>3, <1>5
  <1>13. TypeOK'
    <2>1. \A h \in DOMAIN segments' :
            /\ h.start \in Key \cup {NoKey} /\ h.end \in Key \cup {NoKey}
            /\ segments'[h] \in [state : {"waiting", "running", "done"}, cursor : Key \cup {NoKey}]
      BY <1>5, <1>7, <1>12
    <2>2. Running' \in SUBSET Running
      BY <1>3, <1>5, <1>12 DEF Running
    <2>3. Cardinality(Running') <= Cardinality(Running) /\ Cardinality(Running') \in Nat
      BY <2>2, RunningFinite, FS_Subset, FS_CardinalityType
    <2>4. Cardinality(Running') <= NumCacheMarkers
      BY <2>3, RunningFinite, LoaderAssumption
    <2> QED
      BY <1>3, <1>11, <2>1, <2>4 DEF TypeOK, MaxSequence
  <1>14. Phase'
    BY <1>3, <1>5, <1>11 DEF Phase, MaxSequence
  <1>15. PeerWalk' /\ FullIsLive'
    BY <1>3, <1>11 DEF PeerWalk, FullIsLive
  <1>16. Live(loadSeq)' = Live(loadSeq)
    BY <1>3 DEF Live
  <1>17. ASSUME ~emptyStart, NEW h \in DOMAIN segments, NEW k \in Walked(h)' PROVE k \in Accounted'
    <2>1. Walked(h) \subseteq Accounted /\ Walked(g) \subseteq Accounted
      BY <1>3, <1>17 DEF DbWalk
    <2>2. k \in Live(loadSeq) /\ k \in Nat
      BY <1>16, <1>17, LedgerTypes DEF Walked
    <2>3. CASE h # g
      <3>1. k \in Walked(h)
        BY <1>12, <1>16, <1>17, <2>3 DEF Walked, Within
      <3> QED
        BY <1>11, <2>1, <3>1
    <2>4. CASE h = g
      <3>1. CASE k <= c
        <4>1. g.start < k
          BY <1>17, <2>4 DEF Walked, Within
        <4>2. k \in Walked(g)
          BY <1>3, <2>2, <3>1, <4>1 DEF Walked
        <4> QED
          BY <1>11, <2>1, <4>2
      <3>2. CASE k > c
        <4>1. k \in P
          <5>1. CASE atEnd
            <6>1. g.end = NoKey \/ k <= g.end
              BY <1>12, <1>17, <2>4, <5>1 DEF Walked, Within
            <6> QED
              BY <1>2, <1>6, <1>7, <2>2, <3>2, <5>1, <6>1
          <5>2. CASE ~atEnd
            <6>1. k <= Last(P)
              BY <1>12, <1>17, <2>4, <5>2 DEF Walked
            <6> QED
              BY <1>2, <1>7, <2>2, <3>2, <5>2, <6>1
          <5> QED
            BY <1>2, <5>1, <5>2
        <4> QED
          BY <1>11, <4>1
      <3> QED
        BY <1>6, <2>2, <3>1, <3>2
    <2> QED
      BY <2>3, <2>4
  <1>18. DbWalk'
    <2>1. segments # << >>
      OBVIOUS
    <2>2. \A h \in DOMAIN segments : ~emptyStart => Walked(h)' \subseteq Accounted'
      BY <1>17
    <2> QED
      BY <1>3, <1>5, <1>11, <2>1, <2>2 DEF DbWalk, Within
  <1> QED
    BY <1>11, <1>13, <1>14, <1>15, <1>18

LEMMA FinishStep ==
    ASSUME IInv, FinishLoad
    PROVE  IInv'
  <1> USE DEF IInv
  <1>1. /\ UNCHANGED <<ledgers, emptyStart, populated, nextSequence, blocking, loadSeq,
                       peersLeft, peerMax, request, reply, segments, stopping>>
        /\ cache' = SetFull(cache) /\ loader' = "done"
        /\ \/ loader = "loaded"
           \/ /\ loader = "db" /\ segments # << >>
              /\ \A g \in DOMAIN segments : segments[g].state = "done"
    BY DEF FinishLoad, database, peer
  <1>2. /\ loadSeq = 2 /\ MaxSequence \in Nat /\ MaxSequence >= 2 /\ cache \in Cache
        /\ nextSequence \in Nat /\ nextSequence \in 3 .. MaxSequence + 1
        /\ cache.latestSeq \in Nat /\ ~cache.disabled /\ ~cache.full
    BY <1>1, PhaseFacts DEF Phase
  <1>3. /\ cache' \in Cache /\ cache'.full /\ ~cache'.disabled
        /\ cache'.map = cache.map /\ cache'.latestSeq = cache.latestSeq
    BY <1>1, <1>2 DEF SetFull, Cache
  <1>4. Held(cache') = Held(cache)
    BY <1>3 DEF Held
  <1>5. TypeOK'
    BY <1>1, <1>3 DEF TypeOK, MaxSequence, Running
  <1>6. Phase'
    BY <1>1, <1>2, <1>3 DEF Phase, MaxSequence
  <1>7. EntriesCurrent'
    BY <1>1, <1>3, <1>4 DEF EntriesCurrent
  <1>8. MissingKnown' /\ PeerWalk' /\ DbWalk'
    BY <1>1, <1>3 DEF MissingKnown, PeerWalk, DbWalk
  <1>9. FullIsLive'
    <2> SUFFICES ASSUME ~emptyStart, ~stopping
        PROVE  cache.latestSeq # 0 /\ Held(cache) = Live(cache.latestSeq)
      <3>1. Live(cache.latestSeq)' = Live(cache.latestSeq)
        BY <1>1, <1>3 DEF Live
      <3> QED
        BY <1>1, <1>3, <1>4, <3>1 DEF FullIsLive
    <2>1. cache.latestSeq # 0 /\ Live(loadSeq) \subseteq Accounted
      <3>1. CASE loader = "loaded"
        BY <3>1 DEF Phase
      <3>2. CASE loader = "db" /\ segments # << >> /\ \A g \in DOMAIN segments : segments[g].state = "done"
        <4>1. cache.latestSeq # 0
          BY <3>2 DEF DbWalk
        <4>2. ASSUME NEW k \in Live(loadSeq) PROVE k \in Accounted
          <5>1. PICK g \in DOMAIN segments : Within(g, k)
            BY <3>2, <4>2 DEF DbWalk, Live
          <5>2. k \in Walked(g)
            BY <3>2, <4>2, <5>1 DEF Walked
          <5> QED
            BY <3>2, <5>2 DEF DbWalk
        <4> QED
          BY <4>1, <4>2
      <3> QED
        BY <1>1, <3>1, <3>2
    <2>2. cache.latestSeq = nextSequence - 1 /\ populated
      BY <2>1 DEF Phase
    <2>3. PICK n : n = cache.latestSeq
      OBVIOUS
    <2>4. n \in Nat /\ n = nextSequence - 1 /\ n \in 2 .. n
      BY <1>2, <2>2, <2>3
    <2>5. ASSUME NEW k \in Held(cache) PROVE k \in Live(n)
      <3>1. /\ cache.map[k].seq \in 2 .. n /\ cache.map[k].blob # Absent
            /\ \A s \in cache.map[k].seq .. n : ledgers[s][k] = cache.map[k].blob
        BY <1>2, <2>3 DEF EntriesCurrent
      <3>2. n \in cache.map[k].seq .. n
        BY <2>4, <3>1
      <3> QED
        BY <2>2, <3>1, <3>2 DEF Live, Held
    <2>6. ASSUME NEW k \in Live(n), k \notin Held(cache) PROVE FALSE
      <3>1. k \in Key /\ ledgers[n][k] # Absent
        BY DEF Live
      <3>2. k \notin cache.deletes /\ ledgers[n][k] = ledgers[2][k]
        BY <1>2, <2>4, <2>6, <3>1 DEF MissingKnown
      <3>3. k \in Live(loadSeq)
        BY <1>2, <2>2, <3>1, <3>2 DEF Live
      <3> QED
        BY <2>1, <2>6, <3>2, <3>3 DEF Accounted
    <2> QED
      BY <2>1, <2>3, <2>5, <2>6
  <1> QED
    BY <1>3, <1>5, <1>6, <1>7, <1>8, <1>9

-----------------------------------------------------------------------------
(* The invariant.                                                           *)

LEMMA InitInv ==
    Init => IInv
  <1> SUFFICES ASSUME Init PROVE IInv
    OBVIOUS
  <1>1. PICK s \in [Key -> {Absent, 1}] : ledgers \in {<<s, t>> : t \in Successors(s, 2)}
    BY DEF Init
  <1>2. PICK t \in Successors(s, 2) : ledgers = <<s, t>>
    BY <1>1
  <1>3. s \in [Key -> Nat] /\ t \in [Key -> Nat]
    BY <1>1, <1>2 DEF Successors
  <1>4. ledgers \in Seq([Key -> Nat]) /\ MaxSequence = 2
    BY <1>2, <1>3 DEF MaxSequence
  <1>5. /\ loadSeq = 2 /\ nextSequence = 3 /\ peersLeft \in 0 .. NumPeers
        /\ request = Start /\ reply = NoReply /\ segments = << >> /\ stopping = FALSE
        /\ peerMax \in 0 .. 2
        /\ (emptyStart => peersLeft = 0) /\ (~emptyStart => populated)
        /\ emptyStart \in BOOLEAN /\ populated \in BOOLEAN
    <2>1. /\ loadSeq = 2 /\ nextSequence = 3 /\ peersLeft \in 0 .. NumPeers
          /\ request = Start /\ reply = NoReply /\ segments = << >> /\ stopping = FALSE
      BY DEF Init
    <2>2. peerMax \in IF peersLeft = 0 THEN {loadSeq} ELSE {loadSeq - 1, loadSeq}
      BY DEF Init
    <2>3. peerMax \in 0 .. 2
      BY <2>1, <2>2
    <2>4. emptyStart \in {FALSE, peersLeft = 0} /\ populated = ~emptyStart
      BY Zenon DEF Init
    <2>5. (emptyStart => peersLeft = 0) /\ (~emptyStart => populated) /\ emptyStart \in BOOLEAN
      BY <2>4, Zenon
    <2>6. populated \in BOOLEAN
      BY <2>4, Zenon
    <2> QED
      BY <2>1, <2>3, <2>5, <2>6
  <1>6. PICK style \in {"SYNC", "ASYNC", "NOT_AT_ALL"} :
          /\ cache = IF style = "NOT_AT_ALL" THEN SetDisabled(EmptyCache) ELSE EmptyCache
          /\ loader = IF style = "NOT_AT_ALL" THEN "done"
                      ELSE IF peersLeft > 0 THEN "peer" ELSE "db"
          /\ blocking = (style = "SYNC" /\ peersLeft = 0)
    BY DEF Init
  <1>7. /\ cache \in Cache /\ Held(cache) = {} /\ cache.latestSeq = 0 /\ ~cache.full /\ cache.deletes = {}
        /\ cache.disabled => loader = "done"
    BY <1>6 DEF Cache, EmptyCache, SetDisabled, Entry, NoEntry, Held
  <1>8. /\ loader \in {"peer", "db", "done"} /\ blocking \in BOOLEAN
        /\ emptyStart \in BOOLEAN /\ populated \in BOOLEAN
        /\ loader = "peer" => peersLeft > 0
    BY <1>5, <1>6
  <1>9. DOMAIN segments = {} /\ Running = {} /\ IsFiniteSet(DOMAIN segments) /\ Cardinality(Running) = 0
    BY <1>5, FS_EmptySet DEF Running
  <1>10. TypeOK
    <2>1. request.type = "start"
      BY <1>5 DEF Start
    <2>2. peerMax \in 0 .. MaxSequence /\ Cardinality(Running) <= NumCacheMarkers
      BY <1>4, <1>5, <1>9, LoaderAssumption
    <2> QED
      BY <1>4, <1>5, <1>7, <1>8, <1>9, <2>1, <2>2 DEF TypeOK
  <1>11. Phase
    BY <1>4, <1>5, <1>7, <1>8, <1>9 DEF Phase
  <1>12. EntriesCurrent /\ FullIsLive
    BY <1>7 DEF EntriesCurrent, FullIsLive
  <1>13. MissingKnown
    <2>1. \A q \in loadSeq .. nextSequence - 1 : q = loadSeq
      BY <1>5
    <2> QED
      BY <1>7, <2>1 DEF MissingKnown
  <1>14. PeerWalk
    <2> SUFFICES ASSUME loader = "peer" PROVE PeerWalk
      BY DEF PeerWalk
    <2>1. peersLeft > 0 /\ ~emptyStart
      BY <1>5, <1>8
    <2>2. MarkerOK(request)
      BY <1>5 DEF MarkerOK, Start
    <2>3. Live(loadSeq) \subseteq Due(request)
      <3>1. \A k \in Live(loadSeq) : k > 0
        BY <1>10, LedgerTypes
      <3> QED
        BY <1>5, <3>1 DEF Due, Start
    <2> QED
      BY <1>5, <2>1, <2>2, <2>3 DEF PeerWalk
  <1>15. DbWalk
    BY <1>5, <1>9 DEF DbWalk
  <1> QED
    BY <1>10, <1>11, <1>12, <1>13, <1>14, <1>15 DEF IInv

LEMMA StepInv ==
    IInv /\ [Next]_vars => IInv'
  <1> SUFFICES ASSUME IInv, [Next]_vars PROVE IInv'
    OBVIOUS
  <1>1. ASSUME NEW g \in DOMAIN segments, StartSegment(g) \/ LoadPage(g) \/ AbandonSegment(g)
        PROVE  IInv'
    BY <1>1, StartStep, LoadStep
  <1> QED
    BY <1>1, NewLedgerStep, QuietStep, LiveStep, PeerAdvancesStep, PeerAnswersStep, ApplyReplyStep,
       PeerFailsStep, SplitStep, FinishStep DEF Next

(* Everything the cache holds is still so, everything it lacks is known to  *)
(* be gone or still to come, and the loaders leave nothing out.             *)
THEOREM InductiveCache == Spec => []IInv
  BY InitInv, StepInv, PTL DEF Spec

(* Every hit of the cache, for the latest ledger or for an older one, is    *)
(* what that ledger holds, and the neighbours that a full cache gives are   *)
(* those of its latest ledger, whichever way it was loaded and whatever was *)
(* committed, deleted or failed meanwhile (SimpleCache.cpp:50,              *)
(* ReportingETL.cpp:1071).                                                  *)
THEOREM CacheAnswersLedger == Spec => []CacheIsLedger
  <1>1. ASSUME IInv PROVE CacheIsLedger
    <2> USE <1>1 DEF IInv
    <2>1. HitsAreCorrect
      <3> SUFFICES ASSUME NEW k \in Key, NEW s \in 1 .. cache.latestSeq
                   PROVE  Get(cache, k, s) \in {Absent, ledgers[s][k]}
        BY DEF HitsAreCorrect
      <3>1. CASE k \notin Held(cache)
        <4>1. cache.map[k].blob = Absent
          BY <3>1 DEF Held, NoEntry
        <4> QED
          BY <4>1 DEF Get
      <3>2. CASE k \in Held(cache)
        <4>1. /\ cache.map[k].seq \in 2 .. cache.latestSeq
              /\ \A r \in cache.map[k].seq .. cache.latestSeq : ledgers[r][k] = cache.map[k].blob
          BY <3>2, PhaseFacts DEF EntriesCurrent
        <4>2. s < cache.map[k].seq \/ s \in cache.map[k].seq .. cache.latestSeq
          BY <4>1, PhaseFacts
        <4> QED
          BY <4>1, <4>2 DEF Get
      <3> QED
        BY <3>1, <3>2
    <2>2. FullIsComplete
      <3> SUFFICES ASSUME cache.full, ~emptyStart, ~stopping PROVE NeighboursAre(cache.latestSeq)
        BY DEF FullIsComplete
      <3>1. Held(cache) = Live(cache.latestSeq)
        BY DEF FullIsLive
      <3> QED
        BY <3>1 DEF NeighboursAre, GetSuccessor, GetPredecessor
    <2> QED
      BY <2>1, <2>2 DEF CacheIsLedger
  <1> QED
    BY <1>1, InductiveCache, PTL

=============================================================================
