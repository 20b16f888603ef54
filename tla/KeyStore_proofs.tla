---------------------------- MODULE KeyStore_proofs ----------------------------
(***************************************************************************)
(* Proofs about key rings and the key store, for any number of keys and of *)
(* processes and any retentions the processes choose.                      *)
(***************************************************************************)
EXTENDS KeyStore, FiniteSetTheorems, TLAPS

\* Counters of the stored keys of a ring are pairwise different.
Distinct(r) == \A j, k \in Entries(r) : r.rotation[j] = r.rotation[k] => j = k

\* A set grows or shrinks by at most one with an element.
LEMMA OneElement ==
  ASSUME NEW S, IsFiniteSet(S), NEW x
  PROVE  /\ Cardinality(S) \in Nat
         /\ Cardinality(S \cup {x}) \in Nat
         /\ Cardinality(S \cup {x}) <= Cardinality(S) + 1
         /\ IsFiniteSet(S \ {x})
         /\ Cardinality(S \ {x}) \in Nat
         /\ Cardinality(S \ {x}) >= Cardinality(S) - 1
<1>1. Cardinality(S) \in Nat
  BY FS_CardinalityType
<1>2. /\ IsFiniteSet(S \cup {x})
      /\ Cardinality(S \cup {x}) = IF x \in S THEN Cardinality(S) ELSE Cardinality(S) + 1
  BY FS_AddElement
<1>3. /\ IsFiniteSet(S \ {x})
      /\ Cardinality(S \ {x}) = IF x \in S THEN Cardinality(S) - 1 ELSE Cardinality(S)
  BY FS_RemoveElement
<1>4. Cardinality(S \cup {x}) \in Nat /\ Cardinality(S \ {x}) \in Nat
  BY <1>2, <1>3, FS_CardinalityType
<1> QED
  BY <1>1, <1>2, <1>3, <1>4

-----------------------------------------------------------------------------
(* Eviction.  A candidate's rank is the number of older candidates; ranks   *)
(* are pairwise different, so that counting ranks counts keys.              *)

Rank(r, k) == Cardinality(Older(r, k))
Excess(r)  == Cardinality(Entries(r)) - r.max

LEMMA RankFacts ==
  ASSUME NEW r \in Rings, Distinct(r), NEW k \in Candidates(r)
  PROVE  /\ IsFiniteSet(Older(r, k))
         /\ Rank(r, k) \in Nat
         /\ Rank(r, k) < Cardinality(Candidates(r))
         /\ \A j \in Candidates(r) :
              /\ r.rotation[j] < r.rotation[k] => Rank(r, j) < Rank(r, k)
              /\ Rank(r, j) = Rank(r, k) => j = k
<1>0. IsFiniteSet(Candidates(r)) /\ Candidates(r) \subseteq Keys
  BY KeyRingAssumption, FS_Subset DEF KeyRingAssumption, Candidates, Entries
<1>1. \A j \in Candidates(r) : IsFiniteSet(Older(r, j)) /\ Rank(r, j) \in Nat
  BY <1>0, FS_Subset, FS_CardinalityType DEF Older, Rank
<1>2. r.rotation \in [Keys -> Nat]
  BY DEF Rings
<1>3. ASSUME NEW i \in Candidates(r), NEW j \in Candidates(r), r.rotation[j] < r.rotation[i]
      PROVE  Rank(r, j) < Rank(r, i)
  <2>1. Older(r, j) \cup {j} \subseteq Older(r, i)
    <3>1. \A l \in Candidates(r) : r.rotation[l] < r.rotation[j] => r.rotation[l] < r.rotation[i]
      BY <1>0, <1>2, <1>3
    <3> QED
      BY <1>3, <3>1 DEF Older
  <2>2. j \notin Older(r, j)
    BY <1>0, <1>2 DEF Older
  <2>3. Cardinality(Older(r, j) \cup {j}) = Rank(r, j) + 1
    BY <1>1, <2>2, FS_AddElement DEF Rank
  <2>4. Cardinality(Older(r, j) \cup {j}) <= Rank(r, i)
    BY <1>1, <2>1, FS_Subset DEF Rank
  <2> QED
    BY <1>1, <2>3, <2>4
<1>4. \A j \in Candidates(r) : Rank(r, j) = Rank(r, k) => j = k
  <2> SUFFICES ASSUME NEW j \in Candidates(r), Rank(r, j) = Rank(r, k), j # k PROVE FALSE
    OBVIOUS
  <2>1. r.rotation[j] # r.rotation[k]
    BY DEF Distinct, Candidates
  <2>2. r.rotation[j] < r.rotation[k] \/ r.rotation[k] < r.rotation[j]
    BY <1>0, <1>2, <2>1
  <2> QED
    BY <1>1, <1>3, <2>2
<1>5. Rank(r, k) < Cardinality(Candidates(r))
  <2>1. Older(r, k) \subseteq Candidates(r) \ {k}
    BY <1>0, <1>2 DEF Older
  <2>2. /\ IsFiniteSet(Candidates(r) \ {k})
        /\ Cardinality(Candidates(r) \ {k}) = Cardinality(Candidates(r)) - 1
    BY <1>0, FS_RemoveElement
  <2>3. Rank(r, k) <= Cardinality(Candidates(r) \ {k})
    BY <2>1, <2>2, FS_Subset DEF Rank
  <2>4. Cardinality(Candidates(r)) \in Nat
    BY <1>0, FS_CardinalityType
  <2> QED
    BY <1>1, <2>2, <2>3, <2>4
<1> QED
  BY <1>1, <1>3, <1>4, <1>5

\* Candidates whose ranks lie in a .. b - 1 are at most b - a.
LEMMA CountByRank ==
  ASSUME NEW r \in Rings, Distinct(r), NEW S \in SUBSET Candidates(r),
         NEW a \in Int, NEW b \in Int, a <= b,
         \A k \in S : a <= Rank(r, k) /\ Rank(r, k) < b
  PROVE  IsFiniteSet(S) /\ Cardinality(S) <= b - a
<1>1. IsFiniteSet(S)
  BY KeyRingAssumption, FS_Subset DEF KeyRingAssumption, Candidates, Entries
<1>2. IsFiniteSet(a .. (b - 1)) /\ Cardinality(a .. (b - 1)) = b - a
  <2>1. b - 1 \in Int
    OBVIOUS
  <2>2. /\ IsFiniteSet(a .. (b - 1))
        /\ Cardinality(a .. (b - 1)) = IF a > b - 1 THEN 0 ELSE (b - 1) - a + 1
    BY <2>1, FS_Interval
  <2> QED
    BY <2>2
<1>3. Cardinality(S) \in Nat
  BY <1>1, FS_CardinalityType
<1>4. ASSUME b - a < Cardinality(S) PROVE FALSE
  <2> DEFINE f == [k \in S |-> Rank(r, k)]
  <2>1. f \in [S -> a .. (b - 1)]
    BY RankFacts
  <2>2. \E j, k \in S : j # k /\ f[j] = f[k]
    <3> HIDE DEF f
    <3> QED
      BY <1>1, <1>2, <1>4, <2>1, FS_PigeonHole
  <2> QED
    BY <2>2, RankFacts
<1> QED
  BY <1>1, <1>2, <1>3, <1>4

\* What evict() leaves.
LEMMA EvictFacts ==
  ASSUME NEW r \in Rings
  PROVE  /\ Evict(r) \in Rings
         /\ Evict(r).active = r.active
         /\ Evict(r).next = r.next
         /\ Evict(r).max = r.max
         /\ Entries(Evict(r)) = Entries(r) \ Evicted(r)
         /\ \A k \in Entries(Evict(r)) : Evict(r).rotation[k] = r.rotation[k]
         /\ \A k \in Keys : Evict(r).rotation[k] # 0 => Evict(r).rotation[k] = r.rotation[k]
         /\ r.active \notin Evicted(r)
<1> DEFINE rot == [k \in Keys |-> IF k \in Evicted(r) THEN 0 ELSE r.rotation[k]]
<1>1. Evict(r) = [r EXCEPT !.rotation = rot]
  BY DEF Evict, Without
<1>2. rot \in [Keys -> Nat]
  BY DEF Rings
<1>3. \A k \in Keys : rot[k] # 0 <=> k \notin Evicted(r) /\ r.rotation[k] # 0
  OBVIOUS
<1>4. \A k \in Keys : rot[k] # 0 => rot[k] = r.rotation[k]
  OBVIOUS
<1> HIDE DEF rot
<1>5. Evict(r).rotation = rot
  BY <1>1 DEF Rings
<1> QED
  BY <1>1, <1>2, <1>3, <1>4, <1>5 DEF Rings, Entries, Evicted, Candidates

\* evict() brings a ring down to its retention, or to its active key alone.
LEMMA EvictBounds ==
  ASSUME NEW r \in Rings, Distinct(r)
  PROVE  \/ Cardinality(Entries(r) \ Evicted(r)) <= r.max
         \/ Cardinality(Entries(r) \ Evicted(r)) <= 1
<1> DEFINE Kept == Candidates(r) \ Evicted(r)
           C    == Candidates(r)
           Left == Entries(r) \ Evicted(r)
<1>0. /\ IsFiniteSet(Entries(r)) /\ Cardinality(Entries(r)) \in Nat /\ r.max \in Nat
      /\ Excess(r) \in Int
  BY KeyRingAssumption, FS_Subset, FS_CardinalityType DEF KeyRingAssumption, Entries, Rings, Excess
<1>1. /\ C = Entries(r) \ {r.active}
      /\ IsFiniteSet(C)
      /\ Cardinality(C) \in Nat
      /\ Cardinality(C) = IF r.active \in Entries(r) THEN Cardinality(Entries(r)) - 1
                                                     ELSE Cardinality(Entries(r))
  BY <1>0, FS_RemoveElement, FS_CardinalityType DEF Candidates
<1>2. Left = IF r.active \in Entries(r) THEN Kept \cup {r.active} ELSE Kept
  BY DEF Candidates, Evicted
<1>3. IsFiniteSet(Kept) /\ Cardinality(Kept) \in Nat
  BY <1>1, FS_Subset, FS_CardinalityType
<1>4. CASE Excess(r) <= 0
  <2>1. Cardinality(Left) <= Cardinality(Entries(r)) /\ Cardinality(Left) \in Nat
    BY <1>0, FS_Subset, FS_CardinalityType
  <2> QED
    BY <1>0, <1>4, <2>1 DEF Excess
<1>5. CASE Excess(r) > Cardinality(C)
  <2>1. \A k \in C : Rank(r, k) < Excess(r)
    BY <1>0, <1>1, <1>5, RankFacts
  <2>2. Kept = {}
    BY <2>1 DEF Evicted, Rank, Excess
  <2>3. Left \subseteq {r.active}
    BY <1>2, <2>2
  <2>4. IsFiniteSet({r.active}) /\ Cardinality({r.active}) = 1
    BY FS_Singleton
  <2>5. Cardinality(Left) <= 1
    <3> HIDE DEF Left
    <3>1. Cardinality(Left) <= Cardinality({r.active})
      BY <2>3, <2>4, FS_Subset
    <3> QED
      BY <2>4, <3>1
  <2> QED
    BY <2>5
<1>6. CASE 0 < Excess(r) /\ Excess(r) <= Cardinality(C)
  <2>1. \A k \in Kept : Excess(r) <= Rank(r, k) /\ Rank(r, k) < Cardinality(C)
    BY <1>0, <1>1, RankFacts DEF Evicted, Rank, Excess
  <2>2. Cardinality(Kept) <= Cardinality(C) - Excess(r)
    <3>1. Kept \in SUBSET Candidates(r)
      OBVIOUS
    <3>2. Excess(r) \in Int /\ Cardinality(C) \in Int /\ Excess(r) <= Cardinality(C)
      BY <1>0, <1>1, <1>6
    <3> HIDE DEF Kept, C
    <3> QED
      BY <2>1, <3>1, <3>2, CountByRank
  <2>3. Cardinality(Kept \cup {r.active}) <= Cardinality(Kept) + 1 /\ Cardinality(Kept \cup {r.active}) \in Nat
    <3> HIDE DEF Kept
    <3> QED
      BY <1>3, OneElement
  <2>4. Cardinality(Left) <= r.max
    <3> HIDE DEF Kept, Left, C
    <3> QED
      BY <1>0, <1>1, <1>2, <1>3, <2>2, <2>3 DEF Excess
  <2> QED
    BY <2>4
<1> QED
  BY <1>0, <1>1, <1>4, <1>5, <1>6

\* A key is evicted only when retention - 1 newer ones stay.
LEMMA EvictKeepsNewer ==
  ASSUME NEW r \in Rings, Distinct(r), NEW k \in Evicted(r)
  PROVE  Cardinality({j \in Entries(r) \ Evicted(r) : r.rotation[j] > r.rotation[k]}) >= r.max - 1
<1> DEFINE Kept  == Entries(r) \ Evicted(r)
           Newer == {j \in Kept : r.rotation[j] > r.rotation[k]}
<1>0. /\ IsFiniteSet(Entries(r))
      /\ Cardinality(Entries(r)) \in Nat
      /\ r.max \in Nat
      /\ r.rotation \in [Keys -> Nat]
      /\ Entries(r) \subseteq Keys
  BY KeyRingAssumption, FS_Subset, FS_CardinalityType DEF KeyRingAssumption, Entries, Rings
<1>1. k \in Candidates(r) /\ Rank(r, k) < Excess(r) /\ Rank(r, k) \in Nat
  BY RankFacts DEF Evicted, Rank, Excess
<1>2. /\ Evicted(r) \subseteq Entries(r)
      /\ Evicted(r) \subseteq Candidates(r)
      /\ IsFiniteSet(Evicted(r)) /\ Cardinality(Evicted(r)) \in Nat
  BY <1>0, FS_Subset, FS_CardinalityType DEF Evicted, Candidates
<1>3. Cardinality(Evicted(r)) <= Excess(r)
  <2>1. \A j \in Evicted(r) : 0 <= Rank(r, j) /\ Rank(r, j) < Excess(r)
    BY RankFacts DEF Evicted, Rank, Excess
  <2>2. Excess(r) \in Int /\ 0 <= Excess(r)
    BY <1>0, <1>1 DEF Excess
  <2>3. Cardinality(Evicted(r)) <= Excess(r) - 0
    BY <1>2, <2>1, <2>2, CountByRank
  <2> QED
    BY <1>2, <2>2, <2>3
<1>4. IsFiniteSet(Kept) /\ Cardinality(Kept) \in Nat /\ Cardinality(Kept) >= r.max
  <2>1. IsFiniteSet(Kept) /\ Cardinality(Kept) \in Nat
    BY <1>0, FS_Subset, FS_CardinalityType
  <2>2. Kept \cup Evicted(r) = Entries(r) /\ Kept \cap Evicted(r) = {}
    BY <1>2
  <2>3. Cardinality(Entries(r)) = Cardinality(Kept) + Cardinality(Evicted(r)) - 0
    <3> HIDE DEF Kept
    <3> QED
      BY <1>2, <2>1, <2>2, FS_Union, FS_EmptySet
  <2> QED
    BY <1>0, <1>2, <1>3, <2>1, <2>3 DEF Excess
<1>5. Kept \ {r.active} \subseteq Newer
  <2> SUFFICES ASSUME NEW j \in Kept, j # r.active PROVE r.rotation[j] > r.rotation[k]
    OBVIOUS
  <2>1. j \in Candidates(r) /\ ~(Rank(r, j) < Excess(r))
    BY DEF Candidates, Evicted, Rank, Excess
  <2>2. Rank(r, j) \in Nat /\ Excess(r) \in Int
    BY <1>0, <2>1, RankFacts DEF Excess
  <2>3. j # k /\ r.rotation[j] # r.rotation[k]
    BY <1>1, <2>1 DEF Distinct, Candidates
  <2>4. ~(r.rotation[j] < r.rotation[k])
    BY <1>1, <2>1, <2>2, RankFacts
  <2> QED
    BY <1>0, <1>1, <2>1, <2>3, <2>4 DEF Candidates
<1>6. /\ IsFiniteSet(Kept \ {r.active})
      /\ Cardinality(Kept \ {r.active}) >= Cardinality(Kept) - 1
      /\ Cardinality(Kept \ {r.active}) \in Nat
  <2> HIDE DEF Kept
  <2> QED
    BY <1>4, OneElement
<1>7. IsFiniteSet(Newer) /\ Cardinality(Newer) \in Nat
  BY <1>4, FS_Subset, FS_CardinalityType
<1>8. Cardinality(Kept \ {r.active}) <= Cardinality(Newer)
  BY <1>5, <1>7, FS_Subset
<1> QED
  BY <1>0, <1>4, <1>6, <1>7, <1>8

\* With a retention of two or more, the newest key stays.
LEMMA EvictKeepsNewest ==
  ASSUME NEW r \in Rings, Distinct(r), r.max >= 2, NEW k \in Entries(r),
         \A j \in Entries(r) : r.rotation[j] <= r.rotation[k]
  PROVE  k \notin Evicted(r)
<1> SUFFICES ASSUME k \in Evicted(r) PROVE FALSE
  OBVIOUS
<1>1. {j \in Entries(r) \ Evicted(r) : r.rotation[j] > r.rotation[k]} = {}
  BY DEF Entries, Rings
<1>2. Cardinality({j \in Entries(r) \ Evicted(r) : r.rotation[j] > r.rotation[k]}) >= r.max - 1
  BY EvictKeepsNewer
<1> QED
  BY <1>1, <1>2, FS_EmptySet DEF Rings

-----------------------------------------------------------------------------
(* Reloading: the counter that fromJSON rebuilds is above every stored one. *)

LEMMA NextAfterFacts ==
  ASSUME NEW r \in Rings, Distinct(r)
  PROVE  /\ NextAfter(r.rotation) \in Nat \ {0}
         /\ \A k \in Keys : r.rotation[k] < NextAfter(r.rotation)
<1> DEFINE c == r.rotation
           IsNext(n) == n \in {1} \cup {c[k] + 1 : k \in Keys} /\ \A k \in Keys : c[k] < n
<1>0. c \in [Keys -> Nat]
  BY DEF Rings
<1>1. \E n : IsNext(n)
  <2>1. CASE Entries(r) = {}
    <3>1. \A k \in Keys : c[k] < 1
      BY <2>1 DEF Entries
    <3> QED
      BY <3>1
  <2>2. CASE Entries(r) # {}
    <3> DEFINE q == [r EXCEPT !.active = NoKey]
               N == Cardinality(Entries(r))
    <3>1. q \in Rings /\ q.rotation = c /\ q.active = NoKey
      BY DEF Rings
    <3>2. Entries(q) = Entries(r) /\ Candidates(q) = Entries(r) /\ Distinct(q)
      BY <3>1, KeyRingAssumption DEF Entries, Candidates, Distinct, KeyRingAssumption
    <3> HIDE DEF q
    <3>3. IsFiniteSet(Entries(r)) /\ N \in Nat
      BY KeyRingAssumption, FS_Subset, FS_CardinalityType DEF KeyRingAssumption, Entries
    <3>4. N # 0
      BY <2>2, <3>3, FS_EmptySet
    <3>5. \E k \in Entries(r) : ~(Rank(q, k) < N - 1)
      <4> SUFFICES ASSUME \A k \in Entries(r) : Rank(q, k) < N - 1 PROVE FALSE
        OBVIOUS
      <4>1. \A k \in Entries(r) : 0 <= Rank(q, k) /\ Rank(q, k) < N - 1
        BY <3>1, <3>2, RankFacts
      <4>2. N \in Nat /\ 0 <= N - 1 /\ N - 1 \in Int /\ 0 \in Int
        BY <3>3, <3>4
      <4>3. N <= (N - 1) - 0
        <5> HIDE DEF N
        <5>1. Cardinality(Entries(r)) <= (N - 1) - 0
          BY <3>1, <3>2, <4>1, <4>2, CountByRank
        <5> QED
          BY <5>1 DEF N
      <4> QED
        BY <4>2, <4>3
    <3>6. PICK k \in Entries(r) : ~(Rank(q, k) < N - 1)
      BY <3>5
    <3>7. \A j \in Entries(r) : ~(c[k] < c[j])
      BY <3>1, <3>2, <3>3, <3>6, RankFacts
    <3>8. \A j \in Keys : c[j] < c[k] + 1
      BY <1>0, <3>7 DEF Entries
    <3> QED
      BY <3>8 DEF Entries
  <2> QED
    BY <2>1, <2>2
<1>2. IsNext(NextAfter(c))
  <2>1. NextAfter(c) = CHOOSE n : IsNext(n)
    BY DEF NextAfter
  <2> QED
    BY <1>1, <2>1
<1>3. \A n : IsNext(n) => n \in Nat \ {0}
  BY <1>0
<1> QED
  BY <1>2, <1>3

-----------------------------------------------------------------------------
(* Every operation takes a good ring to a good ring.  A ring read from or   *)
(* written to the file is sound only: a retention below two may have cost   *)
(* it the active key, and load rejects it then.                             *)

Sound(r) ==
  /\ Entries(r) # {} => r.active # NoKey
  /\ Distinct(r)
  /\ \A k \in Entries(r) : r.rotation[k] < r.next
  /\ r.max \in Retentions \cup {DefaultMax}
  /\ \E max \in Retentions \cup {r.max, 1} : Cardinality(Entries(r)) <= max

Good(r) == Sound(r) /\ (r.max >= 2 => Loadable(r))

SoundRings == {r \in Rings : Sound(r)}
GoodRings  == {r \in Rings : Good(r)}

LEMMA CreateGood ==
  ASSUME NEW max \in Retentions \cup {DefaultMax}
  PROVE  Create(max) \in GoodRings
<1>0. max \in Nat
  BY KeyRingAssumption, KeyStoreAssumption DEF KeyRingAssumption, KeyStoreAssumption
<1>1. Create(max) \in Rings /\ Entries(Create(max)) = {}
  BY <1>0 DEF Create, NoCounter, Rings, Entries
<1>2. Create(max).max = max /\ Create(max).active = NoKey
  BY DEF Create
<1>3. Cardinality(Entries(Create(max))) <= max
  BY <1>0, <1>1, FS_EmptySet
<1> QED
  BY <1>1, <1>2, <1>3 DEF GoodRings, Good, Sound, Loadable, Distinct

\* Adding a key: it is kept under a retention of two or more, with a counter
\* above all others, and what makes room for it is old.
LEMMA AddFacts ==
  ASSUME NEW r \in GoodRings, NEW k \in Keys, k \notin Entries(r)
  PROVE  /\ AddEntry(r, k) \in GoodRings
         /\ r.max >= 2 => /\ k \in Entries(AddEntry(r, k))
                          /\ AddEntry(r, k).rotation[k] = r.next
         /\ AddEntry(r, k).next = r.next + 1
         /\ AddEntry(r, k).max = r.max
         /\ AddEntry(r, k).active = IF r.active = NoKey THEN k ELSE r.active
         /\ \A j \in Entries(r) \ Entries(AddEntry(r, k)) :
              Cardinality({i \in Entries(AddEntry(r, k)) :
                             AddEntry(r, k).rotation[i] > r.rotation[j]}) >= r.max - 1
<1> DEFINE a == Insert(r, k)
           s == AddEntry(r, k)
<1>0. r \in Rings /\ Good(r)
  BY DEF GoodRings
<1>1. /\ a \in Rings
      /\ a.max = r.max
      /\ a.next = r.next + 1
      /\ a.rotation = [r.rotation EXCEPT ![k] = r.next]
      /\ a.active = IF r.active = NoKey THEN k ELSE r.active
  BY <1>0 DEF Insert, Rings
<1>2. s = Evict(a)
  BY DEF AddEntry
<1> HIDE DEF a, s
<1>3. /\ r.rotation \in [Keys -> Nat]
      /\ r.next \in Nat \ {0}
      /\ r.max \in Nat
  BY <1>0 DEF Rings
<1>4. Entries(a) = Entries(r) \cup {k}
  BY <1>1, <1>3 DEF Entries
<1>5. /\ a.rotation[k] = r.next
      /\ \A j \in Entries(r) : a.rotation[j] = r.rotation[j] /\ r.rotation[j] < r.next
  BY <1>0, <1>1, <1>3 DEF Good, Sound, Entries
<1>6. Distinct(a)
  BY <1>0, <1>3, <1>4, <1>5 DEF Distinct, Good, Sound, Entries
<1>7. a.max >= 2 => a.active \in Entries(a)
  BY <1>0, <1>1, <1>4 DEF Good, Loadable
<1>8. /\ s \in Rings
      /\ s.active = a.active /\ s.next = a.next /\ s.max = a.max
      /\ Entries(s) = Entries(a) \ Evicted(a)
      /\ \A j \in Entries(s) : s.rotation[j] = a.rotation[j]
      /\ a.active \notin Evicted(a)
  BY <1>1, <1>2, EvictFacts
<1>9. ASSUME r.max >= 2 PROVE k \in Entries(s)
  <2>1. \A j \in Entries(a) : a.rotation[j] <= a.rotation[k]
    BY <1>3, <1>4, <1>5 DEF Entries
  <2>2. a.max >= 2 /\ k \in Entries(a)
    BY <1>1, <1>4, <1>9
  <2>3. k \notin Evicted(a)
    BY <1>1, <1>6, <2>1, <2>2, EvictKeepsNewest
  <2> QED
    BY <1>8, <2>2, <2>3
<1>10. Cardinality(Entries(s)) <= s.max \/ Cardinality(Entries(s)) <= 1
  BY <1>1, <1>6, <1>8, EvictBounds
<1>11. Good(s)
  <2>1. s.active # NoKey /\ (s.max >= 2 => s.active \in Entries(s))
    BY <1>0, <1>1, <1>7, <1>8, KeyRingAssumption DEF Entries, KeyRingAssumption
  <2>2. Distinct(s)
    BY <1>6, <1>8 DEF Distinct
  <2>3. \A j \in Entries(s) : s.rotation[j] < s.next
    BY <1>1, <1>3, <1>4, <1>5, <1>8 DEF Entries
  <2>4. s.max \in Retentions \cup {DefaultMax}
    BY <1>0, <1>1, <1>8 DEF Good, Sound
  <2> QED
    BY <1>10, <2>1, <2>2, <2>3, <2>4 DEF Good, Sound, Loadable
<1>12. ASSUME NEW j \in Entries(r) \ Entries(s)
       PROVE  Cardinality({i \in Entries(s) : s.rotation[i] > r.rotation[j]}) >= r.max - 1
  <2>1. j \in Evicted(a) /\ a.rotation[j] = r.rotation[j]
    BY <1>4, <1>5, <1>8
  <2>2. {i \in Entries(s) : s.rotation[i] > r.rotation[j]}
          = {i \in Entries(a) \ Evicted(a) : a.rotation[i] > a.rotation[j]}
    BY <1>8, <2>1
  <2>3. Cardinality({i \in Entries(a) \ Evicted(a) : a.rotation[i] > a.rotation[j]}) >= a.max - 1
    BY <1>1, <1>6, <2>1, EvictKeepsNewer
  <2> QED
    BY <1>1, <2>2, <2>3
<1> QED
  BY <1>1, <1>5, <1>8, <1>9, <1>11, <1>12 DEF GoodRings, s

\* Making a stored key active.
LEMMA SetActiveGood ==
  ASSUME NEW r \in GoodRings, NEW k \in Entries(r)
  PROVE  /\ SetActiveKey(r, k) \in GoodRings
         /\ SetActiveKey(r, k).rotation = r.rotation
         /\ SetActiveKey(r, k).next = r.next
<1> DEFINE s == SetActiveKey(r, k)
<1>1. /\ s \in Rings
      /\ s.rotation = r.rotation /\ s.next = r.next /\ s.max = r.max /\ s.active = k
  BY DEF GoodRings, SetActiveKey, Rings, Entries
<1> HIDE DEF s
<1>2. Entries(s) = Entries(r) /\ k # NoKey
  BY <1>1, KeyRingAssumption DEF Entries, KeyRingAssumption
<1>3. Good(s)
  BY <1>1, <1>2 DEF GoodRings, Good, Sound, Loadable, Distinct
<1> QED
  BY <1>1, <1>3 DEF GoodRings, s

\* rotate() with a key that is not stored: like addKey, and then the key is the
\* active one.
LEMMA RotateFacts ==
  ASSUME NEW r \in GoodRings, NEW k \in Keys, k \notin Entries(r)
  PROVE  /\ Rotate(r, k) \in GoodRings
         /\ Rotate(r, k).rotation = AddEntry(r, k).rotation
         /\ Entries(Rotate(r, k)) = Entries(AddEntry(r, k))
         /\ Rotate(r, k).next = AddEntry(r, k).next
         /\ Rotate(r, k).active = k
<1> DEFINE a == AddEntry(r, k)
           s == Rotate(r, k)
<1>1. /\ a \in Rings /\ Good(a)
      /\ r.max >= 2 => k \in Entries(a)
      /\ a.max = r.max
  BY AddFacts DEF GoodRings
<1>2. s = [a EXCEPT !.active = k]
  BY DEF Rotate
<1> HIDE DEF a, s
<1>3. /\ s \in Rings
      /\ s.rotation = a.rotation /\ s.next = a.next /\ s.max = a.max /\ s.active = k
  BY <1>1, <1>2 DEF Rings
<1>4. Entries(s) = Entries(a) /\ k # NoKey
  BY <1>3, KeyRingAssumption DEF Entries, KeyRingAssumption
<1>5. Good(s)
  BY <1>1, <1>3, <1>4 DEF Good, Sound, Loadable, Distinct
<1> QED
  BY <1>3, <1>4, <1>5 DEF GoodRings, a, s

LEMMA RemoveGood ==
  ASSUME NEW r \in GoodRings, NEW k \in Entries(r), k # r.active
  PROVE  /\ RemoveKey(r, k) \in GoodRings
         /\ RemoveKey(r, k).next = r.next
         /\ RemoveKey(r, k).active = r.active
         /\ Entries(RemoveKey(r, k)) = Entries(r) \ {k}
<1> DEFINE rot == [j \in Keys |-> IF j \in {k} THEN 0 ELSE r.rotation[j]]
           s   == RemoveKey(r, k)
<1>0. r \in Rings /\ Good(r)
  BY DEF GoodRings
<1>1. /\ s \in Rings
      /\ s.rotation = rot /\ s.next = r.next /\ s.max = r.max /\ s.active = r.active
  BY <1>0 DEF RemoveKey, Without, Rings
<1>2. \A j \in Keys : (rot[j] # 0 => rot[j] = r.rotation[j]) /\ (rot[j] # 0 <=> r.rotation[j] # 0 /\ j # k)
  OBVIOUS
<1> HIDE DEF rot, s
<1>3. /\ Entries(s) = Entries(r) \ {k}
      /\ \A j \in Entries(s) : s.rotation[j] = r.rotation[j]
  BY <1>1, <1>2 DEF Entries
<1>4. /\ IsFiniteSet(Entries(r))
      /\ Cardinality(Entries(s)) <= Cardinality(Entries(r))
      /\ Cardinality(Entries(s)) \in Nat
      /\ Cardinality(Entries(r)) \in Nat
  BY <1>3, KeyRingAssumption, FS_Subset, FS_CardinalityType DEF KeyRingAssumption, Entries
<1>5. /\ Distinct(s)
      /\ s.max >= 2 => Loadable(s)
      /\ Entries(s) # {} => s.active # NoKey
  BY <1>0, <1>1, <1>3 DEF Distinct, Loadable, Good, Sound
<1>6. \A j \in Entries(s) : s.rotation[j] < s.next
  BY <1>0, <1>1, <1>3 DEF Good, Sound
<1>7. \E max \in Retentions \cup {s.max, 1} : Cardinality(Entries(s)) <= max
  <2>1. PICK max \in Retentions \cup {r.max, 1} : Cardinality(Entries(r)) <= max
    BY <1>0 DEF Good, Sound
  <2>2. max \in Nat
    BY <1>0, KeyStoreAssumption DEF Rings, KeyStoreAssumption
  <2> QED
    BY <1>1, <1>4, <2>1, <2>2
<1>8. Good(s)
  BY <1>0, <1>1, <1>5, <1>6, <1>7 DEF Good, Sound
<1> QED
  BY <1>1, <1>3, <1>8 DEF GoodRings, s

\* What is written of a sound ring is sound.
LEMMA JsonSound ==
  ASSUME NEW r \in SoundRings
  PROVE  Json(r) \in SoundRings
<1> DEFINE s == Json(r)
<1>0. r \in Rings /\ Sound(r) /\ Distinct(r)
  BY DEF SoundRings, Sound
<1>1. /\ NextAfter(r.rotation) \in Nat \ {0}
      /\ \A k \in Keys : r.rotation[k] < NextAfter(r.rotation)
  BY <1>0, NextAfterFacts
<1>2. /\ s \in Rings
      /\ s.rotation = r.rotation /\ s.next = NextAfter(r.rotation)
      /\ s.max = DefaultMax /\ s.active = r.active
  BY <1>0, <1>1, KeyRingAssumption DEF Json, Rings, KeyRingAssumption
<1> HIDE DEF s
<1>3. Entries(s) = Entries(r) /\ Entries(r) \subseteq Keys
  BY <1>2 DEF Entries
<1>4. \E max \in Retentions \cup {s.max, 1} : Cardinality(Entries(s)) <= max
  BY <1>0, <1>2, <1>3 DEF Sound
<1>5. Sound(s)
  BY <1>0, <1>1, <1>2, <1>3, <1>4 DEF Sound, Distinct
<1> QED
  BY <1>2, <1>5 DEF SoundRings, s

-----------------------------------------------------------------------------
(* The store.                                                               *)

\* Every ring in memory is good, what is written and what the file holds is sound.
IInv ==
  /\ ring \in [Procs -> GoodRings \cup {None}]
  /\ tmp \in [Procs -> SoundRings \cup {None}]
  /\ file \in SoundRings \cup {None}

LEMMA InitIInv == Init => IInv
<1> QED
  BY DEF Init, IInv

\* A change of one process's ring to a good ring.
LEMMA ChangeIInv ==
  ASSUME IInv, NEW p \in Procs, NEW s \in GoodRings, Change(p, s)
  PROVE  IInv'
<1> QED
  BY DEF IInv, Change

LEMMA StepIInv ==
  ASSUME IInv, [Next]_vars
  PROVE  IInv'
<1> USE DEF IInv
<1>0. /\ None \notin GoodRings /\ None \notin SoundRings
      /\ GoodRings \subseteq SoundRings
  BY KeyStoreAssumption DEF KeyStoreAssumption, GoodRings, SoundRings, Good
<1>1. ASSUME NEW p \in Procs, New(p) PROVE IInv'
  BY <1>1, CreateGood DEF New
<1>2. ASSUME NEW p \in Procs, Load(p) PROVE IInv'
  <2>1. Create(DefaultMax) \in GoodRings
    BY CreateGood
  <2>2. ASSUME file # None, Loadable(file) PROVE file \in GoodRings
    BY <2>2 DEF SoundRings, GoodRings, Good
  <2> QED
    BY <1>2, <2>1, <2>2 DEF Load
<1>3. ASSUME NEW p \in Procs, NEW k \in Keys, RotateKey(p, k) PROVE IInv'
  <2>1. ring[p] \in GoodRings /\ k \notin Entries(ring[p])
    BY <1>3 DEF RotateKey, CanAdd, Fresh
  <2>2. Rotate(ring[p], k) \in GoodRings
    BY <2>1, RotateFacts
  <2> QED
    BY <1>3, <2>2, ChangeIInv DEF RotateKey
<1>4. ASSUME NEW p \in Procs, NEW k \in Keys, AddKey(p, k) PROVE IInv'
  <2>1. ring[p] \in GoodRings /\ k \notin Entries(ring[p])
    BY <1>4 DEF AddKey, CanAdd
  <2>2. AddEntry(ring[p], k) \in GoodRings
    BY <2>1, AddFacts
  <2> QED
    BY <1>4, <2>2, ChangeIInv DEF AddKey
<1>5. ASSUME NEW p \in Procs, NEW k \in Keys, SetActive(p, k) PROVE IInv'
  <2>1. ring[p] \in GoodRings /\ k \in Entries(ring[p])
    BY <1>5 DEF SetActive
  <2>2. SetActiveKey(ring[p], k) \in GoodRings
    BY <2>1, SetActiveGood
  <2> QED
    BY <1>5, <2>2, ChangeIInv DEF SetActive
<1>6. ASSUME NEW p \in Procs, NEW k \in Keys, Remove(p, k) PROVE IInv'
  <2>1. ring[p] \in GoodRings /\ k \in Entries(ring[p])
    BY <1>6 DEF Remove
  <2>2. RemoveKey(ring[p], k) \in GoodRings
    BY <1>6, <2>1, RemoveGood DEF Remove
  <2> QED
    BY <1>6, <2>2, ChangeIInv DEF Remove
<1>7. ASSUME NEW p \in Procs, SaveWrite(p) PROVE IInv'
  <2>1. ring[p] \in SoundRings
    BY <1>0, <1>7 DEF SaveWrite
  <2>2. Json(ring[p]) \in SoundRings
    BY <2>1, JsonSound
  <2> QED
    BY <1>7, <2>2 DEF SaveWrite
<1>8. ASSUME NEW p \in Procs, SaveRename(p) PROVE IInv'
  BY <1>8 DEF SaveRename
<1>9. ASSUME NEW p \in Procs, SaveFails(p) PROVE IInv'
  BY <1>9 DEF SaveFails
<1>10. ASSUME NEW p \in Procs, Stop(p) PROVE IInv'
  BY <1>10 DEF Stop
<1>11. CASE UNCHANGED vars
  BY <1>11 DEF vars
<1> QED
  BY <1>1, <1>2, <1>3, <1>4, <1>5, <1>6, <1>7, <1>8, <1>9, <1>10, <1>11 DEF Next

LEMMA Invariance == Spec => []IInv
<1>1. IInv /\ [Next]_vars => IInv'
  BY StepIInv
<1> QED
  BY <1>1, InitIInv, PTL DEF Spec

LEMMA IInvRings == IInv => \A r \in AllRings : r \in SoundRings
<1> QED
  BY DEF IInv, AllRings, GoodRings, SoundRings, Good

\* Whatever retentions the processes choose and whatever they load, change,
\* save, fail and stop: a ring that retains two keys or more has a stored active
\* key unless it is empty, and the counters of every ring, in memory and in the
\* file, are pairwise different and below the next one.
THEOREM KeyStoreSafe == Spec => [](TypeOK /\ ActiveIsStored /\ RotationsDistinct)
<1>1. IInv => TypeOK
  BY DEF IInv, TypeOK, SoundRings, GoodRings
<1>2. IInv => ActiveIsStored
  BY DEF IInv, ActiveIsStored, GoodRings, Good, Sound
<1>3. IInv => RotationsDistinct
  BY IInvRings DEF RotationsDistinct, SoundRings, Sound, Distinct
<1> QED
  BY <1>1, <1>2, <1>3, Invariance, PTL

\* A ring with a retention of two or more has a stored active key, or no key.
THEOREM ActiveIsStoredHolds == Spec => []ActiveIsStored
<1> QED
  BY KeyStoreSafe, PTL

\* The counters eviction sorts by are pairwise different among stored keys.
THEOREM RotationsDistinctHolds == Spec => []RotationsDistinct
<1> QED
  BY KeyStoreSafe, PTL

\* No ring stores more keys than its retention, or than some retention a process
\* created a ring with, or than the one active key.
THEOREM HistoryBoundedHolds == Spec => []HistoryBounded
<1>1. IInv => HistoryBounded
  BY IInvRings DEF HistoryBounded, SoundRings, Sound
<1> QED
  BY <1>1, Invariance, PTL

\* What a step makes of the ring of p.
LEMMA StepOfRing ==
  ASSUME IInv, [Next]_vars, NEW p \in Procs, ring[p] # None, ring'[p] # None
  PROVE  \/ ring'[p] = ring[p]
         \/ \E k \in Keys \ Entries(ring[p]) : ring'[p] = AddEntry(ring[p], k)
         \/ \E k \in Keys \ Entries(ring[p]) : ring'[p] = Rotate(ring[p], k) /\ k \notin Verifying
         \/ \E k \in Entries(ring[p]) : ring'[p] = SetActiveKey(ring[p], k)
         \/ \E k \in Entries(ring[p]) : ring'[p] = RemoveKey(ring[p], k) /\ k # ring[p].active
<1>0. ring \in [Procs -> GoodRings \cup {None}]
  BY DEF IInv
<1>1. ASSUME NEW q \in Procs, NEW s, Change(q, s), q # p PROVE ring'[p] = ring[p]
  BY <1>0, <1>1 DEF Change
<1>2. ASSUME NEW s, Change(p, s) PROVE ring'[p] = s
  BY <1>0, <1>2 DEF Change
<1>3. ASSUME NEW k \in Keys, RotateKey(p, k)
      PROVE  ring'[p] = Rotate(ring[p], k) /\ k \notin Verifying /\ k \notin Entries(ring[p])
  BY <1>2, <1>3 DEF RotateKey, Fresh
<1>4. ASSUME NEW k \in Keys, AddKey(p, k)
      PROVE  ring'[p] = AddEntry(ring[p], k) /\ k \notin Entries(ring[p])
  BY <1>2, <1>4 DEF AddKey
<1>5. ASSUME NEW k \in Keys, SetActive(p, k)
      PROVE  ring'[p] = SetActiveKey(ring[p], k) /\ k \in Entries(ring[p])
  BY <1>2, <1>5 DEF SetActive
<1>6. ASSUME NEW k \in Keys, Remove(p, k)
      PROVE  ring'[p] = RemoveKey(ring[p], k) /\ k \in Entries(ring[p]) /\ k # ring[p].active
  BY <1>2, <1>6 DEF Remove
<1>7. ASSUME NEW q \in Procs, New(q) \/ Load(q) \/ Stop(q) \/ SaveWrite(q) \/ SaveRename(q) \/ SaveFails(q)
      PROVE  ring'[p] = ring[p]
  BY <1>0, <1>7 DEF New, Load, Stop, SaveWrite, SaveRename, SaveFails
<1>8. ASSUME NEW q \in Procs, NEW k \in Keys, q # p,
             RotateKey(q, k) \/ AddKey(q, k) \/ SetActive(q, k) \/ Remove(q, k)
      PROVE  ring'[p] = ring[p]
  BY <1>1, <1>8 DEF RotateKey, AddKey, SetActive, Remove
<1>9. CASE UNCHANGED vars
  BY <1>9 DEF vars
<1> QED
  BY <1>3, <1>4, <1>5, <1>6, <1>7, <1>8, <1>9 DEF Next

\* Under every retention, adding a key drops a key only when retention - 1 newer
\* ones are kept; with a retention of two or more the added key stays.
THEOREM RecentKeysKeptHolds == Spec => RecentKeysKept
<1> DEFINE Kept(p) ==
      ring[p] # None /\ ring'[p] # None /\ ring'[p].next > ring[p].next =>
        /\ ring[p].max >= 2 => \E k \in Keys : ring'[p].rotation[k] = ring[p].next
        /\ \A k \in Entries(ring[p]) \ Entries(ring'[p]) :
             Cardinality({j \in Entries(ring'[p]) :
                            ring'[p].rotation[j] > ring[p].rotation[k]}) >= ring[p].max - 1
<1>1. ASSUME IInv, [Next]_vars, NEW p \in Procs PROVE Kept(p)
  <2> SUFFICES ASSUME ring[p] # None, ring'[p] # None, ring'[p].next > ring[p].next
               PROVE  /\ ring[p].max >= 2 => \E k \in Keys : ring'[p].rotation[k] = ring[p].next
                      /\ \A k \in Entries(ring[p]) \ Entries(ring'[p]) :
                           Cardinality({j \in Entries(ring'[p]) :
                             ring'[p].rotation[j] > ring[p].rotation[k]}) >= ring[p].max - 1
    OBVIOUS
  <2>0. ring[p] \in GoodRings /\ ring[p].next \in Nat
    BY <1>1 DEF IInv, GoodRings, Rings
  <2>1. ASSUME NEW k \in Keys, ring'[p] \in {SetActiveKey(ring[p], k), RemoveKey(ring[p], k)}
        PROVE  ring'[p].next = ring[p].next
    BY <2>0, <2>1 DEF SetActiveKey, RemoveKey, Without, GoodRings, Rings
  <2>2. PICK k \in Keys \ Entries(ring[p]) : ring'[p] \in {AddEntry(ring[p], k), Rotate(ring[p], k)}
    BY <1>1, <2>0, <2>1, StepOfRing DEF Entries
  <2>3. /\ ring'[p].rotation = AddEntry(ring[p], k).rotation
        /\ Entries(ring'[p]) = Entries(AddEntry(ring[p], k))
    BY <2>0, <2>2, RotateFacts
  <2> QED
    BY <2>0, <2>2, <2>3, AddFacts
<1>2. IInv /\ [Next]_vars => [\A p \in Procs : Kept(p)]_vars
  BY <1>1
<1> QED
  BY <1>2, Invariance, PTL DEF Spec, RecentKeysKept

\* A ring that can sign loses that only by setActiveKey.
THEOREM SigningLostByChoiceHolds == Spec => SigningLostByChoice
<1> DEFINE Lost(p) ==
      ring[p] # None /\ ring'[p] # None /\ ring[p].max >= 2 /\ CanSign(ring[p])
        => CanSign(ring'[p]) \/ \E k \in Entries(ring[p]) : ring'[p] = SetActiveKey(ring[p], k)
<1>1. ASSUME IInv, [Next]_vars, NEW p \in Procs PROVE Lost(p)
  <2> SUFFICES ASSUME ring[p] # None, ring'[p] # None, ring[p].max >= 2, CanSign(ring[p]),
                      ~ \E k \in Entries(ring[p]) : ring'[p] = SetActiveKey(ring[p], k)
               PROVE  CanSign(ring'[p])
    OBVIOUS
  <2>0. /\ ring[p] \in GoodRings
        /\ ring[p].active \in Entries(ring[p]) /\ ring[p].active \notin Verifying
        /\ ring[p].active # NoKey
    BY <1>1, KeyRingAssumption DEF IInv, CanSign, Entries, KeyRingAssumption
  <2>1. CASE ring'[p] = ring[p]
    BY <2>1
  <2>2. ASSUME NEW k \in Keys \ Entries(ring[p]), ring'[p] = AddEntry(ring[p], k)
        PROVE  CanSign(ring'[p])
    <3>1. ring'[p] \in GoodRings /\ ring'[p].active = ring[p].active /\ ring'[p].max = ring[p].max
      BY <2>0, <2>2, AddFacts
    <3> QED
      BY <2>0, <3>1 DEF GoodRings, Good, Loadable, CanSign
  <2>3. ASSUME NEW k \in Keys \ Entries(ring[p]), ring'[p] = Rotate(ring[p], k), k \notin Verifying
        PROVE  CanSign(ring'[p])
    <3>1. ring'[p].active = k /\ k \in Entries(ring'[p])
      BY <2>0, <2>3, AddFacts, RotateFacts
    <3> QED
      BY <2>3, <3>1 DEF CanSign
  <2>4. ASSUME NEW k \in Entries(ring[p]), ring'[p] = RemoveKey(ring[p], k), k # ring[p].active
        PROVE  CanSign(ring'[p])
    <3>1. ring'[p].active = ring[p].active /\ Entries(ring'[p]) = Entries(ring[p]) \ {k}
      BY <2>0, <2>4, RemoveGood
    <3> QED
      BY <2>0, <2>4, <3>1 DEF CanSign
  <2> QED
    BY <1>1, <2>1, <2>2, <2>3, <2>4, StepOfRing
<1>2. IInv /\ [Next]_vars => [\A p \in Procs : Lost(p)]_vars
  BY <1>1
<1> QED
  BY <1>2, Invariance, PTL DEF Spec, SigningLostByChoice
=============================================================================
