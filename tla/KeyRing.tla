------------------------------- MODULE KeyRing -------------------------------
(***************************************************************************)
(* packages/keys/src/keyring.ts: the operations of a KeyRing as operators  *)
(* on a ring.  A key stands for its keyId; of its material the model keeps *)
(* whether the private half is known: a key in Verifying is added as a     *)
(* PublicKey and its entry can only verify.  The retention is whatever     *)
(* number the caller chose, none is refused.  Every method is synchronous, *)
(* so an operation is one step of whoever calls it.                        *)
(***************************************************************************)
EXTENDS Integers, FiniteSets

CONSTANTS
  Keys,         \* key ids
  Verifying,    \* keys whose private half the processes do not have
  NoKey,        \* activeKeyId undefined
  DefaultMax    \* DEFAULT_MAX_KEYS

ASSUME KeyRingAssumption ==
  /\ NoKey \notin Keys
  /\ Verifying \subseteq Keys
  /\ IsFiniteSet(Keys)
  /\ DefaultMax \in Nat \ {0, 1}

\* rotation[k]: the counter of the stored entry of k, 0 when there is none.
Rings == [rotation : [Keys -> Nat],
          active   : Keys \cup {NoKey},
          next     : Nat \ {0},
          max      : Nat]

NoCounter == [k \in Keys |-> 0]

Entries(ring) == {k \in Keys : ring.rotation[k] # 0}

\* One more than the largest counter, 1 when there is none.
NextAfter(counter) ==
  CHOOSE n \in {1} \cup {counter[k] + 1 : k \in Keys} : \A k \in Keys : counter[k] < n

Create(max) == [rotation |-> NoCounter, active |-> NoKey, next |-> 1, max |-> max]

\* The keys evict() may take, and the size - max oldest of them.
Candidates(ring) == Entries(ring) \ {ring.active}
Older(ring, k)   == {j \in Candidates(ring) : ring.rotation[j] < ring.rotation[k]}
Evicted(ring)    ==
  {k \in Candidates(ring) :
     Cardinality(Older(ring, k)) < Cardinality(Entries(ring)) - ring.max}

Without(ring, gone) ==
  [ring EXCEPT !.rotation = [k \in Keys |-> IF k \in gone THEN 0 ELSE ring.rotation[k]]]

EvictNewest(ring) ==       \* mutant: sorted the other way round
  Without(ring, {k \in Candidates(ring) :
    Cardinality({j \in Candidates(ring) : ring.rotation[j] > ring.rotation[k]})
      < Cardinality(Entries(ring)) - ring.max})

EvictAnyOldest(ring) ==    \* mutant: the active key is not filtered out
  Without(ring, {k \in Entries(ring) :
    Cardinality({j \in Entries(ring) : ring.rotation[j] < ring.rotation[k]})
      < Cardinality(Entries(ring)) - ring.max})

Evict(ring) == Without(ring, Evicted(ring))

InsertActive(ring, k) ==    \* mutant: every added key becomes active
  [rotation |-> [ring.rotation EXCEPT ![k] = ring.next],
    active   |-> k,
   next     |-> ring.next + 1,
   max      |-> ring.max]

\* addEntry: a fresh counter; the first key becomes active, even one that can
\* only verify; then evict.
Insert(ring, k) ==
  [rotation |-> [ring.rotation EXCEPT ![k] = ring.next],
    active   |-> IF ring.active = NoKey THEN k ELSE ring.active,
   next     |-> ring.next + 1,
   max      |-> ring.max]

AddEntry(ring, k) == Evict(Insert(ring, k))

\* rotate(): the fresh pair is added and then made active, whatever evict took.
Rotate(ring, k) == [AddEntry(ring, k) EXCEPT !.active = k]

SetActiveKey(ring, k) == [ring EXCEPT !.active = k]

RemoveKey(ring, k) == Without(ring, {k})

JsonFromZero(ring) ==      \* mutant: the counter is rebuilt as the largest, not one more
  [ring EXCEPT !.max = DefaultMax, !.next = NextAfter(ring.rotation) - 1]

\* toJSON() as fromJSON reads it back: entries and active key; maxRetainedKeys
\* is read but never written, so the default applies; the counter starts after
\* the largest one that is still stored.
Json(ring) == [ring EXCEPT !.max = DefaultMax, !.next = NextAfter(ring.rotation)]

\* What fromJSON accepts of a document toJSON wrote: an activeKeyId that
\* references a stored key.
Loadable(ring) == ring.active \in Entries(ring) \cup {NoKey}

\* signBytes with the active key does not throw.
CanSign(ring) == ring.active \in Entries(ring) \ Verifying
=============================================================================
