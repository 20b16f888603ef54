--------------------------- MODULE Semaphore_proofs ---------------------------
(***************************************************************************)
(* Proofs about the semaphore for any number of callers and any limit.     *)
(***************************************************************************)
EXTENDS Semaphore, FiniteSetTheorems, TLAPS

\* Nobody's slot is counted twice and nobody is woken twice: the conjuncts
\* hold each other up.  The count needs the queue to hold only waiters (the
\* woken head gains a slot it did not have), the queue needs work conservation
\* (an acquire finds the count at the limit when it queues).
IInv ==
  /\ TypeOK
  /\ IsFiniteSet(Holders)
  /\ SlotsExact
  /\ WorkConserving
  /\ QueueIsWaiters

-----------------------------------------------------------------------------
\* A set that exchanges one element for another keeps its size.
LEMMA SwapElement ==
  ASSUME NEW S, IsFiniteSet(S), NEW x \in S, NEW y, y \notin S
  PROVE  /\ IsFiniteSet((S \ {x}) \cup {y})
         /\ Cardinality((S \ {x}) \cup {y}) = Cardinality(S)
<1>1. /\ IsFiniteSet(S \ {x})
      /\ Cardinality(S \ {x}) = Cardinality(S) - 1
  BY FS_RemoveElement
<1>2. /\ IsFiniteSet((S \ {x}) \cup {y})
      /\ Cardinality((S \ {x}) \cup {y}) = Cardinality(S \ {x}) + 1
  BY <1>1, FS_AddElement
<1>3. Cardinality(S) \in Nat
  BY FS_CardinalityType
<1> QED
  BY <1>1, <1>2, <1>3

\* What each queue operation does to the elements of the queue.
LEMMA AppendFacts ==
  ASSUME NEW S, NEW s \in Seq(S), NEW x \in S
  PROVE  /\ Append(s, x) \in Seq(S)
         /\ Len(Append(s, x)) = Len(s) + 1
         /\ \A i \in 1 .. Len(s) : Append(s, x)[i] = s[i]
         /\ Append(s, x)[Len(s) + 1] = x
<1> QED
  OBVIOUS

LEMMA TailFacts ==
  ASSUME NEW S, NEW s \in Seq(S), s # <<>>
  PROVE  /\ Head(s) \in S
         /\ Head(s) = s[1]
         /\ Len(s) \in Nat \ {0}
         /\ Tail(s) \in Seq(S)
         /\ Len(Tail(s)) = Len(s) - 1
         /\ \A i \in 1 .. Len(s) - 1 : Tail(s)[i] = s[i + 1]
<1> QED
  OBVIOUS

-----------------------------------------------------------------------------
LEMMA InitIInv == Init => IInv
<1> SUFFICES ASSUME Init PROVE IInv
  OBVIOUS
<1>1. TypeOK
  BY DEF Init, TypeOK
<1>2. Holders = {}
  BY DEF Init, Holders
<1>3. IsFiniteSet(Holders) /\ SlotsExact
  BY <1>2, FS_EmptySet, SemaphoreAssumption DEF Init, SlotsExact, SemaphoreAssumption
<1>4. WorkConserving /\ QueueIsWaiters
  BY DEF Init, WorkConserving, QueueIsWaiters
<1> QED
  BY <1>1, <1>3, <1>4 DEF IInv

\* A caller gets a free slot at once.
LEMMA AcquireFreeStep ==
  ASSUME IInv, NEW c \in Callers, pc[c] = "idle", running < Limit,
         running' = running + 1,
         pc' = [pc EXCEPT ![c] = "granted"],
         UNCHANGED waiting
  PROVE  IInv'
<1>1. TypeOK'
  BY DEF IInv, TypeOK
<1>2. Holders' = Holders \cup {c} /\ c \notin Holders
  BY DEF IInv, TypeOK, Holders
<1>3. IsFiniteSet(Holders') /\ SlotsExact'
  BY <1>2, FS_AddElement, SemaphoreAssumption DEF IInv, SlotsExact, TypeOK, SemaphoreAssumption
<1>4. waiting = <<>>
  BY SemaphoreAssumption DEF IInv, WorkConserving, TypeOK, SemaphoreAssumption
<1>5. WorkConserving'
  BY <1>4 DEF WorkConserving
<1>6. QueueIsWaiters'
  BY DEF IInv, TypeOK, QueueIsWaiters
<1> QED
  BY <1>1, <1>3, <1>5, <1>6 DEF IInv

\* A caller that finds no slot queues.
LEMMA AcquireQueueStep ==
  ASSUME IInv, NEW c \in Callers, pc[c] = "idle", running >= Limit,
         waiting' = Append(waiting, c),
         pc' = [pc EXCEPT ![c] = "waiting"],
         UNCHANGED running
  PROVE  IInv'
<1>1. TypeOK'
  BY AppendFacts DEF IInv, TypeOK
<1>2. Holders' = Holders
  BY DEF IInv, TypeOK, Holders
<1>3. IsFiniteSet(Holders') /\ SlotsExact'
  BY <1>2 DEF IInv, SlotsExact
<1>4. WorkConserving'
  BY SemaphoreAssumption DEF IInv, WorkConserving, SlotsExact, TypeOK, SemaphoreAssumption
<1>5. QueueIsWaiters'
  <2>1. /\ Len(waiting) \in Nat
        /\ Len(waiting') = Len(waiting) + 1
        /\ \A i \in 1 .. Len(waiting) : waiting'[i] = waiting[i]
        /\ waiting'[Len(waiting) + 1] = c
    BY AppendFacts DEF IInv, TypeOK
  <2>2. \A i \in 1 .. Len(waiting) : waiting[i] # c
    BY DEF IInv, QueueIsWaiters
  <2>3. \A i \in 1 .. Len(waiting') : i \in 1 .. Len(waiting) \/ i = Len(waiting) + 1
    BY <2>1
  <2>4. \A i, j \in 1 .. Len(waiting') : waiting'[i] = waiting'[j] => i = j
    BY <2>1, <2>2, <2>3 DEF IInv, QueueIsWaiters
  <2>5. ASSUME NEW d \in Callers
        PROVE  pc'[d] = "waiting" <=> \E i \in 1 .. Len(waiting') : waiting'[i] = d
    <3>1. CASE d = c
      <4>1. pc'[d] = "waiting" /\ Len(waiting) + 1 \in 1 .. Len(waiting')
        BY <2>1, <3>1 DEF IInv, TypeOK
      <4> QED
        BY <2>1, <3>1, <4>1
    <3>2. CASE d # c
      <4>1. pc'[d] = pc[d]
        BY <3>2 DEF IInv, TypeOK
      <4>2. (\E i \in 1 .. Len(waiting') : waiting'[i] = d)
              <=> \E i \in 1 .. Len(waiting) : waiting[i] = d
        BY <2>1, <2>3, <3>2
      <4> QED
        BY <4>1, <4>2 DEF IInv, QueueIsWaiters
    <3> QED
      BY <3>1, <3>2
  <2> QED
    BY <2>4, <2>5 DEF QueueIsWaiters
<1> QED
  BY <1>1, <1>3, <1>4, <1>5 DEF IInv

\* The slot of c goes to the head of the queue.
LEMMA HandOverStep ==
  ASSUME IInv, NEW c \in Callers, pc[c] = "inside", waiting # <<>>,
         waiting' = Tail(waiting),
         pc' = [pc EXCEPT ![c] = "idle", ![Head(waiting)] = "granted"],
         UNCHANGED running
  PROVE  IInv'
<1> DEFINE h == Head(waiting)
<1>1. /\ h \in Callers
      /\ h = waiting[1]
      /\ Len(waiting) \in Nat \ {0}
      /\ waiting' \in Seq(Callers)
      /\ Len(waiting') = Len(waiting) - 1
      /\ \A i \in 1 .. Len(waiting) - 1 : waiting'[i] = waiting[i + 1]
  BY TailFacts DEF IInv, TypeOK
<1> HIDE DEF h
<1>2. pc' = [pc EXCEPT ![c] = "idle", ![h] = "granted"]
  BY DEF h
<1>3. pc[h] = "waiting" /\ h # c
  BY <1>1 DEF IInv, QueueIsWaiters
<1>4. TypeOK'
  BY <1>1, <1>2 DEF IInv, TypeOK
<1>5. /\ Holders' = (Holders \ {c}) \cup {h}
      /\ c \in Holders
      /\ h \notin Holders
  BY <1>1, <1>2, <1>3 DEF IInv, TypeOK, Holders
<1>6. IsFiniteSet(Holders') /\ SlotsExact'
  BY <1>5, SwapElement DEF IInv, SlotsExact
<1>7. WorkConserving'
  BY DEF IInv, WorkConserving
<1>8. QueueIsWaiters'
  <2>1. \A i, j \in 1 .. Len(waiting') : waiting'[i] = waiting'[j] => i = j
    BY <1>1 DEF IInv, QueueIsWaiters
  <2>2. ASSUME NEW d \in Callers
        PROVE  pc'[d] = "waiting" <=> \E i \in 1 .. Len(waiting') : waiting'[i] = d
    <3>1. CASE d = h
      <4>1. pc'[d] # "waiting"
        BY <1>1, <1>2, <1>3, <3>1 DEF IInv, TypeOK
      <4>2. \A i \in 1 .. Len(waiting') : waiting'[i] # h
        BY <1>1 DEF IInv, QueueIsWaiters
      <4> QED
        BY <3>1, <4>1, <4>2
    <3>2. CASE d # h
      <4>1. pc'[d] = "waiting" <=> pc[d] = "waiting"
        BY <1>1, <1>2, <3>2 DEF IInv, TypeOK
      <4>2. ASSUME NEW i \in 1 .. Len(waiting), waiting[i] = d
            PROVE  \E k \in 1 .. Len(waiting') : waiting'[k] = d
        <5>1. i # 1
          BY <1>1, <3>2, <4>2
        <5>2. i - 1 \in 1 .. Len(waiting') /\ waiting'[i - 1] = d
          BY <1>1, <4>2, <5>1
        <5> QED
          BY <5>2
      <4>3. ASSUME NEW i \in 1 .. Len(waiting'), waiting'[i] = d
            PROVE  \E k \in 1 .. Len(waiting) : waiting[k] = d
        <5>1. i + 1 \in 1 .. Len(waiting) /\ waiting[i + 1] = d
          BY <1>1, <4>3
        <5> QED
          BY <5>1
      <4> QED
        BY <4>1, <4>2, <4>3 DEF IInv, QueueIsWaiters
    <3> QED
      BY <3>1, <3>2
  <2> QED
    BY <2>1, <2>2 DEF QueueIsWaiters
<1> QED
  BY <1>4, <1>6, <1>7, <1>8 DEF IInv

\* With nobody queued the slot of c becomes free.
LEMMA FreeStep ==
  ASSUME IInv, NEW c \in Callers, pc[c] = "inside", waiting = <<>>,
         running' = running - 1,
         pc' = [pc EXCEPT ![c] = "idle"],
         UNCHANGED waiting
  PROVE  IInv'
<1>1. Holders' = Holders \ {c} /\ c \in Holders
  BY DEF IInv, TypeOK, Holders
<1>2. /\ IsFiniteSet(Holders')
      /\ Cardinality(Holders') = Cardinality(Holders) - 1
      /\ Cardinality(Holders') \in Nat
  BY <1>1, FS_RemoveElement, FS_CardinalityType DEF IInv
<1>3. TypeOK'
  BY <1>2 DEF IInv, TypeOK, SlotsExact
<1>4. SlotsExact'
  BY <1>2, SemaphoreAssumption DEF IInv, TypeOK, SlotsExact, SemaphoreAssumption
<1>5. WorkConserving' /\ QueueIsWaiters'
  BY DEF IInv, TypeOK, WorkConserving, QueueIsWaiters
<1> QED
  BY <1>2, <1>3, <1>4, <1>5 DEF IInv

LEMMA StepIInv == IInv /\ [Next]_semVars => IInv'
<1> SUFFICES ASSUME IInv, [Next]_semVars PROVE IInv'
  OBVIOUS
<1>1. ASSUME NEW c \in Callers, Acquire(c) PROVE IInv'
  BY <1>1, AcquireFreeStep, AcquireQueueStep DEF Acquire
<1>2. ASSUME NEW c \in Callers, Enter(c) PROVE IInv'
  <2>1. Holders' = Holders
    BY <1>2 DEF Enter, IInv, TypeOK, Holders
  <2>2. TypeOK' /\ WorkConserving'
    BY <1>2 DEF Enter, IInv, TypeOK, WorkConserving
  <2>3. SlotsExact'
    BY <1>2, <2>1 DEF Enter, IInv, SlotsExact
  <2>4. QueueIsWaiters'
    BY <1>2 DEF Enter, IInv, TypeOK, QueueIsWaiters
  <2> QED
    BY <2>1, <2>2, <2>3, <2>4 DEF IInv
<1>3. ASSUME NEW c \in Callers, Release(c) PROVE IInv'
  BY <1>3, HandOverStep, FreeStep DEF Release
<1>4. CASE UNCHANGED semVars
  BY <1>4 DEF semVars, IInv, TypeOK, Holders, SlotsExact, WorkConserving, QueueIsWaiters
<1> QED
  BY <1>1, <1>2, <1>3, <1>4 DEF Next

LEMMA Invariance == Safety => []IInv
<1> QED
  BY InitIInv, StepIInv, PTL DEF Safety

\* At most Limit callers hold a slot, no slot is free while someone queues, and
\* the queue is exactly the waiting callers.
THEOREM SemaphoreSafe == Spec => [](TypeOK /\ SlotsExact /\ WorkConserving /\ QueueIsWaiters)
<1>1. IInv => TypeOK /\ SlotsExact /\ WorkConserving /\ QueueIsWaiters
  BY DEF IInv
<1> QED
  BY <1>1, Invariance, PTL DEF Spec

\* No wakeup is lost: nobody queues while a slot is free.
THEOREM WorkConservingHolds == Spec => []WorkConserving
<1> QED
  BY SemaphoreSafe, PTL

-----------------------------------------------------------------------------
\* The queue never changes its order.
LEMMA OrderKept ==
  ASSUME IInv, [Next]_semVars, NEW c \in Callers, NEW d \in Callers, Before(c, d)
  PROVE  Before(c, d)' \/ pc'[c] = "granted"
<1>1. PICK i, j \in 1 .. Len(waiting) : i < j /\ waiting[i] = c /\ waiting[j] = d
  BY DEF Before
<1>2. CASE waiting' = waiting
  BY <1>2 DEF Before
<1>3. ASSUME NEW e \in Callers, waiting' = Append(waiting, e)
      PROVE  Before(c, d)'
  <2>1. /\ Len(waiting) \in Nat
        /\ Len(waiting') = Len(waiting) + 1
        /\ \A k \in 1 .. Len(waiting) : waiting'[k] = waiting[k]
    BY <1>3, AppendFacts DEF IInv, TypeOK
  <2>2. i \in 1 .. Len(waiting') /\ j \in 1 .. Len(waiting')
    BY <1>1, <2>1
  <2>3. i < j /\ waiting'[i] = c /\ waiting'[j] = d
    BY <1>1, <2>1
  <2> QED
    BY <2>2, <2>3 DEF Before
<1>4. ASSUME NEW e \in Callers, pc[e] = "inside", waiting # <<>>,
             waiting' = Tail(waiting),
             pc' = [pc EXCEPT ![e] = "idle", ![Head(waiting)] = "granted"]
      PROVE  Before(c, d)' \/ pc'[c] = "granted"
  <2>1. /\ Head(waiting) = waiting[1]
        /\ Len(waiting) \in Nat \ {0}
        /\ Len(waiting') = Len(waiting) - 1
        /\ \A k \in 1 .. Len(waiting) - 1 : waiting'[k] = waiting[k + 1]
    BY <1>4, TailFacts DEF IInv, TypeOK
  <2>2. CASE i = 1
    BY <1>1, <1>4, <2>1, <2>2 DEF IInv, TypeOK
  <2>3. CASE i # 1
    <3>1. i - 1 \in 1 .. Len(waiting') /\ j - 1 \in 1 .. Len(waiting')
      BY <1>1, <2>1, <2>3
    <3>2. i - 1 < j - 1 /\ waiting'[i - 1] = c /\ waiting'[j - 1] = d
      BY <1>1, <2>1, <2>3
    <3> QED
      BY <3>1, <3>2 DEF Before
  <2> QED
    BY <2>2, <2>3
<1>5. ASSUME NEW e \in Callers, Acquire(e)
      PROVE  waiting' = waiting \/ waiting' = Append(waiting, e)
  BY <1>5 DEF Acquire
<1>6. ASSUME NEW e \in Callers, Enter(e) PROVE waiting' = waiting
  BY <1>6 DEF Enter
<1>7. ASSUME NEW e \in Callers, Release(e)
      PROVE  Before(c, d)' \/ pc'[c] = "granted"
  BY <1>2, <1>4, <1>7 DEF Release
<1> QED
  BY <1>2, <1>3, <1>5, <1>6, <1>7 DEF Next, semVars

\* Nobody overtakes a waiter by calling later: the slots are all taken while it
\* waits, so the late caller queues, at the end.
LEMMA LateComersQueue ==
  ASSUME IInv, [Next]_semVars, NEW c \in Callers, NEW d \in Callers,
         pc[c] = "waiting", pc[d] = "idle"
  PROVE  pc'[d] = "idle" \/ Before(c, d)'
<1>1. PICK i \in 1 .. Len(waiting) : waiting[i] = c
  BY DEF IInv, QueueIsWaiters
<1>2. waiting # <<>> /\ Len(waiting) \in Nat
  BY <1>1 DEF IInv, TypeOK
<1>3. running = Limit
  BY <1>2 DEF IInv, WorkConserving
<1>4. ASSUME Acquire(d) PROVE Before(c, d)'
  <2>1. waiting' = Append(waiting, d)
    BY <1>3, <1>4, SemaphoreAssumption DEF Acquire, SemaphoreAssumption
  <2>2. /\ Len(waiting') = Len(waiting) + 1
        /\ waiting'[i] = c
        /\ waiting'[Len(waiting) + 1] = d
    BY <1>1, <2>1, AppendFacts DEF IInv, TypeOK
  <2>3. /\ i \in 1 .. Len(waiting')
        /\ Len(waiting) + 1 \in 1 .. Len(waiting')
        /\ i < Len(waiting) + 1
    BY <1>1, <1>2, <2>2
  <2> QED
    BY <2>2, <2>3 DEF Before
<1>5. ASSUME NEW e \in Callers, e # d, Acquire(e) PROVE pc'[d] = "idle"
  BY <1>5 DEF Acquire, IInv, TypeOK
<1>6. ASSUME NEW e \in Callers, Enter(e) PROVE pc'[d] = "idle"
  BY <1>6 DEF Enter, IInv, TypeOK
<1>7. ASSUME NEW e \in Callers, Release(e) PROVE pc'[d] = "idle"
  <2>1. Head(waiting) \in Callers /\ Head(waiting) = waiting[1] /\ 1 \in 1 .. Len(waiting)
    BY <1>2, TailFacts DEF IInv, TypeOK
  <2>2. pc[Head(waiting)] = "waiting"
    BY <2>1 DEF IInv, QueueIsWaiters
  <2> QED
    BY <1>2, <1>7, <2>1, <2>2 DEF Release, IInv, TypeOK
<1>8. CASE UNCHANGED semVars
  BY <1>8 DEF semVars
<1> QED
  BY <1>4, <1>5, <1>6, <1>7, <1>8 DEF Next

\* Slots are granted in the order the calls arrived.
THEOREM FirstComeFirstServedHolds == Spec => FirstComeFirstServed
<1> DEFINE InOrder == \A c, d \in Callers :
             pc[c] = "waiting" /\ Behind(c, d) => Behind(c, d)' \/ pc'[c] = "granted"
<1>1. IInv /\ [Next]_semVars => InOrder
  <2> SUFFICES ASSUME IInv, [Next]_semVars, NEW c \in Callers, NEW d \in Callers,
                      pc[c] = "waiting", Behind(c, d)
               PROVE  Behind(c, d)' \/ pc'[c] = "granted"
    OBVIOUS
  <2>1. CASE Before(c, d)
    BY <2>1, OrderKept DEF Behind
  <2>2. CASE pc[d] = "idle"
    BY <2>2, LateComersQueue DEF Behind
  <2> QED
    BY <2>1, <2>2 DEF Behind
<1>2. IInv /\ [Next]_semVars => [InOrder]_semVars
  BY <1>1
<1> QED
  BY <1>2, Invariance, PTL DEF Spec, Safety, FirstComeFirstServed

-----------------------------------------------------------------------------
\* The semaphore implements the safety of the bounded service: entering fn()
\* is being served, and a caller that enters leaves room under the limit.
THEOREM ImplementsBoundedService == Spec => Service!AbsSafety
<1> DEFINE phase == [c \in Callers |-> CASE pc[c] = "idle" -> "idle"
                                         [] pc[c] = "inside" -> "served"
                                         [] OTHER -> "asked"]
<1>1. Init => Service!AbsInit
  BY DEF Init, Service!AbsInit
<1>2. IInv /\ [Next]_semVars => [Service!AbsNext]_phase
  <2> SUFFICES ASSUME IInv, [Next]_semVars
               PROVE  Service!AbsNext \/ phase' = phase
    OBVIOUS
  <2>0. pc \in [Callers -> {"idle", "waiting", "granted", "inside"}]
    BY DEF IInv, TypeOK
  <2>1. ASSUME NEW c \in Callers, Acquire(c) PROVE Service!Ask(c)
    <3>1. pc[c] = "idle" /\ (pc' = [pc EXCEPT ![c] = "granted"] \/ pc' = [pc EXCEPT ![c] = "waiting"])
      BY <2>1 DEF Acquire
    <3> QED
      BY <2>0, <3>1 DEF Service!Ask
  <2>2. ASSUME NEW c \in Callers, Enter(c) PROVE Service!Serve(c)
    <3>1. pc[c] = "granted" /\ pc' = [pc EXCEPT ![c] = "inside"]
      BY <2>2 DEF Enter
    <3>2. Service!Served = {d \in Callers : pc[d] = "inside"}
      BY <2>0 DEF Service!Served
    <3>3. Service!Served \subseteq Holders \ {c} /\ c \in Holders
      BY <3>1, <3>2 DEF Holders
    <3>4. /\ IsFiniteSet(Holders \ {c})
          /\ Cardinality(Holders \ {c}) = Cardinality(Holders) - 1
      BY <3>3, FS_RemoveElement DEF IInv
    <3>5. Cardinality(Service!Served) <= Cardinality(Holders \ {c})
      BY <3>3, <3>4, FS_Subset
    <3>6. Service!Served \subseteq Holders /\ IsFiniteSet(Holders)
      BY <3>3 DEF IInv
    <3>7. Cardinality(Service!Served) \in Nat /\ Cardinality(Holders) \in Nat
      BY <3>6, FS_Subset, FS_CardinalityType
    <3>8. Cardinality(Service!Served) < Limit
      BY <3>4, <3>5, <3>7, SemaphoreAssumption DEF IInv, SlotsExact, SemaphoreAssumption
    <3>9. phase[c] = "asked"
      BY <3>1
    <3>10. phase' = [phase EXCEPT ![c] = "served"]
      BY <2>0, <3>1
    <3>11. Service!Cardinality(Service!Served) = Cardinality(Service!Served)
      BY DEF Service!Cardinality, Cardinality, Service!IsFiniteSet, IsFiniteSet
    <3> QED
      BY <3>8, <3>9, <3>10, <3>11 DEF Service!Serve
  <2>3. ASSUME NEW c \in Callers, Release(c) PROVE Service!Leave(c)
    <3>1. CASE waiting = <<>>
      BY <2>0, <2>3, <3>1 DEF Release, Service!Leave
    <3>2. CASE waiting # <<>>
      <4> DEFINE h == Head(waiting)
      <4>1. h \in Callers /\ h = waiting[1] /\ Len(waiting) \in Nat \ {0}
        BY <3>2, TailFacts DEF IInv, TypeOK
      <4>2. pc[c] = "inside" /\ pc' = [pc EXCEPT ![c] = "idle", ![h] = "granted"]
        BY <2>3, <3>2 DEF Release
      <4> HIDE DEF h
      <4>3. pc[h] = "waiting" /\ h # c
        BY <4>1, <4>2 DEF IInv, QueueIsWaiters
      <4> QED
        BY <2>0, <4>1, <4>2, <4>3 DEF Service!Leave
    <3> QED
      BY <3>1, <3>2
  <2>4. CASE UNCHANGED semVars
    BY <2>4 DEF semVars
  <2> QED
    BY <2>1, <2>2, <2>3, <2>4 DEF Next, Service!AbsNext
<1> QED
  BY <1>1, <1>2, Invariance, PTL DEF Spec, Safety, Service!AbsSafety
=============================================================================
