------------------------------ MODULE Semaphore ------------------------------
(***************************************************************************)
(* packages/api/src/infrastructure/util/Semaphore.ts, which bounds the     *)
(* engine verifications of EngineAdapter.verify.  JavaScript runs a call   *)
(* to completion up to its next await, so acquire() and release() are      *)
(* atomic; a caller resumes from an await in a later step, and may find    *)
(* that others ran in between.  A caller stands for a request and, once it *)
(* is back to idle, for a later request.                                   *)
(***************************************************************************)
EXTENDS Integers, Sequences, FiniteSets

CONSTANTS Callers, Limit

ASSUME SemaphoreAssumption == Limit \in Nat \ {0}    \* else the constructor throws

VARIABLES
  waiting,   \* resolve functions of the queued acquire() promises
  running,
  pc         \* where run() is: "idle", "waiting" and "granted" at the await of
             \* acquire() before and after its promise resolved, "inside" fn

semVars == <<waiting, running, pc>>

Init ==
  /\ waiting = <<>>
  /\ running = 0
  /\ pc = [c \in Callers |-> "idle"]

AcquireBarging(c) ==       \* mutant: a free count is never checked against the limit
  /\ pc[c] = "idle"
  /\ running' = running + 1
  /\ pc' = [pc EXCEPT ![c] = "granted"]
  /\ UNCHANGED waiting

AcquireLifo(c) ==          \* mutant: unshift instead of push
  /\ pc[c] = "idle"
  /\ \/ /\ running < Limit
        /\ running' = running + 1
        /\ pc' = [pc EXCEPT ![c] = "granted"]
        /\ UNCHANGED waiting
     \/ /\ running >= Limit
        /\ waiting' = <<c>> \o waiting
        /\ pc' = [pc EXCEPT ![c] = "waiting"]
        /\ UNCHANGED running

\* run(fn) up to `await this.acquire()`.
Acquire(c) ==
  /\ pc[c] = "idle"
  /\ \/ /\ running < Limit
        /\ running' = running + 1
        /\ pc' = [pc EXCEPT ![c] = "granted"]
        /\ UNCHANGED waiting
     \/ /\ running >= Limit
        /\ waiting' = Append(waiting, c)
        /\ pc' = [pc EXCEPT ![c] = "waiting"]
        /\ UNCHANGED running

\* The await of acquire() resumes and calls fn().
Enter(c) ==
  /\ pc[c] = "granted"
  /\ pc' = [pc EXCEPT ![c] = "inside"]
  /\ UNCHANGED <<waiting, running>>

ReleaseForgets(c) ==       \* mutant: release() never wakes a waiter
  /\ pc[c] = "inside"
  /\ running' = running - 1
  /\ pc' = [pc EXCEPT ![c] = "idle"]
  /\ UNCHANGED waiting

\* fn() settles, with a result or an error, and finally calls release(): the
\* slot goes to the oldest waiter without ever becoming free.
Release(c) ==
  /\ pc[c] = "inside"
  /\ \/ /\ waiting # <<>>
        /\ waiting' = Tail(waiting)
        /\ pc' = [pc EXCEPT ![c] = "idle", ![Head(waiting)] = "granted"]
        /\ UNCHANGED running
     \/ /\ waiting = <<>>
        /\ running' = running - 1
        /\ pc' = [pc EXCEPT ![c] = "idle"]
        /\ UNCHANGED waiting

Next == \E c \in Callers : Acquire(c) \/ Enter(c) \/ Release(c)

Safety   == Init /\ [][Next]_semVars
\* A resolved promise resumes, and an engine verification ends.
Fairness == \A c \in Callers : WF_semVars(Enter(c)) /\ WF_semVars(Release(c))
Spec     == Safety /\ Fairness

-----------------------------------------------------------------------------
Holders == {c \in Callers : pc[c] \in {"granted", "inside"}}

TypeOK ==
  /\ waiting \in Seq(Callers)
  /\ running \in Nat
  /\ pc \in [Callers -> {"idle", "waiting", "granted", "inside"}]

\* The counter is exactly the number of callers that own a slot, through every
\* hand-over, and never exceeds the limit.
SlotsExact ==
  /\ running = Cardinality(Holders)
  /\ running <= Limit

\* Nobody queues while a slot is free: no wakeup is lost.
WorkConserving == waiting # <<>> => running = Limit

\* The queue holds each waiting caller once and nobody else.
QueueIsWaiters ==
  /\ \A c \in Callers : pc[c] = "waiting" <=> \E i \in 1 .. Len(waiting) : waiting[i] = c
  /\ \A i, j \in 1 .. Len(waiting) : waiting[i] = waiting[j] => i = j

Before(c, d) ==
  \E i, j \in 1 .. Len(waiting) : i < j /\ waiting[i] = c /\ waiting[j] = d

\* Slots are granted in the order of the calls: as long as c waits, a caller d
\* that came after it, or has not called yet, stays behind it.
Behind(c, d) == pc[d] = "idle" \/ Before(c, d)

FirstComeFirstServed ==
  [][\A c, d \in Callers :
       pc[c] = "waiting" /\ Behind(c, d) => Behind(c, d)' \/ pc'[c] = "granted"]_semVars

\* Every caller that queues gets to run its function.
EveryCallerServed == \A c \in Callers : pc[c] = "waiting" ~> pc[c] = "inside"

\* run() as a bounded service: a caller is served while it is inside fn().
Service == INSTANCE BoundedService WITH
  phase <- [c \in Callers |-> CASE pc[c] = "idle" -> "idle"
                                [] pc[c] = "inside" -> "served"
                                [] OTHER -> "asked"]
ServiceSpec == Service!AbsSpec
=============================================================================
