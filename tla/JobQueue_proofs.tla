---------------------------- MODULE JobQueue_proofs ----------------------------
(***************************************************************************)
(* Proofs about the job queue for any requests, tenants, keys, callers and *)
(* limits, whether or not two callers dispatch one job at once.            *)
(***************************************************************************)
EXTENDS JobQueue, FiniteSetTheorems, TLAPS

Stages == {"new", "chained", "searched", "settling", "returned"}
Places == {"idle", "loaded", "admitted", "working", "backoff", "finally"}

JobTypeOK ==
  /\ store \in [Requests -> ProofJob \cup {None}]
  /\ stage \in [Requests -> Stages]
  /\ prior \in [Requests -> Requests \cup {None}]
  /\ inflight \in [DedupKeys -> Requests \cup {None}]
  /\ found \in [Requests -> Requests \cup {None}]
  /\ activeWorkers \in Int
  /\ perTenantWorkers \in [Tenants -> 0 .. MaxWorkerPerTenant]
  /\ pc \in [Dispatchers -> Places]
  /\ job \in [Dispatchers -> Requests \cup {None}]
  /\ copy \in [Dispatchers -> ProofJob \cup {None}]
  /\ tenantWorkers \in [Dispatchers -> 0 .. MaxWorkerPerTenant]

\* Whatever a call refers to is stored: jobs are never removed.
RefersToStored ==
  /\ \A r \in Requests :
       /\ stage[r] \in {"settling", "returned"} => found[r] \in Stored
       /\ stage[r] = "searched" /\ found[r] # None => found[r] \in Stored
  /\ \A d \in Dispatchers :
       pc[d] # "idle" => /\ job[d] \in Stored
                         /\ copy[d] \in ProofJob

\* A tenant count that was read below the limit is still written back below it.
ReadBelowLimit ==
  \A d \in Dispatchers : pc[d] = "admitted" => tenantWorkers[d] < MaxWorkerPerTenant

Sound ==
  /\ JobTypeOK
  /\ RefersToStored
  /\ ReadBelowLimit

-----------------------------------------------------------------------------
\* What putting a record for a stored job does to the set of stored jobs.
LEMMA PutKeepsStored ==
  ASSUME JobTypeOK, NEW j \in Stored, NEW rec \in ProofJob,
         store' = [store EXCEPT ![j] = rec]
  PROVE  /\ Stored' = Stored
         /\ store' \in [Requests -> ProofJob \cup {None}]
<1> QED
  BY NoneIsNoJob DEF JobTypeOK, Stored

\* What storing a new job does to it.
LEMMA CreateAddsStored ==
  ASSUME JobTypeOK, NEW r \in Requests, store' = [store EXCEPT ![r] = NewJob]
  PROVE  /\ Stored' = Stored \cup {r}
         /\ store' \in [Requests -> ProofJob \cup {None}]
         /\ NewJob \in ProofJob
<1>1. NewJob \in ProofJob
  BY DEF NewJob, ProofJob, Statuses, Categories
<1> QED
  BY <1>1, NoneIsNoJob DEF JobTypeOK, Stored

LEMMA InitSound == Init => Sound
<1> QED
  BY JobQueueAssumption
  DEF Init, Sound, JobTypeOK, RefersToStored, ReadBelowLimit, Stages, Places, DedupKeys, Stored

LEMMA EnqueueSound ==
  ASSUME Sound, NEW r \in Requests, Enqueue(r)
  PROVE  Sound'
<1> USE DEF Sound
<1>0. DedupKey(r) \in DedupKeys \/ ~Keyed(r)
  BY JobQueueAssumption DEF DedupKey, DedupKeys, Keyed
<1>1. CASE EnqueuePlain(r)
  <2>1. /\ Stored' = Stored \cup {r}
        /\ store' \in [Requests -> ProofJob \cup {None}]
    BY <1>1, CreateAddsStored DEF EnqueuePlain
  <2>2. JobTypeOK'
    BY <1>1, <2>1 DEF EnqueuePlain, JobTypeOK, Stages, dispatchVars
  <2>3. RefersToStored'
    BY <1>1, <2>1 DEF EnqueuePlain, JobTypeOK, RefersToStored, dispatchVars
  <2> QED
    BY <1>1, <2>2, <2>3 DEF EnqueuePlain, ReadBelowLimit, dispatchVars
<1>2. CASE EnqueueChain(r)
  <2>1. JobTypeOK' /\ Stored' = Stored
    BY <1>0, <1>2 DEF EnqueueChain, JobTypeOK, Stages, dispatchVars, storeVars, Stored
  <2>2. RefersToStored'
    BY <1>2, <2>1 DEF EnqueueChain, JobTypeOK, RefersToStored, dispatchVars
  <2> QED
    BY <1>2, <2>1, <2>2 DEF EnqueueChain, ReadBelowLimit, dispatchVars
<1>3. CASE EnqueueFind(r)
  <2>1. PICK e \in Stored \cup {None} : found' = [found EXCEPT ![r] = e]
    BY <1>3 DEF EnqueueFind, Stored
  <2>2. JobTypeOK' /\ Stored' = Stored
    BY <1>3, <2>1 DEF EnqueueFind, JobTypeOK, Stages, dispatchVars, storeVars, Stored
  <2>3. RefersToStored'
    BY <1>3, <2>1, <2>2 DEF EnqueueFind, JobTypeOK, RefersToStored, dispatchVars
  <2> QED
    BY <1>3, <2>2, <2>3 DEF EnqueueFind, ReadBelowLimit, dispatchVars
<1>4. CASE EnqueueCreate(r)
  <2>1. CASE found[r] # None
    <3>1. JobTypeOK' /\ Stored' = Stored
      BY <1>4, <2>1 DEF EnqueueCreate, JobTypeOK, Stages, dispatchVars, Stored
    <3>2. RefersToStored'
      BY <1>4, <2>1, <3>1 DEF EnqueueCreate, JobTypeOK, RefersToStored, dispatchVars
    <3> QED
      BY <1>4, <3>1, <3>2 DEF EnqueueCreate, ReadBelowLimit, dispatchVars
  <2>2. CASE found[r] = None
    <3>1. /\ Stored' = Stored \cup {r}
          /\ store' \in [Requests -> ProofJob \cup {None}]
      BY <1>4, <2>2, CreateAddsStored DEF EnqueueCreate
    <3>2. JobTypeOK'
      BY <1>4, <2>2, <3>1 DEF EnqueueCreate, JobTypeOK, Stages, dispatchVars
    <3>3. RefersToStored'
      BY <1>4, <2>2, <3>1 DEF EnqueueCreate, JobTypeOK, RefersToStored, dispatchVars
    <3> QED
      BY <1>4, <3>2, <3>3 DEF EnqueueCreate, ReadBelowLimit, dispatchVars
  <2> QED
    BY <2>1, <2>2
<1>5. CASE EnqueueReturn(r)
  <2>1. JobTypeOK' /\ Stored' = Stored
    BY <1>0, <1>5 DEF EnqueueReturn, JobTypeOK, Stages, dispatchVars, storeVars, Stored
  <2>2. RefersToStored'
    BY <1>5, <2>1 DEF EnqueueReturn, JobTypeOK, RefersToStored, dispatchVars
  <2> QED
    BY <1>5, <2>1, <2>2 DEF EnqueueReturn, ReadBelowLimit, dispatchVars
<1> QED
  BY <1>1, <1>2, <1>3, <1>4, <1>5 DEF Enqueue

LEMMA DispatchGetSound ==
  ASSUME Sound, NEW d \in Dispatchers, NEW j \in Requests, DispatchGet(d, j)
  PROVE  Sound'
<1> USE DEF Sound
<1>1. j \in Stored
  BY DEF DispatchGet, Known, RefersToStored
<1>2. store[j] \in ProofJob
  BY <1>1 DEF JobTypeOK, Stored
<1>3. JobTypeOK' /\ Stored' = Stored
  BY <1>2 DEF DispatchGet, JobTypeOK, Places, enqueueVars, storeVars, Stored
<1>4. RefersToStored'
  BY <1>1, <1>2, <1>3 DEF DispatchGet, JobTypeOK, RefersToStored, enqueueVars
<1> QED
  BY <1>3, <1>4 DEF DispatchGet, JobTypeOK, ReadBelowLimit

LEMMA DispatchResumesSound ==
  ASSUME Sound, NEW d \in Dispatchers, DispatchResumes(d)
  PROVE  Sound'
<1> USE DEF Sound
<1>0. pc[d] # "idle" => /\ job[d] \in Stored /\ job[d] \in Requests
                        /\ copy[d] \in ProofJob /\ Tenant(d) \in Tenants
  BY JobQueueAssumption DEF RefersToStored, Stored, Tenant
<1>1. CASE DispatchRefuse(d)
  <2>1. JobTypeOK' /\ Stored' = Stored
    BY <1>1 DEF DispatchRefuse, JobTypeOK, Places, enqueueVars, storeVars, Stored
  <2>2. RefersToStored'
    BY <1>1, <2>1 DEF DispatchRefuse, JobTypeOK, RefersToStored, enqueueVars
  <2> QED
    BY <1>1, <2>1, <2>2 DEF DispatchRefuse, JobTypeOK, ReadBelowLimit
<1>2. CASE DispatchAdmit(d)
  <2> DEFINE running == [copy[d] EXCEPT !.status = "RUNNING", !.attemptCount = @ + 1]
  <2>0. copy[d] \in ProofJob
    BY <1>0, <1>2 DEF DispatchAdmit
  <2>1. running \in ProofJob
    <3> DEFINE n == copy[d].attemptCount + 1
    <3>1. n \in Nat
      BY <2>0 DEF ProofJob
    <3> HIDE DEF n
    <3>2. [copy[d] EXCEPT !.status = "RUNNING", !.attemptCount = n] \in ProofJob
      BY <2>0, <3>1 DEF ProofJob, Statuses
    <3> QED
      BY <3>2 DEF n
  <2> HIDE DEF running
  <2>2. /\ copy' = [copy EXCEPT ![d] = running]
        /\ store' = [store EXCEPT ![job[d]] = running]
    BY <1>2 DEF DispatchAdmit, Admit, running
  <2>3. Stored' = Stored /\ store' \in [Requests -> ProofJob \cup {None}]
    BY <1>0, <1>2, <2>1, <2>2, PutKeepsStored DEF DispatchAdmit
  <2>4. perTenantWorkers[Tenant(d)] \in 0 .. MaxWorkerPerTenant - 1
    BY <1>0, <1>2, JobQueueAssumption DEF DispatchAdmit, HasRoom, JobTypeOK
  <2>5. JobTypeOK'
    BY <1>2, <2>1, <2>2, <2>3, <2>4, JobQueueAssumption
    DEF DispatchAdmit, Admit, JobTypeOK, Places, enqueueVars
  <2>6. RefersToStored'
    BY <1>0, <1>2, <2>1, <2>2, <2>3
    DEF DispatchAdmit, Admit, JobTypeOK, RefersToStored, enqueueVars
  <2>7. ReadBelowLimit'
    BY <1>2, <2>4, JobQueueAssumption DEF DispatchAdmit, Admit, JobTypeOK, ReadBelowLimit
  <2> QED
    BY <2>5, <2>6, <2>7
<1>3. CASE DispatchStart(d)
  <2>0. tenantWorkers[d] \in 0 .. MaxWorkerPerTenant /\ tenantWorkers[d] < MaxWorkerPerTenant
    BY <1>3 DEF DispatchStart, JobTypeOK, ReadBelowLimit
  <2>1. tenantWorkers[d] + 1 \in 0 .. MaxWorkerPerTenant
    BY <2>0, JobQueueAssumption
  <2> DEFINE counted == tenantWorkers[d] + 1
  <2> HIDE DEF counted
  <2>2. perTenantWorkers' = [perTenantWorkers EXCEPT ![Tenant(d)] = counted]
    BY <1>3 DEF DispatchStart, counted
  <2>3. activeWorkers' \in Int /\ counted \in 0 .. MaxWorkerPerTenant
    BY <1>3, <2>1 DEF DispatchStart, JobTypeOK, counted
  <2>4. JobTypeOK' /\ Stored' = Stored
    BY <1>3, <2>2, <2>3
    DEF DispatchStart, JobTypeOK, Places, enqueueVars, storeVars, Stored
  <2>5. RefersToStored'
    BY <1>3, <2>4 DEF DispatchStart, JobTypeOK, RefersToStored, enqueueVars
  <2> QED
    BY <1>3, <2>4, <2>5 DEF DispatchStart, JobTypeOK, ReadBelowLimit
<1>4. ASSUME NEW rec \in ProofJob, NEW p \in Places,
             pc[d] \in {"working", "backoff"}, p # "admitted",
             Put(d, rec), pc' = [pc EXCEPT ![d] = p],
             UNCHANGED <<enqueueVars, activeWorkers, perTenantWorkers, job, tenantWorkers>>
      PROVE  Sound'
  <2>1. Stored' = Stored /\ store' \in [Requests -> ProofJob \cup {None}]
    BY <1>0, <1>4, PutKeepsStored DEF Put
  <2>2. JobTypeOK'
    BY <1>4, <2>1 DEF Put, JobTypeOK, enqueueVars
  <2>3. RefersToStored'
    BY <1>0, <1>4, <2>1 DEF Put, JobTypeOK, RefersToStored, enqueueVars
  <2> QED
    BY <1>4, <2>2, <2>3 DEF JobTypeOK, ReadBelowLimit
<1>5. CASE DispatchComplete(d)
  <2>1. [copy[d] EXCEPT !.status = "COMPLETED"] \in ProofJob
    BY <1>0, <1>5 DEF DispatchComplete, ProofJob, Statuses
  <2> QED
    BY <1>4, <1>5, <2>1 DEF DispatchComplete, Places
<1>6. ASSUME NEW category \in Categories, DispatchFail(d, category)
      PROVE  Sound'
  <2> DEFINE again == category = "retryable" /\ copy[d].attemptCount < MaxAttempts
             failed == [copy[d] EXCEPT
                          !.status = "FAILED",
                          !.errorCategory = IF again \/ category = "failClosed"
                                            THEN category ELSE "permanent"]
  <2>1. failed \in ProofJob
    BY <1>0, <1>6 DEF DispatchFail, FailWith, ProofJob, Statuses, Categories
  <2>2. Put(d, failed) /\ pc' = [pc EXCEPT ![d] = IF again THEN "backoff" ELSE "finally"]
    BY <1>6 DEF DispatchFail, FailWith
  <2> HIDE DEF again, failed
  <2> QED
    BY <1>4, <1>6, <2>1, <2>2 DEF DispatchFail, FailWith, Places
<1>7. CASE DispatchRequeue(d)
  <2>1. [copy[d] EXCEPT !.status = "QUEUED"] \in ProofJob
    BY <1>0, <1>7 DEF DispatchRequeue, ProofJob, Statuses
  <2> QED
    BY <1>4, <1>7, <2>1 DEF DispatchRequeue, Places
<1>8. CASE DispatchReturn(d)
  <2>1. JobTypeOK' /\ Stored' = Stored
    BY <1>0, <1>8, JobQueueAssumption
    DEF DispatchReturn, Leave, JobTypeOK, Places, enqueueVars, storeVars, Stored
  <2>2. RefersToStored'
    BY <1>8, <2>1 DEF DispatchReturn, Leave, JobTypeOK, RefersToStored, enqueueVars
  <2> QED
    BY <1>8, <2>1, <2>2 DEF DispatchReturn, Leave, JobTypeOK, ReadBelowLimit
<1> QED
  BY <1>1, <1>2, <1>3, <1>5, <1>6, <1>7, <1>8 DEF DispatchResumes, WorkerSettles

LEMMA NextSound == Sound /\ [Next]_vars => Sound'
<1> SUFFICES ASSUME Sound, [Next]_vars PROVE Sound'
  OBVIOUS
<1>1. CASE UNCHANGED vars
  BY <1>1 DEF Sound, JobTypeOK, RefersToStored, ReadBelowLimit, Stored,
     vars, storeVars, enqueueVars, dispatchVars
<1> QED
  BY <1>1, EnqueueSound, DispatchGetSound, DispatchResumesSound DEF Next

LEMMA SoundHolds == Safety => []Sound
<1> QED
  BY InitSound, NextSound, PTL DEF Safety

-----------------------------------------------------------------------------
\* The counters.  That the calls counted are finitely many is part of the
\* invariant, so Dispatchers may be infinite.
CountersExact ==
  /\ IsFiniteSet(Counted)
  /\ WorkersExact
  /\ IdleTenantHasRoom

LEMMA InitCounters == Init => CountersExact
<1> SUFFICES ASSUME Init PROVE CountersExact
  OBVIOUS
<1>1. Counted = {}
  BY DEF Init, Counted
<1>2. WorkersExact /\ IsFiniteSet(Counted)
  BY <1>1, FS_EmptySet DEF Init, WorkersExact
<1>3. IdleTenantHasRoom
  BY JobQueueAssumption DEF Init, IdleTenantHasRoom
<1> QED
  BY <1>2, <1>3 DEF CountersExact

\* A step that moves no counter, no call into or out of Counted and no job of
\* a counted call leaves the counters exact.
LEMMA CountersUntouched ==
  ASSUME CountersExact, Counted' = Counted, UNCHANGED <<activeWorkers, perTenantWorkers>>,
         \A d \in Counted : job'[d] = job[d]
  PROVE  CountersExact'
<1> QED
  BY DEF CountersExact, WorkersExact, IdleTenantHasRoom, Tenant

LEMMA DispatchCounters ==
  ASSUME Sound, CountersExact, NEW d \in Dispatchers, DispatchResumes(d)
  PROVE  CountersExact'
<1> USE DEF Sound
<1>0. pc[d] # "idle" => Tenant(d) \in Tenants
  BY JobQueueAssumption DEF RefersToStored, Stored, Tenant
<1>1. CASE DispatchRefuse(d) \/ DispatchAdmit(d)
  <2>1. pc[d] = "loaded" /\ \E p \in {"idle", "admitted"} : pc' = [pc EXCEPT ![d] = p]
    BY <1>1 DEF DispatchRefuse, DispatchAdmit, Admit
  <2>2. Counted' = Counted /\ d \notin Counted
    BY <2>1 DEF JobTypeOK, Counted
  <2>3. job' = job \/ job' = [job EXCEPT ![d] = None]
    BY <1>1 DEF DispatchRefuse, DispatchAdmit, Admit
  <2>4. \A e \in Counted : job'[e] = job[e]
    BY <2>2, <2>3 DEF JobTypeOK, Counted
  <2> QED
    BY <1>1, <2>2, <2>4, CountersUntouched DEF DispatchRefuse, DispatchAdmit, Admit
<1>2. CASE DispatchStart(d)
  <2>1. Counted' = Counted \cup {d} /\ d \notin Counted
    BY <1>2 DEF DispatchStart, JobTypeOK, Counted
  <2>2. /\ IsFiniteSet(Counted')
        /\ Cardinality(Counted') = Cardinality(Counted) + 1
    BY <2>1, FS_AddElement DEF CountersExact
  <2>3. WorkersExact'
    BY <1>2, <2>2 DEF DispatchStart, CountersExact, WorkersExact
  <2>4. IdleTenantHasRoom'
    <3> SUFFICES ASSUME NEW t \in Tenants, \A e \in Counted' : Tenant(e)' # t
                 PROVE  perTenantWorkers'[t] < MaxWorkerPerTenant
      BY DEF IdleTenantHasRoom
    <3>1. Tenant(d) # t /\ \A e \in Counted : Tenant(e) # t
      BY <1>2, <2>1 DEF DispatchStart, Tenant
    <3>2. perTenantWorkers'[t] = perTenantWorkers[t]
      BY <1>2, <3>1 DEF DispatchStart, JobTypeOK
    <3> QED
      BY <3>1, <3>2 DEF CountersExact, IdleTenantHasRoom
  <2> QED
    BY <2>2, <2>3, <2>4 DEF CountersExact
<1>3. CASE WorkerSettles(d) \/ DispatchRequeue(d)
  <2>1. /\ pc[d] \in {"working", "backoff"}
        /\ \E p \in {"backoff", "finally"} : pc' = [pc EXCEPT ![d] = p]
    BY <1>3 DEF WorkerSettles, DispatchComplete, DispatchFail, FailWith, DispatchRequeue
  <2>2. Counted' = Counted
    BY <2>1 DEF JobTypeOK, Counted
  <2>3. UNCHANGED <<activeWorkers, perTenantWorkers, job>>
    BY <1>3 DEF WorkerSettles, DispatchComplete, DispatchFail, FailWith, DispatchRequeue
  <2> QED
    BY <2>2, <2>3, CountersUntouched
<1>4. CASE DispatchReturn(d)
  <2>1. Counted' = Counted \ {d} /\ d \in Counted
    BY <1>4 DEF DispatchReturn, Leave, JobTypeOK, Counted
  <2>2. /\ IsFiniteSet(Counted')
        /\ Cardinality(Counted') = Cardinality(Counted) - 1
    BY <2>1, FS_RemoveElement DEF CountersExact
  <2>3. WorkersExact'
    BY <1>4, <2>2 DEF DispatchReturn, CountersExact, WorkersExact
  <2>4. IdleTenantHasRoom'
    <3> SUFFICES ASSUME NEW t \in Tenants, \A e \in Counted' : Tenant(e)' # t
                 PROVE  perTenantWorkers'[t] < MaxWorkerPerTenant
      BY DEF IdleTenantHasRoom
    <3> DEFINE n == perTenantWorkers[t]
    <3>1. n \in 0 .. MaxWorkerPerTenant /\ MaxWorkerPerTenant \in Nat \ {0}
      BY JobQueueAssumption DEF JobTypeOK
    <3>2. CASE Tenant(d) = t
      <4>1. perTenantWorkers'[t] = IF n > 0 THEN n - 1 ELSE 0
        BY <1>4, <3>2 DEF DispatchReturn, JobTypeOK
      <4> QED
        BY <3>1, <4>1
    <3>3. CASE Tenant(d) # t
      <4>1. perTenantWorkers'[t] = n
        BY <1>4, <3>3 DEF DispatchReturn, JobTypeOK
      <4>2. \A e \in Counted \ {d} : Tenant(e)' = Tenant(e)
        BY <1>4 DEF DispatchReturn, Leave, JobTypeOK, Counted, Tenant
      <4>3. \A e \in Counted : Tenant(e) # t
        BY <2>1, <3>3, <4>2
      <4> QED
        BY <4>1, <4>3 DEF CountersExact, IdleTenantHasRoom
    <3> QED
      BY <3>2, <3>3
  <2> QED
    BY <2>2, <2>3, <2>4 DEF CountersExact
<1> QED
  BY <1>1, <1>2, <1>3, <1>4 DEF DispatchResumes

LEMMA NextCounters == Sound /\ CountersExact /\ [Next]_vars => CountersExact'
<1> SUFFICES ASSUME Sound, CountersExact, [Next]_vars PROVE CountersExact'
  OBVIOUS
<1>1. ASSUME UNCHANGED dispatchVars PROVE CountersExact'
  BY <1>1, CountersUntouched DEF dispatchVars, Counted
<1>2. ASSUME NEW r \in Requests, Enqueue(r) PROVE CountersExact'
  BY <1>1, <1>2
  DEF Enqueue, EnqueuePlain, EnqueueChain, EnqueueFind, EnqueueCreate, EnqueueReturn
<1>3. ASSUME NEW d \in Dispatchers, NEW j \in Requests, DispatchGet(d, j)
      PROVE  CountersExact'
  <2>1. Counted' = Counted /\ d \notin Counted
    BY <1>3 DEF DispatchGet, Sound, JobTypeOK, Counted
  <2>2. \A e \in Counted : job'[e] = job[e]
    BY <1>3, <2>1 DEF DispatchGet, Sound, JobTypeOK, Counted
  <2> QED
    BY <1>3, <2>1, <2>2, CountersUntouched DEF DispatchGet
<1> QED
  BY <1>1, <1>2, <1>3, DispatchCounters DEF Next, vars

LEMMA CountersHold == Safety => []CountersExact
<1> QED
  BY InitCounters, NextCounters, SoundHolds, PTL DEF Safety

-----------------------------------------------------------------------------
\* The attempts.  A record that may still be run, in the store or about to be
\* stored again, has an attempt to spare.
Spare(rec) ==
  /\ rec.attemptCount <= MaxAttempts
  /\ rec.status = "QUEUED" => rec.attemptCount < MaxAttempts

AttemptsSpared ==
  /\ \A r \in Stored : Spare(store[r])
  /\ \A d \in Dispatchers :
       /\ pc[d] # "idle" => Spare(copy[d])
       /\ pc[d] = "backoff" => copy[d].attemptCount < MaxAttempts

LEMMA NewJobSpare == Spare(NewJob)
<1> QED
  BY JobQueueAssumption DEF Spare, NewJob

LEMMA PutSpares ==
  ASSUME Sound, AttemptsSpared, NEW d \in Dispatchers, pc[d] # "idle",
         NEW rec \in ProofJob, Spare(rec), NEW p \in Places,
         p = "backoff" => rec.attemptCount < MaxAttempts,
         Put(d, rec), pc' = [pc EXCEPT ![d] = p]
  PROVE  AttemptsSpared'
<1>1. job[d] \in Stored
  BY DEF Sound, RefersToStored
<1>2. Stored' = Stored
  BY <1>1, PutKeepsStored DEF Put, Sound
<1>3. \A r \in Stored : Spare(store'[r])
  BY <1>1 DEF Put, AttemptsSpared, Sound, JobTypeOK, Stored
<1>4. \A e \in Dispatchers : /\ pc'[e] # "idle" => Spare(copy'[e])
                             /\ pc'[e] = "backoff" => copy'[e].attemptCount < MaxAttempts
  BY DEF Put, AttemptsSpared, Sound, JobTypeOK
<1> QED
  BY <1>2, <1>3, <1>4 DEF AttemptsSpared

LEMMA DispatchSpares ==
  ASSUME Sound, AttemptsSpared, NEW d \in Dispatchers, DispatchResumes(d)
  PROVE  AttemptsSpared'
<1>0. pc[d] # "idle" => /\ copy[d] \in ProofJob /\ Spare(copy[d])
  BY DEF Sound, RefersToStored, AttemptsSpared
<1>1. CASE DispatchRefuse(d)
  BY <1>1 DEF DispatchRefuse, AttemptsSpared, Sound, JobTypeOK, storeVars, Stored
<1>2. CASE DispatchAdmit(d)
  <2> DEFINE n == copy[d].attemptCount + 1
             running == [copy[d] EXCEPT !.status = "RUNNING", !.attemptCount = n]
  <2>0. copy[d] \in ProofJob /\ copy[d].attemptCount \in Nat /\ copy[d].status \in Statuses
    BY <1>0, <1>2 DEF DispatchAdmit, ProofJob
  <2>1. copy[d].status = "QUEUED"
    BY <1>2, <2>0 DEF DispatchAdmit, IsValidTransition, ValidTransitions, Statuses
  <2>2. n \in Nat /\ n <= MaxAttempts
    BY <1>0, <1>2, <2>0, <2>1, JobQueueAssumption DEF DispatchAdmit, Spare
  <2>3. Put(d, running) /\ pc' = [pc EXCEPT ![d] = "admitted"]
    BY <1>2 DEF DispatchAdmit, Admit, Put
  <2> HIDE DEF n
  <2>4. /\ running \in ProofJob
        /\ running.status = "RUNNING" /\ running.attemptCount = n
    BY <2>0, <2>2 DEF ProofJob, Statuses
  <2> HIDE DEF running
  <2>5. Spare(running)
    BY <2>2, <2>4 DEF Spare
  <2> QED
    BY <1>2, <2>3, <2>4, <2>5, PutSpares DEF DispatchAdmit, Places
<1>3. CASE DispatchStart(d)
  BY <1>3 DEF DispatchStart, AttemptsSpared, Sound, JobTypeOK, storeVars, Stored
<1>4. ASSUME pc[d] # "idle", NEW s \in Statuses,
             NEW c \in Categories \cup {"none"}, NEW p \in Places,
             s = "QUEUED" \/ p = "backoff" => copy[d].attemptCount < MaxAttempts,
             Put(d, [copy[d] EXCEPT !.status = s, !.errorCategory = c]),
             pc' = [pc EXCEPT ![d] = p]
      PROVE  AttemptsSpared'
  <2> DEFINE rec == [copy[d] EXCEPT !.status = s, !.errorCategory = c]
  <2>1. rec \in ProofJob /\ rec.status = s /\ rec.attemptCount = copy[d].attemptCount
    BY <1>0, <1>4 DEF ProofJob
  <2> HIDE DEF rec
  <2>2. Spare(rec)
    BY <1>0, <1>4, <2>1 DEF Spare
  <2> QED
    BY <1>4, <2>1, <2>2, PutSpares DEF rec
<1>5. ASSUME pc[d] # "idle", NEW s
      PROVE  /\ copy[d].errorCategory \in Categories \cup {"none"}
             /\ [copy[d] EXCEPT !.status = s]
                  = [copy[d] EXCEPT !.status = s, !.errorCategory = copy[d].errorCategory]
  BY <1>0, <1>5 DEF ProofJob
<1>6. CASE DispatchComplete(d)
  BY <1>4, <1>5, <1>6 DEF DispatchComplete, Statuses, Places
<1>7. ASSUME NEW category \in Categories, DispatchFail(d, category)
      PROVE  AttemptsSpared'
  <2> DEFINE again == category = "retryable" /\ copy[d].attemptCount < MaxAttempts
             c == IF again \/ category = "failClosed" THEN category ELSE "permanent"
             p == IF again THEN "backoff" ELSE "finally"
  <2>1. /\ Put(d, [copy[d] EXCEPT !.status = "FAILED", !.errorCategory = c])
        /\ pc' = [pc EXCEPT ![d] = p] /\ pc[d] # "idle"
    BY <1>7 DEF DispatchFail, FailWith
  <2>2. /\ c \in Categories \cup {"none"} /\ p \in Places
        /\ p = "backoff" => copy[d].attemptCount < MaxAttempts
    BY DEF Categories, Places
  <2> HIDE DEF again, c, p
  <2> QED
    BY <1>4, <2>1, <2>2 DEF Statuses
<1>8. CASE DispatchRequeue(d)
  <2>1. copy[d].attemptCount < MaxAttempts /\ pc[d] # "idle"
    BY <1>8 DEF DispatchRequeue, AttemptsSpared
  <2> QED
    BY <1>4, <1>5, <1>8, <2>1 DEF DispatchRequeue, Statuses, Places
<1>9. CASE DispatchReturn(d)
  BY <1>9 DEF DispatchReturn, Leave, AttemptsSpared, Sound, JobTypeOK, storeVars, Stored
<1> QED
  BY <1>1, <1>2, <1>3, <1>6, <1>7, <1>8, <1>9 DEF DispatchResumes, WorkerSettles

LEMMA NextAttempts == Sound /\ AttemptsSpared /\ [Next]_vars => AttemptsSpared'
<1> SUFFICES ASSUME Sound, AttemptsSpared, [Next]_vars PROVE AttemptsSpared'
  OBVIOUS
<1>1. ASSUME UNCHANGED <<store, pc, copy>> PROVE AttemptsSpared'
  BY <1>1 DEF AttemptsSpared, Stored
<1>2. ASSUME NEW r \in Requests, store' = [store EXCEPT ![r] = NewJob], UNCHANGED <<pc, copy>>
      PROVE  AttemptsSpared'
  BY <1>2, CreateAddsStored, NewJobSpare DEF AttemptsSpared, Sound, JobTypeOK, Stored
<1>3. ASSUME NEW r \in Requests, Enqueue(r) PROVE AttemptsSpared'
  BY <1>1, <1>2, <1>3
  DEF Enqueue, EnqueuePlain, EnqueueChain, EnqueueFind, EnqueueCreate, EnqueueReturn,
      storeVars, dispatchVars
<1>4. ASSUME NEW d \in Dispatchers, NEW j \in Requests, DispatchGet(d, j)
      PROVE  AttemptsSpared'
  <2>1. j \in Stored
    BY <1>4 DEF DispatchGet, Known, Sound, RefersToStored
  <2> QED
    BY <1>4, <2>1 DEF DispatchGet, AttemptsSpared, Sound, JobTypeOK, storeVars, Stored
<1> QED
  BY <1>1, <1>3, <1>4, DispatchSpares
  DEF Next, vars, storeVars, dispatchVars

LEMMA AttemptsHold == Safety => []AttemptsSpared
<1>1. Init => AttemptsSpared
  BY DEF Init, AttemptsSpared, Stored
<1> QED
  BY <1>1, NextAttempts, SoundHolds, PTL DEF Safety

-----------------------------------------------------------------------------
\* The chain of calls under one key.  The calls that are under way stand in
\* the order of some ranking: the last is the one in flight, and each but the
\* first is chained behind one that is still under way.  The ranking exists
\* only in the proof; without it a cycle of priors could not be excluded.
SameKey(r, s) == Keyed(r) /\ Keyed(s) /\ DedupKey(r) = DedupKey(s)

Pending == {r \in Requests : Keyed(r) /\ stage[r] \in {"chained", "searched", "settling"}}

Ranked(rank) ==
  /\ \A r \in Pending : /\ inflight[DedupKey(r)] \in Pending
                        /\ rank[r] <= rank[inflight[DedupKey(r)]]
  /\ \A k \in DedupKeys : inflight[k] # None => /\ inflight[k] \in Pending
                                                /\ DedupKey(inflight[k]) = k
  /\ \A r, s \in Pending : SameKey(r, s) =>
       /\ r # s => rank[r] # rank[s]
       /\ rank[s] < rank[r] => /\ prior[r] \in Pending /\ SameKey(prior[r], r)
                             /\ rank[s] <= rank[prior[r]]

Chained == \E rank \in [Requests -> Nat] : Ranked(rank)

\* A call goes on only after the one before it is over.
AwaitsPrior ==
  /\ \A r \in Requests : prior[r] # None => stage[prior[r]] # "new"
  /\ \A r \in Pending : stage[r] # "chained" => prior[r] \notin Pending

\* What the calls of one key have found and stored.
JobsOfKey ==
  /\ \A r \in Stored : stage[r] \in {"settling", "returned"}
  /\ \A r \in Requests :
       Keyed(r) /\ (stage[r] \in {"settling", "returned"} \/ (stage[r] = "searched" /\ found[r] # None))
         => SameKey(found[r], r)
  /\ \A r \in Requests :
       Keyed(r) /\ stage[r] = "searched" /\ found[r] = None
         => \A s \in Stored : ~SameKey(s, r)
  /\ \A r, s \in Stored : SameKey(r, s) => r = s

KeysInv == Chained /\ AwaitsPrior /\ JobsOfKey

LEMMA InitKeys == Init => KeysInv
<1> SUFFICES ASSUME Init PROVE KeysInv
  OBVIOUS
<1>1. Pending = {} /\ Stored = {}
  BY DEF Init, Pending, Stored
<1>2. Chained
  <2>1. [r \in Requests |-> 0] \in [Requests -> Nat]
    OBVIOUS
  <2>2. Ranked([r \in Requests |-> 0])
    BY <1>1 DEF Init, Ranked
  <2> QED
    BY <2>1, <2>2 DEF Chained
<1> QED
  BY <1>1, <1>2 DEF Init, KeysInv, AwaitsPrior, JobsOfKey

\* At most one call of a key is past waiting for the one before it.
LEMMA OneGoesOn ==
  ASSUME JobTypeOK, Chained, NEW r \in Pending, NEW s \in Pending, SameKey(r, s),
         prior[r] \notin Pending, prior[s] \notin Pending
  PROVE  r = s
<1>1. PICK rank \in [Requests -> Nat] : Ranked(rank)
  BY DEF Chained
<1>2. ASSUME r # s PROVE FALSE
  <2>1. rank[r] \in Nat /\ rank[s] \in Nat /\ rank[r] # rank[s]
    BY <1>1, <1>2 DEF Ranked, Pending
  <2>2. SameKey(s, r)
    BY DEF SameKey
  <2>3. ~(rank[r] < rank[s]) /\ ~(rank[s] < rank[r])
    BY <1>1, <2>2 DEF Ranked
  <2> QED
    BY <2>1, <2>3
<1> QED
  BY <1>2

LEMMA ChainKeys ==
  ASSUME Sound, KeysInv, NEW r \in Requests, EnqueueChain(r)
  PROVE  KeysInv'
<1> DEFINE k == DedupKey(r)
           q == inflight[k]
<1>0. /\ JobTypeOK /\ k \in DedupKeys /\ q \in Requests \cup {None}
      /\ r \notin Pending /\ Keyed(r) /\ None \notin Requests
  BY JobQueueAssumption DEF Sound, JobTypeOK, EnqueueChain, DedupKey, DedupKeys, Keyed, Pending
<1>1. /\ stage' = [stage EXCEPT ![r] = "chained"]
      /\ prior' = [prior EXCEPT ![r] = q]
      /\ inflight' = [inflight EXCEPT ![k] = r]
      /\ UNCHANGED <<store, found>> /\ stage[r] = "new"
  BY DEF EnqueueChain, storeVars
<1>2. Pending' = Pending \cup {r}
  BY <1>0, <1>1 DEF JobTypeOK, Pending
<1>3. Chained'
  <2>1. PICK rank \in [Requests -> Nat] : Ranked(rank)
    BY DEF KeysInv, Chained
  <2> DEFINE n == IF q = None THEN 0 ELSE rank[q] + 1
  <2>2. n \in Nat
    BY <1>0
  <2>N. PICK next \in [Requests -> Nat] : next = [rank EXCEPT ![r] = n]
    BY <2>2
  <2>3. q # None => q \in Pending /\ SameKey(q, r) /\ rank[q] \in Nat /\ rank[q] < n
    BY <1>0, <2>1 DEF Ranked, Pending, SameKey
  <2>4. \A s \in Pending : SameKey(s, r) => q # None /\ rank[s] <= rank[q]
    BY <1>0, <2>1 DEF Ranked, SameKey, Pending
  <2>5. \A s \in Pending : s # r /\ next[s] = rank[s] /\ rank[s] \in Nat /\ s \in Requests
    BY <1>0, <2>N DEF Pending
  <2>6. next[r] = n
    BY <2>N
  <2> HIDE DEF n
  <2>7. \A s \in Pending' : /\ inflight'[DedupKey(s)] \in Pending'
                            /\ next[s] <= next[inflight'[DedupKey(s)]]
    <3> TAKE s \in Pending'
    <3>1. CASE s = r
      BY <1>0, <1>1, <1>2, <2>2, <2>6, <3>1 DEF JobTypeOK
    <3>2. CASE s # r /\ DedupKey(s) = k
      <4>1. s \in Pending /\ SameKey(s, r) /\ inflight'[DedupKey(s)] = r
        BY <1>0, <1>1, <1>2, <3>2 DEF JobTypeOK, SameKey, Pending
      <4> QED
        BY <1>2, <2>2, <2>3, <2>4, <2>5, <2>6, <4>1
    <3>3. CASE s # r /\ DedupKey(s) # k
      <4>1. s \in Pending /\ DedupKey(s) \in DedupKeys
        BY <1>0, <1>2, <3>3, JobQueueAssumption DEF Pending, DedupKey, DedupKeys, Keyed
      <4>2. inflight'[DedupKey(s)] = inflight[DedupKey(s)]
        BY <1>1, <3>3, <4>1 DEF JobTypeOK
      <4> QED
        BY <1>2, <2>1, <2>5, <4>1, <4>2 DEF Ranked
    <3> QED
      BY <3>1, <3>2, <3>3
  <2>8. \A l \in DedupKeys : inflight'[l] # None => /\ inflight'[l] \in Pending'
                                                    /\ DedupKey(inflight'[l]) = l
    BY <1>0, <1>1, <1>2, <2>1 DEF JobTypeOK, Ranked
  <2>9. \A s, t \in Pending' : SameKey(s, t) =>
          /\ s # t => next[s] # next[t]
          /\ next[t] < next[s] => /\ prior'[s] \in Pending' /\ SameKey(prior'[s], s)
                               /\ next[t] <= next[prior'[s]]
    <3> SUFFICES ASSUME NEW s \in Pending', NEW t \in Pending', SameKey(s, t)
                 PROVE  /\ s # t => next[s] # next[t]
                        /\ next[t] < next[s] => /\ prior'[s] \in Pending' /\ SameKey(prior'[s], s)
                               /\ next[t] <= next[prior'[s]]
      OBVIOUS
    <3>1. CASE s = r /\ t = r
      BY <2>2, <2>6, <3>1
    <3>2. CASE s = r /\ t # r
      <4>1. t \in Pending /\ SameKey(t, r)
        BY <1>2, <3>2 DEF SameKey
      <4>2. q # None /\ rank[t] <= rank[q]
        BY <2>4, <4>1
      <4>3. prior'[s] = q
        BY <1>0, <1>1, <3>2 DEF JobTypeOK
      <4> QED
        BY <1>2, <2>2, <2>3, <2>5, <2>6, <3>2, <4>1, <4>2, <4>3
    <3>3. CASE s # r /\ t = r
      <4>1. s \in Pending /\ SameKey(s, r)
        BY <1>2, <3>3
      <4>2. q # None /\ rank[s] <= rank[q]
        BY <2>4, <4>1
      <4> QED
        BY <2>2, <2>3, <2>5, <2>6, <3>3, <4>1, <4>2
    <3>4. CASE s # r /\ t # r
      <4>1. s \in Pending /\ t \in Pending /\ prior'[s] = prior[s]
        BY <1>1, <1>2, <3>4 DEF JobTypeOK
      <4> QED
        BY <1>2, <2>1, <2>5, <4>1 DEF Ranked
    <3> QED
      BY <3>1, <3>2, <3>3, <3>4
  <2>10. Ranked(next)'
    BY <2>7, <2>8, <2>9 DEF Ranked, SameKey, DedupKey, Keyed
  <2> QED
    BY <2>10 DEF Chained
<1>4. AwaitsPrior'
  <2>1. q # None => stage[q] # "new" /\ q \in Requests
    BY <1>0 DEF KeysInv, Chained, Ranked, Pending
  <2>2. \A s \in Requests : prior'[s] # None => stage'[prior'[s]] # "new"
    BY <1>0, <1>1, <2>1 DEF KeysInv, AwaitsPrior, JobTypeOK
  <2>3. \A s \in Pending' : stage'[s] # "chained" => prior'[s] \notin Pending'
    BY <1>0, <1>1, <1>2 DEF KeysInv, AwaitsPrior, JobTypeOK, Pending
  <2> QED
    BY <2>2, <2>3 DEF AwaitsPrior
<1>5. JobsOfKey'
  BY <1>0, <1>1 DEF KeysInv, JobsOfKey, JobTypeOK, Stored, SameKey, Keyed, DedupKey
<1> QED
  BY <1>3, <1>4, <1>5 DEF KeysInv

\* A step of a call under way that is neither its first nor its last.
LEMMA OnTheWay ==
  ASSUME JobTypeOK, Chained, AwaitsPrior, Pending' = Pending, UNCHANGED <<prior, inflight>>,
         \A r \in Requests : stage[r] # "new" => stage'[r] # "new",
         \A r \in Pending : stage'[r] # "chained" => prior[r] \notin Pending
  PROVE  Chained' /\ AwaitsPrior'
<1>1. Chained'
  <2>1. PICK rank \in [Requests -> Nat] : Ranked(rank)
    BY DEF Chained
  <2>2. Ranked(rank)'
    BY <2>1 DEF Ranked, SameKey, Keyed, DedupKey
  <2> QED
    BY <2>2 DEF Chained
<1>2. AwaitsPrior'
  BY DEF AwaitsPrior, JobTypeOK
<1> QED
  BY <1>1, <1>2

LEMMA FindKeys ==
  ASSUME Sound, KeysInv, NEW r \in Requests, EnqueueFind(r)
  PROVE  KeysInv'
<1> DEFINE same == {q \in Stored : Keyed(q) /\ DedupKey(q) = DedupKey(r)}
<1>0. JobTypeOK /\ KeysInv /\ None \notin Requests
  BY JobQueueAssumption DEF Sound
<1>1. /\ stage[r] = "chained" /\ stage' = [stage EXCEPT ![r] = "searched"]
      /\ prior[r] # None => stage[prior[r]] = "returned"
      /\ UNCHANGED <<store, prior, inflight>>
  BY DEF EnqueueFind, storeVars
<1>2. PICK e : /\ found' = [found EXCEPT ![r] = e]
               /\ IF same = {} THEN e = None ELSE e \in same
  BY DEF EnqueueFind
<1>3. Pending' = Pending
  BY <1>0, <1>1 DEF JobTypeOK, Pending
<1>4. prior[r] \notin Pending
  BY <1>0, <1>1 DEF Pending
<1>5. Chained' /\ AwaitsPrior'
  BY <1>0, <1>1, <1>3, <1>4, OnTheWay DEF KeysInv, AwaitsPrior, JobTypeOK
<1>6. Stored' = Stored
  BY <1>1 DEF Stored
<1>7. e # None => SameKey(e, r) \/ ~Keyed(r)
  BY <1>2 DEF SameKey
<1>8. e = None => \A s \in Stored : ~SameKey(s, r)
  BY <1>0, <1>2 DEF SameKey, Stored
<1>9. JobsOfKey'
  <2>1. found'[r] = e /\ stage'[r] = "searched"
    BY <1>0, <1>1, <1>2 DEF JobTypeOK
  <2>2. \A s \in Requests : s # r => found'[s] = found[s] /\ stage'[s] = stage[s]
    BY <1>0, <1>1, <1>2 DEF JobTypeOK
  <2>3. r \notin Stored
    BY <1>0, <1>1 DEF KeysInv, JobsOfKey
  <2>4. \A s \in Stored' : stage'[s] \in {"settling", "returned"}
    BY <1>0, <1>6, <2>2, <2>3 DEF KeysInv, JobsOfKey, Stored
  <2>5. \A s \in Requests :
          Keyed(s) /\ (stage'[s] \in {"settling", "returned"} \/ (stage'[s] = "searched" /\ found'[s] # None))
            => SameKey(found'[s], s)
    BY <1>0, <1>7, <2>1, <2>2 DEF KeysInv, JobsOfKey
  <2>6. \A s \in Requests :
          Keyed(s) /\ stage'[s] = "searched" /\ found'[s] = None
            => \A t \in Stored' : ~SameKey(t, s)
    BY <1>0, <1>6, <1>8, <2>1, <2>2 DEF KeysInv, JobsOfKey
  <2>7. \A s, t \in Stored' : SameKey(s, t) => s = t
    BY <1>0, <1>6 DEF KeysInv, JobsOfKey
  <2> QED
    BY <2>4, <2>5, <2>6, <2>7 DEF JobsOfKey, SameKey, Keyed, DedupKey
<1> QED
  BY <1>5, <1>9 DEF KeysInv

LEMMA CreateKeys ==
  ASSUME Sound, KeysInv, NEW r \in Requests, EnqueueCreate(r)
  PROVE  KeysInv'
<1>0. JobTypeOK /\ KeysInv /\ None \notin Requests
  BY JobQueueAssumption DEF Sound
<1>1. /\ stage[r] = "searched" /\ stage' = [stage EXCEPT ![r] = "settling"]
      /\ UNCHANGED <<prior, inflight>>
  BY DEF EnqueueCreate
<1>2. Pending' = Pending
  BY <1>0, <1>1 DEF JobTypeOK, Pending
<1>3. r \in Pending => prior[r] \notin Pending
  BY <1>0, <1>1 DEF KeysInv, AwaitsPrior
<1>4. Chained' /\ AwaitsPrior'
  BY <1>0, <1>1, <1>2, <1>3, OnTheWay DEF KeysInv, AwaitsPrior, JobTypeOK
<1>5. stage'[r] = "settling" /\ \A s \in Requests : s # r => stage'[s] = stage[s]
  BY <1>0, <1>1 DEF JobTypeOK
<1>6. CASE found[r] # None
  <2>1. Stored' = Stored /\ found' = found
    BY <1>6 DEF EnqueueCreate, Stored
  <2> QED
    BY <1>0, <1>1, <1>4, <1>5, <1>6, <2>1 DEF KeysInv, JobsOfKey, SameKey, Keyed, DedupKey
<1>7. CASE found[r] = None
  <2>1. Stored' = Stored \cup {r} /\ found' = [found EXCEPT ![r] = r]
    BY <1>0, <1>7, CreateAddsStored DEF EnqueueCreate
  <2>2. found'[r] = r /\ \A s \in Requests : s # r => found'[s] = found[s]
    BY <1>0, <2>1 DEF JobTypeOK
  <2>3. \A s \in Stored : ~SameKey(s, r) /\ ~SameKey(r, s)
    BY <1>0, <1>1, <1>7 DEF KeysInv, JobsOfKey, SameKey
  <2>4. \A s \in Requests : s # r /\ stage[s] = "searched" => ~SameKey(r, s) /\ ~SameKey(s, r)
    <3> SUFFICES ASSUME NEW s \in Requests, stage[s] = "searched", SameKey(r, s) \/ SameKey(s, r)
                 PROVE  r = s
      OBVIOUS
    <3>1. r \in Pending /\ s \in Pending /\ SameKey(r, s)
      BY <1>1 DEF Pending, SameKey
    <3>2. prior[r] \notin Pending /\ prior[s] \notin Pending
      BY <1>0, <1>1, <3>1 DEF KeysInv, AwaitsPrior
    <3> QED
      BY <1>0, <3>1, <3>2, OneGoesOn DEF KeysInv
  <2>5. JobsOfKey'
    <3>1. \A s \in Stored' : stage'[s] \in {"settling", "returned"}
      BY <1>0, <1>1, <1>5, <2>1 DEF KeysInv, JobsOfKey, Stored
    <3>2. \A s \in Requests :
            Keyed(s) /\ (stage'[s] \in {"settling", "returned"} \/ (stage'[s] = "searched" /\ found'[s] # None))
              => SameKey(found'[s], s)
      BY <1>0, <1>5, <2>2 DEF KeysInv, JobsOfKey, SameKey
    <3>3. \A s \in Requests :
            Keyed(s) /\ stage'[s] = "searched" /\ found'[s] = None
              => \A t \in Stored' : ~SameKey(t, s)
      BY <1>0, <1>5, <2>1, <2>2, <2>4 DEF KeysInv, JobsOfKey
    <3>4. \A s, t \in Stored' : SameKey(s, t) => s = t
      BY <1>0, <2>1, <2>3 DEF KeysInv, JobsOfKey
    <3> QED
      BY <3>1, <3>2, <3>3, <3>4 DEF JobsOfKey, SameKey, Keyed, DedupKey
  <2> QED
    BY <1>4, <2>5 DEF KeysInv
<1> QED
  BY <1>6, <1>7

\* Returning takes the first call out of the chain.
LEMMA ReturnKeys ==
  ASSUME Sound, KeysInv, NEW r \in Requests, EnqueueReturn(r)
  PROVE  KeysInv'
<1>0. JobTypeOK /\ KeysInv /\ None \notin Requests
  BY JobQueueAssumption DEF Sound
<1>1. /\ stage[r] = "settling" /\ stage' = [stage EXCEPT ![r] = "returned"]
      /\ UNCHANGED <<store, prior, found>>
  BY DEF EnqueueReturn, storeVars
<1>2. Pending' = Pending \ {r}
  BY <1>0, <1>1 DEF JobTypeOK, Pending
<1>3. r \in Pending => prior[r] \notin Pending
  BY <1>0, <1>1 DEF KeysInv, AwaitsPrior
<1>4. Chained'
  <2>1. PICK rank \in [Requests -> Nat] : Ranked(rank)
    BY <1>0 DEF KeysInv, Chained
  <2>2. \A s \in Pending : rank[s] \in Nat /\ DedupKey(s) \in DedupKeys /\ Keyed(s) /\ s \in Requests
    BY JobQueueAssumption DEF Pending, DedupKey, DedupKeys, Keyed
  <2>3. \A s \in Pending : r \in Pending /\ SameKey(r, s) /\ s # r => rank[r] < rank[s]
    <3> SUFFICES ASSUME NEW s \in Pending, r \in Pending, SameKey(r, s), s # r
                 PROVE  rank[r] < rank[s]
      OBVIOUS
    <3>1. ~(rank[s] < rank[r]) /\ rank[r] # rank[s]
      BY <1>3, <2>1 DEF Ranked
    <3> QED
      BY <2>2, <3>1
  <2>4. \A s \in Pending : s # r => inflight[DedupKey(s)] # r
    <3> SUFFICES ASSUME NEW s \in Pending, s # r, inflight[DedupKey(s)] = r PROVE FALSE
      OBVIOUS
    <3>1. r \in Pending /\ rank[s] <= rank[r] /\ DedupKey(r) = DedupKey(s)
      BY <1>0, <2>1, <2>2 DEF Ranked
    <3> QED
      BY <2>2, <2>3, <3>1 DEF SameKey
  <2>5. \A k \in DedupKeys : \/ inflight'[k] = inflight[k] /\ inflight[k] # r
                             \/ inflight'[k] = None /\ inflight[k] = r
    <3> TAKE k \in DedupKeys
    <3>1. inflight[k] = r => Keyed(r) /\ DedupKey(r) = k
      BY <1>0, <2>1 DEF Ranked, Pending
    <3>2. CASE Keyed(r) /\ inflight[DedupKey(r)] = r
      <4>1. inflight' = [inflight EXCEPT ![DedupKey(r)] = None]
        BY <3>2 DEF EnqueueReturn
      <4> QED
        BY <1>0, <3>1, <3>2, <4>1 DEF JobTypeOK
    <3>3. CASE ~(Keyed(r) /\ inflight[DedupKey(r)] = r)
      BY <3>1, <3>3 DEF EnqueueReturn
    <3> QED
      BY <3>2, <3>3
  <2>6. \A s \in Pending' : /\ inflight'[DedupKey(s)] \in Pending'
                            /\ rank[s] <= rank[inflight'[DedupKey(s)]]
    BY <1>2, <2>1, <2>2, <2>4, <2>5 DEF Ranked
  <2>7. \A k \in DedupKeys : inflight'[k] # None => /\ inflight'[k] \in Pending'
                                                    /\ DedupKey(inflight'[k]) = k
    BY <1>2, <2>1, <2>5 DEF Ranked
  <2>8. \A s, t \in Pending' : SameKey(s, t) =>
          /\ s # t => rank[s] # rank[t]
          /\ rank[t] < rank[s] => /\ prior'[s] \in Pending' /\ SameKey(prior'[s], s)
                               /\ rank[t] <= rank[prior'[s]]
    <3> SUFFICES ASSUME NEW s \in Pending, NEW t \in Pending, s # r, t # r, SameKey(s, t)
                 PROVE  /\ s # t => rank[s] # rank[t]
                        /\ rank[t] < rank[s] => /\ prior[s] \in Pending /\ prior[s] # r
                                                /\ SameKey(prior[s], s)
                                                /\ rank[t] <= rank[prior[s]]
      BY <1>1, <1>2
    <3>1. s # t => rank[s] # rank[t]
      BY <2>1 DEF Ranked
    <3>2. ASSUME rank[t] < rank[s]
          PROVE  prior[s] \in Pending /\ prior[s] # r /\ SameKey(prior[s], s) /\ rank[t] <= rank[prior[s]]
      <4>1. prior[s] \in Pending /\ SameKey(prior[s], s) /\ rank[t] <= rank[prior[s]]
        BY <2>1, <3>2 DEF Ranked
      <4>2. ASSUME prior[s] = r PROVE FALSE
        <5>1. r \in Pending /\ rank[t] <= rank[r] /\ rank[r] \in Nat /\ rank[t] \in Nat
          BY <2>2, <4>1, <4>2
        <5>2. ~SameKey(r, t)
          BY <2>3, <5>1
        <5> QED
          BY <4>1, <4>2, <5>2 DEF SameKey
      <4> QED
        BY <4>1, <4>2
    <3> QED
      BY <3>1, <3>2
  <2>9. Ranked(rank)'
    BY <2>6, <2>7, <2>8 DEF Ranked, SameKey, DedupKey, Keyed
  <2> QED
    BY <2>9 DEF Chained
<1>5. AwaitsPrior'
  BY <1>0, <1>1, <1>2 DEF KeysInv, AwaitsPrior, JobTypeOK, Pending
<1>6. JobsOfKey'
  BY <1>0, <1>1 DEF KeysInv, JobsOfKey, JobTypeOK, Stored, SameKey, Keyed, DedupKey
<1> QED
  BY <1>4, <1>5, <1>6 DEF KeysInv

\* Dispatching stores no new job and touches no call of enqueue.
LEMMA DispatchKeepsJobs ==
  ASSUME Sound, NEW d \in Dispatchers,
         DispatchResumes(d) \/ \E j \in Requests : DispatchGet(d, j)
  PROVE  Stored' = Stored /\ UNCHANGED enqueueVars
<1>1. CASE UNCHANGED store
  <2>1. Stored' = Stored
    BY <1>1 DEF Stored
  <2> QED
    BY <2>1 DEF DispatchResumes, DispatchGet, DispatchRefuse, DispatchAdmit, Admit, DispatchStart,
       WorkerSettles, DispatchComplete, DispatchFail, FailWith, DispatchRequeue,
       DispatchReturn, Leave
<1>2. CASE store' # store
  <2>1. /\ UNCHANGED enqueueVars /\ pc[d] # "idle"
        /\ \E rec : store' = [store EXCEPT ![job[d]] = rec] /\ copy' = [copy EXCEPT ![d] = rec]
    BY <1>2 DEF DispatchResumes, DispatchGet, DispatchRefuse, DispatchAdmit, Admit, DispatchStart,
       WorkerSettles, DispatchComplete, DispatchFail, FailWith, DispatchRequeue, Put,
       DispatchReturn, Leave, storeVars
  <2>2. PICK rec : store' = [store EXCEPT ![job[d]] = rec] /\ copy' = [copy EXCEPT ![d] = rec]
    BY <2>1
  <2>3. Sound' /\ pc'[d] # "idle"
    <3>1. Sound'
      BY DispatchResumesSound, DispatchGetSound
    <3>2. pc' \in [Dispatchers -> Places] /\ copy'[d] = rec
      BY <2>2, <3>1 DEF Sound, JobTypeOK
    <3>3. pc'[d] \in {"admitted", "backoff", "finally"}
      BY <1>2 DEF DispatchResumes, DispatchGet, DispatchRefuse, DispatchAdmit, Admit,
         DispatchStart, WorkerSettles, DispatchComplete, DispatchFail, FailWith,
         DispatchRequeue, DispatchReturn, Leave, storeVars, Sound, JobTypeOK
    <3> QED
      BY <3>1, <3>3
  <2>4. rec \in ProofJob
    BY <2>2, <2>3 DEF Sound, JobTypeOK, RefersToStored
  <2>5. job[d] \in Stored
    BY <2>1 DEF Sound, RefersToStored
  <2> QED
    BY <2>1, <2>2, <2>4, <2>5, PutKeepsStored DEF Sound
<1> QED
  BY <1>1, <1>2

LEMMA NextKeys == Sound /\ KeysInv /\ [Next]_vars => KeysInv'
<1> SUFFICES ASSUME Sound, KeysInv, [Next]_vars PROVE KeysInv'
  OBVIOUS
<1>0. JobTypeOK
  BY DEF Sound
<1>1. ASSUME Stored' = Stored, UNCHANGED enqueueVars PROVE KeysInv'
  <2>1. Pending' = Pending
    BY <1>1 DEF enqueueVars, Pending
  <2>2. Chained' /\ AwaitsPrior'
    BY <1>0, <1>1, <2>1, OnTheWay DEF KeysInv, AwaitsPrior, enqueueVars
  <2>3. JobsOfKey'
    BY <1>1 DEF KeysInv, JobsOfKey, enqueueVars, SameKey, Keyed, DedupKey
  <2> QED
    BY <2>2, <2>3 DEF KeysInv
<1>2. ASSUME NEW r \in Requests, EnqueuePlain(r) PROVE KeysInv'
  <2>1. /\ stage' = [stage EXCEPT ![r] = "settling"] /\ found' = [found EXCEPT ![r] = r]
        /\ stage[r] = "new" /\ ~Keyed(r) /\ UNCHANGED <<prior, inflight>>
        /\ Stored' = Stored \cup {r}
    BY <1>0, <1>2, CreateAddsStored DEF EnqueuePlain
  <2>2. Pending' = Pending
    BY <1>0, <2>1 DEF JobTypeOK, Pending
  <2>3. Chained' /\ AwaitsPrior'
    BY <1>0, <2>1, <2>2, OnTheWay DEF KeysInv, AwaitsPrior, JobTypeOK, Pending
  <2>4. JobsOfKey'
    BY <1>0, <2>1 DEF KeysInv, JobsOfKey, JobTypeOK, Stored, SameKey, Keyed, DedupKey
  <2> QED
    BY <2>3, <2>4 DEF KeysInv
<1>3. ASSUME NEW r \in Requests, Enqueue(r) PROVE KeysInv'
  BY <1>2, <1>3, ChainKeys, FindKeys, CreateKeys, ReturnKeys DEF Enqueue
<1>4. CASE UNCHANGED vars
  BY <1>1, <1>4 DEF vars, storeVars, Stored
<1> QED
  BY <1>1, <1>3, <1>4, DispatchKeepsJobs DEF Next

LEMMA KeysHold == Safety => []KeysInv
<1> QED
  BY InitKeys, NextKeys, SoundHolds, PTL DEF Safety

-----------------------------------------------------------------------------
\* A call writes only what follows from its own copy: while it runs the worker
\* the copy says RUNNING, while it waits for the backoff timer FAILED.
OwnCopy ==
  \A d \in Dispatchers :
    /\ pc[d] \in {"admitted", "working"} => copy[d].status = "RUNNING"
    /\ pc[d] = "backoff" => /\ copy[d].status = "FAILED"
                            /\ copy[d].errorCategory = "retryable"

LEMMA PutOwnCopy ==
  ASSUME Sound, OwnCopy, NEW d \in Dispatchers,
         NEW rec \in ProofJob, NEW p \in Places,
         p \in {"admitted", "working"} => rec.status = "RUNNING",
         p = "backoff" => rec.status = "FAILED" /\ rec.errorCategory = "retryable",
         Put(d, rec), pc' = [pc EXCEPT ![d] = p]
  PROVE  OwnCopy'
<1>1. pc'[d] = p /\ copy'[d] = rec
  BY DEF Put, Sound, JobTypeOK
<1>2. \A e \in Dispatchers : e # d => pc'[e] = pc[e] /\ copy'[e] = copy[e]
  BY DEF Put, Sound, JobTypeOK
<1> QED
  BY <1>1, <1>2 DEF OwnCopy

\* The record rec is written over the job of d, and follows from d's copy.
Written(d, rec) ==
  /\ store' = [store EXCEPT ![job[d]] = rec]
  /\ pc'[d] # pc[d]
  /\ IsValidTransition(copy[d].status, rec.status)
  /\ ~(copy[d].status = "FAILED" /\ copy[d].errorCategory = "failClosed")

\* What a step writes over a stored record: nothing, or the successor of the
\* record the call holds.
LEMMA DispatchWrites ==
  ASSUME Sound, OwnCopy, NEW d \in Dispatchers, DispatchResumes(d)
  PROVE  /\ OwnCopy'
         /\ UNCHANGED store \/ \E rec \in ProofJob : Written(d, rec)
<1>0. JobTypeOK /\ None \notin Requests
  BY JobQueueAssumption DEF Sound
<1>1. pc[d] # "idle" => copy[d] \in ProofJob /\ job[d] \in Requests
  BY DEF Sound, RefersToStored, Stored
<1>2. CASE DispatchRefuse(d) \/ DispatchStart(d) \/ DispatchReturn(d)
  <2>1. /\ UNCHANGED store
        /\ \A e \in Dispatchers : e # d => pc'[e] = pc[e] /\ copy'[e] = copy[e]
        /\ \/ pc'[d] = "idle"
           \/ pc[d] = "admitted" /\ pc'[d] = "working" /\ copy'[d] = copy[d]
    BY <1>0, <1>2 DEF DispatchRefuse, DispatchStart, DispatchReturn, Leave, storeVars, JobTypeOK
  <2>2. OwnCopy'
    BY <2>1 DEF OwnCopy
  <2> QED
    BY <2>1, <2>2
<1>3. CASE DispatchAdmit(d)
  <2> DEFINE n == copy[d].attemptCount + 1
             running == [copy[d] EXCEPT !.status = "RUNNING", !.attemptCount = n]
  <2>1. copy[d] \in ProofJob /\ n \in Nat /\ copy[d].status \in Statuses
    BY <1>1, <1>3 DEF DispatchAdmit, ProofJob
  <2>2. Put(d, running) /\ pc' = [pc EXCEPT ![d] = "admitted"] /\ pc[d] = "loaded"
    BY <1>3 DEF DispatchAdmit, Admit, Put
  <2>3. copy[d].status = "QUEUED" /\ IsValidTransition("QUEUED", "RUNNING")
    BY <1>3, <2>1 DEF DispatchAdmit, IsValidTransition, ValidTransitions, Statuses
  <2> HIDE DEF n
  <2>4. running \in ProofJob /\ running.status = "RUNNING"
    BY <2>1 DEF ProofJob, Statuses
  <2> HIDE DEF running
  <2>5. OwnCopy'
    BY <2>2, <2>4, PutOwnCopy DEF Places
  <2>6. pc'[d] # pc[d]
    BY <1>0, <2>2 DEF JobTypeOK
  <2>7. Written(d, running)
    BY <2>2, <2>3, <2>4, <2>6 DEF Put, Written
  <2> QED
    BY <2>4, <2>5, <2>7
<1>4. ASSUME NEW s \in Statuses, NEW c \in Categories \cup {"none"}, NEW p \in Places \ {"admitted", "working"},
             pc[d] # "idle", p # pc[d],
             p = "backoff" => s = "FAILED" /\ c = "retryable",
             IsValidTransition(copy[d].status, s),
             ~(copy[d].status = "FAILED" /\ copy[d].errorCategory = "failClosed"),
             Put(d, [copy[d] EXCEPT !.status = s, !.errorCategory = c]),
             pc' = [pc EXCEPT ![d] = p]
      PROVE  OwnCopy' /\ \E rec \in ProofJob : Written(d, rec)
  <2> DEFINE rec == [copy[d] EXCEPT !.status = s, !.errorCategory = c]
  <2>1. rec \in ProofJob /\ rec.status = s /\ rec.errorCategory = c
    BY <1>1, <1>4 DEF ProofJob
  <2>2. Put(d, rec)
    BY <1>4
  <2> HIDE DEF rec
  <2>3. OwnCopy'
    BY <1>4, <2>1, <2>2, PutOwnCopy
  <2>4. pc'[d] # pc[d]
    BY <1>0, <1>4 DEF JobTypeOK
  <2>5. Written(d, rec)
    BY <1>4, <2>1, <2>2, <2>4 DEF Put, Written
  <2> QED
    BY <2>1, <2>3, <2>5
<1>5. ASSUME pc[d] # "idle", NEW s
      PROVE  /\ copy[d].errorCategory \in Categories \cup {"none"}
             /\ [copy[d] EXCEPT !.status = s]
                  = [copy[d] EXCEPT !.status = s, !.errorCategory = copy[d].errorCategory]
  BY <1>1, <1>5 DEF ProofJob
<1>6. pc[d] = "working" => /\ copy[d].status = "RUNNING"
                           /\ IsValidTransition(copy[d].status, "COMPLETED")
                           /\ IsValidTransition(copy[d].status, "FAILED")
  BY DEF OwnCopy, IsValidTransition, ValidTransitions
<1>7. CASE DispatchComplete(d)
  BY <1>4, <1>5, <1>6, <1>7 DEF DispatchComplete, Statuses, Places
<1>8. ASSUME NEW category \in Categories, DispatchFail(d, category)
      PROVE  OwnCopy' /\ \E rec \in ProofJob : Written(d, rec)
  <2> DEFINE again == category = "retryable" /\ copy[d].attemptCount < MaxAttempts
             c == IF again \/ category = "failClosed" THEN category ELSE "permanent"
             p == IF again THEN "backoff" ELSE "finally"
  <2>1. /\ Put(d, [copy[d] EXCEPT !.status = "FAILED", !.errorCategory = c])
        /\ pc' = [pc EXCEPT ![d] = p] /\ pc[d] = "working"
    BY <1>8 DEF DispatchFail, FailWith
  <2>2. /\ c \in Categories \cup {"none"} /\ p \in Places \ {"admitted", "working"}
        /\ p = "backoff" => c = "retryable"
    BY DEF Categories, Places
  <2> HIDE DEF again, c, p
  <2> QED
    BY <1>4, <1>6, <2>1, <2>2 DEF Statuses
<1>9. CASE DispatchRequeue(d)
  <2>1. /\ copy[d].status = "FAILED" /\ copy[d].errorCategory = "retryable" /\ pc[d] # "idle"
        /\ IsValidTransition(copy[d].status, "QUEUED")
    BY <1>9 DEF DispatchRequeue, OwnCopy, IsValidTransition, ValidTransitions
  <2> QED
    BY <1>4, <1>5, <1>9, <2>1 DEF DispatchRequeue, Statuses, Places
<1> QED
  BY <1>2, <1>3, <1>7, <1>8, <1>9 DEF DispatchResumes, WorkerSettles

LEMMA EnqueueWrites ==
  ASSUME Sound, KeysInv, NEW r \in Requests, Enqueue(r)
  PROVE  /\ \A j \in Stored : store'[j] = store[j]
         /\ UNCHANGED dispatchVars
<1>1. ASSUME store' = [store EXCEPT ![r] = NewJob], stage[r] \in {"new", "searched"}
      PROVE  \A j \in Stored : store'[j] = store[j]
  BY <1>1 DEF Sound, JobTypeOK, KeysInv, JobsOfKey, Stored
<1> QED
  BY <1>1
  DEF Enqueue, EnqueuePlain, EnqueueChain, EnqueueFind, EnqueueCreate, EnqueueReturn, storeVars

LEMMA NextOwnCopy == Sound /\ KeysInv /\ OwnCopy /\ [Next]_vars => OwnCopy'
<1> SUFFICES ASSUME Sound, KeysInv, OwnCopy, [Next]_vars PROVE OwnCopy'
  OBVIOUS
<1>1. ASSUME UNCHANGED dispatchVars PROVE OwnCopy'
  BY <1>1 DEF OwnCopy, dispatchVars
<1>2. ASSUME NEW d \in Dispatchers, NEW j \in Requests, DispatchGet(d, j) PROVE OwnCopy'
  <2>1. /\ \A e \in Dispatchers : e # d => pc'[e] = pc[e] /\ copy'[e] = copy[e]
        /\ pc'[d] = "loaded"
    BY <1>2 DEF DispatchGet, Sound, JobTypeOK
  <2> QED
    BY <2>1 DEF OwnCopy
<1>3. CASE UNCHANGED vars
  BY <1>1, <1>3 DEF vars
<1> QED
  BY <1>1, <1>2, <1>3, DispatchWrites, EnqueueWrites DEF Next

LEMMA InitOwnCopy == Init => OwnCopy
<1> QED
  BY DEF Init, OwnCopy

\* A step that is not that of an overtaken call leaves a record as it is, or
\* follows it along a valid transition and not from a fail-closed failure.
LEMMA WrittenOver ==
  ASSUME Sound, OwnCopy, NEW d \in Dispatchers, DispatchResumes(d), NEW r \in Stored, ~Overtaken(r)
  PROVE  \/ store'[r] = store[r]
         \/ /\ IsValidTransition(store[r].status, store'[r].status)
            /\ ~(store[r].status = "FAILED" /\ store[r].errorCategory = "failClosed")
<1>1. CASE UNCHANGED store
  BY <1>1
<1>2. ASSUME NEW rec \in ProofJob, Written(d, rec)
      PROVE  \/ store'[r] = store[r]
             \/ /\ IsValidTransition(store[r].status, store'[r].status)
                /\ ~(store[r].status = "FAILED" /\ store[r].errorCategory = "failClosed")
  <2>1. job[d] # r => store'[r] = store[r]
    BY <1>2 DEF Written, Sound, JobTypeOK, Stored
  <2>2. job[d] = r => store'[r] = rec /\ copy[d] = store[r]
    BY <1>2 DEF Written, Overtaken, Sound, JobTypeOK, Stored
  <2> QED
    BY <1>2, <2>1, <2>2 DEF Written
<1> QED
  BY <1>1, <1>2, DispatchWrites

-----------------------------------------------------------------------------
\* activeWorkers is exactly the number of dispatch calls counted and not yet
\* returned, on every path out of dispatch, for any number of callers.
THEOREM WorkersExactHolds == Safety => []WorkersExact
<1> QED
  BY CountersHold, PTL DEF CountersExact

\* A tenant with no worker of its own is never refused for its limit, however
\* stale the counts that dispatch writes back.
THEOREM IdleTenantHasRoomHolds == Safety => []IdleTenantHasRoom
<1> QED
  BY CountersHold, PTL DEF CountersExact

\* No job is run as attempt number maxAttempts + 1.
THEOREM AttemptsBoundedHolds == Safety => []AttemptsBounded
<1>1. AttemptsSpared => AttemptsBounded
  BY DEF AttemptsSpared, Spare, AttemptsBounded
<1> QED
  BY <1>1, AttemptsHold, PTL

\* However many calls of one tenant and key overlap, one job is stored for
\* them and all of them return it.
THEOREM OneJobPerKeyHolds == Safety => []OneJobPerKey
<1>1. Sound /\ KeysInv => OneJobPerKey
  <2> SUFFICES ASSUME Sound, KeysInv, NEW r \in Requests, NEW s \in Requests, SameKey(r, s)
               PROVE  /\ r \in Stored /\ s \in Stored => r = s
                      /\ stage[r] = "returned" /\ stage[s] = "returned" => found[r] = found[s]
    BY DEF OneJobPerKey, SameKey
  <2>1. r \in Stored /\ s \in Stored => r = s
    BY DEF KeysInv, JobsOfKey
  <2>2. CASE stage[r] = "returned" /\ stage[s] = "returned"
    <3>1. found[r] \in Stored /\ found[s] \in Stored
      BY <2>2 DEF Sound, RefersToStored
    <3>0. Keyed(r) /\ Keyed(s)
      BY DEF SameKey
    <3>2. \A q \in Requests : Keyed(q) /\ stage[q] = "returned" => SameKey(found[q], q)
      BY DEF KeysInv, JobsOfKey
    <3>3. SameKey(found[r], found[s])
      BY <2>2, <3>0, <3>2 DEF SameKey
    <3> QED
      BY <3>1, <3>3 DEF KeysInv, JobsOfKey
  <2> QED
    BY <2>1, <2>2
<1> QED
  BY <1>1, SoundHolds, KeysHold, PTL

\* A job's status moves only along VALID_TRANSITIONS, except where a call whose
\* copy of the job was overtaken writes.
THEOREM StatusFollowsTransitionsHolds == Safety => StatusFollowsTransitions
<1>1. Sound /\ KeysInv /\ OwnCopy /\ [Next]_vars
        => [\A r \in Stored : \/ store'[r].status = store[r].status
                              \/ IsValidTransition(store[r].status, store'[r].status)
                              \/ Overtaken(r)]_vars
  <2> SUFFICES ASSUME Sound, KeysInv, OwnCopy, Next, NEW r \in Stored, ~Overtaken(r)
               PROVE  \/ store'[r].status = store[r].status
                      \/ IsValidTransition(store[r].status, store'[r].status)
    OBVIOUS
  <2>1. ASSUME NEW d \in Dispatchers, DispatchResumes(d)
        PROVE  \/ store'[r] = store[r]
               \/ IsValidTransition(store[r].status, store'[r].status)
    BY <2>1, WrittenOver
  <2> QED
    BY <2>1, EnqueueWrites DEF Next, DispatchGet, storeVars
<1> QED
  BY <1>1, SoundHolds, KeysHold, InitOwnCopy, NextOwnCopy, PTL
  DEF Safety, StatusFollowsTransitions

\* A fail-closed failure is final, except where a call that had read the job
\* before it writes.
THEOREM FailClosedIsFinalHolds == Safety => FailClosedIsFinal
<1>1. Sound /\ KeysInv /\ OwnCopy /\ [Next]_vars
        => [\A r \in Stored :
              store[r].status = "FAILED" /\ store[r].errorCategory = "failClosed"
                => store'[r] = store[r] \/ Overtaken(r)]_vars
  <2> SUFFICES ASSUME Sound, KeysInv, OwnCopy, Next, NEW r \in Stored, ~Overtaken(r),
                      store[r].status = "FAILED", store[r].errorCategory = "failClosed"
               PROVE  store'[r] = store[r]
    OBVIOUS
  <2>1. ASSUME NEW d \in Dispatchers, DispatchResumes(d)
        PROVE  store'[r] = store[r]
    BY <2>1, WrittenOver
  <2> QED
    BY <2>1, EnqueueWrites DEF Next, DispatchGet, storeVars
<1> QED
  BY <1>1, SoundHolds, KeysHold, InitOwnCopy, NextOwnCopy, PTL
  DEF Safety, FailClosedIsFinal
=============================================================================
