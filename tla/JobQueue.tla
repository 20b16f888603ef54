------------------------------- MODULE JobQueue -------------------------------
(***************************************************************************)
(* packages/api/src/application/jobQueue.ts over its InMemoryJobStore, with *)
(* the job entity of packages/api/src/domain/job.ts.  Calls of enqueue and *)
(* dispatch run concurrently on one event loop: a call runs up to its next *)
(* await, and anything may run before it resumes.  The store's methods act *)
(* when they are called; their callers resume later.                       *)
(*                                                                         *)
(* A job is named after the enqueue request that created it.               *)
(***************************************************************************)
EXTENDS Integers, FiniteSets

CONSTANTS
  Requests,           \* calls of enqueue
  Tenants,
  TenantOf,           \* TenantOf[r]: opts.tenantId
  Keys,
  NoKey,
  KeyOf,              \* KeyOf[r]: opts.idempotencyKeyHash, or NoKey
  Dispatchers,        \* concurrent callers of dispatch
  MaxGlobalWorkers,
  MaxWorkerPerTenant,
  MaxAttempts,        \* retryPolicy.maxAttempts
  None

ASSUME JobQueueAssumption ==
  /\ TenantOf \in [Requests -> Tenants]
  /\ KeyOf \in [Requests -> Keys \cup {NoKey}]
  /\ NoKey \notin Keys
  /\ None \notin Requests
  /\ MaxGlobalWorkers \in Nat \ {0}
  /\ MaxWorkerPerTenant \in Nat \ {0}
  /\ MaxAttempts \in Nat \ {0}

VARIABLES
  store,         \* jobId => ProofJob, None when absent
  \* enqueue
  stage,         \* stage[r]: where the call of r is
  prior,         \* prior[r]: the call r is chained behind
  inflight,      \* inflight[<<tenant, key>>]: the last call of the chain
  found,         \* found[r]: what findByIdempotencyKey gave, then r's result
  \* dispatch
  activeWorkers,
  perTenantWorkers,
  pc,            \* pc[d]: where the call of d is
  job,           \* job[d]: the job d dispatches
  copy,          \* copy[d]: d's copy of it (job, running, failed)
  tenantWorkers  \* tenantWorkers[d]: the count d read

storeVars    == <<store>>
enqueueVars  == <<stage, prior, inflight, found>>
dispatchVars == <<activeWorkers, perTenantWorkers, pc, job, copy, tenantWorkers>>
vars         == <<storeVars, enqueueVars, dispatchVars>>

(***************************************************************************)
(* The job entity.  Error categories by what the policy does with them:    *)
(* AUTO_RETRYABLE, FAIL_CLOSED and the rest.                               *)
(***************************************************************************)
Categories == {"retryable", "failClosed", "permanent"}
Statuses   == {"QUEUED", "RUNNING", "COMPLETED", "FAILED", "CANCELLED"}

ProofJob == [status        : Statuses,
             attemptCount  : Nat,
             errorCategory : Categories \cup {"none"}]

ASSUME NoneIsNoJob == None \notin ProofJob

NewJob == [status |-> "QUEUED", attemptCount |-> 0, errorCategory |-> "none"]

ValidTransitions(from) ==
  CASE from = "QUEUED"  -> {"RUNNING", "CANCELLED"}
    [] from = "RUNNING" -> {"COMPLETED", "FAILED", "CANCELLED"}
    [] from = "FAILED"  -> {"QUEUED"}
    [] OTHER            -> {}

IsValidTransition(from, to) == to \in ValidTransitions(from)

DedupKeys   == Tenants \X Keys
DedupKey(r) == <<TenantOf[r], KeyOf[r]>>
Keyed(r)    == KeyOf[r] # NoKey
Stored      == {r \in Requests : store[r] # None}

Init ==
  /\ store = [r \in Requests |-> None]
  /\ stage = [r \in Requests |-> "new"]
  /\ prior = [r \in Requests |-> None]
  /\ inflight = [k \in DedupKeys |-> None]
  /\ found = [r \in Requests |-> None]
  /\ activeWorkers = 0
  /\ perTenantWorkers = [t \in Tenants |-> 0]
  /\ pc = [d \in Dispatchers |-> "idle"]
  /\ job = [d \in Dispatchers |-> None]
  /\ copy = [d \in Dispatchers |-> None]
  /\ tenantWorkers = [d \in Dispatchers |-> 0]

-----------------------------------------------------------------------------
(* enqueue(opts)                                                           *)

\* Without a key: create and store, then resume.
EnqueuePlain(r) ==
  /\ stage[r] = "new"
  /\ ~Keyed(r)
  /\ store' = [store EXCEPT ![r] = NewJob]
  /\ found' = [found EXCEPT ![r] = r]
  /\ stage' = [stage EXCEPT ![r] = "settling"]
  /\ UNCHANGED <<prior, inflight, dispatchVars>>

\* With a key: chain behind the last call with that key.
EnqueueChain(r) ==
  /\ stage[r] = "new"
  /\ Keyed(r)
  /\ prior' = [prior EXCEPT ![r] = inflight[DedupKey(r)]]
  /\ inflight' = [inflight EXCEPT ![DedupKey(r)] = r]
  /\ stage' = [stage EXCEPT ![r] = "chained"]
  /\ UNCHANGED <<storeVars, found, dispatchVars>>

EnqueueFindUnchained(r) ==   \* mutant: the prior call is not awaited
  /\ stage[r] = "chained"
  /\ found' \in {[found EXCEPT ![r] = e] : e \in
                   LET same == {q \in Stored : Keyed(q) /\ DedupKey(q) = DedupKey(r)}
                   IN  IF same = {} THEN {None} ELSE same}
  /\ stage' = [stage EXCEPT ![r] = "searched"]
  /\ UNCHANGED <<storeVars, prior, inflight, dispatchVars>>

\* The prior call settled: findByIdempotencyKey.
EnqueueFind(r) ==
  /\ stage[r] = "chained"
  /\ prior[r] # None => stage[prior[r]] = "returned"
  /\ found' \in {[found EXCEPT ![r] = e] : e \in
                   LET same == {q \in Stored : Keyed(q) /\ DedupKey(q) = DedupKey(r)}
                   IN  IF same = {} THEN {None} ELSE same}
  /\ stage' = [stage EXCEPT ![r] = "searched"]
  /\ UNCHANGED <<storeVars, prior, inflight, dispatchVars>>

\* Return the existing job, or create and store a new one.
EnqueueCreate(r) ==
  /\ stage[r] = "searched"
  /\ IF found[r] # None
     THEN UNCHANGED <<store, found>>
     ELSE /\ store' = [store EXCEPT ![r] = NewJob]
          /\ found' = [found EXCEPT ![r] = r]
  /\ stage' = [stage EXCEPT ![r] = "settling"]
  /\ UNCHANGED <<prior, inflight, dispatchVars>>

\* finally: the last call of a chain removes it; the caller gets the job.
EnqueueReturn(r) ==
  /\ stage[r] = "settling"
  /\ IF Keyed(r) /\ inflight[DedupKey(r)] = r
     THEN inflight' = [inflight EXCEPT ![DedupKey(r)] = None]
     ELSE UNCHANGED inflight
  /\ stage' = [stage EXCEPT ![r] = "returned"]
  /\ UNCHANGED <<storeVars, prior, found, dispatchVars>>

Enqueue(r) ==
  \/ EnqueuePlain(r)
  \/ EnqueueChain(r)
  \/ EnqueueFind(r)
  \/ EnqueueCreate(r)
  \/ EnqueueReturn(r)

-----------------------------------------------------------------------------
(* dispatch(jobId, worker)                                                 *)

Tenant(d) == TenantOf[job[d]]

\* Jobs whose id some caller holds.
Known == {found[r] : r \in {q \in Requests : stage[q] = "returned"}}

\* store.get(jobId).
DispatchGet(d, j) ==
  /\ pc[d] = "idle"
  /\ j \in Known
  /\ job' = [job EXCEPT ![d] = j]
  /\ copy' = [copy EXCEPT ![d] = store[j]]
  /\ pc' = [pc EXCEPT ![d] = "loaded"]
  /\ UNCHANGED <<storeVars, enqueueVars, activeWorkers, perTenantWorkers, tenantWorkers>>

HasRoom(d) ==
  /\ activeWorkers < MaxGlobalWorkers
  /\ perTenantWorkers[Tenant(d)] < MaxWorkerPerTenant

\* A limit is reached or the job, as read, may not run: the call returns.
DispatchRefuse(d) ==
  /\ pc[d] = "loaded"
  /\ \/ ~HasRoom(d)
     \/ ~IsValidTransition(copy[d].status, "RUNNING")
  /\ pc' = [pc EXCEPT ![d] = "idle"]
  /\ job' = [job EXCEPT ![d] = None]
  /\ copy' = [copy EXCEPT ![d] = None]
  /\ UNCHANGED <<storeVars, enqueueVars, activeWorkers, perTenantWorkers, tenantWorkers>>

Admit(d) ==
  LET running == [copy[d] EXCEPT !.status = "RUNNING", !.attemptCount = @ + 1]
  IN  /\ copy' = [copy EXCEPT ![d] = running]
      /\ store' = [store EXCEPT ![job[d]] = running]
      /\ tenantWorkers' = [tenantWorkers EXCEPT ![d] = perTenantWorkers[Tenant(d)]]
      /\ pc' = [pc EXCEPT ![d] = "admitted"]
      /\ UNCHANGED <<enqueueVars, activeWorkers, perTenantWorkers, job>>

DispatchAdmitAny(d) ==        \* mutant: the status is not checked
  /\ pc[d] = "loaded"
  /\ HasRoom(d)
  /\ Admit(d)

\* The limits are checked and RUNNING is stored before any counter moves.
DispatchAdmit(d) ==
  /\ pc[d] = "loaded"
  /\ HasRoom(d)
  /\ IsValidTransition(copy[d].status, "RUNNING")
  /\ Admit(d)

\* store.put(running) resumed: the counters move and the worker is called.
DispatchStart(d) ==
  /\ pc[d] = "admitted"
  /\ activeWorkers' = activeWorkers + 1
  /\ perTenantWorkers' = [perTenantWorkers EXCEPT ![Tenant(d)] = tenantWorkers[d] + 1]
  /\ pc' = [pc EXCEPT ![d] = "working"]
  /\ UNCHANGED <<storeVars, enqueueVars, job, copy, tenantWorkers>>

Put(d, record) ==
  /\ copy' = [copy EXCEPT ![d] = record]
  /\ store' = [store EXCEPT ![job[d]] = record]

\* The worker resolves.
DispatchComplete(d) ==
  /\ pc[d] = "working"
  /\ Put(d, [copy[d] EXCEPT !.status = "COMPLETED"])
  /\ pc' = [pc EXCEPT ![d] = "finally"]
  /\ UNCHANGED <<enqueueVars, activeWorkers, perTenantWorkers, job, tenantWorkers>>

FailWith(d, category, isRetryable) ==
  /\ pc[d] = "working"
  /\ Put(d, [copy[d] EXCEPT
               !.status = "FAILED",
               !.errorCategory = IF isRetryable \/ category = "failClosed"
                                 THEN category ELSE "permanent"])
  /\ pc' = [pc EXCEPT ![d] = IF isRetryable THEN "backoff" ELSE "finally"]
  /\ UNCHANGED <<enqueueVars, activeWorkers, perTenantWorkers, job, tenantWorkers>>

DispatchFailOnceMore(d, category) ==    \* mutant: <= maxAttempts
  FailWith(d, category, category = "retryable" /\ copy[d].attemptCount <= MaxAttempts)

DispatchFailRetryAll(d, category) ==    \* mutant: FAIL_CLOSED is not consulted
  FailWith(d, category, category # "permanent" /\ copy[d].attemptCount < MaxAttempts)

\* The worker rejects with an error of this category.
DispatchFail(d, category) ==
  FailWith(d, category, category = "retryable" /\ copy[d].attemptCount < MaxAttempts)

DispatchRequeueExit(d) ==     \* mutant: the retry path returns past the finally
  /\ pc[d] = "backoff"
  /\ Put(d, [copy[d] EXCEPT !.status = "QUEUED"])
  /\ pc' = [pc EXCEPT ![d] = "idle"]
  /\ job' = [job EXCEPT ![d] = None]
  /\ UNCHANGED <<enqueueVars, activeWorkers, perTenantWorkers, tenantWorkers>>

\* The backoff timer fires: the failed copy is stored again as QUEUED.
DispatchRequeue(d) ==
  /\ pc[d] = "backoff"
  /\ Put(d, [copy[d] EXCEPT !.status = "QUEUED"])
  /\ pc' = [pc EXCEPT ![d] = "finally"]
  /\ UNCHANGED <<enqueueVars, activeWorkers, perTenantWorkers, job, tenantWorkers>>

Leave(d) ==
  /\ pc' = [pc EXCEPT ![d] = "idle"]
  /\ job' = [job EXCEPT ![d] = None]
  /\ copy' = [copy EXCEPT ![d] = None]
  /\ tenantWorkers' = [tenantWorkers EXCEPT ![d] = 0]
  /\ UNCHANGED <<storeVars, enqueueVars>>

DispatchReturnKeepsTenant(d) ==   \* mutant: perTenantWorkers is not given back
  /\ pc[d] = "finally"
  /\ activeWorkers' = activeWorkers - 1
  /\ Leave(d)
  /\ UNCHANGED perTenantWorkers

DispatchReturnKeepsGlobal(d) ==   \* mutant: activeWorkers is not given back
  /\ pc[d] = "finally"
  /\ perTenantWorkers' = [perTenantWorkers EXCEPT ![Tenant(d)] = IF @ > 0 THEN @ - 1 ELSE 0]
  /\ Leave(d)
  /\ UNCHANGED activeWorkers

\* finally: both counters go down and the call returns.
DispatchReturn(d) ==
  /\ pc[d] = "finally"
  /\ activeWorkers' = activeWorkers - 1
  /\ perTenantWorkers' = [perTenantWorkers EXCEPT ![Tenant(d)] = IF @ > 0 THEN @ - 1 ELSE 0]
  /\ Leave(d)

WorkerSettles(d) ==
  \/ DispatchComplete(d)
  \/ \E category \in Categories : DispatchFail(d, category)

DispatchResumes(d) ==
  \/ DispatchRefuse(d)
  \/ DispatchAdmit(d)
  \/ DispatchStart(d)
  \/ WorkerSettles(d)
  \/ DispatchRequeue(d)
  \/ DispatchReturn(d)

Next ==
  \/ \E r \in Requests : Enqueue(r)
  \/ \E d \in Dispatchers, j \in Requests : DispatchGet(d, j)
  \/ \E d \in Dispatchers : DispatchResumes(d)

Safety == Init /\ [][Next]_vars

\* Promises resume, workers settle and timers fire; a caller that holds a job
\* dispatches it again and again ("caller should re-queue later").
Fairness ==
  /\ \A r \in Requests : WF_vars(Enqueue(r))
  /\ \A d \in Dispatchers : WF_vars(DispatchResumes(d))
  /\ \A j \in Requests :
       /\ SF_vars(\E d \in Dispatchers : DispatchGet(d, j) /\ store[j].status = "QUEUED")
       /\ SF_vars(\E d \in Dispatchers : job[d] = j /\ DispatchAdmit(d))

Spec == Safety /\ Fairness

-----------------------------------------------------------------------------
Counted == {d \in Dispatchers : pc[d] \in {"working", "backoff", "finally"}}

\* activeWorkers is exactly the number of calls that were counted and have not
\* returned, on every path out of dispatch: no slot leaks, none is freed twice.
WorkersExact == activeWorkers = Cardinality(Counted)

\* The tenant counter is overwritten from a stale read, so it may be wrong, but
\* never so wrong that a tenant with no worker at all is refused for ever.
IdleTenantHasRoom ==
  \A t \in Tenants :
    (\A d \in Counted : Tenant(d) # t) => perTenantWorkers[t] < MaxWorkerPerTenant

\* However stale the copies dispatch writes back, no job is run as attempt
\* number maxAttempts + 1.
AttemptsBounded == \A r \in Stored : store[r].attemptCount <= MaxAttempts

\* Calls with one key and tenant all get one job, and only one is stored.
OneJobPerKey ==
  \A r, s \in Requests :
    Keyed(r) /\ Keyed(s) /\ DedupKey(r) = DedupKey(s) =>
      /\ r \in Stored /\ s \in Stored => r = s
      /\ stage[r] = "returned" /\ stage[s] = "returned" => found[r] = found[s]

\* A step of a call whose copy of r is no longer what the store holds.
Overtaken(r) ==
  \E d \in Dispatchers : pc'[d] # pc[d] /\ job[d] = r /\ copy[d] # store[r]

\* "No reverts", as far as it goes: nothing claims a job for one dispatch, so a
\* call that was overtaken writes an older status back; every other call, and
\* every enqueue, moves a status along VALID_TRANSITIONS only.
StatusFollowsTransitions ==
  [][\A r \in Stored : \/ store'[r].status = store[r].status
                       \/ IsValidTransition(store[r].status, store'[r].status)
                       \/ Overtaken(r)]_vars

\* A job that failed in a fail-closed category stays as it is, unless a call
\* that read the job before the failure writes its copy over it: no call that
\* begins after the failure and no timer of the failed call retries it.
FailClosedIsFinal ==
  [][\A r \in Stored :
       store[r].status = "FAILED" /\ store[r].errorCategory = "failClosed"
         => store'[r] = store[r] \/ Overtaken(r)]_vars

\* A job comes to an end, completed or failed with no retry to come, although
\* calls that dispatch it at once write over each other.
JobsFinish ==
  \A j \in Requests :
    j \in Stored ~> /\ j \in Stored
                    /\ store[j].status \in {"COMPLETED", "FAILED"}
                    /\ \A d \in Dispatchers : job[d] = j => pc[d] # "backoff"
=============================================================================
