--------------------------- MODULE ApiServer_proofs ---------------------------
(***************************************************************************)
(* Proofs about ApiServer: the limiter's accounts, the single use of a     *)
(* nonce and the audit before the answer, for any number of requests,      *)
(* clients and restarts and for every limit, window and capacity.          *)
(***************************************************************************)
EXTENDS ApiServer, TLAPS, FiniteSetTheorems, FunctionTheorems

Stages == {"new", "answered", "dropped"} \cup InFlight

Codes == Problems \cup {"none", "OK", "INTERNAL"}

ServerType == [phase : {"down", "up", "closing"}, registry : {"none", "noProxy", "read"},
               keys : Seq([client : Clients, roles : SUBSET STRING]), at : Nat]

ReqEntry == [stage : Stages, call : Calls \cup {None}, ts : Int, code : Codes]

Entry == [nonce : Nonces, expires : Int, nth : Nat]

ApiTypeOK ==
  /\ now \in Nat
  /\ server \in ServerType
  /\ req \in [Requests -> ReqEntry]
  /\ \A r \in Requests : req[r].stage \in InFlight => req[r].call \in Calls
  /\ nonces \in [Clients -> SUBSET Entry]
  /\ accepted \in Seq([key : Clients, nonce : Nonces, at : Nat])
  /\ buckets \in [Kinds -> [Clients -> Bucket \cup {None}]]
  /\ granted \in [Kinds -> [Clients -> Nat]]
  /\ pruned  \in [Kinds -> [Clients -> Nat]]
  /\ promise \in [Kinds -> [Clients -> Int \cup {None}]]

\* The books of one bucket.  A bucket that was dropped may be owed a whole
\* capacity; one that is there is exact up to its last refill, and grows into
\* what a refused client was promised.
Used(k, c)   == granted[k][c] * Window
Gained(k, c) == pruned[k][c] * PruneGain(k)

Dropped(k, c) == Used(k, c) <= (now - server.at) * Limit[k].refill + Gained(k, c)

Kept(k, c) ==
  LET b == buckets[k][c] IN
  /\ b.last <= now
  /\ b.tokens <= Full(Limit[k])
  /\ Used(k, c) + b.tokens >= Full(Limit[k])
  /\ Used(k, c) + b.tokens <= Full(Limit[k]) + (b.last - server.at) * Limit[k].refill
                                + Gained(k, c)
  /\ promise[k][c] # None => b.tokens + (promise[k][c] - b.last) * Limit[k].refill >= Window

Account(k, c) == IF buckets[k][c] = None THEN Dropped(k, c) ELSE Kept(k, c)

Accounts == \A k \in Kinds, c \in Clients : Account(k, c)

-----------------------------------------------------------------------------
\* What the operators of the limiter return.

\* A limit is positive, and a full bucket holds at least one request.
LEMMA LimitFacts ==
  ASSUME NEW k \in Kinds
  PROVE  /\ Limit[k].capacity \in Nat \ {0} /\ Limit[k].refill \in Nat \ {0}
         /\ Full(Limit[k]) \in Nat /\ Full(Limit[k]) >= Window
         /\ Window \in Nat \ {0}
<1>1. Limit[k] \in Limits
  BY ApiAssumption DEF ApiAssumption
<1>2. ASSUME NEW n \in Nat \ {0}, NEW w \in Nat \ {0} PROVE n * w \in Nat /\ n * w >= w
  <2>1. (n - 1) * w >= 0
    BY <1>2
  <2> QED
    BY <1>2, <2>1
<1> QED
  BY <1>1, <1>2, WindowAssumption DEF Limits, Full, WindowAssumption

\* refill() never loses a token, never overfills, and is exact below the capacity.
LEMMA RefilledFacts ==
  ASSUME NEW k \in Kinds, NEW b \in Bucket, NEW t \in Nat,
         b.last <= t, b.tokens <= Full(Limit[k])
  PROVE  LET n == Refilled(b, Limit[k], t) IN
         /\ n \in Bucket /\ n.last = t /\ n.tokens <= Full(Limit[k])
         /\ n.tokens >= b.tokens
         /\ n.tokens <= b.tokens + (t - b.last) * Limit[k].refill
         /\ \/ n.tokens = Full(Limit[k])
            \/ n.tokens = b.tokens + (t - b.last) * Limit[k].refill
<1>1. Limit[k].refill \in Nat /\ Full(Limit[k]) \in Nat
  BY LimitFacts
<1>2. /\ b.tokens \in Nat /\ b.last \in Nat /\ t - b.last \in Nat
      /\ b = [tokens |-> b.tokens, last |-> b.last]
  BY DEF Bucket
<1>3. (t - b.last) * Limit[k].refill \in Nat
  BY <1>1, <1>2
<1>4. CASE t <= b.last
  <2>1. t = b.last
    BY <1>2, <1>4
  <2>2. (t - b.last) * Limit[k].refill = 0
    BY <1>1, <1>2, <2>1
  <2> QED
    BY <1>2, <1>4, <2>1, <2>2 DEF Refilled
<1>5. CASE ~(t <= b.last)
  <2> DEFINE more == (t - b.last) * Limit[k].refill
  <2>1. more \in Nat
    BY <1>3
  <2>2. Refilled(b, Limit[k], t) =
          [tokens |-> IF b.tokens + more <= Full(Limit[k]) THEN b.tokens + more
                      ELSE Full(Limit[k]), last |-> t]
    BY <1>5 DEF Refilled
  <2> HIDE DEF more
  <2>3. LET n == Refilled(b, Limit[k], t) IN
        /\ n \in Bucket /\ n.last = t /\ n.tokens <= Full(Limit[k])
        /\ n.tokens >= b.tokens /\ n.tokens <= b.tokens + more
        /\ n.tokens = Full(Limit[k]) \/ n.tokens = b.tokens + more
    BY <1>1, <1>2, <2>1, <2>2 DEF Bucket
  <2> QED
    BY <2>3 DEF more
<1> QED
  BY <1>4, <1>5

\* Consuming refills or creates the client's own bucket, and drops of the
\* others only what has not been touched for two windows.
LEMMA RefreshedFacts ==
  ASSUME NEW k \in Kinds, NEW bs \in [Clients -> Bucket \cup {None}],
         NEW c \in Clients, NEW t \in Nat,
         bs[c] # None => bs[c].last <= t /\ bs[c].tokens <= Full(Limit[k])
  PROVE  LET n == Refreshed(bs, c, Limit[k], t) IN
         /\ n \in [Clients -> Bucket \cup {None}]
         /\ n[c] = IF bs[c] # None THEN Refilled(bs[c], Limit[k], t)
                   ELSE [tokens |-> Full(Limit[k]), last |-> t]
         /\ \A d \in Clients \ {c} :
              \/ n[d] = bs[d]
              \/ n[d] = None /\ bs[d] # None /\ t - bs[d].last > 2 * Window
<1>1. CASE bs[c] # None
  <2>1. bs[c] \in Bucket
    BY <1>1
  <2>2. Refilled(bs[c], Limit[k], t) \in Bucket
    BY <1>1, <2>1, RefilledFacts
  <2> QED
    BY <1>1, <2>2 DEF Refreshed
<1>2. CASE bs[c] = None
  <2> DEFINE new == [tokens |-> Full(Limit[k]), last |-> t]
             all == [bs EXCEPT ![c] = new]
  <2>1. Refreshed(bs, c, Limit[k], t) = Prune(all, t)
    BY <1>2 DEF Refreshed
  <2>2. new \in Bucket
    BY LimitFacts DEF Bucket
  <2>3. ~Stale(new, t)
    BY WindowAssumption DEF Stale, WindowAssumption
  <2> HIDE DEF new
  <2>4. /\ all \in [Clients -> Bucket \cup {None}]
        /\ all[c] = new /\ \A d \in Clients \ {c} : all[d] = bs[d]
    BY <2>2
  <2> HIDE DEF all
  <2>5. /\ Prune(all, t) \in [Clients -> Bucket \cup {None}]
        /\ \A d \in Clients : \/ Prune(all, t)[d] = all[d]
                              \/ Prune(all, t)[d] = None /\ Stale(all[d], t)
    BY <2>4 DEF Prune
  <2>6. Prune(all, t)[c] = new
    BY <2>3, <2>4, <2>5
  <2>7. \A d \in Clients \ {c} :
          \/ Prune(all, t)[d] = bs[d]
          \/ Prune(all, t)[d] = None /\ bs[d] # None /\ t - bs[d].last > 2 * Window
    BY <2>4, <2>5 DEF Stale
  <2> QED
    BY <1>2, <2>1, <2>5, <2>6, <2>7 DEF new
<1> QED
  BY <1>1, <1>2

\* The client that waits as long as it is told finds a token.
LEMMA RetryAfterFacts ==
  ASSUME NEW k \in Kinds, NEW b \in Bucket
  PROVE  /\ RetryAfter(b, Limit[k]) \in Int
         /\ b.tokens + RetryAfter(b, Limit[k]) * Limit[k].refill >= Window
<1>1. ASSUME NEW n \in Int, NEW d \in Nat \ {0}
      PROVE  n \div d \in Int /\ (n \div d) * d > n - d
  <2>1. n = d * (n \div d) + (n % d) /\ n % d \in 0 .. d - 1 /\ n \div d \in Int
    BY <1>1
  <2> QED
    BY <1>1, <2>1
<1>2. Limit[k].refill \in Nat \ {0} /\ Window \in Nat /\ b.tokens \in Nat
  BY LimitFacts DEF Bucket
<1>3. (Window - b.tokens + Limit[k].refill - 1) \in Int
  BY <1>2
<1>4. /\ RetryAfter(b, Limit[k]) \in Int
      /\ RetryAfter(b, Limit[k]) * Limit[k].refill
           > (Window - b.tokens + Limit[k].refill - 1) - Limit[k].refill
  BY <1>1, <1>2, <1>3 DEF RetryAfter
<1>5. RetryAfter(b, Limit[k]) * Limit[k].refill \in Int
  BY <1>2, <1>4
<1> QED
  BY <1>2, <1>4, <1>5

-----------------------------------------------------------------------------
\* Type correctness.

\* The initial state is well typed.
LEMMA ApiTypeInit == Init => ApiTypeOK
<1> SUFFICES ASSUME Init PROVE ApiTypeOK
  OBVIOUS
<1>1. \A r \in Requests : req[r] = NoCall("new", "none")
  BY DEF Init
<1>2. req \in [Requests -> ReqEntry]
  BY DEF Init, NoCall, Stages, ReqEntry, Codes
<1>3. \A r \in Requests : req[r].stage \notin InFlight
  BY <1>1 DEF NoCall, InFlight
<1> QED
  BY <1>2, <1>3 DEF Init, ApiTypeOK, ServerType

\* Time passes alone.
LEMMA ClockStep ==
  ASSUME ApiTypeOK, Tick
  PROVE  /\ now' = now + 1
         /\ UNCHANGED <<server, req, nonces, accepted, limiter, audit>>
<1> QED
  BY DEF Tick

\* The end of a process drops what was in flight and leaves the rest as it was.
LEMMA StopStep ==
  ASSUME ApiTypeOK, Shutdown \/ Exit \/ Crash
  PROVE  /\ UNCHANGED <<now, nonces, accepted, limiter, audit>>
         /\ server'.at = server.at /\ server' \in ServerType
         /\ \A r \in Requests : \/ req'[r] = req[r]
                               \/ req'[r] = NoCall("dropped", "none")
         /\ DOMAIN req' = Requests
<1>1. server \in ServerType
  BY DEF ApiTypeOK
<1>2. DOMAIN req = Requests
  BY DEF ApiTypeOK
<1>3. CASE Shutdown
  BY <1>1, <1>2, <1>3 DEF Shutdown, ServerType
<1>4. CASE Exit
  BY <1>1, <1>2, <1>4 DEF Exit, ServerType
<1>5. CASE Crash
  <2>1. /\ server' \in ServerType /\ server'.at = server.at
        /\ UNCHANGED <<now, nonces, accepted, limiter, audit>>
    BY <1>1, <1>5 DEF Crash, ServerType
  <2>2. req' = [r \in Requests |-> IF req[r].stage \in InFlight
                                   THEN NoCall("dropped", "none") ELSE req[r]]
    BY <1>5 DEF Crash
  <2> QED
    BY <2>1, <2>2
<1> QED
  BY <1>3, <1>4, <1>5

\* The entry of a request, as a step of that request may leave it.
GoodEntry(e) == e \in ReqEntry /\ (e.stage \in InFlight => e.call \in Calls)

\* A well-typed entry for one request keeps all of them well typed.
LEMMA MovedTypes ==
  ASSUME ApiTypeOK, NEW r \in Requests, NEW e, GoodEntry(e), req' = [req EXCEPT ![r] = e]
  PROVE  /\ req' \in [Requests -> ReqEntry]
         /\ \A q \in Requests : req'[q].stage \in InFlight => req'[q].call \in Calls
<1> QED
  BY DEF ApiTypeOK, GoodEntry, ReqEntry

\* Answer() and a crash leave such an entry.
LEMMA AnswerGood ==
  ASSUME NEW code \in Codes, NEW stage \in Stages \ InFlight PROVE GoodEntry(NoCall(stage, code))
<1> QED
  BY DEF NoCall, GoodEntry, ReqEntry, Stages

\* Goto() does too.
LEMMA GotoGood ==
  ASSUME ApiTypeOK, NEW r \in Requests, req[r].stage \in InFlight,
         NEW stage \in Stages, NEW code \in Codes, Goto(r, stage, code)
  PROVE  /\ req' = [req EXCEPT ![r] = [req[r] EXCEPT !.stage = stage, !.code = code]]
         /\ GoodEntry([req[r] EXCEPT !.stage = stage, !.code = code])
<1>1. req[r] \in ReqEntry /\ req[r].call \in Calls
  BY DEF ApiTypeOK, ReqEntry
<1>2. GoodEntry([req[r] EXCEPT !.stage = stage, !.code = code])
  BY <1>1 DEF ReqEntry, GoodEntry
<1> QED
  BY <1>2 DEF Goto, ApiTypeOK

\* A handler ends with a code.
LEMMA OutcomesAreCodes ==
  ASSUME NEW call \in Calls, NEW code \in Outcomes(call.op)
  PROVE  code \in Codes
<1>1. call.op \in Ops
  BY ApiAssumption DEF ApiAssumption, CallType
<1>2. CASE call.op = "verify"
  BY <1>2 DEF Outcomes, VerifyProof, EngineVerify, Codes, Problems
<1>3. CASE call.op \in {"status", "registry"}
  BY <1>3 DEF Outcomes, ProofStatus, RegistryInfo, RegistryRead, Problem, Problems, Codes
<1>4. CASE call.op \in {"circuits", "audit", "auditLogs"}
  BY <1>4 DEF Outcomes, ListCircuits, AuditList, Codes
<1> QED
  BY <1>1, <1>2, <1>3, <1>4 DEF Ops

\* What a step of one request does to it, and which actions touch the limiter
\* and the nonces at all.
LEMMA RequestStep ==
  ASSUME ApiTypeOK, NEW r \in Requests, Arrive(r) \/ Handle(r)
  PROVE  /\ UNCHANGED <<now, server>>
         /\ \E e : GoodEntry(e) /\ req' = [req EXCEPT ![r] = e]
         /\ Admit(r) \/ UNCHANGED limiter
         /\ Authenticate(r) \/ UNCHANGED replay
<1>0. DOMAIN req = Requests /\ req[r] \in ReqEntry
  BY DEF ApiTypeOK
<1>1. CASE Arrive(r)
  <2>1. PICK call \in Calls :
          LET code == IF Validation(call) # "none" THEN Validation(call)
                      ELSE IF ~call.headers THEN "AUTH-MISSING" ELSE "none"
          IN IF code = "none"
             THEN req' = [req EXCEPT ![r] = [stage |-> "lookup", call |-> call,
                                             ts |-> now + call.skew, code |-> code]]
             ELSE Answer(r, code)
    BY <1>1 DEF Arrive
  <2>2. call.skew \in Int /\ now \in Int
    BY ApiAssumption DEF ApiAssumption, CallType, ApiTypeOK
  <2>3. GoodEntry([stage |-> "lookup", call |-> call, ts |-> now + call.skew, code |-> "none"])
    BY <2>2 DEF GoodEntry, ReqEntry, Stages, InFlight, Codes
  <2>4. \E e : GoodEntry(e) /\ req' = [req EXCEPT ![r] = e]
    BY <2>1, <2>3, AnswerGood DEF Answer, Validation, Stages, InFlight, Codes, Problems
  <2> QED
    BY <1>1, <2>4 DEF Arrive, replay
<1>2. ASSUME NEW code \in Codes, Answer(r, code)
      PROVE  \E e : GoodEntry(e) /\ req' = [req EXCEPT ![r] = e]
  BY <1>2, AnswerGood DEF Answer, Stages, InFlight
<1>3. ASSUME NEW code \in Codes, NEW stage \in Stages, Goto(r, stage, code),
             req[r].stage \in InFlight
      PROVE  \E e : GoodEntry(e) /\ req' = [req EXCEPT ![r] = e]
  BY <1>3, GotoGood
<1>4. ASSUME NEW code \in Codes, AuditThen(r, code), req[r].stage \in InFlight
      PROVE  \E e : GoodEntry(e) /\ req' = [req EXCEPT ![r] = e]
  <2>1. Problem("write error") \in Codes /\ "audited" \in Stages
    BY DEF Problem, Problems, Codes, Stages, InFlight
  <2> QED
    BY <1>2, <1>3, <1>4, <2>1 DEF AuditThen
<1>5. CASE Authenticate(r)
  <2>1. "consumed" \in Stages /\ req[r].stage \in InFlight
    BY <1>5 DEF Authenticate, Stages, InFlight
  <2>2. (\E code \in Codes : Answer(r, code)) \/ Goto(r, "consumed", "none")
    BY <1>5 DEF Authenticate, Codes, Problems
  <2>3. "none" \in Codes
    BY DEF Codes
  <2>4. \E e : GoodEntry(e) /\ req' = [req EXCEPT ![r] = e]
    BY <1>2, <1>3, <2>1, <2>2, <2>3
  <2> QED
    BY <1>5, <2>4 DEF Authenticate
<1>6. CASE Admit(r)
  <2>1. "handler" \in Stages /\ req[r].stage \in InFlight
    BY <1>6 DEF Admit, Stages, InFlight
  <2>2. \/ Answer(r, "AUTH-FORBIDDEN") \/ Goto(r, "handler", "none")
        \/ AuditThen(r, "RATE-LIMITED")
    BY <1>6 DEF Admit
  <2>3. {"AUTH-FORBIDDEN", "none", "RATE-LIMITED"} \subseteq Codes
    BY DEF Codes, Problems
  <2>4. \E e : GoodEntry(e) /\ req' = [req EXCEPT ![r] = e]
    BY <1>2, <1>3, <1>4, <2>1, <2>2, <2>3
  <2> QED
    BY <1>6, <2>4 DEF Admit, replay
<1>7. CASE Work(r)
  <2>1. req[r].stage \in InFlight
    BY <1>7 DEF Work, InFlight
  <2>2. PICK code \in Outcomes(req[r].call.op) : AuditThen(r, code) \/ Answer(r, code)
    BY <1>7 DEF Work
  <2>3. code \in Codes
    BY OutcomesAreCodes, <1>7, <2>1 DEF ApiTypeOK
  <2>4. \E e : GoodEntry(e) /\ req' = [req EXCEPT ![r] = e]
    BY <1>2, <1>4, <2>1, <2>2, <2>3
  <2> QED
    BY <1>7, <2>4 DEF Work, replay
<1>8. CASE Finish(r)
  <2>1. req[r].code \in Codes
    BY <1>0 DEF ReqEntry
  <2>2. \E e : GoodEntry(e) /\ req' = [req EXCEPT ![r] = e]
    BY <1>2, <1>8, <2>1 DEF Finish
  <2> QED
    BY <1>8, <2>2 DEF Finish, replay
<1> QED
  BY <1>1, <1>5, <1>6, <1>7, <1>8 DEF Handle

-----------------------------------------------------------------------------
\* The limiter's accounts.

\* What a dropped bucket is owed: two windows of refill and PruneGain fill it.
LEMMA PruneGainFacts ==
  ASSUME NEW k \in Kinds
  PROVE  /\ PruneGain(k) \in Nat
         /\ Full(Limit[k]) <= PruneGain(k) + 2 * Window * Limit[k].refill
<1> DEFINE cap == Limit[k].capacity
           ref == Limit[k].refill
<1>1. cap \in Nat \ {0} /\ ref \in Nat \ {0} /\ Window \in Nat \ {0}
  BY LimitFacts
<1>2. Full(Limit[k]) = cap * Window
  BY DEF Full
<1>3. PruneGain(k) = IF cap <= 2 * ref THEN 0 ELSE (cap - 2 * ref) * Window
  BY DEF PruneGain
<1> HIDE DEF cap, ref
<1>4. ASSUME NEW m \in Nat, NEW n \in Nat, m <= n PROVE m * Window <= n * Window
  <2>1. (n - m) * Window \in Nat
    BY <1>1, <1>4
  <2>2. (n - m) * Window = n * Window - m * Window
    BY <1>1, <1>4
  <2>3. m * Window \in Nat /\ n * Window \in Nat
    BY <1>1, <1>4
  <2> QED
    BY <2>1, <2>2, <2>3
<1>5. CASE cap <= 2 * ref
  <2>1. cap * Window <= (2 * ref) * Window
    BY <1>1, <1>4, <1>5
  <2>2. (2 * ref) * Window = 2 * Window * ref
    BY <1>1
  <2> QED
    BY <1>1, <1>2, <1>3, <1>5, <2>1, <2>2 DEF ref
<1>6. CASE ~(cap <= 2 * ref)
  <2>1. (cap - 2 * ref) \in Nat
    BY <1>1, <1>6
  <2>2. (cap - 2 * ref) * Window = cap * Window - 2 * Window * ref
    BY <1>1
  <2>3. (cap - 2 * ref) * Window \in Nat
    BY <1>1, <2>1
  <2>4. cap * Window \in Nat /\ 2 * Window * ref \in Nat
    BY <1>1
  <2> QED
    BY <1>2, <1>3, <1>6, <2>2, <2>3, <2>4 DEF ref
<1> QED
  BY <1>5, <1>6

\* The terms of the books are numbers.
LEMMA UsedTypes ==
  ASSUME ApiTypeOK, NEW k \in Kinds, NEW c \in Clients
  PROVE  /\ Used(k, c) \in Nat /\ Gained(k, c) \in Nat
         /\ now \in Nat /\ server.at \in Nat
         /\ buckets[k][c] = None \/ buckets[k][c] \in Bucket
<1>1. /\ granted[k][c] \in Nat /\ pruned[k][c] \in Nat
      /\ now \in Nat /\ server.at \in Nat
      /\ buckets[k][c] = None \/ buckets[k][c] \in Bucket
  BY DEF ApiTypeOK, ServerType
<1>2. ASSUME NEW m \in Nat, NEW n \in Nat PROVE m * n \in Nat
  BY <1>2
<1> QED
  BY <1>1, <1>2, PruneGainFacts, LimitFacts DEF Used, Gained

\* A bucket that has been idle for two windows may be dropped: it owes no more
\* than a full one, but for PruneGain.
LEMMA DropArithmetic ==
  ASSUME NEW used \in Int, NEW tokens \in Nat, NEW full \in Int, NEW last \in Int, NEW at \in Int,
         NEW t \in Int, NEW rate \in Nat, NEW gained \in Int, NEW gain \in Int,
         used + tokens <= full + (last - at) * rate + gained,
         t - last > 2 * Window,
         full <= gain + 2 * Window * rate
  PROVE  used <= (t - at) * rate + (gained + gain)
<1>0. Window \in Nat
  BY WindowAssumption DEF WindowAssumption
<1>1. (t - last - 2 * Window) * rate >= 0
  <2>1. t - last - 2 * Window \in Nat
    BY <1>0
  <2> QED
    BY <2>1
<1>2. (t - last - 2 * Window) * rate = (t - at) * rate - (last - at) * rate - 2 * Window * rate
  BY <1>0
<1>3. (t - at) * rate \in Int /\ (last - at) * rate \in Int /\ 2 * Window * rate \in Int
  BY <1>0
<1> QED
  BY <1>1, <1>2, <1>3

\* Time that passes only adds to what an absent bucket may have been used for.
LEMMA TimeArithmetic ==
  ASSUME NEW s \in Int, NEW t \in Int, NEW at \in Int, NEW rate \in Nat, s <= t
  PROVE  /\ (s - at) * rate <= (t - at) * rate
         /\ (s - at) * rate + (t - s) * rate = (t - at) * rate
         /\ (s - at) * rate \in Int /\ (t - at) * rate \in Int /\ (t - s) * rate \in Nat
<1>1. (t - s) * rate \in Nat
  <2>1. t - s \in Nat
    OBVIOUS
  <2> QED
    BY <2>1
<1>2. (s - at) * rate + (t - s) * rate = (t - at) * rate
  OBVIOUS
<1>3. (s - at) * rate \in Int /\ (t - at) * rate \in Int
  OBVIOUS
<1> QED
  BY <1>1, <1>2, <1>3

\* The books hold once the client's own bucket is brought up to date.
LEMMA RefreshedAccount ==
  ASSUME ApiTypeOK, Accounts, NEW k \in Kinds, NEW c \in Clients
  PROVE  LET n == Refreshed(buckets[k], c, Limit[k], now)[c] IN
         /\ n \in Bucket /\ n.last = now
         /\ n.tokens <= Full(Limit[k])
         /\ Used(k, c) + n.tokens >= Full(Limit[k])
         /\ Used(k, c) + n.tokens <= Full(Limit[k]) + (now - server.at) * Limit[k].refill
                                       + Gained(k, c)
         /\ promise[k][c] # None /\ now >= promise[k][c] => n.tokens >= Window
<1> DEFINE b == buckets[k][c]
           n == Refreshed(buckets[k], c, Limit[k], now)[c]
           rate == Limit[k].refill
           full == Full(Limit[k])
<1>1. n = IF b # None THEN Refilled(b, Limit[k], now) ELSE [tokens |-> full, last |-> now]
  <2>1. buckets[k] \in [Clients -> Bucket \cup {None}] /\ now \in Nat
    BY DEF ApiTypeOK
  <2>2. b # None => b.last <= now /\ b.tokens <= full
    BY DEF Accounts, Account, Kept
  <2> QED
    BY <2>1, <2>2, RefreshedFacts
<1>2. /\ Used(k, c) \in Nat /\ Gained(k, c) \in Nat /\ now \in Nat /\ server.at \in Nat
      /\ b = None \/ b \in Bucket
  BY UsedTypes
<1>3. full \in Nat /\ full >= Window /\ rate \in Nat /\ Window \in Nat
  BY LimitFacts
<1>4. (now - server.at) * rate \in Int
  BY <1>2, <1>3
<1>5. promise[k][c] # None => promise[k][c] \in Int
  BY DEF ApiTypeOK
<1>6. CASE b = None
  <2>1. n = [tokens |-> full, last |-> now]
    BY <1>1, <1>6
  <2>2. Used(k, c) <= (now - server.at) * rate + Gained(k, c)
    BY <1>6 DEF Accounts, Account, Dropped
  <2> HIDE DEF rate, full, n
  <2>3. /\ n \in Bucket /\ n.last = now /\ n.tokens = full
    BY <1>2, <1>3, <2>1 DEF Bucket
  <2>4. /\ n \in Bucket /\ n.last = now /\ n.tokens <= full /\ Used(k, c) + n.tokens >= full
        /\ Used(k, c) + n.tokens <= full + (now - server.at) * rate + Gained(k, c)
        /\ n.tokens >= Window
    BY <1>2, <1>3, <1>4, <2>2, <2>3
  <2> QED
    BY <2>4 DEF rate, full, n
<1>7. CASE b # None
  <2>1. n = Refilled(b, Limit[k], now) /\ b \in Bucket
    BY <1>1, <1>2, <1>7
  <2>2. /\ b.last <= now /\ b.tokens <= full
        /\ Used(k, c) + b.tokens >= full
        /\ Used(k, c) + b.tokens <= full + (b.last - server.at) * rate + Gained(k, c)
        /\ promise[k][c] # None => b.tokens + (promise[k][c] - b.last) * rate >= Window
    BY <1>7 DEF Accounts, Account, Kept
  <2>3. /\ n \in Bucket /\ n.last = now /\ n.tokens <= full
        /\ n.tokens >= b.tokens
        /\ n.tokens <= b.tokens + (now - b.last) * rate
        /\ n.tokens = full \/ n.tokens = b.tokens + (now - b.last) * rate
    BY <1>2, <2>1, <2>2, RefilledFacts
  <2>4. b.tokens \in Nat /\ b.last \in Nat /\ n.tokens \in Nat
    BY <2>1, <2>3 DEF Bucket
  <2> HIDE DEF rate, full, n, b
  <2>5. /\ (b.last - server.at) * rate + (now - b.last) * rate = (now - server.at) * rate
        /\ (b.last - server.at) * rate \in Int /\ (now - b.last) * rate \in Nat
    BY <1>2, <1>3, <2>2, <2>4, TimeArithmetic
  <2>6. /\ Used(k, c) + n.tokens >= full
        /\ Used(k, c) + n.tokens <= full + (now - server.at) * rate + Gained(k, c)
    BY <1>2, <1>3, <1>4, <2>2, <2>3, <2>4, <2>5
  <2>7. ASSUME promise[k][c] # None, now >= promise[k][c] PROVE n.tokens >= Window
    <3>1. promise[k][c] \in Int
      BY <1>5, <2>7
    <3>2. (promise[k][c] - b.last) * rate <= (now - b.last) * rate
      BY <1>2, <1>3, <2>4, <2>7, <3>1, TimeArithmetic
    <3>3. (promise[k][c] - b.last) * rate \in Int
      BY <1>3, <2>4, <3>1
    <3> QED
      BY <1>3, <2>2, <2>3, <2>4, <2>5, <2>7, <3>2, <3>3
  <2> QED
    BY <2>3, <2>6, <2>7 DEF rate, full, n
<1> QED
  BY <1>6, <1>7

\* A request that reaches the limiter is of a known client and route.
LEMMA ConsumedCall ==
  ASSUME ApiTypeOK, NEW r \in Requests, req[r].stage \in InFlight
  PROVE  req[r].call.key \in Clients /\ Kind(req[r].call.op) \in Kinds
<1> QED
  BY ApiAssumption DEF ApiAssumption, ApiTypeOK, CallType, Kind, Kinds

\* RateLimiter.check() for client c, as Admit has it.
Check(k, c) ==
  LET b == Refreshed(buckets[k], c, Limit[k], now)
      dropped == {d \in Clients : buckets[k][d] # None /\ b[d] = None}
  IN
  /\ pruned' = [pruned EXCEPT ![k] =
                 [d \in Clients |-> IF d \in dropped THEN pruned[k][d] + 1 ELSE pruned[k][d]]]
  /\ UNCHANGED <<now, server>>
  /\ \/ /\ b[c].tokens >= Window
        /\ buckets' = [buckets EXCEPT ![k] = [b EXCEPT ![c].tokens = b[c].tokens - Window]]
        /\ granted' = [granted EXCEPT ![k][c] = granted[k][c] + 1]
        /\ promise' = [promise EXCEPT ![k][c] = None]
     \/ /\ b[c].tokens < Window
        /\ buckets' = [buckets EXCEPT ![k] = b]
        /\ promise' = [promise EXCEPT ![k][c] = now + RetryAfter(b[c], Limit[k])]
        /\ UNCHANGED granted

\* Admit() is that check for the request's client and route.
LEMMA AdmitChecks ==
  ASSUME ApiTypeOK, NEW r \in Requests, Admit(r)
  PROVE  /\ req[r].call.key \in Clients /\ Kind(req[r].call.op) \in Kinds
         /\ Check(Kind(req[r].call.op), req[r].call.key)
<1>1. req[r].call.key \in Clients /\ Kind(req[r].call.op) \in Kinds
  BY ConsumedCall DEF Admit, InFlight
<1> QED
  BY <1>1 DEF Admit, Check

\* The limiter's step, with its books.
LEMMA CheckStep ==
  ASSUME ApiTypeOK, Accounts, NEW k \in Kinds, NEW c \in Clients, Check(k, c)
  PROVE  /\ buckets' \in [Kinds -> [Clients -> Bucket \cup {None}]]
         /\ granted' \in [Kinds -> [Clients -> Nat]]
         /\ pruned'  \in [Kinds -> [Clients -> Nat]]
         /\ promise' \in [Kinds -> [Clients -> Int \cup {None}]]
         /\ Accounts'
         /\ promise[k][c] # None /\ now >= promise[k][c] => granted'[k][c] > granted[k][c]
<1> DEFINE b == Refreshed(buckets[k], c, Limit[k], now)
           dropped == {d \in Clients : buckets[k][d] # None /\ b[d] = None}
           full == Full(Limit[k])
           rate == Limit[k].refill
           paid == [b EXCEPT ![c].tokens = b[c].tokens - Window]
<1>2. /\ now \in Nat /\ server.at \in Nat
      /\ buckets \in [Kinds -> [Clients -> Bucket \cup {None}]]
      /\ granted \in [Kinds -> [Clients -> Nat]]
      /\ pruned  \in [Kinds -> [Clients -> Nat]]
      /\ promise \in [Kinds -> [Clients -> Int \cup {None}]]
  BY DEF ApiTypeOK, ServerType
<1>3. /\ b \in [Clients -> Bucket \cup {None}]
      /\ \A d \in Clients \ {c} :
           \/ b[d] = buckets[k][d]
           \/ b[d] = None /\ buckets[k][d] # None /\ now - buckets[k][d].last > 2 * Window
  <2>1. buckets[k] \in [Clients -> Bucket \cup {None}]
    BY <1>2
  <2>2. buckets[k][c] # None => buckets[k][c].last <= now /\ buckets[k][c].tokens <= full
    BY DEF Accounts, Account, Kept
  <2> QED
    BY <1>2, <2>1, <2>2, RefreshedFacts
<1>4. /\ b[c] \in Bucket /\ b[c].last = now
      /\ b[c].tokens <= full
      /\ Used(k, c) + b[c].tokens >= full
      /\ Used(k, c) + b[c].tokens <= full + (now - server.at) * rate + Gained(k, c)
      /\ promise[k][c] # None /\ now >= promise[k][c] => b[c].tokens >= Window
  BY RefreshedAccount
<1>5. /\ pruned' = [pruned EXCEPT ![k] =
                 [d \in Clients |-> IF d \in dropped THEN pruned[k][d] + 1 ELSE pruned[k][d]]]
      /\ now' = now /\ server' = server
      /\ \/ /\ b[c].tokens >= Window
            /\ buckets' = [buckets EXCEPT ![k] = paid]
            /\ granted' = [granted EXCEPT ![k][c] = granted[k][c] + 1]
            /\ promise' = [promise EXCEPT ![k][c] = None]
         \/ /\ b[c].tokens < Window
            /\ buckets' = [buckets EXCEPT ![k] = b]
            /\ promise' = [promise EXCEPT ![k][c] = now + RetryAfter(b[c], Limit[k])]
            /\ granted' = granted
  BY DEF Check
<1>6. /\ RetryAfter(b[c], Limit[k]) \in Int
      /\ b[c].tokens + RetryAfter(b[c], Limit[k]) * rate >= Window
  BY <1>4, RetryAfterFacts
<1>7. Window \in Nat \ {0} /\ full \in Nat /\ rate \in Nat
  BY LimitFacts
<1>8. c \notin dropped /\ dropped \subseteq Clients
  BY <1>4, NoBucketAssumption
<1> HIDE DEF b, dropped
<1>9. b[c].tokens \in Nat /\ b[c].last \in Nat /\ b[c] = [tokens |-> b[c].tokens, last |-> now]
  BY <1>4 DEF Bucket
<1>10. /\ paid \in [Clients -> [tokens : Int, last : Nat] \cup {None}]
       /\ paid[c] = [tokens |-> b[c].tokens - Window, last |-> now]
       /\ \A d \in Clients \ {c} : paid[d] = b[d]
  BY <1>3, <1>7, <1>9 DEF Bucket
<1>11. /\ pruned' \in [Kinds -> [Clients -> Nat]]
       /\ \A j \in Kinds, d \in Clients :
            pruned'[j][d] = IF j = k /\ d \in dropped THEN pruned[j][d] + 1 ELSE pruned[j][d]
  <2> DEFINE row == [d \in Clients |-> IF d \in dropped THEN pruned[k][d] + 1 ELSE pruned[k][d]]
  <2>1. row \in [Clients -> Nat] /\ pruned' = [pruned EXCEPT ![k] = row]
    BY <1>2, <1>5
  <2>2. \A d \in Clients : row[d] = IF d \in dropped THEN pruned[k][d] + 1 ELSE pruned[k][d]
    OBVIOUS
  <2> HIDE DEF row
  <2> QED
    BY <1>2, <2>1, <2>2
<1> DEFINE own == buckets'[k][c]
<1>13. ASSUME b[c].tokens >= Window,
              buckets' = [buckets EXCEPT ![k] = paid],
              granted' = [granted EXCEPT ![k][c] = granted[k][c] + 1],
              promise' = [promise EXCEPT ![k][c] = None]
       PROVE  /\ buckets' \in [Kinds -> [Clients -> Bucket \cup {None}]]
              /\ granted' \in [Kinds -> [Clients -> Nat]]
              /\ promise' \in [Kinds -> [Clients -> Int \cup {None}]]
              /\ own = [tokens |-> b[c].tokens - Window, last |-> now]
              /\ granted'[k][c] = granted[k][c] + 1 /\ promise'[k][c] = None
              /\ \A j \in Kinds, d \in Clients : j # k \/ d # c =>
                   /\ granted'[j][d] = granted[j][d] /\ promise'[j][d] = promise[j][d]
                   /\ buckets'[j][d] = IF j = k THEN b[d] ELSE buckets[j][d]
  <2>1. paid[c] \in Bucket
    BY <1>2, <1>7, <1>9, <1>10, <1>13 DEF Bucket
  <2>2. paid \in [Clients -> Bucket \cup {None}]
    BY <1>3, <1>10, <2>1
  <2> HIDE DEF paid
  <2> QED
    BY <1>2, <1>10, <1>13, <2>2
<1>14. ASSUME b[c].tokens < Window,
              buckets' = [buckets EXCEPT ![k] = b],
              promise' = [promise EXCEPT ![k][c] = now + RetryAfter(b[c], Limit[k])],
              granted' = granted
       PROVE  /\ buckets' \in [Kinds -> [Clients -> Bucket \cup {None}]]
              /\ granted' \in [Kinds -> [Clients -> Nat]]
              /\ promise' \in [Kinds -> [Clients -> Int \cup {None}]]
              /\ own = b[c]
              /\ granted'[k][c] = granted[k][c]
              /\ promise'[k][c] = now + RetryAfter(b[c], Limit[k])
              /\ \A j \in Kinds, d \in Clients : j # k \/ d # c =>
                   /\ granted'[j][d] = granted[j][d] /\ promise'[j][d] = promise[j][d]
                   /\ buckets'[j][d] = IF j = k THEN b[d] ELSE buckets[j][d]
  <2> DEFINE back == now + RetryAfter(b[c], Limit[k])
  <2>1. back \in Int
    BY <1>2, <1>6
  <2>2. promise' = [promise EXCEPT ![k][c] = back]
    BY <1>14
  <2>3. promise'[k][c] = back
    BY <1>2, <2>2
  <2> HIDE DEF back
  <2>4. /\ promise' \in [Kinds -> [Clients -> Int \cup {None}]]
        /\ \A j \in Kinds, d \in Clients : j # k \/ d # c => promise'[j][d] = promise[j][d]
    BY <1>2, <2>1, <2>2
  <2> QED
    BY <1>2, <1>3, <1>14, <2>3, <2>4 DEF back
<1>15. Account(k, c)'
  <2> DEFINE allowed == (now - server.at) * rate
  <2>1. /\ Used(k, c) \in Nat /\ Gained(k, c) \in Nat /\ allowed \in Int
        /\ Gained(k, c)' = Gained(k, c)
    <3>1. Gained(k, c)' = Gained(k, c)
      BY <1>8, <1>11 DEF Gained
    <3>2. allowed \in Int
      BY <1>2, <1>7
    <3> QED
      BY <3>1, <3>2, UsedTypes
  <2>2. CASE b[c].tokens >= Window /\ own = [tokens |-> b[c].tokens - Window, last |-> now]
             /\ granted'[k][c] = granted[k][c] + 1 /\ promise'[k][c] = None
    <3>1. granted[k][c] \in Nat
      BY <1>2
    <3>2. Used(k, c)' = Used(k, c) + Window
      BY <1>7, <2>2, <3>1 DEF Used
    <3>3. own # None /\ own.last = now /\ own.tokens = b[c].tokens - Window
      <4>1. own \in Bucket
        BY <1>2, <1>7, <1>9, <2>2 DEF Bucket
      <4> QED
        BY <2>2, <4>1, NoBucketAssumption
    <3> HIDE DEF own
    <3>4. /\ own.last <= now /\ own.tokens <= full
          /\ Used(k, c)' + own.tokens >= full
          /\ Used(k, c)' + own.tokens <= full + allowed + Gained(k, c)'
      BY <1>2, <1>4, <1>7, <1>9, <2>1, <3>2, <3>3
    <3>5. Kept(k, c)'
      BY <1>5, <2>2, <3>3, <3>4 DEF Kept, own
    <3> QED
      BY <3>3, <3>5 DEF Account, own
  <2>3. CASE own = b[c] /\ granted'[k][c] = granted[k][c]
             /\ promise'[k][c] = now + RetryAfter(b[c], Limit[k])
    <3>1. Used(k, c)' = Used(k, c)
      BY <2>3 DEF Used
    <3>2. own # None /\ own.last = now /\ own.tokens = b[c].tokens
      BY <1>4, <2>3, NoBucketAssumption
    <3>3. promise'[k][c] - now = RetryAfter(b[c], Limit[k])
      BY <1>2, <1>6, <2>3
    <3> HIDE DEF own
    <3>4. Kept(k, c)'
      BY <1>2, <1>4, <1>5, <1>6, <2>1, <3>1, <3>2, <3>3 DEF Kept, own
    <3> QED
      BY <3>2, <3>4 DEF Account, own
  <2> QED
    BY <1>5, <1>13, <1>14, <2>2, <2>3
<1>16. ASSUME NEW j \in Kinds, NEW d \in Clients, j # k \/ d # c PROVE Account(j, d)'
  <2>1. /\ granted'[j][d] = granted[j][d] /\ promise'[j][d] = promise[j][d]
        /\ buckets'[j][d] = IF j = k THEN b[d] ELSE buckets[j][d]
    BY <1>5, <1>13, <1>14, <1>16
  <2>2. CASE j = k /\ d \in dropped
    <3>1. buckets'[j][d] = None /\ buckets[j][d] # None /\ now - buckets[j][d].last > 2 * Window
      BY <1>3, <1>4, <1>16, <2>1, <2>2, NoBucketAssumption DEF dropped
    <3>2. pruned'[j][d] = pruned[j][d] + 1 /\ pruned[j][d] \in Nat
      BY <1>2, <1>11, <2>2
    <3>3. Gained(j, d)' = Gained(j, d) + PruneGain(j)
      BY <3>2, PruneGainFacts DEF Gained
    <3>4. Used(j, d)' = Used(j, d)
      BY <2>1 DEF Used
    <3>5. /\ Used(j, d) \in Nat /\ Gained(j, d) \in Nat /\ buckets[j][d] \in Bucket
      BY <3>1, UsedTypes
    <3>6. Used(j, d) + buckets[j][d].tokens
             <= Full(Limit[j]) + (buckets[j][d].last - server.at) * Limit[j].refill + Gained(j, d)
      BY <3>1 DEF Accounts, Account, Kept
    <3>7. Used(j, d) <= (now - server.at) * Limit[j].refill + (Gained(j, d) + PruneGain(j))
      <4>1. /\ buckets[j][d].tokens \in Nat /\ buckets[j][d].last \in Int
            /\ Full(Limit[j]) \in Int /\ Limit[j].refill \in Nat /\ PruneGain(j) \in Int
            /\ Full(Limit[j]) <= PruneGain(j) + 2 * Window * Limit[j].refill
        BY <3>5, PruneGainFacts, LimitFacts DEF Bucket
      <4> DEFINE used == Used(j, d)
                 gained == Gained(j, d)
                 gain == PruneGain(j)
                 whole == Full(Limit[j])
                 tokens == buckets[j][d].tokens
                 last == buckets[j][d].last
                 rateJ == Limit[j].refill
                 at == server.at
      <4>2. /\ used \in Int /\ tokens \in Nat /\ whole \in Int /\ last \in Int /\ at \in Int
            /\ now \in Int /\ rateJ \in Nat /\ gained \in Int /\ gain \in Int
            /\ used + tokens <= whole + (last - at) * rateJ + gained
            /\ now - last > 2 * Window
            /\ whole <= gain + 2 * Window * rateJ
        BY <1>2, <3>1, <3>5, <3>6, <4>1
      <4> HIDE DEF used, gained, gain, whole, tokens, last, rateJ, at
      <4>3. used <= (now - at) * rateJ + (gained + gain)
        BY <4>2, DropArithmetic
      <4> QED
        BY <4>3 DEF used, gained, gain, rateJ, at
    <3> QED
      BY <1>5, <3>1, <3>3, <3>4, <3>7 DEF Account, Dropped
  <2>3. CASE ~(j = k /\ d \in dropped)
    <3>1. buckets'[j][d] = buckets[j][d]
      BY <1>3, <1>16, <2>1, <2>3 DEF dropped
    <3>2. Gained(j, d)' = Gained(j, d) /\ Used(j, d)' = Used(j, d)
      BY <1>11, <2>1, <2>3 DEF Gained, Used
    <3> QED
      BY <1>5, <2>1, <3>1, <3>2 DEF Accounts, Account, Dropped, Kept
  <2> QED
    BY <2>2, <2>3
<1>17. promise[k][c] # None /\ now >= promise[k][c] => granted'[k][c] > granted[k][c]
  <2>1. granted[k][c] \in Nat
    BY <1>2
  <2> QED
    BY <1>4, <1>5, <1>7, <1>9, <1>13, <2>1
<1>18. /\ buckets' \in [Kinds -> [Clients -> Bucket \cup {None}]]
       /\ granted' \in [Kinds -> [Clients -> Nat]]
       /\ promise' \in [Kinds -> [Clients -> Int \cup {None}]]
  BY <1>5, <1>13, <1>14
<1> QED
  BY <1>11, <1>15, <1>16, <1>17, <1>18 DEF Accounts

-----------------------------------------------------------------------------
\* The invariants of the process as a whole.

\* A process starts with nothing.
LEMMA BootStep ==
  ASSUME ApiTypeOK, Boot
  PROVE  ApiTypeOK' /\ Accounts'
<1>1. PICK env \in Environments :
        server' = [phase |-> "up", registry |-> Registry(env), keys |-> env.keys, at |-> now]
  BY DEF Boot
<1>2. Fresh /\ UNCHANGED <<now, req, file, stops>>
  BY DEF Boot
<1>3. Registry(env) \in {"none", "noProxy", "read"} /\ now \in Nat
  BY DEF Registry, ApiTypeOK
<1>4. env.keys \in Seq([client : Clients, roles : SUBSET STRING])
  BY ApiAssumption DEF ApiAssumption, EnvironmentType
<1>5. server' \in ServerType /\ server'.at = now
  BY <1>1, <1>3, <1>4 DEF ServerType
<1>6. /\ \A k \in Kinds, c \in Clients :
           /\ buckets'[k][c] = None /\ granted'[k][c] = 0 /\ pruned'[k][c] = 0
      /\ buckets' \in [Kinds -> [Clients -> Bucket \cup {None}]]
      /\ granted' \in [Kinds -> [Clients -> Nat]]
      /\ pruned'  \in [Kinds -> [Clients -> Nat]]
      /\ promise' \in [Kinds -> [Clients -> Int \cup {None}]]
  BY <1>2 DEF Fresh
<1>7. nonces' \in [Clients -> SUBSET Entry]
  BY <1>2 DEF Fresh
<1>8. accepted' \in Seq([key : Clients, nonce : Nonces, at : Nat])
  BY <1>2 DEF Fresh
<1>9. ApiTypeOK'
  BY <1>2, <1>3, <1>5, <1>6, <1>7, <1>8 DEF ApiTypeOK
<1>10. ASSUME NEW k \in Kinds, NEW c \in Clients PROVE Account(k, c)'
  <2>1. PruneGain(k) \in Nat /\ Limit[k].refill \in Nat /\ Window \in Nat
    BY PruneGainFacts, LimitFacts
  <2>2. granted'[k][c] * Window = 0 /\ pruned'[k][c] * PruneGain(k) = 0
    BY <1>6, <2>1
  <2>3. (now' - server'.at) * Limit[k].refill = 0
    BY <1>2, <1>3, <1>5, <2>1
  <2> QED
    BY <1>6, <2>2, <2>3 DEF Account, Dropped, Used, Gained
<1> QED
  BY <1>9, <1>10 DEF Accounts

\* Only time moves, or nothing that concerns the books: they still hold.
LEMMA AccountsWait ==
  ASSUME ApiTypeOK, Accounts, UNCHANGED limiter, server'.at = server.at,
         now' \in Nat, now <= now'
  PROVE  Accounts'
<1> SUFFICES ASSUME NEW k \in Kinds, NEW c \in Clients PROVE Account(k, c)'
  BY DEF Accounts
<1>1. /\ buckets' = buckets /\ Used(k, c)' = Used(k, c) /\ Gained(k, c)' = Gained(k, c)
      /\ promise' = promise
  BY DEF limiter, Used, Gained
<1>2. /\ Used(k, c) \in Nat /\ Gained(k, c) \in Nat /\ now \in Nat /\ server.at \in Nat
      /\ Limit[k].refill \in Nat
  BY UsedTypes, LimitFacts
<1>3. CASE buckets[k][c] = None
  <2> DEFINE rate == Limit[k].refill
             at == server.at
  <2>1. Used(k, c) <= (now - at) * rate + Gained(k, c)
    BY <1>3 DEF Accounts, Account, Dropped
  <2> HIDE DEF rate, at
  <2>2. /\ (now - at) * rate <= (now' - at) * rate
        /\ (now - at) * rate \in Int /\ (now' - at) * rate \in Int
    BY <1>2, TimeArithmetic DEF rate, at
  <2>3. Used(k, c) <= (now' - at) * rate + Gained(k, c)
    BY <1>2, <2>1, <2>2
  <2> QED
    BY <1>1, <1>3, <2>3 DEF Account, Dropped, rate, at
<1>4. CASE buckets[k][c] # None
  <2>1. Kept(k, c)
    BY <1>4 DEF Accounts, Account
  <2>2. buckets[k][c].last \in Nat
    BY <1>4, UsedTypes DEF Bucket
  <2> QED
    BY <1>1, <1>2, <1>4, <2>1, <2>2 DEF Account, Kept
<1> QED
  BY <1>3, <1>4

-----------------------------------------------------------------------------
\* The nonces.

\* What the store was given for the i-th accepted request, and the requests of
\* that client accepted after it.
EntryOf(i) == [nonce |-> accepted[i].nonce, expires |-> accepted[i].at + Ttl, nth |-> i]

Later(i) == {m \in i + 1 .. Len(accepted) : accepted[m].key = accepted[i].key}

\* An entry is missing only for a reason that lets its nonce be used again.
NoncesInv ==
  /\ \A c \in Clients : \A e \in nonces[c] :
       e.nth \in DOMAIN accepted /\ accepted[e.nth].key = c /\ e = EntryOf(e.nth)
  /\ \A i \in DOMAIN accepted :
       \/ now - accepted[i].at >= Ttl
       \/ Cardinality(Later(i)) >= MaxEntries
       \/ EntryOf(i) \in nonces[accepted[i].key]
  /\ NonceSingleUse

\* The types of what was accepted.
LEMMA AcceptedFacts ==
  ASSUME ApiTypeOK
  PROVE  /\ Len(accepted) \in Nat /\ DOMAIN accepted = 1 .. Len(accepted)
         /\ \A i \in DOMAIN accepted : /\ accepted[i].key \in Clients
                                       /\ accepted[i].nonce \in Nonces
                                       /\ accepted[i].at \in Nat
         /\ \A i \in DOMAIN accepted : IsFiniteSet(Later(i)) /\ Cardinality(Later(i)) \in Nat
         /\ Ttl \in Nat /\ MaxEntries \in Nat \ {0}
<1>1. Len(accepted) \in Nat /\ DOMAIN accepted = 1 .. Len(accepted)
  BY DEF ApiTypeOK
<1>2. ASSUME NEW i \in DOMAIN accepted
      PROVE  IsFiniteSet(Later(i)) /\ Cardinality(Later(i)) \in Nat
  <2>0. i + 1 \in Int /\ Len(accepted) \in Int
    BY <1>1
  <2>1. IsFiniteSet(i + 1 .. Len(accepted))
    BY <2>0, FS_Interval
  <2>2. Later(i) \in SUBSET (i + 1 .. Len(accepted))
    BY DEF Later
  <2> QED
    BY <2>1, <2>2, FS_Subset, FS_CardinalityType
<1>3. \A i \in DOMAIN accepted : /\ accepted[i].key \in Clients
                                 /\ accepted[i].nonce \in Nonces
                                 /\ accepted[i].at \in Nat
  <2> SUFFICES ASSUME NEW i \in DOMAIN accepted
               PROVE  accepted[i] \in [key : Clients, nonce : Nonces, at : Nat]
    OBVIOUS
  <2> DEFINE Accepted == [key : Clients, nonce : Nonces, at : Nat]
  <2>1. accepted \in Seq(Accepted)
    BY DEF ApiTypeOK
  <2> HIDE DEF Accepted
  <2>2. accepted[i] \in Accepted
    BY <1>1, <2>1
  <2> QED
    BY <2>2 DEF Accepted
<1> QED
  BY <1>1, <1>2, <1>3, ApiAssumption DEF ApiAssumption

\* Entries that only expire, while time only grows, leave the invariant.
LEMMA ExpiryKeepsNonces ==
  ASSUME ApiTypeOK, NoncesInv, accepted' = accepted, now' \in Nat, now <= now',
         \A c \in Clients : nonces'[c] \subseteq nonces[c],
         \A c \in Clients : \A e \in nonces[c] \ nonces'[c] : e.expires <= now
  PROVE  NoncesInv'
<1>1. /\ \A i : EntryOf(i)' = EntryOf(i) /\ Later(i)' = Later(i)
      /\ now \in Nat
  BY DEF EntryOf, Later, ApiTypeOK
<1>2. ASSUME NEW c \in Clients, NEW e \in nonces'[c]
      PROVE  (e.nth \in DOMAIN accepted /\ accepted[e.nth].key = c)' /\ e = EntryOf(e.nth)'
  BY <1>1 DEF NoncesInv
<1>3. ASSUME NEW i \in DOMAIN accepted
      PROVE  \/ now' - accepted[i].at >= Ttl
             \/ Cardinality(Later(i)) >= MaxEntries
             \/ EntryOf(i) \in nonces'[accepted[i].key]
  <2>1. accepted[i].at \in Nat /\ Ttl \in Nat /\ accepted[i].key \in Clients
    BY AcceptedFacts
  <2>2. CASE now - accepted[i].at >= Ttl
    BY <1>1, <2>1, <2>2
  <2>3. CASE EntryOf(i) \in nonces[accepted[i].key] \ nonces'[accepted[i].key]
    <3>1. EntryOf(i).expires <= now
      BY <2>1, <2>3
    <3> QED
      BY <1>1, <2>1, <3>1 DEF EntryOf
  <2> QED
    BY <2>2, <2>3 DEF NoncesInv
<1>4. NonceSingleUse'
  BY DEF NoncesInv, NonceSingleUse
<1> QED
  BY <1>1, <1>2, <1>3, <1>4 DEF NoncesInv

\* A list that is full has room made by its oldest entry only, and by then the
\* client had MaxEntries others accepted.
LEMMA ShiftedFacts ==
  ASSUME ApiTypeOK, NoncesInv, NEW c \in Clients, NEW e \in Live(c), e \notin Shifted(Live(c))
  PROVE  /\ e.nth \in DOMAIN accepted /\ accepted[e.nth].key = c
         /\ Cardinality(Later(e.nth)) + 1 >= MaxEntries
<1> DEFINE i == e.nth
           T == {i} \cup Later(i)
           f == [d \in Live(c) |-> d.nth]
<1>1. \A d \in Live(c) : d.nth \in DOMAIN accepted /\ accepted[d.nth].key = c /\ d = EntryOf(d.nth)
  BY DEF Live, NoncesInv
<1>2. i \in DOMAIN accepted /\ accepted[i].key = c
  BY <1>1
<1>3. ~(Cardinality(Live(c)) < MaxEntries) /\ \A d \in Live(c) : ~(d.nth < e.nth)
  BY DEF Shifted
<1>4. Len(accepted) \in Nat /\ DOMAIN accepted = 1 .. Len(accepted)
  BY AcceptedFacts
<1>5. \A d \in Live(c) : f[d] \in T
  <2> SUFFICES ASSUME NEW d \in Live(c) PROVE d.nth \in {i} \cup Later(i)
    OBVIOUS
  <2>1. d.nth \in 1 .. Len(accepted) /\ i \in 1 .. Len(accepted) /\ ~(d.nth < i)
    BY <1>1, <1>2, <1>3, <1>4
  <2>2. d.nth = i \/ d.nth \in i + 1 .. Len(accepted)
    BY <1>4, <2>1
  <2> QED
    BY <1>1, <1>2, <2>2 DEF Later
<1>6. f \in Injection(Live(c), T)
  <2>1. \A d1, d2 \in Live(c) : f[d1] = f[d2] => d1 = d2
    BY <1>1
  <2>2. f \in [Live(c) -> T]
    BY <1>5
  <2> QED
    BY <2>1, <2>2, Fun_IsInj
<1>7. IsFiniteSet(T) /\ Cardinality(T) = Cardinality(Later(i)) + 1
  <2>1. IsFiniteSet(Later(i)) /\ Cardinality(Later(i)) \in Nat
    BY <1>2, AcceptedFacts
  <2>2. i \notin Later(i)
    BY <1>2, <1>4 DEF Later
  <2>3. T = Later(i) \cup {i}
    OBVIOUS
  <2> QED
    BY <2>1, <2>2, <2>3, FS_AddElement
<1>8. IsFiniteSet(Live(c)) /\ Cardinality(Live(c)) <= Cardinality(T)
  BY <1>6, <1>7, FS_Injection
<1>9. Cardinality(Live(c)) \in Nat /\ MaxEntries \in Nat /\ Cardinality(Later(i)) \in Nat
  BY <1>2, <1>8, FS_CardinalityType, AcceptedFacts
<1> QED
  BY <1>2, <1>3, <1>7, <1>8, <1>9

\* An accepted request gets its entry, and pushes out at most the oldest.
LEMMA AcceptKeepsNonces ==
  ASSUME ApiTypeOK, NoncesInv, NEW c \in Clients, NEW nonce \in Nonces,
         ~Seen(c, nonce),
         nonces' = [nonces EXCEPT ![c] = Remember(c, nonce)],
         accepted' = Append(accepted, [key |-> c, nonce |-> nonce, at |-> now]),
         now' = now
  PROVE  /\ NoncesInv'
         /\ nonces' \in [Clients -> SUBSET Entry]
         /\ accepted' \in Seq([key : Clients, nonce : Nonces, at : Nat])
<1>0. PICK n \in Nat : n = Len(accepted)
  BY AcceptedFacts
<1> DEFINE new == [key |-> c, nonce |-> nonce, at |-> now]
           x == [nonce |-> nonce, expires |-> now + Ttl, nth |-> n + 1]
<1>1. /\ n \in Nat /\ DOMAIN accepted = 1 .. n /\ now \in Nat /\ Ttl \in Nat
      /\ MaxEntries \in Nat
      /\ new \in [key : Clients, nonce : Nonces, at : Nat]
      /\ nonces \in [Clients -> SUBSET Entry]
  BY <1>0, AcceptedFacts DEF ApiTypeOK
<1>2. accepted' \in Seq([key : Clients, nonce : Nonces, at : Nat])
  <2> DEFINE Accepted == [key : Clients, nonce : Nonces, at : Nat]
  <2>1. accepted \in Seq(Accepted) /\ new \in Accepted
    BY <1>1 DEF ApiTypeOK
  <2> HIDE DEF Accepted, new
  <2>2. Append(accepted, new) \in Seq(Accepted)
    BY <2>1
  <2> QED
    BY <2>2 DEF Accepted, new
<1>3. /\ Len(accepted') = n + 1 /\ DOMAIN accepted' = 1 .. n + 1
      /\ \A i \in 1 .. n : accepted'[i] = accepted[i]
      /\ accepted'[n + 1] = new
  <2> HIDE DEF new
  <2>1. /\ accepted' = Append(accepted, new)
        /\ accepted \in Seq([key : Clients, nonce : Nonces, at : Nat])
    BY DEF new, ApiTypeOK
  <2> QED
    BY <1>0, <1>1, <2>1
<1>4. /\ nonces'[c] = Shifted(Live(c)) \cup {x}
      /\ \A d \in Clients \ {c} : nonces'[d] = nonces[d]
      /\ Shifted(Live(c)) \subseteq Live(c) /\ Live(c) \subseteq nonces[c]
      /\ x \in Entry
  <2>1. nonces'[c] = Remember(c, nonce) /\ \A d \in Clients \ {c} : nonces'[d] = nonces[d]
    BY <1>1
  <2>2. Shifted(Live(c)) \subseteq Live(c) /\ Live(c) \subseteq nonces[c]
    BY DEF Shifted, Live
  <2>3. x \in Entry
    BY <1>1 DEF Entry
  <2> QED
    BY <1>0, <2>1, <2>2, <2>3 DEF Remember
<1>5. nonces' \in [Clients -> SUBSET Entry]
  <2>1. Remember(c, nonce) \in SUBSET Entry
    BY <1>0, <1>1, <1>4 DEF Remember
  <2> QED
    BY <1>1, <2>1
<1>6. /\ \A i \in 1 .. n : EntryOf(i)' = EntryOf(i)
      /\ EntryOf(n + 1)' = x
  <2>1. ASSUME NEW i \in 1 .. n PROVE EntryOf(i)' = EntryOf(i)
    BY <1>3 DEF EntryOf
  <2>2. EntryOf(n + 1)' = x
    BY <1>3 DEF EntryOf
  <2> QED
    BY <2>1, <2>2
<1>7. \A i \in 1 .. n : Later(i)' = Later(i) \cup (IF accepted[i].key = c THEN {n + 1} ELSE {})
  <2> SUFFICES ASSUME NEW i \in 1 .. n
               PROVE  Later(i)' = Later(i) \cup (IF accepted[i].key = c THEN {n + 1} ELSE {})
    OBVIOUS
  <2>1. Later(i)' = {m \in i + 1 .. n + 1 : accepted'[m].key = accepted[i].key}
    BY <1>3 DEF Later
  <2>2. \A m \in i + 1 .. n + 1 :
          \/ m = n + 1 /\ accepted'[m].key = c
          \/ m \in i + 1 .. n /\ accepted'[m] = accepted[m]
    BY <1>1, <1>3
  <2>3. n + 1 \in i + 1 .. n + 1 /\ i + 1 .. n \subseteq i + 1 .. n + 1
    BY <1>1
  <2>4. n + 1 \notin i + 1 .. n
    BY <1>1
  <2> QED
    BY <1>0, <2>1, <2>2, <2>3, <2>4 DEF Later
<1>8. ASSUME NEW i \in 1 .. n
      PROVE  /\ IsFiniteSet(Later(i)) /\ Cardinality(Later(i)) \in Nat
             /\ Cardinality(Later(i)') >= Cardinality(Later(i))
             /\ Cardinality(Later(i)') \in Nat
             /\ accepted[i].key = c => Cardinality(Later(i)') = Cardinality(Later(i)) + 1
  <2>1. IsFiniteSet(Later(i)) /\ Cardinality(Later(i)) \in Nat
    BY <1>1, AcceptedFacts
  <2>2. n + 1 \notin Later(i)
    BY <1>0, <1>1 DEF Later
  <2>3. Cardinality(Later(i) \cup {n + 1}) = Cardinality(Later(i)) + 1
    BY <2>1, <2>2, FS_AddElement
  <2>4. Later(i)' = IF accepted[i].key = c THEN Later(i) \cup {n + 1} ELSE Later(i)
    BY <1>7
  <2> QED
    BY <2>1, <2>3, <2>4
<1> HIDE DEF new, x
<1>9. ASSUME NEW d \in Clients, NEW e \in nonces'[d]
      PROVE  (e.nth \in DOMAIN accepted /\ accepted[e.nth].key = d /\ e = EntryOf(e.nth))'
  <2>1. CASE e \in nonces[d]
    <3>1. e.nth \in 1 .. n /\ accepted[e.nth].key = d /\ e = EntryOf(e.nth)
      BY <1>1, <2>1 DEF NoncesInv
    <3>2. e.nth \in 1 .. n + 1
      BY <1>1, <3>1
    <3> QED
      BY <1>3, <1>6, <3>1, <3>2
  <2>2. CASE d = c /\ e = x
    <3>1. e.nth = n + 1 /\ n + 1 \in 1 .. n + 1
      BY <1>1, <2>2 DEF x
    <3> QED
      BY <1>3, <1>6, <2>2, <3>1 DEF new
  <2> QED
    BY <1>4, <1>9, <2>1, <2>2
<1>10. ASSUME NEW i \in DOMAIN accepted'
       PROVE  (\/ now - accepted[i].at >= Ttl
               \/ Cardinality(Later(i)) >= MaxEntries
               \/ EntryOf(i) \in nonces[accepted[i].key])'
  <2>1. CASE i = n + 1
    BY <1>3, <1>4, <1>6, <2>1 DEF new
  <2>2. ASSUME i \in 1 .. n
        PROVE  \/ now - accepted[i].at >= Ttl
               \/ Cardinality(Later(i)') >= MaxEntries
               \/ EntryOf(i) \in nonces'[accepted[i].key]
    <3>1. /\ accepted[i].key \in Clients /\ accepted[i].at \in Nat
          /\ \/ now - accepted[i].at >= Ttl
             \/ Cardinality(Later(i)) >= MaxEntries
             \/ EntryOf(i) \in nonces[accepted[i].key]
      BY <1>1, <2>2, AcceptedFacts DEF NoncesInv
    <3>2. CASE Cardinality(Later(i)) >= MaxEntries
      BY <1>1, <1>8, <2>2, <3>2
    <3>3. CASE EntryOf(i) \in nonces[accepted[i].key] /\ accepted[i].key # c
      BY <1>4, <3>1, <3>3
    <3>4. CASE EntryOf(i) \in nonces[c] /\ accepted[i].key = c
      <4>1. CASE EntryOf(i) \notin Live(c)
        <5>1. ~(EntryOf(i).expires > now)
          BY <3>4, <4>1 DEF Live
        <5> QED
          BY <1>1, <3>1, <5>1 DEF EntryOf
      <4>2. CASE EntryOf(i) \in Live(c) /\ EntryOf(i) \notin Shifted(Live(c))
        <5>1. EntryOf(i).nth = i
          BY DEF EntryOf
        <5>2. Cardinality(Later(i)) + 1 >= MaxEntries
          BY <4>2, <5>1, ShiftedFacts
        <5> QED
          BY <1>8, <2>2, <3>4, <5>2
      <4>3. CASE EntryOf(i) \in Shifted(Live(c))
        BY <1>4, <3>4, <4>3
      <4> QED
        BY <4>1, <4>2, <4>3
    <3> QED
      BY <3>1, <3>2, <3>3, <3>4
  <2>3. i = n + 1 \/ i \in 1 .. n
    BY <1>1, <1>3, <1>10
  <2> QED
    BY <1>3, <1>6, <2>1, <2>2, <2>3
<1>11. NonceSingleUse'
  <2> SUFFICES ASSUME NEW i \in 1 .. n + 1, NEW j \in 1 .. n + 1, i < j,
                      accepted'[i].key = accepted'[j].key, accepted'[i].nonce = accepted'[j].nonce
               PROVE  \/ accepted'[j].at - accepted'[i].at >= Ttl
                      \/ Cardinality({m \in i + 1 .. j - 1 : accepted'[m].key = accepted'[i].key})
                           >= MaxEntries
    BY <1>3 DEF NonceSingleUse
  <2>1. i \in 1 .. n /\ accepted'[i] = accepted[i]
    BY <1>1, <1>3
  <2>2. CASE j \in 1 .. n
    <3>1. accepted'[j] = accepted[j]
      BY <1>3, <2>2
    <3>2. {m \in i + 1 .. j - 1 : accepted'[m].key = accepted'[i].key}
            = {m \in i + 1 .. j - 1 : accepted[m].key = accepted[i].key}
      <4>1. \A m \in i + 1 .. j - 1 : accepted'[m] = accepted[m]
        BY <1>1, <1>3, <2>1, <2>2
      <4> QED
        BY <2>1, <4>1
    <3>3. accepted[i].key = accepted[j].key /\ accepted[i].nonce = accepted[j].nonce
      BY <2>1, <3>1
    <3>4. \/ accepted[j].at - accepted[i].at >= Ttl
          \/ Cardinality({m \in i + 1 .. j - 1 : accepted[m].key = accepted[i].key}) >= MaxEntries
      BY <1>1, <2>1, <2>2, <3>3 DEF NoncesInv, NonceSingleUse
    <3> QED
      BY <2>1, <3>1, <3>2, <3>4
  <2>3. CASE j = n + 1
    <3>1. accepted[i].key = c /\ accepted[i].nonce = nonce /\ accepted'[j].at = now
      BY <1>3, <2>1, <2>3 DEF new
    <3>2. {m \in i + 1 .. j - 1 : accepted'[m].key = accepted'[i].key} = Later(i)
      <4>1. j - 1 = n
        BY <1>1, <2>3
      <4>2. \A m \in i + 1 .. n : accepted'[m] = accepted[m]
        BY <1>1, <1>3, <2>1
      <4> QED
        BY <1>0, <2>1, <4>1, <4>2 DEF Later
    <3>3. accepted[i].at \in Nat
      BY <1>1, <2>1, AcceptedFacts
    <3>4. CASE EntryOf(i) \in nonces[c]
      <4>1. ~(EntryOf(i).expires > now)
        BY <3>1, <3>4 DEF Seen, Live, EntryOf
      <4> QED
        BY <1>1, <2>1, <3>1, <3>3, <4>1 DEF EntryOf
    <3> QED
      BY <1>1, <2>1, <3>1, <3>2, <3>4 DEF NoncesInv
  <2>4. j \in 1 .. n \/ j = n + 1
    BY <1>1
  <2> QED
    BY <2>2, <2>3, <2>4, Zenon
<1> QED
  BY <1>2, <1>5, <1>9, <1>10, <1>11 DEF NoncesInv

-----------------------------------------------------------------------------
\* The audit: an event is in the file, if there is one, before its answer is on
\* the way.
Logged(r) == file # None => r \in file

AuditedFirst ==
  \A r \in Requests :
    /\ req[r].stage = "audited" => Logged(r)
    /\ req[r].stage = "answered" /\ req[r].code \in AuditedCodes => Logged(r)

ApiInv == ApiTypeOK /\ Accounts /\ NoncesInv /\ AuditedFirst

\* The moved request is the only one whose audit has to be looked at.
LEMMA MovedAudited ==
  ASSUME ApiTypeOK, AuditedFirst, NEW r \in Requests, NEW e,
         req' = [req EXCEPT ![r] = e], \A q \in Requests : Logged(q) => Logged(q)',
         e.stage = "audited" => Logged(r)',
         e.stage = "answered" /\ e.code \in AuditedCodes => Logged(r)'
  PROVE  AuditedFirst'
<1> QED
  BY DEF ApiTypeOK, AuditedFirst

\* AuditThen() answers, or goes on, only with the event logged or with an error.
LEMMA AuditThenKeeps ==
  ASSUME ApiTypeOK, AuditedFirst, NEW r \in Requests, NEW code, AuditThen(r, code)
  PROVE  AuditedFirst'
<1>1. CASE /\ \/ file = None /\ UNCHANGED file
              \/ file # None /\ file' = file \cup {r}
           /\ Goto(r, "audited", code)
  <2>1. req' = [req EXCEPT ![r] = [req[r] EXCEPT !.stage = "audited", !.code = code]]
    BY <1>1 DEF Goto, ApiTypeOK
  <2>2. Logged(r)' /\ \A q \in Requests : Logged(q) => Logged(q)'
    BY <1>1 DEF Logged
  <2> QED
    BY <2>1, <2>2, MovedAudited
<1>2. CASE UNCHANGED file /\ Answer(r, Problem("write error"))
  <2>1. NoCall("answered", Problem("write error")).code \notin AuditedCodes
    BY DEF NoCall, Problem, Problems, AuditedCodes
  <2>2. NoCall("answered", Problem("write error")).stage # "audited"
    BY DEF NoCall
  <2> QED
    BY <1>2, <2>1, <2>2, MovedAudited DEF Answer, Logged
<1> QED
  BY <1>1, <1>2 DEF AuditThen

\* An answer that needs no event.
LEMMA PlainAnswerKeeps ==
  ASSUME ApiTypeOK, AuditedFirst, NEW r \in Requests, NEW code, code \notin AuditedCodes,
         Answer(r, code), UNCHANGED file
  PROVE  AuditedFirst'
<1>1. NoCall("answered", code).code = code /\ NoCall("answered", code).stage # "audited"
  BY DEF NoCall
<1> QED
  BY <1>1, MovedAudited DEF Answer, Logged

\* No step of a request answers ahead of its event.
LEMMA AuditStep ==
  ASSUME ApiTypeOK, AuditedFirst, NEW r \in Requests, Arrive(r) \/ Handle(r)
  PROVE  AuditedFirst'
<1>1. CASE Arrive(r)
  <2>1. UNCHANGED file
    BY <1>1 DEF Arrive, audit
  <2>2. PICK call \in Calls :
          LET code == IF Validation(call) # "none" THEN Validation(call)
                      ELSE IF ~call.headers THEN "AUTH-MISSING" ELSE "none"
          IN IF code = "none"
             THEN req' = [req EXCEPT ![r] = [stage |-> "lookup", call |-> call,
                                             ts |-> now + call.skew, code |-> code]]
             ELSE Answer(r, code)
    BY <1>1 DEF Arrive
  <2>3. Validation(call) \in {"none", "VALIDATION"}
    BY DEF Validation
  <2>4. \/ Answer(r, "VALIDATION") \/ Answer(r, "AUTH-MISSING")
        \/ req' = [req EXCEPT ![r] = [stage |-> "lookup", call |-> call,
                                      ts |-> now + call.skew, code |-> "none"]]
    BY <2>2, <2>3
  <2>5. "VALIDATION" \notin AuditedCodes /\ "AUTH-MISSING" \notin AuditedCodes
    BY DEF AuditedCodes
  <2>6. ASSUME req' = [req EXCEPT ![r] = [stage |-> "lookup", call |-> call,
                                          ts |-> now + call.skew, code |-> "none"]]
        PROVE  AuditedFirst'
    BY <2>1, <2>6, MovedAudited DEF Logged
  <2> QED
    BY <2>1, <2>4, <2>5, <2>6, PlainAnswerKeeps
<1>2. CASE Authenticate(r)
  <2>1. UNCHANGED file
    BY <1>2 DEF Authenticate, audit
  <2>2. \/ \E code : code \notin AuditedCodes /\ Answer(r, code)
        \/ Goto(r, "consumed", "none")
    BY <1>2 DEF Authenticate, AuditedCodes
  <2>3. ASSUME Goto(r, "consumed", "none"), UNCHANGED file PROVE AuditedFirst'
    <3> DEFINE e == [req[r] EXCEPT !.stage = "consumed", !.code = "none"]
    <3>1. e.stage = "consumed"
      BY DEF ApiTypeOK, ReqEntry
    <3>2. req' = [req EXCEPT ![r] = e]
      BY <2>3 DEF Goto, ApiTypeOK
    <3> QED
      BY <2>3, <3>1, <3>2, MovedAudited DEF Logged
  <2> QED
    BY <2>1, <2>2, <2>3, PlainAnswerKeeps
<1>3. CASE Admit(r)
  <2>1. \/ /\ Answer(r, "AUTH-FORBIDDEN") \/ Goto(r, "handler", "none")
           /\ UNCHANGED file
        \/ AuditThen(r, "RATE-LIMITED")
    BY <1>3 DEF Admit, audit
  <2>2. "AUTH-FORBIDDEN" \notin AuditedCodes
    BY DEF AuditedCodes
  <2>3. ASSUME Goto(r, "handler", "none"), UNCHANGED file PROVE AuditedFirst'
    <3> DEFINE e == [req[r] EXCEPT !.stage = "handler", !.code = "none"]
    <3>1. e.stage = "handler"
      BY DEF ApiTypeOK, ReqEntry
    <3>2. req' = [req EXCEPT ![r] = e]
      BY <2>3 DEF Goto, ApiTypeOK
    <3> QED
      BY <2>3, <3>1, <3>2, MovedAudited DEF Logged
  <2> QED
    BY <2>1, <2>2, <2>3, PlainAnswerKeeps, AuditThenKeeps
<1>4. CASE Work(r)
  BY <1>4, PlainAnswerKeeps, AuditThenKeeps DEF Work, audit
<1>5. CASE Finish(r)
  <2>1. UNCHANGED file /\ Logged(r)
    BY <1>5 DEF Finish, AuditedFirst, audit
  <2> QED
    BY <1>5, <2>1, MovedAudited DEF Finish, Answer, Logged
<1> QED
  BY <1>1, <1>2, <1>3, <1>4, <1>5 DEF Handle

-----------------------------------------------------------------------------
\* The invariant holds initially.
LEMMA ApiInvInit == Init => ApiInv
<1> SUFFICES ASSUME Init PROVE ApiInv
  OBVIOUS
<1>1. ApiTypeOK
  BY ApiTypeInit
<1>2. ASSUME NEW k \in Kinds, NEW c \in Clients PROVE Account(k, c)
  <2>1. PruneGain(k) \in Nat /\ Limit[k].refill \in Nat /\ Window \in Nat
    BY PruneGainFacts, LimitFacts
  <2>2. /\ buckets[k][c] = None /\ granted[k][c] = 0 /\ pruned[k][c] = 0
        /\ now = 0 /\ server.at = 0
    BY DEF Init
  <2>3. (now - server.at) * Limit[k].refill = 0 /\ 0 * Window = 0 /\ 0 * PruneGain(k) = 0
    BY <2>1, <2>2
  <2> QED
    BY <2>2, <2>3 DEF Account, Dropped, Used, Gained
<1>3. NoncesInv
  <2>1. DOMAIN accepted = {} /\ \A c \in Clients : nonces[c] = {}
    BY DEF Init
  <2> QED
    BY <2>1 DEF NoncesInv, NonceSingleUse
<1>4. AuditedFirst
  BY DEF Init, AuditedFirst, NoCall
<1> QED
  BY <1>1, <1>2, <1>3, <1>4 DEF ApiInv, Accounts

\* A step of one request.
LEMMA RequestKeepsInv ==
  ASSUME ApiInv, NEW r \in Requests, Arrive(r) \/ Handle(r)
  PROVE  ApiInv'
<1>1. ApiTypeOK /\ Accounts /\ NoncesInv /\ AuditedFirst
  BY DEF ApiInv
<1>2. /\ UNCHANGED <<now, server>>
      /\ Admit(r) \/ UNCHANGED limiter
      /\ Authenticate(r) \/ UNCHANGED replay
  BY <1>1, RequestStep
<1>3. /\ req' \in [Requests -> ReqEntry]
      /\ \A q \in Requests : req'[q].stage \in InFlight => req'[q].call \in Calls
  BY <1>1, RequestStep, MovedTypes
<1>4. /\ buckets' \in [Kinds -> [Clients -> Bucket \cup {None}]]
      /\ granted' \in [Kinds -> [Clients -> Nat]]
      /\ pruned'  \in [Kinds -> [Clients -> Nat]]
      /\ promise' \in [Kinds -> [Clients -> Int \cup {None}]]
      /\ Accounts'
  <2>1. CASE Admit(r)
    BY <1>1, <2>1, AdmitChecks, CheckStep
  <2>2. CASE UNCHANGED limiter
    <3>1. now \in Nat /\ now' = now
      BY <1>1, <1>2 DEF ApiTypeOK
    <3>2. Accounts'
      BY <1>1, <1>2, <2>2, <3>1, AccountsWait
    <3> QED
      BY <1>1, <2>2, <3>2 DEF limiter, ApiTypeOK
  <2> QED
    BY <1>2, <2>1, <2>2
<1>5. /\ NoncesInv'
      /\ nonces' \in [Clients -> SUBSET Entry]
      /\ accepted' \in Seq([key : Clients, nonce : Nonces, at : Nat])
  <2> DEFINE c == req[r].call.key
             nonce == req[r].call.nonce
  <2>1. now' = now /\ now \in Nat
    BY <1>1, <1>2 DEF ApiTypeOK
  <2>2. CASE UNCHANGED replay
    BY <1>1, <2>1, <2>2, ExpiryKeepsNonces DEF replay, ApiTypeOK
  <2>3. CASE Authenticate(r)
    <3>1. c \in Clients /\ nonce \in Nonces
      BY <1>1, <2>3, ApiAssumption DEF ApiAssumption, ApiTypeOK, CallType, Authenticate, InFlight
    <3>2. \/ UNCHANGED replay
          \/ nonces' = [nonces EXCEPT ![c] = Live(c)] /\ accepted' = accepted
          \/ /\ ~Seen(c, nonce)
             /\ nonces' = [nonces EXCEPT ![c] = Remember(c, nonce)]
             /\ accepted' = Append(accepted, [key |-> c, nonce |-> nonce, at |-> now])
      BY <2>3 DEF Authenticate
    <3> HIDE DEF c, nonce
    <3>3. CASE nonces' = [nonces EXCEPT ![c] = Live(c)] /\ accepted' = accepted
      <4>1. nonces \in [Clients -> SUBSET Entry]
        BY <1>1 DEF ApiTypeOK
      <4>2. nonces'[c] = Live(c) /\ \A d \in Clients \ {c} : nonces'[d] = nonces[d]
        BY <3>1, <3>3, <4>1
      <4>3. /\ Live(c) \subseteq nonces[c]
            /\ \A e \in nonces[c] \ Live(c) : ~(e.expires > now) /\ e \in Entry
        BY <3>1, <4>1 DEF Live
      <4>4. \A e \in nonces[c] \ Live(c) : e.expires <= now
        BY <2>1, <4>3 DEF Entry
      <4>5. NoncesInv'
        BY <1>1, <2>1, <3>3, <4>2, <4>3, <4>4, ExpiryKeepsNonces
      <4> QED
        BY <1>1, <3>1, <3>3, <4>1, <4>3, <4>5 DEF ApiTypeOK
    <3>4. CASE /\ ~Seen(c, nonce)
               /\ nonces' = [nonces EXCEPT ![c] = Remember(c, nonce)]
               /\ accepted' = Append(accepted, [key |-> c, nonce |-> nonce, at |-> now])
      BY <1>1, <2>1, <3>1, <3>4, AcceptKeepsNonces
    <3> QED
      BY <2>2, <3>2, <3>3, <3>4
  <2> QED
    BY <1>2, <2>2, <2>3
<1>6. AuditedFirst'
  BY <1>1, AuditStep
<1>7. ApiTypeOK'
  BY <1>1, <1>2, <1>3, <1>4, <1>5 DEF ApiTypeOK
<1> QED
  BY <1>4, <1>5, <1>6, <1>7 DEF ApiInv

\* Every step of the server keeps the invariant.
LEMMA ApiInvStep == ApiInv /\ [Next]_apiVars => ApiInv'
<1> SUFFICES ASSUME ApiInv, [Next]_apiVars PROVE ApiInv'
  OBVIOUS
<1>1. ApiTypeOK /\ Accounts /\ NoncesInv /\ AuditedFirst
  BY DEF ApiInv
<1>2. now \in Nat
  BY <1>1 DEF ApiTypeOK
\* What leaves the books, the nonces and the file alone.
<1>3. ASSUME UNCHANGED <<nonces, accepted, limiter, audit>>, server'.at = server.at,
             server' \in ServerType, now' \in Nat, now <= now',
             DOMAIN req' = Requests,
             req' \in [Requests -> ReqEntry],
             \A r \in Requests : req'[r] = req[r] \/ req'[r] = NoCall("dropped", "none")
      PROVE  ApiInv'
  <2>1. Accounts'
    BY <1>1, <1>3, AccountsWait
  <2>2. NoncesInv'
    BY <1>1, <1>3, ExpiryKeepsNonces
  <2>3. NoCall("dropped", "none").stage = "dropped"
    BY DEF NoCall
  <2>4. AuditedFirst'
    BY <1>1, <1>3, <2>3 DEF AuditedFirst, Logged, audit
  <2>5. ApiTypeOK'
    BY <1>1, <1>3, <2>3 DEF ApiTypeOK, limiter, InFlight
  <2> QED
    BY <2>1, <2>2, <2>4, <2>5 DEF ApiInv
<1>4. CASE Boot
  <2>1. ApiTypeOK' /\ Accounts'
    BY <1>1, <1>4, BootStep
  <2>2. DOMAIN accepted' = {} /\ \A c \in Clients : nonces'[c] = {}
    BY <1>4 DEF Boot, Fresh
  <2>3. NoncesInv'
    BY <2>2 DEF NoncesInv, NonceSingleUse
  <2>4. AuditedFirst'
    BY <1>1, <1>4 DEF Boot, AuditedFirst, Logged
  <2> QED
    BY <2>1, <2>3, <2>4 DEF ApiInv
<1>5. CASE Shutdown \/ Exit \/ Crash
  <2>1. /\ UNCHANGED <<now, nonces, accepted, limiter, audit>>
        /\ server'.at = server.at /\ server' \in ServerType
        /\ \A r \in Requests : req'[r] = req[r] \/ req'[r] = NoCall("dropped", "none")
        /\ DOMAIN req' = Requests
    BY <1>1, <1>5, StopStep
  <2>2. NoCall("dropped", "none") \in ReqEntry
    BY DEF NoCall, ReqEntry, Stages, Codes
  <2>3. req' \in [Requests -> ReqEntry]
    <3>1. req \in [Requests -> ReqEntry]
      BY <1>1 DEF ApiTypeOK
    <3>2. CASE Crash
      BY <2>2, <3>1, <3>2 DEF Crash
    <3>3. CASE Shutdown \/ Exit
      BY <3>1, <3>3 DEF Shutdown, Exit
    <3> QED
      BY <1>5, <3>2, <3>3
  <2> QED
    BY <1>2, <1>3, <2>1, <2>3
<1>6. CASE Tick
  <2>1. now' = now + 1 /\ UNCHANGED <<server, req, nonces, accepted, limiter, audit>>
    BY <1>1, <1>6, ClockStep
  <2> QED
    BY <1>1, <1>2, <1>3, <2>1 DEF ApiTypeOK
<1>7. ASSUME NEW r \in Requests, Arrive(r) \/ Handle(r) PROVE ApiInv'
  BY <1>7, RequestKeepsInv
<1>8. CASE UNCHANGED apiVars
  <2>1. UNCHANGED <<now, server, req, nonces, accepted, limiter, audit>>
    BY <1>8 DEF apiVars, limiter, audit
  <2> QED
    BY <1>1, <1>2, <1>3, <2>1 DEF ApiTypeOK
<1> QED
  BY <1>4, <1>5, <1>6, <1>7, <1>8 DEF Next

\* Type correctness, the limiter's books, the nonce store's entries and the
\* audit before the answer, in every state of the server.
THEOREM ApiInvHolds == Spec => []ApiInv
<1> QED
  BY ApiInvInit, ApiInvStep, PTL DEF Spec

\* A nonce is accepted from one client again only Ttl later, or after the
\* store's capacity in other requests of that client.
THEOREM NonceSingleUseHolds == Spec => []NonceSingleUse
<1> QED
  BY ApiInvHolds, PTL DEF ApiInv, NoncesInv

\* Where there is an audit file, no verdict and no refusal of the limiter is
\* answered before its event is in it.
THEOREM AnsweredIsAuditedHolds == Spec => []AnsweredIsAudited
<1>1. ApiInv => AnsweredIsAudited
  BY DEF ApiInv, AuditedFirst, Logged, AnsweredIsAudited
<1> QED
  BY <1>1, ApiInvHolds, PTL

\* Both sides of a client's account follow from the bucket's own.
LEMMA AccountBounds ==
  ASSUME ApiTypeOK, Accounts, NEW k \in Kinds, NEW c \in Clients
  PROVE  /\ granted[k][c] * Window + AtHand(k, c) >= Full(Limit[k])
         /\ granted[k][c] * Window + AtHand(k, c) <=
              Full(Limit[k]) + (now - server.at) * Limit[k].refill + pruned[k][c] * PruneGain(k)
<1>1. /\ Used(k, c) \in Nat /\ Gained(k, c) \in Nat /\ now \in Nat /\ server.at \in Nat
      /\ buckets[k][c] = None \/ buckets[k][c] \in Bucket
      /\ Limit[k].refill \in Nat /\ Full(Limit[k]) \in Nat
  BY UsedTypes, LimitFacts
<1>2. (now - server.at) * Limit[k].refill \in Int
  BY <1>1
<1>3. /\ Used(k, c) + AtHand(k, c) >= Full(Limit[k])
      /\ Used(k, c) + AtHand(k, c) <=
           Full(Limit[k]) + (now - server.at) * Limit[k].refill + Gained(k, c)
  <2>1. CASE buckets[k][c] = None
    BY <1>1, <1>2, <2>1 DEF Accounts, Account, Dropped, AtHand
  <2>2. CASE buckets[k][c] # None
    <3>1. Kept(k, c) /\ AtHand(k, c) = buckets[k][c].tokens
      BY <2>2 DEF Accounts, Account, AtHand
    <3> DEFINE last == buckets[k][c].last
               at == server.at
               rate == Limit[k].refill
    <3>2. last \in Nat /\ buckets[k][c].tokens \in Nat /\ last <= now
      BY <1>1, <2>2, <3>1 DEF Bucket, Kept
    <3> HIDE DEF last, at, rate
    <3>3. /\ (last - at) * rate <= (now - at) * rate
          /\ (last - at) * rate \in Int /\ (now - at) * rate \in Int
      BY <1>1, <3>2, TimeArithmetic DEF at, rate
    <3> QED
      BY <1>1, <3>1, <3>2, <3>3 DEF Kept, last, at, rate
  <2> QED
    BY <2>1, <2>2
<1> QED
  BY <1>3 DEF Used, Gained

\* Nothing but a client's own admitted requests costs it a token.
THEOREM OthersCostNothingHolds == Spec => []OthersCostNothing
<1>1. ApiInv => OthersCostNothing
  BY AccountBounds DEF ApiInv, OthersCostNothing
<1> QED
  BY <1>1, ApiInvHolds, PTL

\* For every limit, no client is let through more often than capacity and refill
\* allow plus PruneGain for each drop of its idle bucket, which is all that
\* dropping gives: nothing where two windows fill the bucket.
THEOREM GrantsBoundedHolds == Spec => []GrantsBounded
<1>1. ApiInv => GrantsBounded
  BY AccountBounds DEF ApiInv, GrantsBounded
<1> QED
  BY <1>1, ApiInvHolds, PTL

\* A refused client that comes back when it was told to is let through, unless
\* another request of its own was first.
THEOREM RetryAfterSufficesHolds == Spec => RetryAfterSuffices
<1> DEFINE Honest ==
             \A r \in Requests :
               req[r].stage = "consumed" /\ req'[r].stage \notin {"consumed", "dropped"} =>
                 LET c == req[r].call.key
                     k == Kind(req[r].call.op)
                 IN promise[k][c] # None /\ now >= promise[k][c] => granted'[k][c] > granted[k][c]
<1>1. ApiInv /\ [Next]_apiVars => [Honest]_apiVars
  <2> SUFFICES ASSUME ApiInv, Next, NEW r \in Requests, req[r].stage = "consumed",
                      req'[r].stage \notin {"consumed", "dropped"}
               PROVE  LET c == req[r].call.key
                          k == Kind(req[r].call.op)
                      IN promise[k][c] # None /\ now >= promise[k][c]
                           => granted'[k][c] > granted[k][c]
    OBVIOUS
  <2>1. ApiTypeOK /\ Accounts
    BY DEF ApiInv
  <2>2. ~(Boot \/ Tick)
    BY DEF Boot, Tick
  <2>3. ~(Shutdown \/ Exit \/ Crash)
    <3>1. NoCall("dropped", "none").stage = "dropped"
      BY DEF NoCall
    <3> QED
      BY <2>1, <3>1, StopStep
  <2>4. PICK q \in Requests : Arrive(q) \/ Handle(q)
    BY <2>2, <2>3 DEF Next
  <2>5. q = r
    <3>1. PICK e : req' = [req EXCEPT ![q] = e]
      BY <2>1, <2>4, RequestStep
    <3> QED
      BY <2>1, <3>1 DEF ApiTypeOK
  <2>6. Admit(r)
    BY <2>4, <2>5 DEF Arrive, Handle, Authenticate, Work, Finish
  <2> QED
    BY <2>1, <2>6, AdmitChecks, CheckStep
<1>2. RetryAfterSuffices <=> [][Honest]_apiVars
  BY DEF RetryAfterSuffices
<1> QED
  BY <1>1, <1>2, ApiInvHolds, PTL DEF Spec
=============================================================================
