------------------------------ MODULE ApiServer ------------------------------
(***************************************************************************)
(* The HTTP server of packages/api: main() of index.ts, the request        *)
(* pipeline of api/buildServer.ts with application/auth.ts, NonceStore,    *)
(* RateLimiter and AuditLog, and every route but POST /v1/proofs/register, *)
(* which RegisterRoute specifies.  A handler runs from one await to the    *)
(* next in one step, so requests interleave at the awaits, with the clock, *)
(* restarts and a failing audit file.                                      *)
(*                                                                         *)
(* A path is the sequence of its pieces between question marks.  A         *)
(* signature is equal to the expected one iff the secrets and the          *)
(* canonical strings are.                                                  *)
(***************************************************************************)
EXTENDS TokenBucket, Sequences

CONSTANTS
  Requests, Clients,
  Calls,        \* what a request may be: see CallType
  Nonces,
  Environments, \* what the process may be started with: see EnvironmentType
  Limit,        \* Limit["general"], Limit["verify"]: the two rate limits
  Ttl,          \* authTtlSeconds
  MaxEntries,   \* MAX_ENTRIES of NonceStore
  RingCap,      \* RING_CAP of AuditLog
  Faults,       \* whether a write to the audit file may fail
  MaxTime, MaxStops,   \* bounds: the clock, how often the process stops,
  LastStop             \* and until when

Kinds == {"general", "verify"}
Ops   == {"circuits", "status", "verify", "registry", "audit", "auditLogs"}
Roles == {"read", "submit", "write", "audit"}

\* key and secret: the client the request names and the secret it is signed
\* with; skew: the client's clock against the server's; headers: whether all of
\* x-zk-* are there; body: "canonical", "coerced" (valid only after Fastify's
\* validation rewrote it) or "malformed".
CallType == [op : Ops, key : Clients, secret : Clients, nonce : Nonces, skew : Int,
             headers : BOOLEAN, body : {"canonical", "coerced", "malformed"}]

\* keys: the entries of ZK_API_KEYS; rpc, proxy: ZK_REGISTRY_RPC, ZK_REGISTRY_PROXY.
EnvironmentType == [keys : Seq([client : Clients, roles : SUBSET STRING]),
                    rpc : {"", "url", "malformed"}, proxy : {"", "address", "malformed"}]

ASSUME ApiAssumption ==
  /\ Calls \subseteq CallType
  /\ Limit \in [Kinds -> Limits]
  /\ Environments \subseteq EnvironmentType
  /\ {Ttl, MaxTime, MaxStops, LastStop} \subseteq Nat
  /\ MaxEntries \in Nat \ {0} /\ RingCap \in Nat \ {0}
  /\ Faults \in BOOLEAN

ASSUME ClientsAssumption == IsFiniteSet(Clients)

VARIABLES
  now,
  server,     \* phase: "down", "up" or "closing"; registry; keys: the secret store
  req,        \* req[r]: stage, call, ts (its x-zk-timestamp) and code of its answer
  nonces,     \* NonceStore: the list of client c as the set nonces[c], numbered in its order
  buckets,    \* RateLimiter: buckets[kind] is a TokenBucket's Map
  ring, file, \* AuditLog: the size of the ring, and the lines on disk, None if
              \* ZK_AUDIT_FILE is unset, which no restart changes; a request has one event
  stops,
  \* History since the process started:
  accepted,   \* the authenticated requests, in order: [key, nonce, at]
  granted,    \* granted[kind][c]: requests the limiter let through
  pruned,     \* pruned[kind][c]: how often c's bucket was dropped
  promise     \* promise[kind][c]: when a refused client was told to come back

limiter == <<buckets, granted, pruned, promise>>
audit   == <<ring, file>>
replay  == <<nonces, accepted>>
apiVars == <<now, server, req, nonces, buckets, ring, file, stops,
             accepted, granted, pruned, promise>>

InFlight == {"lookup", "consumed", "handler", "audited"}

-----------------------------------------------------------------------------
\* Any entries but these, and an unknown role, stop main() before it listens.
WellFormedKeys(list) ==
  /\ list # <<>>
  /\ \A i, j \in DOMAIN list : list[i].client = list[j].client => i = j

KnownRoles(list) == \A i \in DOMAIN list : list[i].roles \subseteq Roles

\* What parseConfig() accepts; its other fields are in range here, or absent.
ParseConfig(env) ==
  WellFormedKeys(env.keys) /\ env.rpc # "malformed" /\ env.proxy # "malformed"

\* The ports main() builds from it: without a proxy there is no contract.
Registry(env) ==
  CASE env.rpc = "" -> "none" [] env.proxy = "" -> "noProxy" [] OTHER -> "read"

RolesOf(list, c) == UNION {list[i].roles : i \in {j \in DOMAIN list : list[j].client = c}}

Target(op) ==
  CASE op = "circuits"  -> [path |-> <<"/v1/circuits">>, query |-> <<>>]
    [] op = "status"    -> [path |-> <<"/v1/proofs/status">>, query |-> <<>>]
    [] op = "verify"    -> [path |-> <<"/v1/proofs/verify">>, query |-> <<>>]
    [] op = "registry"  -> [path |-> <<"/v1/registry">>, query |-> <<>>]
    [] op = "audit"     -> [path |-> <<"/v1/audit">>, query |-> <<"limit">>]
    [] op = "auditLogs" -> [path |-> <<"/v1/audit", "limit">>, query |-> <<>>]

Role(op) ==
  CASE op = "verify" -> "submit"
    [] op \in {"audit", "auditLogs"} -> "audit"
    [] OTHER -> "read"

Kind(op) == IF op = "verify" THEN "verify" ELSE "general"

\* canonicalString(), here of the client's values and there of the server's.
Canonical(path, query, nonce, ts, body) ==
  [path |-> path, query |-> query, nonce |-> nonce, ts |-> ts, body |-> body]

\* What signedFetch() signs.
ClientCanonical(call, ts) ==
  Canonical(Target(call.op).path, Target(call.op).query, call.nonce, ts, call.body)

\* What authorize() authenticates: the URL split at its first "?", and the body
\* as validation left it.
ServerCanonical(call, ts) ==
  LET url == Target(call.op).path \o Target(call.op).query IN
  Canonical(<<Head(url)>>, Tail(url), call.nonce, ts, "canonical")

\* Fastify's validation of the body against its JSON schema.
Validation(call) == IF call.body = "malformed" THEN "VALIDATION" ELSE "none"

-----------------------------------------------------------------------------
\* errors.ts: the codes of a DomainError; setErrorHandler() answers with the code
\* of one, and with INTERNAL for any other error.
Problems == {"VALIDATION", "AUTH-MISSING", "AUTH-UNKNOWN-CLIENT", "AUTH-EXPIRED",
             "AUTH-BAD-SIGNATURE", "AUTH-REPLAY", "AUTH-FORBIDDEN", "NOT-FOUND", "UNVERIFIED",
             "RATE-LIMITED", "OUT-OF-SERVICE", "UPSTREAM-ENGINE", "UPSTREAM-REGISTRY"}

Problem(error) == IF error \in Problems THEN error ELSE "INTERNAL"

\* How a read of RegistryAdapter settles: it has no contract without a proxy,
\* and the errors of ethers are no DomainErrors.
RegistryRead == IF server.registry = "noProxy" THEN {"OUT-OF-SERVICE"} ELSE {"OK", "rpc error"}

\* How EngineAdapter.verify() does.
EngineVerify == {"valid", "invalid", "NOT-FOUND", "UPSTREAM-ENGINE"}

\* The use cases, as what they return or throw.
VerifyProof ==
  {CASE o = "valid" -> "OK" [] o = "invalid" -> "UNVERIFIED" [] OTHER -> o : o \in EngineVerify}

ProofStatus == {IF o = "OK" THEN "OK" ELSE "UPSTREAM-REGISTRY" : o \in RegistryRead}

RegistryInfo == {Problem(o) : o \in RegistryRead \ {"OK"}} \cup (RegistryRead \cap {"OK"})

ListCircuits == {"OK"}    \* a registry that fails leaves an item without its config

AuditList == {"OK"}

-----------------------------------------------------------------------------
\* The state of a process that has just started, but for its configuration.
Fresh ==
  /\ nonces'   = [c \in Clients |-> {}]
  /\ buckets'  = [k \in Kinds |-> [c \in Clients |-> None]]
  /\ ring'     = 0
  /\ accepted' = <<>>
  /\ granted'  = [k \in Kinds |-> [c \in Clients |-> 0]]
  /\ pruned'   = [k \in Kinds |-> [c \in Clients |-> 0]]
  /\ promise'  = [k \in Kinds |-> [c \in Clients |-> None]]

NoCall(stage, code) == [stage |-> stage, call |-> None, ts |-> 0, code |-> code]

Init ==
  /\ now = 0
  /\ server = [phase |-> "down", registry |-> "none", keys |-> <<>>, at |-> 0]
  /\ req = [r \in Requests |-> NoCall("new", "none")]
  /\ nonces = [c \in Clients |-> {}]
  /\ buckets = [k \in Kinds |-> [c \in Clients |-> None]]
  /\ ring = 0 /\ file \in {None, {}} /\ stops = 0
  /\ accepted = <<>>
  /\ granted = [k \in Kinds |-> [c \in Clients |-> 0]]
  /\ pruned  = [k \in Kinds |-> [c \in Clients |-> 0]]
  /\ promise = [k \in Kinds |-> [c \in Clients |-> None]]

\* main()
Boot ==
  /\ server.phase = "down"
  /\ \E env \in Environments :
       /\ ParseConfig(env) /\ KnownRoles(env.keys)
       /\ server' = [phase |-> "up", registry |-> Registry(env), keys |-> env.keys,
                     at |-> now]
  /\ Fresh
  /\ UNCHANGED <<now, req, file, stops>>

\* The bounds of Shutdown and Crash.
MayStop == stops < MaxStops /\ now <= LastStop

\* SIGTERM, SIGINT: app.close() refuses new requests and awaits the others.
Shutdown ==
  /\ server.phase = "up" /\ MayStop
  /\ server' = [server EXCEPT !.phase = "closing"]
  /\ stops' = stops + 1
  /\ UNCHANGED <<now, req, nonces, accepted, limiter, audit>>

Exit ==
  /\ server.phase = "closing"
  /\ \A r \in Requests : req[r].stage \notin InFlight
  /\ server' = [server EXCEPT !.phase = "down"]
  /\ UNCHANGED <<now, req, nonces, accepted, limiter, audit, stops>>

Crash ==
  /\ server.phase # "down" /\ MayStop
  /\ server' = [server EXCEPT !.phase = "down"]
  /\ req' = [r \in Requests |-> IF req[r].stage \in InFlight
                                THEN NoCall("dropped", "none") ELSE req[r]]
  /\ stops' = stops + 1
  /\ UNCHANGED <<now, nonces, accepted, limiter, audit>>

\* One unit is longer than a turn of the event loop: a lookup, a consume and an
\* append settle within theirs, while a handler may await its ports for any time.
\* Time that passes while the process is down is not seen by the next one, and
\* none is needed after the last request.
Tick ==
  /\ now < MaxTime /\ server.phase # "down"
  /\ \A r \in Requests : req[r].stage \notin InFlight \ {"handler"}
  /\ \E r \in Requests : req[r].stage \in {"new", "handler"}
  /\ now' = now + 1
  /\ UNCHANGED <<server, req, nonces, accepted, limiter, audit, stops>>

-----------------------------------------------------------------------------
Goto(r, stage, code) == req' = [req EXCEPT ![r].stage = stage, ![r].code = code]
Answer(r, code) == req' = [req EXCEPT ![r] = NoCall("answered", code)]

\* signedFetch(), then Fastify's validation of the request, which comes before
\* the preHandler, and authenticate() up to `await this.secrets.lookup(key)`.
Arrive(r) ==
  /\ server.phase = "up"
  /\ req[r].stage = "new"
  /\ \E call \in Calls :
       LET code == IF Validation(call) # "none" THEN Validation(call)
                   ELSE IF ~call.headers THEN "AUTH-MISSING" ELSE "none"
       IN IF code = "none"
          THEN req' = [req EXCEPT ![r] = [stage |-> "lookup", call |-> call,
                                          ts |-> now + call.skew, code |-> code]]
          ELSE Answer(r, code)
  /\ UNCHANGED <<now, server, nonces, accepted, limiter, audit, stops>>

Skew(r) == IF now >= req[r].ts THEN now - req[r].ts ELSE req[r].ts - now

Signed(r) ==
  LET call == req[r].call IN
  /\ call.secret = call.key
  /\ ClientCanonical(call, req[r].ts) = ServerCanonical(call, req[r].ts)

\* NonceStore.consume()
Live(c) == {e \in nonces[c] : e.expires > now}

Seen(c, nonce) == \E e \in Live(c) : e.nonce = nonce

\* entries.shift(), once the list is full.
Shifted(entries) ==
  IF Cardinality(entries) < MaxEntries THEN entries
  ELSE {e \in entries : \E d \in entries : d.nth < e.nth}

RememberBriefly(c, nonce) ==    \* mutant: the entry expires a moment early
  Shifted(Live(c)) \cup
    {[nonce |-> nonce, expires |-> now + Ttl - 1, nth |-> Len(accepted) + 1]}

Remember(c, nonce) ==
  Shifted(Live(c)) \cup
    {[nonce |-> nonce, expires |-> now + Ttl, nth |-> Len(accepted) + 1]}

\* authenticate() from the lookup on; the nonce is consumed last.
Authenticate(r) ==
  LET call == req[r].call
      c    == call.key
      bad  == IF RolesOf(server.keys, c) = {} THEN "AUTH-UNKNOWN-CLIENT"
              ELSE IF Skew(r) > Ttl THEN "AUTH-EXPIRED"
              ELSE IF ~Signed(r) THEN "AUTH-BAD-SIGNATURE" ELSE "none"
  IN
  /\ req[r].stage = "lookup"
  /\ \/ /\ bad # "none"
        /\ Answer(r, bad)
        /\ UNCHANGED replay
     \/ /\ bad = "none" /\ Seen(c, call.nonce)
        /\ Answer(r, "AUTH-REPLAY")
        /\ nonces' = [nonces EXCEPT ![c] = Live(c)]
        /\ UNCHANGED accepted
     \/ /\ bad = "none" /\ ~Seen(c, call.nonce)
        /\ Goto(r, "consumed", "none")
        /\ nonces' = [nonces EXCEPT ![c] = Remember(c, call.nonce)]
        /\ accepted' = Append(accepted, [key |-> c, nonce |-> call.nonce, at |-> now])
  /\ UNCHANGED <<now, server, limiter, audit, stops>>

\* AuditLog.append() and the await of it: the ring always, the file if there is
\* one.  The event stays in the ring even if the file refuses it, and the
\* request then answers INTERNAL.
AuditThen(r, code) ==
  /\ ring' = IF ring < RingCap THEN ring + 1 ELSE ring
  /\ \/ file = None /\ UNCHANGED file /\ Goto(r, "audited", code)
     \/ file # None /\ file' = file \cup {r} /\ Goto(r, "audited", code)
     \/ file # None /\ Faults /\ UNCHANGED file /\ Answer(r, Problem("write error"))

\* RateLimiter.check() and assertRole(); a refusal is audited first.
Admit(r) ==
  LET c == req[r].call.key
      k == Kind(req[r].call.op)
      b == Refreshed(buckets[k], c, Limit[k], now)
      dropped == {d \in Clients : buckets[k][d] # None /\ b[d] = None}
  IN
  /\ req[r].stage = "consumed"
  /\ pruned' = [pruned EXCEPT ![k] =
                 [d \in Clients |-> IF d \in dropped THEN pruned[k][d] + 1 ELSE pruned[k][d]]]
  /\ \/ /\ b[c].tokens >= Window
        /\ buckets' = [buckets EXCEPT ![k] = [b EXCEPT ![c].tokens = b[c].tokens - Window]]
        /\ granted' = [granted EXCEPT ![k][c] = granted[k][c] + 1]
        /\ promise' = [promise EXCEPT ![k][c] = None]
        /\ IF Role(req[r].call.op) \in RolesOf(server.keys, c)
           THEN Goto(r, "handler", "none") ELSE Answer(r, "AUTH-FORBIDDEN")
        /\ UNCHANGED audit
     \/ /\ b[c].tokens < Window
        /\ buckets' = [buckets EXCEPT ![k] = b]
        /\ promise' = [promise EXCEPT ![k][c] = now + RetryAfter(b[c], Limit[k])]
        /\ AuditThen(r, "RATE-LIMITED")
        /\ UNCHANGED granted
  /\ UNCHANGED <<now, server, nonces, accepted, stops>>

\* What the handler of each route may end with.
Outcomes(op) ==
  CASE op = "circuits" -> ListCircuits
    [] op = "status"   -> (IF server.registry = "none" THEN {"OUT-OF-SERVICE"} ELSE ProofStatus)
    [] op = "verify"   -> VerifyProof
    [] op = "registry" -> (IF server.registry = "none" THEN {"OUT-OF-SERVICE"} ELSE RegistryInfo)
    [] op \in {"audit", "auditLogs"} -> AuditList

AuditedCodes == {"OK", "UNVERIFIED", "RATE-LIMITED"}

WorkAnswersFirst(r) ==    \* mutant: the append is not awaited before the answer
  /\ req[r].stage = "handler"
  /\ \E code \in Outcomes(req[r].call.op) : Answer(r, code)
  /\ UNCHANGED <<now, server, nonces, accepted, limiter, audit, stops>>

\* The handler of the route, up to the await of its audit event.
Work(r) ==
  /\ req[r].stage = "handler"
  /\ \E code \in Outcomes(req[r].call.op) :
       IF code \in AuditedCodes THEN AuditThen(r, code)
       ELSE Answer(r, code) /\ UNCHANGED audit
  /\ UNCHANGED <<now, server, nonces, accepted, limiter, stops>>

\* The append resolved: the answer, or the error the handler goes on to throw.
Finish(r) ==
  /\ req[r].stage = "audited"
  /\ Answer(r, req[r].code)
  /\ UNCHANGED <<now, server, nonces, accepted, limiter, audit, stops>>

Handle(r) == Authenticate(r) \/ Admit(r) \/ Work(r) \/ Finish(r)

Next ==
  \/ Boot \/ Shutdown \/ Exit \/ Crash \/ Tick
  \/ \E r \in Requests : Arrive(r) \/ Handle(r)

Spec == Init /\ [][Next]_apiVars

-----------------------------------------------------------------------------
\* A nonce is accepted from one client again only Ttl later, or after the
\* store's capacity in other nonces of that client, however requests interleave.
NonceSingleUse ==
  \A i, j \in DOMAIN accepted :
    LET between == {m \in i + 1 .. j - 1 : accepted[m].key = accepted[i].key} IN
    i < j /\ accepted[i].key = accepted[j].key /\ accepted[i].nonce = accepted[j].nonce =>
      \/ accepted[j].at - accepted[i].at >= Ttl
      \/ Cardinality(between) >= MaxEntries

\* What a client has at hand, in units of 1/Window of a request.
AtHand(k, c) == IF buckets[k][c] = None THEN Full(Limit[k]) ELSE buckets[k][c].tokens

\* What dropping an idle bucket gives its client, since it comes back full: what
\* two windows of idling leave it short of its capacity.  That is nothing for the
\* default limit of verifications (8, 4) and a third of the capacity for the
\* general one (60, 20).
PruneGain(k) == IF Limit[k].capacity <= 2 * Limit[k].refill THEN 0
                ELSE (Limit[k].capacity - 2 * Limit[k].refill) * Window

\* Whatever the interleaving, a client is never let through more often than its
\* capacity, plus the refill since the process started, plus a gain for each time
\* that its bucket was idle and dropped.  The code does let a client gain there,
\* unless two windows fill its bucket; this bounds how much, and that nothing
\* else, such as the drop of a bucket in use, gives it more.
GrantsBounded ==
  \A k \in Kinds, c \in Clients :
    granted[k][c] * Window + AtHand(k, c) <=
      Full(Limit[k]) + (now - server.at) * Limit[k].refill + pruned[k][c] * PruneGain(k)

\* Other clients, unauthenticated requests and pruning never cost a client a
\* token: it is only refused once it was itself let through capacity times.
OthersCostNothing ==
  \A k \in Kinds, c \in Clients :
    granted[k][c] * Window + AtHand(k, c) >= Full(Limit[k])

\* A refused client that comes back when it was told to is let through, unless
\* another request of its own was first.
RetryAfterSuffices ==
  [][\A r \in Requests :
       req[r].stage = "consumed" /\ req'[r].stage \notin {"consumed", "dropped"} =>
         LET c == req[r].call.key
             k == Kind(req[r].call.op)
         IN promise[k][c] # None /\ now >= promise[k][c] => granted'[k][c] > granted[k][c]]_apiVars

\* Where there is an audit file, no client sees a verdict or a refusal of the
\* rate limiter whose event is not in it, though the append fails or the process
\* stops in between.  Without a file the events are in memory only, and refusals
\* for authentication or role have none.
AnsweredIsAudited ==
  file # None =>
    \A r \in Requests : req[r].stage = "answered" /\ req[r].code \in AuditedCodes => r \in file
=============================================================================
