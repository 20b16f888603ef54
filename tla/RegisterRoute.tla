----------------------------- MODULE RegisterRoute -----------------------------
(***************************************************************************)
(* POST /v1/proofs/register: the route of api/buildServer.ts, its          *)
(* IdempotencyPolicy (application/idempotency.ts), RegisterProofUseCase    *)
(* (application/useCases/registerProof.ts) and WriteRegistry.registerProof *)
(* (infrastructure/contracts/RegistryAdapter.ts), over the contract that   *)
(* ZKVerifierRegistry specifies.  Each await of the handler is a step, so  *)
(* requests, the owner's transactions and mining interleave.               *)
(*                                                                         *)
(* The route makes a new IdempotencyPolicy for every request, so the map   *)
(* its exclusive() serializes on is always empty and nothing waits there.  *)
(***************************************************************************)
EXTENDS ZKVerifierRegistry

CONSTANTS
  Requests,       \* HTTP requests; a retry is another request
  IdemKeys,
  KeyOf,          \* KeyOf[r]: the Idempotency-Key
  PayloadOf,      \* PayloadOf[r]: the submission [circuit, inputs, proof]
  EngineAccepts,  \* <<inputs, proof>> that the local engine verifies
  None,
  Faults,         \* whether an RPC call, the audit file or the store may fail
  Durable,        \* whether the idempotency store survives a crash (Redis); the server
                  \* that parseConfig configures has only the store in memory
  Expiry,         \* whether records reach their TTL
  MaxCrashes      \* bound: restarts of the API process

ASSUME RouteAssumption ==
  /\ KeyOf \in [Requests -> IdemKeys]
  /\ PayloadOf \in [Requests -> [circuit : Circuits, inputs : Inputs, proof : Proofs]]
  /\ EngineAccepts \subseteq Inputs \X Proofs
  /\ None \notin Requests
  /\ None \notin [payload : [circuit : Circuits, inputs : Inputs, proof : Proofs],
                  result  : Requests]
  /\ {Faults, Durable, Expiry} \subseteq BOOLEAN
  /\ MaxCrashes \in Nat

VARIABLES
  phase,     \* phase[r]: the await the handler is at, or its outcome
  readVk,    \* readVk[r]: the vkHash the adapter read, ZeroHash before
  tx,        \* tx[r]: the transaction r sent
  answer,    \* answer[r]: the request whose registration the 200 reports
  records,   \* idempotency store: key => [payload, result]
  crashes

routeVars == <<phase, readVk, tx, answer, records, crashes>>
allVars   == <<vars, routeVars>>

Answered == {"ok", "conflict", "notFound", "unverified", "failed", "dropped"}
Awaiting == {"circuit", "engine", "vk", "send", "wait", "audit", "store"}

Payload(r) == PayloadOf[r]
AnchorFor(r) == <<Payload(r).circuit, Payload(r).inputs>>
LeafFor(r) == [circuit |-> Payload(r).circuit, vkHash |-> readVk[r],
               inputs  |-> Payload(r).inputs,  proof  |-> Payload(r).proof]

RouteInit ==
  /\ Init
  /\ phase = [r \in Requests |-> "new"]
  /\ readVk = [r \in Requests |-> ZeroHash]
  /\ tx = [r \in Requests |-> "none"]
  /\ answer = [r \in Requests |-> None]
  /\ records = [k \in IdemKeys |-> None]
  /\ crashes = 0

Goto(r, next) == phase' = [phase EXCEPT ![r] = next]

\* A step of the handler that touches nothing but the phase.
Moves(r, from, next) ==
  /\ phase[r] = from
  /\ Goto(r, next)
  /\ UNCHANGED <<vars, readVk, tx, answer, records, crashes>>

\* The awaited call rejects: a 5xx answer.
Rejects(r, from) == Faults /\ Moves(r, from, "failed")

-----------------------------------------------------------------------------
AnswerFrom(r, record) ==
  /\ Goto(r, "ok")
  /\ answer' = [answer EXCEPT ![r] = record.result]
  /\ UNCHANGED <<vars, readVk, tx, records, crashes>>

\* policy.replay: answer from the record, or 409 for another payload.
Replay(r) ==
  /\ phase[r] = "new"
  /\ \/ /\ records[KeyOf[r]] = None
        /\ Moves(r, "new", "circuit")
     \/ /\ records[KeyOf[r]] # None
        /\ IF records[KeyOf[r]].payload = Payload(r)
           THEN AnswerFrom(r, records[KeyOf[r]])
           ELSE Moves(r, "new", "conflict")
     \/ Rejects(r, "new")

\* registryRead.getCircuit: 404 when the chain does not know the circuit.
GetCircuit(r) ==
  \/ Registered(Payload(r).circuit) /\ Moves(r, "circuit", "engine")
  \/ ~Registered(Payload(r).circuit) /\ Moves(r, "circuit", "notFound")
  \/ Rejects(r, "circuit")

\* engine.verify with the local verification key: UNVERIFIED writes nothing.
EngineVerify(r) ==
  \/ /\ <<Payload(r).inputs, Payload(r).proof>> \in EngineAccepts
     /\ Moves(r, "engine", "vk")
  \/ /\ <<Payload(r).inputs, Payload(r).proof>> \notin EngineAccepts
     /\ Moves(r, "engine", "unverified")
  \/ Rejects(r, "engine")

\* The adapter reads the circuit's vkHash again, for the transaction.
ReadVkHash(r) ==
  \/ /\ phase[r] = "vk"
     /\ Registered(Payload(r).circuit)
     /\ readVk' = [readVk EXCEPT ![r] = circuits[Payload(r).circuit].vkHash]
     /\ Goto(r, "send")
     /\ UNCHANGED <<vars, tx, answer, records, crashes>>
  \/ Rejects(r, "vk")

\* Gas estimation runs the call on the chain as it is: a revert is a 502 and
\* nothing is sent.  The broadcast may go through although its answer is lost.
Send(r) ==
  \/ ~CanRegister(LeafFor(r)) /\ Moves(r, "send", "failed")
  \/ /\ phase[r] = "send"
     /\ CanRegister(LeafFor(r))
     /\ tx' = [tx EXCEPT ![r] = "pending"]
     /\ \E next \in IF Faults THEN {"wait", "failed"} ELSE {"wait"} : Goto(r, next)
     /\ UNCHANGED <<vars, readVk, answer, records, crashes>>
  \/ Rejects(r, "send")

\* A block includes r's transaction, on a chain that moved since it was sent.
Mine(r) ==
  /\ tx[r] = "pending"
  /\ IF CanRegister(LeafFor(r))
     THEN RegisterProof(LeafFor(r)) /\ tx' = [tx EXCEPT ![r] = "mined"]
     ELSE UNCHANGED vars /\ tx' = [tx EXCEPT ![r] = "reverted"]
  /\ UNCHANGED <<phase, readVk, answer, records, crashes>>

WaitNot(r) ==        \* mutant: tx.wait(1) is not awaited
  Moves(r, "wait", "audit") \/ Rejects(r, "wait")


\* tx.wait(1): resolves once mined, rejects once reverted.
Wait(r) ==
  \/ tx[r] = "mined" /\ Moves(r, "wait", "audit")
  \/ tx[r] = "reverted" /\ Moves(r, "wait", "failed")
  \/ Rejects(r, "wait")

\* audit.append
AuditAppend(r) == Moves(r, "audit", "store") \/ Rejects(r, "audit")

\* policy.store, then the 200.  The put may take effect although its answer
\* is lost.
Store(r) ==
  \/ /\ phase[r] = "store"
     /\ records' = [records EXCEPT ![KeyOf[r]] = [payload |-> Payload(r), result |-> r]]
     /\ \/ Goto(r, "ok") /\ answer' = [answer EXCEPT ![r] = r]
        \/ Faults /\ Goto(r, "failed") /\ UNCHANGED answer
     /\ UNCHANGED <<vars, readVk, tx, crashes>>
  \/ Rejects(r, "store")

Expire(k) ==
  /\ Expiry
  /\ records[k] # None
  /\ records' = [records EXCEPT ![k] = None]
  /\ UNCHANGED <<vars, phase, readVk, tx, answer, crashes>>

\* The process restarts: handlers are gone, broadcast transactions are not.
Crash ==
  /\ crashes < MaxCrashes
  /\ crashes' = crashes + 1
  /\ phase' = [r \in Requests |-> IF phase[r] \in Awaiting THEN "dropped" ELSE phase[r]]
  /\ records' = IF Durable THEN records ELSE [k \in IdemKeys |-> None]
  /\ UNCHANGED <<vars, readVk, tx, answer>>

Handle(r) ==
  \/ Replay(r)
  \/ GetCircuit(r)
  \/ EngineVerify(r)
  \/ ReadVkHash(r)
  \/ Send(r)
  \/ Wait(r)
  \/ AuditAppend(r)
  \/ Store(r)

RouteNext ==
  \/ \E r \in Requests : Handle(r) \/ Mine(r)
  \/ \E k \in IdemKeys : Expire(k)
  \/ Crash
  \/ Next /\ UNCHANGED routeVars

RouteSafety == RouteInit /\ [][RouteNext]_allVars

\* Awaited calls settle and the chain includes what was broadcast.
RouteSpec ==
  RouteSafety /\ \A r \in Requests : WF_allVars(Handle(r)) /\ WF_allVars(Mine(r))

-----------------------------------------------------------------------------
RouteTypeOK ==
  /\ TypeOK
  /\ phase \in [Requests -> {"new"} \cup Awaiting \cup Answered]
  /\ readVk \in [Requests -> VkHashes \cup {ZeroHash}]
  /\ tx \in [Requests -> {"none", "pending", "mined", "reverted"}]
  /\ answer \in [Requests -> Requests \cup {None}]
  /\ \A k \in IdemKeys : records[k] # None => records[k].result \in Requests
  /\ crashes \in 0 .. MaxCrashes

\* A 200 is never given on the strength of a transaction that did not take
\* effect: the one it reports is mined, for the same submission, and the anchor
\* is on the ledger, whatever the owner, other clients, faults and restarts did
\* meanwhile.
SuccessIsAnchored ==
  \A r \in Requests : phase[r] = "ok" =>
    /\ tx[answer[r]] = "mined"
    /\ Payload(answer[r]) = Payload(r)
    /\ proofStatus[AnchorFor(r)].status # "None"

\* What an Idempotency-Key is for, without relying on the store that may lose
\* its record: nothing keeps a retry, after a restart, an expiry or beside the
\* first request, from sending a second transaction, but once one transaction
\* for an anchor is mined no other request's transaction changes the ledger.
RetryChangesNothing ==
  [][\A r, s \in Requests :
       tx[s] = "mined" /\ AnchorFor(r) = AnchorFor(s) /\ tx[r] # tx'[r] /\ tx'[r] = "mined"
         => UNCHANGED <<proofLeaves, proofStatus, totalProofs>>]_allVars

=============================================================================
