------------------------------- MODULE Envelope -------------------------------
(***************************************************************************)
(* The proof envelope: createEnvelope() and validateEnvelope() of          *)
(* packages/proof-format, signEnvelope() and verifyEnvelope() of           *)
(* packages/keys.  keccak256 and Ed25519 are ideal: a hash is the value it *)
(* is of, and a signature verifies iff key and signed value are those it   *)
(* was made with.  An envelope that is no well-formed JSON of either       *)
(* version is not looked at any further by anyone.                         *)
(***************************************************************************)
EXTENDS Integers

CONSTANTS NoSignature

\* parts: vkHash, artifactHash and proof (with its public inputs).
ProofHash(version, parts) == <<version, parts>>

Create(parts) ==
  [version |-> 1, parts |-> parts, proofHash |-> ProofHash(1, parts),
   signature |-> NoSignature]

\* All but the signature section.
SignatureInput(e) == <<e.version, e.parts, e.proofHash>>

SignCanonical(e, key) == <<key, SignatureInput(e)>>

Sign(e, key) ==
  LET signed == [version |-> 2, parts |-> e.parts, proofHash |-> ProofHash(2, e.parts),
                 signature |-> NoSignature]
  IN [signed EXCEPT !.signature = [keyId |-> key, value |-> SignCanonical(signed, key)]]

\* The signature section is that of the format version.
SignatureShape(e) == e.version = 1 <=> e.signature = NoSignature

Valid(e) ==
  /\ SignatureShape(e)
  /\ e.proofHash = ProofHash(e.version, e.parts)

SignatureOkAnyHash(e, key, requireSigned) ==    \* mutant: the signature is not compared
  /\ Valid(e)
  /\ \/ e.version = 1 /\ ~requireSigned
     \/ e.version = 2 /\ e.signature.keyId = key

\* verifyEnvelope() with one trusted key
SignatureOk(e, key, requireSigned) ==
  /\ Valid(e)
  /\ \/ e.version = 1 /\ ~requireSigned
     \/ /\ e.version = 2
        /\ e.signature.keyId = key
        /\ e.signature.value = SignCanonical(e, key)
===============================================================================
