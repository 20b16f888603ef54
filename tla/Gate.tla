--------------------------------- MODULE Gate ---------------------------------
(***************************************************************************)
(* From a proof to the gate's verdict, beside the scripts that rebuild the *)
(* artifacts: cmdProve() of packages/cli, Circuit.load() and prove() of    *)
(* packages/engine, the maintainer's signature, and runGate() of           *)
(* cli/scripts/gatekeeper-lib.mjs without a registry (ChainGate has that). *)
(* Nothing locks the build directory: every read of a file is a step.      *)
(*                                                                         *)
(* A check that fails leads to "blocked" at once: the later entries of the *)
(* report, and the vkHash allow-list, which compares with one more fixed   *)
(* value, are left out.                                                    *)
(***************************************************************************)
EXTENDS Toolchain, Envelope

CONSTANTS Keys, TrustedKey, RequireSigned

ASSUME GateAssumption == TrustedKey \in Keys /\ RequireSigned \in BOOLEAN

VARIABLES
  envelope,     \* the proof file
  signed,       \* history: signed[k]: what was signed with k
  act           \* act["prover"], act["gate"]: pc, the manifest read, the files
                \* still to read, what was read of them, and the envelope judged

gateVars == <<toolVars, envelope, signed, act>>

Actors == {"prover", "gate"}

With(pc, man, todo, got, env) ==
  [pc |-> pc, man |-> man, todo |-> todo, got |-> got, env |-> env]

At(p, pc, man, todo) == [act EXCEPT ![p] = With(pc, man, todo, act[p].got, act[p].env)]

Fails(p) == act' = [act EXCEPT ![p] = With("blocked", None, {}, None, None)]

GateInit ==
  /\ ToolInit
  /\ envelope = None
  /\ signed = [k \in Keys |-> {}]
  /\ act = [p \in Actors |-> With(IF p = "prover" THEN "load" ELSE "new", None, {}, None, None)]

Whole(f) == disk[f] # None /\ disk[f].whole

\* loadArtifactHashes() parses the vk before it hashes the other files.
MayRead(p, f) == f \in act[p].todo /\ (f = "vk" \/ "vk" \notin act[p].todo)

-----------------------------------------------------------------------------
\* Circuit.load(): checkArtifacts() reads the manifest and hashes the files
\* against it; the constructor's argument reads the manifest again.
LoadManifest(p) ==
  /\ act[p].pc = "load"
  /\ IF Whole("manifest") /\ ArtifactsExist
     THEN act' = At(p, "hash", disk["manifest"].of, Artifacts)
     ELSE Fails(p)
  /\ UNCHANGED <<toolVars, envelope, signed>>

HashFile(p) ==
  /\ act[p].pc = "hash"
  /\ \E f \in Artifacts :
       /\ MayRead(p, f)
       /\ IF disk[f] = act[p].man[f] /\ (f = "vk" => Whole(f))
          THEN act' = At(p, IF act[p].todo = {f} THEN "reload" ELSE "hash",
                         act[p].man, act[p].todo \ {f})
          ELSE Fails(p)
  /\ UNCHANGED <<toolVars, envelope, signed>>

ReloadManifest(p) ==
  /\ act[p].pc = "reload"
  /\ IF Whole("manifest") THEN act' = At(p, "loaded", disk["manifest"].of, {})
     ELSE Fails(p)
  /\ UNCHANGED <<toolVars, envelope, signed>>

-----------------------------------------------------------------------------
\* fullProve(): the witness from the wasm, then the proof with the zkey.
UseWasm ==
  /\ act["prover"].pc = "loaded"
  /\ IF Whole("wasm")
     THEN act' = [act EXCEPT !["prover"] =
                    With("prove", act["prover"].man, {}, disk["wasm"], None)]
     ELSE Fails("prover")
  /\ UNCHANGED <<toolVars, envelope, signed>>

UseZkey ==
  /\ act["prover"].pc = "prove"
  /\ IF Whole("zkey")
     THEN act' = [act EXCEPT !["prover"] =
                    With("bundle", act["prover"].man, Artifacts, [f \in Artifacts |-> None],
                         [wasm |-> act["prover"].got, zkey |-> disk["zkey"]])]
     ELSE Fails("prover")
  /\ UNCHANGED <<toolVars, envelope, signed>>

\* computeArtifactBundleHash() after the proof, then createEnvelope() with the
\* vkHash of the manifest that was loaded.
BundleFile ==
  LET me == act["prover"] IN
  /\ me.pc = "bundle"
  /\ \E f \in Artifacts :
       /\ MayRead("prover", f)
       /\ LET got == [me.got EXCEPT ![f] = disk[f]] IN
          IF f = "vk" /\ ~Whole(f) THEN Fails("prover") /\ UNCHANGED envelope
          ELSE IF me.todo # {f}
          THEN /\ act' = [act EXCEPT !["prover"] =
                            With("bundle", me.man, me.todo \ {f}, got, me.env)]
               /\ UNCHANGED envelope
          ELSE /\ envelope' = Create([vkHash |-> me.man["vk"], artifactHash |-> got,
                                      proof |-> me.env])
               /\ act' = [act EXCEPT !["prover"] = With("done", None, {}, None, None)]
  /\ UNCHANGED <<toolVars, signed>>

\* signEnvelope(), by whoever holds a key; what zk prove wrote is signed once.
SignFile(k) ==
  /\ envelope # None /\ act["gate"].pc = "new"
  /\ \A j \in Keys : signed[j] = {}
  /\ envelope' = Sign(envelope, k)
  /\ signed' = [signed EXCEPT ![k] = @ \cup {envelope.parts}]
  /\ UNCHANGED <<toolVars, act>>

\* Later the file is edited by hand to carry the digests certified now, keeping
\* its signature or as an unsigned envelope.
EditFile(version) ==
  LET parts == [envelope.parts EXCEPT !.vkHash = disk["manifest"].of["vk"],
                                      !.artifactHash = disk["manifest"].of]
  IN
  /\ envelope # None /\ act["gate"].pc = "new" /\ Whole("manifest")
  /\ envelope.version = 2
  /\ \/ version = 1 /\ envelope' = Create(parts)
     \/ /\ version = 2
        /\ envelope' = [envelope EXCEPT !.parts = parts, !.proofHash = ProofHash(2, parts)]
  /\ UNCHANGED <<toolVars, signed, act>>

-----------------------------------------------------------------------------
\* runGate(): checks envelope-shape, vk-certified and artifact-bound.
VkCertified(e, man) == e.parts.vkHash = man["vk"]

\* artifactHashFromManifest(): the bundle digest is the four digests.
ArtifactHash(man) == man

BoundUnchecked(e, man) ==    \* mutant: artifact-bound is left out
  Valid(e) /\ VkCertified(e, man)

Bound(e, man) ==
  Valid(e) /\ VkCertified(e, man) /\ e.parts.artifactHash = ArtifactHash(man)

GateManifest ==
  /\ act["gate"].pc = "new" /\ envelope # None
  /\ IF ~Whole("manifest") \/ ~Bound(envelope, disk["manifest"].of) THEN Fails("gate")
     ELSE \E dir \in BOOLEAN :    \* whether opts.artifactDir is given
            act' = [act EXCEPT !["gate"] =
                      With(IF dir THEN "dir" ELSE "load", disk["manifest"].of, Artifacts,
                           None, envelope)]
  /\ UNCHANGED <<toolVars, envelope, signed>>

\* readDirArtifacts() hashes the files of a directory, and parses its vk ...
DirArtifact(f, digest) == disk[f] = digest /\ (f = "vk" => Whole(f))

\* ... for artifact-disk, over the directory the circuit is built in.
GateDir ==
  /\ act["gate"].pc = "dir"
  /\ \E f \in act["gate"].todo :
       IF DirArtifact(f, act["gate"].man[f])
       THEN act' = At("gate", IF act["gate"].todo = {f} THEN "load" ELSE "dir",
                      act["gate"].man, act["gate"].todo \ {f})
       ELSE Fails("gate")
  /\ UNCHANGED <<toolVars, envelope, signed>>

\* groth16.verify() with the vk file as it is now.
Verifies(vk, proof) == vk.zkey = proof.zkey /\ proof.wasm.src = proof.zkey.r1cs.src

\* proof-valid and signature
GateJudge ==
  LET e == act["gate"].env IN
  /\ act["gate"].pc = "loaded"
  /\ IF /\ Whole("vk") /\ Verifies(disk["vk"], e.parts.proof)
        /\ SignatureOk(e, TrustedKey, RequireSigned)
     THEN act' = At("gate", "verified", None, {})
     ELSE Fails("gate")
  /\ UNCHANGED <<toolVars, envelope, signed>>

CircuitLoad(p) == LoadManifest(p) \/ HashFile(p) \/ ReloadManifest(p)

GateNext ==
  \/ ToolNext /\ UNCHANGED <<envelope, signed, act>>
  \/ \E p \in Actors : CircuitLoad(p)
  \/ UseWasm \/ UseZkey \/ BundleFile
  \/ \E k \in Keys : SignFile(k)
  \/ \E version \in 1 .. 2 : EditFile(version)
  \/ GateManifest \/ GateDir \/ GateJudge

GateSpec == GateInit /\ [][GateNext]_gateVars

-----------------------------------------------------------------------------
Verified == act["gate"].pc = "verified"

\* Though artifacts are checked first and read again later, by a prover and a
\* gate that lock nothing, a signed envelope the gate passes was proved with the
\* very zkey its artifactHash names, its vkHash is the vk of that zkey, and both
\* were made from the r1cs named, which the proof's wasm shares its source with.
PassedEnvelopeIsBound ==
  Verified /\ RequireSigned =>
    LET e == act["gate"].env.parts
        made == e.artifactHash
    IN
    /\ e.proof.zkey = made["zkey"] /\ made["zkey"].r1cs = made["r1cs"]
    /\ e.vkHash = made["vk"] /\ made["vk"].zkey = made["zkey"]
    /\ {e.proof.wasm.src, made["wasm"].src} = {made["r1cs"].src}

\* What passes is what the holder of the trusted key signed: editing the file,
\* dropping its signature or signing with another key never passes.
PassedWasSigned ==
  Verified /\ RequireSigned => act["gate"].env.parts \in signed[TrustedKey]
===============================================================================
