------------------------------ MODULE Toolchain ------------------------------
(***************************************************************************)
(* The build directory of packages/circuit-lib for one circuit and the     *)
(* scripts that write it: build-circuits, build-ptau and keygen of         *)
(* circuit-lib/scripts, and generateDevKeys() of engine/src/keys.ts.  They *)
(* run one at a time and may stop anywhere; readers run beside them.       *)
(*                                                                         *)
(* A file is what it was made from, and a digest is the content it is of:  *)
(* compiling, the power-16 ptau and groth16 setup are deterministic.  A    *)
(* file that is being written, or was when its script stopped, is not      *)
(* whole.                                                                  *)
(***************************************************************************)
EXTENDS Integers, Sequences

CONSTANTS
  None,
  MaxSource,    \* bound: versions of the circuit's source; it only moves forwards
  MaxStops      \* bound: scripts that stop halfway

ASSUME ToolchainAssumption == MaxSource \in Nat \ {0} /\ MaxStops \in Nat

VARIABLES
  source,       \* the .circom file
  disk,         \* the build directory: None where a file is missing
  script,       \* name, at: the running script and which of its files it writes;
                \* open: whether that write has begun
  stops         \* scripts that stopped halfway

toolVars == <<source, disk, script, stops>>

Artifacts == {"r1cs", "wasm", "zkey", "vk"}
Files     == Artifacts \cup {"manifest", "ptau", "sums"}

Idle == [name |-> "none", at |-> 0, open |-> FALSE]

-----------------------------------------------------------------------------
\* What the tools write; a torn file has the provenance of the whole one.
Compiled(whole) == [src |-> source, whole |-> whole]
Prepared(whole) == [whole |-> whole]
Summed(whole)   == [of |-> disk["ptau"], whole |-> whole]
SetUp(whole)    == [r1cs |-> disk["r1cs"], ptau |-> disk["ptau"], whole |-> whole]
Exported(whole) == [zkey |-> disk["zkey"], whole |-> whole]

\* loadArtifactHashes(): each artifact's digest is the artifact.
Digests == [a \in Artifacts |-> disk[a]]

Certificate(whole) == [of |-> Digests, whole |-> whole]

Written(f, whole) ==
  CASE f \in {"r1cs", "wasm"} -> Compiled(whole)
    [] f = "ptau"     -> Prepared(whole)
    [] f = "sums"     -> Summed(whole)
    [] f = "zkey"     -> SetUp(whole)
    [] f = "vk"       -> Exported(whole)
    [] f = "manifest" -> Certificate(whole)

\* The committed build directory of a fresh clone: all but the ptau.
ToolInit ==
  LET good == [src |-> 1, whole |-> TRUE]
      ptau == [whole |-> TRUE]
      zkey == [r1cs |-> good, ptau |-> ptau, whole |-> TRUE]
      vk   == [zkey |-> zkey, whole |-> TRUE]
      made == [a \in Artifacts |-> CASE a = "zkey" -> zkey [] a = "vk" -> vk [] OTHER -> good]
  IN
  /\ source = 1 /\ stops = 0
  /\ script = Idle
  /\ disk = [f \in Files |-> CASE f \in Artifacts -> made[f]
                               [] f = "manifest" -> [of |-> made, whole |-> TRUE]
                               [] f = "ptau" -> None
                               [] f = "sums" -> [of |-> ptau, whole |-> TRUE]]

\* skipIfFresh(); assertPtauFresh() and verifyDevPtau() test the same.
PtauFresh == disk["ptau"] # None /\ disk["sums"] = [of |-> disk["ptau"], whole |-> TRUE]

\* artifactsExist()
ArtifactsExist == \A a \in Artifacts : disk[a] # None

\* checkArtifacts(), with no script running meanwhile
Certified ==
  /\ ArtifactsExist /\ disk["vk"].whole
  /\ disk["manifest"] # None /\ disk["manifest"].whole
  /\ Digests = disk["manifest"].of

KeygenReady == PtauFresh /\ disk["r1cs"] # None /\ disk["wasm"] # None

\* generateDevKeys() takes a circuit that was loaded.
DevKeysReady == PtauFresh /\ Certified

\* The files each script writes, in order.
PlanCached(name) ==    \* mutant: keygen keeps a zkey that is there
  CASE name = "compile" -> <<"r1cs", "wasm">>
    [] name = "ptau"    -> <<"ptau", "sums">>
    [] name = "keygen"  -> <<"vk", "manifest">>
    [] name = "devKeys" -> <<"zkey", "vk">>

Plan(name) ==
  CASE name = "compile" -> <<"r1cs", "wasm">>
    [] name = "ptau"    -> <<"ptau", "sums">>
    [] name = "keygen"  -> <<"zkey", "vk", "manifest">>
    [] name = "devKeys" -> <<"zkey", "vk">>

\* What a script checks before it writes.
Ready(name) ==
  CASE name = "compile" -> TRUE
    [] name = "ptau"    -> ~PtauFresh
    [] name = "keygen"  -> KeygenReady
    [] name = "devKeys" -> DevKeysReady

Edit ==
  /\ script = Idle
  /\ source < MaxSource
  /\ source' = source + 1
  /\ UNCHANGED <<disk, script, stops>>

Start(name) ==
  /\ script = Idle
  /\ Ready(name)
  /\ script' = [name |-> name, at |-> 1, open |-> FALSE]
  /\ UNCHANGED <<source, disk, stops>>

BeginWrite ==
  /\ script # Idle /\ ~script.open
  /\ LET f == Plan(script.name)[script.at] IN
       disk' = [disk EXCEPT ![f] = Written(f, FALSE)]
  /\ script' = [script EXCEPT !.open = TRUE]
  /\ UNCHANGED <<source, stops>>

\* Setup does not get through a torn r1cs; keygen does not look into the wasm.
EndWrite ==
  LET plan == Plan(script.name)
      f    == plan[script.at]
  IN
  /\ script # Idle /\ script.open
  /\ f = "zkey" => disk["r1cs"].whole
  /\ disk' = [disk EXCEPT ![f] = Written(f, TRUE)]
  /\ script' = IF script.at = Len(plan) THEN Idle
               ELSE [script EXCEPT !.at = script.at + 1, !.open = FALSE]
  /\ UNCHANGED <<source, stops>>

\* The script is stopped, or setup fails on a torn r1cs.
ScriptStops ==
  /\ script # Idle
  /\ \/ stops < MaxStops /\ stops' = stops + 1
     \/ /\ script.open /\ Plan(script.name)[script.at] = "zkey" /\ ~disk["r1cs"].whole
        /\ UNCHANGED stops
  /\ script' = Idle
  /\ UNCHANGED <<source, disk>>

ToolNext ==
  \/ Edit \/ BeginWrite \/ EndWrite \/ ScriptStops
  \/ \E name \in {"compile", "ptau", "keygen", "devKeys"} : Start(name)

ToolSpec == ToolInit /\ [][ToolNext]_toolVars

-----------------------------------------------------------------------------
\* However builds, key generations and their failures follow one another, a
\* build directory that certification accepts holds a whole zkey set up from
\* the r1cs beside it with a whole ptau, and the vk exported from that zkey.
CertifiedKeysMatch ==
  Certified =>
    /\ disk["r1cs"].whole /\ disk["zkey"].whole /\ disk["zkey"].ptau.whole
    /\ disk["zkey"].r1cs = disk["r1cs"]
    /\ disk["vk"].zkey = disk["zkey"]
=============================================================================
