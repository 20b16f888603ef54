----------------------------- MODULE Gate_proofs -----------------------------
(***************************************************************************)
(* Proofs about the build directory and the gate that reads it, for any    *)
(* number of source versions, scripts, interruptions and keys.             *)
(***************************************************************************)
EXTENDS Gate, TLAPS

Names == {"compile", "ptau", "keygen", "devKeys"}

ScriptTypeOK ==
  /\ disk \in [Files -> {disk[f] : f \in Files}]
  /\ \/ script = Idle
     \/ \E name \in Names : \E at \in 1 .. Len(Plan(name)), open \in BOOLEAN :
          script = [name |-> name, at |-> at, open |-> open]

\* The ptau that was written to its end.
GoodPtau == [whole |-> TRUE]

\* A zkey that setup finished from the r1cs and a finished ptau.
SetUpFrom(r1cs, zkey) ==
  /\ r1cs.whole = TRUE /\ zkey.whole = TRUE /\ zkey.ptau = GoodPtau
  /\ zkey.r1cs = r1cs

\* The checksum of a ptau is written only when the ptau is finished.
SumsOfWhole ==
  /\ disk["sums"].whole = TRUE => disk["sums"].of = GoodPtau
  /\ script.name = "ptau" /\ script.at = 2 => disk["ptau"] = GoodPtau

\* How far keygen has come; nothing else writes while it runs.
KeygenSoFar ==
  /\ script.name \in {"keygen", "devKeys"} => disk["ptau"] = GoodPtau
  /\ script.name = "keygen" =>
    /\ script.at >= 2 => SetUpFrom(disk["r1cs"], disk["zkey"])
    /\ script.at = 3 => disk["vk"].zkey = disk["zkey"]

\* What a finished manifest certifies.
ManifestSound ==
  LET of == disk["manifest"].of IN
  disk["manifest"].whole = TRUE =>
    /\ SetUpFrom(of["r1cs"], of["zkey"])
    /\ of["vk"].zkey = of["zkey"]

ToolInv == ScriptTypeOK /\ SumsOfWhole /\ KeygenSoFar /\ ManifestSound

-----------------------------------------------------------------------------
LEMMA Plans ==
  /\ Plan("compile") = <<"r1cs", "wasm">>
  /\ Plan("ptau") = <<"ptau", "sums">>
  /\ Plan("keygen") = <<"zkey", "vk", "manifest">>
  /\ Plan("devKeys") = <<"zkey", "vk">>
<1> QED
  BY DEF Plan

\* The file a running script is at.
LEMMA PlanFile ==
  ASSUME ScriptTypeOK, script # Idle
  PROVE  /\ script.name \in Names
         /\ script.at \in 1 .. Len(Plan(script.name))
         /\ script.open \in BOOLEAN
         /\ script = [name |-> script.name, at |-> script.at, open |-> script.open]
         /\ Plan(script.name)[script.at] \in Files
         /\ Plan(script.name)[script.at] \in {"r1cs", "wasm"} <=> script.name = "compile"
         /\ Plan(script.name)[script.at] = "ptau" <=> script.name = "ptau" /\ script.at = 1
         /\ Plan(script.name)[script.at] = "sums" <=> script.name = "ptau" /\ script.at = 2
         /\ script.name = "keygen" =>
              /\ script.at = 1 => Plan(script.name)[script.at] = "zkey"
              /\ script.at = 2 => Plan(script.name)[script.at] = "vk"
              /\ script.at = 3 => Plan(script.name)[script.at] = "manifest"
              /\ script.at \in 1 .. 3
         /\ Plan(script.name)[script.at] = "manifest" => script.name = "keygen" /\ script.at = 3
         /\ Plan(script.name)[script.at] = "zkey" => script.name \in {"keygen", "devKeys"}
         /\ script.name = "compile" =>
              \/ script.at = 1 /\ Plan(script.name)[script.at] = "r1cs"
              \/ script.at = 2 /\ Plan(script.name)[script.at] = "wasm"
<1>1. PICK name \in Names : \E at \in 1 .. Len(Plan(name)), open \in BOOLEAN :
        script = [name |-> name, at |-> at, open |-> open]
  BY DEF ScriptTypeOK
<1>2. PICK at \in 1 .. Len(Plan(name)), open \in BOOLEAN :
        script = [name |-> name, at |-> at, open |-> open]
  BY <1>1
<1>3. script.name = name /\ script.at = at /\ script.open = open
  BY <1>2
<1>4. CASE name = "compile"
  <2>1. Plan(name) = <<"r1cs", "wasm">> /\ at \in 1 .. 2
    BY <1>4, Plans
  <2> QED
    BY <1>2, <1>3, <1>4, <2>1 DEF Names, Files, Artifacts
<1>5. CASE name = "ptau"
  <2>1. Plan(name) = <<"ptau", "sums">> /\ at \in 1 .. 2
    BY <1>5, Plans
  <2> QED
    BY <1>2, <1>3, <1>5, <2>1 DEF Names, Files, Artifacts
<1>6. CASE name = "keygen"
  <2>1. Plan(name) = <<"zkey", "vk", "manifest">> /\ at \in 1 .. 3
    BY <1>6, Plans
  <2> QED
    BY <1>2, <1>3, <1>6, <2>1 DEF Names, Files, Artifacts
<1>7. CASE name = "devKeys"
  <2>1. Plan(name) = <<"zkey", "vk">> /\ at \in 1 .. 2
    BY <1>7, Plans
  <2> QED
    BY <1>2, <1>3, <1>7, <2>1 DEF Names, Files, Artifacts
<1> QED
  BY <1>1, <1>4, <1>5, <1>6, <1>7 DEF Names

LEMMA InitTool == ToolInit => ToolInv
<1> SUFFICES ASSUME ToolInit PROVE ToolInv
  OBVIOUS
<1>1. ScriptTypeOK
  <2>1. disk \in [Files -> {disk[f] : f \in Files}]
    BY DEF ToolInit
  <2> QED
    BY <2>1 DEF ToolInit, ScriptTypeOK
<1>2. disk["sums"].whole = TRUE /\ disk["sums"].of = GoodPtau
  BY DEF ToolInit, Files, Artifacts, GoodPtau
<1>3. script.name = "none"
  BY DEF ToolInit, Idle
<1>4. ManifestSound
  BY DEF ToolInit, ManifestSound, SetUpFrom, GoodPtau, Files, Artifacts
<1> QED
  BY <1>1, <1>2, <1>3, <1>4 DEF ToolInv, SumsOfWhole, KeygenSoFar

\* Writing one file leaves the others.
LEMMA WriteOne ==
  ASSUME ScriptTypeOK, NEW f \in Files, NEW content,
         disk' = [disk EXCEPT ![f] = content]
  PROVE  /\ disk' \in [Files -> {disk'[g] : g \in Files}]
         /\ disk'[f] = content
         /\ \A g \in Files : g # f => disk'[g] = disk[g]
<1> QED
  BY DEF ScriptTypeOK

\* A script that runs goes from one file to the next; it is done after the last.
LEMMA ScriptMoves ==
  ASSUME ScriptTypeOK, script # Idle,
         \/ script' = [script EXCEPT !.open = TRUE]
         \/ /\ script.at # Len(Plan(script.name))
            /\ script' = [script EXCEPT !.at = script.at + 1, !.open = FALSE]
  PROVE  /\ script'.name = script.name /\ script'.name \in Names
         /\ script'.at \in 1 .. Len(Plan(script'.name)) /\ script'.open \in BOOLEAN
         /\ script' = [name |-> script'.name, at |-> script'.at, open |-> script'.open]
         /\ script'.at = script.at \/ script'.at = script.at + 1
<1> USE PlanFile
<1>0. Len(Plan(script.name)) \in Nat /\ script.at \in 1 .. Len(Plan(script.name))
  BY Plans DEF Names
<1>1. CASE script' = [script EXCEPT !.open = TRUE]
  BY <1>0, <1>1
<1>2. CASE /\ script.at # Len(Plan(script.name))
           /\ script' = [script EXCEPT !.at = script.at + 1, !.open = FALSE]
  <2> DEFINE n == script.at + 1
  <2>1. n \in 1 .. Len(Plan(script.name))
    BY <1>0, <1>2
  <2> HIDE DEF n
  <2>2. script' = [script EXCEPT !.at = n, !.open = FALSE]
    BY <1>2 DEF n
  <2>3. script'.name = script.name /\ script'.at = n /\ script'.open = FALSE
    BY <2>2
  <2>4. script' = [name |-> script'.name, at |-> script'.at, open |-> script'.open]
    BY <2>2
  <2> QED
    BY <2>1, <2>3, <2>4 DEF n
<1> QED
  BY <1>1, <1>2

\* The write of one file, by a script at that file: what is certified stays so.
LEMMA WriteSound ==
  ASSUME ToolInv, script # Idle, NEW whole \in BOOLEAN,
         disk' = [disk EXCEPT ![Plan(script.name)[script.at]]
                    = Written(Plan(script.name)[script.at], whole)],
         whole /\ Plan(script.name)[script.at] = "zkey" => disk["r1cs"].whole = TRUE
  PROVE  /\ disk' \in [Files -> {disk'[g] : g \in Files}]
         /\ disk'["sums"].whole = TRUE => disk'["sums"].of = GoodPtau
         /\ whole /\ script.name = "ptau" /\ script.at = 1 => disk'["ptau"] = GoodPtau
         /\ script.name = "ptau" /\ script.at = 2 => disk'["ptau"] = GoodPtau
         /\ script.name \in {"keygen", "devKeys"} => disk'["ptau"] = GoodPtau
         /\ script.name = "keygen" =>
              /\ whole \/ script.at > 1 => SetUpFrom(disk'["r1cs"], disk'["zkey"])
              /\ (whole /\ script.at = 2) \/ script.at = 3 => disk'["vk"].zkey = disk'["zkey"]
         /\ ManifestSound'
<1> DEFINE f == Plan(script.name)[script.at]
<1> USE DEF ToolInv
<1>0. ScriptTypeOK
  OBVIOUS
<1>1. /\ f \in Files /\ disk' \in [Files -> {disk'[g] : g \in Files}]
      /\ disk'[f] = Written(f, whole)
      /\ \A g \in Files : g # f => disk'[g] = disk[g]
  BY <1>0, PlanFile, WriteOne
<1>2. {"r1cs", "wasm", "zkey", "vk", "manifest", "ptau", "sums"} \subseteq Files
  BY DEF Files, Artifacts
<1>3. disk'["sums"].whole = TRUE => disk'["sums"].of = GoodPtau
  <2>1. CASE f = "sums"
    BY <1>0, <1>1, <2>1, PlanFile DEF SumsOfWhole, Written, Summed
  <2> QED
    BY <1>1, <1>2, <2>1 DEF SumsOfWhole
<1>4. /\ whole /\ script.name = "ptau" /\ script.at = 1 => disk'["ptau"] = GoodPtau
      /\ script.name = "ptau" /\ script.at = 2 => disk'["ptau"] = GoodPtau
  <2>1. CASE script.name = "ptau" /\ script.at = 1
    <3>1. f = "ptau" /\ disk'["ptau"] = [whole |-> whole]
      BY <1>0, <1>1, <2>1, PlanFile DEF Written, Prepared
    <3>2. whole => disk'["ptau"] = GoodPtau
      <4>1. CASE whole = TRUE
        BY <3>1, <4>1 DEF GoodPtau
      <4> QED
        BY <4>1
    <3> QED
      BY <2>1, <3>2
  <2>2. CASE script.name = "ptau" /\ script.at = 2
    <3>1. f = "sums"
      BY <1>0, <2>2, PlanFile
    <3> QED
      BY <1>1, <1>2, <2>2, <3>1 DEF SumsOfWhole
  <2> QED
    BY <2>1, <2>2
<1>5. ASSUME script.name = "keygen"
      PROVE  /\ disk'["ptau"] = GoodPtau
             /\ whole \/ script.at > 1 => SetUpFrom(disk'["r1cs"], disk'["zkey"])
             /\ (whole /\ script.at = 2) \/ script.at = 3 => disk'["vk"].zkey = disk'["zkey"]
  <2>1. script.at \in {1, 2, 3} /\ disk["ptau"] = GoodPtau
    BY <1>0, <1>5, PlanFile DEF KeygenSoFar
  <2>2. CASE script.at = 1
    <3>1. f = "zkey" /\ disk'["zkey"] = SetUp(whole) /\ disk'["ptau"] = disk["ptau"] /\ disk'["r1cs"] = disk["r1cs"]
      BY <1>0, <1>1, <1>2, <1>5, <2>2, PlanFile DEF Written
    <3> QED
      BY <2>1, <2>2, <3>1 DEF SetUp, SetUpFrom
  <2>3. CASE script.at = 2
    <3>1. f = "vk" /\ disk'["vk"] = Exported(whole)
          /\ disk'["zkey"] = disk["zkey"] /\ disk'["ptau"] = disk["ptau"] /\ disk'["r1cs"] = disk["r1cs"]
      BY <1>0, <1>1, <1>2, <1>5, <2>3, PlanFile DEF Written
    <3> QED
      BY <1>5, <2>1, <2>3, <3>1 DEF Exported, KeygenSoFar
  <2>4. CASE script.at = 3
    <3>1. f = "manifest" /\ disk'["vk"] = disk["vk"]
          /\ disk'["zkey"] = disk["zkey"] /\ disk'["ptau"] = disk["ptau"] /\ disk'["r1cs"] = disk["r1cs"]
      BY <1>0, <1>1, <1>2, <1>5, <2>4, PlanFile DEF Written
    <3> QED
      BY <1>5, <2>1, <2>4, <3>1 DEF KeygenSoFar
  <2> QED
    BY <2>1, <2>2, <2>3, <2>4
<1>7. ASSUME script.name = "devKeys" PROVE disk'["ptau"] = GoodPtau
  <2>1. f # "ptau" /\ disk["ptau"] = GoodPtau
    BY <1>0, <1>7, PlanFile DEF KeygenSoFar
  <2> QED
    BY <1>1, <1>2, <2>1
<1>6. ManifestSound'
  <2>1. CASE f = "manifest"
    <3>1. script.name = "keygen" /\ script.at = 3
      BY <1>0, <2>1, PlanFile
    <3>2. SetUpFrom(disk["r1cs"], disk["zkey"]) /\ disk["vk"].zkey = disk["zkey"]
      BY <3>1 DEF KeygenSoFar
    <3>3. disk'["manifest"].of = Digests
      BY <1>1, <2>1 DEF Written, Certificate
    <3>4. Digests["r1cs"] = disk["r1cs"] /\ Digests["zkey"] = disk["zkey"] /\ Digests["vk"] = disk["vk"]
      BY DEF Digests, Artifacts
    <3> QED
      BY <3>2, <3>3, <3>4 DEF ManifestSound
  <2>2. CASE f # "manifest"
    BY <1>1, <1>2, <2>2 DEF ManifestSound
  <2> QED
    BY <2>1, <2>2
<1> QED
  BY <1>1, <1>3, <1>4, <1>5, <1>6, <1>7

LEMMA NextTool == ToolInv /\ [ToolNext]_toolVars => ToolInv'
<1> SUFFICES ASSUME ToolInv, [ToolNext]_toolVars PROVE ToolInv'
  OBVIOUS
<1> USE DEF ToolInv
<1>1. ASSUME UNCHANGED disk, script' = Idle PROVE ToolInv'
  BY <1>1 DEF ScriptTypeOK, SumsOfWhole, KeygenSoFar, ManifestSound, Idle
<1>2. CASE UNCHANGED toolVars \/ Edit
  BY <1>2
  DEF toolVars, Edit, ScriptTypeOK, SumsOfWhole, KeygenSoFar, ManifestSound
<1>3. CASE ScriptStops
  BY <1>1, <1>3 DEF ScriptStops
<1>4. ASSUME NEW name \in Names, Start(name) PROVE ToolInv'
  <2>1. UNCHANGED disk /\ script' = [name |-> name, at |-> 1, open |-> FALSE]
    BY <1>4 DEF Start
  <2>2. 1 \in 1 .. Len(Plan(name))
    BY Plans DEF Names
  <2>3. ScriptTypeOK'
    BY <2>1, <2>2 DEF ScriptTypeOK
  <2>4. name \in {"keygen", "devKeys"} => disk["ptau"] = GoodPtau
    <3>1. name \in {"keygen", "devKeys"} =>
            disk["sums"] = [of |-> disk["ptau"], whole |-> TRUE]
      BY <1>4 DEF Start, Ready, KeygenReady, DevKeysReady, PtauFresh
    <3>2. disk["sums"] = [of |-> disk["ptau"], whole |-> TRUE] =>
            disk["sums"].whole = TRUE /\ disk["sums"].of = disk["ptau"]
      OBVIOUS
    <3> QED
      BY <3>1, <3>2 DEF SumsOfWhole
  <2> QED
    BY <2>1, <2>3, <2>4 DEF SumsOfWhole, KeygenSoFar, ManifestSound
<1>5. CASE BeginWrite
  <2>1. /\ script # Idle /\ script' = [script EXCEPT !.open = TRUE]
        /\ disk' = [disk EXCEPT ![Plan(script.name)[script.at]]
                      = Written(Plan(script.name)[script.at], FALSE)]
    BY <1>5 DEF BeginWrite
  <2>2. /\ script'.name = script.name /\ script'.name \in Names /\ script'.at = script.at
        /\ script'.at \in 1 .. Len(Plan(script'.name)) /\ script'.open \in BOOLEAN
        /\ script' = [name |-> script'.name, at |-> script'.at, open |-> script'.open]
    BY <2>1, ScriptMoves, PlanFile
  <2>3. /\ disk' \in [Files -> {disk'[g] : g \in Files}]
        /\ disk'["sums"].whole = TRUE => disk'["sums"].of = GoodPtau
        /\ script.name = "ptau" /\ script.at = 2 => disk'["ptau"] = GoodPtau
        /\ script.name \in {"keygen", "devKeys"} => disk'["ptau"] = GoodPtau
        /\ script.name = "keygen" =>
              /\ script.at > 1 => SetUpFrom(disk'["r1cs"], disk'["zkey"])
              /\ script.at = 3 => disk'["vk"].zkey = disk'["zkey"]
        /\ ManifestSound'
    BY <2>1, WriteSound
  <2>4. ScriptTypeOK'
    BY <2>2, <2>3 DEF ScriptTypeOK
  <2>5. script.name = "keygen" /\ script.at >= 2 => script.at > 1
    BY <2>1, PlanFile
  <2> QED
    BY <2>2, <2>3, <2>4, <2>5 DEF SumsOfWhole, KeygenSoFar, SetUpFrom
<1>6. CASE EndWrite
  <2>1. /\ script # Idle
        /\ disk' = [disk EXCEPT ![Plan(script.name)[script.at]]
                      = Written(Plan(script.name)[script.at], TRUE)]
        /\ Plan(script.name)[script.at] = "zkey" => disk["r1cs"].whole = TRUE
    BY <1>6 DEF EndWrite
  <2>2. /\ disk' \in [Files -> {disk'[g] : g \in Files}]
        /\ disk'["sums"].whole = TRUE => disk'["sums"].of = GoodPtau
        /\ script.name = "ptau" => disk'["ptau"] = GoodPtau
        /\ script.name \in {"keygen", "devKeys"} => disk'["ptau"] = GoodPtau
        /\ script.name = "keygen" =>
              /\ SetUpFrom(disk'["r1cs"], disk'["zkey"])
              /\ script.at \in {2, 3} => disk'["vk"].zkey = disk'["zkey"]
        /\ ManifestSound'
    <3>1. script.name = "ptau" => script.at \in {1, 2}
      BY <2>1, PlanFile, Plans
    <3> QED
      BY <2>1, <3>1, WriteSound
  <2>3. CASE script' = Idle
    BY <2>2, <2>3 DEF ScriptTypeOK, SumsOfWhole, KeygenSoFar, Idle
  <2>4. CASE /\ script.at # Len(Plan(script.name))
             /\ script' = [script EXCEPT !.at = script.at + 1, !.open = FALSE]
    <3>1. /\ script'.name = script.name /\ script'.name \in Names /\ script'.at = script.at + 1
          /\ script'.at \in 1 .. Len(Plan(script'.name)) /\ script'.open \in BOOLEAN
          /\ script' = [name |-> script'.name, at |-> script'.at, open |-> script'.open]
      BY <2>1, <2>4, ScriptMoves, PlanFile
    <3>2. ScriptTypeOK'
      BY <2>2, <3>1 DEF ScriptTypeOK
    <3>3. script.name = "keygen" /\ script'.at = 3 => script.at \in {2, 3}
      BY <2>1, <3>1, PlanFile
    <3> QED
      BY <2>2, <3>1, <3>2, <3>3 DEF SumsOfWhole, KeygenSoFar, SetUpFrom
  <2> QED
    BY <1>6, <2>3, <2>4 DEF EndWrite
<1> QED
  BY <1>2, <1>3, <1>4, <1>5, <1>6 DEF ToolNext, Names

-----------------------------------------------------------------------------
\* Whatever scripts ran, in any order, and wherever they stopped: a build
\* directory that certification accepts holds a finished zkey set up from the
\* r1cs beside it and a finished ptau, and the vk of that zkey.
THEOREM CertifiedKeysMatchHolds == ToolSpec => []CertifiedKeysMatch
<1>1. ToolInv => CertifiedKeysMatch
  <2> SUFFICES ASSUME ToolInv, Certified
               PROVE  /\ disk["r1cs"].whole /\ disk["zkey"].whole /\ disk["zkey"].ptau.whole
                      /\ disk["zkey"].r1cs = disk["r1cs"]
                      /\ disk["vk"].zkey = disk["zkey"]
    BY DEF CertifiedKeysMatch
  <2>1. disk["manifest"].of = Digests /\ disk["manifest"].whole = TRUE
    BY DEF Certified
  <2>2. Digests["r1cs"] = disk["r1cs"] /\ Digests["zkey"] = disk["zkey"] /\ Digests["vk"] = disk["vk"]
    BY DEF Digests, Artifacts
  <2> QED
    BY <2>1, <2>2 DEF ToolInv, ManifestSound, SetUpFrom, GoodPtau
<1> QED
  BY <1>1, InitTool, NextTool, PTL DEF ToolSpec

-----------------------------------------------------------------------------
\* The source that a file comes from.
Age(f) == CASE f = "vk"   -> disk["vk"].zkey.r1cs.src
            [] f = "zkey" -> disk["zkey"].r1cs.src
            [] f = "r1cs" -> disk["r1cs"].src
            [] f = "wasm" -> disk["wasm"].src

\* A zkey that setup finished is told by its source.
IsZkey(zkey) ==
  zkey = [r1cs |-> [src |-> zkey.r1cs.src, whole |-> TRUE], ptau |-> GoodPtau, whole |-> TRUE]

\* Nothing in the directory is newer than what it is made from, nor the wasm
\* than the r1cs, which is compiled before it.
InOrder ==
  /\ source \in Nat
  /\ Age("vk") \in Nat /\ Age("zkey") \in Nat /\ Age("r1cs") \in Nat /\ Age("wasm") \in Nat
  /\ Age("vk") <= Age("zkey") /\ Age("zkey") <= Age("r1cs") /\ Age("r1cs") <= source
  /\ Age("wasm") <= Age("r1cs")
  /\ disk["r1cs"] = [src |-> disk["r1cs"].src, whole |-> disk["r1cs"].whole]
  /\ disk["zkey"].whole = TRUE => IsZkey(disk["zkey"])

\* Both files of a compilation are of one source.
CompileSoFar == script.name = "compile" /\ script.at = 2 => Age("r1cs") = source

\* The same order among the digests of a manifest.
OfInOrder(of) ==
  /\ of["zkey"].r1cs.src \in Nat /\ of["wasm"].src \in Nat /\ of["r1cs"].src \in Nat
  /\ of["wasm"].src <= of["r1cs"].src
  /\ of["zkey"].whole = TRUE => IsZkey(of["zkey"])

ManifestAge == disk["manifest"].of["zkey"].r1cs.src

ManifestInOrder == OfInOrder(disk["manifest"].of) /\ ManifestAge <= Age("zkey")

DiskInv == ToolInv /\ InOrder /\ CompileSoFar /\ ManifestInOrder

\* What a step of the scripts does to the ages: no file becomes older.
Onwards ==
  /\ Age("vk") <= Age("vk")' /\ Age("zkey") <= Age("zkey")'
  /\ Age("r1cs") <= Age("r1cs")' /\ Age("wasm") <= Age("wasm")'
  /\ ManifestAge <= ManifestAge'

LEMMA Ages ==
  /\ Age("vk") = disk["vk"].zkey.r1cs.src /\ Age("zkey") = disk["zkey"].r1cs.src
  /\ Age("r1cs") = disk["r1cs"].src /\ Age("wasm") = disk["wasm"].src
  /\ Age("vk")' = disk'["vk"].zkey.r1cs.src /\ Age("zkey")' = disk'["zkey"].r1cs.src
  /\ Age("r1cs")' = disk'["r1cs"].src /\ Age("wasm")' = disk'["wasm"].src
<1> QED
  BY DEF Age

LEMMA InitDisk == ToolInit => DiskInv
<1> SUFFICES ASSUME ToolInit PROVE InOrder /\ ManifestInOrder
  BY InitTool DEF DiskInv, ToolInit, Idle, CompileSoFar
<1> DEFINE good == [src |-> 1, whole |-> TRUE]
           zkey == [r1cs |-> good, ptau |-> GoodPtau, whole |-> TRUE]
<1>1. /\ source = 1 /\ disk["r1cs"] = good /\ disk["wasm"] = good
      /\ disk["zkey"] = zkey /\ disk["vk"].zkey = zkey
      /\ disk["manifest"].of["zkey"] = zkey
      /\ disk["manifest"].of["wasm"] = good /\ disk["manifest"].of["r1cs"] = good
  BY DEF ToolInit, GoodPtau, Files, Artifacts
<1>2. good.src = 1 /\ good.whole = TRUE /\ zkey.r1cs = good /\ IsZkey(zkey)
  BY DEF IsZkey
<1> HIDE DEF good, zkey
<1>3. InOrder
  <2>1. \A f \in Artifacts : Age(f) = 1
    BY <1>1, <1>2, Ages DEF Artifacts
  <2>2. disk["r1cs"] = [src |-> disk["r1cs"].src, whole |-> disk["r1cs"].whole]
    BY <1>1 DEF good
  <2> QED
    BY <1>1, <1>2, <2>1, <2>2 DEF InOrder, Artifacts
<1>4. ManifestInOrder
  BY <1>1, <1>2, Ages DEF ManifestInOrder, OfInOrder, ManifestAge
<1> QED
  BY <1>3, <1>4

\* A manifest that stays is no newer than a zkey that goes on.
LEMMA ManifestStays ==
  ASSUME ManifestInOrder, disk'["manifest"] = disk["manifest"],
         Age("zkey") \in Nat, Age("zkey")' \in Nat, Age("zkey") <= Age("zkey")'
  PROVE  ManifestInOrder' /\ ManifestAge <= ManifestAge'
<1>1. ManifestAge' = ManifestAge
  BY DEF ManifestAge
<1>2. ManifestAge \in Nat /\ ManifestAge <= Age("zkey")
  BY DEF ManifestInOrder, OfInOrder, ManifestAge
<1>3. OfInOrder(disk'["manifest"].of)
  BY Zenon DEF ManifestInOrder
<1>4. ManifestAge <= Age("zkey")' /\ ManifestAge <= ManifestAge
  BY <1>2
<1> QED
  BY <1>1, <1>3, <1>4 DEF ManifestInOrder

\* Writing a file takes it from the files it is made from, which are as new.
LEMMA WriteOnwards ==
  ASSUME DiskInv, script # Idle, NEW whole \in BOOLEAN, NEW f,
         f = Plan(script.name)[script.at],
         disk' = [disk EXCEPT ![f] = Written(f, whole)],
         whole /\ f = "zkey" => disk["r1cs"].whole = TRUE,
         source' = source
  PROVE  /\ InOrder' /\ ManifestInOrder' /\ Onwards
         /\ script.name = "compile" => Age("r1cs")' = source
<1> USE DEF DiskInv
<1>0. /\ f \in Files /\ disk'[f] = Written(f, whole)
      /\ \A g \in Files : g # f => disk'[g] = disk[g]
      /\ f = "zkey" => disk["ptau"] = GoodPtau
      /\ f = "wasm" => disk["r1cs"].src = source
      /\ script.name = "compile" => f \in {"r1cs", "wasm"}
  <2>1. ScriptTypeOK /\ f \in Files
    BY PlanFile DEF ToolInv
  <2>2. f = "zkey" => disk["ptau"] = GoodPtau
    BY <2>1, PlanFile DEF ToolInv, KeygenSoFar
  <2>3. f = "wasm" => disk["r1cs"].src = source
    BY <2>1, PlanFile, Ages DEF CompileSoFar
  <2>4. script.name = "compile" => f \in {"r1cs", "wasm"}
    BY <2>1, PlanFile
  <2> QED
    BY <2>1, <2>2, <2>3, <2>4, WriteOne
<1>1. {"r1cs", "wasm", "zkey", "vk", "manifest", "ptau", "sums"} = Files
  BY DEF Files, Artifacts
<1>2. CASE f \in {"ptau", "sums"}
  <2>1. /\ disk'["r1cs"] = disk["r1cs"] /\ disk'["wasm"] = disk["wasm"]
        /\ disk'["zkey"] = disk["zkey"] /\ disk'["vk"] = disk["vk"]
        /\ disk'["manifest"] = disk["manifest"]
    BY <1>0, <1>1, <1>2
  <2>2. InOrder'
    BY <2>1, Ages DEF InOrder, Artifacts
  <2>3. ManifestInOrder' /\ ManifestAge <= ManifestAge'
    BY <2>1, <2>2, Ages, ManifestStays DEF InOrder
  <2>4. Onwards
    BY <2>1, <2>3, Ages DEF Onwards, InOrder
  <2> QED
    BY <1>0, <1>2, <2>2, <2>3, <2>4
<1>3. CASE f \in {"r1cs", "wasm"}
  <2>1. disk'[f] = [src |-> source, whole |-> whole]
    BY <1>0, <1>3 DEF Written, Compiled
  <2>2. /\ disk'["zkey"] = disk["zkey"] /\ disk'["vk"] = disk["vk"]
        /\ disk'["manifest"] = disk["manifest"]
        /\ f = "wasm" => disk'["r1cs"] = disk["r1cs"]
        /\ f = "r1cs" => disk'["wasm"] = disk["wasm"]
    BY <1>0, <1>1, <1>3
  <2>3. CASE f = "r1cs"
    <3>1. /\ disk'["r1cs"].src = source /\ disk'["wasm"] = disk["wasm"]
          /\ disk'["r1cs"] = [src |-> disk'["r1cs"].src, whole |-> disk'["r1cs"].whole]
      BY <2>1, <2>2, <2>3
    <3>2. InOrder'
      BY <2>2, <3>1, Ages DEF InOrder, Artifacts
    <3>3. ManifestInOrder' /\ ManifestAge <= ManifestAge'
      BY <2>2, <3>2, Ages, ManifestStays DEF InOrder
    <3>4. Onwards
      BY <2>2, <3>1, <3>3, Ages DEF Onwards, InOrder
    <3> QED
      BY <3>1, <3>2, <3>3, <3>4, Ages
  <2>4. CASE f = "wasm"
    <3>1. disk'["wasm"].src = source /\ disk'["r1cs"] = disk["r1cs"] /\ disk["r1cs"].src = source
      BY <1>0, <2>1, <2>2, <2>4
    <3>2. InOrder'
      BY <2>2, <3>1, Ages DEF InOrder, Artifacts
    <3>3. ManifestInOrder' /\ ManifestAge <= ManifestAge'
      BY <2>2, <3>2, Ages, ManifestStays DEF InOrder
    <3>4. Onwards
      BY <2>2, <3>1, <3>3, Ages DEF Onwards, InOrder
    <3> QED
      BY <3>1, <3>2, <3>3, <3>4, Ages
  <2> QED
    BY <1>3, <2>3, <2>4
<1>4. CASE f = "zkey"
  <2>1. disk'["zkey"] = [r1cs |-> disk["r1cs"], ptau |-> GoodPtau, whole |-> whole]
    BY <1>0, <1>4 DEF Written, SetUp
  <2>2. /\ disk'["r1cs"] = disk["r1cs"] /\ disk'["wasm"] = disk["wasm"]
        /\ disk'["vk"] = disk["vk"] /\ disk'["manifest"] = disk["manifest"]
    BY <1>0, <1>1, <1>4
  <2>3. disk'["zkey"].whole = TRUE => IsZkey(disk'["zkey"])
    <3>1. CASE whole = TRUE
      <4>1. disk["r1cs"] = [src |-> disk["r1cs"].src, whole |-> TRUE]
        BY <1>4, <3>1 DEF InOrder
      <4>2. disk'["zkey"] = [r1cs |-> disk["r1cs"], ptau |-> GoodPtau, whole |-> TRUE]
        BY <2>1, <3>1, Zenon
      <4>3. disk'["zkey"].r1cs = disk["r1cs"]
        BY <4>2
      <4> QED
        BY <4>1, <4>2, <4>3, Zenon DEF IsZkey
    <3>2. CASE whole = FALSE
      BY <2>1, <3>2
    <3> QED
      BY <3>1, <3>2
  <2>4. InOrder'
    BY <2>1, <2>2, <2>3, Ages DEF InOrder, Artifacts
  <2>5. ManifestInOrder' /\ ManifestAge <= ManifestAge'
    BY <2>1, <2>2, <2>4, Ages, ManifestStays DEF InOrder
  <2>6. Onwards
    BY <2>1, <2>2, <2>5, Ages DEF Onwards, InOrder
  <2> QED
    BY <1>0, <1>4, <2>4, <2>5, <2>6
<1>5. CASE f = "vk"
  <2>1. disk'["vk"] = [zkey |-> disk["zkey"], whole |-> whole]
    BY <1>0, <1>5 DEF Written, Exported
  <2>2. /\ disk'["r1cs"] = disk["r1cs"] /\ disk'["wasm"] = disk["wasm"]
        /\ disk'["zkey"] = disk["zkey"] /\ disk'["manifest"] = disk["manifest"]
    BY <1>0, <1>1, <1>5
  <2>3. InOrder'
    BY <2>1, <2>2, Ages DEF InOrder, Artifacts
  <2>4. ManifestInOrder' /\ ManifestAge <= ManifestAge'
    BY <2>2, <2>3, Ages, ManifestStays DEF InOrder
  <2>5. Onwards
    BY <2>1, <2>2, <2>4, Ages DEF Onwards, InOrder
  <2> QED
    BY <1>0, <1>5, <2>3, <2>4, <2>5
<1>6. CASE f = "manifest"
  <2>1. disk'["manifest"].of = Digests
    BY <1>0, <1>6 DEF Written, Certificate
  <2>2. /\ Digests["r1cs"] = disk["r1cs"] /\ Digests["zkey"] = disk["zkey"]
        /\ Digests["wasm"] = disk["wasm"]
    BY DEF Digests, Artifacts
  <2>3. /\ disk'["r1cs"] = disk["r1cs"] /\ disk'["wasm"] = disk["wasm"]
        /\ disk'["zkey"] = disk["zkey"] /\ disk'["vk"] = disk["vk"]
    BY <1>0, <1>1, <1>6
  <2>4. InOrder'
    BY <2>1, <2>2, <2>3, Ages DEF InOrder, Artifacts
  <2>5. ManifestInOrder'
    <3>1. OfInOrder(Digests)
      BY <2>2 DEF OfInOrder, InOrder, Age
    <3>2. disk'["manifest"].of["zkey"].r1cs.src <= Age("zkey")'
      BY <2>1, <2>2, <2>3, Ages DEF InOrder
    <3> QED
      BY <2>1, <3>1, <3>2 DEF ManifestInOrder, ManifestAge
  <2>6. Onwards
    BY <2>1, <2>2, <2>3, Ages DEF Onwards, ManifestAge, InOrder, ManifestInOrder
  <2> QED
    BY <1>0, <1>6, <2>4, <2>5, <2>6
<1> QED
  BY <1>0, <1>1, <1>2, <1>3, <1>4, <1>5, <1>6

LEMMA NextDisk == DiskInv /\ [ToolNext]_toolVars => DiskInv' /\ Onwards
<1> SUFFICES ASSUME DiskInv, [ToolNext]_toolVars PROVE DiskInv' /\ Onwards
  OBVIOUS
<1>1. ToolInv'
  BY NextTool DEF DiskInv
<1>2. ASSUME UNCHANGED disk, source' \in Nat, source <= source'
      PROVE  InOrder' /\ ManifestInOrder' /\ Onwards
  BY <1>2, Ages DEF DiskInv, InOrder, ManifestInOrder, ManifestAge, OfInOrder, Onwards, Artifacts
<1>3. source \in Nat
  BY DEF DiskInv, InOrder
<1>4. CASE UNCHANGED toolVars
  BY <1>1, <1>2, <1>3, <1>4, Ages DEF toolVars, DiskInv, CompileSoFar
<1>5. CASE Edit
  BY <1>1, <1>2, <1>3, <1>5 DEF Edit, DiskInv, CompileSoFar, Idle
<1>6. CASE ScriptStops \/ \E name \in {"compile", "ptau", "keygen", "devKeys"} : Start(name)
  BY <1>1, <1>2, <1>3, <1>6 DEF ScriptStops, Start, DiskInv, CompileSoFar, Idle
<1>7. CASE BeginWrite
  <2> DEFINE f == Plan(script.name)[script.at]
  <2>1. script # Idle /\ source' = source /\ disk' = [disk EXCEPT ![f] = Written(f, FALSE)]
    BY <1>7 DEF BeginWrite
  <2> HIDE DEF f
  <2>2. f = Plan(script.name)[script.at]
    BY DEF f
  <2>3. script'.name = "compile" => script.name = "compile"
    BY <1>7, PlanFile DEF BeginWrite, DiskInv, ToolInv, Idle
  <2> QED
    BY <1>1, <2>1, <2>2, <2>3, WriteOnwards DEF DiskInv, CompileSoFar
<1>8. CASE EndWrite
  <2> DEFINE f == Plan(script.name)[script.at]
  <2>1. /\ script # Idle /\ source' = source /\ disk' = [disk EXCEPT ![f] = Written(f, TRUE)]
        /\ f = "zkey" => disk["r1cs"].whole = TRUE
    BY <1>8 DEF EndWrite
  <2> HIDE DEF f
  <2>2. f = Plan(script.name)[script.at]
    BY DEF f
  <2>3. script'.name = "compile" => script.name = "compile"
    BY <1>8, PlanFile DEF EndWrite, DiskInv, ToolInv, Idle
  <2> QED
    BY <1>1, <2>1, <2>2, <2>3, WriteOnwards DEF DiskInv, CompileSoFar
<1> QED
  BY <1>4, <1>5, <1>6, <1>7, <1>8 DEF ToolNext
-----------------------------------------------------------------------------
\* The records that the steps of the prover and the gate update.
ActTypeOK ==
  /\ act = [p \in Actors |-> act[p]]
  /\ \A p \in Actors :
       act[p] = [pc |-> act[p].pc, man |-> act[p].man, todo |-> act[p].todo,
                 got |-> act[p].got, env |-> act[p].env]
  /\ signed = [k \in Keys |-> signed[k]]

EnvelopeTypeOK(e) ==
  e = [version |-> e.version, parts |-> e.parts, proofHash |-> e.proofHash,
       signature |-> e.signature]

\* The signature of a version 2 envelope is one that was made.
WasMade(e) ==
  e.version = 2 =>
    \E k \in Keys : \E parts \in signed[k] :
      e.signature.value = <<k, <<2, parts, <<2, parts>>>>>>

\* The artifacts a proof names were read after those it was made with.
NotOlder(parts) ==
  LET made == parts.artifactHash IN
  /\ parts.proof.wasm.src \in Nat /\ made["wasm"].src \in Nat
  /\ parts.proof.zkey.r1cs.src \in Nat /\ made["zkey"].r1cs.src \in Nat
  /\ parts.proof.wasm.src <= made["wasm"].src
  /\ parts.proof.zkey.r1cs.src <= made["zkey"].r1cs.src
  /\ IsZkey(parts.proof.zkey)

\* What the prover holds was read from the directory, which only moves on.
ProverInv ==
  LET me == act["prover"] IN
  /\ me.pc = "prove" => me.got.src \in Nat /\ me.got.src <= Age("wasm")
  /\ me.pc = "bundle" =>
       /\ me.got = [f \in Artifacts |-> me.got[f]]
       /\ me.env.wasm.src \in Nat /\ me.env.zkey.r1cs.src \in Nat /\ IsZkey(me.env.zkey)
       /\ me.env.wasm.src <= Age("wasm") /\ me.env.zkey.r1cs.src <= Age("zkey")
       /\ "wasm" \notin me.todo =>
            me.got["wasm"].src \in Nat /\ me.env.wasm.src <= me.got["wasm"].src
       /\ "zkey" \notin me.todo =>
            me.got["zkey"].r1cs.src \in Nat
            /\ me.env.zkey.r1cs.src <= me.got["zkey"].r1cs.src

\* What was signed is what the prover wrote: it is edited only after that.
FileInv ==
  /\ envelope # None => EnvelopeTypeOK(envelope) /\ WasMade(envelope)
  /\ envelope # None /\ (\A k \in Keys : signed[k] = {}) => NotOlder(envelope.parts)
  /\ \A k \in Keys : \A parts \in signed[k] : NotOlder(parts)

\* The digests of a manifest that was whole.
IsManifest(of) ==
  /\ OfInOrder(of) /\ SetUpFrom(of["r1cs"], of["zkey"])
  /\ of["vk"].zkey = of["zkey"]

Judging == {"dir", "load", "hash", "reload", "loaded"}

\* The gate holds an envelope that was bound to a manifest; the directory it
\* then loads is that of the manifest or a later one, up to the vk it reads last.
GateReads ==
  LET me   == act["gate"]
      made == me.env.parts.artifactHash
  IN
  /\ me.pc \in Judging =>
       /\ EnvelopeTypeOK(me.env) /\ WasMade(me.env)
       /\ IsManifest(made) /\ me.env.parts.vkHash = made["vk"]
       /\ made["zkey"].r1cs.src <= ManifestAge
  /\ me.pc = "hash" =>
       /\ IsManifest(me.man) /\ made["zkey"].r1cs.src <= me.man["zkey"].r1cs.src
       /\ "vk" \notin me.todo => made["zkey"].r1cs.src <= Age("vk")
  /\ me.pc \in {"reload", "loaded"} => made["zkey"].r1cs.src <= Age("vk")

GatePasses == PassedEnvelopeIsBound /\ PassedWasSigned

GateInv == DiskInv /\ ActTypeOK /\ ProverInv /\ FileInv /\ GateReads /\ GatePasses

LEMMA InitGateInv == GateInit => GateInv
<1> SUFFICES ASSUME GateInit PROVE GateInv
  OBVIOUS
<1>1. DiskInv
  BY InitDisk DEF GateInit
<1>2. act["prover"].pc = "load" /\ act["gate"].pc = "new" /\ ActTypeOK
  <2>1. act = [p \in Actors |-> [pc |-> IF p = "prover" THEN "load" ELSE "new",
                                 man |-> None, todo |-> {}, got |-> None, env |-> None]]
    BY DEF GateInit, With
  <2>2. signed = [k \in Keys |-> {}]
    BY DEF GateInit
  <2>3. signed = [k \in Keys |-> signed[k]]
    BY <2>2
  <2> QED
    BY <2>1, <2>3 DEF ActTypeOK, Actors
<1>3. envelope = None /\ \A k \in Keys : signed[k] = {}
  BY DEF GateInit
<1> QED
  BY <1>1, <1>2, <1>3
  DEF GateInv, ProverInv, FileInv, GateReads, GatePasses, PassedEnvelopeIsBound,
      PassedWasSigned, Verified, Judging

\* Going on to another phase, and failing.
LEMMA WithEffect ==
  ASSUME ActTypeOK, NEW p \in Actors, NEW pc, NEW man, NEW todo, NEW got, NEW env,
         act' = [act EXCEPT ![p] = With(pc, man, todo, got, env)],
         signed' = [k \in Keys |-> signed'[k]]
  PROVE  /\ ActTypeOK'
         /\ act'[p].pc = pc /\ act'[p].man = man /\ act'[p].todo = todo
         /\ act'[p].got = got /\ act'[p].env = env
         /\ \A q \in Actors : q # p => act'[q] = act[q]
<1> QED
  BY DEF ActTypeOK, With

LEMMA AtEffect ==
  ASSUME ActTypeOK, NEW p \in Actors, NEW pc, NEW man, NEW todo, act' = At(p, pc, man, todo),
         UNCHANGED signed
  PROVE  /\ ActTypeOK'
         /\ act'[p].pc = pc /\ act'[p].man = man /\ act'[p].todo = todo
         /\ act'[p].got = act[p].got /\ act'[p].env = act[p].env
         /\ \A q \in Actors : q # p => act'[q] = act[q]
<1>1. /\ act = [q \in Actors |-> act[q]]
      /\ act' = [act EXCEPT ![p] = [pc |-> pc, man |-> man, todo |-> todo,
                                    got |-> act[p].got, env |-> act[p].env]]
  BY DEF At, With, ActTypeOK
<1>2. /\ act'[p] = [pc |-> pc, man |-> man, todo |-> todo,
                    got |-> act[p].got, env |-> act[p].env]
      /\ act' = [q \in Actors |-> act'[q]]
      /\ \A q \in Actors : q # p => act'[q] = act[q]
  BY <1>1
<1>3. act'[p] = [pc |-> act'[p].pc, man |-> act'[p].man, todo |-> act'[p].todo,
                 got |-> act'[p].got, env |-> act'[p].env]
  BY <1>2
<1> QED
  BY <1>2, <1>3 DEF ActTypeOK

LEMMA FailsEffect ==
  ASSUME ActTypeOK, NEW p \in Actors, Fails(p), UNCHANGED signed
  PROVE  /\ ActTypeOK'
         /\ act'[p].pc = "blocked"
         /\ \A q \in Actors : q # p => act'[q] = act[q]
<1>1. signed' = [k \in Keys |-> signed'[k]]
  BY DEF ActTypeOK
<1> QED
  BY <1>1, WithEffect DEF Fails

\* A whole manifest.
LEMMA WholeManifest ==
  ASSUME DiskInv, Whole("manifest")
  PROVE  IsManifest(disk["manifest"].of)
<1>1. disk["manifest"].whole = TRUE
  BY DEF Whole
<1> QED
  BY <1>1 DEF DiskInv, ToolInv, ManifestSound, ManifestInOrder, IsManifest

\* The directory moves on under the readers.
LEMMA ReadersStay ==
  ASSUME GateInv, DiskInv', Onwards, UNCHANGED signed, ActTypeOK'
  PROVE  /\ act'["prover"] = act["prover"] \/ act'["prover"].pc \notin {"prove", "bundle"}
              => ProverInv'
         /\ UNCHANGED envelope => FileInv'
         /\ (act'["gate"] = act["gate"] \/ act'["gate"].pc \notin Judging \cup {"verified"})
              => GateReads' /\ GatePasses'
<1> USE DEF GateInv
<1>1. /\ Age("wasm") \in Nat /\ Age("zkey") \in Nat /\ Age("vk") \in Nat /\ ManifestAge \in Nat
      /\ Age("wasm")' \in Nat /\ Age("zkey")' \in Nat /\ Age("vk")' \in Nat /\ ManifestAge' \in Nat
      /\ Age("wasm") <= Age("wasm")' /\ Age("zkey") <= Age("zkey")' /\ Age("vk") <= Age("vk")'
      /\ ManifestAge <= ManifestAge'
  BY DEF DiskInv, InOrder, ManifestInOrder, OfInOrder, ManifestAge, Onwards, Artifacts
<1>2. ASSUME act'["prover"] = act["prover"] \/ act'["prover"].pc \notin {"prove", "bundle"}
      PROVE  ProverInv'
  <2>1. CASE act'["prover"] = act["prover"]
    BY <1>1, <2>1 DEF ProverInv, IsZkey
  <2>2. CASE act'["prover"].pc \notin {"prove", "bundle"}
    BY <2>2 DEF ProverInv
  <2> QED
    BY <1>2, <2>1, <2>2
<1>3. UNCHANGED envelope => FileInv'
  BY DEF FileInv, WasMade
<1>4. ASSUME act'["gate"] = act["gate"] \/ act'["gate"].pc \notin Judging \cup {"verified"}
      PROVE  GateReads' /\ GatePasses'
  <2>1. CASE act'["gate"].pc \notin Judging \cup {"verified"}
    BY <2>1 DEF GateReads, GatePasses, PassedEnvelopeIsBound, PassedWasSigned, Verified, Judging
  <2>2. CASE act'["gate"] = act["gate"]
    <3>1. GatePasses'
      BY <2>2 DEF GatePasses, PassedEnvelopeIsBound, PassedWasSigned, Verified
    <3>2. GateReads'
      <4> DEFINE made == act["gate"].env.parts.artifactHash["zkey"].r1cs.src
      <4>1. \A e : WasMade(e) => WasMade(e)'
        BY DEF WasMade
      <4>2. act["gate"].pc \in Judging => made \in Nat /\ made <= ManifestAge
        BY DEF GateReads, IsManifest, OfInOrder
      <4>3. act["gate"].pc \in Judging => made <= ManifestAge'
        BY <1>1, <4>2
      <4>4. /\ act["gate"].pc = "hash" /\ "vk" \notin act["gate"].todo => made <= Age("vk")
            /\ act["gate"].pc \in {"reload", "loaded"} => made <= Age("vk")
        BY DEF GateReads
      <4>5. /\ act["gate"].pc = "hash" /\ "vk" \notin act["gate"].todo => made <= Age("vk")'
            /\ act["gate"].pc \in {"reload", "loaded"} => made <= Age("vk")'
        <5>1. act["gate"].pc \in {"hash", "reload", "loaded"} => act["gate"].pc \in Judging
          BY DEF Judging
        <5> HIDE DEF made, GateInv
        <5> QED
          BY <1>1, <4>2, <4>4, <5>1
      <4>6. /\ act["gate"].pc \in Judging =>
                 /\ EnvelopeTypeOK(act["gate"].env) /\ WasMade(act["gate"].env)'
                 /\ IsManifest(act["gate"].env.parts.artifactHash)
                 /\ act["gate"].env.parts.vkHash = act["gate"].env.parts.artifactHash["vk"]
            /\ act["gate"].pc = "hash" =>
                 IsManifest(act["gate"].man) /\ made <= act["gate"].man["zkey"].r1cs.src
        BY <2>2, <4>1 DEF GateReads
      <4> QED
        BY <2>2, <4>3, <4>5, <4>6 DEF GateReads
    <3> QED
      BY <3>1, <3>2
  <2> QED
    BY <1>4, <2>1, <2>2
<1> QED
  BY <1>2, <1>3, <1>4

LEMMA DiskStays ==
  ASSUME GateInv, UNCHANGED toolVars
  PROVE  /\ DiskInv' /\ Onwards
         /\ \A f \in Artifacts : Age(f)' = Age(f)
         /\ ManifestAge' = ManifestAge
         /\ signed = [k \in Keys |-> signed[k]]
<1>1. UNCHANGED <<disk, source>>
  BY DEF toolVars
<1> QED
  BY <1>1, NextDisk, Ages DEF GateInv, ActTypeOK, Artifacts, ManifestAge

\* A step of the prover that reads nothing it keeps.
LEMMA ProverGoesOn ==
  ASSUME GateInv, UNCHANGED <<toolVars, envelope, signed>>, ActTypeOK',
         act'["gate"] = act["gate"], act'["prover"].pc \notin {"prove", "bundle"}
  PROVE  GateInv'
<1> QED
  BY DiskStays, ReadersStay DEF GateInv

\* A step of the gate that leads to no verdict in favour.
LEMMA GateGivesUp ==
  ASSUME GateInv, UNCHANGED <<toolVars, envelope, signed>>, ActTypeOK',
         act'["prover"] = act["prover"], act'["gate"].pc \notin Judging \cup {"verified"}
  PROVE  GateInv'
<1> QED
  BY DiskStays, ReadersStay DEF GateInv

\* A step of the gate from one read to the next.
LEMMA GateGoesOn ==
  ASSUME GateInv, UNCHANGED <<toolVars, envelope, signed>>, ActTypeOK',
         act'["prover"] = act["prover"], act'["gate"].pc \in Judging, GateReads'
  PROVE  GateInv'
<1>1. GatePasses'
  BY DEF GatePasses, PassedEnvelopeIsBound, PassedWasSigned, Verified, Judging
<1> QED
  BY <1>1, DiskStays, ReadersStay DEF GateInv

LEMMA FailsStep ==
  ASSUME GateInv, NEW p \in Actors, Fails(p), UNCHANGED <<toolVars, envelope, signed>>
  PROVE  GateInv'
<1>1. ActTypeOK' /\ act'[p].pc = "blocked" /\ \A q \in Actors : q # p => act'[q] = act[q]
  BY FailsEffect DEF GateInv
<1>2. CASE p = "prover"
  BY <1>1, <1>2, ProverGoesOn DEF Actors
<1>3. CASE p = "gate"
  BY <1>1, <1>3, GateGivesUp DEF Actors, Judging
<1> QED
  BY <1>2, <1>3 DEF Actors

LEMMA LoadManifestStep ==
  ASSUME GateInv, NEW p \in Actors, LoadManifest(p)
  PROVE  GateInv'
<1> DEFINE of == disk["manifest"].of
<1>1. UNCHANGED <<toolVars, envelope, signed>> /\ act[p].pc = "load"
  BY DEF LoadManifest
<1>2. CASE Fails(p)
  BY <1>1, <1>2, FailsStep
<1>3. CASE Whole("manifest") /\ act' = At(p, "hash", of, Artifacts)
  <2>1. /\ ActTypeOK'
        /\ act'[p].pc = "hash" /\ act'[p].man = of /\ act'[p].todo = Artifacts
        /\ act'[p].env = act[p].env
        /\ \A q \in Actors : q # p => act'[q] = act[q]
    BY <1>1, <1>3, AtEffect DEF GateInv
  <2>2. CASE p = "prover"
    BY <1>1, <2>1, <2>2, ProverGoesOn DEF Actors
  <2>3. CASE p = "gate"
    <3>1. IsManifest(of)
      BY <1>3, WholeManifest DEF GateInv
    <3>2. act["gate"].pc \in Judging /\ "vk" \in Artifacts
      BY <1>1, <2>3 DEF Judging, Artifacts
    <3>3. GateReads'
      BY <1>1, <2>1, <2>3, <3>1, <3>2, DiskStays
      DEF GateInv, GateReads, ManifestAge, WasMade, Judging
    <3> QED
      BY <1>1, <2>1, <2>3, <3>3, GateGoesOn DEF Actors, Judging
  <2> QED
    BY <2>2, <2>3 DEF Actors
<1> QED
  BY <1>2, <1>3 DEF LoadManifest

LEMMA HashFileStep ==
  ASSUME GateInv, NEW p \in Actors, HashFile(p)
  PROVE  GateInv'
<1>1. UNCHANGED <<toolVars, envelope, signed>> /\ act[p].pc = "hash"
  BY DEF HashFile
<1>2. CASE Fails(p)
  BY <1>1, <1>2, FailsStep
<1>3. ASSUME NEW f \in Artifacts, MayRead(p, f), disk[f] = act[p].man[f],
             act' = At(p, IF act[p].todo = {f} THEN "reload" ELSE "hash",
                       act[p].man, act[p].todo \ {f})
      PROVE  GateInv'
  <2>1. /\ ActTypeOK'
        /\ act'[p].pc = IF act[p].todo = {f} THEN "reload" ELSE "hash"
        /\ act'[p].man = act[p].man /\ act'[p].todo = act[p].todo \ {f}
        /\ act'[p].env = act[p].env
        /\ \A q \in Actors : q # p => act'[q] = act[q]
    BY <1>1, <1>3, AtEffect DEF GateInv
  <2>2. CASE p = "prover"
    BY <1>1, <2>1, <2>2, ProverGoesOn DEF Actors
  <2>3. CASE p = "gate"
    <3> DEFINE made == act["gate"].env.parts.artifactHash
    <3>1. act["gate"].pc \in Judging
      BY <1>1, <2>3 DEF Judging
    <3>2. "vk" \notin act'["gate"].todo => made["zkey"].r1cs.src <= Age("vk")
      <4>1. CASE f = "vk"
        BY <1>1, <1>3, <2>3, <4>1, Ages DEF GateInv, GateReads, IsManifest
      <4>2. CASE "vk" \notin act["gate"].todo
        BY <1>1, <2>3, <4>2 DEF GateInv, GateReads
      <4> QED
        BY <2>1, <2>3, <4>1, <4>2
    <3>3. act'["gate"].pc = "reload" => "vk" \notin act'["gate"].todo
      BY <2>1, <2>3
    <3>4. Age("vk")' = Age("vk") /\ ManifestAge' = ManifestAge
      BY <1>1, DiskStays DEF Artifacts
    <3>5. GateReads'
      BY <1>1, <2>1, <2>3, <3>1, <3>2, <3>3, <3>4
      DEF GateInv, GateReads, WasMade, Judging
    <3> QED
      BY <1>1, <2>1, <2>3, <3>5, GateGoesOn DEF Actors, Judging
  <2> QED
    BY <2>2, <2>3 DEF Actors
<1> QED
  BY <1>2, <1>3 DEF HashFile

LEMMA ReloadManifestStep ==
  ASSUME GateInv, NEW p \in Actors, ReloadManifest(p)
  PROVE  GateInv'
<1>1. UNCHANGED <<toolVars, envelope, signed>> /\ act[p].pc = "reload"
  BY DEF ReloadManifest
<1>2. CASE Fails(p)
  BY <1>1, <1>2, FailsStep
<1>3. CASE act' = At(p, "loaded", disk["manifest"].of, {})
  <2>1. /\ ActTypeOK'
        /\ act'[p].pc = "loaded" /\ act'[p].env = act[p].env
        /\ \A q \in Actors : q # p => act'[q] = act[q]
    BY <1>1, <1>3, AtEffect DEF GateInv
  <2>2. CASE p = "prover"
    BY <1>1, <2>1, <2>2, ProverGoesOn DEF Actors
  <2>3. CASE p = "gate"
    <3>1. Age("vk")' = Age("vk") /\ ManifestAge' = ManifestAge
      BY <1>1, DiskStays DEF Artifacts
    <3>2. GateReads'
      BY <1>1, <2>1, <2>3, <3>1 DEF GateInv, GateReads, WasMade, Judging
    <3> QED
      BY <1>1, <2>1, <2>3, <3>2, GateGoesOn DEF Actors, Judging
  <2> QED
    BY <2>2, <2>3 DEF Actors
<1> QED
  BY <1>2, <1>3 DEF ReloadManifest

\* A step of the prover that the gate does not see.
LEMMA ProverReads ==
  ASSUME GateInv, UNCHANGED <<toolVars, signed>>, ActTypeOK',
         act'["gate"] = act["gate"], ProverInv', FileInv'
  PROVE  GateInv'
<1> QED
  BY DiskStays, ReadersStay DEF GateInv

LEMMA UseWasmStep == GateInv /\ UseWasm => GateInv'
<1> SUFFICES ASSUME GateInv, UseWasm PROVE GateInv'
  OBVIOUS
<1>1. UNCHANGED <<toolVars, envelope, signed>> /\ "prover" \in Actors
  BY DEF UseWasm, Actors
<1>2. CASE Fails("prover")
  BY <1>1, <1>2, FailsStep
<1>3. CASE act' = [act EXCEPT !["prover"] =
                     With("prove", act["prover"].man, {}, disk["wasm"], None)]
  <2>1. /\ ActTypeOK' /\ act'["gate"] = act["gate"]
        /\ act'["prover"].pc = "prove" /\ act'["prover"].got = disk["wasm"]
    BY <1>1, <1>3 DEF GateInv, ActTypeOK, With, Actors
  <2>2. Age("wasm")' = disk["wasm"].src /\ disk["wasm"].src \in Nat
    BY <1>1, DiskStays, Ages DEF GateInv, DiskInv, InOrder, Artifacts
  <2>3. ProverInv'
    BY <2>1, <2>2 DEF ProverInv
  <2> QED
    BY <1>1, <2>1, <2>3, ProverReads, ReadersStay, DiskStays
<1> QED
  BY <1>2, <1>3 DEF UseWasm

LEMMA UseZkeyStep == GateInv /\ UseZkey => GateInv'
<1> SUFFICES ASSUME GateInv, UseZkey PROVE GateInv'
  OBVIOUS
<1> DEFINE none == [f \in Artifacts |-> None]
           read == [wasm |-> act["prover"].got, zkey |-> disk["zkey"]]
<1>1. UNCHANGED <<toolVars, envelope, signed>> /\ "prover" \in Actors
  BY DEF UseZkey, Actors
<1>2. CASE Fails("prover")
  BY <1>1, <1>2, FailsStep
<1>3. CASE /\ Whole("zkey") /\ act["prover"].pc = "prove"
           /\ act' = [act EXCEPT !["prover"] =
                        With("bundle", act["prover"].man, Artifacts, none, read)]
  <2>1. /\ ActTypeOK' /\ act'["gate"] = act["gate"]
        /\ act'["prover"].pc = "bundle" /\ act'["prover"].got = none
        /\ act'["prover"].todo = Artifacts /\ act'["prover"].env = read
    BY <1>1, <1>3 DEF GateInv, ActTypeOK, With, Actors
  <2>2. /\ Age("wasm")' = Age("wasm") /\ Age("zkey")' = disk["zkey"].r1cs.src
        /\ disk["zkey"].r1cs.src \in Nat
    BY <1>1, DiskStays, Ages DEF GateInv, DiskInv, InOrder, Artifacts
  <2>3. disk["zkey"].whole = TRUE
    BY <1>3 DEF Whole
  <2>4. IsZkey(read.zkey) /\ read.zkey = disk["zkey"]
    BY <2>3 DEF GateInv, DiskInv, InOrder
  <2>5. read.wasm.src \in Nat /\ read.wasm.src <= Age("wasm")
    BY <1>3 DEF GateInv, ProverInv
  <2>6. none = [f \in Artifacts |-> none[f]] /\ "wasm" \in Artifacts /\ "zkey" \in Artifacts
    BY DEF Artifacts
  <2> HIDE DEF none, read
  <2>7. ProverInv'
    BY <2>1, <2>2, <2>4, <2>5, <2>6 DEF ProverInv, IsZkey
  <2> QED
    BY <1>1, <2>1, <2>7, ProverReads, ReadersStay, DiskStays
<1> QED
  BY <1>2, <1>3 DEF UseZkey

LEMMA BundleFileStep == GateInv /\ BundleFile => GateInv'
<1> SUFFICES ASSUME GateInv, BundleFile PROVE GateInv'
  OBVIOUS
<1> DEFINE me == act["prover"]
<1>1. UNCHANGED <<toolVars, signed>> /\ "prover" \in Actors /\ me.pc = "bundle"
  BY DEF BundleFile, Actors
<1>2. PICK f \in Artifacts :
        LET got == [me.got EXCEPT ![f] = disk[f]] IN
        \/ Fails("prover") /\ UNCHANGED envelope
        \/ /\ me.todo # {f} /\ UNCHANGED envelope
           /\ act' = [act EXCEPT !["prover"] =
                        With("bundle", me.man, me.todo \ {f}, got, me.env)]
        \/ /\ me.todo = {f}
           /\ envelope' = Create([vkHash |-> me.man["vk"], artifactHash |-> got,
                                  proof |-> me.env])
           /\ act' = [act EXCEPT !["prover"] = With("done", None, {}, None, None)]
  BY DEF BundleFile
<1> DEFINE got == [me.got EXCEPT ![f] = disk[f]]
<1>3. /\ got = [g \in Artifacts |-> got[g]]
      /\ me.env.wasm.src \in Nat /\ me.env.zkey.r1cs.src \in Nat /\ IsZkey(me.env.zkey)
      /\ me.env.wasm.src <= Age("wasm") /\ me.env.zkey.r1cs.src <= Age("zkey")
      /\ "wasm" \notin me.todo \ {f} =>
           got["wasm"].src \in Nat /\ me.env.wasm.src <= got["wasm"].src
      /\ "zkey" \notin me.todo \ {f} =>
           got["zkey"].r1cs.src \in Nat /\ me.env.zkey.r1cs.src <= got["zkey"].r1cs.src
  <2>1. /\ me.got = [g \in Artifacts |-> me.got[g]]
        /\ me.env.wasm.src \in Nat /\ me.env.zkey.r1cs.src \in Nat /\ IsZkey(me.env.zkey)
        /\ me.env.wasm.src <= Age("wasm") /\ me.env.zkey.r1cs.src <= Age("zkey")
        /\ "wasm" \notin me.todo =>
             me.got["wasm"].src \in Nat /\ me.env.wasm.src <= me.got["wasm"].src
        /\ "zkey" \notin me.todo =>
             me.got["zkey"].r1cs.src \in Nat /\ me.env.zkey.r1cs.src <= me.got["zkey"].r1cs.src
    BY <1>1 DEF GateInv, ProverInv
  <2>2. got[f] = disk[f] /\ \A g \in Artifacts : g # f => got[g] = me.got[g]
    BY <1>2, <2>1
  <2>3. got = [g \in Artifacts |-> got[g]]
    BY <2>1
  <2>4. /\ disk["wasm"].src = Age("wasm") /\ Age("wasm") \in Nat
        /\ disk["zkey"].r1cs.src = Age("zkey") /\ Age("zkey") \in Nat
    BY Ages DEF GateInv, DiskInv, InOrder, Artifacts
  <2> HIDE DEF got, me
  <2> QED
    BY <2>1, <2>2, <2>3, <2>4 DEF Artifacts
<1>4. CASE Fails("prover") /\ UNCHANGED envelope
  BY <1>1, <1>4, FailsStep
<1>5. CASE /\ UNCHANGED envelope
           /\ act' = [act EXCEPT !["prover"] =
                        With("bundle", me.man, me.todo \ {f}, got, me.env)]
  <2>1. /\ ActTypeOK' /\ act'["gate"] = act["gate"]
        /\ act'["prover"].pc = "bundle" /\ act'["prover"].got = got
        /\ act'["prover"].todo = me.todo \ {f} /\ act'["prover"].env = me.env
    BY <1>1, <1>5 DEF GateInv, ActTypeOK, With, Actors
  <2>2. Age("wasm")' = Age("wasm") /\ Age("zkey")' = Age("zkey")
    BY <1>1, DiskStays DEF Artifacts
  <2> HIDE DEF got, me
  <2>3. ProverInv'
    BY <1>3, <2>1, <2>2 DEF ProverInv, IsZkey
  <2> QED
    BY <1>1, <1>5, <2>1, <2>3, ProverReads, ReadersStay, DiskStays
<1>6. CASE /\ me.todo = {f}
           /\ envelope' = Create([vkHash |-> me.man["vk"], artifactHash |-> got,
                                  proof |-> me.env])
           /\ act' = [act EXCEPT !["prover"] = With("done", None, {}, None, None)]
  <2> DEFINE parts == [vkHash |-> me.man["vk"], artifactHash |-> got, proof |-> me.env]
  <2>1. ActTypeOK' /\ act'["gate"] = act["gate"] /\ act'["prover"].pc = "done"
    BY <1>1, <1>6 DEF GateInv, ActTypeOK, With, Actors
  <2>2. ProverInv'
    BY <2>1 DEF ProverInv
  <2>3. NotOlder(parts)
    <3>1. parts.proof = me.env /\ parts.artifactHash = got
      OBVIOUS
    <3>2. "wasm" \notin me.todo \ {f} /\ "zkey" \notin me.todo \ {f}
      BY <1>6
    <3> HIDE DEF got, me, parts
    <3> QED
      BY <1>3, <3>1, <3>2 DEF NotOlder
  <2>4. envelope' = Create(parts)
    BY <1>6
  <2> HIDE DEF parts
  <2>5. EnvelopeTypeOK(envelope') /\ envelope'.version = 1 /\ envelope'.parts = parts
    BY <2>4 DEF Create, EnvelopeTypeOK
  <2>6. FileInv'
    BY <1>1, <2>3, <2>5 DEF GateInv, FileInv, WasMade
  <2> QED
    BY <1>1, <2>1, <2>2, <2>6, ProverReads
<1> QED
  BY <1>2, <1>4, <1>5, <1>6

-----------------------------------------------------------------------------
\* A change to the proof file before the gate reads it.
LEMMA FileChanges ==
  ASSUME GateInv, UNCHANGED <<toolVars, act>>, act["gate"].pc = "new",
         signed' = [k \in Keys |-> signed'[k]], FileInv'
  PROVE  GateInv'
<1>1. DiskInv' /\ \A f \in Artifacts : Age(f)' = Age(f)
  BY DiskStays
<1>2. ActTypeOK'
  BY DEF GateInv, ActTypeOK
<1>3. ProverInv'
  BY <1>1 DEF GateInv, ProverInv, IsZkey, Artifacts
<1>4. GateReads' /\ GatePasses'
  BY DEF GateReads, GatePasses, PassedEnvelopeIsBound, PassedWasSigned, Verified, Judging
<1> QED
  BY <1>1, <1>2, <1>3, <1>4 DEF GateInv

LEMMA SignFileStep == \A k \in Keys : GateInv /\ SignFile(k) => GateInv'
<1> SUFFICES ASSUME GateInv, NEW k \in Keys, SignFile(k) PROVE GateInv'
  OBVIOUS
<1> DEFINE parts == envelope.parts
<1>1. /\ UNCHANGED <<toolVars, act>> /\ act["gate"].pc = "new"
      /\ envelope # None /\ \A j \in Keys : signed[j] = {}
      /\ envelope' = Sign(envelope, k)
      /\ signed' = [signed EXCEPT ![k] = @ \cup {parts}]
  BY DEF SignFile
<1>2. EnvelopeTypeOK(envelope) /\ NotOlder(parts)
  BY <1>1 DEF GateInv, FileInv
<1>3. signed = [j \in Keys |-> signed[j]]
  BY DEF GateInv, ActTypeOK
<1>4. /\ signed' = [j \in Keys |-> signed'[j]]
      /\ signed'[k] = {parts} /\ \A j \in Keys : j # k => signed'[j] = {}
  BY <1>1, <1>3
<1>5. envelope' = [version |-> 2, parts |-> parts, proofHash |-> <<2, parts>>,
                   signature |-> [keyId |-> k, value |-> <<k, <<2, parts, <<2, parts>>>>>>]]
  <2> DEFINE e == [version |-> 2, parts |-> parts, proofHash |-> <<2, parts>>,
                   signature |-> NoSignature]
  <2>1. SignCanonical(e, k) = <<k, <<2, parts, <<2, parts>>>>>>
    BY DEF SignCanonical, SignatureInput
  <2>2. envelope' = [e EXCEPT !.signature = [keyId |-> k, value |-> SignCanonical(e, k)]]
    BY <1>1 DEF Sign, ProofHash
  <2> QED
    BY <2>1, <2>2
<1> HIDE DEF parts
<1>6. EnvelopeTypeOK(envelope') /\ envelope'.parts = parts
      /\ envelope'.signature.value = <<k, <<2, parts, <<2, parts>>>>>>
  BY <1>5 DEF EnvelopeTypeOK
<1>7. FileInv'
  BY <1>2, <1>4, <1>6 DEF FileInv, WasMade
<1> QED
  BY <1>1, <1>4, <1>7, FileChanges

LEMMA EditFileStep == \A version \in 1 .. 2 : GateInv /\ EditFile(version) => GateInv'
<1> SUFFICES ASSUME GateInv, NEW version \in 1 .. 2, EditFile(version) PROVE GateInv'
  OBVIOUS
<1> DEFINE parts == [envelope.parts EXCEPT !.vkHash = disk["manifest"].of["vk"],
                                          !.artifactHash = disk["manifest"].of]
<1>1. /\ UNCHANGED <<toolVars, signed, act>> /\ act["gate"].pc = "new"
      /\ envelope # None /\ envelope.version = 2
      /\ \/ envelope' = Create(parts)
         \/ envelope' = [envelope EXCEPT !.parts = parts, !.proofHash = ProofHash(2, parts)]
  BY DEF EditFile
<1>2. EnvelopeTypeOK(envelope) /\ WasMade(envelope)
  BY <1>1 DEF GateInv, FileInv
<1>3. signed' = [k \in Keys |-> signed'[k]]
  BY <1>1 DEF GateInv, ActTypeOK
<1> HIDE DEF parts
<1>4. EnvelopeTypeOK(envelope') /\ WasMade(envelope')
  <2>1. CASE envelope' = Create(parts)
    BY <2>1 DEF Create, EnvelopeTypeOK, WasMade
  <2>2. CASE envelope' = [envelope EXCEPT !.parts = parts, !.proofHash = ProofHash(2, parts)]
    <3>1. envelope' = [version |-> envelope.version, parts |-> parts,
                       proofHash |-> ProofHash(2, parts), signature |-> envelope.signature]
      BY <1>2, <2>2 DEF EnvelopeTypeOK
    <3> QED
      BY <1>2, <3>1 DEF EnvelopeTypeOK, WasMade
  <2> QED
    BY <1>1, <2>1, <2>2
<1>5. ~ \A k \in Keys : signed[k] = {}
  BY <1>1, <1>2 DEF WasMade
<1>6. FileInv'
  BY <1>1, <1>4, <1>5 DEF GateInv, FileInv, WasMade
<1> QED
  BY <1>1, <1>3, <1>6, FileChanges

-----------------------------------------------------------------------------
LEMMA GateManifestStep == GateInv /\ GateManifest => GateInv'
<1> SUFFICES ASSUME GateInv, GateManifest PROVE GateInv'
  OBVIOUS
<1> DEFINE of == disk["manifest"].of
<1>1. /\ UNCHANGED <<toolVars, envelope, signed>> /\ "gate" \in Actors
      /\ act["gate"].pc = "new" /\ envelope # None
  BY DEF GateManifest, Actors
<1>2. CASE Fails("gate")
  BY <1>1, <1>2, FailsStep
<1>3. ASSUME Whole("manifest"), Bound(envelope, of), NEW dir \in BOOLEAN,
             act' = [act EXCEPT !["gate"] =
                      With(IF dir THEN "dir" ELSE "load", of, Artifacts, None, envelope)]
      PROVE  GateInv'
  <2> DEFINE pc == IF dir THEN "dir" ELSE "load"
  <2>1. /\ ActTypeOK' /\ act'["prover"] = act["prover"]
        /\ act'["gate"].pc = pc /\ act'["gate"].env = envelope
    BY <1>1, <1>3 DEF GateInv, ActTypeOK, With, Actors
  <2>2. pc \in Judging /\ pc \notin {"hash", "reload", "loaded"}
    BY DEF Judging
  <2>3. IsManifest(of)
    BY <1>3, WholeManifest DEF GateInv
  <2>4. envelope.parts.vkHash = of["vk"] /\ envelope.parts.artifactHash = of
    BY <1>3 DEF Bound, VkCertified, ArtifactHash
  <2>5. EnvelopeTypeOK(envelope) /\ WasMade(envelope)
    BY <1>1 DEF GateInv, FileInv
  <2>6. ManifestAge' = of["zkey"].r1cs.src /\ of["zkey"].r1cs.src \in Nat
    BY <1>1, <2>3, DiskStays DEF ManifestAge, IsManifest, OfInOrder
  <2> HIDE DEF pc, of
  <2>7. GateReads'
    BY <1>1, <2>1, <2>2, <2>3, <2>4, <2>5, <2>6 DEF GateReads, WasMade
  <2> QED
    BY <1>1, <2>1, <2>2, <2>7, GateGoesOn
<1> QED
  BY <1>1, <1>2, <1>3 DEF GateManifest

LEMMA GateDirStep == GateInv /\ GateDir => GateInv'
<1> SUFFICES ASSUME GateInv, GateDir PROVE GateInv'
  OBVIOUS
<1>1. /\ UNCHANGED <<toolVars, envelope, signed>> /\ "gate" \in Actors /\ "prover" \in Actors
      /\ act["gate"].pc = "dir"
  BY DEF GateDir, Actors
<1>2. CASE Fails("gate")
  BY <1>1, <1>2, FailsStep
<1>3. ASSUME NEW f \in act["gate"].todo,
             act' = At("gate", IF act["gate"].todo = {f} THEN "load" ELSE "dir",
                       act["gate"].man, act["gate"].todo \ {f})
      PROVE  GateInv'
  <2> DEFINE pc == IF act["gate"].todo = {f} THEN "load" ELSE "dir"
             todo == act["gate"].todo \ {f}
  <2>0. act' = At("gate", pc, act["gate"].man, todo)
    BY <1>3
  <2>1. pc \in {"dir", "load"}
    OBVIOUS
  <2> HIDE DEF pc, todo
  <2>2. /\ ActTypeOK' /\ act'["gate"].pc = pc /\ act'["gate"].env = act["gate"].env
        /\ act'["prover"] = act["prover"]
    BY <1>1, <2>0, AtEffect DEF GateInv
  <2>3. ManifestAge' = ManifestAge
    BY <1>1, DiskStays
  <2>4. GateReads'
    BY <1>1, <2>1, <2>2, <2>3 DEF GateInv, GateReads, WasMade, Judging
  <2> QED
    BY <1>1, <2>1, <2>2, <2>4, GateGoesOn DEF Judging
<1> QED
  BY <1>1, <1>2, <1>3 DEF GateDir

\* The proof verifies with the vk as it is now: its zkey is as old as that vk,
\* which is no older than the zkey the envelope names.
LEMMA JudgedIsBound ==
  ASSUME GateInv, act["gate"].pc = "loaded",
         Verifies(disk["vk"], act["gate"].env.parts.proof),
         NotOlder(act["gate"].env.parts)
  PROVE  LET e == act["gate"].env.parts
             made == e.artifactHash
         IN
         /\ e.proof.zkey = made["zkey"] /\ made["zkey"].r1cs = made["r1cs"]
         /\ e.vkHash = made["vk"] /\ made["vk"].zkey = made["zkey"]
         /\ {e.proof.wasm.src, made["wasm"].src} = {made["r1cs"].src}
<1> DEFINE e == act["gate"].env.parts
           made == e.artifactHash
           zkey == e.proof.zkey
<1>1. /\ IsManifest(made) /\ e.vkHash = made["vk"]
      /\ made["zkey"].r1cs.src <= Age("vk")
  BY DEF GateInv, GateReads, Judging
<1>2. disk["vk"].zkey = zkey /\ e.proof.wasm.src = zkey.r1cs.src
  BY DEF Verifies
<1>3. /\ zkey.r1cs.src \in Nat /\ made["zkey"].r1cs.src \in Nat /\ made["wasm"].src \in Nat
      /\ e.proof.wasm.src <= made["wasm"].src
      /\ zkey.r1cs.src <= made["zkey"].r1cs.src /\ IsZkey(zkey)
  BY DEF NotOlder
<1>4. Age("vk") = zkey.r1cs.src
  BY <1>2, Ages
<1> HIDE DEF e, made, zkey
<1>5. zkey.r1cs.src = made["zkey"].r1cs.src
  BY <1>1, <1>3, <1>4
<1>6. /\ made["zkey"].r1cs = made["r1cs"] /\ made["vk"].zkey = made["zkey"]
      /\ IsZkey(made["zkey"])
      /\ made["r1cs"].src \in Nat /\ made["wasm"].src <= made["r1cs"].src
  BY <1>1 DEF IsManifest, SetUpFrom, OfInOrder
<1>7. zkey = made["zkey"]
  BY <1>3, <1>5, <1>6, Zenon DEF IsZkey
<1>8. e.proof.wasm.src = made["r1cs"].src /\ made["wasm"].src = made["r1cs"].src
  BY <1>2, <1>3, <1>5, <1>6
<1> QED
  BY <1>1, <1>6, <1>7, <1>8 DEF e, made, zkey

LEMMA GateJudgeStep == GateInv /\ GateJudge => GateInv'
<1> SUFFICES ASSUME GateInv, GateJudge PROVE GateInv'
  OBVIOUS
<1> DEFINE e == act["gate"].env
<1>1. /\ UNCHANGED <<toolVars, envelope, signed>> /\ "gate" \in Actors /\ "prover" \in Actors
      /\ act["gate"].pc = "loaded"
  BY DEF GateJudge, Actors
<1>2. CASE Fails("gate")
  BY <1>1, <1>2, FailsStep
<1>3. CASE /\ Verifies(disk["vk"], e.parts.proof)
           /\ SignatureOk(e, TrustedKey, RequireSigned)
           /\ act' = At("gate", "verified", None, {})
  <2>1. /\ ActTypeOK' /\ act'["gate"].pc = "verified" /\ act'["gate"].env = e
        /\ act'["prover"] = act["prover"]
    BY <1>1, <1>3, AtEffect DEF GateInv
  <2>2. RequireSigned => e.parts \in signed[TrustedKey]
    <3> SUFFICES ASSUME RequireSigned PROVE e.parts \in signed[TrustedKey]
      OBVIOUS
    <3>1. e.version = 2 /\ e.signature.value = SignCanonical(e, TrustedKey)
      BY <1>3 DEF SignatureOk
    <3>2. e.signature.value = <<TrustedKey, <<2, e.parts, e.proofHash>>>>
      BY <3>1 DEF SignCanonical, SignatureInput
    <3>3. WasMade(e)
      BY <1>1 DEF GateInv, GateReads, Judging
    <3> HIDE DEF e
    <3>4. PICK k \in Keys : \E parts \in signed[k] :
            e.signature.value = <<k, <<2, parts, <<2, parts>>>>>>
      BY <3>1, <3>3 DEF WasMade
    <3>5. PICK parts \in signed[k] : e.signature.value = <<k, <<2, parts, <<2, parts>>>>>>
      BY <3>4
    <3> QED
      BY <3>2, <3>5
  <2>3. RequireSigned => NotOlder(e.parts)
    BY <2>2, GateAssumption DEF GateInv, FileInv
  <2>4. PassedEnvelopeIsBound'
    BY <1>1, <1>3, <2>1, <2>3, JudgedIsBound DEF PassedEnvelopeIsBound
  <2>5. PassedWasSigned'
    BY <1>1, <2>1, <2>2 DEF PassedWasSigned
  <2>6. GateReads'
    BY <2>1 DEF GateReads, Judging
  <2> QED
    BY <1>1, <2>1, <2>4, <2>5, <2>6, DiskStays, ReadersStay DEF GateInv, GatePasses
<1> QED
  BY <1>1, <1>2, <1>3 DEF GateJudge

LEMMA NextGate == GateInv /\ [GateNext]_gateVars => GateInv'
<1> SUFFICES ASSUME GateInv, [GateNext]_gateVars PROVE GateInv'
  OBVIOUS
<1>1. ASSUME [ToolNext]_toolVars, UNCHANGED <<envelope, signed, act>> PROVE GateInv'
  <2>1. DiskInv' /\ Onwards
    BY <1>1, NextDisk DEF GateInv
  <2>2. ActTypeOK'
    BY <1>1 DEF GateInv, ActTypeOK
  <2> QED
    BY <1>1, <2>1, <2>2, ReadersStay DEF GateInv
<1>2. CASE UNCHANGED gateVars
  BY <1>1, <1>2 DEF gateVars
<1>3. ASSUME NEW p \in Actors, CircuitLoad(p) PROVE GateInv'
  BY <1>3, LoadManifestStep, HashFileStep, ReloadManifestStep DEF CircuitLoad
<1> QED
  BY <1>1, <1>2, <1>3, UseWasmStep, UseZkeyStep, BundleFileStep, SignFileStep, EditFileStep,
     GateManifestStep, GateDirStep, GateJudgeStep
  DEF GateNext

-----------------------------------------------------------------------------
\* For any number of source versions, builds and interruptions, of keys and of
\* edits of the proof file: a signed envelope that passes was proved with the
\* zkey it names, whose vk and r1cs it names as well, and with a wasm of the
\* same source.
THEOREM PassedEnvelopeIsBoundHolds == GateSpec => []PassedEnvelopeIsBound
<1>1. GateInv => PassedEnvelopeIsBound
  BY DEF GateInv, GatePasses
<1> QED
  BY <1>1, InitGateInv, NextGate, PTL DEF GateSpec

\* Nothing passes but what was signed with the trusted key.
THEOREM PassedWasSignedHolds == GateSpec => []PassedWasSigned
<1>1. GateInv => PassedWasSigned
  BY DEF GateInv, GatePasses
<1> QED
  BY <1>1, InitGateInv, NextGate, PTL DEF GateSpec
=============================================================================
