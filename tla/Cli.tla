---------------------------------- MODULE Cli ----------------------------------
(***************************************************************************)
(* The zk command line (packages/cli/src): processes that share a profile  *)
(* for each environment, one proof file, one inputs file, the chain they   *)
(* deploy to and the APIs their profiles name.                             *)
(*                                                                         *)
(* A step is what a command does between two awaits.  A profile is an      *)
(* inode under a name, since a temporary file two saves share is renamed   *)
(* under both.  A circuit is part of the inputs; flags, help texts and     *)
(* rendering are left out.                                                 *)
(***************************************************************************)
EXTENDS Naturals, Sequences

CONSTANTS
  Procs,        \* zk processes
  Envs,         \* names of profiles
  Credentials,  \* [url, secret]: what the user was given, each for one API
  Inputs,       \* public inputs of a proof, with their circuit
  ProofIds,     \* proofs of them, told apart
  Deployments,  \* deployments of a registry
  Inodes,       \* bound: profile and temporary files at a time
  MaxTime,      \* bound on Date.now()
  MaxCommands,  \* bound: commands run
  MaxEdits,     \* bound: files edited by hand, revocations
  None

ASSUME CliAssumption ==
  /\ \A c \in Credentials : c = [url |-> c.url, secret |-> c.secret]
  /\ 1 \in Inodes
  /\ MaxTime \in Nat /\ MaxCommands \in Nat /\ MaxEdits \in Nat

VARIABLES
  names,     \* profile and temporary names: inode or None
  disk,      \* disk[i]: the document, None when it does not parse; its mode
  proofFile, \* the envelope, None when there is none that parses
  inputs,    \* inputs.json: None when it is no inputs, "template", or Inputs
  deployed,  \* deployed[d]: how many transactions of Deploy.s.sol were mined
  ledgers,   \* ledgers[url]: what the registry behind that API holds
  proc,      \* proc[p]: the command p runs, or its outcome
  claimed,   \* history: registrations that exited 0
  clock, commands, edits

files == <<names, disk, proofFile, inputs>>
world == <<deployed, ledgers, claimed>>
counts == <<clock, commands, edits>>
vars == <<files, world, proc, counts>>

Urls == {c.url : c \in Credentials}
Commands == {"set", "show", "deploy", "new", "prove", "verify", "offline",
             "register", "status", "registry", "local"}

\* ZkEnvProfile; a field that is not there is None.
Profile(url, secret, proxy) == [url |-> url, secret |-> secret, proxy |-> proxy]
Merge(old, new) == [f \in DOMAIN old |-> IF new[f] # None THEN new[f] ELSE old[f]]
NoProfile == Profile(None, None, None)

Names == {<<e>> : e \in Envs} \cup (Envs \X (0 .. MaxTime))
Path(env) == <<env>>
Tmp(env, time) == <<env, time>>

\* What a command that exited printed, where a property asks for it.
Done(answer) == [at |-> "done", answer |-> answer]

Command(cmd, env) ==
  [at |-> "args", cmd |-> cmd, env |-> env, patch |-> NoProfile, raw |-> None,
   tmp |-> None, fd |-> None, client |-> None, envelope |-> None]

Envelope(x, id) == [inputs |-> x, proof |-> id, valid |-> TRUE]

\* Earlier commands may have left a proof, and a profile.
CliInit ==
  /\ \/ /\ names = [n \in Names |-> None]
        /\ disk = [i \in Inodes |-> [doc |-> None, private |-> TRUE]]
     \/ \E env \in Envs, c \in Credentials :
          /\ names = [n \in Names |-> IF n = Path(env) THEN 1 ELSE None]
          /\ disk = [i \in Inodes |->
               [doc |-> IF i = 1 THEN Profile(c.url, c.secret, None) ELSE None,
                private |-> TRUE]]
  /\ proofFile \in {None} \cup {Envelope(x, id) : x \in Inputs, id \in ProofIds}
  /\ inputs \in Inputs
  /\ deployed = [d \in Deployments |-> 0]
  /\ ledgers = [u \in Urls |-> [proved |-> {}, revoked |-> {}]]
  /\ proc = [p \in Procs |-> Done(None)]
  /\ claimed = {}
  /\ clock = 0 /\ commands = 0 /\ edits = 0

-----------------------------------------------------------------------------
Running == {p \in Procs : proc[p].at # "done"}
At(p, label) == proc[p].at = label
Goto(p, label) == proc' = [proc EXCEPT ![p].at = label]
Exit(p) == proc' = [proc EXCEPT ![p] = Done(None)]

\* runCli(): an error ends the command, with exit code 1.  save() swallows an error
\* of load() and goes on with the fields it was given.
Throw(p) ==
  IF proc[p].cmd = "deploy" /\ proc[p].at \in {"read", "stat"}
  THEN Goto(p, "tmp")
  ELSE Exit(p)

Fail(p) ==
  /\ proc[p].at \notin {"done", "args"}
  /\ Throw(p)
  /\ UNCHANGED <<files, world, counts>>

Kill(p) ==
  /\ proc[p].at # "done"
  /\ Exit(p)
  /\ UNCHANGED <<files, world, counts>>

Run(p, cmd, env) ==
  /\ At(p, "done") /\ commands < MaxCommands
  /\ commands' = commands + 1
  /\ proc' = [proc EXCEPT ![p] = Command(cmd, env)]
  /\ UNCHANGED <<files, world, clock, edits>>

\* The first await of each command.
Entry(cmd) ==
  CASE cmd \in {"set", "show"} -> "exists"
    [] cmd \in {"verify", "register", "status", "registry"} -> "read"
    [] cmd = "offline" -> "envelope"
    [] cmd = "prove" -> "inputs"
    [] OTHER -> cmd

\* parseArgs() and the flags each command requires: exit code 2.
UsageError(p) == At(p, "args") /\ Exit(p) /\ UNCHANGED <<files, world, counts>>

EnvSetPartly(p) ==    \* mutant: flags that are not given keep what there is
  /\ At(p, "args") /\ proc[p].cmd = "set"
  /\ \E c \in Credentials :
       LET i == names[Path(proc[p].env)] IN
       /\ i # None /\ disk[i].doc # None
       /\ proc' = [proc EXCEPT ![p].at = "tmp",
                     ![p].patch = Merge(disk[i].doc, Profile(None, c.secret, None))]
  /\ UNCHANGED <<files, world, counts>>
\* zk env set requires all three.
EnvSet(p) ==
  /\ At(p, "args") /\ proc[p].cmd = "set"
  /\ \E c \in Credentials :
       proc' = [proc EXCEPT ![p].at = "exists", ![p].patch = Profile(c.url, c.secret, None)]
  /\ UNCHANGED <<files, world, counts>>

Dispatch(p) ==
  /\ At(p, "args") /\ proc[p].cmd # "set"
  /\ Goto(p, Entry(proc[p].cmd))
  /\ UNCHANGED <<files, world, counts>>

\* help, completions and env list.
Local(p) == At(p, "local") /\ Exit(p) /\ UNCHANGED <<files, world, counts>>

-----------------------------------------------------------------------------
\* exists(): env set refuses a profile that is there, env show one that is not.
Exists(p) ==
  LET found == names[Path(proc[p].env)] # None IN
  /\ At(p, "exists")
  /\ IF proc[p].cmd = "set"
     THEN IF found THEN Throw(p) ELSE Goto(p, "tmp")
     ELSE IF found THEN Goto(p, "read") ELSE Throw(p)
  /\ UNCHANGED <<files, world, counts>>

\* load(): readFile, then assertSecurePermissions of what is there by then, then
\* the checks of the document.
LoadRead(p) ==
  LET i == names[Path(proc[p].env)] IN
  /\ At(p, "read")
  /\ IF i = None THEN Throw(p)
     ELSE proc' = [proc EXCEPT ![p].at = "stat", ![p].raw = disk[i].doc]
  /\ UNCHANGED <<files, world, counts>>

Loaded(p) ==
  LET c == proc[p] IN
  CASE c.cmd = "deploy" -> [c EXCEPT !.at = "tmp", !.raw = None, !.patch = Merge(c.raw, @)]
    [] c.cmd = "show" -> Done(None)
    [] OTHER -> [c EXCEPT !.at = IF c.cmd = "registry" THEN "api" ELSE "envelope",
                          !.raw = None,
                          !.client = [url |-> c.raw.url, secret |-> c.raw.secret]]

LoadStat(p) ==
  LET i == names[Path(proc[p].env)]  raw == proc[p].raw IN
  /\ At(p, "stat")
  /\ IF i = None \/ ~disk[i].private \/ raw = None \/ raw.url = None \/ raw.secret = None
     THEN Throw(p)
     ELSE proc' = [proc EXCEPT ![p] = Loaded(p)]
  /\ UNCHANGED <<files, world, counts>>

\* save(): writeFile() opens the temporary file, which another save of the same
\* millisecond may have opened, and truncates it.
InUse == {names[n] : n \in Names} \cup {proc[p].fd : p \in Running}
FreeInode == CHOOSE i \in Inodes \ InUse : TRUE

SaveOpen(p) ==
  LET tmp == Tmp(proc[p].env, clock)
      new == names[tmp] = None
      i == IF new THEN FreeInode ELSE names[tmp]
  IN
  /\ At(p, "tmp") /\ (new => Inodes \ InUse # {})
  /\ names' = [names EXCEPT ![tmp] = i]
  /\ disk' = [disk EXCEPT ![i] = [doc |-> None, private |-> IF new THEN TRUE ELSE @.private]]
  /\ proc' = [proc EXCEPT ![p].at = "fill", ![p].tmp = tmp, ![p].fd = i]
  /\ UNCHANGED <<proofFile, inputs, world, counts>>

\* The text of another save that is there already shows behind a shorter one.
SaveWrite(p) ==
  LET i == proc[p].fd IN
  /\ At(p, "fill")
  /\ \/ disk' = [disk EXCEPT ![i].doc = proc[p].patch]
     \/ disk[i].doc # None /\ disk' = [disk EXCEPT ![i].doc = None]
  /\ proc' = [proc EXCEPT ![p].at = "rename", ![p].fd = None]
  /\ UNCHANGED <<names, proofFile, inputs, world, counts>>

SaveRename(p) ==
  LET i == names[proc[p].tmp] IN
  /\ At(p, "rename")
  /\ IF i = None THEN Throw(p) /\ UNCHANGED names
     ELSE /\ names' = [names EXCEPT ![Path(proc[p].env)] = i, ![proc[p].tmp] = None]
          /\ Goto(p, "chmod")
  /\ UNCHANGED <<disk, proofFile, inputs, world, counts>>

SaveChmod(p) ==
  LET i == names[Path(proc[p].env)] IN
  /\ At(p, "chmod")
  /\ IF i = None THEN Throw(p) /\ UNCHANGED disk
     ELSE disk' = [disk EXCEPT ![i].private = TRUE] /\ Exit(p)
  /\ UNCHANGED <<names, proofFile, inputs, world, counts>>

-----------------------------------------------------------------------------
\* cmdNew() writes its template over whatever inputs.json is there.
New(p) ==
  /\ At(p, "new")
  /\ inputs' = "template"
  /\ Exit(p)
  /\ UNCHANGED <<names, disk, proofFile, world, counts>>

\* parseCircuitInputs() wants every input of the manifest, canonical and in its
\* range; the template lacks the public ones.
ParseCircuitInputs(raw) == raw \in Inputs

\* cmdProve(): the circuit, the inputs file, the proof; then a direct write of
\* the envelope.
ReadInputs(p) ==
  /\ At(p, "inputs")
  /\ IF ~ParseCircuitInputs(inputs) THEN Throw(p)
     ELSE \E id \in ProofIds :
            proc' = [proc EXCEPT ![p].at = "truncate",
                       ![p].envelope = Envelope(inputs, id)]
  /\ UNCHANGED <<files, world, counts>>

Truncate(p) ==
  /\ At(p, "truncate")
  /\ proofFile' = None
  /\ Goto(p, "write")
  /\ UNCHANGED <<names, disk, inputs, world, counts>>

WriteEnvelope(p) ==
  /\ At(p, "write")
  /\ proofFile' \in {proc[p].envelope} \cup (IF proofFile = None THEN {} ELSE {None})
  /\ Exit(p)
  /\ UNCHANGED <<names, disk, inputs, world, counts>>

\* readEnvelopeFile().
ReadEnvelope(p) ==
  /\ At(p, "envelope")
  /\ IF proofFile = None THEN Throw(p)
     ELSE proc' = [proc EXCEPT ![p].envelope = proofFile,
            ![p].at = IF proc[p].cmd \in {"verify", "offline"} THEN "engine" ELSE "api"]
  /\ UNCHANGED <<files, world, counts>>

\* cmdVerify(): an invalid proof is an answer, with exit code 0.
EngineVerify(p) ==
  /\ At(p, "engine")
  /\ IF proc[p].cmd = "verify" /\ proc[p].envelope.valid THEN Goto(p, "api") ELSE Exit(p)
  /\ UNCHANGED <<files, world, counts>>

-----------------------------------------------------------------------------
\* publicInputHash() of the envelope's inputs, the key the contract computes
\* when a proof is registered; a hash is the value it is of.
AnchorOfProof(envelope) == envelope.proof    \* mutant
PublicInputHash(envelope) == envelope.inputs

ApiAnswer(p) ==
  /\ At(p, "api") /\ proc[p].cmd \in {"verify", "registry"}
  /\ Exit(p)
  /\ UNCHANGED <<files, world, counts>>

\* A registration may take effect although its answer is lost.
ApiRegister(p) ==
  LET url == proc[p].client.url  e == proc[p].envelope IN
  /\ At(p, "api") /\ proc[p].cmd = "register"
  /\ e.valid /\ e.inputs \notin ledgers[url].revoked
  /\ ledgers' = [ledgers EXCEPT ![url].proved = @ \cup {e.inputs}]
  /\ \/ Exit(p) /\ UNCHANGED claimed
     \/ Exit(p) /\ claimed' = claimed \cup {<<url, e.inputs>>}
  /\ UNCHANGED <<files, deployed, counts>>

ApiStatus(p) ==
  LET url == proc[p].client.url  e == proc[p].envelope
      hash == PublicInputHash(e)
      status == CASE hash \in ledgers[url].revoked -> "REVOKED"
                  [] hash \in ledgers[url].proved -> "PROVED"
                  [] OTHER -> "NONE"
  IN
  /\ At(p, "api") /\ proc[p].cmd = "status"
  /\ proc' = [proc EXCEPT ![p] = Done(
                [status |-> status, claimed |-> <<url, e.inputs>> \in claimed])]
  /\ UNCHANGED <<files, world, counts>>

-----------------------------------------------------------------------------
\* cmdDeploy() waits for forge, which sends the transactions of Deploy.s.sol one
\* after another and fails at the first that does.
DeployTxs == <<"implementation", "proxy", "adapters", "circuits", "smoke">>
Proxy == 2
Taken == {proc[p].patch.proxy : p \in Running}

ForgeTx(p) ==
  LET d == proc[p].patch.proxy IN
  /\ At(p, "deploy")
  /\ \/ d = None
        /\ \E e \in Deployments \ Taken :
             deployed[e] = 0 /\ proc' = [proc EXCEPT ![p].patch.proxy = e]
        /\ UNCHANGED deployed
     \/ d # None /\ deployed[d] < Len(DeployTxs)
        /\ deployed' = [deployed EXCEPT ![d] = @ + 1]
        /\ UNCHANGED proc
  /\ UNCHANGED <<files, ledgers, claimed, counts>>

\* parseDeployBroadcast() of what a forge that succeeded printed; save() then
\* loads the profile to merge with.
RecordAnyStatus(p) ==    \* mutant: forge's exit status is not looked at
  /\ At(p, "deploy") /\ proc[p].patch.proxy # None
  /\ deployed[proc[p].patch.proxy] >= Proxy
  /\ Goto(p, "read")
  /\ UNCHANGED <<files, world, counts>>
Record(p) ==
  /\ At(p, "deploy") /\ proc[p].patch.proxy # None
  /\ deployed[proc[p].patch.proxy] = Len(DeployTxs)
  /\ Goto(p, "read")
  /\ UNCHANGED <<files, world, counts>>

-----------------------------------------------------------------------------
\* By hand: a profile edited or deleted, as the error of env set advises; the
\* inputs; a proof file that does not verify.
Edit == edits < MaxEdits /\ edits' = edits + 1

EditProfile(env) ==
  LET i == names[Path(env)] IN
  /\ Edit /\ i # None
  /\ \E c \in Credentials, private \in BOOLEAN :
       disk' = [disk EXCEPT ![i] = [doc |-> Profile(c.url, c.secret, None), private |-> private]]
  /\ UNCHANGED <<names, proofFile, inputs, world, proc, clock, commands>>

DeleteProfile(env) ==
  /\ Edit /\ names[Path(env)] # None
  /\ names' = [names EXCEPT ![Path(env)] = None]
  /\ UNCHANGED <<disk, proofFile, inputs, world, proc, clock, commands>>

EditInputs ==
  /\ Edit /\ inputs' \in Inputs \cup {None}
  /\ UNCHANGED <<names, disk, proofFile, world, proc, clock, commands>>

EditProof ==
  /\ Edit /\ proofFile # None
  /\ proofFile' = [proofFile EXCEPT !.valid = FALSE]
  /\ UNCHANGED <<names, disk, inputs, world, proc, clock, commands>>

\* The registry's owner revokes a proof.
Revoke(url) ==
  /\ Edit
  /\ \E x \in ledgers[url].proved :
       ledgers' = [ledgers EXCEPT ![url].revoked = @ \cup {x}]
  /\ UNCHANGED <<files, deployed, claimed, proc, clock, commands>>

Tick ==
  /\ clock < MaxTime /\ clock' = clock + 1
  /\ UNCHANGED <<files, world, proc, commands, edits>>

CliNext ==
  \/ \E p \in Procs :
       \/ \E cmd \in Commands, env \in Envs : Run(p, cmd, env)
       \/ UsageError(p) \/ EnvSet(p) \/ Dispatch(p) \/ Fail(p) \/ Kill(p) \/ Local(p)
       \/ Exists(p) \/ LoadRead(p) \/ LoadStat(p)
       \/ SaveOpen(p) \/ SaveWrite(p) \/ SaveRename(p) \/ SaveChmod(p)
       \/ New(p) \/ ReadInputs(p) \/ Truncate(p) \/ WriteEnvelope(p)
       \/ ReadEnvelope(p) \/ EngineVerify(p)
       \/ ApiAnswer(p) \/ ApiRegister(p) \/ ApiStatus(p)
       \/ ForgeTx(p) \/ Record(p)
  \/ \E env \in Envs : EditProfile(env) \/ DeleteProfile(env)
  \/ EditInputs \/ EditProof
  \/ \E url \in Urls : Revoke(url)
  \/ Tick

CliSpec == CliInit /\ [][CliNext]_vars

-----------------------------------------------------------------------------
\* A secret signs requests only to the API it was given for, whatever saves,
\* edits and crashes the profile went through (clientFor(), cli.ts; save(),
\* env.ts).
SecretStaysWithUrl ==
  \A p \in Running : proc[p].client \in Credentials \cup {None}

\* A profile names only registries whose deployment ran to its end, although
\* forge may stop after the proxy is there (cmdDeploy(), commands.ts).
RecordedRegistryIsComplete ==
  \A env \in Envs :
    LET i == names[Path(env)] IN
    i # None /\ disk[i].doc # None /\ disk[i].doc.proxy # None =>
      deployed[disk[i].doc.proxy] = Len(DeployTxs)

\* zk status never answers NONE for inputs that a zk register under the same API
\* exited 0 for, whichever proof of them the file holds by then (cmdRegister(),
\* cmdStatus(), commands.ts).
StatusFindsRegistered ==
  \A p \in Procs :
    LET c == proc[p] IN
    c.at = "done" /\ c.answer # None /\ c.answer.claimed => c.answer.status # "NONE"
=============================================================================
