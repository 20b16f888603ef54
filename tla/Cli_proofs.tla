------------------------------ MODULE Cli_proofs ------------------------------
(***************************************************************************)
(* Proofs about the command line, for any number of processes, profiles,   *)
(* credentials, proofs, deployments, files and hand edits.                 *)
(***************************************************************************)
EXTENDS Cli, TLAPS

Labels == {"args", "exists", "read", "stat", "tmp", "fill", "rename", "chmod", "new",
           "inputs", "truncate", "write", "envelope", "engine", "api", "deploy", "local"}

Secrets == {c.secret : c \in Credentials}
Clients == [url : Urls, secret : Secrets]
Docs == [url : Urls \cup {None}, secret : Secrets \cup {None}, proxy : Deployments \cup {None}]
Envelopes == [inputs : Inputs, proof : ProofIds, valid : BOOLEAN]
Answers == [status : {"NONE", "PROVED", "REVOKED"}, claimed : BOOLEAN]

CommandType ==
  [at : Labels, cmd : Commands, env : Envs, patch : Docs, raw : Docs \cup {None},
   tmp : Names \cup {None}, fd : Inodes \cup {None}, client : Clients \cup {None},
   envelope : Envelopes \cup {None}]
DoneType == [at : {"done"}, answer : Answers \cup {None}]

-----------------------------------------------------------------------------
\* A document holds the secret of its url, or neither.
Kept(doc) ==
  \/ doc.url = None /\ doc.secret = None
  \/ [url |-> doc.url, secret |-> doc.secret] \in Credentials

\* A document names a deployment that ran to its end, or none.
Finished(doc, mined) == doc.proxy # None => mined[doc.proxy] = 5

\* What a command has read by the time it uses it.
Placed(c) ==
  /\ c.at = "exists" => c.cmd \in {"set", "show"}
  /\ c.at = "deploy" => c.cmd = "deploy"
  /\ c.at = "fill" => c.fd \in Inodes
  /\ c.at \in {"fill", "rename"} => c.tmp \in Names
  /\ c.at = "api" \/ (c.at = "envelope" /\ c.cmd # "offline")
       \/ (c.at = "engine" /\ c.cmd = "verify") => c.client \in Clients
  /\ c.at \in {"engine", "api"} /\ c.cmd # "registry" => c.envelope \in Envelopes

\* Credentials stay together in whatever a command holds.  A deployment brings
\* none of its own to the profile it is merged with.
HoldsKept(c) ==
  /\ Kept(c.patch)
  /\ c.raw # None => Kept(c.raw)
  /\ c.client # None => c.client \in Credentials
  /\ c.cmd = "deploy" /\ c.at \in {"args", "deploy", "read", "stat"} =>
       c.patch.url = None /\ c.patch.secret = None

\* A deployment that is still under way is held by nobody but its command.
HoldsFinished(c, mined) ==
  /\ c.raw # None => Finished(c.raw, mined)
  /\ c.cmd # "deploy" => c.patch.proxy = None
  /\ c.at \in {"read", "stat", "tmp", "fill"} => Finished(c.patch, mined)

CommandOK(c, mined) == Placed(c) /\ HoldsKept(c) /\ HoldsFinished(c, mined)

DocOK(doc, mined) == doc # None => Kept(doc) /\ Finished(doc, mined)

FilesOK ==
  /\ names \in [Names -> Inodes \cup {None}]
  /\ disk \in [Inodes -> [doc : Docs \cup {None}, private : BOOLEAN]]
  /\ proofFile \in Envelopes \cup {None}
  /\ inputs \in Inputs \cup {"template", None}
  /\ \A i \in Inodes : DocOK(disk[i].doc, deployed)

\* A registration that exited 0 is on the ledger of its API.
WorldOK ==
  /\ deployed \in [Deployments -> 0 .. 5]
  /\ ledgers \in [Urls -> [proved : SUBSET Inputs, revoked : SUBSET Inputs]]
  /\ claimed \subseteq Urls \X Inputs
  /\ \A t \in claimed : t[2] \in ledgers[t[1]].proved

ProcsOK ==
  /\ proc \in [Procs -> CommandType \cup DoneType]
  /\ \A p \in Running : CommandOK(proc[p], deployed)
  /\ StatusFindsRegistered

CliInv == FilesOK /\ WorldOK /\ ProcsOK /\ clock \in 0 .. MaxTime

-----------------------------------------------------------------------------
LEMMA DeployTxsLen == Len(DeployTxs) = 5
<1> QED
  BY DEF DeployTxs

\* A profile's document.
LEMMA ProfileDoc ==
  ASSUME NEW url \in Urls \cup {None}, NEW secret \in Secrets \cup {None},
         NEW proxy \in Deployments \cup {None}
  PROVE  /\ Profile(url, secret, proxy) \in Docs
         /\ Profile(url, secret, proxy).url = url
         /\ Profile(url, secret, proxy).secret = secret
         /\ Profile(url, secret, proxy).proxy = proxy
<1> QED
  BY DEF Profile, Docs

LEMMA CredentialDoc ==
  ASSUME NEW c \in Credentials
  PROVE  /\ c.url \in Urls /\ c.secret \in Secrets
         /\ Profile(c.url, c.secret, None) \in Docs
         /\ Profile(c.url, c.secret, None).proxy = None
         /\ Kept(Profile(c.url, c.secret, None))
<1>1. c.url \in Urls /\ c.secret \in Secrets /\ c = [url |-> c.url, secret |-> c.secret]
  BY CliAssumption DEF Urls, Secrets
<1> QED
  BY <1>1, ProfileDoc DEF Kept

\* Merging with the profile of a deployment keeps url and secret.
LEMMA MergeDoc ==
  ASSUME NEW old \in Docs, NEW new \in Docs
  PROVE  /\ Merge(old, new) \in Docs
         /\ Merge(old, new).url = IF new.url # None THEN new.url ELSE old.url
         /\ Merge(old, new).secret = IF new.secret # None THEN new.secret ELSE old.secret
         /\ Merge(old, new).proxy = IF new.proxy # None THEN new.proxy ELSE old.proxy
<1>1. DOMAIN old = {"url", "secret", "proxy"}
  BY DEF Docs
<1>2. Merge(old, new) = [url    |-> IF new.url # None THEN new.url ELSE old.url,
                         secret |-> IF new.secret # None THEN new.secret ELSE old.secret,
                         proxy  |-> IF new.proxy # None THEN new.proxy ELSE old.proxy]
  BY <1>1 DEF Merge
<1> QED
  BY <1>2 DEF Docs

-----------------------------------------------------------------------------
\* The process that moved is the only one to look at.
LEMMA ProcMoves ==
  ASSUME ProcsOK, NEW p \in Procs, NEW d \in CommandType, CommandOK(d, deployed),
         proc' = [proc EXCEPT ![p] = d], UNCHANGED deployed
  PROVE  ProcsOK'
<1>1. proc' \in [Procs -> CommandType \cup DoneType]
  BY DEF ProcsOK
<1>2. d.at # "done"
  BY DEF CommandType, Labels
<1>3. \A q \in Procs : proc'[q] = IF q = p THEN d ELSE proc[q]
  BY DEF ProcsOK
<1>4. \A q \in Running' : CommandOK(proc'[q], deployed')
  BY <1>3 DEF ProcsOK, Running
<1>5. StatusFindsRegistered'
  BY <1>2, <1>3 DEF ProcsOK, StatusFindsRegistered
<1> QED
  BY <1>1, <1>4, <1>5 DEF ProcsOK

LEMMA ProcEnds ==
  ASSUME ProcsOK, NEW p \in Procs, NEW answer \in Answers \cup {None},
         answer # None /\ answer.claimed => answer.status # "NONE",
         proc' = [proc EXCEPT ![p] = Done(answer)], UNCHANGED deployed
  PROVE  ProcsOK'
<1>1. Done(answer) \in DoneType /\ Done(answer).at = "done" /\ Done(answer).answer = answer
  BY DEF Done, DoneType
<1>2. proc' \in [Procs -> CommandType \cup DoneType]
  BY <1>1 DEF ProcsOK
<1>3. \A q \in Procs : proc'[q] = IF q = p THEN Done(answer) ELSE proc[q]
  BY DEF ProcsOK
<1>4. \A q \in Running' : CommandOK(proc'[q], deployed')
  BY <1>1, <1>3, <1>4 DEF ProcsOK, Running
<1>5. StatusFindsRegistered'
  BY <1>1, <1>3 DEF ProcsOK, StatusFindsRegistered
<1> QED
  BY <1>2, <1>4, <1>5 DEF ProcsOK

LEMMA ProcsStay == ProcsOK /\ UNCHANGED <<proc, deployed>> => ProcsOK'
<1> QED
  BY DEF ProcsOK, Running, StatusFindsRegistered

LEMMA ExitKeeps ==
  ASSUME ProcsOK, NEW p \in Procs, Exit(p), UNCHANGED deployed
  PROVE  ProcsOK'
<1> QED
  BY ProcEnds DEF Exit

\* A running process has a command, and going on is all that changes of it.
LEMMA RunningCommand ==
  ASSUME ProcsOK, NEW p \in Procs, proc[p].at # "done"
  PROVE  proc[p] \in CommandType /\ CommandOK(proc[p], deployed)
<1> QED
  BY DEF ProcsOK, Running, DoneType

LEMMA GoesOn ==
  ASSUME NEW c \in CommandType, NEW label \in Labels
  PROVE  LET d == [c EXCEPT !.at = label] IN
         /\ d \in CommandType /\ d.at = label
         /\ d.cmd = c.cmd /\ d.env = c.env /\ d.patch = c.patch /\ d.raw = c.raw
         /\ d.tmp = c.tmp /\ d.fd = c.fd /\ d.client = c.client /\ d.envelope = c.envelope
<1> QED
  BY DEF CommandType

LEMMA GotoKeeps ==
  ASSUME ProcsOK, NEW p \in Procs, proc[p].at # "done", NEW label \in Labels, Goto(p, label),
         CommandOK([proc[p] EXCEPT !.at = label], deployed), UNCHANGED deployed
  PROVE  ProcsOK'
<1>1. proc' = [proc EXCEPT ![p] = [proc[p] EXCEPT !.at = label]]
  BY DEF Goto
<1> QED
  BY <1>1, RunningCommand, GoesOn, ProcMoves

LEMMA ThrowKeeps ==
  ASSUME ProcsOK, NEW p \in Procs, proc[p].at # "done", Throw(p), UNCHANGED deployed
  PROVE  ProcsOK'
<1>1. CASE proc[p].cmd = "deploy" /\ proc[p].at \in {"read", "stat"}
  <2>1. Goto(p, "tmp")
    BY <1>1 DEF Throw
  <2>2. CommandOK([proc[p] EXCEPT !.at = "tmp"], deployed)
    BY <1>1, RunningCommand, GoesOn
    DEF Labels, CommandOK, Placed, HoldsKept, HoldsFinished, Finished
  <2> QED
    BY <2>1, <2>2, GotoKeeps DEF Labels
<1>2. CASE ~(proc[p].cmd = "deploy" /\ proc[p].at \in {"read", "stat"})
  BY <1>2, ExitKeeps DEF Throw
<1> QED
  BY <1>1, <1>2

LEMMA FilesStay == FilesOK /\ UNCHANGED <<files, deployed>> => FilesOK'
<1> QED
  BY DEF FilesOK, files

LEMMA WorldStays == WorldOK /\ UNCHANGED world => WorldOK'
<1> QED
  BY DEF WorldOK, world

\* Steps of one process that touch nothing else.
LEMMA LocalStep ==
  ASSUME CliInv, UNCHANGED <<files, world, counts>>, ProcsOK'
  PROVE  CliInv'
<1> QED
  BY FilesStay, WorldStays DEF CliInv, world, counts

LEMMA EndsStep ==
  ASSUME CliInv, NEW p \in Procs, Exit(p), UNCHANGED <<files, world, counts>>
  PROVE  CliInv'
<1> QED
  BY ExitKeeps, LocalStep DEF CliInv, world

LEMMA ThrowStep ==
  ASSUME CliInv, NEW p \in Procs, proc[p].at # "done", Throw(p),
         UNCHANGED <<files, world, counts>>
  PROVE  CliInv'
<1> QED
  BY ThrowKeeps, LocalStep DEF CliInv, world

LEMMA GotoStep ==
  ASSUME CliInv, NEW p \in Procs, proc[p].at # "done", NEW label \in Labels, Goto(p, label),
         CommandOK([proc[p] EXCEPT !.at = label], deployed), UNCHANGED <<files, world, counts>>
  PROVE  CliInv'
<1> QED
  BY GotoKeeps, LocalStep DEF CliInv, world

-----------------------------------------------------------------------------
\* Starting, ending and failing.
LEMMA RunStep ==
  ASSUME CliInv, NEW p \in Procs, NEW cmd \in Commands, NEW env \in Envs, Run(p, cmd, env)
  PROVE  CliInv'
<1> DEFINE d == Command(cmd, env)
<1>1. /\ d \in CommandType /\ d.at = "args" /\ d.raw = None /\ d.client = None
      /\ d.patch = NoProfile
  BY ProfileDoc DEF CommandType, Command, Labels, NoProfile
<1>2. NoProfile.url = None /\ NoProfile.secret = None /\ NoProfile.proxy = None
  BY DEF NoProfile, Profile
<1>3. CommandOK(d, deployed)
  BY <1>1, <1>2 DEF CommandOK, Placed, HoldsKept, HoldsFinished, Kept, Finished
<1>4. ProcsOK'
  BY <1>1, <1>3, ProcMoves DEF Run, CliInv, world
<1> QED
  BY <1>4, FilesStay, WorldStays DEF Run, CliInv, world

LEMMA EndStep ==
  ASSUME CliInv, NEW p \in Procs, UsageError(p) \/ Kill(p) \/ Local(p) \/ ApiAnswer(p)
  PROVE  CliInv'
<1> QED
  BY EndsStep DEF UsageError, Kill, Local, ApiAnswer, At

LEMMA FailStep ==
  ASSUME CliInv, NEW p \in Procs, Fail(p)
  PROVE  CliInv'
<1> QED
  BY ThrowStep DEF Fail

LEMMA EnvSetStep ==
  ASSUME CliInv, NEW p \in Procs, EnvSet(p)
  PROVE  CliInv'
<1> DEFINE c == proc[p]
<1>1. c.at = "args" /\ c.cmd = "set" /\ UNCHANGED <<files, world, counts>>
  BY DEF EnvSet, At
<1>2. PICK k \in Credentials :
        proc' = [proc EXCEPT ![p].at = "exists", ![p].patch = Profile(k.url, k.secret, None)]
  BY DEF EnvSet
<1> DEFINE d == [c EXCEPT !.at = "exists", !.patch = Profile(k.url, k.secret, None)]
<1>3. c \in CommandType /\ CommandOK(c, deployed)
  BY <1>1, RunningCommand DEF CliInv
<1>4. /\ d \in CommandType
      /\ d.at = "exists" /\ d.cmd = "set" /\ d.patch = Profile(k.url, k.secret, None)
      /\ d.raw = c.raw /\ d.client = c.client
  BY <1>1, <1>3, CredentialDoc DEF CommandType, Labels
<1>5. CommandOK(d, deployed)
  BY <1>3, <1>4, CredentialDoc DEF CommandOK, Placed, HoldsKept, HoldsFinished
<1>6. proc' = [proc EXCEPT ![p] = d]
  BY <1>2 DEF CliInv, ProcsOK
<1> HIDE DEF d
<1> QED
  BY <1>1, <1>4, <1>5, <1>6, ProcMoves, LocalStep DEF CliInv, world

\* Going on to an await at which nothing is asked of what the command holds but
\* what it held before.
LEMMA PlainGoto ==
  ASSUME CliInv, NEW p \in Procs, proc[p].at # "done",
         NEW label \in Labels \ {"fill", "rename", "envelope", "engine", "api"},
         label = "exists" => proc[p].cmd \in {"set", "show"},
         label = "deploy" => proc[p].cmd = "deploy",
         label \in {"args", "deploy", "read", "stat"} =>
           proc[p].cmd # "deploy" \/ proc[p].at \in {"args", "deploy", "read", "stat"},
         label \in {"read", "stat", "tmp", "fill"} => Finished(proc[p].patch, deployed),
         Goto(p, label), UNCHANGED <<files, world, counts>>
  PROVE  CliInv'
<1> DEFINE d == [proc[p] EXCEPT !.at = label]
<1>1. proc[p] \in CommandType /\ CommandOK(proc[p], deployed)
  BY RunningCommand DEF CliInv
<1>2. /\ d.at = label /\ d.cmd = proc[p].cmd /\ d.patch = proc[p].patch
      /\ d.raw = proc[p].raw /\ d.client = proc[p].client
  BY <1>1, GoesOn
<1>3. CommandOK(d, deployed)
  BY <1>1, <1>2 DEF CommandOK, Placed, HoldsKept, HoldsFinished
<1> QED
  BY <1>3, GotoStep

LEMMA DispatchStep ==
  ASSUME CliInv, NEW p \in Procs, Dispatch(p)
  PROVE  CliInv'
<1> DEFINE c == proc[p]
<1>1. c.at = "args" /\ c.cmd # "set" /\ Goto(p, Entry(c.cmd)) /\ UNCHANGED <<files, world, counts>>
  BY DEF Dispatch, At
<1>2. c \in CommandType /\ CommandOK(c, deployed) /\ c.cmd \in Commands
  BY <1>1, RunningCommand DEF CliInv, CommandType
<1>3. CASE c.cmd = "offline"
  <2>1. Entry(c.cmd) = "envelope"
    BY <1>3 DEF Entry
  <2>2. CommandOK([c EXCEPT !.at = "envelope"], deployed)
    BY <1>2, <1>3, GoesOn DEF CommandOK, Placed, HoldsKept, HoldsFinished, Labels
  <2> QED
    BY <1>1, <2>1, <2>2, GotoStep DEF Labels
<1>4. CASE c.cmd # "offline"
  <2>1. /\ Entry(c.cmd) \in {"exists", "read", "inputs", "deploy", "new", "local"}
        /\ Entry(c.cmd) = "read" => c.cmd # "deploy"
        /\ Entry(c.cmd) = "exists" => c.cmd = "show"
        /\ Entry(c.cmd) = "deploy" => c.cmd = "deploy"
    BY <1>1, <1>2, <1>4 DEF Entry, Commands
  <2>2. Entry(c.cmd) = "read" => Finished(c.patch, deployed)
    BY <1>2, <2>1 DEF CommandOK, HoldsFinished, Finished
  <2> HIDE DEF c
  <2> QED
    BY <1>1, <2>1, <2>2, PlainGoto DEF Labels, c
<1> QED
  BY <1>3, <1>4

-----------------------------------------------------------------------------
\* Reading a profile.
LEMMA ExistsStep ==
  ASSUME CliInv, NEW p \in Procs, Exists(p)
  PROVE  CliInv'
<1>1. proc[p].at = "exists" /\ UNCHANGED <<files, world, counts>>
  BY DEF Exists, At
<1>2. proc[p].cmd # "deploy" /\ Finished(proc[p].patch, deployed)
  BY <1>1, RunningCommand DEF CliInv, CommandOK, Placed, HoldsFinished, Finished
<1>3. Throw(p) \/ Goto(p, "tmp") \/ Goto(p, "read")
  BY DEF Exists
<1> QED
  BY <1>1, <1>2, <1>3, ThrowStep, PlainGoto DEF Labels

LEMMA NamesOf ==
  ASSUME CliInv, NEW p \in Procs, proc[p].at # "done"
  PROVE  /\ proc[p].env \in Envs
         /\ Path(proc[p].env) \in Names /\ Tmp(proc[p].env, clock) \in Names
<1>1. proc[p].env \in Envs
  BY RunningCommand DEF CliInv, CommandType
<1>2. clock \in 0 .. MaxTime
  BY DEF CliInv
<1> QED
  BY <1>1, <1>2 DEF Names, Path, Tmp

LEMMA LoadReadStep ==
  ASSUME CliInv, NEW p \in Procs, LoadRead(p)
  PROVE  CliInv'
<1> DEFINE c == proc[p]
           i == names[Path(c.env)]
           d == [c EXCEPT !.at = "stat", !.raw = disk[i].doc]
<1>1. c.at = "read" /\ UNCHANGED <<files, world, counts>>
  BY DEF LoadRead, At
<1>2. c \in CommandType /\ CommandOK(c, deployed) /\ Path(c.env) \in Names
  BY <1>1, RunningCommand, NamesOf DEF CliInv
<1>3. CASE i = None
  BY <1>1, <1>3, ThrowStep DEF LoadRead
<1>4. CASE i # None
  <2>1. i \in Inodes /\ disk[i].doc \in Docs \cup {None} /\ DocOK(disk[i].doc, deployed)
    BY <1>2, <1>4 DEF CliInv, FilesOK
  <2>2. /\ d \in CommandType
        /\ d.at = "stat" /\ d.cmd = c.cmd /\ d.patch = c.patch
        /\ d.raw = disk[i].doc /\ d.client = c.client
    BY <1>2, <2>1 DEF CommandType, Labels
  <2>3. CommandOK(d, deployed)
    BY <1>1, <1>2, <2>1, <2>2 DEF CommandOK, Placed, HoldsKept, HoldsFinished, DocOK
  <2>4. proc' = [proc EXCEPT ![p] = d]
    BY <1>4 DEF LoadRead, CliInv, ProcsOK
  <2> HIDE DEF d
  <2> QED
    BY <1>1, <2>2, <2>3, <2>4, ProcMoves, LocalStep DEF CliInv, world
<1> QED
  BY <1>3, <1>4

\* What load() returns: credentials that are there belong together.
LEMMA LoadStatStep ==
  ASSUME CliInv, NEW p \in Procs, LoadStat(p)
  PROVE  CliInv'
<1> DEFINE c == proc[p]
<1>1. c.at = "stat" /\ UNCHANGED <<files, world, counts>>
  BY DEF LoadStat, At
<1>2. c \in CommandType /\ CommandOK(c, deployed)
  BY <1>1, RunningCommand DEF CliInv
<1>3. CASE Throw(p)
  BY <1>1, <1>3, ThrowStep
<1>4. CASE /\ c.raw # None /\ c.raw.url # None /\ c.raw.secret # None
           /\ proc' = [proc EXCEPT ![p] = Loaded(p)]
  <2>1. /\ c.raw \in Docs /\ c.patch \in Docs
        /\ Kept(c.raw) /\ Finished(c.raw, deployed) /\ Finished(c.patch, deployed)
        /\ c.cmd = "deploy" => c.patch.url = None /\ c.patch.secret = None
    BY <1>1, <1>2, <1>4 DEF CommandType, CommandOK, HoldsKept, HoldsFinished
  <2>2. [url |-> c.raw.url, secret |-> c.raw.secret] \in Credentials
    BY <1>4, <2>1 DEF Kept
  <2>3. CASE c.cmd = "deploy"
    <3> DEFINE m == Merge(c.raw, c.patch)
               d == [c EXCEPT !.at = "tmp", !.raw = None, !.patch = m]
    <3>1. /\ m \in Docs /\ m.url = c.raw.url /\ m.secret = c.raw.secret
          /\ m.proxy = IF c.patch.proxy # None THEN c.patch.proxy ELSE c.raw.proxy
      BY <2>1, <2>3, MergeDoc
    <3>2. Kept(m) /\ Finished(m, deployed)
      BY <2>1, <2>2, <3>1 DEF Kept, Finished
    <3> HIDE DEF m
    <3>3. /\ d \in CommandType
          /\ d.at = "tmp" /\ d.cmd = "deploy" /\ d.patch = m /\ d.raw = None
          /\ d.client = c.client
      BY <1>2, <2>3, <3>1 DEF CommandType, Labels
    <3>4. CommandOK(d, deployed)
      BY <1>2, <3>2, <3>3 DEF CommandOK, Placed, HoldsKept, HoldsFinished
    <3>5. Loaded(p) = d
      BY <2>3 DEF Loaded, m
    <3> HIDE DEF d
    <3> QED
      BY <1>1, <1>4, <3>3, <3>4, <3>5, ProcMoves, LocalStep DEF CliInv, world
  <2>4. CASE c.cmd = "show"
    BY <1>1, <1>4, <2>4, EndsStep DEF Loaded, Exit
  <2>5. CASE c.cmd \notin {"deploy", "show"}
    <3> DEFINE k == [url |-> c.raw.url, secret |-> c.raw.secret]
               l == IF c.cmd = "registry" THEN "api" ELSE "envelope"
               d == [c EXCEPT !.at = l, !.raw = None, !.client = k]
    <3>1. k \in Clients
      BY <2>2, CredentialDoc DEF Clients
    <3>2. Loaded(p) = d
      BY <2>5 DEF Loaded
    <3>3. l \in {"api", "envelope"} /\ (l = "api" <=> c.cmd = "registry")
      OBVIOUS
    <3> HIDE DEF k, l
    <3>4. /\ d \in CommandType
          /\ d.at = l /\ d.cmd = c.cmd /\ d.patch = c.patch /\ d.raw = None
          /\ d.client = k
      BY <1>2, <3>1, <3>3 DEF CommandType, Labels
    <3>5. k \in Credentials
      BY <2>2 DEF k
    <3>6. CommandOK(d, deployed)
      BY <1>2, <2>5, <3>1, <3>3, <3>4, <3>5 DEF CommandOK, Placed, HoldsKept, HoldsFinished
    <3> HIDE DEF d
    <3> QED
      BY <1>1, <1>4, <3>2, <3>4, <3>6, ProcMoves, LocalStep DEF CliInv, world
  <2> QED
    BY <2>3, <2>4, <2>5
<1> QED
  BY <1>3, <1>4 DEF LoadStat

-----------------------------------------------------------------------------
\* Writing a profile.
LEMMA SaveOpenStep ==
  ASSUME CliInv, NEW p \in Procs, SaveOpen(p)
  PROVE  CliInv'
<1> DEFINE c == proc[p]
           tmp == Tmp(c.env, clock)
           i == IF names[tmp] = None THEN FreeInode ELSE names[tmp]
           d == [c EXCEPT !.at = "fill", !.tmp = tmp, !.fd = i]
<1>1. c.at = "tmp" /\ UNCHANGED <<proofFile, inputs, world, counts>>
  BY DEF SaveOpen, At
<1>2. c \in CommandType /\ CommandOK(c, deployed) /\ tmp \in Names
  BY <1>1, RunningCommand, NamesOf DEF CliInv
<1>3. i \in Inodes
  <2>1. CASE names[tmp] = None
    <3>1. Inodes \ InUse # {}
      BY <2>1 DEF SaveOpen
    <3> QED
      BY <2>1, <3>1 DEF FreeInode
  <2>2. CASE names[tmp] # None
    BY <1>2, <2>2 DEF CliInv, FilesOK
  <2> QED
    BY <2>1, <2>2
<1>4. /\ names' = [names EXCEPT ![tmp] = i]
      /\ \E private : disk' = [disk EXCEPT ![i] = [doc |-> None, private |-> private]]
                      /\ private \in BOOLEAN
      /\ proc' = [proc EXCEPT ![p] = d]
  <2>1. proc' = [proc EXCEPT ![p].at = "fill", ![p].tmp = tmp, ![p].fd = i]
    BY DEF SaveOpen
  <2>2. proc' = [proc EXCEPT ![p] = d]
    BY <2>1 DEF CliInv, ProcsOK
  <2>3. disk' = [disk EXCEPT ![i] = [doc |-> None, private |->
                   IF names[tmp] = None THEN TRUE ELSE disk[i].private]]
    BY DEF SaveOpen
  <2>4. disk[i].private \in BOOLEAN
    BY <1>3 DEF CliInv, FilesOK
  <2> QED
    BY <2>2, <2>3, <2>4 DEF SaveOpen
<1>5. FilesOK'
  BY <1>1, <1>2, <1>3, <1>4 DEF CliInv, FilesOK, world, DocOK
<1>6. /\ d \in CommandType
      /\ d.at = "fill" /\ d.cmd = c.cmd /\ d.patch = c.patch /\ d.raw = c.raw
      /\ d.client = c.client /\ d.tmp = tmp /\ d.fd = i
  BY <1>2, <1>3 DEF CommandType, Labels
<1> HIDE DEF d
<1>7. CommandOK(d, deployed)
  BY <1>1, <1>2, <1>3, <1>6 DEF CommandOK, Placed, HoldsKept, HoldsFinished
<1>8. ProcsOK'
  BY <1>1, <1>4, <1>6, <1>7, ProcMoves DEF CliInv, world
<1> QED
  BY <1>1, <1>5, <1>8, WorldStays DEF CliInv, counts

LEMMA SaveWriteStep ==
  ASSUME CliInv, NEW p \in Procs, SaveWrite(p)
  PROVE  CliInv'
<1> DEFINE c == proc[p]
           d == [c EXCEPT !.at = "rename", !.fd = None]
<1>1. c.at = "fill" /\ UNCHANGED <<names, proofFile, inputs, world, counts>>
  BY DEF SaveWrite, At
<1>2. c \in CommandType /\ CommandOK(c, deployed)
  BY <1>1, RunningCommand DEF CliInv
<1>3. /\ c.fd \in Inodes /\ c.tmp \in Names /\ c.patch \in Docs
      /\ DocOK(c.patch, deployed)
  BY <1>1, <1>2 DEF CommandType, CommandOK, Placed, HoldsKept, HoldsFinished, DocOK
<1>4. \E doc \in {c.patch, None} : disk' = [disk EXCEPT ![c.fd].doc = doc]
  BY DEF SaveWrite
<1>5. DocOK(None, deployed)
  BY DEF DocOK
<1>6. FilesOK'
  BY <1>1, <1>3, <1>4, <1>5 DEF CliInv, FilesOK, world
<1>7. /\ d \in CommandType
      /\ d.at = "rename" /\ d.cmd = c.cmd /\ d.patch = c.patch /\ d.raw = c.raw
      /\ d.client = c.client /\ d.tmp = c.tmp
  BY <1>2 DEF CommandType, Labels
<1>8. proc' = [proc EXCEPT ![p] = d]
  BY DEF SaveWrite, CliInv, ProcsOK
<1> HIDE DEF d
<1>9. CommandOK(d, deployed)
  BY <1>1, <1>2, <1>3, <1>7 DEF CommandOK, Placed, HoldsKept, HoldsFinished
<1>10. ProcsOK'
  BY <1>1, <1>7, <1>8, <1>9, ProcMoves DEF CliInv, world
<1> QED
  BY <1>1, <1>6, <1>10, WorldStays DEF CliInv, counts

LEMMA SaveRenameStep ==
  ASSUME CliInv, NEW p \in Procs, SaveRename(p)
  PROVE  CliInv'
<1> DEFINE c == proc[p]
           i == names[c.tmp]
<1>1. c.at = "rename" /\ UNCHANGED <<disk, proofFile, inputs, world, counts>>
  BY DEF SaveRename, At
<1>2. c \in CommandType /\ CommandOK(c, deployed) /\ Path(c.env) \in Names /\ c.tmp \in Names
  BY <1>1, RunningCommand, NamesOf DEF CliInv, CommandOK, Placed
<1>3. CASE i = None
  BY <1>1, <1>3, ThrowStep DEF SaveRename, files
<1>4. CASE i # None
  <2>1. i \in Inodes
    BY <1>2, <1>4 DEF CliInv, FilesOK
  <2>2. names' = [names EXCEPT ![Path(c.env)] = i, ![c.tmp] = None] /\ Goto(p, "chmod")
    BY <1>4 DEF SaveRename
  <2>3. FilesOK'
    BY <1>1, <1>2, <2>1, <2>2 DEF CliInv, FilesOK, world
  <2>4. CommandOK([c EXCEPT !.at = "chmod"], deployed)
    BY <1>2, GoesOn DEF CommandOK, Placed, HoldsKept, HoldsFinished, Labels
  <2>5. ProcsOK'
    BY <1>1, <2>2, <2>4, GotoKeeps DEF CliInv, world, Labels
  <2> QED
    BY <1>1, <2>3, <2>5, WorldStays DEF CliInv, counts
<1> QED
  BY <1>3, <1>4

LEMMA SaveChmodStep ==
  ASSUME CliInv, NEW p \in Procs, SaveChmod(p)
  PROVE  CliInv'
<1> DEFINE i == names[Path(proc[p].env)]
<1>1. proc[p].at = "chmod" /\ UNCHANGED <<names, proofFile, inputs, world, counts>>
  BY DEF SaveChmod, At
<1>2. CASE i = None
  BY <1>1, <1>2, ThrowStep DEF SaveChmod, files
<1>3. CASE i # None
  <2>1. i \in Inodes
    BY <1>1, <1>3, NamesOf DEF CliInv, FilesOK
  <2>2. disk' = [disk EXCEPT ![i].private = TRUE] /\ Exit(p)
    BY <1>3 DEF SaveChmod
  <2>3. FilesOK'
    BY <1>1, <2>1, <2>2 DEF CliInv, FilesOK, world
  <2> QED
    BY <1>1, <2>2, <2>3, ExitKeeps, WorldStays DEF CliInv, world, counts
<1> QED
  BY <1>2, <1>3

-----------------------------------------------------------------------------
\* The inputs and the proof file.
LEMMA NewStep ==
  ASSUME CliInv, NEW p \in Procs, New(p)
  PROVE  CliInv'
<1>1. FilesOK'
  BY DEF New, CliInv, FilesOK, world
<1> QED
  BY <1>1, ExitKeeps, WorldStays DEF New, CliInv, world, counts

LEMMA ReadInputsStep ==
  ASSUME CliInv, NEW p \in Procs, ReadInputs(p)
  PROVE  CliInv'
<1> DEFINE c == proc[p]
<1>1. c.at = "inputs" /\ UNCHANGED <<files, world, counts>>
  BY DEF ReadInputs, At
<1>2. c \in CommandType /\ CommandOK(c, deployed)
  BY <1>1, RunningCommand DEF CliInv
<1>3. CASE Throw(p)
  BY <1>1, <1>3, ThrowStep
<1>4. ASSUME inputs \in Inputs, NEW id \in ProofIds,
             proc' = [proc EXCEPT ![p].at = "truncate", ![p].envelope = Envelope(inputs, id)]
      PROVE  CliInv'
  <2> DEFINE d == [c EXCEPT !.at = "truncate", !.envelope = Envelope(inputs, id)]
  <2>1. Envelope(inputs, id) \in Envelopes
    BY <1>4 DEF Envelope, Envelopes
  <2>2. /\ d \in CommandType
        /\ d.at = "truncate" /\ d.cmd = c.cmd /\ d.patch = c.patch /\ d.raw = c.raw
        /\ d.client = c.client
    BY <1>2, <2>1 DEF CommandType, Labels
  <2>3. proc' = [proc EXCEPT ![p] = d]
    BY <1>4 DEF CliInv, ProcsOK
  <2> HIDE DEF d
  <2>4. CommandOK(d, deployed)
    BY <1>2, <2>2 DEF CommandOK, Placed, HoldsKept, HoldsFinished
  <2> QED
    BY <1>1, <2>2, <2>3, <2>4, ProcMoves, LocalStep DEF CliInv, world
<1> QED
  BY <1>3, <1>4 DEF ReadInputs, ParseCircuitInputs

LEMMA TruncateStep ==
  ASSUME CliInv, NEW p \in Procs, Truncate(p)
  PROVE  CliInv'
<1>1. proc[p].at = "truncate" /\ UNCHANGED <<names, disk, inputs, world, counts>>
  BY DEF Truncate, At
<1>2. proc[p] \in CommandType /\ CommandOK(proc[p], deployed)
  BY <1>1, RunningCommand DEF CliInv
<1>3. FilesOK'
  BY DEF Truncate, CliInv, FilesOK, world
<1>4. CommandOK([proc[p] EXCEPT !.at = "write"], deployed)
  BY <1>2, GoesOn DEF CommandOK, Placed, HoldsKept, HoldsFinished, Labels
<1>5. ProcsOK'
  BY <1>1, <1>4, GotoKeeps DEF Truncate, CliInv, world, Labels
<1> QED
  BY <1>1, <1>3, <1>5, WorldStays DEF CliInv, counts

LEMMA WriteEnvelopeStep ==
  ASSUME CliInv, NEW p \in Procs, WriteEnvelope(p)
  PROVE  CliInv'
<1>1. proc[p].envelope \in Envelopes \cup {None}
  BY RunningCommand DEF WriteEnvelope, At, CliInv, CommandType
<1>2. FilesOK'
  BY <1>1 DEF WriteEnvelope, CliInv, FilesOK, world
<1> QED
  BY <1>2, ExitKeeps, WorldStays DEF WriteEnvelope, CliInv, world, counts

LEMMA ReadEnvelopeStep ==
  ASSUME CliInv, NEW p \in Procs, ReadEnvelope(p)
  PROVE  CliInv'
<1> DEFINE c == proc[p]
           l == IF c.cmd \in {"verify", "offline"} THEN "engine" ELSE "api"
           d == [c EXCEPT !.envelope = proofFile, !.at = l]
<1>1. c.at = "envelope" /\ UNCHANGED <<files, world, counts>>
  BY DEF ReadEnvelope, At
<1>2. c \in CommandType /\ CommandOK(c, deployed)
  BY <1>1, RunningCommand DEF CliInv
<1>3. CASE proofFile = None
  BY <1>1, <1>3, ThrowStep DEF ReadEnvelope
<1>4. CASE proofFile # None
  <2>1. proofFile \in Envelopes
    BY <1>4 DEF CliInv, FilesOK
  <2>2. l \in {"engine", "api"} /\ (l = "engine" <=> c.cmd \in {"verify", "offline"})
    OBVIOUS
  <2>3. proc' = [proc EXCEPT ![p].envelope = proofFile, ![p].at = l]
    BY <1>4 DEF ReadEnvelope
  <2> HIDE DEF l
  <2>4. /\ d \in CommandType
        /\ d.at = l /\ d.cmd = c.cmd /\ d.patch = c.patch /\ d.raw = c.raw
        /\ d.client = c.client /\ d.envelope = proofFile
    BY <1>2, <2>1, <2>2 DEF CommandType, Labels
  <2>5. proc' = [proc EXCEPT ![p] = d]
    BY <2>3 DEF CliInv, ProcsOK
  <2> HIDE DEF d
  <2>6. CommandOK(d, deployed)
    BY <1>1, <1>2, <2>1, <2>2, <2>4 DEF CommandOK, Placed, HoldsKept, HoldsFinished
  <2> QED
    BY <1>1, <2>4, <2>5, <2>6, ProcMoves, LocalStep DEF CliInv, world
<1> QED
  BY <1>3, <1>4

LEMMA EngineVerifyStep ==
  ASSUME CliInv, NEW p \in Procs, EngineVerify(p)
  PROVE  CliInv'
<1>1. proc[p].at = "engine" /\ UNCHANGED <<files, world, counts>>
  BY DEF EngineVerify, At
<1>2. proc[p] \in CommandType /\ CommandOK(proc[p], deployed)
  BY <1>1, RunningCommand DEF CliInv
<1>3. CASE Exit(p)
  BY <1>1, <1>3, EndsStep
<1>4. CASE proc[p].cmd = "verify" /\ Goto(p, "api")
  <2>1. CommandOK([proc[p] EXCEPT !.at = "api"], deployed)
    BY <1>1, <1>2, <1>4, GoesOn DEF CommandOK, Placed, HoldsKept, HoldsFinished, Labels
  <2> QED
    BY <1>1, <1>4, <2>1, GotoStep DEF Labels
<1> QED
  BY <1>3, <1>4 DEF EngineVerify

-----------------------------------------------------------------------------
\* The API.
LEMMA ApiRegisterStep ==
  ASSUME CliInv, NEW p \in Procs, ApiRegister(p)
  PROVE  CliInv'
<1> DEFINE url == proc[p].client.url
           x == proc[p].envelope.inputs
<1>1. /\ proc[p].at = "api" /\ proc[p].cmd = "register"
      /\ Exit(p) /\ UNCHANGED <<files, deployed, counts>>
  BY DEF ApiRegister, At
<1>2. url \in Urls /\ x \in Inputs
  BY <1>1, RunningCommand DEF CliInv, CommandOK, Placed, Clients, Envelopes
<1>3. /\ ledgers' = [ledgers EXCEPT ![url].proved = @ \cup {x}]
      /\ claimed' \in {claimed, claimed \cup {<<url, x>>}}
  BY DEF ApiRegister
<1> HIDE DEF url, x
<1>4. /\ ledgers' \in [Urls -> [proved : SUBSET Inputs, revoked : SUBSET Inputs]]
      /\ x \in ledgers'[url].proved
      /\ \A u \in Urls : ledgers[u].proved \subseteq ledgers'[u].proved
  BY <1>2, <1>3 DEF CliInv, WorldOK
<1>5. \A t \in claimed' : t \in Urls \X Inputs /\ t[2] \in ledgers'[t[1]].proved
  <2> SUFFICES ASSUME NEW t \in claimed'
               PROVE  t \in Urls \X Inputs /\ t[2] \in ledgers'[t[1]].proved
    OBVIOUS
  <2>1. CASE t \in claimed
    BY <1>4, <2>1 DEF CliInv, WorldOK
  <2>2. CASE t = <<url, x>>
    BY <1>2, <1>4, <2>2
  <2> QED
    BY <1>3, <2>1, <2>2
<1>6. WorldOK'
  BY <1>1, <1>4, <1>5 DEF CliInv, WorldOK
<1>7. ProcsOK'
  BY <1>1, ExitKeeps DEF CliInv
<1> QED
  BY <1>1, <1>6, <1>7, FilesStay DEF CliInv, counts

LEMMA ApiStatusStep ==
  ASSUME CliInv, NEW p \in Procs, ApiStatus(p)
  PROVE  CliInv'
<1> DEFINE url == proc[p].client.url
           x == proc[p].envelope.inputs
           status == CASE x \in ledgers[url].revoked -> "REVOKED"
                       [] x \in ledgers[url].proved -> "PROVED"
                       [] OTHER -> "NONE"
           answer == [status |-> status, claimed |-> <<url, x>> \in claimed]
<1>1. proc[p].at = "api" /\ UNCHANGED <<files, world, counts>>
  BY DEF ApiStatus, At
<1>2. status \in {"NONE", "PROVED", "REVOKED"}
  OBVIOUS
<1>3. <<url, x>> \in claimed => x \in ledgers[url].proved
  BY DEF CliInv, WorldOK
<1>4. <<url, x>> \in claimed => status # "NONE"
  BY <1>3
<1>5. proc' = [proc EXCEPT ![p] = Done(answer)]
  BY DEF ApiStatus, PublicInputHash
<1> HIDE DEF status
<1>6. answer \in Answers /\ (answer.claimed => answer.status # "NONE")
  <2>1. (<<url, x>> \in claimed) \in BOOLEAN
    OBVIOUS
  <2> DEFINE known == <<url, x>> \in claimed
  <2>2. answer.status = status /\ answer.claimed = known
    OBVIOUS
  <2>3. answer = [status |-> status, claimed |-> known] /\ known \in BOOLEAN
    BY <2>1
  <2> HIDE DEF known
  <2>4. answer \in Answers
    BY <1>2, <2>3 DEF Answers
  <2> QED
    BY <1>4, <2>2, <2>4 DEF known
<1> HIDE DEF answer
<1>7. ProcsOK'
  BY <1>1, <1>5, <1>6, ProcEnds DEF CliInv, world
<1> QED
  BY <1>1, <1>7, LocalStep

-----------------------------------------------------------------------------
\* Deploying.  A deployment goes on only until it is finished, so no document
\* that a profile may hold is about one that goes on.
LEMMA FinishedStays ==
  ASSUME NEW doc \in Docs, NEW d \in Deployments,
         deployed \in [Deployments -> 0 .. 5], deployed[d] < 5,
         deployed' = [deployed EXCEPT ![d] = @ + 1], Finished(doc, deployed)
  PROVE  Finished(doc, deployed')
<1> QED
  BY DEF Docs, Finished

LEMMA ForgeTxStep ==
  ASSUME CliInv, NEW p \in Procs, ForgeTx(p)
  PROVE  CliInv'
<1> DEFINE c == proc[p]
           d == c.patch.proxy
<1>1. c.at = "deploy" /\ UNCHANGED <<files, ledgers, claimed, counts>>
  BY DEF ForgeTx, At
<1>2. /\ c \in CommandType /\ CommandOK(c, deployed) /\ c.cmd = "deploy"
      /\ c.patch \in Docs
  BY <1>1, RunningCommand DEF CliInv, CommandType, CommandOK, Placed
<1>3. ASSUME NEW e \in Deployments, proc' = [proc EXCEPT ![p].patch.proxy = e],
             UNCHANGED deployed
      PROVE  CliInv'
  <2> DEFINE n == [c EXCEPT !.patch.proxy = e]
  <2>1. /\ n \in CommandType
        /\ n.at = c.at /\ n.cmd = c.cmd /\ n.raw = c.raw /\ n.client = c.client
        /\ n.patch = [c.patch EXCEPT !.proxy = e]
    BY <1>2 DEF CommandType, Docs
  <2>2. n.patch.url = c.patch.url /\ n.patch.secret = c.patch.secret
    BY <1>2, <2>1 DEF Docs
  <2>3. proc' = [proc EXCEPT ![p] = n]
    BY <1>3 DEF CliInv, ProcsOK
  <2> HIDE DEF n
  <2>4. CommandOK(n, deployed)
    BY <1>1, <1>2, <2>1, <2>2 DEF CommandOK, Placed, HoldsKept, HoldsFinished, Kept
  <2>5. ProcsOK'
    BY <1>3, <2>1, <2>3, <2>4, ProcMoves DEF CliInv
  <2> QED
    BY <1>1, <1>3, <2>5, LocalStep DEF world
<1>4. ASSUME d # None, deployed[d] < 5, deployed' = [deployed EXCEPT ![d] = @ + 1],
             UNCHANGED proc
      PROVE  CliInv'
  <2>1. d \in Deployments
    BY <1>2, <1>4 DEF Docs
  <2>2. deployed \in [Deployments -> 0 .. 5]
    BY DEF CliInv, WorldOK
  <2>3. \A doc \in Docs : Finished(doc, deployed) => Finished(doc, deployed')
    BY <1>4, <2>1, <2>2, FinishedStays
  <2>4. FilesOK'
    BY <1>1, <2>3 DEF CliInv, FilesOK, DocOK, files
  <2>5. WorldOK'
    BY <1>1, <1>4, <2>1, <2>2 DEF CliInv, WorldOK
  <2>6. ASSUME NEW q \in Running PROVE CommandOK(proc[q], deployed')
    <3>1. /\ proc[q] \in CommandType /\ CommandOK(proc[q], deployed)
          /\ proc[q].patch \in Docs /\ proc[q].raw \in Docs \cup {None}
      BY RunningCommand DEF Running, CliInv, CommandType
    <3> QED
      BY <2>3, <3>1 DEF CommandOK, HoldsFinished
  <2>7. ProcsOK'
    BY <1>4, <2>6 DEF CliInv, ProcsOK, Running, StatusFindsRegistered
  <2> QED
    BY <1>1, <2>4, <2>5, <2>7 DEF CliInv, counts
<1> QED
  BY <1>3, <1>4, DeployTxsLen DEF ForgeTx

LEMMA RecordStep ==
  ASSUME CliInv, NEW p \in Procs, Record(p)
  PROVE  CliInv'
<1>1. proc[p].at = "deploy" /\ Goto(p, "read") /\ UNCHANGED <<files, world, counts>>
  BY DEF Record, At
<1>2. Finished(proc[p].patch, deployed)
  BY DeployTxsLen DEF Record, Finished
<1> QED
  BY <1>1, <1>2, PlainGoto DEF Labels

-----------------------------------------------------------------------------
\* What is done by hand, and the time.
LEMMA HandStep ==
  ASSUME CliInv, FilesOK', WorldOK', UNCHANGED <<proc, deployed, clock>>
  PROVE  CliInv'
<1> QED
  BY ProcsStay DEF CliInv

LEMMA EditProfileStep ==
  ASSUME CliInv, NEW env \in Envs, EditProfile(env)
  PROVE  CliInv'
<1> DEFINE i == names[Path(env)]
<1>1. i \in Inodes
  BY DEF EditProfile, CliInv, FilesOK, Names, Path
<1>2. PICK c \in Credentials, private \in BOOLEAN :
        disk' = [disk EXCEPT ![i] = [doc |-> Profile(c.url, c.secret, None), private |-> private]]
  BY DEF EditProfile
<1> DEFINE doc == Profile(c.url, c.secret, None)
<1>3. doc \in Docs /\ DocOK(doc, deployed)
  BY CredentialDoc DEF DocOK, Finished
<1> HIDE DEF doc
<1>4. FilesOK'
  BY <1>1, <1>2, <1>3 DEF doc, EditProfile, CliInv, FilesOK, world
<1> QED
  BY <1>4, HandStep, WorldStays DEF EditProfile, CliInv, world

LEMMA DeleteProfileStep ==
  ASSUME CliInv, NEW env \in Envs, DeleteProfile(env)
  PROVE  CliInv'
<1>1. FilesOK'
  BY DEF DeleteProfile, CliInv, FilesOK, world, Names, Path
<1> QED
  BY <1>1, HandStep, WorldStays DEF DeleteProfile, CliInv, world

LEMMA EditInputsStep == CliInv /\ EditInputs => CliInv'
<1> SUFFICES ASSUME CliInv, EditInputs PROVE CliInv'
  OBVIOUS
<1>1. FilesOK'
  BY DEF EditInputs, CliInv, FilesOK, world
<1> QED
  BY <1>1, HandStep, WorldStays DEF EditInputs, CliInv, world

LEMMA EditProofStep == CliInv /\ EditProof => CliInv'
<1> SUFFICES ASSUME CliInv, EditProof PROVE CliInv'
  OBVIOUS
<1>1. FilesOK'
  BY DEF EditProof, CliInv, FilesOK, world, Envelopes
<1> QED
  BY <1>1, HandStep, WorldStays DEF EditProof, CliInv, world

LEMMA RevokeStep ==
  ASSUME CliInv, NEW url \in Urls, Revoke(url)
  PROVE  CliInv'
<1>1. PICK x \in ledgers[url].proved : ledgers' = [ledgers EXCEPT ![url].revoked = @ \cup {x}]
  BY DEF Revoke
<1>2. x \in Inputs
  BY DEF CliInv, WorldOK
<1>3. /\ ledgers' \in [Urls -> [proved : SUBSET Inputs, revoked : SUBSET Inputs]]
      /\ \A u \in Urls : ledgers'[u].proved = ledgers[u].proved
  BY <1>1, <1>2 DEF CliInv, WorldOK
<1>4. WorldOK'
  BY <1>3 DEF Revoke, CliInv, WorldOK
<1> QED
  BY <1>4, HandStep, FilesStay DEF Revoke, CliInv

LEMMA TickStep == CliInv /\ Tick => CliInv'
<1> SUFFICES ASSUME CliInv, Tick PROVE CliInv'
  OBVIOUS
<1>1. clock' \in 0 .. MaxTime
  BY CliAssumption DEF Tick, CliInv
<1> QED
  BY <1>1, FilesStay, WorldStays, ProcsStay DEF Tick, CliInv, world

-----------------------------------------------------------------------------
LEMMA InitCliInv == CliInit => CliInv
<1> SUFFICES ASSUME CliInit PROVE CliInv
  OBVIOUS
<1>1. names \in [Names -> Inodes \cup {None}]
  BY CliAssumption DEF CliInit
<1>2. /\ disk \in [Inodes -> [doc : Docs \cup {None}, private : BOOLEAN]]
      /\ \A i \in Inodes : DocOK(disk[i].doc, deployed)
  <2>1. CASE disk = [i \in Inodes |-> [doc |-> None, private |-> TRUE]]
    BY <2>1 DEF DocOK
  <2>2. ASSUME NEW c \in Credentials,
               disk = [i \in Inodes |->
                 [doc |-> IF i = 1 THEN Profile(c.url, c.secret, None) ELSE None,
                  private |-> TRUE]]
        PROVE  <1>2!1 /\ <1>2!2
    <3> DEFINE doc == Profile(c.url, c.secret, None)
    <3>1. doc \in Docs /\ DocOK(doc, deployed) /\ DocOK(None, deployed)
      BY CredentialDoc DEF DocOK, Finished
    <3>2. disk = [i \in Inodes |-> [doc |-> IF i = 1 THEN doc ELSE None, private |-> TRUE]]
      BY <2>2
    <3> HIDE DEF doc
    <3> QED
      BY <3>1, <3>2
  <2> QED
    BY <2>1, <2>2 DEF CliInit
<1>3. proofFile \in Envelopes \cup {None} /\ inputs \in Inputs
  <2>1. \A x \in Inputs, id \in ProofIds : Envelope(x, id) \in Envelopes
    BY DEF Envelope, Envelopes
  <2>2. {Envelope(x, id) : x \in Inputs, id \in ProofIds} \subseteq Envelopes
    BY <2>1
  <2> QED
    BY <2>2 DEF CliInit
<1>4. WorldOK
  BY DEF CliInit, WorldOK
<1>5. ProcsOK
  <2>1. Done(None) \in DoneType /\ Done(None).at = "done" /\ Done(None).answer = None
    BY DEF Done, DoneType
  <2> QED
    BY <2>1 DEF CliInit, ProcsOK, Running, StatusFindsRegistered
<1>6. clock \in 0 .. MaxTime
  BY CliAssumption DEF CliInit
<1> QED
  BY <1>1, <1>2, <1>3, <1>4, <1>5, <1>6 DEF CliInv, FilesOK

LEMMA NextCliInv == CliInv /\ [CliNext]_vars => CliInv'
<1> SUFFICES ASSUME CliInv, [CliNext]_vars PROVE CliInv'
  OBVIOUS
<1>1. ASSUME NEW p \in Procs,
             \/ \E cmd \in Commands, env \in Envs : Run(p, cmd, env)
             \/ UsageError(p) \/ EnvSet(p) \/ Dispatch(p) \/ Fail(p) \/ Kill(p) \/ Local(p)
      PROVE  CliInv'
  BY <1>1, RunStep, EndStep, EnvSetStep, DispatchStep, FailStep
<1>2. ASSUME NEW p \in Procs,
             \/ Exists(p) \/ LoadRead(p) \/ LoadStat(p)
             \/ SaveOpen(p) \/ SaveWrite(p) \/ SaveRename(p) \/ SaveChmod(p)
      PROVE  CliInv'
  BY <1>2, ExistsStep, LoadReadStep, LoadStatStep, SaveOpenStep, SaveWriteStep,
     SaveRenameStep, SaveChmodStep
<1>3. ASSUME NEW p \in Procs,
             \/ New(p) \/ ReadInputs(p) \/ Truncate(p) \/ WriteEnvelope(p)
             \/ ReadEnvelope(p) \/ EngineVerify(p)
      PROVE  CliInv'
  BY <1>3, NewStep, ReadInputsStep, TruncateStep, WriteEnvelopeStep, ReadEnvelopeStep,
     EngineVerifyStep
<1>4. ASSUME NEW p \in Procs,
             \/ ApiAnswer(p) \/ ApiRegister(p) \/ ApiStatus(p) \/ ForgeTx(p) \/ Record(p)
      PROVE  CliInv'
  BY <1>4, EndStep, ApiRegisterStep, ApiStatusStep, ForgeTxStep, RecordStep
<1>5. CASE \/ \E env \in Envs : EditProfile(env) \/ DeleteProfile(env)
           \/ EditInputs \/ EditProof
           \/ \E url \in Urls : Revoke(url)
           \/ Tick
  BY <1>5, EditProfileStep, DeleteProfileStep, EditInputsStep, EditProofStep, RevokeStep,
     TickStep
<1>6. CASE UNCHANGED vars
  BY <1>6, FilesStay, WorldStays, ProcsStay DEF vars, counts, world, CliInv
<1> QED
  BY <1>1, <1>2, <1>3, <1>4, <1>5, <1>6 DEF CliNext

\* What the commands hold and leave behind, for any number of them, whatever
\* fails, is killed or is edited in between.
THEOREM CliCorrect == CliSpec => []CliInv
<1> QED
  BY InitCliInv, NextCliInv, PTL DEF CliSpec

\* A secret signs requests only to the API it was given for: credentials enter a
\* profile together (env set, an edit by hand) and every save and load keeps them
\* together, because a deployment merges none of its own in.
THEOREM SecretsStay == CliSpec => []SecretStaysWithUrl
<1>1. CliInv => SecretStaysWithUrl
  BY DEF CliInv, ProcsOK, SecretStaysWithUrl, CommandOK, HoldsKept
<1> QED
  BY <1>1, CliCorrect, PTL

\* A profile names only registries whose deployment ran to its end, wherever
\* forge may have stopped.
THEOREM RecordedIsComplete == CliSpec => []RecordedRegistryIsComplete
<1>1. CliInv => RecordedRegistryIsComplete
  <2> SUFFICES ASSUME CliInv, NEW env \in Envs,
                      names[Path(env)] # None, disk[names[Path(env)]].doc # None,
                      disk[names[Path(env)]].doc.proxy # None
               PROVE  deployed[disk[names[Path(env)]].doc.proxy] = Len(DeployTxs)
    BY DEF RecordedRegistryIsComplete
  <2>1. names[Path(env)] \in Inodes
    BY DEF CliInv, FilesOK, Names, Path
  <2> QED
    BY <2>1, DeployTxsLen DEF CliInv, FilesOK, DocOK, Finished
<1> QED
  BY <1>1, CliCorrect, PTL

\* zk status finds what zk register exited 0 for, whichever proof of the inputs
\* the file holds by then: the registry is keyed by the inputs alone.
THEOREM StatusFinds == CliSpec => []StatusFindsRegistered
<1>1. CliInv => StatusFindsRegistered
  BY DEF CliInv, ProcsOK
<1> QED
  BY <1>1, CliCorrect, PTL
=============================================================================
