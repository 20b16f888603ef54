--------------------------- MODULE DashboardServer ---------------------------
(***************************************************************************)
(* The dashboard's server (packages/dashboard/src/server): its sessions,   *)
(* its read-only routes, and the directory of gate reports, which others   *)
(* write while a route reads it one file at a time.                        *)
(*                                                                         *)
(* A session is a signed expiry: the server keeps nothing of it.  Answers  *)
(* of the API and of the build directory are choices; the rate-limit       *)
(* plugin and the static files are left out.  File names are numbers in    *)
(* their sort order.  No circuit is called "unknown", the key overview()   *)
(* files reports without a circuit under.                                  *)
(***************************************************************************)
EXTENDS Naturals, FiniteSets, Sequences

CONSTANTS
  Files,         \* names of gate reports
  Circuits,      \* circuit ids, as the pages and the reports give them
  BadCircuits,   \* those CIRCUIT_ID_RE refuses
  None,
  Configs,       \* what the server may be started with: the session secret, and
                 \* whether there is an API
  FirstConfig,
  InitialDirs,   \* what the report directory may hold at first
  SessionTtl,    \* config.sessionTtlMs
  MaxEvents      \* bound: what the user, the clock, the operator and those who
                 \* write reports do together

\* A report file: its circuitId or None, and whether it parses.  Its verdict goes
\* where its name goes.
Reports == [id : (Circuits \ BadCircuits) \cup {None}, whole : BOOLEAN]

\* Session tokens: the secret they are signed with, and when they expire.
Sessions == [secret : {c.secret : c \in Configs}, expires : Nat]

ASSUME DashboardAssumption ==
  /\ Files \subseteq Nat /\ IsFiniteSet(Files)
  /\ BadCircuits \subseteq Circuits /\ None \notin Circuits \cup Files
  /\ InitialDirs \subseteq [Files -> {None} \cup {r \in Reports : r.whole}]
  /\ FirstConfig \in Configs
  /\ None \notin Sessions
  /\ SessionTtl \in Nat \ {0}

VARIABLES
  dir,        \* dir[f]: the report under that name, or None
  clock,      \* Date.now()
  server,     \* up or not, and what it was configured with
  requests,   \* the fetches of the browser that it has no outcome of yet
  events      \* how much happened from outside (bounded)

serverVars == <<dir, clock, server, requests, events>>

Event == events < MaxEvents /\ events' = events + 1

Up(c) == [up |-> TRUE, secret |-> c.secret, api |-> c.api]

ServerInit ==
  /\ dir \in InitialDirs
  /\ events = 0
  /\ clock = 0
  /\ server = Up(FirstConfig)

-----------------------------------------------------------------------------
\* Gate reports come and go while the server runs.
WriteReport(f, r) ==
  /\ Event
  /\ dir' = [dir EXCEPT ![f] = [r EXCEPT !.whole = FALSE]]

FinishReport(f) ==
  /\ dir[f] # None /\ ~dir[f].whole
  /\ dir' = [dir EXCEPT ![f].whole = TRUE]
  /\ UNCHANGED events

RemoveReport(f) ==
  /\ dir[f] # None /\ Event
  /\ dir' = [dir EXCEPT ![f] = None]

Whole(f) == dir[f] # None /\ dir[f].whole

\* A directory read under way forgets, in its history, a report that changed.
ChangeReport(f) ==
  /\ \/ \E r \in Reports : WriteReport(f, r)
     \/ FinishReport(f)
     \/ RemoveReport(f)
  /\ requests' = {[r EXCEPT !.held = @ \ {f}] : r \in requests}
  /\ UNCHANGED <<clock, server>>

-----------------------------------------------------------------------------
\* signSession() and verifySession().
SignSession == [secret |-> server.secret, expires |-> clock + SessionTtl]
VerifySession(token) ==
  token # None /\ token.secret = server.secret /\ token.expires > clock

\* What the browser gets: an answer and its Set-Cookie header, if any, or an
\* error.  To the pages every problem is one error with a text.
Reply(body) == [ok |-> TRUE, body |-> body, cookies |-> {}]
ReplySetting(body, cookie) == [ok |-> TRUE, body |-> body, cookies |-> {cookie}]
Problem == [ok |-> FALSE, body |-> None, cookies |-> {}]

\* A fetch on its way: its path, the cookie sent with it, who in the browser
\* waits for it, and how far the server got.  held: history, the reports that
\* have been whole and unchanged since the directory was listed.
Request(id, who, path, cookie) ==
  [id |-> id, who |-> who, path |-> path, cookie |-> cookie, at |-> "sent",
   todo |-> <<>>, summaries |-> <<>>, held |-> {}, reply |-> None]

Answered(r, reply) ==
  [r EXCEPT !.at = "answered", !.cookie = None, !.todo = <<>>, !.summaries = <<>>,
            !.reply = reply]

Becomes(r, s) == requests' = (requests \ {r}) \cup {s}
AnswerWith(r, reply) == Becomes(r, Answered(r, reply))

Login(r) ==
  AnswerWith(r, IF r.path[2] = "wrong" THEN Problem
                ELSE ReplySetting(SignSession.expires, SignSession))

Logout(r) == AnswerWith(r, ReplySetting(None, None))

WhoamiSliding(r) ==    \* mutant: a session that is asked about is extended
  AnswerWith(r, IF VerifySession(r.cookie) THEN Reply(SignSession.expires) ELSE Problem)
Whoami(r) ==
  AnswerWith(r, IF VerifySession(r.cookie) THEN Reply(r.cookie.expires) ELSE Problem)

\* enrichCircuit() never fails: without a manifest the circuit is uncertified,
\* and after any other error it is what the API said.
EnrichCircuit(path) == Reply(path)

\* A route that waits for the API client, which answers or throws (apiProblem).
\* Nothing of this state is read after the wait, so it is one step.
ApiRoute(r) ==
  IF ~server.api THEN AnswerWith(r, Problem)
  ELSE \/ AnswerWith(r, Problem)
       \/ r.path[1] \in {"circuit", "circuits"} /\ AnswerWith(r, EnrichCircuit(r.path))
       \/ r.path[1] \notin {"circuit", "circuits"} /\ AnswerWith(r, Reply(r.path))

\* requireAuth() and the authenticated routes.
Route(r) ==
  CASE ~VerifySession(r.cookie) -> AnswerWith(r, Problem)
    [] r.path[1] \in {"circuit", "status"} /\ r.path[2] \in BadCircuits ->
         AnswerWith(r, Problem)
    [] r.path[1] = "gatekeeper" -> Becomes(r, [r EXCEPT !.at = "readdir", !.cookie = None])
    [] r.path[1] = "report" -> Becomes(r, [r EXCEPT !.at = "readfile", !.cookie = None])
    [] OTHER -> ApiRoute(r)

Handle(r) ==
  /\ server.up /\ r.at = "sent"
  /\ CASE r.path[1] = "login" -> Login(r)
       [] r.path[1] = "logout" -> Logout(r)
       [] r.path[1] = "whoami" -> Whoami(r)
       [] OTHER -> Route(r)
  /\ UNCHANGED <<dir, clock, server, events>>

-----------------------------------------------------------------------------
\* listFiles(): the names there are, newest first.  One sequence lists them so.
Names == {f \in Files : dir[f] # None}
Listings == {s \in [1 .. Cardinality(Names) -> Names] : \A f \in Names : \E i \in DOMAIN s : s[i] = f}
ListFilesUp == {s \in Listings : \A i, j \in DOMAIN s : i < j => s[i] < s[j]}  \* mutant
ListFiles == {s \in Listings : \A i, j \in DOMAIN s : i < j => s[i] > s[j]}

\* readSummary() of a file, as a sequence: a report that does not parse is
\* left out.
ReadSummary(f) == IF Whole(f) THEN << [file |-> f, id |-> dir[f].id] >> ELSE <<>>

\* isNewestForCircuit, which compares circuitId with the key "unknown" and so
\* takes every report without a circuit for the newest.
IsNewest(s, i) == s[i].id = None \/ \A j \in 1 .. i - 1 : s[j].id # s[i].id

\* The last one that is taken for the newest gives the verdict.
ByCircuit(s) ==
  [k \in {s[i].id : i \in DOMAIN s} |->
     LET newest == {i \in DOMAIN s : s[i].id = k /\ IsNewest(s, i)}
     IN s[CHOOSE i \in newest : \A j \in newest : j <= i].file]

Overview(s) ==
  [latest |-> IF s = <<>> THEN None ELSE s[1].file, byCircuit |-> ByCircuit(s)]

\* After the last file the overview is answered.
Reading(r) ==
  IF r.todo # <<>> THEN r
  ELSE Answered(r, Reply(Overview(r.summaries)))

\* readdir() of the overview; an error lists nothing.
ReadDir(r) ==
  /\ server.up /\ r.at = "readdir"
  /\ \/ \E s \in ListFiles :
          Becomes(r, Reading([r EXCEPT !.at = "summaries", !.todo = s,
                                       !.held = {f \in Files : Whole(f)}]))
     \/ Becomes(r, Reading(r))
  /\ UNCHANGED <<dir, clock, server, events>>

ReadNext(r) ==
  /\ server.up /\ r.at = "summaries"
  /\ Becomes(r, Reading([r EXCEPT !.todo = Tail(@),
                                  !.summaries = @ \o ReadSummary(Head(r.todo))]))
  /\ UNCHANGED <<dir, clock, server, events>>

\* readDetail() of GET /api/gatekeeper/report/:file.
ReadDetail(r) ==
  /\ server.up /\ r.at = "readfile"
  /\ AnswerWith(r, IF Whole(r.path[2]) THEN Reply(r.path) ELSE Problem)
  /\ UNCHANGED <<dir, clock, server, events>>

-----------------------------------------------------------------------------
\* main(): parseConfig() accepts the environment and the server listens; it
\* exits when it does not.
Start ==
  /\ ~server.up
  /\ \E c \in Configs : server' = Up(c)
  /\ UNCHANGED <<dir, clock, requests, events>>

\* A signal or a crash: what was not answered fails in the browser.
Stop ==
  /\ server.up /\ Event
  /\ server' = [server EXCEPT !.up = FALSE]
  /\ requests' = {IF r.at = "answered" THEN r
                  ELSE Answered([r EXCEPT !.held = {}], Problem) : r \in requests}
  /\ UNCHANGED <<dir, clock>>

\* The connection drops, or is refused while the server is down.
Lost(r) ==
  /\ r.at # "answered"
  /\ AnswerWith(r, Problem)
  /\ UNCHANGED <<dir, clock, server, events>>

Tick ==
  /\ Event
  /\ clock' = clock + 1
  /\ UNCHANGED <<dir, server, requests>>

ServerNext ==
  \/ \E f \in Files : ChangeReport(f)
  \/ Start \/ Stop \/ Tick
  \/ \E r \in requests :
       Handle(r) \/ ReadDir(r) \/ ReadNext(r) \/ ReadDetail(r) \/ Lost(r)

-----------------------------------------------------------------------------
\* The overview's latest verdict, overall and for each circuit, is that of a
\* report at least as new as every report that was whole from the listing of
\* the directory to the answer, whatever others wrote or removed meanwhile
\* (overview(), gateStore.ts).
OverviewIsNewest ==
  \A r \in requests :
    r.at = "answered" /\ r.path[1] = "gatekeeper" /\ r.reply.ok =>
      LET o == r.reply.body IN
      \A f \in r.held :
        /\ o.latest # None /\ o.latest >= f
        /\ dir[f].id # None =>
             dir[f].id \in DOMAIN o.byCircuit /\ o.byCircuit[dir[f].id] >= f
=============================================================================
