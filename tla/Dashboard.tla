------------------------------ MODULE Dashboard ------------------------------
(***************************************************************************)
(* One tab of the dashboard (packages/dashboard/src/ui) beside its server: *)
(* the session it shows, the hash router, and useFetch(), whose answers    *)
(* arrive late, in any order and for pages that are gone.                  *)
(*                                                                         *)
(* React commits a render and runs its effects later: a route changes in   *)
(* one step and each hook of the page fetches in a step of its own.  What  *)
(* a page draws of its data is left out, and so is the cookie's Max-Age,   *)
(* which the server enforces anyway.                                       *)
(***************************************************************************)
EXTENDS DashboardServer

CONSTANTS
  Limits,        \* choices of the audit page, and the one it starts with
  DefaultLimit,
  MaxFetches     \* bound: fetches without an outcome at a time

ASSUME BrowserAssumption == DefaultLimit \in Limits /\ MaxFetches \in Nat \ {0}

VARIABLES
  cookie,     \* the browser's zkdash cookie, or None
  tab         \* the page, and App's and Layout's React state

vars == <<serverVars, cookie, tab>>

Null == <<"null">>       \* useFetch(null)
Unset == <<"unset">>     \* the effect has not run

\* parseHash(): the routes a hash gives.
Routes ==
  {<<"overview">>, <<"circuits">>, <<"proofs">>, <<"gatekeeper">>, <<"audit">>}
  \cup {<<"circuit", c>> : c \in Circuits \ BadCircuits}
  \cup {<<"gatekeeper", f>> : f \in Files}

\* The paths the hooks of a page fetch.
OverviewPage == << <<"registry">>, <<"circuits">>, <<"gatekeeper">> >>
CircuitsPage == << <<"circuits">> >>
CircuitPage(circuitId) == << <<"circuit", circuitId>> >>
GatekeeperPage(reportFile) ==
  << <<"gatekeeper">>, IF reportFile = None THEN Null ELSE <<"report", reportFile>> >>
AuditPage(limit) == << <<"audit", limit>> >>

Paths(route, limit) ==
  CASE route[1] = "overview" -> OverviewPage
    [] route[1] = "circuits" -> CircuitsPage
    [] route[1] = "circuit" -> CircuitPage(route[2])
    [] route[1] = "gatekeeper" -> GatekeeperPage(IF Len(route) = 2 THEN route[2] ELSE None)
    [] route[1] = "audit" -> AuditPage(limit)
    [] OTHER -> <<>>

\* useState() of useFetch(), and the effect's dependencies and its request.
Hook == [path |-> Unset, reload |-> FALSE, req |-> 0,
         data |-> None, error |-> FALSE, loading |-> TRUE]

Mount(route) ==
  [route |-> route, limit |-> DefaultLimit, lookup |-> 0,
   hooks |-> [i \in DOMAIN Paths(route, DefaultLimit) |-> Hook]]

NoPage == Mount(<<"proofs">>)    \* before there is a session

\* A page keeps its state as long as its component stays the same.
View(view, route) ==
  IF view.route[1] = route[1] THEN [view EXCEPT !.route = route] ELSE Mount(route)

Want(i) == Paths(tab.view.route, tab.view.limit)[i]

\* fetch(): a new request, told apart from those under way.
Ids == 1 .. MaxFetches
Free == Ids \ {r.id : r \in requests}
FreeId == CHOOSE id \in Free : TRUE
Fetch(who, path) ==
  Free # {} /\ requests' = requests \cup {Request(FreeId, who, path, cookie)}

DashboardInit ==
  /\ ServerInit
  /\ cookie \in {None, SignSession}
  /\ requests = {Request(1, <<"whoami">>, <<"whoami">>, cookie)}
  /\ tab = [at |-> "boot", session |-> None, hash |-> <<"overview">>, event |-> FALSE,
            view |-> [NoPage EXCEPT !.route = <<"overview">>]]

-----------------------------------------------------------------------------
\* Opening or reloading the tab: App mounts and asks who it is.  What was under
\* way is aborted.
OpenTab ==
  /\ Event
  /\ tab' = [tab EXCEPT !.at = "boot", !.session = None, !.event = FALSE,
                          !.view = [NoPage EXCEPT !.route = tab.hash]]
  /\ requests' = {Request(1, <<"whoami">>, <<"whoami">>, cookie)}
  /\ UNCHANGED <<dir, clock, server, cookie>>

\* The page of the current route once there is a session.  The route is App's:
\* it outlives Login and Layout.
Enter(t, expires) ==
  [t EXCEPT !.at = "layout", !.session = expires, !.view = Mount(t.view.route)]

Leave(t) == [t EXCEPT !.at = "login", !.session = None,
                      !.view = [NoPage EXCEPT !.route = t.view.route]]

\* location.hash = ...: the event comes later, and only for a new hash.
Navigate(t, route) == [t EXCEPT !.hash = route, !.event = @ \/ t.hash # route]

HashChange ==
  /\ tab.event
  /\ tab' = [tab EXCEPT !.event = FALSE,
               !.view = IF tab.at = "layout" THEN View(@, tab.hash)
                        ELSE [@ EXCEPT !.route = tab.hash]]
  /\ UNCHANGED <<serverVars, cookie>>

\* Links of the navigation bar, and those of pages that also call onRoute().
FollowLink(route, onRoute) ==
  /\ Event
  /\ tab.at = "layout"
  /\ onRoute => \/ tab.view.route = <<"circuits">> /\ route[1] = "circuit"
                \/ tab.view.route = <<"gatekeeper">> /\ Len(route) = 2 /\ route[1] = "gatekeeper"
  /\ tab' = [Navigate(tab, route) EXCEPT !.view = IF onRoute THEN View(@, route) ELSE @]
  /\ UNCHANGED <<dir, clock, server, requests, cookie>>

\* "open circuits" and "all reports" change the route and not the hash.
Button(route) ==
  /\ Event
  /\ tab.at = "layout"
  /\ \/ tab.view.route = <<"overview">> /\ route = <<"circuits">>
     \/ Len(tab.view.route) = 2 /\ tab.view.route[1] = "gatekeeper" /\ route = <<"gatekeeper">>
  /\ tab' = [tab EXCEPT !.view = View(@, route)]
  /\ UNCHANGED <<dir, clock, server, requests, cookie>>

\* Login.submit(): the button is disabled while one is under way.
SubmitLogin(password) ==
  /\ Event
  /\ tab.at = "login" /\ ~\E r \in requests : r.who = <<"login">>
  /\ Fetch(<<"login">>, <<"login", password>>)
  /\ UNCHANGED <<dir, clock, server, cookie, tab>>

\* Layout.logout(): the button stays enabled.
ClickLogout ==
  /\ Event
  /\ tab.at = "layout"
  /\ Fetch(<<"logout">>, <<"logout">>)
  /\ UNCHANGED <<dir, clock, server, cookie, tab>>

-----------------------------------------------------------------------------
\* useFetch()'s effect, once its path or its tick changed.
RunEffect(i) ==
  LET h == tab.view.hooks[i] IN
  /\ h.path # Want(i) \/ h.reload
  /\ IF Want(i) = Null
     THEN /\ tab' = [tab EXCEPT !.view.hooks[i] = [Hook EXCEPT !.path = Null, !.loading = FALSE]]
          /\ UNCHANGED requests
     ELSE /\ Fetch(<<"hook", i>>, Want(i))
          /\ tab' = [tab EXCEPT !.view.hooks[i] =
                      [h EXCEPT !.path = Want(i), !.reload = FALSE, !.req = FreeId,
                                !.error = FALSE, !.loading = TRUE]]
  /\ UNCHANGED <<dir, clock, server, cookie, events>>

\* "refresh", and the audit page's limit.
Refresh(i) ==
  /\ Event
  /\ tab.view.route[1] \in {"circuits", "audit"} /\ i \in DOMAIN tab.view.hooks
  /\ tab' = [tab EXCEPT !.view.hooks[i].reload = TRUE]
  /\ UNCHANGED <<dir, clock, server, requests, cookie>>

SetLimit(n) ==
  /\ Event
  /\ tab.at = "layout" /\ tab.view.route = <<"audit">>
  /\ tab' = [tab EXCEPT !.view.limit = n]
  /\ UNCHANGED <<dir, clock, server, requests, cookie>>

\* ProofsPage.lookup(): the button is disabled while one is under way.
Lookup(c) ==
  /\ Event
  /\ tab.at = "layout" /\ tab.view.route = <<"proofs">> /\ tab.view.lookup = 0
  /\ Fetch(<<"lookup">>, <<"status", c>>)
  /\ tab' = [tab EXCEPT !.view.lookup = FreeId]
  /\ UNCHANGED <<dir, clock, server, cookie>>

-----------------------------------------------------------------------------
\* The answer as useFetch() takes it: data, or an error without data.
SetState(h, r) ==
  IF r.reply.ok
  THEN [h EXCEPT !.data = r.path, !.error = FALSE, !.loading = FALSE, !.req = 0]
  ELSE [h EXCEPT !.data = None, !.error = TRUE, !.loading = FALSE, !.req = 0]

SettleAlways(h, r) == SetState(h, r)    \* mutant: no alive flag
Settle(h, r) == IF h.req = r.id THEN SetState(h, r) ELSE h

\* The browser stores the cookie before the script sees the answer.
Receive(r) ==
  /\ r.at = "answered"
  /\ requests' = requests \ {r}
  /\ cookie' = IF r.reply.cookies = {} THEN cookie ELSE CHOOSE c \in r.reply.cookies : TRUE
  /\ tab' =
       CASE r.who = <<"whoami">> -> IF r.reply.ok THEN Enter(tab, r.reply.body) ELSE Leave(tab)
         [] r.who = <<"login">> ->
              IF r.reply.ok THEN Navigate(Enter(tab, r.reply.body), <<"overview">>)
              ELSE tab
         [] r.who = <<"logout">> -> Leave(tab)
         [] r.who = <<"lookup">> -> [tab EXCEPT !.view.lookup = IF @ = r.id THEN 0 ELSE @]
         [] OTHER -> [tab EXCEPT !.view.hooks =
                       [i \in DOMAIN @ |-> IF r.who = <<"hook", i>> THEN Settle(@[i], r) ELSE @[i]]]
  /\ UNCHANGED <<dir, clock, server, events>>

DashboardNext ==
  \/ ServerNext /\ UNCHANGED <<cookie, tab>>
  \/ OpenTab \/ HashChange \/ ClickLogout
  \/ \E route \in Routes : FollowLink(route, TRUE) \/ FollowLink(route, FALSE) \/ Button(route)
  \/ \E password \in {"right", "wrong"} : SubmitLogin(password)
  \/ \E i \in DOMAIN tab.view.hooks : RunEffect(i) \/ Refresh(i)
  \/ \E n \in Limits : SetLimit(n)
  \/ \E c \in Circuits : Lookup(c)
  \/ \E r \in requests : Receive(r)

DashboardSpec == DashboardInit /\ [][DashboardNext]_vars

-----------------------------------------------------------------------------
\* What a hook shows as loaded for its path is the answer to a request for that
\* path, whatever answers of earlier paths are still under way (useFetch(),
\* hooks.ts).
LoadedIsAsked ==
  \A i \in DOMAIN tab.view.hooks :
    LET h == tab.view.hooks[i] IN
    h.path = Want(i) /\ ~h.loading /\ h.data # None => h.data = Want(i)

\* A tab that shows a session has the cookie of that session, so that only the
\* clock or another secret makes the server refuse it (App.tsx, Layout.tsx).
SessionShownIsHeld ==
  tab.at = "layout" => cookie # None /\ cookie.expires = tab.session
=============================================================================
