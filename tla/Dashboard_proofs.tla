--------------------------- MODULE Dashboard_proofs ---------------------------
(***************************************************************************)
(* Proofs about the dashboard's server and one tab beside it, for any      *)
(* number of reports, circuits, configurations, fetches and events.        *)
(***************************************************************************)
EXTENDS Dashboard, FiniteSetTheorems, TLAPS

\* A request on its way, whatever its fields hold.
IsRequest(r) ==
  DOMAIN r = {"id", "who", "path", "cookie", "at", "todo", "summaries", "held", "reply"}

\* Which request it is: this stays as long as it is under way.
Tag(r) == [id |-> r.id, who |-> r.who, path |-> r.path]
Tags == {Tag(r) : r \in requests}

-----------------------------------------------------------------------------
\* The overview while it is put together.
Summaries == [file : Files, id : Circuits \cup {None}]

Descending(s) == \A i, j \in DOMAIN s : i < j => s[i] > s[j]

SummariesOK(s) ==
  /\ s \in Seq(Summaries)
  /\ \A i, j \in DOMAIN s : i < j => s[i].file > s[j].file
  /\ \A i \in DOMAIN s : s[i].id # None =>
       \E j \in 1 .. i : s[j].id = s[i].id /\ IsNewest(s, j)

\* Every report that has been there since the listing is still to be read, or is
\* among the summaries as it is.
Accounted(todo, s, held) ==
  \A f \in held :
    /\ Whole(f)
    /\ \/ \E i \in DOMAIN todo : todo[i] = f
       \/ \E i \in DOMAIN s : s[i] = [file |-> f, id |-> dir[f].id]

ReadingOK(todo, s, held) ==
  /\ todo \in Seq(Files) /\ Descending(todo)
  /\ SummariesOK(s)
  /\ \A i \in DOMAIN todo, j \in DOMAIN s : todo[i] < s[j].file
  /\ held \subseteq Files
  /\ Accounted(todo, s, held)

\* The answer is at least as new as each of these reports.
NotOlder(o, held) ==
  \A f \in held :
    /\ o.latest # None /\ o.latest >= f
    /\ dir[f].id # None => dir[f].id \in DOMAIN o.byCircuit /\ o.byCircuit[dir[f].id] >= f

OverviewOK(r) ==
  /\ r.held \subseteq Files
  /\ r.at \in {"sent", "readdir"} => r.todo = <<>> /\ r.summaries = <<>> /\ r.held = {}
  /\ r.at = "summaries" => r.todo # <<>> /\ ReadingOK(r.todo, r.summaries, r.held)
  /\ r.at = "answered" /\ r.path[1] = "gatekeeper" /\ r.reply.ok =>
       NotOlder(r.reply.body, r.held)

-----------------------------------------------------------------------------
\* How far a request may get, and what an answer does to the cookie.
StageOK(r) ==
  /\ r.at \in {"sent", "readdir", "summaries", "readfile", "answered"}
  /\ r.at \in {"readdir", "summaries"} => r.path[1] = "gatekeeper"
  /\ r.at = "readfile" => r.path[1] = "report"

CookiesOK(r) ==
  r.at = "answered" =>
    /\ ~r.reply.ok \/ r.path[1] \notin {"login", "logout"} => r.reply.cookies = {}
    /\ r.path[1] = "login" /\ r.reply.ok =>
         \E c \in r.reply.cookies :
           c \in Sessions /\ r.reply.cookies = {c} /\ r.reply.body = c.expires

\* Whoever asks who it is asks with the cookie there is.
WhoamiOK(r) ==
  r.path[1] = "whoami" =>
    /\ r.at = "sent" => r.cookie = cookie
    /\ r.at = "answered" /\ r.reply.ok => cookie # None /\ r.reply.body = cookie.expires

RequestOK(r) == IsRequest(r) /\ StageOK(r) /\ OverviewOK(r) /\ CookiesOK(r) /\ WhoamiOK(r)

ServerOK ==
  /\ dir \in [Files -> Reports \cup {None}]
  /\ clock \in Nat
  /\ server \in [up : BOOLEAN, secret : {c.secret : c \in Configs}, api : {c.api : c \in Configs}]

-----------------------------------------------------------------------------
\* Who waits for which request: whoami only in a tab that has no page yet, login
\* only on its page and once, so that no other answer sets a cookie there.
NamedOK(t) ==
  /\ t.path[1] = "whoami" <=> t.who = <<"whoami">>
  /\ t.path[1] = "login" <=> t.who = <<"login">>
  /\ t.path[1] = "logout" <=> t.who = <<"logout">>
  /\ t.who = <<"whoami">> => tab.at = "boot" /\ Tags = {t}
  /\ t.who = <<"login">> => tab.at = "login" /\ \A s \in Tags : s.who = <<"login">> => s = t

IdsOK ==
  /\ \A q \in requests : q.id \in Ids
  /\ \A q, r \in requests : q.id = r.id => q = r

TagsOK ==
  /\ \A s, t \in Tags : s.id = t.id => s = t
  /\ \A t \in Tags : NamedOK(t)

\* A hook shows data of its path, or waits for the one request of that path.
HookOK(h, i, tags) ==
  /\ DOMAIN h = {"path", "reload", "req", "data", "error", "loading"}
  /\ ~h.loading /\ h.data # None => h.data = h.path
  /\ h.req # 0 => [id |-> h.req, who |-> <<"hook", i>>, path |-> h.path] \in tags

ViewOK(v, tags) ==
  /\ DOMAIN v = {"route", "limit", "lookup", "hooks"}
  /\ v.route \in Routes
  /\ \A i \in DOMAIN v.hooks : HookOK(v.hooks[i], i, tags)

TabOK(t, tags) ==
  /\ DOMAIN t = {"at", "session", "hash", "event", "view"}
  /\ t.hash \in Routes
  /\ ViewOK(t.view, tags)
  /\ DOMAIN t.view.hooks =
       IF t.at = "layout" THEN DOMAIN Paths(t.view.route, t.view.limit) ELSE {}

DashboardInv ==
  /\ ServerOK
  /\ \A r \in requests : RequestOK(r)
  /\ IdsOK /\ TagsOK /\ TabOK(tab, Tags)
  /\ SessionShownIsHeld

-----------------------------------------------------------------------------
\* Sequences the overview is built with.
LEMMA SeqOf ==
  ASSUME NEW S, NEW s \in Seq(S)
  PROVE  /\ Len(s) \in Nat /\ DOMAIN s = 1 .. Len(s)
         /\ \A i \in DOMAIN s : i \in Nat /\ i >= 1 /\ s[i] \in S
         /\ s # <<>> => 1 \in DOMAIN s
<1> QED
  OBVIOUS

LEMMA FilesAreNumbers == \A f \in Files : f \in Nat /\ f # None
<1> QED
  BY DashboardAssumption

LEMMA SummariesOf ==
  ASSUME NEW s, SummariesOK(s)
  PROVE  /\ Len(s) \in Nat /\ DOMAIN s = 1 .. Len(s)
         /\ \A i \in DOMAIN s :
              i \in Nat /\ i >= 1 /\ s[i].file \in Files /\ s[i].file \in Nat
         /\ s # <<>> => 1 \in DOMAIN s
<1>1. s \in Seq(Summaries)
  BY DEF SummariesOK
<1>2. \A x \in Summaries : x.file \in Files
  BY DEF Summaries
<1> QED
  BY <1>1, <1>2, SeqOf, FilesAreNumbers

LEMMA ListingOK ==
  ASSUME NEW s \in ListFiles
  PROVE  /\ s \in Seq(Files) /\ Descending(s)
         /\ \A f \in Files : dir[f] # None => \E i \in DOMAIN s : s[i] = f
<1>1. Names \subseteq Files /\ IsFiniteSet(Names)
  BY DashboardAssumption, FS_Subset DEF Names
<1>2. Cardinality(Names) \in Nat
  BY <1>1, FS_CardinalityType
<1>3. s \in [1 .. Cardinality(Names) -> Names] /\ \A f \in Names : \E i \in DOMAIN s : s[i] = f
  BY DEF ListFiles, Listings
<1>4. s \in Seq(Names)
  BY <1>2, <1>3
<1>5. s \in Seq(Files)
  BY <1>1, <1>4
<1>6. Descending(s)
  BY DEF ListFiles, Descending
<1> QED
  BY <1>3, <1>5, <1>6 DEF Names

LEMMA TailOf ==
  ASSUME NEW S, NEW s \in Seq(S), s # <<>>
  PROVE  /\ Tail(s) \in Seq(S) /\ Head(s) \in S /\ Head(s) = s[1] /\ 1 \in DOMAIN s
         /\ \A i \in DOMAIN Tail(s) : i + 1 \in DOMAIN s /\ Tail(s)[i] = s[i + 1]
         /\ \A i \in DOMAIN s : i = 1 \/ (i - 1 \in DOMAIN Tail(s) /\ Tail(s)[i - 1] = s[i])
<1> QED
  OBVIOUS

LEMMA AppendOf ==
  ASSUME NEW S, NEW s \in Seq(S), NEW x \in S
  PROVE  /\ s \o <<x>> \in Seq(S)
         /\ DOMAIN s = 1 .. Len(s) /\ DOMAIN (s \o <<x>>) = 1 .. Len(s) + 1
         /\ Len(s) \in Nat
         /\ \A i \in 1 .. Len(s) : (s \o <<x>>)[i] = s[i]
         /\ (s \o <<x>>)[Len(s) + 1] = x
<1> QED
  OBVIOUS

LEMMA TailDescends ==
  ASSUME NEW s \in Seq(Files), s # <<>>, Descending(s)
  PROVE  Descending(Tail(s)) /\ \A i \in DOMAIN Tail(s) : Tail(s)[i] < Head(s)
<1>1. \A i \in DOMAIN s : i \in Nat /\ i >= 1 /\ s[i] \in Nat
  BY SeqOf, FilesAreNumbers
<1>2. \A i \in DOMAIN Tail(s) : i \in Nat /\ i >= 1
  BY TailOf
<1> QED
  BY <1>1, <1>2, TailOf DEF Descending

\* An older report at the end leaves the newest of each circuit where they are.
LEMMA AppendSummary ==
  ASSUME NEW s, SummariesOK(s), NEW x \in Summaries, \A i \in DOMAIN s : s[i].file > x.file
  PROVE  SummariesOK(s \o <<x>>)
<1> DEFINE t == s \o <<x>>
           n == Len(s)
<1>1. s \in Seq(Summaries)
  BY DEF SummariesOK
<1>2. /\ t \in Seq(Summaries) /\ n \in Nat
      /\ DOMAIN s = 1 .. n /\ DOMAIN t = 1 .. n + 1
      /\ \A i \in 1 .. n : t[i] = s[i]
      /\ t[n + 1] = x
  BY <1>1, AppendOf
<1> HIDE DEF t, n
<1>3. \A i, j \in DOMAIN t : i < j => t[i].file > t[j].file
  BY <1>2 DEF SummariesOK
<1>4. ASSUME NEW j \in 1 .. n, IsNewest(s, j) PROVE IsNewest(t, j)
  BY <1>2, <1>4 DEF IsNewest
<1>5. ASSUME NEW i \in DOMAIN t, t[i].id # None
      PROVE  \E j \in 1 .. i : t[j].id = t[i].id /\ IsNewest(t, j)
  <2>1. CASE i \in 1 .. n
    <3>1. PICK j \in 1 .. i : s[j].id = s[i].id /\ IsNewest(s, j)
      BY <1>2, <1>5, <2>1 DEF SummariesOK
    <3>2. j \in 1 .. n
      BY <1>2, <2>1
    <3> QED
      BY <1>2, <1>4, <2>1, <3>1, <3>2
  <2>2. CASE i = n + 1
    <3>1. CASE \E k \in 1 .. n : s[k].id = x.id
      <4>1. PICK k \in 1 .. n : s[k].id = x.id
        BY <3>1
      <4>2. PICK j \in 1 .. k : s[j].id = s[k].id /\ IsNewest(s, j)
        BY <1>2, <1>5, <2>2, <4>1 DEF SummariesOK
      <4>3. j \in 1 .. n /\ j \in 1 .. i
        BY <1>2, <2>2
      <4> QED
        BY <1>2, <1>4, <2>2, <4>1, <4>2, <4>3
    <3>2. CASE ~\E k \in 1 .. n : s[k].id = x.id
      <4>1. IsNewest(t, n + 1)
        BY <1>2, <3>2 DEF IsNewest
      <4> QED
        BY <1>2, <2>2, <4>1
    <3> QED
      BY <3>1, <3>2
  <2> QED
    BY <1>2, <2>1, <2>2
<1> QED
  BY <1>2, <1>3, <1>5 DEF SummariesOK, t

LEMMA ReadNextKeeps ==
  ASSUME ServerOK, NEW todo, NEW s, NEW held, todo # <<>>, ReadingOK(todo, s, held)
  PROVE  ReadingOK(Tail(todo), s \o ReadSummary(Head(todo)), held)
<1> DEFINE f == Head(todo)
           rest == Tail(todo)
<1>1. todo \in Seq(Files) /\ Descending(todo) /\ SummariesOK(s)
  BY DEF ReadingOK
<1>2. /\ rest \in Seq(Files) /\ f \in Files /\ f = todo[1] /\ 1 \in DOMAIN todo
      /\ \A i \in DOMAIN rest : i + 1 \in DOMAIN todo /\ rest[i] = todo[i + 1]
      /\ \A i \in DOMAIN todo : i = 1 \/ (i - 1 \in DOMAIN rest /\ rest[i - 1] = todo[i])
  BY <1>1, TailOf
<1>3. Descending(rest) /\ \A i \in DOMAIN rest : rest[i] < f
  BY <1>1, TailDescends
<1> HIDE DEF f, rest
<1>4. CASE ~Whole(f)
  <2>1. ReadSummary(f) = <<>>
    BY <1>4 DEF ReadSummary
  <2>2. s \o <<>> = s
    BY <1>1 DEF SummariesOK
  <2>3. Accounted(rest, s, held)
    BY <1>2, <1>4 DEF ReadingOK, Accounted
  <2>4. \A i \in DOMAIN rest, j \in DOMAIN s : rest[i] < s[j].file
    BY <1>2 DEF ReadingOK
  <2> QED
    BY <1>1, <1>2, <1>3, <2>1, <2>2, <2>3, <2>4 DEF ReadingOK, f, rest
<1>5. CASE Whole(f)
  <2> DEFINE x == [file |-> f, id |-> dir[f].id]
             t == s \o <<x>>
             n == Len(s)
  <2>1. ReadSummary(f) = <<x>>
    BY <1>5 DEF ReadSummary
  <2>2. x \in Summaries
    BY <1>2, <1>5 DEF ServerOK, Whole, Reports, Summaries
  <2>3. \A j \in DOMAIN s : s[j].file \in Nat /\ f < s[j].file
    BY <1>1, <1>2, SummariesOf DEF ReadingOK
  <2>4. f \in Nat
    BY <1>2, FilesAreNumbers
  <2>5. SummariesOK(t)
    BY <1>1, <2>2, <2>3, <2>4, AppendSummary
  <2>6. /\ n \in Nat /\ DOMAIN s = 1 .. n /\ DOMAIN t = 1 .. n + 1
        /\ \A i \in 1 .. n : t[i] = s[i]
        /\ t[n + 1] = x
    BY <1>1, <2>2, AppendOf DEF SummariesOK
  <2> HIDE DEF t, n
  <2>7. \A i \in DOMAIN rest, j \in DOMAIN t : rest[i] < t[j].file
    <3> SUFFICES ASSUME NEW i \in DOMAIN rest, NEW j \in DOMAIN t PROVE rest[i] < t[j].file
      OBVIOUS
    <3>1. CASE j \in 1 .. n
      BY <1>2, <2>6, <3>1 DEF ReadingOK
    <3>2. CASE j = n + 1
      BY <1>3, <2>6, <3>2
    <3> QED
      BY <2>6, <3>1, <3>2
  <2>8. Accounted(rest, t, held)
    <3> SUFFICES ASSUME NEW g \in held
                 PROVE  /\ Whole(g)
                        /\ \/ \E i \in DOMAIN rest : rest[i] = g
                           \/ \E i \in DOMAIN t : t[i] = [file |-> g, id |-> dir[g].id]
      BY DEF Accounted
    <3>1. Whole(g)
      BY DEF ReadingOK, Accounted
    <3>2. CASE g = f
      BY <2>6, <3>1, <3>2
    <3>3. CASE g # f /\ \E i \in DOMAIN todo : todo[i] = g
      BY <1>2, <3>1, <3>3
    <3>4. CASE \E i \in DOMAIN s : s[i] = [file |-> g, id |-> dir[g].id]
      BY <2>6, <3>1, <3>4
    <3> QED
      BY <3>2, <3>3, <3>4 DEF ReadingOK, Accounted
  <2> QED
    BY <1>2, <1>3, <2>1, <2>5, <2>7, <2>8 DEF ReadingOK, f, rest, t
<1> QED
  BY <1>4, <1>5

\* The first that is taken for the newest of a circuit is the only one.
LEMMA ByCircuitOf ==
  ASSUME NEW s, SummariesOK(s), NEW i \in DOMAIN s, s[i].id # None
  PROVE  /\ s[i].id \in DOMAIN ByCircuit(s)
         /\ ByCircuit(s)[s[i].id] >= s[i].file
<1> DEFINE k == s[i].id
           newest == {m \in DOMAIN s : s[m].id = k /\ IsNewest(s, m)}
           j == CHOOSE a \in newest : \A b \in newest : b <= a
<1>1. /\ s \in Seq(Summaries)
      /\ \A m \in DOMAIN s : m \in Nat /\ m >= 1 /\ s[m].file \in Nat
      /\ DOMAIN s = 1 .. Len(s) /\ Len(s) \in Nat
  BY SummariesOf DEF SummariesOK
<1>2. ByCircuit(s) = [c \in {s[m].id : m \in DOMAIN s} |->
        LET new == {m \in DOMAIN s : s[m].id = c /\ IsNewest(s, m)}
        IN s[CHOOSE a \in new : \A b \in new : b <= a].file]
  BY DEF ByCircuit
<1>3. k \in DOMAIN ByCircuit(s) /\ ByCircuit(s)[k] = s[j].file
  BY <1>2
<1>4. PICK m \in 1 .. i : s[m].id = k /\ IsNewest(s, m)
  BY DEF SummariesOK
<1>5. m \in newest
  BY <1>1, <1>4
<1>6. \A b \in newest : b = m
  <2> SUFFICES ASSUME NEW b \in newest PROVE b = m
    OBVIOUS
  <2>1. b \in Nat /\ m \in Nat /\ b >= 1 /\ m >= 1
    BY <1>1, <1>5
  <2>2. ~(b < m)
    BY <1>4, <2>1 DEF IsNewest
  <2>3. ~(m < b)
    BY <1>4, <2>1 DEF IsNewest
  <2> QED
    BY <2>1, <2>2, <2>3
<1>7. j = m
  <2>1. \E a \in newest : \A b \in newest : b <= a
    BY <1>1, <1>5, <1>6
  <2> QED
    BY <1>6, <2>1
<1>8. s[m].file >= s[i].file
  <2>1. m = i \/ m < i
    BY <1>1
  <2> QED
    BY <1>1, <1>5, <2>1 DEF SummariesOK
<1> QED
  BY <1>3, <1>7, <1>8

LEMMA OverviewAnswers ==
  ASSUME NEW s, NEW held, ReadingOK(<<>>, s, held)
  PROVE  NotOlder(Overview(s), held)
<1> SUFFICES ASSUME NEW f \in held
             PROVE  LET o == Overview(s) IN
                    /\ o.latest # None /\ o.latest >= f
                    /\ dir[f].id # None =>
                         dir[f].id \in DOMAIN o.byCircuit /\ o.byCircuit[dir[f].id] >= f
  BY DEF NotOlder
<1>1. SummariesOK(s)
  BY DEF ReadingOK
<1>2. PICK i \in DOMAIN s : s[i] = [file |-> f, id |-> dir[f].id]
  BY DEF ReadingOK, Accounted
<1>3. /\ s \in Seq(Summaries) /\ s # <<>> /\ 1 \in DOMAIN s /\ i \in Nat /\ i >= 1
      /\ s[1].file \in Nat /\ s[1].file # None /\ f \in Nat
  <2>1. s # <<>>
    BY <1>2
  <2>2. f \in Files /\ s[1].file \in Files
    BY <1>1, <1>2, <2>1, SummariesOf
  <2> QED
    BY <1>1, <2>1, <2>2, SummariesOf, FilesAreNumbers DEF SummariesOK
<1>4. s[1].file >= f
  <2>1. i = 1 \/ 1 < i
    BY <1>3
  <2> QED
    BY <1>1, <1>2, <1>3, <2>1 DEF SummariesOK
<1>5. Overview(s).latest = s[1].file /\ Overview(s).byCircuit = ByCircuit(s)
  BY <1>3 DEF Overview
<1>6. dir[f].id # None =>
        dir[f].id \in DOMAIN ByCircuit(s) /\ ByCircuit(s)[dir[f].id] >= f
  BY <1>1, <1>2, ByCircuitOf
<1> QED
  BY <1>3, <1>4, <1>5, <1>6

-----------------------------------------------------------------------------
\* One request goes on; it stays the request it is, and the others stay.
LEMMA AnsweredIs ==
  ASSUME NEW r, IsRequest(r), NEW reply
  PROVE  LET s == Answered(r, reply) IN
         /\ IsRequest(s) /\ Tag(s) = Tag(r)
         /\ s.at = "answered" /\ s.reply = reply /\ s.path = r.path /\ s.held = r.held
<1> QED
  BY DEF IsRequest, Answered, Tag

\* The tab does not notice.
LEMMA TabStays ==
  ASSUME TagsOK, TabOK(tab, Tags), SessionShownIsHeld, Tags' = Tags, UNCHANGED <<cookie, tab>>
  PROVE  TagsOK' /\ TabOK(tab, Tags)' /\ SessionShownIsHeld'
<1>1. TagsOK'
  BY DEF TagsOK, NamedOK
<1>2. TabOK(tab, Tags)'
  OBVIOUS
<1> QED
  BY <1>1, <1>2 DEF SessionShownIsHeld

LEMMA RequestStays ==
  ASSUME NEW r, RequestOK(r), UNCHANGED <<dir, cookie>>
  PROVE  RequestOK(r)'
<1>1. OverviewOK(r)'
  BY DEF RequestOK, OverviewOK, ReadingOK, Accounted, Whole, NotOlder
<1> QED
  BY <1>1 DEF RequestOK, IsRequest, StageOK, CookiesOK, WhoamiOK

LEMMA BecomesKeeps ==
  ASSUME DashboardInv, NEW r \in requests, NEW s, Becomes(r, s), RequestOK(s), Tag(s) = Tag(r),
         UNCHANGED <<dir, clock, server, cookie, tab>>
  PROVE  DashboardInv'
<1>1. requests' = (requests \ {r}) \cup {s}
  BY DEF Becomes
<1>2. Tags' = Tags
  <2>1. Tags' \subseteq Tags
    BY <1>1 DEF Tags
  <2>2. Tags \subseteq Tags'
    BY <1>1 DEF Tags
  <2> QED
    BY <2>1, <2>2
<1>3. \A q \in requests' : RequestOK(q)'
  BY <1>1, RequestStays DEF DashboardInv
<1>4. ServerOK'
  BY DEF DashboardInv, ServerOK
<1>5. IdsOK'
  <2>1. s.id = r.id
    BY DEF Tag
  <2> QED
    BY <1>1, <2>1 DEF DashboardInv, IdsOK
<1> QED
  BY <1>2, <1>3, <1>4, <1>5, TabStays DEF DashboardInv

LEMMA AnswerKeeps ==
  ASSUME DashboardInv, NEW r \in requests, NEW reply, AnswerWith(r, reply),
         CookiesOK(Answered(r, reply)), WhoamiOK(Answered(r, reply)),
         r.path[1] = "gatekeeper" /\ reply.ok => NotOlder(reply.body, r.held),
         UNCHANGED <<dir, clock, server, cookie, tab>>
  PROVE  DashboardInv'
<1> DEFINE s == Answered(r, reply)
<1>1. /\ IsRequest(s) /\ Tag(s) = Tag(r)
      /\ s.at = "answered" /\ s.reply = reply /\ s.path = r.path /\ s.held = r.held
  BY AnsweredIs DEF DashboardInv, RequestOK
<1>2. Becomes(r, s)
  BY DEF AnswerWith
<1> HIDE DEF s
<1>3. StageOK(s) /\ OverviewOK(s)
  BY <1>1 DEF StageOK, OverviewOK, DashboardInv, RequestOK
<1>4. RequestOK(s)
  BY <1>1, <1>3 DEF RequestOK, s
<1> QED
  BY <1>1, <1>2, <1>4, BecomesKeeps

\* An error, and an answer that sets no cookie and is none of whoami and the
\* overview.
LEMMA ProblemKeeps ==
  ASSUME DashboardInv, NEW r \in requests, AnswerWith(r, Problem),
         UNCHANGED <<dir, clock, server, cookie, tab>>
  PROVE  DashboardInv'
<1>1. Problem.ok = FALSE /\ Problem.cookies = {}
  BY DEF Problem
<1>2. /\ Answered(r, Problem).at = "answered" /\ Answered(r, Problem).reply = Problem
  BY AnsweredIs DEF DashboardInv, RequestOK
<1>3. CookiesOK(Answered(r, Problem)) /\ WhoamiOK(Answered(r, Problem))
  BY <1>1, <1>2 DEF CookiesOK, WhoamiOK
<1> QED
  BY <1>1, <1>3, AnswerKeeps

LEMMA ReplyKeeps ==
  ASSUME DashboardInv, NEW r \in requests, NEW body, AnswerWith(r, Reply(body)),
         r.path[1] \notin {"whoami", "login", "logout"},
         r.path[1] = "gatekeeper" => NotOlder(body, r.held),
         UNCHANGED <<dir, clock, server, cookie, tab>>
  PROVE  DashboardInv'
<1>1. Reply(body).ok = TRUE /\ Reply(body).cookies = {} /\ Reply(body).body = body
  BY DEF Reply
<1>2. LET s == Answered(r, Reply(body)) IN
      s.at = "answered" /\ s.reply = Reply(body) /\ s.path = r.path
  BY AnsweredIs DEF DashboardInv, RequestOK
<1>3. CookiesOK(Answered(r, Reply(body))) /\ WhoamiOK(Answered(r, Reply(body)))
  BY <1>1, <1>2 DEF CookiesOK, WhoamiOK
<1> QED
  BY <1>1, <1>3, AnswerKeeps

-----------------------------------------------------------------------------
\* The server's steps.
LEMMA TokenSigned ==
  ASSUME ServerOK
  PROVE  SignSession \in Sessions /\ SignSession.expires = clock + SessionTtl
<1> QED
  BY DashboardAssumption DEF ServerOK, SignSession, Sessions

LEMMA LoginStep ==
  ASSUME DashboardInv, NEW r \in requests, r.path[1] = "login", Login(r),
         UNCHANGED <<dir, clock, server, cookie, tab>>
  PROVE  DashboardInv'
<1>1. CASE r.path[2] = "wrong"
  BY <1>1, ProblemKeeps DEF Login
<1>2. CASE r.path[2] # "wrong"
  <2> DEFINE reply == ReplySetting(SignSession.expires, SignSession)
             s == Answered(r, reply)
  <2>1. AnswerWith(r, reply)
    BY <1>2 DEF Login
  <2>2. reply.ok = TRUE /\ reply.cookies = {SignSession} /\ reply.body = SignSession.expires
    BY DEF ReplySetting
  <2>3. s.at = "answered" /\ s.reply = reply /\ s.path = r.path
    BY AnsweredIs DEF DashboardInv, RequestOK
  <2>4. SignSession \in Sessions
    BY TokenSigned DEF DashboardInv
  <2> HIDE DEF s, reply
  <2>5. CookiesOK(s) /\ WhoamiOK(s)
    BY <2>2, <2>3, <2>4 DEF CookiesOK, WhoamiOK
  <2> QED
    BY <2>1, <2>5, AnswerKeeps DEF s
<1> QED
  BY <1>1, <1>2

LEMMA LogoutStep ==
  ASSUME DashboardInv, NEW r \in requests, r.path[1] = "logout", Logout(r),
         UNCHANGED <<dir, clock, server, cookie, tab>>
  PROVE  DashboardInv'
<1> DEFINE reply == ReplySetting(None, None)
           s == Answered(r, reply)
<1>1. AnswerWith(r, reply)
  BY DEF Logout
<1>2. reply.ok = TRUE
  BY DEF ReplySetting
<1>3. s.at = "answered" /\ s.reply = reply /\ s.path = r.path
  BY AnsweredIs DEF DashboardInv, RequestOK
<1> HIDE DEF s, reply
<1>4. CookiesOK(s) /\ WhoamiOK(s)
  BY <1>2, <1>3 DEF CookiesOK, WhoamiOK
<1> QED
  BY <1>1, <1>4, AnswerKeeps DEF s

LEMMA WhoamiStep ==
  ASSUME DashboardInv, NEW r \in requests, r.at = "sent", r.path[1] = "whoami", Whoami(r),
         UNCHANGED <<dir, clock, server, cookie, tab>>
  PROVE  DashboardInv'
<1>1. CASE ~VerifySession(r.cookie)
  BY <1>1, ProblemKeeps DEF Whoami
<1>2. CASE VerifySession(r.cookie)
  <2> DEFINE reply == Reply(r.cookie.expires)
             s == Answered(r, reply)
  <2>1. AnswerWith(r, reply)
    BY <1>2 DEF Whoami
  <2>2. reply.ok = TRUE /\ reply.cookies = {} /\ reply.body = r.cookie.expires
    BY DEF Reply
  <2>3. s.at = "answered" /\ s.reply = reply /\ s.path = r.path
    BY AnsweredIs DEF DashboardInv, RequestOK
  <2>4. r.cookie = cookie /\ cookie # None
    BY <1>2 DEF DashboardInv, RequestOK, WhoamiOK, VerifySession
  <2> HIDE DEF s, reply
  <2>5. CookiesOK(s) /\ WhoamiOK(s)
    BY <2>2, <2>3, <2>4 DEF CookiesOK, WhoamiOK
  <2> QED
    BY <2>1, <2>5, AnswerKeeps DEF s
<1> QED
  BY <1>1, <1>2

LEMMA RouteStep ==
  ASSUME DashboardInv, NEW r \in requests, r.at = "sent",
         r.path[1] \notin {"whoami", "login", "logout"}, Route(r),
         UNCHANGED <<dir, clock, server, cookie, tab>>
  PROVE  DashboardInv'
<1>1. CASE AnswerWith(r, Problem)
  BY <1>1, ProblemKeeps
<1>2. ASSUME NEW at \in {"readdir", "readfile"}, Becomes(r, [r EXCEPT !.at = at, !.cookie = None]),
             at = "readdir" => r.path[1] = "gatekeeper",
             at = "readfile" => r.path[1] = "report"
      PROVE  DashboardInv'
  <2> DEFINE s == [r EXCEPT !.at = at, !.cookie = None]
  <2>1. IsRequest(r) /\ OverviewOK(r)
    BY DEF DashboardInv, RequestOK
  <2>2. /\ IsRequest(s) /\ Tag(s) = Tag(r)
        /\ s.at = at /\ s.path = r.path
        /\ s.todo = r.todo /\ s.summaries = r.summaries /\ s.held = r.held
    BY <2>1 DEF IsRequest, Tag
  <2> HIDE DEF s
  <2>3. RequestOK(s)
    BY <1>2, <2>1, <2>2 DEF RequestOK, StageOK, OverviewOK, CookiesOK, WhoamiOK
  <2> QED
    BY <1>2, <2>2, <2>3, BecomesKeeps DEF s
<1>3. CASE /\ r.path[1] \notin {"gatekeeper", "report"} /\ ApiRoute(r)
  <2>1. AnswerWith(r, Problem) \/ AnswerWith(r, Reply(r.path))
    BY <1>3 DEF ApiRoute, EnrichCircuit
  <2> QED
    BY <1>1, <1>3, <2>1, ReplyKeeps
<1> QED
  BY <1>1, <1>2, <1>3 DEF Route

LEMMA HandleStep ==
  ASSUME DashboardInv, NEW r \in requests, Handle(r), UNCHANGED <<cookie, tab>>
  PROVE  DashboardInv'
<1>1. r.at = "sent" /\ UNCHANGED <<dir, clock, server>>
  BY DEF Handle
<1>2. \/ r.path[1] = "login" /\ Login(r)
      \/ r.path[1] = "logout" /\ Logout(r)
      \/ r.path[1] = "whoami" /\ Whoami(r)
      \/ r.path[1] \notin {"whoami", "login", "logout"} /\ Route(r)
  BY DEF Handle
<1> QED
  BY <1>1, <1>2, LoginStep, LogoutStep, WhoamiStep, RouteStep

\* Once nothing is left to read, the overview is answered.
LEMMA ReadingKeeps ==
  ASSUME DashboardInv, NEW r \in requests, r.path[1] = "gatekeeper",
         NEW s, IsRequest(s), Tag(s) = Tag(r), s.at = "summaries",
         ReadingOK(s.todo, s.summaries, s.held),
         Becomes(r, Reading(s)), UNCHANGED <<dir, clock, server, cookie, tab>>
  PROVE  DashboardInv'
<1>1. s.path = r.path
  BY DEF Tag
<1>2. CASE s.todo # <<>>
  <2>1. RequestOK(s)
    BY <1>1, <1>2 DEF RequestOK, StageOK, OverviewOK, ReadingOK, CookiesOK, WhoamiOK
  <2>2. Reading(s) = s
    BY <1>2 DEF Reading
  <2> QED
    BY <2>1, <2>2, BecomesKeeps
<1>3. CASE s.todo = <<>>
  <2> DEFINE body == Overview(s.summaries)
             t == Answered(s, Reply(body))
  <2>1. NotOlder(body, s.held)
    BY <1>3, OverviewAnswers
  <2>2. Reply(body).ok = TRUE /\ Reply(body).cookies = {} /\ Reply(body).body = body
    BY DEF Reply
  <2>3. /\ IsRequest(t) /\ Tag(t) = Tag(s)
        /\ t.at = "answered" /\ t.reply = Reply(body) /\ t.path = s.path /\ t.held = s.held
    BY AnsweredIs
  <2>4. Reading(s) = t
    BY <1>3 DEF Reading
  <2> HIDE DEF t, body
  <2>5. RequestOK(t)
    BY <1>1, <2>1, <2>2, <2>3
    DEF RequestOK, StageOK, OverviewOK, ReadingOK, CookiesOK, WhoamiOK
  <2> QED
    BY <2>3, <2>4, <2>5, BecomesKeeps
<1> QED
  BY <1>2, <1>3

LEMMA ReadDirStep ==
  ASSUME DashboardInv, NEW r \in requests, ReadDir(r), UNCHANGED <<cookie, tab>>
  PROVE  DashboardInv'
<1>1. r.at = "readdir" /\ UNCHANGED <<dir, clock, server>>
  BY DEF ReadDir
<1>2. /\ RequestOK(r) /\ IsRequest(r) /\ r.path[1] = "gatekeeper"
      /\ r.todo = <<>> /\ r.summaries = <<>> /\ r.held = {}
  BY <1>1 DEF DashboardInv, RequestOK, StageOK, OverviewOK
<1>3. SummariesOK(<<>>)
  BY DEF SummariesOK
<1>4. CASE Becomes(r, Reading(r))
  <2> DEFINE body == Overview(<<>>)
  <2>1. NotOlder(body, r.held)
    BY <1>2 DEF NotOlder
  <2>2. AnswerWith(r, Reply(body))
    BY <1>2, <1>4 DEF Reading, AnswerWith
  <2> QED
    BY <1>1, <1>2, <2>1, <2>2, ReplyKeeps
<1>5. ASSUME NEW l \in ListFiles,
             Becomes(r, Reading([r EXCEPT !.at = "summaries", !.todo = l,
                                          !.held = {f \in Files : Whole(f)}]))
      PROVE  DashboardInv'
  <2> DEFINE held == {f \in Files : Whole(f)}
             s == [r EXCEPT !.at = "summaries", !.todo = l, !.held = held]
  <2>1. /\ IsRequest(s) /\ Tag(s) = Tag(r) /\ s.at = "summaries"
        /\ s.todo = l /\ s.summaries = <<>> /\ s.held = held
    BY <1>2 DEF IsRequest, Tag
  <2>2. /\ l \in Seq(Files) /\ Descending(l)
        /\ \A f \in Files : dir[f] # None => \E i \in DOMAIN l : l[i] = f
    BY ListingOK
  <2>3. Accounted(l, <<>>, held)
    BY <2>2 DEF Accounted, Whole
  <2>4. ReadingOK(l, <<>>, held)
    BY <1>3, <2>2, <2>3 DEF ReadingOK
  <2>5. Becomes(r, Reading(s))
    BY <1>5
  <2> HIDE DEF s, held
  <2> QED
    BY <1>1, <1>2, <2>1, <2>4, <2>5, ReadingKeeps
<1> QED
  BY <1>4, <1>5 DEF ReadDir

LEMMA ReadNextStep ==
  ASSUME DashboardInv, NEW r \in requests, ReadNext(r), UNCHANGED <<cookie, tab>>
  PROVE  DashboardInv'
<1> DEFINE more == r.summaries \o ReadSummary(Head(r.todo))
           s == [r EXCEPT !.todo = Tail(@), !.summaries = more]
<1>1. r.at = "summaries" /\ UNCHANGED <<dir, clock, server>>
  BY DEF ReadNext
<1>2. /\ IsRequest(r) /\ r.path[1] = "gatekeeper"
      /\ r.todo # <<>> /\ ReadingOK(r.todo, r.summaries, r.held)
  BY <1>1 DEF DashboardInv, RequestOK, StageOK, OverviewOK
<1>3. ReadingOK(Tail(r.todo), more, r.held)
  BY <1>2, ReadNextKeeps DEF DashboardInv
<1>4. Becomes(r, Reading([r EXCEPT !.todo = Tail(@), !.summaries = @ \o ReadSummary(Head(r.todo))]))
  BY DEF ReadNext
<1>5. [r EXCEPT !.todo = Tail(@), !.summaries = @ \o ReadSummary(Head(r.todo))] = s
  OBVIOUS
<1> HIDE DEF more
<1>6. /\ IsRequest(s) /\ Tag(s) = Tag(r) /\ s.at = "summaries"
      /\ s.todo = Tail(r.todo) /\ s.summaries = more /\ s.held = r.held
  BY <1>1, <1>2 DEF IsRequest, Tag
<1> HIDE DEF s
<1> QED
  BY <1>1, <1>2, <1>3, <1>4, <1>5, <1>6, ReadingKeeps

LEMMA ReadDetailStep ==
  ASSUME DashboardInv, NEW r \in requests, ReadDetail(r), UNCHANGED <<cookie, tab>>
  PROVE  DashboardInv'
<1>1. r.at = "readfile" /\ UNCHANGED <<dir, clock, server>>
  BY DEF ReadDetail
<1>2. r.path[1] = "report"
  BY <1>1 DEF DashboardInv, RequestOK, StageOK
<1>3. AnswerWith(r, Problem) \/ AnswerWith(r, Reply(r.path))
  BY DEF ReadDetail
<1> QED
  BY <1>1, <1>2, <1>3, ProblemKeeps, ReplyKeeps

LEMMA LostStep ==
  ASSUME DashboardInv, NEW r \in requests, Lost(r), UNCHANGED <<cookie, tab>>
  PROVE  DashboardInv'
<1> QED
  BY ProblemKeeps DEF Lost

\* A report that changes is held by nobody afterwards; the others are as they were.
LEMMA ChangedRequest ==
  ASSUME NEW f \in Files, NEW r, RequestOK(r), \A g \in Files \ {f} : dir'[g] = dir[g],
         UNCHANGED cookie
  PROVE  LET s == [r EXCEPT !.held = @ \ {f}] IN
         Tag(s) = Tag(r) /\ RequestOK(s)'
<1> DEFINE s == [r EXCEPT !.held = @ \ {f}]
<1>1. /\ IsRequest(s) /\ Tag(s) = Tag(r)
      /\ s.path = r.path /\ s.cookie = r.cookie /\ s.at = r.at /\ s.todo = r.todo
      /\ s.summaries = r.summaries /\ s.held = r.held \ {f} /\ s.reply = r.reply
  BY DEF RequestOK, IsRequest, Tag
<1> HIDE DEF s
<1>2. ASSUME ReadingOK(r.todo, r.summaries, r.held)
      PROVE  ReadingOK(r.todo, r.summaries, r.held \ {f})'
  <2>1. r.held \ {f} \subseteq Files \ {f}
    BY <1>2 DEF ReadingOK
  <2>2. Accounted(r.todo, r.summaries, r.held \ {f})'
    BY <1>2, <2>1 DEF ReadingOK, Accounted, Whole
  <2> QED
    BY <1>2, <2>1, <2>2 DEF ReadingOK
<1>3. ASSUME NotOlder(r.reply.body, r.held), r.held \subseteq Files
      PROVE  NotOlder(r.reply.body, r.held \ {f})'
  BY <1>3 DEF NotOlder
<1>4. OverviewOK(s)'
  BY <1>1, <1>2, <1>3 DEF RequestOK, OverviewOK
<1>5. StageOK(s)' /\ CookiesOK(s)' /\ WhoamiOK(s)'
  BY <1>1 DEF RequestOK, StageOK, CookiesOK, WhoamiOK
<1>6. RequestOK(s)'
  BY <1>1, <1>4, <1>5 DEF RequestOK, IsRequest
<1> QED
  BY <1>1, <1>6 DEF s

LEMMA ChangeReportStep ==
  ASSUME DashboardInv, NEW f \in Files, ChangeReport(f), UNCHANGED <<cookie, tab>>
  PROVE  DashboardInv'
<1>1. /\ dir' \in [Files -> Reports \cup {None}]
      /\ \A g \in Files \ {f} : dir'[g] = dir[g]
  <2>1. dir \in [Files -> Reports \cup {None}]
    BY DEF DashboardInv, ServerOK
  <2>2. CASE \E r \in Reports : WriteReport(f, r)
    <3>1. PICK r \in Reports : dir' = [dir EXCEPT ![f] = [r EXCEPT !.whole = FALSE]]
      BY <2>2 DEF WriteReport
    <3>2. [r EXCEPT !.whole = FALSE] \in Reports
      BY DEF Reports
    <3> QED
      BY <2>1, <3>1, <3>2
  <2>3. CASE FinishReport(f)
    BY <2>1, <2>3 DEF FinishReport, Reports
  <2>4. CASE RemoveReport(f)
    BY <2>1, <2>4 DEF RemoveReport
  <2> QED
    BY <2>2, <2>3, <2>4 DEF ChangeReport
<1>2. /\ requests' = {[r EXCEPT !.held = @ \ {f}] : r \in requests}
      /\ UNCHANGED <<clock, server>>
  BY DEF ChangeReport
<1>3. \A r \in requests : LET s == [r EXCEPT !.held = @ \ {f}] IN
                          Tag(s) = Tag(r) /\ RequestOK(s)'
  BY <1>1, ChangedRequest DEF DashboardInv
<1>4. Tags' = Tags
  BY <1>2, <1>3 DEF Tags
<1>5. \A r \in requests' : RequestOK(r)'
  BY <1>2, <1>3
<1>6. ServerOK'
  BY <1>1, <1>2 DEF DashboardInv, ServerOK
<1>7. IdsOK'
  <2>1. \A r \in requests : [r EXCEPT !.held = @ \ {f}].id = r.id
    BY DEF DashboardInv, RequestOK, IsRequest
  <2>2. ASSUME NEW q \in requests' PROVE \E r \in requests : q = [r EXCEPT !.held = @ \ {f}]
    BY <1>2
  <2>3. \A q \in requests' : q.id \in Ids
    BY <2>1, <2>2 DEF DashboardInv, IdsOK
  <2>4. ASSUME NEW q \in requests', NEW s \in requests', q.id = s.id PROVE q = s
    <3>1. PICK a \in requests : q = [a EXCEPT !.held = @ \ {f}]
      BY <2>2
    <3>2. PICK b \in requests : s = [b EXCEPT !.held = @ \ {f}]
      BY <2>2
    <3>3. a.id = b.id
      BY <2>1, <2>4, <3>1, <3>2
    <3>4. a = b
      BY <3>3 DEF DashboardInv, IdsOK
    <3> QED
      BY <3>1, <3>2, <3>4
  <2> QED
    BY <2>3, <2>4 DEF IdsOK
<1> QED
  BY <1>4, <1>5, <1>6, <1>7, TabStays DEF DashboardInv

\* The clock and the configuration are read when a request is answered, and not
\* after.
LEMMA QuietStep ==
  ASSUME DashboardInv, ServerOK', UNCHANGED <<dir, requests, cookie, tab>>
  PROVE  DashboardInv'
<1>1. Tags' = Tags
  BY DEF Tags
<1>2. \A r \in requests' : RequestOK(r)'
  BY RequestStays DEF DashboardInv
<1>3. IdsOK'
  BY DEF DashboardInv, IdsOK
<1> QED
  BY <1>1, <1>2, <1>3, TabStays DEF DashboardInv

LEMMA StartStep == DashboardInv /\ Start /\ UNCHANGED <<cookie, tab>> => DashboardInv'
<1> SUFFICES ASSUME DashboardInv, Start, UNCHANGED <<cookie, tab>> PROVE DashboardInv'
  OBVIOUS
<1>1. ServerOK'
  BY DEF Start, Up, DashboardInv, ServerOK
<1> QED
  BY <1>1, QuietStep DEF Start

LEMMA TickStep == DashboardInv /\ Tick /\ UNCHANGED <<cookie, tab>> => DashboardInv'
<1> SUFFICES ASSUME DashboardInv, Tick, UNCHANGED <<cookie, tab>> PROVE DashboardInv'
  OBVIOUS
<1>1. ServerOK'
  BY DEF Tick, DashboardInv, ServerOK
<1> QED
  BY <1>1, QuietStep DEF Tick

LEMMA StopStep == DashboardInv /\ Stop /\ UNCHANGED <<cookie, tab>> => DashboardInv'
<1> SUFFICES ASSUME DashboardInv, Stop, UNCHANGED <<cookie, tab>> PROVE DashboardInv'
  OBVIOUS
<1> DEFINE Failed(r) == Answered([r EXCEPT !.held = {}], Problem)
<1>1. /\ requests' = {IF r.at = "answered" THEN r ELSE Failed(r) : r \in requests}
      /\ server' = [server EXCEPT !.up = FALSE] /\ UNCHANGED <<dir, clock>>
  BY DEF Stop
<1>2. ASSUME NEW r \in requests PROVE Tag(Failed(r)) = Tag(r) /\ RequestOK(Failed(r))'
  <2> DEFINE q == [r EXCEPT !.held = {}]
  <2>1. IsRequest(r)
    BY DEF DashboardInv, RequestOK
  <2>2. IsRequest(q) /\ Tag(q) = Tag(r) /\ q.held = {}
    BY <2>1 DEF IsRequest, Tag
  <2> HIDE DEF q
  <2> DEFINE s == Answered(q, Problem)
  <2>3. /\ IsRequest(s) /\ Tag(s) = Tag(q)
        /\ s.at = "answered" /\ s.reply = Problem /\ s.held = {}
    BY <2>2, AnsweredIs
  <2> HIDE DEF s
  <2>4. Problem.ok = FALSE /\ Problem.cookies = {}
    BY DEF Problem
  <2>5. RequestOK(s)
    BY <2>3, <2>4 DEF RequestOK, StageOK, OverviewOK, CookiesOK, WhoamiOK
  <2>6. RequestOK(s)'
    BY <1>1, <2>5, RequestStays
  <2> QED
    BY <2>2, <2>3, <2>6 DEF s, q
<1> HIDE DEF Failed
<1>3. Tags' = Tags
  BY <1>1, <1>2 DEF Tags
<1>4. \A r \in requests' : RequestOK(r)'
  BY <1>1, <1>2, RequestStays DEF DashboardInv
<1>5. ServerOK'
  BY <1>1 DEF DashboardInv, ServerOK
<1>6. IdsOK'
  <2>1. \A r \in requests : Failed(r).id = r.id
    BY <1>2 DEF Tag
  <2> QED
    BY <1>1, <2>1 DEF DashboardInv, IdsOK
<1> QED
  BY <1>3, <1>4, <1>5, <1>6, TabStays DEF DashboardInv

LEMMA ServerStep ==
  ASSUME DashboardInv, ServerNext, UNCHANGED <<cookie, tab>>
  PROVE  DashboardInv'
<1> QED
  BY ChangeReportStep, StartStep, StopStep, TickStep, HandleStep, ReadDirStep, ReadNextStep,
     ReadDetailStep, LostStep
  DEF ServerNext

-----------------------------------------------------------------------------
\* Routes, and what the hooks of a page want: never who the user is.
LEMMA PathsOf ==
  ASSUME NEW route \in Routes, NEW limit
  PROVE  \A i \in DOMAIN Paths(route, limit) :
           \/ Paths(route, limit)[i] = Null
           \/ Paths(route, limit)[i][1] \in
                {"registry", "circuits", "gatekeeper", "circuit", "report", "audit"}
<1>1. route[1] \in {"overview", "circuits", "proofs", "gatekeeper", "audit", "circuit"}
  BY DEF Routes
<1>2. CASE route[1] = "overview"
  BY <1>2 DEF Paths, OverviewPage
<1>3. CASE route[1] = "circuits"
  BY <1>3 DEF Paths, CircuitsPage
<1>4. CASE route[1] = "circuit"
  BY <1>4 DEF Paths, CircuitPage
<1>5. CASE route[1] = "gatekeeper"
  BY <1>5 DEF Paths, GatekeeperPage
<1>6. CASE route[1] = "audit"
  BY <1>6 DEF Paths, AuditPage
<1>7. CASE route[1] = "proofs"
  BY <1>7 DEF Paths
<1> QED
  BY <1>1, <1>2, <1>3, <1>4, <1>5, <1>6, <1>7

LEMMA PathsDomain ==
  ASSUME NEW route \in Routes, NEW other \in Routes, other[1] = route[1], NEW limit, NEW lim
  PROVE  DOMAIN Paths(other, lim) = DOMAIN Paths(route, limit)
<1>1. route[1] \in {"overview", "circuits", "proofs", "gatekeeper", "audit", "circuit"}
  BY DEF Routes
<1>2. CASE route[1] = "overview"
  BY <1>2 DEF Paths, OverviewPage
<1>3. CASE route[1] = "circuits"
  BY <1>3 DEF Paths, CircuitsPage
<1>4. CASE route[1] = "circuit"
  BY <1>4 DEF Paths, CircuitPage
<1>5. CASE route[1] = "gatekeeper"
  BY <1>5 DEF Paths, GatekeeperPage
<1>6. CASE route[1] = "audit"
  BY <1>6 DEF Paths, AuditPage
<1>7. CASE route[1] = "proofs"
  BY <1>7 DEF Paths
<1> QED
  BY <1>1, <1>2, <1>3, <1>4, <1>5, <1>6, <1>7

-----------------------------------------------------------------------------
\* Pages as they mount, and as their route changes.
LEMMA FreshHook ==
  ASSUME NEW i, NEW tags
  PROVE  HookOK(Hook, i, tags)
<1> QED
  BY DEF HookOK, Hook

LEMMA MountOK ==
  ASSUME NEW route \in Routes, NEW tags
  PROVE  /\ ViewOK(Mount(route), tags)
         /\ Mount(route).route = route
         /\ DOMAIN Mount(route).hooks = DOMAIN Paths(route, Mount(route).limit)
<1> DEFINE v == Mount(route)
<1>1. /\ DOMAIN v = {"route", "limit", "lookup", "hooks"}
      /\ v.route = route /\ v.limit = DefaultLimit
      /\ v.hooks = [i \in DOMAIN Paths(route, DefaultLimit) |-> Hook]
  BY DEF Mount
<1> HIDE DEF v
<1>2. ViewOK(v, tags)
  BY <1>1, FreshHook DEF ViewOK
<1> QED
  BY <1>1, <1>2 DEF v

LEMMA NoPageOK ==
  ASSUME NEW route \in Routes, NEW tags
  PROVE  LET v == [NoPage EXCEPT !.route = route] IN
         ViewOK(v, tags) /\ v.route = route /\ DOMAIN v.hooks = {}
<1> DEFINE v == [NoPage EXCEPT !.route = route]
           w == Mount(<<"proofs">>)
<1>1. DOMAIN Paths(<<"proofs">>, DefaultLimit) = {}
  BY DEF Paths
<1>2. DOMAIN w = {"route", "limit", "lookup", "hooks"} /\ DOMAIN w.hooks = {}
  BY <1>1 DEF Mount
<1> HIDE DEF w
<1>3. DOMAIN v = {"route", "limit", "lookup", "hooks"} /\ v.route = route /\ v.hooks = w.hooks
  BY <1>2 DEF NoPage, w
<1> HIDE DEF v
<1>4. ViewOK(v, tags)
  BY <1>2, <1>3 DEF ViewOK
<1> QED
  BY <1>2, <1>3, <1>4 DEF v

LEMMA ViewChanges ==
  ASSUME NEW v, NEW tags, ViewOK(v, tags), DOMAIN v.hooks = DOMAIN Paths(v.route, v.limit),
         NEW route \in Routes
  PROVE  LET w == View(v, route) IN
         ViewOK(w, tags) /\ DOMAIN w.hooks = DOMAIN Paths(w.route, w.limit)
<1>1. CASE v.route[1] = route[1]
  <2> DEFINE w == [v EXCEPT !.route = route]
  <2>1. /\ DOMAIN w = DOMAIN v
        /\ w.route = route /\ w.limit = v.limit /\ w.hooks = v.hooks
    BY DEF ViewOK
  <2>2. View(v, route) = w
    BY <1>1 DEF View
  <2> HIDE DEF w
  <2>3. ViewOK(w, tags)
    BY <2>1 DEF ViewOK
  <2>4. DOMAIN w.hooks = DOMAIN Paths(w.route, w.limit)
    BY <1>1, <2>1, PathsDomain DEF ViewOK
  <2> QED
    BY <2>2, <2>3, <2>4
<1>2. CASE v.route[1] # route[1]
  BY <1>2, MountOK DEF View
<1> QED
  BY <1>1, <1>2

LEMMA EnterOK ==
  ASSUME NEW t, NEW old, TabOK(t, old), NEW tags, NEW expires
  PROVE  LET n == Enter(t, expires) IN
         TabOK(n, tags) /\ n.at = "layout" /\ n.session = expires
<1> DEFINE n == Enter(t, expires)
           v == Mount(t.view.route)
<1>1. t.view.route \in Routes
  BY DEF TabOK, ViewOK
<1>2. ViewOK(v, tags) /\ DOMAIN v.hooks = DOMAIN Paths(v.route, v.limit)
  BY <1>1, MountOK
<1> HIDE DEF v
<1>3. /\ DOMAIN n = DOMAIN t
      /\ n.at = "layout" /\ n.session = expires /\ n.hash = t.hash /\ n.view = v
  BY DEF TabOK, Enter, v
<1> HIDE DEF n
<1>4. TabOK(n, tags)
  BY <1>2, <1>3 DEF TabOK
<1> QED
  BY <1>3, <1>4 DEF n

LEMMA LeaveOK ==
  ASSUME NEW t, NEW old, TabOK(t, old), NEW tags
  PROVE  TabOK(Leave(t), tags) /\ Leave(t).at = "login"
<1> DEFINE n == Leave(t)
           v == [NoPage EXCEPT !.route = t.view.route]
<1>1. t.view.route \in Routes
  BY DEF TabOK, ViewOK
<1>2. ViewOK(v, tags) /\ DOMAIN v.hooks = {}
  BY <1>1, NoPageOK
<1> HIDE DEF v
<1>3. DOMAIN n = DOMAIN t /\ n.at = "login" /\ n.hash = t.hash /\ n.view = v
  BY DEF TabOK, Leave, v
<1> HIDE DEF n
<1>4. TabOK(n, tags)
  BY <1>2, <1>3 DEF TabOK
<1> QED
  BY <1>3, <1>4 DEF n

LEMMA NavigateOK ==
  ASSUME NEW t, NEW tags, TabOK(t, tags), NEW route \in Routes
  PROVE  LET n == Navigate(t, route) IN
         /\ TabOK(n, tags)
         /\ n.at = t.at /\ n.session = t.session /\ n.view = t.view
<1> DEFINE n == Navigate(t, route)
<1>1. /\ DOMAIN n = DOMAIN t
      /\ n.at = t.at /\ n.session = t.session /\ n.hash = route /\ n.view = t.view
  BY DEF TabOK, Navigate
<1> HIDE DEF n
<1>2. TabOK(n, tags)
  BY <1>1 DEF TabOK
<1> QED
  BY <1>1, <1>2 DEF n

\* Another page in the tab.
LEMMA ViewedOK ==
  ASSUME NEW t, NEW old, TabOK(t, old), NEW tags, NEW v, ViewOK(v, tags),
         DOMAIN v.hooks = IF t.at = "layout" THEN DOMAIN Paths(v.route, v.limit) ELSE {}
  PROVE  LET n == [t EXCEPT !.view = v] IN
         TabOK(n, tags) /\ n.at = t.at /\ n.session = t.session
<1> DEFINE n == [t EXCEPT !.view = v]
<1>1. /\ DOMAIN n = DOMAIN t
      /\ n.at = t.at /\ n.session = t.session /\ n.hash = t.hash /\ n.view = v
  BY DEF TabOK
<1> HIDE DEF n
<1>2. TabOK(n, tags)
  BY <1>1 DEF TabOK
<1> QED
  BY <1>1, <1>2 DEF n

\* Another state of one of its hooks.
LEMMA HookedOK ==
  ASSUME NEW v, NEW tags, NEW old, ViewOK(v, old), old \subseteq tags,
         NEW i \in DOMAIN v.hooks, NEW h, HookOK(h, i, tags)
  PROVE  LET w == [v EXCEPT !.hooks[i] = h] IN
         /\ ViewOK(w, tags)
         /\ w.route = v.route /\ w.limit = v.limit /\ DOMAIN w.hooks = DOMAIN v.hooks
<1> DEFINE w == [v EXCEPT !.hooks[i] = h]
<1>1. /\ DOMAIN w = DOMAIN v
      /\ w.route = v.route /\ w.limit = v.limit
      /\ w.hooks = [v.hooks EXCEPT ![i] = h]
  BY DEF ViewOK
<1> HIDE DEF w
<1>2. DOMAIN w.hooks = DOMAIN v.hooks
  BY <1>1
<1>3. ASSUME NEW j \in DOMAIN w.hooks PROVE HookOK(w.hooks[j], j, tags)
  <2>1. CASE j = i
    BY <1>1, <2>1
  <2>2. CASE j # i
    <3>1. w.hooks[j] = v.hooks[j] /\ HookOK(v.hooks[j], j, old)
      BY <1>1, <1>2, <2>2 DEF ViewOK
    <3> QED
      BY <3>1 DEF HookOK
  <2> QED
    BY <2>1, <2>2
<1>4. ViewOK(w, tags)
  BY <1>1, <1>3 DEF ViewOK
<1> QED
  BY <1>1, <1>2, <1>4 DEF w

LEMMA MoreTags ==
  ASSUME NEW t, NEW old, TabOK(t, old), NEW tags, old \subseteq tags
  PROVE  TabOK(t, tags)
<1>1. ViewOK(t.view, tags)
  BY DEF TabOK, ViewOK, HookOK
<1> QED
  BY <1>1 DEF TabOK

-----------------------------------------------------------------------------
\* Steps of the tab that fetch nothing.
LEMMA TabMoves ==
  ASSUME DashboardInv, NEW t, TabOK(t, Tags), t.at = tab.at, t.session = tab.session, tab' = t,
         UNCHANGED <<dir, clock, server, requests, cookie>>
  PROVE  DashboardInv'
<1>1. Tags' = Tags
  BY DEF Tags
<1>2. TabOK(tab, Tags)'
  BY <1>1
<1>3. TagsOK'
  BY <1>1 DEF DashboardInv, TagsOK, NamedOK
<1>4. \A r \in requests' : RequestOK(r)'
  BY RequestStays DEF DashboardInv
<1>5. ServerOK' /\ SessionShownIsHeld'
  BY DEF DashboardInv, ServerOK, SessionShownIsHeld
<1>6. IdsOK'
  BY DEF DashboardInv, IdsOK
<1> QED
  BY <1>2, <1>3, <1>4, <1>5, <1>6 DEF DashboardInv

LEMMA RouteMoves ==
  ASSUME DashboardInv, tab.at = "layout", NEW route \in Routes
  PROVE  LET t == [tab EXCEPT !.view = View(tab.view, route)] IN
         TabOK(t, Tags) /\ t.at = tab.at /\ t.session = tab.session
<1> DEFINE v == View(tab.view, route)
<1>1. ViewOK(v, Tags) /\ DOMAIN v.hooks = DOMAIN Paths(v.route, v.limit)
  BY ViewChanges DEF DashboardInv, TabOK
<1> HIDE DEF v
<1> QED
  BY <1>1, ViewedOK DEF DashboardInv, v

LEMMA HashChangeStep == DashboardInv /\ HashChange => DashboardInv'
<1> SUFFICES ASSUME DashboardInv, HashChange PROVE DashboardInv'
  OBVIOUS
<1> DEFINE v == IF tab.at = "layout" THEN View(tab.view, tab.hash)
                ELSE [tab.view EXCEPT !.route = tab.hash]
           t == [tab EXCEPT !.view = v]
           n == [t EXCEPT !.event = FALSE]
<1>1. TabOK(tab, Tags) /\ tab.hash \in Routes
  BY DEF DashboardInv, TabOK
<1>2. TabOK(t, Tags) /\ t.at = tab.at /\ t.session = tab.session
  <2>1. CASE tab.at = "layout"
    BY <1>1, <2>1, RouteMoves
  <2>2. CASE tab.at # "layout"
    <3>1. /\ DOMAIN v = DOMAIN tab.view
          /\ v.route = tab.hash /\ v.hooks = tab.view.hooks
      BY <1>1, <2>2 DEF TabOK, ViewOK
    <3> HIDE DEF v
    <3>2. ViewOK(v, Tags) /\ DOMAIN v.hooks = {}
      BY <1>1, <2>2, <3>1 DEF TabOK, ViewOK
    <3> QED
      BY <1>1, <2>2, <3>2, ViewedOK
  <2> QED
    BY <2>1, <2>2
<1>3. tab' = [tab EXCEPT !.event = FALSE, !.view = v] /\ UNCHANGED <<serverVars, cookie>>
  BY DEF HashChange
<1> HIDE DEF v
<1>4. tab' = n
  BY <1>1, <1>3 DEF TabOK
<1> HIDE DEF t
<1>5. /\ DOMAIN n = DOMAIN t
      /\ n.at = t.at /\ n.session = t.session /\ n.hash = t.hash /\ n.view = t.view
  BY <1>2 DEF TabOK
<1> HIDE DEF n
<1>6. TabOK(n, Tags)
  BY <1>2, <1>5 DEF TabOK
<1> QED
  BY <1>2, <1>3, <1>4, <1>5, <1>6, TabMoves DEF serverVars

LEMMA FollowLinkStep ==
  ASSUME DashboardInv, NEW route \in Routes, NEW onRoute \in BOOLEAN, FollowLink(route, onRoute)
  PROVE  DashboardInv'
<1> DEFINE n == Navigate(tab, route)
           v == IF onRoute THEN View(tab.view, route) ELSE tab.view
           t == [n EXCEPT !.view = v]
<1>1. tab.at = "layout" /\ UNCHANGED <<dir, clock, server, requests, cookie>>
  BY DEF FollowLink
<1>2. /\ TabOK(n, Tags)
      /\ n.at = tab.at /\ n.session = tab.session /\ n.view = tab.view
  BY NavigateOK DEF DashboardInv
<1>3. tab' = t
  BY <1>2 DEF FollowLink
<1>4. ViewOK(v, Tags) /\ DOMAIN v.hooks = DOMAIN Paths(v.route, v.limit)
  <2>1. ViewOK(tab.view, Tags) /\ DOMAIN tab.view.hooks = DOMAIN Paths(tab.view.route, tab.view.limit)
    BY <1>1 DEF DashboardInv, TabOK
  <2>2. CASE onRoute
    BY <2>1, <2>2, ViewChanges
  <2>3. CASE ~onRoute
    BY <2>1, <2>3
  <2> QED
    BY <2>2, <2>3
<1> HIDE DEF n, v
<1>5. TabOK(t, Tags) /\ t.at = n.at /\ t.session = n.session
  BY <1>1, <1>2, <1>4, ViewedOK
<1> HIDE DEF t
<1> QED
  BY <1>1, <1>2, <1>3, <1>5, TabMoves

LEMMA ButtonStep ==
  ASSUME DashboardInv, NEW route \in Routes, Button(route)
  PROVE  DashboardInv'
<1> DEFINE t == [tab EXCEPT !.view = View(tab.view, route)]
<1>1. /\ tab.at = "layout" /\ UNCHANGED <<dir, clock, server, requests, cookie>>
      /\ tab' = t
  BY DEF Button
<1>2. TabOK(t, Tags) /\ t.at = tab.at /\ t.session = tab.session
  BY <1>1, RouteMoves
<1> HIDE DEF t
<1> QED
  BY <1>1, <1>2, TabMoves

\* Hooks are there only in a page.
LEMMA HooksInPage ==
  ASSUME DashboardInv, NEW i \in DOMAIN tab.view.hooks
  PROVE  /\ tab.at = "layout" /\ i \in DOMAIN Paths(tab.view.route, tab.view.limit)
         /\ HookOK(tab.view.hooks[i], i, Tags)
<1> QED
  BY DEF DashboardInv, TabOK, ViewOK

LEMMA HookMoves ==
  ASSUME DashboardInv, NEW i \in DOMAIN tab.view.hooks, NEW tags, Tags \subseteq tags,
         NEW h, HookOK(h, i, tags)
  PROVE  LET t == [tab EXCEPT !.view.hooks[i] = h] IN
         TabOK(t, tags) /\ t.at = tab.at /\ t.session = tab.session
<1> DEFINE v == [tab.view EXCEPT !.hooks[i] = h]
           t == [tab EXCEPT !.view = v]
<1>1. /\ ViewOK(v, tags)
      /\ v.route = tab.view.route /\ v.limit = tab.view.limit
      /\ DOMAIN v.hooks = DOMAIN tab.view.hooks
  BY HookedOK DEF DashboardInv, TabOK
<1>2. DOMAIN v.hooks = DOMAIN Paths(v.route, v.limit) /\ tab.at = "layout"
  BY <1>1, HooksInPage DEF DashboardInv, TabOK
<1>3. [tab EXCEPT !.view.hooks[i] = h] = t
  BY DEF DashboardInv, TabOK
<1> HIDE DEF v
<1>4. TabOK(t, tags) /\ t.at = tab.at /\ t.session = tab.session
  BY <1>1, <1>2, ViewedOK DEF DashboardInv
<1> QED
  BY <1>3, <1>4

LEMMA RefreshStep ==
  ASSUME DashboardInv, NEW i \in DOMAIN tab.view.hooks, Refresh(i)
  PROVE  DashboardInv'
<1> DEFINE h == [tab.view.hooks[i] EXCEPT !.reload = TRUE]
           t == [tab EXCEPT !.view.hooks[i] = h]
<1>1. HookOK(h, i, Tags)
  BY HooksInPage DEF HookOK
<1>2. tab' = t /\ UNCHANGED <<dir, clock, server, requests, cookie>>
  BY DEF Refresh
<1> HIDE DEF h
<1>3. TabOK(t, Tags) /\ t.at = tab.at /\ t.session = tab.session
  BY <1>1, HookMoves
<1> HIDE DEF t
<1> QED
  BY <1>2, <1>3, TabMoves

LEMMA SetLimitStep ==
  ASSUME DashboardInv, NEW n \in Limits, SetLimit(n)
  PROVE  DashboardInv'
<1> DEFINE v == [tab.view EXCEPT !.limit = n]
           t == [tab EXCEPT !.view = v]
<1>1. /\ tab.at = "layout" /\ UNCHANGED <<dir, clock, server, requests, cookie>>
      /\ TabOK(tab, Tags) /\ ViewOK(tab.view, Tags)
  BY DEF SetLimit, DashboardInv, TabOK
<1>2. /\ DOMAIN v = DOMAIN tab.view
      /\ v.route = tab.view.route /\ v.hooks = tab.view.hooks
  BY <1>1 DEF ViewOK
<1>3. tab' = t
  BY DEF SetLimit
<1> HIDE DEF v
<1>4. ViewOK(v, Tags) /\ DOMAIN v.hooks = DOMAIN Paths(v.route, v.limit)
  BY <1>1, <1>2, PathsDomain DEF TabOK, ViewOK
<1>5. TabOK(t, Tags) /\ t.at = tab.at /\ t.session = tab.session
  BY <1>1, <1>4, ViewedOK
<1> HIDE DEF t
<1> QED
  BY <1>1, <1>3, <1>5, TabMoves

-----------------------------------------------------------------------------
\* A new request, told apart from those under way.
LEMMA NewRequest ==
  ASSUME NEW id, NEW who, NEW path, path[1] # "whoami"
  PROVE  LET r == Request(id, who, path, cookie) IN
         RequestOK(r) /\ Tag(r) = [id |-> id, who |-> who, path |-> path]
<1> DEFINE r == Request(id, who, path, cookie)
<1>1. /\ IsRequest(r) /\ r.id = id /\ r.who = who /\ r.path = path /\ r.at = "sent"
      /\ r.todo = <<>> /\ r.summaries = <<>> /\ r.held = {}
  BY DEF Request, IsRequest
<1> HIDE DEF r
<1>2. RequestOK(r) /\ Tag(r) = [id |-> id, who |-> who, path |-> path]
  BY <1>1 DEF RequestOK, StageOK, OverviewOK, CookiesOK, WhoamiOK, Tag
<1> QED
  BY <1>2 DEF r

LEMMA TagOf ==
  ASSUME NEW r \in requests
  PROVE  Tag(r) \in Tags /\ Tag(r).id = r.id /\ Tag(r).who = r.who /\ Tag(r).path = r.path
<1> QED
  BY DEF Tags, Tag

LEMMA FetchKeeps ==
  ASSUME DashboardInv, NEW who, NEW path, Fetch(who, path),
         path[1] # "whoami", who # <<"whoami">>, tab.at # "boot",
         path[1] = "login" <=> who = <<"login">>,
         path[1] = "logout" <=> who = <<"logout">>,
         who = <<"login">> => tab.at = "login" /\ \A r \in requests : r.who # <<"login">>,
         NEW t, tab' = t, t.at = tab.at, t.session = tab.session,
         Tags \subseteq Tags' /\ [id |-> FreeId, who |-> who, path |-> path] \in Tags' =>
           TabOK(t, Tags'),
         UNCHANGED <<dir, clock, server, cookie>>
  PROVE  DashboardInv'
<1> DEFINE r == Request(FreeId, who, path, cookie)
           tag == [id |-> FreeId, who |-> who, path |-> path]
<1>1. requests' = requests \cup {r} /\ FreeId \in Free
  BY DEF Fetch, FreeId
<1>2. RequestOK(r) /\ Tag(r) = tag
  BY NewRequest
<1> HIDE DEF r
<1>3. Tags' = Tags \cup {tag}
  <2>1. Tags' = {Tag(q) : q \in requests'}
    BY DEF Tags, Tag
  <2>2. {Tag(q) : q \in requests'} = Tags \cup {tag}
    BY <1>1, <1>2 DEF Tags
  <2> QED
    BY <2>1, <2>2
<1>4. \A s \in Tags : s.id # FreeId
  <2>1. \A q \in requests : q.id # FreeId
    BY <1>1 DEF Free
  <2>2. \A s \in Tags : \E q \in requests : s = Tag(q)
    BY DEF Tags
  <2> QED
    BY <2>1, <2>2, TagOf
<1>5. tag.id = FreeId /\ tag.who = who /\ tag.path = path
  OBVIOUS
<1>6. who = <<"login">> => \A s \in Tags : s.who # <<"login">>
  <2>1. \A s \in Tags : \E q \in requests : s = Tag(q)
    BY DEF Tags
  <2> QED
    BY <2>1, TagOf
<1> HIDE DEF tag
<1>7. TagsOK'
  <2>1. \A s, u \in Tags' : s.id = u.id => s = u
    BY <1>3, <1>4, <1>5 DEF DashboardInv, TagsOK
  <2>2. ASSUME NEW s \in Tags' PROVE NamedOK(s)'
    <3>1. CASE s \in Tags
      <4>1. NamedOK(s) /\ s.who # <<"whoami">>
        BY <3>1 DEF DashboardInv, TagsOK, NamedOK
      <4> QED
        BY <1>3, <1>5, <1>6, <3>1, <4>1 DEF NamedOK
    <3>2. CASE s = tag
      BY <1>3, <1>5, <1>6, <3>2 DEF NamedOK
    <3> QED
      BY <1>3, <3>1, <3>2
  <2> QED
    BY <2>1, <2>2 DEF TagsOK
<1>8. TabOK(tab, Tags)'
  BY <1>3 DEF tag
<1>9. \A q \in requests' : RequestOK(q)'
  BY <1>1, <1>2, RequestStays DEF DashboardInv
<1>10. ServerOK' /\ SessionShownIsHeld'
  BY DEF DashboardInv, ServerOK, SessionShownIsHeld
<1>11. IdsOK'
  <2>1. r.id = FreeId
    BY <1>2, <1>5 DEF Tag
  <2>2. FreeId \in Ids /\ \A q \in requests : q.id # FreeId
    BY <1>1 DEF Free
  <2> QED
    BY <1>1, <2>1, <2>2 DEF DashboardInv, IdsOK
<1> QED
  BY <1>7, <1>8, <1>9, <1>10, <1>11 DEF DashboardInv

LEMMA SubmitLoginStep ==
  ASSUME DashboardInv, NEW password, SubmitLogin(password)
  PROVE  DashboardInv'
<1> DEFINE path == <<"login", password>>
<1>1. /\ tab.at = "login" /\ \A r \in requests : r.who # <<"login">>
      /\ Fetch(<<"login">>, path) /\ UNCHANGED <<dir, clock, server, cookie, tab>>
  BY DEF SubmitLogin
<1>2. path[1] = "login"
  OBVIOUS
<1>3. <<"login">> # <<"whoami">> /\ <<"login">> # <<"logout">>
  OBVIOUS
<1>4. Tags \subseteq Tags' => TabOK(tab, Tags')
  BY MoreTags DEF DashboardInv
<1> HIDE DEF path
<1> QED
  BY <1>1, <1>2, <1>3, <1>4, FetchKeeps

LEMMA ClickLogoutStep == DashboardInv /\ ClickLogout => DashboardInv'
<1> SUFFICES ASSUME DashboardInv, ClickLogout PROVE DashboardInv'
  OBVIOUS
<1> DEFINE path == <<"logout">>
<1>1. /\ tab.at = "layout"
      /\ Fetch(<<"logout">>, path) /\ UNCHANGED <<dir, clock, server, cookie, tab>>
  BY DEF ClickLogout
<1>2. path[1] = "logout"
  OBVIOUS
<1>3. <<"logout">> # <<"whoami">> /\ <<"logout">> # <<"login">>
  OBVIOUS
<1>4. Tags \subseteq Tags' => TabOK(tab, Tags')
  BY MoreTags DEF DashboardInv
<1> HIDE DEF path
<1> QED
  BY <1>1, <1>2, <1>3, <1>4, FetchKeeps

LEMMA LookupStep ==
  ASSUME DashboardInv, NEW c, Lookup(c)
  PROVE  DashboardInv'
<1> DEFINE path == <<"status", c>>
           v == [tab.view EXCEPT !.lookup = FreeId]
           t == [tab EXCEPT !.view = v]
<1>1. /\ tab.at = "layout"
      /\ Fetch(<<"lookup">>, path) /\ UNCHANGED <<dir, clock, server, cookie>>
      /\ tab' = t
  BY DEF Lookup
<1>2. path[1] = "status"
  OBVIOUS
<1>3. <<"lookup">> # <<"whoami">> /\ <<"lookup">> # <<"login">> /\ <<"lookup">> # <<"logout">>
  OBVIOUS
<1>4. ViewOK(v, Tags) /\ DOMAIN v.hooks = DOMAIN Paths(v.route, v.limit)
  BY <1>1 DEF DashboardInv, TabOK, ViewOK
<1> HIDE DEF v
<1>5. TabOK(t, Tags) /\ t.at = tab.at /\ t.session = tab.session
  BY <1>1, <1>4, ViewedOK DEF DashboardInv
<1> HIDE DEF path, t
<1>6. Tags \subseteq Tags' => TabOK(t, Tags')
  BY <1>5, MoreTags
<1> QED
  BY <1>1, <1>2, <1>3, <1>5, <1>6, FetchKeeps

LEMMA RunEffectStep ==
  ASSUME DashboardInv, NEW i \in DOMAIN tab.view.hooks, RunEffect(i)
  PROVE  DashboardInv'
<1> DEFINE h == tab.view.hooks[i]
<1>1. /\ tab.at = "layout" /\ i \in DOMAIN Paths(tab.view.route, tab.view.limit)
      /\ HookOK(h, i, Tags) /\ tab.view.route \in Routes
      /\ UNCHANGED <<dir, clock, server, cookie>>
  BY HooksInPage DEF RunEffect, DashboardInv, TabOK, ViewOK
<1>2. CASE Want(i) = Null
  <2> DEFINE n == [Hook EXCEPT !.path = Null, !.loading = FALSE]
             t == [tab EXCEPT !.view.hooks[i] = n]
  <2>1. tab' = t /\ UNCHANGED requests
    BY <1>2 DEF RunEffect
  <2>2. HookOK(n, i, Tags)
    BY DEF HookOK, Hook
  <2> HIDE DEF n
  <2>3. TabOK(t, Tags) /\ t.at = tab.at /\ t.session = tab.session
    BY <2>2, HookMoves
  <2> HIDE DEF t
  <2> QED
    BY <1>1, <2>1, <2>3, TabMoves
<1>3. CASE Want(i) # Null
  <2> DEFINE path == Want(i)
             n == [h EXCEPT !.path = path, !.reload = FALSE, !.req = FreeId,
                            !.error = FALSE, !.loading = TRUE]
             t == [tab EXCEPT !.view.hooks[i] = n]
             who == <<"hook", i>>
             tag == [id |-> FreeId, who |-> who, path |-> path]
  <2>1. Fetch(who, path) /\ tab' = t
    BY <1>3 DEF RunEffect
  <2>2. path[1] \in {"registry", "circuits", "gatekeeper", "circuit", "report", "audit"}
    BY <1>1, <1>3, PathsOf DEF Want
  <2>3. who # <<"whoami">> /\ who # <<"login">> /\ who # <<"logout">>
    OBVIOUS
  <2>4. DOMAIN n = DOMAIN h /\ n.path = path /\ n.req = FreeId /\ n.loading = TRUE
    BY <1>1 DEF HookOK
  <2> HIDE DEF n, path, h
  <2>5. tag \in Tags' => HookOK(n, i, Tags')
    BY <1>1, <2>4 DEF HookOK
  <2>6. Tags \subseteq Tags' /\ tag \in Tags' => TabOK(t, Tags')
    BY <2>5, HookMoves
  <2>7. t.at = tab.at /\ t.session = tab.session
    BY DEF DashboardInv, TabOK
  <2> HIDE DEF t, who
  <2>8. path[1] \notin {"whoami", "login", "logout"} /\ tab.at # "boot"
    BY <1>1, <2>2
  <2> QED
    BY <1>1, <2>1, <2>3, <2>6, <2>7, <2>8, FetchKeeps
<1> QED
  BY <1>2, <1>3

-----------------------------------------------------------------------------
\* An answer arrives.  The tag of its request is gone and the others are there.
LEMMA TagGoes ==
  ASSUME DashboardInv, NEW r \in requests, requests' = requests \ {r}
  PROVE  /\ Tags' = Tags \ {Tag(r)}
         /\ \A t \in Tags : t.id = r.id => t = Tag(r)
<1>1. \A t \in Tags : t.id = r.id => t = Tag(r)
  BY TagOf DEF DashboardInv, TagsOK
<1>2. \A q \in requests : Tag(q) = Tag(r) => q = r
  BY TagOf DEF DashboardInv, IdsOK
<1>3. Tags' = {Tag(q) : q \in requests'}
  BY DEF Tags, Tag
<1>4. {Tag(q) : q \in requests'} = Tags \ {Tag(r)}
  BY <1>2 DEF Tags
<1> QED
  BY <1>1, <1>3, <1>4

\* What is left to show of an answer: what the tab becomes.
LEMMA ReceiveKeeps ==
  ASSUME DashboardInv, NEW r \in requests, requests' = requests \ {r},
         NEW t, tab' = t, TabOK(t, Tags'),
         t.at = tab.at \/ r.who \in {<<"whoami">>, <<"login">>} \/ t.at = "login",
         t.at = "layout" => cookie' # None /\ cookie'.expires = t.session,
         UNCHANGED <<dir, clock, server>>
  PROVE  DashboardInv'
<1>1. Tags' = Tags \ {Tag(r)}
  BY TagGoes
<1>2. /\ Tag(r) \in Tags /\ Tag(r).who = r.who
      /\ \A q \in requests : Tag(q) \in Tags /\ Tag(q).path = q.path /\ Tag(q).who = q.who
  BY TagOf
<1>3. \A s \in Tags' : s.who # <<"whoami">>
  BY <1>1, <1>2 DEF DashboardInv, TagsOK, NamedOK
<1>4. TagsOK'
  <2>1. ASSUME NEW s \in Tags' PROVE NamedOK(s)'
    <3>1. s \in Tags /\ NamedOK(s) /\ s # Tag(r)
      BY <1>1 DEF DashboardInv, TagsOK
    <3>2. CASE s.who # <<"login">>
      BY <1>3, <3>1, <3>2 DEF NamedOK
    <3>3. CASE s.who = <<"login">>
      <4>1. r.who # <<"whoami">> /\ r.who # <<"login">>
        BY <1>2, <3>1, <3>3 DEF DashboardInv, TagsOK, NamedOK
      <4>2. tab'.at = "login"
        BY <3>1, <3>3, <4>1 DEF NamedOK
      <4> QED
        BY <1>1, <1>3, <3>1, <3>3, <4>2 DEF NamedOK
    <3> QED
      BY <3>2, <3>3
  <2> QED
    BY <1>1, <2>1 DEF DashboardInv, TagsOK
<1>5. ASSUME NEW q \in requests' PROVE RequestOK(q)'
  <2>1. q \in requests /\ q # r /\ RequestOK(q)
    BY DEF DashboardInv
  <2>2. q.path[1] # "whoami"
    <3>1. Tag(q) \in Tags' /\ NamedOK(Tag(q)) /\ Tag(q).path = q.path
      <4>1. Tag(q) # Tag(r)
        BY <2>1, TagOf DEF DashboardInv, IdsOK
      <4> QED
        BY <1>1, <1>2, <2>1, <4>1 DEF DashboardInv, TagsOK
    <3> QED
      BY <1>3, <3>1 DEF NamedOK
  <2>3. OverviewOK(q)'
    BY <2>1 DEF RequestOK, OverviewOK, ReadingOK, Accounted, Whole, NotOlder
  <2> QED
    BY <2>1, <2>2, <2>3 DEF RequestOK, IsRequest, StageOK, CookiesOK, WhoamiOK
<1>6. IdsOK' /\ ServerOK' /\ SessionShownIsHeld'
  BY DEF DashboardInv, IdsOK, ServerOK, SessionShownIsHeld
<1> QED
  BY <1>4, <1>5, <1>6 DEF DashboardInv

\* Hooks that do not wait for it keep what they have.
LEMMA HookWaits ==
  ASSUME DashboardInv, NEW r \in requests, Tags' = Tags \ {Tag(r)},
         NEW i, NEW h, HookOK(h, i, Tags), h.req # r.id \/ r.who # <<"hook", i>>
  PROVE  HookOK(h, i, Tags')
<1>1. [id |-> h.req, who |-> <<"hook", i>>, path |-> h.path] # Tag(r)
  <2>1. Tag(r).id = r.id /\ Tag(r).who = r.who
    BY TagOf
  <2> QED
    BY <2>1
<1> QED
  BY <1>1 DEF HookOK

\* The hook that waits for it is the one that asked for this path.
LEMMA HookSettles ==
  ASSUME DashboardInv, NEW r \in requests, Tags' = Tags \ {Tag(r)},
         NEW i, NEW h, HookOK(h, i, Tags), r.who = <<"hook", i>>, r.id # 0
  PROVE  HookOK(Settle(h, r), i, Tags')
<1>1. CASE h.req # r.id
  BY <1>1, HookWaits DEF Settle
<1>2. CASE h.req = r.id
  <2> DEFINE tag == [id |-> h.req, who |-> <<"hook", i>>, path |-> h.path]
             n == SetState(h, r)
  <2>1. tag \in Tags /\ tag.id = r.id /\ tag.path = h.path
    BY <1>2 DEF HookOK
  <2>2. tag = Tag(r)
    BY <2>1, TagOf DEF DashboardInv, TagsOK
  <2>3. h.path = r.path
    BY <2>1, <2>2, TagOf
  <2>4. DOMAIN n = DOMAIN h /\ n.path = h.path /\ n.req = 0 /\ n.data \in {r.path, None}
    BY DEF HookOK, SetState
  <2> HIDE DEF n
  <2>5. HookOK(n, i, Tags')
    BY <2>3, <2>4 DEF HookOK
  <2> QED
    BY <1>2, <2>5 DEF Settle, n
<1> QED
  BY <1>1, <1>2

LEMMA ReceiveStep ==
  ASSUME DashboardInv, NEW r \in requests, Receive(r)
  PROVE  DashboardInv'
<1>1. /\ r.at = "answered" /\ requests' = requests \ {r}
      /\ cookie' = IF r.reply.cookies = {} THEN cookie ELSE CHOOSE c \in r.reply.cookies : TRUE
      /\ UNCHANGED <<dir, clock, server>>
  BY DEF Receive
<1>2. Tags' = Tags \ {Tag(r)}
  BY <1>1, TagGoes
<1>3. /\ NamedOK(Tag(r)) /\ Tag(r).who = r.who /\ Tag(r).path = r.path
      /\ CookiesOK(r) /\ WhoamiOK(r) /\ r.id # 0
  BY TagOf DEF DashboardInv, TagsOK, RequestOK, IdsOK, Ids
<1>4. /\ r.path[1] = "whoami" <=> r.who = <<"whoami">>
      /\ r.path[1] = "login" <=> r.who = <<"login">>
      /\ r.path[1] = "logout" <=> r.who = <<"logout">>
  BY <1>3 DEF NamedOK
<1>5. /\ <<"whoami">> # <<"login">> /\ <<"whoami">> # <<"logout">> /\ <<"login">> # <<"logout">>
      /\ <<"lookup">> \notin {<<"whoami">>, <<"login">>, <<"logout">>}
  OBVIOUS
<1>6. r.who \notin {<<"login">>, <<"logout">>} => UNCHANGED cookie
  BY <1>1, <1>3, <1>4 DEF CookiesOK
<1>7. TabOK(tab, Tags)
  BY DEF DashboardInv
\* The answer to whoami.
<1>8. CASE r.who = <<"whoami">>
  <2>1. CASE r.reply.ok
    <3> DEFINE t == Enter(tab, r.reply.body)
    <3>1. tab' = t
      BY <1>8, <2>1 DEF Receive
    <3>2. TabOK(t, Tags') /\ t.session = r.reply.body
      BY <1>7, EnterOK
    <3>3. cookie' # None /\ cookie'.expires = r.reply.body
      BY <1>1, <1>3, <1>4, <1>5, <1>6, <1>8, <2>1 DEF WhoamiOK
    <3> HIDE DEF t
    <3> QED
      BY <1>1, <1>8, <3>1, <3>2, <3>3, ReceiveKeeps
  <2>2. CASE ~r.reply.ok
    <3> DEFINE t == Leave(tab)
    <3>1. tab' = t
      BY <1>8, <2>2 DEF Receive
    <3>2. TabOK(t, Tags') /\ t.at = "login"
      BY <1>7, LeaveOK
    <3> HIDE DEF t
    <3> QED
      BY <1>1, <3>1, <3>2, ReceiveKeeps
  <2> QED
    BY <2>1, <2>2
\* The answer to a login, which brings its cookie.
<1>9. CASE r.who = <<"login">>
  <2>1. CASE r.reply.ok
    <3> DEFINE e == Enter(tab, r.reply.body)
               t == Navigate(e, <<"overview">>)
    <3>1. tab' = t
      BY <1>5, <1>9, <2>1 DEF Receive
    <3>2. TabOK(e, Tags') /\ e.session = r.reply.body
      BY <1>7, EnterOK
    <3> HIDE DEF e
    <3>3. TabOK(t, Tags') /\ t.session = r.reply.body
      <4>1. <<"overview">> \in Routes
        BY DEF Routes
      <4> QED
        BY <3>2, <4>1, NavigateOK
    <3>4. PICK c \in r.reply.cookies :
            c \in Sessions /\ r.reply.cookies = {c} /\ r.reply.body = c.expires
      BY <1>1, <1>3, <1>4, <1>9, <2>1 DEF CookiesOK
    <3>5. cookie' = c
      BY <1>1, <3>4
    <3>6. cookie' # None /\ cookie'.expires = r.reply.body
      BY <3>4, <3>5, DashboardAssumption
    <3> HIDE DEF t
    <3> QED
      BY <1>1, <1>9, <3>1, <3>3, <3>6, ReceiveKeeps
  <2>2. CASE ~r.reply.ok
    <3>1. tab' = tab
      BY <1>5, <1>9, <2>2 DEF Receive
    <3>2. tab.at = "login"
      BY <1>3, <1>9 DEF NamedOK
    <3>3. ViewOK(tab.view, Tags') /\ TabOK(tab, Tags')
      BY <1>7, <3>2 DEF TabOK, ViewOK
    <3> QED
      BY <1>1, <3>1, <3>2, <3>3, ReceiveKeeps
  <2> QED
    BY <2>1, <2>2
<1>10. CASE r.who = <<"logout">>
  <2> DEFINE t == Leave(tab)
  <2>1. tab' = t
    BY <1>5, <1>10 DEF Receive
  <2>2. TabOK(t, Tags') /\ t.at = "login"
    BY <1>7, LeaveOK
  <2> HIDE DEF t
  <2> QED
    BY <1>1, <2>1, <2>2, ReceiveKeeps
\* Other answers leave the session alone.
<1>11. SUFFICES ASSUME r.who \notin {<<"whoami">>, <<"login">>, <<"logout">>}
                PROVE  DashboardInv'
  BY <1>8, <1>9, <1>10
<1>12. ASSUME NEW v, ViewOK(v, Tags'), v.route = tab.view.route, v.limit = tab.view.limit,
              DOMAIN v.hooks = DOMAIN tab.view.hooks, tab' = [tab EXCEPT !.view = v]
       PROVE  DashboardInv'
  <2> DEFINE t == [tab EXCEPT !.view = v]
  <2>1. DOMAIN v.hooks = IF tab.at = "layout" THEN DOMAIN Paths(v.route, v.limit) ELSE {}
    BY <1>7, <1>12 DEF TabOK
  <2>2. TabOK(t, Tags') /\ t.at = tab.at /\ t.session = tab.session
    BY <1>7, <1>12, <2>1, ViewedOK
  <2>3. t.at = "layout" => cookie' # None /\ cookie'.expires = t.session
    BY <1>6, <1>11, <2>2 DEF DashboardInv, SessionShownIsHeld
  <2>4. tab' = t
    BY <1>12
  <2> HIDE DEF t
  <2> QED
    BY <1>1, <2>2, <2>3, <2>4, ReceiveKeeps
<1>13. \A i \in DOMAIN tab.view.hooks : HookOK(tab.view.hooks[i], i, Tags)
  BY <1>7 DEF TabOK, ViewOK
<1>14. CASE r.who = <<"lookup">>
  <2> DEFINE v == [tab.view EXCEPT !.lookup = IF @ = r.id THEN 0 ELSE @]
  <2>1. tab' = [tab EXCEPT !.view = v]
    BY <1>5, <1>7, <1>14 DEF Receive, TabOK
  <2>2. /\ DOMAIN v = DOMAIN tab.view
        /\ v.route = tab.view.route /\ v.limit = tab.view.limit /\ v.hooks = tab.view.hooks
    BY <1>7 DEF TabOK, ViewOK
  <2> HIDE DEF v
  <2>3. \A i : r.who # <<"hook", i>>
    BY <1>14
  <2>4. ViewOK(v, Tags')
    BY <1>2, <1>7, <1>13, <2>2, <2>3, HookWaits DEF TabOK, ViewOK
  <2> QED
    BY <1>12, <2>1, <2>2, <2>4
<1>15. CASE r.who # <<"lookup">>
  <2> DEFINE hooks == [i \in DOMAIN tab.view.hooks |->
                         IF r.who = <<"hook", i>> THEN Settle(tab.view.hooks[i], r)
                         ELSE tab.view.hooks[i]]
             v == [tab.view EXCEPT !.hooks = hooks]
  <2>1. tab' = [tab EXCEPT !.view.hooks = hooks]
    BY <1>11, <1>15 DEF Receive
  <2>2. DOMAIN hooks = DOMAIN tab.view.hooks
    OBVIOUS
  <2>3. \A i \in DOMAIN hooks : HookOK(hooks[i], i, Tags')
    BY <1>2, <1>3, <1>13, HookSettles, HookWaits
  <2> HIDE DEF hooks
  <2>4. /\ DOMAIN v = DOMAIN tab.view
        /\ v.route = tab.view.route /\ v.limit = tab.view.limit /\ v.hooks = hooks
    BY <1>7 DEF TabOK, ViewOK
  <2>5. tab' = [tab EXCEPT !.view = v]
    BY <1>7, <2>1 DEF TabOK
  <2> HIDE DEF v
  <2>6. ViewOK(v, Tags')
    BY <1>7, <2>2, <2>3, <2>4 DEF TabOK, ViewOK
  <2> QED
    BY <1>12, <2>2, <2>4, <2>5, <2>6
<1> QED
  BY <1>14, <1>15

-----------------------------------------------------------------------------
\* Opening the tab: one request, with the cookie there is.
LEMMA FirstRequest ==
  LET r == Request(1, <<"whoami">>, <<"whoami">>, cookie) IN
  /\ RequestOK(r) /\ r.id = 1
  /\ Tag(r).who = <<"whoami">> /\ Tag(r).path[1] = "whoami"
<1> DEFINE r == Request(1, <<"whoami">>, <<"whoami">>, cookie)
<1>1. /\ IsRequest(r) /\ r.id = 1 /\ r.who = <<"whoami">> /\ r.path = <<"whoami">> /\ r.at = "sent"
      /\ r.cookie = cookie /\ r.todo = <<>> /\ r.summaries = <<>> /\ r.held = {}
  BY DEF Request, IsRequest
<1>2. r.path[1] = "whoami"
  BY <1>1
<1> HIDE DEF r
<1>3. RequestOK(r)
  BY <1>1, <1>2 DEF RequestOK, StageOK, OverviewOK, CookiesOK, WhoamiOK
<1>4. Tag(r).who = <<"whoami">> /\ Tag(r).path[1] = "whoami"
  BY <1>1, <1>2 DEF Tag
<1> QED
  BY <1>1, <1>3, <1>4 DEF r

Boot == tab.at = "boot" /\ requests = {Request(1, <<"whoami">>, <<"whoami">>, cookie)}

LEMMA BootOK == ServerOK /\ TabOK(tab, Tags) /\ Boot => DashboardInv
<1> SUFFICES ASSUME ServerOK, TabOK(tab, Tags), Boot PROVE DashboardInv
  OBVIOUS
<1> DEFINE r == Request(1, <<"whoami">>, <<"whoami">>, cookie)
<1>1. /\ RequestOK(r) /\ r.id = 1
      /\ Tag(r).who = <<"whoami">> /\ Tag(r).path[1] = "whoami"
  BY FirstRequest
<1>2. requests = {r} /\ tab.at = "boot"
  BY DEF Boot
<1> HIDE DEF r
<1>3. Tags = {Tag(r)}
  BY <1>2 DEF Tags
<1>4. IdsOK
  BY <1>1, <1>2, BrowserAssumption DEF IdsOK, Ids
<1>5. <<"whoami">> # <<"login">> /\ <<"whoami">> # <<"logout">>
  OBVIOUS
<1>6. TagsOK
  BY <1>1, <1>2, <1>3, <1>5 DEF TagsOK, NamedOK
<1> QED
  BY <1>1, <1>2, <1>4, <1>6 DEF DashboardInv, SessionShownIsHeld

LEMMA OpenTabStep == DashboardInv /\ OpenTab => DashboardInv'
<1> SUFFICES ASSUME DashboardInv, OpenTab PROVE DashboardInv'
  OBVIOUS
<1> DEFINE v == [NoPage EXCEPT !.route = tab.hash]
           t == [tab EXCEPT !.at = "boot", !.session = None, !.event = FALSE, !.view = v]
<1>1. TabOK(tab, Tags) /\ tab.hash \in Routes
  BY DEF DashboardInv, TabOK
<1>2. /\ tab' = t /\ requests' = {Request(1, <<"whoami">>, <<"whoami">>, cookie')}
      /\ UNCHANGED <<dir, clock, server, cookie>>
  BY DEF OpenTab
<1>3. ViewOK(v, Tags') /\ DOMAIN v.hooks = {}
  BY <1>1, NoPageOK
<1> HIDE DEF v
<1>4. DOMAIN t = DOMAIN tab /\ t.at = "boot" /\ t.hash = tab.hash /\ t.view = v
  BY <1>1 DEF TabOK
<1> HIDE DEF t
<1>5. TabOK(t, Tags')
  BY <1>1, <1>3, <1>4 DEF TabOK
<1>6. ServerOK' /\ TabOK(tab, Tags)'
  BY <1>2, <1>5 DEF DashboardInv, ServerOK
<1>7. Boot'
  BY <1>2, <1>4 DEF Boot, Request
<1> QED
  BY <1>6, <1>7, BootOK, PTL

LEMMA InitDashboardInv == DashboardInit => DashboardInv
<1> SUFFICES ASSUME DashboardInit PROVE DashboardInv
  OBVIOUS
<1>1. ServerOK
  <2>1. dir \in [Files -> Reports \cup {None}]
    BY DashboardAssumption DEF DashboardInit, ServerInit
  <2> QED
    BY <2>1, DashboardAssumption DEF DashboardInit, ServerInit, Up, ServerOK
<1>2. TabOK(tab, Tags)
  <2> DEFINE v == [NoPage EXCEPT !.route = <<"overview">>]
  <2>1. <<"overview">> \in Routes
    BY DEF Routes
  <2>2. ViewOK(v, Tags) /\ DOMAIN v.hooks = {}
    BY <2>1, NoPageOK
  <2>3. tab = [at |-> "boot", session |-> None, hash |-> <<"overview">>, event |-> FALSE,
               view |-> v]
    BY DEF DashboardInit
  <2> HIDE DEF v
  <2> QED
    BY <2>1, <2>2, <2>3 DEF TabOK
<1>3. Boot
  BY DEF DashboardInit, Boot
<1> QED
  BY <1>1, <1>2, <1>3, BootOK

LEMMA NextDashboardInv == DashboardInv /\ [DashboardNext]_vars => DashboardInv'
<1> SUFFICES ASSUME DashboardInv, [DashboardNext]_vars PROVE DashboardInv'
  OBVIOUS
<1>1. CASE ServerNext /\ UNCHANGED <<cookie, tab>>
  BY <1>1, ServerStep
<1>2. CASE OpenTab \/ HashChange \/ ClickLogout
  BY <1>2, OpenTabStep, HashChangeStep, ClickLogoutStep
<1>3. CASE \E route \in Routes :
             FollowLink(route, TRUE) \/ FollowLink(route, FALSE) \/ Button(route)
  BY <1>3, FollowLinkStep, ButtonStep
<1>4. CASE \/ \E password \in {"right", "wrong"} : SubmitLogin(password)
           \/ \E i \in DOMAIN tab.view.hooks : RunEffect(i) \/ Refresh(i)
           \/ \E n \in Limits : SetLimit(n)
           \/ \E c \in Circuits : Lookup(c)
  BY <1>4, SubmitLoginStep, RunEffectStep, RefreshStep, SetLimitStep, LookupStep
<1>5. CASE \E r \in requests : Receive(r)
  BY <1>5, ReceiveStep
<1>6. CASE UNCHANGED vars
  <2>1. ServerOK' /\ UNCHANGED <<dir, requests, cookie, tab>>
    BY <1>6 DEF vars, serverVars, DashboardInv, ServerOK
  <2> QED
    BY <2>1, QuietStep
<1> QED
  BY <1>1, <1>2, <1>3, <1>4, <1>5, <1>6 DEF DashboardNext

\* What the server, the browser and the tab hold, for any number of fetches under
\* way, whatever is lost, restarted or rewritten meanwhile.
THEOREM DashboardCorrect == DashboardSpec => []DashboardInv
<1> QED
  BY InitDashboardInv, NextDashboardInv, PTL DEF DashboardSpec

\* The overview's verdicts are those of reports at least as new as every report
\* that stayed whole from the listing to the answer: each of these is still to be
\* read or among the summaries, which stay in the order of the listing.
THEOREM OverviewNewest == DashboardSpec => []OverviewIsNewest
<1>1. DashboardInv => OverviewIsNewest
  BY DEF DashboardInv, RequestOK, OverviewOK, NotOlder, OverviewIsNewest
<1> QED
  BY <1>1, DashboardCorrect, PTL

\* A hook shows the data of its path: only the one request it waits for may set
\* them, and that request is for this path.
THEOREM LoadedAsAsked == DashboardSpec => []LoadedIsAsked
<1>1. DashboardInv => LoadedIsAsked
  BY DEF DashboardInv, TabOK, ViewOK, HookOK, LoadedIsAsked
<1> QED
  BY <1>1, DashboardCorrect, PTL

\* A tab that shows a session has its cookie: a page is entered only with the
\* answer to whoami or login, and no other answer can set a cookie until then.
THEOREM SessionHeld == DashboardSpec => []SessionShownIsHeld
<1>1. DashboardInv => SessionShownIsHeld
  BY DEF DashboardInv
<1> QED
  BY <1>1, DashboardCorrect, PTL
=============================================================================
