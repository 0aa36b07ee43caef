------------------------------- MODULE Reads -------------------------------
(***************************************************************************)
(* One read request of the API (handlers_monitoring.go, handlers_history.go *)
(* and internal/repository/mysql): a list, the page of one object, or the   *)
(* dashboard's summary.  It is a sequence of statements, each of which sees *)
(* the database as it is then, while the worker writes; timeoutMiddleware   *)
(* ends it.  A client may walk a list page by page.                         *)
(***************************************************************************)
EXTENDS Queries

CONSTANTS
    Scenes,         \* databases, what is asked of each of them, the clock
                    \* when it is, and a bound on the worker's writes
    NewRows,        \* the status rows the worker may write
    MaxClock        \* bound on time

\* The three kinds of requests.  Whoever walks over a list begins with its first
\* page.
Requests ==
    {a \in [type : {"list"}, q : ListQueries, walk : BOOLEAN] :
         a.walk => a.q.offset \in {Absent, 0}}
    \cup [type : {"detail"}, obj : Objects]
    \cup [type : {"summary"}, hours : Nat]

\* Finite tables; one status row for an object, which is their primary key; and
\* nothing sent in the future: the core's clock is the daemon's.
IsDatabase(tables, clock) ==
    /\ DOMAIN tables = Tables
    /\ \A t \in Tables : IsFiniteSet(tables[t]) /\ tables[t] \subseteq RowsOf(t)
    /\ \A x, y \in tables["status"] : x.obj = y.obj => x = y
    /\ \A x \in tables["notifications"] : x.at <= clock

ASSUME ReadsAssumption ==
    /\ MaxClock \in Nat
    /\ NewRows \subseteq StatusRows
    /\ \A scene \in Scenes :
           /\ scene.clock \in 0 .. MaxClock /\ scene.writes \in Nat
           /\ \A tables \in scene.dbs : IsDatabase(tables, scene.clock)
           /\ scene.asks \subseteq Requests

VARIABLES
    db,             \* the worker's tables
    now,            \* the clock
    ask,            \* the request
    place,          \* "asked", "reading" or "answered"
    began,          \* when the handler started
    got,            \* what the statements so far have returned, by name
    status,         \* of the answer; 0 before there is one, or a client
    book,           \* the rows on the pages a client has walked over
    written,        \* history: how often the worker has written meanwhile
    writes          \* how often it still may

dataVars == <<db, now, writes>>
vars == <<dataVars, ask, place, began, got, status, book, written>>

\* Nothing was written since the request, or the first page of a walk.
still == written = 0

Nothing == <<>>

Filter == FilterOf(ask.q, began)
Page == PageOf(ask.q)

SummaryStatements ==
    <<"hosts", "hostStates", "services", "serviceStates", "hostNotes",
      "serviceNotes", "previous", "oldest">>

Init ==
    /\ \E scene \in Scenes : /\ db \in scene.dbs /\ ask \in scene.asks
                             /\ now = scene.clock /\ writes = scene.writes
    /\ began = 0
    /\ place = "asked" /\ got = Nothing /\ status = 0
    /\ book = <<>> /\ written = 0

-----------------------------------------------------------------------------
(* The statements                                                          *)

Matching == Selected(ask.q.list, Filter, db, began)

\* Variant, not the code: the loop over the rows ends where they end.
FetchedUnchecked(rows) ==
    UNION {{SubSeq(s, 1, n) : n \in 0 .. Len(s)} : s \in Pages(ask.q.list, Page, rows)}

\* The page's rows; a failure between two rows is an error (rows.Err).
Fetched(rows) == Pages(ask.q.list, Page, rows)

\* Variant, not the code: a host is named, and nothing said of its services.
OfHost(o) == [NoFilter EXCEPT !.host = o.host, !.svc = o.svc]

\* ForObject and LatestFor read the first page of a list of this object's.
OfObject(o) == [NoFilter EXCEPT !.kind = o.kind, !.host = o.host, !.svc = o.svc]

Newest(list, n) ==
    Pages(list, [limit |-> n, offset |-> 0, sort |-> "time", desc |-> TRUE],
          Selected(list, OfObject(ask.obj), db, now))

StatusOf(kind) == {x \in db.status : x.obj.kind = kind}

IsProblem(x) == x.checked /\ x.state # 0

\* Variant, not the code: an object that was never checked counts as well.
UnhandledUnchecked(x) == x.state # 0 /\ OrZero(x.acked) = 0 /\ OrZero(x.depth) = 0

Unhandled(x) == IsProblem(x) /\ OrZero(x.acked) = 0 /\ OrZero(x.depth) = 0

Count(S) == Cardinality(S)

\* Summary.counts: one scan, every number.  since is the start of the window.
Counts(kind, since) ==
    LET rows == StatusOf(kind)
    IN  [total |-> Count(rows),
         pending |-> Count({x \in rows : ~x.checked}),
         problems |-> Count({x \in rows : IsProblem(x)}),
         unhandled |-> Count({x \in rows : Unhandled(x)}),
         acked |-> Count({x \in rows : OrZero(x.acked) = 1}),
         inDowntime |-> Count({x \in rows : OrZero(x.depth) > 0}),
         changed |-> Count({x \in rows : x.at >= since /\ x.at > 0})]

\* Variant, not the code: what was never checked counts too.
ByStateUnchecked(kind) ==
    [s \in 0 .. 3 |-> Count({x \in StatusOf(kind) : x.state = s})]

\* Summary.byState, which is a statement of its own.
ByState(kind) ==
    [s \in 0 .. 3 |-> Count({x \in StatusOf(kind) : x.checked /\ x.state = s})]

Notes(kind) == {x \in db.notifications : x.obj.kind = kind}

Since == began - ask.hours * Hour

\* Summary.notifications: the hours that have any, and how many.
ByHour(kind) ==
    LET rows == {x \in Notes(kind) : x.at >= Since}
    IN  [h \in {x.at \div Hour : x \in rows} |->
            Count({x \in rows : x.at \div Hour = h})]

\* Variant, not the code: by the clock the request began with.
LastHourAtStart == began \div Hour

\* The last hour shown, by the clock after the statements.
LastHour == now \div Hour

\* Summary.notificationsBetween, over as long a time as has passed since then.
Previous == Count({x \in db.notifications : x.at >= 2 * Since - now /\ x.at < Since})

\* Summary.oldestUnhandled: the first of each table, and of the two the older.
Firsts(kind) ==
    LET rows == {x \in StatusOf(kind) : Unhandled(x) /\ x.at > 0}
    IN  {x \in rows : \A y \in rows : x.at <= y.at}

\* Variant, not the code: a host's problem always comes first.
HostsFirst(H, S) == IF H = {} THEN S ELSE H

Older(H, S) ==
    IF H = {} THEN S
    ELSE IF \E h \in H, s \in S : s.at < h.at THEN S ELSE H

Oldest == Older(Firsts("host"), Firsts("service"))

\* What a statement may return.
Returns(statement) ==
    CASE statement = "count" -> {Count(Matching)}
      [] statement = "rows" -> Fetched(Matching)
      [] statement = "object" -> {{x \in db.status : x.obj = ask.obj}}
      [] statement = "downtimes" -> Newest("downtimes", MaxDowntimes)
      [] statement = "ack" -> Newest("acks", 1)
      [] statement = "hosts" -> {Counts("host", Since)}
      [] statement = "hostStates" -> {ByState("host")}
      [] statement = "services" -> {Counts("service", Since)}
      [] statement = "serviceStates" -> {ByState("service")}
      [] statement = "hostNotes" -> {ByHour("host")}
      [] statement = "serviceNotes" -> {ByHour("service")}
      [] statement = "previous" -> {Previous}
      [] statement = "oldest" -> IF Oldest = {} THEN {{}} ELSE {{x} : x \in Oldest}

Has(statement) == statement \in DOMAIN got

\* The statement that comes next, and "none" after the last.
NextOfList ==
    IF ~Has("count") THEN "count"
    ELSE IF got.count > 0 /\ ~Has("rows") THEN "rows" ELSE "none"

\* handleGetHost, handleGetService: the status row says what else to read.
NextOfDetail ==
    CASE ~Has("object") -> "object"
      [] Has("object") /\ got.object = {} -> "none"
      [] OTHER ->
          LET x == CHOOSE x \in got.object : TRUE
          IN  IF OrZero(x.depth) > 0 /\ ~Has("downtimes") THEN "downtimes"
              ELSE IF OrZero(x.acked) = 1 /\ ~Has("ack") THEN "ack" ELSE "none"

NextOfSummary ==
    LET left == {i \in DOMAIN SummaryStatements : ~Has(SummaryStatements[i])}
    IN  IF left = {} THEN "none"
        ELSE SummaryStatements[CHOOSE i \in left : \A j \in left : i <= j]

Statement ==
    CASE ask.type = "list" -> NextOfList
      [] ask.type = "detail" -> NextOfDetail
      [] ask.type = "summary" -> NextOfSummary

-----------------------------------------------------------------------------
(* The handler                                                             *)

\* hours is between 1 and maxSummaryHours, and an object is always named.
Refused == ask.type = "list" /\ Refuses(ask.q, now)

Begin ==
    /\ place = "asked"
    /\ began' = now /\ got' = Nothing
    /\ IF Refused THEN place' = "answered" /\ status' = 400
                  ELSE place' = "reading" /\ status' = 0
    /\ UNCHANGED <<dataVars, ask, book, written>>

Extended(f, x, y) ==
    [z \in DOMAIN f \cup {x} |-> IF z = x THEN y ELSE f[z]]

Keep(statement, r) == Extended(got, statement, r)

Execute ==
    /\ place = "reading" /\ Statement # "none"
    /\ \E r \in Returns(Statement) :
          got' = IF Statement = "serviceNotes"
                 THEN Extended(Keep(Statement, r), "lastHour", LastHour)
                 ELSE Keep(Statement, r)
    /\ UNCHANGED <<dataVars, ask, place, began, status, book, written>>

NotFound == ask.type = "detail" /\ got.object = {}

\* writeList, writeHistory, writeJSON.
Respond ==
    /\ place = "reading" /\ Statement = "none"
    /\ place' = "answered"
    /\ status' = IF NotFound THEN 404 ELSE 200
    /\ book' = IF Has("rows") THEN book \o got.rows ELSE book
    /\ UNCHANGED <<dataVars, ask, began, got, written>>

\* internalError: no number and no row goes out.
Ends(code) ==
    /\ place' = "answered" /\ status' = code /\ got' = Nothing
    /\ UNCHANGED <<dataVars, ask, began, book, written>>

\* Variant, not the code: the timeout is over with the first statement.
InFirstStatement == place = "reading" /\ got = Nothing

InTime == place = "reading"

Deadline == InTime /\ Ends(504)

\* The statement fails, or the client has gone, who gets no answer at all.
Fails == place = "reading" /\ (Ends(500) \/ Ends(0))

-----------------------------------------------------------------------------
(* Outside: the client and the worker                                      *)

Walked == Page.offset + Page.limit >= IF Has("count") THEN got.count ELSE 0

NextPage ==
    /\ place = "answered" /\ status = 200
    /\ ask.type = "list" /\ ask.walk /\ ~Walked
    /\ place' = "asked"
    /\ ask' = [ask EXCEPT !.q.offset = Page.offset + Page.limit]
    /\ UNCHANGED <<dataVars, began, got, status, book, written>>

Writes(table, rows) ==
    /\ writes > 0
    /\ writes' = writes - 1
    /\ db' = [db EXCEPT ![table] = rows]

\* The worker's upsert: an object's row is replaced, or there is one more.
StatusChanges ==
    \E y \in NewRows \ db.status :
        Writes("status", {x \in db.status : x.obj # y.obj} \cup {y})

\* The acknowledgement's own row, before or after the status row.
Acknowledged(o) ==
    Writes("acks", db.acks \cup {[obj |-> o, at |-> now, state |-> 1]})

DowntimeEnds == \E x \in db.downtimes : Writes("downtimes", db.downtimes \ {x})

Notified(o) ==
    Writes("notifications", db.notifications \cup
               {[obj |-> o, at |-> now, state |-> 1, contact |-> writes]})

WorkerWrites ==
    /\ place = "reading" \/ (place = "asked" /\ book # <<>>)
    /\ \/ StatusChanges
       \/ DowntimeEnds
       \/ \E x \in db.status : Acknowledged(x.obj) \/ Notified(x.obj)
    /\ written' = written + 1
    /\ UNCHANGED <<now, ask, place, began, got, status, book>>

Tick ==
    /\ place = "reading" /\ now < MaxClock
    /\ now' = now + 1
    /\ UNCHANGED <<db, writes, ask, place, began, got, status, book, written>>

Next ==
    \/ Begin
    \/ Execute
    \/ Respond
    \/ Deadline
    \/ Fails
    \/ NextPage
    \/ WorkerWrites
    \/ Tick

\* The database may never answer; the deadline comes.
Spec == Init /\ [][Next]_vars /\ WF_vars(Deadline) /\ WF_vars(Begin)

-----------------------------------------------------------------------------
(* Properties                                                              *)

Answered(type) == place = "answered" /\ status = 200 /\ ask.type = type

\* A client has walked over the whole list, and nothing was written meanwhile.
WalkedStill == Answered("list") /\ ask.walk /\ still /\ Walked

EachRowOnce ==
    \A x \in Matching : Cardinality({i \in DOMAIN book : book[i] = x}) = 1

\* orderBy, "The tiebreaker keeps paging stable": whoever walks over a list
\* that nothing is written to sees each of its rows once.
PagingIsStable == WalkedStill => EachRowOnce

\* The same of the hosts, whose tiebreaker is their name: it holds for every
\* column they can be sorted by, one way or the other, and every page size.
HostPagesCoverOnce == ask.type = "list" /\ ask.q.list = "hosts" => PagingIsStable

\* rows.Err and the count before the page: an answer of 200 has as many rows as
\* the page has room for and the list has left, however statements failed.
AnswersAreWhole ==
    Answered("list") /\ still =>
        LET left == Count(Matching) - Page.offset
            full == IF left < Page.limit THEN left ELSE Page.limit
        IN  /\ got.count = Count(Matching)
            /\ (IF Has("rows") THEN Len(got.rows) ELSE 0) = IF full < 0 THEN 0 ELSE full

\* handlers_history.go, "Window policy": whatever parameters a caller leaves
\* out, no accepted request reads rows of a longer time than its list allows,
\* which without a host is six hours.
RowsWithinPolicy ==
    Answered("list") /\ ask.q.list \in HistoryLists \cup {"log"} =>
        \A x, y \in Matching :
            x.at - y.at <= IF ask.q.list = "log" THEN 31 * 24 * Hour
                           ELSE IF ask.q.f.host # 0 THEN 90 * 24 * Hour ELSE 6 * Hour

\* byState, "a total that does not add up is worse than an odd label": the
\* states are counted by a statement after the totals' (summary.go 261), and the
\* dashboard's first tiles show the two as "part of total" (dashboard.html 73).
\* The states and the objects never checked add up to the total, and so do those
\* that are fine, the problems and the unchecked, but for as many objects as the
\* worker has written meanwhile: not every number is of one scan.
StatesFitTotals ==
    Answered("summary") =>
        \A p \in {<<got.hosts, got.hostStates>>, <<got.services, got.serviceStates>>} :
            LET c == p[1]
                states == p[2]
                all == states[0] + states[1] + states[2] + states[3] + c.pending
                fine == states[0] + c.problems + c.pending
            IN  /\ all - c.total \in -written .. written
                /\ fine - c.total \in -written .. written

ListOf(kind, f) == Count(Selected("problems", [f EXCEPT !.kind = kind], db, now))

\* Unhandled problems that no filter takes for one: a column is NULL.
Undecided(kind) ==
    Count({x \in StatusOf(kind) : Unhandled(x) /\ Null \in {x.acked, x.depth}})

\* The dashboard's tiles link to the lists they count (dashboard.html): while
\* nothing is written, a tile says how many rows its list has, except that the
\* tile takes a NULL for 0 (summary.go 229) and the list of what is not handled
\* leaves it out (problems.go 158).
TilesMatchLists ==
    Answered("summary") /\ still =>
        \A kind \in Kinds :
            LET c == IF kind = "host" THEN got.hosts ELSE got.services
            IN  /\ c.problems = ListOf(kind, NoFilter)
                /\ c.unhandled = ListOf(kind, [NoFilter EXCEPT !.handled = {FALSE}])
                                    + Undecided(kind)

\* oldestUnhandled, "the problem that has been in its state longest": of all the
\* unhandled problems of the list that have a time, none has waited longer than
\* the one shown.
OldestWaitsLongest ==
    Answered("summary") /\ still =>
        \A x \in Selected("problems", [NoFilter EXCEPT !.handled = {FALSE}], db, now) :
            x.at > 0 => \E y \in got.oldest : y.at <= x.at

Hours == {Since \div Hour + i : i \in 0 .. got.lastHour - Since \div Hour}

Shown(byHour) == MapThenSumSet(LAMBDA h : byHour[h], DOMAIN byHour \cap Hours)

\* notifications, "Every hour in the window": the hours drawn add up to the
\* number next to them, whatever is sent, and whichever hour begins, while the
\* summary is read.
HoursAddUp ==
    Answered("summary") =>
        \A byHour \in {got.hostNotes, got.serviceNotes} :
            Shown(byHour) = MapThenSumSet(LAMBDA h : byHour[h], DOMAIN byHour)

\* hostDetail, "the records that explain why it is quiet": they are this
\* object's own, and the acknowledgement only when its row said so.  While
\* nothing is written, the acknowledgement is the latest on record; whether the
\* row that is acknowledged now is on record yet is the worker's to say
\* (handlers_monitoring.go 141 has "the acknowledgement in force").  And every
\* window of the object is there, as operations.md 78 says of the page, as long
\* as there are no more than ForObject asks for (downtimes.go 199).
DetailExplains ==
    Answered("detail") =>
        \A x \in got.object :
            /\ Has("ack") => /\ x.acked = 1
                             /\ \A i \in DOMAIN got.ack : got.ack[i].obj = x.obj
                             /\ still => \A y \in db.acks : y.obj = x.obj =>
                                    got.ack # <<>> /\ y.at <= got.ack[1].at
            /\ Has("downtimes") => \A i \in DOMAIN got.downtimes :
                                       got.downtimes[i].obj = x.obj
            /\ still /\ x.depth > 0 /\ Has("downtimes") =>
                   LET windows == {y \in db.downtimes : y.obj = x.obj}
                   IN  Count(windows) <= MaxDowntimes =>
                          \A y \in windows : \E i \in DOMAIN got.downtimes :
                              got.downtimes[i] = y

\* timeoutMiddleware, "With it, the driver cancels the query": a request is
\* over at some time though the database never answers.
RequestsEnd == place = "reading" ~> place = "answered"
=============================================================================
