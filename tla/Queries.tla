------------------------------ MODULE Queries ------------------------------
(***************************************************************************)
(* What the reads select and in which order: the filters, unions and       *)
(* orderings of internal/repository/mysql and the parameters its handlers  *)
(* accept (internal/httpapi, params.go and handlers_*.go).                 *)
(*                                                                         *)
(* A database is a function from tables to sets of rows; the host and the  *)
(* service table of one thing are one table here, told apart by the kind   *)
(* of a row's object.  Names are numbers, which is all an ordering or an   *)
(* equality needs.  Columns that are only shown are left out, and so are   *)
(* the conditions that are one more equality or LIKE of the same form      *)
(* (search, author, node, type, flapping, checks and notifications on).    *)
(* The two columns that say whether a problem is handled may be NULL; a    *)
(* state always is one.                                                    *)
(***************************************************************************)
EXTENDS Integers, FiniteSets, SequencesExt

CONSTANTS
    Hour,               \* units of time in an hour
    DefaultPageSize, MaxPageSize,
    MaxDowntimes        \* rows ForObject asks for

ASSUME QueriesAssumption ==
    /\ Hour \in Nat \ {0}
    /\ DefaultPageSize \in Nat \ {0} /\ MaxPageSize \in Nat \ {0}
    /\ DefaultPageSize <= MaxPageSize
    /\ MaxDowntimes \in Nat \ {0}

Kinds == {"host", "service"}

StatusLists == {"hosts", "services", "problems"}
DowntimeLists == {"downtimes", "downtimehistory"}
HistoryLists == {"checks", "statechanges", "notifications"}
Lists == StatusLists \cup DowntimeLists \cup HistoryLists \cup {"acks", "log"}

\* The table a list reads; every list but these three has its own.
Source(list) == IF list \in StatusLists THEN "status" ELSE list

Tables == {Source(list) : list \in Lists}

-----------------------------------------------------------------------------
(* Rows                                                                    *)

\* A service has a name on its host; no name is 0.
Objects == [kind : {"host"}, host : Nat \ {0}, svc : {0}]
               \cup [kind : {"service"}, host : Nat \ {0}, svc : Nat \ {0}]

\* What a column that is NULL compares as: neither 0 nor more.
Null == -1

\* COALESCE(column, 0).
OrZero(column) == IF column = Null THEN 0 ELSE column

\* One for each object, as of its last event; at is when its state last
\* changed, and checked whether it ever was (Pending).  The schema allows NULL
\* in nearly every column, and the lists and the summary say what they make of
\* it in acked and depth.
StatusRows ==
    [obj : Objects, state : 0 .. 3, checked : BOOLEAN, acked : {Null, 0, 1},
     depth : Nat \cup {Null}, at : Nat]

\* A window in which an object is quiet.
DowntimeRows == [obj : Objects, at : Nat, end : Nat, started : BOOLEAN]

\* Checks, and state changes, of which some are no transition.
CheckRows ==
    [obj : Objects, at : Nat, state : 0 .. 3, hard : BOOLEAN, transition : BOOLEAN]

\* One for each contact.
NotificationRows == [obj : Objects, at : Nat, state : 0 .. 3, contact : Nat]

AcknowledgementRows == [obj : Objects, at : Nat, state : 0 .. 3]

LogRows == [id : Nat, at : Nat]

RowsOf(table) ==
    CASE table = "status" -> StatusRows
      [] table \in DowntimeLists -> DowntimeRows
      [] table \in {"checks", "statechanges"} -> CheckRows
      [] table = "notifications" -> NotificationRows
      [] table = "acks" -> AcknowledgementRows
      [] table = "log" -> LogRows

-----------------------------------------------------------------------------
(* Filters                                                                 *)

\* No parameter was given.
Absent == -1

\* A tri-state filter (addBool, parseTriBool) is the set of the answers it lets
\* through, and no condition when it lets through both; a name of 0 and an empty
\* set of states are no filter at all (addIn).
NoFilter ==
    [kind |-> "", host |-> 0, svc |-> 0, states |-> {}, problems |-> FALSE,
     acked |-> BOOLEAN, inDowntime |-> BOOLEAN, handled |-> BOOLEAN,
     hide |-> FALSE, running |-> BOOLEAN, hardOnly |-> FALSE,
     transitionsOnly |-> FALSE, from |-> Absent, to |-> Absent]

\* StatusFilter, DowntimeFilter, HistoryFilter and the like, as one record.
Filters ==
    [kind : {"", "host", "service"}, host : Nat, svc : Nat, states : SUBSET Nat,
     problems : BOOLEAN, acked : SUBSET BOOLEAN, inDowntime : SUBSET BOOLEAN,
     handled : SUBSET BOOLEAN, hide : BOOLEAN, running : SUBSET BOOLEAN,
     hardOnly : BOOLEAN, transitionsOnly : BOOLEAN,
     from : Nat \cup {Absent}, to : Nat \cup {Absent}]

InState(f, x) == f.states = {} \/ x.state \in f.states

OnObject(f, x) ==
    /\ f.host = 0 \/ x.obj.host = f.host
    /\ f.svc = 0 \/ x.obj.svc = f.svc

\* A tri-state filter, and the condition it adds for yes and for no.
Passes(filter, yes, no) ==
    filter = BOOLEAN \/ (TRUE \in filter /\ yes) \/ (FALSE \in filter /\ no)

\* The conditions on a status row that hosts, services and problems share.
\* They compare the bare columns: one that is NULL is neither set nor clear.
Takes(f, x) ==
    /\ Passes(f.acked, x.acked = 1, x.acked = 0)
    /\ Passes(f.inDowntime, x.depth > 0, x.depth = 0)
    /\ Passes(f.handled, x.acked = 1 \/ x.depth > 0, x.acked = 0 /\ x.depth = 0)

\* StatusFilter.apply.  An object never checked may have any state.
StatusWhere(f, x) ==
    /\ OnObject(f, x) /\ InState(f, x) /\ Takes(f, x)
    /\ f.problems => x.state # 0

\* Which of the two SELECTs a union has: the host tables have no service to
\* match, so naming one leaves them out.
InUnion(f, x) ==
    IF x.obj.kind = "host" THEN f.kind # "service" /\ f.svc = 0
                           ELSE f.kind # "host"

\* HistoryFilter.applyTime.
Within(f, x) == f.from <= x.at /\ x.at <= f.to

\* What the three histories have in common.
InHistory(f, x) == InUnion(f, x) /\ Within(f, x) /\ OnObject(f, x) /\ InState(f, x)

\* The rows of each list, before they are ordered and cut into pages.
Hosts(f, rows) == {x \in rows : x.obj.kind = "host" /\ StatusWhere(f, x)}

Services(f, rows) == {x \in rows : x.obj.kind = "service" /\ StatusWhere(f, x)}

\* The LEFT JOIN: a service without a host row has no host that is down.
HostIsDown(rows, x) ==
    \E h \in rows : h.obj.kind = "host" /\ h.obj.host = x.obj.host /\ h.state # 0

Problems(f, rows) ==
    {x \in rows : /\ f.kind \in {"", x.obj.kind}
                  /\ x.state # 0 /\ x.checked
                  /\ Takes(f, x)
                  /\ f.hide /\ x.obj.kind = "service" => ~HostIsDown(rows, x)}

IsRunning(x, now) == x.started /\ x.at <= now /\ now < x.end

\* Current and History, of a table each.
Downtimes(f, rows, now) ==
    {x \in rows : InUnion(f, x) /\ OnObject(f, x) /\ IsRunning(x, now) \in f.running}

\* A bound of 0 is none.
Acknowledgements(f, rows) ==
    {x \in rows : /\ InUnion(f, x) /\ OnObject(f, x)
                  /\ f.from > 0 => x.at >= f.from
                  /\ f.to > 0 => x.at <= f.to}

LogEntries(f, rows) == {x \in rows : Within(f, x)}

Checks(f, rows) == {x \in rows : InHistory(f, x) /\ (f.hardOnly => x.hard)}

StateChanges(f, rows) ==
    {x \in rows : /\ InHistory(f, x)
                  /\ f.hardOnly => x.hard
                  /\ f.transitionsOnly => x.transition}

\* The notification tables have no is_hardstate.
Notifications(f, rows) == {x \in rows : InHistory(f, x)}

Selected(list, f, db, now) ==
    LET rows == db[Source(list)]
    IN  CASE list = "hosts" -> Hosts(f, rows)
          [] list = "services" -> Services(f, rows)
          [] list = "problems" -> Problems(f, rows)
          [] list \in DowntimeLists -> Downtimes(f, rows, now)
          [] list = "acks" -> Acknowledgements(f, rows)
          [] list = "log" -> LogEntries(f, rows)
          [] list = "checks" -> Checks(f, rows)
          [] list = "statechanges" -> StateChanges(f, rows)
          [] list = "notifications" -> Notifications(f, rows)

-----------------------------------------------------------------------------
(* Order and pages                                                         *)

\* Triage order: down before unreachable; critical, warning, unknown.
HostSeverity == [s \in 0 .. 3 |-> <<0, 2, 1, 0>>[s + 1]]
ServiceSeverity == [s \in 0 .. 3 |-> <<0, 2, 3, 1>>[s + 1]]

\* The one scale of the problems list interleaves the two.
ProblemSeverity(x) ==
    IF x.obj.kind = "host" THEN <<0, 5, 3, 0>>[x.state + 1]
                           ELSE <<0, 2, 4, 1>>[x.state + 1]

Severity(list, x) ==
    CASE list = "hosts" -> HostSeverity[x.state]
      [] list = "services" -> ServiceSeverity[x.state]
      [] OTHER -> ProblemSeverity(x)

\* The whitelists.  "time" is the list's own time column, and stands for the
\* other columns that tell nothing more than their value.
SortColumns(list) ==
    CASE list = "hosts" -> {"hostname", "severity", "state", "time"}
      [] list = "services" ->
             {"hostname", "service_description", "severity", "state", "time"}
      [] list = "problems" -> {"severity", "hostname", "service_description",
                               "state", "kind", "time"}
      [] list \in DowntimeLists -> {"hostname", "service_description", "kind", "time"}
      [] list = "log" -> {"time"}
      [] list = "acks" ->
             {"hostname", "service_description", "state", "kind", "time"}
      [] OTHER -> {"hostname", "service_description", "state", "time"}

\* The default sort, which is the tiebreaker too.
Fallback(list) ==
    CASE list \in {"hosts", "services"} -> "hostname"
      [] list = "problems" -> "severity"
      [] OTHER -> "time"

Column(list, c, x) ==
    CASE c = "hostname" -> x.obj.host
      [] c = "service_description" -> x.obj.svc
      [] c = "kind" -> IF x.obj.kind = "host" THEN 0 ELSE 1
      [] c = "severity" -> Severity(list, x)
      [] c = "state" -> x.state
      [] c = "time" -> x.at

\* Variant, not the code: no tiebreaker.
BeforeByColumn(list, p, x, y) ==
    LET a == Column(list, p.sort, x)
        b == Column(list, p.sort, y)
    IN  IF p.desc THEN a > b ELSE a < b

\* orderBy: the column one way or the other, then the fallback upwards.
Before(list, p, x, y) ==
    LET a == Column(list, p.sort, x)
        b == Column(list, p.sort, y)
        tie == Fallback(list)
    IN  \/ IF p.desc THEN a > b ELSE a < b
        \/ /\ a = b /\ p.sort # tie
           /\ Column(list, tie, x) < Column(list, tie, y)

\* Rows that tie come in any order, and in another one for the next statement.
Orders(list, p, rows) ==
    {s \in SetToSeqs(rows) : \A i, j \in DOMAIN s : i < j => ~Before(list, p, s[j], s[i])}

\* LIMIT and OFFSET.
Slice(p, s) ==
    SubSeq(s, p.offset + 1, IF p.offset + p.limit < Len(s) THEN p.offset + p.limit
                                                          ELSE Len(s))

Pages(list, p, rows) == {Slice(p, s) : s \in Orders(list, p, rows)}

-----------------------------------------------------------------------------
(* Parameters                                                              *)

\* What a list may be asked for.
ListQueries ==
    [list : Lists, f : Filters, limit : Int, offset : Int, sort : STRING, desc : BOOLEAN]

\* Every history is newest first and the problems are worst first, when the
\* caller does not say.
DescByDefault(list) == list \notin {"hosts", "services", "downtimes"}

\* parsePage.
PageOf(q) ==
    [limit |-> IF q.limit = Absent THEN DefaultPageSize ELSE q.limit,
     offset |-> IF q.offset = Absent THEN 0 ELSE q.offset,
     sort |-> IF q.sort = "" THEN Fallback(q.list) ELSE q.sort,
     desc |-> IF q.sort = "" THEN DescByDefault(q.list) ELSE q.desc]

BadPage(q) ==
    \/ q.limit # Absent /\ q.limit \notin 1 .. MaxPageSize
    \/ q.offset # Absent /\ q.offset < 0
    \/ q.sort # "" /\ q.sort \notin SortColumns(q.list)

\* The default and the longest window of a list; of acknowledgements, none is
\* too long.
Default(list, f) ==
    CASE list \in HistoryLists -> IF f.host = 0 THEN Hour ELSE 24 * Hour
      [] list = "log" -> 24 * Hour
      [] OTHER -> 30 * 24 * Hour

Longest(list, f) ==
    CASE list \in HistoryLists -> IF f.host = 0 THEN 6 * Hour ELSE 90 * 24 * Hour
      [] list = "log" -> 31 * 24 * Hour
      [] OTHER -> 0

\* parseTimeRange.
From(list, f, now) == IF f.from = Absent THEN now - Default(list, f) ELSE f.from
To(f, now) == IF f.to = Absent THEN now ELSE f.to

\* Variant, not the code: a window is only checked when it was asked for.
BadGiven(list, f, now) ==
    /\ f.from # Absent /\ f.to # Absent
    /\ \/ f.to < f.from
       \/ Longest(list, f) > 0 /\ f.to - f.from > Longest(list, f)

BadWindow(list, f, now) ==
    LET span == To(f, now) - From(list, f, now)
    IN  \/ span < 0
        \/ Longest(list, f) > 0 /\ span > Longest(list, f)

\* The lists that have a window; of acknowledgements only one that was asked for.
Windowed(list, f) ==
    \/ list \in HistoryLists \cup {"log"}
    \/ list = "acks" /\ {f.from, f.to} # {Absent}

MaxState(list) == IF list = "hosts" THEN 2 ELSE 3

\* What the handler of a list answers 400 to.  Words that are no number, kind
\* or truth value are refused as well.
Refuses(q, now) ==
    \/ q.f.svc # 0 /\ q.f.host = 0
    \/ \E s \in q.f.states : s > MaxState(q.list)
    \/ Windowed(q.list, q.f) /\ BadWindow(q.list, q.f, now)
    \/ BadPage(q)

\* The filter of an accepted request.
FilterOf(q, now) ==
    IF Windowed(q.list, q.f)
    THEN [q.f EXCEPT !.from = From(q.list, q.f, now), !.to = To(q.f, now)]
    ELSE q.f
=============================================================================
