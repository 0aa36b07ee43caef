------------------------------ MODULE MCReads ------------------------------
(* Small databases and requests for Reads. *)
EXTENDS Reads, TLC

Host(h) == [kind |-> "host", host |-> h, svc |-> 0]
Service(h, s) == [kind |-> "service", host |-> h, svc |-> s]

Row(o, st, ch, ac, d, at) ==
    [obj |-> o, state |-> st, checked |-> ch, acked |-> ac, depth |-> d, at |-> at]

\* Fine, never checked, waiting for somebody, acknowledged, in a downtime.
Sorts(o, at) ==
    {Row(o, 0, TRUE, 0, 0, at), Row(o, 2, FALSE, 0, 0, at), Row(o, 1, TRUE, 0, 0, at),
     Row(o, 2, TRUE, 1, 0, at), Row(o, 1, TRUE, 0, 1, at)}

\* A column is NULL: not acknowledged or in no downtime, so far as is known.
Unknowns(o, at) == {Row(o, 1, TRUE, Null, 0, at), Row(o, 1, TRUE, 0, Null, at)}

Empty == [t \in Tables |-> {}]

With(table, rows) == [Empty EXCEPT ![table] = rows]

Waiting(o, at) == Row(o, 1, TRUE, 0, 0, at)

Statuses == {{a, Waiting(Host(2), 22), c, Waiting(Service(2, 1), 23)} :
                 a \in Sorts(Host(1), 23),
                 c \in Sorts(Service(1, 1), 21) \cup Unknowns(Service(1, 1), 21)
                          \cup {Waiting(Service(1, 1), 0)}}

\* A host's new problem, a service that is fine again, and a host that is new.
NewStatus == {Waiting(Host(1), 28), Row(Service(1, 1), 0, TRUE, 0, 0, 28),
              Row(Host(4), 0, TRUE, 0, 0, 28)}

List(list, f, limit, offset, sort, desc, walk) ==
    [type |-> "list", walk |-> walk,
     q |-> [list |-> list, f |-> f, limit |-> limit, offset |-> offset,
            sort |-> sort, desc |-> desc]]

Scene(dbs, asks, start, bound) ==
    [dbs |-> dbs, asks |-> asks, clock |-> start, writes |-> bound]

\* Three hosts, two of them alike, walked over in every order.
ThreeHosts ==
    {With("status", {a, b, c}) : a \in Sorts(Host(1), 3), b \in Sorts(Host(2), 3),
                                 c \in {Waiting(Host(3), 1)}}

Walks == {List("hosts", f, limit, Absent, sort, desc, TRUE) :
             f \in {NoFilter, [NoFilter EXCEPT !.problems = TRUE],
                    [NoFilter EXCEPT !.acked = {FALSE}, !.states = {0, 1}]},
             limit \in {Absent, 1}, sort \in {"", "severity", "time"},
             desc \in BOOLEAN}

\* Services and problems in pages; a sort that is not allowed.
Lookups ==
    {List(list, f, 3, offset, sort, FALSE, FALSE) :
        list \in {"services", "problems"}, offset \in {0, 1},
        sort \in {"", "hostname", "kind"},
        f \in {NoFilter, [NoFilter EXCEPT !.hide = TRUE], [NoFilter EXCEPT !.host = 1],
               [NoFilter EXCEPT !.handled = {TRUE}, !.inDowntime = {FALSE}]}}

\* Two services of one host, walked over a page at a time.
TwoServices ==
    Scene({With("status", {Waiting(Service(1, 1), 1), Waiting(Service(1, 2), a)}) : a \in 1 .. 9},
          {List(list, NoFilter, 1, Absent, sort, FALSE, TRUE) :
              list \in {"services", "problems"}, sort \in {"", "hostname"}}, MaxClock, 0)

ManyServices == {TwoServices}

Event(o, at) == [obj |-> o, at |-> at, state |-> 1]

Moments == {<<Host(1), 2>>, <<Host(1), 4>>, <<Service(1, 1), 4>>, <<Host(2), 14>>,
            <<Service(2, 1), 27>>}

Histories ==
    LET rows == {Event(m[1], m[2]) : m \in Moments}
        checks == {[hard |-> x.at > 4, transition |-> x.at < 9] @@ x : x \in rows}
    IN  {[Empty EXCEPT !.checks = checks, !.statechanges = checks, !.acks = rows,
                       !.notifications = {[contact |-> 9] @@ x : x \in rows},
                       !.log = {[id |-> x.at, at |-> x.at] : x \in rows}]}

Windows ==
    {List(list, [NoFilter EXCEPT !.host = h, !.svc = s, !.kind = k, !.from = from,
                                 !.to = to, !.hardOnly = hard, !.transitionsOnly = hard],
          Absent, Absent, "", FALSE, FALSE) :
        list \in HistoryLists \cup {"acks", "log"}, h \in 0 .. 1, s \in 0 .. 1,
        k \in {"", "host"}, hard \in BOOLEAN,
        from \in {Absent, 0, 2, 17}, to \in {Absent, 4, 5000}}

Window(o, at, end, started) ==
    [obj |-> o, at |-> at, end |-> end, started |-> started]

\* As many windows of one host as are asked for; and one more.
Quiet == {Window(Host(1), 2, 9, TRUE), Window(Host(1), 5, 6, FALSE),
          Window(Service(1, 1), 1, 3, TRUE)}

Silenced ==
    {[Empty EXCEPT !.downtimes = rows, !.downtimehistory = rows,
                   !.status = {x} \cup {Row(Service(1, 2), 0, TRUE, 0, 1, 1)},
                   !.acks = {Event(Host(1), 1), Event(Host(1), 3), Event(Service(1, 1), 2)}] :
        x \in Sorts(Host(1), 3) \cup Sorts(Service(1, 1), 2)
                  \cup {Row(Host(1), 1, TRUE, 1, 1, 3)},
        rows \in {Quiet, Quiet \cup {Window(Host(1), 7, 8, FALSE)}}}

Details ==
    {[type |-> "detail", obj |-> o] : o \in {Host(1), Service(1, 1), Service(1, 2)}}

DowntimeQueries ==
    {List(list, [NoFilter EXCEPT !.running = r, !.kind = k, !.host = h, !.svc = s],
          Absent, Absent, "", FALSE, FALSE) :
        list \in DowntimeLists, r \in {BOOLEAN, {TRUE}, {FALSE}},
        k \in {"", "service"}, h \in 0 .. 1, s \in 0 .. 1}

Sent == {[obj |-> Host(1), at |-> 24, state |-> 1, contact |-> 9],
         [obj |-> Service(1, 1), at |-> 26, state |-> 1, contact |-> 9]}

Dashboards ==
    {[Empty EXCEPT !.status = rows, !.notifications = Sent] : rows \in Statuses}

Overview == {[type |-> "summary", hours |-> 1]}

MCScenes ==
    {Scene(ThreeHosts, Walks, MaxClock, 0),
     Scene({With("status", rows) : rows \in Statuses}, Lookups, MaxClock, 0),
     Scene(Histories, Windows, MaxClock, 0),
     Scene(Silenced, Details, 26, 1),
     Scene(Silenced, DowntimeQueries, 8, 0),
     Scene(Dashboards, Overview, 27, 2)}
=============================================================================
