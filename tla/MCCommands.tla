----------------------------- MODULE MCCommands -----------------------------
\* Values of the constants of Commands for TLC.
EXTENDS Commands, CommandLines

CONSTANTS c1, o1, o2, o3

\* A bulk that is watched and one too large for that, a removal, and a command
\* whose effect cannot be seen.
MCAsks ==
    {[targets |-> {o1, o2}, want |-> TRUE, verify |-> TRUE],
     [targets |-> {o1, o2, o3}, want |-> TRUE, verify |-> TRUE],
     [targets |-> {o1}, want |-> FALSE, verify |-> TRUE],
     [targets |-> {o2}, want |-> TRUE, verify |-> FALSE]}

-----------------------------------------------------------------------------
(* Requests for CommandLines                                               *)

Texts == {"", "blank", "plain", "semi", "newline", "control", "long"}

Body ==
    [comment |-> "plain", sticky |-> TRUE, notify |-> FALSE, persistent |-> FALSE,
     start |-> 5, end |-> 9, fixed |-> TRUE, duration |-> 0, all |-> FALSE, id |-> 7,
     at |-> 0, forced |-> FALSE, code |-> 2, output |-> "plain", perf |-> "",
     broadcast |-> FALSE, switch |-> "active_checks", enable |-> TRUE]

Asking(action) == [action |-> action] @@ Body

MCRequests ==
    {[Asking(a) EXCEPT !.comment = x] :
        a \in {"acknowledge", "schedule_downtime", "custom_notification"}, x \in Texts}
    \cup {[Asking("acknowledge") EXCEPT !.notify = b, !.persistent = ~b] : b \in BOOLEAN}
    \cup {[Asking("schedule_downtime") EXCEPT !.end = n, !.fixed = b, !.all = c, !.duration = d] :
              n \in {5, 9}, b \in BOOLEAN, c \in BOOLEAN, d \in {0, 3}}
    \cup {[Asking("custom_notification") EXCEPT !.forced = b, !.broadcast = c] :
              b \in BOOLEAN, c \in BOOLEAN}
    \cup {[Asking("delete_downtime") EXCEPT !.id = n] : n \in {0, 7}}
    \cup {[Asking("reschedule") EXCEPT !.forced = b, !.at = n] : b \in BOOLEAN, n \in {0, 8}}
    \cup {[Asking("submit_result") EXCEPT !.code = n, !.output = x, !.perf = y] :
              n \in {-1, 2, 3}, x \in Texts, y \in {"", "semi", "newline"}}
    \cup {[Asking("toggle") EXCEPT !.switch = x, !.enable = b] :
              x \in {"flap_detection", "notifications", "none of them"}, b \in BOOLEAN}
    \cup {Asking("remove_acknowledgement")}

Hosts == {[kind |-> "host", host |-> h, svc |-> ""] : h \in {"h1", "h2"}}

Odd == {[kind |-> "host", host |-> "", svc |-> ""],
        [kind |-> "host", host |-> "h1", svc |-> "s"],
        [kind |-> "service", host |-> "h1", svc |-> "semi"],
        [kind |-> "service", host |-> "newline", svc |-> "s"],
        [kind |-> "node", host |-> "h1", svc |-> ""]}

MCSelections ==
    LET services == {[kind |-> "service", host |-> "h1", svc |-> "s"]}
    IN  (UNION {[1 .. n -> Hosts \cup services] : n \in 0 .. 3})
            \cup {<<t>> : t \in Odd}
            \cup {<<h, t>> : h \in Hosts, t \in Odd}

MCCallers == {[author |-> "alice", demo |-> FALSE], [author |-> "semi", demo |-> FALSE],
              [author |-> "guest", demo |-> TRUE]}

-----------------------------------------------------------------------------
(* The two together: what a run of Commands has posted stands for every     *)
(* submission there is for as many objects.                                 *)

\* checkField, "Refusing is the honest option": whatever texts a request holds,
\* the core reads from each command that was submitted exactly what the operator
\* asked for, of an object the operator named, under the session's own name.
ReadsBack == \A c \in posted : Cardinality(Targets(c)) \notin Misread

\* submit, "All or nothing": what was submitted has each effect on each object of
\* the request, and once, though an object was named twice, and the worker takes
\* it.
EveryTargetOnce == \A c \in posted : Cardinality(Targets(c)) \notin Incomplete
=============================================================================
