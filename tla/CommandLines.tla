---------------------------- MODULE CommandLines ----------------------------
(***************************************************************************)
(* What a command request makes the core do: the objects a request names   *)
(* (targetsRequest.resolve), the external command of each of them           *)
(* (internal/commands/naemon.go), the one submission they are sent in       *)
(* (Bulk), and how the core and its broker read that.                       *)
(*                                                                         *)
(* A text stands for all texts of its sort: "semi" has a semicolon in it,   *)
(* "newline" a line break, "control" another control character, "long" is   *)
(* longer than MaxFieldLength, "blank" is only white space; every other is  *)
(* itself.  A command's name is the sequence of the words it is put         *)
(* together from.                                                           *)
(***************************************************************************)
EXTENDS Integers, SequencesExt

CONSTANTS
    Requests,           \* the bodies of requests, without their targets
    Selections,         \* the lists of targets
    Callers,            \* who asks: the name that goes into a command, and
                        \* whether it is the demo account
    Now,                \* the time
    MaxBulkCommands,    \* the worker's limit
    DemoMaxTargets      \* the demo account's, or 0

Actions ==
    {"acknowledge", "remove_acknowledgement", "schedule_downtime", "delete_downtime",
     "reschedule", "submit_result", "custom_notification", "toggle"}

\* acknowledgeBody, downtimeBody and the others, as one record.
Bodies ==
    [action : Actions, comment : STRING, sticky : BOOLEAN, notify : BOOLEAN,
     persistent : BOOLEAN, start : Int, end : Int, fixed : BOOLEAN, duration : Int,
     all : BOOLEAN, id : Nat, at : Int, forced : BOOLEAN, code : Int,
     output : STRING, perf : STRING, broadcast : BOOLEAN, switch : STRING,
     enable : BOOLEAN]

ASSUME CommandLinesAssumption ==
    /\ Now \in Nat \ {0} /\ MaxBulkCommands \in Nat \ {0} /\ DemoMaxTargets \in Nat
    /\ Requests \subseteq Bodies
    /\ Selections \subseteq Seq([kind : STRING, host : STRING, svc : STRING])
    /\ Callers \subseteq [author : STRING, demo : BOOLEAN]

\* Nothing is submitted: the answer is 400.
None == <<>>

-----------------------------------------------------------------------------
(* Fields                                                                  *)

\* Variant, not the code: a line break is all that is looked for.
OneLine(x) == x \notin {"newline", "control", "long"}

\* checkField.
Field(x) == x \notin {"semi", "newline", "control", "long"}

Blank(x) == x \in {"", "blank"}

Flag(b) == IF b THEN "1" ELSE "0"

Number(n) == ToString(n)

IsService(t) == t.kind = "service"

\* Target.Validate.
Valid(t) ==
    /\ Field(t.host) /\ t.host # ""
    /\ \/ t.kind = "host" /\ t.svc = ""
       \/ t.kind = "service" /\ t.svc # "" /\ Field(t.svc)

\* The object's own fields, and the command's name for its kind.
Lead(t) == IF IsService(t) THEN <<t.host, t.svc>> ELSE <<t.host>>

Named(t, host, svc) == IF IsService(t) THEN svc ELSE host

\* A line: its name, and the fields after it.
Raw(name, fields) == [command |-> "raw", name |-> name, data |-> fields]

Typed(command, data) == [command |-> command, data |-> data]

\* A comment and its author, of an acknowledgement, a downtime, a notification.
Signed(r, author) == ~Blank(r.comment) /\ Field(r.comment) /\ Field(author)

-----------------------------------------------------------------------------
(* The builders: the commands for one target, or None                      *)

Acknowledge(r, t, author) ==
    IF ~(Valid(t) /\ Signed(r, author)) THEN None
    ELSE <<Raw(<<Named(t, "ACKNOWLEDGE_HOST_PROBLEM", "ACKNOWLEDGE_SVC_PROBLEM")>>,
               Lead(t) \o <<Flag(r.sticky), Flag(r.notify), Flag(r.persistent),
                            author, r.comment>>)>>

RemoveAcknowledgement(t) ==
    IF ~Valid(t) THEN None
    ELSE <<Raw(<<Named(t, "REMOVE_HOST_ACKNOWLEDGEMENT", "REMOVE_SVC_ACKNOWLEDGEMENT")>>,
               Lead(t))>>

\* Naemon expects a duration though the window is a fixed one.
Duration(r) == IF r.fixed THEN r.end - r.start ELSE r.duration

\* all_services is only passed on for a host (handleScheduleDowntime).
ScheduleDowntime(r, t, author) ==
    LET Window(name) ==
            Raw(<<name>>, Lead(t) \o <<Number(r.start), Number(r.end), Flag(r.fixed), "0",
                                     Number(Duration(r)), author, r.comment>>)
        own == Window(Named(t, "SCHEDULE_HOST_DOWNTIME", "SCHEDULE_SVC_DOWNTIME"))
    IN  IF \/ ~(Valid(t) /\ Signed(r, author)) \/ r.end <= r.start
           \/ ~r.fixed /\ r.duration <= 0
        THEN None
        ELSE IF r.all /\ ~IsService(t) THEN <<own, Window("SCHEDULE_HOST_SVC_DOWNTIME")>>
        ELSE <<own>>

\* By the core's own number; the target says no more than which of the two.
DeleteDowntime(r, t) ==
    IF r.id = 0 THEN None
    ELSE <<Raw(<<Named(t, "DEL_HOST_DOWNTIME", "DEL_SVC_DOWNTIME")>>, <<Number(r.id)>>)>>

CheckTime(r) == IF r.at = 0 THEN Now ELSE r.at

\* A forced check is a line; the broker has a message for the other.
Reschedule(r, t) ==
    IF ~Valid(t) THEN None
    ELSE IF ~r.forced
    THEN <<Typed("schedule_check", [object |-> Lead(t), time |-> CheckTime(r)])>>
    ELSE <<Raw(<<Named(t, "SCHEDULE_FORCED_HOST_CHECK", "SCHEDULE_FORCED_SVC_CHECK")>>,
               Lead(t) \o <<Number(CheckTime(r))>>)>>

\* In JSON a semicolon does no harm, but the broker makes one line of it.
SubmitResult(r, t) ==
    IF \/ ~Valid(t)
       \/ r.code \notin 0 .. (IF IsService(t) THEN 3 ELSE 2)
       \/ Blank(r.output) \/ "newline" \in {r.output, r.perf}
    THEN None
    ELSE <<Typed("check_result",
                 [object |-> Lead(t), code |-> r.code, output |-> r.output,
                  perf |-> r.perf, time |-> Now])>>

\* Naemon's option bits.
Options(r) == (IF r.broadcast THEN 1 ELSE 0) + (IF r.forced THEN 2 ELSE 0)

Notify(r, t, author) ==
    IF ~(Valid(t) /\ Signed(r, author)) THEN None
    ELSE <<Raw(<<Named(t, "SEND_CUSTOM_HOST_NOTIFICATION", "SEND_CUSTOM_SVC_NOTIFICATION")>>,
               Lead(t) \o <<Number(Options(r)), author, r.comment>>)>>

\* The names cannot be derived from one another.
SwitchCommands ==
    [active_checks |-> <<"HOST_CHECK", "SVC_CHECK">>,
     passive_checks |-> <<"PASSIVE_HOST_CHECKS", "PASSIVE_SVC_CHECKS">>,
     notifications |-> <<"HOST_NOTIFICATIONS", "SVC_NOTIFICATIONS">>,
     flap_detection |-> <<"HOST_FLAP_DETECTION", "SVC_FLAP_DETECTION">>,
     event_handler |-> <<"HOST_EVENT_HANDLER", "SVC_EVENT_HANDLER">>]

Verb(enable) == IF enable THEN "ENABLE" ELSE "DISABLE"

Toggle(r, t) ==
    IF ~Valid(t) \/ r.switch \notin DOMAIN SwitchCommands THEN None
    ELSE LET names == SwitchCommands[r.switch]
         IN  <<Raw(<<Verb(r.enable), Named(t, names[1], names[2])>>, Lead(t))>>

-----------------------------------------------------------------------------
(* The handler                                                             *)

Build(r, t, author) ==
    CASE r.action = "acknowledge" -> Acknowledge(r, t, author)
      [] r.action = "remove_acknowledgement" -> RemoveAcknowledgement(t)
      [] r.action = "schedule_downtime" -> ScheduleDowntime(r, t, author)
      [] r.action = "delete_downtime" -> DeleteDowntime(r, t)
      [] r.action = "reschedule" -> Reschedule(r, t)
      [] r.action = "submit_result" -> SubmitResult(r, t)
      [] r.action = "custom_notification" -> Notify(r, t, author)
      [] r.action = "toggle" -> Toggle(r, t)

Kinded(targets) == \A i \in DOMAIN targets : targets[i].kind \in {"host", "service"}

\* Variant, not the code: an object named twice is there twice.
AsNamed(targets) == targets

\* An object named twice is there once, where it was first.
Distinct(targets) ==
    FlattenSeq([i \in DOMAIN targets |->
                    IF \E j \in 1 .. i - 1 : targets[j] = targets[i] THEN <<>>
                    ELSE <<targets[i]>>])

\* targetsRequest.resolve and decodeTargets: the targets, or None.
Resolve(targets, caller) ==
    LET out == Distinct(targets)
    IN  IF \/ Len(targets) > MaxBulkCommands \/ ~Kinded(targets)
           \/ caller.demo /\ DemoMaxTargets > 0 /\ Len(out) > DemoMaxTargets
        THEN None ELSE out

\* A downtime's number names one window.
OneWindow(r, targets) == r.action = "delete_downtime" => Len(targets) = 1

\* submit: a target that fails to build stops the whole request.
BuildAll(r, targets, author) ==
    LET built == [i \in DOMAIN targets |-> Build(r, targets[i], author)]
    IN  IF None \in Range(built) THEN None ELSE built

\* Bulk: one flat list, or None when it is empty or too long.
Bulk(envelopes) ==
    LET flat == FlattenSeq(envelopes)
    IN  IF Len(flat) > MaxBulkCommands THEN None ELSE flat

\* What is sent to the worker for a request.
Submission(r, selection, caller) ==
    LET targets == Resolve(selection, caller)
    IN  IF OneWindow(r, targets) THEN Bulk(BuildAll(r, targets, caller.author)) ELSE None

-----------------------------------------------------------------------------
(* The core                                                                *)

\* Naemon's parser splits on semicolons, ends at a line break and cuts what
\* does not fit.
Split(x) ==
    CASE x = "semi" -> <<"se", "mi">>
      [] x = "newline" -> <<"new">>
      [] x = "long" -> <<"lon">>
      [] OTHER -> <<x>>

\* What a number is written with is no separator.
ASSUME DigitsAreWhole ==
    \A r \in Requests :
        \A n \in {r.start, r.end, r.end - r.start, r.duration, r.id, r.at, Now} \cup 0 .. 3 :
            Split(Number(n)) = <<Number(n)>>

Form(effect, host, svc, objects, args) ==
    {[name |-> host, effect |-> effect, objects |-> objects, args |-> args],
     [name |-> svc, effect |-> effect, objects |-> 2 * objects, args |-> args]}

WindowArgs ==
    <<"start", "end", "fixed", "trigger", "duration", "author", "comment">>

\* The commands the core knows, how many of their fields name the object, and
\* what the others are.
Forms ==
    UNION
    ({Form(<<"acknowledge">>, <<"ACKNOWLEDGE_HOST_PROBLEM">>, <<"ACKNOWLEDGE_SVC_PROBLEM">>, 1,
           <<"sticky", "notify", "persistent", "author", "comment">>),
      Form(<<"remove_acknowledgement">>, <<"REMOVE_HOST_ACKNOWLEDGEMENT">>,
           <<"REMOVE_SVC_ACKNOWLEDGEMENT">>, 1, <<>>),
      Form(<<"schedule_downtime">>, <<"SCHEDULE_HOST_DOWNTIME">>,
           <<"SCHEDULE_SVC_DOWNTIME">>, 1, WindowArgs),
      Form(<<"all_services">>, <<"SCHEDULE_HOST_SVC_DOWNTIME">>, <<>>, 1, WindowArgs),
      Form(<<"delete_downtime">>, <<"DEL_HOST_DOWNTIME">>, <<"DEL_SVC_DOWNTIME">>, 0,
           <<"id">>),
      Form(<<"reschedule">>, <<"SCHEDULE_FORCED_HOST_CHECK">>,
           <<"SCHEDULE_FORCED_SVC_CHECK">>, 1, <<"time">>),
      Form(<<"custom_notification">>, <<"SEND_CUSTOM_HOST_NOTIFICATION">>,
           <<"SEND_CUSTOM_SVC_NOTIFICATION">>, 1, <<"options", "author", "comment">>)}
     \cup {Form(<<Verb(e), s>>, <<Verb(e), SwitchCommands[s][1]>>,
                <<Verb(e), SwitchCommands[s][2]>>, 1, <<>>) :
               e \in BOOLEAN, s \in DOMAIN SwitchCommands})

\* What the fields of a line make a command do, to which object, and with which
\* arguments.
Apply(form, fields) ==
    LET Arg(a) == fields[form.objects + CHOOSE i \in DOMAIN form.args : form.args[i] = a]
    IN  [effect |-> form.effect, object |-> SubSeq(fields, 1, form.objects),
         args |-> [a \in Range(form.args) |-> Arg(a)]]

ReadLine(name, line) ==
    Apply(CHOOSE f \in Forms : f.name = name,
          FlattenSeq([i \in DOMAIN line |-> Split(line[i])]))

\* The broker's own messages; it makes one line of a result.
ReadTyped(c) ==
    LET Cut(x) == IF x = "newline" THEN "new" ELSE x
    IN  IF c.command = "schedule_check"
        THEN [effect |-> <<"schedule_check">>, object |-> c.data.object,
              args |-> [time |-> Number(c.data.time)]]
        ELSE [effect |-> <<"check_result">>, object |-> c.data.object,
              args |-> [code |-> Number(c.data.code), output |-> Cut(c.data.output),
                        perf |-> Cut(c.data.perf), time |-> Number(c.data.time)]]

ReadCommand(c) == IF c.command = "raw" THEN ReadLine(c.name, c.data) ELSE ReadTyped(c)

-----------------------------------------------------------------------------
(* Properties                                                              *)

\* What a request means for one target: the operator's words and numbers, under
\* the name of the session.
Meant(r, t, author) ==
    LET Effect(effect, args) == [effect |-> effect, object |-> Lead(t), args |-> args]
        window == [start |-> Number(r.start), end |-> Number(r.end),
                   fixed |-> Flag(r.fixed), trigger |-> "0",
                   duration |-> Number(IF r.fixed THEN r.end - r.start ELSE r.duration),
                   author |-> author, comment |-> r.comment]
        time == [time |-> Number(IF r.at = 0 THEN Now ELSE r.at)]
    IN  CASE r.action = "acknowledge" ->
                 {Effect(<<"acknowledge">>,
                         [sticky |-> Flag(r.sticky), notify |-> Flag(r.notify),
                          persistent |-> Flag(r.persistent), author |-> author,
                          comment |-> r.comment])}
          [] r.action = "schedule_downtime" ->
                 {Effect(<<"schedule_downtime">>, window)}
                 \cup (IF r.all /\ t.kind = "host" THEN {Effect(<<"all_services">>, window)} ELSE {})
          [] r.action = "delete_downtime" ->
                 {[effect |-> <<"delete_downtime">>, object |-> <<>>, args |-> [id |-> Number(r.id)]]}
          [] r.action = "reschedule" ->
                 {Effect(<<IF r.forced THEN "reschedule" ELSE "schedule_check">>, time)}
          [] r.action = "submit_result" ->
                 {Effect(<<"check_result">>, [code |-> Number(r.code), output |-> r.output,
                                          perf |-> r.perf, time |-> Number(Now)])}
          [] r.action = "custom_notification" ->
                 {Effect(<<"custom_notification">>,
                         [options |-> Number(CASE r.forced /\ r.broadcast -> 3
                                               [] r.forced /\ ~r.broadcast -> 2
                                               [] ~r.forced /\ r.broadcast -> 1
                                               [] OTHER -> 0),
                          author |-> author, comment |-> r.comment])}
          [] r.action = "toggle" -> {Effect(<<Verb(r.enable), r.switch>>, <<>>)}
          [] r.action = "remove_acknowledgement" -> {Effect(<<"remove_acknowledgement">>, <<>>)}

\* Every submission there may be, with the request it is for.
Submissions ==
    {s \in {[r |-> r, targets |-> t, caller |-> c, sent |-> Submission(r, t, c)] :
               r \in Requests, t \in Selections, c \in Callers} : s.sent # None}

MeantBy(s) == UNION {Meant(s.r, t, s.caller.author) : t \in ToSet(s.targets)}

\* Each command of a submission does something that was asked for.
Reads(s) == \A i \in DOMAIN s.sent : ReadCommand(s.sent[i]) \in MeantBy(s)

\* Everything that was asked for is done by one command, and the worker takes
\* as many.
Covers(s) ==
    /\ \A e \in MeantBy(s) : \E i \in DOMAIN s.sent : ReadCommand(s.sent[i]) = e
    /\ Len(s.sent) = Cardinality(MeantBy(s))
    /\ Len(s.sent) <= MaxBulkCommands

\* How many objects the submissions are for of which the one or the other is
\* not so.
Size(s) == Cardinality(ToSet(s.targets))

Misread == {Size(s) : s \in {z \in Submissions : ~Reads(z)}}

Incomplete == {Size(s) : s \in {z \in Submissions : ~Covers(z)}}
=============================================================================
