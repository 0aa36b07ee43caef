------------------------------- MODULE Config -------------------------------
(***************************************************************************)
(* internal/config: the settings of a process, from the built-in defaults, *)
(* a file, the environment and the command line, and what Validate accepts; *)
(* and what the settings say of the demo account (internal/auth).           *)
(*                                                                         *)
(* A source is a function on the settings it gives.  One that cannot be    *)
(* read (a missing or an empty file, an unknown key, a number that is none) *)
(* has readable FALSE.  Settings nothing here depends on are left out.     *)
(***************************************************************************)
EXTENDS Integers, Sequences, FiniteSets, TLC

\* Default: times are in seconds.
Default ==
    [listen_addr |-> "127.0.0.1:8090", mysql_dsn |-> "", query_timeout |-> 20,
     worker_command_url |-> "http://127.0.0.1:8081/commands", worker_command_key |-> "",
     worker_events_url |-> "ws://127.0.0.1:8080/ws", worker_events_key |-> "",
     session_ttl |-> 12 * 3600, demo_mode |-> FALSE, demo_user |-> "guest",
     demo_commands |-> {}, demo_max_targets |-> 25, audit_retention_days |-> 0,
     max_event_clients |-> 500, metrics_provider |-> "mysql", graphite_url |-> "",
     default_page_size |-> 50, max_page_size |-> 500, log_format |-> "text"]

Settings == DOMAIN Default

\* bindFlags.
Flags ==
    {"listen_addr", "mysql_dsn", "worker_command_url", "worker_command_key",
     "worker_events_url", "worker_events_key", "demo_mode", "metrics_provider",
     "log_format"}

\* No configuration: Load returns an error.
Refused == <<>>

Nothing == [values |-> <<>>, readable |-> TRUE]

-----------------------------------------------------------------------------
(* The command line: a sequence of [flag, value].  The flag "" is a word    *)
(* that is no flag, "?" a flag nobody knows or a value that does not fit.   *)

\* The flag package stops at the first word that is no flag.
Read(args) ==
    LET words == {n \in DOMAIN args : args[n].flag = ""}
    IN  IF words = {} THEN args
        ELSE SubSeq(args, 1, (CHOOSE n \in words : \A k \in words : n <= k) - 1)

\* The values of the flags: of one given twice the last counts.
OnCommandLine(args) ==
    LET read == Read(args)
        Places(s) == {n \in DOMAIN read : read[n].flag = s}
        Last(s) == CHOOSE n \in Places(s) : \A k \in Places(s) : k <= n
    IN  [values |-> [s \in {s \in Flags : Places(s) # {}} |-> read[Last(s)].value],
         readable |-> Places("?") = {}]

\* The first parse knows no flag but -config, so it stops at any other.
PathOf(launch) ==
    LET args == launch.args
        leading == {n \in DOMAIN args : \A k \in 1 .. n : args[k].flag = "config"}
    IN  IF leading = {} THEN launch.sei_config
        ELSE args[Cardinality(leading)].value

FileOf(launch) ==
    IF PathOf(launch) = "" THEN Nothing ELSE launch.files[PathOf(launch)]

-----------------------------------------------------------------------------
DemoCommandNames == {"acknowledge", "downtime", "reschedule", "submit-result", "toggle"}

Validate(c) ==
    /\ c.mysql_dsn # "" /\ c.listen_addr # ""
    /\ \/ c.metrics_provider = "mysql"
       \/ c.metrics_provider = "graphite" /\ c.graphite_url # ""
    /\ c.log_format \in {"text", "json"}
    /\ c.default_page_size >= 1 /\ c.max_page_size >= c.default_page_size
    /\ c.session_ttl > 0
    /\ c.demo_commands \subseteq DemoCommandNames
    /\ c.demo_max_targets >= 1 /\ c.audit_retention_days >= 0
    /\ c.max_event_clients >= 1 /\ c.query_timeout > 0

\* What a source gives is put over what there was.
Over(values, before) ==
    [s \in DOMAIN values \cup DOMAIN before |->
        IF s \in DOMAIN values THEN values[s] ELSE before[s]]

\* Variant, not the code: the file is read after the environment.
FileOverEnvironment(file, env, flags) ==
    Over(flags.values, Over(file.values, Over(env.values, Default)))

\* Each source is merged over those before it.
Merged(file, env, flags) ==
    Over(flags.values, Over(env.values, Over(file.values, Default)))

Load(launch) ==
    LET file == FileOf(launch)
        flags == OnCommandLine(launch.args)
        config == Merged(file, launch.env, flags)
    IN  IF file.readable /\ launch.env.readable /\ flags.readable /\ Validate(config)
        THEN config ELSE Refused

EventsEnabled(c) == c.worker_events_key # "" /\ c.worker_events_url # ""

-----------------------------------------------------------------------------
(* The demo account and the roles                                          *)

ReadPermissions ==
    {"hosts:read", "services:read", "problems:read", "downtimes:read",
     "acknowledgements:read", "logentries:read", "history:read", "metrics:read"}

CommandPermissions ==
    {"commands:reschedule", "commands:acknowledge", "commands:downtime",
     "commands:notification", "commands:passiveresult", "commands:toggle"}

DemoCommandPermission ==
    [acknowledge |-> "commands:acknowledge", downtime |-> "commands:downtime",
     reschedule |-> "commands:reschedule", toggle |-> "commands:toggle"]
    @@ ("submit-result" :> "commands:passiveresult")

DemoPermissions(allowlist) ==
    ReadPermissions \cup {DemoCommandPermission[name] : name \in allowlist}

\* The account LoginDemo may sign in, or "".
DemoUserOrEmpty(c) == IF c.demo_mode THEN c.demo_user ELSE ""

\* What each role holds, in the order Bootstrap goes through them; the wildcard
\* stands for everything.
Builtins(c) ==
    << <<"admin", {"*"}>>,
       <<"operator", ReadPermissions \cup CommandPermissions \cup {"audit:read"}>>,
       <<"guest", ReadPermissions>> >>
    \o IF c.demo_commands = {} THEN <<>>
       ELSE << <<"demo", DemoPermissions(c.demo_commands)>> >>

DemoRole(c) == IF c.demo_commands = {} THEN "guest" ELSE "demo"

\* What LoginDemo asks of the role of the demo account.
LoginDemoAllows(c, role, held) ==
    /\ DemoUserOrEmpty(c) # ""
    /\ role \in {"guest", "demo"}
    /\ held \subseteq DemoPermissions(c.demo_commands)
=============================================================================
