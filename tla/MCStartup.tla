----------------------------- MODULE MCStartup -----------------------------
\* Values of the constants of Startup for TLC.
EXTENDS Startup

CONSTANTS p1, p2

\* internal/migrate/sql: one file of four statements.
MCMigrations ==
    <<[version |-> "0001_auth",
       tables |-> <<"sei_roles", "sei_users", "sei_sessions", "sei_command_audit">>]>>

\* A build whose operators did not read the audit, and what it had for the demo.
MCOldRoles ==
    LET operator == ReadPermissions \cup CommandPermissions
    IN  {[admin |-> {"*"}, operator |-> operator, guest |-> ReadPermissions]}

Flag(f, v) == [flag |-> f, value |-> v]

Files ==
    [main |-> [readable |-> TRUE,
               values |-> [mysql_dsn |-> "dsn", demo_mode |-> TRUE,
                           demo_commands |-> {"acknowledge"}, worker_events_key |-> "key"]],
     other |-> [readable |-> TRUE, values |-> [mysql_dsn |-> "other"]],
     mistyped |-> [readable |-> FALSE, values |-> <<>>]]

Launch(command, args, sei_config, values) ==
    [command |-> command, args |-> args, sei_config |-> sei_config, files |-> Files,
     env |-> [readable |-> TRUE, values |-> values]]

\* The file's demo account; another one of the environment, with as many commands;
\* none, and the file named in SEI_CONFIG,
\* because a flag stands before -config; a run of migrate; and three that are
\* refused: an unreadable file, a right nobody may give away, and no database.
MCLaunches ==
    {Launch("serve", <<Flag("config", "mistyped"), Flag("config", "main"),
                       Flag("listen_addr", "a"), Flag("listen_addr", "b")>>, "", <<>>),
     Launch("serve", <<Flag("config", "main")>>, "", [demo_commands |-> {"toggle"}]),
     Launch("serve", <<Flag("demo_mode", FALSE), Flag("config", "other"), Flag("", ""),
                       Flag("?", "")>>, "main", <<>>),
     Launch("migrate", <<Flag("listen_addr", "a")>>, "", [mysql_dsn |-> "dsn", demo_mode |-> TRUE]),
     Launch("serve", <<Flag("config", "mistyped")>>, "main", <<>>),
     Launch("serve", <<>>, "main", [demo_commands |-> {"notify"}]),
     Launch("serve", <<>>, "", <<>>)}
=============================================================================
