------------------------------ MODULE Startup ------------------------------
(***************************************************************************)
(* The life of the daemon's processes on one database: cmd/seid's serve    *)
(* and migrate, from the configuration through migrate.Run and             *)
(* auth.Bootstrap to ListenAndServe, a signal and the end.                 *)
(*                                                                         *)
(* An action is one statement of one process; several processes start,     *)
(* serve, die and are started again, with configurations of their own.     *)
(* MySQL commits every CREATE TABLE at once, whatever transaction it is    *)
(* in, so a process that dies leaves the statements it has got to.         *)
(***************************************************************************)
EXTENDS Config

CONSTANTS
    Processes,      \* the processes there may be at once
    Launches,       \* how they may be started: command, arguments, environment
    Migrations,     \* the embedded files, in order: version and its tables
    OldRoles,       \* what the roles may hold in a database of an older build
    MaxStarts,      \* bound on the starts
    MaxFaults       \* bound on the processes that are killed

Nobody == "nobody"

\* A word of the arguments is one of Config's, a version is the name of an embedded
\* file, and a file has a statement.
ASSUME StartupAssumption ==
    /\ Nobody \notin Processes
    /\ \A l \in Launches :
           /\ l.command \in {"serve", "migrate"}
           /\ Len(l.args) \in Nat /\ l.args = [n \in 1 .. Len(l.args) |-> l.args[n]]
           /\ \A n \in DOMAIN l.args : l.args[n].flag \in Flags \cup {"", "?", "config"}
    /\ Migrations \in Seq([version : STRING, tables : Seq(STRING) \ {<<>>}])
    /\ \A m, k \in DOMAIN Migrations :
           Migrations[m].version = Migrations[k].version => m = k
    /\ MaxStarts \in Nat /\ MaxFaults \in Nat

VARIABLES
    tables,         \* the tables there are
    applied,        \* the rows of sei_schema_migrations
    lock,           \* who holds the lock sei_migrate, or Nobody
    roles,          \* sei_roles: what each role holds, where it is there
    demo,           \* the role of the demo account in sei_users, or ""
    pc,             \* where each process is
    launch,         \* how it was started
    conf,           \* its configuration
    seen,           \* the versions it has read
    step,           \* how far it is in a file, or in the list of roles
    open,           \* its requests
    exit,           \* how it ended
    starts, faults, \* for the bounds
    company,        \* history: the starts others were in the middle of
    rivals          \* history: those, and the serving ones a start came after,
                    \* with other settings for the demo account

databaseVars == <<tables, applied, lock, roles, demo>>
memoryVars == <<launch, conf, seen, step, open>>
historyVars == <<starts, faults, company, rivals>>
vars == <<databaseVars, pc, memoryVars, exit, historyVars>>

Versions == {Migrations[m].version : m \in DOMAIN Migrations}

AllTables == UNION {{Migrations[m].tables[n] : n \in DOMAIN Migrations[m].tables} :
                        m \in DOMAIN Migrations}

Migrating == {"ensuring", "reading", "applying", "recording", "releasing"}
Bootstrapping == {"role", "creating role", "setting role", "demo role", "demo account",
                  "moving demo", "sweeping demo", "creating demo"}
Starting == {"opening", "locking"} \cup Migrating \cup Bootstrapping \cup {"listening"}

Down(p) == pc[p] = "down"

\* A new database, or one an older build has served.
Init ==
    /\ \/ tables = {} /\ applied = {} /\ roles = <<>>
       \/ /\ tables = AllTables \cup {"sei_schema_migrations"}
          /\ applied = Versions
          /\ roles \in OldRoles
    /\ lock = Nobody
    /\ demo = ""
    /\ pc = [p \in Processes |-> "down"]
    /\ launch = [p \in Processes |-> Refused] /\ conf = [p \in Processes |-> Refused]
    /\ seen = [p \in Processes |-> {}]
    /\ step = [p \in Processes |-> 0]
    /\ open = [p \in Processes |-> {}]
    /\ exit = [p \in Processes |-> ""]
    /\ starts = 0 /\ faults = 0
    /\ company = [p \in Processes |-> FALSE] /\ rivals = [p \in Processes |-> FALSE]

-----------------------------------------------------------------------------
Goes(p, place) == pc' = [pc EXCEPT ![p] = place]

Steps(p, n) == step' = [step EXCEPT ![p] = n]

\* The process ends, and what it holds and its connections' lock with it.
Ends(p, how) ==
    /\ Goes(p, "down")
    /\ exit' = [exit EXCEPT ![p] = how]
    /\ lock' = IF lock = p THEN Nobody ELSE lock
    /\ launch' = [launch EXCEPT ![p] = Refused] /\ conf' = [conf EXCEPT ![p] = Refused]
    /\ seen' = [seen EXCEPT ![p] = {}] /\ step' = [step EXCEPT ![p] = 0]
    /\ open' = [open EXCEPT ![p] = {}]
    /\ UNCHANGED <<tables, applied, roles, demo>>

\* An error in the course of the start.
Fails(p) == Ends(p, "failed")

\* The settings the roles and the demo account depend on.
OfDemo(c) == <<c.demo_mode, c.demo_user, c.demo_commands>>

\* serve and migrateOnly: the configuration is read before anything else.
Start(p, l) ==
    LET c == Load(l)
        under == {q \in Processes : pc[q] \in Starting}
        others == {q \in under \cup {q \in Processes : pc[q] = "serving"} :
                      OfDemo(conf[q]) # OfDemo(c)}
    IN  /\ Down(p) /\ starts < MaxStarts
        /\ starts' = starts + 1
        /\ IF c = Refused
           THEN /\ exit' = [exit EXCEPT ![p] = "refused"]
                /\ UNCHANGED <<pc, launch, conf, company, rivals>>
           ELSE /\ Goes(p, "opening")
                /\ exit' = [exit EXCEPT ![p] = ""]
                /\ launch' = [launch EXCEPT ![p] = l]
                /\ conf' = [conf EXCEPT ![p] = c]
                /\ company' = [q \in Processes |->
                      IF q = p THEN under # {} ELSE company[q] \/ q \in under]
                /\ rivals' = [q \in Processes |->
                      IF q = p THEN others \cap under # {} ELSE rivals[q] \/ q \in others]
        /\ UNCHANGED <<databaseVars, seen, step, open, faults>>

\* database.Open: the ping is answered.
Open(p) ==
    /\ pc[p] = "opening"
    /\ Goes(p, "locking")
    /\ UNCHANGED <<databaseVars, memoryVars, exit>>

-----------------------------------------------------------------------------
(* migrate.Run                                                             *)

\* Variant, not the code: nobody else is waited for.
LockIsFree(p) == TRUE

MayLock(p) == lock = Nobody

GetLock(p) ==
    /\ pc[p] = "locking" /\ MayLock(p)
    /\ lock' = p
    /\ Goes(p, "ensuring")
    /\ UNCHANGED <<tables, applied, roles, demo, memoryVars, exit>>

\* GET_LOCK gives up after thirty seconds.
LockTimesOut(p) ==
    /\ pc[p] = "locking" /\ lock # Nobody
    /\ Ends(p, "lock")

EnsureTable(p) ==
    /\ pc[p] = "ensuring"
    /\ tables' = tables \cup {"sei_schema_migrations"}
    /\ Goes(p, "reading")
    /\ UNCHANGED <<applied, lock, roles, demo, memoryVars, exit>>

\* The files still to be applied.
Todo(p) == {m \in DOMAIN Migrations : Migrations[m].version \notin seen[p]}

Current(p) == Migrations[CHOOSE m \in Todo(p) : \A k \in Todo(p) : m <= k]

\* Variant, not the code: the version is recorded before its statements.
RecordsFirst(p) == IF Todo(p)' = {} THEN "releasing" ELSE "recording"

NextFile(p) == IF Todo(p)' = {} THEN "releasing" ELSE "applying"

AppliedVersions(p) ==
    /\ pc[p] = "reading"
    /\ seen' = [seen EXCEPT ![p] = applied]
    /\ Steps(p, 1)
    /\ Goes(p, NextFile(p))
    /\ UNCHANGED <<databaseVars, launch, conf, open, exit>>

\* Variant, not the code: CREATE TABLE without IF NOT EXISTS.
CreatesNew(table) == table \notin tables

\* CREATE TABLE IF NOT EXISTS.
Creates(table) == TRUE

\* One statement of apply.
Statement(p) ==
    LET table == Current(p).tables[step[p]]
    IN  /\ pc[p] = "applying"
        /\ IF Creates(table)
           THEN /\ tables' = tables \cup {table}
                /\ Steps(p, step[p] + 1)
                /\ Goes(p, IF step[p] = Len(Current(p).tables) THEN "recording"
                           ELSE "applying")
                /\ UNCHANGED <<applied, lock, roles, demo, launch, conf, seen, open, exit>>
           ELSE Fails(p)

\* The version is the table's primary key.
Record(p) ==
    /\ pc[p] = "recording"
    /\ IF Current(p).version \in applied THEN Fails(p)
       ELSE /\ applied' = applied \cup {Current(p).version}
            /\ seen' = [seen EXCEPT ![p] = @ \cup {Current(p).version}]
            /\ Steps(p, 1)
            /\ Goes(p, NextFile(p))
            /\ UNCHANGED <<tables, lock, roles, demo, launch, conf, open, exit>>

ReleaseLock(p) ==
    /\ pc[p] = "releasing"
    /\ lock' = Nobody
    /\ Steps(p, 1)
    /\ Goes(p, "role")
    /\ UNCHANGED <<tables, applied, roles, demo, launch, conf, seen, open, exit>>

-----------------------------------------------------------------------------
(* auth.Bootstrap                                                          *)

Role(p) == Builtins(conf[p])[step[p]][1]
Wanted(p) == Builtins(conf[p])[step[p]][2]

\* What comes after a role, and after all of them.
NextRole(p) ==
    /\ Steps(p, step[p] + 1)
    /\ Goes(p, IF step[p] < Len(Builtins(conf[p])) THEN "role"
               ELSE IF DemoUserOrEmpty(conf[p]) # "" THEN "demo role" ELSE "listening")

\* Variant, not the code: a change that keeps the number is none.
SameNumber(held, wanted) == Cardinality(held) = Cardinality(wanted)

\* Variant, not the code: a role that is there is left as it is.
AnyWillDo(held, wanted) == TRUE

SamePermissions(held, wanted) == held = wanted

RoleByName(p) ==
    /\ pc[p] = "role"
    /\ IF Role(p) \notin DOMAIN roles
       THEN Goes(p, "creating role") /\ UNCHANGED step
       ELSE IF SamePermissions(roles[Role(p)], Wanted(p))
       THEN NextRole(p)
       ELSE Goes(p, "setting role") /\ UNCHANGED step
    /\ UNCHANGED <<databaseVars, launch, conf, seen, open, exit>>

\* affectOne: an update that changes nothing counts no row, which passes for a
\* role that is not there.
SetRolePermissions(p) ==
    /\ pc[p] = "setting role"
    /\ IF roles[Role(p)] = Wanted(p) THEN Fails(p)
       ELSE /\ roles' = [roles EXCEPT ![Role(p)] = Wanted(p)]
            /\ NextRole(p)
            /\ UNCHANGED <<tables, applied, lock, demo, launch, conf, seen, open, exit>>

\* Somebody else may have created it: ErrDuplicate, and on to the next.
CreateRole(p) ==
    /\ pc[p] = "creating role"
    /\ roles' = [name \in DOMAIN roles \cup {Role(p)} |->
                    IF name \in DOMAIN roles THEN roles[name] ELSE Wanted(p)]
    /\ NextRole(p)
    /\ UNCHANGED <<tables, applied, lock, demo, launch, conf, seen, open, exit>>

\* ensureDemoUser: its role is one of those created above.
FindDemoRole(p) ==
    /\ pc[p] = "demo role"
    /\ IF DemoRole(conf[p]) \notin DOMAIN roles THEN Fails(p)
       ELSE /\ Goes(p, "demo account")
            /\ UNCHANGED <<databaseVars, memoryVars, exit>>

UserByUsername(p) ==
    /\ pc[p] = "demo account"
    /\ Goes(p, CASE demo = "" -> "creating demo"
                 [] demo # "" /\ demo = DemoRole(conf[p]) -> "listening"
                 [] OTHER -> "moving demo")
    /\ UNCHANGED <<databaseVars, memoryVars, exit>>

\* A second move to the role within the second it was last changed in changes
\* nothing.
SetRole(p) ==
    /\ pc[p] = "moving demo"
    /\ \/ demo = DemoRole(conf[p]) /\ Fails(p)
       \/ /\ demo' = DemoRole(conf[p])
          /\ Goes(p, "sweeping demo")
          /\ UNCHANGED <<tables, applied, lock, roles, memoryVars, exit>>

\* DeleteUserSessions; what it does is in Sessions.
SweepDemo(p) ==
    /\ pc[p] = "sweeping demo"
    /\ Goes(p, "listening")
    /\ UNCHANGED <<databaseVars, memoryVars, exit>>

\* ErrDuplicate is let pass here too.
CreateUser(p) ==
    /\ pc[p] = "creating demo"
    /\ demo' = IF demo = "" THEN DemoRole(conf[p]) ELSE demo
    /\ Goes(p, "listening")
    /\ UNCHANGED <<tables, applied, lock, roles, memoryVars, exit>>

-----------------------------------------------------------------------------
(* ListenAndServe, and the end                                             *)

\* migrateOnly ends here; the other listens.
Listen(p) ==
    /\ pc[p] = "listening"
    /\ IF launch[p].command = "serve"
       THEN Goes(p, "serving") /\ UNCHANGED <<databaseVars, memoryVars, exit>>
       ELSE Ends(p, "done")

\* A stream is answered 501 at once without a worker_events_key.
Accept(p, kind) ==
    /\ pc[p] = "serving" /\ kind \notin open[p]
    /\ kind = "stream" => EventsEnabled(conf[p])
    /\ open' = [open EXCEPT ![p] = @ \cup {kind}]
    /\ UNCHANGED <<databaseVars, pc, launch, conf, seen, step, exit, historyVars>>

\* A read ends by itself; a stream when its client goes.
Handled(p, kind) ==
    /\ kind \in open[p]
    /\ open' = [open EXCEPT ![p] = @ \ {kind}]
    /\ UNCHANGED <<databaseVars, pc, launch, conf, seen, step, exit, historyVars>>

\* SIGTERM or an interrupt: nothing new is accepted.
Signal(p) ==
    /\ pc[p] = "serving"
    /\ Goes(p, "draining")
    /\ UNCHANGED <<databaseVars, memoryVars, exit, historyVars>>

\* Shutdown has waited for the handlers; the exit status is 0.
Drained(p) ==
    /\ pc[p] = "draining" /\ open[p] = {}
    /\ Ends(p, "stopped")

\* Variant, not the code: Shutdown under a context without a deadline.
NoDeadline(p) == FALSE

\* The fifteen seconds are over before every handler has returned.
DrainDeadline(p) == open[p] # {}

\* The exit status is 1.
DrainTimesOut(p) ==
    /\ pc[p] = "draining" /\ DrainDeadline(p)
    /\ Ends(p, "cut off")

\* A crash, a kill, a signal or a failing statement before it serves.
Dies(p) ==
    /\ ~Down(p) /\ faults < MaxFaults
    /\ faults' = faults + 1
    /\ Ends(p, "killed")
    /\ UNCHANGED <<starts, company, rivals>>

Proceeds(p) ==
    /\ \/ Open(p) \/ GetLock(p) \/ LockTimesOut(p) \/ EnsureTable(p) \/ AppliedVersions(p)
       \/ Statement(p) \/ Record(p) \/ ReleaseLock(p)
       \/ RoleByName(p) \/ SetRolePermissions(p) \/ CreateRole(p)
       \/ FindDemoRole(p) \/ UserByUsername(p) \/ SetRole(p) \/ SweepDemo(p) \/ CreateUser(p)
       \/ Listen(p) \/ Drained(p) \/ DrainTimesOut(p)
    /\ UNCHANGED historyVars

Next ==
    \E p \in Processes :
        \/ \E l \in Launches : Start(p, l)
        \/ Proceeds(p)
        \/ \E kind \in {"read", "stream"} : Accept(p, kind) \/ Handled(p, kind)
        \/ Signal(p)
        \/ Dies(p)

Spec == Init /\ [][Next]_vars

\* The database answers, and time passes: a process goes on while it can.  Nobody
\* has to start, to stop or to leave.
FairSpec == Spec /\ \A p \in Processes : WF_vars(Proceeds(p))

-----------------------------------------------------------------------------
(* Properties                                                              *)

\* Where the command line gives a flag, as far as flags are read, and what counts.
Given(l, flag) == {n \in DOMAIN Read(l.args) : l.args[n].flag = flag}

LastGiven(l, flag) ==
    l.args[CHOOSE n \in Given(l, flag) : \A k \in Given(l, flag) : k <= n].value

\* What the documentation says a setting is (README.md 70): a flag before the
\* environment, that before the file named by -config, wherever it stands, or by
\* SEI_CONFIG, and that before the default.
Asked(l, s) ==
    LET path == IF Given(l, "config") = {} THEN l.sei_config ELSE LastGiven(l, "config")
        InFile == path # "" /\ s \in DOMAIN l.files[path].values
    IN  CASE Given(l, s) # {} -> LastGiven(l, s)
          [] Given(l, s) = {} /\ s \in DOMAIN l.env.values -> l.env.values[s]
          [] Given(l, s) = {} /\ s \notin DOMAIN l.env.values /\ InFile ->
                 l.files[path].values[s]
          [] OTHER -> Default[s]

\* The file that is asked for is the one that is read.  It is not where a -config
\* stands behind another flag: the parse "only to discover -config, ignoring
\* everything else" (config.go 168) ends at the first flag it does not know.
FileIsFound(l) == \A n \in Given(l, "config") : \A k \in 1 .. n : l.args[k].flag = "config"

\* Load: every process runs with each setting from the source that comes first,
\* except that a -config behind another flag is overlooked: then only what flags
\* and the environment say is certain.
ConfiguredAsAsked ==
    \A p \in Processes : ~Down(p) => \A s \in Settings :
        \/ FileIsFound(launch[p])
        \/ Given(launch[p], s) # {}
        \/ s \in DOMAIN launch[p].env.values
        => conf[p][s] = Asked(launch[p], s)

\* apply: MySQL keeps the statements of a migration that was cut short, but a
\* version is only on record once all its tables are there, whoever died where.
RecordedIsComplete ==
    \A m \in DOMAIN Migrations :
        Migrations[m].version \in applied =>
            \A n \in DOMAIN Migrations[m].tables : Migrations[m].tables[n] \in tables

\* serve: a process that serves has every table, and the roles of its build, even
\* where it has met an older build's or others starting at the same moment.
ServesComplete ==
    \A p \in Processes :
        pc[p] = "serving" =>
            /\ AllTables \subseteq tables
            /\ \A n \in 1 .. 3 : LET b == Builtins(conf[p])[n]
                                 IN  b[1] \in DOMAIN roles /\ roles[b[1]] = b[2]

\* bootstrap.go, "It is idempotent, so it can run on every start": a start nobody
\* else's start overlaps does not fail, whatever earlier ones have left behind.
LoneStartSucceeds ==
    \A p \in Processes : exit[p] = "failed" => company[p]

\* LoginDemo, "The role is rebuilt from that configuration on every start": while
\* nobody starts with other settings, the demo account is there and holds exactly
\* what this process allows.
DemoMatches ==
    \A p \in Processes :
        pc[p] = "serving" /\ ~rivals[p] /\ DemoUserOrEmpty(conf[p]) # "" =>
            /\ demo \in DOMAIN roles
            /\ LoginDemoAllows(conf[p], demo, roles[demo])
            /\ roles[demo] = DemoPermissions(conf[p].demo_commands)

\* migrate.Run: one process at a time is between the lock and its release, and
\* whoever has died or gone on holds it no longer.
OneMigrates == \A p \in Processes : pc[p] \in Migrating <=> lock = p

\* Every start ends in serving or in an end, and every stop in an end, though a
\* stream may stay open for ever.
StartsAndStopsEnd ==
    \A p \in Processes :
        pc[p] \in Starting \cup {"draining"} ~> pc[p] \in {"serving", "down"}

\* bootstrap.go: "Another instance starting at the same moment may have won the
\* race; that is the outcome we wanted either way."
TogetherStartsSucceed == \A p \in Processes : exit[p] # "failed"
=============================================================================
