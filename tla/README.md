# A TLA+ development of the Statusengine interface

The program is a Go daemon, `seid`, that serves a web interface for a Naemon
monitoring core. It reads the Statusengine database, keeps its own accounts and
sessions, listens to the Statusengine worker for change events, passes them on
to browsers as server-sent events, and sends external commands through the
worker to the core. An Angular application is its only client.

This directory holds TLA+ modules translated from that code, TLC
configurations that check them on small instances, and TLAPS proofs.
`PROJECT.json` maps each definition to the lines it models, and lists the runs,
the mutants, the findings, the hazards and the theorems.

Paths below are relative to the repository; "browser" means
`frontend/src/app`.

## The system

| Component | State | Operations | Meets |
|---|---|---|---|
| Event hub, `internal/events/hub.go` | subscribers, pending changes, dropped count, worker connected | Publish, Subscribe and its release, flush every interval, Run | worker link, stream handlers: one mutex, one channel per client |
| Worker link, `internal/events/worker.go` | a WebSocket, the number of the attempt | dial, read, decode, back off, SetConnected | hub |
| SSE handler, `internal/events/sse.go` | one loop per stream, what it last said of the worker | hello, batches, heartbeats, upstream events | hub, `http.Server`'s write deadline |
| Live service, browser `core/events` | an EventSource, a mode, two timers | start, stop, four listeners, two timer callbacks | stream, lists |
| Lists and detail pages, browser `core/list`, `features` | rows, a request number, filters, selection | refetch on a tick, toggle, page | live service, API |
| Accounts and sessions, `internal/auth`, `cmd/seid/user.go` | `sei_users`, `sei_sessions` | Login, LoginDemo, Authenticate, Logout, prune; passwd, role, enable, disable | the database, which requests and processes share |
| Rate limits, `internal/ratelimit` | a map of counters per window | Allow, Reset, Retry, sweep | Login, command requests: one mutex per window |
| Command submission, `internal/httpapi/handlers_commands.go` | `sei_command_audit` | check, submit, record, answer | worker, broker, core, browser |
| Command construction, `internal/commands` | none | resolve the targets, build a line for each, bulk | the core's parser |
| Command confirmation, browser `core/commands`, `core/toast` | toasts, a busy flag | run, confirm, retry | API |
| Monitoring reads, `internal/repository/mysql`, `handlers_monitoring.go`, `handlers_history.go` | none; a request's results so far | one statement after another, under a timeout | the worker's tables, which change meanwhile |
| Configuration, `internal/config` | fixed at start | flags, environment, file, defaults; Validate | everything |
| Migrations and bootstrap, `internal/migrate`, `internal/auth/bootstrap.go` | `sei_schema_migrations`, roles, demo account | apply under a lock, create, update | other instances at start |
| HTTP server, `internal/httpapi/server.go`, `middleware.go` | none of its own | serve, time out, recover, shut down | all of the above |
| Sign-in state, browser `core/auth` | the current user | load, login, logout, forget on a 401 | API |
| Metrics, embedded pages, logging, presentation | none | | Graphite, database |

What is hard in it:

* the hub is shared by the worker's goroutine, the flush loop and a goroutine
  per stream, and two of its steps run outside its lock;
* freshness hangs on a chain of five parts, each of which may lose what it has,
  and on two browser timers that are meant to make up for that;
* requests, administrators, other starts and the prune meet only in the
  database, one statement at a time, and each works on rows it has read before;
* commands leave through three systems with no way back, and are recorded
  beside that; they are texts in which one character too many changes what is
  done;
* a page is put together from several statements over tables that the worker
  writes to meanwhile, and from ties, defaults and windows at their edges;
* several processes migrate, repair and serve one database, and die while they
  do, on a server that commits each DDL statement by itself;
* limits, queues and caps: what is promised at the edge of each.

What makes each component correct is stated as properties below, and
"hazards" in `PROJECT.json` lists where each could fail.

## The modules

| Module | Models | Extends or composes |
|---|---|---|
| `ChangeFeed` | what the hub promises | |
| `EventHub` | the hub | refines `ChangeFeed` |
| `LiveClient` | the live service, for any server | |
| `LiveUpdates` | the chain from the worker's frames to the list | composes `LiveClient` with worker link, hub, stream, list |
| `Sessions` | accounts and sessions | |
| `RateLimit` | the windows and their four uses | |
| `Commands` | one command from the button to the core and back | |
| `CommandLines` | what is built of a request and what the core reads from it | checked beside `Commands` |
| `Queries` | what a read may ask, selects and sorts | |
| `Reads` | a read request, statement by statement | `Queries` |
| `Config` | the settings | |
| `Startup` | the life of several processes on one database | `Config` |
| `MC...` | instances for TLC | one per run module |
| `..._proofs` | theorems | the module they are about |

A definition introduced as "Variant" is not part of a model: it is a plausible
mistake in the definition after it, and `PROJECT.json` "mutants" pairs it with
the property that tells the two apart.

### ChangeFeed and EventHub

`ChangeFeed` is what the hub promises: a doorbell. Once something has changed
while a client was attached the client is `owed` a ring; a ring makes it `rung`,
and it stays so until it answers. Nothing else takes either away.

`EventHub` is `hub.go`. One action is one critical section of `h.mu` or one
step without it: `Publish` (`Record`, `CountDropped`), `Subscribe`,
`ReleaseDelete` and `ReleaseClose` for the two halves of a release, `Flush` for
the section that takes the interval and copies the subscribers, `Send` for each
non-blocking send after it, `Read`, `Cancel`, `Return`. A client is one call of
Subscribe. `Alive` is false after a panic, which ends the process. Order inside
a batch, and the time of the ticker, are left out.

`NoSilentLoss` is the refinement: `attached` is the map of subscribers, a client
is owed a ring while something is pending or a flush under way still has to
serve it, and rung while its channel holds a batch.

### LiveClient and LiveUpdates

`LiveClient` is `live.service.ts`: `source` is the EventSource's ready state, the
two timers hold the time that is left. Each listener and callback is an action.
What reaches the tab is open, so the module holds for any server.

`LiveUpdates` is `LiveClient` with the rest of the chain around it: the status
database and the worker's frames (`Change`, `HandleFrame`), the worker link
(`Dial`, `SetConnected`, `Break`, `SetDisconnected`), the hub (`FlushHub`), the
stream handler (`Claim` to `Heartbeat`), the end of a stream and the list
(`Refetch`, `Answer`, `Show`, `Fail`). There is one browser, so the hub is what
`EventHub` shows it to be for one client. A unit of time is one heartbeat. That
every step of the chain is one of `LiveClient` or leaves it alone is a theorem
(`ChainImplementsTab`), so what is proved of the tab holds in the chain.

A stream has two ends, which learn of its end each by itself. `wire` is what is
between them: `NetworkDrop` makes it dead, with what was in transit, and tells
nobody. From then on the handler writes and nothing arrives, and the browser
waits. `ServerNotices` and `BrowserNotices` are either end's failure, which may
come at any time or never; `WriteFails` is the handler's first write past the
deadline; `BrowserHangsUp` is the orderly end that a live wire reports. A
browser that comes back before the old handler knows takes a new slot (`Asks`);
the old handler is then no longer followed. All that goes wrong is counted in
`faults`, so that any of it may be what does.

`InTime` states what the write deadline does. The handler asks for it to be
lifted, through `http.NewResponseController`; the log middleware's
`statusRecorder` has no `Unwrap`, so the request does not reach the connection
and the server's `WriteTimeout` stands.

### Sessions

`internal/auth` and its callers. One action is one database statement, so
`Login` is `LoginRead`, `LoginVerify`, `LoginOpen`, and `Authenticate` is
`SessionRead`, `AccountRead`, then `DropSession` or `Extend`. `req` holds what
each request has read. Administration is the account's statement (`Passwd`,
`SetActive`, `MoveDemoUser`) and the `Sweep` that follows it, or an `Interrupt`
between the two. A password is the number of times it has changed; a role is a
name, and `PlainRoles` are those the passwordless login accepts. `opened`,
`late` and `past` are history and no action reads them.

### RateLimit

`internal/ratelimit` under its four uses. One action is one critical section of
a window's mutex, so a command of the demo account is two: `Command` for the
visitor's own budget, `CrowdCommand` for the crowd's. `KeyOf` is what a caller
is counted under. `Retry`, which only reads what a refused caller is told, is
left out. `passed` and `forgiven` are history: for each window and caller the
events it let through and the resets of its counter, each with its time, and a
number because two may share one. `LoginReset` deletes the counter and leaves
that history alone: what was let through stays let through.

`LimitPerWindow` counts the resets, because the limit does. `service.go` 117
deletes the counter of the address at every login that succeeds, whichever
account it was; who has one account may try another's password without limit
from the same address.

### Commands

An external command from the button to the core and back: `run()` and
`confirm()` of the browser, the handler's checks, `submit` and
`recordCommands`, and the worker client. The path of a handler is
`Checked` (refused, not built, switched off, or sent), `Fetched` (the worker's
answer, or none), `Recorded`, `Answer`. Each is a step, so that a disconnect, a
closed tab or a crash may fall between any two of them. `GiveUp` leaves the
submission where it is: the worker may still queue it. `Refuse` stands for all
that is checked before `submit` is reached, by the middleware and
`decodeTargets`.

The browser's side is `tab`, the toast, and what `confirm()` holds: the objects
still to be confirmed, and those of the round under way that are still to be
read or have been found as asked. `Busy` is an operator: the buttons are
disabled while a request is out, so the flag is true exactly then.

The worker, the broker and the core are external. They queue, run or ignore what
they get, and owe nothing. Every command is an acknowledgement or its removal:
what matters is whether an object has come to be as asked. `OthersChange` is
everybody else, other runs of the same browser included. `queued`, `lost` and
`seen` are history.

### CommandLines

Pure operators. `Resolve` is the target list of a request (duplicates, the
caps), the builders of `naemon.go` make the commands of each target (`Build`,
`Bulk`, `Submission`), and `ReadCommand` is the external half, written the other way
round: how a core splits a line at its semicolons and its line breaks, and what
a broker takes from the typed messages. A text is one of a few sorts, those a
separator, a line break or the length tells apart.

`MCCommands` ties the two modules together: what a run has posted stands for
every submission of as many objects, so `ReadsBack` and `EveryTargetOnce` are
about each of them.

### Queries and Reads

`Queries` holds the pure part of the reads: the tables and their rows, the
parameters a handler accepts and those it refuses, the windows it fills in, the
`WHERE` conditions, the unions of a host and a service table, the orderings with
their tiebreakers, and `Pages`, the set of results an `ORDER BY ... LIMIT`
permits. SQL leaves the order of ties open, and so does `Pages`. `ListQueries`
is everything a list may be asked for, accepted or not.

`Reads` is one request: a list (count, then the page), the page of one object
(row, downtimes, acknowledgement) or the dashboard's summary (eight statements).
One action is one statement; pairs of statements that read disjoint tables are
one. Between them the worker writes (`WorkerWrites`), time passes, the deadline
of `timeoutMiddleware` may fall, or a statement fails. `NextPage` is a client
that walks over a list, from its first page on. `got` holds what the statements
have returned, by name. `IsDatabase` is what the worker's schema and the core
see to: tables are finite, an object has one status row (its primary key), and
no notification is from the future.

The two columns of a status row that say whether somebody looks after a problem
may be `Null`, as the schema has them and `hosts.go` 43 says. The tiles' scan
takes a NULL for 0 (`OrZero`); the lists compare the bare columns (`Takes`), so
that such a row answers neither `handled=true` nor `handled=false`.

Four properties say what the code does, where a plainer sentence would be false
of it; the difference is under "Seen while modelling".

* `StatesFitTotals`: a tile shows the number of hosts that are up, counted by one
  statement, as part of a total counted by another. The two agree but for as many
  objects as the worker has written meanwhile (`written`).
* `TilesMatchLists` is about a database nothing is written to, since the tile and
  its list are two requests, and adds the rows with a NULL, which the tile counts
  and the list leaves out.
* `OldestWaitsLongest` is about problems with a known moment, since
  `oldestUnhandled` leaves out a `last_state_change` of 0.
* `DetailExplains` asks for every downtime of the object unless there are more than
  `ForObject` asks for, and for the latest acknowledgement on record, which is not
  said to be the one in force.

### Config and Startup

`Config` is `Load`: a launch is a command line, an environment and files, each
of which may be unreadable; the first parse finds the file, the second reads the
flags; `Validate` accepts or refuses. A source is what it gives, and `Over` puts
it over what there was before. `Builtins` are the roles of the build.

`ConfiguredAsAsked` compares the result with `Asked`, which knows nothing of the
first parse: the last flag of a name wherever it stands, then the environment, then
the file named by the last `-config` or by `SEI_CONFIG`, then the default. The two
differ where `-config` stands behind another flag, because the first parse stops
there (`FileIsFound`); for such a command line the property keeps to the settings
that flags and the environment give, and one launch of the run is of that kind.

`Startup` runs several processes through it. Each action is one statement of
`migrate.Run` (`GetLock`, `EnsureTable`, `AppliedVersions`, `Statement`,
`Record`, `ReleaseLock`) or of `Bootstrap` (`RoleByName`, `CreateRole`,
`SetRolePermissions`, `FindDemoRole`, `UserByUsername`, `SetRole`,
`CreateUser`), then `Listen`, `Accept`, `Signal`, `Drained`. `Dies` may come
anywhere; it drops the connection's lock and keeps each table that was created.
`affectOne` is in the guards: an update that changes nothing counts no row and
fails. `company` and `rivals` are history: which starts have overlapped.

## The runs

Passing, one for each module or pair:

| Run | Properties | What it shows |
|---|---|---|
| `hub` | `TypeOK`, `DroppedMeansFull`, `SlotsMatchHandlers`, `NoSilentLoss`, `PendingReachesClient`, `StalePileCleared` | A batch that reports nothing dropped is the whole interval, a slot is held by exactly one handler that runs, and the hub implements the doorbell; what is pending reaches a channel; a pile nobody listens to goes |
| `live` | `TypeOK`, `ModeMatchesTimers`, `CatchesUpWhenWatched`, `AbandonedStreamsEnd` | Where streams outlive the silence timer, every change gets onto the screen, with events or without, through a lost frame, a stream cut or half open, a worker outage, a refused stream and a failed request, or the tab is left unwatched; a stream nobody reads gives its slot back; the mode is what the timers do |
| `sessions` | `TypeOK`, `RightsAreCurrent`, `ChangesEndSessions`, `EndedStaysEnded`, `PruneMatchesRead` | No request runs with a role its account did not hold meanwhile; password changes, disabling and the demo account's move end sessions, up to the sweep and to logins under way; no ended session comes back; the prune deletes exactly what no longer authenticates |
| `rate_limit` | `LimitPerWindow`, `RefusedOverOwnBudget`, `MapIsSwept` | No stretch as long as the window lets through more than two windows' worth, and one more for each login in it that succeeded; a caller is refused by its own budget only when it has spent it; maps are swept |
| `commands` | `AuditIsComplete`, `SuccessMeansQueued`, `ConfirmedWasSeen`, `CommandsAreAnswered`, `ReadsBack`, `EveryTargetOnce` | What reached the broker is on record for each object, unless the daemon died or the statement failed; what is called submitted, confirmed or accepted was queued; a confirmed bulk was seen as asked in each of its objects; the operator is always told how it ended; the core does what was asked, for every object once |
| `reads` | `HostPagesCoverOnce`, `AnswersAreWhole`, `RowsWithinPolicy`, `StatesFitTotals`, `TilesMatchLists`, `OldestWaitsLongest`, `HoursAddUp`, `DetailExplains`, `RequestsEnd` | Pages of hosts cover the list once, an answer is whole or an error, windows keep to the policy, the dashboard's numbers differ by no more than was written between their statements and agree with the lists they link to, but for NULLs, a page explains its object, and every request ends |
| `startup` | `ConfiguredAsAsked`, `OneMigrates`, `RecordedIsComplete`, `ServesComplete`, `LoneStartSucceeds`, `DemoMatches`, `StartsAndStopsEnd` | Each setting comes from the source that comes first, wherever its flag stands, but for a file named behind another flag; a version on record is complete whoever died where; who serves has every table, the roles of its build and the demo account it allows; a start alone does not fail; every start and stop ends |

Violations. Each is something a comment of the code says and the code does not
do; `PROJECT.json` "findings" quotes the comment.

| Run | Property | What TLC finds |
|---|---|---|
| `hub_panic` | `FlushesUntilDone` | A client leaves while flush holds a copy of its channel; the send on the closed channel panics |
| `live_cut` | `CatchesUp` | At the shipped timers and write timeout each stream is cut, and its successor's hello puts the silence timer off: a change between two streams is never fetched |
| `sessions_passwd` | `PasswordEndsSessions` | A login that has verified the old password opens its session after the sweep |
| `reads_paging` | `PagingIsStable` | Services and problems fall back to a column that is not unique: rows that tie are on two pages or on none |
| `startup_race` | `TogetherStartsSucceed` | Two processes of one build update the same role; the second changes nothing, and its start fails |

### Seen while modelling

Met in the code, and without a run: some need one browser or one moment only,
some contradict a sentence and no property, some are a choice.

Streams and freshness

* `live.service.ts` 118: an upstream event after the silence timer has fired stops
  the polling and arms nothing. From then on the tab is live, quiet, and watched
  by nobody. Below a write timeout of two minutes the next cut stream ends that.
* Before the first hello there is no timer either: a connection that dies without
  a word right after `start()` leaves the tab idle. `CatchesUpWhenWatched` exempts
  these two by name (`Unwatched`).
* The silence timer starts polling and leaves the EventSource as it is, so a tab
  whose connection is half open polls until its browser notices.
* Had `SetWriteDeadline` its effect, only the kernel would end the stream of a
  browser that is gone. As it is, the deadline frees the slot
  (`AbandonedStreamsEnd`).
* `sse.go` reads `Connected()` for hello (67) and again for the loop's memory
  (80): a link that breaks between the two is never announced on that stream.
* `worker.go` 86: the attempt is never set back, so the pause after a short break
  is the longest there is.
* A stream lives on after its session has ended.
* `live.service.ts` 26 and the topbar describe "offline" as neither stream nor
  polling getting through. `onError` (145) shows it for a stream that is refused,
  while polling works; and a tab none of whose requests gets through is shown as
  polling, since nothing looks at what became of a poll. `ModeMatchesTimers` says
  what the timers are in that mode, not what the word promises.
* `host-detail.ts` 133 and the service's page do not number their loads: an older
  answer that comes last stays.

Accounts, roles and starts

* The session is extended in the table and its cookie is not: the browser drops
  it a `session_ttl` after the login.
* `seid user role` on the demo account gives sessions opened without a password
  the new role, which `LoginDemo` itself would refuse.
* `bootstrap.go` 150 says that sessions carry the permissions they were opened
  with; `Authenticate` reads the account on every request.
* `bootstrap.go` 113: a role that another process has just created is taken as
  it is, also where that process is of another build or has other settings.
* A start with the demo mode off leaves the sessions of the demo account alone,
  and `ensureDemoUser` moves any account that happens to have its name.
* The first parse of `config.go` (170) knows no flag but `-config` and stops at any
  other, so in `-listen-addr x -config y` the file is never read, although
  `-config` is accepted, the comment has everything else ignored, and `README.md`
  75 has the file named by `-config` count. `-demo-mode false` ends the flags at
  `false`.
* A stop with an open stream waits its fifteen seconds and exits 1;
  `docs/code-tour.md` has `os.Exit` only before anything is serving. The default
  `query_timeout` of 20 s is longer than the drain.

* `service.go` 117: every login that succeeds deletes the counter of its address.
  `docs/security.md` 49 has login brute force refused after ten attempts a minute
  from one address; with one valid account there is no such limit.

Commands

* A worker may queue a submission whose handler has given up; the audit's filter
  on failures then lists a command that reached the broker.
* `submit` passes on the worker's status, and `auth.interceptor.ts` takes every
  401 for the end of the browser's session: a worker that answers 401 would
  sign the operator out of a session that lives on.
* `docs/architecture.md` has the API answer 202 "with the audit record written";
  a failed write is logged and the answer is 202 all the same (`RecordFails`).
* `docs/code-tour.md` has `recordCommands` cover "every failure path above",
  and what `decodeTargets` or a permission refuses is not recorded (`Refuse`).
* `MaxFieldLength` counts bytes where its message says characters. The target of
  `delete_downtime` is not validated and not used.
* Retry-After is cut to whole seconds, so it can end before the window does.

Reads

* `summary.go` counts the totals (222) and the states (261) in two statements,
  although the comment has one scan for every number, lest the tiles disagree;
  `dashboard.html` 73 to 81 shows one of each as part and whole.
* `summary.go` 229 to 233 takes a NULL acknowledgement or downtime depth for 0, and
  the conditions of the lists (`problems.go` 153 to 160, `filters.go` 59 to 79)
  compare the bare columns: such a problem is on the tile and not on its list.
* `handlers_monitoring.go` 141 has the acknowledgement in force; it is the latest on
  record, which may be of an earlier problem while the worker has written the
  status row and not yet the acknowledgement's.
* A core whose clock is ahead of the daemon's sends notifications in hours the
  dashboard does not draw; `HoursAddUp` assumes one clock.
* `to` alone is refused where it lies further back than the longest window from
  now, although the window asked for may be short.
* `problems=true` on hosts lists pending rows that the tile does not count.
* An object's page shows at most 25 of its downtimes (`downtimes.go` 199), where
  `docs/operations.md` 78 has it list every window; a list of names is cut at
  the largest page with `total` its length after the cut.
* The history of downtimes has no window, although `params.go` says that none of
  the histories is without.
* `BucketFor` may give two more points than asked, and a label with two units is
  one series in the graphs.

### Bounds

Twelve runs in all, one main run to a module, so that all of it can be
repeated on every change.

* `hub`: two changes against a batch cap of one, three clients against two
  slots, a buffer of one. Each cap is met, and exceeded by one; larger caps
  repeat the same cases, and the proofs do not depend on them. `MaxDropped`
  stops the counter. `hub_panic` needs two clients.
* `live`: the timers are shorter than the code's and in the same order (poll 1,
  silence 2); the write timeout of 3 is past both, which is a `write_timeout` of two
  minutes or more. One change and two faults, of any two kinds, in any order: a
  stream that goes dead and another thing that fails while it is, or two streams
  in a row. Liveness for one change is the claim for each change, since none waits
  for another. In `live_cut` the values are the shipped ones, and a unit is a
  heartbeat of 20 s: two units are the poll interval, rounded up, five the silence,
  three the write timeout. There nothing goes wrong but the write timeout.
* `sessions`: two requests over one token and one account, the demo account,
  which every action applies to; one password change; half the life of a session
  passes, and the whole of it. Properties are about one session and one account
  each, and rows of different accounts meet in no statement. `sessions_passwd`
  needs one request.
* `rate_limit`: limits of one and a span of one unit are enough for both sides
  of a window's edge; the sweep starts at two entries and three addresses reach
  it; one login of each address succeeds (`MaxResets`). The demo account's two
  budgets are on; another account's (`command_rate_limit`) is off in the run, and
  is the same code with another number. The theorems are about both.
* `commands`: one call of `run()`. Runs share the objects, whose changes by
  others are any, and the signed-in state, and the busy flag lets one request out
  at a time; two runs only multiply the states. Three objects are one more than
  `MaxVerify`, so bulks of both sizes occur. Two tries instead of six are enough
  for one that fails and one after it. One fault: a crash or a failed write. The
  requests of `CommandLines` are each action with each sort of text in each
  field, targets alone, doubled and at the cap.
* `reads`: an hour is two units, a page two rows, the largest three. Each scene of
  `MCReads` is a set of small databases and the requests that concern them: all
  the ways two or three objects may be fine, pending, waiting, acknowledged or
  in a downtime, or have a NULL; events on both sides of each window's ends; two
  writes of the worker at any points of a summary and one of an object's page, and
  one hour that ends. `MaxDowntimes` is 2 where the code has 25, so that a page can
  be full, and one window short.
* `startup`: two processes, three starts, one killed anywhere. Three starts are
  one that dies, one that overlaps it and one that finds what they left. Seven
  launches: two demo accounts of as many rights, none, a `migrate`, and three
  refused ones. The one migration of the repository has four statements; the
  theorems are about any number.

Deadlock is checked in the runs of `Sessions`. Elsewhere `CHECK_DEADLOCK FALSE`
is set because the models stop: at a bound on the clock, the changes or the
starts, with the answer to the one request, or when the hub has returned.

Symmetry is used in safety runs over values no action distinguishes.

### Fairness

* `EventHub`: `Flush` and `Send`. The ticker fires and a flush never blocks.
  Nobody has to publish, read or leave.
* `LiveUpdates`: time, both timers, the browser's event loop and its retry,
  handlers that have something to write, the hub's flush, the list's request and
  answer, and a live wire that reports its other end's close (`BrowserHangsUp`).
  None on `Change`, `Dial`, `Break`, `NetworkDrop` or `Fail`: the worker may stay
  away for good. None on `ServerNotices` and `BrowserNotices` either: TCP owes
  nobody the news that a connection is dead, and the silence timer and the write
  deadline are there because it does not.
* `Commands`: the handler's steps, since the database answers and
  `worker_timeout` runs out, and the browser's rounds of reads while the tab is
  open. None on the worker, the broker or the core, on a crash or a disconnect.
* `Reads`: the handler starts, and the deadline falls. None on a statement: the
  database may never answer.
* `Startup`: a process goes on while it can (`Proceeds`), since the database
  answers, `GET_LOCK` and the drain run out. None on a start, a signal, or a
  client that would leave: a stream may stay open for ever.
* `Sessions` and `RateLimit` state safety only and assume none.

## The proofs

Eight modules. Each theorem is about every value of the constants under the
module's named assumptions; what those ask is said with each. The last step of
each is an inductive invariant and a temporal step.

`EventHub_proofs`, from `HubAssumption` (caps are positive, which `NewHub` sees
to): `TypeCorrect`, `DroppedCorrect`, `SlotsCorrect`, and `BellImplemented`,
that the hub implements `ChangeFeed`. The invariant, `HubInv`, adds two facts.
`Bounded`: `pending` and `subscribers` are finite and `pending` is within its
cap, without which "at the cap" could not be concluded from the guard of
`CountDropped`. `NewIsUntouched`: a client that has not subscribed has an empty
channel and is no target of a flush, without which attaching could make it owed
or rung for a reason `ChangeFeed` does not know. For the refinement each action
is a step or a stutter of the doorbell; `FlushKeepsDebt` is where the debt moves
from the pending set to the copy of the subscribers, and `SendRings` where it is
settled: a full channel is not empty, so the bell rings whether the batch fits
or is dropped.

`LiveUpdates_proofs`: `TabCorrect` shows by itself that a tab, whatever any server
does, has the timers its mode calls for. `ChainImplementsTab`
maps each step of the chain to one of the tab's or a stutter, and `ModeCorrect`
follows for the chain; `ChainTypeCorrect` is its types.

`Sessions_proofs` proves all five properties of the run: `TypeCorrect`,
`RightsCorrect`, `EndedIsFinal`, `PruneIsExact`, `ChangesCorrect`. For
the rights, the strengthening `SeenWasHeld` says from the moment the account is
read that the role was one the account held during the request, so that it
survives the statement that extends the session. The others are inductive with
the types: the history a session and a login carry (`opened`, `late`) is enough.

`Startup_proofs`: `MigratesAlone`, `RecordCorrect`, `ServingIsComplete`. `Shape`
gives places and steps; `FileState` says for each process which tables of the
file it is in are there, and that it knows no version that is not on record;
`RoleState` says how many of the roles are right at its place in the list. The
latter is kept because roles only ever become right (`RolesGrow`): every
process of a build writes the same, except for the demo role, which the
theorem leaves to `DemoCorrect`. From `StartupAssumption`: versions are distinct
and a file has a statement.

`ConfiguredCorrect` is there too: each setting of every process is the one of
the source that comes first, but where only a file named behind another flag has
it. `Load` reads the command line twice and merges functions, `Asked` looks for
the last flag of that name; between the two are that a parse reads a prefix of
the words (`Read`), so that in an accepted command line nothing after a stray
word counts; that the first parse, which stops at any other flag, finds the last
`-config` where they all stand in front (`FoundIsAsked`); and that what is put
over a function wins wherever it has a value. From the same assumption: a
command line is a sequence whose flags are those of `bindFlags`, `-config`, or
marked as no flag or an unknown one.

The last part of the module, on `auth.Bootstrap`, has `LoneStartCorrect` and
`DemoCorrect`. For the first, five
statements may fail a start. `Record` does not, since the versions read are those
on record while the lock is held; a missing table or demo role does not occur;
and `SetRolePermissions` and `SetRole` fail only where another process has been
in between, which `Alone` shows to have been starting too. For the second, `Alike`
says that whoever is starting beside a process without `rivals` has the same
demo settings, so that what it writes is the same; `DemoState` follows a process
through the role and then the account, and holds on while others do theirs.

`Commands_proofs`: `AuditCorrect`, `SuccessCorrect`, `ConfirmedCorrect`, for any
runs, objects and number of tries. `ServerInv` follows the handler and the
submission (what is queued was sent, what is on record has the fate it had),
`BrowserInv` the tab: what is confirmed so far, and in this round, was seen.

`CommandLines_proofs`: `SubmissionCorrect`, and from it `ReadsBackCorrect` and
`EveryTargetOnceCorrect`, for any requests, objects, texts and limits. The
argument goes from the sequences up.

* `FlattenPlaces`: flattening keeps every element and their order. The fold is a
  recursive function; it is the only one of its kind (`FlattenIsJoined`), and
  what holds of it is shown by the least length at which it would not
  (`LeastNumber`), since induction over a formula is not available.
* `NamesDiffer`: of the commands the core knows, a name belongs to one. Hence
  `LineReads`: a line none of whose fields is split is read as its own object and
  arguments. That no field is split is what `checkField` refuses the rest for
  (`FieldIsWhole`), and for numbers `DigitsAreWhole`.
* One lemma for each of the eight builders (`AcknowledgeSays` to `DowntimeSays`)
  and `BuildSays` for all: what is built for an object is one command, or two that
  do different things, and they do what the request means for it.
* `MeaningsDiffer`: what is meant for two objects has nothing in common, since a
  valid target's fields say which it is; deleting a downtime names no object, and
  that is where `OneWindow` is needed. With `DistinctIs` the commands are as many as
  the things meant (`Counted`), by a bijection.

From `CommandLinesAssumption` and `DigitsAreWhole`. Of Naemon and the broker it
takes what `ReadCommand` says of them.

`RateLimit_proofs`: `SweptCorrect`, `LimitCorrect`, `RefusedCorrect`. For the
first, a counter starts with a sweep, or in a small map, and the clock does not
go back, so what had rolled over then is gone or few. The others need an account
of the events (`PassedInv`). A caller with a counter has had, since that
started, as many events as it counts, up to the limit, and in the stretch before
at most one limit (`Running`); a caller without one has had at most one limit in
the stretch that ends now, and nothing at this moment (`Settled`). A counter
that rolls over turns the first into the second (`OverIsSettled`), which is why
one may be swept without harm; and a stretch meets at most two counters, and one
more for each reset in it, which is all that `Forgives` lets a deleted counter
leave behind. A refused caller's count is past the limit, so its events since
the start are the limit. From `RateAssumption`: limits and the window are
positive, or the budget is off.

`Reads_proofs`: `StatesCorrect` and `HoursCorrect`, for any database, window and
writes in between. For the first, `ScanInv` follows the totals from their
statement to that of the states: at the former they are the sizes of a partition
of the table (`Partition`), and each write moves one object, so that they drift
from what the latter will count by one at the most (`Near`). The second needs
that the last hour is taken from the clock after both series were read, hence
the order of the statements (`NextIsLeast`), and that an earlier moment is in no
later hour.

The other six theorems of that module rest on `AnswerInv`. `DataInv` keeps the
tables what `IsDatabase` says, under every write. `Fresh` is what makes an answer
put together from several statements comparable at all: while nothing is written,
what each has returned is what it would return now. `ListInv` and `DetailInv`
say which statements came before which.

* `WindowsCorrect`: with both ends, one, or none given, an accepted window is no
  longer than the list's policy, and the rows read are within it.
* `OldestCorrect`: each of the two statements returns a least row of its table,
  and the older of the two is a least of both.
* `TilesListed`: the conditions of a tile's scan are those of the list it links
  to, list by list; what they tell apart, the rows with a NULL, is added.
* `DetailCorrect`: what is read are this object's own, the first rows of an
  order are no later than the rest (`Orders` puts no row before one that comes
  before it).
* `AnswersCorrect`: the length of a slice, and that every order of a finite set
  has as many places as it has elements.
* `HostPagesCorrect`: a host has one row and its name breaks ties, so there is
  one order only (`HostsOneOrder`, from the least place in which two orders would
  differ). `WalkInv`: the pages shown so far are the beginning of it, so the next
  page continues where the last one ended.

From `ReadsAssumption`: the databases are as `IsDatabase` says and the requests
are `Requests`. For services and problems, whose ties are open, `reads_paging`
shows the same claim violated.

Only model-checked:

* liveness (`PendingReachesClient`, `StalePileCleared`, `CatchesUpWhenWatched`,
  `AbandonedStreamsEnd`, `CommandsAreAnswered`, `RequestsEnd`,
  `StartsAndStopsEnd`), which is out of the prover's reach;
* the violations.

Every invariant, action property and refinement of the passing runs is a theorem.

## Not modelled, and why

* Metrics providers: stateless reads of two back ends. Embedded pages, logging,
  layout, themes, translations: presentation.
* Reads: text filters (`LIKE`), columns that nothing is decided by, the graphs,
  and the answers about health and version.
* Worker link: the length of the pause, since any is possible in `LiveUpdates`,
  and the fields of an event, which decide nothing but the list that refetches.
* Accounts: creating and listing them, `last_login_at`, the hash of a password
  and of a token.
* Commands: the prune of old audit rows, which deletes by age after days, and
  the audit list's filters.
* Browser: filters, selection and paging of the lists, the detail pages, restoring
  and guarding the signed-in state. They act on one page's own fields, between
  a user's clicks; the parts that meet the server, the list's refetch with its
  request number and the reaction to a 401, are in `LiveUpdates` and `Commands`.
* HTTP server: recovery of a handler's panic, and request logging.
* Startup: the splitting of a migration file into statements.

## Plan

What would come next, in order: an abstract command that `Commands` refines
(asked, queued or not, recorded, told); a list with filters, selection and
paging under late answers, and with it the unnumbered loads of the detail
pages; streams across the end of their session.
