------------------------------ MODULE Commands ------------------------------
(***************************************************************************)
(* An external command from the button to the monitoring core: run() and   *)
(* confirm() in the browser (core/commands), the handler that checks,      *)
(* submits, records and answers (internal/httpapi/handlers_commands.go),   *)
(* the worker client (internal/commands/client.go) and the audit rows.     *)
(* The worker, the broker, the core and its status database are outside:   *)
(* there is no reply path, so the browser watches the objects.             *)
(*                                                                         *)
(* The command is an acknowledgement or its removal, for all of them:      *)
(* what a command is about is whether an object has come to be as asked.   *)
(* One browser tab runs them, one request at a time (the busy flag), but a *)
(* request it has lost or left behind goes on in the server.               *)
(***************************************************************************)
EXTENDS Naturals, FiniteSets

CONSTANTS
    Runs,           \* the calls of run()
    Objects,        \* hosts and services
    Asks,           \* what a call may be for
    Replies,        \* statuses the worker may answer with, and not queue
    MaxVerify,      \* maxVerifyTargets
    Attempts,       \* VERIFY_ATTEMPTS
    MaxFaults       \* bound: crashes and failed writes

\* want is what the objects' state shall be, and verify whether the caller
\* passed a predicate for it.
AllAsks == [targets : SUBSET Objects \ {{}}, want : BOOLEAN, verify : BOOLEAN]

ASSUME CommandsAssumption ==
    /\ Asks \subseteq AllAsks /\ Asks # {}
    /\ Replies \subseteq (100 .. 599) \ {202}
    /\ MaxVerify \in Nat /\ Attempts \in Nat \ {0} /\ MaxFaults \in Nat

VARIABLES
    enabled,        \* a worker_command_key is configured
    session,        \* the session of this browser is there
    signedIn,       \* Auth.identity is not null
    ask,            \* what each run is for
    tab,            \* where each run is in the browser
    watch,          \* what its confirm() holds
    toast,          \* the tone of its toast
    handler,        \* where its handler is in the server
    status,         \* the HTTP status it has come to
    cut,            \* the requests whose context is cancelled
    posted,         \* the submissions the worker has yet to decide on
    reply,          \* the status the worker answers with, 0 before that
    broker,         \* the commands queued, one for each object
    acked,          \* the status database: acknowledged objects
    audit,          \* sei_command_audit: run, object and status
    faults,         \* how many faults there have been
    queued,         \* history: the runs the worker ever queued
    lost,           \* history: the runs whose rows could not be written
    seen            \* history: objects in the wanted state while watched

browserVars == <<signedIn, tab, watch, toast>>
serverVars == <<handler, status, audit, lost>>
outsideVars == <<posted, reply, broker, acked, queued>>
vars == <<enabled, session, ask, browserVars, serverVars, outsideVars, cut, faults,
          seen>>

Statuses == {202, 400, 401, 502, 503} \cup {s \in Replies : s >= 400}

\* confirm(): the objects still to be confirmed, those of this attempt still
\* to be read and those found done, and the attempts made.
Asleep == [left |-> {}, asking |-> FALSE, reading |-> {}, done |-> {}, tries |-> 0]

Init ==
    /\ enabled \in BOOLEAN
    /\ session = TRUE /\ signedIn = TRUE
    /\ ask \in [Runs -> Asks]
    /\ tab = [c \in Runs |-> "idle"]
    /\ watch = [c \in Runs |-> Asleep]
    /\ toast = [c \in Runs |-> "none"]
    /\ handler = [c \in Runs |-> "none"]
    /\ status = [c \in Runs |-> 0]
    /\ cut = {}
    /\ posted = {}
    /\ reply = [c \in Runs |-> 0]
    /\ broker = {}
    /\ acked \in SUBSET Objects
    /\ audit = {}
    /\ faults = 0
    /\ queued = {} /\ lost = {}
    /\ seen = [c \in Runs |-> {}]

Targets(c) == ask[c].targets

\* The object is as the run wants it.
AsAsked(c, o) == (o \in acked) = ask[c].want

-----------------------------------------------------------------------------
(* The browser: run()                                                      *)

\* Variant, not the code: a toast the operator dismissed is not shown again.
ReplacesShown(c, tone) ==
    toast' = IF toast[c] = "none" THEN toast ELSE [toast EXCEPT ![c] = tone]

\* Toasts.replace: what is no longer there is shown again.
Replace(c, tone) == toast' = [toast EXCEPT ![c] = tone]

Goes(c, place) == tab' = [tab EXCEPT ![c] = place]

\* The run is over and its toast says how.
Settles(c, tone) == Goes(c, "over") /\ Replace(c, tone)

\* Toasts.show.
Show(c) == toast' = [toast EXCEPT ![c] = "pending"]

\* The buttons are disabled.
Busy == \E c \in Runs : tab[c] = "sent"

Run(c) ==
    /\ tab[c] = "idle" /\ ~Busy /\ signedIn
    /\ Goes(c, "sent")
    /\ Show(c)
    /\ handler' = [handler EXCEPT ![c] = "checking"]
    /\ UNCHANGED <<signedIn, watch, status, audit, lost, outsideVars, cut,
                   session, faults>>

\* The caller can tell whether it took, and the server named the objects.
Watchable(c) == ask[c].verify /\ Cardinality(Targets(c)) <= MaxVerify

\* The interceptor forgets who is signed in on a 401, whoever it came from.
Intercepts(s) == signedIn' = (signedIn /\ s # 401)

\* run(), once there is an answer.
Receive(c) ==
    \/ /\ status[c] = 202 /\ Watchable(c)
       /\ Goes(c, "watching") /\ Replace(c, "pending")
       /\ watch' = [watch EXCEPT ![c] = [Asleep EXCEPT !.left = Targets(c)]]
       /\ UNCHANGED signedIn
    \/ /\ status[c] = 202 /\ ~Watchable(c)
       /\ Settles(c, "success")
       /\ UNCHANGED <<signedIn, watch>>
    \/ /\ status[c] # 202
       /\ Settles(c, "error")
       /\ Intercepts(status[c])
       /\ UNCHANGED watch

\* The connection breaks under the request: the browser knows no more than
\* that, and the server's context is cancelled.
Disconnect(c) ==
    /\ tab[c] = "sent"
    /\ Settles(c, "error")
    /\ cut' = cut \cup {c}
    /\ UNCHANGED <<signedIn, watch, serverVars, outsideVars, session, faults>>

\* The tab is closed or reloaded.
Leave ==
    /\ \E c \in Runs : tab[c] \in {"sent", "watching"}
    /\ tab' = [c \in Runs |-> IF tab[c] = "idle" THEN "idle" ELSE "closed"]
    /\ toast' = [c \in Runs |-> "none"]
    /\ watch' = [c \in Runs |-> Asleep]
    /\ cut' = cut \cup {c \in Runs : tab[c] = "sent"}
    /\ UNCHANGED <<signedIn, serverVars, outsideVars, session, faults>>

\* By the operator, or by the toast's own timer.
Dismiss(c) ==
    /\ toast[c] # "none"
    /\ toast' = [toast EXCEPT ![c] = "none"]
    /\ UNCHANGED <<signedIn, tab, watch, serverVars, outsideVars, cut, session,
                   faults>>

-----------------------------------------------------------------------------
(* The server: one request                                                 *)

Moves(c, place) == handler' = [handler EXCEPT ![c] = place]

Reports(c, s) == status' = [status EXCEPT ![c] = s]

\* authMiddleware answers 401 without a session; permission, budget and
\* decodeTargets refuse on other grounds, for which 400 stands.  Nothing of
\* this is recorded.
Refuse(c) ==
    /\ handler[c] = "checking"
    /\ Moves(c, "answering")
    /\ Reports(c, IF session THEN 400 ELSE 401)
    /\ UNCHANGED <<audit, lost, posted, faults, browserVars>>

\* submit: an envelope that cannot be built, or too many of them.
BuildFails(c) ==
    /\ handler[c] = "checking" /\ session
    /\ Moves(c, "recording") /\ Reports(c, 400)
    /\ UNCHANGED <<audit, lost, posted, faults, browserVars>>

\* Client.Submit without a key: ErrDisabled.
Disabled(c) ==
    /\ handler[c] = "checking" /\ session /\ ~enabled
    /\ Moves(c, "recording") /\ Reports(c, 503)
    /\ UNCHANGED <<audit, lost, posted, faults, browserVars>>

\* Client.Submit, up to the worker's answer.
Submit(c) ==
    /\ handler[c] = "checking" /\ session /\ enabled
    /\ Moves(c, "waiting")
    /\ posted' = posted \cup {c}
    /\ UNCHANGED <<status, audit, lost, faults, browserVars>>

\* Variant, not the code: whatever is no error is a success.
AnySuccess(s) == IF s = 0 THEN 502 ELSE IF s < 400 THEN 202 ELSE s

\* The status submit makes of the worker's; no answer has status 0.
Mapped(s) == IF s = 202 \/ s >= 400 THEN s ELSE 502

GotReply(c) ==
    /\ handler[c] = "waiting" /\ reply[c] # 0
    /\ Moves(c, "recording") /\ Reports(c, Mapped(reply[c]))
    /\ UNCHANGED <<audit, lost, posted, faults, browserVars>>

\* Unreachable, no answer within worker_timeout, or the context is cancelled.
\* What was sent may still arrive.
GiveUp(c) ==
    /\ handler[c] = "waiting"
    /\ Moves(c, "recording") /\ Reports(c, Mapped(0))
    /\ UNCHANGED <<audit, lost, posted, faults, browserVars>>

\* Variant, not the code: the rows are written under the request's context.
RowsOfTheConnected(c) == IF c \in cut THEN {} ELSE {c} \X Targets(c) \X {status[c]}

\* One row per object, whatever the outcome.
Rows(c) == {c} \X Targets(c) \X {status[c]}

\* recordCommands, in one statement, under a context that is not cancelled.
Record(c) ==
    /\ handler[c] = "recording"
    /\ Moves(c, "answering")
    /\ audit' = audit \cup Rows(c)
    /\ UNCHANGED <<status, lost, posted, faults, browserVars>>

\* The statement fails, which is only logged.
RecordFails(c) ==
    /\ handler[c] = "recording" /\ faults < MaxFaults
    /\ Moves(c, "answering")
    /\ lost' = lost \cup {c}
    /\ faults' = faults + 1
    /\ UNCHANGED <<status, audit, posted, browserVars>>

\* writeError or the 202; it reaches a browser that is still there.
Answer(c) ==
    /\ handler[c] = "answering"
    /\ Moves(c, "done")
    /\ IF c \in cut THEN UNCHANGED browserVars ELSE Receive(c)
    /\ UNCHANGED <<status, audit, lost, posted, faults>>

Checked(c) == Refuse(c) \/ BuildFails(c) \/ Disabled(c) \/ Submit(c)
Fetched(c) == GotReply(c) \/ GiveUp(c)
Recorded(c) == Record(c) \/ RecordFails(c)

Handle(c) ==
    /\ Checked(c) \/ Fetched(c) \/ Recorded(c) \/ Answer(c)
    /\ UNCHANGED <<reply, broker, acked, queued, cut, session>>

AtWork(c) == handler[c] \in {"checking", "waiting", "recording", "answering"}

\* The daemon dies with the requests it is working on.
Crash ==
    /\ faults < MaxFaults
    /\ \E c \in Runs : AtWork(c)
    /\ handler' = [c \in Runs |-> IF AtWork(c) THEN "dead" ELSE handler[c]]
    /\ tab' = [c \in Runs |-> IF tab[c] = "sent" THEN "over" ELSE tab[c]]
    /\ toast' = [c \in Runs |-> IF tab[c] = "sent" THEN "error" ELSE toast[c]]
    /\ faults' = faults + 1
    /\ UNCHANGED <<signedIn, watch, status, audit, lost, outsideVars, cut,
                   session>>

-----------------------------------------------------------------------------
(* The browser: confirm()                                                  *)

Watches(c, w) == watch' = [watch EXCEPT ![c] = w]

\* The attempt is over: sleep, or give up with what is left.
AttemptEnds(c, left) ==
    IF watch[c].tries + 1 = Attempts
    THEN Watches(c, Asleep) /\ Settles(c, "warning")
    ELSE /\ Watches(c, [Asleep EXCEPT !.left = left, !.tries = watch[c].tries + 1])
         /\ UNCHANGED <<tab, toast>>

Wake(c) ==
    /\ tab[c] = "watching" /\ ~watch[c].asking
    /\ Watches(c, [watch[c] EXCEPT !.asking = TRUE, !.reading = watch[c].left])
    /\ UNCHANGED <<signedIn, tab, toast>>

\* One of the reads answers, and the predicate looks at what it says.
Look(c, o) ==
    /\ watch[c].asking /\ o \in watch[c].reading
    /\ session
    /\ Watches(c, [watch[c] EXCEPT
          !.reading = @ \ {o},
          !.done = IF AsAsked(c, o) THEN @ \cup {o} ELSE @])
    /\ UNCHANGED <<signedIn, tab, toast>>

\* One of the reads fails, and the attempt counts for nothing.
LookFails(c) ==
    /\ watch[c].asking /\ watch[c].reading # {}
    /\ Intercepts(IF session THEN 503 ELSE 401)
    /\ AttemptEnds(c, watch[c].left)

\* Variant, not the code: a bulk that took on one object is done.
OneIsEnough(c) == watch[c].done # {}

AllConfirmed(c) == watch[c].left \subseteq watch[c].done

\* All reads of the attempt have answered.
Evaluate(c) ==
    /\ watch[c].asking /\ watch[c].reading = {}
    /\ IF AllConfirmed(c)
       THEN Watches(c, Asleep) /\ Settles(c, "success")
       ELSE AttemptEnds(c, watch[c].left \ watch[c].done)
    /\ UNCHANGED signedIn

Confirm(c) ==
    /\ \/ Wake(c)
       \/ \E o \in Objects : Look(c, o)
       \/ LookFails(c)
       \/ Evaluate(c)
    /\ UNCHANGED <<serverVars, outsideVars, cut, session, faults>>

-----------------------------------------------------------------------------
(* Outside: the worker, the broker, the core, and the session              *)

\* The worker refuses the key or the commands, or has no broker; what answers
\* is not always the worker.
WorkerRefuses(c) ==
    /\ c \in posted
    /\ posted' = posted \ {c}
    /\ \E s \in Replies : reply' = [reply EXCEPT ![c] = s]
    /\ UNCHANGED <<broker, acked, queued, session>>

\* It hands the commands to the broker, though the handler may have given up.
WorkerQueues(c) ==
    /\ c \in posted
    /\ posted' = posted \ {c}
    /\ reply' = [reply EXCEPT ![c] = 202]
    /\ broker' = broker \cup {c} \X Targets(c)
    /\ queued' = queued \cup {c}
    /\ UNCHANGED <<acked, session>>

Becomes(o, state) == acked' = IF state THEN acked \cup {o} ELSE acked \ {o}

\* The core takes a command off the queue, and runs it or ignores it.
CoreTakes(c, o) ==
    /\ <<c, o>> \in broker
    /\ broker' = broker \ {<<c, o>>}
    /\ UNCHANGED acked \/ Becomes(o, ask[c].want)
    /\ UNCHANGED <<posted, reply, queued, session>>

\* Others acknowledge the object or take that back, or it recovers.
OthersChange(o) ==
    /\ Becomes(o, o \notin acked)
    /\ UNCHANGED <<posted, reply, broker, queued, session>>

\* It expires, or is ended elsewhere.
SessionEnds ==
    /\ session
    /\ session' = FALSE
    /\ UNCHANGED outsideVars

Outside ==
    /\ \/ \E c \in Runs : WorkerRefuses(c) \/ WorkerQueues(c)
       \/ \E c \in Runs, o \in Objects : CoreTakes(c, o)
       \/ \E o \in Objects : OthersChange(o)
       \/ SessionEnds
    /\ UNCHANGED <<browserVars, serverVars, cut, faults>>

-----------------------------------------------------------------------------
Step ==
    \/ \E c \in Runs : \/ Run(c)
                       \/ Disconnect(c)
                       \/ Dismiss(c)
                       \/ Handle(c)
                       \/ Confirm(c)
    \/ Leave
    \/ Crash
    \/ Outside

\* The history notes which objects a run in its confirmation could have seen
\* as asked.
Remember ==
    seen' = [c \in Runs |->
        IF tab[c] # "watching" THEN seen[c]
        ELSE seen[c] \cup {o \in Targets(c) : AsAsked(c, o)}]

Next == Step /\ Remember /\ UNCHANGED <<enabled, ask>>

Spec == Init /\ [][Next]_vars

\* The database answers and worker_timeout runs out, so a handler goes on; so
\* does the browser while the tab is open.  The worker, the broker and the core
\* owe nothing.
Fairness ==
    \A c \in Runs :
        WF_vars(Next /\ Handle(c)) /\ WF_vars(Next /\ Confirm(c))

FairSpec == Spec /\ Fairness

-----------------------------------------------------------------------------
(* Properties                                                              *)

\* recordCommands, "the audit entry is about what happened": every command
\* that ever got to the broker is on record for each of its objects once its
\* handler is over, whether or not the browser is still there or an answer
\* came, unless the one statement failed.  All of its rows say the same.
AuditIsComplete ==
    \A c \in Runs : c \in queued \ lost /\ handler[c] \in {"answering", "done"} =>
        \E s \in Statuses : {row \in audit : row[1] = c} = {c} \X Targets(c) \X {s}

\* commands.service.ts, "rather than claiming a success it cannot see": what
\* the browser calls submitted, confirmed or not confirmed, and what the audit
\* calls accepted, has reached the broker.
SuccessMeansQueued ==
    \A c \in Runs :
        (\/ tab[c] = "watching"
         \/ toast[c] \in {"success", "warning"}
         \/ \E o \in Objects : <<c, o, 202>> \in audit) => c \in queued

\* confirm(), "Every object has to show the change, not just the first": each
\* object of a confirmed run was as asked at some moment of its confirmation,
\* however attempts failed in between.
ConfirmedWasSeen ==
    \A c \in Runs :
        Watchable(c) /\ toast[c] = "success" => Targets(c) \subseteq seen[c]

\* run() and Toasts.replace: whatever the worker, the network, the daemon and
\* the operator's dismissals do, the operator gets to see how a run ended.
CommandsAreAnswered ==
    \A c \in Runs :
        tab[c] = "sent" ~> \/ toast[c] \in {"success", "warning", "error"}
                           \/ tab[c] = "closed"
=============================================================================
