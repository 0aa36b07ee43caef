---------------------------- MODULE LiveUpdates ----------------------------
(***************************************************************************)
(* From the status database to the screen: the worker's WebSocket          *)
(* (internal/events/worker.go), the hub, one stream handler                *)
(* (internal/events/sse.go), the browser's EventSource and LiveClient, and *)
(* the list that refetches on a tick (core/list/list-store.ts).            *)
(*                                                                         *)
(* One browser, so the hub is reduced to what EventHub shows it to be for  *)
(* one client: a pending interval and a bell.  A change is one write to    *)
(* the status database followed by the worker's event about it.  The unit  *)
(* of time is one heartbeat of the stream.                                 *)
(***************************************************************************)
EXTENDS LiveClient, Sequences

CONSTANTS
    Retry,          \* "retry: 5000": the EventSource's pause, rounded up
    WriteTimeout,   \* http.Server.WriteTimeout; 0 is none, as in net/http
    MaxChanges,     \* bound on the changes that happen
    MaxFaults,      \* bound on what goes wrong: streams cut by the network, the
                    \* worker's connection breaking, list requests that fail
    StreamCap       \* bound on events in transit

ASSUME UpdatesAssumption ==
    /\ Retry \in Nat \ {0}
    /\ WriteTimeout \in Nat
    /\ {MaxChanges, MaxFaults} \subseteq Nat
    /\ StreamCap \in Nat \ {0}

VARIABLES
    db,             \* how often the status database has changed
    frame,          \* an event of the worker is on its way to the interface
    link,           \* WorkerSource.Run and connect
    upstream,       \* Hub.connected
    pending,        \* Hub.pending is not empty
    bell,           \* a batch waits in this client's channel
    handler,        \* where ServeHTTP is
    told,           \* its variable "connected"
    age,            \* time since the stream's request, up to WriteTimeout
    beat,           \* the heartbeat ticker has fired
    wire,           \* the connection under the stream: "up", or "dead"
    stream,         \* events on their way to the browser
    retry,          \* the EventSource's reconnect pause: Off, or time left
    fetch,          \* the list's request in flight: none, sent, answered
    got,            \* what its answer carries
    screen,         \* which version of the database the list shows
    faults          \* how much has gone wrong

serverVars == <<db, frame, link, upstream, pending>>
handlerVars == <<bell, handler, told, age, beat>>
listVars == <<fetch, got, screen>>
wireVars == <<wire, stream>>
vars == <<liveVars, serverVars, handlerVars, wireVars, retry, listVars, faults>>

\* What a step of the worker or its link has nothing to do with, and a step of
\* the handler.
Downstream == <<liveVars, handlerVars, wireVars, retry, listVars>>
AwayFromStream == <<liveVars, serverVars, wire, retry, listVars, faults>>

\* The list after a failed request: no rows and an error.
Blank == -1

Events == [type : {"hello", "upstream"}, connected : BOOLEAN]
            \cup [type : {"changes"}]

TypeOK ==
    /\ LiveTypeOK
    /\ db \in 0 .. MaxChanges
    /\ frame \in BOOLEAN
    /\ link \in {"waiting", "dialed", "reading", "broken"}
    /\ upstream \in BOOLEAN
    /\ pending \in BOOLEAN /\ bell \in BOOLEAN
    /\ handler \in {"none", "claimed", "greeted", "looping"}
    /\ told \in BOOLEAN /\ beat \in BOOLEAN
    /\ age \in 0 .. WriteTimeout
    /\ wire \in {"up", "dead"}
    /\ stream \in Seq(Events) /\ Len(stream) <= StreamCap
    /\ retry \in Off .. Retry
    /\ fetch \in {"none", "sent", "answered"}
    /\ got \in 0 .. MaxChanges
    /\ screen \in Blank .. MaxChanges
    /\ faults \in 0 .. MaxFaults

\* The page is up and its first request is on its way.
Init ==
    /\ LiveInit
    /\ db = 0 /\ frame = FALSE /\ link = "waiting" /\ upstream = FALSE
    /\ pending = FALSE /\ bell = FALSE
    /\ handler = "none" /\ told = FALSE /\ age = 0 /\ beat = FALSE
    /\ wire = "up" /\ stream = <<>> /\ retry = Off
    /\ fetch = "sent" /\ got = 0 /\ screen = Blank
    /\ faults = 0

\* Something goes wrong.
Fault ==
    /\ faults < MaxFaults           \* bound
    /\ faults' = faults + 1

-----------------------------------------------------------------------------
(* The worker and the connection to it                                     *)

\* The event about it may get lost: no connection, one that is half open, a
\* frame that does not decode.
Change ==
    /\ db < MaxChanges              \* bound
    /\ db' = db + 1
    /\ \/ link \in {"dialed", "reading"} /\ frame' = TRUE
       \/ UNCHANGED frame
    /\ UNCHANGED <<link, upstream, pending, faults, Downstream>>

\* connect: the dial succeeds, and only then does the hub hear of it.
Dial ==
    /\ link = "waiting"
    /\ link' = "dialed"
    /\ UNCHANGED <<db, frame, upstream, pending, faults, Downstream>>

SetConnected ==
    /\ link = "dialed"
    /\ link' = "reading"
    /\ upstream' = TRUE
    /\ UNCHANGED <<db, frame, pending, faults, Downstream>>

\* handle and Publish.
HandleFrame ==
    /\ link = "reading"
    /\ frame
    /\ frame' = FALSE
    /\ pending' = TRUE
    /\ UNCHANGED <<db, link, upstream, faults, Downstream>>

\* Read fails, and what had not been read is lost ...
Break ==
    /\ link = "reading"
    /\ Fault
    /\ link' = "broken"
    /\ frame' = FALSE
    /\ UNCHANGED <<db, upstream, pending, Downstream>>

\* ... then Run tells the hub and backs off, for as long as it takes.
SetDisconnected ==
    /\ link = "broken"
    /\ link' = "waiting"
    /\ upstream' = FALSE
    /\ UNCHANGED <<db, frame, pending, faults, Downstream>>

\* With nobody attached the interval is thrown away.
FlushHub ==
    /\ pending
    /\ pending' = FALSE
    /\ bell' = (handler # "none")
    /\ UNCHANGED <<liveVars, db, frame, link, upstream, handler, told, age,
                   beat, wireVars, retry, listVars, faults>>

-----------------------------------------------------------------------------
(* The stream                                                              *)

\* The EventSource asks for a stream.  A handler of an earlier one that does
\* not know of its end is not this tab's any more.
Asks ==
    /\ retry = 0
    /\ retry' = Off
    /\ handler = "none" \/ wire = "dead"

\* The request arrives and the hub has a slot.
Claim ==
    /\ Asks
    /\ handler' = "claimed"
    /\ wire' = "up"
    /\ bell' = FALSE /\ told' = FALSE /\ age' = 0 /\ beat' = FALSE
    /\ UNCHANGED <<liveVars, serverVars, stream, listVars, faults>>

\* The hub is at capacity (503), the session has gone (401).
Refuse ==
    /\ Asks
    /\ OnError("closed")
    /\ UNCHANGED <<serverVars, handlerVars, wireVars, listVars, faults>>

\* The handler's writes succeed while the connection's write deadline has not
\* passed: SetWriteDeadline cannot get past the log wrapper, whose
\* statusRecorder does not unwrap.
InTime == WriteTimeout = 0 \/ age < WriteTimeout

\* A dead wire takes what is written and delivers nothing.
Send(e) ==
    /\ InTime
    /\ Len(stream) < StreamCap      \* bound
    /\ stream' = IF wire = "up" THEN Append(stream, e) ELSE stream

\* The headers leave with hello, which carries Connected() as it is now ...
Greet ==
    /\ handler = "claimed"
    /\ Send([type |-> "hello", connected |-> upstream])
    /\ handler' = "greeted"
    /\ UNCHANGED <<bell, told, age, beat, AwayFromStream>>

\* ... and the loop starts from Connected() as it is a moment later.
EnterLoop ==
    /\ handler = "greeted"
    /\ handler' = "looping"
    /\ told' = upstream
    /\ UNCHANGED <<bell, age, beat, stream, AwayFromStream>>

SendBatch ==
    /\ handler = "looping"
    /\ bell
    /\ Send([type |-> "changes"])
    /\ bell' = FALSE
    /\ UNCHANGED <<handler, told, age, beat, AwayFromStream>>

\* Variant: a tick of the ticker writes only what is new.
WritesNews == upstream # told

\* A tick of the ticker writes a keep-alive comment at least.
BeatWrites == TRUE

\* The event is for a change of the connectivity.
Heartbeat ==
    /\ handler = "looping"
    /\ beat
    /\ BeatWrites => InTime
    /\ beat' = FALSE
    /\ told' = upstream
    /\ IF upstream # told
       THEN Send([type |-> "upstream", connected |-> upstream])
       ELSE UNCHANGED stream
    /\ UNCHANGED <<bell, handler, age, AwayFromStream>>

-----------------------------------------------------------------------------
(* The end of a stream: either side learns of it by itself, or not at all  *)

\* A proxy, a network or a laptop lid: what was in transit is lost, and for now
\* nobody is told.
NetworkDrop ==
    /\ wire = "up"
    /\ handler # "none" \/ source = "open"
    /\ Fault
    /\ wire' = "dead"
    /\ stream' = <<>>
    /\ UNCHANGED <<liveVars, serverVars, handlerVars, retry, listVars>>

\* The request's context is done: the handler returns, with its slot and what
\* was in its channel.
HandlerReturns ==
    /\ handler # "none"
    /\ handler' = "none"
    /\ bell' = FALSE /\ told' = FALSE /\ age' = 0 /\ beat' = FALSE
    /\ UNCHANGED <<stream, AwayFromStream>>

\* The server's end of a dead wire fails.
ServerNotices == wire = "dead" /\ HandlerReturns

\* The first write past the deadline fails, and net/http cancels the request.
WriteFails ==
    /\ handler = "looping"
    /\ bell \/ (beat /\ BeatWrites)
    /\ ~ InTime
    /\ HandlerReturns

\* The browser sees its stream end and waits before it comes back.
StreamEnds ==
    /\ retry = Off
    /\ OnError("connecting")
    /\ retry' = Retry
    /\ UNCHANGED <<serverVars, handlerVars, wireVars, listVars, faults>>

\* After all that the server had sent ...
BrowserHangsUp == wire = "up" /\ handler = "none" /\ stream = <<>> /\ StreamEnds

\* ... or when its end of a dead wire fails.
BrowserNotices == wire = "dead" /\ StreamEnds

-----------------------------------------------------------------------------
(* The list                                                                *)

AwayFromList == <<liveVars, serverVars, handlerVars, wireVars, retry>>

\* A tick: refetch, unless a request is already in flight.
Refetch ==
    /\ fetch' = IF fetch = "none" THEN "sent" ELSE fetch
    /\ UNCHANGED <<got, screen>>

\* The query runs.
Answer ==
    /\ fetch = "sent"
    /\ fetch' = "answered"
    /\ got' = db
    /\ UNCHANGED <<screen, faults, AwayFromList>>

Show ==
    /\ fetch = "answered"
    /\ fetch' = "none"
    /\ screen' = got
    /\ UNCHANGED <<got, faults, AwayFromList>>

\* Any error empties the list until the next tick.
Fail ==
    /\ fetch # "none"
    /\ Fault
    /\ fetch' = "none"
    /\ screen' = Blank
    /\ UNCHANGED <<got, AwayFromList>>

-----------------------------------------------------------------------------
(* The browser tab                                                         *)

Others == <<serverVars, handlerVars, wire, faults>>

Open ==
    /\ Start
    /\ retry' = IF source' = "connecting" THEN 0 ELSE retry
    /\ UNCHANGED <<Others, stream, listVars>>

\* The headers arrive.
Opens ==
    /\ wire = "up" /\ stream # <<>>
    /\ OnOpen
    /\ UNCHANGED <<Others, stream, retry, listVars>>

\* The browser dispatches the next event of the stream.
Deliver ==
    /\ stream # <<>>
    /\ stream' = Tail(stream)
    /\ LET e == Head(stream) IN
         \/ e.type = "hello" /\ OnHello(e.connected) /\ UNCHANGED listVars
         \/ e.type = "upstream" /\ OnUpstream(e.connected)
                                /\ UNCHANGED listVars
         \/ e.type = "changes" /\ OnChanges /\ Refetch
    /\ UNCHANGED <<Others, retry>>

Silence == OnSilence /\ UNCHANGED <<Others, stream, retry, listVars>>

Poll == OnPoll /\ Refetch /\ UNCHANGED <<Others, stream, retry>>

\* Time passes for every timer at once, and not while one is due; a handler
\* takes milliseconds from its slot to its loop.
Pass ==
    /\ LivePass
    /\ handler \in {"none", "looping"}
    /\ retry # 0
    /\ ~ beat
    /\ retry' = Running(retry)
    /\ beat' = (handler = "looping")
    /\ age' = IF handler = "looping" /\ age < WriteTimeout THEN age + 1 ELSE age
    /\ UNCHANGED <<serverVars, bell, handler, told, wireVars, listVars, faults>>

-----------------------------------------------------------------------------
Next ==
    \/ Change \/ Dial \/ SetConnected \/ HandleFrame \/ Break
    \/ SetDisconnected \/ FlushHub
    \/ Claim \/ Refuse \/ Greet \/ EnterLoop \/ SendBatch \/ Heartbeat
    \/ NetworkDrop \/ ServerNotices \/ WriteFails
    \/ BrowserHangsUp \/ BrowserNotices
    \/ Answer \/ Show \/ Fail
    \/ Open \/ Opens \/ Deliver \/ Silence \/ Poll \/ Pass

Spec == Init /\ [][Next]_vars

\* Time goes on, goroutines and the browser's event loop run, requests are
\* answered, and a connection that is up says when its other side closes it.
\* Nothing makes a change happen, a connection break or come back, and nobody
\* has to find out that a wire is dead.
Fairness ==
    /\ WF_vars(Pass) /\ WF_vars(Silence) /\ WF_vars(Poll)
    /\ WF_vars(Open) /\ WF_vars(Claim \/ Refuse)
    /\ WF_vars(Opens) /\ WF_vars(Deliver)
    /\ WF_vars(SetConnected) /\ WF_vars(SetDisconnected)
    /\ WF_vars(HandleFrame) /\ WF_vars(FlushHub)
    /\ WF_vars(Greet) /\ WF_vars(EnterLoop)
    /\ WF_vars(SendBatch) /\ WF_vars(Heartbeat) /\ WF_vars(WriteFails)
    /\ WF_vars(BrowserHangsUp)
    /\ WF_vars(Answer) /\ WF_vars(Show)

FairSpec == Spec /\ Fairness

-----------------------------------------------------------------------------
(* Properties                                                              *)

\* What has changed gets onto the screen.  sse.go 51: even where the stream
\* ends at the write timeout, that "is a worse experience but still a working
\* one".
CatchesUp == \A v \in 1 .. MaxChanges : db >= v ~> screen >= v

\* Neither polling nor with a timer that would start it: no hello has come yet,
\* or an upstream event after the silence timer had fired has stopped the
\* polling and armed nothing (live.service.ts 118).
Unwatched == mode \in {"idle", "live"} /\ silenceTimer = Off

\* The same of a server whose streams outlive the silence and the poll after it
\* (write_timeout at two minutes or more, or 0; by default it is one): whatever
\* frames, events, requests and connections are lost, and though neither side
\* may ever be told that a wire is dead, the silence timer has the change
\* fetched, unless the stream has left the tab unwatched for good.
CatchesUpWhenWatched ==
    \A v \in 1 .. MaxChanges : db >= v ~> (screen >= v \/ []Unwatched)

\* A browser that has gone without a word does not hold its slot in the hub for
\* ever: the heartbeats of its handler (sse.go 94) run into the write deadline,
\* though nothing changes and nobody is told.
AbandonedStreamsEnd ==
    handler # "none" /\ wire = "dead" ~> handler = "none" \/ wire = "up"
=============================================================================
