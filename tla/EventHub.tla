------------------------------ MODULE EventHub ------------------------------
(***************************************************************************)
(* internal/events/hub.go: the hub that fans changes out to subscribers.   *)
(*                                                                         *)
(* One action is one critical section of h.mu, or one step taken without   *)
(* it.  The flush is therefore several actions: the section that empties   *)
(* the pending set and copies the subscribers, then one non-blocking send  *)
(* per copied channel, outside the lock.  Releasing a subscription is two: *)
(* the delete under the lock, then the close of the channel without it.    *)
(*                                                                         *)
(* A client stands for one call of Subscribe and its channel.  A browser   *)
(* that reconnects is another client.                                      *)
(*                                                                         *)
(* An operator introduced as a "Variant" is no part of the model: it is a  *)
(* plausible mistake in the operator that follows, and PROJECT.json names  *)
(* the property that tells the two apart.                                  *)
(***************************************************************************)
EXTENDS Naturals, Sequences, FiniteSets

CONSTANTS
    Changes,        \* what can move: the Change values
    Clients,        \* the subscriptions that can be asked for
    MaxBatch,       \* HubOptions.MaxBatch
    MaxClients,     \* HubOptions.MaxClients
    BufCap,         \* capacity of a subscriber's channel (8 in the code)
    MaxDropped      \* bound on the counter "dropped", for model checking

\* NewHub replaces a cap of zero or less by 500, and the buffer is 8.
ASSUME HubAssumption ==
    /\ MaxBatch \in Nat \ {0}
    /\ MaxClients \in Nat \ {0}
    /\ BufCap \in Nat \ {0}
    /\ MaxDropped \in Nat

VARIABLES
    subscribers,    \* h.subscribers
    pending,        \* h.pending
    dropped,        \* h.dropped
    conn,           \* where each client's subscription stands
    queue,          \* the batches buffered in each client's channel
    targets,        \* flush's copy of the subscribers, those not yet served
    batch,          \* the batch that flush is handing out
    hub,            \* the goroutine running Run
    ctxDone         \* the daemon's context has been cancelled

vars == <<subscribers, pending, dropped, conn, queue, targets, batch, hub,
          ctxDone>>

Batches == [changes : SUBSET Changes, dropped : Nat]
NoBatch == [changes |-> {}, dropped |-> 0]

\* "leaving": deleted from the map, channel not closed yet.
ConnStates == {"new", "attached", "refused", "leaving", "closed"}

\* A panic in any goroutine ends the process.
Alive == hub # "panicked"

TypeOK ==
    /\ subscribers \subseteq Clients
    /\ pending \subseteq Changes
    /\ dropped \in Nat
    /\ conn \in [Clients -> ConnStates]
    /\ queue \in [Clients -> Seq(Batches)]
    /\ targets \subseteq Clients
    /\ batch \in Batches
    /\ hub \in {"running", "returned", "panicked"}
    /\ ctxDone \in BOOLEAN

Init ==
    /\ subscribers = {}
    /\ pending = {}
    /\ dropped = 0
    /\ conn = [c \in Clients |-> "new"]
    /\ queue = [c \in Clients |-> <<>>]
    /\ targets = {}
    /\ batch = NoBatch
    /\ hub = "running"
    /\ ctxDone = FALSE

-----------------------------------------------------------------------------
(* Publishing                                                              *)

\* The pending set is at its cap and does not hold this change.
NoRoomFor(x) == Cardinality(pending) >= MaxBatch /\ x \notin pending

\* Changes that repeat within one interval collapse.
Record(x) ==
    /\ ~ NoRoomFor(x)
    /\ pending' = pending \cup {x}
    /\ UNCHANGED dropped

\* Variant: the count runs the wrong way.
CountsDown(x) ==
    /\ NoRoomFor(x)
    /\ dropped' = dropped - 1
    /\ UNCHANGED pending

CountDropped(x) ==
    /\ NoRoomFor(x)
    /\ dropped < MaxDropped         \* bound
    /\ dropped' = dropped + 1
    /\ UNCHANGED pending

Publish(x) ==
    /\ Alive
    /\ Record(x) \/ CountDropped(x)
    /\ UNCHANGED <<subscribers, conn, queue, targets, batch, hub, ctxDone>>

-----------------------------------------------------------------------------
(* Subscribing and releasing                                               *)

\* Variant: the cap is tested after one client too many.
OneOverCapacity == Cardinality(subscribers) > MaxClients

AtCapacity == Cardinality(subscribers) >= MaxClients

Subscribe(c) ==
    /\ Alive
    /\ conn[c] = "new"
    /\ \/ /\ AtCapacity
          /\ conn' = [conn EXCEPT ![c] = "refused"]
          /\ UNCHANGED subscribers
       \/ /\ ~ AtCapacity
          /\ conn' = [conn EXCEPT ![c] = "attached"]
          /\ subscribers' = subscribers \cup {c}
    /\ UNCHANGED <<pending, dropped, queue, targets, batch, hub, ctxDone>>

\* The release function, guarded by sync.Once: first the locked delete ...
ReleaseDelete(c) ==
    /\ Alive
    /\ conn[c] = "attached"
    /\ subscribers' = subscribers \ {c}
    /\ conn' = [conn EXCEPT ![c] = "leaving"]
    /\ UNCHANGED <<pending, dropped, queue, targets, batch, hub, ctxDone>>

\* ... then close(ch), after the lock is gone.  Its handler has returned, so
\* what the channel still held is read by nobody.
ReleaseClose(c) ==
    /\ Alive
    /\ conn[c] = "leaving"
    /\ conn' = [conn EXCEPT ![c] = "closed"]
    /\ queue' = [queue EXCEPT ![c] = <<>>]
    /\ UNCHANGED <<subscribers, pending, dropped, targets, batch, hub,
                   ctxDone>>

\* The stream handler takes the next batch off its channel.
Read(c) ==
    /\ Alive
    /\ conn[c] = "attached"
    /\ queue[c] # <<>>
    /\ queue' = [queue EXCEPT ![c] = Tail(@)]
    /\ UNCHANGED <<subscribers, pending, dropped, conn, targets, batch, hub,
                   ctxDone>>

-----------------------------------------------------------------------------
(* The flush loop                                                          *)

\* Variant: a lone client does not count as somebody listening.
IgnoresLoneClient == pending = {} \/ Cardinality(subscribers) < 2

\* Nothing to send, or nobody listening.
NothingToSend == pending = {} \/ subscribers = {}

\* Variant: the count of dropped changes survives the flush.
KeepsCount == pending' = {} /\ UNCHANGED dropped

\* Variant: with nobody listening the interval is left to pile up.
KeepsPile == IF subscribers = {} THEN UNCHANGED <<pending, dropped>>
                                 ELSE pending' = {} /\ dropped' = 0

\* Whoever listens, the next interval starts empty.
StartInterval == pending' = {} /\ dropped' = 0

Flush ==
    /\ hub = "running"
    /\ targets = {}                 \* Run calls flush again once it returned
    /\ StartInterval
    /\ \/ NothingToSend /\ UNCHANGED <<targets, batch>>
       \/ /\ ~ NothingToSend
          /\ batch' = [changes |-> pending, dropped |-> dropped]
          /\ targets' = subscribers
    /\ UNCHANGED <<subscribers, conn, queue, hub, ctxDone>>

\* Variant: a channel without a buffer, which no reader is parked on.
OfferUnbuffered(q) == q

\* A non-blocking send: an overrun batch is dropped.
Offer(q) == IF Len(q) < BufCap THEN Append(q, batch) ELSE q

\* The end of the loop over the copied channels drops the batch.
Served(c) ==
    /\ targets' = targets \ {c}
    /\ batch' = IF targets = {c} THEN NoBatch ELSE batch

\* One turn of flush's loop over the copy, in any order (map iteration).  A
\* send on a closed channel panics, in a select with a default too.
Send(c) ==
    /\ hub = "running"
    /\ c \in targets
    /\ \/ /\ conn[c] = "closed"
          /\ hub' = "panicked"
          /\ UNCHANGED <<queue, targets, batch>>
       \/ /\ conn[c] # "closed"
          /\ queue' = [queue EXCEPT ![c] = Offer(@)]
          /\ Served(c)
          /\ UNCHANGED hub
    /\ UNCHANGED <<subscribers, pending, dropped, conn, ctxDone>>

\* SIGINT or SIGTERM.
Cancel ==
    /\ Alive
    /\ ~ ctxDone
    /\ ctxDone' = TRUE
    /\ UNCHANGED <<subscribers, pending, dropped, conn, queue, targets, batch,
                   hub>>

\* Run's select sees ctx.Done; a flush in progress is finished first.
Return ==
    /\ hub = "running"
    /\ ctxDone
    /\ targets = {}
    /\ hub' = "returned"
    /\ UNCHANGED <<subscribers, pending, dropped, conn, queue, targets, batch,
                   ctxDone>>

-----------------------------------------------------------------------------
Next ==
    \/ \E x \in Changes : Publish(x)
    \/ \E c \in Clients : \/ Subscribe(c)
                          \/ ReleaseDelete(c)
                          \/ ReleaseClose(c)
                          \/ Read(c)
                          \/ Send(c)
    \/ Flush
    \/ Cancel
    \/ Return

Spec == Init /\ [][Next]_vars

\* The ticker keeps firing and flush never blocks, so Run keeps working.
\* Nothing else is owed: nobody has to publish, subscribe, read or leave.
Fairness == WF_vars(Flush) /\ \A c \in Clients : WF_vars(Send(c))

FairSpec == Spec /\ Fairness

-----------------------------------------------------------------------------
(* Properties                                                              *)

\* A client that sees a batch with Dropped set "knows to refetch broadly
\* rather than trust the list" (hub.go, Batch).  Conversely a batch that
\* reports nothing dropped is the whole interval: changes are only ever
\* counted away while the set is exactly at its cap, and the counter never
\* outlives the set it belongs to.
FullWhenDropped(b) == b.dropped > 0 => Cardinality(b.changes) = MaxBatch

DroppedMeansFull ==
    /\ dropped > 0 => Cardinality(pending) = MaxBatch
    /\ FullWhenDropped(batch)
    /\ \A c \in Clients : \A i \in DOMAIN queue[c] :
            FullWhenDropped(queue[c][i])

\* "MaxClients caps concurrent subscribers" (hub.go, HubOptions), counted
\* against the handlers that believe they hold a slot, and not against the
\* map alone: a slot leaked by a handler that left, or a handler served
\* without one, breaks it.
SlotsMatchHandlers ==
    /\ subscribers = {c \in Clients : conn[c] = "attached"}
    /\ Cardinality(subscribers) <= MaxClients

\* The doorbell of ChangeFeed: a client's bell is owed to it while anything is
\* pending or the flush in progress still has to serve it, and rings while a
\* batch is queued for it.
Attached == IF Alive THEN subscribers ELSE {}

Owed == {c \in Attached : pending # {} \/ c \in targets}

Rung == {c \in Attached : queue[c] # <<>>}

Feed == INSTANCE ChangeFeed WITH attached <- Attached, owed <- Owed,
                                 rung <- Rung

\* "Dropping the batch is correct: the next one tells it to refetch anyway"
\* (hub.go, flush).  The cap on a batch, an overrun channel, the clearing of
\* the pending set and the copy taken by flush never silence an attached
\* client: what was pending ends in a batch in its channel, and stays there
\* until the client reads it, leaves, or the process ends.
NoSilentLoss == Feed!Spec

\* What is pending while a client is attached reaches that client's channel,
\* unless the client leaves or the loop has stopped.
PendingReachesClient ==
    \A c \in Clients :
        (c \in subscribers /\ pending # {}) ~>
            (queue[c] # <<>> \/ c \notin subscribers \/ hub # "running")

\* "Clearing either way keeps a long stretch with no subscribers from
\* delivering a stale pile the moment one arrives" (hub.go, flush).
StalePileCleared ==
    (pending # {} /\ subscribers = {}) ~>
        (pending = {} \/ subscribers # {} \/ hub # "running")

\* "Run flushes batches until ctx is done" (hub.go, Run).
FlushesUntilDone == hub = "running" \/ ctxDone
=============================================================================
