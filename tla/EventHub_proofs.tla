-------------------------- MODULE EventHub_proofs --------------------------
(***************************************************************************)
(* Proofs about EventHub, for any set of changes, any finite set of        *)
(* subscriptions and any caps.                                             *)
(*                                                                         *)
(* HubInv is the inductive invariant: the types, the finiteness that the   *)
(* cardinalities need, and how a subscription's place in its life fixes    *)
(* what the flush and the channel may hold for it.                         *)
(***************************************************************************)
EXTENDS EventHub, FiniteSetTheorems, TLAPS

\* A subscription that was never granted is not served by any flush.
NewIsUntouched ==
    \A c \in Clients : conn[c] = "new" => c \notin targets /\ queue[c] = <<>>

\* The pending set never outgrows a batch.
Bounded ==
    /\ IsFiniteSet(pending)
    /\ Cardinality(pending) <= MaxBatch
    /\ IsFiniteSet(subscribers)

HubInv ==
    /\ TypeOK
    /\ Bounded
    /\ NewIsUntouched
    /\ SlotsMatchHandlers
    /\ DroppedMeansFull

-----------------------------------------------------------------------------
(* Lemmas                                                                  *)

\* What a non-blocking send leaves in a channel is a sequence of batches, and
\* nothing in it but what was there and the batch.
LEMMA SendKeeps ==
    ASSUME NEW q \in Seq(Batches), NEW b \in Batches, NEW r,
           r = IF Len(q) < BufCap THEN Append(q, b) ELSE q
    PROVE  /\ r \in Seq(Batches)
           /\ \A i \in DOMAIN r : r[i] = b \/ (i \in DOMAIN q /\ r[i] = q[i])
  OBVIOUS

\* The channel of a subscriber just served is never empty: it had room for
\* the batch, or it was full.
LEMMA SendFills ==
    ASSUME NEW q \in Seq(Batches), NEW b \in Batches, NEW r,
           r = IF Len(q) < BufCap THEN Append(q, b) ELSE q
    PROVE  r # <<>>
  <1>1. CASE Len(q) < BufCap
    <2>1. Len(r) = Len(q) + 1 /\ Len(q) \in Nat
      BY <1>1
    <2> QED
      BY <2>1
  <1>2. CASE ~ (Len(q) < BufCap)
    <2>1. Len(q) # 0 /\ r = q
      BY <1>2, HubAssumption DEF HubAssumption
    <2> QED
      BY <2>1
  <1> QED
    BY <1>1, <1>2

\* What a receive leaves in a channel was there before.
LEMMA ReadKeeps ==
    ASSUME NEW q \in Seq(Batches), q # <<>>
    PROVE  /\ Tail(q) \in Seq(Batches)
           /\ \A i \in DOMAIN Tail(q) : i+1 \in DOMAIN q /\ Tail(q)[i] = q[i+1]
  OBVIOUS

LEMMA NoBatchIsBatch == NoBatch \in Batches /\ FullWhenDropped(NoBatch)
  BY DEF NoBatch, Batches, FullWhenDropped

\* Adding an element to a set below its cap keeps it within the cap.
LEMMA AddBelowCap ==
    ASSUME NEW S, IsFiniteSet(S), NEW n \in Nat, Cardinality(S) < n, NEW x
    PROVE  IsFiniteSet(S \cup {x}) /\ Cardinality(S \cup {x}) <= n
  <1>1. Cardinality(S) \in Nat
    BY FS_CardinalityType
  <1>2. /\ IsFiniteSet(S \cup {x})
        /\ Cardinality(S \cup {x}) = IF x \in S THEN Cardinality(S)
                                     ELSE Cardinality(S) + 1
    BY FS_AddElement
  <1> QED
    BY <1>1, <1>2

-----------------------------------------------------------------------------
(* The invariant                                                           *)

LEMMA InitInv == ASSUME Init PROVE HubInv
  <1>1. TypeOK
    <2>1. queue \in [Clients -> Seq(Batches)]
      BY DEF Init
    <2> QED
      BY <2>1, NoBatchIsBatch DEF Init, TypeOK, ConnStates
  <1>2. Bounded
    BY FS_EmptySet, HubAssumption DEF Init, Bounded, HubAssumption
  <1>3. NewIsUntouched
    BY DEF Init, NewIsUntouched
  <1>4. SlotsMatchHandlers
    BY FS_EmptySet, HubAssumption DEF Init, SlotsMatchHandlers, HubAssumption
  <1>5. DroppedMeansFull
    BY NoBatchIsBatch DEF Init, DroppedMeansFull
  <1> QED
    BY <1>1, <1>2, <1>3, <1>4, <1>5 DEF HubInv

\* A change is recorded only while there is room or it is there already, so
\* recording it never disturbs the set a count of dropped changes refers to.
LEMMA RecordInv ==
    ASSUME HubInv, NEW x \in Changes, Publish(x), Record(x) PROVE HubInv'
  <1> USE DEF HubInv, Publish, Record
  <1>1. Cardinality(pending) \in Nat
    BY FS_CardinalityType DEF Bounded
  <1>2. TypeOK'
    BY DEF TypeOK
  <1>3. x \in pending \/ Cardinality(pending) < MaxBatch
    BY <1>1, HubAssumption DEF NoRoomFor, HubAssumption
  <1>4. Bounded'
    <2>1. CASE x \in pending
      <3>1. pending \cup {x} = pending
        BY <2>1
      <3> QED
        BY <3>1 DEF Bounded
    <2>2. CASE Cardinality(pending) < MaxBatch
      BY <2>2, AddBelowCap, HubAssumption DEF Bounded, HubAssumption
    <2> QED
      BY <1>3, <2>1, <2>2
  <1>5. dropped > 0 => pending' = pending
    BY <1>1, <1>3, HubAssumption DEF DroppedMeansFull, HubAssumption
  <1>6. DroppedMeansFull'
    BY <1>5 DEF DroppedMeansFull, FullWhenDropped
  <1> QED
    BY <1>2, <1>4, <1>6 DEF NewIsUntouched, SlotsMatchHandlers

LEMMA CountDroppedInv ==
    ASSUME HubInv, NEW x \in Changes, Publish(x), CountDropped(x) PROVE HubInv'
  <1> USE DEF HubInv, Publish, CountDropped
  <1>1. TypeOK'
    BY DEF TypeOK
  <1>2. Cardinality(pending) = MaxBatch
    BY FS_CardinalityType, HubAssumption
    DEF Bounded, NoRoomFor, HubAssumption
  <1>3. DroppedMeansFull'
    BY <1>2 DEF DroppedMeansFull, FullWhenDropped
  <1> QED
    BY <1>1, <1>3 DEF Bounded, NewIsUntouched, SlotsMatchHandlers

LEMMA SubscribeInv ==
    ASSUME HubInv, NEW c \in Clients, Subscribe(c) PROVE HubInv'
  <1> USE DEF HubInv, Subscribe
  <1>1. TypeOK'
    BY DEF TypeOK, ConnStates
  <1>2. Bounded' /\ SlotsMatchHandlers'
    <2>1. CASE AtCapacity
      BY <2>1 DEF Bounded, SlotsMatchHandlers, TypeOK
    <2>2. CASE ~ AtCapacity
      <3>1. Cardinality(subscribers) < MaxClients
        BY <2>2, FS_CardinalityType, HubAssumption
        DEF AtCapacity, Bounded, HubAssumption
      <3>2. /\ IsFiniteSet(subscribers \cup {c})
            /\ Cardinality(subscribers \cup {c}) <= MaxClients
        BY <3>1, AddBelowCap, HubAssumption DEF Bounded, HubAssumption
      <3> QED
        BY <2>2, <3>2 DEF Bounded, SlotsMatchHandlers, TypeOK
    <2> QED
      BY <2>1, <2>2
  <1>3. NewIsUntouched'
    BY DEF NewIsUntouched, TypeOK
  <1> QED
    BY <1>1, <1>2, <1>3 DEF DroppedMeansFull, FullWhenDropped

LEMMA ReleaseDeleteInv ==
    ASSUME HubInv, NEW c \in Clients, ReleaseDelete(c) PROVE HubInv'
  <1> USE DEF HubInv, ReleaseDelete
  <1>1. TypeOK'
    BY DEF TypeOK, ConnStates
  <1>2. /\ IsFiniteSet(subscribers \ {c})
        /\ Cardinality(subscribers \ {c}) <= MaxClients
    <2>1. IsFiniteSet(subscribers) /\ Cardinality(subscribers) <= MaxClients
      BY DEF Bounded, SlotsMatchHandlers
    <2>2. /\ IsFiniteSet(subscribers \ {c})
          /\ Cardinality(subscribers \ {c}) = IF c \in subscribers THEN Cardinality(subscribers) - 1
                                                 ELSE Cardinality(subscribers)
      BY ONLY <2>1, FS_RemoveElement
    <2>3. Cardinality(subscribers) \in Nat /\ MaxClients \in Nat
      BY ONLY <2>1, FS_CardinalityType, HubAssumption DEF HubAssumption
    <2> QED
      BY ONLY <2>1, <2>2, <2>3
  <1>3. Bounded' /\ SlotsMatchHandlers'
    BY <1>2 DEF Bounded, SlotsMatchHandlers, TypeOK
  <1>4. NewIsUntouched'
    BY DEF NewIsUntouched, TypeOK
  <1> QED
    BY <1>1, <1>3, <1>4 DEF DroppedMeansFull, FullWhenDropped

LEMMA ReleaseCloseInv ==
    ASSUME HubInv, NEW c \in Clients, ReleaseClose(c) PROVE HubInv'
  <1> USE DEF HubInv, ReleaseClose
  <1>1. TypeOK'
    BY DEF TypeOK, ConnStates
  <1>2. SlotsMatchHandlers'
    BY DEF SlotsMatchHandlers, TypeOK
  <1>3. NewIsUntouched'
    BY DEF NewIsUntouched, TypeOK
  <1> QED
    BY <1>1, <1>2, <1>3 DEF Bounded, DroppedMeansFull, FullWhenDropped

\* Reading shortens one channel and touches nothing else.
LEMMA ReadInv ==
    ASSUME HubInv, NEW c \in Clients, Read(c) PROVE HubInv'
  <1> USE DEF HubInv, Read
  <1>1. queue[c] \in Seq(Batches)
    BY DEF TypeOK
  <1>2. /\ Tail(queue[c]) \in Seq(Batches)
        /\ \A i \in DOMAIN Tail(queue[c]) :
               i+1 \in DOMAIN queue[c] /\ Tail(queue[c])[i] = queue[c][i+1]
    BY <1>1, ReadKeeps
  <1>3. TypeOK'
    BY <1>2 DEF TypeOK
  <1>4. NewIsUntouched'
    BY DEF NewIsUntouched, TypeOK
  <1>5. \A i \in DOMAIN Tail(queue[c]) : FullWhenDropped(Tail(queue[c])[i])
    BY <1>2 DEF DroppedMeansFull
  <1>6. DroppedMeansFull'
    BY <1>5 DEF DroppedMeansFull, FullWhenDropped, TypeOK
  <1> QED
    BY <1>3, <1>4, <1>6 DEF Bounded, SlotsMatchHandlers

\* The batch that flush cuts is the whole interval, count included.
LEMMA FlushInv == ASSUME HubInv, Flush PROVE HubInv'
  <1> USE DEF HubInv, Flush, StartInterval
  <1>1. TypeOK'
    <2>1. [changes |-> pending, dropped |-> dropped] \in Batches
      BY DEF TypeOK, Batches
    <2>2. batch' \in Batches /\ targets' \subseteq Clients
      BY <2>1 DEF TypeOK
    <2> QED
      BY <2>2 DEF TypeOK
  <1>2. Bounded'
    BY FS_EmptySet, HubAssumption DEF Bounded, HubAssumption
  <1>3. NewIsUntouched'
    BY DEF NewIsUntouched, SlotsMatchHandlers
  <1>4. DroppedMeansFull'
    <2>1. FullWhenDropped(batch')
      BY DEF DroppedMeansFull, FullWhenDropped
    <2> QED
      BY <2>1 DEF DroppedMeansFull, FullWhenDropped
  <1> QED
    BY <1>1, <1>2, <1>3, <1>4 DEF SlotsMatchHandlers

LEMMA SendInv ==
    ASSUME HubInv, NEW c \in Clients, Send(c) PROVE HubInv'
  <1> USE DEF HubInv, Send
  <1>1. CASE hub' = "panicked" /\ UNCHANGED <<queue, targets, batch>>
    BY <1>1 DEF TypeOK, Bounded, NewIsUntouched, SlotsMatchHandlers,
                DroppedMeansFull, FullWhenDropped
  <1>2. CASE /\ queue' = [queue EXCEPT ![c] = Offer(@)]
             /\ Served(c)
             /\ UNCHANGED hub
    <2>1. queue[c] \in Seq(Batches) /\ batch \in Batches
      BY DEF TypeOK
    <2>2. queue'[c] = IF Len(queue[c]) < BufCap
                      THEN Append(queue[c], batch) ELSE queue[c]
      BY <1>2 DEF TypeOK, Offer
    <2>3. /\ queue'[c] \in Seq(Batches)
          /\ \A i \in DOMAIN queue'[c] :
                 \/ queue'[c][i] = batch
                 \/ i \in DOMAIN queue[c] /\ queue'[c][i] = queue[c][i]
      BY <2>1, <2>2, SendKeeps
    <2>4. batch' \in {batch, NoBatch}
      BY <1>2 DEF Served
    <2>5. TypeOK'
      BY <1>2, <2>3, <2>4, NoBatchIsBatch DEF TypeOK, Served
    <2>6. NewIsUntouched'
      BY <1>2 DEF NewIsUntouched, Served, TypeOK
    <2>7. FullWhenDropped(batch')
      BY <2>4, NoBatchIsBatch DEF DroppedMeansFull
    <2>8. \A i \in DOMAIN queue'[c] : FullWhenDropped(queue'[c][i])
      BY <2>3 DEF DroppedMeansFull
    <2>9. DroppedMeansFull'
      BY <1>2, <2>7, <2>8 DEF DroppedMeansFull, FullWhenDropped, TypeOK
    <2> QED
      BY <2>5, <2>6, <2>9 DEF Bounded, SlotsMatchHandlers
  <1> QED
    BY <1>1, <1>2

LEMMA NextInv == ASSUME HubInv, [Next]_vars PROVE HubInv'
  <1>1. CASE UNCHANGED vars
    BY <1>1 DEF vars, HubInv, TypeOK, Bounded, NewIsUntouched,
                SlotsMatchHandlers, DroppedMeansFull, FullWhenDropped
  <1>2. ASSUME NEW x \in Changes, Publish(x) PROVE HubInv'
    BY <1>2, RecordInv, CountDroppedInv DEF Publish
  <1>3. ASSUME NEW c \in Clients, Subscribe(c) PROVE HubInv'
    BY <1>3, SubscribeInv
  <1>4. ASSUME NEW c \in Clients, ReleaseDelete(c) PROVE HubInv'
    BY <1>4, ReleaseDeleteInv
  <1>5. ASSUME NEW c \in Clients, ReleaseClose(c) PROVE HubInv'
    BY <1>5, ReleaseCloseInv
  <1>6. ASSUME NEW c \in Clients, Read(c) PROVE HubInv'
    BY <1>6, ReadInv
  <1>7. ASSUME NEW c \in Clients, Send(c) PROVE HubInv'
    BY <1>7, SendInv
  <1>8. CASE Flush
    BY <1>8, FlushInv
  <1>9. CASE Cancel \/ Return
    BY <1>9 DEF Cancel, Return, HubInv, TypeOK, Bounded, NewIsUntouched,
                SlotsMatchHandlers, DroppedMeansFull, FullWhenDropped
  <1> QED
    BY <1>1, <1>2, <1>3, <1>4, <1>5, <1>6, <1>7, <1>8, <1>9 DEF Next

LEMMA HubInvariant == Spec => []HubInv
  BY InitInv, NextInv, PTL DEF Spec

-----------------------------------------------------------------------------
(* The doorbell                                                            *)

Bell == <<Attached, Owed, Rung>>

\* The bell moves with four things only; a step that leaves them alone leaves
\* the abstract state alone.
LEMMA BellUnmoved ==
    ASSUME UNCHANGED <<subscribers, pending, queue, targets>>, Alive' = Alive
    PROVE  UNCHANGED Bell
  BY DEF Bell, Attached, Owed, Rung

\* Whatever is recorded or counted, every attached client is owed a ring
\* afterwards: a counted change found the set full, so it was before.
LEMMA PublishAnnounces ==
    ASSUME HubInv, NEW x \in Changes, Publish(x) PROVE Feed!Announce
  <1>1. pending' # {}
    <2>1. CASE Record(x)
      BY <2>1 DEF Record
    <2>2. CASE CountDropped(x)
      <3>1. Cardinality(pending) # 0
        BY <2>2, FS_CardinalityType, HubAssumption
        DEF CountDropped, NoRoomFor, HubInv, Bounded, HubAssumption
      <3>2. pending # {}
        BY <3>1, FS_EmptySet
      <3> QED
        BY <2>2, <3>2 DEF CountDropped
    <2> QED
      BY <2>1, <2>2 DEF Publish
  <1>2. Attached' = Attached
    BY DEF Publish, Attached, Alive
  <1>3. Owed' = Attached
    BY <1>1, <1>2 DEF Owed
  <1>4. Rung' = Rung
    BY <1>2 DEF Publish, Rung
  <1> QED
    BY <1>2, <1>3, <1>4 DEF Feed!Announce

LEMMA SubscribeAttaches ==
    ASSUME HubInv, NEW c \in Clients, Subscribe(c)
    PROVE  Feed!Attach(c) \/ UNCHANGED Bell
  <1> USE DEF Subscribe
  <1>1. CASE UNCHANGED subscribers
    BY <1>1, BellUnmoved DEF Alive
  <1>2. CASE subscribers' = subscribers \cup {c}
    <2>1. c \notin subscribers /\ c \notin targets /\ queue[c] = <<>>
      BY DEF HubInv, SlotsMatchHandlers, NewIsUntouched
    <2>2. c \notin Attached /\ Attached' = Attached \cup {c}
      BY <1>2, <2>1 DEF Attached, Alive
    <2>3. Owed' = IF pending # {} THEN Owed \cup {c} ELSE Owed
      BY <2>1, <2>2 DEF Owed
    <2>4. Rung' = Rung
      BY <2>1, <2>2 DEF Rung
    <2> QED
      BY <2>2, <2>3, <2>4 DEF Feed!Attach
  <1> QED
    BY <1>1, <1>2

LEMMA ReleaseDetaches ==
    ASSUME HubInv, NEW c \in Clients, ReleaseDelete(c) PROVE Feed!Detach(c)
  <1> USE DEF ReleaseDelete
  <1>1. c \in Attached /\ Attached' = Attached \ {c}
    BY DEF HubInv, SlotsMatchHandlers, Attached, Alive
  <1>2. Owed' = Owed \ {c} /\ Rung' = Rung \ {c}
    BY <1>1 DEF Owed, Rung
  <1> QED
    BY <1>1, <1>2 DEF Feed!Detach

LEMMA ReadAnswers ==
    ASSUME HubInv, NEW c \in Clients, Read(c) PROVE Feed!Answer(c)
  <1> USE DEF Read
  <1>1. c \in Rung
    BY DEF HubInv, SlotsMatchHandlers, Rung, Attached
  <1>2. Attached' = Attached
    BY DEF Attached, Alive
  <1>3. Owed' = Owed
    BY <1>2 DEF Owed
  <1>4. \A d \in Clients : d # c => queue'[d] = queue[d]
    BY DEF HubInv, TypeOK
  <1>5. Attached \subseteq Clients
    BY DEF Attached, HubInv, TypeOK
  <1>6. \A d : d # c => (d \in Rung' <=> d \in Rung)
    BY <1>2, <1>4, <1>5 DEF Rung
  <1>7. Rung' = Rung \/ Rung' = Rung \ {c}
    BY <1>1, <1>6
  <1> QED
    BY <1>1, <1>2, <1>3, <1>7 DEF Feed!Answer

\* A flush moves the debt from the pending set to the copy of the subscribers.
LEMMA FlushKeepsDebt ==
    ASSUME HubInv, Flush PROVE UNCHANGED Bell
  <1> USE DEF Flush, StartInterval
  <1>1. Attached' = Attached
    BY DEF Attached, Alive
  <1>2. Rung' = Rung
    BY <1>1 DEF Rung
  <1>3. CASE NothingToSend
    BY <1>1, <1>2, <1>3 DEF NothingToSend, Owed, Attached, Bell
  <1>4. CASE ~ NothingToSend
    <2>1. Owed' = Attached /\ Owed = Attached
      BY <1>1, <1>4 DEF NothingToSend, Owed, Attached
    <2> QED
      BY <1>1, <1>2, <2>1 DEF Bell
  <1> QED
    BY <1>3, <1>4

\* A send rings the bell: it puts the batch in the channel, or finds the
\* channel full, hence not empty, since BufCap is at least one.  To a client
\* that has left it does nothing.
LEMMA SendRings ==
    ASSUME HubInv, NEW c \in Clients, Send(c)
    PROVE  Feed!Halt \/ Feed!Ring(c) \/ UNCHANGED Bell
  <1> USE DEF Send
  <1>1. CASE hub' = "panicked"
    BY <1>1 DEF Feed!Halt, Attached, Owed, Rung, Alive
  <1>2. CASE /\ queue' = [queue EXCEPT ![c] = Offer(@)]
             /\ Served(c)
             /\ UNCHANGED hub
    <2>1. queue[c] \in Seq(Batches) /\ batch \in Batches
      BY DEF HubInv, TypeOK
    <2>2. queue'[c] = IF Len(queue[c]) < BufCap
                      THEN Append(queue[c], batch) ELSE queue[c]
      BY <1>2 DEF HubInv, TypeOK, Offer
    <2>3. queue'[c] # <<>>
      BY <2>1, <2>2, SendFills
    <2>4. \A d \in Clients : d # c => queue'[d] = queue[d]
      BY <1>2 DEF HubInv, TypeOK
    <2>5. Attached' = Attached /\ Attached \subseteq Clients
      BY <1>2 DEF Attached, Alive, HubInv, TypeOK
    <2>6. Owed' = IF pending # {} THEN Owed ELSE Owed \ {c}
      BY <1>2, <2>5 DEF Owed, Served
    <2>7. \A d : d # c => (d \in Rung' <=> d \in Rung)
      BY <2>4, <2>5 DEF Rung
    <2>8. CASE c \in Attached
      <3>1. c \in Owed
        BY <2>8 DEF Owed
      <3>2. Rung' = Rung \cup {c}
        <4>1. c \in Rung'
          BY <2>3, <2>5, <2>8 DEF Rung
        <4> QED
          BY <2>7, <4>1
      <3> QED
        BY <2>5, <2>6, <3>1, <3>2 DEF Feed!Ring
    <2>9. CASE c \notin Attached
      <3>1. Owed' = Owed
        BY <2>6, <2>9 DEF Owed
      <3>2. Rung' = Rung
        <4>1. c \notin Rung /\ c \notin Rung'
          BY <2>5, <2>9 DEF Rung
        <4> QED
          BY <2>7, <4>1
      <3> QED
        BY <2>5, <3>1, <3>2 DEF Bell
    <2> QED
      BY <2>8, <2>9
  <1> QED
    BY <1>1, <1>2

\* The channel that is closed is no subscriber's, so nobody hears it.
LEMMA CloseIsUnheard ==
    ASSUME HubInv, NEW c \in Clients, ReleaseClose(c)
    PROVE  UNCHANGED Bell
  <1>1. c \notin Attached
    BY DEF ReleaseClose, HubInv, SlotsMatchHandlers, Attached
  <1>2. UNCHANGED Attached
    BY DEF ReleaseClose, Attached, Alive
  <1>3. \A d \in Clients \ {c} : queue'[d] = queue[d]
    BY DEF ReleaseClose, HubInv, TypeOK
  <1>4. Attached \subseteq Clients
    BY DEF HubInv, SlotsMatchHandlers, Attached
  <1>5. Rung' = Rung
    BY <1>1, <1>2, <1>3, <1>4 DEF Rung
  <1>6. Owed' = Owed
    BY <1>2 DEF Owed, ReleaseClose
  <1> QED
    BY <1>2, <1>5, <1>6 DEF Bell

LEMMA StepRingsTrue ==
    ASSUME HubInv, [Next]_vars PROVE [Feed!Next]_Bell
  <1>1. CASE UNCHANGED vars
    BY <1>1, BellUnmoved DEF vars, Alive
  <1>2. ASSUME NEW x \in Changes, Publish(x) PROVE Feed!Next
    BY <1>2, PublishAnnounces DEF Feed!Next
  <1>3. ASSUME NEW c \in Clients, Subscribe(c)
        PROVE  Feed!Next \/ UNCHANGED Bell
    BY <1>3, SubscribeAttaches DEF Feed!Next
  <1>4. ASSUME NEW c \in Clients, ReleaseDelete(c) PROVE Feed!Next
    BY <1>4, ReleaseDetaches DEF Feed!Next
  <1>5. ASSUME NEW c \in Clients, ReleaseClose(c)
        PROVE  UNCHANGED Bell
    BY <1>5, CloseIsUnheard
  <1>6. ASSUME NEW c \in Clients, Read(c) PROVE Feed!Next
    BY <1>6, ReadAnswers DEF Feed!Next
  <1>7. ASSUME NEW c \in Clients, Send(c)
        PROVE  Feed!Next \/ UNCHANGED Bell
    BY <1>7, SendRings DEF Feed!Next
  <1>8. CASE Flush
    BY <1>8, FlushKeepsDebt
  <1>9. CASE Cancel
    BY <1>9, BellUnmoved DEF Cancel, Alive
  <1>10. CASE Return
    BY <1>10, BellUnmoved DEF Return, Alive
  <1> QED
    BY <1>1, <1>2, <1>3, <1>4, <1>5, <1>6, <1>7, <1>8, <1>9, <1>10 DEF Next

-----------------------------------------------------------------------------
(* Theorems                                                                *)

\* Every variable keeps its type, whatever the caps.
THEOREM TypeCorrect == Spec => []TypeOK
  <1>1. HubInv => TypeOK
    BY DEF HubInv
  <1> QED
    BY <1>1, HubInvariant, PTL

\* A batch that reports dropped changes is exactly at the cap, wherever it is
\* held; one that reports none is the whole interval (Publish and flush).
THEOREM DroppedCorrect == Spec => []DroppedMeansFull
  <1>1. HubInv => DroppedMeansFull
    BY DEF HubInv
  <1> QED
    BY <1>1, HubInvariant, PTL

\* No release, double release or refused subscription leaks a slot, and the
\* cap on clients holds (Subscribe and the release function).
THEOREM SlotsCorrect == Spec => []SlotsMatchHandlers
  <1>1. HubInv => SlotsMatchHandlers
    BY DEF HubInv
  <1> QED
    BY <1>1, HubInvariant, PTL

\* The hub implements the doorbell: neither the batch cap, nor an overrun
\* channel, nor the clearing in flush silences an attached client
\* (Publish, flush and its non-blocking sends).
THEOREM BellImplemented == Spec => NoSilentLoss
  <1>1. Init => Feed!Init
    BY DEF Init, Feed!Init, Attached, Owed, Rung
  <1>2. HubInv /\ [Next]_vars => [Feed!Next]_Bell
    BY StepRingsTrue
  <1>3. HubInv /\ [Next]_vars => [Feed!Next]_(Feed!feedVars)
    BY <1>2 DEF Feed!feedVars, Bell
  <1> QED
    BY <1>1, <1>3, HubInvariant, PTL DEF Spec, NoSilentLoss, Feed!Spec
=============================================================================
