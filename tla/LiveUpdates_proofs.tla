------------------------- MODULE LiveUpdates_proofs -------------------------
(***************************************************************************)
(* Proofs about the tab and about the chain behind it, for any lengths of  *)
(* the timers and any bounds.                                              *)
(*                                                                         *)
(* The tab's invariant is proved against an open environment (LiveSpec).   *)
(* What LiveUpdates puts behind the tab delivers nothing LiveSpec does not *)
(* allow, so the chain implements it and has its invariants.               *)
(***************************************************************************)
EXTENDS LiveUpdates, TLAPS

-----------------------------------------------------------------------------
(* The tab, whatever an EventSource delivers                               *)

LiveInv == LiveTypeOK /\ ModeMatchesTimers

LEMMA LiveInitInv == LiveInit => LiveInv
  BY LiveAssumption
     DEF LiveAssumption, LiveInit, LiveInv, LiveTypeOK, ModeMatchesTimers, Off

\* What the page calls.
LEMMA PageKeepsLiveInv ==
    ASSUME LiveInv, Start \/ Stop PROVE LiveInv'
  <1> USE LiveAssumption DEF LiveAssumption, LiveInv, LiveTypeOK, ModeMatchesTimers,
                             Off, StartPolling, StopPolling
  <1>1. CASE Start
    <2>1. source = "none" /\ pollTimer = Off /\ UNCHANGED silenceTimer
      BY <1>1 DEF Start, Started
    <2>2. \/ source' = "connecting" /\ UNCHANGED <<mode, pollTimer>>
          \/ mode' = "polling" /\ StartPolling /\ UNCHANGED source
      BY <1>1 DEF Start
    <2> QED
      BY <2>1, <2>2
  <1>2. CASE Stop
    BY <1>2 DEF Stop
  <1> QED
    BY <1>1, <1>2

\* What the EventSource delivers.
LEMMA EventsKeepLiveInv ==
    ASSUME LiveInv,
           \/ OnOpen \/ OnChanges
           \/ \E up \in BOOLEAN : OnHello(up) \/ OnUpstream(up)
           \/ \E s \in {"connecting", "closed"} : OnError(s)
    PROVE  LiveInv'
  <1> USE LiveAssumption DEF LiveAssumption, LiveInv, LiveTypeOK, ModeMatchesTimers,
                             Off, StartPolling, StopPolling, ArmSilenceTimer
  <1>1. CASE OnOpen
    BY <1>1 DEF OnOpen
  <1>2. CASE OnChanges
    BY <1>2 DEF OnChanges
  <1>3. ASSUME NEW up \in BOOLEAN, OnHello(up) PROVE LiveInv'
    BY <1>3 DEF OnHello
  <1>4. ASSUME NEW up \in BOOLEAN, OnUpstream(up) PROVE LiveInv'
    BY <1>4 DEF OnUpstream
  <1>5. ASSUME NEW s \in {"connecting", "closed"}, OnError(s) PROVE LiveInv'
    BY <1>5 DEF OnError
  <1> QED
    BY <1>1, <1>2, <1>3, <1>4, <1>5

\* A timer that is off stays off, and one that is not due has time left.
LEMMA TimersKeepLiveInv ==
    ASSUME LiveInv, OnSilence \/ OnPoll \/ LivePass PROVE LiveInv'
  <1> USE LiveAssumption DEF LiveAssumption, LiveInv, LiveTypeOK, ModeMatchesTimers,
                             Off, StartPolling
  <1>1. CASE OnSilence
    BY <1>1 DEF OnSilence
  <1>2. CASE OnPoll
    BY <1>2 DEF OnPoll
  <1>3. CASE LivePass
    BY <1>3 DEF LivePass, Running
  <1> QED
    BY <1>1, <1>2, <1>3

LEMMA LiveNextInv == LiveInv /\ [LiveNext]_liveVars => LiveInv'
  <1> SUFFICES ASSUME LiveInv, [LiveNext]_liveVars PROVE LiveInv'
    OBVIOUS
  <1>1. CASE UNCHANGED liveVars
    BY <1>1 DEF liveVars, LiveInv, LiveTypeOK, ModeMatchesTimers
  <1>2. CASE LiveNext
    BY <1>2, PageKeepsLiveInv, EventsKeepLiveInv, TimersKeepLiveInv DEF LiveNext
  <1> QED
    BY <1>1, <1>2

\* Live, for every order in which an EventSource may call its handlers and
\* timers may fire: the interval runs exactly while the mode says so.
THEOREM TabCorrect == LiveSpec => [](LiveTypeOK /\ ModeMatchesTimers)
  <1>1. LiveInv => LiveTypeOK /\ ModeMatchesTimers
    BY DEF LiveInv
  <1> QED
    BY <1>1, LiveInitInv, LiveNextInv, PTL DEF LiveSpec

-----------------------------------------------------------------------------
(* The chain delivers what an EventSource may deliver                      *)

LEMMA BoundsAreNumbers ==
    /\ Retry \in Nat /\ WriteTimeout \in Nat /\ StreamCap \in Nat \ {0}
    /\ MaxChanges \in Nat /\ MaxFaults \in Nat
  BY UpdatesAssumption DEF UpdatesAssumption

\* The type invariant in two parts: one is arithmetic, the other Boolean.
Flags ==
    /\ frame \in BOOLEAN /\ upstream \in BOOLEAN /\ pending \in BOOLEAN
    /\ bell \in BOOLEAN /\ told \in BOOLEAN /\ beat \in BOOLEAN

Numbers ==
    /\ LiveTypeOK
    /\ db \in 0 .. MaxChanges
    /\ link \in {"waiting", "dialed", "reading", "broken"}
    /\ handler \in {"none", "claimed", "greeted", "looping"}
    /\ age \in 0 .. WriteTimeout
    /\ wire \in {"up", "dead"}
    /\ stream \in Seq(Events) /\ Len(stream) <= StreamCap
    /\ retry \in Off .. Retry
    /\ fetch \in {"none", "sent", "answered"}
    /\ got \in 0 .. MaxChanges
    /\ screen \in Blank .. MaxChanges
    /\ faults \in 0 .. MaxFaults

LEMMA TypeParts == TypeOK <=> Flags /\ Numbers
  BY DEF TypeOK, Flags, Numbers

LEMMA TypePartsNext == TypeOK' <=> Flags' /\ Numbers'
  BY DEF TypeOK, Flags, Numbers

LEMMA TypeInit == Init => TypeOK
  <1> SUFFICES ASSUME Init PROVE Flags /\ Numbers
    BY TypeParts
  <1>1. LiveTypeOK
    BY LiveInitInv DEF Init, LiveInv
  <1>2. Flags
    BY DEF Init, Flags
  <1>3. Numbers
    BY <1>1, BoundsAreNumbers DEF Init, Numbers, Blank, Off
  <1> QED
    BY <1>2, <1>3

\* A fault within the bound.
LEMMA FaultKeepsType ==
    ASSUME faults \in 0 .. MaxFaults, Fault
    PROVE  faults' \in 0 .. MaxFaults
  BY BoundsAreNumbers DEF Fault

\* The worker, its link and the hub.
LEMMA WorkerKeepsType ==
    ASSUME TypeOK,
           \/ Change \/ Dial \/ SetConnected \/ HandleFrame \/ Break
           \/ SetDisconnected \/ FlushHub
    PROVE  TypeOK' /\ UNCHANGED liveVars
  <1> USE TypeParts
      DEF Change, Dial, SetConnected, HandleFrame, Break, SetDisconnected, FlushHub,
          Downstream, handlerVars, wireVars, listVars
  <1>1. UNCHANGED liveVars
    OBVIOUS
  <1>2. Flags'
    BY DEF Flags
  <1>3. LiveTypeOK'
    BY <1>1 DEF Numbers, LiveTypeOK, liveVars
  <1>4. db' \in 0 .. MaxChanges /\ faults' \in 0 .. MaxFaults
    <2>1. db \in 0 .. MaxChanges /\ faults \in 0 .. MaxFaults
      BY DEF Numbers
    <2>2. CASE Change
      BY <2>1, <2>2, BoundsAreNumbers
    <2>3. CASE Break
      BY <2>1, <2>3, FaultKeepsType
    <2>4. CASE ~ Change /\ ~ Break
      <3>1. UNCHANGED <<db, faults>>
        BY <2>4
      <3> QED
        BY <2>1, <3>1
    <2> QED
      BY <2>2, <2>3, <2>4
  <1>5. link' \in {"waiting", "dialed", "reading", "broken"}
    BY DEF Numbers
  <1>6. UNCHANGED <<handler, age, wire, stream, retry, listVars>>
    OBVIOUS
  <1>7. Numbers'
    BY <1>3, <1>4, <1>5, <1>6 DEF Numbers
  <1> QED
    BY <1>1, <1>2, <1>7, TypePartsNext

\* What is sent is an event, and there is room for it.
LEMMA SendKeepsEvents ==
    ASSUME TypeOK, NEW e \in Events, Send(e)
    PROVE  stream' \in Seq(Events) /\ Len(stream') <= StreamCap
  BY BoundsAreNumbers DEF TypeOK, Send

\* The stream handler while its connection stands.
LEMMA HandlerKeepsType ==
    ASSUME TypeOK, Greet \/ EnterLoop \/ SendBatch \/ Heartbeat
    PROVE  TypeOK' /\ UNCHANGED liveVars
  <1> USE DEF AwayFromStream
  <1>1. UNCHANGED liveVars
    BY DEF Greet, EnterLoop, SendBatch, Heartbeat
  <1>2. stream' \in Seq(Events) /\ Len(stream') <= StreamCap
    <2>1. [type |-> "hello", connected |-> upstream] \in Events
      BY DEF Events, TypeOK
    <2>2. [type |-> "upstream", connected |-> upstream] \in Events
      BY DEF Events, TypeOK
    <2>3. [type |-> "changes"] \in Events
      BY DEF Events
    <2>4. CASE UNCHANGED stream
      BY <2>4 DEF TypeOK
    <2> QED
      BY <2>1, <2>2, <2>3, <2>4, SendKeepsEvents
         DEF Greet, EnterLoop, SendBatch, Heartbeat
  <1>3. Flags'
    BY TypeParts DEF Flags, Greet, EnterLoop, SendBatch, Heartbeat, serverVars
  <1>4. Numbers'
    BY <1>1, <1>2, TypeParts
       DEF Numbers, LiveTypeOK, liveVars, Greet, EnterLoop, SendBatch, Heartbeat,
           serverVars, listVars
  <1> QED
    BY <1>1, <1>3, <1>4, TypePartsNext

\* The list's request.
LEMMA ListKeepsType ==
    ASSUME TypeOK, Answer \/ Show \/ Fail
    PROVE  TypeOK' /\ UNCHANGED liveVars
  <1> USE TypeParts DEF Answer, Show, Fail, AwayFromList, serverVars, handlerVars, wireVars
  <1>1. UNCHANGED liveVars
    OBVIOUS
  <1>2. Flags'
    BY DEF Flags
  <1>3. LiveTypeOK'
    BY <1>1 DEF Numbers, LiveTypeOK, liveVars
  <1>4. /\ fetch' \in {"none", "sent", "answered"} /\ got' \in 0 .. MaxChanges
        /\ screen' \in Blank .. MaxChanges
    <2>1. \/ fetch' = "answered" /\ got' = db /\ UNCHANGED screen
          \/ fetch' = "none" /\ screen' = got /\ UNCHANGED got
          \/ fetch' = "none" /\ screen' = Blank /\ UNCHANGED got
      OBVIOUS
    <2>2. /\ db \in 0 .. MaxChanges /\ got \in 0 .. MaxChanges
          /\ screen \in -1 .. MaxChanges
      BY DEF Numbers, Blank
    <2> QED
      BY ONLY <2>1, <2>2, BoundsAreNumbers DEF Blank
  <1>5. UNCHANGED <<serverVars, handlerVars, wire, stream, retry>>
    OBVIOUS
  <1>8. faults' \in 0 .. MaxFaults
    BY FaultKeepsType DEF Numbers
  <1>6. Numbers'
    BY <1>3, <1>4, <1>5, <1>8 DEF Numbers
  <1> QED
    BY <1>1, <1>2, <1>6, TypePartsNext

\* Where the browser and a connection meet: what the tab sees of it, if
\* anything, is one of the EventSource's own events.
LEMMA ConnectionIsLive ==
    ASSUME TypeOK,
           \/ Claim \/ Refuse \/ NetworkDrop \/ ServerNotices \/ WriteFails
           \/ BrowserHangsUp \/ BrowserNotices
    PROVE  [LiveNext]_liveVars
  <1>1. CASE Claim \/ NetworkDrop
    BY <1>1 DEF Claim, NetworkDrop
  <1>2. CASE ServerNotices \/ WriteFails
    BY <1>2 DEF ServerNotices, WriteFails, HandlerReturns, AwayFromStream
  <1>3. CASE Refuse
    BY <1>3 DEF Refuse, LiveNext
  <1>4. CASE BrowserHangsUp \/ BrowserNotices
    BY <1>4 DEF BrowserHangsUp, BrowserNotices, StreamEnds, LiveNext
  <1> QED
    BY <1>1, <1>2, <1>3, <1>4

\* What the browser takes off the stream is an event, and of a kind the tab
\* listens to.
LEMMA DeliverIsLive ==
    ASSUME TypeOK, Deliver
    PROVE  LiveNext
  <1>1. Head(stream) \in Events
    BY DEF Deliver, TypeOK
  <1>2. ASSUME NEW e, e = Head(stream), e.type \in {"hello", "upstream"}
        PROVE  e.connected \in BOOLEAN
    BY <1>1, <1>2 DEF Events
  <1> QED
    BY <1>2 DEF Deliver, LiveNext

LEMMA TabIsLive ==
    ASSUME TypeOK, Open \/ Opens \/ Deliver \/ Silence \/ Poll \/ Pass
    PROVE  LiveNext
  BY DeliverIsLive DEF Open, Opens, Silence, Poll, Pass, LiveNext

LEMMA StepIsLive ==
    ASSUME TypeOK, [Next]_vars
    PROVE  [LiveNext]_liveVars
  <1>1. CASE UNCHANGED vars
    BY <1>1 DEF vars
  <1>2. CASE Next
    BY <1>2, WorkerKeepsType, HandlerKeepsType, ListKeepsType, ConnectionIsLive, TabIsLive
       DEF Next
  <1> QED
    BY <1>1, <1>2

-----------------------------------------------------------------------------
(* Types, where the tab takes part                                         *)

\* A stream begins or ends, or the wire under it does.
LEMMA ConnectionKeepsType ==
    ASSUME TypeOK, LiveTypeOK',
           \/ Claim \/ Refuse \/ NetworkDrop \/ ServerNotices \/ WriteFails
           \/ BrowserHangsUp \/ BrowserNotices
    PROVE  TypeOK'
  <1> USE TypeParts, BoundsAreNumbers
      DEF serverVars, handlerVars, listVars, wireVars, Off
  <1>1. CASE Claim
    <2>1. Flags'
      BY <1>1 DEF Claim, Flags
    <2>2. Numbers'
      BY <1>1 DEF Claim, Asks, Numbers
    <2> QED
      BY <2>1, <2>2, TypePartsNext
  <1>2. CASE Refuse
    <2>1. Flags'
      BY <1>2 DEF Refuse, Flags
    <2>2. Numbers'
      BY <1>2 DEF Refuse, Asks, Numbers
    <2> QED
      BY <2>1, <2>2, TypePartsNext
  <1>3. CASE NetworkDrop
    <2>1. Flags'
      BY <1>3 DEF NetworkDrop, Flags
    <2>2. faults' \in 0 .. MaxFaults
      BY <1>3, FaultKeepsType DEF NetworkDrop, Numbers
    <2>3. Numbers'
      BY <1>3, <2>2 DEF NetworkDrop, Numbers
    <2> QED
      BY <2>1, <2>3, TypePartsNext
  <1>4. CASE ServerNotices \/ WriteFails
    <2>1. HandlerReturns
      BY <1>4 DEF ServerNotices, WriteFails
    <2>2. Flags'
      BY <2>1 DEF HandlerReturns, AwayFromStream, Flags
    <2>3. Numbers'
      BY <2>1 DEF HandlerReturns, AwayFromStream, Numbers
    <2> QED
      BY <2>2, <2>3, TypePartsNext
  <1>5. CASE BrowserHangsUp \/ BrowserNotices
    <2>1. StreamEnds
      BY <1>5 DEF BrowserHangsUp, BrowserNotices
    <2>2. Flags'
      BY <2>1 DEF StreamEnds, Flags
    <2>3. Numbers'
      BY <2>1 DEF StreamEnds, Numbers
    <2> QED
      BY <2>2, <2>3, TypePartsNext
  <1> QED
    BY <1>1, <1>2, <1>3, <1>4, <1>5

\* The tab's own steps.
LEMMA TabKeepsType ==
    ASSUME TypeOK, LiveTypeOK', Open \/ Opens \/ Deliver \/ Silence \/ Poll
    PROVE  TypeOK'
  <1> USE DEF Open, Opens, Deliver, Silence, Poll
  <1>1. UNCHANGED <<serverVars, handlerVars, wire, faults, got, screen>>
    BY DEF Others, Refetch, listVars
  <1>2. fetch' \in {"none", "sent", "answered"}
    BY DEF Refetch, listVars, TypeOK
  <1>3. stream' \in Seq(Events) /\ Len(stream') <= StreamCap
    <2>1. CASE UNCHANGED stream
      BY <2>1 DEF TypeOK
    <2>2. CASE Deliver
      BY <2>2, BoundsAreNumbers DEF TypeOK
    <2> QED
      BY <2>1, <2>2
  <1>4. retry' \in Off .. Retry
    <2>1. UNCHANGED retry \/ retry' = 0
      OBVIOUS
    <2> QED
      BY ONLY <2>1, TypeParts, TypeOK, BoundsAreNumbers DEF Numbers, Off
  <1>5. Flags'
    BY <1>1, TypeParts DEF Flags, serverVars, handlerVars
  <1>6. Numbers'
    BY <1>1, <1>2, <1>3, <1>4, TypeParts DEF Numbers, serverVars, handlerVars
  <1> QED
    BY <1>5, <1>6, TypePartsNext

\* A running timer stays at or above zero, for time stops while one is due.
LEMMA PassKeepsType ==
    ASSUME TypeOK, LiveTypeOK', Pass
    PROVE  TypeOK'
  <1>1. retry' \in Off .. Retry
    BY BoundsAreNumbers DEF Pass, Running, TypeOK, Off
  <1>2. age' \in 0 .. WriteTimeout
    BY BoundsAreNumbers DEF Pass, TypeOK
  <1>3. Flags'
    BY TypeParts DEF Pass, Flags, serverVars
  <1>4. Numbers'
    BY <1>1, <1>2, TypeParts DEF Pass, Numbers, serverVars, wireVars, listVars
  <1> QED
    BY <1>3, <1>4, TypePartsNext

-----------------------------------------------------------------------------
(* The theorems                                                            *)

ChainInv == TypeOK /\ LiveInv

LEMMA ChainInitInv == Init => ChainInv
  BY TypeInit, LiveInitInv DEF ChainInv, Init

LEMMA ChainNextInv == ChainInv /\ [Next]_vars => ChainInv' /\ [LiveNext]_liveVars
  <1> SUFFICES ASSUME ChainInv, [Next]_vars PROVE ChainInv' /\ [LiveNext]_liveVars
    OBVIOUS
  <1> USE DEF ChainInv
  <1>1. [LiveNext]_liveVars
    BY StepIsLive
  <1>2. LiveInv'
    BY <1>1, LiveNextInv
  <1>3. LiveTypeOK'
    BY <1>2 DEF LiveInv
  <1>4. TypeOK'
    <2>1. CASE UNCHANGED vars
      <3>1. Flags'
        BY <2>1, TypeParts DEF vars, Flags, serverVars, handlerVars
      <3>2. Numbers'
        BY <1>3, <2>1, TypeParts DEF vars, Numbers, serverVars, handlerVars, wireVars, listVars
      <3> QED
        BY <3>1, <3>2, TypePartsNext
    <2>2. CASE Next
      BY <1>3, <2>2, WorkerKeepsType, HandlerKeepsType, ListKeepsType,
         ConnectionKeepsType, TabKeepsType, PassKeepsType DEF Next
    <2> QED
      BY <2>1, <2>2
  <1> QED
    BY <1>1, <1>2, <1>4

\* Server, network and clock do to the tab only what the module of the tab
\* allows an environment to do.
THEOREM ChainImplementsTab == Spec => LiveSpec
  <1>1. Init => LiveInit
    BY DEF Init
  <1> QED
    BY <1>1, ChainInitInv, ChainNextInv, PTL DEF Spec, LiveSpec

\* Every part of the chain keeps its type.
THEOREM ChainTypeCorrect == Spec => []TypeOK
  <1>1. ChainInv => TypeOK
    BY DEF ChainInv
  <1> QED
    BY <1>1, ChainInitInv, ChainNextInv, PTL DEF Spec

\* What the topbar says is what the tab does, behind any network.
THEOREM ModeCorrect == Spec => []ModeMatchesTimers
  <1>1. ChainInv => ModeMatchesTimers
    BY DEF ChainInv, LiveInv
  <1> QED
    BY <1>1, ChainInitInv, ChainNextInv, PTL DEF Spec
=============================================================================
