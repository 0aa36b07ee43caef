----------------------------- MODULE ChangeFeed -----------------------------
(***************************************************************************)
(* What internal/events promises a browser, with no batches, channels,     *)
(* locks or flush loop in sight: a doorbell.                               *)
(*                                                                         *)
(* The stream "says what changed, not what it changed to": whatever a      *)
(* batch lists, the browser answers by refetching what it shows.  So the   *)
(* promise is about the bell and not about the list.  Once something has   *)
(* changed while a client was attached the client is owed a ring, and only *)
(* a ring settles that; once its bell has rung it goes on ringing until    *)
(* the client answers.  No cap, no overrun, no flush and no other client   *)
(* takes either away.                                                      *)
(***************************************************************************)
CONSTANT Clients        \* one element per stream connection

VARIABLES
    attached,           \* the clients holding a slot
    owed,               \* the attached clients whose bell has yet to ring
    rung                \* the attached clients whose bell is ringing

feedVars == <<attached, owed, rung>>

Init == attached = {} /\ owed = {} /\ rung = {}

\* Something changed: every attached client is owed a ring.
Announce == owed' = attached /\ UNCHANGED <<attached, rung>>

\* A new client may be owed what the others are.
Attach(c) ==
    /\ c \notin attached
    /\ attached' = attached \cup {c}
    /\ owed' \in {owed, owed \cup {c}}
    /\ UNCHANGED rung

Detach(c) ==
    /\ c \in attached
    /\ attached' = attached \ {c}
    /\ owed' = owed \ {c}
    /\ rung' = rung \ {c}

\* One ring settles all that is owed, unless more has changed meanwhile.
Ring(c) ==
    /\ c \in owed
    /\ owed' \in {owed, owed \ {c}}
    /\ rung' = rung \cup {c}
    /\ UNCHANGED attached

\* The client reads one batch and refetches; another may be waiting.
Answer(c) ==
    /\ c \in rung
    /\ rung' \in {rung, rung \ {c}}
    /\ UNCHANGED <<attached, owed>>

\* The process dies, and every stream with it.
Halt == attached' = {} /\ owed' = {} /\ rung' = {}

Next ==
    \/ Announce
    \/ Halt
    \/ \E c \in Clients : \/ Attach(c)
                          \/ Detach(c)
                          \/ Ring(c)
                          \/ Answer(c)

Spec == Init /\ [][Next]_feedVars
=============================================================================
