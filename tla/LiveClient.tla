----------------------------- MODULE LiveClient -----------------------------
(***************************************************************************)
(* frontend/src/app/core/events/live.service.ts: how one browser tab       *)
(* learns that something changed, by the event stream or by polling.       *)
(*                                                                         *)
(* Every handler is one action, as the browser runs it to completion.  The *)
(* two timers hold the time left; a timer that has reached zero is due and *)
(* fires before time goes on.  What reaches the tab is open here: any      *)
(* event, any error, at any moment the EventSource allows.  LiveUpdates    *)
(* puts the server behind it.  Operators called "Variant" are mistakes to  *)
(* be told apart from the model, not part of it.                           *)
(***************************************************************************)
EXTENDS Integers

CONSTANTS
    EventsEnabled,  \* what the meta endpoint may say of the deployment's events
    PollEvery,      \* POLL_INTERVAL_MS, in units of time
    SilenceMax      \* SILENCE_BEFORE_POLLING_MS, in the same units

ASSUME LiveAssumption ==
    /\ EventsEnabled \subseteq BOOLEAN
    /\ PollEvery \in Nat \ {0}
    /\ SilenceMax \in Nat \ {0}

VARIABLES
    source,         \* this.source: none, or the EventSource's readyState
    mode,           \* this._mode
    pollTimer,      \* this.pollTimer: Off, or the time left
    silenceTimer    \* this.silenceTimer

liveVars == <<source, mode, pollTimer, silenceTimer>>

Off == -1

LiveTypeOK ==
    /\ source \in {"none", "connecting", "open", "closed"}
    /\ mode \in {"idle", "live", "polling", "offline"}
    /\ pollTimer \in Off .. PollEvery
    /\ silenceTimer \in Off .. SilenceMax

LiveInit ==
    /\ source = "none"
    /\ mode = "idle"
    /\ pollTimer = Off
    /\ silenceTimer = Off

-----------------------------------------------------------------------------
(* The service's own helpers                                               *)

\* An interval already running is left alone.
StartPolling == pollTimer' = IF pollTimer = Off THEN PollEvery ELSE pollTimer

\* Variant: the interval goes on running beside the stream.
LeavesPolling == UNCHANGED pollTimer

StopPolling == pollTimer' = Off

\* Variant: the timeout is counted twice.
ArmsLate == silenceTimer' = 2 * SilenceMax

ArmSilenceTimer == silenceTimer' = SilenceMax

-----------------------------------------------------------------------------
(* What the page calls                                                     *)

\* A source or a running interval makes a second call do nothing.
Started == source # "none" \/ pollTimer # Off

Start ==
    /\ ~ Started
    /\ \/ /\ TRUE \in EventsEnabled
          /\ source' = "connecting"
          /\ UNCHANGED <<mode, pollTimer>>
       \/ /\ FALSE \in EventsEnabled
          /\ mode' = "polling"
          /\ StartPolling
          /\ UNCHANGED source
    /\ UNCHANGED silenceTimer

Stop ==
    /\ source' = "none"
    /\ StopPolling
    /\ silenceTimer' = Off
    /\ mode' = "idle"

-----------------------------------------------------------------------------
(* What the EventSource delivers                                           *)

\* The response headers arrived; the service has no handler for it.
OnOpen ==
    /\ source = "connecting"
    /\ source' = "open"
    /\ UNCHANGED <<mode, pollTimer, silenceTimer>>

OnHello(connected) ==
    /\ source = "open"
    /\ IF connected
       THEN mode' = "live" /\ StopPolling
       ELSE mode' = "polling" /\ pollTimer' = PollEvery
    /\ ArmSilenceTimer
    /\ UNCHANGED source

OnUpstream(connected) ==
    /\ source = "open"
    /\ IF connected
       THEN mode' = "live" /\ StopPolling
       ELSE mode' = "polling" /\ StartPolling
    /\ UNCHANGED <<source, silenceTimer>>

\* The tick this handler also gives the page is the caller's to use.
OnChanges ==
    /\ source = "open"
    /\ mode' = "live"
    /\ StopPolling
    /\ ArmSilenceTimer
    /\ UNCHANGED source

\* "closed" when the answer was an HTTP error, which the browser does not
\* retry; otherwise it reconnects by itself.
OnError(readyState) ==
    /\ source \in {"connecting", "open"}
    /\ source' = readyState
    /\ mode' = IF readyState = "closed" THEN "offline" ELSE "polling"
    /\ StartPolling
    /\ UNCHANGED silenceTimer

-----------------------------------------------------------------------------
(* Timers                                                                  *)

\* Variant: the mode says polling, and that is all.
SaysItPolls ==
    /\ silenceTimer = 0
    /\ silenceTimer' = Off
    /\ mode' = "polling"
    /\ UNCHANGED <<source, pollTimer>>

OnSilence ==
    /\ silenceTimer = 0
    /\ silenceTimer' = Off
    /\ mode' = "polling"
    /\ StartPolling
    /\ UNCHANGED source

\* Another tick for the page, and the interval goes on.
OnPoll ==
    /\ pollTimer = 0
    /\ pollTimer' = PollEvery
    /\ UNCHANGED <<source, mode, silenceTimer>>

\* The browser's countdown of a timer that is armed.
Running(timer) == IF timer = Off THEN Off ELSE timer - 1

\* One unit of time.
LivePass ==
    /\ pollTimer # 0 /\ silenceTimer # 0
    /\ pollTimer' = Running(pollTimer)
    /\ silenceTimer' = Running(silenceTimer)
    /\ UNCHANGED <<source, mode>>

-----------------------------------------------------------------------------
LiveNext ==
    \/ Start
    \/ Stop
    \/ OnOpen
    \/ \E up \in BOOLEAN : OnHello(up) \/ OnUpstream(up)
    \/ OnChanges
    \/ \E s \in {"connecting", "closed"} : OnError(s)
    \/ OnSilence
    \/ OnPoll
    \/ LivePass

LiveSpec == LiveInit /\ [][LiveNext]_liveVars

-----------------------------------------------------------------------------
(* Properties                                                              *)

\* What the topbar says is what the tab does, through every order of handlers
\* and timers: a live tab has its stream and no interval, a polling one its
\* interval, and stop() leaves nothing behind.  "offline" is a tab whose stream
\* the browser has given up and which polls: the comment of LiveMode
\* (live.service.ts 26) and the topbar's text have neither get through, which
\* nothing in the service finds out.
ModeMatchesTimers ==
    /\ mode = "live" => source = "open" /\ pollTimer = Off
    /\ mode = "polling" => pollTimer # Off
    /\ mode = "offline" => source = "closed" /\ pollTimer # Off
    /\ mode = "idle" => pollTimer = Off /\ (source = "none" => silenceTimer = Off)
=============================================================================
