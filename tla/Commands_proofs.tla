-------------------------- MODULE Commands_proofs --------------------------
(***************************************************************************)
(* Proofs about commands, for any runs, objects, answers of the worker and *)
(* any number of faults.                                                   *)
(***************************************************************************)
EXTENDS Commands, TLAPS

-----------------------------------------------------------------------------
(* Types                                                                   *)

Watch == [left : SUBSET Objects, asking : BOOLEAN, reading : SUBSET Objects,
          done : SUBSET Objects, tries : Nat]

Places == {"idle", "sent", "watching", "over", "closed"}
Tones == {"none", "pending", "success", "warning", "error"}
Stages == {"none", "checking", "waiting", "recording", "answering", "done", "dead"}

Shape ==
    /\ ask \in [Runs -> AllAsks]
    /\ tab \in [Runs -> Places]
    /\ toast \in [Runs -> Tones]
    /\ watch \in [Runs -> Watch]
    /\ handler \in [Runs -> Stages]
    /\ status \in [Runs -> Nat]
    /\ reply \in [Runs -> Nat]
    /\ seen \in [Runs -> SUBSET Objects]

LEMMA RepliesAreNumbers == Replies \subseteq Nat /\ 202 \notin Replies
  BY CommandsAssumption DEF CommandsAssumption

LEMMA StatusesAreNumbers == Statuses \subseteq Nat
  <1>1. {s \in Replies : s >= 400} \subseteq Nat
    BY RepliesAreNumbers
  <1> QED
    BY <1>1 DEF Statuses

LEMMA MappedIsStatus ==
    ASSUME NEW s \in Replies \cup {0, 202}
    PROVE  Mapped(s) \in Statuses /\ (Mapped(s) = 202 => s = 202)
  BY RepliesAreNumbers DEF Mapped, Statuses

LEMMA AsleepIsWatch == Asleep \in Watch
  BY DEF Asleep, Watch

LEMMA TargetsAreObjects ==
    ASSUME Shape, NEW c \in Runs PROVE Targets(c) \subseteq Objects
  BY DEF Shape, AllAsks, Targets

LEMMA ShapeInit == Init => Shape
  <1> SUFFICES ASSUME Init PROVE Shape
    OBVIOUS
  <1>1. ask \in [Runs -> AllAsks]
    BY CommandsAssumption DEF Init, CommandsAssumption
  <1>2. watch \in [Runs -> Watch]
    BY AsleepIsWatch DEF Init
  <1>3. tab \in [Runs -> Places] /\ toast \in [Runs -> Tones] /\ handler \in [Runs -> Stages]
    BY DEF Init, Places, Tones, Stages
  <1>4. status \in [Runs -> Nat] /\ reply \in [Runs -> Nat] /\ seen \in [Runs -> SUBSET Objects]
    BY DEF Init
  <1> QED
    BY <1>1, <1>2, <1>3, <1>4 DEF Shape

\* The history keeps its type whatever else a step does.
LEMMA RememberIsTyped ==
    ASSUME Shape, Remember PROVE seen' \in [Runs -> SUBSET Objects]
  BY TargetsAreObjects DEF Shape, Remember

\* What the browser does with a run.
LEMMA BrowserKeepsShape ==
    ASSUME Shape, NEW c \in Runs, Run(c) \/ Disconnect(c) \/ Dismiss(c) \/ Leave
    PROVE  /\ tab' \in [Runs -> Places] /\ toast' \in [Runs -> Tones]
           /\ watch' \in [Runs -> Watch] /\ handler' \in [Runs -> Stages]
           /\ status' = status /\ reply' = reply
  <1> USE AsleepIsWatch
      DEF Shape, Places, Tones, Stages, serverVars, outsideVars, Goes, Show, Settles, Replace
  <1>1. CASE Run(c)
    BY <1>1 DEF Run
  <1>2. CASE Disconnect(c)
    BY <1>2 DEF Disconnect
  <1>3. CASE Dismiss(c)
    BY <1>3 DEF Dismiss
  <1>4. CASE Leave
    BY <1>4 DEF Leave
  <1> QED
    BY <1>1, <1>2, <1>3, <1>4

LEMMA ReceiveKeepsShape ==
    ASSUME Shape, NEW c \in Runs, Receive(c)
    PROVE  /\ tab' \in [Runs -> Places] /\ toast' \in [Runs -> Tones]
           /\ watch' \in [Runs -> Watch]
  <1>1. [Asleep EXCEPT !.left = Targets(c)] \in Watch
    BY TargetsAreObjects DEF Asleep, Watch
  <1> QED
    BY <1>1 DEF Receive, Shape, Places, Tones, Settles, Goes, Replace

LEMMA ConfirmKeepsShape ==
    ASSUME Shape, NEW c \in Runs, Confirm(c)
    PROVE  /\ tab' \in [Runs -> Places] /\ toast' \in [Runs -> Tones]
           /\ watch' \in [Runs -> Watch]
  <1>1. watch[c] \in Watch
    BY DEF Shape
  <1>2. ASSUME NEW left \in SUBSET Objects, AttemptEnds(c, left)
        PROVE  /\ tab' \in [Runs -> Places] /\ toast' \in [Runs -> Tones]
               /\ watch' \in [Runs -> Watch]
    <2>1. [Asleep EXCEPT !.left = left, !.tries = watch[c].tries + 1] \in Watch
      <3>1. watch[c].tries + 1 \in Nat
        BY <1>1 DEF Watch
      <3> QED
        BY <3>1 DEF Asleep, Watch
    <2> QED
      BY <1>2, <2>1, AsleepIsWatch
         DEF Shape, Places, Tones, AttemptEnds, Watches, Settles, Goes, Replace
  <1>3. CASE Wake(c)
    <2>1. [watch[c] EXCEPT !.asking = TRUE, !.reading = watch[c].left] \in Watch
      BY <1>1 DEF Watch
    <2> QED
      BY <1>3, <2>1 DEF Shape, Wake, Watches
  <1>4. ASSUME NEW o \in Objects, Look(c, o)
        PROVE  watch' \in [Runs -> Watch] /\ UNCHANGED <<tab, toast>>
    <2>1. [watch[c] EXCEPT !.reading = @ \ {o},
              !.done = IF AsAsked(c, o) THEN @ \cup {o} ELSE @] \in Watch
      BY <1>1 DEF Watch
    <2> QED
      BY <1>4, <2>1 DEF Shape, Look, Watches
  <1>5. CASE LookFails(c)
    BY <1>1, <1>2, <1>5 DEF LookFails, Watch
  <1>6. CASE Evaluate(c)
    <2>1. watch[c].left \ watch[c].done \in SUBSET Objects
      BY <1>1 DEF Watch
    <2> QED
      BY <1>2, <1>6, <2>1, AsleepIsWatch
         DEF Evaluate, Shape, Places, Tones, Watches, Settles, Goes, Replace
  <1> QED
    BY <1>3, <1>4, <1>5, <1>6 DEF Confirm, Shape

-----------------------------------------------------------------------------
(* A run in the server: what was queued, answered and put on record        *)

RowsOf(c) == {row \in audit : row[1] = c}

\* The rows of a run are one for each of its objects, and all say the same.
IsOnRecord(c) == \E s \in Statuses : RowsOf(c) = {c} \X Targets(c) \X {s}

\* Nothing is submitted before the checks and nothing on record before it is
\* recorded; a 202 anywhere means that the worker has queued the commands.
ServerInv(c) ==
    /\ handler[c] \in {"none", "checking"} => c \notin posted \cup queued
    /\ handler[c] \in {"none", "checking", "waiting", "recording"} => RowsOf(c) = {}
    /\ handler[c] = "recording" => status[c] \in Statuses
    /\ handler[c] \in {"answering", "done"} /\ c \in (posted \cup queued) \ lost =>
          IsOnRecord(c)
    /\ reply[c] \in Replies \cup {0, 202}
    /\ reply[c] = 202 => c \in queued
    /\ status[c] = 202 => c \in queued
    /\ \A row \in RowsOf(c) : row[3] = 202 => c \in queued

\* What the step of another run leaves as it is.
ServerSame(c) ==
    /\ handler'[c] = handler[c] /\ status'[c] = status[c] /\ reply'[c] = reply[c]
    /\ (c \in posted' <=> c \in posted) /\ (c \in queued' <=> c \in queued)
    /\ (c \in lost' <=> c \in lost) /\ RowsOf(c)' = RowsOf(c)
    /\ ask'[c] = ask[c]

LEMMA ServerKept == ASSUME NEW c, ServerInv(c), ServerSame(c) PROVE ServerInv(c)'
  <1>1. IsOnRecord(c)' <=> IsOnRecord(c)
    BY DEF ServerSame, IsOnRecord, Targets
  <1> QED
    BY <1>1 DEF ServerInv, ServerSame

LEMMA ServerInit == ASSUME Init, NEW c \in Runs PROVE ServerInv(c)
  BY DEF Init, ServerInv, RowsOf

LEMMA RowsOfOthers ==
    ASSUME Shape, NEW c \in Runs, NEW d \in Runs, d # c, audit' = audit \cup Rows(c)
    PROVE  RowsOf(d)' = RowsOf(d)
  <1>1. \A row \in Rows(c) : row[1] = c
    BY DEF Rows
  <1> QED
    BY <1>1 DEF RowsOf

\* One request touches nothing of another.
LEMMA HandleLeavesOthers ==
    ASSUME Shape, ask' = ask, NEW c \in Runs, NEW d \in Runs, d # c, Handle(c)
    PROVE  ServerSame(d)
  <1> USE DEF Shape, Moves, Reports, ServerSame
  <1>1. reply' = reply /\ queued' = queued
    BY DEF Handle
  <1>2. CASE Refuse(c) \/ BuildFails(c) \/ Disabled(c) \/ Submit(c)
    BY <1>1, <1>2 DEF Refuse, BuildFails, Disabled, Submit, RowsOf
  <1>3. CASE GotReply(c) \/ GiveUp(c)
    BY <1>1, <1>3 DEF GotReply, GiveUp, RowsOf
  <1>4. CASE Record(c)
    BY <1>1, <1>4, RowsOfOthers DEF Record
  <1>5. CASE RecordFails(c) \/ Answer(c)
    BY <1>1, <1>5 DEF RecordFails, Answer, RowsOf
  <1> QED
    BY <1>2, <1>3, <1>4, <1>5 DEF Handle, Checked, Fetched, Recorded

LEMMA HandleKeepsServer ==
    ASSUME Shape, ask' = ask, NEW c \in Runs, ServerInv(c), Handle(c)
    PROVE  ServerInv(c)'
  <1> USE DEF Shape, Moves, Reports
  <1>1. reply' = reply /\ queued' = queued
    BY DEF Handle
  <1>2. CASE Refuse(c)
    <2>1. /\ handler[c] = "checking" /\ handler'[c] = "answering"
          /\ status'[c] \in {400, 401} /\ audit' = audit /\ posted' = posted
      BY <1>2 DEF Refuse
    <2> QED
      BY <1>1, <2>1 DEF ServerInv, RowsOf
  <1>3. CASE BuildFails(c) \/ Disabled(c)
    <2>1. /\ handler[c] = "checking" /\ handler'[c] = "recording"
          /\ status'[c] \in {400, 503} /\ audit' = audit /\ posted' = posted
      BY <1>3 DEF BuildFails, Disabled
    <2> QED
      BY <1>1, <2>1 DEF ServerInv, RowsOf, Statuses
  <1>4. CASE Submit(c)
    <2>1. /\ handler[c] = "checking" /\ handler'[c] = "waiting"
          /\ status' = status /\ audit' = audit
      BY <1>4 DEF Submit
    <2> QED
      BY <1>1, <2>1 DEF ServerInv, RowsOf
  <1>5. CASE GotReply(c) \/ GiveUp(c)
    <2>1. PICK s \in {reply[c], 0} : status' = [status EXCEPT ![c] = Mapped(s)]
      BY <1>5 DEF GotReply, GiveUp
    <2>2. Mapped(s) \in Statuses /\ (Mapped(s) = 202 => s = 202)
      BY MappedIsStatus DEF ServerInv
    <2>3. /\ handler[c] = "waiting" /\ handler'[c] = "recording"
          /\ audit' = audit /\ posted' = posted
      BY <1>5 DEF GotReply, GiveUp
    <2>4. status'[c] = Mapped(s)
      BY <2>1
    <2> QED
      BY <1>1, <2>2, <2>3, <2>4 DEF ServerInv, RowsOf
  <1>6. CASE Record(c)
    <2>1. /\ handler[c] = "recording" /\ handler'[c] = "answering"
          /\ audit' = audit \cup Rows(c) /\ posted' = posted /\ status' = status
      BY <1>6 DEF Record
    <2>2. RowsOf(c)' = Rows(c)
      BY <2>1 DEF ServerInv, RowsOf, Rows
    <2>3. IsOnRecord(c)'
      BY <2>1, <2>2 DEF ServerInv, IsOnRecord, Rows, Targets
    <2>4. \A row \in Rows(c) : row[3] = status[c]
      BY DEF Rows
    <2> QED
      BY <1>1, <2>1, <2>2, <2>3, <2>4 DEF ServerInv
  <1>7. CASE RecordFails(c)
    <2>1. /\ handler[c] = "recording" /\ handler'[c] = "answering"
          /\ audit' = audit /\ posted' = posted /\ status' = status
          /\ lost' = lost \cup {c}
      BY <1>7 DEF RecordFails
    <2> QED
      BY <1>1, <2>1 DEF ServerInv, RowsOf
  <1>8. CASE Answer(c)
    <2>1. /\ handler[c] = "answering" /\ handler'[c] = "done"
          /\ UNCHANGED <<status, audit, posted, lost>>
      BY <1>8 DEF Answer
    <2>2. IsOnRecord(c)' <=> IsOnRecord(c)
      BY <2>1 DEF IsOnRecord, RowsOf, Targets
    <2> QED
      BY <1>1, <2>1, <2>2 DEF ServerInv, RowsOf
  <1> QED
    BY <1>2, <1>3, <1>4, <1>5, <1>6, <1>7, <1>8 DEF Handle, Checked, Fetched, Recorded

\* The worker answers, and queues what it accepts, in its own time.
LEMMA OutsideKeepsServer ==
    ASSUME Shape, ask' = ask, Outside, NEW c \in Runs, ServerInv(c) PROVE ServerInv(c)'
  <1> USE DEF Shape
  <1>1. UNCHANGED <<handler, status, audit, lost>>
    BY DEF Outside, serverVars
  <1>2. RowsOf(c)' = RowsOf(c) /\ (IsOnRecord(c)' <=> IsOnRecord(c))
    BY <1>1 DEF RowsOf, IsOnRecord, Targets
  <1>3. ASSUME NEW d \in Runs, WorkerRefuses(d) PROVE ServerInv(c)'
    <2>1. /\ posted' = posted \ {d} /\ queued' = queued
          /\ \E s \in Replies : reply' = [reply EXCEPT ![d] = s]
          /\ d \in posted
      BY <1>3 DEF WorkerRefuses
    <2>2. reply'[c] \in Replies \cup {0, 202} /\ (reply'[c] = 202 => c \in queued)
      BY <2>1, RepliesAreNumbers DEF ServerInv
    <2> QED
      BY <1>1, <1>2, <2>1, <2>2 DEF ServerInv
  <1>4. ASSUME NEW d \in Runs, WorkerQueues(d) PROVE ServerInv(c)'
    <2>1. /\ posted' = posted \ {d} /\ queued' = queued \cup {d}
          /\ reply' = [reply EXCEPT ![d] = 202] /\ d \in posted
      BY <1>4 DEF WorkerQueues
    <2>2. reply'[c] \in Replies \cup {0, 202} /\ (reply'[c] = 202 => c \in queued')
      BY <2>1 DEF ServerInv
    <2> QED
      BY <1>1, <1>2, <2>1, <2>2 DEF ServerInv
  <1>5. CASE UNCHANGED <<posted, reply, queued>>
    BY <1>1, <1>2, <1>5 DEF ServerInv
  <1> QED
    BY <1>3, <1>4, <1>5 DEF Outside, CoreTakes, OthersChange, SessionEnds, outsideVars

LEMMA CrashKeepsServer ==
    ASSUME Shape, ask' = ask, Crash, NEW c \in Runs, ServerInv(c) PROVE ServerInv(c)'
  <1>1. UNCHANGED <<status, audit, lost, posted, reply, queued>>
    BY DEF Crash, outsideVars
  <1>2. handler'[c] = handler[c] \/ handler'[c] = "dead"
    BY DEF Crash
  <1>3. RowsOf(c)' = RowsOf(c) /\ (IsOnRecord(c)' <=> IsOnRecord(c))
    BY <1>1 DEF RowsOf, IsOnRecord, Targets
  <1> QED
    BY <1>1, <1>2, <1>3 DEF ServerInv

\* The browser starts a handler for a run that has had none.
LEMMA BrowserKeepsServer ==
    ASSUME Shape, ask' = ask, NEW d \in Runs, tab[d] = "idle" => handler[d] = "none",
           Run(d) \/ Disconnect(d) \/ Dismiss(d) \/ Confirm(d) \/ Leave,
           NEW c \in Runs, ServerInv(c)
    PROVE  ServerInv(c)'
  <1> USE DEF Shape, serverVars, outsideVars
  <1>1. CASE Run(d)
    <2>1. /\ handler' = [handler EXCEPT ![d] = "checking"] /\ tab[d] = "idle"
          /\ UNCHANGED <<status, audit, lost, posted, reply, queued>>
      BY <1>1 DEF Run
    <2>2. handler'[c] = handler[c] \/ (handler[c] = "none" /\ handler'[c] = "checking")
      BY <2>1
    <2>3. RowsOf(c)' = RowsOf(c) /\ (IsOnRecord(c)' <=> IsOnRecord(c))
      BY <2>1 DEF RowsOf, IsOnRecord, Targets
    <2> QED
      BY <2>1, <2>2, <2>3 DEF ServerInv
  <1>2. CASE Disconnect(d) \/ Dismiss(d) \/ Confirm(d) \/ Leave
    <2>1. UNCHANGED <<handler, status, audit, lost, posted, reply, queued>>
      BY <1>2 DEF Disconnect, Dismiss, Confirm, Leave
    <2> QED
      BY <2>1, ServerKept DEF ServerSame, RowsOf
  <1> QED
    BY <1>1, <1>2

-----------------------------------------------------------------------------
(* A run in the browser: what it shows                                     *)

\* A handler's answer finds the run still sent, or its connection cut.  A run is
\* confirmed object by object: those no longer waited for, and those
\* this attempt has found done, have been as asked while it was watched.
BrowserInv(c) ==
    /\ tab[c] = "idle" => handler[c] = "none"
    /\ AtWork(c) /\ c \notin cut => tab[c] = "sent"
    /\ watch[c].asking => tab[c] = "watching"
    /\ tab[c] = "watching" \/ toast[c] \in {"success", "warning"} => c \in queued
    /\ tab[c] = "watching" =>
          /\ watch[c].left \subseteq Targets(c) /\ watch[c].reading \subseteq Targets(c)
          /\ Targets(c) \ watch[c].left \subseteq seen[c]
          /\ watch[c].done \subseteq seen[c]
    /\ Watchable(c) /\ toast[c] = "success" => Targets(c) \subseteq seen[c]

\* While it is watched, what is as asked is noted; nothing is forgotten.
SeenGrows(c) ==
    /\ seen[c] \subseteq seen'[c]
    /\ tab[c] = "watching" => \A o \in Targets(c) : AsAsked(c, o) => o \in seen'[c]

LEMMA RememberGrows ==
    ASSUME Shape, Remember, NEW c \in Runs PROVE SeenGrows(c)
  BY TargetsAreObjects DEF Shape, Remember, SeenGrows

LEMMA BrowserInit == ASSUME Init, NEW c \in Runs PROVE BrowserInv(c)
  BY DEF Init, BrowserInv, Asleep, AtWork

LEMMA BrowserKept ==
    ASSUME NEW c, BrowserInv(c), SeenGrows(c), ask'[c] = ask[c], queued \subseteq queued',
           tab'[c] = tab[c], watch'[c] = watch[c], toast'[c] = toast[c],
           handler[c] = "none" => handler'[c] = "none",
           AtWork(c)' => AtWork(c), cut \subseteq cut'
    PROVE  BrowserInv(c)'
  <1>1. Targets(c)' = Targets(c) /\ (Watchable(c)' <=> Watchable(c))
    BY DEF Targets, Watchable
  <1> QED
    BY <1>1 DEF BrowserInv, SeenGrows

\* A run that is over, or was given up, shows what it has come to.
LEMMA BrowserOver ==
    ASSUME NEW c \in Runs, BrowserInv(c), SeenGrows(c), ask'[c] = ask[c],
           queued \subseteq queued', tab'[c] \in {"over", "closed", "sent"},
           ~watch'[c].asking, AtWork(c)' /\ c \notin cut' => tab'[c] = "sent",
           toast'[c] \in {"none", "pending", "error", toast[c]}
    PROVE  BrowserInv(c)'
  <1>1. Targets(c)' = Targets(c) /\ (Watchable(c)' <=> Watchable(c))
    BY DEF Targets, Watchable
  <1> QED
    BY <1>1 DEF BrowserInv, SeenGrows

LEMMA PageKeepsBrowser ==
    ASSUME Shape, ask' = ask, NEW d \in Runs, Run(d) \/ Disconnect(d) \/ Dismiss(d) \/ Leave,
           NEW c \in Runs, BrowserInv(c), SeenGrows(c)
    PROVE  BrowserInv(c)'
  <1> USE DEF Shape, serverVars, outsideVars, Goes, Show, Settles, Replace, AtWork
  <1>1. CASE Run(d)
    <2>1. /\ tab[d] = "idle" /\ tab' = [tab EXCEPT ![d] = "sent"]
          /\ toast' = [toast EXCEPT ![d] = "pending"]
          /\ handler' = [handler EXCEPT ![d] = "checking"]
          /\ watch' = watch /\ queued' = queued /\ cut' = cut
      BY <1>1 DEF Run
    <2>2. CASE c = d
      <3>1. ~watch'[c].asking
        BY <2>1, <2>2 DEF BrowserInv
      <3> QED
        BY <2>1, <2>2, <3>1, BrowserOver
    <2>3. CASE c # d
      BY <2>1, <2>3, BrowserKept
    <2> QED
      BY <2>2, <2>3
  <1>2. CASE Disconnect(d)
    <2>1. /\ tab[d] = "sent" /\ tab' = [tab EXCEPT ![d] = "over"]
          /\ toast' = [toast EXCEPT ![d] = "error"]
          /\ UNCHANGED <<watch, handler, queued>> /\ cut' = cut \cup {d}
      BY <1>2 DEF Disconnect
    <2>2. CASE c = d
      <3>1. ~watch'[c].asking
        BY <2>1, <2>2 DEF BrowserInv
      <3> QED
        BY <2>1, <2>2, <3>1, BrowserOver
    <2>3. CASE c # d
      BY <2>1, <2>3, BrowserKept
    <2> QED
      BY <2>2, <2>3
  <1>3. CASE Dismiss(d)
    <2>1. toast' = [toast EXCEPT ![d] = "none"] /\ UNCHANGED <<tab, watch, handler, queued, cut>>
      BY <1>3 DEF Dismiss
    <2>2. toast'[c] \in {"none", toast[c]}
      BY <2>1
    <2>3. Targets(c)' = Targets(c) /\ (Watchable(c)' <=> Watchable(c))
      BY DEF Targets, Watchable
    <2> QED
      BY <2>1, <2>2, <2>3 DEF BrowserInv, SeenGrows
  <1>4. CASE Leave
    <2>1. /\ tab'[c] = IF tab[c] = "idle" THEN "idle" ELSE "closed"
          /\ toast'[c] = "none" /\ watch'[c] = Asleep /\ UNCHANGED <<handler, queued>>
          /\ cut \subseteq cut' /\ (tab[c] = "sent" => c \in cut')
      BY <1>4 DEF Leave
    <2> QED
      BY <2>1 DEF BrowserInv, Asleep
  <1> QED
    BY <1>1, <1>2, <1>3, <1>4

LEMMA CrashKeepsBrowser ==
    ASSUME Shape, ask' = ask, Crash, NEW c \in Runs, BrowserInv(c), SeenGrows(c)
    PROVE  BrowserInv(c)'
  <1>1. watch' = watch /\ queued' = queued /\ cut' = cut
    BY DEF Crash, outsideVars
  <1>0. ~AtWork(c)'
    BY DEF Crash, Shape, AtWork
  <1>2. CASE tab[c] = "sent"
    <2>1. tab'[c] = "over" /\ toast'[c] = "error" /\ ~watch'[c].asking
      BY <1>1, <1>2 DEF Crash, Shape, BrowserInv
    <2> QED
      BY <1>0, <1>1, <2>1, BrowserOver
  <1>3. CASE tab[c] # "sent"
    <2>1. tab'[c] = tab[c] /\ toast'[c] = toast[c]
      BY <1>3 DEF Crash, Shape
    <2>2. handler[c] = "none" => handler'[c] = "none"
      BY DEF Crash, Shape, AtWork
    <2> QED
      BY <1>0, <1>1, <2>1, <2>2, BrowserKept
  <1> QED
    BY <1>2, <1>3

LEMMA OutsideKeepsBrowser ==
    ASSUME Shape, ask' = ask, Outside, NEW c \in Runs, BrowserInv(c), SeenGrows(c)
    PROVE  BrowserInv(c)'
  <1>1. UNCHANGED <<tab, watch, toast, handler, cut>>
    BY DEF Outside, browserVars, serverVars
  <1>2. queued \subseteq queued'
    BY DEF Outside, WorkerRefuses, WorkerQueues, CoreTakes, OthersChange, SessionEnds,
           outsideVars
  <1> QED
    BY <1>1, <1>2, BrowserKept DEF AtWork

\* The answer reaches the browser: a 202 is of what the worker has queued.
LEMMA ReceiveKeepsBrowser ==
    ASSUME Shape, ask' = ask, NEW c \in Runs, Receive(c), ServerInv(c), BrowserInv(c),
           SeenGrows(c), queued' = queued, tab[c] = "sent", handler'[c] = "done"
    PROVE  BrowserInv(c)'
  <1> USE DEF Shape, Goes, Settles, Replace
  <1>1. Targets(c)' = Targets(c) /\ (Watchable(c)' <=> Watchable(c)) /\ ~AtWork(c)'
    BY DEF Targets, Watchable, AtWork
  <1>2. ~watch[c].asking
    BY DEF BrowserInv
  <1>3. CASE status[c] = 202 /\ Watchable(c)
    <2>1. /\ tab'[c] = "watching" /\ toast'[c] = "pending"
          /\ watch'[c] = [Asleep EXCEPT !.left = Targets(c)]
      BY <1>3 DEF Receive
    <2>2. /\ watch'[c].left = Targets(c) /\ watch'[c].reading = {} /\ watch'[c].done = {}
          /\ watch'[c].asking = FALSE
      BY <2>1 DEF Asleep
    <2> QED
      BY <1>1, <1>3, <2>1, <2>2 DEF BrowserInv, ServerInv
  <1>4. CASE status[c] = 202 /\ ~Watchable(c)
    <2>1. tab'[c] = "over" /\ toast'[c] = "success" /\ watch' = watch
      BY <1>4 DEF Receive
    <2> QED
      BY <1>1, <1>2, <1>4, <2>1 DEF BrowserInv, ServerInv
  <1>5. CASE status[c] # 202
    <2>1. tab'[c] = "over" /\ toast'[c] = "error" /\ watch' = watch
      BY <1>5 DEF Receive
    <2> QED
      BY <1>1, <1>2, <2>1 DEF BrowserInv
  <1> QED
    BY <1>3, <1>4, <1>5 DEF Receive

LEMMA HandleKeepsBrowser ==
    ASSUME Shape, ask' = ask, NEW d \in Runs, Handle(d),
           NEW c \in Runs, ServerInv(c), BrowserInv(c), SeenGrows(c)
    PROVE  BrowserInv(c)'
  <1> USE DEF Shape, Moves
  <1>1. queued' = queued /\ cut' = cut
    BY DEF Handle
  <1>2. CASE UNCHANGED browserVars
    <2>1. AtWork(d) /\ \E place \in Stages \ {"none"} : handler' = [handler EXCEPT ![d] = place]
      BY DEF Handle, Checked, Fetched, Recorded, Refuse, BuildFails, Disabled, Submit,
             GotReply, GiveUp, Record, RecordFails, Answer, AtWork, Stages
    <2>2. AtWork(c)' => AtWork(c)
      BY <2>1 DEF AtWork
    <2>3. handler[c] = "none" => handler'[c] = "none"
      BY <2>1 DEF AtWork
    <2> QED
      BY <1>1, <1>2, <2>2, <2>3, BrowserKept DEF browserVars
  <1>3. CASE Answer(d) /\ d \notin cut /\ Receive(d)
    <2>1. handler[d] = "answering" /\ handler' = [handler EXCEPT ![d] = "done"]
      BY <1>3 DEF Answer
    <2>2. CASE c = d
      <3>1. tab[c] = "sent" /\ handler'[c] = "done"
        BY <1>3, <2>1, <2>2 DEF BrowserInv, AtWork
      <3> QED
        BY <1>1, <1>3, <2>2, <3>1, ReceiveKeepsBrowser
    <2>3. CASE c # d
      <3>1. tab'[c] = tab[c] /\ watch'[c] = watch[c] /\ toast'[c] = toast[c]
        BY <1>3, <2>3 DEF Receive, Settles, Goes, Replace
      <3>2. handler'[c] = handler[c]
        BY <2>1, <2>3
      <3> QED
        BY <1>1, <3>1, <3>2, BrowserKept DEF AtWork
    <2> QED
      BY <2>2, <2>3
  <1> QED
    BY <1>2, <1>3 DEF Handle, Checked, Fetched, Recorded, Refuse, BuildFails, Disabled,
                      Submit, GotReply, GiveUp, Record, RecordFails, Answer

\* The end of an attempt: what is no longer left has been as asked.
LEMMA AttemptKeepsBrowser ==
    ASSUME Shape, ask' = ask, NEW c \in Runs, BrowserInv(c), SeenGrows(c),
           tab[c] = "watching", UNCHANGED <<handler, cut, queued>>,
           NEW left \in SUBSET Targets(c), Targets(c) \ left \subseteq seen'[c],
           AttemptEnds(c, left)
    PROVE  BrowserInv(c)'
  <1> USE DEF Shape, Goes, Settles, Replace, Watches
  <1>1. /\ Targets(c)' = Targets(c) /\ (Watchable(c)' <=> Watchable(c))
        /\ (AtWork(c)' <=> AtWork(c)) /\ c \in queued
    BY DEF Targets, Watchable, AtWork, BrowserInv
  <1>2. ~(AtWork(c) /\ c \notin cut) /\ (Watchable(c) /\ toast[c] = "success" => Targets(c) \subseteq seen'[c])
    BY DEF BrowserInv, SeenGrows
  <1>3. CASE watch' = [watch EXCEPT ![c] = Asleep] /\ Settles(c, "warning")
    <2>1. tab'[c] = "over" /\ toast'[c] = "warning" /\ ~watch'[c].asking
      BY <1>3 DEF Asleep
    <2> QED
      BY <1>1, <1>2, <2>1 DEF BrowserInv
  <1>4. CASE /\ watch' = [watch EXCEPT ![c] =
                    [Asleep EXCEPT !.left = left, !.tries = watch[c].tries + 1]]
             /\ UNCHANGED <<tab, toast>>
    <2>1. watch'[c] = [Asleep EXCEPT !.left = left, !.tries = watch[c].tries + 1]
      BY <1>4
    <2>2. /\ watch'[c].left = left /\ watch'[c].reading = {} /\ watch'[c].done = {}
          /\ watch'[c].asking = FALSE
      BY <2>1 DEF Asleep
    <2> QED
      BY <1>1, <1>2, <1>4, <2>2 DEF BrowserInv
  <1> QED
    BY <1>3, <1>4 DEF AttemptEnds

LEMMA ConfirmKeepsBrowser ==
    ASSUME Shape, ask' = ask, NEW c \in Runs, Confirm(c), BrowserInv(c), SeenGrows(c)
    PROVE  BrowserInv(c)'
  <1>1. UNCHANGED <<handler, cut, queued>>
    BY DEF Confirm, serverVars, outsideVars
  <1>2. /\ Targets(c)' = Targets(c) /\ (Watchable(c)' <=> Watchable(c))
        /\ (AtWork(c)' <=> AtWork(c))
    BY <1>1 DEF Targets, Watchable, AtWork
  <1>3. watch[c] \in Watch /\ (watch[c].asking => tab[c] = "watching")
    BY DEF Shape, BrowserInv
  <1> USE DEF Shape, Goes, Settles, Replace, Watches
  <1>4. CASE Wake(c)
    <2>1. /\ tab[c] = "watching" /\ UNCHANGED <<tab, toast>>
          /\ watch'[c] = [watch[c] EXCEPT !.asking = TRUE, !.reading = watch[c].left]
      BY <1>4 DEF Wake
    <2>2. /\ watch'[c].left = watch[c].left /\ watch'[c].reading = watch[c].left
          /\ watch'[c].done = watch[c].done
      BY <1>3, <2>1 DEF Watch
    <2> QED
      BY <1>1, <1>2, <2>1, <2>2 DEF BrowserInv, SeenGrows
  <1>5. ASSUME NEW o \in Objects, Look(c, o) PROVE BrowserInv(c)'
    <2>1. /\ o \in watch[c].reading /\ tab[c] = "watching" /\ UNCHANGED <<tab, toast>>
          /\ watch'[c] = [watch[c] EXCEPT !.reading = @ \ {o},
                             !.done = IF AsAsked(c, o) THEN @ \cup {o} ELSE @]
      BY <1>3, <1>5 DEF Look
    <2>2. /\ watch'[c].left = watch[c].left
          /\ watch'[c].reading = watch[c].reading \ {o}
          /\ watch'[c].done = IF AsAsked(c, o) THEN watch[c].done \cup {o} ELSE watch[c].done
      BY <1>3, <2>1 DEF Watch
    <2>3. AsAsked(c, o) => o \in seen'[c]
      BY <2>1 DEF BrowserInv, SeenGrows
    <2> QED
      BY <1>1, <1>2, <2>1, <2>2, <2>3 DEF BrowserInv, SeenGrows
  <1>6. CASE LookFails(c)
    <2>1. tab[c] = "watching" /\ AttemptEnds(c, watch[c].left)
      BY <1>3, <1>6 DEF LookFails
    <2>2. watch[c].left \in SUBSET Targets(c) /\ Targets(c) \ watch[c].left \subseteq seen'[c]
      BY <2>1 DEF BrowserInv, SeenGrows
    <2> QED
      BY <1>1, <2>1, <2>2, AttemptKeepsBrowser
  <1>7. CASE Evaluate(c) /\ AllConfirmed(c)
    <2>1. tab[c] = "watching" /\ tab'[c] = "over" /\ toast'[c] = "success"
      BY <1>3, <1>7 DEF Evaluate
    <2>2. ~watch'[c].asking
      BY <1>7 DEF Evaluate, Asleep
    <2>3. Targets(c) \subseteq seen'[c]
      BY <1>7, <2>1 DEF AllConfirmed, BrowserInv, SeenGrows
    <2> QED
      BY <1>1, <1>2, <2>1, <2>2, <2>3 DEF BrowserInv
  <1>8. CASE Evaluate(c) /\ ~AllConfirmed(c)
    <2>1. tab[c] = "watching" /\ AttemptEnds(c, watch[c].left \ watch[c].done)
      BY <1>3, <1>8 DEF Evaluate
    <2>2. /\ watch[c].left \ watch[c].done \in SUBSET Targets(c)
          /\ Targets(c) \ (watch[c].left \ watch[c].done) \subseteq seen'[c]
      BY <2>1 DEF BrowserInv, SeenGrows
    <2> QED
      BY <1>1, <2>1, <2>2, AttemptKeepsBrowser
  <1> QED
    BY <1>4, <1>5, <1>6, <1>7, <1>8 DEF Confirm

LEMMA ConfirmLeavesOthers ==
    ASSUME Shape, ask' = ask, NEW d \in Runs, Confirm(d), NEW c \in Runs, c # d,
           BrowserInv(c), SeenGrows(c)
    PROVE  BrowserInv(c)'
  <1>1. UNCHANGED <<handler, cut, queued>>
    BY DEF Confirm, serverVars, outsideVars
  <1>2. tab'[c] = tab[c] /\ watch'[c] = watch[c] /\ toast'[c] = toast[c]
    BY DEF Confirm, Wake, Look, LookFails, Evaluate, AttemptEnds, Watches, Settles, Goes,
           Replace, Shape
  <1> QED
    BY <1>1, <1>2, BrowserKept DEF AtWork

-----------------------------------------------------------------------------
(* The invariant                                                           *)

CommandInv == Shape /\ \A c \in Runs : ServerInv(c) /\ BrowserInv(c)

LEMMA CommandInvInit == Init => CommandInv
  BY ShapeInit, ServerInit, BrowserInit DEF CommandInv

LEMMA NextKeepsShape == ASSUME Shape, Next PROVE Shape'
  <1>1. ask' = ask /\ seen' \in [Runs -> SUBSET Objects]
    BY RememberIsTyped DEF Next
  <1>2. ASSUME NEW d \in Runs, Run(d) \/ Disconnect(d) \/ Dismiss(d) \/ Leave PROVE Shape'
    BY <1>1, <1>2, BrowserKeepsShape DEF Shape
  <1>3. ASSUME NEW d \in Runs, Confirm(d) PROVE Shape'
    <2>1. UNCHANGED <<handler, status, reply>>
      BY <1>3 DEF Confirm, serverVars, outsideVars
    <2> QED
      BY <1>1, <1>3, <2>1, ConfirmKeepsShape DEF Shape
  <1>4. ASSUME NEW d \in Runs, Handle(d) PROVE Shape'
    <2>1. reply' = reply
      BY <1>4 DEF Handle
    <2>2. /\ tab' \in [Runs -> Places] /\ toast' \in [Runs -> Tones]
          /\ watch' \in [Runs -> Watch]
      BY <1>4, ReceiveKeepsShape
         DEF Handle, Checked, Fetched, Recorded, Refuse, BuildFails, Disabled, Submit,
             GotReply, GiveUp, Record, RecordFails, Answer, browserVars, Shape
    <2>3. \E place \in Stages : handler' = [handler EXCEPT ![d] = place]
      BY <1>4 DEF Handle, Checked, Fetched, Recorded, Refuse, BuildFails, Disabled, Submit,
                  GotReply, GiveUp, Record, RecordFails, Answer, Moves, Stages
    <2>4. status' = status \/ \E s \in Nat : status' = [status EXCEPT ![d] = s]
      <3>1. Mapped(reply[d]) \in Nat /\ Mapped(0) \in Nat
        BY DEF Shape, Mapped
      <3> QED
        BY <1>4, <3>1 DEF Handle, Checked, Fetched, Recorded, Refuse, BuildFails, Disabled,
                          Submit, GotReply, GiveUp, Record, RecordFails, Answer, Reports
    <2> QED
      BY <1>1, <2>1, <2>2, <2>3, <2>4 DEF Shape
  <1>5. CASE Crash
    <2>1. UNCHANGED <<watch, status, reply>>
      BY <1>5 DEF Crash, outsideVars
    <2>2. /\ handler' = [c \in Runs |-> IF AtWork(c) THEN "dead" ELSE handler[c]]
          /\ tab' = [c \in Runs |-> IF tab[c] = "sent" THEN "over" ELSE tab[c]]
          /\ toast' = [c \in Runs |-> IF tab[c] = "sent" THEN "error" ELSE toast[c]]
      BY <1>5 DEF Crash
    <2>3. /\ handler' \in [Runs -> Stages] /\ tab' \in [Runs -> Places]
          /\ toast' \in [Runs -> Tones]
      <3>1. handler' \in [Runs -> Stages]
        BY <2>2 DEF Shape, Stages
      <3>2. tab' \in [Runs -> Places]
        BY <2>2 DEF Shape, Places
      <3>3. toast' \in [Runs -> Tones]
        BY <2>2 DEF Shape, Tones
      <3> QED
        BY <3>1, <3>2, <3>3
    <2> QED
      BY <1>1, <2>1, <2>3 DEF Shape
  <1>6. CASE Outside
    <2>1. UNCHANGED <<tab, toast, watch, handler, status>>
      BY <1>6 DEF Outside, browserVars, serverVars
    <2>2. reply' = reply \/ \E d \in Runs, s \in Nat : reply' = [reply EXCEPT ![d] = s]
      <3>1. ASSUME NEW d \in Runs, WorkerRefuses(d)
            PROVE  \E s \in Nat : reply' = [reply EXCEPT ![d] = s]
        <4>1. PICK s \in Replies : reply' = [reply EXCEPT ![d] = s]
          BY <3>1 DEF WorkerRefuses
        <4>2. s \in Nat
          BY RepliesAreNumbers
        <4> QED
          BY <4>1, <4>2
      <3>2. ASSUME NEW d \in Runs, WorkerQueues(d)
            PROVE  \E s \in Nat : reply' = [reply EXCEPT ![d] = s]
        <4>1. PICK s \in Nat : s = 202
          OBVIOUS
        <4>2. reply' = [reply EXCEPT ![d] = s]
          BY <3>2, <4>1 DEF WorkerQueues
        <4> QED
          BY <4>2
      <3>3. \A d \in Runs, o \in Objects : CoreTakes(d, o) => reply' = reply
        BY DEF CoreTakes
      <3>4. \A o \in Objects : OthersChange(o) => reply' = reply
        BY DEF OthersChange
      <3>5. SessionEnds => reply' = reply
        BY DEF SessionEnds, outsideVars
      <3> QED
        BY <1>6, <3>1, <3>2, <3>3, <3>4, <3>5 DEF Outside
    <2> QED
      BY <1>1, <2>1, <2>2 DEF Shape
  <1>7. CASE Leave
    <2>1. PICK d \in Runs : TRUE
      BY <1>7 DEF Leave
    <2> QED
      BY <1>2, <1>7, <2>1
  <1> QED
    BY <1>2, <1>3, <1>4, <1>5, <1>6, <1>7 DEF Next, Step

LEMMA NextKeepsRuns ==
    ASSUME CommandInv, Next, NEW c \in Runs PROVE ServerInv(c)' /\ BrowserInv(c)'
  <1>1. Shape /\ ServerInv(c) /\ BrowserInv(c) /\ SeenGrows(c) /\ ask' = ask
    BY RememberGrows DEF CommandInv, Next
  <1>2. ASSUME NEW d \in Runs, Run(d) \/ Disconnect(d) \/ Dismiss(d) \/ Leave
        PROVE  ServerInv(c)' /\ BrowserInv(c)'
    <2>1. tab[d] = "idle" => handler[d] = "none"
      BY DEF CommandInv, BrowserInv
    <2> QED
      BY <1>1, <1>2, <2>1, BrowserKeepsServer, PageKeepsBrowser
  <1>3. ASSUME NEW d \in Runs, Handle(d) PROVE ServerInv(c)' /\ BrowserInv(c)'
    <2>1. BrowserInv(c)'
      BY <1>1, <1>3, HandleKeepsBrowser
    <2>2. CASE c = d
      BY <1>1, <1>3, <2>1, <2>2, HandleKeepsServer
    <2>3. CASE c # d
      BY <1>1, <1>3, <2>1, <2>3, HandleLeavesOthers, ServerKept
    <2> QED
      BY <2>2, <2>3
  <1>4. ASSUME NEW d \in Runs, Confirm(d) PROVE ServerInv(c)' /\ BrowserInv(c)'
    <2>1. tab[d] = "idle" => handler[d] = "none"
      BY DEF CommandInv, BrowserInv
    <2>2. ServerInv(c)'
      BY <1>1, <1>4, <2>1, BrowserKeepsServer
    <2> QED
      BY <1>1, <1>4, <2>2, ConfirmKeepsBrowser, ConfirmLeavesOthers
  <1>5. CASE Crash
    BY <1>1, <1>5, CrashKeepsServer, CrashKeepsBrowser
  <1>6. CASE Outside
    BY <1>1, <1>6, OutsideKeepsServer, OutsideKeepsBrowser
  <1>7. CASE Leave
    BY <1>2, <1>7
  <1> QED
    BY <1>2, <1>3, <1>4, <1>5, <1>6, <1>7 DEF Next, Step

LEMMA NextKeepsCommandInv == CommandInv /\ [Next]_vars => CommandInv'
  <1> SUFFICES ASSUME CommandInv, [Next]_vars PROVE CommandInv'
    OBVIOUS
  <1>1. CASE UNCHANGED vars
    <2>1. UNCHANGED <<ask, tab, toast, watch, handler, status, reply, posted, queued, lost,
                      audit, cut, seen>>
      BY <1>1 DEF vars, browserVars, serverVars, outsideVars
    <2>2. Shape'
      BY <2>1 DEF CommandInv, Shape
    <2>3. ASSUME NEW c \in Runs PROVE ServerInv(c)' /\ BrowserInv(c)'
      <3>1. ServerSame(c)
        BY <2>1 DEF ServerSame, RowsOf
      <3>2. ServerInv(c)'
        BY <3>1, ServerKept DEF CommandInv
      <3>3. Targets(c)' = Targets(c) /\ (Watchable(c)' <=> Watchable(c)) /\ (AtWork(c)' <=> AtWork(c))
        BY <2>1 DEF Targets, Watchable, AtWork
      <3>4. BrowserInv(c)'
        BY <2>1, <3>3 DEF CommandInv, BrowserInv
      <3> QED
        BY <3>2, <3>4
    <2> QED
      BY <2>2, <2>3 DEF CommandInv
  <1>2. CASE Next
    BY <1>2, NextKeepsShape, NextKeepsRuns DEF CommandInv
  <1> QED
    BY <1>1, <1>2

\* recordCommands: once its handler is over, what the worker queued of a run is
\* on record, one row for each object, whoever has gone meanwhile.
THEOREM AuditCorrect == Spec => []AuditIsComplete
  <1>1. CommandInv => AuditIsComplete
    <2> SUFFICES ASSUME CommandInv, NEW c \in Runs, c \in queued \ lost,
                        handler[c] \in {"answering", "done"}
                 PROVE  IsOnRecord(c)
      BY DEF AuditIsComplete, IsOnRecord, RowsOf
    <2> QED
      BY DEF CommandInv, ServerInv
  <1> QED
    BY <1>1, CommandInvInit, NextKeepsCommandInv, PTL DEF Spec

\* submit and confirm(): neither the browser nor the audit calls a command
\* accepted that the worker has not queued, whatever answered in its place.
THEOREM SuccessCorrect == Spec => []SuccessMeansQueued
  <1>1. CommandInv => SuccessMeansQueued
    <2> SUFFICES ASSUME CommandInv, NEW c \in Runs
                 PROVE  (\/ tab[c] = "watching"
                         \/ toast[c] \in {"success", "warning"}
                         \/ \E o \in Objects : <<c, o, 202>> \in audit) => c \in queued
      BY DEF SuccessMeansQueued
    <2>1. ASSUME NEW o \in Objects, <<c, o, 202>> \in audit PROVE c \in queued
      <3>1. <<c, o, 202>> \in RowsOf(c)
        BY <2>1 DEF RowsOf
      <3>2. \A row \in RowsOf(c) : row[3] = 202 => c \in queued
        BY DEF CommandInv, ServerInv
      <3> QED
        BY <3>1, <3>2
    <2> QED
      BY <2>1 DEF CommandInv, BrowserInv
  <1> QED
    BY <1>1, CommandInvInit, NextKeepsCommandInv, PTL DEF Spec

\* confirm(): however many of its attempts fail, a run that is called confirmed
\* has shown each of its objects as asked.
THEOREM ConfirmedCorrect == Spec => []ConfirmedWasSeen
  <1>1. CommandInv => ConfirmedWasSeen
    BY DEF CommandInv, BrowserInv, ConfirmedWasSeen
  <1> QED
    BY <1>1, CommandInvInit, NextKeepsCommandInv, PTL DEF Spec

=============================================================================
