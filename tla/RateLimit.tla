----------------------------- MODULE RateLimit -----------------------------
(***************************************************************************)
(* internal/ratelimit and its uses: the window on login attempts           *)
(* (internal/auth) and the three budgets of command requests               *)
(* (internal/httpapi/commandlimit.go).  A window is a map of counters, and *)
(* each action is one critical section of its mutex: a request that takes  *)
(* two of them lets others in between.  What a refused caller is told,     *)
(* which Retry reads, is left out.                                         *)
(***************************************************************************)
EXTENDS Integers, FiniteSets, Functions

CONSTANTS
    Accounts,       \* the accounts that send commands
    DemoUser,       \* the demo account
    LoginFrom,      \* the addresses logins come from
    CommandFrom,    \* the addresses commands come from
    LoginLimit,     \* login_rate_limit
    ClientLimit,    \* command_rate_limit; 0 or less is no limit
    DemoLimit,      \* demo_command_rate_limit; likewise
    Factor,         \* demoTotalFactor
    Span,           \* the window, in units of time
    SweepAt,        \* 1024 in sweep
    MaxCount,       \* bound: events of a key in one window
    MaxResets,      \* bound: successful logins of an address
    MaxTime         \* bound: the clock

ASSUME RateAssumption ==
    /\ {LoginLimit, Factor, Span, SweepAt, MaxCount} \subseteq Nat \ {0}
    /\ MaxResets \in Nat
    /\ {ClientLimit, DemoLimit} \subseteq Int
    /\ MaxTime \in Nat

VARIABLES
    now,            \* the clock
    entries,        \* by window, the map from keys to counters
    verifying,      \* addresses of logins past the limit, not yet decided
    halfway,        \* callers past their own budget, not yet the crowd's
    passed,         \* history: events let through, by window and caller
    forgiven        \* history: resets, likewise

vars == <<now, entries, verifying, halfway, passed, forgiven>>

\* newCommandLimiter: the windows there are.
Windows ==
    {"login"} \cup (IF ClientLimit > 0 THEN {"client"} ELSE {})
              \cup (IF DemoLimit > 0 THEN {"demoClient", "demoTotal"} ELSE {})

Limit == [login |-> LoginLimit, client |-> ClientLimit,
          demoClient |-> DemoLimit, demoTotal |-> DemoLimit * Factor]

\* An address is a login's caller, an account at an address a command's, and
\* the demo crowd is one more.
Commanders == Accounts \X CommandFrom
Crowd == <<"demo">>
Callers == {<<ip>> : ip \in LoginFrom} \cup Commanders \cup {Crowd}

Init ==
    /\ now = 0
    /\ entries = [w \in Windows |-> <<>>]
    /\ verifying = {} /\ halfway = {}
    /\ passed = [w \in Windows |-> [c \in Callers |-> {}]]
    /\ forgiven = [w \in Windows |-> [c \in Callers |-> {}]]

-----------------------------------------------------------------------------
(* Window                                                                  *)

\* The window of an entry is over.
RolledOver(e) == now - e.start > Span

Fresh(w, k) == k \notin DOMAIN entries[w] \/ RolledOver(entries[w][k])

\* Variant, not the code: too many entries are all dropped.
SweepsAll(map) == IF Cardinality(DOMAIN map) < SweepAt THEN map ELSE <<>>

\* Variant, not the code: nothing is ever dropped.
NoSweep(map) == map

Sweep(map) ==
    IF Cardinality(DOMAIN map) < SweepAt THEN map
    ELSE Restrict(map, {k \in DOMAIN map : ~RolledOver(map[k])})

\* Allow's answer: whether one more event of the key fits.
Fits(w, k) == Fresh(w, k) \/ entries[w][k].count + 1 <= Limit[w]

\* Allow's effect: the event is counted whether it fits or not.
Counted(w, k) ==
    IF Fresh(w, k)
    THEN Sweep([j \in DOMAIN entries[w] \cup {k} |->
                    IF j = k THEN [count |-> 1, start |-> now]
                    ELSE entries[w][j]])
    ELSE [entries[w] EXCEPT ![k].count = @ + 1]

\* What happens now, added to a history: the number of what was before keeps
\* two apart.
Noted(history) == history \cup {[at |-> now, nr |-> Cardinality(history)]}

\* Allow(k) of window w, for the given caller.
Allow(w, k, caller) ==
    /\ ~Fresh(w, k) => entries[w][k].count < MaxCount
    /\ entries' = [entries EXCEPT ![w] = Counted(w, k)]
    /\ passed' = IF Fits(w, k)
                 THEN [passed EXCEPT ![w][caller] = Noted(@)]
                 ELSE passed
    /\ UNCHANGED forgiven

-----------------------------------------------------------------------------
(* Login and LoginDemo, keyed by the address                               *)

LoginAllow(ip) ==
    /\ Allow("login", <<ip>>, <<ip>>)
    /\ verifying' = IF Fits("login", <<ip>>) THEN verifying \cup {ip}
                    ELSE verifying
    /\ UNCHANGED <<now, halfway>>

\* The credentials were right: the counter is deleted, and the next attempt
\* starts another.
LoginReset(ip) ==
    /\ ip \in verifying
    /\ Cardinality(forgiven["login"][<<ip>>]) < MaxResets      \* bound
    /\ verifying' = verifying \ {ip}
    /\ entries' = [entries EXCEPT !["login"] = Restrict(@, DOMAIN @ \ {<<ip>>})]
    /\ forgiven' = [forgiven EXCEPT !["login"][<<ip>>] = Noted(@)]
    /\ UNCHANGED <<now, halfway, passed>>

\* They were wrong, or the login took none.
LoginEnds(ip) ==
    /\ ip \in verifying
    /\ verifying' = verifying \ {ip}
    /\ UNCHANGED <<now, entries, halfway, passed, forgiven>>

-----------------------------------------------------------------------------
(* commandRateLimit                                                        *)

IsDemo(a) == a = DemoUser

Budget(a) == IF IsDemo(a) /\ "demoClient" \in Windows THEN "demoClient"
             ELSE "client"

\* Variant, not the code: an account has one budget, wherever it is used.
KeyByAccount(a, ip) == <<a, CHOOSE any \in CommandFrom : TRUE>>

\* Account and address together.
KeyOf(a, ip) == <<a, ip>>

\* The caller's own budget, where it has one.
Command(a, ip) ==
    LET w == Budget(a)
        k == KeyOf(a, ip)
        fits == w \in Windows => Fits(w, k)
        crowd == IsDemo(a) /\ "demoTotal" \in Windows
    IN  /\ IF w \in Windows THEN Allow(w, k, <<a, ip>>)
           ELSE UNCHANGED <<entries, passed, forgiven>>
        /\ halfway' = IF fits /\ crowd THEN halfway \cup {<<a, ip>>} ELSE halfway
        /\ UNCHANGED <<now, verifying>>

\* The demo crowd's: a refusal here has cost the visitor's own budget.
CrowdCommand ==
    \E c \in halfway :
        /\ halfway' = halfway \ {c}
        /\ Allow("demoTotal", Crowd, Crowd)
        /\ UNCHANGED <<now, verifying>>

Pass ==
    /\ now < MaxTime
    /\ now' = now + 1
    /\ UNCHANGED <<entries, verifying, halfway, passed, forgiven>>

Next ==
    \/ \E ip \in LoginFrom : LoginAllow(ip) \/ LoginReset(ip) \/ LoginEnds(ip)
    \/ \E a \in Accounts, ip \in CommandFrom : Command(a, ip)
    \/ CrowdCommand
    \/ Pass

Spec == Init /\ [][Next]_vars

-----------------------------------------------------------------------------
(* Properties                                                              *)

\* What a history has of the Span before time t.
Within(history, t) == Cardinality({e \in history : e.at <= t /\ t - e.at <= Span})

\* What was let through of a caller, and how often its counter was reset.
Recent(w, c, t) == Within(passed[w][c], t)
Resets(w, c, t) == Within(forgiven[w][c], t)

\* ratelimit.go, "the point is to make abuse slow": whatever the phase of the
\* window, its sweeps and the attempts refused, no stretch of time as long as
\* the window lets through more than the two windows it can touch, and one more
\* for every login in it that succeeded.  Each of those deletes the counter of
\* its address (service.go 117), whoever else is being tried from there, so the
\* ten attempts a minute from one address of security.md 49 are the limit only
\* of an address from which no login succeeds.
LimitPerWindow ==
    \A w \in Windows, c \in Callers, t \in 0 .. now :
        Recent(w, c, t) <= Limit[w] * (2 + Resets(w, c, t))

\* commandlimit.go, "one visitor spending their budget must not spend
\* another's": whoever a command would be refused to has been let through as
\* often as the limit within the window; being refused does not prolong it, nor
\* do the commands of others count.
RefusedOverOwnBudget ==
    \A a \in Accounts, ip \in CommandFrom :
        Budget(a) \in Windows /\ ~Fits(Budget(a), KeyOf(a, ip)) =>
            Recent(Budget(a), <<a, ip>>, now) >= Limit[Budget(a)]

\* sweep, "so the map does not grow with every address that ever showed up":
\* of the entries a new one finds rolled over, fewer than SweepAt stay.
MapIsSwept ==
    \A w \in Windows : \A k \in DOMAIN entries[w] :
        Cardinality({o \in DOMAIN entries[w] :
                        entries[w][k].start - entries[w][o].start > Span})
            < SweepAt
=============================================================================
