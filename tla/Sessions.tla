------------------------------ MODULE Sessions ------------------------------
(***************************************************************************)
(* internal/auth: turning credentials into sessions (Login, LoginDemo),    *)
(* sessions into identities on every request (Authenticate), and what      *)
(* meanwhile happens to accounts from the command line (cmd/seid/user.go), *)
(* from Bootstrap on another start and from the hourly prune.              *)
(*                                                                         *)
(* One action is one statement on the database, which is where requests    *)
(* and processes meet: a request works on the rows it has read, however    *)
(* much has changed since.  A role is a name here; what it grants is in    *)
(* the code and does not change while a process runs.  A password is the   *)
(* number of times it has been changed, and its hash is that number.       *)
(***************************************************************************)
EXTENDS Naturals, TLC

CONSTANTS
    Users,          \* the accounts
    DemoUser,       \* demo_user; not one of Users when demo_mode is off
    Roles,          \* the role names
    PlainRoles,     \* the roles that hold no more than demo_commands allows
    Requests,       \* the requests in flight at once
    Tokens,         \* the tokens that can be minted; each is random
    TTL,            \* session_ttl, in units of time
    MaxTime,        \* bound on the clock
    MaxPassword,    \* bound on the password changes of an account
    NoSession       \* no row

ASSUME SessionsAssumption ==
    /\ PlainRoles \subseteq Roles
    /\ TTL \in Nat \ {0}
    /\ MaxTime \in Nat
    /\ MaxPassword \in Nat

VARIABLES
    now,            \* the clock
    account,        \* sei_users
    sessions,       \* sei_sessions, by token (the code keeps the token's hash)
    minted,         \* the tokens handed out so far
    req,            \* where each request is, and what it has read
    sweeping,       \* accounts whose sessions are about to be deleted
    interrupted,    \* accounts an administrator's process died on before that
    past            \* history: the roles a request could have run with

vars == <<now, account, sessions, minted, req, sweeping, interrupted, past>>

Account == [role : Roles, password : 0 .. MaxPassword, active : BOOLEAN]

\* opened is the account row the login worked on, and late says that meanwhile
\* the account had another password or was disabled.  They are history: the code
\* keeps no such columns.
Session == [user : Users, created : 0 .. MaxTime, expires : 0 .. MaxTime + TTL,
            opened : Account, late : BOOLEAN]

\* What a request is about to do with what it has read.
Request ==
    [at : {"idle"}]
    \cup [at : {"verify"}, user : Users, seen : Account]
    \cup [at : {"open"}, user : Users, seen : Account]
    \cup [at : {"account"}, user : Users, token : Tokens, created : 0 .. MaxTime]
    \cup [at : {"drop"}, user : Users, token : Tokens]
    \cup [at : {"extend"}, user : Users, token : Tokens, seen : Account,
          until : 0 .. MaxTime + TTL]
    \cup [at : {"granted"}, user : Users, token : Tokens, seen : Account]

Idle == [at |-> "idle"]

TypeOK ==
    /\ now \in 0 .. MaxTime
    /\ account \in [Users -> Account]
    /\ sessions \in [Tokens -> Session \cup {NoSession}]
    /\ minted \subseteq Tokens
    /\ req \in [Requests -> Request]
    /\ sweeping \subseteq Users
    /\ interrupted \subseteq Users
    /\ past \in [Requests -> SUBSET Roles]

\* userCreate and ensureDemoUser: active, and the demo account on a plain role.
Init ==
    /\ now = 0
    /\ account \in [Users -> [role : Roles, password : {0}, active : {TRUE}]]
    /\ DemoUser \in Users => account[DemoUser].role \in PlainRoles
    /\ sessions = [t \in Tokens |-> NoSession]
    /\ minted = {}
    /\ req = [r \in Requests |-> Idle]
    /\ sweeping = {}
    /\ interrupted = {}
    /\ past = [r \in Requests |-> {}]

-----------------------------------------------------------------------------
At(r, place) == req[r].at = place

Becomes(r, next) == req' = [req EXCEPT ![r] = next]

HasRow(t) == sessions[t] # NoSession

\* Variant, not the code: >= here where DeleteExpiredSessions has <=.
LiveAtExpiry(t) == HasRow(t) /\ sessions[t].expires >= now

\* SessionByID reads a row only while this holds.
Live(t) == HasRow(t) /\ sessions[t].expires > now

\* Login, up to the account: the password is still to be compared with the
\* hash that was read.  A wrong user name stops here.
LoginRead(r, u) ==
    /\ At(r, "idle")
    /\ Becomes(r, [at |-> "verify", user |-> u, seen |-> account[u]])
    /\ UNCHANGED <<now, account, sessions, minted, sweeping, interrupted>>

\* What the passwordless login demands of a row before it opens a session.
PlainEnough(row) == row.role \in PlainRoles

\* LoginDemo: only the configured demo account, and no password.
LoginDemo(r) ==
    /\ At(r, "idle")
    /\ DemoUser \in Users
    /\ account[DemoUser].active
    /\ PlainEnough(account[DemoUser])
    /\ Becomes(r, [at |-> "open", user |-> DemoUser, seen |-> account[DemoUser]])
    /\ UNCHANGED <<now, account, sessions, minted, sweeping, interrupted>>

\* The password matches the hash that was read and that row is active.
LoginVerify(r) ==
    /\ At(r, "verify")
    /\ req[r].seen.active
    /\ Becomes(r, [at |-> "open", user |-> req[r].user, seen |-> req[r].seen])
    /\ UNCHANGED <<now, account, sessions, minted, sweeping, interrupted>>

\* Variant, not the code: the TTL added to a time that is an expiry already.
ExpiryTwice == now + TTL + TTL

\* A session, opened or extended now, lasts a TTL.
Expiry == now + TTL

\* openSession: a fresh token and its row.
LoginOpen(r, t) ==
    /\ At(r, "open")
    /\ t \notin minted
    /\ minted' = minted \cup {t}
    /\ sessions' = [sessions EXCEPT ![t] =
          [user |-> req[r].user, created |-> now, expires |-> Expiry,
           opened |-> req[r].seen,
           late |-> \/ req[r].seen.password # account[req[r].user].password
                    \/ ~account[req[r].user].active]]
    /\ Becomes(r, Idle)
    /\ UNCHANGED <<now, account, sweeping, interrupted>>

\* Authenticate, SessionByID.
SessionRead(r, t) ==
    /\ At(r, "idle")
    /\ Live(t)
    /\ Becomes(r, [at |-> "account", user |-> sessions[t].user, token |-> t,
                   created |-> sessions[t].created])
    /\ UNCHANGED <<now, account, sessions, minted, sweeping, interrupted>>

PastHalfway(r) == now > req[r].created + TTL \div 2

\* Variant, not the code: Authenticate without the check of is_active.
TakesAnyAccount(row) == TRUE

\* A disabled account loses its session, and the request its answer.
Usable(row) == row.active

\* Authenticate, UserByID: the rights come from the account as it is now.
AccountRead(r) ==
    LET user == req[r].user
        token == req[r].token
        row == account[user]
    IN  /\ At(r, "account")
        /\ \/ /\ ~Usable(row)
              /\ Becomes(r, [at |-> "drop", user |-> user, token |-> token])
           \/ /\ Usable(row) /\ PastHalfway(r)
              /\ Becomes(r, [at |-> "extend", user |-> user, token |-> token,
                             seen |-> row, until |-> Expiry])
           \/ /\ Usable(row) /\ ~PastHalfway(r)
              /\ Becomes(r, [at |-> "granted", user |-> user, token |-> token,
                             seen |-> row])
        /\ UNCHANGED <<now, account, sessions, minted, sweeping, interrupted>>

\* Authenticate, DeleteSession of a disabled account; its error is ignored.
DropSession(r) ==
    /\ At(r, "drop")
    /\ sessions' \in {sessions, [sessions EXCEPT ![req[r].token] = NoSession]}
    /\ Becomes(r, Idle)
    /\ UNCHANGED <<now, account, minted, sweeping, interrupted>>

\* Variant, not the code: INSERT ... ON DUPLICATE KEY UPDATE.
ExtendedUpsert(r) ==
    [sessions EXCEPT ![req[r].token] =
        [user |-> req[r].user, created |-> now, expires |-> req[r].until,
         opened |-> req[r].seen, late |-> FALSE]]

\* The UPDATE of ExtendSession, which touches no row that is gone.
Extended(r) ==
    IF HasRow(req[r].token)
    THEN [sessions EXCEPT ![req[r].token].expires = req[r].until]
    ELSE sessions

\* Authenticate, ExtendSession; its error is only logged.
Extend(r) ==
    /\ At(r, "extend")
    /\ sessions' \in {sessions, Extended(r)}
    /\ Becomes(r, [at |-> "granted", user |-> req[r].user,
                   token |-> req[r].token, seen |-> req[r].seen])
    /\ UNCHANGED <<now, account, minted, sweeping, interrupted>>

\* The request is over: answered, refused on the way, or failed on a statement.
Return(r) ==
    /\ req[r].at \notin {"idle", "drop", "extend"}
    /\ Becomes(r, Idle)
    /\ UNCHANGED <<now, account, sessions, minted, sweeping, interrupted>>

\* Logout, from whoever holds the cookie.
Logout(t) ==
    /\ HasRow(t)
    /\ sessions' = [sessions EXCEPT ![t] = NoSession]
    /\ UNCHANGED <<now, account, minted, req, sweeping, interrupted>>

\* DeleteExpiredSessions.
Expired(t) == HasRow(t) /\ sessions[t].expires <= now

\* PruneSessions, one tick.
Prune ==
    /\ \E t \in Tokens : Expired(t)
    /\ sessions' = [t \in Tokens |-> IF Expired(t) THEN NoSession
                                     ELSE sessions[t]]
    /\ UNCHANGED <<now, account, minted, req, sweeping, interrupted>>

-----------------------------------------------------------------------------
\* Processes of an administrator or of another start.  Each account has at
\* most one of them at a time.

\* Variant, not the code: nothing follows the change of the account.
LeavesSessions(u) == UNCHANGED sweeping

\* DeleteUserSessions is still to come.
WillSweep(u) == sweeping' = sweeping \cup {u}

\* seid user passwd, SetPassword.
Passwd(u) ==
    /\ u \notin sweeping
    /\ account[u].password < MaxPassword
    /\ account' = [account EXCEPT ![u].password = @ + 1]
    /\ WillSweep(u)
    /\ UNCHANGED <<now, sessions, minted, req, interrupted>>

\* seid user role: the sessions stay.
UserRole(u, role) ==
    /\ account' = [account EXCEPT ![u].role = role]
    /\ UNCHANGED <<now, sessions, minted, req, sweeping, interrupted>>

\* Store.SetActive.  It sweeps after disabling, unless the UPDATE changed
\* nothing, not even updated_at: then affectOne reports ErrNotFound.
SetActive(u, active) ==
    /\ u \notin sweeping
    /\ account' = [account EXCEPT ![u].active = active]
    /\ \/ ~active /\ WillSweep(u)
       \/ (active \/ ~account[u].active) /\ UNCHANGED sweeping
    /\ UNCHANGED <<now, sessions, minted, req, interrupted>>

\* ensureDemoUser of a start whose demo_commands call for another role.
MoveDemoUser(role) ==
    /\ DemoUser \in Users /\ DemoUser \notin sweeping
    /\ role \in PlainRoles /\ account[DemoUser].role # role
    /\ account' = [account EXCEPT ![DemoUser].role = role]
    /\ WillSweep(DemoUser)
    /\ UNCHANGED <<now, sessions, minted, req, interrupted>>

SessionsOf(u) == {t \in Tokens : HasRow(t) /\ sessions[t].user = u}

\* DeleteUserSessions, the second half of the three above.
Sweep(u) ==
    /\ u \in sweeping
    /\ sessions' = [t \in Tokens |-> IF t \in SessionsOf(u) THEN NoSession
                                     ELSE sessions[t]]
    /\ sweeping' = sweeping \ {u}
    /\ interrupted' = interrupted \ {u}
    /\ UNCHANGED <<now, account, minted, req>>

\* The process dies, or the statement fails, between the two halves.
Interrupt(u) ==
    /\ u \in sweeping
    /\ sweeping' = sweeping \ {u}
    /\ interrupted' = interrupted \cup {u}
    /\ UNCHANGED <<now, account, sessions, minted, req>>

Pass ==
    /\ now < MaxTime
    /\ now' = now + 1
    /\ UNCHANGED <<account, sessions, minted, req, sweeping, interrupted>>

-----------------------------------------------------------------------------
Login(r) ==
    \/ \E u \in Users : LoginRead(r, u)
    \/ LoginDemo(r)
    \/ LoginVerify(r)
    \/ \E t \in Tokens : LoginOpen(r, t)

Authenticate(r) ==
    \/ \E t \in Tokens : SessionRead(r, t)
    \/ AccountRead(r)
    \/ DropSession(r)
    \/ Extend(r)

Administration(u) ==
    \/ Passwd(u)
    \/ \E role \in Roles : UserRole(u, role)
    \/ \E active \in BOOLEAN : SetActive(u, active)
    \/ Sweep(u)
    \/ Interrupt(u)

Step ==
    \/ \E r \in Requests : Login(r) \/ Authenticate(r) \/ Return(r)
    \/ \E t \in Tokens : Logout(t)
    \/ \E u \in Users : Administration(u)
    \/ \E role \in PlainRoles : MoveDemoUser(role)
    \/ Prune
    \/ Pass

\* The roles of an active account; a disabled one has none.
Held(row) == IF row.active THEN {row.role} ELSE {}

\* The history grows while a request is under way and ends with it.
Remember ==
    past' = [r \in Requests |->
        IF req'[r].at = "idle" THEN {}
        ELSE past[r] \cup Held(account'[req'[r].user])
                     \cup IF At(r, "idle") THEN Held(account[req'[r].user])
                          ELSE {}]

Next == Step /\ Remember

Spec == Init /\ [][Next]_vars

-----------------------------------------------------------------------------
\* Between SetPassword or SetActive and the sweep after it, or when that sweep
\* was never made, which the administrator is told.
Unswept(u) == u \in sweeping \/ u \in interrupted

\* Authenticate, service.go 164-173: a request runs with a role its account
\* has held, enabled, at some moment since the request read its session.  A
\* right taken away before a request came in never serves it, though the
\* session that carries the request was opened with that right.
RightsAreCurrent ==
    \A r \in Requests : At(r, "granted") => req[r].seen.role \in past[r]

\* Logout, the sweeps and the prune: whatever requests are still under way
\* with the token, and extend it, no session comes back once it has ended.
EndedStaysEnded ==
    [][\A t \in Tokens : t \in minted /\ ~HasRow(t) => ~HasRow(t)']_vars

\* userPasswd and SetActive: a session is of the account's present password
\* and of an account that is enabled, except until the sweep and where a login
\* had read the account before it changed.
ChangesEndSessions ==
    \A t \in Tokens : HasRow(t) /\ ~sessions[t].late =>
        LET u == sessions[t].user
        IN  \/ Unswept(u)
            \/ /\ account[u].active
               /\ account[u].password = sessions[t].opened.password

\* DeleteExpiredSessions "removes rows that can no longer authenticate anyone":
\* all of them, and no others, although the read and the prune each compare the
\* expiry with the clock, and requests that have read a row extend it.
PruneMatchesRead ==
    [][\A t \in Tokens : Prune /\ HasRow(t) => (HasRow(t)' <=> Live(t))]_vars

-----------------------------------------------------------------------------
\* What comments of the code say of it.

\* user.go 181: "A password change should end every other session, or a stolen
\* cookie outlives the password it was obtained with."
PasswordEndsSessions ==
    \A t \in Tokens : HasRow(t) =>
        \/ Unswept(sessions[t].user)
        \/ account[sessions[t].user].password = sessions[t].opened.password
=============================================================================
