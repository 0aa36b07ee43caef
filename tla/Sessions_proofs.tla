-------------------------- MODULE Sessions_proofs --------------------------
(***************************************************************************)
(* Proofs about the sessions, for any accounts, requests, tokens and any   *)
(* session_ttl.                                                            *)
(***************************************************************************)
EXTENDS Sessions, TLAPS

-----------------------------------------------------------------------------
(* Types                                                                   *)

\* What a request has read, by where it is.
LEMMA WhatIsRead ==
    ASSUME TypeOK, NEW r \in Requests
    PROVE  /\ req[r] \in Request
           /\ At(r, "verify") => req[r].user \in Users /\ req[r].seen \in Account
           /\ At(r, "open") => req[r].user \in Users /\ req[r].seen \in Account
           /\ At(r, "account") => /\ req[r].user \in Users /\ req[r].token \in Tokens
                                  /\ req[r].created \in 0 .. MaxTime
           /\ At(r, "drop") => req[r].user \in Users /\ req[r].token \in Tokens
           /\ At(r, "extend") => /\ req[r].user \in Users /\ req[r].token \in Tokens
                                 /\ req[r].seen \in Account
                                 /\ req[r].until \in 0 .. MaxTime + TTL
           /\ At(r, "granted") => /\ req[r].user \in Users /\ req[r].token \in Tokens
                                  /\ req[r].seen \in Account
           /\ ~At(r, "idle") => req[r].user \in Users
  <1>1. req[r] \in Request
    BY DEF TypeOK
  <1> QED
    BY <1>1 DEF Request, At

LEMMA ExpiryInRange == TypeOK => Expiry \in 0 .. MaxTime + TTL
  BY SessionsAssumption DEF SessionsAssumption, TypeOK, Expiry

LEMMA TypeInit == Init => TypeOK
  <1> SUFFICES ASSUME Init PROVE TypeOK
    OBVIOUS
  <1>1. now \in 0 .. MaxTime
    BY SessionsAssumption DEF SessionsAssumption, Init
  <1>2. account \in [Users -> Account]
    <2>1. ASSUME NEW row \in [role : Roles, password : {0}, active : {TRUE}]
          PROVE  row \in Account
      <3>1. row = [role |-> row.role, password |-> 0, active |-> TRUE] /\ row.role \in Roles
        OBVIOUS
      <3>2. 0 \in 0 .. MaxPassword
        BY SessionsAssumption DEF SessionsAssumption
      <3> QED
        BY <3>1, <3>2, Zenon DEF Account
    <2> QED
      BY <2>1 DEF Init
  <1>3. req \in [Requests -> Request]
    BY DEF Init, Idle, Request
  <1> QED
    BY <1>1, <1>2, <1>3 DEF Init, TypeOK

\* The variables but the history, which Remember leaves to a lemma of its own.
Rows ==
    /\ now \in 0 .. MaxTime
    /\ account \in [Users -> Account]
    /\ sessions \in [Tokens -> Session \cup {NoSession}]
    /\ minted \subseteq Tokens
    /\ req \in [Requests -> Request]
    /\ sweeping \subseteq Users
    /\ interrupted \subseteq Users

LEMMA LoginKeepsTypes ==
    ASSUME TypeOK, NEW r \in Requests, Login(r) PROVE Rows'
  <1>1. ASSUME NEW u \in Users, LoginRead(r, u) PROVE Rows'
    <2>1. [at |-> "verify", user |-> u, seen |-> account[u]] \in Request
      BY DEF TypeOK, Request
    <2> QED
      BY <1>1, <2>1 DEF TypeOK, Rows, LoginRead, Becomes
  <1>2. CASE LoginDemo(r)
    <2>1. [at |-> "open", user |-> DemoUser, seen |-> account[DemoUser]] \in Request
      BY <1>2 DEF TypeOK, LoginDemo, Request
    <2> QED
      BY <1>2, <2>1 DEF TypeOK, Rows, LoginDemo, Becomes
  <1>3. CASE LoginVerify(r)
    <2>1. [at |-> "open", user |-> req[r].user, seen |-> req[r].seen] \in Request
      BY <1>3, WhatIsRead DEF LoginVerify, Request
    <2> QED
      BY <1>3, <2>1 DEF TypeOK, Rows, LoginVerify, Becomes
  <1>4. ASSUME NEW t \in Tokens, LoginOpen(r, t) PROVE Rows'
    <2> DEFINE row == [user |-> req[r].user, created |-> now, expires |-> Expiry,
                       opened |-> req[r].seen,
                       late |-> \/ req[r].seen.password # account[req[r].user].password
                                \/ ~account[req[r].user].active]
    <2>1. req[r].user \in Users /\ req[r].seen \in Account
      BY <1>4, WhatIsRead DEF LoginOpen
    <2>2. row.late \in BOOLEAN
      OBVIOUS
    <2>3. row \in Session
      BY <2>1, <2>2, ExpiryInRange DEF TypeOK, Session
    <2>4. Idle \in Request
      BY DEF Idle, Request
    <2>5. sessions' = [sessions EXCEPT ![t] = row] /\ minted' = minted \cup {t}
      BY <1>4 DEF LoginOpen
    <2> HIDE DEF row
    <2> QED
      BY <1>4, <2>3, <2>4, <2>5 DEF TypeOK, Rows, LoginOpen, Becomes
  <1> QED
    BY <1>1, <1>2, <1>3, <1>4 DEF Login

LEMMA AuthenticateKeepsTypes ==
    ASSUME TypeOK, NEW r \in Requests, Authenticate(r) PROVE Rows'
  <1>1. ASSUME NEW t \in Tokens, SessionRead(r, t) PROVE Rows'
    <2>1. sessions[t] \in Session
      BY <1>1 DEF TypeOK, SessionRead, Live, HasRow
    <2>2. [at |-> "account", user |-> sessions[t].user, token |-> t,
           created |-> sessions[t].created] \in Request
      BY <2>1 DEF Session, Request
    <2> QED
      BY <1>1, <2>2 DEF TypeOK, Rows, SessionRead, Becomes
  <1>2. CASE AccountRead(r)
    <2> DEFINE user == req[r].user
               token == req[r].token
    <2>1. user \in Users /\ token \in Tokens
      BY <1>2, WhatIsRead DEF AccountRead
    <2>2. account[user] \in Account
      BY <2>1 DEF TypeOK
    <2>3. [at |-> "drop", user |-> user, token |-> token] \in Request
      BY <2>1 DEF Request
    <2>4. [at |-> "extend", user |-> user, token |-> token, seen |-> account[user],
           until |-> Expiry] \in Request
      BY <2>1, <2>2, ExpiryInRange DEF Request
    <2>5. [at |-> "granted", user |-> user, token |-> token,
           seen |-> account[user]] \in Request
      BY <2>1, <2>2 DEF Request
    <2> QED
      BY <1>2, <2>3, <2>4, <2>5 DEF TypeOK, Rows, AccountRead, Becomes
  <1>3. CASE DropSession(r)
    <2>1. Idle \in Request
      BY DEF Idle, Request
    <2> QED
      BY <1>3, <2>1 DEF TypeOK, Rows, DropSession, Becomes
  <1>4. CASE Extend(r)
    <2>1. /\ req[r].user \in Users /\ req[r].token \in Tokens
          /\ req[r].seen \in Account /\ req[r].until \in 0 .. MaxTime + TTL
      BY <1>4, WhatIsRead DEF Extend
    <2>2. [at |-> "granted", user |-> req[r].user, token |-> req[r].token,
           seen |-> req[r].seen] \in Request
      BY <2>1 DEF Request
    <2>3. Extended(r) \in [Tokens -> Session \cup {NoSession}]
      BY <2>1 DEF TypeOK, Extended, HasRow, Session
    <2> QED
      BY <1>4, <2>2, <2>3 DEF TypeOK, Rows, Extend, Becomes
  <1> QED
    BY <1>1, <1>2, <1>3, <1>4 DEF Authenticate

LEMMA AdministrationKeepsTypes ==
    ASSUME TypeOK,
           \/ \E u \in Users : Administration(u)
           \/ \E role \in PlainRoles : MoveDemoUser(role)
    PROVE  Rows'
  <1> USE DEF TypeOK, Rows, Account, WillSweep
  <1>1. ASSUME NEW u \in Users, Passwd(u) PROVE Rows'
    BY <1>1, SessionsAssumption DEF Passwd, SessionsAssumption
  <1>2. ASSUME NEW u \in Users, NEW role \in Roles, UserRole(u, role) PROVE Rows'
    BY <1>2 DEF UserRole
  <1>3. ASSUME NEW u \in Users, NEW active \in BOOLEAN, SetActive(u, active) PROVE Rows'
    BY <1>3 DEF SetActive
  <1>4. ASSUME NEW u \in Users, Sweep(u) PROVE Rows'
    BY <1>4 DEF Sweep
  <1>5. ASSUME NEW u \in Users, Interrupt(u) PROVE Rows'
    BY <1>5 DEF Interrupt
  <1>6. ASSUME NEW role \in PlainRoles, MoveDemoUser(role) PROVE Rows'
    BY <1>6, SessionsAssumption DEF MoveDemoUser, SessionsAssumption
  <1> QED
    BY <1>1, <1>2, <1>3, <1>4, <1>5, <1>6 DEF Administration

LEMMA OthersKeepTypes ==
    ASSUME TypeOK,
           \/ \E r \in Requests : Return(r)
           \/ \E t \in Tokens : Logout(t)
           \/ Prune \/ Pass
    PROVE  Rows'
  <1> USE DEF TypeOK, Rows
  <1>1. ASSUME NEW r \in Requests, Return(r) PROVE Rows'
    <2>1. Idle \in Request
      BY DEF Idle, Request
    <2> QED
      BY <1>1, <2>1 DEF Return, Becomes
  <1>2. ASSUME NEW t \in Tokens, Logout(t) PROVE Rows'
    BY <1>2 DEF Logout
  <1>3. CASE Prune
    BY <1>3 DEF Prune
  <1>4. CASE Pass
    BY <1>4, SessionsAssumption DEF Pass, SessionsAssumption
  <1> QED
    BY <1>1, <1>2, <1>3, <1>4

LEMMA StepKeepsTypes == ASSUME TypeOK, Step PROVE Rows'
  BY LoginKeepsTypes, AuthenticateKeepsTypes, AdministrationKeepsTypes, OthersKeepTypes
     DEF Step

\* What Remember keeps are roles.
LEMMA PastIsRoles ==
    ASSUME TypeOK, Rows', Remember PROVE past' \in [Requests -> SUBSET Roles]
  <1> SUFFICES ASSUME NEW r \in Requests, req'[r].at # "idle"
               PROVE  /\ past[r] \subseteq Roles
                      /\ Held(account[req'[r].user]) \subseteq Roles
                      /\ Held(account'[req'[r].user]) \subseteq Roles
    BY DEF Remember
  <1>1. past[r] \subseteq Roles
    BY DEF TypeOK
  <1>2. req'[r] \in Request
    BY DEF Rows
  <1>3. req'[r].user \in Users
    BY <1>2 DEF Request
  <1>4. account[req'[r].user] \in Account /\ account'[req'[r].user] \in Account
    BY <1>3 DEF TypeOK, Rows
  <1> QED
    BY <1>1, <1>4 DEF Held, Account

LEMMA NextKeepsTypes == TypeOK /\ [Next]_vars => TypeOK'
  <1> SUFFICES ASSUME TypeOK, [Next]_vars PROVE TypeOK'
    OBVIOUS
  <1>1. CASE UNCHANGED vars
    BY <1>1 DEF vars, TypeOK
  <1>2. CASE Next
    <2>1. Rows' /\ past' \in [Requests -> SUBSET Roles]
      BY <1>2, StepKeepsTypes, PastIsRoles DEF Next
    <2> QED
      BY <2>1 DEF Rows, TypeOK
  <1> QED
    BY <1>1, <1>2

\* Authenticate and the rest: every variable keeps its type, so no request holds
\* a row, a token or a role that the tables cannot have given it.
THEOREM TypeCorrect == Spec => []TypeOK
  BY TypeInit, NextKeepsTypes, PTL DEF Spec

-----------------------------------------------------------------------------
(* The rights of a request                                                 *)

\* RightsAreCurrent from the moment the account is read, so that it survives
\* the statement that extends the session.
SeenWasHeld ==
    \A r \in Requests :
        At(r, "extend") \/ At(r, "granted") => req[r].seen.role \in past[r]

LEMMA SeenInit == Init => SeenWasHeld
  BY DEF Init, SeenWasHeld, At, Idle

\* A request has its rights from before, or from the account as it now is.
LEMMA SeenIsHeld ==
    ASSUME TypeOK, SeenWasHeld, Step,
           NEW r \in Requests, req'[r].at \in {"extend", "granted"}
    PROVE  req'[r].seen.role \in past[r] \cup Held(account'[req'[r].user])
  <1> USE DEF At, Becomes
  <1>1. req[r].at \in {"extend", "granted"} => req[r].seen.role \in past[r]
    BY DEF SeenWasHeld
  <1>2. req \in [Requests -> Request]
    BY DEF TypeOK
  <1>3. CASE req'[r] = req[r]
    BY <1>1, <1>3
  <1>4. ASSUME NEW q \in Requests, Login(q) PROVE req'[r] = req[r]
    <2>1. req'[q].at \in {"verify", "open", "idle"} /\ (q # r => req'[r] = req[r])
      BY <1>2, <1>4 DEF Login, LoginRead, LoginDemo, LoginVerify, LoginOpen, Idle
    <2> QED
      BY <2>1
  <1>5. ASSUME NEW q \in Requests, Authenticate(q)
        PROVE  \/ req'[r] = req[r]
               \/ req'[r].seen.role \in past[r] \cup Held(account'[req'[r].user])
    <2>1. q # r => req'[r] = req[r]
      BY <1>2, <1>5 DEF Authenticate, SessionRead, AccountRead, DropSession, Extend
    <2>2. ASSUME NEW t \in Tokens, SessionRead(r, t) PROVE FALSE
      BY <1>2, <2>2 DEF SessionRead
    <2>3. CASE AccountRead(r)
      <3>1. /\ req'[r].user = req[r].user /\ req'[r].seen = account[req[r].user]
            /\ account[req[r].user].active /\ account' = account
        BY <1>2, <2>3 DEF AccountRead, Usable
      <3> QED
        BY <3>1 DEF Held
    <2>4. CASE DropSession(r)
      BY <1>2, <2>4 DEF DropSession, Idle
    <2>5. CASE Extend(r)
      <3>1. req'[r].seen = req[r].seen /\ req[r].at = "extend"
        BY <1>2, <2>5 DEF Extend
      <3> QED
        BY <1>1, <3>1
    <2> QED
      BY <1>5, <2>1, <2>2, <2>3, <2>4, <2>5 DEF Authenticate
  <1>6. ASSUME NEW q \in Requests, Return(q) PROVE req'[r] = req[r]
    BY <1>2, <1>6 DEF Return, Idle
  <1>7. ASSUME NEW u \in Users, Administration(u) PROVE req'[r] = req[r]
    BY <1>7 DEF Administration, Passwd, UserRole, SetActive, Sweep, Interrupt
  <1>8. ASSUME \/ \E t \in Tokens : Logout(t)
               \/ \E role \in PlainRoles : MoveDemoUser(role)
               \/ Prune \/ Pass
        PROVE  req'[r] = req[r]
    BY <1>8 DEF Logout, MoveDemoUser, Prune, Pass
  <1> QED
    BY <1>3, <1>4, <1>5, <1>6, <1>7, <1>8 DEF Step

LEMMA NextKeepsSeen == TypeOK /\ SeenWasHeld /\ [Next]_vars => SeenWasHeld'
  <1> SUFFICES ASSUME TypeOK, SeenWasHeld, [Next]_vars PROVE SeenWasHeld'
    OBVIOUS
  <1>1. CASE UNCHANGED vars
    BY <1>1 DEF vars, SeenWasHeld, At
  <1>2. CASE Next
    <2> SUFFICES ASSUME NEW r \in Requests, req'[r].at \in {"extend", "granted"}
                 PROVE  req'[r].seen.role \in past'[r]
      BY DEF SeenWasHeld, At
    <2>1. req'[r].seen.role \in past[r] \cup Held(account'[req'[r].user])
      BY <1>2, SeenIsHeld DEF Next
    <2>2. past[r] \cup Held(account'[req'[r].user]) \subseteq past'[r]
      BY <1>2 DEF Next, Remember
    <2> QED
      BY <2>1, <2>2
  <1> QED
    BY <1>1, <1>2

\* Authenticate: however the statements of requests, logins and administrators
\* interleave, a request only ever runs with a role its account held, enabled,
\* while it was under way.
THEOREM RightsCorrect == Spec => []RightsAreCurrent
  <1>1. SeenWasHeld => RightsAreCurrent
    BY DEF SeenWasHeld, RightsAreCurrent
  <1> QED
    BY <1>1, TypeInit, NextKeepsTypes, SeenInit, NextKeepsSeen, PTL DEF Spec

-----------------------------------------------------------------------------
(* The end of a session                                                    *)

\* What a step writes to a session that was there, or was never there.
LEMMA RowsOnlyFromLogin ==
    ASSUME TypeOK, Step, NEW t \in Tokens, HasRow(t)'
    PROVE  HasRow(t) \/ t \notin minted
  <1> USE DEF TypeOK, HasRow
  <1>1. ASSUME NEW r \in Requests, Login(r) PROVE HasRow(t) \/ t \notin minted
    BY <1>1 DEF Login, LoginRead, LoginDemo, LoginVerify, LoginOpen
  <1>2. ASSUME NEW r \in Requests, Authenticate(r) PROVE HasRow(t)
    BY <1>2 DEF Authenticate, SessionRead, AccountRead, DropSession, Extend, Extended
  <1>3. ASSUME NEW u \in Users, Administration(u) PROVE HasRow(t)
    BY <1>3 DEF Administration, Passwd, UserRole, SetActive, Sweep, Interrupt
  <1>4. ASSUME \/ \E r \in Requests : Return(r)
               \/ \E k \in Tokens : Logout(k)
               \/ \E role \in PlainRoles : MoveDemoUser(role)
               \/ Prune \/ Pass
        PROVE  HasRow(t)
    BY <1>4 DEF Return, Logout, MoveDemoUser, Prune, Pass
  <1> QED
    BY <1>1, <1>2, <1>3, <1>4 DEF Step

\* ExtendSession is an UPDATE, and tokens are fresh: a logout, a sweep or a
\* prune is final, for any number of requests under way with the token.
THEOREM EndedIsFinal == Spec => EndedStaysEnded
  <1>1. TypeOK /\ [Next]_vars =>
            [\A t \in Tokens : t \in minted /\ ~HasRow(t) => ~HasRow(t)']_vars
    BY RowsOnlyFromLogin DEF Next
  <1> QED
    BY <1>1, TypeInit, NextKeepsTypes, PTL DEF Spec, EndedStaysEnded

\* SessionByID and DeleteExpiredSessions: the prune deletes exactly the rows
\* that no request would be let in with.
THEOREM PruneIsExact == Spec => PruneMatchesRead
  <1>1. TypeOK /\ [Next]_vars =>
            [\A t \in Tokens : Prune /\ HasRow(t) => (HasRow(t)' <=> Live(t))]_vars
    <2> SUFFICES ASSUME TypeOK, Prune, NEW t \in Tokens, HasRow(t)
                 PROVE  HasRow(t)' <=> Live(t)
      OBVIOUS
    <2>1. sessions[t] \in Session
      BY DEF TypeOK, HasRow
    <2>2. now \in Nat /\ sessions[t].expires \in Nat
      BY <2>1, SessionsAssumption DEF TypeOK, Session, SessionsAssumption
    <2>3. HasRow(t)' <=> ~Expired(t)
      BY DEF Prune, HasRow
    <2> QED
      BY <2>2, <2>3 DEF Expired, Live
  <1> QED
    BY <1>1, TypeInit, NextKeepsTypes, PTL DEF Spec, PruneMatchesRead

-----------------------------------------------------------------------------
(* Changes of an account                                                   *)

LEMMA ChangesInit == Init => ChangesEndSessions
  BY DEF Init, ChangesEndSessions, HasRow

\* The session of a login is of the account as it is, or is marked late.
LEMMA LoginKeepsChanges ==
    ASSUME TypeOK, ChangesEndSessions, NEW r \in Requests, Login(r)
    PROVE  ChangesEndSessions'
  <1> USE DEF TypeOK, ChangesEndSessions, HasRow, Unswept
  <1>1. CASE \/ \E u \in Users : LoginRead(r, u)
             \/ LoginDemo(r) \/ LoginVerify(r)
    BY <1>1 DEF LoginRead, LoginDemo, LoginVerify
  <1>2. ASSUME NEW t \in Tokens, LoginOpen(r, t) PROVE ChangesEndSessions'
    <2>1. UNCHANGED <<account, sweeping, interrupted>>
      BY <1>2 DEF LoginOpen
    <2>2. ASSUME NEW k \in Tokens, k # t PROVE sessions'[k] = sessions[k]
      BY <1>2, <2>2 DEF LoginOpen
    <2>3. LET u == sessions'[t].user
          IN  ~sessions'[t].late =>
                /\ account[u].active
                /\ account[u].password = sessions'[t].opened.password
      BY <1>2 DEF LoginOpen
    <2> QED
      BY <2>1, <2>2, <2>3
  <1> QED
    BY <1>1, <1>2 DEF Login

\* A request deletes a session or changes its expiry.
LEMMA AuthenticateKeepsChanges ==
    ASSUME TypeOK, ChangesEndSessions, NEW r \in Requests, Authenticate(r)
    PROVE  ChangesEndSessions'
  <1> USE DEF TypeOK, ChangesEndSessions, HasRow, Unswept
  <1>1. CASE (\E t \in Tokens : SessionRead(r, t)) \/ AccountRead(r)
    BY <1>1 DEF SessionRead, AccountRead
  <1>2. CASE DropSession(r)
    BY <1>2 DEF DropSession
  <1>3. CASE Extend(r)
    <2>1. UNCHANGED <<account, sweeping, interrupted>>
      BY <1>3 DEF Extend
    <2>2. ASSUME NEW t \in Tokens, sessions'[t] # NoSession
          PROVE  /\ sessions[t] # NoSession
                 /\ sessions'[t].user = sessions[t].user
                 /\ sessions'[t].late = sessions[t].late
                 /\ sessions'[t].opened = sessions[t].opened
      <3>1. CASE sessions' = sessions
        BY <2>2, <3>1
      <3>2. CASE sessions' = Extended(r) /\ t = req[r].token /\ HasRow(t)
        <4>1. sessions[t] \in Session
          BY <3>2
        <4>2. sessions'[t] = [sessions[t] EXCEPT !.expires = req[r].until]
          BY <3>2 DEF Extended
        <4> QED
          BY <4>1, <4>2, <3>2 DEF Session
      <3>3. CASE sessions' = Extended(r) /\ ~(t = req[r].token /\ HasRow(t))
        BY <2>2, <3>3 DEF Extended
      <3> QED
        BY <1>3, <3>1, <3>2, <3>3 DEF Extend
    <2> QED
      BY <2>1, <2>2
  <1> QED
    BY <1>1, <1>2, <1>3 DEF Authenticate

\* A change of the password and a disabling announce the sweep.
LEMMA AdministrationKeepsChanges ==
    ASSUME TypeOK, ChangesEndSessions,
           \/ \E u \in Users : Administration(u)
           \/ \E role \in PlainRoles : MoveDemoUser(role)
    PROVE  ChangesEndSessions'
  <1> USE DEF TypeOK, ChangesEndSessions, HasRow, Unswept, WillSweep, Account, Session
  <1>1. ASSUME NEW u \in Users, Passwd(u) PROVE ChangesEndSessions'
    BY <1>1 DEF Passwd
  <1>2. ASSUME NEW u \in Users, NEW role \in Roles, UserRole(u, role)
        PROVE  ChangesEndSessions'
    BY <1>2 DEF UserRole
  <1>3. ASSUME NEW u \in Users, NEW active \in BOOLEAN, SetActive(u, active)
        PROVE  ChangesEndSessions'
    BY <1>3 DEF SetActive
  <1>4. ASSUME NEW u \in Users, Sweep(u) PROVE ChangesEndSessions'
    BY <1>4 DEF Sweep, SessionsOf
  <1>5. ASSUME NEW u \in Users, Interrupt(u) PROVE ChangesEndSessions'
    BY <1>5 DEF Interrupt
  <1>6. ASSUME NEW role \in PlainRoles, MoveDemoUser(role) PROVE ChangesEndSessions'
    BY <1>6 DEF MoveDemoUser
  <1> QED
    BY <1>1, <1>2, <1>3, <1>4, <1>5, <1>6 DEF Administration

LEMMA NextKeepsChanges ==
    TypeOK /\ ChangesEndSessions /\ [Next]_vars => ChangesEndSessions'
  <1> SUFFICES ASSUME TypeOK, ChangesEndSessions, [Next]_vars
               PROVE  ChangesEndSessions'
    OBVIOUS
  <1>1. CASE UNCHANGED vars
    BY <1>1 DEF vars, ChangesEndSessions, HasRow, Unswept
  <1>2. CASE \/ \E r \in Requests : Return(r)
             \/ \E t \in Tokens : Logout(t)
             \/ Prune \/ Pass
    BY <1>2 DEF Return, Logout, Prune, Pass, TypeOK, ChangesEndSessions, HasRow, Unswept
  <1> QED
    BY <1>1, <1>2, LoginKeepsChanges, AuthenticateKeepsChanges,
       AdministrationKeepsChanges DEF Next, Step

\* SetPassword, SetActive and the sweep after them: no session outlives the
\* password or the disabling of its account, but for the two gaps it names.
THEOREM ChangesCorrect == Spec => []ChangesEndSessions
  BY TypeInit, NextKeepsTypes, ChangesInit, NextKeepsChanges, PTL DEF Spec

=============================================================================
