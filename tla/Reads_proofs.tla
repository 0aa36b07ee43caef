---------------------------- MODULE Reads_proofs ----------------------------
(***************************************************************************)
(* What the dashboard's summary says of itself, for any database, any      *)
(* length of the window and any number of writes between its statements:   *)
(* the tiles agree but for what was written, and the hours drawn are all   *)
(* that was counted.                                                       *)
(***************************************************************************)
EXTENDS Reads, FiniteSetTheorems, SequenceTheorems, WellFoundedInduction, TLAPS

\* That nothing was written is a matter of how often something was.
USE DEF still

First == Since \div Hour

\* Every hour with a notification lies between two.
Between(byHour, last) == \A h \in DOMAIN byHour : h \in Int /\ First <= h /\ h <= last

\* Requests at any page of a walk.
Forms ==
    [type : {"list"}, q : ListQueries, walk : BOOLEAN]
    \cup [type : {"detail"}, obj : Objects]
    \cup [type : {"summary"}, hours : Nat]

\* The database stays one, as of a clock that does not go back.
DataInv ==
    /\ now \in Nat /\ began \in 0 .. now /\ writes \in Nat /\ written \in Nat
    /\ ask \in Forms
    /\ IsDatabase(db, now)

\* What the statements have returned so far.  The last hour is set after both
\* series were read, and by a later clock.
GotInv ==
    /\ place = "asked" => got = Nothing
    /\ \A s \in {"hostNotes", "serviceNotes"} \cap DOMAIN got :
           Between(got[s], now \div Hour)
    /\ "lastHour" \in DOMAIN got =>
           /\ {"hostNotes", "serviceNotes"} \subseteq DOMAIN got
           /\ \A s \in {"hostNotes", "serviceNotes"} : Between(got[s], got.lastHour)
    /\ "serviceNotes" \in DOMAIN got => "lastHour" \in DOMAIN got /\ got.lastHour \in Int

\* An answer of 200 comes after the last statement.
WholeInv ==
    place = "answered" /\ status = 200 =>
        \A i \in 1 .. 8 : SummaryStatements[i] \in DOMAIN got

ReadsInv == DataInv /\ (ask.type = "summary" => GotInv /\ WholeInv)

-----------------------------------------------------------------------------
(* Arithmetic                                                              *)

\* An earlier moment is in no later hour.
LEMMA DivMonotone ==
    ASSUME NEW a \in Int, NEW b \in Int, a <= b, NEW n \in Nat \ {0}
    PROVE  a \div n \in Int /\ b \div n \in Int /\ a \div n <= b \div n
<1>1. PICK p \in Int, q \in Int : p = a \div n /\ q = b \div n
  OBVIOUS
<1>2. n * p <= a /\ b < n * q + n
  BY <1>1
<1>3. CASE q < p
  <2>1. PICK d \in Nat : p = q + 1 + d
    <3>1. p - q - 1 \in Nat /\ p = q + 1 + (p - q - 1)
      BY <1>1, <1>3
    <3> QED
      BY <3>1
  <2>2. n * p = n * q + n + n * d
    BY <2>1, <1>1
  <2>3. n * d \in Nat /\ n * q \in Int
    BY <2>1, <1>1
  <2> QED
    BY <1>2, <2>2, <2>3
<1> QED
  BY <1>1, <1>3

-----------------------------------------------------------------------------
(* The tables                                                              *)

\* The tables a detail page and the dashboard read, and their rows.
LEMMA TheTables ==
    /\ {"status", "downtimes", "acks", "notifications"} \subseteq Tables
    /\ RowsOf("status") = StatusRows /\ RowsOf("downtimes") = DowntimeRows
    /\ RowsOf("acks") = AcknowledgementRows /\ RowsOf("notifications") = NotificationRows
<1>1. \A list \in Lists : Source(list) \in Tables
  BY DEF Tables
<1>2. {"hosts", "downtimes", "acks", "notifications"} \subseteq Lists
  BY DEF Lists, StatusLists, DowntimeLists, HistoryLists
<1>3. /\ Source("hosts") = "status" /\ Source("downtimes") = "downtimes"
      /\ Source("acks") = "acks" /\ Source("notifications") = "notifications"
  BY DEF Source, StatusLists
<1>4. /\ RowsOf("status") = StatusRows /\ RowsOf("downtimes") = DowntimeRows
      /\ RowsOf("acks") = AcknowledgementRows /\ RowsOf("notifications") = NotificationRows
  BY DEF RowsOf, DowntimeLists
<1> QED
  BY <1>1, <1>2, <1>3, <1>4

\* What the reads rely on of the tables and the clock.
LEMMA TheData ==
    ASSUME DataInv
    PROVE  /\ now \in Nat /\ began \in 0 .. now
           /\ IsFiniteSet(db.status) /\ db.status \subseteq StatusRows
           /\ \A x \in db.notifications : x.at \in Nat /\ x.at <= now
           /\ ask.type = "summary" => ask.hours \in Nat
<1>1. IsFiniteSet(db.status) /\ db.status \subseteq StatusRows
  BY TheTables DEF DataInv, IsDatabase
<1>2. db.notifications \subseteq NotificationRows
  BY TheTables DEF DataInv, IsDatabase
<1>3. \A x \in db.notifications : x.at \in Nat /\ x.at <= now
  BY <1>2 DEF NotificationRows, DataInv, IsDatabase
<1>4. ask.type = "summary" => ask.hours \in Nat
  BY DEF DataInv, Forms
<1> QED
  BY <1>1, <1>3, <1>4 DEF DataInv

\* notifications: what the query finds was sent since the window began, and
\* not after now.
LEMMA HoursWithin ==
    ASSUME NEW kind, DataInv, ask.type = "summary"
    PROVE  Between(ByHour(kind), now \div Hour)
<1> SUFFICES ASSUME NEW x \in db.notifications, x.at >= Since
             PROVE  /\ x.at \div Hour \in Int
                    /\ First <= x.at \div Hour /\ x.at \div Hour <= now \div Hour
  BY DEF Between, ByHour, Notes
<1>1. x.at \in Int /\ x.at <= now /\ now \in Int
  BY TheData
<1>2. Since \in Int /\ Hour \in Nat \ {0}
  BY TheData, QueriesAssumption DEF Since, QueriesAssumption
<1>3. x.at \div Hour \in Int /\ x.at \div Hour <= now \div Hour
  BY <1>1, <1>2, DivMonotone
<1>4. First <= x.at \div Hour
  BY <1>1, <1>2, DivMonotone DEF First
<1> QED
  BY <1>3, <1>4

\* The clock moves on and the hours read so far are still within.
LEMMA WidenBetween ==
    ASSUME NEW byHour, NEW l \in Int, NEW m \in Int, l <= m, Between(byHour, l),
           First \in Int
    PROVE  Between(byHour, m)
BY DEF Between

\* Numbers have a least one.
LEMMA LeastNumber ==
    ASSUME NEW left \in SUBSET Nat, left # {}
    PROVE  \E i \in left : \A j \in left : i <= j
<1> DEFINE Less == OpToRel(<, Nat)
<1>1. IsWellFoundedOn(Less, Nat)
  BY NatLessThanWellFounded
<1>2. left \in SUBSET Nat
  OBVIOUS
<1>3. PICK m \in left : \A k \in left : <<k, m>> \notin Less
  BY <1>1, <1>2, WFMin
<1>4. ASSUME NEW k \in left PROVE m <= k
  <2>1. k \in Nat /\ m \in Nat
    BY <1>2
  <2>2. <<k, m>> \in Less <=> k < m
    BY <2>1 DEF OpToRel
  <2> HIDE DEF Less
  <2>3. ~ (k < m)
    BY <1>3, <2>2
  <2> QED
    BY <2>1, <2>3
<1> QED
  BY <1>4

\* The statements come in their order, each of them once.
LEMMA NextIsLeast ==
    ASSUME NextOfSummary # "none"
    PROVE  \E i \in 1 .. 8 : /\ NextOfSummary = SummaryStatements[i]
                             /\ ~Has(SummaryStatements[i])
                             /\ \A j \in 1 .. 8 : j < i => Has(SummaryStatements[j])
<1> DEFINE left == {i \in DOMAIN SummaryStatements : ~Has(SummaryStatements[i])}
<1>1. DOMAIN SummaryStatements = 1 .. 8
  BY DEF SummaryStatements
<1>2. left # {} /\ left \in SUBSET (1 .. 8)
  BY <1>1 DEF NextOfSummary
<1>3. \E i \in left : \A j \in left : i <= j
  BY <1>2, LeastNumber
<1>4. PICK i \in left : /\ \A j \in left : i <= j
                        /\ NextOfSummary = SummaryStatements[i]
  BY <1>2, <1>3 DEF NextOfSummary
<1>5. ASSUME NEW j \in 1 .. 8, j < i PROVE Has(SummaryStatements[j])
  BY <1>1, <1>2, <1>4, <1>5
<1> QED
  BY <1>1, <1>4, <1>5

\* After the last one all have been executed.
LEMMA NoneIsWhole ==
    ASSUME NextOfSummary = "none"
    PROVE  \A i \in 1 .. 8 : Has(SummaryStatements[i])
<1> DEFINE left == {i \in DOMAIN SummaryStatements : ~Has(SummaryStatements[i])}
<1>1. DOMAIN SummaryStatements = 1 .. 8
  BY DEF SummaryStatements
<1>2. left = {}
  <2> SUFFICES ASSUME left # {} PROVE FALSE
    OBVIOUS
  <2>1. \E i \in left : \A j \in left : i <= j
    BY <1>1, LeastNumber
  <2>2. \E i \in left : NextOfSummary = SummaryStatements[i]
    BY <2>1 DEF NextOfSummary
  <2>3. \A i \in 1 .. 8 : SummaryStatements[i] # "none"
    BY DEF SummaryStatements
  <2> QED
    BY <1>1, <2>2, <2>3
<1> QED
  BY <1>1, <1>2

-----------------------------------------------------------------------------
(* The steps                                                               *)

LEMMA InitInv == Init => ReadsInv
<1> SUFFICES ASSUME Init PROVE ReadsInv
  OBVIOUS
<1>1. PICK scene \in Scenes : /\ db \in scene.dbs /\ ask \in scene.asks
                              /\ now = scene.clock
  BY DEF Init
<1>2. /\ now \in Nat /\ began = 0 /\ writes \in Nat /\ written = 0 /\ IsDatabase(db, now)
      /\ ask \in Requests
  BY <1>1, ReadsAssumption DEF ReadsAssumption, Init
<1>3. DataInv
  BY <1>2 DEF DataInv, Requests, Forms
<1>4. place = "asked" /\ got = Nothing /\ DOMAIN got = {}
  BY DEF Init, Nothing
<1> QED
  BY <1>3, <1>4 DEF ReadsInv, GotInv, WholeInv

\* Most steps leave the clock, the tables and the request alone.
LEMMA DataUnchanged ==
    ASSUME DataInv, UNCHANGED <<db, now, ask, writes, written>>, began' \in {began, now}
    PROVE  DataInv'
BY DEF DataInv, IsDatabase

\* Nothing that has been read is in GotInv when nothing has been read.
LEMMA NothingRead ==
    ASSUME got = Nothing
    PROVE  GotInv
BY DEF GotInv, Nothing

LEMMA BeginInv == ASSUME ReadsInv, Begin PROVE ReadsInv'
<1>1. DataInv' /\ ask' = ask
  BY DataUnchanged DEF Begin, dataVars, ReadsInv
<1>2. GotInv'
  BY DEF Begin, GotInv, Nothing
<1>3. ask.type = "summary" => WholeInv'
  BY DEF Begin, Refused, WholeInv
<1> QED
  BY <1>1, <1>2, <1>3 DEF ReadsInv

\* What the statements of a summary return that its numbers are about.
LEMMA ReturnsOf ==
    /\ Returns("hosts") = {Counts("host", Since)}
    /\ Returns("hostStates") = {ByState("host")}
    /\ Returns("services") = {Counts("service", Since)}
    /\ Returns("serviceStates") = {ByState("service")}
    /\ Returns("hostNotes") = {ByHour("host")}
    /\ Returns("serviceNotes") = {ByHour("service")}
BY DEF Returns

\* The window of a summary begins at an integer, and so do its hours.
LEMMA WindowIsNumber ==
    ASSUME DataInv, ask.type = "summary"
    PROVE  First \in Int /\ now \div Hour \in Int
<1>1. Since \in Int /\ now \in Int /\ Hour \in Nat \ {0}
  BY TheData, QueriesAssumption DEF Since, QueriesAssumption
<1> QED
  BY <1>1, DivMonotone DEF First

LEMMA ExecuteInv == ASSUME ReadsInv, Execute PROVE ReadsInv'
<1>1. DataInv' /\ ask' = ask /\ place = "reading" /\ place' = "reading" /\ began' = began
      /\ now' = now
  BY DataUnchanged DEF Execute, dataVars, ReadsInv
<1> SUFFICES ASSUME ask.type = "summary" PROVE GotInv' /\ WholeInv'
  BY <1>1 DEF ReadsInv
<1>2. GotInv /\ DataInv
  BY DEF ReadsInv
<1>3. Since' = Since /\ First' = First /\ (now \div Hour)' = now \div Hour
  BY <1>1 DEF Since, First
<1>4. WholeInv'
  BY <1>1 DEF WholeInv
<1>5. PICK st : st = NextOfSummary
  OBVIOUS
<1>6. Statement = st /\ st # "none"
  BY <1>5 DEF Statement, Execute
<1>7. PICK i \in 1 .. 8 : /\ st = SummaryStatements[i] /\ ~Has(SummaryStatements[i])
                          /\ \A j \in 1 .. 8 : j < i => Has(SummaryStatements[j])
  BY <1>5, <1>6, NextIsLeast
<1>8. PICK r \in Returns(st) :
          got' = IF st = "serviceNotes"
                 THEN Extended(Extended(got, st, r), "lastHour", LastHour)
                 ELSE Extended(got, st, r)
  BY <1>6 DEF Execute, Keep
<1>9. First \in Int /\ now \div Hour \in Int
  BY <1>2, WindowIsNumber
<1>10. st # "lastHour" /\ st \notin DOMAIN got
  BY <1>7 DEF SummaryStatements, Has
<1>11. CASE st = "serviceNotes"
  <2>1. /\ DOMAIN got' = DOMAIN got \cup {st, "lastHour"} /\ got'["lastHour"] = LastHour
        /\ got'[st] = r /\ \A s \in DOMAIN got : s # "lastHour" => got'[s] = got[s]
    BY <1>8, <1>10, <1>11 DEF Extended
  <2>2. "hostNotes" \in DOMAIN got
    <3>1. i = 6
      BY <1>7, <1>11 DEF SummaryStatements
    <3> QED
      BY <1>7, <3>1 DEF SummaryStatements, Has
  <2>3. Between(r, now \div Hour) /\ Between(got["hostNotes"], now \div Hour)
    BY <1>2, <1>11, <2>2, HoursWithin, ReturnsOf DEF GotInv
  <2>4. LastHour = now \div Hour
    BY DEF LastHour
  <2>5. /\ Between(got'["hostNotes"], now \div Hour)
        /\ Between(got'["serviceNotes"], now \div Hour)
        /\ {"hostNotes", "serviceNotes"} \subseteq DOMAIN got'
    BY <1>11, <2>1, <2>2, <2>3
  <2>6. \A s \in {"hostNotes", "serviceNotes"} :
            Between(got'[s], now \div Hour) /\ Between(got'[s], got'["lastHour"])
    BY <2>1, <2>4, <2>5
  <2>7. "lastHour" \in DOMAIN got' /\ got'["lastHour"] \in Int
    BY <1>9, <2>1, <2>4
  <2> QED
    BY <1>1, <1>3, <1>4, <2>5, <2>6, <2>7 DEF GotInv, Between
<1>12. CASE st # "serviceNotes"
  <2>1. /\ DOMAIN got' = DOMAIN got \cup {st} /\ got'[st] = r
        /\ \A s \in DOMAIN got : got'[s] = got[s]
    BY <1>8, <1>10, <1>12 DEF Extended
  <2>2. ASSUME NEW s \in {"hostNotes", "serviceNotes"} \cap DOMAIN got'
        PROVE  Between(got'[s], now \div Hour)
    <3>1. CASE s = st
      <4>1. r = ByHour("host")
        BY <1>12, <3>1, <2>2, ReturnsOf
      <4> QED
        BY <1>2, <2>1, <3>1, <4>1, HoursWithin
    <3>2. CASE s # st
      BY <1>2, <2>1, <2>2, <3>2 DEF GotInv
    <3> QED
      BY <3>1, <3>2
  <2>3. "lastHour" \in DOMAIN got' =>
            /\ {"hostNotes", "serviceNotes"} \subseteq DOMAIN got'
            /\ \A s \in {"hostNotes", "serviceNotes"} : Between(got'[s], got'["lastHour"])
    BY <1>2, <1>10, <2>1 DEF GotInv
  <2>4. "serviceNotes" \in DOMAIN got' =>
            "lastHour" \in DOMAIN got' /\ got'["lastHour"] \in Int
    BY <1>2, <1>10, <1>12, <2>1 DEF GotInv
  <2> QED
    BY <1>1, <1>3, <1>4, <2>2, <2>3, <2>4 DEF GotInv, Between
<1> QED
  BY <1>11, <1>12

\* Nothing is read or changed when the answer goes out.
LEMMA RespondInv == ASSUME ReadsInv, Respond PROVE ReadsInv'
<1>1. DataInv' /\ UNCHANGED <<ask, got, now, began>> /\ place' = "answered"
  BY DataUnchanged DEF Respond, dataVars, ReadsInv
<1> SUFFICES ASSUME ask.type = "summary" PROVE GotInv' /\ WholeInv'
  BY <1>1 DEF ReadsInv
<1>2. GotInv'
  BY <1>1 DEF ReadsInv, GotInv, Between, First, Since
<1>3. \A i \in 1 .. 8 : Has(SummaryStatements[i])
  <2>1. NextOfSummary = "none"
    BY DEF Respond, Statement
  <2> QED
    BY <2>1, NoneIsWhole
<1>4. WholeInv'
  BY <1>1, <1>3 DEF WholeInv, Has, SummaryStatements
<1> QED
  BY <1>2, <1>4

\* An error takes everything with it.
LEMMA EndsInv ==
    ASSUME ReadsInv, NEW code \in {0, 500, 504}, Ends(code)
    PROVE  ReadsInv'
<1>1. DataInv' /\ ask' = ask
  BY DataUnchanged DEF Ends, dataVars, ReadsInv
<1>2. got' = Nothing /\ status' # 200
  BY DEF Ends
<1>3. GotInv' /\ WholeInv'
  BY <1>2 DEF GotInv, WholeInv, Nothing
<1> QED
  BY <1>1, <1>3 DEF ReadsInv

\* What a list is asked for has its types.
LEMMA TheQuery ==
    ASSUME DataInv, ask.type = "list"
    PROVE  /\ ask \in [type : {"list"}, q : ListQueries, walk : BOOLEAN]
           /\ ask.q \in ListQueries
           /\ Page.offset \in Int /\ Page.limit \in Int /\ Page.desc \in BOOLEAN
<1>1. ask \in [type : {"list"}, q : ListQueries, walk : BOOLEAN]
  BY DEF DataInv, Forms
<1>2. ask.q \in ListQueries
  BY <1>1
<1>3. ask.q.limit \in Int /\ ask.q.offset \in Int /\ ask.q.desc \in BOOLEAN
  BY <1>2 DEF ListQueries
<1>4. /\ Page.limit = IF ask.q.limit = Absent THEN DefaultPageSize ELSE ask.q.limit
      /\ Page.offset = IF ask.q.offset = Absent THEN 0 ELSE ask.q.offset
      /\ Page.desc = IF ask.q.sort = "" THEN DescByDefault(ask.q.list) ELSE ask.q.desc
  BY DEF Page, PageOf
<1>5. DescByDefault(ask.q.list) \in BOOLEAN
  BY DEF DescByDefault
<1>6. Page.offset \in Int /\ Page.limit \in Int
  <2>1. DefaultPageSize \in Int
    BY QueriesAssumption DEF QueriesAssumption
  <2>2. Page.limit \in Int
    BY ONLY <1>3, <1>4, <2>1
  <2>3. Page.offset = 0 \/ Page.offset = ask.q.offset
    BY <1>4
  <2>4. Page.offset \in Int
    BY <1>3, <2>3
  <2> QED
    BY <2>2, <2>4
<1>7. Page.desc \in BOOLEAN
  BY <1>3, <1>4, <1>5
<1> QED
  BY <1>1, <1>2, <1>6, <1>7

\* Only lists are walked over, and the next page is of the same list.
LEMMA NextPageAsks ==
    ASSUME DataInv, NextPage
    PROVE  /\ ask.type = "list" /\ ask.walk
           /\ ask'.type = "list" /\ ask'.walk
           /\ ask'.q = [ask.q EXCEPT !.offset = Page.offset + Page.limit]
           /\ DataInv'
<1>1. /\ ask.type = "list" /\ ask.walk /\ UNCHANGED <<db, now, writes, began, written>>
      /\ ask' = [ask EXCEPT !.q.offset = Page.offset + Page.limit]
  BY DEF NextPage, dataVars
<1>2. /\ ask \in [type : {"list"}, q : ListQueries, walk : BOOLEAN]
      /\ ask.q \in ListQueries /\ Page.offset + Page.limit \in Int
  BY <1>1, TheQuery
<1>3. [ask.q EXCEPT !.offset = Page.offset + Page.limit] \in ListQueries
  BY <1>2 DEF ListQueries
<1>4. /\ ask'.type = "list" /\ ask'.walk
      /\ ask'.q = [ask.q EXCEPT !.offset = Page.offset + Page.limit]
      /\ ask' \in [type : {"list"}, q : ListQueries, walk : BOOLEAN]
  BY <1>1, <1>2, <1>3
<1> QED
  BY <1>1, <1>4 DEF DataInv, Forms, IsDatabase

LEMMA NextPageInv == ASSUME ReadsInv, NextPage PROVE ReadsInv'
BY NextPageAsks DEF ReadsInv

\* Time passes, and what was sent still lies behind.
LEMMA TickData == ASSUME DataInv, Tick PROVE DataInv'
<1>1. /\ now' = now + 1 /\ UNCHANGED <<db, ask, began, writes, written>> /\ now \in Nat
      /\ began \in 0 .. now
  BY DEF Tick, DataInv
<1>2. \A x \in db.notifications : x.at <= now'
  BY <1>1, TheData
<1>3. IsDatabase(db, now)' 
  BY <1>1, <1>2 DEF DataInv, IsDatabase
<1> QED
  BY <1>1, <1>3 DEF DataInv

\* Time passes: what was read of past hours still is.
LEMMA TickInv == ASSUME ReadsInv, Tick PROVE ReadsInv'
<1>1. now' = now + 1 /\ UNCHANGED <<db, ask, place, began, got, status>>
  BY DEF Tick
<1>2. DataInv'
  BY <1>1, TickData DEF ReadsInv
<1> SUFFICES ASSUME ask.type = "summary" PROVE GotInv' /\ WholeInv'
  BY <1>1, <1>2 DEF ReadsInv
<1>3. GotInv /\ DataInv /\ WholeInv
  BY DEF ReadsInv
<1>4. First' = First
  BY <1>1 DEF First, Since
<1>5. First \in Int /\ now \div Hour \in Int /\ now' \div Hour \in Int
      /\ now \div Hour <= now' \div Hour
  <2>1. now \in Int /\ now' \in Int /\ now <= now' /\ Hour \in Nat \ {0}
    BY <1>1, <1>3, QueriesAssumption DEF DataInv, QueriesAssumption
  <2> QED
    BY <1>3, <2>1, DivMonotone, WindowIsNumber
<1>6. \A s \in {"hostNotes", "serviceNotes"} \cap DOMAIN got : Between(got[s], now' \div Hour)
  BY <1>3, <1>5, WidenBetween DEF GotInv
<1>7. GotInv'
  BY <1>1, <1>3, <1>4, <1>6 DEF GotInv, Between
<1> QED
  BY <1>1, <1>3, <1>7 DEF WholeInv

\* A table is replaced by rows of its own.
LEMMA TableReplaced ==
    ASSUME DataInv, NEW table \in Tables, NEW rows, Writes(table, rows),
           UNCHANGED <<now, began, ask>>, written' \in Nat,
           IsFiniteSet(rows), rows \subseteq RowsOf(table),
           table = "status" => \A x, y \in rows : x.obj = y.obj => x = y,
           table = "notifications" => \A x \in rows : x.at <= now
    PROVE  DataInv'
<1>1. /\ db' = [db EXCEPT ![table] = rows] /\ writes' \in Nat
      /\ IsDatabase(db, now)
  BY DEF Writes, DataInv
<1>2. /\ DOMAIN db' = Tables /\ db'[table] = rows
      /\ \A t \in Tables : t # table => db'[t] = db[t]
  BY <1>1 DEF IsDatabase
<1>3. \A t \in Tables : IsFiniteSet(db'[t]) /\ db'[t] \subseteq RowsOf(t)
  BY <1>1, <1>2 DEF IsDatabase
<1>4. \A x, y \in db'["status"] : x.obj = y.obj => x = y
  BY <1>1, <1>2, TheTables DEF IsDatabase
<1>5. \A x \in db'["notifications"] : x.at <= now
  BY <1>1, <1>2, TheTables DEF IsDatabase
<1>6. IsDatabase(db, now)'
  BY <1>2, <1>3, <1>4, <1>5 DEF IsDatabase
<1> QED
  BY <1>1, <1>6 DEF DataInv

\* The worker writes a row for a row, removes one, or adds one as of now.
LEMMA WorkerData == ASSUME DataInv, WorkerWrites PROVE DataInv'
<1>1. UNCHANGED <<now, ask, began>> /\ now \in Nat /\ writes \in Nat /\ written' \in Nat
  BY DEF WorkerWrites, DataInv
<1>2. \A t \in Tables : IsFiniteSet(db[t]) /\ db[t] \subseteq RowsOf(t)
  BY DEF DataInv, IsDatabase
<1>3. {"status", "downtimes", "acks", "notifications"} \subseteq Tables
  BY TheTables
<1>4. CASE StatusChanges
  <2>1. PICK y \in NewRows :
            Writes("status", {x \in db.status : x.obj # y.obj} \cup {y})
    BY <1>4 DEF StatusChanges
  <2>2. PICK others, rows : /\ others = {x \in db.status : x.obj # y.obj}
                            /\ rows = others \cup {y}
    OBVIOUS
  <2>3. IsFiniteSet(rows)
    <3>1. IsFiniteSet(db["status"]) /\ others \subseteq db["status"]
      BY <1>2, <1>3, <2>2
    <3>2. IsFiniteSet(others)
      BY <3>1, FS_Subset
    <3> QED
      BY <2>2, <3>2, FS_AddElement
  <2>4. rows \subseteq RowsOf("status")
    BY <1>2, <1>3, <2>2, TheTables, ReadsAssumption DEF ReadsAssumption
  <2>5. \A u, v \in rows : u.obj = v.obj => u = v
    BY <2>1, <2>2 DEF DataInv, IsDatabase
  <2> QED
    BY <1>1, <1>3, <2>1, <2>2, <2>3, <2>4, <2>5, TableReplaced
<1>5. CASE DowntimeEnds
  <2>1. PICK x, rows : rows = db.downtimes \ {x} /\ Writes("downtimes", rows)
    BY <1>5 DEF DowntimeEnds
  <2>2. IsFiniteSet(rows)
    BY <1>2, <1>3, <2>1, FS_RemoveElement
  <2> QED
    BY <1>1, <1>2, <1>3, <2>1, <2>2, TableReplaced
<1>6. ASSUME NEW z \in db.status, Acknowledged(z.obj) PROVE DataInv'
  <2>1. z.obj \in Objects
    BY TheData DEF StatusRows
  <2>2. PICK x, rows : /\ x = [obj |-> z.obj, at |-> now, state |-> 1]
                       /\ rows = db.acks \cup {x} /\ Writes("acks", rows)
    BY <1>6 DEF Acknowledged
  <2>3. x \in AcknowledgementRows
    BY <1>1, <2>1, <2>2 DEF AcknowledgementRows
  <2>4. IsFiniteSet(rows)
    BY <1>2, <1>3, <2>2, FS_AddElement
  <2>5. rows \subseteq RowsOf("acks")
    BY <1>2, <1>3, <2>2, <2>3, TheTables
  <2> QED
    BY <1>1, <1>3, <2>2, <2>4, <2>5, TableReplaced
<1>7. ASSUME NEW z \in db.status, Notified(z.obj) PROVE DataInv'
  <2>1. z.obj \in Objects
    BY TheData DEF StatusRows
  <2>2. PICK x, rows :
            /\ x = [obj |-> z.obj, at |-> now, state |-> 1, contact |-> writes]
            /\ rows = db.notifications \cup {x} /\ Writes("notifications", rows)
    BY <1>7 DEF Notified
  <2>3. x \in NotificationRows /\ x.at <= now
    BY <1>1, <2>1, <2>2 DEF NotificationRows
  <2>4. IsFiniteSet(rows)
    BY <1>2, <1>3, <2>2, FS_AddElement
  <2>5. rows \subseteq RowsOf("notifications") /\ \A u \in rows : u.at <= now
    BY <1>2, <1>3, <2>2, <2>3, TheTables, TheData
  <2> QED
    BY <1>1, <1>3, <2>2, <2>4, <2>5, TableReplaced
<1> QED
  BY <1>4, <1>5, <1>6, <1>7 DEF WorkerWrites

LEMMA WorkerInv == ASSUME ReadsInv, WorkerWrites PROVE ReadsInv'
<1>1. UNCHANGED <<now, ask, place, began, got, status>>
  BY DEF WorkerWrites
<1>2. DataInv'
  BY WorkerData DEF ReadsInv
<1>3. GotInv => GotInv'
  BY <1>1 DEF GotInv, Between, First, Since
<1>4. WholeInv => WholeInv'
  BY <1>1 DEF WholeInv
<1> QED
  BY <1>1, <1>2, <1>3, <1>4 DEF ReadsInv

LEMMA NextInv == ReadsInv /\ [Next]_vars => ReadsInv'
<1> SUFFICES ASSUME ReadsInv, [Next]_vars PROVE ReadsInv'
  OBVIOUS
<1>1. CASE Deadline
  BY <1>1, EndsInv DEF Deadline
<1>2. CASE Fails
  BY <1>2, EndsInv DEF Fails
<1>3. CASE UNCHANGED vars
  BY <1>3 DEF vars, dataVars, ReadsInv, DataInv, GotInv, WholeInv, Between,
              First, Since
<1> QED
  BY <1>1, <1>2, <1>3, BeginInv, ExecuteInv, RespondInv, NextPageInv, WorkerInv, TickInv
  DEF Next

\* The invariant, always.
LEMMA AlwaysInv == Spec => []ReadsInv
BY InitInv, NextInv, PTL DEF Spec

-----------------------------------------------------------------------------
(* The theorems                                                            *)

\* An answered summary has every number.
LEMMA AnsweredHas ==
    ASSUME ReadsInv, Answered("summary")
    PROVE  /\ GotInv /\ DataInv
           /\ {"hosts", "services", "hostNotes", "serviceNotes"} \subseteq DOMAIN got
<1>1. GotInv /\ WholeInv /\ DataInv
  BY DEF ReadsInv, Answered
<1>2. \A i \in 1 .. 8 : SummaryStatements[i] \in DOMAIN got
  BY <1>1 DEF WholeInv, Answered
<1>3. /\ SummaryStatements[1] = "hosts" /\ SummaryStatements[3] = "services"
      /\ SummaryStatements[5] = "hostNotes" /\ SummaryStatements[6] = "serviceNotes"
  BY DEF SummaryStatements
<1> QED
  BY <1>1, <1>2, <1>3

\* summary.go, "Every hour in the window": for any window, any number of
\* notifications and of hours that begin while the summary is read, the hours
\* drawn add up to the number next to them.
THEOREM HoursCorrect == Spec => []HoursAddUp
<1>1. ReadsInv => HoursAddUp
  <2> SUFFICES ASSUME ReadsInv, Answered("summary"),
                      NEW byHour \in {got.hostNotes, got.serviceNotes}
               PROVE  Shown(byHour) = MapThenSumSet(LAMBDA h : byHour[h], DOMAIN byHour)
    BY DEF HoursAddUp
  <2>1. /\ Between(byHour, got.lastHour) /\ got.lastHour \in Int
        /\ First \in Int
    BY AnsweredHas, WindowIsNumber DEF GotInv, Answered
  <2>2. ASSUME NEW h \in DOMAIN byHour PROVE h \in Hours
    <3>1. h \in Int /\ First <= h /\ h <= got.lastHour
      BY <2>1 DEF Between
    <3>2. h - First \in 0 .. got.lastHour - First /\ h = First + (h - First)
      BY <2>1, <3>1
    <3> QED
      BY <3>2 DEF Hours, First
  <2>3. DOMAIN byHour \cap Hours = DOMAIN byHour
    BY <2>2
  <2> QED
    BY <2>3 DEF Shown
<1> QED
  BY <1>1, AlwaysInv, PTL

-----------------------------------------------------------------------------
(* What a request may be answered, statement by statement                  *)

\* The statements whose results depend on no clock.
Timeless ==
    {"count", "rows", "object", "downtimes", "ack", "hosts", "hostStates", "services",
     "serviceStates", "oldest"}

\* A request that was not refused is under way, or answered.
Underway == place = "reading" \/ (place = "answered" /\ status = 200)

\* While nothing is written, what was read is what would be read now.
Fresh ==
    still /\ place # "asked" =>
        \A s \in Timeless \cap DOMAIN got : got[s] \in Returns(s)

\* A list's page is read when there are rows, after they were counted.
ListInv ==
    ask.type = "list" =>
        /\ Underway => ~Refuses(ask.q, began)
        /\ place = "answered" /\ status = 200 => Has("count") /\ (got.count > 0 => Has("rows"))

Own(rows) == \A i \in DOMAIN rows : rows[i].obj = ask.obj

\* A detail page reads its object first, and on its account the others.
DetailInv ==
    /\ Has("ack") \/ Has("downtimes") => ask.type = "detail"
    /\ ask.type = "detail" /\ DOMAIN got # {} =>
           /\ Has("object")
           /\ \A x \in got.object : x.obj = ask.obj
           /\ \A x, y \in got.object : x = y
           /\ Has("ack") => Own(got.ack) /\ \A x \in got.object : x.acked = 1
           /\ Has("downtimes") => Own(got.downtimes)

AnswerInv == DataInv /\ Fresh /\ ListInv /\ DetailInv

-----------------------------------------------------------------------------
(* A statement returns the same on the same tables                         *)

LEMMA CountsSame ==
    ASSUME UNCHANGED <<db, ask, began>>, NEW kind
    PROVE  /\ Counts(kind, Since)' = Counts(kind, Since)
           /\ ByState(kind)' = ByState(kind)
           /\ Firsts(kind)' = Firsts(kind)
<1>1. StatusOf(kind)' = StatusOf(kind)
  BY DEF StatusOf
<1>2. Since' = Since
  BY DEF Since
<1>3. Counts(kind, Since)' = Counts(kind, Since)
  BY <1>1, <1>2 DEF Counts
<1>4. ByState(kind)' = ByState(kind)
  BY <1>1 DEF ByState
<1>5. Firsts(kind)' = Firsts(kind)
  BY <1>1 DEF Firsts
<1> QED
  BY <1>3, <1>4, <1>5

LEMMA MatchingSame ==
    ASSUME UNCHANGED <<db, ask, began>>
    PROVE  Matching' = Matching /\ Page' = Page
BY DEF Matching, Filter, Page

\* The filter of an object's own lists takes its rows and no other's, whatever the
\* clock says of its downtimes.
LEMMA OwnRows ==
    ASSUME NEW o \in Objects, NEW x, x.obj \in Objects
    PROVE  InUnion(OfObject(o), x) /\ OnObject(OfObject(o), x) <=> x.obj = o
<1>1. PICK f : f = OfObject(o)
  OBVIOUS
<1>2. f.kind = o.kind /\ f.host = o.host /\ f.svc = o.svc
  BY <1>1 DEF OfObject, NoFilter
<1>3. InUnion(f, x) /\ OnObject(f, x) => x.obj = o
  BY <1>2 DEF InUnion, OnObject, Objects
<1>4. x.obj = o => InUnion(f, x) /\ OnObject(f, x)
  BY <1>2 DEF InUnion, OnObject, Objects
<1> QED
  BY <1>1, <1>3, <1>4

LEMMA OwnSelected ==
    ASSUME NEW list \in {"acks", "downtimes"}, NEW o \in Objects, NEW d, NEW time,
           d[list] \subseteq RowsOf(list)
    PROVE  Selected(list, OfObject(o), d, time) = {x \in d[list] : x.obj = o}
<1>1. PICK f : f = OfObject(o)
  OBVIOUS
<1>2. f.running = BOOLEAN /\ ~(f.from > 0) /\ ~(f.to > 0)
  BY <1>1 DEF OfObject, NoFilter, Absent
<1>3. \A x \in d[list] : x.obj \in Objects
  <2>1. list = "acks" => d[list] \subseteq AcknowledgementRows
    BY TheTables
  <2>2. list = "downtimes" => d[list] \subseteq DowntimeRows
    BY TheTables
  <2>3. \A x \in AcknowledgementRows \cup DowntimeRows : x.obj \in Objects
    BY DEF DowntimeRows, AcknowledgementRows
  <2> QED
    BY <2>1, <2>2, <2>3
<1>4. \A x \in d[list] : InUnion(f, x) /\ OnObject(f, x) <=> x.obj = o
  BY <1>1, <1>3, OwnRows
<1>5. CASE list = "downtimes"
  <2>1. Selected(list, f, d, time) = Downtimes(f, d["downtimes"], time)
    BY <1>5 DEF Selected, Source, StatusLists, DowntimeLists
  <2>2. \A x : IsRunning(x, time) \in BOOLEAN
    BY DEF IsRunning
  <2>3. Downtimes(f, d["downtimes"], time) =
            {x \in d["downtimes"] : InUnion(f, x) /\ OnObject(f, x)}
    BY <1>2, <2>2 DEF Downtimes
  <2> QED
    BY <1>1, <1>4, <1>5, <2>1, <2>3
<1>6. CASE list = "acks"
  <2>1. Selected(list, f, d, time) = Acknowledgements(f, d["acks"])
    BY <1>6 DEF Selected, Source, StatusLists, DowntimeLists
  <2>2. Acknowledgements(f, d["acks"]) = {x \in d["acks"] : InUnion(f, x) /\ OnObject(f, x)}
    BY <1>2 DEF Acknowledgements
  <2> QED
    BY <1>1, <1>4, <1>6, <2>1, <2>2
<1> QED
  BY <1>5, <1>6

LEMMA NewestSame ==
    ASSUME DataInv, ask.type = "detail", UNCHANGED <<db, ask>>,
           NEW list \in {"acks", "downtimes"}, NEW n
    PROVE  Newest(list, n)' = Newest(list, n)
<1>1. ask.obj \in Objects
  BY DEF DataInv, Forms
<1>2. db[list] \subseteq RowsOf(list)
  BY TheTables DEF DataInv, IsDatabase
<1>3. PICK o, d, t, u : o = ask.obj /\ d = db /\ t = now /\ u = now'
  OBVIOUS
<1>4. Selected(list, OfObject(o), d, t) = Selected(list, OfObject(o), d, u)
  <2>1. o \in Objects /\ d[list] \subseteq RowsOf(list)
    BY <1>1, <1>2, <1>3
  <2>2. Selected(list, OfObject(o), d, t) = {x \in d[list] : x.obj = o}
    BY ONLY <2>1, OwnSelected, list \in {"acks", "downtimes"}
  <2>3. Selected(list, OfObject(o), d, u) = {x \in d[list] : x.obj = o}
    BY ONLY <2>1, OwnSelected, list \in {"acks", "downtimes"}
  <2> QED
    BY <2>2, <2>3
<1>5. ask'.obj = o /\ db' = d
  BY <1>3
<1> QED
  BY <1>3, <1>4, <1>5 DEF Newest

\* As long as the tables and the request are the same.
LEMMA ReturnsSame ==
    ASSUME DataInv, UNCHANGED <<db, ask, began>>, NEW s \in Timeless,
           s \in {"downtimes", "ack"} => ask.type = "detail"
    PROVE  Returns(s)' = Returns(s)
<1>1. CASE s \in {"count", "rows"}
  BY <1>1, MatchingSame DEF Returns, Fetched
<1>2. CASE s \in {"downtimes", "ack"}
  BY <1>2, NewestSame DEF Returns
<1>3. CASE s = "object"
  BY <1>3 DEF Returns
<1>4. CASE s \in {"hosts", "services", "hostStates", "serviceStates"}
  BY <1>4, CountsSame DEF Returns
<1>5. CASE s = "oldest"
  <2>1. Oldest' = Oldest
    BY CountsSame DEF Oldest
  <2> QED
    BY <1>5, <2>1 DEF Returns
<1> QED
  BY <1>1, <1>2, <1>3, <1>4, <1>5 DEF Timeless

-----------------------------------------------------------------------------
(* Orders and pages                                                        *)

\* An order of finitely many rows names each of them once.
LEMMA OrderIs ==
    ASSUME NEW list, NEW p, NEW rows, IsFiniteSet(rows), NEW s \in Orders(list, p, rows)
    PROVE  /\ Cardinality(rows) \in Nat /\ Len(s) = Cardinality(rows)
           /\ s \in [1 .. Cardinality(rows) -> rows] /\ s \in Seq(rows)
           /\ \A i, j \in 1 .. Cardinality(rows) : s[i] = s[j] => i = j
           /\ \A x \in rows : \E i \in 1 .. Cardinality(rows) : s[i] = x
           /\ \A i, j \in 1 .. Cardinality(rows) :
                  i < j => ~Before(list, p, s[j], s[i])
<1>1. PICK n : n = Cardinality(rows)
  OBVIOUS
<1>2. n \in Nat
  BY <1>1, FS_CardinalityType
<1>3. /\ s \in [1 .. n -> rows] /\ \A i, j \in 1 .. n : i # j => s[i] # s[j]
      /\ \A i, j \in DOMAIN s : i < j => ~Before(list, p, s[j], s[i])
  BY <1>1 DEF Orders, SetToSeqs
<1>4. s \in Seq(rows) /\ Len(s) = n
  BY <1>2, <1>3
<1>5. \A x \in rows : \E i \in 1 .. n : s[i] = x
  <2>1. s \in Injection(1 .. n, rows)
    BY <1>3 DEF Injection, IsInjective
  <2>2. IsFiniteSet(1 .. n) /\ Cardinality(1 .. n) = n
    BY <1>2, FS_Interval
  <2>3. s \in Surjection(1 .. n, rows)
    BY <1>1, <2>1, <2>2, FS_Injection
  <2> QED
    BY <2>3 DEF Surjection
<1> QED
  BY <1>1, <1>2, <1>3, <1>4, <1>5

LEMMA SeqIs ==
    ASSUME NEW S, NEW r \in Seq(S)
    PROVE  Len(r) \in Nat /\ DOMAIN r = 1 .. Len(r) /\ \A i \in 1 .. Len(r) : r[i] \in S
OBVIOUS

\* LIMIT and OFFSET: how many rows a page has, and which.
LEMMA SliceIs ==
    ASSUME NEW rows, NEW s \in Seq(rows), NEW p, p.offset \in Nat, p.limit \in Nat
    PROVE  /\ Slice(p, s) \in Seq(rows)
           /\ Len(Slice(p, s)) =
                  IF Len(s) - p.offset < 0 THEN 0
                  ELSE IF Len(s) - p.offset < p.limit THEN Len(s) - p.offset ELSE p.limit
           /\ \A i \in 1 .. Len(Slice(p, s)) : Slice(p, s)[i] = s[p.offset + i]
<1>1. PICK o, l, n : o = p.offset /\ l = p.limit /\ n = Len(s)
  OBVIOUS
<1>2. o \in Nat /\ l \in Nat /\ n \in Nat
  BY <1>1
<1>3. PICK last : last = IF o + l < n THEN o + l ELSE n
  OBVIOUS
<1>4. last \in Nat /\ last <= n
  BY ONLY <1>2, <1>3
<1>5. Slice(p, s) = SubSeq(s, o + 1, last)
  BY <1>1, <1>3 DEF Slice
<1>6. \A i \in o + 1 .. last : s[i] \in rows
  <2>1. \A i \in o + 1 .. last : i \in 1 .. Len(s)
    BY ONLY <1>1, <1>2, <1>4
  <2> QED
    BY <2>1
<1>7. /\ SubSeq(s, o + 1, last) \in Seq(rows)
      /\ Len(SubSeq(s, o + 1, last)) = IF o + 1 <= last THEN last - (o + 1) + 1 ELSE 0
      /\ \A i \in 1 .. last - (o + 1) + 1 : SubSeq(s, o + 1, last)[i] = s[o + 1 + i - 1]
  BY <1>2, <1>4, <1>6, SubSeqProperties
<1>8. PICK k : k = Len(Slice(p, s))
  OBVIOUS
<1>9. k = IF n - o < 0 THEN 0 ELSE IF n - o < l THEN n - o ELSE l
  BY ONLY <1>2, <1>3, <1>5, <1>7, <1>8
<1>10. \A i \in 1 .. k : i \in 1 .. last - (o + 1) + 1 /\ o + 1 + i - 1 = o + i
  BY ONLY <1>2, <1>3, <1>4, <1>9
<1> QED
  BY <1>1, <1>5, <1>7, <1>8, <1>9, <1>10

\* The newest rows of an object: its own, and whichever is not among them is not
\* later than any of as many as were asked for.
LEMMA NewestIs ==
    ASSUME DataInv, ask.type = "detail", NEW list \in {"acks", "downtimes"},
           NEW n \in Nat \ {0}, NEW r \in Newest(list, n)
    PROVE  /\ Own(r) /\ Len(r) \in 0 .. n /\ DOMAIN r = 1 .. Len(r)
           /\ \A y \in db[list] : y.obj = ask.obj =>
                  \/ \E i \in DOMAIN r : r[i] = y
                  \/ /\ Len(r) = n /\ \A i \in DOMAIN r : y.at <= r[i].at
                     /\ ~(Cardinality({x \in db[list] : x.obj = ask.obj}) <= n)
<1>1. PICK mine : mine = {x \in db[list] : x.obj = ask.obj}
  OBVIOUS
<1>2. PICK p : p = [limit |-> n, offset |-> 0, sort |-> "time", desc |-> TRUE]
  OBVIOUS
<1>3. ask.obj \in Objects /\ IsFiniteSet(db[list]) /\ db[list] \subseteq RowsOf(list)
  BY TheTables DEF DataInv, Forms, IsDatabase
<1>4. r \in Pages(list, p, mine)
  <2>1. PICK o, d, t : o = ask.obj /\ d = db /\ t = now
    OBVIOUS
  <2>2. o \in Objects /\ d[list] \subseteq RowsOf(list)
    BY <1>3, <2>1
  <2>3. Selected(list, OfObject(o), d, t) = {x \in d[list] : x.obj = o}
    BY ONLY <2>2, OwnSelected, list \in {"acks", "downtimes"}
  <2> QED
    BY <1>1, <1>2, <2>1, <2>3 DEF Newest
<1>5. PICK s \in Orders(list, p, mine) : r = Slice(p, s)
  BY <1>4 DEF Pages
<1>6. IsFiniteSet(mine) /\ \A x \in mine : x \in db[list] /\ x.obj = ask.obj
  BY <1>1, <1>3, FS_Subset
<1>7. PICK m : m = Cardinality(mine)
  OBVIOUS
<1>8. /\ m \in Nat /\ Len(s) = m /\ s \in Seq(mine)
      /\ s \in [1 .. m -> mine]
      /\ \A x \in mine : \E i \in 1 .. m : s[i] = x
      /\ \A i, j \in 1 .. m : i < j => ~Before(list, p, s[j], s[i])
  BY <1>6, <1>7, OrderIs
<1>9. p.offset = 0 /\ p.limit = n /\ p.sort = "time" /\ p.desc = TRUE
  BY <1>2
<1>10. PICK k : k = Len(r)
  OBVIOUS
<1>11. /\ r \in Seq(mine) /\ k = IF m < n THEN m ELSE n
       /\ \A i \in 1 .. k : r[i] = s[i]
  <2>1. /\ r \in Seq(mine)
        /\ k = IF m - 0 < 0 THEN 0 ELSE IF m - 0 < n THEN m - 0 ELSE n
        /\ \A i \in 1 .. k : r[i] = s[0 + i]
    <3>1. /\ p.offset \in Nat /\ p.limit \in Nat
      BY <1>9
    <3>2. /\ Slice(p, s) \in Seq(mine)
          /\ Len(Slice(p, s)) =
                 IF Len(s) - p.offset < 0 THEN 0
                 ELSE IF Len(s) - p.offset < p.limit THEN Len(s) - p.offset ELSE p.limit
          /\ \A i \in 1 .. Len(Slice(p, s)) : Slice(p, s)[i] = s[p.offset + i]
      <4>1. s \in Seq(mine)
        BY <1>8
      <4> QED
        BY ONLY <4>1, <3>1, SliceIs
    <3> QED
      BY <1>5, <1>8, <1>9, <1>10, <3>2
  <2>2. k = IF m < n THEN m ELSE n
    BY ONLY <1>8, <2>1
  <2> QED
    BY <2>1, <2>2
<1>12. k \in Nat /\ DOMAIN r = 1 .. k /\ \A i \in 1 .. k : r[i] \in mine
  <2>1. r \in Seq(mine)
    BY <1>11
  <2> QED
    BY ONLY <1>10, <2>1, SeqIs
<1>13. \A x \in db[list] : x.at \in Nat
  <2>1. list = "acks" => db[list] \subseteq AcknowledgementRows
    BY <1>3, TheTables
  <2>2. list = "downtimes" => db[list] \subseteq DowntimeRows
    BY <1>3, TheTables
  <2>3. \A x \in AcknowledgementRows \cup DowntimeRows : x.at \in Nat
    BY DEF DowntimeRows, AcknowledgementRows
  <2> QED
    BY <2>1, <2>2, <2>3
<1>14. ASSUME NEW y \in db[list], y.obj = ask.obj, \A i \in 1 .. k : r[i] # y
       PROVE  k = n /\ (\A i \in 1 .. k : y.at <= r[i].at) /\ ~(m <= n)
  <2>1. PICK j \in 1 .. m : s[j] = y
    BY <1>1, <1>8, <1>14
  <2>2. j \notin 1 .. k
    BY <1>11, <1>14, <2>1
  <2>3. k = n /\ k < j /\ ~(m <= n)
    BY ONLY <1>8, <1>11, <2>1, <2>2, n \in Nat \ {0}
  <2>4. ASSUME NEW i \in 1 .. k PROVE y.at <= r[i].at
    <3>1. i \in 1 .. m /\ i < j
      BY ONLY <1>8, <1>12, <2>1, <2>3
    <3>2. ~Before(list, p, s[j], s[i])
      BY <1>8, <2>1, <3>1
    <3>3. ~(s[j].at > s[i].at)
      BY <1>9, <3>2 DEF Before, Column
    <3>4. s[i] \in mine /\ s[i].at \in Nat /\ s[j].at \in Nat
      BY <1>6, <1>8, <1>13, <2>1, <3>1
    <3> QED
      BY <1>11, <2>1, <3>3, <3>4
  <2> QED
    BY <2>3, <2>4
<1>15. k \in 0 .. n
  BY ONLY <1>8, <1>11, n \in Nat \ {0}
<1> QED
  BY <1>1, <1>6, <1>7, <1>10, <1>12, <1>14, <1>15 DEF Own

-----------------------------------------------------------------------------
(* The steps of any request                                                *)

\* Which statements a request of each kind may execute.
LEMMA StatementIs ==
    ASSUME DataInv, Statement # "none"
    PROVE  /\ ask.type \in {"list", "detail", "summary"}
           /\ ask.type = "list" => Statement \in {"count", "rows"}
           /\ ask.type = "detail" => Statement \in {"object", "downtimes", "ack"}
           /\ ask.type = "summary" => Statement \notin {"ack", "downtimes", "lastHour"}
<1>1. ask.type \in {"list", "detail", "summary"}
  BY DEF DataInv, Forms
<1>2. CASE ask.type = "list"
  BY <1>2 DEF Statement, NextOfList
<1>3. CASE ask.type = "detail"
  BY <1>3 DEF Statement, NextOfDetail
<1>4. CASE ask.type = "summary"
  <2>1. Statement = NextOfSummary
    BY <1>4 DEF Statement
  <2>2. PICK i \in 1 .. 8 : NextOfSummary = SummaryStatements[i]
    BY <2>1, NextIsLeast
  <2> QED
    BY <1>4, <2>1, <2>2 DEF SummaryStatements
<1> QED
  BY <1>1, <1>2, <1>3, <1>4

\* A statement adds what it returns to what was read.
LEMMA ExecuteReads ==
    ASSUME DataInv, Execute
    PROVE  \E st, r : /\ st = Statement /\ st # "none" /\ r \in Returns(st)
                      /\ st \in DOMAIN got' /\ got'[st] = r
                      /\ DOMAIN got \cup {st} \subseteq DOMAIN got'
                      /\ DOMAIN got' \subseteq DOMAIN got \cup {st, "lastHour"}
                      /\ \A s \in DOMAIN got : s \notin {st, "lastHour"} => got'[s] = got[s]
<1>1. PICK st : st = Statement
  OBVIOUS
<1>2. st # "none" /\ st # "lastHour"
  BY <1>1, StatementIs DEF Execute
<1>3. PICK r \in Returns(st) :
          got' = IF st = "serviceNotes"
                 THEN Extended(Extended(got, st, r), "lastHour", LastHour)
                 ELSE Extended(got, st, r)
  BY <1>1 DEF Execute, Keep
<1>4. CASE st = "serviceNotes"
  BY <1>1, <1>2, <1>3, <1>4 DEF Extended
<1>5. CASE st # "serviceNotes"
  BY <1>1, <1>2, <1>3, <1>5 DEF Extended
<1> QED
  BY <1>4, <1>5

LEMMA ExecuteFresh == ASSUME AnswerInv, Execute PROVE Fresh'
<1>1. /\ UNCHANGED <<db, ask, began, still>> /\ place = "reading" /\ place' = "reading"
  BY DEF Execute, dataVars
<1>2. DataInv /\ Fresh /\ DetailInv
  BY DEF AnswerInv
<1>3. PICK st, r : /\ st = Statement /\ st # "none" /\ r \in Returns(st)
                   /\ got'[st] = r
                   /\ DOMAIN got' \subseteq DOMAIN got \cup {st, "lastHour"}
                   /\ \A s \in DOMAIN got : s \notin {st, "lastHour"} => got'[s] = got[s]
  BY <1>2, ExecuteReads
<1> SUFFICES ASSUME still, NEW s \in Timeless, s \in DOMAIN got'
             PROVE  got'[s] \in Returns(s)'
  BY <1>1 DEF Fresh, Timeless
<1>4. s # "lastHour"
  BY DEF Timeless
<1>5. s \in {"downtimes", "ack"} => ask.type = "detail"
  BY <1>2, <1>3, StatementIs DEF DetailInv, Has
<1>6. Returns(s)' = Returns(s)
  BY <1>1, <1>2, <1>5, ReturnsSame
<1>7. got'[s] \in Returns(s)
  BY <1>1, <1>2, <1>3, <1>4 DEF Fresh
<1> QED
  BY <1>6, <1>7

LEMMA ExecuteDetail == ASSUME AnswerInv, Execute PROVE DetailInv'
<1>1. UNCHANGED <<db, ask>>
  BY DEF Execute, dataVars
<1>2. DataInv /\ DetailInv
  BY DEF AnswerInv
<1>3. PICK st, r : /\ st = Statement /\ st # "none" /\ r \in Returns(st)
                   /\ got'[st] = r
                   /\ DOMAIN got \cup {st} \subseteq DOMAIN got'
                   /\ DOMAIN got' \subseteq DOMAIN got \cup {st, "lastHour"}
                   /\ \A s \in DOMAIN got : s \notin {st, "lastHour"} => got'[s] = got[s]
  BY <1>2, ExecuteReads
<1>4. Has("ack")' \/ Has("downtimes")' => ask.type = "detail"
  BY <1>2, <1>3, StatementIs DEF DetailInv, Has
<1> SUFFICES ASSUME ask.type = "detail"
             PROVE  /\ Has("object")'
                    /\ \A x \in got'.object : x.obj = ask.obj
                    /\ \A x, y \in got'.object : x = y
                    /\ Has("ack")' => Own(got'.ack) /\ \A x \in got'.object : x.acked = 1
                    /\ Has("downtimes")' => Own(got'.downtimes)
  BY <1>1, <1>4 DEF DetailInv, Own
<1>5. st = NextOfDetail /\ st \in {"object", "downtimes", "ack"}
  BY <1>2, <1>3, StatementIs DEF Statement
<1>6. CASE st = "object"
  <2>1. DOMAIN got = {}
    <3>1. ~Has("object")
      BY <1>5, <1>6 DEF NextOfDetail
    <3> QED
      BY <1>2, <3>1 DEF DetailInv
  <2>2. DOMAIN got' \subseteq {"object", "lastHour"}
    BY <1>3, <1>6, <2>1
  <2>3. got'.object = {x \in db.status : x.obj = ask.obj}
    BY <1>3, <1>6 DEF Returns
  <2>4. \A x, y \in got'.object : x = y
    BY <1>2, <2>3 DEF DataInv, IsDatabase
  <2> QED
    BY <1>3, <1>6, <2>2, <2>3, <2>4 DEF Has
<1>7. CASE st # "object"
  <2>1. Has("object") /\ got'.object = got.object
    <3>1. Has("object")
      BY <1>5, <1>7 DEF NextOfDetail
    <3> QED
      BY <1>3, <1>7, <3>1 DEF Has
  <2>2. /\ \A x \in got.object : x.obj = ask.obj
        /\ \A x, y \in got.object : x = y
        /\ Has("ack") => Own(got.ack) /\ \A x \in got.object : x.acked = 1
        /\ Has("downtimes") => Own(got.downtimes)
    BY <1>2, <2>1 DEF DetailInv, Has
  <2>3. CASE st = "ack"
    <3>1. Own(r)
      <4>1. r \in Newest("acks", 1)
        BY <1>3, <2>3 DEF Returns
      <4> QED
        BY <1>2, <4>1, NewestIs
    <3>2. \A x \in got.object : x.acked = 1
      <4>1. (CHOOSE x \in got.object : TRUE).acked = 1 /\ got.object # {}
        BY <1>5, <2>1, <2>3 DEF NextOfDetail, OrZero
      <4> QED
        BY <2>2, <4>1
    <3>3. Has("downtimes")' => Has("downtimes") /\ got'.downtimes = got.downtimes
      BY <1>3, <2>3 DEF Has
    <3> QED
      BY <1>3, <2>1, <2>2, <2>3, <3>1, <3>2, <3>3 DEF Has
  <2>4. CASE st = "downtimes"
    <3>1. Own(r)
      <4>1. r \in Newest("downtimes", MaxDowntimes)
        BY <1>3, <2>4 DEF Returns
      <4> QED
        BY <1>2, <4>1, NewestIs, QueriesAssumption DEF QueriesAssumption
    <3>2. Has("ack")' => Has("ack") /\ got'.ack = got.ack
      BY <1>3, <2>4 DEF Has
    <3> QED
      BY <1>3, <2>1, <2>2, <2>4, <3>1, <3>2 DEF Has
  <2> QED
    BY <1>5, <1>7, <2>3, <2>4
<1> QED
  BY <1>6, <1>7

LEMMA ExecuteAnswer == ASSUME AnswerInv, Execute PROVE AnswerInv'
<1>1. DataInv'
  BY DataUnchanged DEF Execute, dataVars, AnswerInv
<1>2. ListInv'
  BY DEF Execute, dataVars, AnswerInv, ListInv, Underway
<1> QED
  BY <1>1, <1>2, ExecuteFresh, ExecuteDetail DEF AnswerInv

\* Nothing is read of a request that has nothing to show.
LEMMA NothingToShow ==
    ASSUME got = Nothing
    PROVE  Fresh /\ DetailInv
<1>1. DOMAIN got = {}
  BY DEF Nothing
<1> QED
  BY <1>1 DEF Fresh, DetailInv, Has

LEMMA InitAnswer == Init => AnswerInv
<1> SUFFICES ASSUME Init PROVE AnswerInv
  OBVIOUS
<1>1. DataInv
  BY InitInv DEF ReadsInv
<1>2. got = Nothing /\ place = "asked"
  BY DEF Init
<1>3. Fresh /\ DetailInv
  BY <1>2, NothingToShow
<1> QED
  BY <1>1, <1>2, <1>3 DEF AnswerInv, ListInv, Underway

LEMMA BeginAnswer == ASSUME AnswerInv, Begin PROVE AnswerInv'
<1>1. DataInv' /\ ask' = ask /\ began' = now /\ got' = Nothing
  BY DataUnchanged DEF Begin, dataVars, AnswerInv
<1>2. Fresh' /\ DetailInv'
  <2>1. DOMAIN got' = {}
    BY <1>1 DEF Nothing
  <2> QED
    BY <2>1 DEF Fresh, DetailInv, Has
<1>3. ListInv'
  BY <1>1 DEF Begin, Refused, ListInv, Underway
<1> QED
  BY <1>1, <1>2, <1>3 DEF AnswerInv

LEMMA EndsAnswer ==
    ASSUME AnswerInv, NEW code \in {0, 500, 504}, Ends(code)
    PROVE  AnswerInv'
<1>1. /\ DataInv' /\ ask' = ask /\ got' = Nothing
      /\ place' = "answered" /\ status' # 200
  BY DataUnchanged DEF Ends, dataVars, AnswerInv
<1>2. Fresh' /\ DetailInv'
  <2>1. DOMAIN got' = {}
    BY <1>1 DEF Nothing
  <2> QED
    BY <2>1 DEF Fresh, DetailInv, Has
<1>3. ListInv'
  BY <1>1 DEF ListInv, Underway
<1> QED
  BY <1>1, <1>2, <1>3 DEF AnswerInv

\* Fresh and DetailInv stay when nothing is read or written.
LEMMA FreshKept ==
    ASSUME AnswerInv, UNCHANGED <<db, ask, began, got, still>>,
           place = "asked" => place' = "asked"
    PROVE  Fresh' /\ DetailInv'
<1>1. DataInv /\ Fresh /\ DetailInv
  BY DEF AnswerInv
<1>2. DetailInv'
  BY <1>1 DEF DetailInv, Has, Own
<1>3. ASSUME still, place # "asked", NEW s \in Timeless \cap DOMAIN got
      PROVE  got[s] \in Returns(s)'
  <2>1. s \in {"downtimes", "ack"} => ask.type = "detail"
    BY <1>1 DEF DetailInv, Has
  <2>2. Returns(s)' = Returns(s)
    BY <1>1, <2>1, ReturnsSame
  <2> QED
    BY <1>1, <1>3, <2>2 DEF Fresh
<1>4. Fresh'
  BY <1>3 DEF Fresh, Timeless
<1> QED
  BY <1>2, <1>4

LEMMA RespondAnswer == ASSUME AnswerInv, Respond PROVE AnswerInv'
<1>1. /\ DataInv' /\ UNCHANGED <<db, ask, began, got, still>>
      /\ place = "reading" /\ place' = "answered"
  BY DataUnchanged DEF Respond, dataVars, AnswerInv
<1>2. Fresh' /\ DetailInv'
  BY <1>1, FreshKept
<1>3. ListInv'
  <2> SUFFICES ASSUME ask.type = "list"
               PROVE  ~Refuses(ask.q, began) /\ Has("count") /\ (got.count > 0 => Has("rows"))
    BY <1>1 DEF ListInv, Has
  <2>1. NextOfList = "none"
    BY DEF Respond, Statement
  <2>2. Has("count") /\ (got.count > 0 => Has("rows"))
    BY <2>1 DEF NextOfList
  <2> QED
    BY <1>1, <2>2 DEF AnswerInv, ListInv, Underway
<1> QED
  BY <1>1, <1>2, <1>3 DEF AnswerInv

LEMMA NextPageAnswer == ASSUME AnswerInv, NextPage PROVE AnswerInv'
<1>1. DataInv' /\ ask'.type = "list" /\ ask.type = "list" /\ place' = "asked" /\ got' = got
  BY NextPageAsks DEF NextPage, AnswerInv
<1>2. Fresh' /\ ListInv' /\ DetailInv'
  BY <1>1 DEF Fresh, ListInv, DetailInv, Underway, AnswerInv, Has
<1> QED
  BY <1>1, <1>2 DEF AnswerInv

LEMMA WorkerAnswer == ASSUME AnswerInv, WorkerWrites PROVE AnswerInv'
<1>1. DataInv' /\ UNCHANGED <<ask, place, began, got, status>> /\ ~still'
  BY WorkerData DEF WorkerWrites, AnswerInv, DataInv
<1>2. Fresh' /\ ListInv' /\ DetailInv'
  BY <1>1 DEF Fresh, ListInv, DetailInv, Underway, AnswerInv, Has, Own
<1> QED
  BY <1>1, <1>2 DEF AnswerInv

LEMMA TickAnswer == ASSUME AnswerInv, Tick PROVE AnswerInv'
<1>1. DataInv' /\ UNCHANGED <<db, ask, place, began, got, status, still>>
  BY TickData DEF Tick, AnswerInv
<1>2. Fresh' /\ DetailInv'
  BY <1>1, FreshKept
<1>3. ListInv'
  BY <1>1 DEF ListInv, Underway, AnswerInv, Has
<1> QED
  BY <1>1, <1>2, <1>3 DEF AnswerInv

LEMMA NextAnswer == AnswerInv /\ [Next]_vars => AnswerInv'
<1> SUFFICES ASSUME AnswerInv, [Next]_vars PROVE AnswerInv'
  OBVIOUS
<1>1. CASE Deadline
  BY <1>1, EndsAnswer DEF Deadline
<1>2. CASE Fails
  BY <1>2, EndsAnswer DEF Fails
<1>3. CASE UNCHANGED vars
  <2>1. DataInv' /\ UNCHANGED <<db, ask, place, began, got, status, still>>
    BY <1>3, DataUnchanged DEF vars, dataVars, AnswerInv
  <2>2. Fresh' /\ DetailInv'
    BY <2>1, FreshKept
  <2>3. ListInv'
    BY <2>1 DEF ListInv, Underway, AnswerInv, Has
  <2> QED
    BY <2>1, <2>2, <2>3 DEF AnswerInv
<1> QED
  BY <1>1, <1>2, <1>3, BeginAnswer, ExecuteAnswer, RespondAnswer, NextPageAnswer,
     WorkerAnswer, TickAnswer
  DEF Next

LEMMA AlwaysAnswer == Spec => [](ReadsInv /\ AnswerInv)
<1>1. Init => ReadsInv /\ AnswerInv
  BY InitInv, InitAnswer
<1>2. (ReadsInv /\ AnswerInv) /\ [Next]_vars => (ReadsInv /\ AnswerInv)'
  BY NextInv, NextAnswer
<1> QED
  BY <1>1, <1>2, PTL DEF Spec

-----------------------------------------------------------------------------
(* The theorems of one answer                                              *)

\* handlers_history.go, "Window policy": for any parameters, any lengths of time
\* and any history, no accepted request reads rows of a longer time than its list
\* allows.
THEOREM WindowsCorrect == Spec => []RowsWithinPolicy
<1>1. AnswerInv => RowsWithinPolicy
  <2> SUFFICES ASSUME AnswerInv, Answered("list"), ask.q.list \in HistoryLists \cup {"log"},
                      NEW x \in Matching, NEW y \in Matching
               PROVE  x.at - y.at <=
                          IF ask.q.list = "log" THEN 31 * 24 * Hour
                          ELSE IF ask.q.f.host # 0 THEN 90 * 24 * Hour ELSE 6 * Hour
    BY DEF RowsWithinPolicy
  <2>1. ask.type = "list" /\ ~Refuses(ask.q, began) /\ DataInv
    BY DEF AnswerInv, ListInv, Underway, Answered
  <2>2. Windowed(ask.q.list, ask.q.f)
    BY DEF Windowed
  <2>3. ~BadWindow(ask.q.list, ask.q.f, began)
    BY <2>1, <2>2 DEF Refuses
  <2>4. PICK from, to : from = From(ask.q.list, ask.q.f, began) /\ to = To(ask.q.f, began)
    OBVIOUS
  <2>5. Hour \in Nat \ {0} /\ began \in Nat
    BY <2>1, TheData, QueriesAssumption DEF QueriesAssumption
  <2>6. from \in Int /\ to \in Int
    <3>1. ask.q.f.from \in Int /\ ask.q.f.to \in Int
      <4>1. ask.q.f \in Filters
        BY <2>1, TheQuery DEF ListQueries
      <4>2. Nat \cup {Absent} \subseteq Int
        BY DEF Absent
      <4>3. ask.q.f.from \in Nat \cup {Absent} /\ ask.q.f.to \in Nat \cup {Absent}
        BY <4>1 DEF Filters
      <4> QED
        BY <4>2, <4>3
    <3>2. Default(ask.q.list, ask.q.f) \in Int
      BY <2>5 DEF Default
    <3> QED
      BY <2>4, <2>5, <3>1, <3>2 DEF From, To
  <2>7. PICK longest : longest = Longest(ask.q.list, ask.q.f)
    OBVIOUS
  <2>8. longest = IF ask.q.list = "log" THEN 31 * 24 * Hour
                  ELSE IF ask.q.f.host # 0 THEN 90 * 24 * Hour ELSE 6 * Hour
    BY <2>7 DEF Longest, HistoryLists
  <2>9. longest \in Nat /\ longest > 0
    BY <2>5, <2>8
  <2>10. to - from <= longest
    BY <2>3, <2>4, <2>6, <2>7, <2>9 DEF BadWindow
  <2>11. PICK f, rows : f = Filter /\ rows = db[Source(ask.q.list)]
    OBVIOUS
  <2>12. f.from = from /\ f.to = to
    <3>1. ask.q.f \in Filters
      BY <2>1, TheQuery DEF ListQueries
    <3> QED
      BY <2>2, <2>4, <2>11, <3>1 DEF Filter, FilterOf, Filters
  <2>13. x \in Selected(ask.q.list, f, db, began) /\ y \in Selected(ask.q.list, f, db, began)
    BY <2>11 DEF Matching
  <2>14. /\ x \in rows /\ y \in rows
         /\ from <= x.at /\ x.at <= to /\ from <= y.at /\ y.at <= to
    BY <2>11, <2>12, <2>13
    DEF Selected, HistoryLists, DowntimeLists, Checks, StateChanges, Notifications,
        LogEntries, InHistory, Within
  <2>15. x.at \in Int /\ y.at \in Int
    <3>1. Source(ask.q.list) = ask.q.list /\ ask.q.list \in Tables
      BY DEF Source, StatusLists, HistoryLists, Tables, Lists, DowntimeLists
    <3>2. rows \subseteq RowsOf(ask.q.list)
      BY <2>1, <2>11, <3>1 DEF DataInv, IsDatabase
    <3>3. RowsOf(ask.q.list) \in {CheckRows, NotificationRows, LogRows}
      BY DEF RowsOf, HistoryLists, DowntimeLists
    <3>4. \A z \in CheckRows \cup NotificationRows \cup LogRows : z.at \in Int
      BY DEF CheckRows, NotificationRows, LogRows
    <3> QED
      BY <2>14, <3>2, <3>3, <3>4
  <2>16. x.at - y.at <= longest
    <3>1. PICK a \in Int, b \in Int : a = x.at /\ b = y.at
      BY <2>15
    <3>2. a - b <= longest
      BY ONLY <2>6, <2>9, <2>10, <2>14, <3>1
    <3> QED
      BY <3>1, <3>2
  <2> QED
    BY <2>8, <2>16
<1> QED
  BY <1>1, AlwaysAnswer, PTL

\* What an answered summary has read, which is still so if nothing was written.
LEMMA SummaryHas ==
    ASSUME ReadsInv, AnswerInv, Answered("summary"), still
    PROVE  /\ got.hosts = Counts("host", Since) /\ got.services = Counts("service", Since)
           /\ got.hostStates = ByState("host") /\ got.serviceStates = ByState("service")
           /\ got.oldest \in IF Oldest = {} THEN {{}} ELSE {{x} : x \in Oldest}
<1>1. \A i \in 1 .. 8 : SummaryStatements[i] \in DOMAIN got
  BY DEF ReadsInv, WholeInv, Answered
<1>2. /\ SummaryStatements[1] = "hosts" /\ SummaryStatements[2] = "hostStates"
      /\ SummaryStatements[3] = "services" /\ SummaryStatements[4] = "serviceStates"
      /\ SummaryStatements[8] = "oldest"
  BY DEF SummaryStatements
<1>3. {"hosts", "hostStates", "services", "serviceStates", "oldest"}
          \subseteq Timeless \cap DOMAIN got
  BY <1>1, <1>2 DEF Timeless
<1>4. \A s \in Timeless \cap DOMAIN got : got[s] \in Returns(s)
  BY DEF AnswerInv, Fresh, Answered
<1>5. /\ got["hosts"] \in Returns("hosts") /\ got["services"] \in Returns("services")
      /\ got["hostStates"] \in Returns("hostStates")
      /\ got["serviceStates"] \in Returns("serviceStates")
      /\ got["oldest"] \in Returns("oldest")
  BY <1>3, <1>4
<1> QED
  BY <1>5 DEF Returns

\* Among any rows there is an earliest.
LEMMA EarliestRow ==
    ASSUME NEW S, NEW rows, rows \subseteq S, rows # {}, \A x \in S : x.at \in Nat
    PROVE  \E y \in rows : \A z \in rows : y.at <= z.at
<1>1. PICK times : times = {x.at : x \in rows}
  OBVIOUS
<1>2. times \subseteq Nat /\ times # {}
  BY <1>1
<1>3. PICK t \in times : \A u \in times : t <= u
  BY <1>2, LeastNumber
<1>4. PICK y \in rows : y.at = t
  BY <1>1
<1> QED
  BY <1>1, <1>3, <1>4

\* What a problem is to the tile and to the list it links to: all problems are
\* both, and of the unhandled ones the list has those without a NULL.
LEMMA ListedProblems ==
    ASSUME DataInv, NEW time
    PROVE  /\ \A kind \in Kinds :
                  Selected("problems", [NoFilter EXCEPT !.kind = kind], db, time) =
                      {x \in StatusOf(kind) : IsProblem(x)}
           /\ \A kind \in Kinds :
                  Selected("problems", [NoFilter EXCEPT !.handled = {FALSE}, !.kind = kind],
                           db, time) =
                      {x \in StatusOf(kind) : IsProblem(x) /\ x.acked = 0 /\ x.depth = 0}
           /\ \A x \in Selected("problems", [NoFilter EXCEPT !.handled = {FALSE}], db, time) :
                  x \in db.status /\ Unhandled(x)
<1>1. db.status \subseteq StatusRows
  BY TheData
<1>2. \A x \in StatusRows : x.obj.kind \in Kinds
  BY DEF StatusRows, Objects, Kinds
<1>3. ASSUME NEW f PROVE Selected("problems", f, db, time) = Problems(f, db.status)
  <2>1. Source("problems") = "status"
    BY DEF Source, StatusLists
  <2> QED
    BY <2>1 DEF Selected, DowntimeLists
<1>4. {FALSE} # BOOLEAN /\ TRUE \notin {FALSE} /\ FALSE \in {FALSE}
  OBVIOUS
<1>5. ASSUME NEW f, f.acked = BOOLEAN, f.inDowntime = BOOLEAN, f.hide = FALSE
      PROVE  /\ f.handled = BOOLEAN =>
                    Problems(f, db.status) = {x \in db.status : f.kind \in {"", x.obj.kind}
                                                                    /\ IsProblem(x)}
             /\ f.handled = {FALSE} =>
                    Problems(f, db.status) = {x \in db.status : /\ f.kind \in {"", x.obj.kind}
                                                                /\ IsProblem(x)
                                                                /\ x.acked = 0 /\ x.depth = 0}
  <2>1. f.handled = BOOLEAN => \A x : Takes(f, x)
    BY <1>5 DEF Takes, Passes
  <2>2. f.handled = {FALSE} => \A x : Takes(f, x) <=> x.acked = 0 /\ x.depth = 0
    BY <1>4, <1>5 DEF Takes, Passes
  <2> QED
    BY <1>5, <2>1, <2>2 DEF Problems, IsProblem
<1>6. ASSUME NEW kind \in Kinds
      PROVE  /\ Problems([NoFilter EXCEPT !.kind = kind], db.status) =
                     {x \in StatusOf(kind) : IsProblem(x)}
             /\ Problems([NoFilter EXCEPT !.handled = {FALSE}, !.kind = kind], db.status) =
                     {x \in StatusOf(kind) : IsProblem(x) /\ x.acked = 0 /\ x.depth = 0}
  <2>1. PICK f : f = [NoFilter EXCEPT !.kind = kind]
    OBVIOUS
  <2>2. PICK g : g = [NoFilter EXCEPT !.handled = {FALSE}, !.kind = kind]
    OBVIOUS
  <2>3. /\ f.kind = kind /\ f.acked = BOOLEAN /\ f.inDowntime = BOOLEAN
        /\ f.handled = BOOLEAN /\ f.hide = FALSE
        /\ g.kind = kind /\ g.acked = BOOLEAN /\ g.inDowntime = BOOLEAN
        /\ g.handled = {FALSE} /\ g.hide = FALSE
    BY <2>1, <2>2 DEF NoFilter
  <2>4. kind # ""
    BY DEF Kinds
  <2>5. Problems(f, db.status) = {x \in StatusOf(kind) : IsProblem(x)}
    <3>1. Problems(f, db.status) = {x \in db.status : f.kind \in {"", x.obj.kind}
                                                          /\ IsProblem(x)}
      BY <1>5, <2>3
    <3> QED
      BY <2>3, <2>4, <3>1 DEF StatusOf
  <2>6. Problems(g, db.status) =
            {x \in StatusOf(kind) : IsProblem(x) /\ x.acked = 0 /\ x.depth = 0}
    <3>1. Problems(g, db.status) = {x \in db.status : /\ g.kind \in {"", x.obj.kind}
                                                      /\ IsProblem(x)
                                                      /\ x.acked = 0 /\ x.depth = 0}
      BY <1>5, <2>3
    <3> QED
      BY <2>3, <2>4, <3>1 DEF StatusOf
  <2> QED
    BY <2>1, <2>2, <2>5, <2>6
<1>7. ASSUME NEW x \in Problems([NoFilter EXCEPT !.handled = {FALSE}], db.status)
      PROVE  x \in db.status /\ Unhandled(x)
  <2>1. PICK g : g = [NoFilter EXCEPT !.handled = {FALSE}]
    OBVIOUS
  <2>2. /\ g.kind = "" /\ g.acked = BOOLEAN /\ g.inDowntime = BOOLEAN
        /\ g.handled = {FALSE} /\ g.hide = FALSE
    BY <2>1 DEF NoFilter
  <2>3. x \in db.status /\ IsProblem(x) /\ x.acked = 0 /\ x.depth = 0
    BY <1>5, <1>7, <2>1, <2>2
  <2> QED
    BY <2>3 DEF Unhandled, OrZero, Null
<1> QED
  BY <1>3, <1>6, <1>7

\* oldestUnhandled, "the problem that has been in its state longest": for any
\* hosts and services, two statements find it.
THEOREM OldestCorrect == Spec => []OldestWaitsLongest
<1>1. ReadsInv /\ AnswerInv => OldestWaitsLongest
  <2> SUFFICES ASSUME ReadsInv, AnswerInv, Answered("summary"), still,
                      NEW x \in Selected("problems", [NoFilter EXCEPT !.handled = {FALSE}],
                                        db, now),
                      x.at > 0
               PROVE  \E y \in got.oldest : y.at <= x.at
    BY DEF OldestWaitsLongest
  <2>1. DataInv
    BY DEF AnswerInv
  <2>2. x \in db.status /\ Unhandled(x)
    BY <2>1, ListedProblems
  <2>3. /\ IsFiniteSet(db.status) /\ \A y \in db.status : y.at \in Nat
        /\ \A y \in db.status : y.obj.kind \in Kinds
    BY <2>1, TheData DEF StatusRows, Objects, Kinds
  <2>4. PICK kind \in Kinds : x.obj.kind = kind
    BY <2>2, <2>3
  <2>5. ASSUME NEW k \in Kinds
        PROVE  /\ \A y \in Firsts(k) : y \in db.status
               /\ \A y \in Firsts(k), z \in db.status :
                      z.obj.kind = k /\ Unhandled(z) /\ z.at > 0 => y.at <= z.at
    BY DEF Firsts, StatusOf
  <2>6. \E y \in Firsts(kind) : y.at <= x.at
    <3>1. PICK rows : rows = {y \in StatusOf(kind) : Unhandled(y) /\ y.at > 0}
      OBVIOUS
    <3>2. x \in rows /\ rows \subseteq db.status
      BY <2>2, <2>4, <3>1 DEF StatusOf
    <3>3. PICK y \in rows : \A z \in rows : y.at <= z.at
      BY <2>3, <3>2, EarliestRow
    <3>4. y \in Firsts(kind)
      BY <3>1, <3>3 DEF Firsts
    <3> QED
      BY <3>2, <3>3, <3>4
  <2>7. PICK H, S : H = Firsts("host") /\ S = Firsts("service")
    OBVIOUS
  <2>8. \A y \in Older(H, S) : y.at <= x.at
    <3>1. \A h \in H : h.at \in Nat
      BY <2>3, <2>5, <2>7 DEF Kinds
    <3>2. \A h \in S : h.at \in Nat
      BY <2>3, <2>5, <2>7 DEF Kinds
    <3>3. \A h, g \in H : h.at <= g.at
      BY <2>7 DEF Firsts
    <3>4. \A h, g \in S : h.at <= g.at
      BY <2>7 DEF Firsts
    <3>5. \E y \in H \cup S : y.at <= x.at
      BY <2>4, <2>6, <2>7 DEF Kinds
    <3>6. x.at \in Nat
      BY <2>2, <2>3
    <3> QED
      BY <3>1, <3>2, <3>3, <3>4, <3>5, <3>6 DEF Older
  <2>9. Older(H, S) # {}
    BY <2>4, <2>6, <2>7 DEF Older, Kinds
  <2>10. got.oldest \in {{y} : y \in Older(H, S)}
    BY <2>7, <2>9, SummaryHas DEF Oldest
  <2> QED
    BY <2>8, <2>10
<1> QED
  BY <1>1, AlwaysAnswer, PTL

LEMMA TwoCounts ==
    ASSUME NEW A, NEW B, IsFiniteSet(A), IsFiniteSet(B), A \cap B = {}
    PROVE  /\ IsFiniteSet(A \cup B)
           /\ Cardinality(A \cup B) = Cardinality(A) + Cardinality(B)
           /\ Cardinality(A) \in Nat /\ Cardinality(B) \in Nat
<1>1. Cardinality(A) \in Nat /\ Cardinality(B) \in Nat
  BY FS_CardinalityType
<1>2. Cardinality(A \cap B) = 0
  BY FS_EmptySet
<1>3. /\ IsFiniteSet(A \cup B)
      /\ Cardinality(A \cup B) = Cardinality(A) + Cardinality(B) - Cardinality(A \cap B)
  BY FS_Union
<1> QED
  BY <1>1, <1>2, <1>3

\* dashboard.html: while nothing is written, a tile counts the rows of the list it
\* links to, and of the unhandled problems as many more as have a column that is
\* NULL, for any objects.
THEOREM TilesListed == Spec => []TilesMatchLists
<1>1. ReadsInv /\ AnswerInv => TilesMatchLists
  <2> SUFFICES ASSUME ReadsInv, AnswerInv, Answered("summary"), still, NEW kind \in Kinds
               PROVE  LET c == IF kind = "host" THEN got.hosts ELSE got.services
                      IN  /\ c.problems = ListOf(kind, NoFilter)
                          /\ c.unhandled =
                                 ListOf(kind, [NoFilter EXCEPT !.handled = {FALSE}])
                                     + Undecided(kind)
    BY DEF TilesMatchLists
  <2>1. PICK c : c = IF kind = "host" THEN got.hosts ELSE got.services
    OBVIOUS
  <2>2. c = Counts(kind, Since)
    BY <2>1, SummaryHas DEF Kinds
  <2>3. DataInv
    BY DEF AnswerInv
  <2>4. /\ c.problems = Cardinality({x \in StatusOf(kind) : IsProblem(x)})
        /\ c.unhandled = Cardinality({x \in StatusOf(kind) : Unhandled(x)})
    BY <2>2 DEF Counts, Count
  <2>5. c.problems = ListOf(kind, NoFilter)
    BY <2>3, <2>4, ListedProblems DEF ListOf, Count
  <2>6. PICK all, listed, unknown :
            /\ all = {x \in StatusOf(kind) : Unhandled(x)}
            /\ listed = {x \in StatusOf(kind) : IsProblem(x) /\ x.acked = 0 /\ x.depth = 0}
            /\ unknown = {x \in StatusOf(kind) : Unhandled(x) /\ Null \in {x.acked, x.depth}}
    OBVIOUS
  <2>7. IsFiniteSet(all) /\ \A x \in StatusOf(kind) : x \in StatusRows
    BY <2>3, <2>6, TheData, FS_Subset DEF StatusOf
  <2>8. ASSUME NEW x \in StatusOf(kind)
        PROVE  /\ Unhandled(x) <=> \/ IsProblem(x) /\ x.acked = 0 /\ x.depth = 0
                                   \/ Unhandled(x) /\ Null \in {x.acked, x.depth}
               /\ ~(x.acked = 0 /\ x.depth = 0 /\ Null \in {x.acked, x.depth})
    BY DEF Unhandled, OrZero, Null
  <2>9. all = listed \cup unknown /\ listed \cap unknown = {}
    BY <2>6, <2>8
  <2>10. IsFiniteSet(listed) /\ IsFiniteSet(unknown)
    BY <2>7, <2>9, FS_Subset
  <2>11. Cardinality(all) = Cardinality(listed) + Cardinality(unknown)
    BY <2>9, <2>10, TwoCounts
  <2>12. c.unhandled = ListOf(kind, [NoFilter EXCEPT !.handled = {FALSE}]) + Undecided(kind)
    BY <2>3, <2>4, <2>6, <2>11, ListedProblems DEF ListOf, Undecided, Count
  <2> QED
    BY <2>1, <2>5, <2>12
<1> QED
  BY <1>1, AlwaysInv, AlwaysAnswer, PTL

\* hostDetail, "the records that explain why it is quiet": for any number of
\* downtimes and acknowledgements they are the object's own, and, while nothing is
\* written, the latest acknowledgement, and every window of an object that has no
\* more of them than are asked for.
THEOREM DetailCorrect == Spec => []DetailExplains
<1>1. AnswerInv => DetailExplains
  <2> SUFFICES ASSUME AnswerInv, Answered("detail"), NEW x \in got.object
               PROVE  /\ Has("ack") =>
                             /\ x.acked = 1
                             /\ \A i \in DOMAIN got.ack : got.ack[i].obj = x.obj
                             /\ still => \A y \in db.acks : y.obj = x.obj =>
                                    got.ack # <<>> /\ y.at <= got.ack[1].at
                      /\ Has("downtimes") =>
                             \A i \in DOMAIN got.downtimes : got.downtimes[i].obj = x.obj
                      /\ still /\ x.depth > 0 /\ Has("downtimes") =>
                             LET windows == {y \in db.downtimes : y.obj = x.obj}
                             IN  Count(windows) <= MaxDowntimes =>
                                    \A y \in windows : \E i \in DOMAIN got.downtimes :
                                        got.downtimes[i] = y
    BY DEF DetailExplains
  <2>1. /\ DataInv /\ Fresh /\ DetailInv
        /\ place # "asked" /\ ask.type = "detail"
    BY DEF AnswerInv, Answered
  <2>2. /\ DOMAIN got # {} => x.obj = ask.obj
        /\ Has("ack") => Own(got.ack) /\ x.acked = 1
        /\ Has("downtimes") => Own(got.downtimes)
    BY <2>1 DEF DetailInv, Has
  <2>3. Has("ack") \/ Has("downtimes") => x.obj = ask.obj
    BY <2>2 DEF Has
  <2>4. ASSUME Has("ack"), still, NEW y \in db.acks, y.obj = x.obj
        PROVE  got.ack # <<>> /\ y.at <= got.ack[1].at
    <3>1. got.ack \in Newest("acks", 1)
      BY <2>1, <2>4 DEF Fresh, Timeless, Has, Returns
    <3>2. /\ Len(got.ack) \in 0 .. 1 /\ DOMAIN got.ack = 1 .. Len(got.ack)
          /\ \/ \E i \in DOMAIN got.ack : got.ack[i] = y
             \/ Len(got.ack) = 1 /\ \A i \in DOMAIN got.ack : y.at <= got.ack[i].at
      <4>1. y.obj = ask.obj
        BY <2>3, <2>4
      <4>2. PICK r, n : r = got.ack /\ n = 1
        OBVIOUS
      <4>3. r \in Newest("acks", n) /\ n \in Nat \ {0}
        BY <3>1, <4>2
      <4>4. /\ Len(r) \in 0 .. n /\ DOMAIN r = 1 .. Len(r)
            /\ \/ \E i \in DOMAIN r : r[i] = y
               \/ Len(r) = n /\ \A i \in DOMAIN r : y.at <= r[i].at
        BY <2>1, <4>1, <4>3, NewestIs
      <4> QED
        BY <4>2, <4>4
    <3>3. y.at \in Nat
      <4>1. db.acks \subseteq AcknowledgementRows
        BY <2>1, TheTables DEF DataInv, IsDatabase
      <4> QED
        BY <2>4, <4>1 DEF AcknowledgementRows
    <3>4. PICK k : k = Len(got.ack)
      OBVIOUS
    <3>5. k = 1
      BY <3>2, <3>4
    <3>6. 1 \in DOMAIN got.ack /\ DOMAIN got.ack = {1}
      BY <3>2, <3>4, <3>5
    <3>7. got.ack # <<>>
      <4>1. DOMAIN <<>> = {}
        OBVIOUS
      <4> QED
        BY ONLY <3>6, <4>1
    <3>8. y.at <= got.ack[1].at
      BY <3>2, <3>3, <3>6
    <3> QED
      BY <3>7, <3>8
  <2>5. ASSUME Has("downtimes"), still, NEW y \in db.downtimes, y.obj = x.obj,
               Cardinality({z \in db.downtimes : z.obj = x.obj}) <= MaxDowntimes
        PROVE  \E i \in DOMAIN got.downtimes : got.downtimes[i] = y
    <3>1. PICK list, o, r : list = "downtimes" /\ o = ask.obj /\ r = got.downtimes
      OBVIOUS
    <3>2. r \in Newest(list, MaxDowntimes) /\ list \in {"acks", "downtimes"}
      BY <2>1, <2>5, <3>1 DEF Fresh, Timeless, Has, Returns
    <3>3. MaxDowntimes \in Nat \ {0}
      BY QueriesAssumption DEF QueriesAssumption
    <3>4. y \in db[list] /\ y.obj = ask.obj
      BY <2>3, <2>5, <3>1
    <3>5. Cardinality({z \in db[list] : z.obj = ask.obj}) <= MaxDowntimes
      BY <2>3, <2>5, <3>1
    <3>6. \E i \in DOMAIN r : r[i] = y
      BY <2>1, <3>2, <3>3, <3>4, <3>5, NewestIs
    <3> QED
      BY <3>1, <3>6
  <2> QED
    BY <2>2, <2>3, <2>4, <2>5 DEF Own, Count
<1> QED
  BY <1>1, AlwaysAnswer, PTL

\* A list's rows are rows of its table.
LEMMA MatchingIs ==
    ASSUME DataInv, ask.type = "list"
    PROVE  /\ Matching \subseteq db[Source(ask.q.list)]
           /\ IsFiniteSet(Matching) /\ Cardinality(Matching) \in Nat
<1>1. PICK list, f : list = ask.q.list /\ f = Filter
  OBVIOUS
<1>2. list \in Lists
  BY <1>1, TheQuery DEF ListQueries
<1>3. Matching = Selected(list, f, db, began)
  BY <1>1 DEF Matching
<1>4. Selected(list, f, db, began) \subseteq db[Source(list)]
  <2>1. CASE list \in StatusLists
    BY <2>1 DEF Selected, StatusLists, DowntimeLists, Hosts, Services, Problems
  <2>2. CASE list \in DowntimeLists
    BY <2>2 DEF Selected, DowntimeLists, Downtimes
  <2>3. CASE list \in HistoryLists
    BY <2>3 DEF Selected, HistoryLists, DowntimeLists, Checks, StateChanges, Notifications
  <2>4. CASE list \in {"acks", "log"}
    BY <2>4 DEF Selected, DowntimeLists, Acknowledgements, LogEntries
  <2> QED
    BY <1>2, <2>1, <2>2, <2>3, <2>4 DEF Lists
<1>5. Source(list) \in Tables
  BY <1>2 DEF Tables
<1>6. IsFiniteSet(db[Source(list)])
  BY <1>5 DEF DataInv, IsDatabase
<1>7. IsFiniteSet(Matching)
  BY <1>3, <1>4, <1>6, FS_Subset
<1> QED
  BY <1>1, <1>3, <1>4, <1>7, FS_CardinalityType

\* An accepted page has room for a row, and begins somewhere.
LEMMA ThePage ==
    ASSUME DataInv, ask.type = "list", ~Refuses(ask.q, began)
    PROVE  /\ Page.offset \in Nat /\ Page.limit \in Nat \ {0}
           /\ Page.sort \in SortColumns(ask.q.list) \cup {Fallback(ask.q.list)}
<1>1. ~BadPage(ask.q)
  BY DEF Refuses
<1>2. PICK l, o, d : l = ask.q.limit /\ o = ask.q.offset /\ d = DefaultPageSize
  OBVIOUS
<1>3. l \in Int /\ o \in Int /\ d \in Nat \ {0} /\ MaxPageSize \in Nat
  BY <1>2, TheQuery, QueriesAssumption DEF ListQueries, QueriesAssumption
<1>4. (l # Absent => l \in 1 .. MaxPageSize) /\ (o # Absent => ~(o < 0))
  BY <1>1, <1>2 DEF BadPage
<1>5. /\ Page.limit = IF l = Absent THEN d ELSE l
      /\ Page.offset = IF o = Absent THEN 0 ELSE o
      /\ Page.sort = IF ask.q.sort = "" THEN Fallback(ask.q.list) ELSE ask.q.sort
  BY <1>2 DEF Page, PageOf
<1>6. Page.limit \in Nat \ {0}
  <2>1. l # Absent => l \in Nat \ {0}
    BY ONLY <1>3, <1>4
  <2>2. Page.limit = d \/ (l # Absent /\ Page.limit = l)
    BY <1>5
  <2> QED
    BY <1>3, <2>1, <2>2
<1>7. Page.offset \in Nat
  <2>1. o # Absent => o \in Nat
    BY ONLY <1>3, <1>4
  <2>2. Page.offset = 0 \/ (o # Absent /\ Page.offset = o)
    BY <1>5
  <2> QED
    BY <2>1, <2>2
<1>8. Page.sort \in SortColumns(ask.q.list) \cup {Fallback(ask.q.list)}
  BY <1>1, <1>5 DEF BadPage
<1> QED
  BY <1>6, <1>7, <1>8

\* rows.Err and the count before the page: for any rows, pages and failures, an
\* answer of 200 has as many rows as the page has room for and the list has left.
THEOREM AnswersCorrect == Spec => []AnswersAreWhole
<1>1. AnswerInv => AnswersAreWhole
  <2> SUFFICES ASSUME AnswerInv, Answered("list"), still
               PROVE  LET left == Count(Matching) - Page.offset
                          full == IF left < Page.limit THEN left ELSE Page.limit
                      IN  /\ got.count = Count(Matching)
                          /\ (IF Has("rows") THEN Len(got.rows) ELSE 0)
                                 = IF full < 0 THEN 0 ELSE full
    BY DEF AnswersAreWhole
  <2>1. /\ DataInv /\ Fresh /\ ask.type = "list" /\ place # "asked"
        /\ ~Refuses(ask.q, began) /\ Has("count") /\ (got.count > 0 => Has("rows"))
    BY DEF AnswerInv, ListInv, Underway, Answered
  <2>2. PICK n, o, l : n = Cardinality(Matching) /\ o = Page.offset /\ l = Page.limit
    OBVIOUS
  <2>3. n \in Nat /\ o \in Nat /\ l \in Nat \ {0}
    BY <2>1, <2>2, MatchingIs, ThePage
  <2>4. got.count = n
    BY <2>1, <2>2 DEF Fresh, Timeless, Has, Returns, Count
  <2>5. CASE Has("rows")
    <3>1. got.rows \in Pages(ask.q.list, Page, Matching)
      BY <2>1, <2>5 DEF Fresh, Timeless, Has, Returns, Fetched
    <3>2. PICK s \in Orders(ask.q.list, Page, Matching) : got.rows = Slice(Page, s)
      BY <3>1 DEF Pages
    <3>3. Len(s) = n /\ s \in Seq(Matching)
      BY <2>1, <2>2, MatchingIs, OrderIs
    <3>4. Len(got.rows) = IF n - o < 0 THEN 0 ELSE IF n - o < l THEN n - o ELSE l
      <4>1. PICK p, rows : p = Page /\ rows = Matching
        OBVIOUS
      <4>2. s \in Seq(rows) /\ p.offset \in Nat /\ p.limit \in Nat
        BY <2>2, <2>3, <3>3, <4>1
      <4>3. Len(Slice(p, s)) =
                IF Len(s) - p.offset < 0 THEN 0
                ELSE IF Len(s) - p.offset < p.limit THEN Len(s) - p.offset ELSE p.limit
        BY ONLY <4>2, SliceIs
      <4> QED
        BY <2>2, <3>2, <3>3, <4>1, <4>3
    <3>5. Len(got.rows) = LET full == IF n - o < l THEN n - o ELSE l
                          IN  IF full < 0 THEN 0 ELSE full
      BY ONLY <2>3, <3>4
    <3> QED
      BY <2>2, <2>4, <2>5, <3>5 DEF Count
  <2>6. CASE ~Has("rows")
    <3>1. n = 0
      BY <2>1, <2>3, <2>4, <2>6
    <3>2. 0 = LET full == IF n - o < l THEN n - o ELSE l
              IN  IF full < 0 THEN 0 ELSE full
      BY ONLY <2>3, <3>1
    <3> QED
      BY <2>2, <2>4, <2>6, <3>2 DEF Count
  <2> QED
    BY <2>5, <2>6
<1> QED
  BY <1>1, AlwaysAnswer, PTL

-----------------------------------------------------------------------------
(* A walk over the hosts                                                   *)

\* An enumeration of n elements that puts none before one it should come after.
Enumerates(s, R, n, less) ==
    /\ s \in [1 .. n -> R]
    /\ \A i, j \in 1 .. n : s[i] = s[j] => i = j
    /\ \A x \in R : \E i \in 1 .. n : s[i] = x
    /\ \A i, j \in 1 .. n : i < j => <<s[j], s[i]>> \notin less

\* There is one, where of any two elements one comes before the other.
LEMMA OneOrder ==
    ASSUME NEW R, NEW n \in Nat, NEW less,
           \A x, y \in R : x # y => <<x, y>> \in less \/ <<y, x>> \in less,
           NEW s, NEW t, Enumerates(s, R, n, less), Enumerates(t, R, n, less)
    PROVE  s = t
<1> USE DEF Enumerates
<1> SUFFICES ASSUME \E i \in 1 .. n : s[i] # t[i] PROVE FALSE
  OBVIOUS
<1>1. PICK differ : differ = {i \in 1 .. n : s[i] # t[i]}
  OBVIOUS
<1>2. differ \in SUBSET Nat /\ differ # {}
  <2>1. \A i \in differ : i \in Nat
    BY <1>1
  <2>2. differ # {}
    BY <1>1
  <2> QED
    BY <2>1, <2>2
<1>3. PICK i \in differ : \A j \in differ : i <= j
  BY <1>2, LeastNumber
<1>4. i \in 1 .. n /\ s[i] # t[i] /\ s[i] \in R /\ t[i] \in R
  BY <1>1
<1>5. \A j \in 1 .. n : j < i => s[j] = t[j]
  BY <1>1, <1>3, <1>4
<1>6. PICK j \in 1 .. n : t[j] = s[i]
  BY <1>4
<1>7. PICK k \in 1 .. n : s[k] = t[i]
  BY <1>4
<1>8. i < j
  <2>1. j # i
    BY <1>4, <1>6
  <2>2. ~(j < i)
    BY <1>4, <1>5, <1>6
  <2> QED
    BY <1>4, <2>1, <2>2
<1>9. i < k
  <2>1. k # i
    BY <1>4, <1>7
  <2>2. ~(k < i)
    BY <1>4, <1>5, <1>7
  <2> QED
    BY <1>4, <2>1, <2>2
<1>10. <<s[k], s[i]>> \notin less /\ <<t[j], t[i]>> \notin less
  BY <1>4, <1>8, <1>9
<1> QED
  BY <1>4, <1>6, <1>7, <1>10

\* The hosts that match, which depend neither on the clock nor on the page.
LEMMA TheHosts ==
    ASSUME DataInv, ask.type = "list", ask.q.list = "hosts"
    PROVE  /\ Matching = Hosts(ask.q.f, db.status)
           /\ \A x \in Matching : x \in StatusRows /\ x \in db.status /\ x.obj.kind = "host"
<1>1. Filter = ask.q.f
  BY DEF Filter, FilterOf, Windowed, HistoryLists
<1>2. Source("hosts") = "status"
  BY DEF Source, StatusLists
<1>3. Matching = Hosts(ask.q.f, db.status)
  BY <1>1, <1>2 DEF Matching, Selected, DowntimeLists
<1> QED
  BY <1>3, TheData DEF Hosts

LEMMA HostColumns ==
    ASSUME NEW x \in StatusRows, NEW c \in {"hostname", "severity", "state", "time"}
    PROVE  Column("hosts", c, x) \in Int
<1>1. x.obj \in Objects /\ x.state \in 0 .. 3 /\ x.at \in Nat
  BY DEF StatusRows
<1>2. x.obj.host \in Nat
  BY <1>1 DEF Objects
<1>3. HostSeverity[x.state] \in Int
  BY <1>1 DEF HostSeverity
<1>4. CASE c = "hostname"
  BY <1>2, <1>4 DEF Column
<1>5. CASE c = "severity"
  BY <1>3, <1>5 DEF Column, Severity
<1>6. CASE c = "state"
  BY <1>1, <1>6 DEF Column
<1>7. CASE c = "time"
  BY <1>1, <1>7 DEF Column
<1> QED
  BY <1>4, <1>5, <1>6, <1>7

\* orderBy: the name decides between two hosts the column does not.
LEMMA HostsDiffer ==
    ASSUME NEW p, p.sort \in {"hostname", "severity", "state", "time"},
           NEW x \in StatusRows, NEW y \in StatusRows,
           x.obj.kind = "host", y.obj.kind = "host", x.obj # y.obj
    PROVE  Before("hosts", p, x, y) \/ Before("hosts", p, y, x)
<1>1. Fallback("hosts") = "hostname"
  BY DEF Fallback
<1>2. x.obj.host # y.obj.host
  <2>1. x.obj \in [kind : {"host"}, host : Nat \ {0}, svc : {0}]
    BY DEF StatusRows, Objects
  <2>2. y.obj \in [kind : {"host"}, host : Nat \ {0}, svc : {0}]
    BY DEF StatusRows, Objects
  <2> QED
    BY <2>1, <2>2
<1>3. PICK a, b, u, v : /\ a = Column("hosts", p.sort, x) /\ b = Column("hosts", p.sort, y)
                        /\ u = Column("hosts", "hostname", x)
                        /\ v = Column("hosts", "hostname", y)
  OBVIOUS
<1>4. a \in Int /\ b \in Int /\ u \in Int /\ v \in Int
  BY <1>3, HostColumns
<1>5. u # v
  BY <1>2, <1>3 DEF Column
<1>6. p.sort = "hostname" => a = u /\ b = v
  BY <1>3
<1>7. Before("hosts", p, x, y) <=> \/ IF p.desc THEN a > b ELSE a < b
                                   \/ a = b /\ p.sort # "hostname" /\ u < v
  BY <1>1, <1>3 DEF Before
<1>8. Before("hosts", p, y, x) <=> \/ IF p.desc THEN b > a ELSE b < a
                                   \/ b = a /\ p.sort # "hostname" /\ v < u
  BY <1>1, <1>3 DEF Before
<1> QED
  BY ONLY <1>4, <1>5, <1>6, <1>7, <1>8

\* So an accepted list of hosts has one order.
LEMMA HostsOneOrder ==
    ASSUME DataInv, ask.type = "list", ask.q.list = "hosts", ~Refuses(ask.q, began),
           NEW s \in Orders("hosts", Page, Matching), NEW t \in Orders("hosts", Page, Matching)
    PROVE  s = t
<1>1. PICK R, p, n : R = Matching /\ p = Page /\ n = Cardinality(R)
  OBVIOUS
<1>2. PICK less : less = {xy \in R \X R : Before("hosts", p, xy[1], xy[2])}
  OBVIOUS
<1>3. IsFiniteSet(R)
  BY <1>1, MatchingIs
<1>4. s \in Orders("hosts", p, R) /\ t \in Orders("hosts", p, R)
  BY <1>1
<1>5. /\ n \in Nat /\ s \in [1 .. n -> R]
      /\ \A i, j \in 1 .. n : s[i] = s[j] => i = j
      /\ \A x \in R : \E i \in 1 .. n : s[i] = x
      /\ \A i, j \in 1 .. n : i < j => ~Before("hosts", p, s[j], s[i])
  BY <1>1, <1>3, <1>4, OrderIs
<1>6. /\ t \in [1 .. n -> R]
      /\ \A i, j \in 1 .. n : t[i] = t[j] => i = j
      /\ \A x \in R : \E i \in 1 .. n : t[i] = x
      /\ \A i, j \in 1 .. n : i < j => ~Before("hosts", p, t[j], t[i])
  BY <1>1, <1>3, <1>4, OrderIs
<1>7. \A x, y \in R : <<x, y>> \in less <=> Before("hosts", p, x, y)
  BY <1>2
<1>8. p.sort \in {"hostname", "severity", "state", "time"}
  <2>1. SortColumns("hosts") = {"hostname", "severity", "state", "time"}
    BY DEF SortColumns, DowntimeLists
  <2>2. Fallback("hosts") = "hostname"
    BY DEF Fallback
  <2> QED
    BY <1>1, <2>1, <2>2, ThePage
<1>9. ASSUME NEW x \in R, NEW y \in R, x # y
      PROVE  <<x, y>> \in less \/ <<y, x>> \in less
  <2>1. x \in StatusRows /\ y \in StatusRows /\ x.obj.kind = "host" /\ y.obj.kind = "host"
        /\ x \in db.status /\ y \in db.status
    BY <1>1, TheHosts
  <2>2. x.obj # y.obj
    BY <1>9, <2>1 DEF DataInv, IsDatabase
  <2> QED
    BY <1>7, <1>8, <2>1, <2>2, HostsDiffer
<1>10. \A i, j \in 1 .. n : i < j => <<s[j], s[i]>> \notin less
  BY <1>5, <1>7
<1>11. \A i, j \in 1 .. n : i < j => <<t[j], t[i]>> \notin less
  BY <1>6, <1>7
<1>12. \A x, y \in R : x # y => <<x, y>> \in less \/ <<y, x>> \in less
  BY <1>9
<1>13. Enumerates(s, R, n, less) /\ Enumerates(t, R, n, less) /\ n \in Nat
  BY <1>5, <1>6, <1>10, <1>11 DEF Enumerates
<1> QED
  BY ONLY <1>12, <1>13, OneOrder

\* How far the pages shown so far reach.
Reached ==
    IF place = "answered" /\ status = 200 THEN Page.offset + Page.limit ELSE Page.offset

\* b is the first n elements of s, or all of it; r is the page that follows.
Beginning(b, s, n) ==
    /\ Len(b) = IF n < Len(s) THEN n ELSE Len(s)
    /\ \A i \in 1 .. Len(b) : b[i] = s[i]

Following(r, s, o, l) ==
    /\ Len(r) = IF Len(s) - o < 0 THEN 0 ELSE IF Len(s) - o < l THEN Len(s) - o ELSE l
    /\ \A i \in 1 .. Len(r) : r[i] = s[o + i]

\* A walk's book is the beginning of any order of its rows.
Begins(s, n) == Beginning(book, s, n)

Walks == ask.type = "list" /\ ask.walk /\ ask.q.list = "hosts"

WalkInv ==
    Walks /\ still =>
        /\ Page.offset \in Nat /\ book \in Seq(Matching)
        /\ \A s \in Orders("hosts", Page, Matching) : Begins(s, Reached)

LEMMA HostsSelected ==
    ASSUME NEW q, q.list = "hosts", NEW d, NEW time
    PROVE  Selected(q.list, FilterOf(q, time), d, time) = Hosts(q.f, d.status)
<1>1. FilterOf(q, time) = q.f
  BY DEF FilterOf, Windowed, HistoryLists
<1>2. Source("hosts") = "status"
  BY DEF Source, StatusLists
<1> QED
  BY <1>1, <1>2 DEF Selected, DowntimeLists

\* The offset has no say in the order.
LEMMA OrdersSame ==
    ASSUME NEW list, NEW p, NEW q, p.sort = q.sort, p.desc = q.desc, NEW rows
    PROVE  Orders(list, p, rows) = Orders(list, q, rows)
<1>1. \A x, y : Before(list, p, x, y) <=> Before(list, q, x, y)
  BY DEF Before
<1> QED
  BY <1>1 DEF Orders

\* Nothing is written or shown: the walk stays where it is.
LEMMA WalkStays ==
    ASSUME WalkInv, UNCHANGED <<db, book>>, still' => still,
           ask'.type = "list" => /\ ask.type = "list" /\ ask'.walk = ask.walk
                                 /\ ask'.q.list = ask.q.list /\ ask'.q.f = ask.q.f,
           Walks /\ still => /\ Reached' = Reached /\ Page'.offset \in Nat
                            /\ Page'.sort = Page.sort /\ Page'.desc = Page.desc
    PROVE  WalkInv'
<1> SUFFICES ASSUME Walks', still'
             PROVE  /\ Page'.offset \in Nat /\ book' \in Seq(Matching')
                    /\ \A s \in Orders("hosts", Page', Matching') : Begins(s, Reached)'
  BY DEF WalkInv
<1>1. Walks /\ still /\ ask'.q.list = "hosts" /\ ask.q.list = "hosts" /\ ask'.q.f = ask.q.f
  BY DEF Walks
<1>2. Matching' = Matching
  <2>1. Matching = Hosts(ask.q.f, db.status)
    BY <1>1, HostsSelected DEF Matching, Filter
  <2>2. Matching' = Hosts(ask'.q.f, db'.status)
    BY <1>1, HostsSelected DEF Matching, Filter
  <2> QED
    BY <1>1, <2>1, <2>2
<1>3. Orders("hosts", Page', Matching') = Orders("hosts", Page, Matching)
  <2>1. PICK p, q : p = Page' /\ q = Page
    OBVIOUS
  <2>2. Orders("hosts", p, Matching) = Orders("hosts", q, Matching)
    BY <1>1, <2>1, OrdersSame
  <2> QED
    BY <1>2, <2>1, <2>2
<1>4. \A s : Begins(s, Reached)' <=> Begins(s, Reached)
  BY <1>1 DEF Begins
<1> QED
  BY <1>1, <1>2, <1>3, <1>4 DEF WalkInv

LEMMA InitWalk == Init => WalkInv
<1> SUFFICES ASSUME Init, Walks PROVE /\ Page.offset \in Nat /\ book \in Seq(Matching)
                                      /\ \A s \in Orders("hosts", Page, Matching) :
                                             Begins(s, Reached)
  BY DEF WalkInv
<1>1. PICK scene \in Scenes : ask \in scene.asks
  BY DEF Init
<1>2. ask \in Requests
  BY <1>1, ReadsAssumption DEF ReadsAssumption
<1>3. ask.q.offset \in {Absent, 0}
  BY <1>2 DEF Requests, Walks
<1>4. Page.offset = 0
  BY <1>3 DEF Page, PageOf
<1>5. Reached = 0 /\ book = <<>>
  BY <1>4 DEF Reached, Init
<1>6. DataInv /\ ask.type = "list"
  BY InitInv DEF ReadsInv, Walks
<1>7. ASSUME NEW s \in Orders("hosts", Page, Matching) PROVE Begins(s, Reached)
  <2>1. Len(s) \in Nat
    BY <1>6, MatchingIs, OrderIs
  <2> QED
    BY <1>5, <2>1 DEF Begins, Beginning
<1> QED
  BY <1>4, <1>5, <1>7

LEMMA NextPageWalk == ASSUME AnswerInv, WalkInv, NextPage PROVE WalkInv'
<1>1. /\ ask.type = "list" /\ ask'.type = "list" /\ ask.walk /\ ask'.walk
      /\ ask'.q = [ask.q EXCEPT !.offset = Page.offset + Page.limit]
      /\ DataInv
  BY NextPageAsks DEF AnswerInv
<1>2. UNCHANGED <<db, book, still>> /\ place = "answered" /\ status = 200 /\ place' = "asked"
      /\ ask' = [ask EXCEPT !.q.offset = Page.offset + Page.limit]
  BY DEF NextPage, dataVars
<1>3. ~Refuses(ask.q, began)
  BY <1>1, <1>2 DEF AnswerInv, ListInv, Underway
<1>4. PICK o, l : o = Page.offset /\ l = Page.limit
  OBVIOUS
<1>5. o \in Nat /\ l \in Nat \ {0}
  BY <1>1, <1>3, <1>4, ThePage
<1>6. ask.q \in ListQueries
  BY <1>1, TheQuery
<1>7. /\ ask'.q.offset = o + l /\ ask'.q.list = ask.q.list /\ ask'.q.f = ask.q.f
      /\ ask'.q.sort = ask.q.sort /\ ask'.q.desc = ask.q.desc
  BY <1>1, <1>4, <1>6 DEF ListQueries
<1>8. o + l # Absent /\ o + l \in Nat
  BY <1>5 DEF Absent
<1>9. Page'.offset = o + l /\ Page'.sort = Page.sort /\ Page'.desc = Page.desc
  BY <1>7, <1>8 DEF Page, PageOf
<1>10. Reached = o + l /\ Reached' = o + l
  BY <1>2, <1>4, <1>9 DEF Reached
<1> QED
  BY <1>1, <1>2, <1>7, <1>8, <1>9, <1>10, WalkStays

\* A page that follows on the beginning of an order makes a longer beginning.
LEMMA Longer ==
    ASSUME NEW R, NEW o \in Nat, NEW l \in Nat,
           NEW s \in Seq(R), NEW b \in Seq(R), NEW r \in Seq(R),
           Beginning(b, s, o), Following(r, s, o, l)
    PROVE  b \o r \in Seq(R) /\ Beginning(b \o r, s, o + l)
<1> USE DEF Beginning, Following
<1>0. PICK n : n = Len(s)
  OBVIOUS
<1>1. PICK h, k : h = Len(b) /\ k = Len(r)
  OBVIOUS
<1>2. h \in Nat /\ k \in Nat /\ n \in Nat
  BY <1>0, <1>1
<1>3. /\ b \o r \in Seq(R) /\ Len(b \o r) = h + k
      /\ \A i \in 1 .. h + k : (b \o r)[i] = IF i <= h THEN b[i] ELSE r[i - h]
  <2>1. /\ b \o r \in Seq(R) /\ Len(b \o r) = Len(b) + Len(r)
        /\ \A i \in 1 .. Len(b) + Len(r) :
               (b \o r)[i] = IF i <= Len(b) THEN b[i] ELSE r[i - Len(b)]
    BY ONLY b \in Seq(R), r \in Seq(R), ConcatProperties
  <2> QED
    BY <1>1, <2>1
<1>4. /\ h = IF o < n THEN o ELSE n
      /\ k = IF n - o < 0 THEN 0 ELSE IF n - o < l THEN n - o ELSE l
      /\ o \in Nat /\ l \in Nat
  BY <1>0, <1>1
<1>5. h + k = IF o + l < n THEN o + l ELSE n
  BY ONLY <1>2, <1>4
<1>6. ASSUME NEW i \in 1 .. h + k PROVE (b \o r)[i] = s[i]
  <2>1. CASE i <= h
    <3>1. i \in 1 .. h
      BY ONLY <1>2, <1>6, <2>1
    <3> QED
      BY <1>1, <1>3, <1>6, <2>1, <3>1
  <2>2. CASE ~(i <= h)
    <3>1. i - h \in 1 .. k /\ h = o /\ o + (i - h) = i
      BY ONLY <1>2, <1>6, <1>4, <2>2
    <3>2. r[i - h] = s[o + (i - h)]
      BY <1>1, <3>1
    <3> QED
      BY <1>3, <1>6, <2>2, <3>1, <3>2
  <2> QED
    BY <2>1, <2>2
<1> QED
  BY <1>0, <1>3, <1>5, <1>6

LEMMA RespondWalk == ASSUME AnswerInv, WalkInv, Respond PROVE WalkInv'
<1> SUFFICES ASSUME Walks, still
             PROVE  /\ Page'.offset \in Nat /\ book' \in Seq(Matching')
                    /\ \A s \in Orders("hosts", Page', Matching') : Begins(s, Reached)'
  BY DEF WalkInv, Walks, Respond
<1>1. /\ UNCHANGED <<db, ask, began, got, still>> /\ place = "reading"
      /\ place' = "answered"
      /\ book' = IF Has("rows") THEN book \o got.rows ELSE book
      /\ ask.type = "list" /\ ask.q.list = "hosts"
  BY DEF Respond, dataVars, Walks
<1>2. DataInv /\ Fresh /\ ~Refuses(ask.q, began)
  BY <1>1 DEF AnswerInv, ListInv, Underway
<1>3. Matching' = Matching /\ Page' = Page
  BY <1>1, MatchingSame
<1>4. Has("count") /\ (got.count > 0 => Has("rows")) /\ status' = 200
  <2>1. NextOfList = "none"
    BY <1>1 DEF Respond, Statement
  <2>2. ~NotFound
    BY <1>1 DEF NotFound
  <2> QED
    BY <2>1, <2>2 DEF NextOfList, Respond
<1>5. PICK o, l, n : o = Page.offset /\ l = Page.limit /\ n = Cardinality(Matching)
  OBVIOUS
<1>6. o \in Nat /\ l \in Nat \ {0} /\ n \in Nat /\ IsFiniteSet(Matching)
  BY <1>1, <1>2, <1>5, ThePage, MatchingIs
<1>7. Reached = o /\ Reached' = o + l
  BY <1>1, <1>3, <1>4, <1>5 DEF Reached
<1>8. book \in Seq(Matching) /\ \A s \in Orders("hosts", Page, Matching) : Begins(s, o)
  BY <1>7 DEF WalkInv
<1>9. CASE Has("rows")
  <2>1. got.rows \in Pages("hosts", Page, Matching)
    BY <1>1, <1>2, <1>9 DEF Fresh, Timeless, Has, Returns, Fetched
  <2>2. PICK t \in Orders("hosts", Page, Matching) : got.rows = Slice(Page, t)
    BY <2>1 DEF Pages
  <2>3. Len(t) = n /\ t \in Seq(Matching)
    BY <1>5, <1>6, OrderIs
  <2>4. PICK p, R, b, r : p = Page /\ R = Matching /\ b = book /\ r = got.rows
    OBVIOUS
  <2>5. t \in Seq(R) /\ b \in Seq(R) /\ p.offset = o /\ p.limit = l
    BY <1>5, <1>8, <2>3, <2>4
  <2>6. /\ Slice(p, t) \in Seq(R)
        /\ Len(Slice(p, t)) =
               IF Len(t) - p.offset < 0 THEN 0
               ELSE IF Len(t) - p.offset < p.limit THEN Len(t) - p.offset ELSE p.limit
        /\ \A i \in 1 .. Len(Slice(p, t)) : Slice(p, t)[i] = t[p.offset + i]
    BY ONLY <1>6, <2>5, SliceIs
  <2>7. r \in Seq(R) /\ Following(r, t, o, l)
    BY <2>2, <2>4, <2>5, <2>6 DEF Following
  <2>8. Beginning(b, t, o)
    BY <1>8, <2>4 DEF Begins
  <2>9. b \o r \in Seq(R) /\ Beginning(b \o r, t, o + l)
    <3>1. o \in Nat /\ l \in Nat
      BY <1>6
    <3> QED
      BY ONLY <2>5, <2>7, <2>8, <3>1, Longer
  <2>10. book' = b \o r
    BY <1>1, <1>9, <2>4
  <2>11. ASSUME NEW s \in Orders("hosts", Page, Matching) PROVE Begins(s, Reached)'
    <3>1. s = t
      BY <1>1, <1>2, HostsOneOrder
    <3> QED
      BY <1>7, <2>9, <2>10, <3>1 DEF Begins
  <2> QED
    BY <1>3, <1>5, <1>6, <2>4, <2>9, <2>10, <2>11
<1>10. CASE ~Has("rows")
  <2>1. n = 0
    <3>1. got.count = n
      BY <1>1, <1>2, <1>4, <1>5 DEF Fresh, Timeless, Has, Returns, Count
    <3> QED
      BY <1>4, <1>6, <1>10, <3>1
  <2>2. ASSUME NEW s \in Orders("hosts", Page, Matching) PROVE Begins(s, Reached)'
    <3>1. Len(s) = 0
      <4>1. Len(s) = Cardinality(Matching)
        BY <1>6, OrderIs
      <4> QED
        BY <1>5, <2>1, <4>1
    <3>2. Begins(s, o)
      BY <1>8
    <3>3. Len(book) = 0
      BY <1>6, <3>1, <3>2 DEF Begins, Beginning
    <3>4. book' = book /\ ~(o + l < 0)
      BY <1>1, <1>6, <1>10
    <3> QED
      BY <1>7, <3>1, <3>3, <3>4 DEF Begins, Beginning
  <2> QED
    BY <1>1, <1>3, <1>5, <1>6, <1>8, <1>10, <2>2
<1> QED
  BY <1>9, <1>10

LEMMA NextWalk == ASSUME AnswerInv, WalkInv, [Next]_vars PROVE WalkInv'
<1>1. Walks => Page.offset \in Nat \/ ~still
  BY DEF WalkInv
<1>2. ASSUME UNCHANGED <<db, ask, book, still>>, Reached' = Reached PROVE WalkInv'
  <2>1. Page' = Page
    BY <1>2 DEF Page
  <2> QED
    BY <1>1, <1>2, <2>1, WalkStays
<1>3. ASSUME UNCHANGED ask, ~(place = "answered" /\ status = 200),
             ~(place' = "answered" /\ status' = 200)
      PROVE  Reached' = Reached
  BY <1>3 DEF Reached, Page
<1>4. CASE Begin
  BY <1>2, <1>3, <1>4 DEF Begin, dataVars
<1>5. CASE Execute
  BY <1>2, <1>3, <1>5 DEF Execute, dataVars
<1>6. ASSUME NEW code \in {0, 500, 504}, Ends(code), place = "reading" PROVE WalkInv'
  BY <1>2, <1>3, <1>6 DEF Ends, dataVars
<1>7. CASE Deadline
  BY <1>6, <1>7 DEF Deadline, InTime
<1>8. CASE Fails
  BY <1>6, <1>8 DEF Fails
<1>9. CASE WorkerWrites
  BY <1>9 DEF WorkerWrites, WalkInv, AnswerInv, DataInv
<1>10. CASE Tick
  BY <1>2, <1>3, <1>10 DEF Tick
<1>11. CASE UNCHANGED vars
  <2>1. Reached' = Reached
    BY <1>11 DEF vars, Reached, Page
  <2> QED
    BY <1>2, <1>11, <2>1 DEF vars, dataVars
<1> QED
  BY <1>4, <1>5, <1>7, <1>8, <1>9, <1>10, <1>11, RespondWalk, NextPageWalk DEF Next

\* orderBy, "The tiebreaker keeps paging stable": for any hosts, sort, direction and
\* page size, whoever walks over a list of hosts that nothing is written to sees
\* each of its rows once.
THEOREM HostPagesCorrect == Spec => []HostPagesCoverOnce
<1>1. AnswerInv /\ WalkInv => HostPagesCoverOnce
  <2> SUFFICES ASSUME AnswerInv, WalkInv, ask.q.list = "hosts", WalkedStill,
                      NEW x \in Matching
               PROVE  Cardinality({i \in DOMAIN book : book[i] = x}) = 1
    BY DEF HostPagesCoverOnce, PagingIsStable, EachRowOnce
  <2>1. /\ DataInv /\ Fresh /\ ask.type = "list" /\ place # "asked" /\ still /\ Walks
        /\ ~Refuses(ask.q, began) /\ Has("count") /\ (got.count > 0 => Has("rows"))
        /\ Page.offset + Page.limit >= got.count
        /\ Reached = Page.offset + Page.limit
    BY DEF AnswerInv, ListInv, Underway, Answered, WalkedStill, Walked, Walks, Reached
  <2>2. PICK n, m : n = Cardinality(Matching) /\ m = Page.offset + Page.limit
    OBVIOUS
  <2>3. IsFiniteSet(Matching) /\ n \in Nat /\ m \in Nat
    BY <2>1, <2>2, MatchingIs, ThePage
  <2>4. got.count = n
    BY <2>1, <2>2 DEF Fresh, Timeless, Has, Returns, Count
  <2>5. n # 0
    BY <2>2, <2>3, FS_EmptySet
  <2>6. got.rows \in Pages("hosts", Page, Matching)
    BY <2>1, <2>3, <2>4, <2>5 DEF Fresh, Timeless, Has, Returns, Fetched
  <2>7. PICK s \in Orders("hosts", Page, Matching) : TRUE
    BY <2>6 DEF Pages
  <2>8. /\ Len(s) = n
        /\ \A i, j \in 1 .. n : s[i] = s[j] => i = j
        /\ \E i \in 1 .. n : s[i] = x
    <3>1. PICK R, p : R = Matching /\ p = Page
      OBVIOUS
    <3>2. /\ Len(s) = Cardinality(R)
          /\ \A i, j \in 1 .. Cardinality(R) : s[i] = s[j] => i = j
          /\ \A y \in R : \E i \in 1 .. Cardinality(R) : s[i] = y
      BY <2>3, <2>7, <3>1, OrderIs
    <3> QED
      BY <2>2, <3>1, <3>2
  <2>9. Beginning(book, s, m) /\ book \in Seq(Matching)
    BY <2>1, <2>2, <2>7 DEF WalkInv, Begins
  <2>10. Len(book) = n /\ \A i \in 1 .. n : book[i] = s[i]
    <3>1. Len(book) = IF m < n THEN m ELSE n
      BY <2>8, <2>9 DEF Beginning
    <3>2. ~(m < n)
      BY <2>1, <2>2, <2>3, <2>4
    <3> QED
      BY <2>9, <3>1, <3>2 DEF Beginning
  <2>11. DOMAIN book = 1 .. n
    BY <2>9, <2>10, SeqIs
  <2>12. PICK j \in 1 .. n : s[j] = x
    BY <2>8
  <2>13. {i \in DOMAIN book : book[i] = x} = {j}
    BY <2>8, <2>10, <2>11, <2>12
  <2> QED
    BY <2>13, FS_Singleton
<1>2. Init => AnswerInv /\ WalkInv
  BY InitAnswer, InitWalk
<1>3. (AnswerInv /\ WalkInv) /\ [Next]_vars => (AnswerInv /\ WalkInv)'
  BY NextAnswer, NextWalk
<1> QED
  BY <1>1, <1>2, <1>3, PTL DEF Spec

-----------------------------------------------------------------------------
(* The states and the totals                                               *)

\* Two numbers that differ by one for each write at the most.
Near(a, b) == a - b \in -written .. written

\* The objects that were ever checked, and those of them that are fine.
Checked(kind) == Cardinality({x \in StatusOf(kind) : x.checked})
Fine(kind) == Cardinality({x \in StatusOf(kind) : x.checked /\ x.state = 0})

\* A statement's totals against numbers of objects that were ever checked.
Fits(c, all, fine) ==
    /\ c.total \in Int /\ c.pending \in Int /\ c.problems \in Int
    /\ all \in Int /\ fine \in Int
    /\ Near(all + c.pending, c.total)
    /\ Near(fine + c.problems + c.pending, c.total)

\* What a summary counts of a kind of objects, and what it has of it so far: the
\* totals fit the table, and, once they are read, the states.
KindInv(kind, totals, states) ==
    /\ Has(states) => Has(totals)
    /\ Has(totals) /\ ~Has(states) => Fits(got[totals], Checked(kind), Fine(kind))
    /\ Has(states) =>
           Fits(got[totals],
                got[states][0] + got[states][1] + got[states][2] + got[states][3],
                got[states][0])

ScanInv ==
    ask.type = "summary" =>
        /\ KindInv("host", "hosts", "hostStates")
        /\ KindInv("service", "services", "serviceStates")

\* An object was checked or was not; if it was, it is fine or a problem, and in one
\* of four states.
LEMMA Partition ==
    ASSUME DataInv, NEW kind
    PROVE  /\ Checked(kind) \in Nat /\ Fine(kind) \in Nat
           /\ ByState(kind)[0] = Fine(kind)
           /\ ByState(kind)[0] + ByState(kind)[1] + ByState(kind)[2] + ByState(kind)[3]
                  = Checked(kind)
           /\ \A since : /\ Counts(kind, since).total \in Nat
                         /\ Counts(kind, since).pending \in Nat
                         /\ Counts(kind, since).problems \in Nat
                         /\ Counts(kind, since).total
                                = Checked(kind) + Counts(kind, since).pending
                         /\ Checked(kind) = Fine(kind) + Counts(kind, since).problems
<1>1. PICK rows : rows = StatusOf(kind)
  OBVIOUS
<1>2. IsFiniteSet(rows) /\ \A x \in rows : x.state \in 0 .. 3 /\ x.checked \in BOOLEAN
  BY <1>1, TheData, FS_Subset DEF StatusOf, StatusRows
<1>3. PICK A, B, C, D, E, F, G :
          /\ A = {x \in rows : x.checked /\ x.state = 0}
          /\ B = {x \in rows : x.checked /\ x.state = 1}
          /\ C = {x \in rows : x.checked /\ x.state = 2}
          /\ D = {x \in rows : x.checked /\ x.state = 3}
          /\ E = {x \in rows : ~x.checked}
          /\ F = {x \in rows : x.checked}
          /\ G = {x \in rows : IsProblem(x)}
  OBVIOUS
<1>4. /\ IsFiniteSet(A) /\ IsFiniteSet(B) /\ IsFiniteSet(C) /\ IsFiniteSet(D)
      /\ IsFiniteSet(E) /\ IsFiniteSet(F) /\ IsFiniteSet(G)
  BY <1>2, <1>3, FS_Subset
<1>5. /\ F = ((A \cup B) \cup C) \cup D /\ rows = F \cup E /\ F = A \cup G
      /\ A \cap B = {} /\ (A \cup B) \cap C = {} /\ ((A \cup B) \cup C) \cap D = {}
      /\ F \cap E = {} /\ A \cap G = {}
  BY <1>2, <1>3 DEF IsProblem
<1>6. /\ IsFiniteSet(A \cup B)
      /\ Cardinality(A \cup B) = Cardinality(A) + Cardinality(B)
      /\ Cardinality(A) \in Nat /\ Cardinality(B) \in Nat
  BY <1>4, <1>5, TwoCounts
<1>7. /\ IsFiniteSet((A \cup B) \cup C)
      /\ Cardinality((A \cup B) \cup C) = Cardinality(A \cup B) + Cardinality(C)
      /\ Cardinality(C) \in Nat
  BY <1>4, <1>5, <1>6, TwoCounts
<1>8. /\ Cardinality(F) = Cardinality((A \cup B) \cup C) + Cardinality(D)
      /\ Cardinality(D) \in Nat
  BY <1>4, <1>5, <1>7, TwoCounts
<1>9. /\ Cardinality(rows) = Cardinality(F) + Cardinality(E)
      /\ Cardinality(F) \in Nat /\ Cardinality(E) \in Nat
  BY <1>4, <1>5, TwoCounts
<1>10. /\ Cardinality(F) = Cardinality(A) + Cardinality(G)
       /\ Cardinality(G) \in Nat
  BY <1>4, <1>5, TwoCounts
<1>11. Cardinality(A) + Cardinality(B) + Cardinality(C) + Cardinality(D) = Cardinality(F)
  BY ONLY <1>6, <1>7, <1>8
<1>12. /\ ByState(kind)[0] = Cardinality(A) /\ ByState(kind)[1] = Cardinality(B)
       /\ ByState(kind)[2] = Cardinality(C) /\ ByState(kind)[3] = Cardinality(D)
       /\ Checked(kind) = Cardinality(F) /\ Fine(kind) = Cardinality(A)
  BY <1>1, <1>3 DEF ByState, Count, Checked, Fine
<1>13. \A since : /\ Counts(kind, since).total = Cardinality(rows)
                  /\ Counts(kind, since).pending = Cardinality(E)
                  /\ Counts(kind, since).problems = Cardinality(G)
  BY <1>1, <1>3 DEF Counts, Count
<1>14. Cardinality(rows) \in Nat
  BY <1>9
<1> QED
  BY <1>6, <1>9, <1>10, <1>11, <1>12, <1>13, <1>14

\* The totals fit the table they are read from, and the states are read as they
\* are in the table then.
LEMMA CountsFit ==
    ASSUME DataInv, NEW kind, NEW since
    PROVE  Fits(Counts(kind, since), Checked(kind), Fine(kind))
<1>1. PICK t, p, m, a, e : /\ t = Counts(kind, since).total
                           /\ p = Counts(kind, since).pending
                           /\ m = Counts(kind, since).problems
                           /\ a = Checked(kind) /\ e = Fine(kind)
  OBVIOUS
<1>2. /\ t \in Nat /\ p \in Nat /\ m \in Nat /\ a \in Nat /\ e \in Nat
      /\ t = a + p /\ a = e + m
  BY <1>1, Partition
<1>3. written \in Nat
  BY DEF DataInv
<1>4. /\ t \in Int /\ p \in Int /\ m \in Int /\ a \in Int /\ e \in Int
      /\ a + p - t \in -written .. written /\ e + m + p - t \in -written .. written
  BY ONLY <1>2, <1>3
<1> QED
  BY <1>1, <1>4 DEF Fits, Near

\* One row for another, or one more: a number of rows changes by one.
LEMMA OneRow ==
    ASSUME NEW A, IsFiniteSet(A), NEW B, NEW C, NEW u, NEW y,
           C \subseteq A, A \subseteq C \cup {u}, C \subseteq B, B \subseteq C \cup {y}
    PROVE  /\ Cardinality(A) \in Nat /\ Cardinality(B) \in Nat
           /\ Cardinality(B) - Cardinality(A) \in -1 .. 1
<1>1. IsFiniteSet(C)
  BY FS_Subset
<1>2. /\ IsFiniteSet(C \cup {y}) /\ IsFiniteSet(C \cup {u})
      /\ Cardinality(C) \in Nat
      /\ Cardinality(C \cup {y}) \in {Cardinality(C), Cardinality(C) + 1}
      /\ Cardinality(C \cup {u}) \in {Cardinality(C), Cardinality(C) + 1}
  BY <1>1, FS_AddElement, FS_CardinalityType
<1>3. /\ IsFiniteSet(B) /\ Cardinality(C) <= Cardinality(B)
      /\ Cardinality(B) <= Cardinality(C \cup {y})
  BY <1>2, FS_Subset
<1>4. /\ Cardinality(C) <= Cardinality(A)
      /\ Cardinality(A) <= Cardinality(C \cup {u})
  BY <1>2, FS_Subset
<1>5. Cardinality(A) \in Nat /\ Cardinality(B) \in Nat
  BY <1>3, FS_CardinalityType
<1>6. PICK a, b, c, d, e : /\ a = Cardinality(A) /\ b = Cardinality(B) /\ c = Cardinality(C)
                           /\ d = Cardinality(C \cup {y}) /\ e = Cardinality(C \cup {u})
  OBVIOUS
<1>7. /\ a \in Nat /\ b \in Nat /\ c \in Nat /\ d \in {c, c + 1} /\ e \in {c, c + 1}
      /\ c <= b /\ b <= d /\ c <= a /\ a <= e
  BY <1>2, <1>3, <1>4, <1>5, <1>6
<1>8. b - a \in -1 .. 1
  BY ONLY <1>7
<1> QED
  BY <1>5, <1>6, <1>8

\* The worker's upsert, and whatever else it writes.
LEMMA WorkerCounts ==
    ASSUME DataInv, WorkerWrites, NEW kind
    PROVE  /\ Checked(kind) \in Nat /\ Checked(kind)' \in Nat
           /\ Fine(kind) \in Nat /\ Fine(kind)' \in Nat
           /\ Checked(kind)' - Checked(kind) \in -1 .. 1
           /\ Fine(kind)' - Fine(kind) \in -1 .. 1
<1>1. IsFiniteSet(db.status) /\ \A x, z \in db.status : x.obj = z.obj => x = z
  BY TheTables DEF DataInv, IsDatabase
<1>2. DOMAIN db = Tables /\ "status" \in Tables
  BY TheTables DEF DataInv, IsDatabase
<1>3. CASE StatusChanges
  <2>1. PICK y : Writes("status", {x \in db.status : x.obj # y.obj} \cup {y})
    BY <1>3 DEF StatusChanges
  <2>2. db'.status = {x \in db.status : x.obj # y.obj} \cup {y}
    BY <1>2, <2>1 DEF Writes
  <2>3. PICK u : \A x \in db.status : x.obj = y.obj => x = u
    BY <1>1
  <2>4. ASSUME NEW A, NEW B,
               A \subseteq db.status, B \subseteq db'.status,
               \A x \in db.status \cap db'.status : x \in A <=> x \in B
        PROVE  /\ Cardinality(A) \in Nat /\ Cardinality(B) \in Nat
               /\ Cardinality(B) - Cardinality(A) \in -1 .. 1
    <3>1. PICK C : C = {x \in A : x.obj # y.obj}
      OBVIOUS
    <3>2. /\ C \subseteq A /\ A \subseteq C \cup {u} /\ C \subseteq B
          /\ B \subseteq C \cup {y}
      BY <2>2, <2>3, <2>4, <3>1
    <3>3. IsFiniteSet(A)
      BY <1>1, <2>4, FS_Subset
    <3> QED
      BY ONLY <3>2, <3>3, OneRow
  <2>5. PICK A, B, D, E :
            /\ A = {x \in db.status : x.obj.kind = kind /\ x.checked}
            /\ B = {x \in db'.status : x.obj.kind = kind /\ x.checked}
            /\ D = {x \in db.status : x.obj.kind = kind /\ x.checked /\ x.state = 0}
            /\ E = {x \in db'.status : x.obj.kind = kind /\ x.checked /\ x.state = 0}
    OBVIOUS
  <2>6. /\ Checked(kind) = Cardinality(A) /\ Checked(kind)' = Cardinality(B)
        /\ Fine(kind) = Cardinality(D) /\ Fine(kind)' = Cardinality(E)
    <3>1. /\ {x \in StatusOf(kind) : x.checked} = A
          /\ {x \in StatusOf(kind)' : x.checked} = B
          /\ {x \in StatusOf(kind) : x.checked /\ x.state = 0} = D
          /\ {x \in StatusOf(kind)' : x.checked /\ x.state = 0} = E
      BY <2>5 DEF StatusOf
    <3> QED
      BY <3>1 DEF Checked, Fine
  <2>7. /\ Cardinality(A) \in Nat /\ Cardinality(B) \in Nat
        /\ Cardinality(B) - Cardinality(A) \in -1 .. 1
    <3>1. /\ A \subseteq db.status /\ B \subseteq db'.status
          /\ \A x \in db.status \cap db'.status : x \in A <=> x \in B
      BY <2>5
    <3> QED
      BY <2>4, <3>1
  <2>8. /\ Cardinality(D) \in Nat /\ Cardinality(E) \in Nat
        /\ Cardinality(E) - Cardinality(D) \in -1 .. 1
    <3>1. /\ D \subseteq db.status /\ E \subseteq db'.status
          /\ \A x \in db.status \cap db'.status : x \in D <=> x \in E
      BY <2>5
    <3> QED
      BY <2>4, <3>1
  <2> QED
    BY <2>6, <2>7, <2>8
<1>4. CASE db'.status = db.status
  <2>1. StatusOf(kind)' = StatusOf(kind)
    BY <1>4 DEF StatusOf
  <2>2. Checked(kind)' = Checked(kind) /\ Fine(kind)' = Fine(kind)
    BY <2>1 DEF Checked, Fine
  <2>3. Checked(kind) \in Nat /\ Fine(kind) \in Nat
    BY Partition
  <2> QED
    BY <2>2, <2>3
<1>5. ~StatusChanges => db'.status = db.status
  BY <1>2 DEF WorkerWrites, DowntimeEnds, Acknowledged, Notified, Writes
<1> QED
  BY <1>3, <1>4, <1>5

\* A table that is a row further, or a write more, is no further off.
LEMMA FitsStill ==
    ASSUME NEW c, NEW a, NEW e, NEW b \in Int, NEW g \in Int, Fits(c, a, e),
           \/ b = a /\ g = e /\ written' \in {written, written + 1}
           \/ b - a \in -1 .. 1 /\ g - e \in -1 .. 1 /\ written' = written + 1,
           written \in Nat
    PROVE  Fits(c, b, g)'
<1>1. PICK t, p, m, w, v :
          t = c.total /\ p = c.pending /\ m = c.problems /\ w = written /\ v = written'
  OBVIOUS
<1>2. /\ t \in Int /\ p \in Int /\ m \in Int /\ a \in Int /\ e \in Int /\ w \in Nat
      /\ a + p - t \in -w .. w /\ e + m + p - t \in -w .. w
  BY <1>1 DEF Fits, Near
<1>3. \/ b = a /\ g = e /\ v \in {w, w + 1}
      \/ b - a \in -1 .. 1 /\ g - e \in -1 .. 1 /\ v = w + 1
  BY <1>1
<1>4. b + p - t \in -v .. v
  BY ONLY <1>2, <1>3, b \in Int
<1>5. g + m + p - t \in -v .. v
  BY ONLY <1>2, <1>3, g \in Int
<1> QED
  BY <1>1, <1>2, <1>4, <1>5 DEF Fits, Near

\* Nothing is read or written of the objects.
LEMMA ScanStays ==
    ASSUME ReadsInv, ScanInv, UNCHANGED <<db, ask, written>>,
           got' = got \/ got' = Nothing
    PROVE  ScanInv'
<1>1. CASE got' = Nothing
  <2>1. ~Has("hosts")' /\ ~Has("services")' /\ ~Has("hostStates")' /\ ~Has("serviceStates")'
    BY <1>1 DEF Has, Nothing
  <2> QED
    BY <2>1 DEF ScanInv, KindInv
<1>2. CASE got' = got
  <2>1. \A kind : Checked(kind)' = Checked(kind) /\ Fine(kind)' = Fine(kind)
    BY DEF Checked, Fine, StatusOf
  <2>2. \A c, all, fine : Fits(c, all, fine)' <=> Fits(c, all, fine)
    BY DEF Fits, Near
  <2> QED
    BY <1>2, <2>1, <2>2 DEF ScanInv, KindInv, Has
<1> QED
  BY <1>1, <1>2

\* One kind's statements, or another's.
LEMMA ExecuteKind ==
    ASSUME DataInv, ask.type = "summary", UNCHANGED <<db, ask, began, written>>,
           NEW kind, NEW totals, NEW states, KindInv(kind, totals, states),
           NEW st, NEW r, r \in Returns(st), st \in DOMAIN got', got'[st] = r,
           DOMAIN got \subseteq DOMAIN got',
           DOMAIN got' \subseteq DOMAIN got \cup {st, "lastHour"},
           \A s \in DOMAIN got : s \notin {st, "lastHour"} => got'[s] = got[s],
           st \notin DOMAIN got,
           totals # "lastHour", states # "lastHour", totals # states,
           Returns(totals) = {Counts(kind, Since)}, Returns(states) = {ByState(kind)},
           st = states => Has(totals)
    PROVE  KindInv(kind, totals, states)'
<1>1. Checked(kind)' = Checked(kind) /\ Fine(kind)' = Fine(kind)
  BY DEF Checked, Fine, StatusOf
<1>2. \A c, all, fine : Fits(c, all, fine)' <=> Fits(c, all, fine)
  BY DEF Fits, Near
<1>3. CASE st = totals
  <2>1. ~Has(totals) /\ ~Has(states) /\ Has(totals)' /\ ~Has(states)'
    BY <1>3 DEF KindInv, Has
  <2>2. Fits(got'[totals], Checked(kind), Fine(kind))
    BY <1>3, CountsFit
  <2> QED
    BY <1>1, <1>2, <2>1, <2>2 DEF KindInv
<1>4. CASE st = states
  <2>1. Has(totals) /\ ~Has(states) /\ Has(totals)' /\ Has(states)'
        /\ got'[totals] = got[totals]
    BY <1>4 DEF KindInv, Has
  <2>2. PICK all, fine : all = Checked(kind) /\ fine = Fine(kind)
    OBVIOUS
  <2>3. Fits(got'[totals], all, fine)
    BY <2>1, <2>2 DEF KindInv
  <2>4. /\ got'[states][0] = fine
        /\ got'[states][0] + got'[states][1] + got'[states][2] + got'[states][3] = all
    BY <1>4, <2>2, Partition
  <2> QED
    BY <1>2, <2>1, <2>3, <2>4 DEF KindInv
<1>5. CASE st \notin {totals, states}
  <2>1. /\ Has(totals)' = Has(totals) /\ Has(states)' = Has(states)
        /\ Has(totals) => got'[totals] = got[totals]
        /\ Has(states) => got'[states] = got[states]
    BY <1>5 DEF Has
  <2> QED
    BY <1>1, <1>2, <2>1 DEF KindInv
<1> QED
  BY <1>3, <1>4, <1>5

LEMMA ExecuteScan == ASSUME ReadsInv, ScanInv, Execute PROVE ScanInv'
<1>1. UNCHANGED <<db, ask, began, written>> /\ DataInv
  BY DEF Execute, dataVars, ReadsInv
<1> SUFFICES ASSUME ask.type = "summary"
             PROVE  /\ KindInv("host", "hosts", "hostStates")'
                    /\ KindInv("service", "services", "serviceStates")'
  BY <1>1 DEF ScanInv
<1>2. PICK st, r : /\ st = Statement /\ st # "none" /\ r \in Returns(st)
                   /\ st \in DOMAIN got' /\ got'[st] = r
                   /\ DOMAIN got \cup {st} \subseteq DOMAIN got'
                   /\ DOMAIN got' \subseteq DOMAIN got \cup {st, "lastHour"}
                   /\ \A s \in DOMAIN got : s \notin {st, "lastHour"} => got'[s] = got[s]
  BY <1>1, ExecuteReads
<1>3. PICK i \in 1 .. 8 : /\ st = SummaryStatements[i] /\ ~Has(SummaryStatements[i])
                          /\ \A j \in 1 .. 8 : j < i => Has(SummaryStatements[j])
  BY <1>2, NextIsLeast DEF Statement
<1>4. st \notin DOMAIN got
  BY <1>3 DEF Has
<1>5. st = "hostStates" => Has("hosts")
  <2>1. st = "hostStates" => i = 2
    BY <1>3 DEF SummaryStatements
  <2> QED
    BY <1>3, <2>1 DEF SummaryStatements
<1>6. st = "serviceStates" => Has("services")
  <2>1. st = "serviceStates" => i = 4
    BY <1>3 DEF SummaryStatements
  <2> QED
    BY <1>3, <2>1 DEF SummaryStatements
<1>7. KindInv("host", "hosts", "hostStates")'
  <2>1. KindInv("host", "hosts", "hostStates")
    BY DEF ScanInv
  <2>2. PICK kind, totals, states :
            kind = "host" /\ totals = "hosts" /\ states = "hostStates"
    OBVIOUS
  <2>3. /\ Returns(totals) = {Counts(kind, Since)} /\ Returns(states) = {ByState(kind)}
        /\ totals # "lastHour" /\ states # "lastHour" /\ totals # states
        /\ KindInv(kind, totals, states) /\ (st = states => Has(totals))
    BY <1>5, <2>1, <2>2, ReturnsOf
  <2>4. KindInv(kind, totals, states)'
    BY <1>1, <1>2, <1>4, <2>3, ExecuteKind
  <2> QED
    BY <2>2, <2>4
<1>8. KindInv("service", "services", "serviceStates")'
  <2>1. KindInv("service", "services", "serviceStates")
    BY DEF ScanInv
  <2>2. PICK kind, totals, states :
            kind = "service" /\ totals = "services" /\ states = "serviceStates"
    OBVIOUS
  <2>3. /\ Returns(totals) = {Counts(kind, Since)} /\ Returns(states) = {ByState(kind)}
        /\ totals # "lastHour" /\ states # "lastHour" /\ totals # states
        /\ KindInv(kind, totals, states) /\ (st = states => Has(totals))
    BY <1>6, <2>1, <2>2, ReturnsOf
  <2>4. KindInv(kind, totals, states)'
    BY <1>1, <1>2, <1>4, <2>3, ExecuteKind
  <2> QED
    BY <2>2, <2>4
<1> QED
  BY <1>7, <1>8

LEMMA WorkerScan == ASSUME ReadsInv, ScanInv, WorkerWrites PROVE ScanInv'
<1>1. UNCHANGED <<ask, got>> /\ written' = written + 1 /\ written \in Nat /\ DataInv
  BY DEF WorkerWrites, ReadsInv, DataInv
<1>2. ASSUME NEW kind, NEW totals, NEW states, KindInv(kind, totals, states)
      PROVE  KindInv(kind, totals, states)'
  <2>1. /\ Has(totals)' = Has(totals) /\ Has(states)' = Has(states)
        /\ got'[totals] = got[totals] /\ got'[states] = got[states]
    BY <1>1 DEF Has
  <2>2. CASE Has(totals) /\ ~Has(states)
    <3>1. PICK c, a, e, b, g : /\ c = got[totals] /\ a = Checked(kind) /\ e = Fine(kind)
                               /\ b = Checked(kind)' /\ g = Fine(kind)'
      OBVIOUS
    <3>2. Fits(c, a, e)
      BY <1>2, <2>2, <3>1 DEF KindInv
    <3>3. b \in Int /\ g \in Int /\ b - a \in -1 .. 1 /\ g - e \in -1 .. 1
      BY <1>1, <3>1, WorkerCounts
    <3>4. Fits(c, b, g)'
      BY <1>1, <3>2, <3>3, FitsStill
    <3> QED
      BY <2>1, <2>2, <3>1, <3>4 DEF KindInv
  <2>3. CASE Has(states)
    <3>1. PICK c, a, e : /\ c = got[totals] /\ e = got[states][0]
                         /\ a = got[states][0] + got[states][1] + got[states][2] + got[states][3]
      OBVIOUS
    <3>2. Fits(c, a, e) /\ Has(totals)
      BY <1>2, <2>3, <3>1 DEF KindInv
    <3>3. a \in Int /\ e \in Int
      BY <3>2 DEF Fits
    <3>4. Fits(c, a, e)'
      BY <1>1, <3>2, <3>3, FitsStill
    <3> QED
      BY <2>1, <2>3, <3>1, <3>2, <3>4 DEF KindInv
  <2>4. CASE ~Has(totals) /\ ~Has(states)
    BY <2>1, <2>4 DEF KindInv
  <2> QED
    BY <2>2, <2>3, <2>4
<1> QED
  BY <1>1, <1>2 DEF ScanInv

LEMMA NextScan == ASSUME ReadsInv, ScanInv, [Next]_vars PROVE ScanInv'
<1>1. CASE Begin
  BY <1>1, ScanStays DEF Begin, dataVars
<1>2. CASE Respond
  BY <1>2, ScanStays DEF Respond, dataVars
<1>3. ASSUME NEW code, Ends(code) PROVE ScanInv'
  BY <1>3, ScanStays DEF Ends, dataVars
<1>4. CASE Tick
  BY <1>4, ScanStays DEF Tick
<1>5. CASE NextPage
  BY <1>5, NextPageAsks DEF ReadsInv, ScanInv
<1>6. CASE UNCHANGED vars
  BY <1>6, ScanStays DEF vars, dataVars
<1> QED
  BY <1>1, <1>2, <1>3, <1>4, <1>5, <1>6, ExecuteScan, WorkerScan DEF Next, Deadline, Fails

LEMMA InitScan == Init => ScanInv
BY DEF Init, ScanInv, KindInv, Has, Nothing

\* byState, "a total that does not add up is worse than an odd label": for any
\* objects and any number of writes, the states a summary shows beside its totals
\* are off by no more than was written while it was read.
THEOREM StatesCorrect == Spec => []StatesFitTotals
<1>1. ReadsInv /\ ScanInv => StatesFitTotals
  <2> SUFFICES ASSUME ReadsInv, ScanInv, Answered("summary"),
                      NEW p \in {<<got.hosts, got.hostStates>>,
                                 <<got.services, got.serviceStates>>}
               PROVE  LET c == p[1]
                          states == p[2]
                          all == states[0] + states[1] + states[2] + states[3] + c.pending
                          fine == states[0] + c.problems + c.pending
                      IN  /\ all - c.total \in -written .. written
                          /\ fine - c.total \in -written .. written
    BY Zenon DEF StatesFitTotals
  <2>1. \A i \in 1 .. 8 : SummaryStatements[i] \in DOMAIN got
    BY DEF ReadsInv, WholeInv, Answered
  <2>2. SummaryStatements[2] = "hostStates" /\ SummaryStatements[4] = "serviceStates"
    BY DEF SummaryStatements
  <2>3. Has("hostStates") /\ Has("serviceStates")
    BY <2>1, <2>2 DEF Has
  <2>4. Fits(p[1], p[2][0] + p[2][1] + p[2][2] + p[2][3], p[2][0])
    BY <2>3 DEF ScanInv, KindInv, Answered
  <2> QED
    BY <2>4 DEF Fits, Near
<1>2. Init => ReadsInv /\ ScanInv
  BY InitInv, InitScan
<1>3. (ReadsInv /\ ScanInv) /\ [Next]_vars => (ReadsInv /\ ScanInv)'
  BY NextInv, NextScan
<1> QED
  BY <1>1, <1>2, <1>3, PTL DEF Spec

=============================================================================
