--------------------------- MODULE Startup_proofs ---------------------------
(***************************************************************************)
(* Proofs about the start of processes on one database: for any number of  *)
(* processes, any configurations, any migrations, starts and deaths.       *)
(***************************************************************************)
EXTENDS Startup, FiniteSetTheorems, SequenceTheorems, WellFoundedInduction, TLAPS

-----------------------------------------------------------------------------
(* Files and places                                                        *)

LEMMA ElementsAreTyped ==
    ASSUME NEW S, NEW s \in Seq(S)
    PROVE  DOMAIN s \subseteq Nat /\ \A n \in DOMAIN s : s[n] \in S
  OBVIOUS

LEMMA FilesAreNumbered ==
    /\ DOMAIN Migrations \subseteq Nat
    /\ \A m \in DOMAIN Migrations :
          /\ Migrations[m].tables \in Seq(STRING) /\ Migrations[m].tables # <<>>
          /\ Migrations[m].version \in Versions
  <1>1. Migrations \in Seq([version : STRING, tables : Seq(STRING) \ {<<>>}])
    BY StartupAssumption DEF StartupAssumption
  <1> DEFINE File == [version : STRING, tables : Seq(STRING) \ {<<>>}]
  <1> HIDE DEF File
  <1>2. Migrations \in Seq(File)
    BY <1>1 DEF File
  <1>3. DOMAIN Migrations \subseteq Nat /\ \A m \in DOMAIN Migrations : Migrations[m] \in File
    BY <1>2, ElementsAreTyped
  <1>4. ASSUME NEW m \in DOMAIN Migrations
        PROVE  Migrations[m].tables \in Seq(STRING) /\ Migrations[m].tables # <<>>
    BY <1>3 DEF File
  <1> QED
    BY <1>3, <1>4 DEF Versions

First(files) == CHOOSE m \in files : \A k \in files : m <= k

\* Of natural numbers there is a least one.
LEMMA LeastOne ==
    ASSUME NEW numbers \in SUBSET Nat, numbers # {}
    PROVE  \E m \in numbers : \A k \in numbers : m <= k
  <1> DEFINE Less == {ss \in Nat \X Nat : ss[1] < ss[2]}
  <1>1. IsWellFoundedOn(Less, Nat)
    BY NatLessThanWellFounded DEF OpToRel
  <1>2. PICK m \in numbers : \A k \in numbers : <<k, m>> \notin Less
    BY <1>1, WFMin
  <1>3. ASSUME NEW k \in numbers PROVE m <= k
    <2>1. k \in Nat /\ m \in Nat
      OBVIOUS
    <2>2. <<k, m>> \in Less <=> k < m
      BY <2>1
    <2> HIDE DEF Less
    <2>3. ~(k < m)
      BY <1>2, <2>2
    <2> QED
      BY <2>1, <2>3
  <1> QED
    BY <1>3

LEMMA FirstIsOne ==
    ASSUME NEW files, files \subseteq DOMAIN Migrations, files # {}
    PROVE  First(files) \in files
  <1>1. files \in SUBSET Nat
    BY FilesAreNumbered
  <1>2. PICK m \in files : \A k \in files : m <= k
    BY <1>1, LeastOne
  <1> QED
    BY <1>2 DEF First

\* Every file has a first and a last statement.
LEMMA FirstHasTables ==
    ASSUME NEW files, files \subseteq DOMAIN Migrations, files # {}
    PROVE  LET file == Migrations[First(files)]
           IN  DOMAIN file.tables = 1 .. Len(file.tables) /\ Len(file.tables) \in Nat \ {0}
  <1> DEFINE file == Migrations[First(files)]
  <1>1. file.tables \in Seq(STRING) /\ file.tables # <<>>
    BY FirstIsOne, FilesAreNumbered
  <1> QED
    BY <1>1

\* The file to go on with is the first of those still to be applied.
LEMMA CurrentIsFirst ==
    ASSUME NEW p
    PROVE  /\ Todo(p) \subseteq DOMAIN Migrations /\ Current(p) = Migrations[First(Todo(p))]
           /\ Todo(p)' \subseteq DOMAIN Migrations /\ Current(p)' = Migrations[First(Todo(p)')]
  BY DEF Todo, Current, First

\* Places a process is in once it has released the lock.
Migrated == Bootstrapping \cup {"listening", "serving", "draining"}

Places == {"down", "opening", "locking"} \cup Migrating \cup Migrated

Shape ==
    /\ pc \in [Processes -> Places]
    /\ step \in [Processes -> Nat]
    /\ seen \in [Processes -> SUBSET Versions]
    /\ DOMAIN conf = Processes
    /\ applied \subseteq Versions

\* What Next lets one process do.
StepOf(p) ==
    \/ \E l \in Launches : Start(p, l)
    \/ Proceeds(p)
    \/ \E kind \in {"read", "stream"} : Accept(p, kind) \/ Handled(p, kind)
    \/ Signal(p)
    \/ Dies(p)

LEMMA NextIsStep == Next <=> \E p \in Processes : StepOf(p)
  BY DEF Next, StepOf

\* The steps that leave the process where it is, or end it.
Stays(p) == \E kind \in {"read", "stream"} : Accept(p, kind) \/ Handled(p, kind)

\* Every end is an Ends.
LEMMA HowItEnds ==
    ASSUME NEW p \in Processes,
           \/ LockTimesOut(p) \/ Drained(p) \/ DrainTimesOut(p) \/ Dies(p)
    PROVE  ~Down(p) /\ \E how : Ends(p, how)
  BY DEF LockTimesOut, Drained, DrainTimesOut, Dies, Down

-----------------------------------------------------------------------------
(* Types                                                                   *)

LEMMA ShapeInit == Init => Shape
  <1> SUFFICES ASSUME Init PROVE Shape
    OBVIOUS
  <1>1. pc \in [Processes -> Places]
    BY DEF Init, Places
  <1>2. step \in [Processes -> Nat] /\ seen \in [Processes -> SUBSET Versions]
    BY DEF Init
  <1>3. DOMAIN conf = Processes
    BY DEF Init
  <1>4. applied \subseteq Versions
    BY DEF Init
  <1> QED
    BY <1>1, <1>2, <1>3, <1>4 DEF Shape

\* Record writes the version of a file.
LEMMA CurrentHasVersion ==
    ASSUME NEW p, Todo(p) # {} PROVE Current(p).version \in Versions
  BY CurrentIsFirst, FirstIsOne, FilesAreNumbered

LEMMA EndsKeepsShape ==
    ASSUME Shape, NEW p \in Processes, NEW how, Ends(p, how) PROVE Shape'
  BY DEF Ends, Goes, Shape, Places

LEMMA StartKeepsShape ==
    ASSUME Shape, NEW p \in Processes, NEW l, Start(p, l) PROVE Shape'
  BY DEF Start, Goes, Shape, Places, databaseVars

LEMMA StepCounts ==
    ASSUME NEW p \in Processes, step \in [Processes -> Nat], Steps(p, step[p] + 1)
    PROVE  step' \in [Processes -> Nat]
  <1>1. step[p] + 1 \in Nat
    OBVIOUS
  <1> QED
    BY <1>1 DEF Steps

\* migrate.Run.
LEMMA MigrateKeepsShape ==
    ASSUME Shape, NEW p \in Processes,
           \/ Open(p) \/ GetLock(p) \/ EnsureTable(p) \/ AppliedVersions(p)
           \/ Statement(p) \/ Record(p) \/ ReleaseLock(p),
           pc[p] = "recording" => Todo(p) # {}
    PROVE  Shape'
  <1> USE DEF Goes, Steps, Shape, Places, Migrating, Migrated, Bootstrapping,
              databaseVars, memoryVars
  <1>1. CASE Open(p) \/ GetLock(p) \/ EnsureTable(p)
    BY <1>1 DEF Open, GetLock, EnsureTable
  <1>2. CASE AppliedVersions(p)
    BY <1>2 DEF AppliedVersions, NextFile
  <1>3. CASE Statement(p)
    <2>1. UNCHANGED <<seen, conf, applied>>
      BY <1>3 DEF Statement, Creates
    <2>2. step' \in [Processes -> Nat]
      BY <1>3, StepCounts DEF Statement, Creates
    <2>3. \/ pc' = [pc EXCEPT ![p] = "recording"]
          \/ pc' = [pc EXCEPT ![p] = "applying"]
      BY <1>3 DEF Statement, Creates
    <2>4. pc' \in [Processes -> Places]
      BY <2>3
    <2> QED
      BY <2>1, <2>2, <2>4
  <1>4. CASE Record(p)
    <2>1. Current(p).version \in Versions
      BY <1>4, CurrentHasVersion DEF Record
    <2>2. CASE Current(p).version \in applied
      BY <1>4, <2>2, EndsKeepsShape DEF Record, Fails
    <2>3. CASE Current(p).version \notin applied
      <3>1. /\ applied' = applied \cup {Current(p).version}
            /\ seen' = [seen EXCEPT ![p] = @ \cup {Current(p).version}]
            /\ step' = [step EXCEPT ![p] = 1]
            /\ conf' = conf
        BY <1>4, <2>3 DEF Record
      <3>2. \/ pc' = [pc EXCEPT ![p] = "releasing"]
            \/ pc' = [pc EXCEPT ![p] = "applying"]
        BY <1>4, <2>3 DEF Record, NextFile
      <3>3. pc' \in [Processes -> Places] /\ step' \in [Processes -> Nat]
        BY <3>1, <3>2
      <3>4. seen' \in [Processes -> SUBSET Versions] /\ applied' \subseteq Versions
        BY <2>1, <3>1
      <3> QED
        BY <3>1, <3>3, <3>4
    <2> QED
      BY <2>2, <2>3
  <1>5. CASE ReleaseLock(p)
    BY <1>5 DEF ReleaseLock
  <1> QED
    BY <1>1, <1>2, <1>3, <1>4, <1>5

\* auth.Bootstrap, and what comes after.
LEMMA BootstrapKeepsShape ==
    ASSUME Shape, NEW p \in Processes,
           \/ RoleByName(p) \/ SetRolePermissions(p) \/ CreateRole(p)
           \/ FindDemoRole(p) \/ UserByUsername(p) \/ SetRole(p) \/ SweepDemo(p)
           \/ CreateUser(p) \/ Listen(p) \/ Stays(p) \/ Signal(p)
    PROVE  Shape'
  <1> USE DEF Goes, Steps, Shape, Places, Migrated, Bootstrapping,
              databaseVars, memoryVars
  <1>1. ASSUME NextRole(p), UNCHANGED <<conf, seen, applied>> PROVE Shape'
    <2>1. step' \in [Processes -> Nat]
      BY <1>1, StepCounts DEF NextRole
    <2>2. \/ pc' = [pc EXCEPT ![p] = "role"]
          \/ pc' = [pc EXCEPT ![p] = "demo role"]
          \/ pc' = [pc EXCEPT ![p] = "listening"]
      BY <1>1 DEF NextRole
    <2>3. pc' \in [Processes -> Places]
      BY <2>2
    <2> QED
      BY <1>1, <2>1, <2>3
  <1>2. CASE RoleByName(p)
    BY <1>1, <1>2 DEF RoleByName
  <1>3. CASE SetRolePermissions(p)
    BY <1>1, <1>3, EndsKeepsShape DEF SetRolePermissions, Fails
  <1>4. CASE CreateRole(p)
    BY <1>1, <1>4 DEF CreateRole
  <1>5. CASE FindDemoRole(p)
    BY <1>5, EndsKeepsShape DEF FindDemoRole, Fails
  <1>6. CASE UserByUsername(p)
    BY <1>6 DEF UserByUsername
  <1>7. CASE SetRole(p)
    BY <1>7, EndsKeepsShape DEF SetRole, Fails
  <1>8. CASE SweepDemo(p) \/ CreateUser(p)
    BY <1>8 DEF SweepDemo, CreateUser
  <1>9. CASE Listen(p)
    BY <1>9, EndsKeepsShape DEF Listen
  <1>10. CASE Stays(p) \/ Signal(p)
    BY <1>10 DEF Stays, Accept, Handled, Signal
  <1> QED
    BY <1>2, <1>3, <1>4, <1>5, <1>6, <1>7, <1>8, <1>9, <1>10

LEMMA StepKeepsShape ==
    ASSUME Shape, NEW p \in Processes, StepOf(p), pc[p] = "recording" => Todo(p) # {}
    PROVE  Shape'
  BY HowItEnds, EndsKeepsShape, StartKeepsShape, MigrateKeepsShape, BootstrapKeepsShape
     DEF StepOf, Proceeds, Stays

-----------------------------------------------------------------------------
(* One process migrates                                                    *)

LEMMA LockInit == Init => OneMigrates
  <1> SUFFICES ASSUME Init, NEW p \in Processes PROVE pc[p] \notin Migrating /\ lock # p
    BY DEF OneMigrates
  <1>1. pc[p] = "down" /\ lock = Nobody
    BY DEF Init
  <1> QED
    BY <1>1, StartupAssumption DEF StartupAssumption, Migrating

LEMMA EndsKeepsLock ==
    ASSUME Shape, OneMigrates, NEW p \in Processes, NEW how, Ends(p, how)
    PROVE  OneMigrates'
  BY StartupAssumption
     DEF StartupAssumption, Ends, Goes, Shape, OneMigrates, Migrating

\* The steps of migrate.Run, and those before and after it.
LEMMA StepKeepsLock ==
    ASSUME Shape, OneMigrates, NEW p \in Processes, StepOf(p) PROVE OneMigrates'
  <1> USE StartupAssumption
      DEF StartupAssumption, Goes, Shape, OneMigrates, Migrating, Bootstrapping,
          databaseVars, memoryVars
  <1>1. ASSUME NEW l, Start(p, l) PROVE OneMigrates'
    BY <1>1 DEF Start, Down
  <1>2. CASE GetLock(p)
    BY <1>2 DEF GetLock, MayLock
  <1>3. CASE EnsureTable(p) \/ AppliedVersions(p)
    BY <1>3 DEF EnsureTable, AppliedVersions, NextFile
  <1>4. CASE Statement(p)
    BY <1>4 DEF Statement, Creates
  <1>5. CASE Record(p)
    BY <1>5, EndsKeepsLock DEF Record, NextFile, Fails
  <1>6. CASE ReleaseLock(p)
    BY <1>6 DEF ReleaseLock
  <1>7. ASSUME NextRole(p), lock' = lock, pc[p] \notin Migrating PROVE OneMigrates'
    BY <1>7 DEF NextRole
  <1>8. CASE RoleByName(p)
    BY <1>7, <1>8 DEF RoleByName
  <1>9. CASE SetRolePermissions(p) \/ CreateRole(p)
    BY <1>7, <1>9, EndsKeepsLock DEF SetRolePermissions, CreateRole, Fails
  <1>10. CASE FindDemoRole(p) \/ SetRole(p)
    BY <1>10, EndsKeepsLock DEF FindDemoRole, SetRole, Fails
  <1>11. CASE Open(p) \/ UserByUsername(p) \/ SweepDemo(p) \/ CreateUser(p) \/ Signal(p)
    BY <1>11 DEF Open, UserByUsername, SweepDemo, CreateUser, Signal
  <1>12. CASE Listen(p)
    <2>1. CASE Ends(p, "done")
      BY <2>1, EndsKeepsLock
    <2>2. CASE pc[p] = "listening" /\ Goes(p, "serving") /\ lock' = lock
      BY <2>2
    <2> QED
      BY <1>12, <2>1, <2>2 DEF Listen
  <1>13. CASE Stays(p)
    BY <1>13 DEF Stays, Accept, Handled
  <1>14. CASE LockTimesOut(p) \/ Drained(p) \/ DrainTimesOut(p) \/ Dies(p)
    BY <1>14, HowItEnds, EndsKeepsLock
  <1> QED
    BY <1>1, <1>2, <1>3, <1>4, <1>5, <1>6, <1>8, <1>9, <1>10, <1>11, <1>12, <1>13,
       <1>14 DEF StepOf, Proceeds, Stays

-----------------------------------------------------------------------------
(* What is on record is there                                              *)

\* The tables of a file up to its n-th are there.
Created(file, n) == \A k \in DOMAIN file.tables : k <= n => file.tables[k] \in tables

\* A process knows no version that is not on record; it is in a file while it
\* applies, with the tables before its statement there, and with all of them
\* when it records; and it has every version once it has released the lock.
FileState(p) ==
    /\ seen[p] \subseteq applied
    /\ pc[p] = "applying" =>
          /\ Todo(p) # {}
          /\ step[p] \in DOMAIN Current(p).tables
          /\ Created(Current(p), step[p] - 1)
    /\ pc[p] = "recording" =>
          Todo(p) # {} /\ Created(Current(p), Len(Current(p).tables))
    /\ pc[p] \in {"releasing"} \cup Migrated => Todo(p) = {}

TablesInv == RecordedIsComplete /\ \A p \in Processes : FileState(p)

LEMMA TablesInit == Init => TablesInv
  <1> SUFFICES ASSUME Init PROVE TablesInv
    OBVIOUS
  <1>1. RecordedIsComplete
    <2>1. CASE applied = {}
      BY <2>1 DEF RecordedIsComplete
    <2>2. CASE AllTables \subseteq tables
      BY <2>2 DEF RecordedIsComplete, AllTables
    <2> QED
      BY <2>1, <2>2 DEF Init
  <1>2. ASSUME NEW p \in Processes PROVE FileState(p)
    <2>1. pc[p] = "down" /\ seen[p] = {}
      BY DEF Init
    <2> QED
      BY <2>1 DEF FileState, Migrated, Bootstrapping
  <1> QED
    BY <1>1, <1>2 DEF TablesInv

\* What a process is in the middle of does not change with its own reading.
LEMMA SameFile ==
    ASSUME NEW p, seen'[p] = seen[p]
    PROVE  Todo(p)' = Todo(p) /\ Current(p)' = Current(p)
  BY DEF Todo, Current

LEMMA FileStateKept ==
    ASSUME NEW p, FileState(p),
           tables \subseteq tables', applied \subseteq applied',
           pc'[p] = pc[p], seen'[p] = seen[p], step'[p] = step[p]
    PROVE  FileState(p)'
  <1>1. Todo(p)' = Todo(p) /\ Current(p)' = Current(p)
    BY SameFile
  <1>2. ASSUME NEW file, NEW n, Created(file, n) PROVE Created(file, n)'
    BY <1>2 DEF Created
  <1>3. seen'[p] \subseteq applied'
    BY DEF FileState
  <1>4. pc'[p] = "applying" =>
            /\ Todo(p)' # {}
            /\ step'[p] \in DOMAIN Current(p)'.tables
            /\ Created(Current(p), step[p] - 1)'
    BY <1>1, <1>2 DEF FileState
  <1>5. pc'[p] = "recording" =>
            Todo(p)' # {} /\ Created(Current(p), Len(Current(p).tables))'
    BY <1>1, <1>2 DEF FileState
  <1>6. pc'[p] \in {"releasing"} \cup Migrated => Todo(p)' = {}
    BY <1>1 DEF FileState
  <1> QED
    BY <1>1, <1>3, <1>4, <1>5, <1>6 DEF FileState

\* Before the first file, and after the last, there is none.
LEMMA FileStateOutside ==
    ASSUME NEW p, seen'[p] \subseteq applied',
           pc'[p] \notin {"applying", "recording"},
           pc'[p] \in {"releasing"} \cup Migrated => Todo(p)' = {}
    PROVE  FileState(p)'
  BY DEF FileState

\* Nothing is ever taken from the database.
LEMMA DatabaseGrows ==
    ASSUME NEW p \in Processes, StepOf(p)
    PROVE  tables \subseteq tables' /\ applied \subseteq applied'
  <1> USE DEF databaseVars, Ends, Fails
  <1>1. CASE \E l \in Launches : Start(p, l)
    BY <1>1 DEF Start
  <1>2. CASE \/ Open(p) \/ GetLock(p) \/ LockTimesOut(p) \/ EnsureTable(p)
             \/ AppliedVersions(p) \/ Statement(p) \/ Record(p) \/ ReleaseLock(p)
    BY <1>2 DEF Open, GetLock, LockTimesOut, EnsureTable, AppliedVersions, Statement,
                Record, ReleaseLock
  <1>3. CASE \/ RoleByName(p) \/ SetRolePermissions(p) \/ CreateRole(p)
             \/ FindDemoRole(p) \/ UserByUsername(p) \/ SetRole(p) \/ SweepDemo(p)
             \/ CreateUser(p)
    BY <1>3 DEF RoleByName, SetRolePermissions, CreateRole, FindDemoRole,
                UserByUsername, SetRole, SweepDemo, CreateUser
  <1>4. CASE \/ Listen(p) \/ Drained(p) \/ DrainTimesOut(p) \/ Stays(p) \/ Signal(p)
             \/ Dies(p)
    BY <1>4 DEF Listen, Drained, DrainTimesOut, Stays, Accept, Handled, Signal, Dies
  <1> QED
    BY <1>1, <1>2, <1>3, <1>4 DEF StepOf, Proceeds, Stays

\* A process touches nothing of another.
LEMMA OthersAreLeftAlone ==
    ASSUME Shape, NEW p \in Processes, NEW q \in Processes, q # p, StepOf(p)
    PROVE  /\ pc'[q] = pc[q] /\ seen'[q] = seen[q]
           /\ step'[q] = step[q] /\ conf'[q] = conf[q]
  <1> USE DEF Shape, databaseVars, memoryVars, Goes, Steps, NextRole, Ends, Fails
  <1>1. CASE \E l \in Launches : Start(p, l)
    BY <1>1 DEF Start
  <1>2. CASE \/ Open(p) \/ GetLock(p) \/ LockTimesOut(p) \/ EnsureTable(p)
             \/ AppliedVersions(p) \/ ReleaseLock(p)
    BY <1>2 DEF Open, GetLock, LockTimesOut, EnsureTable, AppliedVersions, ReleaseLock
  <1>3. CASE Statement(p)
    BY <1>3 DEF Statement
  <1>4. CASE Record(p)
    BY <1>4 DEF Record
  <1>5. CASE RoleByName(p) \/ SetRolePermissions(p) \/ CreateRole(p)
    BY <1>5 DEF RoleByName, SetRolePermissions, CreateRole
  <1>6. CASE \/ FindDemoRole(p) \/ UserByUsername(p) \/ SetRole(p) \/ SweepDemo(p)
             \/ CreateUser(p)
    BY <1>6 DEF FindDemoRole, UserByUsername, SetRole, SweepDemo, CreateUser
  <1>7. CASE \/ Listen(p) \/ Drained(p) \/ DrainTimesOut(p) \/ Stays(p) \/ Signal(p)
             \/ Dies(p)
    BY <1>7 DEF Listen, Drained, DrainTimesOut, Stays, Accept, Handled, Signal, Dies
  <1> QED
    BY <1>1, <1>2, <1>3, <1>4, <1>5, <1>6, <1>7 DEF StepOf, Proceeds, Stays

LEMMA EndsKeepsFile ==
    ASSUME Shape, NEW p \in Processes, NEW how, Ends(p, how) PROVE FileState(p)'
  <1>1. seen'[p] = {} /\ pc'[p] = "down"
    BY DEF Shape, Ends, Goes
  <1> QED
    BY <1>1 DEF FileState, Migrated, Bootstrapping

\* The first statement of the next file, or the release of the lock.
LEMMA NextFileState ==
    ASSUME Shape, NEW p \in Processes, seen'[p] \subseteq applied',
           step'[p] = 1, pc'[p] = NextFile(p)
    PROVE  FileState(p)'
  <1>1. CASE Todo(p)' = {}
    BY <1>1 DEF NextFile, FileState
  <1>2. CASE Todo(p)' # {}
    <2>1. pc'[p] = "applying"
      BY <1>2 DEF NextFile
    <2>2. /\ DOMAIN Current(p)'.tables = 1 .. Len(Current(p)'.tables)
          /\ Len(Current(p)'.tables) \in Nat \ {0}
      BY <1>2, CurrentIsFirst, FirstHasTables
    <2>3. step'[p] \in DOMAIN Current(p)'.tables
      BY <2>2
    <2>4. Created(Current(p), step[p] - 1)'
      BY <2>2 DEF Created
    <2> QED
      BY <1>2, <2>1, <2>3, <2>4 DEF FileState, Migrated, Bootstrapping
  <1> QED
    BY <1>1, <1>2

\* A statement of the file: one more of its tables is there.
LEMMA StatementKeepsFile ==
    ASSUME Shape, NEW p \in Processes, FileState(p), Statement(p) PROVE FileState(p)'
  <1>1. PICK file, n : file = Current(p) /\ n = step[p]
    OBVIOUS
  <1>2. pc[p] = "applying" /\ Todo(p) # {} /\ n \in DOMAIN file.tables /\ Created(file, n - 1)
    BY <1>1 DEF Statement, FileState
  <1>3. DOMAIN file.tables = 1 .. Len(file.tables) /\ Len(file.tables) \in Nat \ {0}
    BY <1>1, <1>2, CurrentIsFirst, FirstHasTables
  <1>4. /\ tables' = tables \cup {file.tables[n]} /\ applied' = applied
        /\ step' = [step EXCEPT ![p] = n + 1] /\ seen' = seen
        /\ pc' = [pc EXCEPT ![p] = IF n = Len(file.tables) THEN "recording" ELSE "applying"]
    BY <1>1 DEF Statement, Creates, Steps, Goes
  <1>5. /\ seen'[p] = seen[p] /\ step'[p] = n + 1
        /\ pc'[p] = IF n = Len(file.tables) THEN "recording" ELSE "applying"
    BY <1>4 DEF Shape
  <1>6. Todo(p)' # {} /\ Current(p)' = file
    BY <1>1, <1>2, <1>5, SameFile
  <1>7. ASSUME NEW k \in DOMAIN file.tables, k <= n PROVE file.tables[k] \in tables'
    <2>1. k = n \/ k <= n - 1
      BY <1>2, <1>3, <1>7
    <2> QED
      BY <1>2, <1>4, <2>1 DEF Created
  <1>0. seen'[p] \subseteq applied'
    BY <1>4, <1>5 DEF FileState
  <1>8. CASE n = Len(file.tables)
    <2>1. Created(Current(p), Len(Current(p).tables))'
      BY <1>6, <1>7, <1>8 DEF Created
    <2> QED
      BY <1>0, <1>5, <1>6, <1>8, <2>1 DEF FileState, Migrated, Bootstrapping
  <1>9. CASE n # Len(file.tables)
    <2>1. n + 1 \in DOMAIN file.tables /\ step'[p] - 1 = n
      BY <1>2, <1>3, <1>5, <1>9
    <2>2. Created(Current(p), step[p] - 1)'
      <3>1. \A k \in DOMAIN file.tables : k <= step'[p] - 1 => file.tables[k] \in tables'
        BY <1>7, <2>1
      <3> QED
        BY <1>6, <3>1 DEF Created
    <2> QED
      BY <1>0, <1>5, <1>6, <1>9, <2>1, <2>2 DEF FileState, Migrated, Bootstrapping
  <1> QED
    BY <1>8, <1>9

\* The end of a file: its version goes on record, and there may be another file.
LEMMA RecordKeepsFile ==
    ASSUME Shape, NEW p \in Processes, FileState(p), Record(p) PROVE FileState(p)'
  <1>1. CASE Current(p).version \in applied
    BY <1>1, EndsKeepsFile DEF Record, Fails
  <1>2. CASE Current(p).version \notin applied
    <2>1. /\ applied' = applied \cup {Current(p).version}
          /\ seen' = [seen EXCEPT ![p] = @ \cup {Current(p).version}]
          /\ step' = [step EXCEPT ![p] = 1]
          /\ pc' = [pc EXCEPT ![p] = NextFile(p)]
      BY <1>2 DEF Record, Steps, Goes
    <2>2. seen'[p] \subseteq applied'
      BY <2>1 DEF Shape, FileState
    <2>3. step'[p] = 1 /\ pc'[p] = NextFile(p)
      BY <2>1 DEF Shape
    <2> QED
      BY <2>2, <2>3, NextFileState
  <1> QED
    BY <1>1, <1>2

\* Files have names of their own, so the version on record stands for one file.
LEMMA StepKeepsRecord ==
    ASSUME Shape, TablesInv, NEW p \in Processes, StepOf(p) PROVE RecordedIsComplete'
  <1>1. CASE applied' = applied
    BY <1>1, DatabaseGrows DEF TablesInv, RecordedIsComplete
  <1>2. CASE Record(p) /\ applied' # applied
    <2>1. pc[p] = "recording" /\ applied' = applied \cup {Current(p).version}
      BY <1>2 DEF Record, Fails, Ends
    <2>2. Todo(p) # {} /\ Created(Current(p), Len(Current(p).tables))
      BY <2>1 DEF TablesInv, FileState
    <2>3. PICK f \in DOMAIN Migrations : Current(p) = Migrations[f]
      BY <2>2, CurrentIsFirst, FirstIsOne
    <2>4. /\ DOMAIN Migrations[f].tables = 1 .. Len(Migrations[f].tables)
          /\ Len(Migrations[f].tables) \in Nat \ {0}
      BY <2>2, <2>3, CurrentIsFirst, FirstHasTables
    <2>5. \A n \in DOMAIN Migrations[f].tables : Migrations[f].tables[n] \in tables
      BY <2>2, <2>3, <2>4 DEF Created
    <2>6. \A m \in DOMAIN Migrations :
              Migrations[m].version = Migrations[f].version => m = f
      BY StartupAssumption DEF StartupAssumption
    <2>7. tables \subseteq tables'
      BY DatabaseGrows
    <2> QED
      BY <2>1, <2>3, <2>5, <2>6, <2>7 DEF TablesInv, RecordedIsComplete
  <1>3. ~Record(p) => applied' = applied
    <2> USE DEF databaseVars, Ends, Fails
    <2>1. CASE \E l \in Launches : Start(p, l)
      BY <2>1 DEF Start
    <2>2. CASE \/ Open(p) \/ GetLock(p) \/ LockTimesOut(p) \/ EnsureTable(p)
               \/ AppliedVersions(p) \/ Statement(p) \/ ReleaseLock(p)
      BY <2>2 DEF Open, GetLock, LockTimesOut, EnsureTable, AppliedVersions, Statement,
                  ReleaseLock
    <2>3. CASE \/ RoleByName(p) \/ SetRolePermissions(p) \/ CreateRole(p)
               \/ FindDemoRole(p) \/ UserByUsername(p) \/ SetRole(p) \/ SweepDemo(p)
               \/ CreateUser(p)
      BY <2>3 DEF RoleByName, SetRolePermissions, CreateRole, FindDemoRole,
                  UserByUsername, SetRole, SweepDemo, CreateUser
    <2>4. CASE \/ Listen(p) \/ Drained(p) \/ DrainTimesOut(p) \/ Stays(p) \/ Signal(p)
               \/ Dies(p)
      BY <2>4 DEF Listen, Drained, DrainTimesOut, Stays, Accept, Handled, Signal, Dies
    <2> QED
      BY <2>1, <2>2, <2>3, <2>4 DEF StepOf, Proceeds, Stays
  <1> QED
    BY <1>1, <1>2, <1>3

\* What follows the release of the lock reads no more versions.
LEMMA BootstrapKeepsFile ==
    ASSUME Shape, NEW p \in Processes, FileState(p),
           \/ ReleaseLock(p) \/ RoleByName(p) \/ SetRolePermissions(p) \/ CreateRole(p)
           \/ FindDemoRole(p) \/ UserByUsername(p) \/ SetRole(p) \/ SweepDemo(p)
           \/ CreateUser(p) \/ Listen(p) \/ Signal(p),
           applied \subseteq applied'
    PROVE  FileState(p)'
  <1>1. CASE \E how : Ends(p, how)
    BY <1>1, EndsKeepsFile
  <1>2. CASE seen' = seen /\ pc[p] \in {"releasing"} \cup Migrated /\ pc'[p] \in Migrated
    <2>1. Todo(p)' = {}
      BY <1>2, SameFile DEF FileState
    <2>2. seen'[p] \subseteq applied'
      BY <1>2 DEF FileState
    <2> QED
      BY <1>2, <2>1, <2>2, FileStateOutside DEF Migrated, Bootstrapping
  <1> USE DEF Shape, Migrated, Bootstrapping, Goes, memoryVars
  <1>3. ASSUME NextRole(p) PROVE pc'[p] \in Migrated
    BY <1>3 DEF NextRole
  <1>4. CASE ReleaseLock(p)
    BY <1>2, <1>4 DEF ReleaseLock
  <1>5. CASE RoleByName(p)
    BY <1>2, <1>3, <1>5 DEF RoleByName
  <1>6. CASE SetRolePermissions(p) \/ CreateRole(p)
    BY <1>1, <1>2, <1>3, <1>6 DEF SetRolePermissions, CreateRole, Fails
  <1>7. CASE FindDemoRole(p) \/ SetRole(p)
    BY <1>1, <1>2, <1>7 DEF FindDemoRole, SetRole, Fails
  <1>8. CASE UserByUsername(p) \/ SweepDemo(p) \/ CreateUser(p) \/ Signal(p)
    BY <1>2, <1>8 DEF UserByUsername, SweepDemo, CreateUser, Signal
  <1>9. CASE Listen(p)
    BY <1>1, <1>2, <1>9 DEF Listen
  <1> QED
    BY <1>4, <1>5, <1>6, <1>7, <1>8, <1>9

LEMMA StepKeepsFile ==
    ASSUME Shape, NEW p \in Processes, FileState(p), StepOf(p) PROVE FileState(p)'
  <1>1. tables \subseteq tables' /\ applied \subseteq applied'
    BY DatabaseGrows
  <1>2. seen'[p] = seen[p] => seen'[p] \subseteq applied'
    BY <1>1 DEF FileState
  <1> USE DEF Shape, Goes, Steps, databaseVars, memoryVars, Migrated, Bootstrapping
  <1>3. CASE \E l \in Launches : Start(p, l)
    <2>1. CASE pc' = pc /\ seen' = seen /\ step' = step
      BY <1>1, <2>1, FileStateKept
    <2>2. CASE pc'[p] = "opening" /\ seen' = seen
      BY <1>2, <2>2, FileStateOutside
    <2> QED
      BY <1>3, <2>1, <2>2 DEF Start
  <1>4. CASE Open(p) \/ GetLock(p) \/ EnsureTable(p)
    <2>1. pc'[p] \in {"locking", "ensuring", "reading"} /\ seen' = seen
      BY <1>4 DEF Open, GetLock, EnsureTable
    <2> QED
      BY <1>2, <2>1, FileStateOutside
  <1>5. CASE AppliedVersions(p)
    <2>1. /\ seen' = [seen EXCEPT ![p] = applied] /\ step' = [step EXCEPT ![p] = 1]
          /\ pc' = [pc EXCEPT ![p] = NextFile(p)] /\ applied' = applied
      BY <1>5 DEF AppliedVersions
    <2>2. seen'[p] \subseteq applied' /\ step'[p] = 1 /\ pc'[p] = NextFile(p)
      BY <2>1
    <2> QED
      BY <2>2, NextFileState
  <1>6. CASE Statement(p) \/ Record(p)
    BY <1>6, StatementKeepsFile, RecordKeepsFile
  <1>7. CASE Stays(p)
    <2>1. pc' = pc /\ seen' = seen /\ step' = step
      BY <1>7 DEF Stays, Accept, Handled
    <2> QED
      BY <1>1, <2>1, FileStateKept
  <1>8. CASE LockTimesOut(p) \/ Drained(p) \/ DrainTimesOut(p) \/ Dies(p)
    BY <1>8, HowItEnds, EndsKeepsFile
  <1> QED
    BY <1>1, <1>3, <1>4, <1>5, <1>6, <1>7, <1>8, BootstrapKeepsFile
       DEF StepOf, Proceeds, Stays

LEMMA StepKeepsTables ==
    ASSUME Shape, TablesInv, NEW p \in Processes, StepOf(p) PROVE TablesInv'
  <1>1. RecordedIsComplete'
    BY StepKeepsRecord
  <1>2. ASSUME NEW q \in Processes PROVE FileState(q)'
    <2>1. FileState(q)
      BY DEF TablesInv
    <2>2. CASE q = p
      BY <2>1, <2>2, StepKeepsFile
    <2>3. CASE q # p
      BY <2>1, <2>3, DatabaseGrows, OthersAreLeftAlone, FileStateKept
    <2> QED
      BY <2>2, <2>3
  <1> QED
    BY <1>1, <1>2 DEF TablesInv

-----------------------------------------------------------------------------
(* The invariant of the start                                              *)

StartInv == Shape /\ OneMigrates /\ TablesInv

LEMMA StartInvInit == Init => StartInv
  BY ShapeInit, LockInit, TablesInit DEF StartInv

LEMMA NextKeepsStartInv == StartInv /\ [Next]_vars => StartInv'
  <1> SUFFICES ASSUME StartInv, [Next]_vars PROVE StartInv'
    OBVIOUS
  <1>1. CASE UNCHANGED vars
    <2>1. UNCHANGED <<tables, applied, lock, pc, conf, seen, step>>
      BY <1>1 DEF vars, databaseVars, memoryVars
    <2>2. Shape' /\ OneMigrates' /\ RecordedIsComplete'
      BY <2>1 DEF StartInv, TablesInv, Shape, OneMigrates, RecordedIsComplete
    <2>3. ASSUME NEW p \in Processes PROVE FileState(p)'
      BY <2>1, FileStateKept DEF StartInv, TablesInv
    <2> QED
      BY <2>2, <2>3 DEF StartInv, TablesInv
  <1>2. ASSUME NEW p \in Processes, StepOf(p) PROVE StartInv'
    <2>1. pc[p] = "recording" => Todo(p) # {}
      BY DEF StartInv, TablesInv, FileState
    <2> QED
      BY <1>2, <2>1, StepKeepsShape, StepKeepsLock, StepKeepsTables DEF StartInv
  <1> QED
    BY <1>1, <1>2, NextIsStep

\* migrate.Run's GET_LOCK: in every history of starts, deaths and timeouts the
\* lock is held by the one process between the two, or by nobody.
THEOREM MigratesAlone == Spec => []OneMigrates
  <1>1. StartInv => OneMigrates
    BY DEF StartInv
  <1> QED
    BY <1>1, StartInvInit, NextKeepsStartInv, PTL DEF Spec

\* apply: wherever processes died, with or without the lock, a version on record
\* is a migration whose tables are all there.
THEOREM RecordCorrect == Spec => []RecordedIsComplete
  <1>1. StartInv => RecordedIsComplete
    BY DEF StartInv, TablesInv
  <1> QED
    BY <1>1, StartInvInit, NextKeepsStartInv, PTL DEF Spec

-----------------------------------------------------------------------------
(* The roles                                                               *)

\* The roles that do not depend on the configuration.
Core ==
    << <<"admin", {"*"}>>,
       <<"operator", ReadPermissions \cup CommandPermissions \cup {"audit:read"}>>,
       <<"guest", ReadPermissions>> >>

LEMMA CoreIsBuiltin ==
    ASSUME NEW c
    PROVE  /\ Len(Builtins(c)) \in {3, 4}
           /\ \A n \in 1 .. 3 : Builtins(c)[n] = Core[n]
           /\ Len(Builtins(c)) = 4 => Builtins(c)[4][1] = "demo"
  <1>1. CASE c.demo_commands = {}
    BY <1>1 DEF Builtins, Core
  <1>2. CASE c.demo_commands # {}
    BY <1>2 DEF Builtins, Core
  <1> QED
    BY <1>1, <1>2

LEMMA CoreNames ==
    /\ Core[1][1] = "admin" /\ Core[2][1] = "operator" /\ Core[3][1] = "guest"
  BY DEF Core

\* A role of the core is there and holds what the build says.
Has(n) == Core[n][1] \in DOMAIN roles /\ roles[Core[n][1]] = Core[n][2]

\* How far a process is with the roles, and that one it has not found is right
\* where another has created it.
RoleState(p) ==
    /\ pc[p] \in {"role", "creating role", "setting role"} =>
          /\ step[p] \in 1 .. Len(Builtins(conf[p]))
          /\ \A n \in 1 .. 3 : n < step[p] => Has(n)
    /\ pc[p] = "creating role" /\ step[p] \in 1 .. 3 /\ Role(p) \in DOMAIN roles =>
          Has(step[p])
    /\ pc[p] = "setting role" => Role(p) \in DOMAIN roles
    /\ pc[p] \in Migrated \ {"role", "creating role", "setting role"} =>
          \A n \in 1 .. 3 : Has(n)

\* What the roles may become: none is lost, a right one stays right, and a new
\* one of the core is right.
RolesGrow ==
    /\ DOMAIN roles \subseteq DOMAIN roles'
    /\ \A n \in 1 .. 3 : Has(n) => Has(n)'
    /\ \A n \in 1 .. 3 : Core[n][1] \in DOMAIN roles' \ DOMAIN roles => Has(n)'

LEMMA RolesInit == ASSUME Init, NEW p \in Processes PROVE RoleState(p)
  <1>1. pc[p] = "down"
    BY DEF Init
  <1> QED
    BY <1>1 DEF RoleState, Migrated, Bootstrapping

LEMMA RoleStateKept ==
    ASSUME NEW p, RoleState(p), RolesGrow,
           pc'[p] = pc[p], step'[p] = step[p], conf'[p] = conf[p]
    PROVE  RoleState(p)'
  <1>1. Role(p)' = Role(p)
    BY DEF Role
  <1>2. pc'[p] \in {"role", "creating role", "setting role"} =>
            /\ step'[p] \in 1 .. Len(Builtins(conf'[p]))
            /\ \A n \in 1 .. 3 : n < step'[p] => Has(n)'
    BY DEF RoleState, RolesGrow
  <1>3. ASSUME pc'[p] = "creating role", step'[p] \in 1 .. 3, Role(p)' \in DOMAIN roles'
        PROVE  Has(step[p])'
    <2>1. PICK n \in 1 .. 3 : n = step[p]
      BY <1>3
    <2>2. Role(p) = Core[n][1]
      BY <2>1, CoreIsBuiltin DEF Role
    <2>3. Has(n)'
      BY <1>1, <1>3, <2>1, <2>2 DEF RoleState, RolesGrow
    <2> QED
      BY <2>1, <2>3 DEF Has
  <1>4. pc'[p] = "setting role" => Role(p)' \in DOMAIN roles'
    BY <1>1 DEF RoleState, RolesGrow
  <1>5. pc'[p] \in Migrated \ {"role", "creating role", "setting role"} =>
            \A n \in 1 .. 3 : Has(n)'
    BY DEF RoleState, RolesGrow
  <1> QED
    BY <1>2, <1>3, <1>4, <1>5 DEF RoleState

\* A role of the core that a process writes is written as the build says.
LEMMA WritesTheCore ==
    ASSUME NEW p, step[p] \in 1 .. Len(Builtins(conf[p])),
           NEW n \in 1 .. 3, Core[n][1] = Role(p)
    PROVE  step[p] = n /\ Wanted(p) = Core[n][2]
  <1>1. step[p] \in 1 .. 3 \/ (step[p] = 4 /\ Len(Builtins(conf[p])) = 4)
    <2>1. Len(Builtins(conf[p])) = 3 \/ Len(Builtins(conf[p])) = 4
      BY CoreIsBuiltin
    <2>2. PICK len : len = Len(Builtins(conf[p]))
      OBVIOUS
    <2>3. PICK k : k = step[p]
      OBVIOUS
    <2>4. k \in 1 .. len /\ (len = 3 \/ len = 4)
      BY <2>1, <2>2, <2>3
    <2>5. k \in 1 .. 3 \/ (k = 4 /\ len = 4)
      BY ONLY <2>4
    <2> QED
      BY <2>2, <2>3, <2>5
  <1>2. CASE step[p] \in 1 .. 3
    <2>1. PICK k \in 1 .. 3 : k = step[p]
      BY <1>2
    <2>2. Role(p) = Core[k][1] /\ Wanted(p) = Core[k][2]
      BY <2>1, CoreIsBuiltin DEF Role, Wanted
    <2>3. n = k
      BY <2>2, CoreNames
    <2> QED
      BY <2>1, <2>2, <2>3
  <1>3. CASE step[p] = 4 /\ Len(Builtins(conf[p])) = 4
    <2>1. Role(p) = "demo"
      BY <1>3, CoreIsBuiltin DEF Role
    <2> QED
      BY <2>1, CoreNames
  <1> QED
    BY <1>1, <1>2, <1>3

LEMMA SetGrowsRoles ==
    ASSUME NEW p \in Processes, RoleState(p), SetRolePermissions(p) PROVE RolesGrow
  <1>1. CASE roles' = roles
    BY <1>1 DEF RolesGrow, Has
  <1>2. CASE roles' = [roles EXCEPT ![Role(p)] = Wanted(p)]
    <2>1. Role(p) \in DOMAIN roles /\ step[p] \in 1 .. Len(Builtins(conf[p]))
      BY DEF SetRolePermissions, RoleState
    <2>2. DOMAIN roles' = DOMAIN roles
      BY <1>2
    <2>3. ASSUME NEW n \in 1 .. 3, Has(n) PROVE Has(n)'
      <3>1. CASE Core[n][1] = Role(p)
        <4>1. Wanted(p) = Core[n][2]
          BY <2>1, <3>1, WritesTheCore
        <4> QED
          BY <1>2, <2>1, <2>2, <3>1, <4>1 DEF Has
      <3>2. CASE Core[n][1] # Role(p)
        BY <1>2, <2>2, <2>3, <3>2 DEF Has
      <3> QED
        BY <3>1, <3>2
    <2> QED
      BY <2>2, <2>3 DEF RolesGrow
  <1> QED
    BY <1>1, <1>2 DEF SetRolePermissions, Fails, Ends

LEMMA CreateGrowsRoles ==
    ASSUME NEW p \in Processes, RoleState(p), CreateRole(p) PROVE RolesGrow
  <1>1. step[p] \in 1 .. Len(Builtins(conf[p]))
    BY DEF CreateRole, RoleState
  <1>2. roles' = [x \in DOMAIN roles \cup {Role(p)} |->
                     IF x \in DOMAIN roles THEN roles[x] ELSE Wanted(p)]
    BY DEF CreateRole
  <1>3. DOMAIN roles' = DOMAIN roles \cup {Role(p)}
    BY <1>2
  <1>4. ASSUME NEW n \in 1 .. 3, Has(n) PROVE Has(n)'
    BY <1>2, <1>3, <1>4 DEF Has
  <1>5. ASSUME NEW n \in 1 .. 3, Core[n][1] \in DOMAIN roles' \ DOMAIN roles
        PROVE  Has(n)'
    <2>1. Core[n][1] = Role(p)
      BY <1>3, <1>5
    <2>2. Wanted(p) = Core[n][2]
      BY <1>1, <2>1, WritesTheCore
    <2> QED
      BY <1>2, <1>3, <1>5, <2>1, <2>2 DEF Has
  <1> QED
    BY <1>3, <1>4, <1>5 DEF RolesGrow

LEMMA StepGrowsRoles ==
    ASSUME NEW p \in Processes, RoleState(p), StepOf(p) PROVE RolesGrow
  <1> USE DEF databaseVars, Ends, Fails
  <1>1. CASE roles' = roles
    BY <1>1 DEF RolesGrow, Has
  <1>2. CASE \E l \in Launches : Start(p, l)
    BY <1>1, <1>2 DEF Start
  <1>3. CASE \/ Open(p) \/ GetLock(p) \/ LockTimesOut(p) \/ EnsureTable(p)
             \/ AppliedVersions(p) \/ Statement(p) \/ Record(p) \/ ReleaseLock(p)
    BY <1>1, <1>3 DEF Open, GetLock, LockTimesOut, EnsureTable, AppliedVersions,
                      Statement, Record, ReleaseLock
  <1>4. CASE \/ RoleByName(p) \/ FindDemoRole(p) \/ UserByUsername(p) \/ SetRole(p)
             \/ SweepDemo(p) \/ CreateUser(p)
    BY <1>1, <1>4 DEF RoleByName, FindDemoRole, UserByUsername, SetRole, SweepDemo,
                      CreateUser
  <1>5. CASE SetRolePermissions(p) \/ CreateRole(p)
    BY <1>5, SetGrowsRoles, CreateGrowsRoles
  <1>6. CASE \/ Listen(p) \/ Drained(p) \/ DrainTimesOut(p) \/ Stays(p) \/ Signal(p)
             \/ Dies(p)
    BY <1>1, <1>6 DEF Listen, Drained, DrainTimesOut, Stays, Accept, Handled, Signal, Dies
  <1> QED
    BY <1>2, <1>3, <1>4, <1>5, <1>6 DEF StepOf, Proceeds, Stays

\* On to the next role, once that at hand is right.
LEMMA NextRoleState ==
    ASSUME Shape, RolesGrow, NEW p \in Processes, NextRole(p), conf'[p] = conf[p],
           step[p] \in 1 .. Len(Builtins(conf[p])),
           \A n \in 1 .. 3 : n < step[p] => Has(n),
           \A n \in 1 .. 3 : n = step[p] => Has(n)'
    PROVE  RoleState(p)'
  <1>1. PICK k, len : k = step[p] /\ len = Len(Builtins(conf[p]))
    OBVIOUS
  <1>2. k \in 1 .. len /\ len \in {3, 4}
    BY <1>1, CoreIsBuiltin
  <1>3. /\ step'[p] = k + 1
        /\ k < len => pc'[p] = "role"
        /\ ~(k < len) => pc'[p] \in {"demo role", "listening"}
    BY <1>1 DEF Shape, NextRole, Steps, Goes
  <1>4. ASSUME NEW n \in 1 .. 3, n < k + 1 PROVE Has(n)'
    <2>1. n < k \/ n = k
      BY <1>2, <1>4
    <2>2. CASE n < k
      BY <1>1, <2>2 DEF RolesGrow
    <2>3. CASE n = k
      BY <1>1, <2>3
    <2> QED
      BY <2>1, <2>2, <2>3
  <1>5. CASE k < len
    <2>1. k + 1 \in 1 .. len
      BY <1>2, <1>5
    <2> QED
      BY <1>1, <1>3, <1>4, <1>5, <2>1 DEF RoleState
  <1>6. CASE ~(k < len)
    <2>1. \A n \in 1 .. 3 : n < k + 1
      BY <1>2, <1>6
    <2> QED
      BY <1>3, <1>4, <1>6, <2>1 DEF RoleState
  <1> QED
    BY <1>5, <1>6

LEMMA EndsKeepsRole ==
    ASSUME Shape, NEW p \in Processes, NEW how, Ends(p, how) PROVE RoleState(p)'
  <1>1. pc'[p] = "down"
    BY DEF Shape, Ends, Goes
  <1> QED
    BY <1>1 DEF RoleState, Migrated, Bootstrapping

\* The three statements on the roles.
LEMMA RolesKeepRole ==
    ASSUME Shape, RolesGrow, NEW p \in Processes, RoleState(p),
           RoleByName(p) \/ SetRolePermissions(p) \/ CreateRole(p)
    PROVE  RoleState(p)'
  <1>1. /\ step[p] \in 1 .. Len(Builtins(conf[p]))
        /\ \A n \in 1 .. 3 : n < step[p] => Has(n)
    BY DEF RoleState, RoleByName, SetRolePermissions, CreateRole
  <1>2. ASSUME NEW n \in 1 .. 3, n = step[p]
        PROVE  Role(p) = Core[n][1] /\ Wanted(p) = Core[n][2]
    BY <1>2, CoreIsBuiltin DEF Role, Wanted
  <1>3. CASE RoleByName(p)
    <2>1. roles' = roles /\ conf' = conf /\ pc[p] = "role"
      BY <1>3 DEF RoleByName, databaseVars
    <2>2. CASE Role(p) \notin DOMAIN roles
      <3>1. pc'[p] = "creating role" /\ step' = step
        BY <1>3, <2>2 DEF RoleByName, Goes, Shape
      <3>2. Role(p)' \notin DOMAIN roles'
        BY <2>1, <2>2, <3>1 DEF Role
      <3>3. \A n \in 1 .. 3 : n < step'[p] => Has(n)'
        BY <1>1, <3>1 DEF RolesGrow
      <3> QED
        BY <1>1, <2>1, <3>1, <3>2, <3>3 DEF RoleState
    <2>3. CASE Role(p) \in DOMAIN roles /\ roles[Role(p)] = Wanted(p)
      <3>1. NextRole(p)
        BY <1>3, <2>3 DEF RoleByName, SamePermissions
      <3>2. \A n \in 1 .. 3 : n = step[p] => Has(n)'
        BY <1>2, <2>3 DEF RolesGrow, Has
      <3> QED
        BY <1>1, <2>1, <3>1, <3>2, NextRoleState
    <2>4. CASE Role(p) \in DOMAIN roles /\ roles[Role(p)] # Wanted(p)
      <3>1. pc'[p] = "setting role" /\ step' = step
        BY <1>3, <2>4 DEF RoleByName, SamePermissions, Goes, Shape
      <3>2. Role(p)' \in DOMAIN roles'
        BY <2>1, <2>4, <3>1 DEF Role
      <3>3. \A n \in 1 .. 3 : n < step'[p] => Has(n)'
        BY <1>1, <3>1 DEF RolesGrow
      <3> QED
        BY <1>1, <2>1, <3>1, <3>2, <3>3 DEF RoleState
    <2> QED
      BY <2>2, <2>3, <2>4
  <1>4. CASE SetRolePermissions(p)
    <2>1. Role(p) \in DOMAIN roles
      BY <1>4 DEF RoleState, SetRolePermissions
    <2>2. CASE roles[Role(p)] = Wanted(p)
      BY <1>4, <2>2, EndsKeepsRole DEF SetRolePermissions, Fails
    <2>3. CASE roles[Role(p)] # Wanted(p)
      <3>1. /\ NextRole(p) /\ conf' = conf
            /\ roles' = [roles EXCEPT ![Role(p)] = Wanted(p)]
        BY <1>4, <2>3 DEF SetRolePermissions
      <3>2. \A n \in 1 .. 3 : n = step[p] => Has(n)'
        BY <1>2, <2>1, <3>1 DEF Has
      <3> QED
        BY <1>1, <3>1, <3>2, NextRoleState
    <2> QED
      BY <2>2, <2>3
  <1>5. CASE CreateRole(p)
    <2>1. NextRole(p) /\ conf' = conf /\ Role(p) \in DOMAIN roles' /\ pc[p] = "creating role"
      BY <1>5 DEF CreateRole
    <2>2. ASSUME NEW n \in 1 .. 3, n = step[p] PROVE Has(n)'
      <3>1. CASE Role(p) \in DOMAIN roles
        <4>1. Has(step[p])
          BY <2>1, <2>2, <3>1 DEF RoleState
        <4> QED
          BY <2>2, <4>1 DEF RolesGrow
      <3>2. CASE Role(p) \notin DOMAIN roles
        BY <1>2, <2>1, <2>2, <3>2 DEF RolesGrow
      <3> QED
        BY <3>1, <3>2
    <2> QED
      BY <1>1, <2>1, <2>2, NextRoleState
  <1> QED
    BY <1>3, <1>4, <1>5

\* With the roles right a process goes on, and they stay right.
LEMMA AfterRoles ==
    ASSUME RolesGrow, NEW p, RoleState(p),
           pc[p] \in Migrated \ {"role", "creating role", "setting role"},
           pc'[p] \in Migrated \ {"role", "creating role", "setting role"}
    PROVE  RoleState(p)'
  <1>1. \A n \in 1 .. 3 : Has(n)'
    BY DEF RoleState, RolesGrow
  <1> QED
    BY <1>1 DEF RoleState

LEMMA StepKeepsRole ==
    ASSUME Shape, NEW p \in Processes, RoleState(p), StepOf(p) PROVE RoleState(p)'
  <1>1. RolesGrow
    BY StepGrowsRoles
  <1>2. CASE \E how : Ends(p, how)
    BY <1>2, EndsKeepsRole
  <1>3. CASE UNCHANGED <<pc, step, conf>>
    BY <1>1, <1>3, RoleStateKept
  <1>4. CASE pc'[p] \in Places \ Migrated
    BY <1>4 DEF RoleState, Places, Migrating, Migrated, Bootstrapping
  <1>5. CASE /\ pc[p] \in Migrated \ {"role", "creating role", "setting role"}
             /\ pc'[p] \in Migrated \ {"role", "creating role", "setting role"}
    BY <1>1, <1>5, AfterRoles
  <1> USE DEF Shape, Goes, Steps, memoryVars, Places, Migrating, Migrated, Bootstrapping
  <1>6. CASE \E l \in Launches : Start(p, l)
    <2>1. PICK l \in Launches : Start(p, l)
      BY <1>6
    <2>2. CASE Load(l) = Refused
      BY <1>3, <2>1, <2>2 DEF Start
    <2>3. CASE Load(l) # Refused
      BY <1>4, <2>1, <2>3 DEF Start
    <2> QED
      BY <2>2, <2>3
  <1>7. CASE Open(p) \/ GetLock(p) \/ EnsureTable(p)
    BY <1>4, <1>7 DEF Open, GetLock, EnsureTable
  <1>8. CASE AppliedVersions(p) \/ Statement(p) \/ Record(p)
    <2>1. (\E how : Ends(p, how)) \/ pc'[p] \in {"releasing", "applying", "recording"}
      BY <1>8 DEF AppliedVersions, Statement, Creates, Record, Fails, NextFile
    <2> QED
      BY <1>2, <1>4, <2>1
  <1>9. CASE ReleaseLock(p)
    <2>1. pc'[p] = "role" /\ step'[p] = 1
      BY <1>9 DEF ReleaseLock
    <2>2. PICK len : len = Len(Builtins(conf'[p]))
      OBVIOUS
    <2>3. len = 3 \/ len = 4
      BY <2>2, CoreIsBuiltin
    <2>4. 1 \in 1 .. len /\ \A n \in 1 .. 3 : ~(n < 1)
      BY ONLY <2>3
    <2> QED
      BY <2>1, <2>2, <2>4 DEF RoleState
  <1>10. CASE RoleByName(p) \/ SetRolePermissions(p) \/ CreateRole(p)
    BY <1>1, <1>10, RolesKeepRole
  <1>11. CASE FindDemoRole(p) \/ SetRole(p)
    BY <1>2, <1>5, <1>11 DEF FindDemoRole, SetRole, Fails
  <1>12. CASE UserByUsername(p) \/ SweepDemo(p) \/ CreateUser(p) \/ Signal(p)
    BY <1>5, <1>12 DEF UserByUsername, SweepDemo, CreateUser, Signal
  <1>13. CASE Listen(p)
    BY <1>2, <1>5, <1>13 DEF Listen
  <1>14. CASE Stays(p)
    BY <1>3, <1>14 DEF Stays, Accept, Handled
  <1>15. CASE LockTimesOut(p) \/ Drained(p) \/ DrainTimesOut(p) \/ Dies(p)
    BY <1>2, <1>15, HowItEnds
  <1> QED
    BY <1>6, <1>7, <1>8, <1>9, <1>10, <1>11, <1>12, <1>13, <1>14, <1>15
       DEF StepOf, Proceeds, Stays

RolesInv == \A p \in Processes : RoleState(p)

LEMMA NextKeepsRoles == StartInv /\ RolesInv /\ [Next]_vars => RolesInv'
  <1> SUFFICES ASSUME StartInv, RolesInv, [Next]_vars, NEW q \in Processes
               PROVE  RoleState(q)'
    BY DEF RolesInv
  <1>1. RoleState(q) /\ Shape
    BY DEF RolesInv, StartInv
  <1>2. CASE UNCHANGED vars
    <2>1. RolesGrow /\ pc' = pc /\ step' = step /\ conf' = conf
      BY <1>2 DEF vars, databaseVars, memoryVars, RolesGrow, Has
    <2> QED
      BY <1>1, <2>1, RoleStateKept
  <1>3. ASSUME NEW p \in Processes, StepOf(p) PROVE RoleState(q)'
    <2>1. CASE q = p
      BY <1>1, <1>3, <2>1, StepKeepsRole
    <2>2. CASE q # p
      <3>1. RolesGrow
        BY <1>3, StepGrowsRoles DEF RolesInv
      <3> QED
        BY <1>1, <1>3, <2>2, <3>1, OthersAreLeftAlone, RoleStateKept
    <2> QED
      BY <2>1, <2>2
  <1> QED
    BY <1>2, <1>3, NextIsStep

LEMMA ServesWithAll == StartInv /\ RolesInv => ServesComplete
  <1> SUFFICES ASSUME StartInv, RolesInv, NEW p \in Processes, pc[p] = "serving"
               PROVE  /\ AllTables \subseteq tables
                      /\ \A n \in 1 .. 3 : LET b == Builtins(conf[p])[n]
                                           IN  b[1] \in DOMAIN roles /\ roles[b[1]] = b[2]
    BY DEF ServesComplete
  <1>1. Todo(p) = {} /\ seen[p] \subseteq applied
    BY DEF StartInv, TablesInv, FileState, Migrated
  <1>2. \A m \in DOMAIN Migrations : Migrations[m].version \in applied
    BY <1>1 DEF Todo
  <1>3. AllTables \subseteq tables
    BY <1>2 DEF StartInv, TablesInv, RecordedIsComplete, AllTables
  <1>4. \A n \in 1 .. 3 : Has(n)
    BY DEF RolesInv, RoleState, Migrated
  <1> QED
    BY <1>3, <1>4, CoreIsBuiltin DEF Has

\* serve: a process only listens on a database that is complete, and it stays
\* complete while it serves, whatever other processes start, write and die.
THEOREM ServingIsComplete == Spec => []ServesComplete
  <1>1. Init => RolesInv
    BY RolesInit DEF RolesInv
  <1> QED
    BY <1>1, StartInvInit, NextKeepsStartInv, NextKeepsRoles, ServesWithAll, PTL
       DEF Spec


-----------------------------------------------------------------------------
(* The settings                                                            *)

\* The words of the arguments that are read are the first ones.
LEMMA ReadIsPrefix ==
    ASSUME NEW l \in Launches
    PROVE  /\ DOMAIN Read(l.args) \subseteq DOMAIN l.args
           /\ \A n \in DOMAIN Read(l.args) : Read(l.args)[n] = l.args[n]
           /\ \A n \in DOMAIN l.args :
                  (\A k \in 1 .. n : l.args[k].flag # "") => n \in DOMAIN Read(l.args)
  <1>1. PICK args : args = l.args
    OBVIOUS
  <1>2. Len(args) \in Nat /\ args = [n \in 1 .. Len(args) |-> args[n]]
    BY <1>1, StartupAssumption DEF StartupAssumption
  <1>3. DOMAIN args = 1 .. Len(args)
    BY <1>2
  <1>4. PICK words : words = {n \in DOMAIN args : args[n].flag = ""}
    OBVIOUS
  <1>5. CASE words = {}
    BY <1>1, <1>4, <1>5 DEF Read
  <1>6. CASE words # {}
    <2>1. words \in SUBSET Nat
      <3>1. words \subseteq 1 .. Len(args)
        BY <1>3, <1>4
      <3>2. 1 .. Len(args) \subseteq Nat
        BY <1>2
      <3> QED
        BY <3>1, <3>2
    <2>2. PICK k : k = CHOOSE n \in words : \A m \in words : n <= m
      OBVIOUS
    <2>3. k \in words
      BY <1>6, <2>1, <2>2, LeastOne
    <2>4. k \in 1 .. Len(args)
      BY <1>3, <1>4, <2>3
    <2>5. PICK read : read = SubSeq(args, 1, k - 1)
      OBVIOUS
    <2>6. Read(l.args) = read
      BY <1>1, <1>4, <1>6, <2>2, <2>5 DEF Read
    <2>7. PICK S : S = {args[n] : n \in DOMAIN args}
      OBVIOUS
    <2>8. \A i \in 1 .. k - 1 : args[i] \in S
      BY <1>2, <1>3, <2>4, <2>7
    <2>9. /\ read \in Seq(S)
          /\ Len(read) = IF 1 <= k - 1 THEN k - 1 - 1 + 1 ELSE 0
          /\ \A i \in 1 .. k - 1 - 1 + 1 : read[i] = args[1 + i - 1]
      BY <2>4, <2>5, <2>8, SubSeqProperties
    <2>10. DOMAIN read = 1 .. Len(read)
      BY <2>9
    <2>11. DOMAIN read = 1 .. k - 1
      BY <1>2, <2>4, <2>9, <2>10
    <2>12. ASSUME NEW i \in 1 .. k - 1 PROVE read[i] = args[i]
      <3>1. i \in 1 .. k - 1 - 1 + 1 /\ 1 + i - 1 = i
        BY <1>2, <2>4
      <3> QED
        BY <2>9, <3>1
    <2>13. ASSUME NEW n \in DOMAIN args, \A j \in 1 .. n : args[j].flag # ""
           PROVE  n \in 1 .. k - 1
      <3>1. args[k].flag = "" /\ n \in 1 .. Len(args)
        BY <1>3, <1>4, <2>3
      <3>2. k \notin 1 .. n
        BY <2>13, <3>1
      <3>3. PICK len : len = Len(args)
        OBVIOUS
      <3>4. len \in Nat /\ k \in 1 .. len /\ n \in 1 .. len /\ k \notin 1 .. n
        BY <1>2, <2>4, <3>1, <3>2, <3>3
      <3> QED
        BY ONLY <3>4
    <2>14. DOMAIN read \subseteq DOMAIN args /\ \A n \in DOMAIN read : read[n] = args[n]
      BY <1>2, <1>3, <2>4, <2>11, <2>12
    <2>15. \A n \in DOMAIN args :
               (\A j \in 1 .. n : args[j].flag # "") => n \in DOMAIN read
      BY <2>11, <2>13
    <2> QED
      BY <1>1, <2>6, <2>14, <2>15
  <1> QED
    BY <1>5, <1>6

\* A first stretch of the numbers is as long as its last one is far.
LEMMA FirstStretch ==
    ASSUME NEW len \in Nat, NEW S \in SUBSET (1 .. len), S # {},
           \A n \in S : \A k \in 1 .. n : k \in S
    PROVE  /\ Cardinality(S) \in S
           /\ \A k \in S : k <= Cardinality(S)
  <1>1. PICK out : out = {n \in Nat \ {0} : n \notin S}
    OBVIOUS
  <1>2. len + 1 \in out /\ out \in SUBSET Nat
    BY <1>1
  <1>3. PICK m \in out : \A k \in out : m <= k
    BY <1>2, LeastOne
  <1>4. m \in Nat \ {0} /\ m \notin S
    BY <1>1
  <1>5. \A n \in S : n < m
    BY <1>4
  <1>6. \A n \in 1 .. m - 1 : n \in S
    <2> SUFFICES ASSUME NEW n \in 1 .. m - 1, n \notin S PROVE FALSE
      OBVIOUS
    <2>1. n \in out /\ n < m
      BY <1>1, <1>4
    <2> QED
      BY <1>3, <1>4, <2>1
  <1>7. S = 1 .. m - 1
    <2>1. \A n \in S : n \in 1 .. m - 1
      <3> SUFFICES ASSUME NEW n \in S PROVE n \in 1 .. m - 1
        OBVIOUS
      <3>1. n \in 1 .. len /\ n < m
        BY <1>5
      <3> QED
        BY <1>4, <3>1
    <2> QED
      BY <1>6, <2>1
  <1>8. Cardinality(1 .. m - 1) = m - 1
    <2>1. Cardinality(1 .. m - 1) = IF 1 > m - 1 THEN 0 ELSE m - 1 - 1 + 1
      BY <1>4, FS_Interval
    <2> QED
      BY <1>4, <2>1
  <1> QED
    BY <1>4, <1>7, <1>8

\* Of numbers up to a bound there is a greatest one.
LEMMA GreatestOne ==
    ASSUME NEW len \in Nat, NEW S \in SUBSET (1 .. len), S # {}
    PROVE  \E m \in S : \A k \in S : k <= m
  <1>1. PICK down : down = {n \in 0 .. len : len - n \in S}
    OBVIOUS
  <1>2. down \in SUBSET Nat
    BY <1>1
  <1>3. ASSUME NEW m \in S PROVE len - m \in down
    <2>1. len - m \in 0 .. len /\ len - (len - m) = m
      OBVIOUS
    <2> QED
      BY <1>1, <2>1
  <1>4. down # {}
    BY <1>3
  <1>5. PICK n \in down : \A k \in down : n <= k
    BY <1>2, <1>4, LeastOne
  <1>6. n \in 0 .. len /\ len - n \in S
    BY <1>1
  <1>7. ASSUME NEW k \in S PROVE k <= len - n
    <2>1. k \in 1 .. len /\ n <= len - k
      BY <1>3, <1>5
    <2> QED
      BY <1>6, <2>1
  <1> QED
    BY <1>6, <1>7

\* The file is the one the flags that lead the arguments name last.
LEMMA PathIsNamed ==
    ASSUME NEW l \in Launches, NEW named,
           named = {n \in DOMAIN l.args : \A k \in 1 .. n : l.args[k].flag = "config"}
    PROVE  PathOf(l) = IF named = {} THEN l.sei_config
                       ELSE l.args[CHOOSE n \in named : \A k \in named : k <= n].value
  <1>1. PICK args : args = l.args
    OBVIOUS
  <1>2. PICK len : len = Len(args)
    OBVIOUS
  <1>3. len \in Nat /\ DOMAIN args = 1 .. len
    BY <1>1, <1>2, StartupAssumption DEF StartupAssumption
  <1>4. CASE named = {}
    BY <1>4 DEF PathOf
  <1>5. CASE named # {}
    <2>1. named \in SUBSET (1 .. len)
      BY <1>1, <1>3
    <2>2. ASSUME NEW n \in named, NEW k \in 1 .. n PROVE k \in named
      <3>1. n \in 1 .. len /\ \A j \in 1 .. n : args[j].flag = "config"
        BY <1>1, <1>3
      <3>2. k \in 1 .. len /\ \A j \in 1 .. k : j \in 1 .. n
        BY <1>3, <3>1
      <3> QED
        BY <1>1, <1>3, <3>1, <3>2
    <2>3. PICK last : last = Cardinality(named)
      OBVIOUS
    <2>4. last \in named /\ \A k \in named : k <= last
      BY <1>3, <1>5, <2>1, <2>2, <2>3, FirstStretch
    <2>5. PICK m : m = CHOOSE n \in named : \A k \in named : k <= n
      OBVIOUS
    <2>6. m \in named /\ \A k \in named : k <= m
      BY <2>4, <2>5
    <2>7. m <= last /\ last <= m /\ m \in Nat /\ last \in Nat
      BY <2>1, <2>4, <2>6
    <2>8. m = last
      BY ONLY <2>7
    <2>9. PathOf(l) = args[last].value
      BY <1>1, <1>5, <2>3 DEF PathOf
    <2> QED
      BY <1>1, <1>5, <2>5, <2>8, <2>9
  <1> QED
    BY <1>4, <1>5

\* Where no flag stands before a -config, the file that is read is the one that is
\* asked for.
LEMMA FoundIsAsked ==
    ASSUME NEW l \in Launches, FileIsFound(l)
    PROVE  PathOf(l) = IF Given(l, "config") = {} THEN l.sei_config
                       ELSE LastGiven(l, "config")
  <1>1. PICK named :
          named = {n \in DOMAIN l.args : \A k \in 1 .. n : l.args[k].flag = "config"}
    OBVIOUS
  <1>2. DOMAIN Read(l.args) \subseteq DOMAIN l.args /\ DOMAIN l.args \subseteq Nat \ {0}
    <2>1. PICK args, len : args = l.args /\ len = Len(l.args)
      OBVIOUS
    <2>2. len \in Nat /\ args = [n \in 1 .. len |-> args[n]]
      BY <2>1, StartupAssumption DEF StartupAssumption
    <2>3. DOMAIN args = 1 .. len
      BY <2>2
    <2>4. 1 .. len \subseteq Nat \ {0}
      BY ONLY <2>2
    <2> QED
      BY <2>1, <2>3, <2>4, ReadIsPrefix
  <1>3. ASSUME NEW n \in Given(l, "config") PROVE n \in named
    BY <1>1, <1>2 DEF Given, FileIsFound
  <1>4. ASSUME NEW n \in named PROVE n \in Given(l, "config")
    <2>1. n \in DOMAIN l.args /\ \A k \in 1 .. n : l.args[k].flag = "config"
      BY <1>1
    <2>2. n \in DOMAIN Read(l.args)
      BY <2>1, ReadIsPrefix
    <2>3. n \in 1 .. n
      BY <1>2, <2>1
    <2> QED
      BY <2>1, <2>2, <2>3 DEF Given
  <1>5. named = Given(l, "config")
    BY <1>3, <1>4
  <1> QED
    BY <1>1, <1>5, PathIsNamed DEF LastGiven

\* The words that are no settings.
LEMMA WordsAreNoSettings == {"", "?", "config"} \cap Settings = {}
  BY DEF Settings, Default

\* A flag on the command line counts where it is given last.
LEMMA FlagCountsLast ==
    ASSUME NEW l \in Launches, NEW s \in Settings, NEW given, NEW flags,
           given = OnCommandLine(l.args),
           flags = {n \in DOMAIN Read(l.args) : l.args[n].flag = s}
    PROVE  /\ s \in DOMAIN given.values <=> flags # {}
           /\ flags # {} => given.values[s] =
                  l.args[CHOOSE n \in flags : \A k \in flags : k <= n].value
  <1>1. PICK args, read : args = l.args /\ read = Read(l.args)
    OBVIOUS
  <1>2. PICK len : len = Len(args)
    OBVIOUS
  <1>3. len \in Nat /\ DOMAIN args = 1 .. len
    BY <1>1, <1>2, StartupAssumption DEF StartupAssumption
  <1>4. DOMAIN read \subseteq DOMAIN args /\ \A n \in DOMAIN read : read[n] = args[n]
    BY <1>1, ReadIsPrefix
  <1>5. flags = {n \in DOMAIN read : read[n].flag = s}
    BY <1>1, <1>4
  <1>6. flags # {} => s \in Flags
    <2> SUFFICES ASSUME NEW n \in flags PROVE s \in Flags
      OBVIOUS
    <2>1. n \in DOMAIN args /\ args[n].flag = s
      BY <1>1, <1>4
    <2>2. s \in Flags \cup {"", "?", "config"}
      BY <1>1, <2>1, StartupAssumption DEF StartupAssumption
    <2> QED
      BY <2>2, WordsAreNoSettings
  <1>7. PICK values :
          values = [t \in {t \in Flags : {n \in DOMAIN read : read[n].flag = t} # {}} |->
              read[CHOOSE n \in {j \in DOMAIN read : read[j].flag = t} :
                      \A k \in {j \in DOMAIN read : read[j].flag = t} : k <= n].value]
    OBVIOUS
  <1>8. given.values = values
    BY <1>1, <1>7 DEF OnCommandLine
  <1>9. s \in DOMAIN values <=> flags # {}
    BY <1>5, <1>6, <1>7
  <1>10. ASSUME flags # {}
         PROVE  values[s] = l.args[CHOOSE n \in flags : \A k \in flags : k <= n].value
    <2>1. flags \in SUBSET (1 .. len)
      BY <1>3, <1>4, <1>5
    <2>2. PICK m : m = CHOOSE n \in flags : \A k \in flags : k <= n
      OBVIOUS
    <2>3. m \in flags
      BY <1>3, <1>10, <2>1, <2>2, GreatestOne
    <2>4. s \in Flags /\ {n \in DOMAIN read : read[n].flag = s} # {}
      BY <1>5, <1>6, <1>10
    <2>5. values[s] = read[m].value
      BY <1>5, <1>7, <2>2, <2>4
    <2>6. read[m] = args[m]
      BY <1>4, <1>5, <2>3
    <2> QED
      BY <1>1, <2>2, <2>5, <2>6
  <1> QED
    BY <1>8, <1>9, <1>10

LEMMA OverGives ==
    ASSUME NEW values, NEW before, NEW s, s \in DOMAIN values \/ s \in DOMAIN before
    PROVE  /\ s \in DOMAIN Over(values, before)
           /\ Over(values, before)[s] = IF s \in DOMAIN values THEN values[s] ELSE before[s]
  BY DEF Over

\* Load: a configuration that is accepted has each setting from the source that
\* comes first.
LEMMA LoadIsAsked ==
    ASSUME NEW l \in Launches, Load(l) # Refused, NEW s \in Settings,
           \/ FileIsFound(l)
           \/ Given(l, s) # {}
           \/ s \in DOMAIN l.env.values
    PROVE  Load(l)[s] = Asked(l, s)
  <1>1. PICK flags : flags = Given(l, s)
    OBVIOUS
  <1>2. PICK asked : asked = IF Given(l, "config") = {} THEN l.sei_config
                             ELSE LastGiven(l, "config")
    OBVIOUS
  <1>3. PICK path : path = PathOf(l)
    OBVIOUS
  <1>4. FileIsFound(l) => path = asked
    BY <1>2, <1>3, FoundIsAsked
  <1>5. PICK last : last = l.args[CHOOSE n \in flags : \A k \in flags : k <= n].value
    OBVIOUS
  <1>6. PICK given, file : given = OnCommandLine(l.args) /\ file = FileOf(l)
    OBVIOUS
  <1>7. PICK f, e, v : f = given.values /\ e = l.env.values /\ v = file.values
    OBVIOUS
  <1>8. /\ s \in DOMAIN f <=> flags # {}
        /\ flags # {} => f[s] = last
    BY <1>1, <1>5, <1>6, <1>7, FlagCountsLast DEF Given
  <1>9. Load(l) = Over(f, Over(e, Over(v, Default)))
    BY <1>6, <1>7 DEF Load, Merged
  <1>10. s \in DOMAIN Default
    BY DEF Settings
  <1>11. Load(l)[s] = IF s \in DOMAIN f THEN f[s]
                      ELSE IF s \in DOMAIN e THEN e[s]
                      ELSE IF s \in DOMAIN v THEN v[s]
                      ELSE Default[s]
    BY <1>9, <1>10, OverGives
  <1>12. v = IF path = "" THEN <<>> ELSE l.files[path].values
    BY <1>3, <1>6, <1>7 DEF FileOf, Nothing
  <1>13. s \in DOMAIN v <=> path # "" /\ s \in DOMAIN l.files[path].values
    <2>1. path = "" => DOMAIN v = {}
      <3>1. DOMAIN <<>> = {}
        OBVIOUS
      <3> QED
        BY ONLY <1>12, <3>1
    <2>2. path # "" => v = l.files[path].values
      BY <1>12
    <2> QED
      BY <2>1, <2>2
  <1>14. Asked(l, s) =
            CASE flags # {} -> last
              [] flags = {} /\ s \in DOMAIN e -> e[s]
              [] /\ flags = {} /\ s \notin DOMAIN e
                 /\ asked # "" /\ s \in DOMAIN l.files[asked].values ->
                     l.files[asked].values[s]
              [] OTHER -> Default[s]
    BY <1>1, <1>2, <1>5, <1>7 DEF Asked, LastGiven
  <1>15. CASE flags # {}
    BY <1>8, <1>11, <1>14, <1>15
  <1>16. CASE flags = {} /\ s \in DOMAIN e
    BY <1>8, <1>11, <1>14, <1>16
  <1>17. CASE flags = {} /\ s \notin DOMAIN e /\ s \in DOMAIN v
    <2>1. path = asked
      BY <1>1, <1>4, <1>7, <1>17
    <2> QED
      BY <1>8, <1>11, <1>12, <1>13, <1>14, <1>17, <2>1
  <1>18. CASE flags = {} /\ s \notin DOMAIN e /\ s \notin DOMAIN v
    <2>1. path = asked
      BY <1>1, <1>4, <1>7, <1>18
    <2> QED
      BY <1>8, <1>11, <1>13, <1>14, <1>18, <2>1
  <1> QED
    BY <1>15, <1>16, <1>17, <1>18

\* A process that is up runs with what its start has read.
Loaded ==
    /\ DOMAIN launch = Processes
    /\ \A p \in Processes :
          ~Down(p) => /\ launch[p] \in Launches
                      /\ conf[p] = Load(launch[p]) /\ conf[p] # Refused

\* After its start, a process keeps how it was started and its configuration.
LEMMA LaunchKept ==
    ASSUME Shape, Loaded, NEW p \in Processes, StepOf(p),
           ~ \E l \in Launches : Start(p, l)
    PROVE  /\ DOMAIN launch' = Processes
           /\ \A q \in Processes :
                 ~Down(q)' => ~Down(q) /\ launch'[q] = launch[q] /\ conf'[q] = conf[q]
  <1> USE DEF Shape, Loaded, Goes, Fails, NextRole, memoryVars, Down
  <1>1. ASSUME NEW how, Ends(p, how)
        PROVE  /\ DOMAIN launch' = Processes
               /\ \A q \in Processes :
                     ~Down(q)' => ~Down(q) /\ launch'[q] = launch[q] /\ conf'[q] = conf[q]
    BY <1>1 DEF Ends
  <1>2. CASE \/ Open(p) \/ GetLock(p) \/ EnsureTable(p) \/ AppliedVersions(p)
             \/ Statement(p) \/ Record(p) \/ ReleaseLock(p)
    BY <1>1, <1>2 DEF Open, GetLock, EnsureTable, AppliedVersions, Statement, Record,
                      ReleaseLock
  <1>3. CASE \/ RoleByName(p) \/ SetRolePermissions(p) \/ CreateRole(p)
    BY <1>1, <1>3 DEF RoleByName, SetRolePermissions, CreateRole
  <1>4. CASE \/ FindDemoRole(p) \/ UserByUsername(p) \/ SetRole(p) \/ SweepDemo(p)
             \/ CreateUser(p) \/ Listen(p)
    BY <1>1, <1>4 DEF FindDemoRole, UserByUsername, SetRole, SweepDemo, CreateUser, Listen
  <1>5. CASE LockTimesOut(p) \/ Drained(p) \/ DrainTimesOut(p) \/ Dies(p)
    BY <1>1, <1>5, HowItEnds
  <1>6. CASE Stays(p) \/ Signal(p)
    BY <1>6 DEF Stays, Accept, Handled, Signal
  <1> QED
    BY <1>2, <1>3, <1>4, <1>5, <1>6 DEF StepOf, Proceeds, Stays

LEMMA NextKeepsLoaded == Shape /\ Loaded /\ [Next]_vars => Loaded'
  <1> SUFFICES ASSUME Shape, Loaded, [Next]_vars PROVE Loaded'
    OBVIOUS
  <1>1. CASE UNCHANGED vars
    BY <1>1 DEF vars, memoryVars, Loaded, Down
  <1>2. ASSUME NEW p \in Processes, NEW l \in Launches, Start(p, l) PROVE Loaded'
    <2>1. PICK c : c = Load(l)
      OBVIOUS
    <2>2. CASE c = Refused
      BY <1>2, <2>1, <2>2 DEF Start, Loaded, Down
    <2>3. CASE c # Refused
      <3>1. /\ pc' = [pc EXCEPT ![p] = "opening"]
            /\ launch' = [launch EXCEPT ![p] = l] /\ conf' = [conf EXCEPT ![p] = c]
        BY <1>2, <2>1, <2>3 DEF Start, Goes
      <3> QED
        BY <2>1, <2>3, <3>1 DEF Loaded, Down, Shape
    <2> QED
      BY <2>2, <2>3
  <1>3. ASSUME NEW p \in Processes, StepOf(p), ~ \E l \in Launches : Start(p, l)
        PROVE  Loaded'
    BY <1>3, LaunchKept DEF Loaded
  <1> QED
    BY <1>1, <1>2, <1>3, NextIsStep

\* Load: every process runs with each setting from the source that comes first: a
\* flag, the environment, the file that is named wherever it is named, the default,
\* for any of these, except for the settings of a file named behind another flag.
THEOREM ConfiguredCorrect == Spec => []ConfiguredAsAsked
  <1>1. Init => Loaded
    BY DEF Init, Loaded, Down
  <1>2. StartInv /\ Loaded /\ [Next]_vars => Loaded'
    BY NextKeepsLoaded DEF StartInv
  <1>3. Loaded => ConfiguredAsAsked
    BY LoadIsAsked DEF Loaded, ConfiguredAsAsked
  <1> QED
    BY <1>1, <1>2, <1>3, StartInvInit, NextKeepsStartInv, PTL DEF Spec

-----------------------------------------------------------------------------
(* Bootstrap: what auth.Bootstrap needs and leaves.                         *)
(*                                                                         *)
(* A start that no other start overlaps does not fail, whatever earlier    *)
(* processes have left behind.  Five statements may fail a start.  Two do  *)
(* not, because the lock is held; one does not, because roles are never    *)
(* taken away; and two only where another process has been in between.     *)
(*                                                                         *)
(* While nobody starts with other settings, the demo account holds what    *)
(* the settings of a serving process say: whoever writes its role or the   *)
(* account meanwhile writes the same.                                      *)

\* Two processes are never starting at once, without both knowing of it.
Alone ==
    \A p, q \in Processes :
        p # q /\ pc[p] \in Starting /\ ~company[p] => pc[q] \notin Starting

\* What a process has read is still so: the versions because it holds the lock,
\* the roles and the demo account because nobody else is starting.  The role of
\* the demo account stays for good.
ReadHolds(p) ==
    /\ pc[p] \in {"applying", "recording"} => applied \subseteq seen[p]
    /\ pc[p] = "setting role" /\ ~company[p] => roles[Role(p)] # Wanted(p)
    /\ pc[p] = "moving demo" /\ ~company[p] => demo # DemoRole(conf[p])
    /\ pc[p] = "demo role" => DemoRole(conf[p]) \in DOMAIN roles

LoneInv ==
    /\ DOMAIN exit = Processes /\ DOMAIN company = Processes
    /\ Alone
    /\ \A p \in Processes : ReadHolds(p)
    /\ LoneStartSucceeds

Base == StartInv /\ RolesInv

\* Everything but a start.
GoesOn(p) == StepOf(p) /\ ~ \E l \in Launches : Start(p, l)

-----------------------------------------------------------------------------
(* What a step does to the rest                                            *)

\* The history is only written by a start, and an end is the only
\* way to an exit.
LEMMA HistoryKept ==
    ASSUME Shape, NEW p \in Processes, GoesOn(p)
    PROVE  /\ company' = company /\ rivals' = rivals
           /\ exit' = exit \/ \E how : Ends(p, how)
  <1> USE DEF memoryVars, historyVars, Fails
  <1>1. CASE Proceeds(p)
    <2>1. company' = company /\ rivals' = rivals
      BY <1>1 DEF Proceeds
    <2>2. CASE \/ Open(p) \/ GetLock(p) \/ EnsureTable(p) \/ AppliedVersions(p)
               \/ Statement(p) \/ Record(p) \/ ReleaseLock(p)
      BY <2>1, <2>2 DEF Open, GetLock, EnsureTable, AppliedVersions, Statement, Record,
                        ReleaseLock
    <2>3. CASE \/ RoleByName(p) \/ SetRolePermissions(p) \/ CreateRole(p)
               \/ FindDemoRole(p) \/ UserByUsername(p) \/ SetRole(p) \/ SweepDemo(p)
               \/ CreateUser(p) \/ Listen(p)
      BY <2>1, <2>3 DEF RoleByName, SetRolePermissions, CreateRole, FindDemoRole,
                        UserByUsername, SetRole, SweepDemo, CreateUser, Listen
    <2>4. CASE LockTimesOut(p) \/ Drained(p) \/ DrainTimesOut(p)
      BY <2>1, <2>4, HowItEnds
    <2> QED
      BY <1>1, <2>2, <2>3, <2>4 DEF Proceeds
  <1>2. CASE Stays(p)
    BY <1>2 DEF Stays, Accept, Handled
  <1>3. CASE Signal(p)
    BY <1>3 DEF Signal
  <1>4. CASE Dies(p)
    BY <1>4, HowItEnds DEF Dies
  <1> QED
    BY <1>1, <1>2, <1>3, <1>4 DEF GoesOn, StepOf, Stays

\* A process gets among the starting ones by a start only.
LEMMA OnlyStartStarts ==
    ASSUME Shape, NEW p \in Processes, GoesOn(p), pc'[p] \in Starting
    PROVE  pc[p] \in Starting
  <1> USE DEF Shape, Goes, memoryVars, Starting, Migrating, Bootstrapping
  <1>1. CASE \E how : Ends(p, how)
    BY <1>1 DEF Ends
  <1>2. CASE \/ Open(p) \/ GetLock(p) \/ EnsureTable(p) \/ AppliedVersions(p)
             \/ Statement(p) \/ Record(p) \/ ReleaseLock(p)
    BY <1>2 DEF Open, GetLock, EnsureTable, AppliedVersions, Statement, Record,
                ReleaseLock
  <1>3. CASE \/ RoleByName(p) \/ SetRolePermissions(p) \/ CreateRole(p)
             \/ FindDemoRole(p) \/ UserByUsername(p) \/ SetRole(p) \/ SweepDemo(p)
             \/ CreateUser(p) \/ Listen(p)
    BY <1>3 DEF RoleByName, SetRolePermissions, CreateRole, FindDemoRole,
                UserByUsername, SetRole, SweepDemo, CreateUser, Listen
  <1>4. CASE LockTimesOut(p) \/ Drained(p) \/ DrainTimesOut(p) \/ Dies(p)
    BY <1>1, <1>4, HowItEnds
  <1>5. CASE Stays(p) \/ Signal(p)
    BY <1>5 DEF Stays, Accept, Handled, Signal
  <1> QED
    BY <1>2, <1>3, <1>4, <1>5 DEF GoesOn, StepOf, Proceeds, Stays

\* A process that is not starting writes neither roles nor the demo account.
LEMMA OnlyStartingWrites ==
    ASSUME NEW p \in Processes, StepOf(p), pc[p] \notin Starting
    PROVE  roles' = roles /\ demo' = demo
  <1> USE DEF databaseVars, Starting, Migrating, Bootstrapping, Ends
  <1>1. CASE \E l \in Launches : Start(p, l)
    BY <1>1 DEF Start
  <1>2. CASE LockTimesOut(p) \/ Drained(p) \/ DrainTimesOut(p) \/ Dies(p)
    BY <1>2, HowItEnds
  <1>3. CASE Stays(p) \/ Signal(p)
    BY <1>3 DEF Stays, Accept, Handled, Signal
  <1> QED
    BY <1>1, <1>2, <1>3
       DEF StepOf, Proceeds, Stays, Open, GetLock, EnsureTable, AppliedVersions,
           Statement, Record, ReleaseLock, RoleByName, SetRolePermissions, CreateRole,
           FindDemoRole, UserByUsername, SetRole, SweepDemo, CreateUser, Listen

\* Versions are recorded under the lock.
LEMMA OnlyHolderRecords ==
    ASSUME NEW p \in Processes, StepOf(p), applied' # applied
    PROVE  pc[p] = "recording"
  <1> USE DEF databaseVars, Ends, Fails
  <1>1. CASE \E l \in Launches : Start(p, l)
    BY <1>1 DEF Start
  <1>2. CASE \/ Open(p) \/ GetLock(p) \/ LockTimesOut(p) \/ EnsureTable(p)
             \/ AppliedVersions(p) \/ Statement(p) \/ Record(p) \/ ReleaseLock(p)
    BY <1>2 DEF Open, GetLock, LockTimesOut, EnsureTable, AppliedVersions, Statement,
                Record, ReleaseLock
  <1>3. CASE \/ RoleByName(p) \/ SetRolePermissions(p) \/ CreateRole(p)
             \/ FindDemoRole(p) \/ UserByUsername(p) \/ SetRole(p) \/ SweepDemo(p)
             \/ CreateUser(p)
    BY <1>3 DEF RoleByName, SetRolePermissions, CreateRole, FindDemoRole,
                UserByUsername, SetRole, SweepDemo, CreateUser
  <1>4. CASE \/ Listen(p) \/ Drained(p) \/ DrainTimesOut(p) \/ Stays(p) \/ Signal(p)
             \/ Dies(p)
    BY <1>4 DEF Listen, Drained, DrainTimesOut, Stays, Accept, Handled, Signal, Dies
  <1> QED
    BY <1>1, <1>2, <1>3, <1>4 DEF StepOf, Proceeds, Stays

\* Whoever was starting alongside a start knows of it, and the start of them.
LEMMA StartKeepsAlone ==
    ASSUME Base, LoneInv, NEW p \in Processes, NEW l \in Launches, Start(p, l)
    PROVE  /\ Alone'
           /\ DOMAIN exit' = Processes /\ DOMAIN company' = Processes
           /\ LoneStartSucceeds'
           /\ \A q \in Processes \ {p} : company[q] => company'[q]
           /\ pc'[p] \in {"down", "opening"} /\ UNCHANGED databaseVars
  <1>1. DOMAIN pc = Processes /\ pc[p] = "down"
    BY DEF Base, StartInv, Shape, Start, Down
  <1>2. PICK under : under = {q \in Processes : pc[q] \in Starting}
    OBVIOUS
  <1>3. CASE Load(l) = Refused
    <2>1. UNCHANGED <<pc, company>> /\ exit' = [exit EXCEPT ![p] = "refused"]
          /\ UNCHANGED databaseVars
      BY <1>3 DEF Start
    <2> QED
      BY <1>1, <2>1 DEF LoneInv, Alone, LoneStartSucceeds
  <1>4. CASE Load(l) # Refused
    <2>1. /\ pc' = [pc EXCEPT ![p] = "opening"] /\ exit' = [exit EXCEPT ![p] = ""]
          /\ UNCHANGED databaseVars
          /\ company' = [q \in Processes |-> IF q = p THEN under # {}
                                             ELSE company[q] \/ q \in under]
      BY <1>2, <1>4 DEF Start, Goes
    <2>2. \A q \in Processes \ {p} : company[q] => company'[q]
      BY <2>1
    <2>3. LoneStartSucceeds'
      BY <2>1, <2>2 DEF LoneInv, LoneStartSucceeds
    <2>4. ASSUME NEW q \in Processes, NEW r \in Processes, q # r,
                 pc'[q] \in Starting, ~company'[q]
          PROVE  pc'[r] \notin Starting
      <3>1. CASE q = p
        BY <1>1, <1>2, <2>1, <2>4, <3>1
      <3>2. CASE q # p
        BY <1>1, <1>2, <2>1, <2>4, <3>2
      <3> QED
        BY <3>1, <3>2
    <2> QED
      BY <1>1, <2>1, <2>2, <2>3, <2>4 DEF Alone, LoneInv
  <1> QED
    BY <1>3, <1>4

\* Nothing another process does changes what a lone one has read.
LEMMA OthersKeepRead ==
    ASSUME Base, LoneInv, NEW p \in Processes, NEW q \in Processes, p # q, StepOf(p)
    PROVE  ReadHolds(q)'
  <1>1. Shape /\ OneMigrates /\ RoleState(p) /\ ReadHolds(q)
    BY DEF Base, StartInv, RolesInv, LoneInv
  <1>2. /\ pc'[q] = pc[q] /\ seen'[q] = seen[q] /\ step'[q] = step[q] /\ conf'[q] = conf[q]
    BY <1>1, OthersAreLeftAlone
  <1>3. Role(q)' = Role(q) /\ Wanted(q)' = Wanted(q)
    BY <1>2 DEF Role, Wanted
  <1>4. company[q] => company'[q]
    <2>1. CASE \E l \in Launches : Start(p, l)
      BY <2>1, StartKeepsAlone
    <2>2. CASE GoesOn(p)
      BY <1>1, <2>2, HistoryKept
    <2> QED
      BY <2>1, <2>2 DEF GoesOn
  <1>5. pc[q] \in {"applying", "recording"} => applied' = applied
    BY <1>1, OnlyHolderRecords DEF OneMigrates, Migrating
  <1>6. pc[q] \in {"setting role", "moving demo"} /\ ~company[q] =>
            roles' = roles /\ demo' = demo
    BY OnlyStartingWrites DEF LoneInv, Alone, Starting, Bootstrapping
  <1>7. DOMAIN roles \subseteq DOMAIN roles'
    BY <1>1, StepGrowsRoles DEF RolesGrow
  <1>8. pc'[q] \in {"applying", "recording"} => applied' \subseteq seen'[q]
    BY <1>1, <1>2, <1>5 DEF ReadHolds
  <1>9. pc'[q] = "setting role" /\ ~company'[q] => roles'[Role(q)'] # Wanted(q)'
    BY <1>1, <1>2, <1>3, <1>4, <1>6 DEF ReadHolds
  <1>10. pc'[q] = "moving demo" /\ ~company'[q] => demo' # DemoRole(conf'[q])
    BY <1>1, <1>2, <1>4, <1>6 DEF ReadHolds
  <1>11. pc'[q] = "demo role" => DemoRole(conf'[q]) \in DOMAIN roles'
    BY <1>1, <1>2, <1>7 DEF ReadHolds
  <1> QED
    BY <1>8, <1>9, <1>10, <1>11 DEF ReadHolds

\* A process that is nowhere near a decision has nothing to keep.
LEMMA ElsewhereHolds ==
    ASSUME NEW p, pc'[p] \notin {"applying", "recording", "setting role", "moving demo",
                                 "demo role"}
    PROVE  ReadHolds(p)'
  BY DEF ReadHolds

LEMMA EndsHolds ==
    ASSUME Shape, NEW p \in Processes, NEW how, Ends(p, how) PROVE ReadHolds(p)'
  <1>1. pc'[p] = "down"
    BY DEF Shape, Ends, Goes
  <1> QED
    BY <1>1, ElsewhereHolds

\* Where the demo account may do more than read, its role is the last of four.
LEMMA DemoIsLast ==
    ASSUME NEW c, c.demo_commands # {}
    PROVE  /\ Len(Builtins(c)) = 4
           /\ Builtins(c)[4] = <<"demo", DemoPermissions(c.demo_commands)>>
  <1>1. PICK held : held = DemoPermissions(c.demo_commands)
    OBVIOUS
  <1>2. Builtins(c) = Core \o << <<"demo", held>> >>
    BY <1>1 DEF Builtins, Core
  <1>3. Len(Core) = 3
    BY DEF Core
  <1>4. Len(Builtins(c)) = 4
    BY <1>2, <1>3 DEF Core
  <1>5. Builtins(c)[4] = <<"demo", held>>
    BY <1>2, <1>3 DEF Core
  <1> QED
    BY <1>1, <1>4, <1>5

\* The guests' role is the third of the core.
LEMMA GuestIsThird ==
    ASSUME NEW S, \A n \in 1 .. 3 : Core[n][1] \in S
    PROVE  "guest" \in S
  BY CoreNames

\* After the last role, the one for the demo account is there.
LEMMA DemoRoleIsThere ==
    ASSUME Base, NEW p \in Processes, StepOf(p), NextRole(p), conf'[p] = conf[p],
           step[p] \in 1 .. Len(Builtins(conf[p])),
           Role(p) \in DOMAIN roles', pc'[p] = "demo role"
    PROVE  DemoRole(conf'[p]) \in DOMAIN roles'
  <1>1. RoleState(p)'
    BY StepKeepsRole DEF Base, StartInv, RolesInv
  <1>2. CASE conf[p].demo_commands = {}
    <2>1. \A n \in 1 .. 3 : Has(n)'
      BY <1>1 DEF RoleState, Migrated, Bootstrapping
    <2>2. \A n \in 1 .. 3 : Core[n][1] \in DOMAIN roles'
      BY <2>1 DEF Has
    <2>3. "guest" \in DOMAIN roles'
      BY <2>2, GuestIsThird
    <2> QED
      BY <1>2, <2>3 DEF DemoRole
  <1>3. CASE conf[p].demo_commands # {}
    <2>1. Len(Builtins(conf[p])) = 4 /\ Builtins(conf[p])[4][1] = "demo"
      BY <1>3, DemoIsLast, CoreIsBuiltin
    <2>2. ~(step[p] < 4)
      BY <2>1 DEF NextRole, Goes, Base, StartInv, Shape
    <2>3. PICK k : k = step[p]
      OBVIOUS
    <2>4. k \in 1 .. 4 /\ ~(k < 4)
      BY <2>1, <2>2, <2>3
    <2>5. k = 4
      BY ONLY <2>4
    <2> QED
      BY <1>3, <2>1, <2>3, <2>5 DEF Role, DemoRole
  <1> QED
    BY <1>2, <1>3

\* The next role, or what comes after the last.
LEMMA NextRoleHolds ==
    ASSUME Base, NEW p \in Processes, StepOf(p), NextRole(p), conf'[p] = conf[p],
           step[p] \in 1 .. Len(Builtins(conf[p])), Role(p) \in DOMAIN roles'
    PROVE  ReadHolds(p)'
  <1>1. pc'[p] \in {"role", "demo role", "listening"}
    BY DEF NextRole, Goes, Base, StartInv, Shape
  <1>2. CASE pc'[p] = "demo role"
    BY <1>2, DemoRoleIsThere DEF ReadHolds
  <1> QED
    BY <1>1, <1>2, ElsewhereHolds

\* The steps on the roles.  No role that was there is gone, and one that has to
\* be set is not as it should be.
LEMMA RoleStepsHold ==
    ASSUME Base, LoneInv, NEW p \in Processes, StepOf(p), GoesOn(p),
           RoleByName(p) \/ SetRolePermissions(p) \/ CreateRole(p)
    PROVE  ReadHolds(p)'
  <1>1. /\ Shape /\ RoleState(p)
        /\ step[p] \in 1 .. Len(Builtins(conf[p]))
    BY DEF Base, StartInv, RolesInv, RoleState, RoleByName, SetRolePermissions, CreateRole
  <1>2. CASE RoleByName(p)
    <2>1. roles' = roles /\ conf' = conf /\ company' = company
      BY <1>1, <1>2, HistoryKept DEF RoleByName, databaseVars
    <2>2. CASE Role(p) \notin DOMAIN roles
      <3>1. pc'[p] = "creating role"
        BY <1>1, <1>2, <2>2 DEF RoleByName, Goes, Shape
      <3> QED
        BY <3>1, ElsewhereHolds
    <2>3. CASE Role(p) \in DOMAIN roles /\ roles[Role(p)] = Wanted(p)
      BY <1>1, <1>2, <2>1, <2>3, NextRoleHolds DEF RoleByName, SamePermissions
    <2>4. CASE Role(p) \in DOMAIN roles /\ roles[Role(p)] # Wanted(p)
      <3>1. pc'[p] = "setting role" /\ step' = step
        BY <1>1, <1>2, <2>4 DEF RoleByName, SamePermissions, Goes, Shape
      <3>2. Role(p)' = Role(p) /\ Wanted(p)' = Wanted(p)
        BY <2>1, <3>1 DEF Role, Wanted
      <3>3. roles'[Role(p)'] # Wanted(p)'
        BY <2>1, <2>4, <3>2
      <3> QED
        BY <3>1, <3>3 DEF ReadHolds
    <2> QED
      BY <2>2, <2>3, <2>4
  <1>3. CASE SetRolePermissions(p)
    <2>1. CASE roles[Role(p)] = Wanted(p)
      BY <1>1, <1>3, <2>1, EndsHolds DEF SetRolePermissions, Fails
    <2>2. CASE roles[Role(p)] # Wanted(p)
      <3>1. NextRole(p) /\ conf' = conf /\ DOMAIN roles' = DOMAIN roles
        BY <1>3, <2>2 DEF SetRolePermissions
      <3>2. Role(p) \in DOMAIN roles
        BY <1>1, <1>3 DEF RoleState, SetRolePermissions
      <3> QED
        BY <1>1, <3>1, <3>2, NextRoleHolds
    <2> QED
      BY <2>1, <2>2
  <1>4. CASE CreateRole(p)
    <2>1. NextRole(p) /\ conf' = conf /\ Role(p) \in DOMAIN roles'
      BY <1>4 DEF CreateRole
    <2> QED
      BY <1>1, <2>1, NextRoleHolds
  <1> QED
    BY <1>2, <1>3, <1>4

\* The versions a process has read are those on record while it holds the lock.
LEMMA MigrateHolds ==
    ASSUME Base, LoneInv, NEW p \in Processes, StepOf(p),
           AppliedVersions(p) \/ Statement(p) \/ Record(p)
    PROVE  ReadHolds(p)'
  <1> USE DEF Shape
  <1>1. Shape /\ ReadHolds(p)
    BY DEF Base, StartInv, LoneInv
  <1>2. CASE AppliedVersions(p)
    <2>1. applied' \subseteq seen'[p]
      BY <1>1, <1>2 DEF AppliedVersions, databaseVars
    <2>2. pc'[p] \in {"releasing", "applying"}
      BY <1>1, <1>2 DEF AppliedVersions, Goes, NextFile
    <2> QED
      BY <2>1, <2>2 DEF ReadHolds
  <1>3. CASE Statement(p)
    <2>1. applied' \subseteq seen'[p]
      BY <1>1, <1>3 DEF Statement, Creates, ReadHolds
    <2>2. pc'[p] \in {"recording", "applying"}
      BY <1>1, <1>3 DEF Statement, Creates, Goes
    <2> QED
      BY <2>1, <2>2 DEF ReadHolds
  <1>4. CASE Record(p)
    <2>1. CASE Current(p).version \in applied
      BY <1>1, <1>4, <2>1, EndsHolds DEF Record, Fails
    <2>2. CASE Current(p).version \notin applied
      <3>1. PICK v : v = Current(p).version
        OBVIOUS
      <3>2. applied' = applied \cup {v} /\ seen' = [seen EXCEPT ![p] = @ \cup {v}]
            /\ pc[p] = "recording"
        BY <1>4, <2>2, <3>1 DEF Record
      <3>3. applied' \subseteq seen'[p]
        BY <1>1, <3>2 DEF ReadHolds
      <3>4. pc'[p] \in {"releasing", "applying"}
        BY <1>1, <1>4, <2>2 DEF Record, Goes, NextFile
      <3> QED
        BY <3>3, <3>4 DEF ReadHolds
    <2> QED
      BY <2>1, <2>2
  <1> QED
    BY <1>2, <1>3, <1>4

LEMMA OwnStepHolds ==
    ASSUME Base, LoneInv, NEW p \in Processes, StepOf(p) PROVE ReadHolds(p)'
  <1>1. Shape /\ ReadHolds(p)
    BY DEF Base, StartInv, LoneInv
  <1> USE DEF Shape, Goes
  <1>2. CASE \E l \in Launches : Start(p, l)
    BY <1>2, StartKeepsAlone, ElsewhereHolds
  <1>3. CASE GoesOn(p) /\ \E how : Ends(p, how)
    BY <1>1, <1>3, EndsHolds
  <1>4. CASE AppliedVersions(p) \/ Statement(p) \/ Record(p)
    BY <1>4, MigrateHolds
  <1>5. CASE GoesOn(p) /\ (RoleByName(p) \/ SetRolePermissions(p) \/ CreateRole(p))
    BY <1>5, RoleStepsHold
  <1>6. CASE UserByUsername(p)
    <2>1. demo' = demo /\ conf' = conf
      BY <1>6 DEF UserByUsername, databaseVars, memoryVars
    <2>2. pc'[p] \in {"creating demo", "listening"}
          \/ (pc'[p] = "moving demo" /\ demo # DemoRole(conf[p]))
      BY <1>1, <1>6 DEF UserByUsername
    <2> QED
      BY <2>1, <2>2 DEF ReadHolds
  <1>7. CASE \/ Open(p) \/ GetLock(p) \/ EnsureTable(p) \/ ReleaseLock(p)
             \/ FindDemoRole(p) \/ SetRole(p) \/ SweepDemo(p) \/ CreateUser(p)
             \/ Listen(p) \/ Signal(p)
    <2>1. (\E how : Ends(p, how))
          \/ pc'[p] \in {"locking", "ensuring", "reading", "role", "demo account",
                         "sweeping demo", "listening", "serving", "draining"}
      BY <1>1, <1>7 DEF Open, GetLock, EnsureTable, ReleaseLock, FindDemoRole, SetRole,
                        SweepDemo, CreateUser, Listen, Signal, Fails
    <2> QED
      BY <1>1, <2>1, EndsHolds, ElsewhereHolds
  <1>8. CASE GoesOn(p) /\ Stays(p)
    <2>1. UNCHANGED <<applied, roles, demo, pc, seen, step, conf, company>>
      BY <1>1, <1>8 DEF Stays, Accept, Handled, databaseVars, historyVars
    <2>2. Role(p)' = Role(p) /\ Wanted(p)' = Wanted(p)
      BY <2>1 DEF Role, Wanted
    <2> QED
      BY <1>1, <2>1, <2>2 DEF ReadHolds
  <1>9. CASE GoesOn(p) /\ (LockTimesOut(p) \/ Drained(p) \/ DrainTimesOut(p) \/ Dies(p))
    BY <1>3, <1>9, HowItEnds
  <1> QED
    BY <1>2, <1>4, <1>5, <1>6, <1>7, <1>8, <1>9 DEF GoesOn, StepOf, Proceeds, Stays

-----------------------------------------------------------------------------
(* Which starts fail                                                       *)

\* A statement that is to fail a start has met another process: a version is
\* not on record before its holder of the lock records it, and the role of the
\* demo account is there.
LEMMA FailsInCompany ==
    ASSUME Base, LoneInv, NEW p \in Processes, GoesOn(p)
    PROVE  exit'[p] = "failed" => company'[p]
  <1>1. Shape /\ ReadHolds(p) /\ FileState(p) /\ company' = company
    BY HistoryKept DEF Base, StartInv, LoneInv, TablesInv
  <1>2. CASE exit' = exit
    BY <1>1, <1>2 DEF LoneInv, LoneStartSucceeds
  <1>3. CASE Record(p)
    <2>1. Todo(p) # {} /\ Todo(p) \subseteq DOMAIN Migrations /\ pc[p] = "recording"
      BY <1>1, <1>3, CurrentIsFirst DEF Record, FileState
    <2>2. First(Todo(p)) \in Todo(p) /\ Current(p) = Migrations[First(Todo(p))]
      BY <2>1, FirstIsOne, CurrentIsFirst
    <2>3. Current(p).version \notin seen[p]
      BY <2>2 DEF Todo
    <2>4. Current(p).version \notin applied
      BY <1>1, <2>1, <2>3 DEF ReadHolds
    <2> QED
      BY <1>2, <1>3, <2>4 DEF Record
  <1>4. CASE SetRolePermissions(p)
    <2>1. CASE roles[Role(p)] = Wanted(p)
      BY <1>1, <1>4, <2>1 DEF SetRolePermissions, ReadHolds
    <2>2. CASE roles[Role(p)] # Wanted(p)
      BY <1>2, <1>4, <2>2 DEF SetRolePermissions
    <2> QED
      BY <2>1, <2>2
  <1>5. CASE FindDemoRole(p)
    BY <1>1, <1>2, <1>5 DEF FindDemoRole, ReadHolds
  <1>6. CASE SetRole(p)
    BY <1>1, <1>2, <1>6 DEF SetRole, ReadHolds
  <1>7. CASE \/ LockTimesOut(p) \/ Drained(p) \/ DrainTimesOut(p) \/ Dies(p) \/ Listen(p)
    <2>1. exit' = exit \/ \E how \in {"lock", "stopped", "cut off", "killed", "done"} :
                              exit' = [exit EXCEPT ![p] = how]
      BY <1>7 DEF LockTimesOut, Drained, DrainTimesOut, Dies, Listen, Ends
    <2> QED
      BY <1>2, <2>1 DEF LoneInv
  <1>8. CASE Stays(p) \/ Signal(p)
    BY <1>2, <1>8 DEF Stays, Accept, Handled, Signal
  <1>9. CASE \/ Open(p) \/ GetLock(p) \/ EnsureTable(p) \/ AppliedVersions(p)
             \/ Statement(p) \/ ReleaseLock(p) \/ RoleByName(p) \/ CreateRole(p)
             \/ UserByUsername(p) \/ SweepDemo(p) \/ CreateUser(p)
    BY <1>2, <1>9 DEF Open, GetLock, EnsureTable, AppliedVersions, Statement, Creates,
                      ReleaseLock, RoleByName, CreateRole, UserByUsername, SweepDemo,
                      CreateUser
  <1> QED
    BY <1>3, <1>4, <1>5, <1>6, <1>7, <1>8, <1>9 DEF GoesOn, StepOf, Proceeds, Stays

LEMMA GoingOnKeepsAlone ==
    ASSUME Base, LoneInv, NEW p \in Processes, GoesOn(p)
    PROVE  /\ Alone' /\ LoneStartSucceeds'
           /\ DOMAIN exit' = Processes /\ DOMAIN company' = Processes
  <1>1. /\ Shape /\ company' = company
        /\ (exit' = exit \/ \E how : Ends(p, how))
    BY HistoryKept DEF Base, StartInv
  <1>2. DOMAIN exit' = Processes /\ \A q \in Processes \ {p} : exit'[q] = exit[q]
    BY <1>1 DEF Ends, LoneInv
  <1>3. LoneStartSucceeds'
    BY <1>1, <1>2, FailsInCompany DEF LoneInv, LoneStartSucceeds
  <1>4. \A q \in Processes : pc'[q] \in Starting => pc[q] \in Starting
    <2>1. \A q \in Processes \ {p} : pc'[q] = pc[q]
      BY <1>1, OthersAreLeftAlone DEF GoesOn
    <2>2. pc'[p] \in Starting => pc[p] \in Starting
      BY <1>1, OnlyStartStarts
    <2> QED
      BY <2>1, <2>2
  <1> QED
    BY <1>1, <1>2, <1>3, <1>4 DEF Alone, LoneInv

LEMMA LoneInit == Init => LoneInv
  <1> SUFFICES ASSUME Init PROVE LoneInv
    OBVIOUS
  <1>1. \A p \in Processes : pc[p] = "down" /\ exit[p] = ""
    BY DEF Init
  <1>2. DOMAIN exit = Processes /\ DOMAIN company = Processes
    BY DEF Init
  <1>3. "down" \notin Starting
    BY DEF Starting, Migrating, Bootstrapping
  <1> QED
    BY <1>1, <1>2, <1>3 DEF LoneInv, Alone, ReadHolds, LoneStartSucceeds

LEMMA NextKeepsLone == Base /\ LoneInv /\ [Next]_vars => LoneInv'
  <1> SUFFICES ASSUME Base, LoneInv, [Next]_vars PROVE LoneInv'
    OBVIOUS
  <1>1. CASE UNCHANGED vars
    <2>1. UNCHANGED <<applied, roles, demo, pc, seen, step, conf, exit, company>>
      BY <1>1 DEF vars, databaseVars, memoryVars, historyVars
    <2>2. \A p \in Processes : Role(p)' = Role(p) /\ Wanted(p)' = Wanted(p)
      BY <2>1 DEF Role, Wanted
    <2>3. \A p \in Processes : ReadHolds(p)'
      BY <2>1, <2>2 DEF ReadHolds, LoneInv
    <2> QED
      BY <2>1, <2>3 DEF LoneInv, Alone, LoneStartSucceeds
  <1>2. ASSUME NEW p \in Processes, StepOf(p) PROVE LoneInv'
    <2>1. ASSUME NEW q \in Processes PROVE ReadHolds(q)'
      BY <1>2, OwnStepHolds, OthersKeepRead
    <2>2. CASE \E l \in Launches : Start(p, l)
      BY <2>1, <2>2, StartKeepsAlone DEF LoneInv
    <2>3. CASE GoesOn(p)
      BY <2>1, <2>3, GoingOnKeepsAlone DEF LoneInv
    <2> QED
      BY <1>2, <2>2, <2>3 DEF GoesOn
  <1> QED
    BY <1>1, <1>2, NextIsStep

\* bootstrap.go, "It is idempotent, so it can run on every start": a start that
\* no other overlaps does not fail, for any migrations, any number of processes
\* that have died before it, and any settings.
THEOREM LoneStartCorrect == Spec => []LoneStartSucceeds
  <1>1. Init => RolesInv
    BY RolesInit DEF RolesInv
  <1>2. Init => Base /\ LoneInv
    BY <1>1, StartInvInit, LoneInit DEF Base
  <1>3. Base /\ LoneInv /\ [Next]_vars => (Base /\ LoneInv)'
    BY NextKeepsStartInv, NextKeepsRoles, NextKeepsLone DEF Base
  <1>4. LoneInv => LoneStartSucceeds
    BY DEF LoneInv
  <1> QED
    BY <1>2, <1>3, <1>4, PTL DEF Spec

-----------------------------------------------------------------------------
(* The demo account                                                        *)

\* Whoever starts next to a process without rivals has its settings.
Alike ==
    \A p, q \in Processes :
        p # q /\ pc[p] \in Starting \cup {"serving"} /\ ~rivals[p] /\ pc[q] \in Starting
            => OfDemo(conf[q]) = OfDemo(conf[p])

\* The role of a demo account that may command is there and as it should be.
DemoHeld(commands) ==
    "demo" \in DOMAIN roles /\ roles["demo"] = DemoPermissions(commands)

\* The places where the roles are done.
PastRoles == {"demo role", "demo account", "moving demo", "sweeping demo",
              "creating demo", "listening", "serving"}

\* How far a process without rivals has got with the role and the account.
DemoState(p) ==
    ~rivals[p] =>
        /\ pc[p] = "creating role" /\ Role(p) = "demo" /\ "demo" \in DOMAIN roles =>
              DemoHeld(conf[p].demo_commands)
        /\ pc[p] \in PastRoles /\ conf[p].demo_commands # {} =>
              DemoHeld(conf[p].demo_commands)
        /\ pc[p] = "creating demo" => demo \in {"", DemoRole(conf[p])}
        /\ /\ pc[p] \in {"sweeping demo", "listening", "serving"}
           /\ DemoUserOrEmpty(conf[p]) # ""
           => demo = DemoRole(conf[p])

DemoInv ==
    /\ DOMAIN rivals = Processes
    /\ Alike
    /\ \A p \in Processes : DemoState(p)

-----------------------------------------------------------------------------

\* The place in the list says which role it is, and for whom there is a fourth.
LEMMA DemoIsFourth ==
    ASSUME NEW p, step[p] \in 1 .. Len(Builtins(conf[p]))
    PROVE  Role(p) = "demo" <=> step[p] = 4 /\ conf[p].demo_commands # {}
  <1>1. PICK k, len : k = step[p] /\ len = Len(Builtins(conf[p]))
    OBVIOUS
  <1>2. k \in 1 .. len /\ len \in {3, 4}
    BY <1>1, CoreIsBuiltin
  <1>3. k \in 1 .. 3 \/ (k = 4 /\ len = 4)
    BY ONLY <1>2
  <1>4. CASE k \in 1 .. 3
    <2>1. Role(p) = Core[k][1] /\ k # 4
      BY <1>1, <1>4, CoreIsBuiltin DEF Role
    <2>2. Role(p) \in {"admin", "operator", "guest"}
      BY <1>4, <2>1, CoreNames
    <2> QED
      BY <1>1, <2>1, <2>2
  <1>5. CASE k = 4 /\ len = 4
    <2>1. conf[p].demo_commands # {}
      <3>1. SUFFICES ASSUME conf[p].demo_commands = {} PROVE Len(Builtins(conf[p])) = 3
        BY <1>1, <1>5
      <3> QED
        BY <3>1 DEF Builtins
    <2> QED
      BY <1>1, <1>5, <2>1, DemoIsLast DEF Role
  <1> QED
    BY <1>3, <1>4, <1>5

\* What the demo account's role is written with.
LEMMA WritesTheDemo ==
    ASSUME NEW p, step[p] \in 1 .. Len(Builtins(conf[p])), Role(p) = "demo"
    PROVE  /\ conf[p].demo_commands # {}
           /\ Wanted(p) = DemoPermissions(conf[p].demo_commands)
  BY DemoIsFourth, DemoIsLast DEF Wanted

\* A step leaves the role of the demo account as it is, or a process that is
\* starting makes it its own.
LEMMA StepOnDemoRole ==
    ASSUME NEW p \in Processes, RoleState(p), StepOf(p)
    PROVE  \/ /\ "demo" \in DOMAIN roles <=> "demo" \in DOMAIN roles'
              /\ "demo" \in DOMAIN roles => roles'["demo"] = roles["demo"]
           \/ /\ pc[p] \in Starting /\ conf[p].demo_commands # {}
              /\ DemoHeld(conf[p].demo_commands)'
              /\ conf'[p] = conf[p]
  <1>0. pc[p] \in {"setting role", "creating role"} => pc[p] \in Starting
    BY DEF Starting, Bootstrapping
  <1>1. CASE roles' = roles
    BY <1>1
  <1>2. CASE SetRolePermissions(p) /\ roles' # roles
    <2>1. /\ step[p] \in 1 .. Len(Builtins(conf[p])) /\ Role(p) \in DOMAIN roles
          /\ pc[p] = "setting role"
      BY <1>2 DEF SetRolePermissions, RoleState
    <2>2. roles' = [roles EXCEPT ![Role(p)] = Wanted(p)] /\ conf' = conf
      BY <1>2 DEF SetRolePermissions, Fails, Ends
    <2>3. CASE Role(p) = "demo"
      BY <1>0, <2>1, <2>2, <2>3, WritesTheDemo DEF DemoHeld
    <2>4. CASE Role(p) # "demo"
      BY <2>2, <2>4
    <2> QED
      BY <2>3, <2>4
  <1>3. CASE CreateRole(p)
    <2>1. step[p] \in 1 .. Len(Builtins(conf[p])) /\ pc[p] = "creating role"
      BY <1>3 DEF CreateRole, RoleState
    <2>2. /\ roles' = [name \in DOMAIN roles \cup {Role(p)} |->
                        IF name \in DOMAIN roles THEN roles[name] ELSE Wanted(p)]
          /\ conf' = conf
      BY <1>3 DEF CreateRole
    <2>3. CASE "demo" \in DOMAIN roles
      BY <2>2, <2>3
    <2>4. CASE "demo" \notin DOMAIN roles /\ Role(p) = "demo"
      BY <1>0, <2>1, <2>2, <2>4, WritesTheDemo DEF DemoHeld
    <2>5. CASE "demo" \notin DOMAIN roles /\ Role(p) # "demo"
      BY <2>2, <2>5
    <2> QED
      BY <2>3, <2>4, <2>5
  <1>4. SetRolePermissions(p) \/ CreateRole(p) \/ roles' = roles
    <2> USE DEF databaseVars, Ends, Fails
    <2>1. CASE \E l \in Launches : Start(p, l)
      BY <2>1 DEF Start
    <2>2. CASE LockTimesOut(p) \/ Drained(p) \/ DrainTimesOut(p) \/ Dies(p)
      BY <2>2, HowItEnds
    <2>3. CASE Stays(p) \/ Signal(p)
      BY <2>3 DEF Stays, Accept, Handled, Signal
    <2> QED
      BY <2>1, <2>2, <2>3
         DEF StepOf, Proceeds, Stays, Open, GetLock, EnsureTable, AppliedVersions,
             Statement, Record, ReleaseLock, RoleByName, FindDemoRole, UserByUsername,
             SetRole, SweepDemo, CreateUser, Listen
  <1> QED
    BY <1>1, <1>2, <1>3, <1>4

\* The account is moved by a process that is starting, to its own role.
LEMMA StepOnDemo ==
    ASSUME NEW p \in Processes, StepOf(p)
    PROVE  demo' = demo \/ (pc[p] \in Starting /\ demo' = DemoRole(conf[p]))
  <1> USE DEF databaseVars, Ends, Fails, Starting, Bootstrapping
  <1>1. CASE \E l \in Launches : Start(p, l)
    BY <1>1 DEF Start
  <1>2. CASE LockTimesOut(p) \/ Drained(p) \/ DrainTimesOut(p) \/ Dies(p)
    BY <1>2, HowItEnds
  <1>3. CASE Stays(p) \/ Signal(p)
    BY <1>3 DEF Stays, Accept, Handled, Signal
  <1>4. CASE SetRole(p) \/ CreateUser(p)
    BY <1>4 DEF SetRole, CreateUser
  <1> QED
    BY <1>1, <1>2, <1>3, <1>4
       DEF StepOf, Proceeds, Stays, Open, GetLock, EnsureTable, AppliedVersions,
           Statement, Record, ReleaseLock, RoleByName, SetRolePermissions, CreateRole,
           FindDemoRole, UserByUsername, SweepDemo, Listen

-----------------------------------------------------------------------------

\* A start with other settings is known to whoever starts or serves, and those of
\* the processes that are starting are known to it.
LEMMA StartKeepsAlike ==
    ASSUME Base, DemoInv, NEW p \in Processes, NEW l \in Launches, Start(p, l)
    PROVE  /\ Alike' /\ DOMAIN rivals' = Processes
           /\ \A q \in Processes \ {p} : rivals[q] => rivals'[q]
           /\ pc'[p] \in {"down", "opening"}
  <1>1. DOMAIN pc = Processes /\ DOMAIN conf = Processes /\ pc[p] = "down"
        /\ DOMAIN rivals = Processes
    BY DEF Base, StartInv, Shape, Start, Down, DemoInv
  <1>2. PICK under : under = {q \in Processes : pc[q] \in Starting}
    OBVIOUS
  <1>3. PICK c : c = Load(l)
    OBVIOUS
  <1>4. PICK others : others = {q \in under \cup {q \in Processes : pc[q] = "serving"} :
                                    OfDemo(conf[q]) # OfDemo(c)}
    OBVIOUS
  <1>5. CASE c = Refused
    <2>1. UNCHANGED <<pc, conf, rivals>>
      BY <1>3, <1>5 DEF Start
    <2> QED
      BY <1>1, <2>1 DEF DemoInv, Alike, OfDemo
  <1>6. CASE c # Refused
    <2>1. /\ pc' = [pc EXCEPT ![p] = "opening"] /\ conf' = [conf EXCEPT ![p] = c]
          /\ rivals' = [q \in Processes |-> IF q = p THEN others \cap under # {}
                                            ELSE rivals[q] \/ q \in others]
      BY <1>2, <1>3, <1>4, <1>6 DEF Start, Goes
    <2>2. \A q \in Processes \ {p} : rivals[q] => rivals'[q]
      BY <2>1
    <2>3. ASSUME NEW q \in Processes, NEW r \in Processes, q # r,
                 pc'[q] \in Starting \cup {"serving"}, ~rivals'[q], pc'[r] \in Starting
          PROVE  OfDemo(conf'[r]) = OfDemo(conf'[q])
      <3>1. CASE q = p
        <4>1. r \in under /\ r \notin others /\ conf'[r] = conf[r] /\ conf'[q] = c
          BY <1>1, <1>2, <2>1, <2>3, <3>1
        <4> QED
          BY <1>4, <4>1
      <3>2. CASE r = p
        <4>1. /\ pc[q] \in Starting \cup {"serving"} /\ q \notin others
              /\ conf'[q] = conf[q] /\ conf'[r] = c
          BY <1>1, <2>1, <2>3, <3>2
        <4>2. q \in under \cup {o \in Processes : pc[o] = "serving"}
          BY <1>2, <4>1
        <4> QED
          BY <1>4, <4>1, <4>2
      <3>3. CASE q # p /\ r # p
        <4>1. /\ pc[q] \in Starting \cup {"serving"} /\ ~rivals[q] /\ pc[r] \in Starting
              /\ conf'[q] = conf[q] /\ conf'[r] = conf[r]
          BY <1>1, <2>1, <2>3, <3>3
        <4> QED
          BY <2>3, <4>1 DEF DemoInv, Alike
      <3> QED
        BY <3>1, <3>2, <3>3
    <2>4. Alike'
      BY <2>3 DEF Alike, OfDemo
    <2> QED
      BY <1>1, <2>1, <2>2, <2>4
  <1> QED
    BY <1>5, <1>6

\* A configuration is read once, and a process serves once it has started.
LEMMA SettingsStay ==
    ASSUME Shape, NEW p \in Processes, GoesOn(p), pc'[p] # "down"
    PROVE  /\ conf'[p] = conf[p]
           /\ pc'[p] = "serving" => pc[p] \in Starting \cup {"serving"}
  <1> USE DEF Shape, Goes, Fails, memoryVars, Starting, Migrating, Bootstrapping
  <1>1. CASE \E how : Ends(p, how)
    BY <1>1 DEF Ends
  <1>2. CASE \/ Open(p) \/ GetLock(p) \/ EnsureTable(p) \/ AppliedVersions(p)
             \/ Statement(p) \/ Record(p) \/ ReleaseLock(p)
    BY <1>1, <1>2 DEF Open, GetLock, EnsureTable, AppliedVersions, Statement, Record,
                      ReleaseLock, NextFile
  <1>3. CASE \/ RoleByName(p) \/ SetRolePermissions(p) \/ CreateRole(p)
             \/ FindDemoRole(p) \/ UserByUsername(p) \/ SetRole(p) \/ SweepDemo(p)
             \/ CreateUser(p) \/ Listen(p)
    BY <1>1, <1>3 DEF RoleByName, SetRolePermissions, CreateRole, FindDemoRole,
                      UserByUsername, SetRole, SweepDemo, CreateUser, Listen
  <1>4. CASE LockTimesOut(p) \/ Drained(p) \/ DrainTimesOut(p) \/ Dies(p)
    BY <1>1, <1>4, HowItEnds
  <1>5. CASE Stays(p) \/ Signal(p)
    BY <1>5 DEF Stays, Accept, Handled, Signal
  <1> QED
    BY <1>2, <1>3, <1>4, <1>5 DEF GoesOn, StepOf, Proceeds, Stays

LEMMA GoingOnKeepsAlike ==
    ASSUME Base, DemoInv, NEW p \in Processes, GoesOn(p)
    PROVE  Alike' /\ rivals' = rivals
  <1>1. Shape /\ rivals' = rivals
    BY HistoryKept DEF Base, StartInv
  <1>2. \A q \in Processes \ {p} : pc'[q] = pc[q] /\ conf'[q] = conf[q]
    BY <1>1, OthersAreLeftAlone DEF GoesOn
  <1>3. ASSUME NEW q \in Processes
        PROVE  /\ pc'[q] \in Starting => pc[q] \in Starting /\ conf'[q] = conf[q]
               /\ pc'[q] = "serving" => pc[q] \in Starting \cup {"serving"}
                                        /\ conf'[q] = conf[q]
    <2>1. CASE q # p
      BY <1>2, <2>1
    <2>2. CASE q = p
      <3>1. "down" \notin Starting
        BY DEF Starting, Migrating, Bootstrapping
      <3> QED
        BY <1>1, <2>2, <3>1, OnlyStartStarts, SettingsStay
    <2> QED
      BY <2>1, <2>2
  <1>4. ASSUME NEW q \in Processes, NEW r \in Processes, q # r,
               pc'[q] \in Starting \cup {"serving"}, ~rivals'[q], pc'[r] \in Starting
        PROVE  OfDemo(conf'[r]) = OfDemo(conf'[q])
    <2>1. /\ pc[q] \in Starting \cup {"serving"} /\ ~rivals[q] /\ pc[r] \in Starting
          /\ conf'[q] = conf[q] /\ conf'[r] = conf[r]
      BY <1>1, <1>3, <1>4
    <2> QED
      BY <1>4, <2>1 DEF DemoInv, Alike
  <1>5. Alike'
    BY <1>4 DEF Alike, OfDemo
  <1> QED
    BY <1>1, <1>5

\* Others with the same settings write the same.
LEMMA OthersKeepDemo ==
    ASSUME Base, DemoInv, NEW p \in Processes, NEW q \in Processes, p # q, StepOf(p),
           rivals[q] => rivals'[q]
    PROVE  DemoState(q)'
  <1>1. Shape /\ RoleState(p) /\ DemoState(q) /\ Alike
    BY DEF Base, StartInv, RolesInv, DemoInv
  <1>2. /\ pc'[q] = pc[q] /\ step'[q] = step[q] /\ conf'[q] = conf[q]
    BY <1>1, OthersAreLeftAlone
  <1>3. Role(q)' = Role(q)
    BY <1>2 DEF Role
  <1>4. PICK c : c = conf[q]
    OBVIOUS
  <1>5. CASE rivals'[q] \/ pc[q] \notin PastRoles \cup {"creating role"}
    BY <1>2, <1>5 DEF DemoState, PastRoles
  <1>6. CASE ~rivals'[q] /\ pc[q] \in PastRoles \cup {"creating role"}
    <2>1. pc[q] \in Starting \cup {"serving"} /\ ~rivals[q]
      BY <1>6 DEF PastRoles, Starting, Bootstrapping
    <2>2. pc[p] \in Starting => /\ conf[p].demo_commands = c.demo_commands
                                /\ DemoRole(conf[p]) = DemoRole(c)
      BY <1>1, <1>4, <2>1 DEF Alike, OfDemo, DemoRole
    <2>3. \/ /\ "demo" \in DOMAIN roles <=> "demo" \in DOMAIN roles'
             /\ "demo" \in DOMAIN roles => roles'["demo"] = roles["demo"]
          \/ DemoHeld(c.demo_commands)'
      BY <1>1, <2>2, StepOnDemoRole DEF DemoHeld
    <2>4. DemoHeld(c.demo_commands) => DemoHeld(c.demo_commands)'
      BY <2>3 DEF DemoHeld
    <2>5. demo' = demo \/ demo' = DemoRole(c)
      BY <2>2, StepOnDemo
    <2>6. pc'[q] = "creating role" /\ Role(q)' = "demo" /\ "demo" \in DOMAIN roles'
            => DemoHeld(c.demo_commands)'
      BY <1>1, <1>2, <1>3, <1>4, <2>1, <2>3, <2>4 DEF DemoState
    <2>7. pc'[q] \in PastRoles /\ c.demo_commands # {} => DemoHeld(c.demo_commands)'
      BY <1>1, <1>2, <1>4, <2>1, <2>4 DEF DemoState
    <2>8. pc'[q] = "creating demo" => demo' \in {"", DemoRole(c)}
      BY <1>1, <1>2, <1>4, <2>1, <2>5 DEF DemoState
    <2>9. pc'[q] \in {"sweeping demo", "listening", "serving"} /\ DemoUserOrEmpty(c) # ""
            => demo' = DemoRole(c)
      BY <1>1, <1>2, <1>4, <2>1, <2>5 DEF DemoState
    <2>10. conf'[q] = c
      BY <1>2, <1>4
    <2> QED
      BY <2>6, <2>7, <2>8, <2>9, <2>10 DEF DemoState, DemoHeld
  <1> QED
    BY <1>5, <1>6

\* A process that is nowhere near the account has nothing to keep.
LEMMA NoDemoYet ==
    ASSUME NEW p, pc'[p] \notin PastRoles \cup {"creating role"} PROVE DemoState(p)'
  BY DEF DemoState, PastRoles

\* After the last of the roles, the one of the demo account is as it should be.
LEMMA NextRoleKeepsDemo ==
    ASSUME Base, NEW p \in Processes, NextRole(p), conf' = conf,
           step[p] \in 1 .. Len(Builtins(conf[p])),
           Role(p) = "demo" => DemoHeld(conf[p].demo_commands)'
    PROVE  DemoState(p)'
  <1>1. PICK k, len : k = step[p] /\ len = Len(Builtins(conf[p]))
    OBVIOUS
  <1>2. PICK c : c = conf[p]
    OBVIOUS
  <1>3. /\ k < len => pc'[p] = "role"
        /\ ~(k < len) => pc'[p] = IF DemoUserOrEmpty(c) # "" THEN "demo role" ELSE "listening"
    BY <1>1, <1>2 DEF NextRole, Goes, Base, StartInv, Shape
  <1>4. CASE k < len
    BY <1>3, <1>4, NoDemoYet DEF PastRoles
  <1>5. CASE ~(k < len)
    <2>1. c.demo_commands # {} => DemoHeld(c.demo_commands)'
      <3>1. SUFFICES ASSUME c.demo_commands # {} PROVE Role(p) = "demo"
        BY <1>2
      <3>2. len = 4
        BY <1>1, <1>2, <3>1, DemoIsLast
      <3>3. k \in 1 .. 4 /\ ~(k < 4)
        BY <1>1, <1>5, <3>2
      <3>4. k = 4
        BY ONLY <3>3
      <3> QED
        BY <1>1, <1>2, <3>1, <3>4, DemoIsFourth
    <2>2. pc'[p] \in {"demo role", "listening"}
          /\ (pc'[p] = "listening" => DemoUserOrEmpty(c) = "")
      BY <1>3, <1>5
    <2>3. conf'[p] = c
      BY <1>2
    <2> QED
      BY <2>1, <2>2, <2>3 DEF DemoState, DemoHeld
  <1> QED
    BY <1>4, <1>5

LEMMA RoleStepsKeepDemo ==
    ASSUME Base, DemoInv, NEW p \in Processes, GoesOn(p),
           RoleByName(p) \/ SetRolePermissions(p) \/ CreateRole(p)
    PROVE  DemoState(p)'
  <1>1. /\ Shape /\ RoleState(p) /\ DemoState(p) /\ rivals' = rivals
        /\ step[p] \in 1 .. Len(Builtins(conf[p]))
    BY HistoryKept DEF Base, StartInv, RolesInv, DemoInv, RoleState, RoleByName,
                       SetRolePermissions, CreateRole
  <1>2. CASE RoleByName(p)
    <2>1. roles' = roles /\ conf' = conf
      BY <1>2 DEF RoleByName, databaseVars
    <2>2. CASE Role(p) \notin DOMAIN roles
      <3>1. pc'[p] = "creating role" /\ step' = step
        BY <1>1, <1>2, <2>2 DEF RoleByName, Goes, Shape
      <3>2. Role(p)' = Role(p)
        BY <2>1, <3>1 DEF Role
      <3> QED
        BY <2>1, <2>2, <3>1, <3>2 DEF DemoState, PastRoles
    <2>3. CASE Role(p) \in DOMAIN roles /\ roles[Role(p)] = Wanted(p)
      <3>1. NextRole(p)
        BY <1>2, <2>3 DEF RoleByName, SamePermissions
      <3>2. Role(p) = "demo" => DemoHeld(conf[p].demo_commands)'
        BY <1>1, <2>1, <2>3, WritesTheDemo DEF DemoHeld
      <3> QED
        BY <1>1, <2>1, <3>1, <3>2, NextRoleKeepsDemo
    <2>4. CASE Role(p) \in DOMAIN roles /\ roles[Role(p)] # Wanted(p)
      <3>1. pc'[p] = "setting role"
        BY <1>1, <1>2, <2>4 DEF RoleByName, SamePermissions, Goes, Shape
      <3> QED
        BY <3>1, NoDemoYet DEF PastRoles
    <2> QED
      BY <2>2, <2>3, <2>4
  <1>3. CASE SetRolePermissions(p)
    <2>1. CASE roles[Role(p)] = Wanted(p)
      <3>1. pc'[p] = "down"
        BY <1>1, <1>3, <2>1 DEF SetRolePermissions, Fails, Ends, Goes, Shape
      <3> QED
        BY <3>1, NoDemoYet DEF PastRoles
    <2>2. CASE roles[Role(p)] # Wanted(p)
      <3>1. /\ NextRole(p) /\ conf' = conf /\ Role(p) \in DOMAIN roles
            /\ roles' = [roles EXCEPT ![Role(p)] = Wanted(p)]
        BY <1>1, <1>3, <2>2 DEF SetRolePermissions, RoleState
      <3>2. Role(p) = "demo" => DemoHeld(conf[p].demo_commands)'
        BY <1>1, <3>1, WritesTheDemo DEF DemoHeld
      <3> QED
        BY <1>1, <3>1, <3>2, NextRoleKeepsDemo
    <2> QED
      BY <2>1, <2>2
  <1>4. CASE CreateRole(p)
    <2>1. /\ NextRole(p) /\ conf' = conf /\ pc[p] = "creating role"
          /\ roles' = [name \in DOMAIN roles \cup {Role(p)} |->
                        IF name \in DOMAIN roles THEN roles[name] ELSE Wanted(p)]
      BY <1>4 DEF CreateRole
    <2>2. CASE rivals[p]
      BY <1>1, <2>2 DEF DemoState
    <2>3. CASE ~rivals[p] /\ Role(p) = "demo" /\ "demo" \in DOMAIN roles
      <3>1. DemoHeld(conf[p].demo_commands)
        BY <1>1, <2>1, <2>3 DEF DemoState
      <3>2. DemoHeld(conf[p].demo_commands)'
        BY <2>1, <2>3, <3>1 DEF DemoHeld
      <3> QED
        BY <1>1, <2>1, <3>2, NextRoleKeepsDemo
    <2>4. CASE Role(p) = "demo" /\ "demo" \notin DOMAIN roles
      <3>1. DemoHeld(conf[p].demo_commands)'
        BY <1>1, <2>1, <2>4, WritesTheDemo DEF DemoHeld
      <3> QED
        BY <1>1, <2>1, <3>1, NextRoleKeepsDemo
    <2>5. CASE Role(p) # "demo"
      BY <1>1, <2>1, <2>5, NextRoleKeepsDemo
    <2> QED
      BY <2>2, <2>3, <2>4, <2>5
  <1> QED
    BY <1>2, <1>3, <1>4

\* ensureDemoUser and what comes after: the roles are done.
LEMMA DemoStepsKeepDemo ==
    ASSUME Base, DemoInv, NEW p \in Processes, GoesOn(p),
           \/ FindDemoRole(p) \/ UserByUsername(p) \/ SetRole(p) \/ SweepDemo(p)
           \/ CreateUser(p) \/ Listen(p),
           pc'[p] # "down"
    PROVE  DemoState(p)'
  <1>1. Shape /\ DemoState(p) /\ rivals' = rivals
    BY HistoryKept DEF Base, StartInv, DemoInv
  <1>2. PICK c : c = conf[p]
    OBVIOUS
  <1>3. /\ conf' = conf /\ roles' = roles /\ pc[p] \in PastRoles
        /\ pc'[p] # "creating role"
    BY <1>1 DEF Shape, FindDemoRole, UserByUsername, SetRole, SweepDemo, CreateUser,
                Listen, Fails, Ends, Goes, databaseVars, memoryVars, PastRoles
  <1>4. CASE rivals[p]
    BY <1>1, <1>4 DEF DemoState
  <1>5. CASE ~rivals[p]
    <2>1. c.demo_commands # {} => DemoHeld(c.demo_commands)'
      BY <1>1, <1>2, <1>3, <1>5 DEF DemoState, DemoHeld
    <2>2. pc'[p] = "creating demo" => demo' \in {"", DemoRole(c)}
      BY <1>1 DEF Shape, FindDemoRole, UserByUsername, SetRole, SweepDemo, CreateUser,
                  Listen, Fails, Ends, Goes, databaseVars, memoryVars
    <2>3. pc'[p] \in {"sweeping demo", "listening", "serving"} /\ DemoUserOrEmpty(c) # ""
            => demo' = DemoRole(c)
      <3>1. CASE FindDemoRole(p)
        BY <1>1, <3>1 DEF Shape, FindDemoRole, Fails, Ends, Goes
      <3>2. CASE UserByUsername(p)
        BY <1>1, <1>2, <3>2 DEF Shape, UserByUsername, Goes, databaseVars
      <3>3. CASE SetRole(p)
        BY <1>1, <1>2, <3>3 DEF Shape, SetRole, Fails, Ends, Goes
      <3>4. CASE SweepDemo(p)
        BY <1>1, <1>2, <1>5, <3>4 DEF DemoState, SweepDemo, databaseVars
      <3>5. CASE CreateUser(p)
        BY <1>1, <1>2, <1>5, <3>5 DEF DemoState, CreateUser
      <3>6. CASE Listen(p)
        <4>1. demo' = demo /\ pc[p] = "listening"
          BY <1>1, <3>6 DEF Shape, Listen, Ends, Goes, databaseVars
        <4> QED
          BY <1>1, <1>2, <1>5, <4>1 DEF DemoState
      <3> QED
        BY <3>1, <3>2, <3>3, <3>4, <3>5, <3>6
    <2>4. conf'[p] = c
      BY <1>2, <1>3
    <2> QED
      BY <1>3, <2>1, <2>2, <2>3, <2>4 DEF DemoState, DemoHeld
  <1> QED
    BY <1>4, <1>5

LEMMA OwnStepKeepsDemo ==
    ASSUME Base, DemoInv, NEW p \in Processes, StepOf(p) PROVE DemoState(p)'
  <1>1. Shape /\ DemoState(p)
    BY DEF Base, StartInv, DemoInv
  <1> USE DEF PastRoles
  <1>2. CASE \E l \in Launches : Start(p, l)
    BY <1>2, StartKeepsAlike, NoDemoYet
  <1>3. CASE \E how : Ends(p, how)
    <2>1. pc'[p] = "down"
      BY <1>1, <1>3 DEF Shape, Ends, Goes
    <2> QED
      BY <2>1, NoDemoYet
  <1>4. CASE \/ Open(p) \/ GetLock(p) \/ EnsureTable(p) \/ AppliedVersions(p)
             \/ Statement(p) \/ Record(p) \/ ReleaseLock(p)
    <2>1. (\E how : Ends(p, how))
          \/ pc'[p] \in {"locking", "ensuring", "reading", "releasing", "applying",
                         "recording", "role"}
      BY <1>1, <1>4 DEF Shape, Goes, Fails, Open, GetLock, EnsureTable, AppliedVersions,
                        Statement, Creates, Record, ReleaseLock, NextFile
    <2> QED
      BY <1>3, <2>1, NoDemoYet
  <1>5. CASE GoesOn(p) /\ (RoleByName(p) \/ SetRolePermissions(p) \/ CreateRole(p))
    BY <1>5, RoleStepsKeepDemo
  <1>6. CASE GoesOn(p) /\ \/ FindDemoRole(p) \/ UserByUsername(p) \/ SetRole(p)
                          \/ SweepDemo(p) \/ CreateUser(p) \/ Listen(p)
    <2>1. CASE pc'[p] = "down"
      BY <2>1, NoDemoYet
    <2>2. CASE pc'[p] # "down"
      BY <1>6, <2>2, DemoStepsKeepDemo
    <2> QED
      BY <2>1, <2>2
  <1>7. CASE GoesOn(p) /\ Stays(p)
    <2>1. UNCHANGED <<roles, demo, pc, step, conf, rivals>>
      BY <1>1, <1>7 DEF Stays, Accept, Handled, databaseVars, historyVars
    <2>2. Role(p)' = Role(p)
      BY <2>1 DEF Role
    <2> QED
      BY <1>1, <2>1, <2>2 DEF DemoState, DemoHeld
  <1>8. CASE Signal(p)
    BY <1>1, <1>8, NoDemoYet DEF Signal, Goes, Shape
  <1>9. CASE LockTimesOut(p) \/ Drained(p) \/ DrainTimesOut(p) \/ Dies(p)
    BY <1>3, <1>9, HowItEnds
  <1> QED
    BY <1>2, <1>4, <1>5, <1>6, <1>7, <1>8, <1>9 DEF GoesOn, StepOf, Proceeds, Stays

LEMMA DemoInit == Init => DemoInv
  <1> SUFFICES ASSUME Init PROVE DemoInv
    OBVIOUS
  <1>1. (\A p \in Processes : pc[p] = "down") /\ DOMAIN rivals = Processes
    BY DEF Init
  <1>2. "down" \notin Starting
    BY DEF Starting, Migrating, Bootstrapping
  <1> QED
    BY <1>1, <1>2 DEF DemoInv, Alike, DemoState, PastRoles

LEMMA NextKeepsDemo == Base /\ DemoInv /\ [Next]_vars => DemoInv'
  <1> SUFFICES ASSUME Base, DemoInv, [Next]_vars PROVE DemoInv'
    OBVIOUS
  <1>1. CASE UNCHANGED vars
    <2>1. UNCHANGED <<roles, demo, pc, step, conf, rivals>>
      BY <1>1 DEF vars, databaseVars, memoryVars, historyVars
    <2>2. \A p \in Processes : Role(p)' = Role(p)
      BY <2>1 DEF Role
    <2>3. \A p \in Processes : DemoState(p)'
      BY <2>1, <2>2 DEF DemoState, DemoHeld, DemoInv
    <2> QED
      BY <2>1, <2>3 DEF DemoInv, Alike, OfDemo
  <1>2. ASSUME NEW p \in Processes, StepOf(p) PROVE DemoInv'
    <2>1. CASE \E l \in Launches : Start(p, l)
      <3>1. /\ Alike' /\ DOMAIN rivals' = Processes
            /\ \A q \in Processes \ {p} : rivals[q] => rivals'[q]
        BY <2>1, StartKeepsAlike
      <3>2. \A q \in Processes : DemoState(q)'
        BY <1>2, <3>1, OwnStepKeepsDemo, OthersKeepDemo
      <3> QED
        BY <3>1, <3>2 DEF DemoInv
    <2>2. CASE GoesOn(p)
      <3>1. Alike' /\ rivals' = rivals
        BY <2>2, GoingOnKeepsAlike
      <3>2. \A q \in Processes : DemoState(q)'
        BY <1>2, <3>1, OwnStepKeepsDemo, OthersKeepDemo
      <3> QED
        BY <3>1, <3>2 DEF DemoInv
    <2> QED
      BY <1>2, <2>1, <2>2 DEF GoesOn
  <1> QED
    BY <1>1, <1>2, NextIsStep

LEMMA GuestHolds ==
    ASSUME NEW f, \A n \in 1 .. 3 : Core[n][1] \in DOMAIN f /\ f[Core[n][1]] = Core[n][2]
    PROVE  "guest" \in DOMAIN f /\ f["guest"] = ReadPermissions
  BY DEF Core

\* The account of a serving process holds the role of its settings, and the role
\* the rights of its settings: those of the guests, which every build writes, or
\* those of the commands it allows.
LEMMA DemoHolds == Base /\ DemoInv => DemoMatches
  <1> SUFFICES ASSUME Base, DemoInv, NEW p \in Processes,
                      pc[p] = "serving", ~rivals[p], DemoUserOrEmpty(conf[p]) # ""
               PROVE  /\ demo \in DOMAIN roles
                      /\ LoginDemoAllows(conf[p], demo, roles[demo])
                      /\ roles[demo] = DemoPermissions(conf[p].demo_commands)
    BY DEF DemoMatches
  <1>1. DemoState(p) /\ RoleState(p)
    BY DEF Base, RolesInv, DemoInv
  <1>2. demo = DemoRole(conf[p])
    BY <1>1 DEF DemoState
  <1>3. CASE conf[p].demo_commands = {}
    <2>1. \A n \in 1 .. 3 : Has(n)
      BY <1>1 DEF RoleState, Migrated, Bootstrapping
    <2>2. \A n \in 1 .. 3 : Core[n][1] \in DOMAIN roles
                            /\ roles[Core[n][1]] = Core[n][2]
      BY <2>1 DEF Has
    <2>3. "guest" \in DOMAIN roles /\ roles["guest"] = ReadPermissions
      BY <2>2, GuestHolds
    <2>4. DemoPermissions(conf[p].demo_commands) = ReadPermissions
      BY <1>3 DEF DemoPermissions
    <2>5. demo = "guest"
      BY <1>2, <1>3 DEF DemoRole
    <2> QED
      BY <2>3, <2>4, <2>5 DEF LoginDemoAllows
  <1>4. CASE conf[p].demo_commands # {}
    <2>1. DemoHeld(conf[p].demo_commands)
      BY <1>1, <1>4 DEF DemoState, PastRoles
    <2>2. demo = "demo"
      BY <1>2, <1>4 DEF DemoRole
    <2> QED
      BY <2>1, <2>2 DEF DemoHeld, LoginDemoAllows
  <1> QED
    BY <1>3, <1>4

\* LoginDemo, "The role is rebuilt from that configuration on every start": while
\* nobody starts with other settings, the demo account is there and holds exactly
\* what a serving process allows, for any processes, settings and older builds.
THEOREM DemoCorrect == Spec => []DemoMatches
  <1>1. Init => RolesInv
    BY RolesInit DEF RolesInv
  <1>2. Init => Base /\ DemoInv
    BY <1>1, StartInvInit, DemoInit DEF Base
  <1>3. Base /\ DemoInv /\ [Next]_vars => (Base /\ DemoInv)'
    BY NextKeepsStartInv, NextKeepsRoles, NextKeepsDemo DEF Base
  <1> QED
    BY <1>2, <1>3, DemoHolds, PTL DEF Spec
=============================================================================
