-------------------------- MODULE RateLimit_proofs --------------------------
(***************************************************************************)
(* What the windows let through, for any limits, callers and threshold.    *)
(*                                                                         *)
(* The maps do not grow with the keys that ever showed up: a map is swept  *)
(* when a counter starts, so what has rolled over by the start of one was  *)
(* gone then, or the map was small.                                        *)
(*                                                                         *)
(* No stretch of time as long as the window lets through more than two     *)
(* limits and one for each reset in it, and nobody is refused who has not  *)
(* had one: a counter accounts for what was let through since it started,  *)
(* and what was before it leaves the stretch with it or was forgiven.      *)
(***************************************************************************)
EXTENDS RateLimit, FiniteSetTheorems, TLAPS

\* A window's map: finitely many keys, each counting since some time so far.
IsMap(map, time) ==
    /\ IsFiniteSet(DOMAIN map)
    /\ \A k \in DOMAIN map : map[k].start \in 0 .. time

\* The keys that had rolled over when k's counter started.
Stale(map, k) == {o \in DOMAIN map : map[k].start - map[o].start > Span}

\* Fewer than the threshold, whichever counter one looks from.
Swept(map) == \A k \in DOMAIN map : Cardinality(Stale(map, k)) < SweepAt

\* The invariant: every map is in order, and whoever waits for the crowd's
\* budget waits for a window that there is.
RateInv ==
    /\ now \in Nat
    /\ DOMAIN entries = Windows
    /\ halfway # {} => "demoTotal" \in Windows
    /\ \A w \in Windows : IsMap(entries[w], now) /\ Swept(entries[w])

-----------------------------------------------------------------------------

\* With fewer keys there are fewer stale ones: Reset keeps a map swept.
LEMMA RestrictSwept ==
    ASSUME RateAssumption, NEW map, NEW time \in Nat, NEW S \in SUBSET DOMAIN map,
           IsMap(map, time), Swept(map)
    PROVE  IsMap(Restrict(map, S), time) /\ Swept(Restrict(map, S))
<1> DEFINE less == Restrict(map, S)
<1>1. DOMAIN less = S /\ \A k \in S : less[k] = map[k]
  BY DEF Restrict
<1>2. IsMap(less, time)
  BY <1>1, FS_Subset DEF IsMap
<1>3. ASSUME NEW k \in S
      PROVE  Cardinality(Stale(less, k)) < SweepAt
  <2>1. Stale(map, k) \in SUBSET DOMAIN map
    BY DEF Stale
  <2>2. IsFiniteSet(Stale(map, k))
    BY <2>1, FS_Subset DEF IsMap
  <2>3. Stale(less, k) \in SUBSET Stale(map, k)
    BY <1>1 DEF Stale
  <2>4. IsFiniteSet(Stale(less, k)) /\ Cardinality(Stale(less, k)) <= Cardinality(Stale(map, k))
    BY <2>2, <2>3, FS_Subset
  <2>5. Cardinality(Stale(less, k)) \in Nat /\ Cardinality(Stale(map, k)) \in Nat
    BY <2>2, <2>4, FS_CardinalityType
  <2>6. Cardinality(Stale(map, k)) < SweepAt
    BY DEF Swept
  <2> QED
    BY <2>4, <2>5, <2>6 DEF RateAssumption
<1> QED
  BY <1>1, <1>2, <1>3 DEF Swept

\* A map below the threshold is swept whatever is in it.
LEMMA SmallSwept ==
    ASSUME RateAssumption, NEW map, NEW time \in Nat,
           IsMap(map, time), Cardinality(DOMAIN map) < SweepAt
    PROVE  Swept(map)
<1> SUFFICES ASSUME NEW k \in DOMAIN map
             PROVE  Cardinality(Stale(map, k)) < SweepAt
  BY DEF Swept
<1>1. Stale(map, k) \in SUBSET DOMAIN map /\ IsFiniteSet(DOMAIN map)
  BY DEF Stale, IsMap
<1>2. IsFiniteSet(Stale(map, k)) /\ Cardinality(Stale(map, k)) <= Cardinality(DOMAIN map)
  BY <1>1, FS_Subset
<1>3. Cardinality(Stale(map, k)) \in Nat /\ Cardinality(DOMAIN map) \in Nat
  BY <1>1, <1>2, FS_CardinalityType
<1> QED
  BY <1>2, <1>3 DEF RateAssumption

\* sweep leaves a map swept: what it keeps is no older than a window, and
\* nothing in it started later than now.
LEMMA SweepSweeps ==
    ASSUME RateAssumption, now \in Nat, NEW map, IsMap(map, now)
    PROVE  IsMap(Sweep(map), now) /\ Swept(Sweep(map))
<1>1. CASE Cardinality(DOMAIN map) < SweepAt
  BY <1>1, SmallSwept DEF Sweep
<1>2. CASE ~ (Cardinality(DOMAIN map) < SweepAt)
  <2> DEFINE S == {k \in DOMAIN map : ~RolledOver(map[k])}
             kept == Restrict(map, S)
  <2>1. Sweep(map) = kept
    BY <1>2 DEF Sweep
  <2>2. DOMAIN kept = S /\ \A k \in S : kept[k] = map[k]
    BY DEF Restrict
  <2>3. IsMap(kept, now)
    BY <2>2, FS_Subset DEF IsMap
  <2>4. ASSUME NEW k \in S
        PROVE  Stale(kept, k) = {}
    <3> SUFFICES ASSUME NEW o \in S, kept[k].start - kept[o].start > Span
                 PROVE  FALSE
      BY <2>2 DEF Stale
    <3>1. kept[k].start \in 0 .. now /\ kept[o].start \in 0 .. now
      BY <2>2, <2>3 DEF IsMap
    <3>2. ~ (now - kept[o].start > Span)
      BY <2>2 DEF RolledOver
    <3> QED
      BY <3>1, <3>2 DEF RateAssumption
  <2>5. Swept(kept)
    BY <2>2, <2>4, FS_EmptySet DEF Swept, RateAssumption
  <2> QED
    BY <2>1, <2>3, <2>5
<1> QED
  BY <1>1, <1>2

\* Allow, whether the event starts a counter or is counted on one.
LEMMA CountedSwept ==
    ASSUME RateAssumption, RateInv, NEW w \in Windows, NEW k
    PROVE  IsMap(Counted(w, k), now) /\ Swept(Counted(w, k))
<1> DEFINE map == entries[w]
<1>0. IsMap(map, now) /\ Swept(map) /\ now \in Nat
  BY DEF RateInv
<1>1. CASE Fresh(w, k)
  <2> DEFINE more == [j \in DOMAIN map \cup {k} |->
                        IF j = k THEN [count |-> 1, start |-> now] ELSE map[j]]
  <2>1. Counted(w, k) = Sweep(more)
    BY <1>1 DEF Counted
  <2>2. IsMap(more, now)
    BY <1>0, FS_AddElement DEF IsMap
  <2> QED
    BY <1>0, <2>1, <2>2, SweepSweeps
<1>2. CASE ~Fresh(w, k)
  <2> DEFINE same == [map EXCEPT ![k].count = @ + 1]
  <2>1. Counted(w, k) = same /\ k \in DOMAIN map
    BY <1>2 DEF Counted, Fresh
  <2>2. DOMAIN same = DOMAIN map /\ \A j \in DOMAIN map : same[j].start = map[j].start
    OBVIOUS
  <2>3. IsMap(same, now)
    BY <1>0, <2>2 DEF IsMap
  <2>4. \A j \in DOMAIN map : Stale(same, j) = Stale(map, j)
    BY <2>2 DEF Stale
  <2>5. Swept(same)
    BY <1>0, <2>2, <2>4 DEF Swept
  <2> QED
    BY <2>1, <2>3, <2>5
<1> QED
  BY <1>1, <1>2

-----------------------------------------------------------------------------

\* One window's map is replaced by one as good.
LEMMA OneWindow ==
    ASSUME RateInv, NEW w \in Windows, NEW map, IsMap(map, now), Swept(map),
           now' = now, halfway' # {} => "demoTotal" \in Windows,
           entries' = [entries EXCEPT ![w] = map]
    PROVE  RateInv'
<1>1. DOMAIN entries' = Windows /\ entries'[w] = map
      /\ \A v \in Windows \ {w} : entries'[v] = entries[v]
  BY DEF RateInv
<1>2. Windows' = Windows
  BY DEF Windows
<1>3. ASSUME NEW v \in Windows
      PROVE  IsMap(entries'[v], now) /\ Swept(entries'[v])
  BY <1>1 DEF RateInv
<1> QED
  BY <1>1, <1>2, <1>3 DEF RateInv, IsMap, Swept, Stale

\* Allow in whatever window, for whatever key.
LEMMA AllowInv ==
    ASSUME RateAssumption, RateInv, NEW w \in Windows, NEW k, NEW caller,
           Allow(w, k, caller), now' = now,
           halfway' # {} => "demoTotal" \in Windows
    PROVE  RateInv'
<1>1. PICK map : map = Counted(w, k)
  OBVIOUS
<1>2. IsMap(map, now) /\ Swept(map)
  BY <1>1, CountedSwept
<1>3. entries' = [entries EXCEPT ![w] = map]
  BY <1>1 DEF Allow
<1> QED
  BY <1>2, <1>3, OneWindow

LEMMA InitInv == ASSUME RateAssumption, Init PROVE RateInv
<1>1. DOMAIN entries = Windows /\ \A w \in Windows : DOMAIN entries[w] = {}
  BY DEF Init
<1>2. now \in Nat /\ halfway = {}
  BY DEF Init
<1> QED
  BY <1>1, <1>2, FS_EmptySet DEF RateInv, IsMap, Swept

LEMMA NextInv == ASSUME RateAssumption, RateInv, [Next]_vars PROVE RateInv'
<1>1. ASSUME NEW ip \in LoginFrom, LoginAllow(ip) PROVE RateInv'
  <2>1. "login" \in Windows
    BY DEF Windows
  <2>2. now' = now /\ halfway' = halfway /\ Allow("login", <<ip>>, <<ip>>)
    BY <1>1 DEF LoginAllow
  <2> QED
    BY <2>1, <2>2, AllowInv DEF RateInv
<1>2. ASSUME NEW ip \in LoginFrom, LoginReset(ip) PROVE RateInv'
  <2>1. "login" \in Windows /\ now \in Nat
    BY DEF Windows, RateInv
  <2>2. IsMap(entries["login"], now) /\ Swept(entries["login"])
    BY <2>1 DEF RateInv
  <2>3. PICK map : map = Restrict(entries["login"],
                                  DOMAIN entries["login"] \ {<<ip>>})
    OBVIOUS
  <2>4. IsMap(map, now) /\ Swept(map)
    BY <2>1, <2>2, <2>3, RestrictSwept
  <2>5. entries' = [entries EXCEPT !["login"] = map] /\ now' = now
        /\ halfway' = halfway
    BY <1>2, <2>3 DEF LoginReset
  <2> QED
    BY <2>1, <2>4, <2>5, OneWindow DEF RateInv
<1>3. ASSUME NEW a \in Accounts, NEW ip \in CommandFrom, Command(a, ip) PROVE RateInv'
  <2>0. now' = now /\ (halfway' # {} => "demoTotal" \in Windows)
    BY <1>3 DEF Command, RateInv
  <2>1. CASE Budget(a) \in Windows
    BY <1>3, <2>0, <2>1, AllowInv DEF Command
  <2>2. CASE Budget(a) \notin Windows
    BY <1>3, <2>0, <2>2 DEF Command, RateInv, IsMap, Swept, Stale, Windows
  <2> QED
    BY <2>1, <2>2
<1>4. CASE CrowdCommand
  <2>1. halfway # {} /\ halfway' \subseteq halfway /\ now' = now
        /\ Allow("demoTotal", Crowd, Crowd)
    BY <1>4 DEF CrowdCommand
  <2>2. "demoTotal" \in Windows
    BY <2>1 DEF RateInv
  <2> QED
    BY <2>1, <2>2, AllowInv
<1>5. CASE Pass
  <2>1. now \in Nat /\ now' = now + 1 /\ entries' = entries
        /\ halfway' = halfway
    BY <1>5 DEF Pass, RateInv
  <2>2. \A w \in Windows : IsMap(entries[w], now + 1)
    BY <2>1 DEF RateInv, IsMap
  <2> QED
    BY <2>1, <2>2 DEF RateInv, IsMap, Swept, Stale, Windows
<1>6. CASE UNCHANGED vars
  BY <1>6 DEF vars, RateInv, IsMap, Swept, Stale, Windows
<1>7. ASSUME NEW ip \in LoginFrom, LoginEnds(ip) PROVE RateInv'
  BY <1>7 DEF LoginEnds, RateInv, IsMap, Swept, Stale, Windows
<1> QED
  BY <1>1, <1>2, <1>3, <1>4, <1>5, <1>6, <1>7 DEF Next

\* sweep, "so the map does not grow with every address that ever showed up":
\* whatever the limits and whoever calls, of the entries a new one finds
\* rolled over, fewer than SweepAt stay.
THEOREM SweptCorrect == Spec => []MapIsSwept
<1>1. Init => RateInv
  BY InitInv, RateAssumption
<1>2. RateInv /\ [Next]_vars => RateInv'
  BY NextInv, RateAssumption
<1>3. RateInv => MapIsSwept
  BY DEF RateInv, Swept, Stale, MapIsSwept
<1> QED
  BY <1>1, <1>2, <1>3, PTL DEF Spec

-----------------------------------------------------------------------------
(* What was let through                                                    *)

\* What happened to a caller so far, told apart by its numbers.
History(S, time) ==
    /\ IsFiniteSet(S)
    /\ \A e \in S : e.at \in 0 .. time /\ e.nr \in Nat /\ e.nr < Cardinality(S)

\* The part of it in a stretch as long as the window that ends at t.
Stretch(S, t) == {e \in S : e.at <= t /\ t - e.at <= Span}

\* So many limits, and one for every reset in the stretch.
Allowance(R, limit, n, t) == limit * (n + Within(R, t))

\* No stretch so far lets through more than two, and one for every reset.
Past(S, R, limit, time) ==
    \A t \in 0 .. time : Within(S, t) <= Allowance(R, limit, 2, t)

\* A caller without a counter: one limit at most is spent, now and later.
Settled(S, R, limit, time) ==
    \A t \in Nat : t >= time => Within(S, t) <= Allowance(R, limit, 1, t)

\* What a counter has let through, and what there is since it started.
Had(counter, limit) == IF counter.count <= limit THEN counter.count ELSE limit
Since(S, start) == {e \in S : e.at >= start}

\* A caller with one: that much is there, and counts on top of what was spent
\* before, until its window is over and it is all there is.
Running(S, R, counter, limit, time) ==
    /\ counter.count \in Nat \ {0}
    /\ Cardinality(Since(S, counter.start)) >= Had(counter, limit)
    /\ \A t \in Nat : t >= time =>
          Within(S, t) <= Had(counter, limit)
                            + IF t - counter.start > Span THEN 0
                              ELSE Allowance(R, limit, 1, t)

\* Of a caller, the history and the window's map agree.
Account(S, R, map, c, limit, time) ==
    /\ History(S, time)
    /\ History(R, time)
    /\ Past(S, R, limit, time)
    /\ IF c \in DOMAIN map THEN Running(S, R, map[c], limit, time)
       ELSE Settled(S, R, limit, time)

\* The invariant: they do, of every caller in every window.
Histories == [Windows -> [Callers -> SUBSET [at : Nat, nr : Nat]]]

PassedInv ==
    /\ passed \in Histories
    /\ forgiven \in Histories
    /\ \A w \in Windows, c \in Callers :
          Account(passed[w][c], forgiven[w][c], entries[w], c, Limit[w], now)

-----------------------------------------------------------------------------
(* Counting                                                                *)

\* What a stretch has of a history is a number.
LEMMA WithinCounts ==
    ASSUME NEW S, IsFiniteSet(S), NEW t
    PROVE  /\ IsFiniteSet(Stretch(S, t))
           /\ Within(S, t) = Cardinality(Stretch(S, t))
           /\ Within(S, t) \in Nat
<1>1. Stretch(S, t) \subseteq S
  BY DEF Stretch
<1>2. IsFiniteSet(Stretch(S, t))
  BY <1>1, FS_Subset
<1>3. Within(S, t) = Cardinality(Stretch(S, t))
  BY DEF Within, Stretch
<1> QED
  BY <1>2, <1>3, FS_CardinalityType

\* More limits are more.
LEMMA MoreIsMore ==
    ASSUME NEW limit \in Nat, NEW m \in Nat, NEW n \in Nat, m <= n
    PROVE  limit * m \in Nat /\ limit * n \in Nat /\ limit * m <= limit * n
<1>1. PICK d \in Nat : n = m + d
  <2>1. n - m \in Nat /\ n = m + (n - m)
    OBVIOUS
  <2> QED
    BY <2>1
<1>2. limit * m \in Nat /\ limit * d \in Nat
  OBVIOUS
<1>3. limit * (m + d) = limit * m + limit * d
  OBVIOUS
<1> QED
  BY <1>1, <1>2, <1>3

\* One limit more is one limit more.
LEMMA Allowances ==
    ASSUME NEW R, IsFiniteSet(R), NEW limit \in Nat \ {0}, NEW t
    PROVE  /\ Allowance(R, limit, 1, t) \in Nat
           /\ Allowance(R, limit, 1, t) >= limit
           /\ Allowance(R, limit, 2, t) = Allowance(R, limit, 1, t) + limit
<1>1. PICK r \in Nat : r = Within(R, t)
  BY WithinCounts
<1>2. limit * r \in Nat
  BY <1>1
<1>3. limit * (1 + r) = limit + limit * r /\ limit * (2 + r) = 2 * limit + limit * r
  BY <1>1
<1> QED
  BY <1>1, <1>2, <1>3 DEF Allowance

\* From S to T one more has happened: no stretch has more than one more, those
\* of the past have not, and those that still reach back to it have.
OneMoreIn(S, T, time) ==
    /\ \A t \in Nat : Within(S, t) <= Within(T, t)
    /\ \A t \in Nat : Within(T, t) <= Within(S, t) + 1
    /\ \A t \in Nat : t < time => Within(T, t) = Within(S, t)
    /\ \A t \in Nat : t >= time /\ t - time <= Span => Within(T, t) = Within(S, t) + 1

\* The history stays one.
LEMMA OneMore ==
    ASSUME RateAssumption, NEW time \in Nat, NEW S, History(S, time), NEW T,
           T = S \cup {[at |-> time, nr |-> Cardinality(S)]}
    PROVE  History(T, time) /\ OneMoreIn(S, T, time)
<1> DEFINE e == [at |-> time, nr |-> Cardinality(S)]
<1>0. IsFiniteSet(S) /\ Cardinality(S) \in Nat /\ Span \in Nat
  BY FS_CardinalityType DEF History, RateAssumption
<1>1. e \notin S
  BY <1>0 DEF History
<1>2. IsFiniteSet(T) /\ Cardinality(T) = Cardinality(S) + 1
  BY <1>0, <1>1, FS_AddElement
<1>3. History(T, time)
  BY <1>0, <1>2 DEF History
<1>4. ASSUME NEW t \in Nat
      PROVE  /\ Within(S, t) \in Nat
             /\ Within(T, t) \in {Within(S, t), Within(S, t) + 1}
             /\ t < time => Within(T, t) = Within(S, t)
             /\ t >= time /\ t - time <= Span => Within(T, t) = Within(S, t) + 1
  <2>1. /\ IsFiniteSet(Stretch(S, t)) /\ Within(S, t) = Cardinality(Stretch(S, t))
        /\ Within(T, t) = Cardinality(Stretch(T, t)) /\ Within(S, t) \in Nat
    BY <1>0, <1>2, WithinCounts
  <2>2. CASE t >= time /\ t - time <= Span
    <3>1. Stretch(T, t) = Stretch(S, t) \cup {e}
      BY <2>2 DEF Stretch
    <3>2. e \notin Stretch(S, t)
      BY <1>1 DEF Stretch
    <3>3. Cardinality(Stretch(T, t)) = Cardinality(Stretch(S, t)) + 1
      BY ONLY <2>1, <3>1, <3>2, FS_AddElement
    <3>4. ~ (t < time)
      BY <2>2
    <3> QED
      BY ONLY <2>1, <3>3, <3>4
  <2>3. CASE ~ (t >= time /\ t - time <= Span)
    <3>1. Stretch(T, t) = Stretch(S, t)
      BY <2>3 DEF Stretch
    <3> QED
      BY <2>1, <2>3, <3>1
  <2> QED
    BY <2>2, <2>3
<1>5. \A t \in Nat : Within(S, t) <= Within(T, t) /\ Within(T, t) <= Within(S, t) + 1
  <2> SUFFICES ASSUME NEW t \in Nat
               PROVE  Within(S, t) <= Within(T, t) /\ Within(T, t) <= Within(S, t) + 1
    OBVIOUS
  <2>1. Within(S, t) \in Nat /\ Within(T, t) \in {Within(S, t), Within(S, t) + 1}
    BY <1>4
  <2> QED
    BY ONLY <2>1
<1> QED
  BY <1>3, <1>4, <1>5 DEF OneMoreIn

\* A stretch that begins after all that happened has nothing.
LEMMA NothingLeft ==
    ASSUME RateAssumption, NEW time \in Nat, NEW S, History(S, time),
           NEW t \in Nat, t - time > Span
    PROVE  Within(S, t) = 0
<1>1. Stretch(S, t) = {}
  BY DEF Stretch, History, RateAssumption
<1> QED
  BY <1>1, WithinCounts, FS_EmptySet DEF History

\* A counter's share is never more than the limit.
LEMMA HadAtMost ==
    ASSUME NEW limit \in Nat \ {0}, NEW counter, counter.count \in Nat \ {0}
    PROVE  /\ Had(counter, limit) \in Nat \ {0}
           /\ Had(counter, limit) <= limit
           /\ Had(counter, limit) <= counter.count
BY DEF Had

-----------------------------------------------------------------------------
(* One caller's account                                                    *)

\* A counter that has rolled over leaves its caller as one without.
LEMMA OverIsSettled ==
    ASSUME RateAssumption, NEW time \in Nat, NEW S, NEW R,
           History(S, time), History(R, time), NEW limit \in Nat \ {0},
           NEW counter, counter.start \in 0 .. time,
           Running(S, R, counter, limit, time), time - counter.start > Span
    PROVE  Settled(S, R, limit, time)
<1> SUFFICES ASSUME NEW t \in Nat, t >= time
             PROVE  Within(S, t) <= Allowance(R, limit, 1, t)
  BY DEF Settled
<1>1. t - counter.start > Span
  BY DEF RateAssumption
<1>2. Within(S, t) <= Had(counter, limit) + 0
  BY <1>1 DEF Running
<1>3. /\ Had(counter, limit) \in Nat /\ Had(counter, limit) <= limit
      /\ Within(S, t) \in Nat
      /\ Allowance(R, limit, 1, t) \in Nat /\ Allowance(R, limit, 1, t) >= limit
  BY HadAtMost, WithinCounts, Allowances DEF Running, History
<1> QED
  BY <1>2, <1>3

\* With or without a counter, what comes is within two limits and the resets.
LEMMA AccountAhead ==
    ASSUME NEW time \in Nat, NEW S, NEW R, NEW map, NEW c, NEW limit \in Nat \ {0},
           Account(S, R, map, c, limit, time), NEW t \in Nat, t >= time
    PROVE  Within(S, t) <= Allowance(R, limit, 2, t)
<1>1. /\ Within(S, t) \in Nat
      /\ Allowance(R, limit, 1, t) \in Nat
      /\ Allowance(R, limit, 2, t) = Allowance(R, limit, 1, t) + limit
  BY WithinCounts, Allowances DEF Account, History
<1>2. CASE c \in DOMAIN map
  <2>1. Running(S, R, map[c], limit, time)
    BY <1>2 DEF Account
  <2>2. /\ Had(map[c], limit) \in Nat
        /\ Had(map[c], limit) <= limit
    BY <2>1, HadAtMost DEF Running
  <2>3. Within(S, t) <= Had(map[c], limit)
            + (IF t - map[c].start > Span THEN 0 ELSE Allowance(R, limit, 1, t))
    BY <2>1 DEF Running
  <2> QED
    BY <1>1, <2>2, <2>3
<1>3. CASE c \notin DOMAIN map
  BY <1>1, <1>3 DEF Account, Settled
<1> QED
  BY <1>2, <1>3

\* Time passes.
LEMMA Ages ==
    ASSUME NEW time \in Nat, NEW S, NEW R, NEW map, NEW c, NEW limit \in Nat \ {0},
           Account(S, R, map, c, limit, time)
    PROVE  Account(S, R, map, c, limit, time + 1)
<1>1. History(S, time + 1) /\ History(R, time + 1)
  BY DEF Account, History
<1>2. Past(S, R, limit, time + 1)
  <2> SUFFICES ASSUME NEW t \in 0 .. time + 1
               PROVE  Within(S, t) <= Allowance(R, limit, 2, t)
    BY DEF Past
  <2>1. CASE t >= time
    BY <2>1, AccountAhead
  <2>2. CASE ~ (t >= time)
    <3>1. t \in 0 .. time
      BY <2>2
    <3> QED
      BY <3>1 DEF Account, Past
  <2> QED
    BY <2>1, <2>2
<1>3. c \notin DOMAIN map => Settled(S, R, limit, time + 1)
  BY DEF Account, Settled
<1>4. ASSUME c \in DOMAIN map PROVE Running(S, R, map[c], limit, time + 1)
  <2>1. Running(S, R, map[c], limit, time)
    BY <1>4 DEF Account
  <2>2. \A t \in Nat : t >= time + 1 => t >= time
    OBVIOUS
  <2> QED
    BY <2>1, <2>2 DEF Running
<1> QED
  BY <1>1, <1>2, <1>3, <1>4 DEF Account

\* The past does not change when one more happens now, and is within bounds
\* that only grow.
LEMMA PastStays ==
    ASSUME NEW time \in Nat, NEW S, NEW R, NEW limit \in Nat \ {0}, NEW T, NEW Q,
           IsFiniteSet(T), IsFiniteSet(R), IsFiniteSet(Q), Past(S, R, limit, time),
           \A t \in Nat : Within(R, t) <= Within(Q, t),
           \A t \in Nat : t < time => Within(T, t) = Within(S, t),
           Within(T, time) <= Allowance(R, limit, 2, time)
    PROVE  Past(T, Q, limit, time)
<1> SUFFICES ASSUME NEW t \in 0 .. time
             PROVE  Within(T, t) <= Allowance(Q, limit, 2, t)
  BY DEF Past
<1>1. Within(T, t) <= Allowance(R, limit, 2, t)
  <2>1. t = time \/ (t < time /\ t \in Nat)
    OBVIOUS
  <2>2. CASE t = time
    BY <2>2
  <2>3. CASE t < time /\ t \in Nat
    BY <2>3 DEF Past
  <2> QED
    BY <2>1, <2>2, <2>3
<1>2. Within(R, t) \in Nat /\ Within(Q, t) \in Nat /\ Within(R, t) <= Within(Q, t)
  <2>1. t \in Nat
    OBVIOUS
  <2> QED
    BY <2>1, WithinCounts
<1>3. /\ limit * (2 + Within(R, t)) \in Nat
      /\ limit * (2 + Within(Q, t)) \in Nat
      /\ limit * (2 + Within(R, t)) <= limit * (2 + Within(Q, t))
  BY <1>2, MoreIsMore
<1>4. PICK m, n : m = limit * (2 + Within(R, t)) /\ n = limit * (2 + Within(Q, t))
  OBVIOUS
<1>5. Within(T, t) \in Nat
  BY WithinCounts
<1>6. Within(T, t) <= m
  BY <1>1, <1>4 DEF Allowance
<1>7. m \in Nat /\ n \in Nat /\ m <= n
  BY ONLY <1>3, <1>4
<1>8. Within(T, t) <= n
  BY ONLY <1>5, <1>6, <1>7
<1> QED
  BY <1>4, <1>8 DEF Allowance

\* A counter starts with the event.
LEMMA Starts ==
    ASSUME RateAssumption, NEW time \in Nat, NEW S, NEW R, NEW limit \in Nat \ {0},
           History(S, time), History(R, time), Past(S, R, limit, time),
           Settled(S, R, limit, time), NEW T,
           T = S \cup {[at |-> time, nr |-> Cardinality(S)]}
    PROVE  /\ History(T, time) /\ Past(T, R, limit, time)
           /\ Running(T, R, [count |-> 1, start |-> time], limit, time)
<1> DEFINE new == [count |-> 1, start |-> time]
<1>0. IsFiniteSet(S) /\ IsFiniteSet(R) /\ IsFiniteSet(T) /\ History(T, time)
  BY OneMore DEF History
<1>1. /\ \A t \in Nat : Within(T, t) <= Within(S, t) + 1
      /\ \A t \in Nat : t < time => Within(T, t) = Within(S, t)
  <2>1. OneMoreIn(S, T, time)
    BY OneMore
  <2> QED
    BY ONLY <2>1 DEF OneMoreIn
<1>2. \A t \in Nat : /\ Within(S, t) \in Nat /\ Within(T, t) \in Nat
                     /\ Allowance(R, limit, 1, t) \in Nat
                     /\ Allowance(R, limit, 2, t) = Allowance(R, limit, 1, t) + limit
  BY <1>0, WithinCounts, Allowances
<1>3. \A t \in Nat : t >= time => Within(T, t) <= 1 + Allowance(R, limit, 1, t)
  <2> SUFFICES ASSUME NEW t \in Nat, t >= time
               PROVE  Within(T, t) <= 1 + Allowance(R, limit, 1, t)
    OBVIOUS
  <2>1. Within(S, t) <= Allowance(R, limit, 1, t)
    BY DEF Settled
  <2>2. Within(T, t) <= Within(S, t) + 1
    BY <1>1
  <2>3. /\ Within(S, t) \in Nat /\ Within(T, t) \in Nat
        /\ Allowance(R, limit, 1, t) \in Nat
    BY <1>2
  <2> QED
    BY ONLY <2>1, <2>2, <2>3
<1>4. Past(T, R, limit, time)
  <2>1. Within(T, time) <= Allowance(R, limit, 2, time)
    <3>1. Within(T, time) <= 1 + Allowance(R, limit, 1, time)
      BY <1>3
    <3>2. /\ Within(T, time) \in Nat /\ Allowance(R, limit, 1, time) \in Nat
          /\ Allowance(R, limit, 2, time) = Allowance(R, limit, 1, time) + limit
      BY <1>2
    <3>3. limit \in Nat \ {0}
      OBVIOUS
    <3> QED
      BY ONLY <3>1, <3>2, <3>3
  <2>2. \A t \in Nat : Within(R, t) <= Within(R, t)
    BY <1>0, WithinCounts
  <2> QED
    BY <1>0, <1>1, <2>1, <2>2, PastStays
<1>5. Cardinality(Since(T, time)) >= Had(new, limit)
  <2>1. [at |-> time, nr |-> Cardinality(S)] \in Since(T, time)
    BY DEF Since
  <2>2. Since(T, time) \subseteq T
    BY DEF Since
  <2>3. IsFiniteSet(Since(T, time)) /\ Cardinality(Since(T, time)) \in Nat
    BY <1>0, <2>2, FS_Subset, FS_CardinalityType
  <2>4. Cardinality(Since(T, time)) # 0
    BY <2>1, <2>3, FS_EmptySet
  <2>5. Had(new, limit) = 1
    BY DEF Had
  <2> QED
    BY <2>3, <2>4, <2>5
<1>6. ASSUME NEW t \in Nat, t >= time
      PROVE  Within(T, t) <= Had(new, limit)
                + IF t - new.start > Span THEN 0 ELSE Allowance(R, limit, 1, t)
  <2>1. Had(new, limit) = 1 /\ new.start = time
    BY DEF Had
  <2>2. t - time > Span => Within(T, t) = 0
    BY <1>0, NothingLeft
  <2>3. Within(T, t) <= 1 + Allowance(R, limit, 1, t)
    BY <1>3, <1>6
  <2> HIDE DEF new
  <2> QED
    BY <2>1, <2>2, <2>3
<1> QED
  BY <1>0, <1>4, <1>5, <1>6 DEF Running

\* A counter counts the event, and it fits.
LEMMA Counts ==
    ASSUME RateAssumption, NEW time \in Nat, NEW S, NEW R, NEW limit \in Nat \ {0},
           History(S, time), History(R, time), Past(S, R, limit, time),
           NEW counter, counter.start \in 0 .. time,
           Running(S, R, counter, limit, time), ~ (time - counter.start > Span),
           counter.count + 1 <= limit, NEW T,
           T = S \cup {[at |-> time, nr |-> Cardinality(S)]},
           NEW more, more.start = counter.start, more.count = counter.count + 1
    PROVE  /\ History(T, time) /\ Past(T, R, limit, time)
           /\ Running(T, R, more, limit, time)
<1>0. /\ IsFiniteSet(S) /\ IsFiniteSet(R) /\ IsFiniteSet(T) /\ History(T, time)
      /\ Cardinality(S) \in Nat
  BY OneMore, FS_CardinalityType DEF History
<1>1. /\ \A t \in Nat : Within(T, t) <= Within(S, t) + 1
      /\ \A t \in Nat : t < time => Within(T, t) = Within(S, t)
  <2>1. OneMoreIn(S, T, time)
    BY OneMore
  <2> QED
    BY ONLY <2>1 DEF OneMoreIn
<1>2. \A t \in Nat : /\ Within(S, t) \in Nat /\ Within(T, t) \in Nat
                     /\ Allowance(R, limit, 1, t) \in Nat
                     /\ Allowance(R, limit, 2, t) = Allowance(R, limit, 1, t) + limit
  BY <1>0, WithinCounts, Allowances
<1>3. /\ counter.count \in Nat \ {0}
      /\ Had(counter, limit) = counter.count
      /\ Had(more, limit) = counter.count + 1
  BY DEF Running, Had
<1>4. \A t \in Nat : t >= time =>
          Within(T, t) <= Had(more, limit)
            + IF t - more.start > Span THEN 0 ELSE Allowance(R, limit, 1, t)
  <2> SUFFICES ASSUME NEW t \in Nat, t >= time
               PROVE  Within(T, t) <= Had(more, limit)
                        + IF t - more.start > Span THEN 0 ELSE Allowance(R, limit, 1, t)
    OBVIOUS
  <2>1. Within(S, t) <= Had(counter, limit)
            + IF t - counter.start > Span THEN 0 ELSE Allowance(R, limit, 1, t)
    BY DEF Running
  <2>2. Within(T, t) <= Within(S, t) + 1
    BY <1>1
  <2>3. /\ Within(S, t) \in Nat /\ Within(T, t) \in Nat
        /\ Allowance(R, limit, 1, t) \in Nat
    BY <1>2
  <2>4. more.start = counter.start
    OBVIOUS
  <2> QED
    BY ONLY <1>3, <2>1, <2>2, <2>3, <2>4
<1>5. Past(T, R, limit, time)
  <2>1. Within(T, time) <= Had(more, limit)
            + IF time - more.start > Span THEN 0 ELSE Allowance(R, limit, 1, time)
    BY <1>4
  <2>2. Within(T, time) <= Allowance(R, limit, 2, time)
    <3>1. /\ Within(T, time) \in Nat /\ Allowance(R, limit, 1, time) \in Nat
          /\ Allowance(R, limit, 2, time) = Allowance(R, limit, 1, time) + limit
      BY <1>2
    <3>2. limit \in Nat \ {0} /\ counter.count + 1 <= limit
      OBVIOUS
    <3> QED
      BY ONLY <1>3, <2>1, <3>1, <3>2
  <2>3. \A t \in Nat : Within(R, t) <= Within(R, t)
    BY <1>0, WithinCounts
  <2> QED
    BY <1>0, <1>1, <2>2, <2>3, PastStays
<1>6. Cardinality(Since(T, more.start)) >= Had(more, limit)
  <2> DEFINE e == [at |-> time, nr |-> Cardinality(S)]
  <2>1. Since(T, more.start) = Since(S, counter.start) \cup {e}
    BY DEF Since
  <2>2. e \notin Since(S, counter.start)
    BY <1>0 DEF Since, History
  <2>3. Since(S, counter.start) \subseteq S
    BY DEF Since
  <2>4. IsFiniteSet(Since(S, counter.start)) /\ Cardinality(Since(S, counter.start)) \in Nat
    BY <1>0, <2>3, FS_Subset, FS_CardinalityType
  <2>5. Cardinality(Since(T, more.start)) = Cardinality(Since(S, counter.start)) + 1
    BY ONLY <2>1, <2>2, <2>4, FS_AddElement
  <2>6. Cardinality(Since(S, counter.start)) >= counter.count
    BY <1>3 DEF Running
  <2> QED
    BY <1>3, <2>4, <2>5, <2>6
<1>7. more.count \in Nat \ {0}
  BY <1>3
<1> QED
  BY <1>0, <1>4, <1>5, <1>6, <1>7 DEF Running

\* A reset: what has been spent is forgiven, and the reset accounts for it.
LEMMA Forgives ==
    ASSUME RateAssumption, NEW time \in Nat, NEW S, NEW R, NEW map, NEW c,
           NEW limit \in Nat \ {0}, Account(S, R, map, c, limit, time),
           c \in DOMAIN map => map[c].start \in 0 .. time,
           NEW Q, Q = R \cup {[at |-> time, nr |-> Cardinality(R)]}
    PROVE  /\ History(Q, time) /\ Past(S, Q, limit, time)
           /\ Settled(S, Q, limit, time)
<1>0. /\ IsFiniteSet(S) /\ IsFiniteSet(R) /\ IsFiniteSet(Q) /\ History(Q, time)
      /\ History(S, time) /\ History(R, time)
  BY OneMore DEF Account, History
<1>1. /\ \A t \in Nat : Within(R, t) <= Within(Q, t)
      /\ \A t \in Nat : t >= time /\ t - time <= Span => Within(Q, t) = Within(R, t) + 1
  <2>1. OneMoreIn(R, Q, time)
    BY <1>0, OneMore
  <2> QED
    BY ONLY <2>1 DEF OneMoreIn
<1>2. \A t \in Nat : Within(S, t) \in Nat /\ Within(R, t) \in Nat /\ Within(Q, t) \in Nat
  BY <1>0, WithinCounts
<1>3. Past(S, Q, limit, time)
  <2>1. Within(S, time) <= Allowance(R, limit, 2, time)
    BY DEF Account, Past
  <2> QED
    BY <1>0, <1>1, <2>1, PastStays DEF Account
<1>4. Settled(S, Q, limit, time)
  <2> SUFFICES ASSUME NEW t \in Nat, t >= time
               PROVE  Within(S, t) <= Allowance(Q, limit, 1, t)
    BY DEF Settled
  <2>1. CASE t - time <= Span
    <3>1. Within(S, t) <= Allowance(R, limit, 2, t)
      BY AccountAhead
    <3>2. PICK r \in Nat : r = Within(R, t)
      BY <1>2
    <3>3. Within(Q, t) = r + 1
      BY <1>1, <2>1, <3>2
    <3>4. 1 + (r + 1) = 2 + r
      BY <3>2
    <3>5. Allowance(Q, limit, 1, t) = Allowance(R, limit, 2, t)
      BY <3>2, <3>3, <3>4 DEF Allowance
    <3> QED
      BY <3>1, <3>5
  <2>2. CASE ~ (t - time <= Span)
    <3>1. t - time > Span
      BY <2>2 DEF RateAssumption
    <3>2. Within(S, t) = 0
      BY <1>0, <3>1, NothingLeft
    <3>3. Allowance(Q, limit, 1, t) \in Nat
      BY <1>0, Allowances
    <3> QED
      BY <3>2, <3>3
  <2> QED
    BY <2>1, <2>2
<1> QED
  BY <1>0, <1>3, <1>4

-----------------------------------------------------------------------------

\* A window that there is lets something through.
LEMMA SomeFit == ASSUME RateAssumption, NEW w \in Windows PROVE Limit[w] \in Nat \ {0}
<1>1. LoginLimit \in Nat \ {0} /\ Factor \in Nat \ {0}
      /\ ClientLimit \in Int /\ DemoLimit \in Int
  BY DEF RateAssumption
<1>2. w \in {"login", "client", "demoClient", "demoTotal"}
  BY DEF Windows
<1>3. CASE w = "login"
  BY <1>1, <1>3 DEF Limit
<1>4. CASE w = "client"
  BY <1>1, <1>4 DEF Limit, Windows
<1>5. CASE w = "demoClient"
  BY <1>1, <1>5 DEF Limit, Windows
<1>6. CASE w = "demoTotal"
  <2>1. DemoLimit > 0
    BY <1>6 DEF Windows
  <2>2. \A m, n \in Nat \ {0} : m * n \in Nat \ {0}
    OBVIOUS
  <2> QED
    BY <1>1, <1>6, <2>1, <2>2 DEF Limit
<1> QED
  BY <1>2, <1>3, <1>4, <1>5, <1>6

\* sweep drops what has rolled over, and nothing else.
LEMMA SweepDrops ==
    ASSUME NEW map
    PROVE  /\ DOMAIN Sweep(map) \subseteq DOMAIN map
           /\ \A c \in DOMAIN Sweep(map) : Sweep(map)[c] = map[c]
           /\ \A c \in DOMAIN map \ DOMAIN Sweep(map) : RolledOver(map[c])
<1>1. CASE Cardinality(DOMAIN map) < SweepAt
  BY <1>1 DEF Sweep
<1>2. CASE ~ (Cardinality(DOMAIN map) < SweepAt)
  BY <1>2 DEF Sweep, Restrict
<1> QED
  BY <1>1, <1>2

\* Allow on the counters of others: they stay, or had rolled over.
LEMMA OthersCounted ==
    ASSUME NEW w \in Windows, NEW k, NEW c, c # k,
           NEW map, map = Counted(w, k)
    PROVE  /\ c \in DOMAIN map => c \in DOMAIN entries[w] /\ map[c] = entries[w][c]
           /\ c \in DOMAIN entries[w] /\ c \notin DOMAIN map
                => RolledOver(entries[w][c])
<1>1. CASE Fresh(w, k)
  <2> DEFINE all == [j \in DOMAIN entries[w] \cup {k} |->
                        IF j = k THEN [count |-> 1, start |-> now] ELSE entries[w][j]]
  <2>1. map = Sweep(all)
    BY <1>1 DEF Counted
  <2>2. c \in DOMAIN all <=> c \in DOMAIN entries[w]
    OBVIOUS
  <2>3. c \in DOMAIN all => all[c] = entries[w][c]
    OBVIOUS
  <2> HIDE DEF all
  <2> QED
    BY <2>1, <2>2, <2>3, SweepDrops
<1>2. CASE ~Fresh(w, k)
  BY <1>2 DEF Counted
<1> QED
  BY <1>1, <1>2

\* Allow on the counter of the caller.
LEMMA OwnCounted ==
    ASSUME RateAssumption, now \in Nat, NEW w \in Windows, NEW k,
           NEW map, map = Counted(w, k)
    PROVE  /\ k \in DOMAIN map
           /\ Fresh(w, k) => map[k] = [count |-> 1, start |-> now]
           /\ ~Fresh(w, k) => /\ map[k].start = entries[w][k].start
                              /\ entries[w][k].count \in Nat =>
                                    map[k].count = entries[w][k].count + 1
<1>1. CASE Fresh(w, k)
  <2> DEFINE all == [j \in DOMAIN entries[w] \cup {k} |->
                        IF j = k THEN [count |-> 1, start |-> now] ELSE entries[w][j]]
  <2>1. map = Sweep(all)
    BY <1>1 DEF Counted
  <2>2. k \in DOMAIN all /\ all[k] = [count |-> 1, start |-> now]
    OBVIOUS
  <2>3. ~RolledOver(all[k])
    BY <2>2 DEF RolledOver, RateAssumption
  <2> HIDE DEF all
  <2>4. k \in DOMAIN Sweep(all) /\ Sweep(all)[k] = all[k]
    BY <2>2, <2>3, SweepDrops
  <2> QED
    BY <1>1, <2>1, <2>2, <2>4
<1>2. CASE ~Fresh(w, k)
  <2>1. map = [entries[w] EXCEPT ![k].count = @ + 1] /\ k \in DOMAIN entries[w]
    BY <1>2 DEF Counted, Fresh
  <2>2. DOMAIN map = DOMAIN entries[w]
        /\ map[k] = [entries[w][k] EXCEPT !.count = @ + 1]
    BY <2>1
  <2> QED
    BY <1>2, <2>1, <2>2
<1> QED
  BY <1>1, <1>2

-----------------------------------------------------------------------------

\* Of the others, counters and events agree as before.
LEMMA OthersAccount ==
    ASSUME RateAssumption, RateInv, NEW w \in Windows, NEW k, NEW c, c # k,
           NEW S, NEW R, Account(S, R, entries[w], c, Limit[w], now)
    PROVE  Account(S, R, Counted(w, k), c, Limit[w], now)
<1>1. PICK map : map = Counted(w, k)
  OBVIOUS
<1>2. PICK limit \in Nat \ {0} : limit = Limit[w]
  BY SomeFit
<1>3. now \in Nat /\ History(S, now) /\ History(R, now) /\ Past(S, R, limit, now)
  BY <1>2 DEF RateInv, Account
<1>4. CASE c \in DOMAIN map
  <2>1. c \in DOMAIN entries[w] /\ map[c] = entries[w][c]
    BY <1>1, <1>4, OthersCounted
  <2>2. Running(S, R, map[c], limit, now)
    BY <1>2, <2>1 DEF Account
  <2> QED
    BY <1>1, <1>2, <1>3, <1>4, <2>2 DEF Account
<1>5. CASE c \notin DOMAIN map /\ c \in DOMAIN entries[w]
  <2>1. PICK counter : counter = entries[w][c]
    OBVIOUS
  <2>2. RolledOver(counter)
    BY <1>1, <1>5, <2>1, OthersCounted
  <2>3. Running(S, R, counter, limit, now) /\ counter.start \in 0 .. now
    BY <1>2, <1>5, <2>1 DEF Account, RateInv, IsMap
  <2>4. Settled(S, R, limit, now)
    BY <1>3, <2>2, <2>3, OverIsSettled DEF RolledOver
  <2> QED
    BY <1>1, <1>2, <1>3, <1>5, <2>4 DEF Account
<1>6. CASE c \notin DOMAIN map /\ c \notin DOMAIN entries[w]
  BY <1>1, <1>2, <1>3, <1>6 DEF Account
<1> QED
  BY <1>4, <1>5, <1>6

\* Of the caller, they do with the event, or without it when it does not fit.
LEMMA OwnAccount ==
    ASSUME RateAssumption, RateInv, NEW w \in Windows, NEW k,
           NEW S, NEW R, Account(S, R, entries[w], k, Limit[w], now),
           NEW T, T = IF Fits(w, k)
                      THEN S \cup {[at |-> now, nr |-> Cardinality(S)]} ELSE S
    PROVE  Account(T, R, Counted(w, k), k, Limit[w], now)
<1>1. PICK map : map = Counted(w, k)
  OBVIOUS
<1>2. PICK limit \in Nat \ {0} : limit = Limit[w]
  BY SomeFit
<1>3. now \in Nat /\ History(S, now) /\ History(R, now) /\ Past(S, R, limit, now)
  BY <1>2 DEF RateInv, Account
<1>4. k \in DOMAIN map
  BY <1>1, <1>3, OwnCounted
<1>5. PICK counter : counter = entries[w][k]
  OBVIOUS
<1>6. k \in DOMAIN entries[w] => Running(S, R, counter, limit, now)
                                 /\ counter.start \in 0 .. now
  BY <1>2, <1>5 DEF Account, RateInv, IsMap
<1>7. CASE Fresh(w, k)
  <2>1. map[k] = [count |-> 1, start |-> now]
    BY <1>1, <1>3, <1>7, OwnCounted
  <2>2. Settled(S, R, limit, now)
    <3>1. CASE k \in DOMAIN entries[w]
      BY <1>3, <1>5, <1>6, <1>7, <3>1, OverIsSettled DEF Fresh, RolledOver
    <3>2. CASE k \notin DOMAIN entries[w]
      BY <1>2, <3>2 DEF Account
    <3> QED
      BY <3>1, <3>2
  <2>3. T = S \cup {[at |-> now, nr |-> Cardinality(S)]}
    BY <1>7 DEF Fits
  <2>4. /\ History(T, now) /\ Past(T, R, limit, now)
        /\ Running(T, R, [count |-> 1, start |-> now], limit, now)
    BY <1>3, <2>2, <2>3, Starts
  <2> QED
    BY <1>1, <1>2, <1>4, <2>1, <2>4 DEF Account
<1>8. CASE ~Fresh(w, k)
  <2>1. k \in DOMAIN entries[w] /\ ~ (now - counter.start > Span)
    BY <1>5, <1>8 DEF Fresh, RolledOver
  <2>2. Running(S, R, counter, limit, now) /\ counter.start \in 0 .. now
        /\ counter.count \in Nat \ {0}
    BY <1>6, <2>1 DEF Running
  <2>3. PICK more : more = map[k]
    OBVIOUS
  <2>4. more.start = counter.start /\ more.count = counter.count + 1
    BY <1>1, <1>3, <1>5, <1>8, <2>2, <2>3, OwnCounted
  <2>5. CASE counter.count + 1 <= limit
    <3>1. T = S \cup {[at |-> now, nr |-> Cardinality(S)]}
      BY <1>2, <1>5, <2>5 DEF Fits
    <3>2. History(T, now) /\ Past(T, R, limit, now) /\ Running(T, R, more, limit, now)
      BY <1>3, <2>1, <2>2, <2>4, <2>5, <3>1, Counts
    <3> QED
      BY <1>1, <1>2, <1>4, <2>3, <3>2 DEF Account
  <2>6. CASE ~ (counter.count + 1 <= limit)
    <3>1. T = S
      BY <1>2, <1>5, <1>8, <2>6 DEF Fits
    <3>2. Had(more, limit) = Had(counter, limit) /\ more.count \in Nat \ {0}
      BY <2>2, <2>4, <2>6 DEF Had
    <3>3. Running(S, R, more, limit, now)
      BY <2>2, <2>4, <3>2 DEF Running
    <3> QED
      BY <1>1, <1>2, <1>3, <1>4, <2>3, <3>1, <3>3 DEF Account
  <2> QED
    BY <2>5, <2>6
<1> QED
  BY <1>7, <1>8

\* Allow, in whatever window, for whatever caller.
LEMMA AllowPassed ==
    ASSUME RateAssumption, RateInv, PassedInv, now' = now,
           NEW w \in Windows, NEW k \in Callers, Allow(w, k, k)
    PROVE  PassedInv'
<1>1. PICK map : map = Counted(w, k)
  OBVIOUS
<1>2. PICK S : S = passed[w][k]
  OBVIOUS
<1>3. PICK T : T = IF Fits(w, k)
                   THEN S \cup {[at |-> now, nr |-> Cardinality(S)]} ELSE S
  OBVIOUS
<1>4. Account(S, forgiven[w][k], entries[w], k, Limit[w], now) /\ now \in Nat
  BY <1>2 DEF PassedInv, RateInv
<1>5. Account(T, forgiven[w][k], map, k, Limit[w], now)
  BY <1>1, <1>3, <1>4, OwnAccount
<1>6. S \in SUBSET [at : Nat, nr : Nat] /\ Cardinality(S) \in Nat
  BY <1>2, <1>4, FS_CardinalityType DEF PassedInv, Histories, Account, History
<1>7. T \in SUBSET [at : Nat, nr : Nat]
  BY <1>3, <1>4, <1>6
<1>8. passed' = [passed EXCEPT ![w][k] = T] /\ forgiven' = forgiven
  BY <1>2, <1>3 DEF Allow, Noted, PassedInv, Histories
<1>9. entries' = [entries EXCEPT ![w] = map]
  BY <1>1 DEF Allow
<1>10. Windows' = Windows /\ Callers' = Callers /\ Limit' = Limit
  BY DEF Windows, Callers, Limit, Commanders, Crowd
<1>11. passed' \in Histories /\ forgiven' \in Histories /\ Histories' = Histories
  BY <1>7, <1>8, <1>10 DEF PassedInv, Histories
<1>12. ASSUME NEW v \in Windows, NEW c \in Callers
       PROVE  Account(passed'[v][c], forgiven'[v][c], entries'[v], c, Limit[v], now)
  <2>1. CASE v # w
    <3>1. passed'[v][c] = passed[v][c] /\ entries'[v] = entries[v]
      BY <1>8, <1>9, <2>1 DEF PassedInv, Histories, RateInv
    <3> QED
      BY <1>8, <3>1 DEF PassedInv
  <2>2. CASE v = w /\ c # k
    <3>1. passed'[w][c] = passed[w][c] /\ entries'[w] = map
      BY <1>8, <1>9, <2>2 DEF PassedInv, Histories, RateInv
    <3>2. PICK R : R = passed[w][c]
      OBVIOUS
    <3>3. Account(R, forgiven[w][c], entries[w], c, Limit[w], now)
      BY <3>2 DEF PassedInv
    <3>4. Account(R, forgiven[w][c], map, c, Limit[w], now)
      BY <1>1, <2>2, <3>3, OthersAccount
    <3> QED
      BY <1>8, <2>2, <3>1, <3>2, <3>4
  <2>3. CASE v = w /\ c = k
    <3>1. passed'[w][k] = T /\ entries'[w] = map
      BY <1>8, <1>9 DEF PassedInv, Histories, RateInv
    <3> QED
      BY <1>5, <1>8, <2>3, <3>1
  <2> QED
    BY <2>1, <2>2, <2>3
<1> QED
  BY <1>8, <1>10, <1>11, <1>12 DEF PassedInv

-----------------------------------------------------------------------------

\* Of a caller who has had nothing and has no counter there is nothing to say.
LEMMA NothingYet ==
    ASSUME NEW time \in Nat, NEW limit \in Nat \ {0}, NEW map, NEW c,
           c \notin DOMAIN map
    PROVE  Account({}, {}, map, c, limit, time)
<1>1. IsFiniteSet({})
  BY FS_EmptySet
<1>2. \A t : Within({}, t) = 0
  <2>1. \A t : Stretch({}, t) = {}
    BY DEF Stretch
  <2> QED
    BY <1>1, <2>1, WithinCounts, FS_EmptySet
<1>3. \A t : Allowance({}, limit, 1, t) \in Nat /\ Allowance({}, limit, 2, t) \in Nat
  BY <1>2 DEF Allowance
<1>4. Past({}, {}, limit, time) /\ Settled({}, {}, limit, time)
  BY <1>2, <1>3 DEF Past, Settled
<1> QED
  BY <1>1, <1>4 DEF Account, History

LEMMA InitPassed == ASSUME RateAssumption, Init PROVE PassedInv
<1>1. now = 0 /\ \A w \in Windows : DOMAIN entries[w] = {}
  BY DEF Init
<1>2. ASSUME NEW w \in Windows, NEW c \in Callers
      PROVE  Account(passed[w][c], forgiven[w][c], entries[w], c, Limit[w], now)
  <2>1. passed[w][c] = {} /\ forgiven[w][c] = {}
    BY DEF Init
  <2> QED
    BY <1>1, <2>1, SomeFit, NothingYet
<1>3. passed \in Histories /\ forgiven \in Histories
  BY DEF Init, Histories
<1> QED
  BY <1>2, <1>3 DEF PassedInv

\* Reset forgets the counter of an address, and the count begins anew.
LEMMA ResetPassed ==
    ASSUME RateAssumption, RateInv, PassedInv, NEW ip \in LoginFrom, LoginReset(ip)
    PROVE  PassedInv'
<1>1. "login" \in Windows /\ <<ip>> \in Callers /\ now \in Nat
  BY DEF Windows, Callers, RateInv
<1>2. PICK map : map = Restrict(entries["login"], DOMAIN entries["login"] \ {<<ip>>})
  OBVIOUS
<1>3. /\ DOMAIN map = DOMAIN entries["login"] \ {<<ip>>}
      /\ \A c \in DOMAIN map : map[c] = entries["login"][c]
  BY <1>2 DEF Restrict
<1>4. PICK S, R, Q : /\ S = passed["login"][<<ip>>] /\ R = forgiven["login"][<<ip>>]
                     /\ Q = R \cup {[at |-> now, nr |-> Cardinality(R)]}
  OBVIOUS
<1>5. /\ entries' = [entries EXCEPT !["login"] = map] /\ now' = now /\ passed' = passed
      /\ forgiven' = [forgiven EXCEPT !["login"][<<ip>>] = Q]
  BY <1>1, <1>2, <1>4 DEF LoginReset, Noted, PassedInv, Histories
<1>6. Windows' = Windows /\ Callers' = Callers /\ Limit' = Limit /\ Histories' = Histories
  BY DEF Windows, Callers, Limit, Commanders, Crowd, Histories
<1>7. PICK limit \in Nat \ {0} : limit = Limit["login"]
  BY <1>1, SomeFit
<1>8. Account(S, R, entries["login"], <<ip>>, limit, now)
  BY <1>1, <1>4, <1>7 DEF PassedInv
<1>9. Account(S, Q, map, <<ip>>, limit, now)
  <2>1. <<ip>> \in DOMAIN entries["login"] => entries["login"][<<ip>>].start \in 0 .. now
    BY <1>1 DEF RateInv, IsMap
  <2>2. /\ History(Q, now) /\ Past(S, Q, limit, now)
        /\ Settled(S, Q, limit, now)
    BY <1>1, <1>4, <1>8, <2>1, Forgives
  <2> QED
    BY <1>3, <1>8, <2>2 DEF Account
<1>10. forgiven' \in Histories
  <2>1. R \in SUBSET [at : Nat, nr : Nat] /\ Cardinality(R) \in Nat
    BY <1>1, <1>4, <1>8, FS_CardinalityType DEF PassedInv, Histories, Account, History
  <2>2. Q \in SUBSET [at : Nat, nr : Nat]
    BY <1>1, <1>4, <2>1
  <2> QED
    BY <1>5, <2>2 DEF PassedInv, Histories
<1>11. ASSUME NEW v \in Windows, NEW c \in Callers
       PROVE  Account(passed[v][c], forgiven'[v][c], entries'[v], c, Limit[v], now)
  <2>0. Account(passed[v][c], forgiven[v][c], entries[v], c, Limit[v], now)
    BY DEF PassedInv
  <2>1. CASE v # "login"
    <3>1. forgiven'[v][c] = forgiven[v][c] /\ entries'[v] = entries[v]
      BY <1>1, <1>5, <2>1 DEF PassedInv, Histories, RateInv
    <3> QED
      BY <2>0, <3>1
  <2>2. CASE v = "login" /\ c # <<ip>>
    <3>1. forgiven'[v][c] = forgiven[v][c] /\ entries'[v] = map
      BY <1>1, <1>5, <2>2 DEF PassedInv, Histories, RateInv
    <3> QED
      BY <1>3, <2>0, <2>2, <3>1 DEF Account
  <2>3. CASE v = "login" /\ c = <<ip>>
    <3>1. forgiven'[v][c] = Q /\ entries'[v] = map
      BY <1>1, <1>5, <2>3 DEF PassedInv, Histories, RateInv
    <3> QED
      BY <1>4, <1>7, <1>9, <2>3, <3>1
  <2> QED
    BY <2>1, <2>2, <2>3
<1> QED
  BY <1>5, <1>6, <1>10, <1>11 DEF PassedInv

\* Time passes for every caller.
LEMMA PassPassed == ASSUME RateAssumption, RateInv, PassedInv, Pass PROVE PassedInv'
<1>1. now \in Nat /\ now' = now + 1 /\ UNCHANGED <<entries, passed, forgiven>>
  BY DEF Pass, RateInv
<1>2. Windows' = Windows /\ Callers' = Callers /\ Limit' = Limit
  BY DEF Windows, Callers, Limit, Commanders, Crowd
<1>3. ASSUME NEW w \in Windows, NEW c \in Callers
      PROVE  Account(passed[w][c], forgiven[w][c], entries[w], c, Limit[w], now + 1)
  BY <1>1, SomeFit, Ages DEF PassedInv
<1> QED
  BY <1>1, <1>2, <1>3 DEF PassedInv, Histories

LEMMA NextPassed ==
    ASSUME RateAssumption, RateInv, PassedInv, [Next]_vars PROVE PassedInv'
<1>0. ASSUME UNCHANGED <<now, entries, passed, forgiven>> PROVE PassedInv'
  BY <1>0 DEF PassedInv, Histories, Windows, Callers, Limit, Commanders, Crowd
<1>1. ASSUME NEW ip \in LoginFrom, LoginAllow(ip) PROVE PassedInv'
  <2>1. "login" \in Windows /\ <<ip>> \in Callers
    BY DEF Windows, Callers
  <2> QED
    BY <1>1, <2>1, AllowPassed DEF LoginAllow
<1>2. ASSUME NEW ip \in LoginFrom, LoginReset(ip) PROVE PassedInv'
  BY <1>2, ResetPassed
<1>3. ASSUME NEW ip \in LoginFrom, LoginEnds(ip) PROVE PassedInv'
  BY <1>0, <1>3 DEF LoginEnds
<1>4. ASSUME NEW a \in Accounts, NEW ip \in CommandFrom, Command(a, ip) PROVE PassedInv'
  <2>1. <<a, ip>> \in Callers /\ KeyOf(a, ip) = <<a, ip>> /\ now' = now
    BY <1>4 DEF Callers, Commanders, KeyOf, Command
  <2>2. CASE Budget(a) \in Windows
    <3>1. Allow(Budget(a), <<a, ip>>, <<a, ip>>)
      BY <1>4, <2>1, <2>2 DEF Command
    <3> QED
      BY <2>1, <2>2, <3>1, AllowPassed
  <2>3. CASE Budget(a) \notin Windows
    BY <1>0, <1>4, <2>1, <2>3 DEF Command
  <2> QED
    BY <2>2, <2>3
<1>5. CASE CrowdCommand
  <2>1. halfway # {} /\ now' = now /\ Allow("demoTotal", Crowd, Crowd)
    BY <1>5 DEF CrowdCommand
  <2>2. "demoTotal" \in Windows /\ Crowd \in Callers
    BY <2>1 DEF RateInv, Callers
  <2> QED
    BY <2>1, <2>2, AllowPassed
<1>6. CASE Pass
  BY <1>6, PassPassed
<1>7. CASE UNCHANGED vars
  BY <1>0, <1>7 DEF vars
<1> QED
  BY <1>1, <1>2, <1>3, <1>4, <1>5, <1>6, <1>7 DEF Next

\* Whoever is refused has a counter that is running and at the limit.
LEMMA RefusedHasHad ==
    ASSUME RateAssumption, RateInv, PassedInv, NEW w \in Windows, NEW c \in Callers,
           ~Fits(w, c)
    PROVE  Recent(w, c, now) >= Limit[w]
<1>1. PICK S, limit, counter :
          S = passed[w][c] /\ limit = Limit[w] /\ counter = entries[w][c]
  OBVIOUS
<1>2. limit \in Nat \ {0} /\ now \in Nat
  BY <1>1, SomeFit DEF RateInv
<1>3. c \in DOMAIN entries[w] /\ ~ (now - counter.start > Span)
      /\ ~ (counter.count + 1 <= limit)
  BY <1>1 DEF Fits, Fresh, RolledOver
<1>4. /\ History(S, now) /\ Running(S, forgiven[w][c], counter, limit, now)
      /\ counter.start \in 0 .. now
  BY <1>1, <1>3 DEF PassedInv, Account, RateInv, IsMap
<1>5. Cardinality(Since(S, counter.start)) >= limit
  BY <1>2, <1>3, <1>4 DEF Running, Had
<1>6. Since(S, counter.start) \subseteq Stretch(S, now)
  BY <1>2, <1>3, <1>4 DEF Since, Stretch, History, RateAssumption
<1>7. Stretch(S, now) \subseteq S /\ IsFiniteSet(S)
  BY <1>4 DEF Stretch, History
<1>8. IsFiniteSet(Stretch(S, now)) /\ Cardinality(Stretch(S, now)) \in Nat
  BY <1>7, FS_Subset, FS_CardinalityType
<1>9. IsFiniteSet(Since(S, counter.start)) /\ Cardinality(Since(S, counter.start)) \in Nat
      /\ Cardinality(Since(S, counter.start)) <= Cardinality(Stretch(S, now))
  BY <1>6, <1>8, FS_Subset, FS_CardinalityType
<1> QED
  BY <1>1, <1>2, <1>5, <1>8, <1>9 DEF Recent, Within, Stretch

LEMMA PassedAlways == Spec => [](RateInv /\ PassedInv)
<1>1. Init => RateInv /\ PassedInv
  BY InitInv, InitPassed, RateAssumption
<1>2. RateInv /\ PassedInv /\ [Next]_vars => (RateInv /\ PassedInv)'
  BY NextInv, NextPassed, RateAssumption
<1> QED
  BY <1>1, <1>2, PTL DEF Spec

\* ratelimit.go, "the point is to make abuse slow": whatever the limits, the
\* window and whoever calls, no stretch of time as long as the window lets
\* through more than the two windows it can touch, and one for every login in
\* it that succeeded (service.go 117).
THEOREM LimitCorrect == Spec => []LimitPerWindow
<1>1. RateInv /\ PassedInv => LimitPerWindow
  BY DEF PassedInv, Account, Past, Allowance, LimitPerWindow, Recent, Resets
<1> QED
  BY <1>1, PassedAlways, PTL

\* commandlimit.go, "one visitor spending their budget must not spend
\* another's": whoever a command would be refused to has been let through as
\* often as the limit within the window.
THEOREM RefusedCorrect == Spec => []RefusedOverOwnBudget
<1>1. RateInv /\ PassedInv => RefusedOverOwnBudget
  <2> SUFFICES ASSUME RateInv, PassedInv, NEW a \in Accounts, NEW ip \in CommandFrom,
                      Budget(a) \in Windows, ~Fits(Budget(a), KeyOf(a, ip))
               PROVE  Recent(Budget(a), <<a, ip>>, now) >= Limit[Budget(a)]
    BY DEF RefusedOverOwnBudget
  <2>1. KeyOf(a, ip) = <<a, ip>> /\ <<a, ip>> \in Callers
    BY DEF KeyOf, Callers, Commanders
  <2> QED
    BY <2>1, RefusedHasHad, RateAssumption
<1> QED
  BY <1>1, PassedAlways, PTL
=============================================================================
