------------------------ MODULE CommandLines_proofs ------------------------
(***************************************************************************)
(* What the core reads from a submission, for any requests, objects and    *)
(* limits.                                                                 *)
(***************************************************************************)
EXTENDS MCCommands, FiniteSetTheorems, SequenceTheorems, WellFoundedInduction, TLAPS

-----------------------------------------------------------------------------
(* Sequences of sequences                                                  *)

LEMMA LeastNumber ==
    ASSUME NEW S \in SUBSET Nat, S # {}
    PROVE  \E n \in S : \A m \in S : n <= m
<1> DEFINE Less == OpToRel(<, Nat)
<1>1. IsWellFoundedOn(Less, Nat)
  BY NatLessThanWellFounded
<1>2. PICK n \in S : \A m \in S : <<m, n>> \notin Less
  BY <1>1, WFMin
<1>3. ASSUME NEW m \in S PROVE n <= m
  <2>1. <<m, n>> \in Less <=> m < n
    BY DEF OpToRel
  <2> HIDE DEF Less
  <2> QED
    BY <1>2, <2>1
<1> QED
  BY <1>3

\* The sequences joined so far, one after the other.
Joined(f, s, n) ==
    /\ f[1] = s[1]
    /\ \A i \in 2 .. n : f[i] = f[i - 1] \o s[i]

LEMMA JoinedExists ==
    ASSUME NEW n \in Nat \ {0}, NEW S, NEW s \in [1 .. n -> Seq(S)]
    PROVE  \E f \in [1 .. n -> Seq(S)] : Joined(f, s, n)
<1> DEFINE bad == {m \in 1 .. n : ~ \E f \in [1 .. m -> Seq(S)] : Joined(f, s, m)}
<1>1. SUFFICES ASSUME bad # {} PROVE FALSE
  OBVIOUS
<1>2. PICK m \in bad : \A k \in bad : m <= k
  <2>1. bad \in SUBSET Nat
    OBVIOUS
  <2> HIDE DEF bad
  <2> QED
    BY <1>1, <2>1, LeastNumber
<1>3. CASE m = 1
  <2>1. [i \in 1 .. 1 |-> s[1]] \in [1 .. 1 -> Seq(S)]
    OBVIOUS
  <2>2. Joined([i \in 1 .. 1 |-> s[1]], s, 1)
    BY DEF Joined
  <2> QED
    BY <1>2, <1>3, <2>1, <2>2
<1>4. CASE m # 1
  <2>0. m \in 1 .. n
    OBVIOUS
  <2>1. m - 1 \in 1 .. n /\ m - 1 \notin bad
    <3> HIDE DEF bad
    <3>1. m - 1 \in 1 .. n /\ ~(m <= m - 1)
      BY <1>4, <2>0
    <3> QED
      BY <1>2, <3>1
  <2>2. PICK f \in [1 .. m - 1 -> Seq(S)] : Joined(f, s, m - 1)
    BY <2>1
  <2> HIDE DEF bad
  <2>3. PICK g : g = [i \in 1 .. m |-> IF i = m THEN f[m - 1] \o s[m] ELSE f[i]]
    OBVIOUS
  <2>4. f[m - 1] \o s[m] \in Seq(S)
    <3>0. m - 1 \in 1 .. m - 1
      BY <2>0, <2>1
    <3>1. f[m - 1] \in Seq(S) /\ s[m] \in Seq(S)
      BY <2>0, <2>2, <3>0
    <3> QED
      BY <3>1, ConcatProperties
  <2>5. g \in [1 .. m -> Seq(S)]
    <3>1. ASSUME NEW i \in 1 .. m, i # m PROVE f[i] \in Seq(S)
      <4>1. i \in 1 .. m - 1
        BY <2>0, <3>1
      <4> QED
        BY <2>2, <4>1
    <3> QED
      BY <2>3, <2>4, <3>1
  <2>6. g[1] = s[1]
    BY <1>4, <2>0, <2>2, <2>3 DEF Joined
  <2>7. ASSUME NEW i \in 2 .. m PROVE g[i] = g[i - 1] \o s[i]
    <3>1. i \in 1 .. m /\ i - 1 \in 1 .. m /\ i - 1 # m
      BY <2>0
    <3>2. CASE i = m
      BY <2>3, <3>1, <3>2
    <3>3. CASE i # m
      <4>1. i \in 2 .. m - 1
        BY <2>0, <3>3
      <4> QED
        BY <2>2, <2>3, <3>1, <3>3, <4>1 DEF Joined
    <3> QED
      BY <3>2, <3>3
  <2>8. Joined(g, s, m)
    BY <2>6, <2>7 DEF Joined
  <2> QED
    BY <1>2, <2>5, <2>8 DEF bad
<1> QED
  BY <1>3, <1>4

LEMMA FlattenIsJoined ==
    ASSUME NEW n \in Nat \ {0}, NEW S, NEW s \in [1 .. n -> Seq(S)]
    PROVE  \E f \in [1 .. n -> Seq(S)] : Joined(f, s, n) /\ FlattenSeq(s) = f[n]
<1>1. PICK f \in [1 .. n -> Seq(S)] : Joined(f, s, n)
  BY JoinedExists
<1>2. Len(s) = n
  OBVIOUS
<1>3. f = [i \in 1 .. n |-> IF i = 1 THEN s[i] ELSE f[i - 1] \o s[i]]
  <2>1. \A i \in 1 .. n : f[i] = IF i = 1 THEN s[i] ELSE f[i - 1] \o s[i]
    <3> SUFFICES ASSUME NEW i \in 1 .. n, i # 1 PROVE f[i] = f[i - 1] \o s[i]
      BY <1>1 DEF Joined
    <3>1. i \in 2 .. n
      OBVIOUS
    <3> QED
      BY <1>1, <3>1 DEF Joined
  <2> QED
    BY <2>1
<1>4. ASSUME NEW g, g = [i \in 1 .. n |-> IF i = 1 THEN s[i] ELSE g[i - 1] \o s[i]]
      PROVE  g = f
  <2> DEFINE bad == {i \in 1 .. n : g[i] # f[i]}
  <2>0. DOMAIN g = 1 .. n /\ (\A i \in 1 .. n : g[i] = IF i = 1 THEN s[i] ELSE g[i - 1] \o s[i])
        /\ g = [i \in DOMAIN g |-> g[i]]
    <3>1. PICK h : h = [i \in 1 .. n |-> IF i = 1 THEN s[i] ELSE g[i - 1] \o s[i]]
      OBVIOUS
    <3>2. DOMAIN h = 1 .. n /\ (\A i \in 1 .. n : h[i] = IF i = 1 THEN s[i] ELSE g[i - 1] \o s[i])
          /\ h = [i \in DOMAIN h |-> h[i]]
      BY <3>1
    <3>3. g = h
      BY <1>4, <3>1
    <3> QED
      BY <3>2, <3>3
  <2>1. SUFFICES ASSUME bad # {} PROVE FALSE
    BY <1>1, <2>0
  <2>2. PICK m \in bad : \A k \in bad : m <= k
    <3>1. bad \in SUBSET Nat
      OBVIOUS
    <3> HIDE DEF bad
    <3> QED
      BY <2>1, <3>1, LeastNumber
  <2>3. m \in 1 .. n /\ g[m] # f[m]
    OBVIOUS
  <2>4. m # 1 => g[m - 1] = f[m - 1]
    <3> SUFFICES ASSUME m # 1, g[m - 1] # f[m - 1] PROVE FALSE
      OBVIOUS
    <3>1. m - 1 \in 1 .. n /\ ~(m <= m - 1)
      BY <2>3
    <3>2. m - 1 \in bad
      BY <3>1
    <3> HIDE DEF bad
    <3> QED
      BY <2>2, <3>1, <3>2
  <2>5. f[m] = IF m = 1 THEN s[m] ELSE f[m - 1] \o s[m]
    <3>1. m # 1 => m \in 2 .. n
      BY <2>3
    <3> QED
      BY <1>1, <3>1 DEF Joined
  <2>6. g[m] = IF m = 1 THEN s[m] ELSE g[m - 1] \o s[m]
    BY <2>0, <2>3
  <2> QED
    BY <2>3, <2>4, <2>5, <2>6
<1>5. FlattenSeq(s) = (CHOOSE g : g = [i \in 1 .. n |-> IF i = 1 THEN s[i] ELSE g[i - 1] \o s[i]])[n]
  BY <1>2 DEF FlattenSeq
<1> QED
  BY <1>1, <1>3, <1>4, <1>5

\* Each element of the first n sequences has a place in flat, and each place an
\* element, in the same order.
Places(flat, s, n) ==
    /\ \A i \in 1 .. n : \A j \in 1 .. Len(s[i]) : \E k \in 1 .. Len(flat) : flat[k] = s[i][j]
    /\ \A k \in 1 .. Len(flat) : \E i \in 1 .. n : \E j \in 1 .. Len(s[i]) : flat[k] = s[i][j]
    /\ \A k, l \in 1 .. Len(flat) : k < l =>
           \E i, ii \in 1 .. n : \E j \in 1 .. Len(s[i]), jj \in 1 .. Len(s[ii]) :
               /\ flat[k] = s[i][j] /\ flat[l] = s[ii][jj]
               /\ i < ii \/ (i = ii /\ j < jj)

LEMMA PlacesAppended ==
    ASSUME NEW S, NEW m \in Nat \ {0}, NEW s, s[m] \in Seq(S),
           NEW a \in Seq(S), Places(a, s, m - 1)
    PROVE  Places(a \o s[m], s, m)
<1>1. PICK b \in Seq(S) : b = s[m]
  OBVIOUS
<1>2. PICK c \in Seq(S) : c = a \o b
  BY ConcatProperties
<1>3. /\ Len(a) \in Nat /\ Len(b) \in Nat /\ Len(c) = Len(a) + Len(b)
      /\ \A k \in 1 .. Len(c) : c[k] = IF k <= Len(a) THEN a[k] ELSE b[k - Len(a)]
  BY <1>2, ConcatProperties, LenProperties
<1>4. ASSUME NEW i \in 1 .. m, NEW j \in 1 .. Len(s[i])
      PROVE  \E k \in 1 .. Len(c) : c[k] = s[i][j]
  <2>1. CASE i = m
    <3>1. Len(a) + j \in 1 .. Len(c) /\ ~(Len(a) + j <= Len(a)) /\ Len(a) + j - Len(a) = j
      BY <1>1, <1>3, <2>1
    <3>2. c[Len(a) + j] = b[j]
      BY <1>3, <3>1
    <3> QED
      BY <1>1, <2>1, <3>1, <3>2
  <2>2. CASE i # m
    <3>1. i \in 1 .. m - 1
      BY <2>2
    <3>2. PICK k \in 1 .. Len(a) : a[k] = s[i][j]
      BY <3>1 DEF Places
    <3>3. k \in 1 .. Len(c) /\ k <= Len(a)
      BY <1>3
    <3> QED
      BY <1>3, <3>2, <3>3
  <2> QED
    BY <2>1, <2>2
<1>5. ASSUME NEW k \in 1 .. Len(c), k > Len(a)
      PROVE  k - Len(a) \in 1 .. Len(s[m]) /\ c[k] = s[m][k - Len(a)]
  BY <1>1, <1>3, <1>5
<1>6. ASSUME NEW k \in 1 .. Len(c), k <= Len(a)
      PROVE  k \in 1 .. Len(a) /\ c[k] = a[k]
  BY <1>3, <1>6
<1>7. m \in 1 .. m /\ \A i \in 1 .. m - 1 : i \in 1 .. m /\ i < m
  OBVIOUS
<1>8. ASSUME NEW k \in 1 .. Len(c)
      PROVE  \E i \in 1 .. m : \E j \in 1 .. Len(s[i]) : c[k] = s[i][j]
  <2>1. CASE k > Len(a)
    BY <1>5, <1>7, <2>1
  <2>2. CASE k <= Len(a)
    BY <1>6, <1>7, <2>2 DEF Places
  <2> QED
    BY <1>3, <2>1, <2>2
<1>9. ASSUME NEW k \in 1 .. Len(c), NEW l \in 1 .. Len(c), k < l
      PROVE  \E i, ii \in 1 .. m : \E j \in 1 .. Len(s[i]), jj \in 1 .. Len(s[ii]) :
                 /\ c[k] = s[i][j] /\ c[l] = s[ii][jj]
                 /\ i < ii \/ (i = ii /\ j < jj)
  <2>1. CASE l <= Len(a)
    <3>1. k \in 1 .. Len(a) /\ l \in 1 .. Len(a) /\ c[k] = a[k] /\ c[l] = a[l]
      BY <1>3, <1>6, <1>9, <2>1
    <3>2. PICK i \in 1 .. m - 1, ii \in 1 .. m - 1 :
             \E j \in 1 .. Len(s[i]), jj \in 1 .. Len(s[ii]) :
                 /\ a[k] = s[i][j] /\ a[l] = s[ii][jj]
                 /\ i < ii \/ (i = ii /\ j < jj)
      <4>1. \A kk, ll \in 1 .. Len(a) : kk < ll =>
               \E i, ii \in 1 .. m - 1 : \E j \in 1 .. Len(s[i]), jj \in 1 .. Len(s[ii]) :
                   /\ a[kk] = s[i][j] /\ a[ll] = s[ii][jj]
                   /\ i < ii \/ (i = ii /\ j < jj)
        BY DEF Places
      <4> QED
        BY ONLY <1>9, <3>1, <4>1
    <3> QED
      BY <1>7, <3>1, <3>2
  <2>2. CASE l > Len(a) /\ k <= Len(a)
    <3>1. k \in 1 .. Len(a) /\ c[k] = a[k]
      BY <1>6, <2>2
    <3>2. PICK i \in 1 .. m - 1 : \E j \in 1 .. Len(s[i]) : a[k] = s[i][j]
      BY <3>1 DEF Places
    <3> QED
      BY <1>5, <1>7, <2>2, <3>1, <3>2
  <2>3. CASE k > Len(a)
    <3>1. l > Len(a) /\ k - Len(a) < l - Len(a)
      BY <1>3, <1>9, <2>3
    <3> QED
      BY <1>5, <1>7, <2>3, <3>1
  <2> QED
    BY <1>3, <2>1, <2>2, <2>3
<1>10. Places(c, s, m)
  BY <1>4, <1>8, <1>9 DEF Places
<1> QED
  BY <1>1, <1>2, <1>10

\* FlattenSeq keeps each element, in its order.
LEMMA FlattenPlaces ==
    ASSUME NEW n \in Nat, NEW S, NEW s \in [1 .. n -> Seq(S)]
    PROVE  FlattenSeq(s) \in Seq(S) /\ Places(FlattenSeq(s), s, n)
<1>1. CASE n = 0
  <2>1. Len(s) = 0 /\ s = << >>
    BY <1>1
  <2>2. FlattenSeq(s) = << >>
    BY <2>1 DEF FlattenSeq
  <2> QED
    BY <1>1, <2>2 DEF Places
<1>2. CASE n # 0
  <2>1. PICK f \in [1 .. n -> Seq(S)] : Joined(f, s, n) /\ FlattenSeq(s) = f[n]
    BY <1>2, FlattenIsJoined
  <2> DEFINE bad == {m \in 1 .. n : ~ Places(f[m], s, m)}
  <2>2. SUFFICES ASSUME bad # {} PROVE FALSE
    <3>1. n \in 1 .. n
      BY <1>2
    <3> QED
      BY <2>1, <3>1
  <2>3. PICK m \in bad : \A k \in bad : m <= k
    <3>1. bad \in SUBSET Nat
      OBVIOUS
    <3> HIDE DEF bad
    <3> QED
      BY <2>2, <3>1, LeastNumber
  <2>4. m \in 1 .. n /\ ~ Places(f[m], s, m) /\ s[m] \in Seq(S) /\ m \in Nat \ {0}
    OBVIOUS
  <2>5. CASE m = 1
    <3>1. Places(<< >>, s, m - 1)
      BY <2>5 DEF Places
    <3>2. << >> \o s[m] = s[m]
      BY <2>4, ConcatEmptySeq
    <3>3. << >> \in Seq(S)
      BY EmptySeq
    <3>4. Places(s[m], s, m)
      <4>1. Places(<< >> \o s[m], s, m)
        BY ONLY <2>4, <3>1, <3>3, PlacesAppended
      <4> QED
        BY <3>2, <4>1
    <3> QED
      BY <2>1, <2>4, <2>5, <3>4 DEF Joined
  <2>6. CASE m # 1
    <3>1. m - 1 \in 1 .. n /\ ~(m <= m - 1) /\ m \in 2 .. n
      BY <2>4, <2>6
    <3>2. m - 1 \notin bad
      <4> HIDE DEF bad
      <4> QED
        BY <2>3, <3>1
    <3>3. Places(f[m - 1], s, m - 1) /\ f[m - 1] \in Seq(S)
      BY <3>1, <3>2
    <3>4. f[m] = f[m - 1] \o s[m]
      BY <2>1, <3>1 DEF Joined
    <3> QED
      <4>1. PICK a \in Seq(S) : a = f[m - 1]
        BY <3>3
      <4>2. Places(a, s, m - 1)
        BY <3>3, <4>1
      <4>3. Places(a \o s[m], s, m)
        BY ONLY <2>4, <4>1, <4>2, PlacesAppended
      <4> QED
        BY <2>4, <3>4, <4>1, <4>3
  <2> QED
    BY <2>5, <2>6
<1> QED
  BY <1>1, <1>2

\* Where each sequence has one element, those are the sequence.
LEMMA FlattenSingles ==
    ASSUME NEW n \in Nat, NEW S, NEW t \in [1 .. n -> S]
    PROVE  FlattenSeq([i \in 1 .. n |-> <<t[i]>>]) = t
<1> DEFINE s == [i \in 1 .. n |-> <<t[i]>>]
<1>1. s \in [1 .. n -> Seq(S)]
  OBVIOUS
<1>2. CASE n = 0
  <2>1. Len(s) = 0 /\ s = << >> /\ t = << >>
    BY <1>2
  <2> QED
    BY <2>1 DEF FlattenSeq
<1>3. CASE n # 0
  <2> HIDE DEF s
  <2>1. PICK f \in [1 .. n -> Seq(S)] : Joined(f, s, n) /\ FlattenSeq(s) = f[n]
    BY <1>1, <1>3, FlattenIsJoined
  <2> DEFINE IsSo(m) == Len(f[m]) = m /\ \A j \in 1 .. m : f[m][j] = t[j]
  <2> DEFINE bad == {m \in 1 .. n : ~ IsSo(m)}
  <2>2. ASSUME bad # {} PROVE FALSE
    <3>1. PICK m \in bad : \A k \in bad : m <= k
      <4>1. bad \in SUBSET Nat
        OBVIOUS
      <4> HIDE DEF bad
      <4> QED
        BY <2>2, <4>1, LeastNumber
    <3>2. m \in 1 .. n /\ ~ IsSo(m)
      OBVIOUS
    <3>3. s[m] = <<t[m]>> /\ t[m] \in S
      BY <3>2 DEF s
    <3>4. CASE m = 1
      <4>1. f[m] = <<t[1]>>
        BY <2>1, <3>3, <3>4 DEF Joined
      <4> QED
        BY <3>2, <3>4, <4>1
    <3>5. CASE m # 1
      <4>1. m - 1 \in 1 .. n /\ ~(m <= m - 1) /\ m \in 2 .. n
        BY <3>2, <3>5
      <4>2. m - 1 \notin bad
        <5> HIDE DEF bad
        <5> QED
          BY <3>1, <4>1
      <4>3. IsSo(m - 1) /\ f[m - 1] \in Seq(S)
        BY <4>1, <4>2
      <4>4. f[m] = f[m - 1] \o <<t[m]>> /\ <<t[m]>> \in Seq(S) /\ Len(<<t[m]>>) = 1
            /\ <<t[m]>>[1] = t[m]
        <5>1. f[m] = f[m - 1] \o s[m]
          BY <2>1, <4>1 DEF Joined
        <5> QED
          BY <3>3, <5>1
      <4>5. PICK a \in Seq(S), b \in Seq(S) : a = f[m - 1] /\ b = <<t[m]>>
        BY <4>3, <4>4
      <4>6. /\ Len(f[m]) = (m - 1) + 1
            /\ \A j \in 1 .. (m - 1) + 1 : f[m][j] = IF j <= m - 1 THEN a[j] ELSE b[j - (m - 1)]
        BY <4>3, <4>4, <4>5, ConcatProperties
      <4>7. IsSo(m)
        BY <3>2, <4>3, <4>4, <4>5, <4>6
      <4> QED
        BY <3>2, <4>7
    <3> QED
      BY <3>4, <3>5
  <2>3. IsSo(n)
    <3>1. n \in 1 .. n
      BY <1>3
    <3>2. n \notin bad
      BY <2>2
    <3> QED
      BY <3>1, <3>2
  <2>4. f[n] = t
    <3>1. f[n] \in Seq(S) /\ t \in Seq(S) /\ Len(t) = n
      BY <1>3, <2>1
    <3> QED
      BY <2>3, <3>1, SeqEqual
  <2> QED
    BY <2>1, <2>4 DEF s
<1> QED
  BY <1>2, <1>3

-----------------------------------------------------------------------------
(* The objects of a request                                                *)

\* resolve: each object that is named is there, and none twice.
LEMMA DistinctIs ==
    ASSUME NEW S, NEW targets \in Seq(S)
    PROVE  /\ Distinct(targets) \in Seq(S)
           /\ ToSet(Distinct(targets)) = ToSet(targets)
           /\ \A k, l \in 1 .. Len(Distinct(targets)) :
                 k < l => Distinct(targets)[k] # Distinct(targets)[l]
<1>1. PICK n \in Nat : n = Len(targets) /\ DOMAIN targets = 1 .. n
                       /\ \A i \in 1 .. n : targets[i] \in S
  BY LenProperties
<1> DEFINE Repeated(i) == \E j \in 1 .. i - 1 : targets[j] = targets[i]
<1>2. PICK s : s = [i \in 1 .. n |-> IF Repeated(i) THEN << >> ELSE <<targets[i]>>]
  OBVIOUS
<1>3. Distinct(targets) = FlattenSeq(s)
  BY <1>1, <1>2 DEF Distinct
<1>4. s \in [1 .. n -> Seq(S)]
  BY <1>1, <1>2
<1>5. PICK flat : flat = FlattenSeq(s)
  OBVIOUS
<1>6. flat \in Seq(S) /\ Places(flat, s, n)
  BY <1>4, <1>5, FlattenPlaces
<1>7. ASSUME NEW i \in 1 .. n, NEW j \in 1 .. Len(s[i])
      PROVE  ~ Repeated(i) /\ j = 1 /\ s[i][j] = targets[i]
  BY <1>2
<1>8. ASSUME NEW i \in 1 .. n, ~ Repeated(i)
      PROVE  1 \in 1 .. Len(s[i]) /\ s[i][1] = targets[i]
  BY <1>2, <1>8
<1>9. ASSUME NEW k \in 1 .. Len(flat)
      PROVE  \E i \in 1 .. n : flat[k] = targets[i]
  <2>1. PICK i \in 1 .. n : \E j \in 1 .. Len(s[i]) : flat[k] = s[i][j]
    BY <1>6 DEF Places
  <2> QED
    BY <1>7, <2>1
<1>10. ASSUME NEW i \in 1 .. n
       PROVE  \E k \in 1 .. Len(flat) : flat[k] = targets[i]
  <2> DEFINE equal == {h \in 1 .. n : targets[h] = targets[i]}
  <2>1. PICK h \in equal : \A m \in equal : h <= m
    <3>1. equal \in SUBSET Nat /\ i \in equal
      OBVIOUS
    <3> HIDE DEF equal
    <3> QED
      BY <3>1, LeastNumber
  <2>2. h \in 1 .. n /\ targets[h] = targets[i]
    OBVIOUS
  <2>3. ~ Repeated(h)
    <3> SUFFICES ASSUME NEW j \in 1 .. h - 1, targets[j] = targets[h] PROVE FALSE
      OBVIOUS
    <3>1. j \in 1 .. n /\ ~(h <= j)
      BY <2>2
    <3>2. j \in equal
      BY <2>2, <3>1
    <3> HIDE DEF equal
    <3> QED
      BY <2>1, <3>1, <3>2
  <2>4. 1 \in 1 .. Len(s[h]) /\ s[h][1] = targets[i]
    BY <1>8, <2>2, <2>3
  <2> QED
    BY <1>6, <2>2, <2>4 DEF Places
<1>11. ASSUME NEW k \in 1 .. Len(flat), NEW l \in 1 .. Len(flat), k < l
       PROVE  flat[k] # flat[l]
  <2>1. PICK i \in 1 .. n, ii \in 1 .. n :
           \E j \in 1 .. Len(s[i]), jj \in 1 .. Len(s[ii]) :
               /\ flat[k] = s[i][j] /\ flat[l] = s[ii][jj]
               /\ i < ii \/ (i = ii /\ j < jj)
    BY <1>6, <1>11 DEF Places
  <2>2. PICK j \in 1 .. Len(s[i]), jj \in 1 .. Len(s[ii]) :
               /\ flat[k] = s[i][j] /\ flat[l] = s[ii][jj]
               /\ i < ii \/ (i = ii /\ j < jj)
    BY <2>1
  <2>3. j = 1 /\ jj = 1 /\ flat[k] = targets[i] /\ flat[l] = targets[ii] /\ ~ Repeated(ii)
    BY <1>7, <2>2
  <2>4. i < ii
    BY <2>2, <2>3
  <2>5. i \in 1 .. ii - 1
    BY <2>4
  <2> QED
    BY <2>3, <2>5
<1>12. DOMAIN flat = 1 .. Len(flat)
  BY <1>6, LenProperties
<1>13. ToSet(flat) = ToSet(targets)
  <2>1. ToSet(flat) = {flat[k] : k \in 1 .. Len(flat)}
        /\ ToSet(targets) = {targets[i] : i \in 1 .. n}
    BY <1>1, <1>12 DEF ToSet
  <2>2. \A x \in ToSet(flat) : x \in ToSet(targets)
    BY ONLY <1>9, <2>1
  <2>3. \A x \in ToSet(targets) : x \in ToSet(flat)
    BY ONLY <1>10, <2>1
  <2> QED
    BY <2>2, <2>3
<1> HIDE DEF Repeated
<1> QED
  BY <1>3, <1>5, <1>6, <1>11, <1>13

-----------------------------------------------------------------------------
(* The commands the core knows                                             *)

\* What can be written in a field.
Fields == STRING \cup {Number(n) : n \in Int} \cup {"0", "1"}

Whole(x) == Split(x) = <<x>>

LEMMA FormIs ==
    ASSUME NEW effect, NEW host, NEW svc, NEW objects, NEW args,
           NEW f \in Form(effect, host, svc, objects, args)
    PROVE  /\ f = [name |-> f.name, effect |-> effect, objects |-> f.objects, args |-> args]
           /\ \/ f.name = host /\ f.objects = objects
              \/ f.name = svc /\ f.objects = 2 * objects
  BY DEF Form

LEMMA TheForms ==
    /\ Form(<<"acknowledge">>, <<"ACKNOWLEDGE_HOST_PROBLEM">>,
            <<"ACKNOWLEDGE_SVC_PROBLEM">>, 1,
            <<"sticky", "notify", "persistent", "author", "comment">>) \subseteq Forms
    /\ Form(<<"remove_acknowledgement">>, <<"REMOVE_HOST_ACKNOWLEDGEMENT">>,
            <<"REMOVE_SVC_ACKNOWLEDGEMENT">>, 1, <<>>) \subseteq Forms
    /\ Form(<<"schedule_downtime">>, <<"SCHEDULE_HOST_DOWNTIME">>,
            <<"SCHEDULE_SVC_DOWNTIME">>, 1, WindowArgs) \subseteq Forms
    /\ Form(<<"all_services">>, <<"SCHEDULE_HOST_SVC_DOWNTIME">>, <<>>, 1, WindowArgs)
          \subseteq Forms
    /\ Form(<<"delete_downtime">>, <<"DEL_HOST_DOWNTIME">>, <<"DEL_SVC_DOWNTIME">>, 0,
            <<"id">>) \subseteq Forms
    /\ Form(<<"reschedule">>, <<"SCHEDULE_FORCED_HOST_CHECK">>,
            <<"SCHEDULE_FORCED_SVC_CHECK">>, 1, <<"time">>) \subseteq Forms
    /\ Form(<<"custom_notification">>, <<"SEND_CUSTOM_HOST_NOTIFICATION">>,
            <<"SEND_CUSTOM_SVC_NOTIFICATION">>, 1, <<"options", "author", "comment">>)
          \subseteq Forms
    /\ \A e \in BOOLEAN, s \in DOMAIN SwitchCommands :
          Form(<<Verb(e), s>>, <<Verb(e), SwitchCommands[s][1]>>,
               <<Verb(e), SwitchCommands[s][2]>>, 1, <<>>) \subseteq Forms
    /\ \A f \in Forms :
          \/ f \in Form(<<"acknowledge">>, <<"ACKNOWLEDGE_HOST_PROBLEM">>,
                       <<"ACKNOWLEDGE_SVC_PROBLEM">>, 1,
                       <<"sticky", "notify", "persistent", "author", "comment">>)
          \/ f \in Form(<<"remove_acknowledgement">>, <<"REMOVE_HOST_ACKNOWLEDGEMENT">>,
                       <<"REMOVE_SVC_ACKNOWLEDGEMENT">>, 1, <<>>)
          \/ f \in Form(<<"schedule_downtime">>, <<"SCHEDULE_HOST_DOWNTIME">>,
                       <<"SCHEDULE_SVC_DOWNTIME">>, 1, WindowArgs)
          \/ f \in Form(<<"all_services">>, <<"SCHEDULE_HOST_SVC_DOWNTIME">>, <<>>, 1, WindowArgs)
          \/ f \in Form(<<"delete_downtime">>, <<"DEL_HOST_DOWNTIME">>, <<"DEL_SVC_DOWNTIME">>, 0,
                       <<"id">>)
          \/ f \in Form(<<"reschedule">>, <<"SCHEDULE_FORCED_HOST_CHECK">>,
                       <<"SCHEDULE_FORCED_SVC_CHECK">>, 1, <<"time">>)
          \/ f \in Form(<<"custom_notification">>, <<"SEND_CUSTOM_HOST_NOTIFICATION">>,
                       <<"SEND_CUSTOM_SVC_NOTIFICATION">>, 1, <<"options", "author", "comment">>)
          \/ \E e \in BOOLEAN, s \in DOMAIN SwitchCommands :
                f \in Form(<<Verb(e), s>>, <<Verb(e), SwitchCommands[s][1]>>,
                          <<Verb(e), SwitchCommands[s][2]>>, 1, <<>>)
<1> DEFINE A == Form(<<"acknowledge">>, <<"ACKNOWLEDGE_HOST_PROBLEM">>,
                     <<"ACKNOWLEDGE_SVC_PROBLEM">>, 1,
                     <<"sticky", "notify", "persistent", "author", "comment">>)
           B == Form(<<"remove_acknowledgement">>, <<"REMOVE_HOST_ACKNOWLEDGEMENT">>,
                     <<"REMOVE_SVC_ACKNOWLEDGEMENT">>, 1, <<>>)
           C == Form(<<"schedule_downtime">>, <<"SCHEDULE_HOST_DOWNTIME">>,
                     <<"SCHEDULE_SVC_DOWNTIME">>, 1, WindowArgs)
           D == Form(<<"all_services">>, <<"SCHEDULE_HOST_SVC_DOWNTIME">>, <<>>, 1, WindowArgs)
           E == Form(<<"delete_downtime">>, <<"DEL_HOST_DOWNTIME">>, <<"DEL_SVC_DOWNTIME">>, 0,
                     <<"id">>)
           F == Form(<<"reschedule">>, <<"SCHEDULE_FORCED_HOST_CHECK">>,
                     <<"SCHEDULE_FORCED_SVC_CHECK">>, 1, <<"time">>)
           G == Form(<<"custom_notification">>, <<"SEND_CUSTOM_HOST_NOTIFICATION">>,
                     <<"SEND_CUSTOM_SVC_NOTIFICATION">>, 1, <<"options", "author", "comment">>)
           Of(e, s) == Form(<<Verb(e), s>>, <<Verb(e), SwitchCommands[s][1]>>,
                            <<Verb(e), SwitchCommands[s][2]>>, 1, <<>>)
           H == {Of(e, s) : e \in BOOLEAN, s \in DOMAIN SwitchCommands}
<1>1. Forms = UNION ({A, B, C, D, E, F, G} \cup H)
  BY DEF Forms
<1>2. \A e \in BOOLEAN, s \in DOMAIN SwitchCommands : Of(e, s) \in H
  OBVIOUS
<1>3. \A h \in H : \E e \in BOOLEAN, s \in DOMAIN SwitchCommands : h = Of(e, s)
  OBVIOUS
<1> HIDE DEF A, B, C, D, E, F, G, H, Of
<1>4. /\ A \subseteq Forms /\ B \subseteq Forms /\ C \subseteq Forms /\ D \subseteq Forms
      /\ E \subseteq Forms /\ F \subseteq Forms /\ G \subseteq Forms
      /\ \A e \in BOOLEAN, s \in DOMAIN SwitchCommands : Of(e, s) \subseteq Forms
      /\ \A x \in Forms :
            \/ x \in A \/ x \in B \/ x \in C \/ x \in D \/ x \in E \/ x \in F \/ x \in G
            \/ \E e \in BOOLEAN, s \in DOMAIN SwitchCommands : x \in Of(e, s)
  <2>1. /\ A \subseteq Forms /\ B \subseteq Forms /\ C \subseteq Forms /\ D \subseteq Forms
        /\ E \subseteq Forms /\ F \subseteq Forms /\ G \subseteq Forms
        /\ \A h \in H : h \subseteq Forms
        /\ \A x \in Forms :
              \/ x \in A \/ x \in B \/ x \in C \/ x \in D \/ x \in E \/ x \in F \/ x \in G
              \/ \E h \in H : x \in h
    <3> DEFINE V == {A, B, C, D, E, F, G}
    <3>1. Forms = UNION (V \cup H)
      BY <1>1
    <3>2. \A h : h \in V <=> h = A \/ h = B \/ h = C \/ h = D \/ h = E \/ h = F \/ h = G
      OBVIOUS
    <3> HIDE DEF V
    <3>3. \A h \in V : h \subseteq Forms
      BY ONLY <3>1
    <3>4. \A h \in H : h \subseteq Forms
      BY ONLY <3>1
    <3>5. \A x \in Forms : (\E h \in V : x \in h) \/ (\E h \in H : x \in h)
      BY ONLY <3>1
    <3> QED
      BY ONLY <3>2, <3>3, <3>4, <3>5, Zenon
  <2>2. \A e \in BOOLEAN, s \in DOMAIN SwitchCommands : Of(e, s) \subseteq Forms
    BY <1>2, <2>1
  <2>3. ASSUME NEW x, NEW h \in H, x \in h
        PROVE  \E e \in BOOLEAN, s \in DOMAIN SwitchCommands : x \in Of(e, s)
    BY <1>3, <2>3, Zenon
  <2>4. ASSUME NEW x \in Forms
        PROVE  \/ x \in A \/ x \in B \/ x \in C \/ x \in D \/ x \in E \/ x \in F \/ x \in G
               \/ \E e \in BOOLEAN, s \in DOMAIN SwitchCommands : x \in Of(e, s)
    BY ONLY <2>1, <2>3, <2>4, Zenon
  <2> QED
    BY ONLY <2>1, <2>2, <2>4, Zenon
<1> QED
  BY <1>4 DEF A, B, C, D, E, F, G, Of

Known(name, effect, objects, args) ==
    [name |-> name, effect |-> effect, objects |-> objects, args |-> args]

\* The command of a name that is one word, and of the one that has none.
OneWord(w) ==
    LET AckArgs == <<"sticky", "notify", "persistent", "author", "comment">>
        NoteArgs == <<"options", "author", "comment">>
    IN  CASE w = "ACKNOWLEDGE_HOST_PROBLEM" -> Known(<<w>>, <<"acknowledge">>, 1, AckArgs)
          [] w = "ACKNOWLEDGE_SVC_PROBLEM" -> Known(<<w>>, <<"acknowledge">>, 2, AckArgs)
          [] w = "REMOVE_HOST_ACKNOWLEDGEMENT" ->
                 Known(<<w>>, <<"remove_acknowledgement">>, 1, <<>>)
          [] w = "REMOVE_SVC_ACKNOWLEDGEMENT" ->
                 Known(<<w>>, <<"remove_acknowledgement">>, 2, <<>>)
          [] w = "SCHEDULE_HOST_DOWNTIME" -> Known(<<w>>, <<"schedule_downtime">>, 1, WindowArgs)
          [] w = "SCHEDULE_SVC_DOWNTIME" -> Known(<<w>>, <<"schedule_downtime">>, 2, WindowArgs)
          [] w = "SCHEDULE_HOST_SVC_DOWNTIME" ->
                 Known(<<w>>, <<"all_services">>, 1, WindowArgs)
          [] w = "DEL_HOST_DOWNTIME" -> Known(<<w>>, <<"delete_downtime">>, 0, <<"id">>)
          [] w = "DEL_SVC_DOWNTIME" -> Known(<<w>>, <<"delete_downtime">>, 0, <<"id">>)
          [] w = "SCHEDULE_FORCED_HOST_CHECK" -> Known(<<w>>, <<"reschedule">>, 1, <<"time">>)
          [] w = "SCHEDULE_FORCED_SVC_CHECK" -> Known(<<w>>, <<"reschedule">>, 2, <<"time">>)
          [] w = "SEND_CUSTOM_HOST_NOTIFICATION" ->
                 Known(<<w>>, <<"custom_notification">>, 1, NoteArgs)
          [] w = "SEND_CUSTOM_SVC_NOTIFICATION" ->
                 Known(<<w>>, <<"custom_notification">>, 2, NoteArgs)

Nameless == Known(<<>>, <<"all_services">>, 2, WindowArgs)

LEMMA FormNames ==
    ASSUME NEW f \in Forms
    PROVE  \/ \E w : f.name = <<w>> /\ f = OneWord(w)
           \/ f = Nameless
           \/ \E e \in BOOLEAN, s \in DOMAIN SwitchCommands, i \in {1, 2} :
                 f = Known(<<Verb(e), SwitchCommands[s][i]>>, <<Verb(e), s>>, i, <<>>)
<1>1. CASE f \in Form(<<"acknowledge">>, <<"ACKNOWLEDGE_HOST_PROBLEM">>,
                       <<"ACKNOWLEDGE_SVC_PROBLEM">>, 1,
                       <<"sticky", "notify", "persistent", "author", "comment">>)
  <2>1. \/ f.name = <<"ACKNOWLEDGE_HOST_PROBLEM">> /\ f = OneWord("ACKNOWLEDGE_HOST_PROBLEM")
        \/ f.name = <<"ACKNOWLEDGE_SVC_PROBLEM">> /\ f = OneWord("ACKNOWLEDGE_SVC_PROBLEM")
    BY <1>1 DEF Form, OneWord, Known
  <2> QED
    BY <2>1
<1>2. CASE f \in Form(<<"remove_acknowledgement">>, <<"REMOVE_HOST_ACKNOWLEDGEMENT">>,
                       <<"REMOVE_SVC_ACKNOWLEDGEMENT">>, 1, <<>>)
  <2>1. \/ f.name = <<"REMOVE_HOST_ACKNOWLEDGEMENT">>
           /\ f = OneWord("REMOVE_HOST_ACKNOWLEDGEMENT")
        \/ f.name = <<"REMOVE_SVC_ACKNOWLEDGEMENT">>
           /\ f = OneWord("REMOVE_SVC_ACKNOWLEDGEMENT")
    BY <1>2 DEF Form, OneWord, Known
  <2> QED
    BY <2>1
<1>3. CASE f \in Form(<<"schedule_downtime">>, <<"SCHEDULE_HOST_DOWNTIME">>,
                       <<"SCHEDULE_SVC_DOWNTIME">>, 1, WindowArgs)
  <2>1. \/ f.name = <<"SCHEDULE_HOST_DOWNTIME">> /\ f = OneWord("SCHEDULE_HOST_DOWNTIME")
        \/ f.name = <<"SCHEDULE_SVC_DOWNTIME">> /\ f = OneWord("SCHEDULE_SVC_DOWNTIME")
    BY <1>3 DEF Form, OneWord, Known
  <2> QED
    BY <2>1
<1>4. CASE f \in Form(<<"all_services">>, <<"SCHEDULE_HOST_SVC_DOWNTIME">>, <<>>, 1, WindowArgs)
  <2>1. \/ f.name = <<"SCHEDULE_HOST_SVC_DOWNTIME">>
           /\ f = OneWord("SCHEDULE_HOST_SVC_DOWNTIME")
        \/ f = Nameless
    BY <1>4 DEF Form, OneWord, Known, Nameless
  <2> QED
    BY <2>1
<1>5. CASE f \in Form(<<"delete_downtime">>, <<"DEL_HOST_DOWNTIME">>, <<"DEL_SVC_DOWNTIME">>, 0,
                       <<"id">>)
  <2>1. \/ f.name = <<"DEL_HOST_DOWNTIME">> /\ f = OneWord("DEL_HOST_DOWNTIME")
        \/ f.name = <<"DEL_SVC_DOWNTIME">> /\ f = OneWord("DEL_SVC_DOWNTIME")
    BY <1>5 DEF Form, OneWord, Known
  <2> QED
    BY <2>1
<1>6. CASE f \in Form(<<"reschedule">>, <<"SCHEDULE_FORCED_HOST_CHECK">>,
                       <<"SCHEDULE_FORCED_SVC_CHECK">>, 1, <<"time">>)
  <2>1. \/ f.name = <<"SCHEDULE_FORCED_HOST_CHECK">>
           /\ f = OneWord("SCHEDULE_FORCED_HOST_CHECK")
        \/ f.name = <<"SCHEDULE_FORCED_SVC_CHECK">>
           /\ f = OneWord("SCHEDULE_FORCED_SVC_CHECK")
    BY <1>6 DEF Form, OneWord, Known
  <2> QED
    BY <2>1
<1>7. CASE f \in Form(<<"custom_notification">>, <<"SEND_CUSTOM_HOST_NOTIFICATION">>,
                       <<"SEND_CUSTOM_SVC_NOTIFICATION">>, 1,
                       <<"options", "author", "comment">>)
  <2>1. \/ f.name = <<"SEND_CUSTOM_HOST_NOTIFICATION">>
           /\ f = OneWord("SEND_CUSTOM_HOST_NOTIFICATION")
        \/ f.name = <<"SEND_CUSTOM_SVC_NOTIFICATION">>
           /\ f = OneWord("SEND_CUSTOM_SVC_NOTIFICATION")
    BY <1>7 DEF Form, OneWord, Known
  <2> QED
    BY <2>1
<1>8. ASSUME NEW e \in BOOLEAN, NEW s \in DOMAIN SwitchCommands,
             f \in Form(<<Verb(e), s>>, <<Verb(e), SwitchCommands[s][1]>>,
                        <<Verb(e), SwitchCommands[s][2]>>, 1, <<>>)
      PROVE  \E i \in {1, 2} :
                f = Known(<<Verb(e), SwitchCommands[s][i]>>, <<Verb(e), s>>, i, <<>>)
  BY <1>8 DEF Form, Known
<1> QED
  BY ONLY TheForms, <1>1, <1>2, <1>3, <1>4, <1>5, <1>6, <1>7, <1>8

LEMMA SwitchNames ==
    ASSUME NEW s \in DOMAIN SwitchCommands, NEW i \in {1, 2},
           NEW ss \in DOMAIN SwitchCommands, NEW ii \in {1, 2},
           SwitchCommands[s][i] = SwitchCommands[ss][ii]
    PROVE  s = ss /\ i = ii
  BY DEF SwitchCommands

\* A name says which command it is.
LEMMA NamesDiffer ==
    ASSUME NEW f \in Forms, NEW g \in Forms, f.name = g.name
    PROVE  f = g
<1>1. \A w, ww : <<w>> = <<ww>> => w = ww
  OBVIOUS
<1>2. \A w, ww, v : <<w>> # <<ww, v>> /\ <<w>> # << >> /\ <<w, v>> # << >>
  OBVIOUS
<1>3. Nameless.name = << >>
  BY DEF Nameless, Known
<1>4. \A n, a, b, c : Known(n, a, b, c).name = n
  BY DEF Known
<1>g. \/ \E w : g.name = <<w>> /\ g = OneWord(w)
      \/ g = Nameless
      \/ \E e \in BOOLEAN, s \in DOMAIN SwitchCommands, i \in {1, 2} :
            g = Known(<<Verb(e), SwitchCommands[s][i]>>, <<Verb(e), s>>, i, <<>>)
  BY FormNames
<1>5. CASE \E w : f.name = <<w>> /\ f = OneWord(w)
  <2>1. PICK w : f.name = <<w>> /\ f = OneWord(w)
    BY <1>5
  <2>2. g # Nameless
    BY <1>2, <1>3, <2>1
  <2>3. ASSUME NEW e \in BOOLEAN, NEW s \in DOMAIN SwitchCommands, NEW i \in {1, 2}
        PROVE  g # Known(<<Verb(e), SwitchCommands[s][i]>>, <<Verb(e), s>>, i, <<>>)
    <3>1. Known(<<Verb(e), SwitchCommands[s][i]>>, <<Verb(e), s>>, i, <<>>).name
              = <<Verb(e), SwitchCommands[s][i]>>
      BY <1>4
    <3> QED
      BY <1>2, <2>1, <3>1
  <2>4. PICK ww : g.name = <<ww>> /\ g = OneWord(ww)
    BY <1>g, <2>2, <2>3
  <2> QED
    BY <1>1, <2>1, <2>4
<1>6. CASE f = Nameless
  <2>1. g.name = << >>
    BY <1>3, <1>6
  <2>2. \A w : g.name # <<w>>
    BY <1>2, <2>1
  <2>3. ASSUME NEW e \in BOOLEAN, NEW s \in DOMAIN SwitchCommands, NEW i \in {1, 2}
        PROVE  g # Known(<<Verb(e), SwitchCommands[s][i]>>, <<Verb(e), s>>, i, <<>>)
    BY <1>2, <1>4, <2>1
  <2> QED
    BY <1>g, <1>6, <2>2, <2>3
<1>7. CASE \E e \in BOOLEAN, s \in DOMAIN SwitchCommands, i \in {1, 2} :
                 f = Known(<<Verb(e), SwitchCommands[s][i]>>, <<Verb(e), s>>, i, <<>>)
  <2>1. PICK e \in BOOLEAN, s \in DOMAIN SwitchCommands, i \in {1, 2} :
                 f = Known(<<Verb(e), SwitchCommands[s][i]>>, <<Verb(e), s>>, i, <<>>)
    BY <1>7
  <2>2. PICK ee \in BOOLEAN, ss \in DOMAIN SwitchCommands, ii \in {1, 2} :
                 g = Known(<<Verb(ee), SwitchCommands[ss][ii]>>, <<Verb(ee), ss>>, ii, <<>>)
    <3>1. f.name = <<Verb(e), SwitchCommands[s][i]>>
      BY <1>4, <2>1
    <3>2. g # Nameless /\ \A w : g.name # <<w>>
      BY <1>2, <1>3, <3>1
    <3> QED
      BY <1>g, <3>2
  <2>3. Verb(e) = Verb(ee) /\ SwitchCommands[s][i] = SwitchCommands[ss][ii]
    BY <1>4, <2>1, <2>2
  <2> QED
    BY <2>1, <2>2, <2>3, SwitchNames
<1> QED
  BY <1>5, <1>6, <1>7, FormNames, Zenon

-----------------------------------------------------------------------------
(* What the core reads from a line                                         *)

LEMMA CommandOf ==
    ASSUME NEW f \in Forms
    PROVE  (CHOOSE g \in Forms : g.name = f.name) = f
  BY NamesDiffer

\* The fields of a line in which nothing is split.
LEMMA WholeLine ==
    ASSUME NEW line \in Seq(Fields), \A i \in 1 .. Len(line) : Whole(line[i])
    PROVE  FlattenSeq([i \in DOMAIN line |-> Split(line[i])]) = line
<1>1. PICK n \in Nat : n = Len(line) /\ DOMAIN line = 1 .. n /\ line \in [1 .. n -> Fields]
  BY LenProperties
<1>2. [i \in DOMAIN line |-> Split(line[i])] = [i \in 1 .. n |-> <<line[i]>>]
  BY <1>1 DEF Whole
<1> QED
  BY <1>1, <1>2, FlattenSingles

\* args gives each field of rest its name.
Names(args, names, rest) ==
    /\ DOMAIN names = 1 .. Len(rest)
    /\ \A i, j \in DOMAIN names : names[i] = names[j] => i = j
    /\ args = [a \in DOMAIN args |-> args[a]] /\ DOMAIN args = Range(names)
    /\ \A i \in DOMAIN names : args[names[i]] = rest[i]

AllWhole(line) == \A i \in 1 .. Len(line) : Whole(line[i])

\* Where each field is whole, the object is the fields that lead the line and an
\* argument the field at its place.
LEMMA LineReads ==
    ASSUME NEW f \in Forms, NEW lead \in Seq(Fields), NEW rest \in Seq(Fields), NEW args,
           AllWhole(lead), AllWhole(rest), f.objects = Len(lead), Names(args, f.args, rest)
    PROVE  ReadLine(f.name, lead \o rest) = [effect |-> f.effect, object |-> lead, args |-> args]
<1>0. /\ DOMAIN f.args = 1 .. Len(rest)
      /\ \A i, j \in DOMAIN f.args : f.args[i] = f.args[j] => i = j
      /\ args = [a \in DOMAIN args |-> args[a]] /\ DOMAIN args = Range(f.args)
      /\ \A i \in DOMAIN f.args : args[f.args[i]] = rest[i]
  BY DEF Names
<1>1. PICK line \in Seq(Fields) : line = lead \o rest
  BY ConcatProperties
<1>2. /\ Len(lead) \in Nat /\ Len(rest) \in Nat /\ Len(line) = Len(lead) + Len(rest)
      /\ \A k \in 1 .. Len(line) :
            line[k] = IF k <= Len(lead) THEN lead[k] ELSE rest[k - Len(lead)]
  BY <1>1, ConcatProperties, LenProperties
<1>3. ASSUME NEW k \in 1 .. Len(line) PROVE Whole(line[k])
  <2>1. CASE k <= Len(lead)
    BY <1>2, <2>1 DEF AllWhole
  <2>2. CASE ~(k <= Len(lead))
    <3>1. k - Len(lead) \in 1 .. Len(rest)
      BY <1>2, <2>2
    <3> QED
      BY <1>2, <2>2, <3>1 DEF AllWhole
  <2> QED
    BY <2>1, <2>2
<1>4. FlattenSeq([i \in DOMAIN line |-> Split(line[i])]) = line
  BY <1>3, WholeLine
<1>5. SubSeq(line, 1, Len(lead)) = lead
  <2>0. 1 \in 1 .. Len(line) + 1 /\ Len(lead) \in 1 - 1 .. Len(line) /\ Len(lead) - 1 + 1 = Len(lead)
        /\ (1 <= Len(lead) \/ Len(lead) = 0)
    BY <1>2
  <2>1. PICK sub \in Seq(Fields) : sub = SubSeq(line, 1, Len(lead))
    <3>1. \A i \in 1 .. Len(lead) : i \in 1 .. Len(line)
      BY <1>2
    <3>2. \A i \in 1 .. Len(lead) : line[i] \in Fields
      BY <3>1
    <3>3. SubSeq(line, 1, Len(lead)) \in Seq(Fields)
      BY ONLY <1>2, <3>2, SubSeqProperties
    <3> QED
      BY <3>3
  <2>2. Len(sub) = Len(lead) /\ \A i \in 1 .. Len(lead) : sub[i] = lead[i]
    <3>1. Len(sub) = Len(lead) /\ \A i \in 1 .. Len(lead) - 1 + 1 : sub[i] = line[1 + i - 1]
      BY ONLY line \in Seq(Fields), <1>2, <2>0, <2>1, LenProperties, SubSeqProperties
    <3> QED
      BY <1>2, <2>0, <3>1
  <2> QED
    BY <2>1, <2>2, SeqEqual
<1> DEFINE At(a) == line[f.objects + CHOOSE i \in DOMAIN f.args : f.args[i] = a]
<1>6. [a \in Range(f.args) |-> At(a)] = args
  <2>1. ASSUME NEW a \in Range(f.args)
        PROVE  At(a) = args[a]
    <3>1. PICK i \in DOMAIN f.args : f.args[i] = a
      BY <1>0 DEF Range
    <3>2. (CHOOSE j \in DOMAIN f.args : f.args[j] = a) = i
      BY <1>0, <3>1
    <3>3. i \in 1 .. Len(rest) /\ Len(lead) + i \in 1 .. Len(line) /\ ~(Len(lead) + i <= Len(lead))
          /\ Len(lead) + i - Len(lead) = i
      BY <1>0, <1>2
    <3>4. line[Len(lead) + i] = rest[i]
      BY <1>2, <3>3
    <3> QED
      BY <1>0, <3>1, <3>2, <3>4
  <2> HIDE DEF At
  <2>2. [a \in Range(f.args) |-> At(a)] = [a \in Range(f.args) |-> args[a]]
    BY <2>1
  <2> QED
    BY <1>0, <2>2
<1>7. ReadLine(f.name, line) = Apply(f, line)
  BY <1>4, CommandOf DEF ReadLine
<1>8. Apply(f, line) = [effect |-> f.effect, object |-> SubSeq(line, 1, f.objects),
                        args |-> [a \in Range(f.args) |-> At(a)]]
  BY DEF Apply
<1> HIDE DEF At
<1> QED
  BY <1>1, <1>5, <1>6, <1>7, <1>8

-----------------------------------------------------------------------------
(* What is built for one object, and what it means                         *)

Targets1 == [kind : {"host", "service"}, host : STRING, svc : STRING]

\* The commands of b do what is meant, each another thing.
Says(b, meant) ==
    \/ \E c : b = <<c>> /\ meant = {ReadCommand(c)}
    \/ \E c, d : /\ b = <<c, d>> /\ ReadCommand(c) # ReadCommand(d)
                 /\ meant = {ReadCommand(c), ReadCommand(d)}

LEMMA FieldIsWhole ==
    ASSUME NEW x, Field(x)
    PROVE  Whole(x)
  BY DEF Field, Whole, Split

LEMMA FlagIsWhole ==
    ASSUME NEW b \in BOOLEAN
    PROVE  Whole(Flag(b)) /\ Flag(b) \in Fields
  BY DEF Flag, Fields, Whole, Split

\* The objects of a command are whole fields, one for a host and two for a service.
LEMMA LeadIsWhole ==
    ASSUME NEW t \in Targets1, Valid(t)
    PROVE  /\ Lead(t) \in Seq(Fields)
           /\ Len(Lead(t)) = IF IsService(t) THEN 2 ELSE 1
           /\ AllWhole(Lead(t))
<1>1. t.host \in Fields /\ t.svc \in Fields /\ Whole(t.host) /\ (IsService(t) => Whole(t.svc))
  BY FieldIsWhole DEF Valid, IsService, Targets1, Fields
<1> QED
  BY <1>1 DEF Lead, AllWhole

\* The command the core knows for a target's kind.
LEMMA RawReads ==
    ASSUME NEW t \in Targets1, Valid(t), NEW effect, NEW host, NEW svc, NEW names,
           Form(effect, host, svc, 1, names) \subseteq Forms,
           NEW rest \in Seq(Fields), AllWhole(rest), NEW args, Names(args, names, rest)
    PROVE  ReadCommand(Raw(Named(t, host, svc), Lead(t) \o rest))
               = [effect |-> effect, object |-> Lead(t), args |-> args]
<1>1. PICK f \in Forms : /\ f.name = Named(t, host, svc) /\ f.effect = effect
                         /\ f.objects = (IF IsService(t) THEN 2 ELSE 1) /\ f.args = names
  <2>1. PICK f : f = [name |-> Named(t, host, svc), effect |-> effect,
                      objects |-> IF IsService(t) THEN 2 ELSE 1, args |-> names]
    OBVIOUS
  <2>2. f \in Form(effect, host, svc, 1, names)
    BY <2>1 DEF Form, Named
  <2> QED
    BY <2>1, <2>2
<1>2. ReadLine(f.name, Lead(t) \o rest) = [effect |-> f.effect, object |-> Lead(t), args |-> args]
  <2>1. PICK lead \in Seq(Fields) : lead = Lead(t)
    BY LeadIsWhole
  <2>2. f.objects = Len(lead) /\ AllWhole(lead)
    BY <1>1, <2>1, LeadIsWhole
  <2>3. Names(args, f.args, rest)
    BY <1>1
  <2>4. ReadLine(f.name, lead \o rest) = [effect |-> f.effect, object |-> lead, args |-> args]
    BY <2>2, <2>3, LineReads
  <2> QED
    BY <2>1, <2>4
<1> QED
  BY <1>1, <1>2 DEF ReadCommand, Raw

LEMMA AcknowledgeSays ==
    ASSUME NEW r \in Bodies, NEW t \in Targets1, NEW author \in STRING,
           r.action = "acknowledge", Acknowledge(r, t, author) # None
    PROVE  Says(Acknowledge(r, t, author), Meant(r, t, author))
<1>1. Valid(t) /\ Field(r.comment) /\ Field(author)
  BY DEF Acknowledge, Signed
<1> DEFINE rest == <<Flag(r.sticky), Flag(r.notify), Flag(r.persistent), author, r.comment>>
           names == <<"sticky", "notify", "persistent", "author", "comment">>
           args == [sticky |-> Flag(r.sticky), notify |-> Flag(r.notify),
                    persistent |-> Flag(r.persistent), author |-> author,
                    comment |-> r.comment]
           c == Raw(Named(t, <<"ACKNOWLEDGE_HOST_PROBLEM">>, <<"ACKNOWLEDGE_SVC_PROBLEM">>),
                    Lead(t) \o rest)
<1>2. rest \in Seq(Fields) /\ AllWhole(rest)
  BY <1>1, FieldIsWhole, FlagIsWhole DEF Bodies, Fields, AllWhole
<1>3. Names(args, names, rest)
  BY DEF Names, Range
<1>4. ReadCommand(c) = [effect |-> <<"acknowledge">>, object |-> Lead(t), args |-> args]
  <2>1. Form(<<"acknowledge">>, <<"ACKNOWLEDGE_HOST_PROBLEM">>, <<"ACKNOWLEDGE_SVC_PROBLEM">>,
             1, names) \subseteq Forms
    BY TheForms
  <2> HIDE DEF rest, names, args
  <2> QED
    BY <1>1, <1>2, <1>3, <2>1, RawReads
<1>5. Acknowledge(r, t, author) = <<c>>
  BY DEF Acknowledge, Named
<1>6. Meant(r, t, author) = {[effect |-> <<"acknowledge">>, object |-> Lead(t), args |-> args]}
  BY DEF Meant
<1> HIDE DEF c, args
<1> QED
  BY <1>4, <1>5, <1>6 DEF Says

\* A line that is the object and no more.
LEMMA BareReads ==
    ASSUME NEW t \in Targets1, Valid(t), NEW effect, NEW host, NEW svc,
           Form(effect, host, svc, 1, <<>>) \subseteq Forms
    PROVE  ReadCommand(Raw(Named(t, host, svc), Lead(t)))
               = [effect |-> effect, object |-> Lead(t), args |-> <<>>]
<1>1. PICK none : none = << >>
  OBVIOUS
<1>2. none \in Seq(Fields) /\ AllWhole(none)
  BY <1>1 DEF AllWhole
<1>3. Names(none, none, none)
  BY <1>1 DEF Names, Range
<1>4. Lead(t) \o none = Lead(t)
  BY <1>1, LeadIsWhole, ConcatEmptySeq
<1>5. Form(effect, host, svc, 1, none) \subseteq Forms
  BY <1>1
<1>6. ReadCommand(Raw(Named(t, host, svc), Lead(t) \o none))
          = [effect |-> effect, object |-> Lead(t), args |-> none]
  BY <1>2, <1>3, <1>5, RawReads
<1> QED
  BY <1>1, <1>4, <1>6

LEMMA RemoveSays ==
    ASSUME NEW r \in Bodies, NEW t \in Targets1, NEW author \in STRING,
           r.action = "remove_acknowledgement", RemoveAcknowledgement(t) # None
    PROVE  Says(RemoveAcknowledgement(t), Meant(r, t, author))
<1>1. Valid(t)
  BY DEF RemoveAcknowledgement
<1> DEFINE c == Raw(Named(t, <<"REMOVE_HOST_ACKNOWLEDGEMENT">>,
                          <<"REMOVE_SVC_ACKNOWLEDGEMENT">>), Lead(t))
<1>2. ReadCommand(c) = [effect |-> <<"remove_acknowledgement">>, object |-> Lead(t), args |-> <<>>]
  BY <1>1, BareReads, TheForms
<1>3. RemoveAcknowledgement(t) = <<c>>
  BY DEF RemoveAcknowledgement, Named
<1>4. Meant(r, t, author)
          = {[effect |-> <<"remove_acknowledgement">>, object |-> Lead(t), args |-> <<>>]}
  BY DEF Meant
<1> HIDE DEF c
<1> QED
  BY <1>2, <1>3, <1>4 DEF Says

LEMMA ToggleSays ==
    ASSUME NEW r \in Bodies, NEW t \in Targets1, NEW author \in STRING,
           r.action = "toggle", Toggle(r, t) # None
    PROVE  Says(Toggle(r, t), Meant(r, t, author))
<1>1. Valid(t) /\ r.switch \in DOMAIN SwitchCommands /\ r.enable \in BOOLEAN
  BY DEF Toggle, Bodies
<1> DEFINE effect == <<Verb(r.enable), r.switch>>
           host == <<Verb(r.enable), SwitchCommands[r.switch][1]>>
           svc == <<Verb(r.enable), SwitchCommands[r.switch][2]>>
           c == Raw(Named(t, host, svc), Lead(t))
<1>2. ReadCommand(c) = [effect |-> effect, object |-> Lead(t), args |-> <<>>]
  <2>1. Form(effect, host, svc, 1, <<>>) \subseteq Forms
    BY <1>1, TheForms
  <2> HIDE DEF effect, host, svc
  <2> QED
    BY <1>1, <2>1, BareReads
<1>3. Toggle(r, t) = <<c>>
  BY DEF Toggle, Named
<1>4. Meant(r, t, author) = {[effect |-> effect, object |-> Lead(t), args |-> <<>>]}
  BY DEF Meant
<1> HIDE DEF c
<1> QED
  BY <1>2, <1>3, <1>4 DEF Says

\* The numbers that a request has in it.
LEMMA NumberIsWhole ==
    ASSUME NEW r \in Requests
    PROVE  /\ \A n \in {r.start, r.end, r.end - r.start, r.duration, r.id, r.at, Now} :
                 Whole(Number(n)) /\ Number(n) \in Fields
           /\ \A n \in 0 .. 3 : Whole(Number(n)) /\ Number(n) \in Fields
<1>1. r \in Bodies /\ Now \in Int
  BY CommandLinesAssumption
<1>2. \A n \in {r.start, r.end, r.end - r.start, r.duration, r.id, r.at, Now} \cup 0 .. 3 :
         n \in Int /\ Whole(Number(n))
  BY <1>1, DigitsAreWhole DEF Bodies, Whole
<1> HIDE DEF Number
<1> QED
  BY <1>2 DEF Fields

LEMMA NotifySays ==
    ASSUME NEW r \in Requests, NEW t \in Targets1, NEW author \in STRING,
           r.action = "custom_notification", Notify(r, t, author) # None
    PROVE  Says(Notify(r, t, author), Meant(r, t, author))
<1>1. Valid(t) /\ Field(r.comment) /\ Field(author) /\ r \in Bodies
  BY CommandLinesAssumption DEF Notify, Signed
<1> DEFINE rest == <<Number(Options(r)), author, r.comment>>
           names == <<"options", "author", "comment">>
           args == [options |-> Number(Options(r)), author |-> author, comment |-> r.comment]
           c == Raw(Named(t, <<"SEND_CUSTOM_HOST_NOTIFICATION">>,
                          <<"SEND_CUSTOM_SVC_NOTIFICATION">>), Lead(t) \o rest)
<1>2. rest \in Seq(Fields) /\ AllWhole(rest)
  <2>1. Options(r) \in 0 .. 3
    BY <1>1 DEF Options, Bodies
  <2>2. Whole(Number(Options(r))) /\ Number(Options(r)) \in Fields
    BY <2>1, NumberIsWhole
  <2> QED
    BY <1>1, <2>2, FieldIsWhole DEF Bodies, Fields, AllWhole
<1>3. Names(args, names, rest)
  BY DEF Names, Range
<1>4. ReadCommand(c) = [effect |-> <<"custom_notification">>, object |-> Lead(t), args |-> args]
  <2>1. Form(<<"custom_notification">>, <<"SEND_CUSTOM_HOST_NOTIFICATION">>,
             <<"SEND_CUSTOM_SVC_NOTIFICATION">>, 1, names) \subseteq Forms
    BY TheForms
  <2> HIDE DEF rest, names, args
  <2> QED
    BY ONLY t \in Targets1, <1>1, <1>2, <1>3, <2>1, RawReads
<1>5. Notify(r, t, author) = <<c>>
  BY DEF Notify, Named
<1>6. Options(r) = CASE r.forced /\ r.broadcast -> 3
                     [] r.forced /\ ~r.broadcast -> 2
                     [] ~r.forced /\ r.broadcast -> 1
                     [] OTHER -> 0
  BY <1>1 DEF Options, Bodies
<1>7. Meant(r, t, author)
          = {[effect |-> <<"custom_notification">>, object |-> Lead(t), args |-> args]}
  BY <1>6 DEF Meant
<1> HIDE DEF c, args
<1> QED
  BY <1>4, <1>5, <1>7 DEF Says

LEMMA RescheduleSays ==
    ASSUME NEW r \in Requests, NEW t \in Targets1, NEW author \in STRING,
           r.action = "reschedule", Reschedule(r, t) # None
    PROVE  Says(Reschedule(r, t), Meant(r, t, author))
<1>1. Valid(t) /\ r \in Bodies
  BY CommandLinesAssumption DEF Reschedule
<1>2. Whole(Number(CheckTime(r))) /\ Number(CheckTime(r)) \in Fields
  BY NumberIsWhole DEF CheckTime
<1> DEFINE args == [time |-> Number(CheckTime(r))]
<1>3. CASE ~r.forced
  <2> DEFINE c == Typed("schedule_check", [object |-> Lead(t), time |-> CheckTime(r)])
  <2>1. Reschedule(r, t) = <<c>>
    BY <1>1, <1>3 DEF Reschedule
  <2>2. ReadCommand(c) = [effect |-> <<"schedule_check">>, object |-> Lead(t), args |-> args]
    BY DEF ReadCommand, ReadTyped, Typed
  <2>3. Meant(r, t, author) = {[effect |-> <<"schedule_check">>, object |-> Lead(t), args |-> args]}
    BY <1>3 DEF Meant, CheckTime
  <2> HIDE DEF c, args
  <2> QED
    BY <2>1, <2>2, <2>3 DEF Says
<1>4. CASE r.forced
  <2> DEFINE rest == <<Number(CheckTime(r))>>
             names == <<"time">>
             c == Raw(Named(t, <<"SCHEDULE_FORCED_HOST_CHECK">>,
                            <<"SCHEDULE_FORCED_SVC_CHECK">>), Lead(t) \o rest)
  <2>1. rest \in Seq(Fields) /\ AllWhole(rest)
    BY <1>2 DEF AllWhole
  <2>2. Names(args, names, rest)
    BY DEF Names, Range
  <2>3. ReadCommand(c) = [effect |-> <<"reschedule">>, object |-> Lead(t), args |-> args]
    <3>1. Form(<<"reschedule">>, <<"SCHEDULE_FORCED_HOST_CHECK">>,
               <<"SCHEDULE_FORCED_SVC_CHECK">>, 1, names) \subseteq Forms
      BY TheForms
    <3> HIDE DEF rest, names, args
    <3> QED
      BY ONLY t \in Targets1, <1>1, <2>1, <2>2, <3>1, RawReads
  <2>4. Reschedule(r, t) = <<c>>
    BY <1>1, <1>4 DEF Reschedule, Named
  <2>5. Meant(r, t, author) = {[effect |-> <<"reschedule">>, object |-> Lead(t), args |-> args]}
    BY <1>4 DEF Meant, CheckTime
  <2> HIDE DEF c, args
  <2> QED
    BY <2>3, <2>4, <2>5 DEF Says
<1> QED
  BY <1>1, <1>3, <1>4 DEF Bodies

LEMMA SubmitSays ==
    ASSUME NEW r \in Requests, NEW t \in Targets1, NEW author \in STRING,
           r.action = "submit_result", SubmitResult(r, t) # None
    PROVE  Says(SubmitResult(r, t), Meant(r, t, author))
<1> DEFINE c == Typed("check_result", [object |-> Lead(t), code |-> r.code, output |-> r.output,
                                       perf |-> r.perf, time |-> Now])
           args == [code |-> Number(r.code), output |-> r.output, perf |-> r.perf,
                    time |-> Number(Now)]
<1>1. SubmitResult(r, t) = <<c>> /\ r.output # "newline" /\ r.perf # "newline"
  BY DEF SubmitResult
<1>2. ReadCommand(c) = [effect |-> <<"check_result">>, object |-> Lead(t), args |-> args]
  BY <1>1 DEF ReadCommand, ReadTyped, Typed
<1>3. Meant(r, t, author) = {[effect |-> <<"check_result">>, object |-> Lead(t), args |-> args]}
  BY DEF Meant
<1> HIDE DEF c, args
<1> QED
  BY <1>1, <1>2, <1>3 DEF Says

LEMMA DeleteSays ==
    ASSUME NEW r \in Requests, NEW t \in Targets1, NEW author \in STRING,
           r.action = "delete_downtime", DeleteDowntime(r, t) # None
    PROVE  Says(DeleteDowntime(r, t), Meant(r, t, author))
<1> DEFINE host == <<"DEL_HOST_DOWNTIME">>
           svc == <<"DEL_SVC_DOWNTIME">>
           rest == <<Number(r.id)>>
           names == <<"id">>
           args == [id |-> Number(r.id)]
           c == Raw(Named(t, host, svc), rest)
<1>1. rest \in Seq(Fields) /\ AllWhole(rest)
  <2>1. Whole(Number(r.id)) /\ Number(r.id) \in Fields
    BY NumberIsWhole
  <2> QED
    BY <2>1 DEF AllWhole
<1>2. Names(args, names, rest)
  BY DEF Names, Range
<1>3. PICK f \in Forms : /\ f.name = Named(t, host, svc) /\ f.effect = <<"delete_downtime">>
                         /\ f.objects = 0 /\ f.args = names
  <2>1. PICK f : f = [name |-> Named(t, host, svc), effect |-> <<"delete_downtime">>,
                      objects |-> 0, args |-> names]
    OBVIOUS
  <2>2. f \in Form(<<"delete_downtime">>, host, svc, 0, names)
    BY <2>1 DEF Form, Named
  <2> QED
    BY <2>1, <2>2, TheForms
<1>4. PICK lead \in Seq(Fields) : lead = << >> /\ AllWhole(lead) /\ Len(lead) = 0
  <2>1. PICK lead : lead = << >>
    OBVIOUS
  <2>2. lead \in Seq(Fields) /\ Len(lead) = 0 /\ AllWhole(lead)
    BY <2>1 DEF AllWhole
  <2> QED
    BY <2>1, <2>2
<1>5. lead \o rest = rest
  BY <1>1, <1>4, ConcatEmptySeq
<1>6. ReadLine(f.name, lead \o rest) = [effect |-> f.effect, object |-> lead, args |-> args]
  <2> HIDE DEF rest, names, args
  <2>1. /\ f.objects = Len(lead) /\ Names(args, f.args, rest)
        /\ rest \in Seq(Fields) /\ AllWhole(rest) /\ AllWhole(lead)
    BY <1>1, <1>2, <1>3, <1>4
  <2> HIDE DEF c, host, svc
  <2> QED
    BY ONLY f \in Forms, lead \in Seq(Fields), <2>1, LineReads
<1>7. ReadCommand(c) = [effect |-> <<"delete_downtime">>, object |-> <<>>, args |-> args]
  BY <1>3, <1>4, <1>5, <1>6 DEF ReadCommand, Raw
<1>8. DeleteDowntime(r, t) = <<c>>
  BY DEF DeleteDowntime, Named
<1>9. Meant(r, t, author)
          = {[effect |-> <<"delete_downtime">>, object |-> <<>>, args |-> args]}
  BY DEF Meant
<1> HIDE DEF c, args
<1> QED
  BY <1>7, <1>8, <1>9 DEF Says

LEMMA DowntimeSays ==
    ASSUME NEW r \in Requests, NEW t \in Targets1, NEW author \in STRING,
           r.action = "schedule_downtime", ScheduleDowntime(r, t, author) # None
    PROVE  Says(ScheduleDowntime(r, t, author), Meant(r, t, author))
<1>1. Valid(t) /\ Field(r.comment) /\ Field(author) /\ r \in Bodies
  BY CommandLinesAssumption DEF ScheduleDowntime, Signed
<1> DEFINE rest == <<Number(r.start), Number(r.end), Flag(r.fixed), "0", Number(Duration(r)),
                     author, r.comment>>
           args == [start |-> Number(r.start), end |-> Number(r.end), fixed |-> Flag(r.fixed),
                    trigger |-> "0", duration |-> Number(Duration(r)), author |-> author,
                    comment |-> r.comment]
           own == Raw(Named(t, <<"SCHEDULE_HOST_DOWNTIME">>, <<"SCHEDULE_SVC_DOWNTIME">>),
                      Lead(t) \o rest)
           all == Raw(<<"SCHEDULE_HOST_SVC_DOWNTIME">>, Lead(t) \o rest)
           Does(effect) == [effect |-> effect, object |-> Lead(t), args |-> args]
<1>2. rest \in Seq(Fields) /\ AllWhole(rest)
  <2>1. /\ Whole(Number(r.start)) /\ Number(r.start) \in Fields
        /\ Whole(Number(r.end)) /\ Number(r.end) \in Fields
        /\ Whole(Number(Duration(r))) /\ Number(Duration(r)) \in Fields
    BY NumberIsWhole DEF Duration
  <2>2. Whole("0") /\ "0" \in Fields /\ Whole(Flag(r.fixed)) /\ Flag(r.fixed) \in Fields
    BY <1>1, FlagIsWhole DEF Whole, Split, Fields, Bodies
  <2>3. Whole(author) /\ author \in Fields /\ Whole(r.comment) /\ r.comment \in Fields
    BY <1>1, FieldIsWhole DEF Fields, Bodies
  <2> QED
    BY <2>1, <2>2, <2>3 DEF AllWhole
<1>3. Names(args, WindowArgs, rest)
  BY DEF Names, Range, WindowArgs
<1>4. ReadCommand(own) = Does(<<"schedule_downtime">>)
  <2>1. Form(<<"schedule_downtime">>, <<"SCHEDULE_HOST_DOWNTIME">>,
             <<"SCHEDULE_SVC_DOWNTIME">>, 1, WindowArgs) \subseteq Forms
    BY TheForms
  <2> HIDE DEF rest, args
  <2> QED
    BY ONLY t \in Targets1, <1>1, <1>2, <1>3, <2>1, RawReads
<1>5. ASSUME ~IsService(t) PROVE ReadCommand(all) = Does(<<"all_services">>)
  <2> HIDE DEF rest, args
  <2>1. Named(t, <<"SCHEDULE_HOST_SVC_DOWNTIME">>, <<>>) = <<"SCHEDULE_HOST_SVC_DOWNTIME">>
    BY <1>5 DEF Named
  <2>2. ReadCommand(Raw(Named(t, <<"SCHEDULE_HOST_SVC_DOWNTIME">>, <<>>), Lead(t) \o rest))
            = Does(<<"all_services">>)
    <3>1. Form(<<"all_services">>, <<"SCHEDULE_HOST_SVC_DOWNTIME">>, <<>>, 1, WindowArgs)
              \subseteq Forms
      BY TheForms
    <3>2. PICK host, svc : host = <<"SCHEDULE_HOST_SVC_DOWNTIME">> /\ svc = << >>
      OBVIOUS
    <3>3. Form(<<"all_services">>, host, svc, 1, WindowArgs) \subseteq Forms
      BY <3>1, <3>2
    <3>4. ReadCommand(Raw(Named(t, host, svc), Lead(t) \o rest)) = Does(<<"all_services">>)
      BY ONLY t \in Targets1, <1>1, <1>2, <1>3, <3>3, RawReads
    <3> QED
      BY <3>2, <3>4
  <2> QED
    BY <2>1, <2>2
<1>6. ScheduleDowntime(r, t, author)
          = IF r.all /\ ~IsService(t) THEN <<own, all>> ELSE <<own>>
  BY <1>1 DEF ScheduleDowntime, Named, Bodies
<1>7. Meant(r, t, author)
          = {Does(<<"schedule_downtime">>)}
            \cup (IF r.all /\ t.kind = "host" THEN {Does(<<"all_services">>)} ELSE {})
  BY DEF Meant, Duration
<1>8. t.kind = "host" <=> ~IsService(t)
  BY DEF Targets1, IsService
<1>9. Does(<<"schedule_downtime">>) # Does(<<"all_services">>)
  OBVIOUS
<1> HIDE DEF own, all, Does
<1>10. CASE r.all /\ ~IsService(t)
  BY <1>4, <1>5, <1>6, <1>7, <1>8, <1>9, <1>10 DEF Says
<1>11. CASE ~(r.all /\ ~IsService(t))
  BY <1>4, <1>6, <1>7, <1>8, <1>11 DEF Says
<1> QED
  BY <1>10, <1>11

\* Whatever is built for an object does what the request means for it.
LEMMA BuildSays ==
    ASSUME NEW r \in Requests, NEW t \in Targets1, NEW author \in STRING,
           Build(r, t, author) # None
    PROVE  Says(Build(r, t, author), Meant(r, t, author))
<1>1. r \in Bodies
  BY CommandLinesAssumption
<1>2. CASE r.action = "acknowledge"
  <2>1. Build(r, t, author) = Acknowledge(r, t, author)
    BY <1>2 DEF Build
  <2> QED
    BY <1>1, <1>2, <2>1, AcknowledgeSays
<1>3. CASE r.action = "remove_acknowledgement"
  <2>1. Build(r, t, author) = RemoveAcknowledgement(t)
    BY <1>3 DEF Build
  <2> QED
    BY <1>1, <1>3, <2>1, RemoveSays
<1>4. CASE r.action = "schedule_downtime"
  <2>1. Build(r, t, author) = ScheduleDowntime(r, t, author)
    BY <1>4 DEF Build
  <2> QED
    BY <1>4, <2>1, DowntimeSays
<1>5. CASE r.action = "delete_downtime"
  <2>1. Build(r, t, author) = DeleteDowntime(r, t)
    BY <1>5 DEF Build
  <2> QED
    BY <1>5, <2>1, DeleteSays
<1>6. CASE r.action = "reschedule"
  <2>1. Build(r, t, author) = Reschedule(r, t)
    BY <1>6 DEF Build
  <2> QED
    BY <1>6, <2>1, RescheduleSays
<1>7. CASE r.action = "submit_result"
  <2>1. Build(r, t, author) = SubmitResult(r, t)
    BY <1>7 DEF Build
  <2> QED
    BY <1>7, <2>1, SubmitSays
<1>8. CASE r.action = "custom_notification"
  <2>1. Build(r, t, author) = Notify(r, t, author)
    BY <1>8 DEF Build
  <2> QED
    BY <1>8, <2>1, NotifySays
<1>9. CASE r.action = "toggle"
  <2>1. Build(r, t, author) = Toggle(r, t)
    BY <1>9 DEF Build
  <2> QED
    BY <1>1, <1>9, <2>1, ToggleSays
<1> QED
  BY <1>1, <1>2, <1>3, <1>4, <1>5, <1>6, <1>7, <1>8, <1>9 DEF Bodies, Actions

\* What is built has a valid object, unless it has a number in its place.
LEMMA BuiltIsValid ==
    ASSUME NEW r \in Requests, NEW t \in Targets1, NEW author \in STRING,
           Build(r, t, author) # None, r.action # "delete_downtime"
    PROVE  Valid(t)
<1>1. r.action \in Actions
  BY CommandLinesAssumption DEF Bodies
<1> QED
  BY <1>1 DEF Actions, Build, Acknowledge, RemoveAcknowledgement, ScheduleDowntime,
              Reschedule, SubmitResult, Notify, Toggle

LEMMA MeantObject ==
    ASSUME NEW r \in Requests, NEW t, NEW author, r.action # "delete_downtime",
           NEW e \in Meant(r, t, author)
    PROVE  e.object = Lead(t)
<1>1. r.action \in Actions
  BY CommandLinesAssumption DEF Bodies
<1> QED
  BY <1>1 DEF Actions, Meant

\* Two objects are named by different fields.
LEMMA LeadsDiffer ==
    ASSUME NEW t \in Targets1, NEW u \in Targets1, Valid(t), Valid(u), t # u
    PROVE  Lead(t) # Lead(u)
<1>1. t = [kind |-> t.kind, host |-> t.host, svc |-> t.svc]
      /\ u = [kind |-> u.kind, host |-> u.host, svc |-> u.svc]
  BY DEF Targets1
<1>2. CASE IsService(t) /\ IsService(u)
  BY <1>1, <1>2 DEF Lead, IsService
<1>3. CASE ~IsService(t) /\ ~IsService(u)
  BY <1>1, <1>3 DEF Lead, IsService, Valid, Targets1
<1>4. CASE IsService(t) /\ ~IsService(u)
  BY <1>4 DEF Lead
<1>5. CASE ~IsService(t) /\ IsService(u)
  BY <1>5 DEF Lead
<1> QED
  BY <1>2, <1>3, <1>4, <1>5

LEMMA MeaningsDiffer ==
    ASSUME NEW r \in Requests, NEW author \in STRING, r.action # "delete_downtime",
           NEW t \in Targets1, NEW u \in Targets1, t # u,
           Build(r, t, author) # None, Build(r, u, author) # None
    PROVE  Meant(r, t, author) \cap Meant(r, u, author) = {}
<1>1. Lead(t) # Lead(u)
  BY BuiltIsValid, LeadsDiffer
<1>2. ASSUME NEW e \in Meant(r, t, author), e \in Meant(r, u, author) PROVE FALSE
  <2>1. e.object = Lead(t) /\ e.object = Lead(u)
    BY <1>2, MeantObject
  <2> QED
    BY <1>1, <2>1
<1> QED
  BY <1>2

-----------------------------------------------------------------------------
(* A submission                                                            *)

LEMMA SaysIs ==
    ASSUME NEW b, NEW meant, Says(b, meant)
    PROVE  /\ \A j \in 1 .. Len(b) : ReadCommand(b[j]) \in meant
           /\ \A e \in meant : \E j \in 1 .. Len(b) : ReadCommand(b[j]) = e
           /\ \A j, jj \in 1 .. Len(b) : j < jj => ReadCommand(b[j]) # ReadCommand(b[jj])
<1>1. CASE \E c : b = <<c>> /\ meant = {ReadCommand(c)}
  <2>1. PICK c : b = <<c>> /\ meant = {ReadCommand(c)}
    BY <1>1
  <2>2. Len(b) = 1 /\ b[1] = c
    BY <2>1
  <2>3. \A j \in 1 .. 1 : j = 1
    OBVIOUS
  <2> QED
    BY <2>1, <2>2, <2>3
<1>2. CASE \E c, d : /\ b = <<c, d>> /\ ReadCommand(c) # ReadCommand(d)
                    /\ meant = {ReadCommand(c), ReadCommand(d)}
  <2>1. PICK c, d : /\ b = <<c, d>> /\ ReadCommand(c) # ReadCommand(d)
                    /\ meant = {ReadCommand(c), ReadCommand(d)}
    BY <1>2
  <2>2. Len(b) = 2 /\ b[1] = c /\ b[2] = d
    BY <2>1
  <2>3. \A j \in 1 .. 2 : j = 1 \/ j = 2
    OBVIOUS
  <2>4. 1 \in 1 .. 2 /\ 2 \in 1 .. 2
    OBVIOUS
  <2> QED
    BY <2>1, <2>2, <2>3, <2>4
<1> QED
  BY <1>1, <1>2 DEF Says

AllSay(built, meant, n) == \A i \in 1 .. n : Says(built[i], meant[i])

Apart(meant, n) == \A i, ii \in 1 .. n : i < ii => meant[i] \cap meant[ii] = {}

AllOf(meant, n) == UNION {meant[i] : i \in 1 .. n}

\* Each command does one of all, and each of all is done by one of them.
OneEach(flat, all) ==
    /\ \A k \in 1 .. Len(flat) : ReadCommand(flat[k]) \in all
    /\ \A e \in all : \E k \in 1 .. Len(flat) : ReadCommand(flat[k]) = e
    /\ Cardinality(all) = Len(flat)

\* The commands of a list of what was built, each of which does another thing.
LEMMA Counted ==
    ASSUME NEW n \in Nat, NEW S, NEW built \in [1 .. n -> Seq(S)], NEW meant,
           AllSay(built, meant, n), Apart(meant, n)
    PROVE  FlattenSeq(built) \in Seq(S) /\ OneEach(FlattenSeq(built), AllOf(meant, n))
<1>0. /\ \A i \in 1 .. n : Says(built[i], meant[i])
      /\ \A i, ii \in 1 .. n : i < ii => meant[i] \cap meant[ii] = {}
  BY DEF AllSay, Apart
<1>1. PICK flat : flat = FlattenSeq(built)
  OBVIOUS
<1>2. flat \in Seq(S) /\ Places(flat, built, n)
  BY <1>1, FlattenPlaces
<1>3. PICK all : all = AllOf(meant, n)
  OBVIOUS
<1>4. \A e : e \in all <=> \E i \in 1 .. n : e \in meant[i]
  BY <1>3 DEF AllOf
<1>5. ASSUME NEW i \in 1 .. n, NEW j \in 1 .. Len(built[i])
      PROVE  ReadCommand(built[i][j]) \in meant[i]
  BY <1>0, SaysIs
<1>6. ASSUME NEW i \in 1 .. n, NEW e \in meant[i]
      PROVE  \E j \in 1 .. Len(built[i]) : ReadCommand(built[i][j]) = e
  BY <1>0, SaysIs
<1>7. ASSUME NEW i \in 1 .. n, NEW j \in 1 .. Len(built[i]), NEW jj \in 1 .. Len(built[i]), j < jj
      PROVE  ReadCommand(built[i][j]) # ReadCommand(built[i][jj])
  BY <1>0, <1>7, SaysIs
<1>8. ASSUME NEW k \in 1 .. Len(flat) PROVE ReadCommand(flat[k]) \in all
  <2>1. PICK i \in 1 .. n : \E j \in 1 .. Len(built[i]) : flat[k] = built[i][j]
    BY <1>2 DEF Places
  <2> QED
    BY <1>4, <1>5, <2>1
<1>9. ASSUME NEW e \in all PROVE \E k \in 1 .. Len(flat) : ReadCommand(flat[k]) = e
  <2>1. PICK i \in 1 .. n : e \in meant[i]
    BY <1>4
  <2>2. PICK j \in 1 .. Len(built[i]) : ReadCommand(built[i][j]) = e
    BY <1>6, <2>1
  <2>3. PICK k \in 1 .. Len(flat) : flat[k] = built[i][j]
    BY <1>2 DEF Places
  <2> QED
    BY <2>2, <2>3
<1>10. ASSUME NEW k \in 1 .. Len(flat), NEW l \in 1 .. Len(flat), k < l
       PROVE  ReadCommand(flat[k]) # ReadCommand(flat[l])
  <2>1. PICK i \in 1 .. n, ii \in 1 .. n :
           \E j \in 1 .. Len(built[i]), jj \in 1 .. Len(built[ii]) :
               /\ flat[k] = built[i][j] /\ flat[l] = built[ii][jj]
               /\ i < ii \/ (i = ii /\ j < jj)
    BY <1>2, <1>10 DEF Places
  <2>2. PICK j \in 1 .. Len(built[i]), jj \in 1 .. Len(built[ii]) :
               /\ flat[k] = built[i][j] /\ flat[l] = built[ii][jj]
               /\ i < ii \/ (i = ii /\ j < jj)
    BY <2>1
  <2>3. CASE i < ii
    <3>1. ReadCommand(flat[k]) \in meant[i] /\ ReadCommand(flat[l]) \in meant[ii]
      BY <1>5, <2>2
    <3> QED
      BY <1>0, <2>3, <3>1
  <2>4. CASE i = ii /\ j < jj
    BY <1>7, <2>2, <2>4
  <2> QED
    BY <2>2, <2>3, <2>4
<1>11. Len(flat) \in Nat
  BY <1>2, LenProperties
<1>12. Cardinality(all) = Len(flat)
  <2> DEFINE f == [k \in 1 .. Len(flat) |-> ReadCommand(flat[k])]
  <2>1. f \in [1 .. Len(flat) -> all]
    BY <1>8
  <2>2. ASSUME NEW k \in 1 .. Len(flat), NEW l \in 1 .. Len(flat), f[k] = f[l]
        PROVE  k = l
    <3>1. ReadCommand(flat[k]) = ReadCommand(flat[l])
      BY <2>2
    <3>2. ~(k < l) /\ ~(l < k)
      BY <1>10, <3>1
    <3> QED
      BY <1>11, <3>2
  <2>3. \A e \in all : \E k \in 1 .. Len(flat) : f[k] = e
    BY <1>9
  <2> HIDE DEF f
  <2>4. f \in Bijection(1 .. Len(flat), all)
    BY <2>1, <2>2, <2>3 DEF Bijection, Injection, Surjection, IsInjective
  <2> QED
    BY <1>11, <2>4, FS_CountingElements DEF ExistsBijection
<1> QED
  BY <1>1, <1>2, <1>3, <1>8, <1>9, <1>12 DEF OneEach

LEMMA NothingFlat ==
    FlattenSeq(<< >>) = << >> /\ Bulk(<< >>) = << >>
<1>1. FlattenSeq(<< >>) = << >>
  BY DEF FlattenSeq
<1> QED
  BY <1>1 DEF Bulk, None

\* A submission came from n targets: each that the request names, and none twice,
\* was built, and there are no more commands than the worker takes.
Came(r, selection, caller, n, targets) ==
    LET built == [i \in 1 .. n |-> Build(r, targets[i], caller.author)]
    IN  /\ ToSet(targets) = ToSet(selection)
        /\ \A i, ii \in 1 .. n : i < ii => targets[i] # targets[ii]
        /\ r.action = "delete_downtime" => n = 1
        /\ \A i \in 1 .. n : Build(r, targets[i], caller.author) # None
        /\ Submission(r, selection, caller) = FlattenSeq(built)
        /\ ~(Len(FlattenSeq(built)) > MaxBulkCommands)

LEMMA SubmissionIs ==
    ASSUME NEW r \in Requests, NEW selection \in Selections, NEW caller \in Callers,
           Submission(r, selection, caller) # None
    PROVE  \E n \in Nat : \E targets \in [1 .. n -> Targets1] :
              Came(r, selection, caller, n, targets)
<1> DEFINE T == [kind : STRING, host : STRING, svc : STRING]
<1>1. PICK targets : targets = Resolve(selection, caller)
  OBVIOUS
<1>2. /\ OneWindow(r, targets)
      /\ Submission(r, selection, caller) = Bulk(BuildAll(r, targets, caller.author))
  BY <1>1 DEF Submission
<1>3. targets # << >>
  <2> SUFFICES ASSUME targets = << >> PROVE FALSE
    OBVIOUS
  <2>1. BuildAll(r, targets, caller.author) = << >>
    <3>1. [i \in DOMAIN targets |-> Build(r, targets[i], caller.author)] = << >>
      OBVIOUS
    <3> QED
      BY <3>1 DEF BuildAll, None
  <2> QED
    BY <1>2, <2>1, NothingFlat DEF None
<1>4. targets = Distinct(selection) /\ Kinded(selection)
  BY <1>1, <1>3 DEF Resolve, None
<1>5. selection \in Seq(T)
  BY CommandLinesAssumption
<1>6. selection \in Seq(Targets1)
  <2>1. \A i \in 1 .. Len(selection) : selection[i] \in Targets1
    <3> SUFFICES ASSUME NEW i \in 1 .. Len(selection) PROVE selection[i] \in Targets1
      OBVIOUS
    <3>1. selection[i] \in T /\ i \in DOMAIN selection
      <4> HIDE DEF T
      <4> QED
        BY <1>5
    <3>2. selection[i].kind \in {"host", "service"}
      BY <1>4, <3>1 DEF Kinded
    <3> QED
      BY <3>1, <3>2 DEF Targets1
  <2> QED
    BY <1>5, <2>1
<1>7. /\ targets \in Seq(Targets1) /\ ToSet(targets) = ToSet(selection)
      /\ \A i, ii \in 1 .. Len(targets) : i < ii => targets[i] # targets[ii]
  BY <1>4, <1>6, DistinctIs
<1>8. PICK n \in Nat : n = Len(targets) /\ DOMAIN targets = 1 .. n /\ targets \in [1 .. n -> Targets1]
  BY <1>7, LenProperties
<1>9. PICK built : built = [i \in 1 .. n |-> Build(r, targets[i], caller.author)]
  OBVIOUS
<1>10. built = [i \in DOMAIN targets |-> Build(r, targets[i], caller.author)]
  BY <1>8, <1>9
<1>11. None \notin Range(built) /\ BuildAll(r, targets, caller.author) = built
  <2>1. BuildAll(r, targets, caller.author) = IF None \in Range(built) THEN None ELSE built
    BY <1>10 DEF BuildAll
  <2> QED
    BY <1>2, <2>1, NothingFlat DEF None
<1>12. \A i \in 1 .. n : Build(r, targets[i], caller.author) # None
  BY <1>9, <1>11 DEF Range
<1>13. Submission(r, selection, caller) = FlattenSeq(built) /\ ~(Len(FlattenSeq(built)) > MaxBulkCommands)
  BY <1>2, <1>11 DEF Bulk, None
<1>14. r.action = "delete_downtime" => n = 1
  BY <1>2, <1>8 DEF OneWindow
<1>15. /\ n \in Nat /\ targets \in [1 .. n -> Targets1] /\ ToSet(targets) = ToSet(selection)
       /\ \A i, ii \in 1 .. n : i < ii => targets[i] # targets[ii]
  BY <1>7, <1>8
<1>16. /\ Submission(r, selection, caller)
              = FlattenSeq([i \in 1 .. n |-> Build(r, targets[i], caller.author)])
       /\ ~(Len(FlattenSeq([i \in 1 .. n |-> Build(r, targets[i], caller.author)]))
                > MaxBulkCommands)
  BY <1>9, <1>13
<1> QED
  BY <1>12, <1>14, <1>15, <1>16 DEF Came

-----------------------------------------------------------------------------
(* What is submitted is what was asked for                                 *)

\* checkField, "Refusing is the honest option", and submit, "All or nothing":
\* whatever texts, objects and limits there are, the core reads from each command
\* of a submission what the request means for one of its objects, and everything
\* the request means is done by one of the commands, which are as many, and no
\* more than the worker takes.
THEOREM SubmissionCorrect ==
    ASSUME NEW s \in Submissions
    PROVE  Reads(s) /\ Covers(s)
<1>1. PICK r \in Requests, selection \in Selections, caller \in Callers :
         /\ s = [r |-> r, targets |-> selection, caller |-> caller,
                 sent |-> Submission(r, selection, caller)]
         /\ Submission(r, selection, caller) # None
  BY DEF Submissions
<1>0. PICK n \in Nat : \E targets \in [1 .. n -> Targets1] :
         Came(r, selection, caller, n, targets)
  BY <1>1, SubmissionIs
<1>c. PICK targets \in [1 .. n -> Targets1] : Came(r, selection, caller, n, targets)
  BY <1>0
<1>2. /\ ToSet(targets) = ToSet(selection)
      /\ \A i, ii \in 1 .. n : i < ii => targets[i] # targets[ii]
      /\ r.action = "delete_downtime" => n = 1
      /\ \A i \in 1 .. n : Build(r, targets[i], caller.author) # None
      /\ Submission(r, selection, caller)
             = FlattenSeq([i \in 1 .. n |-> Build(r, targets[i], caller.author)])
      /\ ~(Len(FlattenSeq([i \in 1 .. n |-> Build(r, targets[i], caller.author)]))
               > MaxBulkCommands)
  BY <1>c DEF Came
<1>3. PICK author \in STRING : author = caller.author
  BY CommandLinesAssumption
<1>4. PICK built : built = [i \in 1 .. n |-> Build(r, targets[i], author)]
  OBVIOUS
<1>5. PICK meant : meant = [i \in 1 .. n |-> Meant(r, targets[i], author)]
  OBVIOUS
<1>6. \A i \in 1 .. n : /\ targets[i] \in Targets1 /\ built[i] = Build(r, targets[i], author)
                        /\ meant[i] = Meant(r, targets[i], author)
                        /\ Build(r, targets[i], author) # None
  BY <1>2, <1>3, <1>4, <1>5
<1>7. \A i \in 1 .. n : Says(built[i], meant[i])
  BY <1>6, BuildSays
<1> DEFINE S == UNION {Range(built[i]) : i \in 1 .. n}
<1>8. built \in [1 .. n -> Seq(S)]
  <2> SUFFICES ASSUME NEW i \in 1 .. n PROVE built[i] \in Seq(S)
    BY <1>4
  <2>1. PICK b : b = built[i] /\ Range(b) \subseteq S
    OBVIOUS
  <2> HIDE DEF S
  <2>2. CASE \E c : b = <<c>>
    BY <2>1, <2>2 DEF Range
  <2>3. CASE \E c, d : b = <<c, d>>
    BY <2>1, <2>3 DEF Range
  <2> QED
    BY <1>7, <2>1, <2>2, <2>3 DEF Says
<1>9. \A i, ii \in 1 .. n : i < ii => meant[i] \cap meant[ii] = {}
  <2> SUFFICES ASSUME NEW i \in 1 .. n, NEW ii \in 1 .. n, i < ii
               PROVE  meant[i] \cap meant[ii] = {}
    OBVIOUS
  <2>1. n # 1
    OBVIOUS
  <2>2. r.action # "delete_downtime" /\ targets[i] # targets[ii]
    BY <1>2, <2>1
  <2> QED
    BY <1>6, <2>2, MeaningsDiffer
<1>10. PICK flat, all : flat = FlattenSeq(built) /\ all = AllOf(meant, n)
  OBVIOUS
<1>11. /\ flat \in Seq(S)
       /\ \A k \in 1 .. Len(flat) : ReadCommand(flat[k]) \in all
       /\ \A e \in all : \E k \in 1 .. Len(flat) : ReadCommand(flat[k]) = e
       /\ Cardinality(all) = Len(flat)
  <2> HIDE DEF S
  <2> QED
    <3>1. AllSay(built, meant, n) /\ Apart(meant, n)
      BY <1>7, <1>9 DEF AllSay, Apart
    <3>2. flat \in Seq(S) /\ OneEach(flat, all)
      BY ONLY n \in Nat, <1>8, <1>10, <3>1, Counted
    <3> QED
      BY <3>2 DEF OneEach
<1>12. s.sent = flat /\ ~(Len(flat) > MaxBulkCommands) /\ s.targets = selection
       /\ s.caller.author = author /\ s.r = r
  BY <1>1, <1>2, <1>3, <1>4, <1>10
<1>13. MeantBy(s) = all
  <2>1. ToSet(selection) = {targets[i] : i \in 1 .. n}
    BY <1>2 DEF ToSet
  <2>2. MeantBy(s) = UNION {Meant(r, t, author) : t \in {targets[i] : i \in 1 .. n}}
    BY <1>12, <2>1 DEF MeantBy
  <2>3. \A e : e \in all <=> \E i \in 1 .. n : e \in Meant(r, targets[i], author)
    BY <1>6, <1>10 DEF AllOf
  <2> QED
    BY <2>2, <2>3
<1>14. DOMAIN flat = 1 .. Len(flat) /\ Len(flat) \in Nat /\ MaxBulkCommands \in Nat
  BY <1>11, LenProperties, CommandLinesAssumption
<1>15. Reads(s)
  BY ONLY <1>11, <1>12, <1>13, <1>14 DEF Reads
<1>16. Covers(s)
  <2>1. Len(flat) <= MaxBulkCommands
    BY <1>12, <1>14
  <2>2. \A e \in MeantBy(s) : \E k \in DOMAIN s.sent : ReadCommand(s.sent[k]) = e
    BY ONLY <1>11, <1>12, <1>13, <1>14
  <2>3. Len(s.sent) = Cardinality(MeantBy(s)) /\ Len(s.sent) <= MaxBulkCommands
    BY ONLY <1>11, <1>12, <1>13, <2>1
  <2> QED
    BY ONLY <2>2, <2>3 DEF Covers
<1> QED
  BY <1>15, <1>16

\* checkField, "Refusing is the honest option": at no time has a command been
\* posted that the core reads as another one, or of another object, than the
\* operator's.
THEOREM ReadsBackCorrect == Spec => []ReadsBack
<1>1. Misread = {}
  BY SubmissionCorrect DEF Misread
<1>2. ReadsBack
  BY <1>1 DEF ReadsBack
<1> QED
  BY <1>2, PTL

\* submit, "All or nothing": whatever was posted has each effect on each object
\* once, also where an object was named twice, and the worker takes it.
THEOREM EveryTargetOnceCorrect == Spec => []EveryTargetOnce
<1>1. Incomplete = {}
  BY SubmissionCorrect DEF Incomplete
<1>2. EveryTargetOnce
  BY <1>1 DEF EveryTargetOnce
<1> QED
  BY <1>2, PTL

=============================================================================
