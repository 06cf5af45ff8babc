--------------------------- MODULE SequenceLemmas ---------------------------
(***************************************************************************)
(* Facts about numbers and sequences that the proofs of the components     *)
(* share.                                                                  *)
(***************************************************************************)
EXTENDS SequencesExt, WellFoundedInduction, TLAPS

(* Induction over a set of natural numbers, from the fact that < is well   *)
(* founded: a smallest number outside S cannot exist.                      *)
LEMMA NatInduct ==
    ASSUME NEW S \in SUBSET Nat, 0 \in S, \A n \in S : n + 1 \in S
    PROVE  S = Nat
<1> SUFFICES ASSUME Nat \ S # {} PROVE FALSE
  OBVIOUS
<1>1. PICK x \in Nat \ S :
        \A y \in Nat \ S : ~ (<<y, x>> \in OpToRel(<, Nat))
  BY WFMin, NatLessThanWellFounded
<1>2. \A y \in Nat \ S : ~ (y < x)
  BY <1>1 DEF OpToRel
<1>3. x - 1 \in Nat /\ x - 1 < x
  OBVIOUS
<1> QED BY <1>2, <1>3

(* The smallest and the largest number of a set, where there is one.       *)
LEMMA MinIn ==
    ASSUME NEW S \in SUBSET Nat, S # {}
    PROVE  Min(S) \in S /\ \A y \in S : Min(S) <= y
<1>1. PICK x \in S : \A y \in S : ~ (<<y, x>> \in OpToRel(<, Nat))
  BY WFMin, NatLessThanWellFounded
<1>2. ASSUME NEW y \in S PROVE x <= y
  <2>1. x \in Nat /\ y \in Nat
    OBVIOUS
  <2>2. ~ (y < x)
    BY <1>1, <2>1 DEF OpToRel
  <2> QED BY <2>1, <2>2
<1> QED BY <1>2, Zenon DEF Min

(* A non-empty set of numbers up to n has a largest one.                   *)
LEMMA MaxIn ==
    ASSUME NEW n \in Nat, NEW S \in SUBSET (1 .. n), S # {}
    PROVE  Max(S) \in S /\ \A y \in S : Max(S) >= y
<1> DEFINE B == {b \in Nat : \A y \in S : b >= y}
           b == Min(B)
<1>1. n \in B
  OBVIOUS
<1>2. b \in B /\ \A c \in B : b <= c
  <2>1. B \in SUBSET Nat
    OBVIOUS
  <2> HIDE DEF B
  <2> QED BY <1>1, <2>1, MinIn
<1>3. b \in Nat /\ \A y \in S : b >= y
  BY <1>2
<1> HIDE DEF b
<1>4. b \in S
  <2> SUFFICES ASSUME b \notin S PROVE FALSE
    OBVIOUS
  <2>1. ASSUME NEW y \in S PROVE b - 1 \in Nat /\ b - 1 >= y
    <3>1. y \in 1 .. n /\ y # b /\ b >= y
      BY <1>3
    <3> QED BY <1>3, <3>1
  <2>2. b - 1 \in B
    BY <2>1
  <2>3. b <= b - 1
    BY <1>2, <2>2
  <2> QED BY <1>3, <2>3
<1> QED BY <1>3, <1>4, Zenon DEF Max

(* One sequence after another.                                             *)
LEMMA Concatenation ==
    ASSUME NEW S, NEW s \in Seq(S), NEW t \in Seq(S)
    PROVE  /\ s \o t \in Seq(S) /\ Len(s \o t) = Len(s) + Len(t)
           /\ \A i \in 1 .. Len(s) : (s \o t)[i] = s[i]
           /\ \A i \in 1 .. Len(t) : (s \o t)[Len(s) + i] = t[i]
<1>1. s \o t \in Seq(S) /\ Len(s \o t) = Len(s) + Len(t)
  OBVIOUS
<1>2. \A i \in 1 .. Len(s) : (s \o t)[i] = s[i]
  OBVIOUS
<1>3. ASSUME NEW i \in 1 .. Len(t)
      PROVE  (s \o t)[Len(s) + i] = t[i]
  <2>1. /\ Len(s) \in Nat /\ Len(t) \in Nat
        /\ Len(s) + i \in 1 .. Len(s) + Len(t)
        /\ ~ (Len(s) + i <= Len(s)) /\ (Len(s) + i) - Len(s) = i
    OBVIOUS
  <2> QED BY <2>1
<1> QED BY <1>1, <1>2, <1>3
-----------------------------------------------------------------------------
(* g[i] is the first i sequences of f one behind the other.                *)
Joined(f, n, g) ==
    \A i \in 1 .. n : g[i] = IF i = 1 THEN f[i] ELSE g[i - 1] \o f[i]

(* What FlattenSeq computes is the last of such concatenations.            *)
LEMMA FlattenUnfold ==
    ASSUME NEW S, NEW n \in Nat \ {0}, NEW f \in [1 .. n -> Seq(S)]
    PROVE  \E g : Joined(f, n, g) /\ FlattenSeq(f) = g[n]
<1> DEFINE Is(g, m) ==
             g = [i \in 1 .. m |-> IF i = 1 THEN f[i] ELSE g[i - 1] \o f[i]]
           T == {m \in Nat : \E g : Is(g, m)}
<1>1. 0 \in T
  <2>1. Is([i \in 1 .. 0 |-> <<>>], 0)
    OBVIOUS
  <2> QED BY <2>1
<1>2. ASSUME NEW m \in T PROVE m + 1 \in T
  <2>1. PICK g : Is(g, m)
    OBVIOUS
  <2> DEFINE last == IF m + 1 = 1 THEN f[m + 1] ELSE g[m] \o f[m + 1]
             h == [i \in 1 .. m + 1 |-> IF i = m + 1 THEN last ELSE g[i]]
  <2>2. m \in Nat /\ m + 1 \in 1 .. m + 1
    BY <1>2
  <2> HIDE DEF last, Is
  <2>3. h[m + 1] = last /\ \A i \in 1 .. m : h[i] = g[i]
    <3>1. \A i \in 1 .. m : i \in 1 .. m + 1 /\ i # m + 1
      BY <2>2
    <3> QED BY <2>2, <3>1
  <2>4. ASSUME NEW i \in 1 .. m + 1
        PROVE  h[i] = IF i = 1 THEN f[i] ELSE h[i - 1] \o f[i]
    <3>1. CASE i = m + 1 /\ i = 1
      <4> HIDE DEF h
      <4> QED BY <2>3, <3>1 DEF last
    <3>2. CASE i = m + 1 /\ i # 1
      <4>1. i - 1 = m /\ m \in 1 .. m
        BY <2>2, <3>2
      <4>2. last = g[m] \o f[i]
        BY <3>2 DEF last
      <4> HIDE DEF h
      <4> QED BY <2>3, <3>2, <4>1, <4>2
    <3>3. CASE i # m + 1
      <4>1. i \in 1 .. m /\ (i # 1 => i - 1 \in 1 .. m)
        BY <2>2, <3>3
      <4>2. g[i] = IF i = 1 THEN f[i] ELSE g[i - 1] \o f[i]
        BY <2>1, <4>1 DEF Is
      <4> HIDE DEF h
      <4> QED BY <2>3, <4>1, <4>2
    <3> QED BY <3>1, <3>2, <3>3
  <2>5. Is(h, m + 1)
    BY <2>4 DEF Is
  <2> HIDE DEF h
  <2>6. \E e : Is(e, m + 1)
    BY <2>5
  <2>7. m + 1 \in Nat
    BY <2>2
  <2> QED BY <2>6, <2>7
<1>3. n \in T
  <2> HIDE DEF T
  <2>1. T \in SUBSET Nat
    BY DEF T
  <2> QED BY <1>1, <1>2, <2>1, NatInduct
<1>4. PICK g : Is(g, n)
  BY <1>3
<1>5. Len(f) = n
  <2>1. f \in Seq(Seq(S)) /\ DOMAIN f = 1 .. n
    OBVIOUS
  <2> QED BY <2>1
<1> DEFINE flatten[i \in 1 .. Len(f)] ==
             IF i = 1 THEN f[i] ELSE flatten[i - 1] \o f[i]
<1>6. FlattenSeq(f) = flatten[n]
  BY <1>5 DEF FlattenSeq
<1>7. flatten = [i \in 1 .. n |-> IF i = 1 THEN f[i] ELSE flatten[i - 1] \o f[i]]
  BY <1>4, <1>5
<1> HIDE DEF flatten
<1>8. Joined(f, n, flatten)
  BY <1>7 DEF Joined
<1> QED BY <1>6, <1>8

(* Sequences one behind the other: pos[p] is where the p-th one ends.      *)
Ends(f, n, pos) ==
    /\ pos \in [0 .. n -> Nat] /\ pos[0] = 0
    /\ \A p \in 1 .. n : pos[p] = pos[p - 1] + Len(f[p])
Places(f, n, pos, s) ==
    \A p \in 1 .. n : \A j \in 1 .. Len(f[p]) :
       pos[p - 1] + j \in 1 .. pos[n] /\ s[pos[p - 1] + j] = f[p][j]
Filled(f, n, pos) ==
    \A q \in 1 .. pos[n] : \E p \in 1 .. n : q - pos[p - 1] \in 1 .. Len(f[p])

(* The parts of a joined sequence are in their places and fill it.         *)
LEMMA JoinedPlaces ==
    ASSUME NEW S, NEW n \in Nat, NEW f \in [1 .. n -> Seq(S)],
           NEW g, Joined(f, n, g)
    PROVE  \E pos : /\ Ends(f, n, pos)
                    /\ \A m \in 1 .. n : /\ g[m] \in Seq(S) /\ Len(g[m]) = pos[m]
                                         /\ Places(f, m, pos, g[m])
                                         /\ Filled(f, m, pos)
<1> DEFINE pos == [i \in 0 .. n |-> IF i = 0 THEN 0 ELSE Len(g[i])]
           Good(m) == /\ g[m] \in Seq(S)
                      /\ pos[m] \in Nat /\ Len(g[m]) = pos[m]
                      /\ pos[m] = pos[m - 1] + Len(f[m])
                      /\ Places(f, m, pos, g[m])
                      /\ Filled(f, m, pos)
           T == {m \in Nat : m + 1 <= n => Good(m + 1)}
<1>1. pos \in [0 .. n -> {pos[i] : i \in 0 .. n}] /\ pos[0] = 0
      /\ \A i \in 1 .. n : pos[i] = Len(g[i])
  OBVIOUS
<1> HIDE DEF pos
<1>2. \A p \in 1 .. n : f[p] \in Seq(S) /\ Len(f[p]) \in Nat
  OBVIOUS
<1>3. 0 \in T
  <2> SUFFICES ASSUME 1 <= n PROVE Good(1)
    OBVIOUS
  <2>1. 1 \in 1 .. n /\ g[1] = f[1]
    BY DEF Joined
  <2>2. g[1] \in Seq(S) /\ pos[1] \in Nat /\ Len(g[1]) = pos[1] /\ pos[1] = pos[1 - 1] + Len(f[1])
    BY <1>2, <1>1, <2>1, SMTT(30)
  <2>3. Places(f, 1, pos, g[1])
    <3>1. ASSUME NEW p \in 1 .. 1, NEW j \in 1 .. Len(f[p])
          PROVE  pos[p - 1] + j \in 1 .. pos[1] /\ g[1][pos[p - 1] + j] = f[p][j]
      <4>1. p = 1 /\ p - 1 = 0 /\ 0 + j = j /\ j \in 1 .. Len(f[1])
        OBVIOUS
      <4> QED BY <1>1, <2>1, <2>2, <4>1
    <3> QED BY <3>1 DEF Places
  <2>4. Filled(f, 1, pos)
    <3>1. ASSUME NEW q \in 1 .. pos[1] PROVE q - pos[1 - 1] \in 1 .. Len(f[1])
      BY <1>1, <2>1, <2>2
    <3> QED BY <3>1, 1 \in 1 .. 1 DEF Filled
  <2> QED BY <2>2, <2>3, <2>4
<1>4. ASSUME NEW m \in T PROVE m + 1 \in T
  <2> SUFFICES ASSUME (m + 1) + 1 <= n PROVE Good((m + 1) + 1)
    BY <1>4
  <2>1. PICK k \in Nat, l \in Nat : k = m + 1 /\ l = (m + 1) + 1
    BY <1>4
  <2>2. /\ k \in 1 .. n /\ l \in 1 .. n /\ l - 1 = k /\ l # 1 /\ l = k + 1
        /\ Good(k)
    BY <1>4, <2>1
  <2> SUFFICES Good(l)
    BY <2>1
  <2>3. PICK x \in Seq(S), y \in Seq(S) : x = g[k] /\ y = f[l]
    BY <1>2, <2>2
  <2> HIDE DEF Good, T
  <2>4. g[l] = x \o y
    <3>1. g[l] = g[l - 1] \o f[l]
      BY <2>2 DEF Joined
    <3> QED BY <2>2, <2>3, <3>1
  <2>5. /\ x \o y \in Seq(S) /\ Len(x \o y) = Len(x) + Len(y)
        /\ \A i \in 1 .. Len(x) : (x \o y)[i] = x[i]
        /\ \A i \in 1 .. Len(y) : (x \o y)[Len(x) + i] = y[i]
    BY Concatenation
  <2>6. /\ pos[k] \in Nat /\ Len(x) = pos[k] /\ Len(y) \in Nat /\ pos[l] = Len(g[l])
    <3>1. pos[k] \in Nat /\ Len(g[k]) = pos[k]
      BY <2>2 DEF Good
    <3>2. Len(y) \in Nat
      OBVIOUS
    <3> QED BY <1>1, <2>2, <2>3, <3>1, <3>2
  <2>7. /\ g[l] \in Seq(S) /\ pos[l] \in Nat /\ pos[l] = pos[k] + Len(y)
        /\ \A i \in 1 .. pos[k] : g[l][i] = x[i]
        /\ \A i \in 1 .. Len(y) : g[l][pos[k] + i] = y[i]
    <3>1. pos[k] + Len(y) \in Nat
      BY <2>6
    <3> QED BY <2>4, <2>5, <2>6, <3>1
  <2>8. Places(f, l, pos, g[l])
    <3>1. ASSUME NEW p \in 1 .. l, NEW j \in 1 .. Len(f[p])
          PROVE  pos[p - 1] + j \in 1 .. pos[l] /\ g[l][pos[p - 1] + j] = f[p][j]
      <4>1. CASE p = l
        <5>1. p - 1 = k /\ j \in 1 .. Len(y) /\ f[p][j] = y[j]
          BY <2>2, <2>3, <4>1
        <5>2. pos[k] + j \in 1 .. pos[l]
          <6>1. /\ pos[k] \in Nat /\ Len(y) \in Nat /\ j \in 1 .. Len(y)
                /\ pos[l] = pos[k] + Len(y)
            BY <2>6, <2>7, <5>1
          <6> QED BY <6>1
        <5> QED BY <2>7, <5>1, <5>2
      <4>2. CASE p # l
        <5>1. p \in 1 .. k
          BY <2>2, <4>2
        <5>2. pos[p - 1] + j \in 1 .. pos[k] /\ x[pos[p - 1] + j] = f[p][j]
          BY <2>2, <2>3, <5>1 DEF Places, Good
        <5>3. pos[p - 1] + j \in 1 .. pos[l]
          BY <2>6, <2>7, <5>2
        <5> QED BY <2>7, <5>2, <5>3
      <4> QED BY <4>1, <4>2
    <3> QED BY <3>1 DEF Places
  <2>9. Filled(f, l, pos)
    <3>1. ASSUME NEW q \in 1 .. pos[l]
          PROVE  \E p \in 1 .. l : q - pos[p - 1] \in 1 .. Len(f[p])
      <4>1. CASE q <= pos[k]
        <5>1. q \in 1 .. pos[k]
          BY <2>6, <2>7, <4>1
        <5>2. PICK p \in 1 .. k : q - pos[p - 1] \in 1 .. Len(f[p])
          BY <2>2, <5>1 DEF Filled, Good
        <5>3. p \in 1 .. l
          BY <2>2
        <5> QED BY <5>2, <5>3
      <4>2. CASE q > pos[k]
        <5>1. q - pos[k] \in 1 .. Len(y)
          BY <2>6, <2>7, <4>2
        <5>2. l \in 1 .. l
          BY <2>2
        <5> QED BY <2>2, <2>3, <5>1, <5>2
      <4> QED BY <2>6, <2>7, <4>1, <4>2
    <3> QED BY <3>1 DEF Filled
  <2> QED BY <2>2, <2>3, <2>4, <2>6, <2>7, <2>8, <2>9 DEF Good
<1>5. T = Nat
  <2>1. T \in SUBSET Nat
    OBVIOUS
  <2> HIDE DEF T
  <2> QED BY <1>3, <1>4, <2>1, NatInduct
<1>6. ASSUME NEW m \in 1 .. n PROVE Good(m)
  <2>1. m - 1 \in Nat /\ (m - 1) + 1 = m /\ m <= n
    OBVIOUS
  <2> HIDE DEF Good
  <2> QED BY <1>5, <2>1
<1>7. Ends(f, n, pos)
  <2>1. \A i \in 0 .. n : pos[i] \in Nat
    BY <1>1, <1>6
  <2>2. pos \in [0 .. n -> Nat]
    BY <1>1, <2>1
  <2> QED BY <1>1, <1>6, <2>2 DEF Ends
<1> QED BY <1>6, <1>7

(* FlattenSeq puts sequences one behind the other: each element of each    *)
(* has its place, and there are no other places.                           *)
LEMMA Flattened ==
    ASSUME NEW S, NEW n \in Nat, NEW f \in [1 .. n -> Seq(S)]
    PROVE  /\ FlattenSeq(f) \in Seq(S)
           /\ \E pos : /\ Ends(f, n, pos) /\ Len(FlattenSeq(f)) = pos[n]
                      /\ Places(f, n, pos, FlattenSeq(f))
                      /\ Filled(f, n, pos)
<1>1. CASE n = 0
  <2>1. f = <<>>
    BY <1>1
  <2>2. FlattenSeq(f) = <<>>
    BY <2>1 DEF FlattenSeq
  <2> DEFINE pos == [i \in 0 .. 0 |-> 0]
  <2>3. pos[0] = 0 /\ pos \in [0 .. n -> Nat]
    BY <1>1
  <2> HIDE DEF pos
  <2>4. Ends(f, n, pos) /\ Places(f, n, pos, <<>>) /\ Filled(f, n, pos)
    BY <1>1, <2>3 DEF Ends, Places, Filled
  <2> QED BY <1>1, <2>2, <2>3, <2>4
<1>2. CASE n # 0
  <2>1. PICK g : Joined(f, n, g) /\ FlattenSeq(f) = g[n]
    BY <1>2, FlattenUnfold
  <2>2. n \in 1 .. n
    BY <1>2
  <2> QED BY <2>1, <2>2, JoinedPlaces
<1> QED BY <1>1, <1>2

(* Where sequences of one element follow each other their elements do.     *)
LEMMA Contiguous ==
    ASSUME NEW n \in Nat, NEW pos \in [0 .. n -> Nat],
           NEW a \in 0 .. n, NEW b \in 0 .. n, a <= b,
           \A q \in a + 1 .. b : pos[q] = pos[q - 1] + 1
    PROVE  \A q \in a .. b : pos[q] = pos[a] + (q - a)
<1> DEFINE T == {d \in Nat : a + d <= b => pos[a + d] = pos[a] + d}
<1>1. 0 \in T
  OBVIOUS
<1>2. ASSUME NEW d \in T PROVE d + 1 \in T
  <2> SUFFICES ASSUME a + (d + 1) <= b PROVE pos[a + (d + 1)] = pos[a] + (d + 1)
    BY <1>2
  <2>1. /\ d \in Nat /\ a + d \in 0 .. n /\ a + d <= b
        /\ a + (d + 1) \in a + 1 .. b /\ (a + (d + 1)) - 1 = a + d
    BY <1>2
  <2>2. pos[a + d] = pos[a] + d /\ pos[a] \in Nat
    BY <1>2, <2>1
  <2>3. pos[a + (d + 1)] = pos[a + d] + 1
    BY <2>1
  <2> QED BY <2>1, <2>2, <2>3
<1>3. T \in SUBSET Nat
  OBVIOUS
<1> HIDE DEF T
<1>4. T = Nat
  BY <1>1, <1>2, <1>3, NatInduct
<1>5. ASSUME NEW q \in a .. b PROVE pos[q] = pos[a] + (q - a)
  <2>1. q - a \in Nat /\ a + (q - a) = q /\ q <= b
    OBVIOUS
  <2> QED BY <1>4, <2>1 DEF T
<1> QED BY <1>5

(* The elements of FlattenSeq(f) are those of its parts, and it ends as    *)
(* the last part does.                                                     *)
LEMMA Parts ==
    ASSUME NEW S, NEW n \in Nat, NEW f \in [1 .. n -> Seq(S)]
    PROVE  /\ FlattenSeq(f) \in Seq(S)
           /\ \A q \in DOMAIN FlattenSeq(f) : \E p \in 1 .. n :
                \E j \in 1 .. Len(f[p]) : FlattenSeq(f)[q] = f[p][j]
           /\ \A p \in 1 .. n : \A j \in 1 .. Len(f[p]) :
                \E q \in DOMAIN FlattenSeq(f) : FlattenSeq(f)[q] = f[p][j]
           /\ n # 0 /\ Len(f[n]) # 0 =>
                /\ FlattenSeq(f) # <<>>
                /\ FlattenSeq(f)[Len(FlattenSeq(f))] = f[n][Len(f[n])]
<1> DEFINE s == FlattenSeq(f)
<1>1. PICK pos : /\ s \in Seq(S) /\ Ends(f, n, pos) /\ Len(s) = pos[n]
                 /\ Places(f, n, pos, s) /\ Filled(f, n, pos)
  BY Flattened
<1> HIDE DEF s
<1>2. /\ pos \in [0 .. n -> Nat]
      /\ \A p \in 1 .. n : /\ pos[p] = pos[p - 1] + Len(f[p])
                          /\ p \in 0 .. n /\ p - 1 \in 0 .. n
  BY <1>1 DEF Ends
<1>3. DOMAIN s = 1 .. pos[n] /\ pos[n] \in Nat
  BY <1>1, <1>2
<1>4. ASSUME NEW q \in DOMAIN s
      PROVE  \E p \in 1 .. n : \E j \in 1 .. Len(f[p]) : s[q] = f[p][j]
  <2>1. PICK p \in 1 .. n : q - pos[p - 1] \in 1 .. Len(f[p])
    BY <1>1, <1>3 DEF Filled
  <2>2. pos[p - 1] + (q - pos[p - 1]) = q
    BY <1>2, <1>3
  <2> QED BY <1>1, <2>1, <2>2 DEF Places
<1>5. ASSUME NEW p \in 1 .. n, NEW j \in 1 .. Len(f[p])
      PROVE  \E q \in DOMAIN s : s[q] = f[p][j]
  BY <1>1, <1>3 DEF Places
<1>6. ASSUME n # 0, Len(f[n]) # 0
      PROVE  s # <<>> /\ s[Len(s)] = f[n][Len(f[n])]
  <2>1. n \in 1 .. n /\ f[n] \in Seq(S)
    BY <1>6
  <2>2. Len(f[n]) \in 1 .. Len(f[n])
    BY <1>6, <2>1
  <2>3. pos[n - 1] + Len(f[n]) \in 1 .. pos[n]
        /\ s[pos[n - 1] + Len(f[n])] = f[n][Len(f[n])]
    BY <1>1, <2>1, <2>2 DEF Places
  <2>4. pos[n] = pos[n - 1] + Len(f[n])
    BY <1>2, <2>1
  <2>5. s # <<>>
    BY <1>1, <2>3
  <2> QED BY <1>1, <2>3, <2>4, <2>5
<1> QED BY <1>1, <1>4, <1>5, <1>6 DEF s

(* Every part has one element or none: keep is where it has one, and       *)
(* pos[p] is how many there are up to p.                                   *)
Thin(f, n, keep, s, pos) ==
    /\ pos \in [0 .. n -> Nat] /\ pos[0] = 0
    /\ DOMAIN s = 1 .. pos[n] /\ Len(s) = pos[n]
    /\ \A p \in keep : /\ pos[p] = pos[p - 1] + 1
                       /\ pos[p] \in DOMAIN s /\ s[pos[p]] = f[p][1]
    /\ \A p \in (1 .. n) \ keep : pos[p] = pos[p - 1]
    /\ \A q \in DOMAIN s : \E p \in keep : q = pos[p]
    /\ \A a, b \in 0 .. n : a <= b => pos[a] <= pos[b]
    /\ \A a, b \in 0 .. n : a <= b /\ a + 1 .. b \subseteq keep =>
         \A q \in a .. b : pos[q] = pos[a] + (q - a)

(* Numbers that never decrease from one place to the next.                 *)
LEMMA Monotone ==
    ASSUME NEW n \in Nat, NEW pos \in [0 .. n -> Nat],
           \A p \in 1 .. n : pos[p - 1] <= pos[p],
           NEW a \in 0 .. n, NEW b \in 0 .. n, a <= b
    PROVE  pos[a] <= pos[b]
<1> DEFINE T == {d \in Nat : a + d <= n => pos[a] <= pos[a + d]}
<1>1. 0 \in T
  OBVIOUS
<1>2. ASSUME NEW d \in T PROVE d + 1 \in T
  <2>1. SUFFICES ASSUME a + (d + 1) <= n PROVE pos[a] <= pos[a + (d + 1)]
    OBVIOUS
  <2>2. pos[a] <= pos[a + d] /\ a + d \in 0 .. n /\ a + (d + 1) \in 1 .. n
    BY <2>1
  <2>3. (a + (d + 1)) - 1 = a + d
    BY <1>2
  <2>4. pos[a + d] <= pos[a + (d + 1)]
    BY <2>2, <2>3
  <2> QED BY <2>2, <2>4
<1>3. T = Nat
  <2> HIDE DEF T
  <2>1. T \in SUBSET Nat
    BY DEF T
  <2> QED BY <1>1, <1>2, <2>1, NatInduct
<1>4. b - a \in Nat /\ a + (b - a) = b /\ b <= n
  OBVIOUS
<1>5. b - a \in T
  BY <1>3, <1>4
<1> QED BY <1>4, <1>5

(* FlattenSeq drops the places outside keep and keeps the others in order. *)
LEMMA Thinned ==
    ASSUME NEW S, NEW n \in Nat, NEW f \in [1 .. n -> Seq(S)],
           NEW keep \in SUBSET (1 .. n),
           \A p \in keep : Len(f[p]) = 1,
           \A p \in (1 .. n) \ keep : Len(f[p]) = 0
    PROVE  /\ FlattenSeq(f) \in Seq(S)
           /\ \E pos : /\ Ends(f, n, pos)
                      /\ Thin(f, n, keep, FlattenSeq(f), pos)
<1> DEFINE s == FlattenSeq(f)
<1>1. PICK pos : /\ s \in Seq(S) /\ Ends(f, n, pos) /\ Len(s) = pos[n]
                 /\ Places(f, n, pos, s) /\ Filled(f, n, pos)
  BY Flattened
<1> HIDE DEF s
<1>2. /\ pos \in [0 .. n -> Nat] /\ pos[0] = 0
      /\ \A p \in 1 .. n : /\ pos[p] = pos[p - 1] + Len(f[p])
                          /\ p \in 0 .. n /\ p - 1 \in 0 .. n
  BY <1>1 DEF Ends
<1>3. DOMAIN s = 1 .. pos[n] /\ pos[n] \in Nat
  BY <1>1, <1>2
<1>4. \A p \in 1 .. n : pos[p] \in Nat /\ pos[p - 1] \in Nat
  BY <1>2
<1>5. ASSUME NEW p \in keep
      PROVE  /\ pos[p] = pos[p - 1] + 1
             /\ pos[p] \in DOMAIN s /\ s[pos[p]] = f[p][1]
  <2>1. p \in 1 .. n /\ 1 \in 1 .. Len(f[p])
    OBVIOUS
  <2>2. pos[p - 1] + 1 \in 1 .. pos[n] /\ s[pos[p - 1] + 1] = f[p][1]
    BY <1>1, <2>1 DEF Places
  <2> QED BY <1>2, <1>3, <2>1, <2>2
<1>6. \A p \in (1 .. n) \ keep : pos[p] = pos[p - 1]
  BY <1>2, <1>4
<1>7. ASSUME NEW q \in DOMAIN s PROVE \E p \in keep : q = pos[p]
  <2>1. PICK p \in 1 .. n : q - pos[p - 1] \in 1 .. Len(f[p])
    BY <1>1, <1>3 DEF Filled
  <2>2. p \in keep
    BY <2>1
  <2>3. PICK u \in Nat : u = pos[p - 1]
    BY <1>4
  <2>4. Len(f[p]) = 1
    BY <2>2
  <2>5. q = u + 1
    <3>1. q \in Int
      BY <1>3
    <3>2. q - u \in 1 .. 1
      BY <2>1, <2>3, <2>4
    <3> QED BY <3>1, <3>2
  <2> QED BY <1>5, <2>2, <2>3, <2>5
<1>8. ASSUME NEW a \in 0 .. n, NEW b \in 0 .. n, a <= b
      PROVE  pos[a] <= pos[b]
  <2>1. \A p \in 1 .. n : pos[p - 1] <= pos[p]
    BY <1>4, <1>5, <1>6
  <2> QED BY <1>2, <1>8, <2>1, Monotone
<1>9. ASSUME NEW a \in 0 .. n, NEW b \in 0 .. n, a <= b, a + 1 .. b \subseteq keep
      PROVE  \A q \in a .. b : pos[q] = pos[a] + (q - a)
  <2>1. \A q \in a + 1 .. b : pos[q] = pos[q - 1] + 1
    BY <1>5, <1>9
  <2> QED BY <1>2, <1>9, <2>1, Contiguous
<1>10. Thin(f, n, keep, s, pos)
  BY <1>1, <1>2, <1>3, <1>5, <1>6, <1>7, <1>8, <1>9 DEF Thin
<1> QED BY <1>1, <1>10 DEF s

(* A prefix of the parts is as long as the places say.                     *)
LEMMA PrefixLength ==
    ASSUME NEW S, NEW n \in Nat, NEW f \in [1 .. n -> Seq(S)],
           NEW pos, Ends(f, n, pos), NEW k \in 0 .. n,
           NEW g \in [1 .. k -> Seq(S)], \A j \in 1 .. k : Len(g[j]) = Len(f[j])
    PROVE  Len(FlattenSeq(g)) = pos[k]
<1>1. k \in Nat
  OBVIOUS
<1>2. PICK end : Ends(g, k, end) /\ Len(FlattenSeq(g)) = end[k]
  BY <1>1, Flattened
<1> DEFINE T == {d \in Nat : d <= k => end[d] = pos[d]}
<1>3. 0 \in T
  BY <1>2 DEF Ends
<1>4. ASSUME NEW d \in T PROVE d + 1 \in T
  <2>1. SUFFICES ASSUME d + 1 <= k PROVE end[d + 1] = pos[d + 1]
    OBVIOUS
  <2>2. d + 1 \in 1 .. k /\ d + 1 \in 1 .. n /\ (d + 1) - 1 = d
    BY <2>1
  <2>3. end[d] = pos[d]
    BY <2>1
  <2>4. end[d + 1] = end[(d + 1) - 1] + Len(g[d + 1])
    BY <1>2, <2>2 DEF Ends
  <2>5. pos[d + 1] = pos[(d + 1) - 1] + Len(f[d + 1])
    BY <2>2 DEF Ends
  <2> QED BY <2>2, <2>3, <2>4, <2>5
<1>5. T = Nat
  <2> HIDE DEF T
  <2>1. T \in SUBSET Nat
    BY DEF T
  <2> QED BY <1>3, <1>4, <2>1, NatInduct
<1>6. k \in T
  BY <1>1, <1>5
<1> QED BY <1>2, <1>6

(* The first k parts have one element each, which s begins with.           *)
Leading(f, n, k, s) ==
    /\ \A p \in 1 .. k : p \in DOMAIN s /\ s[p] = f[p][1]
    /\ \A q \in DOMAIN s : \E p \in 1 .. n : \E j \in 1 .. Len(f[p]) :
         s[q] = f[p][j] /\ (p \in 1 .. k => q = p)

(* The places of one element at the front stay where they are.             *)
LEMMA PartsPrefix ==
    ASSUME NEW S, NEW n \in Nat, NEW f \in [1 .. n -> Seq(S)], NEW k \in 0 .. n,
           \A p \in 1 .. k : Len(f[p]) = 1
    PROVE  Leading(f, n, k, FlattenSeq(f))
<1> DEFINE s == FlattenSeq(f)
<1>1. PICK pos : /\ Ends(f, n, pos) /\ Len(s) = pos[n] /\ s \in Seq(S)
                 /\ Places(f, n, pos, s) /\ Filled(f, n, pos)
  BY Flattened
<1>2. /\ pos \in [0 .. n -> Nat] /\ pos[0] = 0 /\ DOMAIN s = 1 .. pos[n]
      /\ \A p \in 1 .. n : pos[p] = pos[p - 1] + Len(f[p])
  <2>1. pos \in [0 .. n -> Nat] /\ pos[0] = 0
        /\ \A p \in 1 .. n : pos[p] = pos[p - 1] + Len(f[p])
    BY <1>1 DEF Ends
  <2>2. DOMAIN s = 1 .. Len(s)
    BY <1>1
  <2> QED BY <1>1, <2>1, <2>2
<1> HIDE DEF s
<1>3. \A p \in 0 .. k : pos[p] = p
  <2>1. 0 \in 0 .. n /\ k \in 0 .. n /\ 0 <= k
    OBVIOUS
  <2>2. ASSUME NEW q \in 0 + 1 .. k PROVE pos[q] = pos[q - 1] + 1
    <3>1. q \in 1 .. k /\ q \in 1 .. n
      OBVIOUS
    <3> QED BY <1>2, <3>1
  <2>3. \A q \in 0 .. k : pos[q] = pos[0] + (q - 0)
    BY <1>2, <2>1, <2>2, Contiguous
  <2> QED BY <1>2, <2>3
<1>4. ASSUME NEW p \in 1 .. k PROVE p \in DOMAIN s /\ s[p] = f[p][1]
  <2>1. /\ p \in 1 .. n /\ p - 1 \in 0 .. k /\ (p - 1) + 1 = p
        /\ 1 \in 1 .. Len(f[p])
    <3>1. p \in 1 .. n /\ p - 1 \in 0 .. k /\ (p - 1) + 1 = p
      OBVIOUS
    <3>2. Len(f[p]) = 1
      OBVIOUS
    <3> QED BY <3>1, <3>2
  <2>2. pos[p - 1] + 1 \in 1 .. pos[n] /\ s[pos[p - 1] + 1] = f[p][1]
    BY <1>1, <2>1 DEF Places
  <2> QED BY <1>2, <1>3, <2>1, <2>2
<1>5. ASSUME NEW q \in DOMAIN s
      PROVE  \E p \in 1 .. n : \E j \in 1 .. Len(f[p]) :
               s[q] = f[p][j] /\ (p \in 1 .. k => q = p)
  <2>1. PICK p \in 1 .. n : q - pos[p - 1] \in 1 .. Len(f[p])
    BY <1>1, <1>2 DEF Filled
  <2>2. p - 1 \in 0 .. n /\ q \in Int
    BY <1>2
  <2>3. pos[p - 1] \in Nat
    BY <1>2, <2>2
  <2>4. pos[p - 1] + (q - pos[p - 1]) = q
    BY <2>2, <2>3
  <2>5. s[q] = f[p][q - pos[p - 1]]
    BY <1>1, <2>1, <2>4 DEF Places
  <2>6. ASSUME p \in 1 .. k PROVE q = p
    <3>1. p - 1 \in 0 .. k /\ Len(f[p]) = 1
      BY <2>6
    <3>2. pos[p - 1] = p - 1 /\ q - pos[p - 1] = 1
      BY <1>3, <2>1, <2>2, <3>1
    <3> QED BY <2>2, <3>2
  <2> QED BY <2>1, <2>5, <2>6
<1>6. Leading(f, n, k, s)
  BY <1>4, <1>5 DEF Leading
<1> QED BY <1>6 DEF s
=============================================================================
