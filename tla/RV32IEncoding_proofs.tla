------------------------ MODULE RV32IEncoding_proofs ------------------------
(***************************************************************************)
(* Whatever instructions with operands of their classes are emitted, the   *)
(* machine reads back exactly these.                                       *)
(*                                                                         *)
(* Bit and Bits are recursive functions, which the provers know only as    *)
(* CHOOSE expressions: first it is shown that the functions exist, so that *)
(* they can be unfolded.  Then what each format puts into the fields of    *)
(* the word is read off, and the fields are put together again.            *)
(***************************************************************************)
EXTENDS RV32IEncoding, SequenceLemmas
-----------------------------------------------------------------------------
(* Bit and Bits.                                                           *)

(* x shifted right by 0, 1, 2, ...                                         *)
Shifted(x) ==
    CHOOSE f : f = [j \in 0 .. 31 |-> IF j = 0 THEN x ELSE f[j - 1] \div 2]

(* The recursive function exists: each shift halves the one before.        *)
LEMMA ShiftedExists ==
    ASSUME NEW x
    PROVE  Shifted(x) =
             [j \in 0 .. 31 |-> IF j = 0 THEN x ELSE Shifted(x)[j - 1] \div 2]
<1> DEFINE Is(f, n) ==
             f = [j \in 0 .. n |-> IF j = 0 THEN x ELSE f[j - 1] \div 2]
           S == {n \in Nat : \E f : Is(f, n)}
<1>1. 0 \in S
  <2>1. Is([j \in 0 .. 0 |-> x], 0)
    OBVIOUS
  <2> QED BY <2>1
<1>2. ASSUME NEW n \in S PROVE n + 1 \in S
  <2>1. PICK f : Is(f, n)
    OBVIOUS
  <2> DEFINE g == [j \in 0 .. n + 1 |-> IF j = n + 1 THEN f[n] \div 2 ELSE f[j]]
  <2>2. ASSUME NEW j \in 0 .. n + 1
        PROVE  g[j] = IF j = 0 THEN x ELSE g[j - 1] \div 2
    <3>1. CASE j = n + 1
      BY <3>1
    <3>2. CASE j # n + 1
      <4>1. j \in 0 .. n
        BY <3>2
      <4>2. f[j] = IF j = 0 THEN x ELSE f[j - 1] \div 2
        BY <4>1, <2>1
      <4> QED BY <4>1, <4>2, <3>2
    <3> QED BY <3>1, <3>2
  <2>3. Is(g, n + 1)
    BY <2>2
  <2> HIDE DEF g
  <2>4. \E h : Is(h, n + 1)
    BY <2>3
  <2> QED BY <2>4
<1>3. 31 \in S
  <2> HIDE DEF S
  <2>1. S \in SUBSET Nat
    BY DEF S
  <2> QED BY <1>1, <1>2, <2>1, NatInduct
<1>4. PICK f : Is(f, 31)
  BY <1>3
<1>5. f = [j \in 0 .. 31 |-> IF j = 0 THEN x ELSE f[j - 1] \div 2]
  BY <1>4
<1> QED BY <1>5 DEF Shifted

(* Each bit of x is what a shift drops.                                    *)
LEMMA BitLemma ==
    ASSUME NEW x \in Int
    PROVE  /\ Shifted(x)[0] = x
           /\ \A k \in 0 .. 30 :
                /\ Shifted(x)[k] \in Int
                /\ Bit(x, k) \in {0, 1}
                /\ Shifted(x)[k] = Bit(x, k) + 2 * Shifted(x)[k + 1]
                /\ Shifted(x)[k + 1] = Shifted(x)[k] \div 2
<1>1. Shifted(x)[0] = x
  BY ShiftedExists
<1>2. ASSUME NEW k \in 0 .. 30
      PROVE  Shifted(x)[k + 1] = Shifted(x)[k] \div 2
  <2>1. k + 1 \in 0 .. 31 /\ k + 1 # 0 /\ (k + 1) - 1 = k
    OBVIOUS
  <2> QED BY <2>1, ShiftedExists
<1> DEFINE T == {n \in Nat : n <= 31 => Shifted(x)[n] \in Int}
<1>3. T = Nat
  <2>1. 0 \in T
    BY <1>1
  <2>2. \A n \in T : n + 1 \in T
    BY <1>2
  <2> HIDE DEF T
  <2>3. T \in SUBSET Nat
    BY DEF T
  <2> QED BY <2>1, <2>2, <2>3, NatInduct
<1>4. \A k \in 0 .. 31 : Shifted(x)[k] \in Int
  BY <1>3
<1>5. \A k \in 0 .. 31 : Bit(x, k) = Shifted(x)[k] % 2
  BY DEF Bit, Shifted
<1>6. ASSUME NEW k \in 0 .. 30
      PROVE  /\ Shifted(x)[k] \in Int
             /\ Bit(x, k) \in {0, 1}
             /\ Shifted(x)[k] = Bit(x, k) + 2 * Shifted(x)[k + 1]
             /\ Shifted(x)[k + 1] = Shifted(x)[k] \div 2
  <2>1. Shifted(x)[k] \in Int /\ Bit(x, k) = Shifted(x)[k] % 2
    BY <1>4, <1>5
  <2>2. Shifted(x)[k + 1] = Shifted(x)[k] \div 2
    BY <1>2
  <2> HIDE DEF T
  <2> QED BY <2>1, <2>2
<1> QED BY <1>1, <1>6

(* Bits, one bit after another from the lowest.                            *)
LEMMA BitsUnfold ==
    ASSUME NEW w, NEW hi \in 0 .. 31, NEW lo \in 0 .. 32
    PROVE  Bits(w, hi, lo) =
             IF lo > hi THEN 0 ELSE w[lo] + 2 * Bits(w, hi, lo + 1)
<1> DEFINE Is(f, n) == f = [b \in 32 - n .. 32 |->
                              IF b > hi THEN 0 ELSE w[b] + 2 * f[b + 1]]
           S == {n \in Nat : n <= 32 => \E f : Is(f, n)}
<1>1. 0 \in S
  <2>1. Is([b \in 32 .. 32 |-> 0], 0)
    OBVIOUS
  <2> QED BY <2>1
<1>2. ASSUME NEW n \in S PROVE n + 1 \in S
  <2> SUFFICES ASSUME n + 1 <= 32 PROVE \E f : Is(f, n + 1)
    OBVIOUS
  <2>1. PICK f : Is(f, n)
    OBVIOUS
  <2> DEFINE c == 32 - (n + 1)
             g == [b \in c .. 32 |->
                     IF b # c THEN f[b]
                     ELSE IF b > hi THEN 0 ELSE w[b] + 2 * f[b + 1]]
  <2>2. ASSUME NEW b \in c .. 32
        PROVE  g[b] = IF b > hi THEN 0 ELSE w[b] + 2 * g[b + 1]
    <3>1. CASE b = c
      <4>1. c + 1 \in c .. 32 /\ c + 1 # c
        OBVIOUS
      <4> QED BY <4>1, <3>1
    <3>2. CASE b # c
      <4>1. b \in 32 - n .. 32
        BY <3>2
      <4>2. f[b] = IF b > hi THEN 0 ELSE w[b] + 2 * f[b + 1]
        BY <4>1, <2>1
      <4>3. b <= hi => b + 1 \in c .. 32 /\ b + 1 # c
        BY <4>1
      <4> QED BY <4>2, <4>3, <3>2
    <3> QED BY <3>1, <3>2
  <2>3. Is(g, n + 1)
    BY <2>2
  <2> QED BY <2>3
<1>3. 32 \in S
  <2> HIDE DEF S
  <2>1. S \in SUBSET Nat
    BY DEF S
  <2> QED BY <1>1, <1>2, <2>1, NatInduct
<1> DEFINE value == CHOOSE f : f = [b \in 0 .. 32 |->
                                      IF b > hi THEN 0 ELSE w[b] + 2 * f[b + 1]]
<1>4. value = [b \in 0 .. 32 |-> IF b > hi THEN 0 ELSE w[b] + 2 * value[b + 1]]
  <2>1. PICK f : Is(f, 32)
    BY <1>3
  <2>2. f = [b \in 0 .. 32 |-> IF b > hi THEN 0 ELSE w[b] + 2 * f[b + 1]]
    BY <2>1
  <2> QED BY <2>2
<1>5. \A l \in 0 .. 32 : Bits(w, hi, l) = value[l]
  BY DEF Bits
<1> HIDE DEF value
<1> QED BY <1>4, <1>5

(* A bit field is a number.                                                *)
LEMMA BitsType ==
    ASSUME NEW w \in [0 .. 31 -> {0, 1}], NEW hi \in 0 .. 31
    PROVE  \A lo \in 0 .. hi + 1 : Bits(w, hi, lo) \in Int
<1> DEFINE T == {n \in Nat : n <= hi + 1 => Bits(w, hi, hi + 1 - n) \in Int}
<1>1. 0 \in T
  <2>1. hi + 1 \in 0 .. 32
    OBVIOUS
  <2> QED BY <2>1, BitsUnfold
<1>2. ASSUME NEW n \in T PROVE n + 1 \in T
  <2> SUFFICES ASSUME n + 1 <= hi + 1
               PROVE  Bits(w, hi, hi + 1 - (n + 1)) \in Int
    OBVIOUS
  <2>1. hi - n \in 0 .. hi /\ hi - n \in 0 .. 31 /\ (hi - n) + 1 = hi + 1 - n
    OBVIOUS
  <2>2. Bits(w, hi, hi - n) = w[hi - n] + 2 * Bits(w, hi, hi + 1 - n)
    BY <2>1, BitsUnfold
  <2>3. Bits(w, hi, hi + 1 - n) \in Int /\ w[hi - n] \in Int
    BY <2>1
  <2> QED BY <2>2, <2>3
<1>3. T = Nat
  <2> HIDE DEF T
  <2>1. T \in SUBSET Nat
    BY DEF T
  <2> QED BY <1>1, <1>2, <2>1, NatInduct
<1>4. ASSUME NEW lo \in 0 .. hi + 1 PROVE Bits(w, hi, lo) \in Int
  <2>1. hi + 1 - lo \in Nat /\ hi + 1 - lo <= hi + 1
        /\ hi + 1 - (hi + 1 - lo) = lo
    OBVIOUS
  <2>2. hi + 1 - lo \in T
    BY <1>3, <2>1
  <2> QED BY <2>1, <2>2
<1> QED BY <1>4

(* What is doubled n times is multiplied by 2^n.                           *)
LEMMA Doubling ==
    ASSUME NEW n \in Nat, NEW t, \A i \in 0 .. n : t[i] \in Int,
           \A i \in 0 .. n - 1 : t[i + 1] = 2 * t[i]
    PROVE  /\ n = 3 => t[n] = 8 * t[0]
           /\ n = 4 => t[n] = 16 * t[0]
           /\ n = 5 => t[n] = 32 * t[0]
           /\ n = 6 => t[n] = 64 * t[0]
           /\ n = 7 => t[n] = 128 * t[0]
           /\ n = 8 => t[n] = 256 * t[0]
           /\ n = 10 => t[n] = 1024 * t[0]
           /\ n = 11 => t[n] = 2048 * t[0]
           /\ n = 20 => t[n] = 1024 * (1024 * t[0])
<1>1. ASSUME NEW i \in 0 .. n, i + 3 <= n
      PROVE  t[i + 3] = 8 * t[i]
  <2>1. t[i + 1] = 2 * t[i] /\ t[(i + 1) + 1] = 2 * t[i + 1]
        /\ t[(i + 2) + 1] = 2 * t[i + 2]
    BY <1>1, SMT
  <2> QED BY <2>1, <1>1, SMT
<1>2. ASSUME NEW i \in 0 .. n, i + 4 <= n
      PROVE  t[i + 4] = 16 * t[i]
  <2>1. t[i + 3] = 8 * t[i] /\ t[(i + 3) + 1] = 2 * t[i + 3]
    BY <1>1, <1>2, SMT
  <2> QED BY <2>1, <1>2, SMT
<1>3. n = 3 => t[n] = 8 * t[0]
  BY <1>1, SMT
<1>4. n = 4 => t[n] = 16 * t[0]
  BY <1>2, SMT
<1>5. n = 5 => t[n] = 32 * t[0]
  <2> SUFFICES ASSUME n = 5 PROVE t[5] = 32 * t[0]
    OBVIOUS
  <2>1. t[0 + 4] = 16 * t[0] /\ t[4 + 1] = 2 * t[4]
    BY <1>2, SMT
  <2> QED BY <2>1, SMT
<1>6. n = 6 => t[n] = 64 * t[0]
  <2> SUFFICES ASSUME n = 6 PROVE t[6] = 64 * t[0]
    OBVIOUS
  <2>1. t[0 + 3] = 8 * t[0] /\ t[3 + 3] = 8 * t[3]
    BY <1>1, SMT
  <2> QED BY <2>1, SMT
<1>7. n = 7 => t[n] = 128 * t[0]
  <2> SUFFICES ASSUME n = 7 PROVE t[7] = 128 * t[0]
    OBVIOUS
  <2>1. t[0 + 3] = 8 * t[0] /\ t[3 + 4] = 16 * t[3]
    BY <1>1, <1>2, SMT
  <2> QED BY <2>1, SMT
<1>8. n = 8 => t[n] = 256 * t[0]
  <2> SUFFICES ASSUME n = 8 PROVE t[8] = 256 * t[0]
    OBVIOUS
  <2>1. t[0 + 4] = 16 * t[0] /\ t[4 + 4] = 16 * t[4]
    BY <1>2, SMT
  <2> QED BY <2>1, SMT
<1>9. n = 10 => t[n] = 1024 * t[0]
  <2> SUFFICES ASSUME n = 10 PROVE t[10] = 1024 * t[0]
    OBVIOUS
  <2>1. t[0 + 3] = 8 * t[0] /\ t[3 + 3] = 8 * t[3] /\ t[6 + 4] = 16 * t[6]
    BY <1>1, <1>2, SMT
  <2> QED BY <2>1, SMT
<1>10. n = 11 => t[n] = 2048 * t[0]
  <2> SUFFICES ASSUME n = 11 PROVE t[11] = 2048 * t[0]
    OBVIOUS
  <2>1. t[0 + 3] = 8 * t[0] /\ t[3 + 4] = 16 * t[3] /\ t[7 + 4] = 16 * t[7]
    BY <1>1, <1>2, SMT
  <2> QED BY <2>1, SMT
<1>11. n = 20 => t[n] = 1024 * (1024 * t[0])
  <2> SUFFICES ASSUME n = 20 PROVE t[20] = 1024 * (1024 * t[0])
    OBVIOUS
  <2>1. /\ t[0 + 4] = 16 * t[0] /\ t[4 + 4] = 16 * t[4]
        /\ t[8 + 4] = 16 * t[8] /\ t[12 + 4] = 16 * t[12]
        /\ t[16 + 4] = 16 * t[16]
    BY <1>2, SMT
  <2> QED BY <2>1, SMT
<1> QED BY <1>3, <1>4, <1>5, <1>6, <1>7, <1>8, <1>9, <1>10, <1>11, SMT

(* The bits lo .. hi of w are bits of x, starting with bit `from'.         *)
Holds(w, lo, hi, x, from) ==
    /\ lo \in 0 .. 31 /\ hi \in lo .. 31
    /\ from \in 0 .. 20 /\ from + hi - lo <= 20
    /\ \A b \in lo .. hi : w[b] = Bit(x, from + b - lo)

(* The number in these bits of w is x shifted right by `from', without its *)
(* higher bits.                                                            *)
LEMMA FieldValue ==
    ASSUME NEW w \in [0 .. 31 -> {0, 1}], NEW lo, NEW hi, NEW x \in Int, NEW from,
           Holds(w, lo, hi, x, from)
    PROVE  /\ Bits(w, hi, lo) \in Int
           /\ hi - lo = 2 =>
                Shifted(x)[from] = Bits(w, hi, lo) + 8 * Shifted(x)[from + 3]
           /\ hi - lo = 3 =>
                Shifted(x)[from] = Bits(w, hi, lo) + 16 * Shifted(x)[from + 4]
           /\ hi - lo = 4 =>
                Shifted(x)[from] = Bits(w, hi, lo) + 32 * Shifted(x)[from + 5]
           /\ hi - lo = 5 =>
                Shifted(x)[from] = Bits(w, hi, lo) + 64 * Shifted(x)[from + 6]
           /\ hi - lo = 6 =>
                Shifted(x)[from] = Bits(w, hi, lo) + 128 * Shifted(x)[from + 7]
           /\ hi - lo = 7 =>
                Shifted(x)[from] = Bits(w, hi, lo) + 256 * Shifted(x)[from + 8]
           /\ hi - lo = 9 =>
                Shifted(x)[from] = Bits(w, hi, lo) + 1024 * Shifted(x)[from + 10]
           /\ hi - lo = 10 =>
                Shifted(x)[from] = Bits(w, hi, lo) + 2048 * Shifted(x)[from + 11]
           /\ hi - lo = 19 =>
                Shifted(x)[from] =
                  Bits(w, hi, lo) + 1024 * (1024 * Shifted(x)[from + 20])
<1> DEFINE v == Bits(w, hi, lo)
           n == hi - lo + 1
           above == Shifted(x)[from + n]
<1>field. /\ lo \in 0 .. 31 /\ hi \in 0 .. 31 /\ lo <= hi
          /\ from \in 0 .. 20 /\ from + hi - lo <= 20
          /\ \A b \in lo .. hi : w[b] = Bit(x, from + b - lo)
  BY DEF Holds
<1> DEFINE t == [i \in 0 .. n |->
                   Shifted(x)[from + n - i] - Bits(w, hi, hi + 1 - i)]
<1>1. n \in Nat /\ n <= 21
  BY <1>field
<1>2. ASSUME NEW i \in 0 .. n
      PROVE  Shifted(x)[from + n - i] \in Int /\ Bits(w, hi, hi + 1 - i) \in Int
  <2>1. from + n - i \in 0 .. 30 /\ hi + 1 - i \in 0 .. hi + 1
    BY <1>field, <1>1
  <2> QED BY <1>field, <2>1, BitLemma, BitsType
<1>3. ASSUME NEW i \in 0 .. n - 1
      PROVE  t[i + 1] = 2 * t[i]
  <2> DEFINE b == hi - i
             k == from + n - (i + 1)
  <2>1. /\ b \in lo .. hi /\ b \in 0 .. 31 /\ b + 1 = hi + 1 - i
        /\ hi + 1 - (i + 1) = b
        /\ k \in 0 .. 30 /\ k = from + b - lo /\ k + 1 = from + n - i
        /\ i \in 0 .. n /\ i + 1 \in 0 .. n
    BY <1>field, <1>1
  <2>2. Shifted(x)[k] = Bit(x, k) + 2 * Shifted(x)[k + 1]
    BY <2>1, BitLemma
  <2>3. Bits(w, hi, b) = w[b] + 2 * Bits(w, hi, b + 1)
    BY <1>field, <2>1, BitsUnfold
  <2>4. w[b] = Bit(x, k) /\ w[b] \in Int
    BY <1>field, <2>1
  <2>5. Shifted(x)[k + 1] \in Int /\ Bits(w, hi, b + 1) \in Int
    BY <2>1, <1>2
  <2>6. /\ t[i + 1] = Shifted(x)[k] - Bits(w, hi, b)
        /\ t[i] = Shifted(x)[k + 1] - Bits(w, hi, b + 1)
    BY <2>1
  <2> HIDE DEF b, k, t
  <2> QED BY <2>2, <2>3, <2>4, <2>5, <2>6
<1>4. t[0] = above
  <2>1. Bits(w, hi, hi + 1) = 0
    BY <1>field, BitsUnfold
  <2>2. from + n - 0 = from + n /\ hi + 1 - 0 = hi + 1 /\ 0 \in 0 .. n
    BY <1>field, <1>1
  <2> QED BY <2>1, <2>2, <1>2
<1>5. t[n] = Shifted(x)[from] - v
  <2>1. from + n - n = from /\ hi + 1 - n = lo /\ n \in 0 .. n
    BY <1>field, <1>1
  <2> QED BY <2>1
<1>6. \A i \in 0 .. n : t[i] \in Int
  BY <1>2
<1>7. v \in Int /\ above \in Int /\ Shifted(x)[from] \in Int
  <2>1. from + n - 0 = from + n /\ 0 \in 0 .. n /\ from + n - n = from
        /\ n \in 0 .. n /\ hi + 1 - n = lo
    BY <1>field, <1>1
  <2> QED BY <1>2, <2>1
<1> HIDE DEF t
<1>8. /\ n = 3 => t[n] = 8 * t[0]
      /\ n = 4 => t[n] = 16 * t[0]
      /\ n = 5 => t[n] = 32 * t[0]
      /\ n = 6 => t[n] = 64 * t[0]
      /\ n = 7 => t[n] = 128 * t[0]
      /\ n = 8 => t[n] = 256 * t[0]
      /\ n = 10 => t[n] = 1024 * t[0]
      /\ n = 11 => t[n] = 2048 * t[0]
      /\ n = 20 => t[n] = 1024 * (1024 * t[0])
  BY <1>1, <1>3, <1>6, Doubling, SMT
<1>9. /\ n = 3 => Shifted(x)[from] = v + 8 * above
      /\ n = 4 => Shifted(x)[from] = v + 16 * above
      /\ n = 5 => Shifted(x)[from] = v + 32 * above
      /\ n = 6 => Shifted(x)[from] = v + 64 * above
      /\ n = 7 => Shifted(x)[from] = v + 128 * above
      /\ n = 8 => Shifted(x)[from] = v + 256 * above
      /\ n = 10 => Shifted(x)[from] = v + 1024 * above
      /\ n = 11 => Shifted(x)[from] = v + 2048 * above
      /\ n = 20 => Shifted(x)[from] = v + 1024 * (1024 * above)
  <2> HIDE DEF v, above, n
  <2> QED BY <1>4, <1>5, <1>7, <1>8, SMT
<1> QED BY <1>field, <1>7, <1>9

(* The number in some bits of a word has these bits.                       *)
LEMMA BitOfBits ==
    ASSUME NEW w \in [0 .. 31 -> {0, 1}], NEW lo \in 0 .. 31, NEW hi \in lo .. 31,
           hi < 31 \/ 0 < lo
    PROVE  \A j \in 0 .. hi - lo : Bit(Bits(w, hi, lo), j) = w[lo + j]
<1> DEFINE v == Bits(w, hi, lo)
           T == {j \in Nat : j <= hi - lo => Shifted(v)[j] = Bits(w, hi, lo + j)}
<1>1. hi \in 0 .. 31 /\ v \in Int
  BY BitsType
<1>2. ASSUME NEW j \in 0 .. hi - lo
      PROVE  /\ Bits(w, hi, lo + j) = w[lo + j] + 2 * Bits(w, hi, lo + (j + 1))
             /\ w[lo + j] \in {0, 1}
             /\ Bits(w, hi, lo + (j + 1)) \in Int
             /\ j \in 0 .. 30
  <2>1. lo + j \in 0 .. 31 /\ lo + j <= hi /\ (lo + j) + 1 = lo + (j + 1)
        /\ lo + (j + 1) \in 0 .. hi + 1
    OBVIOUS
  <2>2. Bits(w, hi, lo + j) = w[lo + j] + 2 * Bits(w, hi, (lo + j) + 1)
    BY <1>1, <2>1, BitsUnfold
  <2>3. Bits(w, hi, lo + (j + 1)) \in Int
    BY <1>1, <2>1, BitsType
  <2>4. w[lo + j] \in {0, 1}
    BY <2>1
  <2> QED BY <2>1, <2>2, <2>3, <2>4
<1> HIDE DEF v
<1>3. 0 \in T
  BY <1>1, BitLemma DEF v
<1>4. ASSUME NEW j \in T PROVE j + 1 \in T
  <2> SUFFICES ASSUME j + 1 <= hi - lo
               PROVE  Shifted(v)[j + 1] = Bits(w, hi, lo + (j + 1))
    OBVIOUS
  <2>1. j \in 0 .. hi - lo /\ Shifted(v)[j] = Bits(w, hi, lo + j)
    OBVIOUS
  <2>2. Shifted(v)[j + 1] = Shifted(v)[j] \div 2
    BY <1>1, <1>2, <2>1, BitLemma
  <2>3. /\ Bits(w, hi, lo + j) = w[lo + j] + 2 * Bits(w, hi, lo + (j + 1))
        /\ w[lo + j] \in {0, 1} /\ Bits(w, hi, lo + (j + 1)) \in Int
    BY <1>2, <2>1
  <2> HIDE DEF T
  <2> QED BY <2>1, <2>2, <2>3
<1>5. T = Nat
  <2> HIDE DEF T
  <2>1. T \in SUBSET Nat
    BY DEF T
  <2> QED BY <1>3, <1>4, <2>1, NatInduct
<1>6. ASSUME NEW j \in 0 .. hi - lo PROVE Bit(v, j) = w[lo + j]
  <2>1. Shifted(v)[j] = Bits(w, hi, lo + j)
    BY <1>5
  <2>2. Shifted(v)[j] = Bit(v, j) + 2 * Shifted(v)[j + 1]
        /\ Bit(v, j) \in {0, 1} /\ Shifted(v)[j + 1] = Shifted(v)[j] \div 2
        /\ Shifted(v)[j] \in Int
    BY <1>1, <1>2, BitLemma
  <2> HIDE DEF T
  <2> QED BY <1>2, <2>1, <2>2
<1> QED BY <1>6 DEF v

(* Eight bits are a byte.                                                  *)
LEMMA ByteLemma ==
    ASSUME NEW w \in [0 .. 31 -> {0, 1}], NEW lo \in 0 .. 24
    PROVE  Bits(w, lo + 7, lo) \in 0 .. 255
<1> DEFINE hi == lo + 7
<1>1. ASSUME NEW b \in lo .. hi
      PROVE  /\ Bits(w, hi, b) = w[b] + 2 * Bits(w, hi, b + 1)
             /\ w[b] \in {0, 1}
  <2>1. b \in 0 .. 31 /\ hi \in 0 .. 31 /\ b <= hi
    OBVIOUS
  <2> QED BY <2>1, BitsUnfold
<1>2. Bits(w, hi, hi + 1) = 0
  <2>1. hi \in 0 .. 31 /\ hi + 1 \in 0 .. 32 /\ hi + 1 > hi
    OBVIOUS
  <2> QED BY <2>1, BitsUnfold
<1> DEFINE u(k) == Bits(w, hi, lo + k)
<1>3. \A k \in {0, 1, 2, 3, 4, 5, 6, 7} :
        u(k) = w[lo + k] + 2 * u(k + 1) /\ w[lo + k] \in {0, 1}
  <2> TAKE k \in {0, 1, 2, 3, 4, 5, 6, 7}
  <2>1. lo + k \in lo .. hi /\ (lo + k) + 1 = lo + (k + 1)
    OBVIOUS
  <2> QED BY <1>1, <2>1
<1>4. u(8) = 0
  <2>1. hi + 1 = lo + 8
    OBVIOUS
  <2> QED BY <1>2, <2>1
<1> HIDE DEF u
<1>5. u(7) \in 0 .. 1
  BY <1>3, <1>4
<1>6. u(6) \in 0 .. 3
  BY <1>3, <1>5
<1>7. u(5) \in 0 .. 7
  BY <1>3, <1>6
<1>8. u(4) \in 0 .. 15
  BY <1>3, <1>7
<1>9. u(3) \in 0 .. 31
  BY <1>3, <1>8
<1>10. u(2) \in 0 .. 63
  BY <1>3, <1>9
<1>11. u(1) \in 0 .. 127
  BY <1>3, <1>10
<1>12. u(0) \in 0 .. 255
  BY <1>3, <1>11
<1> QED BY <1>12 DEF u

(* A word written as four bytes and read again is the same word.           *)
LEMMA RoundTrip ==
    ASSUME NEW w \in [0 .. 31 -> {0, 1}]
    PROVE  \A b \in 0 .. 31 :
             /\ (b \div 8) + 1 \in 1 .. 4
             /\ Bit(LittleEndian(w)[(b \div 8) + 1], b % 8) = w[b]
<1> TAKE b \in 0 .. 31
<1> DEFINE lo == 8 * (b \div 8)
           hi == lo + 7
<1>1. /\ (b \div 8) + 1 \in 1 .. 4
      /\ lo \in 0 .. 24 /\ b % 8 \in 0 .. 7 /\ lo + (b % 8) = b
      /\ 8 * ((b \div 8) + 1) - 1 = hi /\ 8 * ((b \div 8) + 1) - 8 = lo
  OBVIOUS
<1>2. LittleEndian(w)[(b \div 8) + 1] = Bits(w, hi, lo)
  BY <1>1 DEF LittleEndian
<1>3. Bit(Bits(w, hi, lo), b % 8) = w[lo + (b % 8)]
  <2>1. lo \in 0 .. 31 /\ hi \in lo .. 31 /\ (hi < 31 \/ 0 < lo)
        /\ b % 8 \in 0 .. hi - lo
    BY <1>1
  <2> HIDE DEF lo, hi
  <2> QED BY <2>1, BitOfBits
<1> QED BY <1>1, <1>2, <1>3

(* What remains of a number when as many bits as it has are dropped.       *)
LEMMA ShiftedBounds ==
    ASSUME NEW x \in Int
    PROVE  /\ 0 <= x /\ x <= 7 => Shifted(x)[3] = 0
           /\ shamt(x) => Shifted(x)[5] = 0
           /\ 0 <= x /\ x <= 127 => Shifted(x)[7] = 0
           /\ simm12(x) => Shifted(x)[11] \in {-1, 0}
           /\ brtarget(x) => Shifted(x)[12] \in {-1, 0}
           /\ uimm20(x) => Shifted(x)[20] = 0
           /\ jmptarget(x) => Shifted(x)[20] \in {-1, 0}
<1>1. ASSUME NEW k \in 0 .. 27
      PROVE  /\ Shifted(x)[k + 1] \in Int /\ Shifted(x)[k + 3] \in Int
             /\ Shifted(x)[k + 4] \in Int
             /\ \E r \in 0 .. 1 : Shifted(x)[k] = r + 2 * Shifted(x)[k + 1]
             /\ \E r \in 0 .. 7 : Shifted(x)[k] = r + 8 * Shifted(x)[k + 3]
             /\ \E r \in 0 .. 15 : Shifted(x)[k] = r + 16 * Shifted(x)[k + 4]
  <2>1. /\ k \in 0 .. 30 /\ k + 1 \in 0 .. 30 /\ k + 2 \in 0 .. 30
        /\ k + 3 \in 0 .. 30 /\ k + 4 \in 0 .. 31
        /\ (k + 1) + 1 = k + 2 /\ (k + 2) + 1 = k + 3 /\ (k + 3) + 1 = k + 4
    OBVIOUS
  <2>2. ASSUME NEW j \in 0 .. 30
        PROVE  /\ Shifted(x)[j] \in Int /\ Shifted(x)[j + 1] \in Int
               /\ \E r \in 0 .. 1 : Shifted(x)[j] = r + 2 * Shifted(x)[j + 1]
    <3>1. /\ Shifted(x)[j] \in Int /\ Bit(x, j) \in {0, 1}
          /\ Shifted(x)[j] = Bit(x, j) + 2 * Shifted(x)[j + 1]
          /\ Shifted(x)[j + 1] = Shifted(x)[j] \div 2
      BY BitLemma
    <3> QED BY <3>1
  <2> DEFINE y0 == Shifted(x)[k]
             y1 == Shifted(x)[k + 1]
             y2 == Shifted(x)[k + 2]
             y3 == Shifted(x)[k + 3]
             y4 == Shifted(x)[k + 4]
  <2>3. PICK a \in 0 .. 1 : y0 = a + 2 * y1
    BY <2>1, <2>2
  <2>4. PICK b \in 0 .. 1 : y1 = b + 2 * y2
    BY <2>1, <2>2
  <2>5. PICK c \in 0 .. 1 : y2 = c + 2 * y3
    BY <2>1, <2>2
  <2>6. PICK d \in 0 .. 1 : y3 = d + 2 * y4
    BY <2>1, <2>2
  <2>7. y0 \in Int /\ y1 \in Int /\ y2 \in Int /\ y3 \in Int /\ y4 \in Int
    BY <2>1, <2>2
  <2> HIDE DEF y0, y1, y2, y3, y4
  <2>8. /\ a + 2 * b + 4 * c \in 0 .. 7
        /\ a + 2 * b + 4 * c + 8 * d \in 0 .. 15
        /\ y0 = (a + 2 * b + 4 * c) + 8 * y3
        /\ y0 = (a + 2 * b + 4 * c + 8 * d) + 16 * y4
    BY <2>3, <2>4, <2>5, <2>6, <2>7
  <2>9. /\ \E r \in 0 .. 1 : y0 = r + 2 * y1
        /\ \E r \in 0 .. 7 : y0 = r + 8 * y3
        /\ \E r \in 0 .. 15 : y0 = r + 16 * y4
    BY <2>3, <2>8
  <2> QED BY <2>7, <2>9 DEF y0, y1, y3, y4
<1>2. Shifted(x)[0] = x
  BY BitLemma
<1>3. /\ 0 + 4 = 4 /\ 4 + 4 = 8 /\ 8 + 4 = 12 /\ 12 + 4 = 16 /\ 16 + 4 = 20
      /\ 0 + 3 = 3 /\ 4 + 3 = 7 /\ 8 + 3 = 11 /\ 4 + 1 = 5
      /\ 0 \in 0 .. 27 /\ 4 \in 0 .. 27 /\ 8 \in 0 .. 27 /\ 12 \in 0 .. 27
      /\ 16 \in 0 .. 27
  OBVIOUS
<1> DEFINE y3 == Shifted(x)[3]
           y4 == Shifted(x)[4]
           y5 == Shifted(x)[5]
           y7 == Shifted(x)[7]
           y8 == Shifted(x)[8]
           y11 == Shifted(x)[11]
           y12 == Shifted(x)[12]
           y16 == Shifted(x)[16]
           y20 == Shifted(x)[20]
<1>4. PICK r0 \in 0 .. 15 : x = r0 + 16 * y4
  BY <1>1, <1>2, <1>3
<1>5. PICK r1 \in 0 .. 15 : y4 = r1 + 16 * y8
  BY <1>1, <1>3
<1>6. PICK r2 \in 0 .. 15 : y8 = r2 + 16 * y12
  BY <1>1, <1>3
<1>7. PICK r3 \in 0 .. 15 : y12 = r3 + 16 * y16
  BY <1>1, <1>3
<1>8. PICK r4 \in 0 .. 15 : y16 = r4 + 16 * y20
  BY <1>1, <1>3
<1>9. PICK a0 \in 0 .. 7 : x = a0 + 8 * y3
  BY <1>1, <1>2, <1>3
<1>10. PICK a4 \in 0 .. 7 : y4 = a4 + 8 * y7
  BY <1>1, <1>3
<1>11. PICK a8 \in 0 .. 7 : y8 = a8 + 8 * y11
  BY <1>1, <1>3
<1>12. PICK b4 \in 0 .. 1 : y4 = b4 + 2 * y5
  BY <1>1, <1>3
<1>13. /\ y3 \in Int /\ y4 \in Int /\ y5 \in Int /\ y7 \in Int /\ y8 \in Int
       /\ y11 \in Int /\ y12 \in Int /\ y16 \in Int /\ y20 \in Int
  BY <1>1, <1>3
<1> HIDE DEF y3, y4, y5, y7, y8, y11, y12, y16, y20
<1>14. /\ 0 <= x /\ x <= 7 => y3 = 0
       /\ shamt(x) => y5 = 0
  BY <1>4, <1>9, <1>12, <1>13, SMT DEF shamt
<1>15. 0 <= x /\ x <= 127 => y7 = 0
  BY <1>4, <1>10, <1>13, SMT
<1>16. simm12(x) => y11 \in {-1, 0}
  BY <1>4, <1>5, <1>11, <1>13, SMT DEF simm12
<1>17. brtarget(x) => y12 \in {-1, 0}
  BY <1>4, <1>5, <1>6, <1>13, SMT DEF brtarget
<1>18. /\ uimm20(x) => y20 = 0
       /\ jmptarget(x) => y20 \in {-1, 0}
  BY <1>4, <1>5, <1>6, <1>7, <1>8, <1>13, SMT DEF uimm20, jmptarget
<1> QED BY <1>14, <1>15, <1>16, <1>17, <1>18 DEF y3, y5, y7, y11, y12, y20
-----------------------------------------------------------------------------
(* The fields of a word.                                                   *)

(* A register, a shift amount, funct3, funct7 or opcode is back whole.     *)
LEMMA UnsignedField ==
    ASSUME NEW w \in [0 .. 31 -> {0, 1}], NEW lo, NEW hi,
           NEW x \in Int, 0 <= x, Holds(w, lo, hi, x, 0)
    PROVE  /\ hi - lo = 2 /\ x <= 7 => Bits(w, hi, lo) = x
           /\ hi - lo = 4 /\ x <= 31 => Bits(w, hi, lo) = x
           /\ hi - lo = 6 /\ x <= 127 => Bits(w, hi, lo) = x
<1>1. Shifted(x)[0] = x
  BY BitLemma
<1>2. /\ Bits(w, hi, lo) \in Int
      /\ hi - lo = 2 => x = Bits(w, hi, lo) + 8 * Shifted(x)[3]
      /\ hi - lo = 4 => x = Bits(w, hi, lo) + 32 * Shifted(x)[5]
      /\ hi - lo = 6 => x = Bits(w, hi, lo) + 128 * Shifted(x)[7]
  BY <1>1, FieldValue
<1>3. /\ x <= 7 => Shifted(x)[3] = 0
      /\ x <= 31 => Shifted(x)[5] = 0
      /\ x <= 127 => Shifted(x)[7] = 0
  BY ShiftedBounds, SMT DEF shamt
<1> QED BY <1>2, <1>3
-----------------------------------------------------------------------------
(* The table of instructions.                                              *)

(* The fields of the table fit their widths and formats.                   *)
LEMMA InstrInfoType ==
    \A op \in DOMAIN InstrInfo :
      /\ InstrInfo[op].opcode \in 0 .. 127
      /\ InstrInfo[op].funct3 \in 0 .. 7
      /\ InstrInfo[op].funct7 \in 0 .. 127
      /\ InstrInfo[op].format \in {"RVInstR", "RVInstI", "RVInstIShift", "RVInstS",
                                   "RVInstB", "RVInstU", "RVInstJ"}
BY SMTT(60) DEF InstrInfo, ALU, ALUImm, Shift, Branch, LoadInst, StoreInst, Def

(* Format and opcode determine each other but for the shifts, which share  *)
(* an opcode with the other immediate instructions; a field an instruction *)
(* is not told by is zero.                                                 *)
LEMMA FormatFields ==
    \A op \in DOMAIN InstrInfo :
      LET info == InstrInfo[op]
      IN  /\ info.format = "RVInstR" => info.opcode = 51
          /\ info.format = "RVInstIShift" =>
               info.opcode = 19 /\ info.funct3 \in {1, 5}
          /\ info.format = "RVInstI" => info.opcode \in {3, 19, 103}
          /\ info.format = "RVInstI" => ~ (info.opcode = 19 /\ info.funct3 \in {1, 5})
          /\ info.format = "RVInstS" => info.opcode = 35
          /\ info.format = "RVInstB" => info.opcode = 99
          /\ info.format = "RVInstU" => info.opcode \in {23, 55} /\ info.funct3 = 0
          /\ info.format = "RVInstJ" => info.opcode = 111 /\ info.funct3 = 0
          /\ info.format \notin {"RVInstR", "RVInstIShift"} => info.funct7 = 0
BY SMTT(60) DEF InstrInfo, ALU, ALUImm, Shift, Branch, LoadInst, StoreInst, Def

(* The manual lays an instruction out as its format in the table does.     *)
LayoutOf(op) == Layout(InstrInfo[op].opcode, InstrInfo[op].funct3)
(* Each format of the table is one layout of the manual.                   *)
LEMMA LayoutLemma ==
    \A op \in DOMAIN InstrInfo :
      /\ InstrInfo[op].format = "RVInstR" => LayoutOf(op) = "register"
      /\ InstrInfo[op].format = "RVInstIShift" => LayoutOf(op) = "shift"
      /\ InstrInfo[op].format = "RVInstI" => LayoutOf(op) = "immediate"
      /\ InstrInfo[op].format = "RVInstS" => LayoutOf(op) = "store"
      /\ InstrInfo[op].format = "RVInstB" => LayoutOf(op) = "branch"
      /\ InstrInfo[op].format = "RVInstU" => LayoutOf(op) = "upper"
      /\ InstrInfo[op].format = "RVInstJ" => LayoutOf(op) = "jump"
<1> SUFFICES ASSUME NEW op \in DOMAIN InstrInfo
             PROVE  /\ InstrInfo[op].format = "RVInstR" => LayoutOf(op) = "register"
                    /\ InstrInfo[op].format = "RVInstIShift" =>
                         LayoutOf(op) = "shift"
                    /\ InstrInfo[op].format = "RVInstI" => LayoutOf(op) = "immediate"
                    /\ InstrInfo[op].format = "RVInstS" => LayoutOf(op) = "store"
                    /\ InstrInfo[op].format = "RVInstB" => LayoutOf(op) = "branch"
                    /\ InstrInfo[op].format = "RVInstU" => LayoutOf(op) = "upper"
                    /\ InstrInfo[op].format = "RVInstJ" => LayoutOf(op) = "jump"
  OBVIOUS
<1>1. InstrInfo[op].format = "RVInstR" => LayoutOf(op) = "register"
  BY FormatFields DEF LayoutOf, Layout
<1>2. InstrInfo[op].format = "RVInstIShift" => LayoutOf(op) = "shift"
  BY FormatFields DEF LayoutOf, Layout
<1>3. InstrInfo[op].format = "RVInstI" => LayoutOf(op) = "immediate"
  BY FormatFields DEF LayoutOf, Layout
<1>4. InstrInfo[op].format = "RVInstS" => LayoutOf(op) = "store"
  BY FormatFields DEF LayoutOf, Layout
<1>5. InstrInfo[op].format = "RVInstB" => LayoutOf(op) = "branch"
  BY FormatFields DEF LayoutOf, Layout
<1>6. InstrInfo[op].format = "RVInstU" => LayoutOf(op) = "upper"
  BY FormatFields DEF LayoutOf, Layout
<1>7. InstrInfo[op].format = "RVInstJ" => LayoutOf(op) = "jump"
  BY FormatFields DEF LayoutOf, Layout
<1> QED BY <1>1, <1>2, <1>3, <1>4, <1>5, <1>6, <1>7

(* No two instructions of the table share opcode, funct3 and funct7.       *)
LEMMA InstrInfoInjective ==
    \A p, q \in DOMAIN InstrInfo :
      /\ InstrInfo[p].opcode = InstrInfo[q].opcode
      /\ InstrInfo[p].funct3 = InstrInfo[q].funct3
      /\ InstrInfo[p].funct7 = InstrInfo[q].funct7
      => p = q
BY SMTT(60) DEF InstrInfo, Shift, Def, ALU, ALUImm, Branch, LoadInst, StoreInst

(* No two instructions agree in all the fields by which their layout tells *)
(* them apart.                                                             *)
LEMMA Unambiguous ==
    ASSUME NEW p \in DOMAIN InstrInfo, NEW q \in DOMAIN InstrInfo,
           InstrInfo[p].opcode = InstrInfo[q].opcode,
           \/ LayoutOf(q) \in {"upper", "jump"}
           \/ InstrInfo[p].funct3 = InstrInfo[q].funct3,
           LayoutOf(q) \in {"register", "shift"} =>
             InstrInfo[p].funct7 = InstrInfo[q].funct7
    PROVE  p = q
<1>1. CASE LayoutOf(q) \in {"upper", "jump"}
  <2>1. InstrInfo[q].format \in {"RVInstU", "RVInstJ"}
    BY <1>1, InstrInfoType, LayoutLemma
  <2>2. InstrInfo[p].format \in {"RVInstU", "RVInstJ"}
    BY <2>1, InstrInfoType, FormatFields
  <2> QED BY <2>1, <2>2, FormatFields, InstrInfoInjective
<1>2. CASE LayoutOf(q) \notin {"upper", "jump"}
  <2>1. LayoutOf(p) = LayoutOf(q)
    BY <1>2 DEF LayoutOf
  <2>2. CASE LayoutOf(q) \in {"register", "shift"}
    BY <1>2, <2>2, InstrInfoInjective
  <2>3. CASE LayoutOf(q) \notin {"register", "shift"}
    <3>1. /\ InstrInfo[p].format \notin {"RVInstR", "RVInstIShift"}
          /\ InstrInfo[q].format \notin {"RVInstR", "RVInstIShift"}
      BY <2>1, <2>3, InstrInfoType, LayoutLemma
    <3> QED BY <1>2, <3>1, FormatFields, InstrInfoInjective
  <2> QED BY <2>2, <2>3
<1> QED BY <1>1, <1>2
-----------------------------------------------------------------------------
(* The word of an instruction.                                             *)

(* A word is a function of its bits.                                       *)
LEMMA WordIsFunction ==
    ASSUME NEW mi
    PROVE  getBinaryCodeForInstr(mi) =
             [b \in 0 .. 31 |-> getBinaryCodeForInstr(mi)[b]]
<1> DEFINE info == InstrInfo[mi.op]
           v == [opcode |-> info.opcode, funct3 |-> info.funct3,
                 funct7 |-> info.funct7, rd |-> mi.rd, rs1 |-> mi.rs1,
                 rs2 |-> mi.rs2, imm |-> mi.imm]
           bit(b) == CASE info.format = "RVInstR" -> RVInstR(v, b)
                       [] info.format = "RVInstI" -> RVInstI(v, b)
                       [] info.format = "RVInstIShift" -> RVInstIShift(v, b)
                       [] info.format = "RVInstS" -> RVInstS(v, b)
                       [] info.format = "RVInstB" -> RVInstB(v, b)
                       [] info.format = "RVInstU" -> RVInstU(v, b)
                       [] info.format = "RVInstJ" -> RVInstJ(v, b)
<1>1. getBinaryCodeForInstr(mi) = [b \in 0 .. 31 |-> bit(b)]
  BY DEF getBinaryCodeForInstr
<1> HIDE DEF bit
<1> QED BY <1>1

(* Where the formats put the fields; the rest of the immediates below.     *)
LEMMA WordBits ==
    ASSUME NEW mi \in Operands, NEW info, info = InstrInfo[mi.op],
           NEW w, w = getBinaryCodeForInstr(mi)
    PROVE  /\ w \in [0 .. 31 -> {0, 1}]
           /\ \A b \in 0 .. 6 : w[b] = Bit(info.opcode, b)
           /\ info.format \notin {"RVInstU", "RVInstJ"} =>
                /\ \A b \in 12 .. 14 : w[b] = Bit(info.funct3, b - 12)
                /\ \A b \in 15 .. 19 : w[b] = Bit(mi.rs1, b - 15)
           /\ info.format \notin {"RVInstS", "RVInstB"} =>
                \A b \in 7 .. 11 : w[b] = Bit(mi.rd, b - 7)
           /\ info.format \in {"RVInstR", "RVInstS", "RVInstB"} =>
                \A b \in 20 .. 24 : w[b] = Bit(mi.rs2, b - 20)
           /\ info.format \in {"RVInstR", "RVInstIShift"} =>
                \A b \in 25 .. 31 : w[b] = Bit(info.funct7, b - 25)
           /\ info.format = "RVInstIShift" =>
                \A b \in 20 .. 24 : w[b] = Bit(mi.imm, b - 20)
           /\ info.format = "RVInstI" =>
                \A b \in 20 .. 31 : w[b] = Bit(mi.imm, b - 20)
           /\ info.format = "RVInstS" =>
                /\ \A b \in 25 .. 31 : w[b] = Bit(mi.imm, b - 20)
                /\ \A b \in 7 .. 11 : w[b] = Bit(mi.imm, b - 7)
           /\ info.format = "RVInstB" =>
                /\ w[31] = Bit(mi.imm, 12) /\ w[7] = Bit(mi.imm, 11)
                /\ \A b \in 25 .. 30 : w[b] = Bit(mi.imm, b - 20)
                /\ \A b \in 8 .. 11 : w[b] = Bit(mi.imm, b - 7)
           /\ info.format = "RVInstU" =>
                \A b \in 12 .. 31 : w[b] = Bit(mi.imm, b - 12)
           /\ info.format = "RVInstJ" =>
                /\ w[31] = Bit(mi.imm, 20) /\ w[20] = Bit(mi.imm, 11)
                /\ \A b \in 21 .. 30 : w[b] = Bit(mi.imm, b - 20)
                /\ \A b \in 12 .. 19 : w[b] = Bit(mi.imm, b)
<1> DEFINE v == [opcode |-> info.opcode, funct3 |-> info.funct3,
                 funct7 |-> info.funct7, rd |-> mi.rd, rs1 |-> mi.rs1,
                 rs2 |-> mi.rs2, imm |-> mi.imm]
<1>1. /\ v.opcode = info.opcode /\ v.funct3 = info.funct3
      /\ v.funct7 = info.funct7 /\ v.rd = mi.rd /\ v.rs1 = mi.rs1
      /\ v.rs2 = mi.rs2 /\ v.imm = mi.imm
  OBVIOUS
<1>2. /\ v.opcode \in Int /\ v.funct3 \in Int /\ v.funct7 \in Int
      /\ v.rd \in Int /\ v.rs1 \in Int /\ v.rs2 \in Int /\ v.imm \in Int
  <2>1. mi.op \in DOMAIN InstrInfo /\ mi.rd \in Int /\ mi.rs1 \in Int
        /\ mi.rs2 \in Int /\ mi.imm \in Int
    BY DEF Operands, GPR
  <2>2. info.opcode \in Int /\ info.funct3 \in Int /\ info.funct7 \in Int
    BY <2>1, InstrInfoType
  <2> QED BY <2>1, <2>2
<1>3. info.format \in {"RVInstR", "RVInstI", "RVInstIShift", "RVInstS",
                       "RVInstB", "RVInstU", "RVInstJ"}
  BY InstrInfoType DEF Operands
<1>4. ASSUME NEW b \in 0 .. 31
      PROVE  /\ info.format = "RVInstR" => w[b] = RVInstR(v, b)
             /\ info.format = "RVInstI" => w[b] = RVInstI(v, b)
             /\ info.format = "RVInstIShift" => w[b] = RVInstIShift(v, b)
             /\ info.format = "RVInstS" => w[b] = RVInstS(v, b)
             /\ info.format = "RVInstB" => w[b] = RVInstB(v, b)
             /\ info.format = "RVInstU" => w[b] = RVInstU(v, b)
             /\ info.format = "RVInstJ" => w[b] = RVInstJ(v, b)
  BY DEF getBinaryCodeForInstr
<1>5. w = [b \in 0 .. 31 |-> w[b]]
  BY WordIsFunction
<1> HIDE DEF v
<1>6. ASSUME NEW b \in 0 .. 31
      PROVE  /\ b \in 25 .. 31 => RVInstR(v, b) = Bit(v.funct7, b - 25)
             /\ b \in 20 .. 24 => RVInstR(v, b) = Bit(v.rs2, b - 20)
             /\ b \in 15 .. 19 => RVInstR(v, b) = Bit(v.rs1, b - 15)
             /\ b \in 12 .. 14 => RVInstR(v, b) = Bit(v.funct3, b - 12)
             /\ b \in 7 .. 11 => RVInstR(v, b) = Bit(v.rd, b - 7)
             /\ b \in 0 .. 6 => RVInstR(v, b) = Bit(v.opcode, b)
  BY DEF RVInstR, RV32IInst
<1>7. CASE info.format = "RVInstR"
  BY <1>1, <1>2, <1>4, <1>5, <1>6, <1>7, BitLemma, SMTT(30)
<1>8. CASE info.format = "RVInstI"
  BY <1>1, <1>2, <1>4, <1>5, <1>6, <1>8, BitLemma, SMTT(30) DEF RVInstI
<1>9. CASE info.format = "RVInstIShift"
  BY <1>1, <1>2, <1>4, <1>5, <1>6, <1>9, BitLemma, SMTT(30) DEF RVInstIShift
<1>10. CASE info.format = "RVInstS"
  BY <1>1, <1>2, <1>4, <1>5, <1>6, <1>10, BitLemma, SMTT(30) DEF RVInstS
<1>11. CASE info.format = "RVInstB"
  BY <1>1, <1>2, <1>4, <1>5, <1>6, <1>11, BitLemma, SMTT(30) DEF RVInstB
<1>12. CASE info.format = "RVInstU"
  BY <1>1, <1>2, <1>4, <1>5, <1>6, <1>12, BitLemma, SMTT(30) DEF RVInstU
<1>13. CASE info.format = "RVInstJ"
  BY <1>1, <1>2, <1>4, <1>5, <1>6, <1>13, BitLemma, SMTT(30) DEF RVInstJ
<1> QED BY <1>3, <1>7, <1>8, <1>9, <1>10, <1>11, <1>12, <1>13

(* Opcode, functions and registers of a word.                              *)
LEMMA WordFields ==
    ASSUME NEW mi \in Operands, NEW info, info = InstrInfo[mi.op],
           NEW w, w = getBinaryCodeForInstr(mi)
    PROVE  /\ Bits(w, 6, 0) = info.opcode
           /\ info.format \notin {"RVInstU", "RVInstJ"} =>
                Bits(w, 14, 12) = info.funct3 /\ Bits(w, 19, 15) = mi.rs1
           /\ info.format \notin {"RVInstS", "RVInstB"} => Bits(w, 11, 7) = mi.rd
           /\ info.format \in {"RVInstR", "RVInstS", "RVInstB"} =>
                Bits(w, 24, 20) = mi.rs2
           /\ info.format \in {"RVInstR", "RVInstIShift"} =>
                Bits(w, 31, 25) = info.funct7
           /\ info.format = "RVInstIShift" /\ shamt(mi.imm) =>
                Bits(w, 24, 20) = mi.imm
<1>1. w \in [0 .. 31 -> {0, 1}]
  BY WordBits
<1>2. mi.rd \in 0 .. 31 /\ mi.rs1 \in 0 .. 31 /\ mi.rs2 \in 0 .. 31
      /\ mi.imm \in Int /\ mi.op \in DOMAIN InstrInfo
  BY DEF Operands, GPR
<1>3. /\ info.opcode \in 0 .. 127 /\ info.funct3 \in 0 .. 7
      /\ info.funct7 \in 0 .. 127
  BY <1>2, InstrInfoType
<1>4. Bits(w, 6, 0) = info.opcode
  <2>1. Holds(w, 0, 6, info.opcode, 0)
    BY WordBits DEF Holds
  <2> QED BY <1>1, <1>3, <2>1, UnsignedField
<1>5. ASSUME info.format \notin {"RVInstU", "RVInstJ"}
      PROVE  Bits(w, 14, 12) = info.funct3 /\ Bits(w, 19, 15) = mi.rs1
  <2>1. Holds(w, 12, 14, info.funct3, 0)
    BY <1>5, WordBits DEF Holds
  <2>2. Holds(w, 15, 19, mi.rs1, 0)
    BY <1>5, WordBits DEF Holds
  <2> QED BY <1>1, <1>2, <1>3, <2>1, <2>2, UnsignedField
<1>6. ASSUME info.format \notin {"RVInstS", "RVInstB"}
      PROVE  Bits(w, 11, 7) = mi.rd
  <2>1. Holds(w, 7, 11, mi.rd, 0)
    BY <1>6, WordBits DEF Holds
  <2> QED BY <1>1, <1>2, <2>1, UnsignedField
<1>7. ASSUME info.format \in {"RVInstR", "RVInstS", "RVInstB"}
      PROVE  Bits(w, 24, 20) = mi.rs2
  <2>1. Holds(w, 20, 24, mi.rs2, 0)
    BY <1>7, WordBits DEF Holds
  <2> QED BY <1>1, <1>2, <2>1, UnsignedField
<1>8. ASSUME info.format \in {"RVInstR", "RVInstIShift"}
      PROVE  Bits(w, 31, 25) = info.funct7
  <2>1. Holds(w, 25, 31, info.funct7, 0)
    BY <1>8, WordBits DEF Holds
  <2> QED BY <1>1, <1>3, <2>1, UnsignedField
<1>9. ASSUME info.format = "RVInstIShift", shamt(mi.imm)
      PROVE  Bits(w, 24, 20) = mi.imm
  <2>1. Holds(w, 20, 24, mi.imm, 0)
    BY <1>9, WordBits DEF Holds
  <2>2. 0 <= mi.imm /\ mi.imm <= 31
    BY <1>9 DEF shamt
  <2> QED BY <1>1, <1>2, <2>1, <2>2, UnsignedField
<1> QED BY <1>4, <1>5, <1>6, <1>7, <1>8, <1>9

(* A signed number's top bit is its sign.                                  *)
LEMMA SignBit ==
    ASSUME NEW x \in Int, NEW k \in 0 .. 30, Shifted(x)[k] \in {-1, 0}
    PROVE  Shifted(x)[k] = -Bit(x, k) /\ Bit(x, k) \in {0, 1}
<1> DEFINE y == Shifted(x)[k]
           b == Bit(x, k)
           z == Shifted(x)[k + 1]
<1>1. b \in {0, 1} /\ y = b + 2 * z /\ z = y \div 2 /\ y \in {-1, 0}
  BY BitLemma
<1> HIDE DEF y, b, z
<1>2. y = -b
  BY <1>1
<1> QED BY <1>1, <1>2 DEF y, b

(* The immediates, put together again.                                     *)
LEMMA Immediates ==
    ASSUME NEW mi \in Operands, NEW format, format = InstrInfo[mi.op].format,
           NEW w, w = getBinaryCodeForInstr(mi)
    PROVE  /\ format = "RVInstI" /\ simm12(mi.imm) => ImmI(w) = mi.imm
           /\ format = "RVInstS" /\ simm12(mi.imm) => ImmS(w) = mi.imm
           /\ format = "RVInstB" /\ brtarget(mi.imm) => ImmB(w) = mi.imm
           /\ format = "RVInstU" /\ uimm20(mi.imm) => ImmU(w) = mi.imm
           /\ format = "RVInstJ" /\ jmptarget(mi.imm) => ImmJ(w) = mi.imm
<1> DEFINE x == mi.imm
           s0 == Shifted(x)[0]
           s1 == Shifted(x)[1]
           s5 == Shifted(x)[5]
           s11 == Shifted(x)[11]
           s12 == Shifted(x)[12]
           s20 == Shifted(x)[20]
           b0 == Bit(x, 0)
           b11 == Bit(x, 11)
           b12 == Bit(x, 12)
           b20 == Bit(x, 20)
<1>1. w \in [0 .. 31 -> {0, 1}]
  BY WordBits
<1>2. x \in Int
  BY DEF Operands
<1>bits. /\ format = "RVInstI" =>
              \A b \in 20 .. 31 : w[b] = Bit(x, b - 20)
         /\ format = "RVInstS" =>
              /\ \A b \in 25 .. 31 : w[b] = Bit(x, b - 20)
              /\ \A b \in 7 .. 11 : w[b] = Bit(x, b - 7)
         /\ format = "RVInstB" =>
              /\ w[31] = b12 /\ w[7] = b11
              /\ \A b \in 25 .. 30 : w[b] = Bit(x, b - 20)
              /\ \A b \in 8 .. 11 : w[b] = Bit(x, b - 7)
         /\ format = "RVInstU" =>
              \A b \in 12 .. 31 : w[b] = Bit(x, b - 12)
         /\ format = "RVInstJ" =>
              /\ w[31] = b20 /\ w[20] = b11
              /\ \A b \in 21 .. 30 : w[b] = Bit(x, b - 20)
              /\ \A b \in 12 .. 19 : w[b] = Bit(x, b)
  BY WordBits
<1> HIDE DEF x
<1>3. /\ s0 = x /\ s0 = b0 + 2 * s1 /\ s11 = b11 + 2 * s12
      /\ b0 \in 0 .. 1 /\ b11 \in 0 .. 1
      /\ s0 \in Int /\ s1 \in Int /\ s5 \in Int /\ s11 \in Int /\ s12 \in Int
      /\ s20 \in Int
  <2>1. 0 + 1 = 1 /\ 11 + 1 = 12
    OBVIOUS
  <2>2. b0 \in {0, 1} /\ b11 \in {0, 1}
    BY <1>2, BitLemma
  <2> QED BY <1>2, <2>1, <2>2, BitLemma
<1>4. /\ simm12(x) => s11 = -b11
      /\ brtarget(x) => s12 = -b12 /\ b12 \in 0 .. 1
      /\ uimm20(x) => s20 = 0
      /\ jmptarget(x) => s20 = -b20 /\ b20 \in 0 .. 1
  <2>1. /\ simm12(x) => s11 = -b11
        /\ brtarget(x) => s12 = -b12 /\ b12 \in {0, 1}
        /\ uimm20(x) => s20 = 0
        /\ jmptarget(x) => s20 = -b20 /\ b20 \in {0, 1}
    BY <1>2, ShiftedBounds, SignBit
  <2> QED BY <2>1
<1>5. ASSUME format = "RVInstI", simm12(x)
      PROVE  ImmI(w) = x
  <2> DEFINE f == Bits(w, 30, 20)
  <2>1. Holds(w, 20, 30, x, 0)
    BY <1>5, <1>bits DEF Holds
  <2>2. s0 = f + 2048 * s11 /\ f \in Int
    <3>1. 0 + 11 = 11
      OBVIOUS
    <3> QED BY <1>1, <1>2, <2>1, <3>1, FieldValue
  <2>3. ImmI(w) = f - b11 * 2048
    <3>1. w[31] = b11
      BY <1>5, <1>bits
    <3> QED BY <3>1 DEF ImmI
  <2> HIDE DEF s0, s11, b11, f
  <2> QED BY <1>3, <1>4, <1>5, <2>2, <2>3
<1>6. ASSUME format = "RVInstS", simm12(x)
      PROVE  ImmS(w) = x
  <2> DEFINE f == Bits(w, 11, 7)
             g == Bits(w, 30, 25)
  <2>1. Holds(w, 7, 11, x, 0) /\ Holds(w, 25, 30, x, 5)
    <3>1. \A b \in 25 .. 30 : 5 + b - 25 = b - 20
      OBVIOUS
    <3> QED BY <1>6, <1>bits, <3>1 DEF Holds
  <2>2. /\ s0 = f + 32 * s5 /\ s5 = g + 64 * s11
        /\ f \in Int /\ g \in Int
    <3>1. 0 + 5 = 5 /\ 5 + 6 = 11
      OBVIOUS
    <3> QED BY <1>1, <1>2, <2>1, <3>1, FieldValue
  <2>3. ImmS(w) = g * 32 + f - b11 * 2048
    <3>1. w[31] = b11
      BY <1>6, <1>bits
    <3> QED BY <3>1 DEF ImmS
  <2> HIDE DEF s0, s5, s11, b11, f, g
  <2> QED BY <1>3, <1>4, <1>6, <2>2, <2>3
<1>7. ASSUME format = "RVInstB", brtarget(x)
      PROVE  ImmB(w) = x
  <2> DEFINE f == Bits(w, 11, 8)
             g == Bits(w, 30, 25)
  <2>1. Holds(w, 8, 11, x, 1) /\ Holds(w, 25, 30, x, 5)
    <3>1. /\ \A b \in 25 .. 30 : 5 + b - 25 = b - 20
          /\ \A b \in 8 .. 11 : 1 + b - 8 = b - 7
      OBVIOUS
    <3> QED BY <1>7, <1>bits, <3>1 DEF Holds
  <2>2. /\ s1 = f + 16 * s5 /\ s5 = g + 64 * s11
        /\ f \in Int /\ g \in Int
    <3>1. 1 + 4 = 5 /\ 5 + 6 = 11
      OBVIOUS
    <3> QED BY <1>1, <1>2, <2>1, <3>1, FieldValue
  <2>3. ImmB(w) = b11 * 2048 + g * 32 + f * 2 - b12 * 4096
    BY <1>7, <1>bits DEF ImmB
  <2>4. x % 2 = 0
    BY <1>7 DEF brtarget
  <2> HIDE DEF s0, s1, s5, s11, s12, b0, b11, b12, f, g
  <2>5. b0 = 0
    BY <1>2, <1>3, <2>4
  <2>6. s12 = -b12 /\ b12 \in 0 .. 1
    BY <1>4, <1>7
  <2>7. s0 = 2 * f + 32 * g + 2048 * b11 + 4096 * s12
    BY <1>3, <2>2, <2>5
  <2> QED BY <1>3, <2>2, <2>3, <2>6, <2>7
<1>8. ASSUME format = "RVInstU", uimm20(x)
      PROVE  ImmU(w) = x
  <2> DEFINE f == Bits(w, 31, 12)
  <2>1. Holds(w, 12, 31, x, 0)
    BY <1>8, <1>bits DEF Holds
  <2>2. s0 = f + 1024 * (1024 * s20) /\ f \in Int
    <3>1. 0 + 20 = 20
      OBVIOUS
    <3> QED BY <1>1, <1>2, <2>1, <3>1, FieldValue
  <2>3. ImmU(w) = f
    BY DEF ImmU
  <2> HIDE DEF s0, s20, f
  <2> QED BY <1>3, <1>4, <1>8, <2>2, <2>3
<1>9. ASSUME format = "RVInstJ", jmptarget(x)
      PROVE  ImmJ(w) = x
  <2> DEFINE f == Bits(w, 30, 21)
             g == Bits(w, 19, 12)
  <2>1. Holds(w, 12, 19, x, 12) /\ Holds(w, 21, 30, x, 1)
    <3>1. /\ \A b \in 12 .. 19 : 12 + b - 12 = b
          /\ \A b \in 21 .. 30 : 1 + b - 21 = b - 20
      OBVIOUS
    <3> QED BY <1>9, <1>bits, <3>1 DEF Holds
  <2>2. /\ s1 = f + 1024 * s11 /\ s12 = g + 256 * s20
        /\ f \in Int /\ g \in Int
    <3>1. 1 + 10 = 11 /\ 12 + 8 = 20
      OBVIOUS
    <3> QED BY <1>1, <1>2, <2>1, <3>1, FieldValue
  <2>3. ImmJ(w) = g * 4096 + b11 * 2048 + f * 2 - b20 * 2^20
    BY <1>9, <1>bits DEF ImmJ
  <2>4. x % 2 = 0
    BY <1>9, SMT DEF jmptarget
  <2> HIDE DEF s0, s1, s11, s12, s20, b0, b11, b20, f, g
  <2>5. b0 = 0
    BY <1>2, <1>3, <2>4
  <2> QED BY <1>3, <1>4, <1>9, <2>2, <2>3, <2>5, SMT
<1> QED BY <1>5, <1>6, <1>7, <1>8, <1>9 DEF x

(* The word of an instruction is the word of no other one.                 *)
LEMMA OneMatch ==
    ASSUME NEW mi \in Operands
    PROVE  {op \in DOMAIN InstrInfo : Matches(getBinaryCodeForInstr(mi), op)}
             = {mi.op}
<1> DEFINE w == getBinaryCodeForInstr(mi)
           info == InstrInfo[mi.op]
<1>1. mi.op \in DOMAIN InstrInfo
  BY DEF Operands
<1>2. /\ Bits(w, 6, 0) = info.opcode
      /\ info.format \notin {"RVInstU", "RVInstJ"} =>
           Bits(w, 14, 12) = info.funct3
      /\ info.format \in {"RVInstR", "RVInstIShift"} =>
           Bits(w, 31, 25) = info.funct7
  BY WordFields
<1>3. /\ LayoutOf(mi.op) \notin {"upper", "jump"} =>
           info.format \notin {"RVInstU", "RVInstJ"}
      /\ LayoutOf(mi.op) \in {"register", "shift"} =>
           info.format \in {"RVInstR", "RVInstIShift"}
  BY <1>1, LayoutLemma, InstrInfoType
<1> HIDE DEF w
<1>4. Matches(w, mi.op)
  BY <1>2, <1>3 DEF Matches, LayoutOf
<1>5. ASSUME NEW op \in DOMAIN InstrInfo, Matches(w, op)
      PROVE  op = mi.op
  <2>1. /\ Bits(w, 6, 0) = InstrInfo[op].opcode
        /\ \/ LayoutOf(op) \in {"upper", "jump"}
           \/ Bits(w, 14, 12) = InstrInfo[op].funct3
        /\ LayoutOf(op) \in {"register", "shift"} =>
             Bits(w, 31, 25) = InstrInfo[op].funct7
    BY <1>5 DEF Matches, LayoutOf
  <2>2. InstrInfo[op].opcode = info.opcode
    BY <1>2, <2>1
  <2>3. LayoutOf(op) \in {"upper", "jump"} <=> LayoutOf(mi.op) \in {"upper", "jump"}
    BY <1>1, <2>2, InstrInfoType, FormatFields, LayoutLemma
  <2>4. \/ LayoutOf(op) \in {"upper", "jump"}
        \/ InstrInfo[op].funct3 = info.funct3
    BY <1>2, <1>3, <2>1, <2>3
  <2>5. LayoutOf(op) \in {"register", "shift"} =>
          InstrInfo[op].funct7 = info.funct7
    <3> SUFFICES ASSUME LayoutOf(op) \in {"register", "shift"}
                 PROVE  InstrInfo[op].funct7 = info.funct7
      OBVIOUS
    <3>1. LayoutOf(mi.op) = LayoutOf(op)
      BY <2>2, <2>4 DEF LayoutOf
    <3> QED BY <1>2, <1>3, <2>1, <3>1
  <2>6. LayoutOf(mi.op) \in {"register", "shift"} =>
          InstrInfo[op].funct7 = info.funct7
    <3> SUFFICES ASSUME LayoutOf(mi.op) \in {"register", "shift"}
                 PROVE  InstrInfo[op].funct7 = info.funct7
      OBVIOUS
    <3>1. LayoutOf(op) \notin {"upper", "jump"}
      BY <2>3
    <3>2. LayoutOf(mi.op) = LayoutOf(op)
      BY <2>2, <2>4, <3>1 DEF LayoutOf
    <3> QED BY <2>5, <3>2
  <2> QED BY <1>1, <2>2, <2>3, <2>4, <2>6, Unambiguous
<1> QED BY <1>1, <1>4, <1>5 DEF w

(* An instruction with operands of its classes is decoded as itself.       *)
LEMMA DecodesBack ==
    ASSUME NEW mi \in Operands, MCInst(mi)
    PROVE  Decodings(getBinaryCodeForInstr(mi)) = {mi}
<1> DEFINE w == getBinaryCodeForInstr(mi)
           info == InstrInfo[mi.op]
           rd == Bits(w, 11, 7)
           rs1 == Bits(w, 19, 15)
           rs2 == Bits(w, 24, 20)
           Inst(op, d, s, t, i) ==
             [op |-> op, rd |-> d, rs1 |-> s, rs2 |-> t, imm |-> i]
           Decoding(op) ==
             LET layout == Layout(InstrInfo[op].opcode, InstrInfo[op].funct3)
             IN  CASE layout = "register" -> Inst(op, rd, rs1, rs2, 0)
                   [] layout = "shift" -> Inst(op, rd, rs1, 0, rs2)
                   [] layout = "immediate" -> Inst(op, rd, rs1, 0, ImmI(w))
                   [] layout = "store" -> Inst(op, 0, rs1, rs2, ImmS(w))
                   [] layout = "branch" -> Inst(op, 0, rs1, rs2, ImmB(w))
                   [] layout = "upper" -> Inst(op, rd, 0, 0, ImmU(w))
                   [] layout = "jump" -> Inst(op, rd, 0, 0, ImmJ(w))
<1>1. Decodings(w) =
        {Decoding(op) : op \in {op \in DOMAIN InstrInfo : Matches(w, op)}}
  BY DEF Decodings
<1>2. {op \in DOMAIN InstrInfo : Matches(w, op)} = {mi.op}
  BY OneMatch
<1>3. mi = Inst(mi.op, mi.rd, mi.rs1, mi.rs2, mi.imm) /\ mi.op \in DOMAIN InstrInfo
  BY DEF Operands
<1>4. Decoding(mi.op) = mi
  <2> DEFINE layout == Layout(InstrInfo[mi.op].opcode, InstrInfo[mi.op].funct3)
  <2>1. CASE info.format = "RVInstR" /\ mi.imm = 0
    <3>1. layout = "register" /\ rd = mi.rd /\ rs1 = mi.rs1 /\ rs2 = mi.rs2
      BY <1>3, <2>1, LayoutLemma, WordFields DEF LayoutOf
    <3> QED BY <1>3, <2>1, <3>1
  <2>2. CASE info.format = "RVInstI" /\ mi.rs2 = 0 /\ simm12(mi.imm)
    <3>1. layout = "immediate" /\ rd = mi.rd /\ rs1 = mi.rs1 /\ ImmI(w) = mi.imm
      BY <1>3, <2>2, LayoutLemma, WordFields, Immediates DEF LayoutOf
    <3> QED BY <1>3, <2>2, <3>1
  <2>3. CASE info.format = "RVInstIShift" /\ mi.rs2 = 0 /\ shamt(mi.imm)
    <3>1. layout = "shift" /\ rd = mi.rd /\ rs1 = mi.rs1 /\ rs2 = mi.imm
      BY <1>3, <2>3, LayoutLemma, WordFields DEF LayoutOf
    <3> QED BY <1>3, <2>3, <3>1
  <2>4. CASE info.format = "RVInstS" /\ mi.rd = 0 /\ simm12(mi.imm)
    <3>1. layout = "store" /\ rs1 = mi.rs1 /\ rs2 = mi.rs2 /\ ImmS(w) = mi.imm
      BY <1>3, <2>4, LayoutLemma, WordFields, Immediates DEF LayoutOf
    <3> QED BY <1>3, <2>4, <3>1
  <2>5. CASE info.format = "RVInstB" /\ mi.rd = 0 /\ brtarget(mi.imm)
    <3>1. layout = "branch" /\ rs1 = mi.rs1 /\ rs2 = mi.rs2 /\ ImmB(w) = mi.imm
      BY <1>3, <2>5, LayoutLemma, WordFields, Immediates DEF LayoutOf
    <3> QED BY <1>3, <2>5, <3>1
  <2>6. CASE /\ info.format = "RVInstU" /\ mi.rs1 = 0 /\ mi.rs2 = 0
             /\ uimm20(mi.imm)
    <3>1. layout = "upper" /\ rd = mi.rd /\ ImmU(w) = mi.imm
      BY <1>3, <2>6, LayoutLemma, WordFields, Immediates DEF LayoutOf
    <3> QED BY <1>3, <2>6, <3>1
  <2>7. CASE /\ info.format = "RVInstJ" /\ mi.rs1 = 0 /\ mi.rs2 = 0
             /\ jmptarget(mi.imm)
    <3>1. layout = "jump" /\ rd = mi.rd /\ ImmJ(w) = mi.imm
      BY <1>3, <2>7, LayoutLemma, WordFields, Immediates DEF LayoutOf
    <3> QED BY <1>3, <2>7, <3>1
  <2> QED BY <2>1, <2>2, <2>3, <2>4, <2>5, <2>6, <2>7 DEF MCInst
<1> HIDE DEF Decoding
<1> QED BY <1>1, <1>2, <1>4
-----------------------------------------------------------------------------
(* The emitter and the machine.                                            *)

(* The buffer holds the words of the emitted instructions, lowest byte     *)
(* first, and nothing else.                                                *)
BufferOK ==
    /\ CB \in Seq(0 .. 255) /\ Len(CB) = 4 * emitted
    /\ \A k \in 0 .. emitted - 1 : \A j \in 1 .. 4 :
         CB[4 * k + j] = LittleEndian(getBinaryCodeForInstr(PseudoBR(insts[k + 1])))[j]

IInv ==
    /\ insts \in Streams /\ emitted \in 0 .. Len(insts)
    /\ BufferOK
    /\ decoded \in Seq(SUBSET Operands) /\ Len(decoded) <= emitted
    /\ DecodedAsEmitted

(* The instructions of a stream are sequences of emittable ones.           *)
LEMMA StreamsType ==
    ASSUME insts \in Streams
    PROVE  /\ insts \in Seq(Emittable) /\ Len(insts) \in Nat
           /\ \A k \in 1 .. Len(insts) :
                /\ PseudoBR(insts[k]) \in Operands /\ MCInst(PseudoBR(insts[k]))
                /\ PseudoBR(insts[k]) = IF insts[k].op = "PseudoBR"
                                       THEN [insts[k] EXCEPT !.op = "JAL"]
                                       ELSE insts[k]
<1>1. /\ insts \in Seq(Emittable) /\ Len(insts) \in Nat
      /\ DOMAIN insts = 1 .. Len(insts)
  BY StreamsAssumption
<1>2. ASSUME NEW k \in 1 .. Len(insts)
      PROVE  /\ PseudoBR(insts[k]) \in Operands
             /\ PseudoBR(insts[k]) = IF insts[k].op = "PseudoBR"
                                    THEN [insts[k] EXCEPT !.op = "JAL"]
                                    ELSE insts[k]
  <2>1. insts[k] \in Emittable
    BY <1>1
  <2>2. "JAL" \in DOMAIN InstrInfo
    BY DEF InstrInfo
  <2>3. insts[k].op = "PseudoBR" => insts[k].rd = 0
    BY <1>1, StreamsAssumption
  <2> DEFINE Ops == DOMAIN InstrInfo
  <2>4. "JAL" \in Ops
    BY <2>2
  <2>5. insts[k] \in [op : Ops \cup {"PseudoBR"},
                     rd : GPR, rs1 : GPR, rs2 : GPR, imm : Int]
    BY <2>1 DEF Emittable
  <2> HIDE DEF Ops
  <2>6. PseudoBR(insts[k]) \in [op : Ops, rd : GPR, rs1 : GPR, rs2 : GPR,
                               imm : Int]
    <3>1. 0 \in GPR
      BY DEF GPR
    <3>2. CASE insts[k].op = "PseudoBR"
      <4>1. PseudoBR(insts[k]) = [insts[k] EXCEPT !.op = "JAL", !.rd = 0]
        BY <3>2 DEF PseudoBR
      <4>2. PseudoBR(insts[k]) = [op |-> "JAL", rd |-> 0,
              rs1 |-> insts[k].rs1, rs2 |-> insts[k].rs2, imm |-> insts[k].imm]
        BY <2>5, <4>1
      <4> QED BY <2>4, <2>5, <3>1, <4>2
    <3>3. CASE insts[k].op # "PseudoBR"
      <4>1. PseudoBR(insts[k]) = insts[k]
        BY <3>3 DEF PseudoBR
      <4> QED BY <2>5, <3>3, <4>1
    <3> QED BY <3>2, <3>3
  <2>7. PseudoBR(insts[k]) = IF insts[k].op = "PseudoBR"
                             THEN [insts[k] EXCEPT !.op = "JAL"]
                             ELSE insts[k]
    BY <2>3, <2>5 DEF PseudoBR
  <2> QED BY <2>6, <2>7 DEF Operands, Ops
<1>3. \A k \in 1 .. Len(insts) : MCInst(PseudoBR(insts[k]))
  BY <1>1, StreamsAssumption
<1> QED BY <1>1, <1>2, <1>3

(* A word is written as four bytes.                                        *)
LEMMA LittleEndianType ==
    ASSUME NEW w \in [0 .. 31 -> {0, 1}]
    PROVE  LittleEndian(w) \in Seq(0 .. 255) /\ Len(LittleEndian(w)) = 4
<1>1. ASSUME NEW k \in 1 .. 4
      PROVE  Bits(w, 8 * k - 1, 8 * k - 8) \in 0 .. 255
  <2>1. 8 * k - 8 \in 0 .. 24 /\ (8 * k - 8) + 7 = 8 * k - 1
    OBVIOUS
  <2> QED BY <2>1, ByteLemma
<1> QED BY <1>1 DEF LittleEndian

(* Encoding an instruction keeps the invariant.                            *)
LEMMA EncodeStep ==
    ASSUME IInv, encodeInstruction
    PROVE  IInv'
<1> DEFINE mi == PseudoBR(insts[emitted + 1])
           bytes == LittleEndian(getBinaryCodeForInstr(mi))
<1>1. /\ insts \in Seq(Emittable) /\ Len(insts) \in Nat /\ emitted \in Nat
      /\ emitted + 1 \in 1 .. Len(insts) /\ mi \in Operands
  <2>1. /\ insts \in Seq(Emittable) /\ Len(insts) \in Nat
        /\ \A k \in 1 .. Len(insts) : PseudoBR(insts[k]) \in Operands
    BY StreamsType DEF IInv
  <2>2. emitted \in Nat /\ emitted + 1 \in 1 .. Len(insts)
    BY <2>1 DEF IInv, encodeInstruction
  <2> QED BY <2>1, <2>2
<1>2. bytes \in Seq(0 .. 255) /\ Len(bytes) = 4
  BY <1>1, WordBits, LittleEndianType
<1>3. CB \in Seq(0 .. 255) /\ Len(CB) = 4 * emitted
  BY DEF IInv, BufferOK
<1>4. /\ CB' = CB \o bytes /\ emitted' = emitted + 1 /\ insts' = insts
      /\ decoded' = decoded
  BY DEF encodeInstruction
<1> HIDE DEF bytes
<1>5. /\ CB' \in Seq(0 .. 255) /\ Len(CB') = 4 * emitted'
      /\ \A i \in 1 .. Len(CB) : CB'[i] = CB[i]
      /\ \A i \in 1 .. 4 : CB'[Len(CB) + i] = bytes[i]
  <2> DEFINE Byte == 0 .. 255
  <2>1. bytes \in Seq(Byte) /\ CB \in Seq(Byte) /\ Len(CB) \in Nat
    BY <1>2, <1>3
  <2> HIDE DEF Byte
  <2>2. /\ CB \o bytes \in Seq(Byte) /\ Len(CB \o bytes) = Len(CB) + Len(bytes)
        /\ \A i \in 1 .. Len(CB) : (CB \o bytes)[i] = CB[i]
        /\ \A i \in 1 .. Len(bytes) : (CB \o bytes)[Len(CB) + i] = bytes[i]
    BY <2>1, Concatenation
  <2>3. CB' \in Seq(Byte) /\ Len(CB') = Len(CB) + 4
    BY <1>2, <1>4, <2>2
  <2>4. /\ \A i \in 1 .. Len(CB) : CB'[i] = CB[i]
        /\ \A i \in 1 .. 4 : CB'[Len(CB) + i] = bytes[i]
    BY <1>2, <1>4, <2>2
  <2>5. Len(CB') = 4 * emitted'
    BY <1>1, <1>3, <1>4, <2>3
  <2> QED BY <2>3, <2>4, <2>5 DEF Byte
<1>6. ASSUME NEW k \in 0 .. emitted, NEW j \in 1 .. 4
      PROVE  CB'[4 * k + j] = LittleEndian(getBinaryCodeForInstr(PseudoBR(insts[k + 1])))[j]
  <2>1. CASE k = emitted
    <3>1. 4 * k + j = Len(CB) + j
      BY <1>3, <2>1
    <3>2. CB'[Len(CB) + j] = bytes[j]
      BY <1>5
    <3> QED BY <2>1, <3>1, <3>2 DEF bytes
  <2>2. CASE k # emitted
    <3>1. k \in 0 .. emitted - 1 /\ 4 * k + j \in 1 .. Len(CB)
      BY <1>1, <1>3, <2>2
    <3>2. CB'[4 * k + j] = CB[4 * k + j]
      BY <1>5, <3>1
    <3> QED BY <3>1, <3>2 DEF IInv, BufferOK
  <2> QED BY <2>1, <2>2
<1>7. BufferOK'
  <2>1. \A k \in 0 .. emitted' - 1 : \A j \in 1 .. 4 :
          CB'[4 * k + j] = LittleEndian(getBinaryCodeForInstr(PseudoBR(insts'[k + 1])))[j]
    <3>1. emitted' - 1 = emitted /\ insts' = insts
      BY <1>1, <1>4
    <3> QED BY <1>6, <3>1
  <2> QED BY <1>5, <2>1 DEF BufferOK
<1> QED BY <1>1, <1>4, <1>7 DEF IInv, DecodedAsEmitted

(* So does fetching one.                                                   *)
LEMMA FetchStep ==
    ASSUME IInv, FetchInstruction
    PROVE  IInv'
<1> DEFINE n == Len(decoded)
           mi == PseudoBR(insts[n + 1])
           w == getBinaryCodeForInstr(mi)
<1>1. /\ n \in Nat /\ emitted \in Nat /\ n < emitted
      /\ insts \in Seq(Emittable) /\ Len(insts) \in Nat
      /\ n + 1 \in 1 .. Len(insts) /\ mi \in Operands /\ MCInst(mi)
  <2>1. n \in Nat /\ emitted \in 0 .. Len(insts) /\ 4 * n + 4 <= 4 * emitted
    BY DEF IInv, BufferOK, FetchInstruction
  <2>2. /\ insts \in Seq(Emittable) /\ Len(insts) \in Nat
        /\ \A k \in 1 .. Len(insts) :
             PseudoBR(insts[k]) \in Operands /\ MCInst(PseudoBR(insts[k]))
    BY StreamsType DEF IInv
  <2>3. n + 1 \in 1 .. Len(insts) /\ n < emitted
    BY <2>1, <2>2
  <2> QED BY <2>1, <2>2, <2>3
<1>2. w \in [0 .. 31 -> {0, 1}] /\ w = [b \in 0 .. 31 |-> w[b]]
  BY <1>1, WordBits, WordIsFunction
<1> HIDE DEF w
<1>3. ASSUME NEW b \in 0 .. 31
      PROVE  Bit(CB[4 * n + 1 + b \div 8], b % 8) = w[b]
  <2>1. (b \div 8) + 1 \in 1 .. 4
        /\ Bit(LittleEndian(w)[(b \div 8) + 1], b % 8) = w[b]
    BY <1>2, RoundTrip
  <2>2. /\ n \in 0 .. emitted - 1
        /\ 4 * n + 1 + b \div 8 = 4 * n + ((b \div 8) + 1)
    BY <1>1
  <2>3. CB[4 * n + ((b \div 8) + 1)] = LittleEndian(w)[(b \div 8) + 1]
    BY <2>1, <2>2 DEF IInv, BufferOK, w
  <2> QED BY <2>1, <2>2, <2>3
<1>4. WordAt(4 * n + 1) = w
  BY <1>2, <1>3 DEF WordAt
<1>5. Decodings(WordAt(4 * n + 1)) = {mi}
  BY <1>1, <1>4, DecodesBack DEF w
<1>6. /\ decoded' = Append(decoded, {mi})
      /\ insts' = insts /\ emitted' = emitted /\ CB' = CB
  BY <1>5 DEF FetchInstruction
<1>7. decoded \in Seq(SUBSET Operands) /\ {mi} \in SUBSET Operands
  BY <1>1 DEF IInv
<1>8. decoded' \in Seq(SUBSET Operands) /\ Len(decoded') = n + 1
  BY <1>6, <1>7
<1>9. DecodedAsEmitted'
  <2>1. ASSUME NEW k \in 1 .. n + 1
        PROVE  decoded'[k] = {IF insts[k].op = "PseudoBR"
                              THEN [insts[k] EXCEPT !.op = "JAL"]
                              ELSE insts[k]}
    <3>1. CASE k = n + 1
      <4>1. decoded'[k] = {mi}
        BY <1>6, <1>7, <3>1
      <4>2. mi = IF insts[k].op = "PseudoBR"
                 THEN [insts[k] EXCEPT !.op = "JAL"] ELSE insts[k]
        BY <1>1, <3>1, StreamsType DEF IInv
      <4> QED BY <4>1, <4>2
    <3>2. CASE k # n + 1
      <4>1. k \in 1 .. n /\ decoded'[k] = decoded[k]
        BY <1>1, <1>6, <1>7, <3>2
      <4> QED BY <1>7, <4>1 DEF IInv, DecodedAsEmitted
    <3> QED BY <3>1, <3>2
  <2>2. DOMAIN decoded' = 1 .. n + 1
    BY <1>8
  <2> QED BY <1>6, <2>1, <2>2 DEF DecodedAsEmitted
<1>10. BufferOK'
  BY <1>6 DEF IInv, BufferOK
<1>11. insts' \in Streams /\ emitted' \in 0 .. Len(insts')
  BY <1>6 DEF IInv
<1>12. Len(decoded') <= emitted'
  BY <1>1, <1>6, <1>8
<1> QED BY <1>8, <1>9, <1>10, <1>11, <1>12 DEF IInv

(* The invariant holds in every reachable state.                           *)
LEMMA Inductive == Spec => []IInv
<1>1. Init => IInv
  BY StreamsType DEF Init, IInv, BufferOK, DecodedAsEmitted
<1>2. IInv /\ [Next]_vars => IInv'
  <2> SUFFICES ASSUME IInv, [Next]_vars PROVE IInv'
    OBVIOUS
  <2>1. CASE encodeInstruction
    BY <2>1, EncodeStep
  <2>2. CASE FetchInstruction
    BY <2>2, FetchStep
  <2>3. CASE UNCHANGED vars
    BY <2>3 DEF vars, IInv, BufferOK, DecodedAsEmitted
  <2> QED BY <2>1, <2>2, <2>3 DEF Next, AllDecoded
<1> QED BY <1>1, <1>2, PTL DEF Spec

(* Encoded instructions fill the buffer of RV32IMCCodeEmitter with whole   *)
(* little-endian words of bytes, whatever the instructions.                *)
THEOREM EncodingTypeCorrect == Spec => []EncodingTypeOK
<1>1. IInv => EncodingTypeOK
  <2> SUFFICES ASSUME IInv PROVE EncodingTypeOK
    OBVIOUS
  <2> DEFINE Byte == 0 .. 255
  <2>1. CB \in Seq(Byte)
    BY DEF IInv, BufferOK
  <2> HIDE DEF Byte
  <2>2. \A k \in DOMAIN CB : CB[k] \in Byte
    BY <2>1
  <2> QED BY <2>2 DEF IInv, BufferOK, EncodingTypeOK, Byte
<1> QED BY <1>1, Inductive, PTL

(* For every sequence of instructions with any registers and any immediate *)
(* of its operand class, a machine that decodes as the RV32I manual says   *)
(* reads back what encodeInstruction was given: the bit assignments of     *)
(* RV32IInstrFormats.td put every bit of every operand where the manual    *)
(* has it, no two instructions share an encoding, and the byte order is    *)
(* the machine's.                                                          *)
THEOREM EmittedCodeIsDecodedAsEmitted == Spec => []DecodedAsEmitted
<1>1. IInv => DecodedAsEmitted
  BY DEF IInv
<1> QED BY <1>1, Inductive, PTL
=============================================================================
