----------------------- MODULE RV32ISelection_proofs -----------------------
(***************************************************************************)
(* Instruction selection keeps the values of the program, for every width  *)
(* of words and immediates, every memory, every source and every bound on  *)
(* the depth of DAGs.                                                      *)
(*                                                                         *)
(* The argument: a term in which a node gives way to one that computes at  *)
(* least as much computes at least as much (ReplaceRefines, by induction   *)
(* over terms); each expansion and each pattern puts such a node in the    *)
(* place of another (ExpansionRefines and the lemmas named ...Refine(s)).  *)
(* What the recursive functions of RV32ISelection return is established    *)
(* first: such a function exists on the terms of every depth, therefore    *)
(* the one chosen satisfies its equation.                                  *)
(***************************************************************************)
EXTENDS RV32ISelection, SequenceLemmas

(* Powers of two up to 2^32.                                               *)
LEMMA Pow2Unfold ==
    /\ Pow2[0] = 1
    /\ \A k \in 0 .. 31 : Pow2[k + 1] = 2 * Pow2[k]
<1> DEFINE Is(f, n) ==
             f = [k \in 0 .. n |-> IF k = 0 THEN 1 ELSE 2 * f[k - 1]]
           S == {n \in Nat : \E f : Is(f, n)}
<1>1. 0 \in S
  <2>1. Is([j \in 0 .. 0 |-> 1], 0)
    OBVIOUS
  <2> QED BY <2>1
<1>2. ASSUME NEW n \in S PROVE n + 1 \in S
  <2>1. PICK f : Is(f, n)
    OBVIOUS
  <2> DEFINE g == [j \in 0 .. n + 1 |-> IF j = n + 1 THEN 2 * f[n] ELSE f[j]]
  <2>2. ASSUME NEW j \in 0 .. n + 1
        PROVE  g[j] = IF j = 0 THEN 1 ELSE 2 * g[j - 1]
    <3>1. CASE j = n + 1
      BY <3>1
    <3>2. CASE j # n + 1
      <4>1. j \in 0 .. n
        BY <3>2
      <4>2. f[j] = IF j = 0 THEN 1 ELSE 2 * f[j - 1]
        BY <4>1, <2>1
      <4> QED BY <4>1, <4>2, <3>2
    <3> QED BY <3>1, <3>2
  <2>3. Is(g, n + 1)
    BY <2>2
  <2> HIDE DEF g
  <2>4. \E h : Is(h, n + 1)
    BY <2>3
  <2> QED BY <2>4
<1>3. 32 \in S
  <2> HIDE DEF S
  <2>1. S \in SUBSET Nat
    BY DEF S
  <2> QED BY <1>1, <1>2, <2>1, NatInduct
<1>4. PICK f : Is(f, 32)
  BY <1>3
<1>5. Pow2 = [k \in 0 .. 32 |-> IF k = 0 THEN 1 ELSE 2 * Pow2[k - 1]]
  BY <1>4 DEF Pow2
<1> QED BY <1>5

-----------------------------------------------------------------------------
(* Terms.                                                                  *)

(* The terms of a depth are built from those one less deep.                *)
LEMMA OfDepthUnfold ==
    /\ OfDepth[0] = {}
    /\ \A d \in 1 .. MaxDepth : OfDepth[d] = Shapes(OfDepth[d - 1])
<1> DEFINE Is(f, n) ==
             f = [d \in 0 .. n |-> IF d = 0 THEN {} ELSE Shapes(f[d - 1])]
           S == {n \in Nat : \E f : Is(f, n)}
<1>1. 0 \in S
  <2>1. Is([j \in 0 .. 0 |-> {}], 0)
    OBVIOUS
  <2> QED BY <2>1
<1>2. ASSUME NEW n \in S PROVE n + 1 \in S
  <2>1. PICK f : Is(f, n)
    OBVIOUS
  <2> DEFINE g == [j \in 0 .. n + 1 |->
                     IF j = n + 1 THEN Shapes(f[n]) ELSE f[j]]
  <2>2. ASSUME NEW j \in 0 .. n + 1
        PROVE  g[j] = IF j = 0 THEN {} ELSE Shapes(g[j - 1])
    <3>1. CASE j = n + 1
      BY <3>1
    <3>2. CASE j # n + 1
      <4>1. j \in 0 .. n
        BY <3>2
      <4>2. f[j] = IF j = 0 THEN {} ELSE Shapes(f[j - 1])
        BY <4>1, <2>1
      <4> QED BY <4>1, <4>2, <3>2
    <3> QED BY <3>1, <3>2
  <2>3. Is(g, n + 1)
    BY <2>2
  <2> HIDE DEF g
  <2>4. \E h : Is(h, n + 1)
    BY <2>3
  <2> QED BY <2>4
<1>3. MaxDepth \in S
  <2> HIDE DEF S
  <2>1. S \in SUBSET Nat
    BY DEF S
  <2> QED BY <1>1, <1>2, <2>1, NatInduct, DepthAssumption
<1>4. PICK f : Is(f, MaxDepth)
  BY <1>3
<1>5. OfDepth = [d \in 0 .. MaxDepth |->
                   IF d = 0 THEN {} ELSE Shapes(OfDepth[d - 1])]
  BY <1>4 DEF OfDepth
<1> HIDE DEF Is, S
<1>6. 0 \in 0 .. MaxDepth
      /\ \A d \in 1 .. MaxDepth : d \in 0 .. MaxDepth /\ d # 0
  BY DepthAssumption
<1>7. OfDepth[0] = {}
  BY <1>5, <1>6
<1>8. ASSUME NEW d \in 1 .. MaxDepth PROVE OfDepth[d] = Shapes(OfDepth[d - 1])
  BY <1>5, <1>6
<1> QED BY <1>7, <1>8

(* A node in S has from none to five operands out of S.                    *)
LEMMA ShapeOfNode ==
    ASSUME NEW S, NEW s \in Shapes(S)
    PROVE  /\ s = [op |-> s.op, c |-> s.c, kids |-> s.kids] /\ s.c \in Int
           /\ \E n \in 0 .. 5 : s.kids \in [1 .. n -> S]
           /\ \A i \in DOMAIN s.kids : s.kids[i] \in S
<1>1. \E n \in 0 .. 5 : \E ops, widths :
        s \in Nodes(ops, widths, n, S) /\ widths \subseteq Int
  <2>1. 0 \in 0 .. 5 /\ 1 \in 0 .. 5 /\ 2 \in 0 .. 5 /\ 3 \in 0 .. 5 /\ 5 \in 0 .. 5
        /\ 1 .. 2 \subseteq Int /\ 1 .. WordBits - 1 \subseteq Int
    OBVIOUS
  <2> HIDE DEF Nodes
  <2> QED BY <2>1 DEF Shapes
<1>2. PICK n \in 0 .. 5 : \E ops, widths :
        s \in Nodes(ops, widths, n, S) /\ widths \subseteq Int
  BY <1>1
<1>3. PICK ops, widths : s \in Nodes(ops, widths, n, S) /\ widths \subseteq Int
  BY <1>2
<1>4. s \in [op : ops, c : widths, kids : [1 .. n -> S]]
  BY <1>3 DEF Nodes
<1> QED BY <1>2, <1>3, <1>4

(* More operands make more nodes.                                          *)
LEMMA ShapesMonotonic ==
    ASSUME NEW S, NEW U, S \subseteq U
    PROVE  Shapes(S) \subseteq Shapes(U)
<1>1. ASSUME NEW n, NEW ops, NEW widths
      PROVE  Nodes(ops, widths, n, S) \subseteq Nodes(ops, widths, n, U)
  <2>1. [1 .. n -> S] \subseteq [1 .. n -> U]
    OBVIOUS
  <2> QED BY <2>1 DEF Nodes
<1> QED BY <1>1 DEF Shapes

(* Operands of a term are terms less deep, and so are terms.               *)
LEMMA Deeper ==
    \A d \in 1 .. MaxDepth : OfDepth[d - 1] \subseteq OfDepth[d]
<1> DEFINE S == {n \in Nat : n + 1 <= MaxDepth => OfDepth[n] \subseteq OfDepth[n + 1]}
<1>1. 0 \in S
  BY OfDepthUnfold
<1>2. ASSUME NEW n \in S PROVE n + 1 \in S
  <2> SUFFICES ASSUME (n + 1) + 1 <= MaxDepth
               PROVE  OfDepth[n + 1] \subseteq OfDepth[(n + 1) + 1]
    OBVIOUS
  <2>1. OfDepth[n] \subseteq OfDepth[n + 1]
    BY DepthAssumption
  <2>2. /\ n + 1 \in 1 .. MaxDepth /\ (n + 1) - 1 = n
        /\ (n + 1) + 1 \in 1 .. MaxDepth /\ ((n + 1) + 1) - 1 = n + 1
    BY DepthAssumption
  <2>3. /\ OfDepth[n + 1] = Shapes(OfDepth[n])
        /\ OfDepth[(n + 1) + 1] = Shapes(OfDepth[n + 1])
    BY <2>2, OfDepthUnfold
  <2> QED BY <2>1, <2>3, ShapesMonotonic
<1>3. S = Nat
  <2> HIDE DEF S
  <2>1. S \in SUBSET Nat
    BY DEF S
  <2> QED BY <1>1, <1>2, <2>1, NatInduct
<1>4. ASSUME NEW d \in 1 .. MaxDepth PROVE OfDepth[d - 1] \subseteq OfDepth[d]
  <2>1. d - 1 \in S /\ (d - 1) + 1 = d /\ d <= MaxDepth
    BY <1>3, DepthAssumption
  <2> QED BY <2>1
<1> QED BY <1>4

(* The operands of a term are less deep than the term.                     *)
LEMMA OperandsLessDeep ==
    ASSUME NEW d \in 0 .. MaxDepth, NEW s \in OfDepth[d],
           NEW i \in DOMAIN s.kids
    PROVE  d \in 1 .. MaxDepth /\ s.kids[i] \in OfDepth[d - 1]
<1>1. d # 0
  BY OfDepthUnfold
<1>2. d \in 1 .. MaxDepth
  BY <1>1, DepthAssumption
<1>3. s \in Shapes(OfDepth[d - 1])
  BY <1>2, OfDepthUnfold
<1> QED BY <1>2, <1>3, ShapeOfNode

(* A term is a node whose operands are terms.                              *)
LEMMA TermShape ==
    ASSUME NEW s \in Terms
    PROVE  /\ s \in Shapes(Terms)
           /\ s = [op |-> s.op, c |-> s.c, kids |-> s.kids] /\ s.c \in Int
           /\ \E n \in 0 .. 5 : s.kids \in [1 .. n -> Terms]
           /\ \A i \in DOMAIN s.kids : s.kids[i] \in Terms
<1>1. MaxDepth \in 1 .. MaxDepth
  BY OfDepthUnfold, DepthAssumption DEF Terms
<1>2. s \in Shapes(OfDepth[MaxDepth - 1])
  BY <1>1, OfDepthUnfold DEF Terms
<1>3. OfDepth[MaxDepth - 1] \subseteq Terms
  BY <1>1, Deeper DEF Terms
<1>4. s \in Shapes(Terms)
  BY <1>2, <1>3, ShapesMonotonic
<1> QED BY <1>4, ShapeOfNode

(* Terms of every depth within the bound are terms.                        *)
LEMMA DepthContained == \A d \in 0 .. MaxDepth : OfDepth[d] \subseteq Terms
<1> DEFINE S == {n \in Nat : n <= MaxDepth => OfDepth[MaxDepth - n] \subseteq Terms}
<1>1. 0 \in S
  BY DepthAssumption DEF Terms
<1>2. ASSUME NEW n \in S PROVE n + 1 \in S
  <2> SUFFICES ASSUME n + 1 <= MaxDepth
               PROVE  OfDepth[MaxDepth - (n + 1)] \subseteq Terms
    OBVIOUS
  <2>1. /\ MaxDepth - n \in 1 .. MaxDepth /\ n <= MaxDepth
        /\ (MaxDepth - n) - 1 = MaxDepth - (n + 1)
    BY DepthAssumption
  <2>2. OfDepth[MaxDepth - n] \subseteq Terms
    BY <2>1
  <2> QED BY <2>1, <2>2, Deeper
<1>3. S = Nat
  <2> HIDE DEF S
  <2>1. S \in SUBSET Nat
    BY DEF S
  <2> QED BY <1>1, <1>2, <2>1, NatInduct
<1>4. ASSUME NEW d \in 0 .. MaxDepth PROVE OfDepth[d] \subseteq Terms
  <2> HIDE DEF S
  <2>1. /\ MaxDepth - d \in Nat /\ MaxDepth - (MaxDepth - d) = d
        /\ MaxDepth - d <= MaxDepth
    BY DepthAssumption
  <2>2. MaxDepth - d \in S
    BY <1>3, <2>1
  <2> USE DEF S
  <2> QED BY <2>1, <2>2
<1> QED BY <1>4

(* Induction over terms.                                                   *)
LEMMA TermInduct ==
    ASSUME NEW P,
           \A s \in Terms : (\A i \in DOMAIN s.kids : s.kids[i] \in P) => s \in P
    PROVE  Terms \subseteq P
<1> DEFINE S == {n \in Nat : n <= MaxDepth => OfDepth[n] \subseteq P}
<1>1. 0 \in S
  BY OfDepthUnfold
<1>2. ASSUME NEW n \in S PROVE n + 1 \in S
  <2> SUFFICES ASSUME n + 1 <= MaxDepth, NEW s \in OfDepth[n + 1]
               PROVE  s \in P
    OBVIOUS
  <2>1. /\ n + 1 \in 0 .. MaxDepth /\ n + 1 \in 1 .. MaxDepth /\ (n + 1) - 1 = n
        /\ n <= MaxDepth
    BY DepthAssumption
  <2>2. OfDepth[n] \subseteq P
    BY <2>1
  <2>3. \A i \in DOMAIN s.kids : s.kids[i] \in P
    BY <2>1, <2>2, OperandsLessDeep
  <2>4. s \in Terms
    BY <2>1, DepthContained
  <2> QED BY <2>3, <2>4
<1>3. MaxDepth \in S
  <2> HIDE DEF S
  <2>1. S \in SUBSET Nat
    BY DEF S
  <2> QED BY <1>1, <1>2, <2>1, NatInduct, DepthAssumption
<1> QED BY <1>3, DepthAssumption DEF Terms

(* The nodes of a term: itself and those of its operands.                  *)
LEMMA SubtermsUnfold ==
    ASSUME NEW t \in Terms
    PROVE  Subterms(t) = {t} \cup UNION {Subterms(t.kids[i]) : i \in DOMAIN t.kids}
<1> DEFINE E(f, s) == {s} \cup UNION {f[s.kids[i]] : i \in DOMAIN s.kids}
           Is(f, d) == f = [s \in OfDepth[d] |-> E(f, s)]
           S == {n \in Nat : n <= MaxDepth => \E f : Is(f, n)}
<1>1. 0 \in S
  <2>1. Is([s \in OfDepth[0] |-> {}], 0)
    BY OfDepthUnfold
  <2> QED BY <2>1
<1>2. ASSUME NEW n \in S PROVE n + 1 \in S
  <2> SUFFICES ASSUME n + 1 <= MaxDepth PROVE \E f : Is(f, n + 1)
    OBVIOUS
  <2>1. /\ n + 1 \in 0 .. MaxDepth /\ n + 1 \in 1 .. MaxDepth
        /\ (n + 1) - 1 = n /\ n <= MaxDepth
    BY DepthAssumption
  <2>2. PICK f : Is(f, n)
    BY <2>1
  <2> DEFINE g == [s \in OfDepth[n + 1] |-> E(f, s)]
  <2>3. ASSUME NEW s \in OfDepth[n + 1]
        PROVE  E(f, s) = E(g, s)
    <3>1. ASSUME NEW i \in DOMAIN s.kids
          PROVE  f[s.kids[i]] = g[s.kids[i]]
      <4>1. s.kids[i] \in OfDepth[n] /\ s.kids[i] \in OfDepth[n + 1]
        BY <2>1, OperandsLessDeep, Deeper
      <4>2. f[s.kids[i]] = E(f, s.kids[i])
        <5> HIDE DEF E
        <5> QED BY <4>1, <2>2
      <4>3. g[s.kids[i]] = E(f, s.kids[i])
        <5> HIDE DEF E
        <5> QED BY <4>1
      <4> QED BY <4>2, <4>3
    <3> HIDE DEF g
    <3> QED BY <3>1
  <2>4. Is(g, n + 1)
    <3> HIDE DEF E
    <3> QED BY <2>3
  <2> HIDE DEF g, Is
  <2> QED BY <2>4
<1>3. MaxDepth \in S
  <2> HIDE DEF S
  <2>1. S \in SUBSET Nat
    BY DEF S
  <2> QED BY <1>1, <1>2, <2>1, NatInduct, DepthAssumption
<1> DEFINE F == CHOOSE f : f = [s \in Terms |-> E(f, s)]
<1>4. F = [s \in Terms |-> E(F, s)]
  <2>1. \E f : f = [s \in Terms |-> E(f, s)]
    BY <1>3, DepthAssumption DEF Terms
  <2> HIDE DEF E
  <2> QED BY <2>1
<1> HIDE DEF F
<1>5. \A s : Subterms(s) = F[s]
  BY DEF F, Subterms
<1>6. F[t] = E(F, t)
  <2> HIDE DEF E
  <2> QED BY <1>4
<1> QED BY <1>5, <1>6


(* Replacement goes down until it meets the node to replace.               *)
LEMMA ReplaceUnfold ==
    ASSUME NEW t \in Terms, NEW u, NEW v
    PROVE  Replace(t, u, v) =
             IF t = u THEN v
             ELSE [t EXCEPT !.kids =
                     [i \in DOMAIN t.kids |-> Replace(t.kids[i], u, v)]]
<1> DEFINE E(f, s) == IF s = u THEN v
                      ELSE [s EXCEPT !.kids =
                              [i \in DOMAIN s.kids |-> f[s.kids[i]]]]
           Is(f, d) == f = [s \in OfDepth[d] |-> E(f, s)]
           S == {n \in Nat : n <= MaxDepth => \E f : Is(f, n)}
<1>1. 0 \in S
  <2>1. Is([s \in OfDepth[0] |-> {}], 0)
    BY OfDepthUnfold
  <2> QED BY <2>1
<1>2. ASSUME NEW n \in S PROVE n + 1 \in S
  <2> SUFFICES ASSUME n + 1 <= MaxDepth PROVE \E f : Is(f, n + 1)
    OBVIOUS
  <2>1. /\ n + 1 \in 0 .. MaxDepth /\ n + 1 \in 1 .. MaxDepth
        /\ (n + 1) - 1 = n /\ n <= MaxDepth
    BY DepthAssumption
  <2>2. PICK f : Is(f, n)
    BY <2>1
  <2> DEFINE g == [s \in OfDepth[n + 1] |-> E(f, s)]
  <2>3. ASSUME NEW s \in OfDepth[n + 1]
        PROVE  E(f, s) = E(g, s)
    <3>1. ASSUME NEW i \in DOMAIN s.kids
          PROVE  f[s.kids[i]] = g[s.kids[i]]
      <4>1. s.kids[i] \in OfDepth[n] /\ s.kids[i] \in OfDepth[n + 1]
        BY <2>1, OperandsLessDeep, Deeper
      <4>2. f[s.kids[i]] = E(f, s.kids[i])
        <5> HIDE DEF E
        <5> QED BY <4>1, <2>2
      <4>3. g[s.kids[i]] = E(f, s.kids[i])
        <5> HIDE DEF E
        <5> QED BY <4>1
      <4> QED BY <4>2, <4>3
    <3> HIDE DEF g
    <3> QED BY <3>1
  <2>4. Is(g, n + 1)
    <3> HIDE DEF E
    <3> QED BY <2>3
  <2> HIDE DEF g, Is
  <2> QED BY <2>4
<1>3. MaxDepth \in S
  <2> HIDE DEF S
  <2>1. S \in SUBSET Nat
    BY DEF S
  <2> QED BY <1>1, <1>2, <2>1, NatInduct, DepthAssumption
<1> DEFINE F == CHOOSE f : f = [s \in Terms |-> E(f, s)]
<1>4. F = [s \in Terms |-> E(F, s)]
  <2>1. \E f : f = [s \in Terms |-> E(f, s)]
    BY <1>3, DepthAssumption DEF Terms
  <2> HIDE DEF E
  <2> QED BY <2>1
<1> HIDE DEF F
<1>5. \A s : Replace(s, u, v) = F[s]
  BY DEF F, Replace
<1>6. F[t] = E(F, t)
  <2> HIDE DEF E
  <2> QED BY <1>4
<1> QED BY <1>5, <1>6


(* The value of a term is what its node computes from its operands'.       *)
LEMMA ValueUnfold ==
    ASSUME NEW t \in Terms, NEW in
    PROVE  Value(t, in) =
             NodeValue(t, [i \in DOMAIN t.kids |-> Value(t.kids[i], in)], in)
<1> DEFINE E(f, s) == NodeValue(s, [i \in DOMAIN s.kids |-> f[s.kids[i]]], in)
           Is(f, d) == f = [s \in OfDepth[d] |-> E(f, s)]
           S == {n \in Nat : n <= MaxDepth => \E f : Is(f, n)}
<1>1. 0 \in S
  <2>1. Is([s \in OfDepth[0] |-> {}], 0)
    BY OfDepthUnfold
  <2> QED BY <2>1
<1>2. ASSUME NEW n \in S PROVE n + 1 \in S
  <2> SUFFICES ASSUME n + 1 <= MaxDepth PROVE \E f : Is(f, n + 1)
    OBVIOUS
  <2>1. /\ n + 1 \in 0 .. MaxDepth /\ n + 1 \in 1 .. MaxDepth
        /\ (n + 1) - 1 = n /\ n <= MaxDepth
    BY DepthAssumption
  <2>2. PICK f : Is(f, n)
    BY <2>1
  <2> DEFINE g == [s \in OfDepth[n + 1] |-> E(f, s)]
  <2>3. ASSUME NEW s \in OfDepth[n + 1]
        PROVE  E(f, s) = E(g, s)
    <3>1. ASSUME NEW i \in DOMAIN s.kids
          PROVE  f[s.kids[i]] = g[s.kids[i]]
      <4>1. s.kids[i] \in OfDepth[n] /\ s.kids[i] \in OfDepth[n + 1]
        BY <2>1, OperandsLessDeep, Deeper
      <4>2. f[s.kids[i]] = E(f, s.kids[i])
        <5> HIDE DEF E
        <5> QED BY <4>1, <2>2
      <4>3. g[s.kids[i]] = E(f, s.kids[i])
        <5> HIDE DEF E
        <5> QED BY <4>1
      <4> QED BY <4>2, <4>3
    <3> HIDE DEF g
    <3> QED BY <3>1
  <2>4. Is(g, n + 1)
    <3> HIDE DEF E
    <3> QED BY <2>3
  <2> HIDE DEF g, Is
  <2> QED BY <2>4
<1>3. MaxDepth \in S
  <2> HIDE DEF S
  <2>1. S \in SUBSET Nat
    BY DEF S
  <2> QED BY <1>1, <1>2, <2>1, NatInduct, DepthAssumption
<1> DEFINE F == CHOOSE f : f = [s \in Terms |-> E(f, s)]
<1>4. F = [s \in Terms |-> E(F, s)]
  <2>1. \E f : f = [s \in Terms |-> E(f, s)]
    BY <1>3, DepthAssumption DEF Terms
  <2> HIDE DEF E
  <2> QED BY <2>1
<1> HIDE DEF F
<1>5. \A s : Value(s, in) = F[s]
  BY DEF F, Value
<1>6. F[t] = E(F, t)
  <2> HIDE DEF E
  <2> QED BY <1>4
<1> QED BY <1>5, <1>6

(* Nodes of a term are terms, and are the term or nodes of an operand.     *)
LEMMA SubtermsType ==
    ASSUME NEW t \in Terms
    PROVE  /\ t \in Subterms(t) /\ Subterms(t) \subseteq Terms
           /\ \A i \in DOMAIN t.kids : Subterms(t.kids[i]) \subseteq Subterms(t)
           /\ \A s \in Subterms(t) :
                s = t \/ \E i \in DOMAIN t.kids : s \in Subterms(t.kids[i])
<1> DEFINE P == {s \in Terms : Subterms(s) \subseteq Terms}
<1>1. ASSUME NEW s \in Terms, \A i \in DOMAIN s.kids : s.kids[i] \in P
      PROVE  s \in P
  <2>1. \A i \in DOMAIN s.kids : Subterms(s.kids[i]) \subseteq Terms
    BY <1>1
  <2> QED BY <2>1, SubtermsUnfold
<1>2. Terms \subseteq P
  <2> HIDE DEF P
  <2> QED BY <1>1, TermInduct
<1> QED BY <1>2, SubtermsUnfold

(* Nodes of a node are nodes of the term.                                  *)
LEMMA SubtermsTransitive ==
    ASSUME NEW t \in Terms, NEW s \in Subterms(t)
    PROVE  s \in Terms /\ Subterms(s) \subseteq Subterms(t)
<1> DEFINE P == {r \in Terms : s \in Subterms(r) => Subterms(s) \subseteq Subterms(r)}
<1>1. ASSUME NEW r \in Terms, \A i \in DOMAIN r.kids : r.kids[i] \in P
      PROVE  r \in P
  <2> SUFFICES ASSUME s \in Subterms(r), s # r
               PROVE  Subterms(s) \subseteq Subterms(r)
    OBVIOUS
  <2>1. PICK i \in DOMAIN r.kids : s \in Subterms(r.kids[i])
    BY SubtermsType
  <2> QED BY <1>1, <2>1, SubtermsType
<1>2. Terms \subseteq P
  <2> HIDE DEF P
  <2> QED BY <1>1, TermInduct
<1> QED BY <1>2, SubtermsType

(* A node that is not replaced keeps all but its operands.                 *)
LEMMA ReplaceNode ==
    ASSUME NEW s \in Terms, NEW t, NEW u, s # t
    PROVE  /\ Replace(s, t, u).op = s.op /\ Replace(s, t, u).c = s.c
           /\ DOMAIN Replace(s, t, u).kids = DOMAIN s.kids
           /\ \A i \in DOMAIN s.kids :
                Replace(s, t, u).kids[i] = Replace(s.kids[i], t, u)
<1>1. Replace(s, t, u) =
        [s EXCEPT !.kids = [i \in DOMAIN s.kids |-> Replace(s.kids[i], t, u)]]
  BY ReplaceUnfold
<1>2. s = [op |-> s.op, c |-> s.c, kids |-> s.kids]
  BY TermShape
<1>3. /\ Replace(s, t, u).op = s.op /\ Replace(s, t, u).c = s.c
      /\ Replace(s, t, u).kids =
           [i \in DOMAIN s.kids |-> Replace(s.kids[i], t, u)]
  BY <1>1, <1>2
<1> QED BY <1>3

(* What a term has in the place of a node is a term.                       *)
LEMMA ReplacementIsTerm ==
    ASSUME NEW s \in Terms, NEW t \in Subterms(s), NEW u,
           Replace(s, t, u) \in Terms
    PROVE  u \in Terms
<1> DEFINE P == {r \in Terms : t \in Subterms(r) /\ Replace(r, t, u) \in Terms
                                 => u \in Terms}
<1>1. ASSUME NEW r \in Terms, \A i \in DOMAIN r.kids : r.kids[i] \in P
      PROVE  r \in P
  <2> SUFFICES ASSUME t \in Subterms(r), Replace(r, t, u) \in Terms
               PROVE  u \in Terms
    OBVIOUS
  <2>1. CASE r = t
    BY <2>1, ReplaceUnfold
  <2>2. CASE r # t
    <3>1. PICK i \in DOMAIN r.kids : t \in Subterms(r.kids[i])
      BY <2>2, SubtermsType
    <3>2. Replace(r, t, u).kids[i] \in Terms
      BY <2>2, ReplaceNode, TermShape
    <3>3. Replace(r.kids[i], t, u) \in Terms
      BY <2>2, <3>2, ReplaceNode
    <3> QED BY <1>1, <3>1, <3>3
  <2> QED BY <2>1, <2>2
<1>2. Terms \subseteq P
  <2> HIDE DEF P
  <2> QED BY <1>1, TermInduct
<1> QED BY <1>2

(* What a node computes does not depend on operands that are poison.       *)
LEMMA NodeValueStrict ==
    ASSUME NEW s, NEW r, NEW in, r.op = s.op, r.c = s.c,
           NEW D, NEW a, NEW b,
           a = [i \in D |-> a[i]], b = [i \in D |-> b[i]],
           \A i \in D : a[i] # Poison => b[i] = a[i],
           NodeValue(s, a, in) # Poison
    PROVE  NodeValue(r, b, in) = NodeValue(s, a, in)
<1>1. CASE s.op \in {"register", "X0", "constant", "tglobaladdr", "texternalsym"}
  <2> HIDE DEF Poison
  <2> QED BY <1>1 DEF NodeValue
<1>2. CASE s.op \notin {"register", "X0", "constant", "tglobaladdr", "texternalsym"}
  <2>1. ~ \E i \in DOMAIN a : a[i] = Poison
    BY <1>2 DEF NodeValue
  <2>2. b = a
    BY <2>1
  <2> QED BY <2>2 DEF NodeValue
<1> QED BY <1>1, <1>2

(* t computes at least what s does: the same unless that is poison.        *)
Refines(t, s, in) == Value(s, in) # Poison => Value(t, in) = Value(s, in)

(* With a node replaced by one that computes at least as much, a term      *)
(* computes at least as much.                                              *)
LEMMA ReplaceRefines ==
    ASSUME NEW s \in Terms, NEW t, NEW u \in Terms, NEW in,
           Replace(s, t, u) \in Terms, Refines(u, t, in)
    PROVE  Refines(Replace(s, t, u), s, in)
<1> DEFINE P == {r \in Terms : Replace(r, t, u) \in Terms
                                 => Refines(Replace(r, t, u), r, in)}
<1>1. ASSUME NEW r \in Terms, \A i \in DOMAIN r.kids : r.kids[i] \in P
      PROVE  r \in P
  <2> SUFFICES ASSUME Replace(r, t, u) \in Terms
               PROVE  Refines(Replace(r, t, u), r, in)
    OBVIOUS
  <2>1. CASE r = t
    BY <2>1, ReplaceUnfold
  <2>2. CASE r # t
    <3> DEFINE R == Replace(r, t, u)
               D == DOMAIN r.kids
               a == [i \in D |-> Value(r.kids[i], in)]
               b == [i \in D |-> Value(R.kids[i], in)]
    <3>1. /\ R.op = r.op /\ R.c = r.c /\ DOMAIN R.kids = D
          /\ \A i \in D : R.kids[i] = Replace(r.kids[i], t, u)
      BY <2>2, ReplaceNode
    <3>2. R \in Terms
      OBVIOUS
    <3> HIDE DEF R
    <3>3. ASSUME NEW i \in D
          PROVE  a[i] # Poison => b[i] = a[i]
      <4>1. Replace(r.kids[i], t, u) \in Terms
        BY <3>1, <3>2, TermShape
      <4>2. Refines(R.kids[i], r.kids[i], in)
        BY <1>1, <3>1, <4>1
      <4> QED BY <4>2 DEF Refines
    <3>4. Value(r, in) = NodeValue(r, a, in)
      BY ValueUnfold
    <3>5. Value(R, in) = NodeValue(R, b, in)
      BY <3>1, <3>2, ValueUnfold
    <3>6. a = [i \in D |-> a[i]] /\ b = [i \in D |-> b[i]]
      OBVIOUS
    <3> HIDE DEF a, b, D, P
    <3>7. Refines(R, r, in)
      BY <3>1, <3>3, <3>4, <3>5, <3>6, NodeValueStrict DEF Refines
    <3> QED BY <3>7 DEF R
  <2> QED BY <2>1, <2>2
<1>2. Terms \subseteq P
  <2> HIDE DEF P
  <2> QED BY <1>1, TermInduct
<1> QED BY <1>2


-----------------------------------------------------------------------------
(* Arithmetic.                                                             *)

(* Powers of two are positive.                                             *)
LEMMA Pow2Type == \A k \in 0 .. 32 : Pow2[k] \in Nat /\ Pow2[k] >= 1
<1> DEFINE S == {n \in Nat : n <= 32 => Pow2[n] \in Nat /\ Pow2[n] >= 1}
<1>1. 0 \in S
  BY Pow2Unfold
<1>2. ASSUME NEW n \in S PROVE n + 1 \in S
  <2> SUFFICES ASSUME n + 1 <= 32 PROVE Pow2[n + 1] \in Nat /\ Pow2[n + 1] >= 1
    OBVIOUS
  <2>1. n \in 0 .. 31
    OBVIOUS
  <2> QED BY <2>1, Pow2Unfold
<1>3. S = Nat
  <2> HIDE DEF S
  <2>1. S \in SUBSET Nat
    BY DEF S
  <2> QED BY <1>1, <1>2, <2>1, NatInduct
<1> QED BY <1>3

(* Powers of two multiply by adding the exponents.                         *)
LEMMA Pow2Sum ==
    ASSUME NEW a \in 0 .. 32
    PROVE  \A b \in 0 .. 32 : a + b <= 32 => Pow2[a + b] = Pow2[a] * Pow2[b]
<1> DEFINE S == {n \in Nat : a + n <= 32 => Pow2[a + n] = Pow2[a] * Pow2[n]}
<1>1. 0 \in S
  BY Pow2Unfold, Pow2Type
<1>2. ASSUME NEW n \in S PROVE n + 1 \in S
  <2> SUFFICES ASSUME a + (n + 1) <= 32
               PROVE  Pow2[a + (n + 1)] = Pow2[a] * Pow2[n + 1]
    OBVIOUS
  <2>1. n \in 0 .. 31 /\ a + n \in 0 .. 31 /\ a + (n + 1) = (a + n) + 1
    OBVIOUS
  <2>2. Pow2[a + n] = Pow2[a] * Pow2[n]
    OBVIOUS
  <2>3. Pow2[n + 1] = 2 * Pow2[n] /\ Pow2[(a + n) + 1] = 2 * Pow2[a + n]
    BY <2>1, Pow2Unfold
  <2>4. Pow2[a] \in Nat /\ Pow2[n] \in Nat
    BY <2>1, Pow2Type
  <2> QED BY <2>1, <2>2, <2>3, <2>4
<1>3. S = Nat
  <2> HIDE DEF S
  <2>1. S \in SUBSET Nat
    BY DEF S
  <2> QED BY <1>1, <1>2, <2>1, NatInduct
<1>4. ASSUME NEW b \in 0 .. 32, a + b <= 32
      PROVE  Pow2[a + b] = Pow2[a] * Pow2[b]
  <2>1. b \in Nat
    OBVIOUS
  <2> QED BY <1>3, <1>4, <2>1
<1> HIDE DEF S
<1> QED BY <1>4

(* The width is a power of two itself, and less than the modulus.          *)
LEMMA WidthFacts ==
    /\ WordBits \in 4 .. 32 /\ WordBits <= 32
    /\ \E j \in 2 .. 5 : WordBits = Pow2[j] /\ j <= WordBits
    /\ Modulus \in Nat /\ Modulus > WordBits
<1>1. /\ Pow2[1] = 2 /\ Pow2[2] = 4 /\ Pow2[3] = 8 /\ Pow2[4] = 16 /\ Pow2[5] = 32
  <2>1. /\ Pow2[0 + 1] = 2 * Pow2[0] /\ Pow2[1 + 1] = 2 * Pow2[1]
        /\ Pow2[2 + 1] = 2 * Pow2[2] /\ Pow2[3 + 1] = 2 * Pow2[3]
        /\ Pow2[4 + 1] = 2 * Pow2[4]
    BY Pow2Unfold
  <2> QED BY <2>1, Pow2Unfold
<1>2. PICK j \in 2 .. 5 : WordBits = Pow2[j]
  BY WidthAssumption
<1>3. WordBits \in 4 .. 32 /\ j <= WordBits
  BY <1>1, <1>2
<1> DEFINE S == {n \in Nat : n <= 32 => Pow2[n] > n}
<1>4. 0 \in S
  BY Pow2Unfold
<1>5. ASSUME NEW n \in S PROVE n + 1 \in S
  <2> SUFFICES ASSUME n + 1 <= 32 PROVE Pow2[n + 1] > n + 1
    OBVIOUS
  <2>1. n \in 0 .. 31 /\ Pow2[n] > n
    OBVIOUS
  <2> QED BY <2>1, Pow2Unfold, Pow2Type
<1>6. S = Nat
  <2> HIDE DEF S
  <2>1. S \in SUBSET Nat
    BY DEF S
  <2> QED BY <1>4, <1>5, <2>1, NatInduct
<1>7. Modulus \in Nat /\ Modulus > WordBits
  BY <1>3, <1>6, Pow2Type DEF Modulus
<1> QED BY <1>2, <1>3, <1>7

(* Quotient and remainder are determined by their equation.                *)
LEMMA Division ==
    ASSUME NEW p \in Nat, p >= 1, NEW q \in Int, NEW r \in Int, 0 <= r, r < p
    PROVE  (p * q + r) \div p = q /\ (p * q + r) % p = r
OBVIOUS

(* Quotient and remainder.                                                 *)
LEMMA Quotient ==
    ASSUME NEW p \in Nat, p >= 1, NEW x \in Int
    PROVE  /\ x \div p \in Int /\ x % p \in Nat /\ x % p < p
           /\ x = p * (x \div p) + (x % p)
           /\ x >= 0 => x \div p \in Nat
OBVIOUS

(* The remainder of a word by 2 * p, by its lowest bit.                    *)
LEMMA Halves ==
    ASSUME NEW x \in Nat, NEW p \in Nat, p >= 1
    PROVE  /\ x % 2 \in 0 .. 1 /\ x \div 2 \in Nat
           /\ x = (x % 2) + 2 * (x \div 2)
           /\ x % (2 * p) = (x % 2) + 2 * ((x \div 2) % p)
<1> DEFINE b == x % 2
           h == x \div 2
           q == h \div p
           r == h % p
<1>1. b \in 0 .. 1 /\ h \in Nat /\ x = b + 2 * h
  OBVIOUS
<1>2. q \in Int /\ r \in Nat /\ r < p /\ h = p * q + r
  BY <1>1, Quotient
<1> HIDE DEF b, h, q, r
<1>3. x = (2 * p) * q + (b + 2 * r)
  BY <1>1, <1>2
<1>4. 0 <= b + 2 * r /\ b + 2 * r < 2 * p /\ 2 * p \in Nat /\ 2 * p >= 1 /\ b + 2 * r \in Int
  BY <1>1, <1>2
<1>5. x % (2 * p) = b + 2 * r
  BY <1>2, <1>3, <1>4, Division
<1> QED BY <1>1, <1>5 DEF b, h, r

(* Bitwise, one bit after another from the lowest.                         *)
Merged(table) ==
    CHOOSE z : z = [k \in 0 .. WordBits |->
                      [m \in Nat |-> [n \in Nat |->
                         IF k = 0 THEN 0
                         ELSE table[m % 2][n % 2]
                              + 2 * z[k - 1][m \div 2][n \div 2]]]]

OneBit(z, table, k, x, y) ==
    z[k + 1][x][y] = table[x % 2][y % 2] + 2 * z[k][x \div 2][y \div 2]

(* The bitwise operation on k + 1 bits from that on k bits.                *)
LEMMA MergedUnfold ==
    ASSUME NEW table
    PROVE  /\ \A x, y \in Nat : Bitwise(table, x, y) = Merged(table)[WordBits][x][y]
           /\ \A x, y \in Nat : Merged(table)[0][x][y] = 0
           /\ \A k \in 0 .. WordBits - 1 : \A x, y \in Nat :
                OneBit(Merged(table), table, k, x, y)
<1> SUFFICES ASSUME NEW x \in Nat, NEW y \in Nat
             PROVE  /\ Bitwise(table, x, y) = Merged(table)[WordBits][x][y]
                    /\ Merged(table)[0][x][y] = 0
                    /\ \A k \in 0 .. WordBits - 1 :
                         OneBit(Merged(table), table, k, x, y)
  OBVIOUS
<1> DEFINE E(f, k) == [i \in Nat |-> [j \in Nat |->
                         IF k = 0 THEN 0
                         ELSE table[i % 2][j % 2]
                              + 2 * f[k - 1][i \div 2][j \div 2]]]
           Is(f, n) == f = [k \in 0 .. n |-> E(f, k)]
           S == {n \in Nat : \E f : Is(f, n)}
<1>1. 0 \in S
  <2>1. Is([k \in 0 .. 0 |-> [i \in Nat |-> [j \in Nat |-> 0]]], 0)
    OBVIOUS
  <2> QED BY <2>1
<1>2. ASSUME NEW n \in S PROVE n + 1 \in S
  <2>1. PICK f : Is(f, n)
    OBVIOUS
  <2> DEFINE g == [k \in 0 .. n + 1 |-> E(f, k)]
  <2>2. ASSUME NEW k \in 0 .. n + 1
        PROVE  E(f, k) = E(g, k)
    <3>1. CASE k = 0
      BY <3>1
    <3>2. CASE k # 0
      <4>1. k - 1 \in 0 .. n /\ k - 1 \in 0 .. n + 1
        BY <3>2
      <4>2. f[k - 1] = g[k - 1]
        <5> HIDE DEF E
        <5> QED BY <4>1, <2>1
      <4> HIDE DEF g
      <4> QED BY <4>2
    <3> QED BY <3>1, <3>2
  <2>3. Is(g, n + 1)
    <3> HIDE DEF E
    <3> QED BY <2>2
  <2> HIDE DEF g, Is
  <2> QED BY <2>3
<1>3. WordBits \in S
  <2> HIDE DEF S
  <2>1. S \in SUBSET Nat
    BY DEF S
  <2>2. WordBits \in Nat
    BY WidthFacts
  <2> QED BY <1>1, <1>2, <2>1, <2>2, NatInduct
<1>4. Merged(table) = [k \in 0 .. WordBits |-> E(Merged(table), k)]
  <2>1. \E f : f = [k \in 0 .. WordBits |-> E(f, k)]
    BY <1>3
  <2> QED BY <2>1 DEF Merged
<1>5. Bitwise(table, x, y) = Merged(table)[WordBits][x][y]
  BY DEF Bitwise, Merged
<1> DEFINE Z == Merged(table)
<1> HIDE DEF Z
<1>6. \A k \in 0 .. WordBits : Z[k] = E(Z, k)
  <2> HIDE DEF E
  <2> QED BY <1>4 DEF Z
<1>7. WordBits \in Nat
  BY WidthFacts
<1>8. Z[0][x][y] = 0
  <2>1. 0 \in 0 .. WordBits
    BY <1>7
  <2>2. Z[0] = E(Z, 0)
    <3> HIDE DEF E
    <3> QED BY <1>6, <2>1
  <2>3. E(Z, 0)[x][y] = 0
    OBVIOUS
  <2> QED BY <2>2, <2>3
<1>9. ASSUME NEW k \in 0 .. WordBits - 1
      PROVE  OneBit(Z, table, k, x, y)
  <2>1. k + 1 \in 0 .. WordBits /\ k + 1 # 0 /\ (k + 1) - 1 = k
    BY <1>7
  <2>2. Z[k + 1] = E(Z, k + 1)
    BY <1>6, <2>1
  <2> QED BY <1>7, <2>1, <2>2 DEF OneBit
<1> QED BY <1>5, <1>8, <1>9 DEF Z

(* One of the tables: bits give a bit.                                     *)
IsTable(table) == \A b, c \in 0 .. 1 : table[b][c] \in 0 .. 1

(* The tables of the three operations, where an operand is known.          *)
LEMMA Tables ==
    /\ IsTable(And) /\ IsTable(Or) /\ IsTable(Xor)
    /\ \A b \in 0 .. 1 : /\ And[b][1] = b /\ And[b][0] = 0
                         /\ Or[b][0] = b /\ Or[0][b] = b /\ Or[b][b] = b
<1>1. \A b, c \in 0 .. 1 : /\ And[b][c] = b * c
                           /\ Or[b][c] = b + c - b * c
                           /\ Xor[b][c] = (b + c) % 2
  BY DEF And, Or, Xor
<1>2. ASSUME NEW b \in 0 .. 1, NEW c \in 0 .. 1
      PROVE  And[b][c] \in 0 .. 1 /\ Or[b][c] \in 0 .. 1 /\ Xor[b][c] \in 0 .. 1
  <2>1. (b = 0 \/ b = 1) /\ (c = 0 \/ c = 1)
    OBVIOUS
  <2> QED BY <2>1, <1>1
<1>3. ASSUME NEW b \in 0 .. 1
      PROVE  /\ And[b][1] = b /\ And[b][0] = 0
             /\ Or[b][0] = b /\ Or[0][b] = b /\ Or[b][b] = b
  <2>1. (b = 0 \/ b = 1)
    OBVIOUS
  <2> QED BY <2>1, <1>1
<1> QED BY <1>2, <1>3 DEF IsTable

(* The lowest k bits of a bitwise operation are below 2^k.                 *)
LEMMA MergedType ==
    ASSUME NEW table, IsTable(table)
    PROVE  \A k \in 0 .. WordBits : \A x, y \in Nat :
             Merged(table)[k][x][y] \in Nat /\ Merged(table)[k][x][y] < Pow2[k]
<1> DEFINE Z == Merged(table)
<1>0. /\ \A m, n \in Nat : Bitwise(table, m, n) = Z[WordBits][m][n]
      /\ \A m, n \in Nat : Z[0][m][n] = 0
      /\ \A k \in 0 .. WordBits - 1 : \A m, n \in Nat : OneBit(Z, table, k, m, n)
  BY MergedUnfold
<1> HIDE DEF Z
<1> DEFINE S == {n \in Nat : n <= WordBits => \A x, y \in Nat :
                   Z[n][x][y] \in Nat /\ Z[n][x][y] < Pow2[n]}
<1>1. 0 \in S
  BY <1>0, Pow2Unfold
<1>2. ASSUME NEW n \in S PROVE n + 1 \in S
  <2> SUFFICES ASSUME n + 1 <= WordBits, NEW x \in Nat, NEW y \in Nat
               PROVE  /\ Z[n + 1][x][y] \in Nat
                      /\ Z[n + 1][x][y] < Pow2[n + 1]
    OBVIOUS
  <2>0. /\ n \in Nat
        /\ n <= WordBits => \A i, j \in Nat :
             Z[n][i][j] \in Nat /\ Z[n][i][j] < Pow2[n]
    OBVIOUS
  <2> HIDE DEF S
  <2>1. n \in 0 .. WordBits - 1 /\ n \in 0 .. 31 /\ n <= WordBits
    BY <2>0, WidthFacts
  <2>6. x % 2 \in 0 .. 1 /\ y % 2 \in 0 .. 1 /\ x \div 2 \in Nat /\ y \div 2 \in Nat
    OBVIOUS
  <2> DEFINE z == Z[n][x \div 2][y \div 2]
             b == table[x % 2][y % 2]
  <2>2. z \in Nat /\ z < Pow2[n]
    BY <2>0, <2>1, <2>6
  <2>3. b \in 0 .. 1
    BY <2>6 DEF IsTable
  <2>4. Z[n + 1][x][y] = b + 2 * z
    <3>1. OneBit(Z, table, n, x, y)
      BY <1>0, <2>1
    <3> QED BY <3>1 DEF OneBit
  <2> HIDE DEF b, z
  <2>5. Pow2[n + 1] = 2 * Pow2[n] /\ Pow2[n] \in Nat
    BY <2>1, Pow2Unfold, Pow2Type
  <2> QED BY <2>1, <2>2, <2>3, <2>4, <2>5
<1>3. S = Nat
  <2> HIDE DEF S
  <2>1. S \in SUBSET Nat
    BY DEF S
  <2> QED BY <1>1, <1>2, <2>1, NatInduct
<1> QED BY <1>3, WidthFacts DEF Z

(* A bitwise operation gives a word.                                       *)
LEMMA BitwiseType ==
    ASSUME NEW table, IsTable(table), NEW x \in Nat, NEW y \in Nat
    PROVE  Bitwise(table, x, y) \in Word
<1>1. Bitwise(table, x, y) = Merged(table)[WordBits][x][y] /\ WordBits \in 0 .. WordBits
  BY MergedUnfold, WidthFacts
<1>2. /\ Merged(table)[WordBits][x][y] \in Nat
      /\ Merged(table)[WordBits][x][y] < Pow2[WordBits]
  BY <1>1, MergedType
<1> QED BY <1>1, <1>2, WidthFacts DEF Word, Modulus

(* A mask of the j lowest bits gives the remainder by 2^j.                 *)
LEMMA AndMask ==
    ASSUME NEW j \in 0 .. WordBits, NEW x \in Nat
    PROVE  Bitwise(And, x, Pow2[j] - 1) = x % Pow2[j]
<1> DEFINE Z == Merged(And)
<1>0. /\ \A m, n \in Nat : Bitwise(And, m, n) = Z[WordBits][m][n]
      /\ \A m, n \in Nat : Z[0][m][n] = 0
      /\ \A k \in 0 .. WordBits - 1 : \A m, n \in Nat : OneBit(Z, And, k, m, n)
  BY MergedUnfold
<1> HIDE DEF Z
<1> DEFINE Good(n) ==
             \A i \in 0 .. n : \A m \in Nat :
               Z[n][m][Pow2[i] - 1] = m % Pow2[i]
           S == {n \in Nat : n <= WordBits => Good(n)}
<1>1. 0 \in S
  <2>1. ASSUME NEW m \in Nat PROVE Z[0][m][Pow2[0] - 1] = m % Pow2[0]
    BY <1>0, Pow2Unfold
  <2>2. 0 .. 0 = {0}
    OBVIOUS
  <2> QED BY <2>1, <2>2
<1>2. ASSUME NEW n \in S PROVE n + 1 \in S
  <2> SUFFICES ASSUME n + 1 <= WordBits, NEW i \in 0 .. n + 1, NEW m \in Nat
               PROVE  Z[n + 1][m][Pow2[i] - 1] = m % Pow2[i]
    OBVIOUS
  <2>0. n \in Nat /\ (n <= WordBits => Good(n))
    OBVIOUS
  <2> HIDE DEF S
  <2>4. n \in 0 .. WordBits - 1 /\ n \in 0 .. 31 /\ n <= WordBits
    BY <2>0, WidthFacts
  <2>5. m % 2 \in 0 .. 1 /\ m \div 2 \in Nat /\ Good(n) /\ i \in 0 .. 32
    BY <2>0, <2>4
  <2>1. /\ n \in 0 .. WordBits - 1 /\ n \in 0 .. 31 /\ Good(n) /\ i \in 0 .. 32
        /\ m % 2 \in 0 .. 1 /\ m \div 2 \in Nat
    BY <2>4, <2>5
  <2>2. CASE i = 0
    <3>0. Pow2[i] = 1 /\ 0 \in 0 .. n
      BY <2>0, <2>2, Pow2Unfold
    <3>1. Pow2[i] - 1 = 0 /\ m % Pow2[i] = 0 /\ 0 \in 0 .. n
      BY <3>0
    <3>2. Z[n][m \div 2][0] = 0
      <4>1. Z[n][m \div 2][Pow2[0] - 1] = (m \div 2) % Pow2[0]
        BY <2>1, <3>1
      <4> QED BY <4>1, <2>1, Pow2Unfold
    <3>3. Z[n + 1][m][0] =
            And[m % 2][0 % 2] + 2 * Z[n][m \div 2][0 \div 2]
      <4>1. OneBit(Z, And, n, m, 0)
        BY <1>0, <2>1
      <4> QED BY <4>1 DEF OneBit
    <3> QED BY <2>1, <3>1, <3>2, <3>3, Tables
  <2>3. CASE i # 0
    <3> DEFINE h == i - 1
               p == Pow2[h]
    <3>1. h \in 0 .. n /\ h \in 0 .. 31 /\ h + 1 = i
      BY <2>1, <2>3
    <3>2. p \in Nat /\ p >= 1 /\ Pow2[i] = 2 * p
      BY <3>1, Pow2Unfold, Pow2Type
    <3>3. Z[n][m \div 2][p - 1] = (m \div 2) % p
      BY <2>1, <3>1
    <3> HIDE DEF p, h
    <3>4. /\ 2 * p - 1 \in Nat /\ (2 * p - 1) % 2 = 1 /\ (2 * p - 1) \div 2 = p - 1
      BY <3>2
    <3>5. Z[n + 1][m][2 * p - 1] =
            And[m % 2][1] + 2 * Z[n][m \div 2][p - 1]
      <4>1. OneBit(Z, And, n, m, 2 * p - 1)
        BY <1>0, <2>1, <3>4
      <4> QED BY <3>4, <4>1 DEF OneBit
    <3>6. And[m % 2][1] = m % 2
      BY <2>1, Tables
    <3>7. m % (2 * p) = (m % 2) + 2 * ((m \div 2) % p)
      BY <3>2, Halves
    <3> QED BY <3>2, <3>3, <3>5, <3>6, <3>7
  <2> QED BY <2>2, <2>3
<1>3. S = Nat
  <2> HIDE DEF S
  <2>1. S \in SUBSET Nat
    BY DEF S
  <2> QED BY <1>1, <1>2, <2>1, NatInduct
<1>4. Good(WordBits)
  BY <1>3, WidthFacts
<1>5. Pow2[j] - 1 \in Nat
  BY Pow2Type, WidthFacts
<1> QED BY <1>4, <1>5, <1>0

(* OR changes nothing on equal words.                                      *)
LEMMA OrSame == ASSUME NEW x \in Word PROVE Bitwise(Or, x, x) = x
<1> DEFINE Z == Merged(Or)
<1>0. /\ \A m, n \in Nat : Bitwise(Or, m, n) = Z[WordBits][m][n]
      /\ \A m, n \in Nat : Z[0][m][n] = 0
      /\ \A k \in 0 .. WordBits - 1 : \A m, n \in Nat : OneBit(Z, Or, k, m, n)
  BY MergedUnfold
<1> HIDE DEF Z
<1> DEFINE Good(n) == \A m \in Nat : Z[n][m][m] = m % Pow2[n]
           S == {n \in Nat : n <= WordBits => Good(n)}
<1>1. 0 \in S
  BY <1>0, Pow2Unfold
<1>2. ASSUME NEW n \in S PROVE n + 1 \in S
  <2> SUFFICES ASSUME n + 1 <= WordBits, NEW m \in Nat
               PROVE  Z[n + 1][m][m] = m % Pow2[n + 1]
    OBVIOUS
  <2>1. n \in Nat /\ (n <= WordBits => Good(n))
    OBVIOUS
  <2> HIDE DEF S
  <2>2. n \in 0 .. WordBits - 1 /\ n \in 0 .. 31 /\ n <= WordBits
    BY <2>1, WidthFacts
  <2>3. m % 2 \in 0 .. 1 /\ m \div 2 \in Nat
    OBVIOUS
  <2>4. Z[n][m \div 2][m \div 2] = (m \div 2) % Pow2[n]
    BY <2>1, <2>2, <2>3
  <2>5. Z[n + 1][m][m] = Or[m % 2][m % 2] + 2 * Z[n][m \div 2][m \div 2]
    <3>1. OneBit(Z, Or, n, m, m)
      BY <1>0, <2>2
    <3> QED BY <3>1 DEF OneBit
  <2>6. Or[m % 2][m % 2] = m % 2
    BY <2>3, Tables
  <2>7. Pow2[n + 1] = 2 * Pow2[n] /\ Pow2[n] \in Nat /\ Pow2[n] >= 1
    BY <2>2, Pow2Unfold, Pow2Type
  <2>8. m % (2 * Pow2[n]) = (m % 2) + 2 * ((m \div 2) % Pow2[n])
    BY <2>7, Halves
  <2> QED BY <2>4, <2>5, <2>6, <2>7, <2>8
<1>3. S = Nat
  <2> HIDE DEF S
  <2>1. S \in SUBSET Nat
    BY DEF S
  <2> QED BY <1>1, <1>2, <2>1, NatInduct
<1>4. Good(WordBits) /\ x \in Nat
  BY <1>3, WidthFacts DEF Word
<1>5. x % Modulus = x
  BY WidthFacts DEF Word
<1> QED BY <1>0, <1>4, <1>5 DEF Modulus

(* The order of the operands of OR does not matter.                        *)
LEMMA OrCommutes ==
    ASSUME NEW x \in Nat, NEW y \in Nat
    PROVE  Bitwise(Or, x, y) = Bitwise(Or, y, x)
<1> DEFINE Z == Merged(Or)
<1>0. /\ \A m, n \in Nat : Bitwise(Or, m, n) = Z[WordBits][m][n]
      /\ \A m, n \in Nat : Z[0][m][n] = 0
      /\ \A k \in 0 .. WordBits - 1 : \A m, n \in Nat : OneBit(Z, Or, k, m, n)
  BY MergedUnfold
<1> HIDE DEF Z
<1> DEFINE Good(n) == \A i, j \in Nat : Z[n][i][j] = Z[n][j][i]
           S == {n \in Nat : n <= WordBits => Good(n)}
<1>1. 0 \in S
  BY <1>0
<1>2. ASSUME NEW n \in S PROVE n + 1 \in S
  <2> SUFFICES ASSUME n + 1 <= WordBits, NEW i \in Nat, NEW j \in Nat
               PROVE  Z[n + 1][i][j] = Z[n + 1][j][i]
    OBVIOUS
  <2>1. n \in Nat /\ (n <= WordBits => Good(n))
    OBVIOUS
  <2> HIDE DEF S
  <2>2. n \in 0 .. WordBits - 1 /\ n <= WordBits
    BY <2>1, WidthFacts
  <2>3. i % 2 \in 0 .. 1 /\ i \div 2 \in Nat /\ j % 2 \in 0 .. 1 /\ j \div 2 \in Nat
    OBVIOUS
  <2>4. Z[n][i \div 2][j \div 2] = Z[n][j \div 2][i \div 2]
    BY <2>1, <2>2, <2>3
  <2>5. /\ Z[n + 1][i][j] = Or[i % 2][j % 2] + 2 * Z[n][i \div 2][j \div 2]
        /\ Z[n + 1][j][i] = Or[j % 2][i % 2] + 2 * Z[n][j \div 2][i \div 2]
    <3>1. OneBit(Z, Or, n, i, j) /\ OneBit(Z, Or, n, j, i)
      BY <1>0, <2>2
    <3> QED BY <3>1 DEF OneBit
  <2>6. Or[i % 2][j % 2] = Or[j % 2][i % 2]
    <3> DEFINE b == i % 2
               c == j % 2
    <3>1. b \in 0 .. 1 /\ c \in 0 .. 1
      BY <2>3
    <3> HIDE DEF b, c
    <3>2. Or[b][c] = Or[c][b]
      BY <3>1, Tables
    <3> QED BY <3>2 DEF b, c
  <2> QED BY <2>4, <2>5, <2>6
<1>3. S = Nat
  <2> HIDE DEF S
  <2>1. S \in SUBSET Nat
    BY DEF S
  <2> QED BY <1>1, <1>2, <2>1, NatInduct
<1>4. Good(WordBits)
  BY <1>3, WidthFacts
<1> QED BY <1>0, <1>4

(* Words without a common bit, the one above and the other below bit s.    *)
LEMMA OrApart ==
    ASSUME NEW s \in 0 .. WordBits, NEW q \in Nat, NEW b \in Nat,
           b < Pow2[s], Pow2[s] * q + b < Modulus
    PROVE  Bitwise(Or, Pow2[s] * q, b) = Pow2[s] * q + b
<1> DEFINE Z == Merged(Or)
<1>0. /\ \A m, n \in Nat : Bitwise(Or, m, n) = Z[WordBits][m][n]
      /\ \A m, n \in Nat : Z[0][m][n] = 0
      /\ \A k \in 0 .. WordBits - 1 : \A m, n \in Nat : OneBit(Z, Or, k, m, n)
  BY MergedUnfold
<1> HIDE DEF Z
<1> DEFINE Good(n) == \A i \in 0 .. n : \A m, r \in Nat :
             r < Pow2[i] => Z[n][Pow2[i] * m][r] = (Pow2[i] * m + r) % Pow2[n]
           S == {n \in Nat : n <= WordBits => Good(n)}
<1>1. 0 \in S
  <2>1. ASSUME NEW m \in Nat, NEW r \in Nat, r < Pow2[0]
        PROVE  Z[0][Pow2[0] * m][r] = (Pow2[0] * m + r) % Pow2[0]
    BY <1>0, <2>1, Pow2Unfold
  <2>2. 0 .. 0 = {0}
    OBVIOUS
  <2> QED BY <2>1, <2>2
<1>2. ASSUME NEW n \in S PROVE n + 1 \in S
  <2> SUFFICES ASSUME n + 1 <= WordBits, NEW i \in 0 .. n + 1,
                      NEW m \in Nat, NEW r \in Nat, r < Pow2[i]
               PROVE  Z[n + 1][Pow2[i] * m][r] = (Pow2[i] * m + r) % Pow2[n + 1]
    OBVIOUS
  <2>1. n \in Nat /\ (n <= WordBits => Good(n))
    OBVIOUS
  <2> HIDE DEF S
  <2>2. n \in 0 .. WordBits - 1 /\ n \in 0 .. 31 /\ n <= WordBits
    BY <2>1, WidthFacts
  <2>3. Good(n) /\ i \in 0 .. 32 /\ i \in Nat
    BY <2>1, <2>2
  <2> HIDE DEF Good
  <2> DEFINE P == Pow2[n]
  <2>4. Pow2[n + 1] = 2 * P /\ P \in Nat /\ P >= 1
    BY <2>2, Pow2Unfold, Pow2Type
  <2> HIDE DEF P
  <2>5. CASE i = 0
    <3>1. Pow2[i] = 1 /\ 0 \in 0 .. n
      BY <2>1, <2>5, Pow2Unfold
    <3>2. r = 0 /\ Pow2[i] * m = m /\ m + r = m
      BY <3>1
    <3>3. m % 2 \in 0 .. 1 /\ m \div 2 \in Nat /\ 0 % 2 = 0 /\ 0 \div 2 = 0
      OBVIOUS
    <3>4. Z[n][m \div 2][0] = (m \div 2) % P
      <4>1. Z[n][Pow2[0] * (m \div 2)][0] = (Pow2[0] * (m \div 2) + 0) % Pow2[n]
        <5>1. 0 < Pow2[0] /\ 0 \in Nat
          BY Pow2Unfold
        <5> QED BY <2>3, <3>1, <3>3, <5>1 DEF Good
      <4>2. Pow2[0] * (m \div 2) = m \div 2 /\ (m \div 2) + 0 = m \div 2
        BY <3>3, Pow2Unfold
      <4> QED BY <4>1, <4>2 DEF P
    <3>5. Z[n + 1][m][0] = Or[m % 2][0] + 2 * Z[n][m \div 2][0]
      <4>1. OneBit(Z, Or, n, m, 0)
        BY <1>0, <2>2
      <4> QED BY <3>3, <4>1 DEF OneBit
    <3>6. Or[m % 2][0] = m % 2
      BY <3>3, Tables
    <3>7. m % (2 * P) = (m % 2) + 2 * ((m \div 2) % P)
      BY <2>4, Halves
    <3> QED BY <2>4, <3>2, <3>4, <3>5, <3>6, <3>7
  <2>6. CASE i # 0
    <3> DEFINE h == i - 1
               p == Pow2[h]
               w == p * m + (r \div 2)
    <3>1. h \in 0 .. n /\ h \in 0 .. 31 /\ h + 1 = i
      BY <2>2, <2>3, <2>6
    <3>2. p \in Nat /\ p >= 1 /\ Pow2[i] = 2 * p
      BY <3>1, Pow2Unfold, Pow2Type
    <3> HIDE DEF h
    <3>3. /\ r % 2 \in 0 .. 1 /\ r \div 2 \in Nat /\ r = (r % 2) + 2 * (r \div 2)
      OBVIOUS
    <3>4. r \div 2 < Pow2[h]
      BY <3>2, <3>3
    <3>5. Z[n][p * m][r \div 2] = w % P
      BY <2>3, <3>1, <3>3, <3>4 DEF Good, P
    <3> HIDE DEF p
    <3>6. p * m \in Nat /\ 2 * (p * m) \in Nat
      BY <3>2
    <3>7. (2 * (p * m)) % 2 = 0 /\ (2 * (p * m)) \div 2 = p * m
      BY <3>6
    <3>8. Z[n + 1][2 * (p * m)][r] =
            Or[0][r % 2] + 2 * Z[n][p * m][r \div 2]
      <4>1. OneBit(Z, Or, n, 2 * (p * m), r)
        BY <1>0, <2>2, <3>6
      <4> QED BY <3>7, <4>1 DEF OneBit
    <3>9. Or[0][r % 2] = r % 2
      BY <3>3, Tables
    <3>10. w \in Nat /\ 2 * (p * m) + r = (r % 2) + 2 * w
      BY <3>3, <3>6
    <3> DEFINE x == 2 * (p * m) + r
    <3>11. x % 2 = r % 2 /\ x \div 2 = w /\ x \in Nat
      <4> HIDE DEF w
      <4> QED BY <3>3, <3>10
    <3>12. x % (2 * P) = (x % 2) + 2 * ((x \div 2) % P)
      <4> HIDE DEF x
      <4> QED BY <2>4, <3>11, Halves
    <3>13. Pow2[i] * m = 2 * (p * m)
      BY <3>2
    <3> HIDE DEF w, x
    <3>14. Z[n + 1][2 * (p * m)][r] = x % (2 * P)
      BY <3>5, <3>8, <3>9, <3>11, <3>12
    <3> QED BY <2>4, <3>13, <3>14 DEF x
  <2> QED BY <2>5, <2>6
<1>3. S = Nat
  <2> HIDE DEF S
  <2>1. S \in SUBSET Nat
    BY DEF S
  <2> QED BY <1>1, <1>2, <2>1, NatInduct
<1>4. Good(WordBits) /\ Pow2[s] \in Nat
  <2>1. WordBits \in S /\ WordBits <= WordBits /\ s \in 0 .. 32
    BY <1>3, WidthFacts
  <2>2. Good(WordBits)
    BY <2>1
  <2> QED BY <2>1, <2>2, Pow2Type
<1> DEFINE x == Pow2[s] * q + b
<1>5. Z[WordBits][Pow2[s] * q][b] = x % Pow2[WordBits]
  BY <1>4
<1>6. x \in Nat /\ Pow2[s] * q \in Nat
  BY <1>4
<1>7. x % Pow2[WordBits] = x
  <2>1. x < Modulus
    OBVIOUS
  <2> HIDE DEF x
  <2>2. x % Modulus = x
    BY <1>6, <2>1, WidthFacts
  <2> QED BY <2>2 DEF Modulus
<1> QED BY <1>0, <1>5, <1>6, <1>7

(* A constant within the immediates comes back from its field.             *)
LEMMA ImmediateValue ==
    ASSUME NEW c \in Int, simm12(c)
    PROVE  Signextended(c, ImmBits) = c % Modulus
<1> DEFINE p == Pow2[ImmBits - 1]
<1>1. ImmBits \in 0 .. 32 /\ ImmBits - 1 \in 0 .. 31 /\ (ImmBits - 1) + 1 = ImmBits
  BY WidthAssumption, WidthFacts
<1>2. p \in Nat /\ p >= 1 /\ Pow2[ImmBits] = 2 * p
  BY <1>1, Pow2Unfold, Pow2Type
<1>3. -p <= c /\ c < p
  BY DEF simm12
<1>4. Signextended(c, ImmBits) =
        (IF c % (2 * p) < p THEN c % (2 * p) ELSE (c % (2 * p)) - 2 * p) % Modulus
  BY <1>2 DEF Signextended
<1> HIDE DEF p
<1>5. CASE c >= 0
  <2>1. c % (2 * p) = c
    BY <1>2, <1>3, <1>5
  <2> QED BY <1>3, <1>4, <2>1
<1>6. CASE c < 0
  <2>1. /\ c = (2 * p) * (-1) + (c + 2 * p) /\ c + 2 * p \in Int
        /\ 0 <= c + 2 * p /\ c + 2 * p < 2 * p /\ 2 * p \in Nat /\ 2 * p >= 1
    BY <1>2, <1>3, <1>6
  <2>2. c % (2 * p) = c + 2 * p
    BY <2>1, Division
  <2>3. (c + 2 * p) - 2 * p = c /\ ~(c + 2 * p < p)
    BY <1>2, <1>3
  <2>4. (IF c % (2 * p) < p THEN c % (2 * p) ELSE (c % (2 * p)) - 2 * p) = c
    BY <2>2, <2>3
  <2> QED BY <1>4, <2>4
<1> QED BY <1>5, <1>6

(* Shift amounts are words and are reduced to themselves.                  *)
LEMMA SmallWords ==
    ASSUME NEW c \in Int, 0 <= c, c <= WordBits
    PROVE  c \in Word /\ c % Modulus = c /\ (c < WordBits => c % WordBits = c)
BY WidthFacts DEF Word

(* What is shifted out at one end and what is left at the other.           *)
LEMMA Shifts ==
    ASSUME NEW x \in Word, NEW s \in 0 .. WordBits
    PROVE  /\ Pow2[s] \in Nat /\ Pow2[s] >= 1
           /\ Modulus = Pow2[s] * Pow2[WordBits - s]
           /\ (x * Pow2[s]) % Modulus = Pow2[s] * (x % Pow2[WordBits - s])
           /\ x % Pow2[WordBits - s] \in Nat
           /\ x \div Pow2[WordBits - s] \in Nat
           /\ x \div Pow2[WordBits - s] < Pow2[s]
           /\ ((x * Pow2[s]) % Modulus) + (x \div Pow2[WordBits - s]) \in Word
<1> DEFINE p == Pow2[s]
           r == Pow2[WordBits - s]
           q == x \div r
           y == x % r
<1>1. s \in 0 .. 32 /\ WordBits - s \in 0 .. 32 /\ s + (WordBits - s) = WordBits
  BY WidthFacts
<1>2. p \in Nat /\ p >= 1 /\ r \in Nat /\ r >= 1
  BY <1>1, Pow2Type
<1>3. Modulus = p * r
  BY <1>1, Pow2Sum, WidthFacts DEF Modulus
<1>4. x \in Nat /\ x < p * r
  BY <1>3 DEF Word
<1> HIDE DEF p, r
<1>5. q \in Nat /\ y \in Nat /\ y < r /\ x = r * q + y
  BY <1>2, <1>4, Quotient
<1> HIDE DEF q, y
<1>6. q < p
  <2> SUFFICES ASSUME q >= p PROVE FALSE
    BY <1>2, <1>5
  <2>1. r * q >= r * p
    BY <1>2, <1>5
  <2> QED BY <1>2, <1>4, <1>5, <2>1
<1>7. (x * p) % (p * r) = p * y
  <2>1. p * y <= p * (r - 1) /\ p * (r - 1) = p * r - p
    BY <1>2, <1>5
  <2>2. p * y \in Int /\ 0 <= p * y /\ p * r \in Nat /\ p * r >= 1 /\ p * y < p * r
    BY <1>2, <1>5, <2>1
  <2>3. x * p = (p * r) * q + p * y
    BY <1>2, <1>5
  <2> QED BY <1>5, <2>2, <2>3, Division
<1>8. p * y + q \in 0 .. p * r - 1
  <2>1. p * y <= p * (r - 1) /\ p * (r - 1) = p * r - p
    BY <1>2, <1>5
  <2>2. p * y \in Nat /\ p * r \in Nat
    BY <1>2, <1>5
  <2> QED BY <1>2, <1>5, <1>6, <2>1, <2>2
<1> QED BY <1>2, <1>3, <1>5, <1>6, <1>7, <1>8 DEF p, q, r, y, Word

(* What a shift brings up and what the other brings down do not overlap.   *)
LEMMA OrOfShifts ==
    ASSUME NEW x \in Word, NEW s \in 0 .. WordBits
    PROVE  LET up == (x * Pow2[s]) % Modulus
               down == x \div Pow2[WordBits - s]
           IN  /\ Bitwise(Or, up, down) = up + down
               /\ Bitwise(Or, down, up) = up + down
<1> DEFINE down == x \div Pow2[WordBits - s]
           q == x % Pow2[WordBits - s]
           up == (x * Pow2[s]) % Modulus
<1>0. /\ Pow2[s] \in Nat /\ up = Pow2[s] * q /\ q \in Nat
      /\ down \in Nat /\ down < Pow2[s] /\ up + down \in Word
  BY Shifts
<1> HIDE DEF down, q, up
<1>1. /\ Pow2[s] \in Nat /\ up = Pow2[s] * q /\ q \in Nat
      /\ down \in Nat /\ down < Pow2[s] /\ up + down < Modulus
  BY <1>0, WidthFacts DEF Word
<1>2. Bitwise(Or, up, down) = up + down
  BY <1>1, OrApart
<1>3. up \in Nat
  BY <1>1
<1> QED BY <1>1, <1>2, <1>3, OrCommutes DEF down, up

(* A shift to the left and an arithmetic one back leave the low bits and   *)
(* copies of their highest.                                                *)
LEMMA SignextendedByShifts ==
    ASSUME NEW x \in Word, NEW c \in 1 .. WordBits - 1
    PROVE  (Signed((x * Pow2[WordBits - c]) % Modulus) \div Pow2[WordBits - c])
             % Modulus = Signextended(x, c)
<1> DEFINE p == Pow2[WordBits - c]
           r == Pow2[c]
           h == Pow2[c - 1]
           low == x % r
           y == (x * p) % Modulus
<1>1. /\ WordBits - c \in 0 .. WordBits /\ WordBits - (WordBits - c) = c
      /\ c \in 0 .. 32 /\ c - 1 \in 0 .. 31 /\ (c - 1) + 1 = c
  BY WidthFacts
<1>2. p \in Nat /\ p >= 1 /\ Modulus = p * r /\ y = p * low /\ low \in Nat
  BY <1>1, Shifts
<1>3. r = 2 * h /\ h \in Nat /\ h >= 1
  BY <1>1, Pow2Unfold, Pow2Type
<1>4. low < r
  <2>1. x \in Int
    BY WidthFacts DEF Word
  <2> HIDE DEF r
  <2> QED BY <1>3, <2>1
<1>5. Signextended(x, c) = (IF low < h THEN low ELSE low - r) % Modulus
  BY DEF Signextended
<1> HIDE DEF p, r, h, low, y
<1>6. Modulus = 2 * (p * h) /\ Modulus \div 2 = p * h
  <2>1. Modulus = 2 * (p * h) /\ p * h \in Nat
    BY <1>2, <1>3
  <2> QED BY <2>1
<1>7. Signed(y) = (IF y < p * h THEN y ELSE y - p * r)
  BY <1>2, <1>6 DEF Signed
<1>8. CASE low < h
  <2>1. p * low < p * h
    BY <1>2, <1>3, <1>8
  <2>2. p * low = p * low + 0 /\ (p * low + 0) \div p = low
    BY <1>2, Division
  <2> QED BY <1>2, <1>5, <1>7, <1>8, <2>1, <2>2 DEF p, y
<1>9. CASE ~ (low < h)
  <2>1. ~ (p * low < p * h)
    BY <1>2, <1>3, <1>9
  <2>2. p * low - p * r = p * (low - r) + 0 /\ low - r \in Int
    BY <1>2, <1>3
  <2>3. (p * (low - r) + 0) \div p = low - r
    BY <1>2, <2>2, Division
  <2> QED BY <1>2, <1>5, <1>7, <1>9, <2>1, <2>2, <2>3 DEF p, y
<1> QED BY <1>8, <1>9

(* The amounts of the two shifts of a rotation add up to WordBits or 0.    *)
LEMMA Amounts ==
    ASSUME NEW y \in Word
    PROVE  LET n == y % WordBits
               m == ((0 - y) % Modulus) % WordBits
           IN  /\ n \in 0 .. WordBits - 1
               /\ Bitwise(And, y, WordBits - 1) = n
               /\ Bitwise(And, (0 - y) % Modulus, WordBits - 1) = m
               /\ m = IF n = 0 THEN 0 ELSE WordBits - n
<1>1. PICK j \in 2 .. 5 : WordBits = Pow2[j] /\ j <= WordBits
  BY WidthFacts
<1> DEFINE W == WordBits
           M == Modulus
           r == Pow2[WordBits - j]
           z == (0 - y) % M
<1>2. W \in Nat /\ W >= 1 /\ M \in Nat /\ M >= 1 /\ M > W /\ y \in Nat
  BY WidthFacts DEF Word
<1>3. M = W * r /\ r \in Nat
  <2>1. j \in 0 .. 32 /\ WordBits - j \in 0 .. 32 /\ j + (WordBits - j) = WordBits
    BY <1>1, WidthFacts
  <2>2. Pow2[j + (WordBits - j)] = Pow2[j] * Pow2[WordBits - j]
    BY <2>1, Pow2Sum, WidthFacts
  <2>3. Pow2[WordBits - j] \in Nat
    BY <2>1, Pow2Type
  <2> QED BY <1>1, <2>1, <2>2, <2>3 DEF Modulus
<1>4. z \in Nat
  <2> HIDE DEF M
  <2> QED BY <1>2
<1>5. /\ Bitwise(And, y, W - 1) = y % W
      /\ Bitwise(And, z, W - 1) = z % W
  <2>1. j \in 0 .. WordBits
    BY <1>1, WidthFacts
  <2> HIDE DEF z
  <2> QED BY <1>1, <1>2, <1>4, <2>1, AndMask
<1> DEFINE n == y % W
           q == y \div W
           d == (0 - y) \div M
<1>6. n \in 0 .. W - 1 /\ q \in Int /\ y = W * q + n
  <2> HIDE DEF W
  <2> QED BY <1>2, Quotient
<1>7. d \in Int /\ 0 - y = M * d + z
  <2> HIDE DEF M
  <2> QED BY <1>2, Quotient
<1> HIDE DEF W, M, r, z, n, q, d
<1>8. z = W * (0 - q - r * d) - n
  <2>1. z = 0 - y - (W * r) * d
    BY <1>2, <1>3, <1>4, <1>7
  <2>2. (W * r) * d = W * (r * d)
    BY <1>2, <1>3, <1>7
  <2>3. r * d \in Int
    BY <1>3, <1>7
  <2> HIDE DEF r
  <2>4. W * (0 - q - r * d) = 0 - W * q - W * (r * d)
    BY <1>2, <1>6, <2>3
  <2> QED BY <1>2, <1>6, <2>1, <2>2, <2>3, <2>4
<1>9. z % W = IF n = 0 THEN 0 ELSE W - n
  <2> DEFINE e == 0 - q - r * d
  <2>1. e \in Int
    BY <1>3, <1>6, <1>7
  <2> HIDE DEF e
  <2>2. CASE n = 0
    <3>1. z = W * e + 0
      BY <1>2, <1>6, <1>8, <2>1, <2>2 DEF e
    <3> QED BY <1>2, <2>1, <2>2, <3>1, Division
  <2>3. CASE n # 0
    <3>1. z = W * (e - 1) + (W - n) /\ e - 1 \in Int
      <4>1. z = W * e - n
        BY <1>8 DEF e
      <4>2. W * (e - 1) = W * e - W
        BY <1>2, <2>1
      <4> QED BY <1>2, <1>6, <2>1, <4>1, <4>2
    <3>2. 0 <= W - n /\ W - n < W /\ W - n \in Int
      BY <1>2, <1>6, <2>3
    <3> QED BY <1>2, <2>3, <3>1, <3>2, Division
  <2> QED BY <2>2, <2>3
<1> QED BY <1>5, <1>6, <1>9 DEF W, M, n, z

-----------------------------------------------------------------------------
(* Values.                                                                 *)

(* The operations and instructions by name.                                *)
LEMMA OperationNames ==
    /\ DOMAIN RegisterPattern = {"add", "sub", "shl", "setlt", "setult", "xor",
                                 "srl", "sra", "or", "and"}
    /\ DOMAIN Imm12Pattern = {"add", "setlt", "setult", "xor", "or", "and"}
    /\ DOMAIN ShamtPattern = {"shl", "srl", "sra"}
    /\ RegisterOpcodes = {"ADD", "SUB", "SLL", "SLT", "SLTU", "XOR", "SRL",
                          "SRA", "OR", "AND"}
    /\ Imm12Opcodes = {"ADDI", "SLTI", "SLTIU", "XORI", "ORI", "ANDI"}
    /\ ShamtOpcodes = {"SLLI", "SRLI", "SRAI"}
    /\ DOMAIN Libcalls = {"mul", "sdiv", "udiv", "srem", "urem"}
<1>1. DOMAIN RegisterPattern = {"add", "sub", "shl", "setlt", "setult", "xor",
                                "srl", "sra", "or", "and"}
  BY DEF RegisterPattern
<1>2. DOMAIN Imm12Pattern = {"add", "setlt", "setult", "xor", "or", "and"}
  BY DEF Imm12Pattern
<1>3. DOMAIN ShamtPattern = {"shl", "srl", "sra"}
  BY DEF ShamtPattern
<1>4. RegisterOpcodes = {"ADD", "SUB", "SLL", "SLT", "SLTU", "XOR", "SRL",
                         "SRA", "OR", "AND"}
  BY <1>1 DEF RegisterOpcodes, RegisterPattern
<1>5. Imm12Opcodes = {"ADDI", "SLTI", "SLTIU", "XORI", "ORI", "ANDI"}
  BY <1>2 DEF Imm12Opcodes, Imm12Pattern
<1>6. ShamtOpcodes = {"SLLI", "SRLI", "SRAI"}
  BY <1>3 DEF ShamtOpcodes, ShamtPattern
<1>7. DOMAIN Libcalls = {"mul", "sdiv", "udiv", "srem", "urem"}
  BY DEF Libcalls
<1> QED BY <1>1, <1>2, <1>3, <1>4, <1>5, <1>6, <1>7

(* How many operands the operations have that are given a value.           *)
LEMMA Arity ==
    ASSUME NEW s \in Terms
    PROVE  /\ s.op \in {"register", "X0", "constant", "tglobaladdr", "texternalsym"}
                => DOMAIN s.kids = {}
           /\ s.op = "register" => s.c \in 1 .. 2
           /\ s.op = "sign_extend_inreg" => s.c \in 1 .. WordBits - 1
           /\ s.op \in {"sign_extend_inreg", "load", "LW"} \cup Imm12Opcodes
                       \cup ShamtOpcodes => DOMAIN s.kids = 1 .. 1
           /\ s.op \in {"rotl", "rotr", "store", "SW"} \cup RegisterOpcodes
                => DOMAIN s.kids = 1 .. 2
           /\ s.op \in DOMAIN RegisterPattern
                => DOMAIN s.kids = {} \/ DOMAIN s.kids = 1 .. 2
           /\ s.op \in {"call", "PseudoCALL"} => DOMAIN s.kids = 1 .. 3
           /\ s.op \in {"register", "X0", "constant", "tglobaladdr", "texternalsym",
                        "sign_extend_inreg", "load", "LW", "rotl", "rotr", "store",
                        "SW", "call", "PseudoCALL"}
                       \cup Imm12Opcodes \cup ShamtOpcodes \cup RegisterOpcodes
                       \cup DOMAIN RegisterPattern \cup Unvalued
<1> DEFINE Is(ops, widths, n) ==
             s.op \in ops /\ s.c \in widths /\ DOMAIN s.kids = 1 .. n
<1>1. ASSUME NEW ops, NEW widths, NEW n, s \in Nodes(ops, widths, n, Terms)
      PROVE  Is(ops, widths, n)
  BY <1>1 DEF Nodes
<1>2. \/ Is({"register"}, 1 .. 2, 0)
      \/ Is({"constant", "X0", "tglobaladdr", "texternalsym", "jumptable"}
                 \cup CondCodes, Int, 0)
      \/ Is({"sign_extend_inreg"}, 1 .. WordBits - 1, 1)
      \/ Is({"load", "LW", "brind"} \cup BitOperations
                 \cup Imm12Opcodes \cup ShamtOpcodes, Int, 1)
      \/ Is(DOMAIN RegisterPattern \cup RegisterOpcodes \cup DOMAIN Libcalls
                 \cup {"setne", "rotl", "rotr", "store", "SW", "br_jt"}, Int, 2)
      \/ Is({"call", "PseudoCALL", "select"}, Int, 3)
      \/ Is({"select_cc"}, Int, 5)
  <2> HIDE DEF Is
  <2> QED BY <1>1, TermShape DEF Shapes
<1>3. 1 .. 0 = {}
  OBVIOUS
<1>4. CASE Is({"register"}, 1 .. 2, 0)
  BY <1>3, <1>4, OperationNames
<1>5. CASE Is({"constant", "X0", "tglobaladdr", "texternalsym", "jumptable"}
                 \cup CondCodes, Int, 0)
  BY <1>3, <1>5, OperationNames DEF CondCodes, Unvalued
<1>6. CASE Is({"sign_extend_inreg"}, 1 .. WordBits - 1, 1)
  BY <1>6, OperationNames
<1>7. CASE Is({"load", "LW", "brind"} \cup BitOperations
                 \cup Imm12Opcodes \cup ShamtOpcodes, Int, 1)
  BY <1>7, OperationNames DEF BitOperations, Unvalued
<1>8. CASE Is(DOMAIN RegisterPattern \cup RegisterOpcodes \cup DOMAIN Libcalls
                 \cup {"setne", "rotl", "rotr", "store", "SW", "br_jt"}, Int, 2)
  BY <1>8, OperationNames DEF Unvalued
<1>9. CASE Is({"call", "PseudoCALL", "select"}, Int, 3)
  BY <1>9, OperationNames DEF Unvalued
<1>10. CASE Is({"select_cc"}, Int, 5)
  BY <1>10, OperationNames DEF Unvalued
<1> QED BY <1>2, <1>4, <1>5, <1>6, <1>7, <1>8, <1>9, <1>10

(* A word has a signed value.                                              *)
LEMMA SignedType == \A x \in Word : Signed(x) \in Int
BY WidthFacts DEF Signed, Word

(* Reduced to the width, an integer is a word.                             *)
LEMMA ModulusType == \A x \in Int : x % Modulus \in Word
<1> SUFFICES ASSUME NEW x \in Int PROVE x % Modulus \in Word
  OBVIOUS
<1>1. Modulus \in Nat /\ Modulus >= 1
  BY WidthFacts
<1>2. x % Modulus \in Nat /\ x % Modulus < Modulus
  BY <1>1, Quotient
<1> QED BY <1>1, <1>2 DEF Word

(* Words are computed from words.                                          *)
LEMMA ComputesWord ==
    ASSUME NEW x \in Word, NEW y \in Int,
           NEW op \in {"rotl", "rotr", "store", "SW"} \cup Imm12Opcodes
                      \cup ShamtOpcodes \cup RegisterOpcodes
                      \cup DOMAIN RegisterPattern,
           y \in Nat \/ op \in ShamtOpcodes
    PROVE  Computes(op, x, y) \in Word
<1> DEFINE k == y % WordBits
<1>1. x \in Nat /\ k \in 0 .. WordBits - 1 /\ k \in 0 .. WordBits /\ k \in 0 .. 32
      /\ WordBits - k \in 0 .. WordBits /\ WordBits - (WordBits - k) = k
  <2>1. WordBits \in Nat /\ WordBits >= 1
    BY WidthFacts
  <2>2. k \in Nat /\ k < WordBits
    BY <2>1, Quotient
  <2> HIDE DEF k
  <2> QED BY <2>1, <2>2, WidthFacts DEF Word
<1>2. Pow2[k] \in Nat /\ Pow2[k] >= 1
  BY <1>1, Pow2Type
<1>3. 0 \in Word /\ 1 \in Word
  BY WidthFacts DEF Word
<1>4. CASE op \in {"add", "ADD", "ADDI"}
  <2>1. Computes(op, x, y) = (x + y) % Modulus
    BY <1>4 DEF Computes
  <2> QED BY <1>1, <2>1, ModulusType
<1>5. CASE op \in {"sub", "SUB"}
  <2>1. Computes(op, x, y) = (x - y) % Modulus
    BY <1>5 DEF Computes
  <2> QED BY <1>1, <2>1, ModulusType
<1>6. CASE op \in {"and", "AND", "ANDI"}
  <2>1. Computes(op, x, y) = Bitwise(And, x, y)
    BY <1>6 DEF Computes
  <2>2. y \in Nat
    BY <1>6, OperationNames
  <2> QED BY <1>1, <2>1, <2>2, Tables, BitwiseType
<1>7. CASE op \in {"or", "OR", "ORI"}
  <2>1. Computes(op, x, y) = Bitwise(Or, x, y)
    BY <1>7 DEF Computes
  <2>2. y \in Nat
    BY <1>7, OperationNames
  <2> QED BY <1>1, <2>1, <2>2, Tables, BitwiseType
<1>8. CASE op \in {"xor", "XOR", "XORI"}
  <2>1. Computes(op, x, y) = Bitwise(Xor, x, y)
    BY <1>8 DEF Computes
  <2>2. y \in Nat
    BY <1>8, OperationNames
  <2> QED BY <1>1, <2>1, <2>2, Tables, BitwiseType
<1>9. CASE op \in {"setlt", "SLT", "SLTI"}
  <2>1. Computes(op, x, y) = Bool(Signed(x) < Signed(y))
    BY <1>9 DEF Computes
  <2> QED BY <1>3, <2>1 DEF Bool
<1>10. CASE op \in {"setult", "SLTU", "SLTIU"}
  <2>1. Computes(op, x, y) = Bool(x < y)
    BY <1>10 DEF Computes
  <2> QED BY <1>3, <2>1 DEF Bool
<1>11. CASE op \in {"shl", "SLL", "SLLI"}
  <2>1. Computes(op, x, y) = (x * Pow2[k]) % Modulus
    BY <1>11 DEF Computes
  <2>2. x * Pow2[k] \in Int
    BY <1>1, <1>2
  <2> QED BY <2>1, <2>2, ModulusType
<1>12. CASE op \in {"srl", "SRL", "SRLI"}
  <2>1. Computes(op, x, y) = x \div Pow2[k]
    BY <1>12 DEF Computes
  <2> DEFINE p == Pow2[k]
             q == x \div p
             r == x % p
  <2>2. q \in Nat /\ r \in Nat /\ x = p * q + r
    <3>1. p \in Nat /\ p >= 1 /\ x \in Int /\ x >= 0
      BY <1>1, <1>2
    <3> HIDE DEF p
    <3> QED BY <3>1, Quotient
  <2> HIDE DEF p, q, r
  <2>3. q <= x
    <3>1. p * q >= q
      BY <1>2, <2>2 DEF p
    <3>2. p * q \in Nat
      BY <1>2, <2>2 DEF p
    <3> QED BY <2>2, <3>1, <3>2
  <2>4. q \in Word
    BY <2>2, <2>3, WidthFacts DEF Word
  <2> QED BY <2>1, <2>4 DEF p, q
<1>13. CASE op \in {"sra", "SRA", "SRAI"}
  <2>1. Computes(op, x, y) = (Signed(x) \div Pow2[k]) % Modulus
    BY <1>13 DEF Computes
  <2>2. Signed(x) \div Pow2[k] \in Int
    BY <1>2, SignedType, Quotient
  <2> QED BY <2>1, <2>2, ModulusType
<1>14. CASE op = "rotl"
  <2>1. Computes(op, x, y) =
          ((x * Pow2[k]) % Modulus) + (x \div Pow2[WordBits - k])
    BY <1>14 DEF Computes
  <2> QED BY <1>1, <2>1, Shifts
<1>15. CASE op = "rotr"
  <2>1. Computes(op, x, y) =
          (x \div Pow2[k]) + ((x * Pow2[WordBits - k]) % Modulus)
    BY <1>15 DEF Computes
  <2> DEFINE s == WordBits - k
             up == (x * Pow2[s]) % Modulus
             down == x \div Pow2[WordBits - s]
  <2>2. s \in 0 .. WordBits
    BY <1>1
  <2>3. up + down \in Word /\ down \in Nat /\ up \in Nat
    <3>1. Modulus \in Nat /\ Modulus >= 1 /\ x * Pow2[s] \in Int
      BY <1>1, <2>2, WidthFacts, Shifts
    <3> HIDE DEF s
    <3> QED BY <2>2, <3>1, Shifts, Quotient
  <2>4. down = x \div Pow2[k]
    BY <1>1
  <2>5. down + up = up + down
    <3> HIDE DEF up, down
    <3> QED BY <2>3
  <2> QED BY <2>1, <2>3, <2>4, <2>5
<1>16. CASE op \in {"store", "SW"}
  <2>1. Computes(op, x, y) = (5 * x + y) % Modulus
    BY <1>16 DEF Computes
  <2> QED BY <1>1, <2>1, ModulusType
<1> QED BY <1>4, <1>5, <1>6, <1>7, <1>8, <1>9, <1>10, <1>11, <1>12, <1>13,
           <1>14, <1>15, <1>16, OperationNames

(* Contents of the argument registers.                                     *)
Registers == [1 .. 2 -> Inputs]

(* Sign extension of the low bits gives a word.                            *)
LEMMA SignextendedWord ==
    \A x \in Int : \A bits \in 1 .. 32 : Signextended(x, bits) \in Word
<1> SUFFICES ASSUME NEW x \in Int, NEW bits \in 1 .. 32
             PROVE  Signextended(x, bits) \in Word
  OBVIOUS
<1>1. Pow2[bits] \in Nat /\ Pow2[bits] >= 1
  <2>1. bits \in 0 .. 32
    OBVIOUS
  <2> QED BY <2>1, Pow2Type
<1> DEFINE low == x % Pow2[bits]
           y == IF low < Pow2[bits - 1] THEN low ELSE low - Pow2[bits]
<1>2. low \in Int
  BY <1>1, Quotient
<1> HIDE DEF low
<1>3. y \in Int
  BY <1>1, <1>2
<1>4. Signextended(x, bits) = y % Modulus
  BY DEF Signextended, low
<1> HIDE DEF y
<1> QED BY <1>3, <1>4, ModulusType

(* A node computes a word from words.                                      *)
LEMMA NodeValueType ==
    ASSUME NEW s \in Terms, NEW in \in Registers, NEW a, DOMAIN a = DOMAIN s.kids,
           \A i \in DOMAIN a : a[i] \in Word \cup {Poison}
    PROVE  NodeValue(s, a, in) \in Word \cup {Poison}
<1>0. s.c \in Int /\ Modulus \in Nat /\ Modulus >= 1 /\ ImmBits \in 1 .. 32 /\ 0 \in Word
  <2>1. ImmBits \in 1 .. 32
    BY WidthFacts, WidthAssumption
  <2>2. Modulus \in Nat /\ Modulus >= 1 /\ 0 \in Word
    BY WidthFacts DEF Word
  <2> QED BY <2>1, <2>2, TermShape
<1>1. CASE s.op \in {"register", "X0", "constant", "tglobaladdr", "texternalsym"}
  <2>1. s.c % Modulus \in Word
    BY <1>0, ModulusType
  <2>2. CASE s.op = "register"
    BY <2>2, Arity, WordsAssumption DEF NodeValue, Registers
  <2>3. CASE s.op = "X0"
    BY <1>0, <2>3 DEF NodeValue
  <2>4. CASE s.op \in {"constant", "tglobaladdr", "texternalsym"}
    BY <2>1, <2>4 DEF NodeValue
  <2> QED BY <1>1, <2>2, <2>3, <2>4
<1>2. CASE s.op \notin {"register", "X0", "constant", "tglobaladdr", "texternalsym"}
  <2> DEFINE Stuck == \/ s.op \in Unvalued \/ DOMAIN a = {}
                      \/ \E i \in DOMAIN a : a[i] = Poison
                      \/ s.op \in DOMAIN ShamtPattern /\ a[2] >= WordBits
  <2>1. NodeValue(s, a, in) =
          IF Stuck THEN Poison
          ELSE CASE s.op = "sign_extend_inreg" -> Signextended(a[1], s.c)
                 [] s.op \in {"load", "LW"} -> Memory[a[1]]
                 [] s.op \in {"call", "PseudoCALL"} ->
                        Returned(a[1], a[2], a[3])
                 [] s.op \in Imm12Opcodes ->
                        Computes(s.op, a[1], Signextended(s.c, ImmBits))
                 [] s.op \in ShamtOpcodes -> Computes(s.op, a[1], s.c)
                 [] OTHER -> Computes(s.op, a[1], a[2])
    BY <1>2 DEF NodeValue
  <2>2. SUFFICES ASSUME ~Stuck PROVE NodeValue(s, a, in) \in Word
    BY <2>1
  <2>3. s.op \notin Unvalued /\ \A i \in DOMAIN a : a[i] \in Word
    BY <2>2
  <2>4. DOMAIN a # {}
    BY <2>2
  <2>5. NodeValue(s, a, in) =
          CASE s.op = "sign_extend_inreg" -> Signextended(a[1], s.c)
            [] s.op \in {"load", "LW"} -> Memory[a[1]]
            [] s.op \in {"call", "PseudoCALL"} -> Returned(a[1], a[2], a[3])
            [] s.op \in Imm12Opcodes ->
                   Computes(s.op, a[1], Signextended(s.c, ImmBits))
            [] s.op \in ShamtOpcodes -> Computes(s.op, a[1], s.c)
            [] OTHER -> Computes(s.op, a[1], a[2])
    BY <2>1, <2>2
  <2> HIDE DEF Stuck
  <2>6. \A w \in Word : w \in Nat /\ w \in Int
    BY <1>0 DEF Word
  <2>7. CASE s.op = "sign_extend_inreg"
    <3>1. DOMAIN a = 1 .. 1 /\ s.c \in 1 .. 32
      BY <2>7, Arity, WidthFacts
    <3>2. a[1] \in Int
      BY <2>3, <2>6, <3>1
    <3> QED BY <2>5, <2>7, <3>1, <3>2, SignextendedWord, OperationNames
  <2>8. CASE s.op \in {"load", "LW"}
    <3>1. a[1] \in Word
      BY <2>3, <2>8, Arity
    <3> QED BY <2>5, <2>8, <3>1, WordsAssumption, OperationNames
  <2>9. CASE s.op \in {"call", "PseudoCALL"}
    <3>1. a[1] \in Int /\ a[2] \in Int /\ a[3] \in Int
      BY <2>3, <2>6, <2>9, Arity
    <3>2. a[1] * a[2] + a[3] \in Int
      BY <3>1
    <3>3. Returned(a[1], a[2], a[3]) \in Word
      BY <3>2, ModulusType DEF Returned
    <3> QED BY <2>5, <2>9, <3>3, OperationNames
  <2>10. CASE s.op \in Imm12Opcodes
    <3>1. a[1] \in Word
      BY <2>3, <2>10, Arity
    <3>2. Signextended(s.c, ImmBits) \in Nat /\ Signextended(s.c, ImmBits) \in Int
      BY <1>0, <2>6, SignextendedWord
    <3>3. Computes(s.op, a[1], Signextended(s.c, ImmBits)) \in Word
      BY <2>10, <3>1, <3>2, ComputesWord
    <3> QED BY <2>5, <2>10, <3>3, OperationNames
  <2>11. CASE s.op \in ShamtOpcodes
    <3>1. a[1] \in Word
      BY <2>3, <2>11, Arity
    <3>2. Computes(s.op, a[1], s.c) \in Word
      BY <1>0, <2>11, <3>1, ComputesWord
    <3> QED BY <2>5, <2>11, <3>2, OperationNames
  <2>12. CASE s.op \in {"rotl", "rotr", "store", "SW"} \cup RegisterOpcodes
                        \cup DOMAIN RegisterPattern
    <3>1. a[1] \in Word /\ a[2] \in Nat /\ a[2] \in Int
      BY <2>3, <2>4, <2>6, <2>12, Arity
    <3>2. Computes(s.op, a[1], a[2]) \in Word
      BY <2>12, <3>1, ComputesWord
    <3> QED BY <2>5, <2>12, <3>2, OperationNames
  <2> QED BY <1>2, <2>3, <2>7, <2>8, <2>9, <2>10, <2>11, <2>12, Arity
<1> QED BY <1>1, <1>2

(* A term has a word for value, or none.                                   *)
LEMMA ValueType ==
    ASSUME NEW t \in Terms, NEW in \in Registers
    PROVE  Value(t, in) \in Word \cup {Poison}
<1> DEFINE P == {s \in Terms : Value(s, in) \in Word \cup {Poison}}
<1>1. ASSUME NEW s \in Terms, \A i \in DOMAIN s.kids : s.kids[i] \in P
      PROVE  s \in P
  <2> DEFINE a == [i \in DOMAIN s.kids |-> Value(s.kids[i], in)]
  <2>1. DOMAIN a = DOMAIN s.kids /\ \A i \in DOMAIN a : a[i] \in Word \cup {Poison}
    BY <1>1
  <2>2. Value(s, in) = NodeValue(s, a, in)
    BY ValueUnfold
  <2> HIDE DEF a
  <2> QED BY <2>1, <2>2, NodeValueType
<1>2. Terms \subseteq P
  <2> HIDE DEF P
  <2> QED BY <1>1, TermInduct
<1> QED BY <1>2

TwoOperands == {"rotl", "rotr", "store", "SW"} \cup RegisterOpcodes
               \cup DOMAIN RegisterPattern

(* Nodes with two operands that are given a value.                         *)
LEMMA TwoOperandsValue ==
    ASSUME NEW t \in Terms, NEW in, t.op \in TwoOperands, DOMAIN t.kids = 1 .. 2
    PROVE  LET x == Value(t.kids[1], in)
               y == Value(t.kids[2], in)
           IN  Value(t, in) =
                 IF \/ x = Poison \/ y = Poison
                    \/ t.op \in DOMAIN ShamtPattern /\ y >= WordBits
                 THEN Poison ELSE Computes(t.op, x, y)
<1> DEFINE a == [i \in DOMAIN t.kids |-> Value(t.kids[i], in)]
<1>1. Value(t, in) = NodeValue(t, a, in)
  BY ValueUnfold
<1>2. /\ a[1] = Value(t.kids[1], in) /\ a[2] = Value(t.kids[2], in)
      /\ DOMAIN a = 1 .. 2
  OBVIOUS
<1> HIDE DEF a
<1>3. /\ DOMAIN a # {}
      /\ (\E i \in DOMAIN a : a[i] = Poison) <=> a[1] = Poison \/ a[2] = Poison
  <2>1. 1 .. 2 = {1, 2}
    OBVIOUS
  <2> HIDE DEF Poison
  <2> QED BY <1>2, <2>1
<1>4. /\ t.op \notin {"register", "X0", "constant", "tglobaladdr", "texternalsym"}
      /\ t.op \notin Unvalued
      /\ t.op \notin {"sign_extend_inreg", "load", "LW", "call", "PseudoCALL"}
                     \cup Imm12Opcodes \cup ShamtOpcodes
  BY OperationNames DEF TwoOperands, Unvalued, BitOperations
<1>5. NodeValue(t, a, in) =
        IF \/ a[1] = Poison \/ a[2] = Poison
           \/ t.op \in DOMAIN ShamtPattern /\ a[2] >= WordBits
        THEN Poison ELSE Computes(t.op, a[1], a[2])
  <2> HIDE DEF Poison
  <2> QED BY <1>3, <1>4 DEF NodeValue
<1> QED BY <1>1, <1>2, <1>5

(* The value of a term with two operands.                                  *)
LEMMA BinaryValue ==
    ASSUME NEW op \in TwoOperands, NEW x, NEW y, NEW in, Binary(op, x, y) \in Terms
    PROVE  /\ x \in Terms /\ y \in Terms
           /\ Value(Binary(op, x, y), in) =
                IF \/ Value(x, in) = Poison \/ Value(y, in) = Poison
                   \/ op \in DOMAIN ShamtPattern /\ Value(y, in) >= WordBits
                THEN Poison ELSE Computes(op, Value(x, in), Value(y, in))
<1> DEFINE t == Binary(op, x, y)
<1>1. /\ t.op = op /\ DOMAIN t.kids = 1 .. 2
      /\ t.kids[1] = x /\ t.kids[2] = y
  BY DEF Binary, T
<1> HIDE DEF t
<1>2. t \in Terms
  BY DEF t
<1>3. x \in Terms /\ y \in Terms
  BY <1>1, <1>2, TermShape
<1>4. Value(t, in) =
        IF \/ Value(x, in) = Poison \/ Value(y, in) = Poison
           \/ op \in DOMAIN ShamtPattern /\ Value(y, in) >= WordBits
        THEN Poison ELSE Computes(op, Value(x, in), Value(y, in))
  <2> HIDE DEF Poison
  <2> QED BY <1>1, <1>2, TwoOperandsValue
<1> QED BY <1>3, <1>4 DEF t

(* Constants and X0.                                                       *)
LEMMA LeafValue ==
    ASSUME NEW t \in Terms, NEW in
    PROVE  /\ t.op = "constant" => Value(t, in) = t.c % Modulus
           /\ t.op = "X0" => Value(t, in) = 0
BY ValueUnfold DEF NodeValue

(* The value of a constant.                                                *)
LEMMA ConstValue ==
    ASSUME NEW c, NEW in, Const(c) \in Terms
    PROVE  Value(Const(c), in) = c % Modulus
BY LeafValue DEF Const, T

(* The two shifts of a rotation, by amounts a and b that are 0 or add up   *)
(* to WordBits.                                                            *)
LEMMA RotationValue ==
    ASSUME NEW x, NEW y, NEW there \in {"shl", "srl"}, NEW back \in {"shl", "srl"},
           Rotation(x, y, there, back) \in Terms, NEW in \in Registers,
           Value(x, in) # Poison, Value(y, in) # Poison
    PROVE  LET n == Value(y, in) % WordBits
               m == IF n = 0 THEN 0 ELSE WordBits - n
           IN  /\ Value(x, in) \in Word /\ Value(y, in) \in Word
               /\ Value(Rotation(x, y, there, back), in) =
                    Bitwise(Or, Computes(there, Value(x, in), n),
                                Computes(back, Value(x, in), m))
<1> DEFINE Mask == Const(WordBits - 1)
           minus == Binary("sub", Const(0), y)
           A == Binary("and", y, Mask)
           B == Binary("and", minus, Mask)
           left == Binary(there, x, A)
           right == Binary(back, x, B)
           vx == Value(x, in)
           vy == Value(y, in)
           n == vy % WordBits
           m == IF n = 0 THEN 0 ELSE WordBits - n
<1>0. /\ {"and", "or", "sub", "shl", "srl"} \subseteq TwoOperands
      /\ {"and", "or", "sub"} \cap DOMAIN ShamtPattern = {}
      /\ "shl" \in DOMAIN ShamtPattern /\ "srl" \in DOMAIN ShamtPattern
  BY OperationNames DEF TwoOperands
<1>1. Rotation(x, y, there, back) = Binary("or", left, right)
  BY DEF Rotation
<1> HIDE DEF Poison, A, B, left, right, minus, Mask
<1>2. /\ left \in Terms /\ right \in Terms
      /\ Value(Rotation(x, y, there, back), in) =
           IF Value(left, in) = Poison \/ Value(right, in) = Poison
           THEN Poison ELSE Computes("or", Value(left, in), Value(right, in))
  BY <1>0, <1>1, BinaryValue
<1>3. /\ x \in Terms /\ A \in Terms /\ B \in Terms
      /\ Value(left, in) =
           IF Value(x, in) = Poison \/ Value(A, in) = Poison \/ Value(A, in) >= WordBits
           THEN Poison ELSE Computes(there, Value(x, in), Value(A, in))
      /\ Value(right, in) =
           IF Value(x, in) = Poison \/ Value(B, in) = Poison \/ Value(B, in) >= WordBits
           THEN Poison ELSE Computes(back, Value(x, in), Value(B, in))
  BY <1>0, <1>2, BinaryValue DEF left, right
<1>4. /\ y \in Terms /\ Mask \in Terms /\ minus \in Terms
      /\ Value(A, in) =
           IF Value(y, in) = Poison \/ Value(Mask, in) = Poison
           THEN Poison ELSE Computes("and", Value(y, in), Value(Mask, in))
      /\ Value(B, in) =
           IF Value(minus, in) = Poison \/ Value(Mask, in) = Poison
           THEN Poison ELSE Computes("and", Value(minus, in), Value(Mask, in))
  BY <1>0, <1>3, BinaryValue DEF A, B
<1>5. /\ Const(0) \in Terms
      /\ Value(minus, in) =
           IF Value(Const(0), in) = Poison \/ Value(y, in) = Poison
           THEN Poison ELSE Computes("sub", Value(Const(0), in), Value(y, in))
  BY <1>0, <1>4, BinaryValue DEF minus
<1>6. vx \in Word /\ vy \in Word /\ \A w \in Word : w # Poison /\ w \in Int
  <2>1. vx \in Word /\ vy \in Word
    BY <1>3, <1>4, ValueType
  <2>2. \A w \in Word : w # Poison /\ w \in Int
    BY WidthFacts DEF Word, Poison
  <2> QED BY <2>1, <2>2
<1>7. Value(Mask, in) = WordBits - 1 /\ Value(Const(0), in) = 0
  <2>1. /\ WordBits - 1 \in Int /\ 0 <= WordBits - 1 /\ WordBits - 1 <= WordBits
        /\ 0 \in Int /\ 0 <= WordBits /\ 0 <= 0
    BY WidthFacts
  <2>2. (WordBits - 1) % Modulus = WordBits - 1 /\ 0 % Modulus = 0
    BY <2>1, SmallWords
  <2> QED BY <1>4, <1>5, <2>2, ConstValue DEF Mask
<1>8. /\ WordBits - 1 # Poison /\ 0 # Poison
  BY WidthFacts DEF Poison
<1> HIDE DEF vx, vy
<1>9. Value(minus, in) = (0 - vy) % Modulus
  <2>1. Value(minus, in) = Computes("sub", 0, vy)
    BY <1>5, <1>6, <1>7, <1>8 DEF vy
  <2> QED BY <2>1 DEF Computes
<1>10. (0 - vy) % Modulus \in Word
  <2>1. 0 - vy \in Int
    BY <1>6
  <2> QED BY <2>1, ModulusType
<1>11. /\ Value(A, in) = Bitwise(And, vy, WordBits - 1)
       /\ Value(B, in) = Bitwise(And, (0 - vy) % Modulus, WordBits - 1)
  <2>1. /\ Value(A, in) = Computes("and", vy, WordBits - 1)
        /\ Value(B, in) = Computes("and", (0 - vy) % Modulus, WordBits - 1)
    BY <1>4, <1>6, <1>7, <1>8, <1>9, <1>10 DEF vy
  <2> QED BY <2>1 DEF Computes
<1>12. /\ Value(A, in) = n /\ Value(B, in) = m
       /\ n \in 0 .. WordBits - 1 /\ m \in 0 .. WordBits - 1
  <2> DEFINE z == ((0 - vy) % Modulus) % WordBits
  <2>1. /\ n \in 0 .. WordBits - 1 /\ Value(A, in) = n /\ Value(B, in) = z
        /\ z = m
    BY <1>6, <1>11, Amounts
  <2> HIDE DEF n, z
  <2>2. m \in 0 .. WordBits - 1
    BY <2>1, WidthFacts
  <2> QED BY <2>1, <2>2
<1> HIDE DEF n, m
<1>13. n # Poison /\ m # Poison /\ ~ (n >= WordBits) /\ ~ (m >= WordBits)
       /\ n \in Nat /\ m \in Nat /\ n \in Int /\ m \in Int
  BY <1>12, WidthFacts DEF Poison
<1>14. /\ Value(left, in) = Computes(there, vx, n)
       /\ Value(right, in) = Computes(back, vx, m)
  BY <1>3, <1>6, <1>12, <1>13 DEF vx
<1>15. /\ Computes(there, vx, n) \in Word /\ Computes(back, vx, m) \in Word
  <2>1. {there, back} \subseteq DOMAIN RegisterPattern
    BY OperationNames
  <2> QED BY <1>6, <1>13, <2>1, ComputesWord
<1>16. Value(Rotation(x, y, there, back), in) =
         Computes("or", Computes(there, vx, n), Computes(back, vx, m))
  BY <1>2, <1>6, <1>14, <1>15
<1>17. Value(Rotation(x, y, there, back), in) =
         Bitwise(Or, Computes(there, vx, n), Computes(back, vx, m))
  BY <1>16 DEF Computes
<1> QED BY <1>6, <1>17 DEF vx, vy, n, m

(* Two shifts and an OR are the rotation.                                  *)
LEMMA Rotated ==
    ASSUME NEW x \in Word, NEW y \in Word
    PROVE  LET n == y % WordBits
               m == IF n = 0 THEN 0 ELSE WordBits - n
           IN  /\ Bitwise(Or, Computes("shl", x, n), Computes("srl", x, m))
                    = Computes("rotl", x, y)
               /\ Bitwise(Or, Computes("srl", x, n), Computes("shl", x, m))
                    = Computes("rotr", x, y)
<1> DEFINE n == y % WordBits
           m == IF n = 0 THEN 0 ELSE WordBits - n
           Up(k) == (x * Pow2[k]) % Modulus
           Down(k) == x \div Pow2[k]
<1>1. n \in 0 .. WordBits - 1
  BY Amounts
<1> HIDE DEF n
<1>2. /\ m \in 0 .. WordBits - 1 /\ n \in Int /\ 0 <= n /\ n < WordBits /\ n <= WordBits
      /\ m \in Int /\ 0 <= m /\ m < WordBits /\ m <= WordBits
  BY <1>1, WidthFacts
<1>3. n % WordBits = n /\ m % WordBits = m
  BY <1>2, SmallWords
<1>4. /\ Computes("shl", x, n) = Up(n) /\ Computes("shl", x, m) = Up(m)
      /\ Computes("srl", x, n) = Down(n) /\ Computes("srl", x, m) = Down(m)
  <2> HIDE DEF m
  <2> QED BY <1>3 DEF Computes
<1>5. /\ Computes("rotl", x, y) = Up(n) + Down(WordBits - n)
      /\ Computes("rotr", x, y) = Down(n) + Up(WordBits - n)
  BY DEF Computes, n
<1>6. ASSUME NEW s \in 0 .. WordBits
      PROVE  /\ Bitwise(Or, Up(s), Down(WordBits - s)) = Up(s) + Down(WordBits - s)
             /\ Bitwise(Or, Down(WordBits - s), Up(s)) = Up(s) + Down(WordBits - s)
             /\ Up(s) \in Nat /\ Down(WordBits - s) \in Nat
  <2>1. /\ Bitwise(Or, Up(s), Down(WordBits - s)) = Up(s) + Down(WordBits - s)
        /\ Bitwise(Or, Down(WordBits - s), Up(s)) = Up(s) + Down(WordBits - s)
    BY OrOfShifts
  <2>2. Pow2[s] \in Nat /\ x % Pow2[WordBits - s] \in Nat
        /\ Up(s) = Pow2[s] * (x % Pow2[WordBits - s]) /\ Down(WordBits - s) \in Nat
    BY Shifts
  <2>3. Pow2[s] * (x % Pow2[WordBits - s]) \in Nat
    BY <2>2
  <2> QED BY <2>1, <2>2, <2>3
<1>7. CASE n # 0
  <2>1. m = WordBits - n /\ n \in 0 .. WordBits /\ m \in 0 .. WordBits
        /\ WordBits - m = n
    BY <1>2, <1>7, WidthFacts
  <2>2. Bitwise(Or, Up(n), Down(m)) = Up(n) + Down(WordBits - n)
    <3> HIDE DEF m, Up, Down
    <3> QED BY <1>6, <2>1
  <2>3. /\ Bitwise(Or, Down(n), Up(m)) = Up(m) + Down(n)
        /\ Up(m) \in Nat /\ Down(n) \in Nat
    <3>1. Bitwise(Or, Down(WordBits - m), Up(m)) = Up(m) + Down(WordBits - m)
          /\ Up(m) \in Nat /\ Down(WordBits - m) \in Nat
      <4> HIDE DEF m, Up, Down
      <4> QED BY <1>6, <2>1
    <3> HIDE DEF m, Up, Down
    <3> QED BY <2>1, <3>1
  <2> HIDE DEF m, Up, Down
  <2>4. Up(m) + Down(n) = Down(n) + Up(WordBits - n)
    BY <2>1, <2>3
  <2> QED BY <1>4, <1>5, <2>2, <2>3, <2>4 DEF n, m
<1>8. CASE n = 0
  <2>1. x \in Nat /\ x < Modulus /\ Modulus \in Nat /\ Modulus >= 1 /\ m = 0
    BY <1>8, WidthFacts DEF Word
  <2>2. Up(0) = x /\ Down(0) = x
    BY <2>1, Pow2Unfold
  <2>3. Down(WordBits - 0) = 0 /\ Up(WordBits - 0) = 0
    <3>1. WordBits - 0 = WordBits
      BY WidthFacts
    <3>2. x = Modulus * 0 + x /\ x * Modulus = Modulus * x + 0 /\ 0 <= x /\ x \in Int
      BY <2>1
    <3>3. x \div Modulus = 0 /\ (x * Modulus) % Modulus = 0
      <4>1. (Modulus * 0 + x) \div Modulus = 0 /\ (Modulus * x + 0) % Modulus = 0
        BY <2>1, <3>2, Division
      <4> QED BY <3>2, <4>1
    <3> QED BY <3>1, <3>3 DEF Modulus
  <2>4. Bitwise(Or, x, x) = x
    BY OrSame
  <2> HIDE DEF m, Up, Down
  <2>5. /\ Computes("rotl", x, y) = x /\ Computes("rotr", x, y) = x
    BY <1>5, <1>8, <2>1, <2>2, <2>3
  <2> QED BY <1>4, <1>8, <2>1, <2>2, <2>4, <2>5 DEF n, m
<1> QED BY <1>7, <1>8

(* An operation that no instruction computes has no value to keep.         *)
LEMMA UnvaluedPoison ==
    ASSUME NEW t \in Terms, NEW in,
           \/ t.op \in Unvalued
           \/ /\ DOMAIN t.kids = {}
              /\ t.op \notin {"register", "X0", "constant", "tglobaladdr", "texternalsym"}
           \/ /\ t.op \notin {"register", "X0", "constant", "tglobaladdr", "texternalsym"}
              /\ \E i \in DOMAIN t.kids : Value(t.kids[i], in) = Poison
    PROVE  Value(t, in) = Poison
<1> DEFINE a == [i \in DOMAIN t.kids |-> Value(t.kids[i], in)]
<1>1. Value(t, in) = NodeValue(t, a, in)
  BY ValueUnfold
<1>2. t.op \notin {"register", "X0", "constant", "tglobaladdr", "texternalsym"}
  BY OperationNames DEF Unvalued, BitOperations
<1>3. \/ t.op \in Unvalued \/ DOMAIN a = {} \/ \E i \in DOMAIN a : a[i] = Poison
  <2> HIDE DEF Poison
  <2> QED OBVIOUS
<1> HIDE DEF a, Poison
<1> QED BY <1>1, <1>2, <1>3 DEF NodeValue

-----------------------------------------------------------------------------
(* Expansions.                                                             *)

(* SIGN_EXTEND_INREG by a mask and a subtraction, or by two shifts.        *)
LEMMA SignExtensionRefines ==
    ASSUME NEW t \in Terms, NEW in \in Registers, t.op = "sign_extend_inreg",
           Expansion(t) \in Terms
    PROVE  Refines(Expansion(t), t, in)
<1> SUFFICES ASSUME Value(t, in) # Poison
             PROVE  Value(Expansion(t), in) = Value(t, in)
  BY DEF Refines
<1> DEFINE x == t.kids[1]
           c == t.c
           w == Value(x, in)
<1>1. /\ DOMAIN t.kids = 1 .. 1 /\ x \in Terms /\ c \in 1 .. WordBits - 1
      /\ c \in 1 .. 32
  <2>1. DOMAIN t.kids = 1 .. 1 /\ c \in 1 .. WordBits - 1
    BY Arity
  <2>2. c \in 1 .. 32
    BY <2>1, WidthFacts
  <2> QED BY <2>1, <2>2, TermShape
<1>2. w # Poison /\ Value(t, in) = Signextended(w, c)
  <2> DEFINE a == [i \in DOMAIN t.kids |-> Value(t.kids[i], in)]
  <2>1. Value(t, in) = NodeValue(t, a, in) /\ a[1] = w /\ 1 \in DOMAIN a
    <3>1. Value(t, in) = NodeValue(t, a, in)
      BY ValueUnfold
    <3>2. a[1] = w /\ 1 \in DOMAIN a
      BY <1>1
    <3> QED BY <3>1, <3>2
  <2> HIDE DEF a, Poison
  <2>2. a[1] # Poison
    BY <2>1, OperationNames DEF NodeValue, Unvalued, BitOperations
  <2>3. NodeValue(t, a, in) = Signextended(a[1], t.c)
    BY <2>1, OperationNames DEF NodeValue, Unvalued, BitOperations
  <2> QED BY <2>1, <2>2, <2>3
<1>3. w \in Word /\ \A v \in Word : v # Poison /\ v \in Nat /\ v \in Int
  <2>1. w \in Word
    BY <1>1, <1>2, ValueType
  <2>2. \A v \in Word : v # Poison /\ v \in Nat /\ v \in Int
    BY WidthFacts DEF Word, Poison
  <2> QED BY <2>1, <2>2
<1>4. /\ {"and", "or", "sub", "shl", "sra"} \subseteq TwoOperands
      /\ {"and", "or", "sub"} \cap DOMAIN ShamtPattern = {}
      /\ "shl" \in DOMAIN ShamtPattern /\ "sra" \in DOMAIN ShamtPattern
      /\ 0 # Poison /\ 1 # Poison
  BY OperationNames DEF TwoOperands, Poison
<1>5. CASE c = 1
  <2> DEFINE low == Binary("and", x, Const(1))
  <2>1. Expansion(t) = Binary("sub", Const(0), low)
    BY <1>5, OperationNames DEF Expansion, BitOperations
  <2> HIDE DEF low, Poison
  <2>2. /\ Const(0) \in Terms /\ low \in Terms
        /\ Value(Expansion(t), in) =
             IF Value(Const(0), in) = Poison \/ Value(low, in) = Poison
             THEN Poison ELSE Computes("sub", Value(Const(0), in), Value(low, in))
    BY <1>4, <2>1, BinaryValue
  <2>3. /\ Const(1) \in Terms
        /\ Value(low, in) =
             IF w = Poison \/ Value(Const(1), in) = Poison
             THEN Poison ELSE Computes("and", w, Value(Const(1), in))
    BY <1>4, <2>2, BinaryValue DEF low
  <2>4. Value(Const(0), in) = 0 /\ Value(Const(1), in) = 1
    <3>1. 0 \in Int /\ 0 <= 0 /\ 0 <= WordBits /\ 1 \in Int /\ 0 <= 1 /\ 1 <= WordBits
      BY WidthFacts
    <3>2. 0 % Modulus = 0 /\ 1 % Modulus = 1
      BY <3>1, SmallWords
    <3> QED BY <2>2, <2>3, <3>2, ConstValue
  <2> HIDE DEF w
  <2>5. Value(low, in) = w % 2
    <3>1. Value(low, in) = Computes("and", w, 1)
      BY <1>2, <1>4, <2>3, <2>4
    <3>2. Value(low, in) = Bitwise(And, w, 1)
      BY <3>1 DEF Computes
    <3>3. Pow2[1] = 2 /\ 2 - 1 = 1
      <4>1. Pow2[0 + 1] = 2 * Pow2[0]
        BY Pow2Unfold
      <4> QED BY <4>1, Pow2Unfold
    <3>4. Bitwise(And, w, Pow2[1] - 1) = w % Pow2[1]
      <4>1. 1 \in 0 .. WordBits
        BY WidthFacts
      <4> QED BY <1>3, <4>1, AndMask
    <3> QED BY <3>2, <3>3, <3>4
  <2>6. w % 2 \in 0 .. 1
    BY <1>3
  <2>7. w % 2 # Poison
    BY <2>6 DEF Poison
  <2>8. Value(Expansion(t), in) = (0 - (w % 2)) % Modulus
    <3>1. Value(Expansion(t), in) = Computes("sub", 0, w % 2)
      BY <1>4, <2>2, <2>4, <2>5, <2>7
    <3> QED BY <3>1 DEF Computes
  <2>9. Signextended(w, 1) = (0 - (w % 2)) % Modulus
    <3>1. Pow2[1] = 2 /\ Pow2[1 - 1] = 1
      <4>1. Pow2[0 + 1] = 2 * Pow2[0] /\ 1 - 1 = 0
        BY Pow2Unfold
      <4> QED BY <4>1, Pow2Unfold
    <3>2. (IF w % 2 < 1 THEN w % 2 ELSE (w % 2) - 2) = 0 - (w % 2)
      BY <2>6
    <3> QED BY <3>1, <3>2 DEF Signextended
  <2> QED BY <1>2, <1>5, <2>8, <2>9
<1>6. CASE c # 1
  <2> DEFINE away == Const(WordBits - c)
             up == Binary("shl", x, away)
             s == WordBits - c
  <2>1. Expansion(t) = Binary("sra", up, away)
    <3>1. c > 1
      BY <1>1, <1>6
    <3> QED BY <1>6, <3>1, OperationNames DEF Expansion, BitOperations
  <2> HIDE DEF up, away, Poison
  <2>2. /\ up \in Terms /\ away \in Terms
        /\ Value(Expansion(t), in) =
             IF \/ Value(up, in) = Poison \/ Value(away, in) = Poison
                \/ Value(away, in) >= WordBits
             THEN Poison ELSE Computes("sra", Value(up, in), Value(away, in))
    BY <1>4, <2>1, BinaryValue
  <2>3. Value(up, in) =
             IF \/ w = Poison \/ Value(away, in) = Poison
                \/ Value(away, in) >= WordBits
             THEN Poison ELSE Computes("shl", w, Value(away, in))
    BY <1>4, <2>2, BinaryValue DEF up
  <2>4. /\ s \in Int /\ 0 <= s /\ s <= WordBits /\ s < WordBits /\ ~ (s >= WordBits)
        /\ s # Poison
    BY <1>1, WidthFacts DEF Poison
  <2>5. Value(away, in) = s /\ s % WordBits = s
    <3>1. s % Modulus = s /\ s % WordBits = s
      <4> HIDE DEF s
      <4> QED BY <2>4, SmallWords
    <3> QED BY <2>2, <3>1, ConstValue DEF away
  <2> HIDE DEF w, s
  <2>6. Value(up, in) = (w * Pow2[s]) % Modulus
    <3>1. Value(up, in) = Computes("shl", w, s)
      BY <1>2, <2>3, <2>4, <2>5
    <3> QED BY <2>5, <3>1 DEF Computes
  <2>7. (w * Pow2[s]) % Modulus \in Word
    <3>1. Pow2[s] \in Nat
      <4>1. s \in 0 .. 32
        BY <2>4, WidthFacts
      <4> QED BY <4>1, Pow2Type
    <3>2. w * Pow2[s] \in Int
      BY <1>3, <3>1
    <3> QED BY <3>2, ModulusType
  <2>8. Value(Expansion(t), in) =
          (Signed((w * Pow2[s]) % Modulus) \div Pow2[s]) % Modulus
    <3>1. Value(Expansion(t), in) = Computes("sra", (w * Pow2[s]) % Modulus, s)
      BY <1>3, <2>2, <2>4, <2>5, <2>6, <2>7
    <3> QED BY <2>5, <3>1 DEF Computes
  <2>9. Value(Expansion(t), in) = Signextended(w, c)
    BY <1>1, <1>3, <2>8, SignextendedByShifts DEF s
  <2> QED BY <1>2, <2>9
<1> QED BY <1>5, <1>6

(* ROTL and ROTR by two shifts.                                            *)
LEMMA RotateRefines ==
    ASSUME NEW t \in Terms, NEW in \in Registers, t.op \in {"rotl", "rotr"},
           Expansion(t) \in Terms
    PROVE  Refines(Expansion(t), t, in)
<1> SUFFICES ASSUME Value(t, in) # Poison
             PROVE  Value(Expansion(t), in) = Value(t, in)
  BY DEF Refines
<1> DEFINE x == t.kids[1]
           y == t.kids[2]
           vx == Value(x, in)
           vy == Value(y, in)
           n == vy % WordBits
           m == IF n = 0 THEN 0 ELSE WordBits - n
<1>1. DOMAIN t.kids = 1 .. 2 /\ t.op \in TwoOperands
  BY Arity DEF TwoOperands
<1>2. vx # Poison /\ vy # Poison /\ Value(t, in) = Computes(t.op, vx, vy)
  <2> HIDE DEF Poison
  <2> QED BY <1>1, TwoOperandsValue
<1>3. CASE t.op = "rotl"
  <2>1. Expansion(t) = Rotation(x, y, "shl", "srl")
    BY <1>3, OperationNames DEF Expansion, BitOperations
  <2> HIDE DEF Poison, x, y
  <2>2. /\ vx \in Word /\ vy \in Word
        /\ Value(Expansion(t), in) =
             Bitwise(Or, Computes("shl", vx, n), Computes("srl", vx, m))
    BY <1>2, <2>1, RotationValue
  <2> HIDE DEF vx, vy
  <2>3. Bitwise(Or, Computes("shl", vx, n), Computes("srl", vx, m))
          = Computes("rotl", vx, vy)
    BY <2>2, Rotated
  <2> QED BY <1>2, <1>3, <2>2, <2>3
<1>4. CASE t.op = "rotr"
  <2>1. Expansion(t) = Rotation(x, y, "srl", "shl")
    BY <1>4, OperationNames DEF Expansion, BitOperations
  <2> HIDE DEF Poison, x, y
  <2>2. /\ vx \in Word /\ vy \in Word
        /\ Value(Expansion(t), in) =
             Bitwise(Or, Computes("srl", vx, n), Computes("shl", vx, m))
    BY <1>2, <2>1, RotationValue
  <2> HIDE DEF vx, vy
  <2>3. Bitwise(Or, Computes("srl", vx, n), Computes("shl", vx, m))
          = Computes("rotr", vx, vy)
    BY <2>2, Rotated
  <2> QED BY <1>2, <1>4, <2>2, <2>3
<1> QED BY <1>3, <1>4

(* Every expansion: the others are of operations without a value.          *)
LEMMA ExpansionRefines ==
    ASSUME NEW t \in Terms, NEW in \in Registers, t.op \in ExpandOps,
           Expansion(t) \in Terms
    PROVE  Refines(Expansion(t), t, in)
<1>1. CASE t.op \in Unvalued
  BY <1>1, UnvaluedPoison DEF Refines
<1>2. CASE t.op \notin Unvalued
  <2>1. t.op \in {"sign_extend_inreg", "rotl", "rotr"}
    BY <1>2 DEF ExpandOps, Unvalued
  <2> QED BY <2>1, SignExtensionRefines, RotateRefines
<1> QED BY <1>1, <1>2

(* Each pattern computes what the node it is selected for does.            *)
LEMMA SameComputation ==
    ASSUME NEW x, NEW y
    PROVE  /\ \A op \in DOMAIN RegisterPattern :
                Computes(RegisterPattern[op], x, y) = Computes(op, x, y)
           /\ \A op \in DOMAIN Imm12Pattern :
                Computes(Imm12Pattern[op], x, y) = Computes(op, x, y)
           /\ \A op \in DOMAIN ShamtPattern :
                Computes(ShamtPattern[op], x, y) = Computes(op, x, y)
           /\ Computes("SW", x, y) = Computes("store", x, y)
<1>1. ASSUME NEW op \in DOMAIN RegisterPattern
      PROVE  Computes(RegisterPattern[op], x, y) = Computes(op, x, y)
  <2>1. \/ op = "add" /\ RegisterPattern[op] = "ADD"
        \/ op = "sub" /\ RegisterPattern[op] = "SUB"
        \/ op = "shl" /\ RegisterPattern[op] = "SLL"
        \/ op = "setlt" /\ RegisterPattern[op] = "SLT"
        \/ op = "setult" /\ RegisterPattern[op] = "SLTU"
        \/ op = "xor" /\ RegisterPattern[op] = "XOR"
        \/ op = "srl" /\ RegisterPattern[op] = "SRL"
        \/ op = "sra" /\ RegisterPattern[op] = "SRA"
        \/ op = "or" /\ RegisterPattern[op] = "OR"
        \/ op = "and" /\ RegisterPattern[op] = "AND"
    BY OperationNames DEF RegisterPattern
  <2> QED BY <2>1 DEF Computes
<1>2. ASSUME NEW op \in DOMAIN Imm12Pattern
      PROVE  Computes(Imm12Pattern[op], x, y) = Computes(op, x, y)
  <2>1. \/ op = "add" /\ Imm12Pattern[op] = "ADDI"
        \/ op = "setlt" /\ Imm12Pattern[op] = "SLTI"
        \/ op = "setult" /\ Imm12Pattern[op] = "SLTIU"
        \/ op = "xor" /\ Imm12Pattern[op] = "XORI"
        \/ op = "or" /\ Imm12Pattern[op] = "ORI"
        \/ op = "and" /\ Imm12Pattern[op] = "ANDI"
    BY OperationNames DEF Imm12Pattern
  <2> QED BY <2>1 DEF Computes
<1>3. ASSUME NEW op \in DOMAIN ShamtPattern
      PROVE  Computes(ShamtPattern[op], x, y) = Computes(op, x, y)
  <2>1. \/ op = "shl" /\ ShamtPattern[op] = "SLLI"
        \/ op = "srl" /\ ShamtPattern[op] = "SRLI"
        \/ op = "sra" /\ ShamtPattern[op] = "SRAI"
    BY OperationNames DEF ShamtPattern
  <2> QED BY <2>1 DEF Computes
<1>4. Computes("SW", x, y) = Computes("store", x, y)
  BY DEF Computes
<1> QED BY <1>1, <1>2, <1>3, <1>4

(* An instruction on two registers.                                        *)
LEMMA RegistersRefine ==
    ASSUME NEW t \in Terms, NEW in \in Registers,
           t.op \in DOMAIN RegisterPattern \cup {"store"},
           NEW op, op = IF t.op = "store" THEN "SW" ELSE RegisterPattern[t.op],
           T(op, 0, t.kids) \in Terms
    PROVE  Refines(T(op, 0, t.kids), t, in)
<1> DEFINE u == T(op, 0, t.kids)
<1>1. u \in Terms /\ u.op = op /\ u.kids = t.kids
  BY DEF T
<1> HIDE DEF u
<1>2. /\ op \in TwoOperands /\ op \notin DOMAIN ShamtPattern
      /\ t.op \in TwoOperands
      /\ t.op \notin {"register", "X0", "constant", "tglobaladdr", "texternalsym"}
  BY OperationNames DEF TwoOperands, RegisterPattern
<1>3. \A x, y : Computes(op, x, y) = Computes(t.op, x, y)
  BY SameComputation
<1>4. CASE DOMAIN t.kids = {}
  BY <1>2, <1>4, UnvaluedPoison DEF Refines
<1>5. CASE DOMAIN t.kids = 1 .. 2
  <2> DEFINE x == Value(t.kids[1], in)
             y == Value(t.kids[2], in)
  <2> HIDE DEF Poison
  <2>1. Value(t, in) = IF \/ x = Poison \/ y = Poison
                          \/ t.op \in DOMAIN ShamtPattern /\ y >= WordBits
                       THEN Poison ELSE Computes(t.op, x, y)
    BY <1>2, <1>5, TwoOperandsValue
  <2>2. Value(u, in) = IF x = Poison \/ y = Poison
                       THEN Poison ELSE Computes(op, x, y)
    BY <1>1, <1>2, <1>5, TwoOperandsValue
  <2>3. Refines(u, t, in)
    <3> HIDE DEF x, y
    <3> QED BY <1>3, <2>1, <2>2 DEF Refines
  <2> QED BY <2>3 DEF u
<1> QED BY <1>4, <1>5, Arity

(* What a node computes when none of its operands is in the way.           *)
LEMMA NodeValueOther ==
    ASSUME NEW t, NEW a, NEW in,
           t.op \notin {"register", "X0", "constant", "tglobaladdr", "texternalsym"}
                       \cup Unvalued,
           DOMAIN a # {}, ~ \E i \in DOMAIN a : a[i] = Poison,
           t.op \notin DOMAIN ShamtPattern
    PROVE  NodeValue(t, a, in) =
             CASE t.op = "sign_extend_inreg" -> Signextended(a[1], t.c)
               [] t.op \in {"load", "LW"} -> Memory[a[1]]
               [] t.op \in {"call", "PseudoCALL"} -> Returned(a[1], a[2], a[3])
               [] t.op \in Imm12Opcodes ->
                      Computes(t.op, a[1], Signextended(t.c, ImmBits))
               [] t.op \in ShamtOpcodes -> Computes(t.op, a[1], t.c)
               [] OTHER -> Computes(t.op, a[1], a[2])
<1> HIDE DEF Poison
<1> DEFINE Stuck == \/ t.op \in Unvalued \/ DOMAIN a = {}
                    \/ \E i \in DOMAIN a : a[i] = Poison
                    \/ t.op \in DOMAIN ShamtPattern /\ a[2] >= WordBits
<1>1. NodeValue(t, a, in) =
        IF Stuck THEN Poison
        ELSE CASE t.op = "sign_extend_inreg" -> Signextended(a[1], t.c)
               [] t.op \in {"load", "LW"} -> Memory[a[1]]
               [] t.op \in {"call", "PseudoCALL"} -> Returned(a[1], a[2], a[3])
               [] t.op \in Imm12Opcodes ->
                      Computes(t.op, a[1], Signextended(t.c, ImmBits))
               [] t.op \in ShamtOpcodes -> Computes(t.op, a[1], t.c)
               [] OTHER -> Computes(t.op, a[1], a[2])
  BY DEF NodeValue
<1>2. ~Stuck
  OBVIOUS
<1> HIDE DEF Stuck
<1> QED BY <1>1, <1>2

(* An instruction with an immediate.                                       *)
LEMMA ImmediateNode ==
    ASSUME NEW u \in Terms, NEW in, u.op \in Imm12Opcodes \cup ShamtOpcodes,
           NEW x, x = Value(u.kids[1], in), x # Poison
    PROVE  Value(u, in) = Computes(u.op, x, IF u.op \in Imm12Opcodes
                                            THEN Signextended(u.c, ImmBits) ELSE u.c)
<1> DEFINE a == [i \in DOMAIN u.kids |-> Value(u.kids[i], in)]
<1>1. DOMAIN u.kids = 1 .. 1
  BY Arity
<1>2. Value(u, in) = NodeValue(u, a, in)
  BY ValueUnfold
<1>3. a[1] = x /\ DOMAIN a = {1}
  BY <1>1
<1> HIDE DEF a, Poison
<1>4. ~ (\E i \in DOMAIN a : a[i] = Poison) /\ DOMAIN a # {}
  BY <1>3
<1>5. /\ u.op \notin {"register", "X0", "constant", "tglobaladdr", "texternalsym"}
                     \cup Unvalued
      /\ u.op \notin DOMAIN ShamtPattern
      /\ u.op \notin {"sign_extend_inreg", "load", "LW", "call", "PseudoCALL"}
      /\ u.op \in ShamtOpcodes <=> u.op \notin Imm12Opcodes
  BY OperationNames DEF Unvalued, BitOperations
<1>6. NodeValue(u, a, in) =
             CASE u.op = "sign_extend_inreg" -> Signextended(a[1], u.c)
               [] u.op \in {"load", "LW"} -> Memory[a[1]]
               [] u.op \in {"call", "PseudoCALL"} -> Returned(a[1], a[2], a[3])
               [] u.op \in Imm12Opcodes ->
                      Computes(u.op, a[1], Signextended(u.c, ImmBits))
               [] u.op \in ShamtOpcodes -> Computes(u.op, a[1], u.c)
               [] OTHER -> Computes(u.op, a[1], a[2])
  BY <1>4, <1>5, NodeValueOther
<1>7. NodeValue(u, a, in) =
        Computes(u.op, a[1], IF u.op \in Imm12Opcodes
                             THEN Signextended(u.c, ImmBits) ELSE u.c)
  BY <1>5, <1>6
<1> QED BY <1>2, <1>3, <1>7

(* An immediate in place of a constant in a register.                      *)
LEMMA ImmediateRefines ==
    ASSUME NEW t \in Terms, NEW in \in Registers, NEW op, NEW c,
           c = t.kids[2].c, t.kids[2].op = "constant",
           \/ FoldsImm12(t) /\ op = Imm12Pattern[t.op]
           \/ FoldsShamt(t) /\ op = ShamtPattern[t.op],
           T(op, c, <<t.kids[1]>>) \in Terms
    PROVE  Refines(T(op, c, <<t.kids[1]>>), t, in)
<1> DEFINE u == T(op, c, <<t.kids[1]>>)
           x == Value(t.kids[1], in)
           y == Value(t.kids[2], in)
<1>1. /\ u \in Terms /\ u.op = op /\ u.c = c /\ u.kids = <<t.kids[1]>>
      /\ DOMAIN u.kids = 1 .. 1 /\ u.kids[1] = t.kids[1]
  BY DEF T
<1> HIDE DEF u
<1>2. /\ t.op \in TwoOperands
      /\ t.op \notin {"register", "X0", "constant", "tglobaladdr", "texternalsym"}
      /\ t.op \in DOMAIN RegisterPattern
  BY OperationNames DEF TwoOperands, FoldsImm12, FoldsShamt
<1>3. CASE DOMAIN t.kids = {}
  BY <1>2, <1>3, UnvaluedPoison DEF Refines
<1>4. CASE DOMAIN t.kids = 1 .. 2
  <2>1. t.kids[2] \in Terms /\ c \in Int
    BY <1>4, TermShape
  <2>2. y = c % Modulus
    BY <2>1, LeafValue
  <2>3. Value(t, in) = IF \/ x = Poison \/ y = Poison
                          \/ t.op \in DOMAIN ShamtPattern /\ y >= WordBits
                       THEN Poison ELSE Computes(t.op, x, y)
    <3> HIDE DEF Poison
    <3> QED BY <1>2, <1>4, TwoOperandsValue
  <2>4. SUFFICES ASSUME Value(t, in) # Poison PROVE Value(u, in) = Value(t, in)
    BY DEF Refines, u
  <2>5. x # Poison /\ Value(t, in) = Computes(t.op, x, y)
    <3> HIDE DEF Poison, x, y
    <3> QED BY <2>3, <2>4
  <2> HIDE DEF x, y, Poison
  <2>6. CASE FoldsImm12(t) /\ op = Imm12Pattern[t.op]
    <3>1. op \in Imm12Opcodes /\ t.op \in DOMAIN Imm12Pattern /\ simm12(c)
      BY <2>6 DEF FoldsImm12, Imm12Opcodes
    <3>2. Value(u, in) = Computes(op, x, Signextended(c, ImmBits))
      BY <1>1, <2>5, <3>1, ImmediateNode DEF x
    <3>3. Signextended(c, ImmBits) = y
      BY <2>1, <2>2, <3>1, ImmediateValue
    <3>4. Computes(op, x, y) = Computes(t.op, x, y)
      BY <2>6, <3>1, SameComputation
    <3> QED BY <2>5, <3>2, <3>3, <3>4
  <2>7. CASE FoldsShamt(t) /\ op = ShamtPattern[t.op]
    <3>1. /\ op \in ShamtOpcodes /\ op \notin Imm12Opcodes
          /\ t.op \in DOMAIN ShamtPattern /\ shamt(c)
      BY <2>7, OperationNames DEF FoldsShamt, ShamtOpcodes, ShamtPattern
    <3>2. Value(u, in) = Computes(op, x, c)
      BY <1>1, <2>5, <3>1, ImmediateNode DEF x
    <3>3. y = c
      BY <2>1, <2>2, <3>1, SmallWords, WidthFacts DEF shamt
    <3>4. Computes(op, x, y) = Computes(t.op, x, y)
      BY <2>7, <3>1, SameComputation
    <3> QED BY <2>5, <3>2, <3>3, <3>4
  <2> QED BY <2>6, <2>7
<1> QED BY <1>2, <1>3, <1>4, Arity

(* A constant becomes ADDI of X0.                                          *)
LEMMA ConstantRefines ==
    ASSUME NEW t \in Terms, NEW in \in Registers, t.op = "constant", simm12(t.c),
           T("ADDI", t.c, <<T("X0", 0, <<>>)>>) \in Terms
    PROVE  Refines(T("ADDI", t.c, <<T("X0", 0, <<>>)>>), t, in)
<1> DEFINE z == T("X0", 0, <<>>)
           u == T("ADDI", t.c, <<z>>)
           w == t.c % Modulus
<1>1. /\ u \in Terms /\ u.op = "ADDI" /\ u.c = t.c
      /\ DOMAIN u.kids = 1 .. 1 /\ u.kids[1] = z /\ z.op = "X0"
  BY DEF T
<1> HIDE DEF u, z
<1>2. z \in Terms /\ t.c \in Int
  BY <1>1, TermShape
<1>3. Value(z, in) = 0 /\ Value(t, in) = w
  BY <1>1, <1>2, LeafValue
<1>4. w \in Word /\ Signextended(t.c, ImmBits) = w
  BY <1>2, ModulusType, ImmediateValue
<1>5. 0 # Poison /\ "ADDI" \in Imm12Opcodes
  BY OperationNames DEF Poison
<1>6. Value(u, in) = Computes("ADDI", 0, w)
  <2> HIDE DEF w, Poison
  <2> QED BY <1>1, <1>3, <1>4, <1>5, ImmediateNode
<1> HIDE DEF w
<1>7. (0 + w) % Modulus = w
  <2>1. w \in Int /\ 0 <= w /\ w < Modulus /\ Modulus \in Nat /\ Modulus >= 1
    BY <1>4, WidthFacts DEF Word
  <2>2. w = Modulus * 0 + w /\ 0 + w = w
    BY <2>1
  <2>3. (Modulus * 0 + w) % Modulus = w
    BY <2>1, Division
  <2> QED BY <2>2, <2>3
<1>8. Computes("ADDI", 0, w) = (0 + w) % Modulus
  BY DEF Computes
<1> QED BY <1>3, <1>6, <1>7, <1>8 DEF Refines, u, z

(* Loads and calls become the instructions that do just the same.          *)
LEMMA SameOperandsRefine ==
    ASSUME NEW t \in Terms, NEW in \in Registers, NEW op,
           \/ t.op = "load" /\ op = "LW"
           \/ t.op = "call" /\ op = "PseudoCALL",
           T(op, 0, t.kids) \in Terms
    PROVE  Refines(T(op, 0, t.kids), t, in)
<1> DEFINE u == T(op, 0, t.kids)
           a == [i \in DOMAIN t.kids |-> Value(t.kids[i], in)]
<1>1. u \in Terms /\ u.op = op /\ u.kids = t.kids
  BY DEF T
<1> HIDE DEF u
<1>2. Value(t, in) = NodeValue(t, a, in) /\ Value(u, in) = NodeValue(u, a, in)
  BY <1>1, ValueUnfold
<1>3. DOMAIN t.kids # {}
  <2>1. DOMAIN t.kids = 1 .. 1 \/ DOMAIN t.kids = 1 .. 3
    BY Arity
  <2> QED BY <2>1
<1>4. /\ t.op \notin {"register", "X0", "constant", "tglobaladdr", "texternalsym"}
                     \cup Unvalued
      /\ op \notin {"register", "X0", "constant", "tglobaladdr", "texternalsym"}
                   \cup Unvalued
      /\ t.op \notin DOMAIN ShamtPattern /\ op \notin DOMAIN ShamtPattern
  BY OperationNames DEF Unvalued, BitOperations
<1>5. CASE \E i \in DOMAIN a : a[i] = Poison
  <2> HIDE DEF Poison
  <2>1. Value(t, in) = Poison
    BY <1>4, <1>5, UnvaluedPoison
  <2> QED BY <2>1 DEF Refines
<1>6. CASE ~ \E i \in DOMAIN a : a[i] = Poison
  <2>0. DOMAIN a # {}
    BY <1>3
  <2> HIDE DEF a, Poison
  <2>1. /\ NodeValue(t, a, in) =
             IF t.op = "load" THEN Memory[a[1]] ELSE Returned(a[1], a[2], a[3])
        /\ NodeValue(u, a, in) =
             IF op = "LW" THEN Memory[a[1]] ELSE Returned(a[1], a[2], a[3])
    BY <1>1, <1>4, <1>6, <2>0, NodeValueOther, OperationNames
  <2> QED BY <1>2, <2>1 DEF Refines, u
<1> QED BY <1>5, <1>6

-----------------------------------------------------------------------------
(* The inductive invariant.  Every DAG of a run computes what the source   *)
(* does where that is defined: the steps replace a node by one that does.  *)
DagsOK ==
    /\ source \in Terms /\ dag \in Terms
    /\ \A in \in Registers : Refines(dag, source, in)

EmittedOK ==
    /\ phase \in {"legalize", "select", "print", "done", "failed", "undefined"}
    /\ phase \in {"legalize", "select"} => emitted = {}
    /\ phase \in {"print", "done"} => Unselected = {}
    /\ phase = "done" => emitted = Instructions
    /\ emitted \subseteq Instructions
    /\ \A t \in emitted : \A u \in Subterms(t) :
           u.op \in Opcodes => u \in emitted

IInv == DagsOK /\ EmittedOK

(* The invariant holds initially.                                          *)
LEMMA InitIInv == Init => IInv
BY SourcesAssumption DEF Init, IInv, DagsOK, EmittedOK, Refines

(* A node of the DAG gives way to one that computes at least as much.      *)
LEMMA RewriteDags ==
    ASSUME NEW t \in Subterms(dag), NEW u, Rewrite(t, u), DagsOK, UNCHANGED source,
           \A in \in Registers : u \in Terms => Refines(u, t, in)
    PROVE  DagsOK'
<1>1. dag' = Replace(dag, t, u) /\ dag' \in Terms
  BY DEF Rewrite
<1>2. u \in Terms /\ dag \in Terms
  BY <1>1, ReplacementIsTerm DEF DagsOK
<1>3. ASSUME NEW in \in Registers PROVE Refines(dag', source, in)
  <2>1. Refines(dag', dag, in)
    BY <1>1, <1>2, ReplaceRefines
  <2>2. Refines(dag, source, in)
    BY DEF DagsOK
  <2> QED BY <2>1, <2>2 DEF Refines
<1>4. source' = source
  OBVIOUS
<1>5. \A in : Refines(dag, source, in)' <=> Refines(dag', source', in)
  BY DEF Refines
<1> QED BY <1>1, <1>3, <1>4, <1>5 DEF DagsOK

(* Every step keeps the nodes what they are.                               *)
LEMMA DagsStep == IInv /\ Next => DagsOK'
<1> SUFFICES ASSUME IInv, Next PROVE DagsOK'
  OBVIOUS
<1>0. DagsOK /\ dag \in Terms /\ \A t \in Subterms(dag) : t \in Terms
  BY SubtermsTransitive DEF IInv, DagsOK
<1>r. Ready \subseteq Subterms(dag)
  BY DEF Ready, Unselected
<1>1. CASE UNCHANGED <<source, dag>>
  BY <1>0, <1>1 DEF DagsOK, Refines
<1>2. CASE LegalizeOp
  <2>1. PICK t \in Subterms(dag) :
          /\ t.op \in ExpandOps
          /\ UNCHANGED dag \/ Rewrite(t, Expansion(t))
    BY <1>2 DEF LegalizeOp
  <2>2. UNCHANGED source
    BY <1>2 DEF LegalizeOp
  <2>3. CASE UNCHANGED dag
    BY <1>1, <2>2, <2>3
  <2>4. CASE Rewrite(t, Expansion(t))
    <3>1. t \in Terms
      BY <1>0
    <3>2. \A in \in Registers : Expansion(t) \in Terms => Refines(Expansion(t), t, in)
      BY <2>1, <3>1, ExpansionRefines
    <3> QED BY <1>0, <2>2, <2>4, <3>2, RewriteDags
  <2> QED BY <2>1, <2>3, <2>4
<1>3. CASE SelectImm12
  <2>1. PICK t \in Ready :
          FoldsImm12(t) /\ Select(t, T(Imm12Pattern[t.op], t.kids[2].c, <<t.kids[1]>>))
    BY <1>3 DEF SelectImm12
  <2> DEFINE u == T(Imm12Pattern[t.op], t.kids[2].c, <<t.kids[1]>>)
  <2>2. t \in Terms /\ t \in Subterms(dag) /\ t.kids[2].op = "constant"
    BY <1>0, <1>r, <2>1 DEF FoldsImm12
  <2>3. \A in \in Registers : u \in Terms => Refines(u, t, in)
    BY <2>1, <2>2, ImmediateRefines
  <2>4. Rewrite(t, u) /\ UNCHANGED source
    BY <2>1 DEF Select
  <2> QED BY <1>0, <2>2, <2>3, <2>4, RewriteDags
<1>4. CASE SelectShamt
  <2>1. PICK t \in Ready :
          FoldsShamt(t) /\ Select(t, T(ShamtPattern[t.op], t.kids[2].c, <<t.kids[1]>>))
    BY <1>4 DEF SelectShamt
  <2> DEFINE u == T(ShamtPattern[t.op], t.kids[2].c, <<t.kids[1]>>)
  <2>2. t \in Terms /\ t \in Subterms(dag) /\ t.kids[2].op = "constant"
    BY <1>0, <1>r, <2>1 DEF FoldsShamt
  <2>3. \A in \in Registers : u \in Terms => Refines(u, t, in)
    BY <2>1, <2>2, ImmediateRefines
  <2>4. Rewrite(t, u) /\ UNCHANGED source
    BY <2>1 DEF Select
  <2> QED BY <1>0, <2>2, <2>3, <2>4, RewriteDags
<1>5. CASE SelectRegisters
  <2>1. PICK t \in Ready : /\ t.op \in DOMAIN RegisterPattern
                           /\ Select(t, T(RegisterPattern[t.op], 0, t.kids))
    BY <1>5 DEF SelectRegisters
  <2> DEFINE op == RegisterPattern[t.op]
             u == T(op, 0, t.kids)
  <2>2. t \in Terms /\ t \in Subterms(dag) /\ t.op # "store"
    BY <1>0, <1>r, <2>1, OperationNames
  <2>3. op = IF t.op = "store" THEN "SW" ELSE RegisterPattern[t.op]
    BY <2>2
  <2>4. \A in \in Registers : u \in Terms => Refines(u, t, in)
    <3> HIDE DEF op
    <3> QED BY <2>1, <2>2, <2>3, RegistersRefine
  <2>5. Rewrite(t, u) /\ UNCHANGED source
    BY <2>1 DEF Select
  <2> QED BY <1>0, <2>2, <2>4, <2>5, RewriteDags
<1>6. CASE SelectConstant
  <2>1. PICK t \in Ready :
          t.op = "constant" /\ simm12(t.c) /\ Select(t, T("ADDI", t.c, <<T("X0", 0, <<>>)>>))
    BY <1>6 DEF SelectConstant
  <2> DEFINE u == T("ADDI", t.c, <<T("X0", 0, <<>>)>>)
  <2>2. t \in Terms /\ t \in Subterms(dag)
    BY <1>0, <1>r, <2>1
  <2>3. \A in \in Registers : u \in Terms => Refines(u, t, in)
    BY <2>1, <2>2, ConstantRefines
  <2>4. Rewrite(t, u) /\ UNCHANGED source
    BY <2>1 DEF Select
  <2> QED BY <1>0, <2>2, <2>3, <2>4, RewriteDags
<1>7. CASE SelectLoad
  <2>1. PICK t \in Ready : t.op = "load" /\ Select(t, T("LW", 0, t.kids))
    BY <1>7 DEF SelectLoad
  <2>2. t \in Terms /\ t \in Subterms(dag)
    BY <1>0, <1>r, <2>1
  <2>3. \A in \in Registers :
          T("LW", 0, t.kids) \in Terms => Refines(T("LW", 0, t.kids), t, in)
    BY <2>1, <2>2, SameOperandsRefine
  <2>4. Rewrite(t, T("LW", 0, t.kids)) /\ UNCHANGED source
    BY <2>1 DEF Select
  <2> QED BY <1>0, <2>2, <2>3, <2>4, RewriteDags
<1>8. CASE SelectStore
  <2>1. PICK t \in Ready : t.op = "store" /\ Select(t, T("SW", 0, t.kids))
    BY <1>8 DEF SelectStore
  <2>2. t \in Terms /\ t \in Subterms(dag)
    BY <1>0, <1>r, <2>1
  <2>3. \A in \in Registers :
          T("SW", 0, t.kids) \in Terms => Refines(T("SW", 0, t.kids), t, in)
    BY <2>1, <2>2, RegistersRefine
  <2>4. Rewrite(t, T("SW", 0, t.kids)) /\ UNCHANGED source
    BY <2>1 DEF Select
  <2> QED BY <1>0, <2>2, <2>3, <2>4, RewriteDags
<1>9. CASE SelectCall
  <2>1. PICK t \in Ready : t.op = "call" /\ Select(t, T("PseudoCALL", 0, t.kids))
    BY <1>9 DEF SelectCall
  <2>2. t \in Terms /\ t \in Subterms(dag)
    BY <1>0, <1>r, <2>1
  <2>3. \A in \in Registers : T("PseudoCALL", 0, t.kids) \in Terms
          => Refines(T("PseudoCALL", 0, t.kids), t, in)
    BY <2>1, <2>2, SameOperandsRefine
  <2>4. Rewrite(t, T("PseudoCALL", 0, t.kids)) /\ UNCHANGED source
    BY <2>1 DEF Select
  <2> QED BY <1>0, <2>2, <2>3, <2>4, RewriteDags
<1>10. CASE Legalized \/ CannotSelect \/ Selected \/ EmitInstruction \/ Finish
  BY <1>1, <1>10 DEF Legalized, CannotSelect, Selected, EmitInstruction, Finish
<1> QED BY <1>2, <1>3, <1>4, <1>5, <1>6, <1>7, <1>8, <1>9, <1>10 DEF Next

(* An instruction goes out after all those below it, so that what is       *)
(* out stays closed under operands.                                        *)
LEMMA EmittedStep == IInv /\ Next => EmittedOK'
<1> SUFFICES ASSUME IInv, Next PROVE EmittedOK'
  OBVIOUS
<1>1. CASE /\ phase \in {"legalize", "select"} /\ UNCHANGED emitted
           /\ phase' \in {"legalize", "select", "failed"}
  <2>1. emitted' = {}
    BY <1>1 DEF IInv, EmittedOK
  <2> QED BY <1>1, <2>1 DEF EmittedOK
<1>2. CASE LegalizeOp \/ Legalized \/ CannotSelect
  BY <1>1, <1>2 DEF LegalizeOp, Legalized, CannotSelect
<1>3. CASE SelectImm12 \/ SelectShamt \/ SelectRegisters \/ SelectConstant
           \/ SelectLoad \/ SelectStore \/ SelectCall
  <2>1. phase = "select" /\ UNCHANGED <<emitted, phase>>
    BY <1>3 DEF SelectImm12, SelectShamt, SelectRegisters, SelectConstant,
                SelectLoad, SelectStore, SelectCall, Select
  <2> QED BY <1>1, <2>1
<1>4. CASE /\ UNCHANGED <<dag, emitted>>
           /\ phase' \in {"print", "done", "failed", "undefined"}
           /\ (phase' \in {"print", "done"} => Unselected = {})
           /\ (phase' = "done" => emitted = Instructions)
  BY <1>4 DEF IInv, EmittedOK, Unselected, Instructions
<1>5. CASE Selected
  BY <1>4, <1>5 DEF Selected
<1>6. CASE Finish
  BY <1>4, <1>6 DEF Finish, IInv, EmittedOK
<1>7. CASE EmitInstruction
  <2>1. PICK t \in Instructions \ emitted :
          /\ \A i \in DOMAIN t.kids :
                 t.kids[i].op \in Opcodes => t.kids[i] \in emitted
          /\ \/ phase' \in {"failed", "undefined"} /\ UNCHANGED emitted
             \/ emitted' = emitted \cup {t} /\ UNCHANGED phase
    BY <1>7 DEF EmitInstruction
  <2>2. phase = "print" /\ UNCHANGED dag /\ Unselected = {}
    BY <1>7 DEF EmitInstruction, IInv, EmittedOK
  <2>3. CASE phase' \in {"failed", "undefined"} /\ UNCHANGED emitted
    BY <1>4, <2>2, <2>3
  <2>4. CASE emitted' = emitted \cup {t} /\ UNCHANGED phase
    <3>1. dag \in Terms /\ t \in Subterms(dag) /\ t \in Terms
      BY <2>1, SubtermsTransitive DEF IInv, DagsOK, Instructions
    <3>2. ASSUME NEW u \in Subterms(t), u.op \in Opcodes
          PROVE  u \in emitted \cup {t}
      <4>1. CASE u = t
        BY <4>1
      <4>2. CASE u # t
        <5>1. PICK i \in DOMAIN t.kids : u \in Subterms(t.kids[i])
          BY <3>1, <4>2, SubtermsType
        <5> DEFINE k == t.kids[i]
        <5>2. k \in Terms /\ k \in Subterms(dag)
          <6>1. k \in Terms
            BY <3>1, TermShape
          <6>2. k \in Subterms(k)
            BY <6>1, SubtermsType
          <6>3. k \in Subterms(t)
            BY <3>1, <6>2, SubtermsType
          <6> QED BY <3>1, <6>1, <6>3, SubtermsTransitive
        <5>3. CASE k.op \in Opcodes
          BY <2>1, <3>2, <5>1, <5>3 DEF IInv, EmittedOK
        <5>4. CASE k.op \notin Opcodes
          <6>1. k.op \in Operands
            BY <2>2, <5>2, <5>4 DEF Unselected
          <6>2. DOMAIN k.kids = {}
            BY <5>2, <6>1, Arity DEF Operands
          <6>3. u = k
            BY <5>1, <5>2, <6>2, SubtermsType
          <6> QED BY <3>2, <5>4, <6>3
        <5> QED BY <5>3, <5>4
      <4> QED BY <4>1, <4>2
    <3>3. emitted' \subseteq Instructions
      BY <2>1, <2>4 DEF IInv, EmittedOK
    <3>4. Instructions' = Instructions /\ Unselected' = Unselected
      BY <2>2 DEF Instructions, Unselected
    <3>5. \A r \in emitted' : \A u \in Subterms(r) : u.op \in Opcodes => u \in emitted'
      BY <2>4, <3>2 DEF IInv, EmittedOK
    <3> QED BY <2>2, <2>4, <3>3, <3>4, <3>5 DEF EmittedOK
  <2> QED BY <2>1, <2>3, <2>4
<1> QED BY <1>2, <1>3, <1>5, <1>6, <1>7 DEF Next

(* Every step keeps the invariant.                                         *)
LEMMA NextIInv == IInv /\ [Next]_vars => IInv'
<1>1. IInv /\ Next => IInv'
  BY DagsStep, EmittedStep DEF IInv
<1>2. IInv /\ UNCHANGED vars => IInv'
  BY DEF IInv, DagsOK, EmittedOK, Refines, Unselected, Instructions, vars
<1> QED BY <1>1, <1>2

(* The invariant contains the type invariant.                              *)
LEMMA IInvSelection == IInv => SelectionTypeOK
<1> SUFFICES ASSUME IInv PROVE SelectionTypeOK
  OBVIOUS
<1>1. ASSUME phase = "done"
      PROVE  Subterms(dag) \subseteq
               emitted \cup {t \in Subterms(dag) : t.op \in Operands}
  BY <1>1 DEF IInv, EmittedOK, Unselected, Instructions
<1> QED BY <1>1 DEF IInv, EmittedOK, SelectionTypeOK

(* The invariant contains that every value is as meant.                    *)
LEMMA IInvValue == IInv => ValueAsMeant
<1> HIDE DEF Poison
<1> QED BY DEF IInv, DagsOK, Registers, Refines, ValueAsMeant

(* For every width of words and immediates, every memory and every source: *)
(* what has been emitted are instructions of the DAG, each after those     *)
(* whose results it reads, and a finished block leaves nothing out.        *)
THEOREM SelectionTypeCorrect == Spec => []SelectionTypeOK
<1>1. Spec => []IInv
  BY InitIInv, NextIInv, PTL DEF Spec
<1> QED BY <1>1, IInvSelection, PTL

(* At every step of legalization and selection, the DAG computes from any  *)
(* contents of the registers the value the program asked for: expanding    *)
(* sign extensions and rotations into shifts and masks, and folding        *)
(* constants into immediates, change no result.                            *)
THEOREM SelectionKeepsValues == Spec => []ValueAsMeant
<1>1. Spec => []IInv
  BY InitIInv, NextIInv, PTL DEF Spec
<1> QED BY <1>1, IInvValue, PTL
=============================================================================
