--------------------------- MODULE RedactionProofs ---------------------------
(***************************************************************************)
(* What the operators of Redaction return, preserve and leave alone, for   *)
(* every list of detectors and every text: the lemmas that the proofs      *)
(* about the components built from them rest on.                           *)
(*                                                                         *)
(* Redaction is folds over the detectors, over a text's positions and over *)
(* a session's values.  A fold is a function on sets of positions; that it *)
(* exists, and goes where its steps go, is proved by looking at the least  *)
(* number for which it fails (LeastNumber to FoldReaches).                 *)
(*                                                                         *)
(* What a request redacts can be put back: a text is taken apart into the  *)
(* parts that its symbols become, and rewriting a match leaves what they   *)
(* make of it the same (FlattenUnique to RestoreIsSubst).  What redaction  *)
(* leaves to find is told by the symbols a match is made of: each is a mark *)
(* or one of the text before (FoundCovers to RedactAtClean).               *)
(***************************************************************************)
EXTENDS Redaction, FiniteSetTheorems, SequenceTheorems, WellFoundedInduction, TLAPS

(* A set of numbers has a least one.                                       *)
LEMMA LeastNumber ==
  ASSUME NEW T \in SUBSET Nat, T # {}
  PROVE  \E x \in T : \A y \in T : x <= y
<1>1. PICK x \in T : \A y \in T : <<y, x>> \notin OpToRel(<, Nat)
  BY WFMin, NatLessThanWellFounded, Zenon
<1>2. ASSUME NEW y \in T PROVE x <= y
  <2>1. <<y, x>> \notin OpToRel(<, Nat)
    BY <1>1
  <2>2. ~(y < x)
    BY <2>1, Zenon DEF OpToRel
  <2> QED
    BY <2>2
<1> QED
  BY <1>2

(* What holds of 0 and, with a number, of the next holds of every number.  *)
LEMMA Induction ==
  ASSUME NEW T, 0 \in T, \A n \in Nat : n \in T => n + 1 \in T
  PROVE  \A n \in Nat : n \in T
<1> DEFINE B == {n \in Nat : n \notin T}
<1>1. CASE B = {}
  BY <1>1
<1>2. CASE B # {}
  <2>1. PICK x \in B : \A y \in B : x <= y
    BY <1>2, LeastNumber
  <2>2. x # 0 /\ x - 1 \in Nat /\ x - 1 \notin B
    BY <2>1
  <2> QED
    BY <2>1, <2>2
<1> QED
  BY <1>1, <1>2

(* The same up to a bound.                                                 *)
LEMMA InductionTo ==
  ASSUME NEW n \in Nat, NEW T, 0 \in T, \A k \in 0..(n - 1) : k \in T => k + 1 \in T
  PROVE  n \in T
<1> DEFINE U == {k \in Nat : k <= n => k \in T}
<1>1. 0 \in U
  OBVIOUS
<1>2. ASSUME NEW k \in Nat, k \in U PROVE k + 1 \in U
  <2>1. CASE k + 1 <= n
    BY <1>2, <2>1
  <2>2. CASE ~(k + 1 <= n)
    BY <2>2
  <2> QED
    BY <2>1, <2>2
<1>3. n \in U
  <2> HIDE DEF U
  <2> QED
    BY <1>1, <1>2, Induction
<1> QED
  BY <1>3

-----------------------------------------------------------------------------
(* Folds over the positions of a sequence.                                 *)

(* The last position of a set of them.                                     *)
LEMMA MaxLast ==
  ASSUME NEW n \in Nat, NEW S \in SUBSET (1..(n + 1)), n + 1 \in S
  PROVE  Max(S) = n + 1
<1>1. \A y \in S : n + 1 >= y
  OBVIOUS
<1>2. \E x \in S : \A y \in S : x >= y
  BY <1>1
<1>3. Max(S) \in S /\ \A y \in S : Max(S) >= y
  BY <1>2 DEF Max
<1>4. Max(S) \in 1..(n + 1) /\ Max(S) >= n + 1
  BY <1>3
<1> QED
  BY <1>4

(* A set of positions has a last one.                                      *)
LEMMA MaxOf ==
  ASSUME NEW n \in Nat, NEW S \in SUBSET (1..n), S # {}
  PROVE  Max(S) \in S
<1> DEFINE B == {m \in Nat : S \subseteq 1..m}
<1>1. PICK m \in B : \A y \in B : m <= y
  <2>1. n \in B /\ B \in SUBSET Nat
    OBVIOUS
  <2> HIDE DEF B
  <2> QED
    BY <2>1, LeastNumber
<1>2. m # 0
  <2>1. 1..0 = {}
    OBVIOUS
  <2> QED
    BY <1>1, <2>1
<1>3. m \in S
  <2>1. SUFFICES ASSUME m \notin S PROVE FALSE
    OBVIOUS
  <2>2. S \subseteq 1..(m - 1)
    BY <1>1, <2>1
  <2>3. m - 1 \in B
    BY <1>1, <1>2, <2>2
  <2> QED
    BY <1>1, <2>3
<1>4. \E x \in S : \A y \in S : x >= y
  BY <1>1, <1>3
<1> QED
  BY <1>4 DEF Max

(* iter is the fold of g over the positions up to n.                       *)
IsFold(iter, V, base, n, g) ==
  /\ iter \in [SUBSET (1..n) -> V]
  /\ \A S \in SUBSET (1..n) :
       iter[S] = IF S = {} THEN base ELSE g[<<iter[S \ {Max(S)}], Max(S)>>]

(* A fold whose step stays within V has a value at every set of positions. *)
LEMMA FoldExists ==
  ASSUME NEW V, NEW base \in V, NEW n \in Nat, NEW g \in [V \X (1..n) -> V]
  PROVE  \E iter : IsFold(iter, V, base, n, g)
<1> DEFINE Runs(iter, m) ==
             /\ iter \in [SUBSET (1..m) -> V]
             /\ \A S \in SUBSET (1..m) :
                  iter[S] = IF S = {} THEN base ELSE g[<<iter[S \ {Max(S)}], Max(S)>>]
           T == {m \in 0..n : \E iter : Runs(iter, m)}
<1>1. 0 \in T
  <2> DEFINE h == [S \in SUBSET (1..0) |-> base]
  <2>1. \A S \in SUBSET (1..0) : S = {}
    OBVIOUS
  <2>2. h \in [SUBSET (1..0) -> V] /\ \A S \in SUBSET (1..0) : h[S] = base
    OBVIOUS
  <2>3. Runs(h, 0)
    <3> HIDE DEF h
    <3> QED
      BY <2>1, <2>2
  <2> HIDE DEF h, Runs
  <2> QED
    BY <2>3
<1>2. ASSUME NEW m \in 0..(n - 1), m \in T PROVE m + 1 \in T
  <2>1. PICK f : Runs(f, m)
    BY <1>2
  <2> DEFINE h == [S \in SUBSET (1..(m + 1)) |->
                     IF m + 1 \in S THEN g[<<f[S \ {m + 1}], m + 1>>] ELSE f[S]]
  <2>2. ASSUME NEW S \in SUBSET (1..(m + 1))
        PROVE  h[S] \in V /\ h[S] = IF S = {} THEN base ELSE g[<<h[S \ {Max(S)}], Max(S)>>]
    <3>1. CASE m + 1 \in S
      <4>1. Max(S) = m + 1
        BY <3>1, MaxLast
      <4>2. S \ {m + 1} \in SUBSET (1..m) /\ m + 1 \notin S \ {m + 1} /\ m + 1 \in 1..n
        OBVIOUS
      <4>3. f[S \ {m + 1}] \in V /\ h[S \ {m + 1}] = f[S \ {m + 1}]
        BY <2>1, <4>2
      <4>4. h[S] = g[<<f[S \ {m + 1}], m + 1>>]
        BY <3>1
      <4>5. h[S] \in V
        BY <4>2, <4>3, <4>4
      <4>6. S # {}
        BY <3>1
      <4> HIDE DEF h
      <4> QED
        BY <4>1, <4>3, <4>4, <4>5, <4>6
    <3>2. CASE m + 1 \notin S
      <4>1. S \in SUBSET (1..m)
        BY <3>2
      <4>2. S \ {Max(S)} \in SUBSET (1..m) /\ S \ {Max(S)} \in SUBSET (1..(m + 1)) /\ m + 1 \notin S \ {Max(S)}
        BY <3>2, <4>1
      <4>3. h[S] = f[S] /\ h[S \ {Max(S)}] = f[S \ {Max(S)}]
        BY <3>2, <4>2
      <4> HIDE DEF h
      <4> QED
        BY <2>1, <4>1, <4>2, <4>3
    <3> QED
      BY <3>1, <3>2
  <2>3. h \in [SUBSET (1..(m + 1)) -> V]
    BY <2>2
  <2>4. Runs(h, m + 1)
    <3> HIDE DEF h
    <3> QED
      BY <2>2, <2>3
  <2>5. m + 1 \in 0..n
    OBVIOUS
  <2> QED
    BY <2>4, <2>5
<1>3. n \in T
  <2> HIDE DEF T
  <2> QED
    BY <1>1, <1>2, InductionTo
<1> QED
  BY <1>3 DEF IsFold

(* What a fold over 1..k is made of.                                       *)
LEMMA Positions ==
  ASSUME NEW n \in Nat, NEW k \in 1..n
  PROVE  1..k # {} /\ Max(1..k) = k /\ (1..k) \ {k} = 1..(k - 1) /\ 1..k \in SUBSET (1..n)
<1>1. k - 1 \in Nat /\ 1..k \in SUBSET (1..((k - 1) + 1)) /\ (k - 1) + 1 \in 1..k
  OBVIOUS
<1>2. Max(1..k) = (k - 1) + 1
  BY <1>1, MaxLast
<1> QED
  BY <1>2

(* A fold goes from set to set as its steps do.                            *)
LEMMA FoldReaches ==
  ASSUME NEW V, NEW U, NEW n \in Nat, NEW F, F[{}] \in V, F[{}] \in U[0],
         \A k \in 1..n : F[1..(k - 1)] \in V /\ F[1..(k - 1)] \in U[k - 1]
                           => F[1..k] \in V /\ F[1..k] \in U[k]
  PROVE  F[1..n] \in V /\ F[1..n] \in U[n]
<1> DEFINE T == {k \in 0..n : F[1..k] \in V /\ F[1..k] \in U[k]}
<1>1. 0 \in T
  <2>1. 1..0 = {}
    OBVIOUS
  <2> QED
    BY <2>1
<1>2. ASSUME NEW k \in 0..(n - 1), k \in T PROVE k + 1 \in T
  <2>1. k + 1 \in 1..n /\ (k + 1) - 1 = k /\ k + 1 \in 0..n
    OBVIOUS
  <2> QED
    BY <1>2, <2>1
<1>3. n \in T
  <2> HIDE DEF T
  <2> QED
    BY <1>1, <1>2, InductionTo
<1> QED
  BY <1>3

-----------------------------------------------------------------------------
(* FlattenSeq.                                                             *)

(* The function that FlattenSeq builds.                                    *)
Flat(seqs) ==
  CHOOSE g : g = [i \in 1..Len(seqs) |-> IF i = 1 THEN seqs[i] ELSE g[i - 1] \o seqs[i]]

(* A sequence of texts is flattened by running through it.                 *)
LEMMA FlattenIsFlat ==
  ASSUME NEW seqs, Len(seqs) # 0
  PROVE  FlattenSeq(seqs) = Flat(seqs)[Len(seqs)]
BY DEF FlattenSeq, Flat

(* That function exists: each run is the one before with one more text.    *)
LEMMA FlatRuns ==
  ASSUME NEW seqs, Len(seqs) \in Nat
  PROVE  \A i \in 1..Len(seqs) :
           Flat(seqs)[i] = IF i = 1 THEN seqs[i] ELSE Flat(seqs)[i - 1] \o seqs[i]
<1> DEFINE Runs(g, n) == g = [i \in 1..n |-> IF i = 1 THEN seqs[i] ELSE g[i - 1] \o seqs[i]]
           T == {n \in Nat : \E g : Runs(g, n)}
<1>1. 0 \in T
  <2> DEFINE h == [i \in 1..0 |-> seqs[i]]
  <2>1. Runs(h, 0)
    OBVIOUS
  <2> HIDE DEF h, Runs
  <2> QED
    BY <2>1
<1>2. ASSUME NEW n \in Nat, n \in T PROVE n + 1 \in T
  <2>1. PICK g : Runs(g, n)
    BY <1>2
  <2> DEFINE h == [i \in 1..(n + 1) |->
                     IF i = n + 1 THEN IF i = 1 THEN seqs[i] ELSE g[n] \o seqs[i] ELSE g[i]]
             v(i) == IF i = 1 THEN seqs[i] ELSE h[i - 1] \o seqs[i]
  <2>2. ASSUME NEW i \in 1..(n + 1) PROVE h[i] = v(i)
    <3>1. CASE i = 1
      <4>1. n # 0 => 1 \in 1..n
        OBVIOUS
      <4>2. n # 0 => g[1] = seqs[1]
        BY <2>1, <4>1
      <4> QED
        BY <3>1, <4>2
    <3>2. CASE i # 1 /\ i = n + 1
      <4>1. n \in 1..(n + 1) /\ n # n + 1 /\ i - 1 = n
        BY <3>2
      <4>2. h[n] = g[n] /\ h[i] = g[n] \o seqs[i]
        BY <3>2, <4>1
      <4> HIDE DEF h
      <4> QED
        BY <3>2, <4>1, <4>2
    <3>3. CASE i # 1 /\ i # n + 1
      <4>1. i \in 1..n /\ i - 1 \in 1..(n + 1) /\ i - 1 # n + 1
        BY <3>3
      <4>2. h[i] = g[i] /\ h[i - 1] = g[i - 1]
        BY <3>3, <4>1
      <4>3. g[i] = g[i - 1] \o seqs[i]
        BY <2>1, <3>3, <4>1
      <4> HIDE DEF h
      <4> QED
        BY <3>3, <4>2, <4>3
    <3> QED
      BY <3>1, <3>2, <3>3
  <2>3. h = [i \in 1..(n + 1) |-> h[i]]
    OBVIOUS
  <2>4. h = [i \in 1..(n + 1) |-> v(i)]
    <3> HIDE DEF h, v
    <3> QED
      BY <2>2, <2>3
  <2>5. Runs(h, n + 1)
    BY <2>4
  <2> HIDE DEF h, Runs
  <2> QED
    BY <2>5
<1>3. \E g : Runs(g, Len(seqs))
  <2>1. Len(seqs) \in T
    <3> HIDE DEF T
    <3> QED
      BY <1>1, <1>2, Induction
  <2> QED
    BY <2>1
<1>4. Runs(Flat(seqs), Len(seqs))
  BY <1>3 DEF Flat
<1> QED
  BY <1>4

(* A flattened sequence has only the elements of its parts.                *)
LEMMA FlattenIn ==
  ASSUME NEW W, NEW seqs \in Seq(Seq(W))
  PROVE  FlattenSeq(seqs) \in Seq(W)
<1>1. CASE Len(seqs) = 0
  <2>1. seqs = <<>>
    BY <1>1
  <2> QED
    BY <1>1, <2>1 DEF FlattenSeq
<1>2. CASE Len(seqs) # 0
  <2> DEFINE n == Len(seqs)
             T == {k \in Nat : k + 1 <= n => Flat(seqs)[k + 1] \in Seq(W)}
  <2>1. n \in Nat /\ n >= 1
    BY <1>2
  <2>2. \A i \in 1..n : Flat(seqs)[i] = IF i = 1 THEN seqs[i] ELSE Flat(seqs)[i - 1] \o seqs[i]
    BY <2>1, FlatRuns
  <2>3. \A i \in 1..n : seqs[i] \in Seq(W)
    OBVIOUS
  <2>4. 0 \in T
    BY <2>1, <2>2, <2>3
  <2>5. ASSUME NEW k \in Nat, k \in T PROVE k + 1 \in T
    <3>1. SUFFICES ASSUME (k + 1) + 1 <= n PROVE Flat(seqs)[(k + 1) + 1] \in Seq(W)
      OBVIOUS
    <3>2. Flat(seqs)[k + 1] \in Seq(W)
      BY <2>1, <2>5, <3>1
    <3>3. (k + 1) + 1 \in 1..n /\ (k + 1) + 1 # 1 /\ ((k + 1) + 1) - 1 = k + 1
      BY <2>1, <3>1
    <3>4. Flat(seqs)[(k + 1) + 1] = Flat(seqs)[k + 1] \o seqs[(k + 1) + 1]
      BY <2>2, <3>3
    <3> QED
      BY <2>3, <3>2, <3>3, <3>4
  <2>6. n - 1 \in T
    <3>1. n - 1 \in Nat
      BY <2>1
    <3> HIDE DEF T
    <3> QED
      BY <2>4, <2>5, <3>1, Induction
  <2>7. Flat(seqs)[n] \in Seq(W)
    BY <2>1, <2>6
  <2> QED
    BY <1>2, <2>7, FlattenIsFlat
<1> QED
  BY <1>1, <1>2

(* Nothing happens to a sequence that is cut into single elements.         *)
LEMMA FlattenSingles ==
  ASSUME NEW W, NEW text \in Seq(W), NEW seqs, Len(seqs) = Len(text), DOMAIN seqs = 1..Len(text),
         \A i \in 1..Len(text) : seqs[i] = <<text[i]>>
  PROVE  FlattenSeq(seqs) = text
<1> DEFINE n == Len(text)
<1>1. n \in Nat
  OBVIOUS
<1>2. CASE n = 0
  <2>1. FlattenSeq(seqs) = seqs
    BY <1>2 DEF FlattenSeq
  <2> QED
    BY <1>2, <2>1
<1>3. CASE n # 0
  <2> DEFINE T == {k \in Nat : k + 1 <= n => Flat(seqs)[k + 1] = SubSeq(text, 1, k + 1)}
  <2>1. \A i \in 1..n : Flat(seqs)[i] = IF i = 1 THEN seqs[i] ELSE Flat(seqs)[i - 1] \o seqs[i]
    BY FlatRuns
  <2>2. 0 \in T
    <3>1. 1 \in 1..n
      BY <1>1, <1>3
    <3>2. Flat(seqs)[1] = <<text[1]>>
      BY <2>1, <3>1
    <3>3. SubSeq(text, 1, 1) = <<text[1]>>
      <4>1. SubSeq(text, 1, 1) \in Seq(W) /\ Len(SubSeq(text, 1, 1)) = 1 /\ SubSeq(text, 1, 1)[1] = text[1]
        BY <3>1
      <4>2. <<text[1]>> \in Seq(W) /\ Len(<<text[1]>>) = 1 /\ <<text[1]>>[1] = text[1]
        BY <3>1
      <4>3. \A i \in 1..1 : SubSeq(text, 1, 1)[i] = <<text[1]>>[i]
        BY <4>1, <4>2
      <4> QED
        BY <4>1, <4>2, <4>3, SeqEqual
    <3> QED
      BY <3>2, <3>3
  <2>3. ASSUME NEW k \in Nat, k \in T PROVE k + 1 \in T
    <3>1. SUFFICES ASSUME (k + 1) + 1 <= n
                   PROVE  Flat(seqs)[(k + 1) + 1] = SubSeq(text, 1, (k + 1) + 1)
      OBVIOUS
    <3>2. Flat(seqs)[k + 1] = SubSeq(text, 1, k + 1)
      BY <1>1, <2>3, <3>1
    <3>3. (k + 1) + 1 \in 1..n /\ (k + 1) + 1 # 1 /\ ((k + 1) + 1) - 1 = k + 1
      BY <1>1, <3>1
    <3>4. Flat(seqs)[(k + 1) + 1] = SubSeq(text, 1, k + 1) \o <<text[(k + 1) + 1]>>
      BY <2>1, <3>2, <3>3, ZenonT(60)
    <3>5. SubSeq(text, 1, k + 1) \o <<text[(k + 1) + 1]>> = SubSeq(text, 1, (k + 1) + 1)
      BY <3>3
    <3> QED
      BY <3>4, <3>5
  <2>4. n - 1 \in T
    <3>1. n - 1 \in Nat
      BY <1>1, <1>3
    <3> HIDE DEF T
    <3> QED
      BY <2>2, <2>3, <3>1, Induction
  <2>5. Flat(seqs)[n] = SubSeq(text, 1, n)
    BY <1>1, <1>3, <2>4
  <2>6. SubSeq(text, 1, n) = text
    OBVIOUS
  <2> QED
    BY <1>3, <2>5, <2>6, FlattenIsFlat
<1> QED
  BY <1>2, <1>3

-----------------------------------------------------------------------------
(* The folds of Redaction, each as the function that FoldLeft iterates.    *)

Count == Len(Detectors)

(* Every detector has a pattern, and a secret group that the pattern has.  *)
LEMMA DetectorTypes ==
  /\ Count \in Nat /\ DOMAIN Detectors = 1..Count
  /\ \A k \in 1..Count : LET d == Detectors[k] IN
       d.pattern \in Seq(ToSet(d.pattern)) /\ d.group \in 0..Len(d.pattern)
BY DetectorsAssumption DEF Count

(* One-way redaction by one detector.                                      *)
MaskWith(content, text, d) ==
  IF KeywordPrefilterOk(d, content)
    THEN Rewrite(d, text, [i \in MaskedAt(d, text) |-> <<Masked>>]) ELSE text

(* The fold of RedactPermanent.                                            *)
PermanentIter(content) ==
  CHOOSE iter : iter =
    [s \in SUBSET DOMAIN Detectors |->
       IF s = {} THEN content ELSE MaskWith(content, iter[s \ {Max(s)}], Detectors[Max(s)])]

(* One-way redaction goes from set to set as each of its detectors does.   *)
LEMMA PermanentReaches ==
  ASSUME NEW content, NEW V, NEW U,
         content \in V, content \in U[0],
         \A x \in V, k \in 1..Count : MaskWith(content, x, Detectors[k]) \in V,
         \A x \in V, k \in 1..Count :
           x \in U[k - 1] => MaskWith(content, x, Detectors[k]) \in U[k]
  PROVE  RedactPermanent(content) \in V /\ RedactPermanent(content) \in U[Count]
<1> DEFINE F == PermanentIter(content)
           Runs(iter) == iter = [s \in SUBSET DOMAIN Detectors |->
             IF s = {} THEN content ELSE MaskWith(content, iter[s \ {Max(s)}], Detectors[Max(s)])]
           g == [p \in V \X (1..Count) |-> MaskWith(content, p[1], Detectors[p[2]])]
<1>1. RedactPermanent(content) = F[DOMAIN Detectors]
  BY DEF RedactPermanent, FoldLeft, MapThenFoldSet, PermanentIter, MaskWith
<1>2. Count \in Nat /\ DOMAIN Detectors = 1..Count
  BY DetectorTypes
<1>3. g \in [V \X (1..Count) -> V]
  OBVIOUS
<1>4. PICK iter : IsFold(iter, V, content, Count, g)
  <2> HIDE DEF g
  <2> QED
    BY <1>2, <1>3, FoldExists
<1>5. ASSUME NEW S \in SUBSET (1..Count)
      PROVE  iter[S] = IF S = {} THEN content ELSE MaskWith(content, iter[S \ {Max(S)}], Detectors[Max(S)])
  <2>1. CASE S # {}
    <3>1. Max(S) \in S
      BY <2>1, MaxOf, <1>2
    <3>2. <<iter[S \ {Max(S)}], Max(S)>> \in V \X (1..Count)
      BY <1>4, <3>1 DEF IsFold
    <3> QED
      BY <1>4, <2>1, <3>2 DEF IsFold
  <2> QED
    BY <1>4, <2>1 DEF IsFold
<1>6. Runs(iter)
  <2>1. iter = [S \in SUBSET DOMAIN Detectors |-> iter[S]]
    BY <1>2, <1>4 DEF IsFold
  <2> QED
    BY <1>2, <1>5, <2>1
<1>7. Runs(F)
  <2>1. F = CHOOSE f : Runs(f)
    BY DEF PermanentIter
  <2> HIDE DEF F, Runs
  <2> QED
    BY <1>6, <2>1
<1>8. F[{}] = content
  BY <1>2, <1>7
<1>9. ASSUME NEW k \in 1..Count, F[1..(k - 1)] \in V, F[1..(k - 1)] \in U[k - 1]
      PROVE  F[1..k] \in V /\ F[1..k] \in U[k]
  <2>1. 1..k # {} /\ Max(1..k) = k /\ (1..k) \ {k} = 1..(k - 1) /\ 1..k \in SUBSET DOMAIN Detectors
    BY <1>2, Positions
  <2> HIDE DEF F
  <2>2. F[1..k] = MaskWith(content, F[(1..k) \ {Max(1..k)}], Detectors[Max(1..k)])
    BY <1>7, <2>1
  <2> QED
    BY <1>9, <2>1, <2>2
<1> QED
  <2> HIDE DEF F
  <2> QED
    <3>1. F[{}] \in V /\ F[{}] \in U[0]
      BY <1>8
    <3>2. Count \in Nat
      BY DetectorTypes
    <3>3. F[1..Count] \in V /\ F[1..Count] \in U[Count]
      BY <1>9, <3>1, <3>2, FoldReaches
    <3> QED
      BY <1>1, <1>2, <3>3

(* And it stays where each of its steps stays.                             *)
LEMMA PermanentIn ==
  ASSUME NEW content, NEW V,
         content \in V,
         \A x \in V, k \in 1..Count : MaskWith(content, x, Detectors[k]) \in V
  PROVE  RedactPermanent(content) \in V
<1> DEFINE U == [k \in 0..Count |-> V]
<1>1. Count \in Nat
  BY DetectorTypes
<1>2. content \in U[0]
  BY <1>1
<1>3. \A x \in V, k \in 1..Count : x \in U[k - 1] => MaskWith(content, x, Detectors[k]) \in U[k]
  BY <1>1
<1> HIDE DEF U
<1> QED
  BY <1>2, <1>3, PermanentReaches

(* The fold of RedactAt.                                                   *)
RedactIter(s, content, pointer, values) ==
  CHOOSE iter : iter =
    [z \in SUBSET DOMAIN Detectors |->
       IF z = {} THEN [text |-> content, values |-> values] ELSE RedactOne(s, Detectors[Max(z)], content, pointer, iter[z \ {Max(z)}])]

(* So does redaction into a session.                                       *)
LEMMA RedactAtReaches ==
  ASSUME NEW s, NEW content, NEW pointer, NEW values, NEW V, NEW U,
         [text |-> content, values |-> values] \in V, [text |-> content, values |-> values] \in U[0],
         \A x \in V, k \in 1..Count : RedactOne(s, Detectors[k], content, pointer, x) \in V,
         \A x \in V, k \in 1..Count :
           x \in U[k - 1] => RedactOne(s, Detectors[k], content, pointer, x) \in U[k]
  PROVE  RedactAt(s, content, pointer, values) \in V /\ RedactAt(s, content, pointer, values) \in U[Count]
<1> DEFINE F == RedactIter(s, content, pointer, values)
           Runs(iter) == iter = [z \in SUBSET DOMAIN Detectors |->
             IF z = {} THEN [text |-> content, values |-> values] ELSE RedactOne(s, Detectors[Max(z)], content, pointer, iter[z \ {Max(z)}])]
           g == [p \in V \X (1..Count) |-> RedactOne(s, Detectors[p[2]], content, pointer, p[1])]
<1>1. RedactAt(s, content, pointer, values) = F[DOMAIN Detectors]
  BY DEF RedactAt, FoldLeft, MapThenFoldSet, RedactIter
<1>2. Count \in Nat /\ DOMAIN Detectors = 1..Count
  BY DetectorTypes
<1>3. g \in [V \X (1..Count) -> V]
  OBVIOUS
<1>4. PICK iter : IsFold(iter, V, [text |-> content, values |-> values], Count, g)
  <2> HIDE DEF g
  <2> QED
    BY <1>2, <1>3, FoldExists
<1>5. ASSUME NEW S \in SUBSET (1..Count)
      PROVE  iter[S] = IF S = {} THEN [text |-> content, values |-> values] ELSE RedactOne(s, Detectors[Max(S)], content, pointer, iter[S \ {Max(S)}])
  <2>1. CASE S # {}
    <3>1. Max(S) \in S
      BY <2>1, MaxOf, <1>2
    <3>2. <<iter[S \ {Max(S)}], Max(S)>> \in V \X (1..Count)
      BY <1>4, <3>1 DEF IsFold
    <3> QED
      BY <1>4, <2>1, <3>2 DEF IsFold
  <2> QED
    BY <1>4, <2>1 DEF IsFold
<1>6. Runs(iter)
  <2>1. iter = [S \in SUBSET DOMAIN Detectors |-> iter[S]]
    BY <1>2, <1>4 DEF IsFold
  <2> QED
    BY <1>2, <1>5, <2>1
<1>7. Runs(F)
  <2>1. F = CHOOSE f : Runs(f)
    BY DEF RedactIter
  <2> HIDE DEF F, Runs
  <2> QED
    BY <1>6, <2>1
<1>8. F[{}] = [text |-> content, values |-> values]
  BY <1>2, <1>7
<1>9. ASSUME NEW k \in 1..Count, F[1..(k - 1)] \in V, F[1..(k - 1)] \in U[k - 1]
      PROVE  F[1..k] \in V /\ F[1..k] \in U[k]
  <2>1. 1..k # {} /\ Max(1..k) = k /\ (1..k) \ {k} = 1..(k - 1) /\ 1..k \in SUBSET DOMAIN Detectors
    BY <1>2, Positions
  <2> HIDE DEF F
  <2>2. F[1..k] = RedactOne(s, Detectors[Max(1..k)], content, pointer, F[(1..k) \ {Max(1..k)}])
    BY <1>7, <2>1
  <2> QED
    BY <1>9, <2>1, <2>2
<1> QED
  <2> HIDE DEF F
  <2> QED
    <3>1. F[{}] \in V /\ F[{}] \in U[0]
      BY <1>8
    <3>2. Count \in Nat
      BY DetectorTypes
    <3>3. F[1..Count] \in V /\ F[1..Count] \in U[Count]
      BY <1>9, <3>1, <3>2, FoldReaches
    <3> QED
      BY <1>1, <1>2, <3>3

(* And it stays where each of its steps stays.                             *)
LEMMA RedactAtIn ==
  ASSUME NEW s, NEW content, NEW pointer, NEW values, NEW V,
         [text |-> content, values |-> values] \in V,
         \A x \in V, k \in 1..Count : RedactOne(s, Detectors[k], content, pointer, x) \in V
  PROVE  RedactAt(s, content, pointer, values) \in V
<1> DEFINE U == [k \in 0..Count |-> V]
<1>1. Count \in Nat
  BY DetectorTypes
<1>2. [text |-> content, values |-> values] \in U[0]
  BY <1>1
<1>3. \A x \in V, k \in 1..Count : x \in U[k - 1] => RedactOne(s, Detectors[k], content, pointer, x) \in U[k]
  BY <1>1
<1> HIDE DEF U
<1> QED
  BY <1>2, <1>3, RedactAtReaches

(* The positions of a sequence, as FoldLeftDomain goes through them.       *)
Places(seq) == [i \in DOMAIN seq |-> i]

(* One value of the session restored, or its placeholder neutralized.      *)
RestoreWith(s, values, pointer, text, k) ==
  Replace(text, Token(s, k - 1),
          IF Eligible(pointer, values[k].pointer) THEN values[k].value ELSE <<NeutralizedMarker>>)

(* The fold of RestoreAt.                                                  *)
RestoreIter(s, values, content, pointer) ==
  CHOOSE iter : iter =
    [z \in SUBSET DOMAIN Places(values) |->
       IF z = {} THEN content ELSE RestoreWith(s, values, pointer, iter[z \ {Max(z)}], Places(values)[Max(z)])]

(* So does restoration.                                                    *)
LEMMA RestoreReaches ==
  ASSUME NEW s, NEW values, NEW content, NEW pointer, NEW V, NEW U,
         Len(values) \in Nat, DOMAIN values = 1..Len(values),
         content \in V, content \in U[0],
         \A x \in V, k \in 1..Len(values) : RestoreWith(s, values, pointer, x, Places(values)[k]) \in V,
         \A x \in V, k \in 1..Len(values) :
           x \in U[k - 1] => RestoreWith(s, values, pointer, x, Places(values)[k]) \in U[k]
  PROVE  RestoreAt(s, values, content, pointer) \in V /\ RestoreAt(s, values, content, pointer) \in U[Len(values)]
<1> DEFINE F == RestoreIter(s, values, content, pointer)
           Runs(iter) == iter = [z \in SUBSET DOMAIN Places(values) |->
             IF z = {} THEN content ELSE RestoreWith(s, values, pointer, iter[z \ {Max(z)}], Places(values)[Max(z)])]
           g == [p \in V \X (1..Len(values)) |-> RestoreWith(s, values, pointer, p[1], Places(values)[p[2]])]
<1>1. RestoreAt(s, values, content, pointer) = F[DOMAIN Places(values)]
  BY DEF RestoreAt, FoldLeftDomain, FoldLeft, MapThenFoldSet, Places, RestoreIter,
     RestoreWith
<1>2. Len(values) \in Nat /\ DOMAIN Places(values) = 1..Len(values)
  BY DEF Places
<1>3. g \in [V \X (1..Len(values)) -> V]
  OBVIOUS
<1>4. PICK iter : IsFold(iter, V, content, Len(values), g)
  <2> HIDE DEF g
  <2> QED
    BY <1>2, <1>3, FoldExists
<1>5. ASSUME NEW S \in SUBSET (1..Len(values))
      PROVE  iter[S] = IF S = {} THEN content ELSE RestoreWith(s, values, pointer, iter[S \ {Max(S)}], Places(values)[Max(S)])
  <2>1. CASE S # {}
    <3>1. Max(S) \in S
      BY <2>1, MaxOf, <1>2
    <3>2. <<iter[S \ {Max(S)}], Max(S)>> \in V \X (1..Len(values))
      BY <1>4, <3>1 DEF IsFold
    <3> QED
      BY <1>4, <2>1, <3>2 DEF IsFold
  <2> QED
    BY <1>4, <2>1 DEF IsFold
<1>6. Runs(iter)
  <2>1. iter = [S \in SUBSET DOMAIN Places(values) |-> iter[S]]
    BY <1>2, <1>4 DEF IsFold
  <2> QED
    BY <1>2, <1>5, <2>1
<1>7. Runs(F)
  <2>1. F = CHOOSE f : Runs(f)
    BY DEF RestoreIter
  <2> HIDE DEF F, Runs
  <2> QED
    BY <1>6, <2>1
<1>8. F[{}] = content
  BY <1>2, <1>7
<1>9. ASSUME NEW k \in 1..Len(values), F[1..(k - 1)] \in V, F[1..(k - 1)] \in U[k - 1]
      PROVE  F[1..k] \in V /\ F[1..k] \in U[k]
  <2>1. 1..k # {} /\ Max(1..k) = k /\ (1..k) \ {k} = 1..(k - 1) /\ 1..k \in SUBSET DOMAIN Places(values)
    BY <1>2, Positions
  <2> HIDE DEF F
  <2>2. F[1..k] = RestoreWith(s, values, pointer, F[(1..k) \ {Max(1..k)}], Places(values)[Max(1..k)])
    BY <1>7, <2>1
  <2> QED
    BY <1>9, <2>1, <2>2
<1> QED
  <2> HIDE DEF F
  <2> QED
    <3>1. F[{}] \in V /\ F[{}] \in U[0]
      BY <1>8
    <3>2. Len(values) \in Nat
      OBVIOUS
    <3>3. F[1..Len(values)] \in V /\ F[1..Len(values)] \in U[Len(values)]
      BY <1>9, <3>1, <3>2, FoldReaches
    <3> QED
      BY <1>1, <1>2, <3>3

(* And it stays where each of its steps stays.                             *)
LEMMA RestoreIn ==
  ASSUME NEW s, NEW values, NEW content, NEW pointer, NEW V,
         Len(values) \in Nat, DOMAIN values = 1..Len(values),
         content \in V,
         \A x \in V, k \in 1..Len(values) : RestoreWith(s, values, pointer, x, Places(values)[k]) \in V
  PROVE  RestoreAt(s, values, content, pointer) \in V
<1> DEFINE U == [k \in 0..Len(values) |-> V]
<1>1. Len(values) \in Nat
  OBVIOUS
<1>2. content \in U[0]
  BY <1>1
<1>3. \A x \in V, k \in 1..Len(values) : x \in U[k - 1] => RestoreWith(s, values, pointer, x, Places(values)[k]) \in U[k]
  BY <1>1
<1> HIDE DEF U
<1> QED
  BY <1>2, <1>3, RestoreReaches, <1>1

(* One position looked at by the search for matches.                       *)
ScanWith(d, text, seen, i) ==
  IF i >= seen.from /\ Matches(d, text, i)
    THEN [at |-> seen.at \cup {i}, from |-> i + Len(d.pattern)]
    ELSE seen

(* The fold of Found.                                                      *)
ScanIter(d, text) ==
  CHOOSE iter : iter =
    [s \in SUBSET DOMAIN Places(text) |->
       IF s = {} THEN [at |-> {}, from |-> 1] ELSE ScanWith(d, text, iter[s \ {Max(s)}], Places(text)[Max(s)])]

(* So does the search for matches.                                         *)
LEMMA ScanReaches ==
  ASSUME NEW d, NEW text, NEW V, NEW U,
         Len(text) \in Nat, DOMAIN text = 1..Len(text),
         [at |-> {}, from |-> 1] \in V, [at |-> {}, from |-> 1] \in U[0],
         \A x \in V, k \in 1..Len(text) : ScanWith(d, text, x, Places(text)[k]) \in V,
         \A x \in V, k \in 1..Len(text) :
           x \in U[k - 1] => ScanWith(d, text, x, Places(text)[k]) \in U[k]
  PROVE  \E seen \in V : seen \in U[Len(text)] /\ Found(d, text) = seen.at
<1> DEFINE F == ScanIter(d, text)
           Runs(iter) == iter = [s \in SUBSET DOMAIN Places(text) |->
             IF s = {} THEN [at |-> {}, from |-> 1] ELSE ScanWith(d, text, iter[s \ {Max(s)}], Places(text)[Max(s)])]
           g == [p \in V \X (1..Len(text)) |-> ScanWith(d, text, p[1], Places(text)[p[2]])]
<1>1. Found(d, text) = F[DOMAIN Places(text)].at
  BY DEF Found, FoldLeftDomain, FoldLeft, MapThenFoldSet, Places, ScanIter, ScanWith
<1>2. Len(text) \in Nat /\ DOMAIN Places(text) = 1..Len(text)
  BY DEF Places
<1>3. g \in [V \X (1..Len(text)) -> V]
  OBVIOUS
<1>4. PICK iter : IsFold(iter, V, [at |-> {}, from |-> 1], Len(text), g)
  <2> HIDE DEF g
  <2> QED
    BY <1>2, <1>3, FoldExists
<1>5. ASSUME NEW S \in SUBSET (1..Len(text))
      PROVE  iter[S] = IF S = {} THEN [at |-> {}, from |-> 1] ELSE ScanWith(d, text, iter[S \ {Max(S)}], Places(text)[Max(S)])
  <2>1. CASE S # {}
    <3>1. Max(S) \in S
      BY <2>1, MaxOf, <1>2
    <3>2. <<iter[S \ {Max(S)}], Max(S)>> \in V \X (1..Len(text))
      BY <1>4, <3>1 DEF IsFold
    <3> QED
      BY <1>4, <2>1, <3>2 DEF IsFold
  <2> QED
    BY <1>4, <2>1 DEF IsFold
<1>6. Runs(iter)
  <2>1. iter = [S \in SUBSET DOMAIN Places(text) |-> iter[S]]
    BY <1>2, <1>4 DEF IsFold
  <2> QED
    BY <1>2, <1>5, <2>1
<1>7. Runs(F)
  <2>1. F = CHOOSE f : Runs(f)
    BY DEF ScanIter
  <2> HIDE DEF F, Runs
  <2> QED
    BY <1>6, <2>1
<1>8. F[{}] = [at |-> {}, from |-> 1]
  BY <1>2, <1>7
<1>9. ASSUME NEW k \in 1..Len(text), F[1..(k - 1)] \in V, F[1..(k - 1)] \in U[k - 1]
      PROVE  F[1..k] \in V /\ F[1..k] \in U[k]
  <2>1. 1..k # {} /\ Max(1..k) = k /\ (1..k) \ {k} = 1..(k - 1) /\ 1..k \in SUBSET DOMAIN Places(text)
    BY <1>2, Positions
  <2> HIDE DEF F
  <2>2. F[1..k] = ScanWith(d, text, F[(1..k) \ {Max(1..k)}], Places(text)[Max(1..k)])
    BY <1>7, <2>1
  <2> QED
    BY <1>9, <2>1, <2>2
<1> QED
  <2> HIDE DEF F
  <2> QED
    <3>1. F[{}] \in V /\ F[{}] \in U[0]
      BY <1>8
    <3>2. Len(text) \in Nat
      OBVIOUS
    <3>3. F[1..Len(text)] \in V /\ F[1..Len(text)] \in U[Len(text)]
      BY <1>9, <3>1, <3>2, FoldReaches
    <3> QED
      BY <1>1, <1>2, <3>3

(* And it stays where each of its steps stays.                             *)
LEMMA ScanIn ==
  ASSUME NEW d, NEW text, NEW V,
         Len(text) \in Nat, DOMAIN text = 1..Len(text),
         [at |-> {}, from |-> 1] \in V,
         \A x \in V, k \in 1..Len(text) : ScanWith(d, text, x, Places(text)[k]) \in V
  PROVE  \E seen \in V : Found(d, text) = seen.at
<1> DEFINE U == [k \in 0..Len(text) |-> V]
<1>1. Len(text) \in Nat
  OBVIOUS
<1>2. [at |-> {}, from |-> 1] \in U[0]
  BY <1>1
<1>3. \A x \in V, k \in 1..Len(text) : x \in U[k - 1] => ScanWith(d, text, x, Places(text)[k]) \in U[k]
  BY <1>1
<1> HIDE DEF U
<1> QED
  BY <1>2, <1>3, ScanReaches, <1>1

-----------------------------------------------------------------------------
(* Rewriting.                                                              *)

(* A text over W is a text, of symbols of W.                               *)
LEMMA TextOver ==
  ASSUME NEW W, NEW text \in Seq(W)
  PROVE  /\ IsText(text) /\ ToSet(text) \subseteq W
         /\ Len(text) \in Nat /\ DOMAIN text = 1..Len(text)
         /\ \A i \in DOMAIN text : text[i] \in W
BY DEF IsText, ToSet

(* With no match to replace nothing changes.                               *)
LEMMA RewriteNothing ==
  ASSUME NEW d, NEW text, IsText(text), NEW by, DOMAIN by = {}
  PROVE  Rewrite(d, text, by) = text
<1> DEFINE seqs == [i \in DOMAIN text |-> <<text[i]>>]
<1>1. Rewrite(d, text, by) = FlattenSeq(seqs)
  BY DEF Rewrite
<1>2. Len(seqs) = Len(text) /\ DOMAIN seqs = 1..Len(text) /\ \A i \in 1..Len(text) : seqs[i] = <<text[i]>>
  BY DEF IsText
<1> HIDE DEF seqs
<1> QED
  BY <1>1, <1>2, FlattenSingles DEF IsText

(* A rewritten text is made of the text and of the replacements.           *)
LEMMA RewriteIn ==
  ASSUME NEW W, NEW d, NEW text \in Seq(W), NEW by, \A i \in DOMAIN by : by[i] \in Seq(W)
  PROVE  Rewrite(d, text, by) \in Seq(W)
<1> DEFINE at == DOMAIN by
           part(i) == CASE i \in at -> by[i]
                        [] i \notin at /\ \E j \in at : j < i /\ i < j + Len(d.pattern) -> <<>>
                        [] OTHER -> <<text[i]>>
           seqs == [i \in DOMAIN text |-> part(i)]
<1>1. Rewrite(d, text, by) = FlattenSeq(seqs)
  BY DEF Rewrite
<1>2. ASSUME NEW i \in DOMAIN text PROVE part(i) \in Seq(W)
  <2>1. text[i] \in W /\ <<text[i]>> \in Seq(W) /\ <<>> \in Seq(W)
    OBVIOUS
  <2> QED
    BY <2>1
<1>3. seqs \in Seq(Seq(W))
  <2>1. DOMAIN text = 1..Len(text) /\ Len(text) \in Nat
    OBVIOUS
  <2> HIDE DEF part
  <2> QED
    BY <1>2, <2>1
<1> QED
  <2> HIDE DEF seqs
  <2> QED
    BY <1>1, <1>3, FlattenIn

(* What a symbol is replaced with is all that is new in a text.            *)
LEMMA ReplaceIn ==
  ASSUME NEW W, NEW text \in Seq(W), NEW symbol, NEW by \in Seq(W)
  PROVE  Replace(text, symbol, by) \in Seq(W)
<1> DEFINE seqs == [i \in DOMAIN text |-> IF text[i] = symbol THEN by ELSE <<text[i]>>]
<1>1. seqs \in Seq(Seq(W))
  <2>1. DOMAIN text = 1..Len(text) /\ Len(text) \in Nat
    OBVIOUS
  <2> QED
    BY <2>1
<1> QED
  <2> HIDE DEF seqs
  <2>1. Replace(text, symbol, by) = FlattenSeq(seqs)
    BY DEF Replace, seqs
  <2> QED
    BY <1>1, <2>1, FlattenIn

(* What does not occur is not replaced.                                    *)
LEMMA ReplaceNothing ==
  ASSUME NEW text, IsText(text), NEW symbol, NEW by, ~Occurs(symbol, text)
  PROVE  Replace(text, symbol, by) = text
<1> DEFINE seqs == [i \in DOMAIN text |-> <<text[i]>>]
<1>1. Replace(text, symbol, by) = FlattenSeq(seqs)
  BY DEF Replace, Occurs
<1>2. Len(seqs) = Len(text) /\ DOMAIN seqs = 1..Len(text) /\ \A i \in 1..Len(text) : seqs[i] = <<text[i]>>
  BY DEF IsText
<1> HIDE DEF seqs
<1> QED
  BY <1>1, <1>2, FlattenSingles DEF IsText

-----------------------------------------------------------------------------
(* Detection.                                                              *)

(* What is found is a match, and within the text.                          *)
LEMMA FoundMatches ==
  ASSUME NEW d, NEW text, IsText(text)
  PROVE  Found(d, text) \subseteq {i \in DOMAIN text : Matches(d, text, i)}
<1> DEFINE M == {i \in DOMAIN text : Matches(d, text, i)}
           V == [at : SUBSET M, from : {1} \cup {i + Len(d.pattern) : i \in DOMAIN text}]
<1>1. Len(text) \in Nat /\ DOMAIN text = 1..Len(text)
  BY DEF IsText
<1>2. [at |-> {}, from |-> 1] \in V
  OBVIOUS
<1>3. ASSUME NEW x \in V, NEW k \in 1..Len(text) PROVE ScanWith(d, text, x, Places(text)[k]) \in V
  <2>1. Places(text)[k] = k /\ k \in DOMAIN text
    BY <1>1 DEF Places
  <2>2. CASE k >= x.from /\ Matches(d, text, k)
    BY <2>1, <2>2 DEF ScanWith
  <2>3. CASE ~(k >= x.from /\ Matches(d, text, k))
    BY <2>1, <2>3 DEF ScanWith
  <2> QED
    BY <2>2, <2>3
<1>4. \E seen \in V : Found(d, text) = seen.at
  <2> HIDE DEF V
  <2> QED
    BY <1>1, <1>2, <1>3, ScanIn
<1> QED
  BY <1>4

(* A match is made of the text's symbols, and so is its secret.            *)
LEMMA MatchIn ==
  ASSUME NEW k \in 1..Count, NEW W, NEW text \in Seq(W), NEW i \in Found(Detectors[k], text)
  PROVE  /\ MatchAt(Detectors[k], text, i) \in Seq(W)
         /\ Len(MatchAt(Detectors[k], text, i)) = Len(Detectors[k].pattern)
         /\ Secret(Detectors[k], MatchAt(Detectors[k], text, i)) \in Seq(W)
<1> DEFINE d == Detectors[k]
           n == Len(d.pattern)
<1>1. n \in Nat /\ d.group \in 0..n
  BY DetectorTypes
<1>2. IsText(text) /\ Len(text) \in Nat /\ DOMAIN text = 1..Len(text)
  BY TextOver
<1>3. i \in 1..Len(text) /\ i + n - 1 <= Len(text)
  BY <1>2, FoundMatches DEF Matches
<1>4. SubSeq(text, i, i + n - 1) \in Seq(W) /\ Len(SubSeq(text, i, i + n - 1)) = n
  <2>1. i - 1 <= i + n - 1 /\ i + n - 1 \in 0..Len(text)
    BY <1>1, <1>2, <1>3
  <2>2. \A m \in i..(i + n - 1) : text[m] \in W
    BY <1>1, <1>2, <1>3
  <2> HIDE DEF n
  <2> QED
    BY <1>1, <1>3, <2>1, <2>2, SubSeqProperties
<1>5. ASSUME d.group # 0 PROVE <<SubSeq(text, i, i + n - 1)[d.group]>> \in Seq(W)
  <2> DEFINE match == SubSeq(text, i, i + n - 1)
  <2>1. match \in Seq(W) /\ d.group \in 1..Len(match)
    BY <1>1, <1>4, <1>5
  <2> HIDE DEF match, d, n
  <2>2. match[d.group] \in W
    BY <2>1
  <2>3. <<match[d.group]>> \in Seq(W)
    BY <2>2
  <2> QED
    BY <2>3 DEF match
<1> QED
  <2> HIDE DEF d
  <2>1. MatchAt(d, text, i) = SubSeq(text, i, i + n - 1)
    BY DEF MatchAt
  <2>2. Secret(d, MatchAt(d, text, i)) \in Seq(W)
    BY <1>4, <1>5, <2>1 DEF Secret
  <2> QED
    BY <1>4, <2>1, <2>2 DEF d

-----------------------------------------------------------------------------
(* The order of the matches.                                               *)

(* Every match has its turn.                                               *)
LEMMA NthIn ==
  ASSUME NEW n \in Nat, NEW at \in SUBSET (1..n), NEW k \in 1..Cardinality(at)
  PROVE  Nth(at, k) \in at
<1> DEFINE T == {m \in 0..n : \A S \in SUBSET (1..m) : \A j \in 1..Cardinality(S) :
                   \E i \in S : Before(S, i) = j - 1}
<1>1. 0 \in T
  <2>1. \A S \in SUBSET (1..0) : 1..Cardinality(S) = {}
    <3>1. \A S \in SUBSET (1..0) : S = {}
      OBVIOUS
    <3>2. 1..Cardinality({}) = {}
      BY FS_EmptySet
    <3> QED
      BY <3>1, <3>2
  <2> QED
    BY <2>1
<1>2. ASSUME NEW m \in 0..(n - 1), m \in T PROVE m + 1 \in T
  <2>1. SUFFICES ASSUME NEW S \in SUBSET (1..(m + 1)), NEW j \in 1..Cardinality(S)
                 PROVE  \E i \in S : Before(S, i) = j - 1
    OBVIOUS
  <2>2. CASE m + 1 \notin S
    <3>1. S \in SUBSET (1..m)
      BY <2>2
    <3> QED
      BY <1>2, <3>1
  <2>3. CASE m + 1 \in S
    <3> DEFINE R == S \ {m + 1}
    <3> m \in Nat
      OBVIOUS
    <3>1. R \in SUBSET (1..m) /\ IsFiniteSet(S)
      <4>1. IsFiniteSet(1..(m + 1))
        BY FS_Interval
      <4>2. \A i \in S : i \in 1..(m + 1) /\ (i # m + 1 => i \in 1..m)
        OBVIOUS
      <4> QED
        BY <4>1, <4>2, FS_Subset
    <3>2. IsFiniteSet(R) /\ Cardinality(R) = Cardinality(S) - 1 /\ Cardinality(S) \in Nat
      BY <2>3, <3>1, FS_RemoveElement, FS_CardinalityType
    <3>3. CASE j = Cardinality(S)
      <4>1. {i \in S : i < m + 1} = R
        <5>1. \A i \in S : i < m + 1 <=> i # m + 1
          OBVIOUS
        <5> QED
          BY <5>1
      <4>2. Before(S, m + 1) = j - 1
        <5>1. Before(S, m + 1) = Cardinality(R)
          BY <4>1 DEF Before
        <5> QED
          BY <3>2, <3>3, <5>1
      <4> QED
        BY <2>3, <4>2
    <3>4. CASE j # Cardinality(S)
      <4>1. j \in 1..Cardinality(R)
        BY <3>2, <3>4
      <4>2. PICK i \in R : Before(R, i) = j - 1
        BY <1>2, <3>1, <4>1
      <4>3. {x \in S : x < i} = {x \in R : x < i}
        BY <3>1, <4>2
      <4> QED
        BY <4>2, <4>3 DEF Before
    <3> QED
      BY <3>3, <3>4
  <2> QED
    BY <2>2, <2>3
<1>3. n \in T
  <2> HIDE DEF T
  <2> QED
    BY <1>1, <1>2, InductionTo
<1>4. \E i \in at : Before(at, i) = k - 1
  BY <1>3
<1> QED
  BY <1>4 DEF Nth

-----------------------------------------------------------------------------
(* Redaction and restoration of a text.                                    *)

(* Where a detector redacts into the session.                              *)
RedactedAt(content, text, d) ==
  IF KeywordPrefilterOk(d, content) THEN SecretsAt(d, text) ELSE {}

(* Redaction makes a text of the symbols it was made of and of             *)
(* placeholders, and stores texts.                                         *)
LEMMA RedactOneIn ==
  ASSUME NEW s, NEW content, NEW pointer, NEW k \in 1..Count, NEW W, NEW E,
         \A n \in Nat : Token(s, n) \in W,
         \A value \in Seq(W) : Entry(value, pointer) \in E,
         NEW acc \in [text : Seq(W), values : Seq(E)]
  PROVE  RedactOne(s, Detectors[k], content, pointer, acc) \in [text : Seq(W), values : Seq(E)]
<1> DEFINE d == Detectors[k]
           at == RedactedAt(content, acc.text, d)
           token(i) == Token(s, Len(acc.values) + Before(at, i))
           by == [i \in at |-> IF d.group = 0 THEN <<token(i)>>
                               ELSE [MatchAt(d, acc.text, i) EXCEPT ![d.group] = token(i)]]
           stored == [j \in 1..Cardinality(at) |->
                        Entry(Secret(d, MatchAt(d, acc.text, Nth(at, j))), pointer)]
<1>1. RedactOne(s, d, content, pointer, acc)
        = [text |-> Rewrite(d, acc.text, by), values |-> acc.values \o stored]
  BY DEF RedactOne, RedactedAt
<1>2. acc.text \in Seq(W) /\ acc.values \in Seq(E) /\ Len(acc.values) \in Nat
  OBVIOUS
<1>3. at \subseteq Found(d, acc.text) /\ at \in SUBSET (1..Len(acc.text)) /\ Len(acc.text) \in Nat
  <2>1. IsText(acc.text) /\ DOMAIN acc.text = 1..Len(acc.text) /\ Len(acc.text) \in Nat
    BY <1>2, TextOver
  <2> QED
    BY <2>1, FoundMatches DEF SecretsAt, RedactedAt
<1>4. IsFiniteSet(at) /\ Cardinality(at) \in Nat
  <2>1. IsFiniteSet(1..Len(acc.text))
    BY <1>3, FS_Interval
  <2> HIDE DEF at
  <2>2. IsFiniteSet(at)
    BY <1>3, <2>1, FS_Subset
  <2> QED
    BY <2>2, FS_CardinalityType
<1>5. ASSUME NEW i \in at PROVE by[i] \in Seq(W)
  <2>1. Before(at, i) \in Nat
    <3>1. IsFiniteSet({j \in at : j < i})
      BY <1>4, FS_Subset
    <3> QED
      BY <3>1, FS_CardinalityType DEF Before
  <2>2. token(i) \in W
    BY <1>2, <2>1
  <2>3. MatchAt(d, acc.text, i) \in Seq(W) /\ Len(MatchAt(d, acc.text, i)) = Len(d.pattern)
    BY <1>2, <1>3, MatchIn
  <2>4. d.group # 0 => d.group \in 1..Len(MatchAt(d, acc.text, i))
    BY <2>3, DetectorTypes
  <2>5. by[i] = IF d.group = 0 THEN <<token(i)>> ELSE [MatchAt(d, acc.text, i) EXCEPT ![d.group] = token(i)]
    OBVIOUS
  <2> HIDE DEF by, token, at, d
  <2>6. d.group # 0 => [MatchAt(d, acc.text, i) EXCEPT ![d.group] = token(i)] \in Seq(W)
    BY <2>2, <2>3, <2>4, ExceptSeq
  <2>7. <<token(i)>> \in Seq(W)
    BY <2>2
  <2> QED
    BY <2>5, <2>6, <2>7
<1>6. stored \in Seq(E)
  <2>1. ASSUME NEW j \in 1..Cardinality(at) PROVE stored[j] \in E
    <3>1. Nth(at, j) \in at
      BY <1>3, NthIn
    <3>2. Secret(d, MatchAt(d, acc.text, Nth(at, j))) \in Seq(W)
      <4> HIDE DEF at
      <4> QED
        BY <1>2, <1>3, <3>1, MatchIn
    <3> QED
      BY <3>2
  <2>2. stored \in [1..Cardinality(at) -> E]
    BY <2>1
  <2> HIDE DEF stored
  <2> QED
    BY <1>4, <2>2
<1>7. Rewrite(d, acc.text, by) \in Seq(W)
  <2>1. DOMAIN by = at
    OBVIOUS
  <2> HIDE DEF by
  <2> QED
    BY <1>2, <1>5, <2>1, RewriteIn
<1>8. acc.values \o stored \in Seq(E)
  <2> HIDE DEF stored
  <2> QED
    BY <1>2, <1>6
<1> QED
  <2> HIDE DEF by, stored
  <2> QED
    BY <1>1, <1>7, <1>8

(* The text that leaves and the values kept are texts again.               *)
LEMMA RedactAtTyped ==
  ASSUME NEW s, NEW pointer, NEW W, NEW E,
         \A n \in Nat : Token(s, n) \in W,
         \A value \in Seq(W) : Entry(value, pointer) \in E,
         NEW content \in Seq(W), NEW values \in Seq(E)
  PROVE  RedactAt(s, content, pointer, values) \in [text : Seq(W), values : Seq(E)]
<1> DEFINE V == [text : Seq(W), values : Seq(E)]
<1>1. [text |-> content, values |-> values] \in V
  OBVIOUS
<1>2. \A x \in V, k \in 1..Count : RedactOne(s, Detectors[k], content, pointer, x) \in V
  BY RedactOneIn
<1> HIDE DEF V
<1>3. RedactAt(s, content, pointer, values) \in V
  BY <1>1, <1>2, RedactAtIn
<1> QED
  BY <1>3 DEF V

(* Redaction leaves alone what detection finds nothing in: both ask each   *)
(* rule for its keywords and each match for its gate.                      *)
LEMMA CleanUntouched ==
  ASSUME NEW s, NEW pointer, NEW E, NEW text, IsText(text), NEW values \in Seq(E),
         ~CheckViolations(text)
  PROVE  RedactAt(s, text, pointer, values) = [text |-> text, values |-> values]
<1> DEFINE same == [text |-> text, values |-> values]
           V == {same}
<1>1. ASSUME NEW k \in 1..Count PROVE RedactOne(s, Detectors[k], text, pointer, same) = same
  <2> DEFINE d == Detectors[k]
             by == [i \in {} |-> IF d.group = 0 THEN <<Token(s, Len(values) + Before({}, i))>>
                      ELSE [MatchAt(d, text, i) EXCEPT ![d.group] = Token(s, Len(values) + Before({}, i))]]
             stored == [j \in 1..Cardinality({}) |->
                          Entry(Secret(d, MatchAt(d, text, Nth({}, j))), pointer)]
  <2>1. RedactedAt(text, text, d) = {}
    BY DetectorTypes DEF CheckViolations, Triggers, RedactedAt
  <2>2. RedactOne(s, d, text, pointer, same)
          = [text |-> Rewrite(d, text, by), values |-> values \o stored]
    BY <2>1 DEF RedactOne, RedactedAt
  <2>3. Rewrite(d, text, by) = text
    <3>1. DOMAIN by = {}
      OBVIOUS
    <3> HIDE DEF by
    <3> QED
      BY <3>1, RewriteNothing
  <2>4. stored = <<>>
    <3>1. 1..Cardinality({}) = {}
      BY FS_EmptySet
    <3> QED
      BY <3>1
  <2>5. values \o stored = values
    <3> HIDE DEF stored
    <3> QED
      BY <2>4
  <2> QED
    <3> HIDE DEF by, stored
    <3> QED
      BY <2>2, <2>3, <2>5
<1>2. \A x \in V, k \in 1..Count : RedactOne(s, Detectors[k], text, pointer, x) \in V
  <2> HIDE DEF same
  <2> QED
    BY <1>1
<1>3. same \in V
  OBVIOUS
<1>4. RedactAt(s, text, pointer, values) \in V
  <2> HIDE DEF V
  <2> QED
    BY <1>2, <1>3, RedactAtIn
<1> QED
  BY <1>4

(* One-way redaction adds nothing but its mark.                            *)
LEMMA PermanentTyped ==
  ASSUME NEW W, NEW content \in Seq(W), Masked \in W
  PROVE  RedactPermanent(content) \in Seq(W)
<1>1. ASSUME NEW x \in Seq(W), NEW k \in 1..Count
      PROVE  MaskWith(content, x, Detectors[k]) \in Seq(W)
  <2> DEFINE by == [i \in MaskedAt(Detectors[k], x) |-> <<Masked>>]
  <2>1. \A i \in DOMAIN by : by[i] \in Seq(W)
    OBVIOUS
  <2> HIDE DEF by
  <2>2. Rewrite(Detectors[k], x, by) \in Seq(W)
    BY <2>1, RewriteIn
  <2> QED
    BY <2>2 DEF MaskWith, by
<1> DEFINE V == Seq(W)
<1> HIDE DEF V
<1>2. RedactPermanent(content) \in V
  BY <1>1, PermanentIn DEF V
<1> QED
  BY <1>2 DEF V

(* One-way redaction leaves alone what no detector has a match to mask in. *)
LEMMA PermanentNothing ==
  ASSUME NEW content, IsText(content), NothingToMask(content)
  PROVE  RedactPermanent(content) = content
<1> DEFINE V == {content}
<1>1. ASSUME NEW k \in 1..Count PROVE MaskWith(content, content, Detectors[k]) = content
  <2> DEFINE by == [i \in MaskedAt(Detectors[k], content) |-> <<Masked>>]
  <2>1. KeywordPrefilterOk(Detectors[k], content) => DOMAIN by = {}
    BY DetectorTypes DEF NothingToMask
  <2> HIDE DEF by
  <2>2. DOMAIN by = {} => Rewrite(Detectors[k], content, by) = content
    BY RewriteNothing
  <2> QED
    BY <2>1, <2>2 DEF MaskWith, by
<1>2. RedactPermanent(content) \in V
  <2>1. \A x \in V, k \in 1..Count : MaskWith(content, x, Detectors[k]) \in V
    BY <1>1
  <2>2. content \in V
    OBVIOUS
  <2> HIDE DEF V
  <2> QED
    BY <2>1, <2>2, PermanentIn
<1> QED
  BY <1>2

(* Restoration adds nothing but its mark and the values that belong there. *)
LEMMA RestoreTyped ==
  ASSUME NEW s, NEW pointer, NEW W, NEW content \in Seq(W), NeutralizedMarker \in W,
         NEW E, NEW values \in Seq(E),
         \A k \in 1..Len(values) :
           Eligible(pointer, values[k].pointer) => values[k].value \in Seq(W)
  PROVE  RestoreAt(s, values, content, pointer) \in Seq(W)
<1>1. ASSUME NEW x \in Seq(W), NEW k \in 1..Len(values)
      PROVE  RestoreWith(s, values, pointer, x, Places(values)[k]) \in Seq(W)
  <2>1. Places(values)[k] = k
    BY DEF Places
  <2>2. (IF Eligible(pointer, values[k].pointer) THEN values[k].value
         ELSE <<NeutralizedMarker>>) \in Seq(W)
    OBVIOUS
  <2>3. RestoreWith(s, values, pointer, x, k) \in Seq(W)
    BY <2>2, ReplaceIn DEF RestoreWith
  <2> QED
    BY <2>1, <2>3
<1>2. Len(values) \in Nat /\ DOMAIN values = 1..Len(values)
  OBVIOUS
<1> DEFINE V == Seq(W)
<1> HIDE DEF V
<1>3. RestoreAt(s, values, content, pointer) \in V
  BY <1>1, <1>2, RestoreIn DEF V
<1> QED
  BY <1>3 DEF V

(* A text without a placeholder of the session stays as it is.             *)
LEMMA RestoreNothing ==
  ASSUME NEW s, NEW pointer, NEW content, IsText(content), NEW E, NEW values \in Seq(E),
         \A k \in 1..Len(values) : ~Occurs(Token(s, k - 1), content)
  PROVE  RestoreAt(s, values, content, pointer) = content
<1> DEFINE V == {content}
<1>1. ASSUME NEW k \in 1..Len(values)
      PROVE  RestoreWith(s, values, pointer, content, Places(values)[k]) = content
  <2>1. Places(values)[k] = k
    BY DEF Places
  <2>2. RestoreWith(s, values, pointer, content, k) = content
    BY ReplaceNothing DEF RestoreWith
  <2> QED
    BY <2>1, <2>2
<1>2. Len(values) \in Nat /\ DOMAIN values = 1..Len(values)
  OBVIOUS
<1>3. RestoreAt(s, values, content, pointer) \in V
  <2>1. \A x \in V, k \in 1..Len(values) :
          RestoreWith(s, values, pointer, x, Places(values)[k]) \in V
    BY <1>1
  <2>2. content \in V
    OBVIOUS
  <2> HIDE DEF V
  <2> QED
    BY <1>2, <2>1, <2>2, RestoreIn
<1> QED
  BY <1>3

-----------------------------------------------------------------------------
(* Sequences of texts put together.                                        *)

(* A sequence of texts is flattened through prefixes that each add one.    *)
LEMMA FlattenUnique ==
  ASSUME NEW W, NEW seqs \in Seq(Seq(W)), NEW R, R[0] = <<>>,
         \A i \in 1..Len(seqs) : R[i] = R[i - 1] \o seqs[i]
  PROVE  FlattenSeq(seqs) = R[Len(seqs)]
<1> DEFINE n == Len(seqs)
<1>1. n \in Nat /\ \A i \in 1..n : seqs[i] \in Seq(W)
  OBVIOUS
<1>2. CASE n = 0
  <2>1. seqs = <<>>
    BY <1>2
  <2> QED
    BY <1>2, <2>1 DEF FlattenSeq
<1>3. CASE n # 0
  <2> DEFINE T == {k \in Nat : k + 1 <= n => Flat(seqs)[k + 1] = R[k + 1]}
  <2>1. \A i \in 1..n : Flat(seqs)[i] = IF i = 1 THEN seqs[i] ELSE Flat(seqs)[i - 1] \o seqs[i]
    BY <1>1, FlatRuns
  <2>2. 0 \in T
    <3>1. 1 \in 1..n /\ 1 - 1 = 0
      BY <1>1, <1>3
    <3>2. R[1] = <<>> \o seqs[1]
      BY <3>1
    <3>3. <<>> \o seqs[1] = seqs[1]
      BY <1>1, <3>1
    <3> QED
      BY <2>1, <3>1, <3>2, <3>3
  <2>3. ASSUME NEW k \in Nat, k \in T PROVE k + 1 \in T
    <3>1. SUFFICES ASSUME (k + 1) + 1 <= n PROVE Flat(seqs)[(k + 1) + 1] = R[(k + 1) + 1]
      OBVIOUS
    <3>2. Flat(seqs)[k + 1] = R[k + 1]
      BY <1>1, <2>3, <3>1
    <3>3. (k + 1) + 1 \in 1..n /\ (k + 1) + 1 # 1 /\ ((k + 1) + 1) - 1 = k + 1
      BY <1>1, <3>1
    <3>4. Flat(seqs)[(k + 1) + 1] = Flat(seqs)[k + 1] \o seqs[(k + 1) + 1]
      BY <2>1, <3>3
    <3>5. R[(k + 1) + 1] = R[k + 1] \o seqs[(k + 1) + 1]
      BY <3>3
    <3> QED
      BY <3>2, <3>4, <3>5
  <2>4. n - 1 \in T
    <3>1. n - 1 \in Nat
      BY <1>1, <1>3
    <3> HIDE DEF T
    <3> QED
      BY <2>2, <2>3, <3>1, Induction
  <2>5. Flat(seqs)[n] = R[n]
    BY <1>1, <1>3, <2>4
  <2> QED
    BY <1>3, <2>5, FlattenIsFlat
<1> QED
  BY <1>2, <1>3

(* The first m of those prefixes.                                          *)
PrefixesOf(R, W, seqs, m) ==
  /\ R \in [0..m -> Seq(W)] /\ R[0] = <<>>
  /\ \A i \in 1..m : R[i] = R[i - 1] \o seqs[i]

(* Those prefixes exist.                                                   *)
LEMMA FlattenPrefixes ==
  ASSUME NEW W, NEW seqs \in Seq(Seq(W))
  PROVE  \E R : PrefixesOf(R, W, seqs, Len(seqs))
<1> DEFINE n == Len(seqs)
           T == {m \in 0..n : \E R : PrefixesOf(R, W, seqs, m)}
<1>1. n \in Nat /\ \A i \in 1..n : seqs[i] \in Seq(W)
  OBVIOUS
<1>2. 0 \in T
  <2> DEFINE h == [i \in 0..0 |-> <<>>]
  <2>1. h \in [0..0 -> Seq(W)] /\ h[0] = <<>> /\ 1..0 = {}
    OBVIOUS
  <2> HIDE DEF h
  <2>2. PrefixesOf(h, W, seqs, 0)
    BY <2>1 DEF PrefixesOf
  <2> QED
    BY <1>1, <2>2
<1>3. ASSUME NEW m \in 0..(n - 1), m \in T PROVE m + 1 \in T
  <2>1. PICK R : PrefixesOf(R, W, seqs, m)
    BY <1>3
  <2> USE <2>1 DEF PrefixesOf
  <2> DEFINE h == [i \in 0..(m + 1) |-> IF i = m + 1 THEN R[m] \o seqs[m + 1] ELSE R[i]]
  <2>2. m + 1 \in 1..n /\ seqs[m + 1] \in Seq(W) /\ R[m] \in Seq(W) /\ m \in Nat
    BY <1>1
  <2>3. h \in [0..(m + 1) -> Seq(W)]
    <3>1. R[m] \o seqs[m + 1] \in Seq(W)
      BY <2>2
    <3> QED
      BY <2>2, <3>1
  <2>4. h[0] = <<>>
    BY <2>1, <2>2
  <2>5. ASSUME NEW i \in 1..(m + 1) PROVE h[i] = h[i - 1] \o seqs[i]
    <3>1. CASE i = m + 1
      <4>1. i \in 0..(m + 1) /\ i - 1 = m /\ m \in 0..(m + 1) /\ m # m + 1
        BY <2>2, <3>1
      <4>2. h[i] = R[m] \o seqs[m + 1] /\ h[m] = R[m]
        BY <3>1, <4>1
      <4> HIDE DEF h
      <4> QED
        BY <3>1, <4>1, <4>2
    <3>2. CASE i # m + 1
      <4>1. i \in 1..m /\ i - 1 \in 0..m /\ i - 1 # m + 1 /\ i \in 0..(m + 1) /\ i - 1 \in 0..(m + 1)
        BY <2>2, <3>2
      <4>2. h[i] = R[i] /\ h[i - 1] = R[i - 1]
        BY <3>2, <4>1
      <4> HIDE DEF h
      <4> QED
        BY <2>1, <4>1, <4>2
    <3> QED
      BY <3>1, <3>2
  <2>6. m + 1 \in 0..n
    BY <2>2
  <2>7. PrefixesOf(h, W, seqs, m + 1)
    <3> HIDE DEF h
    <3> QED
      BY <2>3, <2>4, <2>5
  <2> HIDE DEF h, PrefixesOf
  <2> QED
    BY <2>6, <2>7
<1>4. n \in T
  <2> HIDE DEF T
  <2> QED
    BY <1>1, <1>2, <1>3, InductionTo
<1> QED
  BY <1>4

-----------------------------------------------------------------------------
(* Substitution: each symbol of a text is replaced with what e has for it. *)
Maps(W, X) == [W -> Seq(X)]

(* What e has for the symbols of a text.                                   *)
Parts(e, text) == [i \in DOMAIN text |-> e[text[i]]]

(* Put together.                                                           *)
Subst(e, text) == FlattenSeq(Parts(e, text))

(* The parts are texts, and so is what they make.                          *)
LEMMA SubstSeqs ==
  ASSUME NEW W, NEW X, NEW e \in Maps(W, X), NEW text \in Seq(W)
  PROVE  /\ Parts(e, text) \in Seq(Seq(X)) /\ Len(Parts(e, text)) = Len(text)
         /\ Subst(e, text) \in Seq(X)
<1>1. DOMAIN text = 1..Len(text) /\ Len(text) \in Nat /\ \A i \in 1..Len(text) : text[i] \in W
  OBVIOUS
<1> DEFINE seqs == Parts(e, text)
<1>2. seqs \in Seq(Seq(X)) /\ Len(seqs) = Len(text)
  BY <1>1 DEF Parts, Maps
<1> HIDE DEF seqs
<1>3. FlattenSeq(seqs) \in Seq(X)
  BY <1>2, FlattenIn
<1> QED
  BY <1>2, <1>3 DEF Subst, seqs

(* Substitution goes into a text that is put together.                     *)
LEMMA SubstConcat ==
  ASSUME NEW W, NEW X, NEW e \in Maps(W, X), NEW a \in Seq(W), NEW b \in Seq(W)
  PROVE  Subst(e, a \o b) = Subst(e, a) \o Subst(e, b)
<1> DEFINE A == Parts(e, a)
           B == Parts(e, b)
           C == Parts(e, a \o b)
           n == Len(a)
           m == Len(b)
<1>1. n \in Nat /\ m \in Nat /\ a \o b \in Seq(W) /\ Len(a \o b) = n + m
  OBVIOUS
<1>2. A \in Seq(Seq(X)) /\ Len(A) = n /\ B \in Seq(Seq(X)) /\ Len(B) = m
  <2>1. A \in Seq(Seq(X)) /\ Len(A) = Len(a)
    BY SubstSeqs
  <2>2. B \in Seq(Seq(X)) /\ Len(B) = Len(b)
    BY SubstSeqs
  <2> QED
    BY <2>1, <2>2
<1>3. C \in Seq(Seq(X)) /\ Len(C) = n + m
  <2>1. \A t \in Seq(W) : Parts(e, t) \in Seq(Seq(X)) /\ Len(Parts(e, t)) = Len(t)
    BY SubstSeqs
  <2> QED
    BY <1>1, <2>1
<1>4. \A i \in 1..n : C[i] = A[i]
  BY <1>1 DEF Parts
<1>5. \A i \in 1..m : C[n + i] = B[i]
  BY <1>1 DEF Parts
<1> HIDE DEF A, B, C
<1>6. PICK P \in [0..n -> Seq(X)] : P[0] = <<>> /\ \A i \in 1..n : P[i] = P[i - 1] \o A[i]
  <2>1. \E R : PrefixesOf(R, X, A, n)
    BY <1>2, FlattenPrefixes
  <2> QED
    BY <2>1 DEF PrefixesOf
<1>7. PICK Q \in [0..m -> Seq(X)] : Q[0] = <<>> /\ \A i \in 1..m : Q[i] = Q[i - 1] \o B[i]
  <2>1. \E R : PrefixesOf(R, X, B, m)
    BY <1>2, FlattenPrefixes
  <2> QED
    BY <2>1 DEF PrefixesOf
<1>8. FlattenSeq(A) = P[n] /\ FlattenSeq(B) = Q[m]
  BY <1>2, <1>6, <1>7, FlattenUnique
<1> DEFINE R == [i \in 0..(n + m) |-> IF i <= n THEN P[i] ELSE P[n] \o Q[i - n]]
<1>9. R[0] = <<>>
  BY <1>1, <1>6
<1>10. R[n + m] = P[n] \o Q[m]
  <2>1. CASE m = 0
    <3>1. R[n + m] = P[n] /\ P[n] \in Seq(X)
      BY <1>1, <2>1
    <3>2. P[n] \o <<>> = P[n]
      BY <3>1
    <3> QED
      BY <1>7, <2>1, <3>1, <3>2
  <2>2. CASE m # 0
    <3>1. ~(n + m <= n) /\ (n + m) - n = m /\ n + m \in 0..(n + m)
      BY <1>1, <2>2
    <3> QED
      BY <3>1
  <2> QED
    BY <2>1, <2>2
<1>11. ASSUME NEW i \in 1..(n + m) PROVE R[i] = R[i - 1] \o C[i]
  <2>1. CASE i <= n
    <3>1. i \in 1..n /\ i - 1 <= n /\ i \in 0..(n + m) /\ i - 1 \in 0..(n + m)
      BY <1>1, <2>1
    <3>2. R[i] = P[i] /\ R[i - 1] = P[i - 1]
      BY <2>1, <3>1
    <3> HIDE DEF R
    <3> QED
      BY <1>4, <1>6, <3>1, <3>2
  <2>2. CASE i > n
    <3> DEFINE j == i - n
    <3>1. j \in 1..m /\ i = n + j /\ i \in 0..(n + m) /\ i - 1 \in 0..(n + m) /\ j - 1 \in 0..m /\ ~(i <= n)
      BY <1>1, <2>2
    <3>2. R[i] = P[n] \o Q[j]
      BY <3>1
    <3>3. R[i - 1] = P[n] \o Q[j - 1]
      <4>1. CASE j = 1
        <5>1. i - 1 = n /\ i - 1 <= n /\ j - 1 = 0 /\ n \in 0..n
          BY <1>1, <3>1, <4>1
        <5>3. R[i - 1] = P[n] /\ P[n] \in Seq(X)
          BY <3>1, <5>1
        <5>2. P[n] \o <<>> = P[n]
          BY <5>3
        <5> QED
          BY <1>7, <5>1, <5>2, <5>3
      <4>2. CASE j # 1
        <5>1. ~(i - 1 <= n) /\ (i - 1) - n = j - 1
          BY <1>1, <3>1, <4>2
        <5> QED
          BY <3>1, <5>1
      <4> QED
        BY <4>1, <4>2
    <3> HIDE DEF R, j
    <3>4. Q[j] = Q[j - 1] \o B[j] /\ C[i] = B[j]
      BY <1>5, <1>7, <3>1
    <3>5. P[n] \in Seq(X) /\ Q[j - 1] \in Seq(X) /\ B[j] \in Seq(X)
      <4>1. n \in 0..n /\ j \in 1..Len(B)
        BY <1>1, <1>2, <3>1
      <4>2. B[j] \in Seq(X)
        BY <1>2, <4>1
      <4> QED
        BY <3>1, <4>1, <4>2
    <3>6. \A x, y, z \in Seq(X) : x \o (y \o z) = (x \o y) \o z
      BY ConcatAssociative, SMTT(60)
    <3>7. P[n] \o (Q[j - 1] \o B[j]) = (P[n] \o Q[j - 1]) \o B[j]
      BY <3>5, <3>6
    <3> QED
      BY <3>2, <3>3, <3>4, <3>7
  <2>3. i <= n \/ i > n
    BY <1>1
  <2> QED
    BY <2>1, <2>2, <2>3
<1>12. FlattenSeq(C) = R[n + m]
  <2> HIDE DEF R, n, m
  <2> QED
    BY <1>3, <1>9, <1>11, FlattenUnique
<1> QED
  <2> HIDE DEF R
  <2> QED
    BY <1>8, <1>10, <1>12 DEF Subst, A, B, C

(* One symbol becomes what e has for it.                                   *)
LEMMA SubstSingle ==
  ASSUME NEW W, NEW X, NEW e \in Maps(W, X), NEW x \in W
  PROVE  Subst(e, <<x>>) = e[x]
<1> DEFINE A == Parts(e, <<x>>)
           R == [i \in 0..1 |-> IF i = 0 THEN <<>> ELSE e[x]]
<1>1. <<x>> \in Seq(W) /\ Len(<<x>>) = 1
  OBVIOUS
<1>2. A \in Seq(Seq(X)) /\ Len(A) = 1
  <2>1. \A t \in Seq(W) : Parts(e, t) \in Seq(Seq(X)) /\ Len(Parts(e, t)) = Len(t)
    BY SubstSeqs
  <2> QED
    BY <1>1, <2>1
<1>3. A[1] = e[x]
  BY <1>1 DEF Parts
<1>4. R[0] = <<>> /\ R[1] = e[x]
  OBVIOUS
<1>5. \A i \in 1..1 : R[i] = R[i - 1] \o A[i]
  <2>1. <<>> \o e[x] = e[x]
    <3>1. e[x] \in Seq(X)
      BY DEF Maps
    <3> QED
      BY <3>1
  <2>2. \A i \in 1..1 : i = 1 /\ i - 1 = 0
    OBVIOUS
  <2> HIDE DEF A, R
  <2> QED
    BY <1>3, <1>4, <2>1, <2>2
<1> HIDE DEF A, R
<1>6. FlattenSeq(A) = R[1]
  BY <1>2, <1>4, <1>5, FlattenUnique
<1> QED
  BY <1>4, <1>6 DEF Subst, A

(* Only what e has for the symbols of the text counts.                     *)
LEMMA SubstSame ==
  ASSUME NEW W, NEW e, NEW a \in Seq(W), NEW f, NEW b \in Seq(W), Len(a) = Len(b),
         \A i \in 1..Len(a) : e[a[i]] = f[b[i]]
  PROVE  Subst(e, a) = Subst(f, b)
<1>1. DOMAIN a = 1..Len(a) /\ DOMAIN b = 1..Len(a)
  OBVIOUS
<1>2. Parts(e, a) = Parts(f, b)
  BY <1>1 DEF Parts
<1> QED
  BY <1>2 DEF Subst

(* A text of which every symbol stands for itself stays.                   *)
LEMMA SubstIdentity ==
  ASSUME NEW W, NEW text \in Seq(W), NEW e, \A i \in 1..Len(text) : e[text[i]] = <<text[i]>>
  PROVE  Subst(e, text) = text
<1> DEFINE A == Parts(e, text)
<1>1. DOMAIN A = 1..Len(text) /\ Len(A) = Len(text) /\ \A i \in 1..Len(text) : A[i] = <<text[i]>>
  <2>1. DOMAIN text = 1..Len(text) /\ Len(text) \in Nat
    OBVIOUS
  <2> QED
    BY <2>1 DEF Parts
<1> HIDE DEF A
<1>2. FlattenSeq(A) = text
  BY <1>1, FlattenSingles
<1> QED
  BY <1>2 DEF Subst, A

(* Nothing is made of nothing.                                             *)
LEMMA SubstNothing == \A e : Subst(e, <<>>) = <<>>
<1> SUFFICES ASSUME NEW e PROVE Subst(e, <<>>) = <<>>
  OBVIOUS
<1>1. <<>> \in Seq({}) /\ Len(<<>>) = 0 /\ \A i \in 1..Len(<<>>) : e[<<>>[i]] = <<(<<>>[i])>>
  OBVIOUS
<1> QED
  BY <1>1, SubstIdentity

(* Substitution goes into a text that is put together of many.             *)
LEMMA SubstFlatten ==
  ASSUME NEW W, NEW X, NEW e \in Maps(W, X), NEW seqs \in Seq(Seq(W))
  PROVE  Subst(e, FlattenSeq(seqs)) = FlattenSeq([i \in DOMAIN seqs |-> Subst(e, seqs[i])])
<1> DEFINE n == Len(seqs)
           S == [i \in DOMAIN seqs |-> Subst(e, seqs[i])]
<1>1. n \in Nat /\ DOMAIN seqs = 1..n /\ \A i \in 1..n : seqs[i] \in Seq(W)
  OBVIOUS
<1>2. S \in Seq(Seq(X)) /\ Len(S) = n
  <2>1. \A i \in 1..n : Subst(e, seqs[i]) \in Seq(X)
    BY <1>1, SubstSeqs
  <2> QED
    BY <1>1, <2>1
<1>3. PICK R \in [0..n -> Seq(W)] : R[0] = <<>> /\ \A i \in 1..n : R[i] = R[i - 1] \o seqs[i]
  BY FlattenPrefixes DEF PrefixesOf
<1>4. FlattenSeq(seqs) = R[n]
  BY <1>3, FlattenUnique
<1> DEFINE Q == [i \in 0..n |-> Subst(e, R[i])]
<1>5. Q[0] = <<>>
  <2>1. Subst(e, <<>>) = <<>>
    <3>1. <<>> \in Seq(W) /\ Len(<<>>) = 0 /\ \A i \in 1..Len(<<>>) : e[<<>>[i]] = <<(<<>>[i])>>
      OBVIOUS
    <3> QED
      BY <3>1, SubstIdentity
  <2> QED
    BY <1>1, <1>3, <2>1
<1>6. ASSUME NEW i \in 1..n PROVE Q[i] = Q[i - 1] \o S[i]
  <2>1. i \in 0..n /\ i - 1 \in 0..n
    BY <1>1
  <2>2. R[i - 1] \in Seq(W) /\ seqs[i] \in Seq(W) /\ R[i] = R[i - 1] \o seqs[i]
    BY <1>1, <1>3, <2>1
  <2>3. ASSUME NEW a \in Seq(W), NEW b \in Seq(W)
        PROVE  Subst(e, a \o b) = Subst(e, a) \o Subst(e, b)
    <3> HIDE DEF Q, S, n
    <3> QED
      BY SubstConcat
  <2>4. Subst(e, R[i]) = Subst(e, R[i - 1]) \o Subst(e, seqs[i])
    BY <2>2, <2>3
  <2> QED
    BY <1>1, <2>1, <2>4
<1>7. Q[n] = Subst(e, R[n])
  BY <1>1
<1>8. FlattenSeq(S) = Q[n]
  <2> HIDE DEF S, Q
  <2> QED
    BY <1>2, <1>5, <1>6, FlattenUnique
<1> QED
  BY <1>4, <1>7, <1>8

(* Two substitutions, one after the other, are one.                        *)
LEMMA SubstTwice ==
  ASSUME NEW W, NEW X, NEW Y, NEW f \in Maps(W, X), NEW e \in Maps(X, Y), NEW g,
         NEW text \in Seq(W), \A i \in 1..Len(text) : g[text[i]] = Subst(e, f[text[i]])
  PROVE  Subst(e, Subst(f, text)) = Subst(g, text)
<1> DEFINE S == Parts(f, text)
<1>1. S \in Seq(Seq(X)) /\ Len(S) = Len(text) /\ DOMAIN text = 1..Len(text) /\ DOMAIN S = DOMAIN text
  <2>1. S \in Seq(Seq(X)) /\ Len(S) = Len(text)
    BY SubstSeqs
  <2>2. DOMAIN text = 1..Len(text) /\ DOMAIN S = DOMAIN text
    BY DEF Parts
  <2> QED
    BY <2>1, <2>2
<1>2. Subst(f, text) = FlattenSeq(S)
  BY DEF Subst
<1>3. \A i \in DOMAIN text : S[i] = f[text[i]]
  BY DEF Parts
<1> HIDE DEF S
<1>4. Subst(e, FlattenSeq(S)) = FlattenSeq([i \in DOMAIN S |-> Subst(e, S[i])])
  <2>1. S \in Seq(Seq(X))
    BY <1>1
  <2> QED
    BY <2>1, SubstFlatten
<1>5. [i \in DOMAIN S |-> Subst(e, S[i])] = Parts(g, text)
  BY <1>1, <1>3 DEF Parts
<1> QED
  BY <1>2, <1>4, <1>5 DEF Subst

-----------------------------------------------------------------------------
(* Redaction undone.  Matches lie apart and are numbered from left to      *)
(* right, so putting the values back gives the text that there was.        *)

(* Matches do not overlap: the search goes on where the last one ends.     *)
LEMMA FoundApart ==
  ASSUME NEW d, NEW text, IsText(text), Len(d.pattern) \in Nat
  PROVE  \A i, j \in Found(d, text) : i < j => i + Len(d.pattern) <= j
<1> DEFINE n == Len(d.pattern)
           Disjoint(at) == \A i, j \in at : i < j => i + n <= j
           All == [at : SUBSET DOMAIN text, from : Nat]
           V == {x \in All : Disjoint(x.at) /\ \A i \in x.at : i + n <= x.from}
<1>1. Len(text) \in Nat /\ DOMAIN text = 1..Len(text)
  BY DEF IsText
<1>2. [at |-> {}, from |-> 1] \in V
  OBVIOUS
<1>3. ASSUME NEW x \in V, NEW k \in 1..Len(text) PROVE ScanWith(d, text, x, Places(text)[k]) \in V
  <2>1. Places(text)[k] = k /\ k \in DOMAIN text
    BY <1>1 DEF Places
  <2>2. CASE k >= x.from /\ Matches(d, text, k)
    <3> DEFINE y == [at |-> x.at \cup {k}, from |-> k + n]
    <3>1. ScanWith(d, text, x, Places(text)[k]) = y
      BY <2>1, <2>2 DEF ScanWith
    <3>2. y \in All
      BY <2>1, <1>1
    <3>3. \A i \in x.at : i \in Nat /\ i + n <= x.from /\ i <= k
      BY <1>1, <2>2
    <3>4. Disjoint(y.at)
      <4>1. SUFFICES ASSUME NEW i \in x.at \cup {k}, NEW j \in x.at \cup {k}, i < j PROVE i + n <= j
        OBVIOUS
      <4>2. CASE i \in x.at /\ j \in x.at
        BY <4>1, <4>2
      <4>3. CASE i \in x.at /\ j = k
        BY <3>3, <4>3, <2>2, <1>1
      <4>4. CASE i = k
        BY <3>3, <4>1, <4>4
      <4> QED
        BY <4>2, <4>3, <4>4
    <3>5. \A i \in y.at : i + n <= y.from
      BY <3>3
    <3> HIDE DEF y, Disjoint
    <3>6. y \in V
      BY <3>2, <3>4, <3>5
    <3> QED
      BY <3>1, <3>6
  <2>3. CASE ~(k >= x.from /\ Matches(d, text, k))
    BY <2>1, <2>3 DEF ScanWith
  <2> QED
    BY <2>2, <2>3
<1>4. \E seen \in V : Found(d, text) = seen.at
  <2> HIDE DEF V
  <2> QED
    BY <1>1, <1>2, <1>3, ScanIn
<1> QED
  BY <1>4

(* A text is what is before a position and what follows.                   *)
LEMMA SplitText ==
  ASSUME NEW W, NEW text \in Seq(W), NEW a \in 0..Len(text), NEW b \in a..Len(text)
  PROVE  /\ SubSeq(text, 1, a) \in Seq(W) /\ SubSeq(text, a + 1, b) \in Seq(W)
         /\ SubSeq(text, 1, b) = SubSeq(text, 1, a) \o SubSeq(text, a + 1, b)
         /\ a # 0 => SubSeq(text, a, a) = <<text[a]>>
<1>1. Len(text) \in Nat /\ a \in Nat /\ b \in Nat /\ a <= b /\ b <= Len(text)
  OBVIOUS
<1>2. \A i \in 1..Len(text) : text[i] \in W
  OBVIOUS
<1>3. /\ SubSeq(text, 1, a) \in Seq(W) /\ Len(SubSeq(text, 1, a)) = a
      /\ \A i \in 1..a : SubSeq(text, 1, a)[i] = text[i]
  BY <1>1, <1>2
<1>4. /\ SubSeq(text, 1, b) \in Seq(W) /\ Len(SubSeq(text, 1, b)) = b
      /\ \A i \in 1..b : SubSeq(text, 1, b)[i] = text[i]
  BY <1>1, <1>2
<1>5. /\ SubSeq(text, a + 1, b) \in Seq(W) /\ Len(SubSeq(text, a + 1, b)) = b - a
      /\ \A i \in 1..(b - a) : SubSeq(text, a + 1, b)[i] = text[a + i]
  BY <1>1, <1>2
<1>6. SubSeq(text, 1, b) = SubSeq(text, 1, a) \o SubSeq(text, a + 1, b)
  BY <1>1
<1>7. a # 0 => SubSeq(text, a, a) = <<text[a]>>
  <2>1. SUFFICES ASSUME a # 0 PROVE SubSeq(text, a, a) = <<text[a]>>
    OBVIOUS
  <2>2. SubSeq(text, a, a) \in Seq(W) /\ Len(SubSeq(text, a, a)) = 1 /\ SubSeq(text, a, a)[1] = text[a]
    BY <1>1, <2>1
  <2>3. <<text[a]>> \in Seq(W) /\ Len(<<text[a]>>) = 1 /\ <<text[a]>>[1] = text[a]
    BY <1>1, <1>2, <2>1
  <2>4. \A i \in 1..1 : SubSeq(text, a, a)[i] = <<text[a]>>[i]
    BY <2>2, <2>3
  <2> QED
    BY <2>2, <2>3, <2>4, SeqEqual
<1> QED
  BY <1>3, <1>5, <1>6, <1>7

(* The number of the match at i.                                           *)
LEMMA BeforeTurn ==
  ASSUME NEW n \in Nat, NEW at \in SUBSET (1..n), NEW i \in at
  PROVE  Before(at, i) \in Nat /\ Before(at, i) + 1 \in 1..Cardinality(at) /\ Nth(at, Before(at, i) + 1) = i
<1>1. IsFiniteSet(at) /\ Cardinality(at) \in Nat
  <2>1. IsFiniteSet(1..n)
    BY FS_Interval
  <2>2. IsFiniteSet(at)
    BY <2>1, FS_Subset
  <2> QED
    BY <2>2, FS_CardinalityType
<1> DEFINE P(x) == {j \in at : j < x}
<1>2. ASSUME NEW x \in at PROVE IsFiniteSet(P(x)) /\ Cardinality(P(x)) \in Nat /\ Before(at, x) = Cardinality(P(x))
  <2>1. P(x) \subseteq at
    OBVIOUS
  <2> HIDE DEF P
  <2>2. IsFiniteSet(P(x))
    BY <1>1, <2>1, FS_Subset
  <2>3. Before(at, x) = Cardinality(P(x))
    BY DEF Before, P
  <2> QED
    BY <2>2, <2>3, FS_CardinalityType
<1>3. ASSUME NEW x \in at, NEW T \in SUBSET at, P(x) \subseteq T, x \in T PROVE Before(at, x) < Cardinality(T)
  <2>1. IsFiniteSet(T) /\ Cardinality(T) \in Nat
    <3>1. IsFiniteSet(T)
      BY <1>1, FS_Subset
    <3> QED
      BY <3>1, FS_CardinalityType
  <2>2. x \notin P(x) /\ P(x) \cup {x} \subseteq T
    BY <1>3
  <2> HIDE DEF P
  <2>3. Cardinality(P(x) \cup {x}) = Cardinality(P(x)) + 1
    BY <1>2, <2>2, FS_AddElement
  <2>4. Cardinality(P(x) \cup {x}) <= Cardinality(T)
    BY <2>1, <2>2, FS_Subset
  <2> QED
    BY <1>2, <2>1, <2>3, <2>4
<1>4. Before(at, i) < Cardinality(at)
  BY <1>3
<1>5. Before(at, i) \in Nat
  BY <1>2
<1>6. ASSUME NEW x \in at, NEW y \in at, x < y PROVE Before(at, x) < Before(at, y)
  <2>1. P(x) \subseteq P(y) /\ x \in P(y) /\ P(y) \in SUBSET at
    <3>1. x \in 1..n /\ y \in 1..n /\ \A j \in at : j \in 1..n
      OBVIOUS
    <3>2. \A j \in at : j < x => j < y
      BY <1>6, <3>1
    <3> QED
      BY <1>6, <3>2
  <2> HIDE DEF P
  <2>2. Before(at, x) < Cardinality(P(y))
    BY <1>3, <2>1
  <2> QED
    BY <1>2, <2>2
<1>7. Before(at, i) + 1 \in 1..Cardinality(at)
  BY <1>1, <1>4, <1>5
<1>8. Nth(at, Before(at, i) + 1) = i
  <2>1. (Before(at, i) + 1) - 1 = Before(at, i)
    BY <1>5
  <2> DEFINE y == Nth(at, Before(at, i) + 1)
  <2>2. y \in at /\ Before(at, y) = Before(at, i)
    BY <2>1 DEF Nth
  <2> HIDE DEF y, P
  <2>3. ~(y < i) /\ ~(i < y)
    BY <1>2, <1>6, <2>2
  <2>4. y \in 1..n /\ i \in 1..n
    BY <2>2
  <2>5. y = i
    BY <2>3, <2>4
  <2> QED
    BY <2>5 DEF y
<1> QED
  BY <1>5, <1>7, <1>8

(* Rewriting matches with texts that e makes into the same as the matches  *)
(* makes no difference to e.                                               *)
LEMMA RewriteSubst ==
  ASSUME NEW k \in 1..Count, NEW W, NEW X, NEW text \in Seq(W), NEW by,
         DOMAIN by \subseteq Found(Detectors[k], text), Len(Detectors[k].pattern) # 0,
         NEW e \in Maps(W, X),
         \A i \in DOMAIN by : by[i] \in Seq(W) /\ Subst(e, by[i]) = Subst(e, MatchAt(Detectors[k], text, i))
  PROVE  Subst(e, Rewrite(Detectors[k], text, by)) = Subst(e, text)
<1> DEFINE d == Detectors[k]
           at == DOMAIN by
           m == Len(d.pattern)
           n == Len(text)
           Within(i) == \E j \in at : j < i /\ i < j + m
           part(i) == CASE i \in at -> by[i]
                        [] i \notin at /\ Within(i) -> <<>>
                        [] OTHER -> <<text[i]>>
           seqs == [i \in DOMAIN text |-> part(i)]
           Covers(j, i) == j <= i /\ i < j + m
           Reach(i) == IF \E j \in at : Covers(j, i) THEN (CHOOSE j \in at : Covers(j, i)) + m - 1 ELSE i
           R == [i \in 0..n |-> Subst(e, SubSeq(text, 1, Reach(i)))]
           S == [i \in DOMAIN seqs |-> Subst(e, seqs[i])]
<1>1. m \in Nat \ {0} /\ n \in Nat /\ DOMAIN text = 1..n /\ IsText(text)
  BY DetectorTypes, TextOver
<1>2. \A j \in at : j \in 1..n /\ j + m - 1 <= n
  <2>1. Found(d, text) \subseteq {i \in DOMAIN text : Matches(d, text, i)}
    BY <1>1, FoundMatches
  <2> QED
    BY <1>1, <2>1 DEF Matches
<1>3. \A i, j \in at : i < j => i + m <= j
  <2>1. \A i, j \in Found(d, text) : i < j => i + m <= j
    BY <1>1, FoundApart
  <2> QED
    BY <2>1
<1>4. ASSUME NEW i \in Nat, NEW j \in at, Covers(j, i) PROVE Reach(i) = j + m - 1
  <2>1. \A l \in at : Covers(l, i) => l = j
    <3>1. SUFFICES ASSUME NEW l \in at, Covers(l, i) PROVE ~(l < j) /\ ~(j < l)
      BY <1>2
    <3> QED
      BY <1>1, <1>2, <1>3, <1>4, <3>1, SMTT(60)
  <2>2. (CHOOSE l \in at : Covers(l, i)) = j
    <3> HIDE DEF Covers, at
    <3> QED
      BY <1>4, <2>1
  <2> HIDE DEF Covers, at
  <2> QED
    BY <1>4, <2>2
<1>5. \A i \in Nat : ~(\E j \in at : Covers(j, i)) => Reach(i) = i
  OBVIOUS
<1>6. \A i \in 1..n : part(i) \in Seq(W)
  <2>1. \A i \in 1..n : <<text[i]>> \in Seq(W) /\ <<>> \in Seq(W)
    BY <1>1
  <2> HIDE DEF Within
  <2> QED
    BY <2>1
<1>7. seqs \in Seq(Seq(W)) /\ Len(seqs) = n /\ DOMAIN seqs = 1..n
  <2> HIDE DEF part
  <2> QED
    BY <1>1, <1>6
<1>8. Rewrite(d, text, by) = FlattenSeq(seqs)
  BY DEF Rewrite
<1>9. \A i \in 1..n : seqs[i] = part(i)
  BY <1>1
<1> HIDE DEF seqs
<1>10. S \in Seq(Seq(X)) /\ Len(S) = n /\ \A i \in 1..n : S[i] = Subst(e, part(i))
  <2>1. \A i \in 1..n : seqs[i] \in Seq(W)
    BY <1>6, <1>9
  <2>2. \A t \in Seq(W) : Subst(e, t) \in Seq(X)
    BY SubstSeqs
  <2> HIDE DEF part
  <2> QED
    BY <1>1, <1>7, <1>9, <2>1, <2>2
<1>11. R[0] = <<>>
  <2>1. ~(\E j \in at : Covers(j, 0))
    BY <1>2
  <2>2. Reach(0) = 0
    BY <1>5, <2>1
  <2>3. SubSeq(text, 1, 0) = <<>>
    OBVIOUS
  <2>4. Subst(e, <<>>) = <<>>
    BY SubstNothing
  <2>5. 0 \in 0..n
    BY <1>1
  <2>6. R[0] = Subst(e, SubSeq(text, 1, Reach(0)))
    BY <2>5
  <2> HIDE DEF Reach, R
  <2> QED
    BY <2>2, <2>3, <2>4, <2>6
<1>12. R[n] = Subst(e, text)
  <2>1. Reach(n) = n
    <3>1. CASE \E j \in at : Covers(j, n)
      <4>1. PICK j \in at : Covers(j, n)
        BY <3>1
      <4>2. j + m - 1 = n
        BY <1>1, <1>2, <4>1, SMTT(60)
      <4>3. Reach(n) = j + m - 1
        BY <1>1, <1>4, <4>1
      <4> QED
        BY <4>2, <4>3
    <3>2. CASE ~(\E j \in at : Covers(j, n))
      BY <1>1, <1>5, <3>2
    <3> QED
      BY <3>1, <3>2
  <2>2. SubSeq(text, 1, n) = text
    BY <1>1
  <2>3. n \in 0..n
    BY <1>1
  <2>4. R[n] = Subst(e, SubSeq(text, 1, Reach(n)))
    BY <2>3
  <2> HIDE DEF Reach, R
  <2> QED
    BY <2>1, <2>2, <2>4
<1>13. ASSUME NEW a \in 0..n, NEW b \in a..n
       PROVE  Subst(e, SubSeq(text, 1, b)) = Subst(e, SubSeq(text, 1, a)) \o Subst(e, SubSeq(text, a + 1, b))
  <2>1. /\ SubSeq(text, 1, a) \in Seq(W) /\ SubSeq(text, a + 1, b) \in Seq(W)
        /\ SubSeq(text, 1, b) = SubSeq(text, 1, a) \o SubSeq(text, a + 1, b)
    BY SplitText
  <2>2. ASSUME NEW x \in Seq(W), NEW y \in Seq(W)
        PROVE  Subst(e, x \o y) = Subst(e, x) \o Subst(e, y)
    <3> HIDE DEF d, at, m, n, Within, part, Covers, Reach, R, S
    <3> QED
      BY SubstConcat
  <2> HIDE DEF R, S, part, Reach
  <2> QED
    BY <2>1, <2>2
<1>14. ASSUME NEW i \in 1..n PROVE R[i] = R[i - 1] \o S[i]
  <2>1. i \in Nat /\ i - 1 \in Nat /\ i \in 0..n /\ i - 1 \in 0..n /\ (i - 1) + 1 = i
    BY <1>1
  <2>2. R[i] = Subst(e, SubSeq(text, 1, Reach(i))) /\ R[i - 1] = Subst(e, SubSeq(text, 1, Reach(i - 1)))
    BY <2>1
  <2>3. S[i] = Subst(e, part(i))
    BY <1>10
  <2>4. CASE ~Within(i)
    <3>1. Reach(i - 1) = i - 1
      <4>1. CASE \E j \in at : Covers(j, i - 1)
        <5>1. PICK j \in at : Covers(j, i - 1)
          BY <4>1
        <5>2. j < i /\ i - 1 < j + m /\ j \in 1..n
          BY <1>2, <2>1, <5>1
        <5>5. ~(i < j + m)
          BY <2>4, <5>1, <5>2
        <5>3. j + m - 1 = i - 1
          <6>1. m \in Nat /\ i \in Nat /\ j \in Nat
            BY <1>1, <2>1, <5>2
          <6> HIDE DEF m, n, Covers, Reach, R, S, Within, part
          <6> QED
            BY <5>2, <5>5, <6>1
        <5> HIDE DEF Covers, Reach
        <5>4. Reach(i - 1) = j + m - 1
          BY <1>4, <2>1, <5>1
        <5> QED
          BY <5>3, <5>4
      <4>2. CASE ~(\E j \in at : Covers(j, i - 1))
        <5> HIDE DEF Covers, Reach
        <5> QED
          BY <1>5, <2>1, <4>2
      <4> QED
        BY <4>1, <4>2
    <3>2. CASE i \in at
      <4>1. Covers(i, i)
        BY <1>1, <2>1
      <4>2. Reach(i) = i + m - 1
        BY <1>4, <2>1, <3>2, <4>1
      <4>3. i + m - 1 \in (i - 1)..n
        BY <1>1, <1>2, <2>1, <3>2
      <4>4. part(i) = by[i]
        BY <3>2
      <4>5. Subst(e, by[i]) = Subst(e, SubSeq(text, i, i + m - 1))
        BY <3>2 DEF MatchAt
      <4>6. Subst(e, SubSeq(text, 1, i + m - 1)) = Subst(e, SubSeq(text, 1, i - 1)) \o Subst(e, SubSeq(text, (i - 1) + 1, i + m - 1))
        BY <1>13, <2>1, <4>3
      <4> HIDE DEF Reach, R, S, part
      <4> QED
        BY <2>1, <2>2, <2>3, <3>1, <4>2, <4>4, <4>5, <4>6
    <3>3. CASE i \notin at
      <4>1. ~(\E j \in at : Covers(j, i))
        <5>1. SUFFICES ASSUME NEW j \in at, Covers(j, i) PROVE FALSE
          OBVIOUS
        <5>2. j # i /\ j \in 1..n
          BY <1>2, <3>3
        <5> QED
          BY <2>1, <2>4, <5>1, <5>2
      <4>2. Reach(i) = i
        BY <1>5, <2>1, <4>1
      <4>3. part(i) = <<text[i]>>
        <5> HIDE DEF Within
        <5> QED
          BY <2>4, <3>3
      <4>4. SubSeq(text, i, i) = <<text[i]>>
        <5>1. i \in i..n /\ i # 0
          BY <1>1, <2>1
        <5> QED
          BY <2>1, <5>1, SplitText
      <4>5. i \in (i - 1)..n
        BY <1>1, <2>1
      <4>6. Subst(e, SubSeq(text, 1, i)) = Subst(e, SubSeq(text, 1, i - 1)) \o Subst(e, SubSeq(text, (i - 1) + 1, i))
        BY <1>13, <2>1, <4>5
      <4> HIDE DEF Reach, R, S, part
      <4> QED
        BY <2>1, <2>2, <2>3, <3>1, <4>2, <4>3, <4>4, <4>6
    <3> QED
      BY <3>2, <3>3
  <2>5. CASE Within(i)
    <3>1. PICK j \in at : j < i /\ i < j + m
      BY <2>5
    <3>2. j \in 1..n /\ j + m - 1 <= n
      BY <1>2
    <3>3. i \notin at
      <4>1. SUFFICES ASSUME i \in at PROVE FALSE
        OBVIOUS
      <4>2. j + m <= i
        BY <1>3, <3>1, <4>1
      <4> QED
        BY <1>1, <2>1, <3>1, <3>2, <4>2
    <3>4. Covers(j, i) /\ Covers(j, i - 1)
      BY <1>1, <2>1, <3>1, <3>2, SMTT(60)
    <3>5. Reach(i) = j + m - 1 /\ Reach(i - 1) = j + m - 1
      <4> HIDE DEF Covers, Reach
      <4> QED
        BY <1>4, <2>1, <3>4
    <3>6. part(i) = <<>>
      <4> HIDE DEF Within
      <4> QED
        BY <2>5, <3>3
    <3>7. Subst(e, <<>>) = <<>>
      BY SubstNothing
    <3>8. Subst(e, SubSeq(text, 1, j + m - 1)) \in Seq(X)
      <4>1. SubSeq(text, 1, j + m - 1) \in Seq(W)
        <5>1. j + m - 1 \in 0..n
          BY <1>1, <3>2
        <5>2. j + m - 1 \in (j + m - 1)..n
          BY <5>1
        <5> QED
          BY <5>1, <5>2, SplitText
      <4> HIDE DEF Reach, R, S, part
      <4> QED
        BY <4>1, SubstSeqs
    <3>9. \A x \in Seq(X) : x \o <<>> = x
      OBVIOUS
    <3> HIDE DEF Reach, R, S, part
    <3> QED
      BY <2>2, <2>3, <3>5, <3>6, <3>7, <3>8, <3>9
  <2> QED
    BY <2>4, <2>5
<1>15. FlattenSeq(S) = R[n]
  <2> HIDE DEF S, R, n
  <2> QED
    BY <1>10, <1>11, <1>14, FlattenUnique
<1>16. Subst(e, FlattenSeq(seqs)) = FlattenSeq(S)
  <2>1. seqs \in Seq(Seq(W))
    BY <1>7
  <2> HIDE DEF d, at, m, n, Within, part, Covers, Reach, R
  <2> QED
    BY <2>1, SubstFlatten
<1> QED
  <2> HIDE DEF S, R
  <2> QED
    BY <1>8, <1>12, <1>15, <1>16

(* e puts the values that were taken at pointer back in the place of their *)
(* placeholders, and leaves them as they are.                              *)
Undoes(e, s, values, pointer) ==
  \A k \in 1..Len(values) : values[k].pointer = pointer =>
    /\ e[Token(s, k - 1)] = values[k].value
    /\ Subst(e, values[k].value) = values[k].value

(* The values that were stored before stay where they are.                 *)
Extends(values, before) ==
  Len(before) <= Len(values) /\ \A k \in 1..Len(before) : values[k] = before[k]

(* What undoes a redaction undoes what was stored before it.               *)
LEMMA UndoesBefore ==
  ASSUME NEW e, NEW s, NEW pointer, NEW E, NEW before \in Seq(E), NEW values \in Seq(E),
         Extends(values, before), Undoes(e, s, values, pointer)
  PROVE  Undoes(e, s, before, pointer)
<1>1. Len(before) \in Nat /\ Len(values) \in Nat /\ Len(before) <= Len(values)
  BY DEF Extends
<1>2. \A k \in 1..Len(before) : k \in 1..Len(values) /\ values[k] = before[k]
  BY <1>1 DEF Extends
<1> QED
  BY <1>2 DEF Undoes

(* What was taken from acc to after can be put back.                       *)
Reversible(s, pointer, W, E, acc, after) ==
  /\ after \in [text : Seq(W), values : Seq(E)]
  /\ Extends(after.values, acc.values)
  /\ \A e \in Maps(W, W) : Undoes(e, s, after.values, pointer) => Subst(e, after.text) = Subst(e, acc.text)

(* What one detector takes out of a text comes back.                       *)
LEMMA RedactOneUndone ==
  ASSUME NEW s, NEW content, NEW pointer, NEW k \in 1..Count, NEW W, NEW E,
         \A n \in Nat : Token(s, n) \in W,
         \A value \in Seq(W) : Entry(value, pointer) \in E,
         NEW acc \in [text : Seq(W), values : Seq(E)]
  PROVE  Reversible(s, pointer, W, E, acc, RedactOne(s, Detectors[k], content, pointer, acc))
<1> DEFINE d == Detectors[k]
           at == RedactedAt(content, acc.text, d)
           token(i) == Token(s, Len(acc.values) + Before(at, i))
           by == [i \in at |-> IF d.group = 0 THEN <<token(i)>>
                               ELSE [MatchAt(d, acc.text, i) EXCEPT ![d.group] = token(i)]]
           stored == [j \in 1..Cardinality(at) |->
                        Entry(Secret(d, MatchAt(d, acc.text, Nth(at, j))), pointer)]
           v == Len(acc.values)
           after == RedactOne(s, d, content, pointer, acc)
<1>0. after \in [text : Seq(W), values : Seq(E)]
  BY RedactOneIn
<1>1. after = [text |-> Rewrite(d, acc.text, by), values |-> acc.values \o stored]
  BY DEF RedactOne, RedactedAt
<1> HIDE DEF after
<1>2. acc.text \in Seq(W) /\ acc.values \in Seq(E) /\ v \in Nat
  OBVIOUS
<1>3. at \subseteq Found(d, acc.text) /\ at \in SUBSET (1..Len(acc.text)) /\ Len(acc.text) \in Nat
  <2>1. IsText(acc.text) /\ DOMAIN acc.text = 1..Len(acc.text) /\ Len(acc.text) \in Nat
    BY <1>2, TextOver
  <2> QED
    BY <2>1, FoundMatches DEF SecretsAt, RedactedAt
<1>4. \A i \in at : \E j \in DOMAIN Secret(d, MatchAt(d, acc.text, i)) : TRUE
  BY DEF RedactedAt, SecretsAt, GateOk
<1>5. Cardinality(at) \in Nat
  <2>1. IsFiniteSet(1..Len(acc.text))
    BY <1>3, FS_Interval
  <2> HIDE DEF at
  <2>2. IsFiniteSet(at)
    BY <1>3, <2>1, FS_Subset
  <2> QED
    BY <2>2, FS_CardinalityType
<1>6. DOMAIN stored = 1..Cardinality(at) /\ DOMAIN by = at
  OBVIOUS
<1>7. stored \in Seq(E) /\ Len(stored) = Cardinality(at)
  <2>1. ASSUME NEW j \in 1..Cardinality(at) PROVE stored[j] \in E
    <3>1. Nth(at, j) \in at
      BY <1>3, NthIn
    <3>2. Secret(d, MatchAt(d, acc.text, Nth(at, j))) \in Seq(W)
      <4> HIDE DEF at
      <4> QED
        BY <1>2, <1>3, <3>1, MatchIn
    <3> QED
      BY <3>2
  <2>2. stored \in [1..Cardinality(at) -> E]
    BY <2>1
  <2> HIDE DEF stored, at
  <2> QED
    BY <1>5, <2>2
<1>8. /\ Len(after.values) = v + Cardinality(at)
      /\ \A j \in 1..v : after.values[j] = acc.values[j]
      /\ \A j \in 1..Cardinality(at) : after.values[v + j] = stored[j]
  <2> HIDE DEF by, stored, at
  <2>1. after.values = acc.values \o stored
    BY <1>1
  <2>2. /\ Len(acc.values \o stored) = Len(acc.values) + Len(stored)
        /\ \A i \in 1..Len(acc.values) + Len(stored) :
             (acc.values \o stored)[i] = IF i <= Len(acc.values) THEN acc.values[i] ELSE stored[i - Len(acc.values)]
    BY <1>2, <1>7, ConcatProperties
  <2>3. ASSUME NEW j \in 1..v PROVE after.values[j] = acc.values[j]
    BY <1>2, <1>5, <1>7, <2>1, <2>2
  <2>4. ASSUME NEW j \in 1..Cardinality(at) PROVE after.values[v + j] = stored[j]
    <3>1. v + j \in 1..(v + Cardinality(at)) /\ ~(v + j <= v) /\ (v + j) - v = j
      BY <1>2, <1>5
    <3> QED
      BY <1>7, <2>1, <2>2, <3>1
  <2> QED
    BY <1>7, <2>1, <2>2, <2>3, <2>4
<1>9. Extends(after.values, acc.values)
  <2> HIDE DEF at
  <2> QED
    BY <1>2, <1>5, <1>8 DEF Extends
<1>10. ASSUME NEW e \in Maps(W, W), Undoes(e, s, after.values, pointer), NEW i \in at
       PROVE  by[i] \in Seq(W) /\ Subst(e, by[i]) = Subst(e, MatchAt(d, acc.text, i))
  <2> DEFINE b == Before(at, i)
             match == MatchAt(d, acc.text, i)
             secret == Secret(d, match)
  <2>1. b \in Nat /\ b + 1 \in 1..Cardinality(at) /\ Nth(at, b + 1) = i
    <3> HIDE DEF at
    <3> QED
      BY <1>3, BeforeTurn
  <2>2. stored[b + 1] = Entry(secret, pointer)
    BY <2>1
  <2>3. token(i) \in W /\ token(i) = Token(s, v + b)
    <3> HIDE DEF at
    <3> QED
      BY <1>2, <2>1
  <2>4. match \in Seq(W) /\ Len(match) = Len(d.pattern) /\ secret \in Seq(W)
    BY <1>2, <1>3, MatchIn
  <2>5. e[token(i)] = secret /\ Subst(e, secret) = secret
    <3>1. after.values[v + (b + 1)] = Entry(secret, pointer)
      <4> HIDE DEF stored, at, b, secret
      <4> QED
        BY <1>8, <2>1, <2>2
    <3>2. v + (b + 1) \in 1..Len(after.values) /\ (v + (b + 1)) - 1 = v + b
      <4> HIDE DEF stored, at, b
      <4> QED
        BY <1>2, <1>5, <1>8, <2>1
    <3> HIDE DEF b, token, secret, at
    <3> QED
      BY <1>10, <2>3, <3>1, <3>2 DEF Undoes, Entry
  <2>6. by[i] = IF d.group = 0 THEN <<token(i)>> ELSE [match EXCEPT ![d.group] = token(i)]
    OBVIOUS
  <2>7. CASE d.group = 0
    <3>1. secret = match
      BY <2>7 DEF Secret
    <3>2. by[i] = <<token(i)>>
      BY <2>6, <2>7
    <3> HIDE DEF by, token, match, secret, at, d
    <3>3. Subst(e, <<token(i)>>) = e[token(i)]
      BY <2>3, SubstSingle
    <3>4. <<token(i)>> \in Seq(W)
      BY <2>3
    <3> QED
      BY <2>5, <3>1, <3>2, <3>3, <3>4 DEF match
  <2>8. CASE d.group # 0
    <3> DEFINE g == d.group
               new == [match EXCEPT ![g] = token(i)]
    <3>1. g \in 1..Len(match)
      BY <2>4, <2>8, DetectorTypes
    <3>2. secret = <<match[g]>> /\ by[i] = new
      BY <2>6, <2>8 DEF Secret
    <3> HIDE DEF by, token, match, secret, at, d, g
    <3>3. match[g] \in W
      BY <2>4, <3>1
    <3>4. Subst(e, <<match[g]>>) = e[match[g]]
      BY <3>3, SubstSingle
    <3>5. new \in Seq(W) /\ Len(new) = Len(match)
      <4>1. new \in Seq(W)
        BY <2>3, <2>4, <3>1, ExceptSeq
      <4>2. Len(new) = Len(match)
        BY <2>3, <2>4, <3>1, ExceptSeq
      <4> QED
        BY <4>1, <4>2
    <3>6. ASSUME NEW j \in 1..Len(new) PROVE e[new[j]] = e[match[j]]
      <4>1. j \in DOMAIN match
        BY <2>4, <3>5
      <4>2. new[j] = IF j = g THEN token(i) ELSE match[j]
        BY <4>1
      <4> HIDE DEF new
      <4> QED
        BY <2>5, <3>2, <3>4, <4>2
    <3> HIDE DEF new
    <3>7. Subst(e, new) = Subst(e, match)
      BY <2>4, <3>5, <3>6, SubstSame
    <3> QED
      BY <3>2, <3>5, <3>7 DEF match
  <2> QED
    BY <2>7, <2>8
<1>11. ASSUME NEW e \in Maps(W, W), Undoes(e, s, after.values, pointer)
       PROVE  Subst(e, after.text) = Subst(e, acc.text)
  <2>1. after.text = Rewrite(d, acc.text, by)
    BY <1>1
  <2>2. CASE at = {}
    <3>1. DOMAIN by = {} /\ IsText(acc.text)
      BY <1>2, <2>2, TextOver
    <3> HIDE DEF by
    <3> QED
      BY <2>1, <3>1, RewriteNothing
  <2>3. CASE at # {}
    <3>1. Len(d.pattern) # 0
      <4>1. PICK i \in at : TRUE
        BY <2>3
      <4>2. MatchAt(d, acc.text, i) \in Seq(W) /\ Len(MatchAt(d, acc.text, i)) = Len(d.pattern)
        <5> HIDE DEF at
        <5> QED
          BY <1>2, <1>3, <4>1, MatchIn
      <4>3. SUFFICES ASSUME Len(d.pattern) = 0 PROVE FALSE
        OBVIOUS
      <4>4. d.group = 0
        BY <4>3, DetectorTypes
      <4>5. Secret(d, MatchAt(d, acc.text, i)) = MatchAt(d, acc.text, i)
        BY <4>4 DEF Secret
      <4>6. PICK j \in DOMAIN MatchAt(d, acc.text, i) : TRUE
        BY <1>4, <4>1, <4>5
      <4> HIDE DEF d, at
      <4> QED
        BY <4>2, <4>3, <4>6
    <3>2. DOMAIN by \subseteq Found(d, acc.text)
      BY <1>3, <1>6
    <3>3. \A i \in DOMAIN by : by[i] \in Seq(W) /\ Subst(e, by[i]) = Subst(e, MatchAt(d, acc.text, i))
      BY <1>6, <1>10, <1>11
    <3> HIDE DEF by, at
    <3>4. Subst(e, Rewrite(d, acc.text, by)) = Subst(e, acc.text)
      BY <1>2, <3>1, <3>2, <3>3, RewriteSubst
    <3> QED
      BY <2>1, <3>4
  <2> QED
    BY <2>2, <2>3
<1> QED
  BY <1>0, <1>9, <1>11 DEF Reversible, after

(* And so does what all of them take out of it, one after the other over   *)
(* each other's placeholders.                                              *)
LEMMA RedactAtUndone ==
  ASSUME NEW s, NEW pointer, NEW W, NEW E,
         \A n \in Nat : Token(s, n) \in W,
         \A value \in Seq(W) : Entry(value, pointer) \in E,
         NEW content \in Seq(W), NEW values \in Seq(E)
  PROVE  Reversible(s, pointer, W, E, [text |-> content, values |-> values],
                    RedactAt(s, content, pointer, values))
<1> DEFINE before == [text |-> content, values |-> values]
           V == {x \in [text : Seq(W), values : Seq(E)] : Reversible(s, pointer, W, E, before, x)}
<1>1. before \in V
  BY DEF Extends, Reversible
<1>2. ASSUME NEW x \in V, NEW k \in 1..Count PROVE RedactOne(s, Detectors[k], content, pointer, x) \in V
  <2> DEFINE y == RedactOne(s, Detectors[k], content, pointer, x)
  <2>1. x \in [text : Seq(W), values : Seq(E)] /\ Reversible(s, pointer, W, E, before, x)
    OBVIOUS
  <2>2. Reversible(s, pointer, W, E, x, y)
    BY <2>1, RedactOneUndone
  <2> HIDE DEF y, before
  <2>3. x.values \in Seq(E) /\ y.values \in Seq(E) /\ before.values \in Seq(E)
    BY <2>1, <2>2 DEF Reversible, before
  <2>4. Extends(y.values, before.values)
    <3>1. Extends(x.values, before.values) /\ Extends(y.values, x.values)
      BY <2>1, <2>2 DEF Reversible
    <3>2. Len(before.values) \in Nat /\ Len(x.values) \in Nat /\ Len(y.values) \in Nat
      BY <2>3
    <3> QED
      BY <3>1, <3>2 DEF Extends
  <2>5. ASSUME NEW e \in Maps(W, W), Undoes(e, s, y.values, pointer) PROVE Subst(e, y.text) = Subst(e, before.text)
    <3>1. Undoes(e, s, x.values, pointer)
      BY <2>2, <2>3, <2>5, UndoesBefore DEF Reversible
    <3> QED
      BY <2>1, <2>2, <2>5, <3>1 DEF Reversible
  <2>6. y \in [text : Seq(W), values : Seq(E)] /\ Reversible(s, pointer, W, E, before, y)
    BY <2>2, <2>4, <2>5 DEF Reversible
  <2> QED
    BY <2>6 DEF y
<1>3. RedactAt(s, content, pointer, values) \in V
  <2> HIDE DEF V
  <2> QED
    BY <1>1, <1>2, RedactAtIn
<1> QED
  BY <1>3

-----------------------------------------------------------------------------
(* Restoration is one substitution when no value has a placeholder in it.  *)

(* Replacing is a substitution.                                            *)
LEMMA ReplaceIsSubst ==
  ASSUME NEW text, NEW symbol, NEW by
  PROVE  Replace(text, symbol, by) = Subst([x \in ToSet(text) |-> IF x = symbol THEN by ELSE <<x>>], text)
<1> DEFINE f == [x \in ToSet(text) |-> IF x = symbol THEN by ELSE <<x>>]
<1>1. \A i \in DOMAIN text : f[text[i]] = IF text[i] = symbol THEN by ELSE <<text[i]>>
  BY DEF ToSet
<1> HIDE DEF f
<1>2. Parts(f, text) = [i \in DOMAIN text |-> IF text[i] = symbol THEN by ELSE <<text[i]>>]
  BY <1>1 DEF Parts
<1> QED
  BY <1>2 DEF Replace, Subst, f

(* The placeholders of the first n values of a session.                    *)
TokensTo(s, n) == {Token(s, j - 1) : j \in 1..n}

(* Restores(e, ...) when e has for each placeholder what restoration puts  *)
(* in its place, and every other symbol for itself.                        *)
Restores(e, s, values, pointer) ==
  /\ \A k \in 1..Len(values) : e[Token(s, k - 1)] =
       IF Eligible(pointer, values[k].pointer) THEN values[k].value ELSE <<NeutralizedMarker>>
  /\ \A x \in DOMAIN e \ TokensTo(s, Len(values)) : e[x] = <<x>>

(* When no value has a placeholder in it, restoration is one substitution. *)
LEMMA RestoreIsSubst ==
  ASSUME NEW s, NEW pointer, NEW W, NEW E, NEW values \in Seq(E), NEW content \in Seq(W),
         NeutralizedMarker \in W \ TokensTo(s, Len(values)),
         \A k \in 1..Len(values) : values[k].value \in Seq(W \ TokensTo(s, Len(values))),
         NEW e \in Maps(W, W), Restores(e, s, values, pointer)
  PROVE  RestoreAt(s, values, content, pointer) = Subst(e, content)
<1> DEFINE n == Len(values)
           Inert == W \ TokensTo(s, n)
           Over(k) == Seq(W \ TokensTo(s, k))
           U == [k \in 0..n |-> {x \in Over(k) : Subst(e, x) = Subst(e, content)}]
           V == Seq(W)
           put(k) == IF Eligible(pointer, values[k].pointer) THEN values[k].value ELSE <<NeutralizedMarker>>
<1>1. n \in Nat /\ DOMAIN values = 1..n
  OBVIOUS
<1>2. \A k \in 1..n : put(k) \in Seq(Inert)
  <2>1. <<NeutralizedMarker>> \in Seq(Inert)
    OBVIOUS
  <2> HIDE DEF Inert
  <2> QED
    BY <2>1 DEF Inert
<1>3. \A k \in 0..n : TokensTo(s, k) \subseteq TokensTo(s, n)
  <2>1. \A k \in 0..n : \A j \in 1..k : j \in 1..n
    BY <1>1
  <2> QED
    BY <2>1 DEF TokensTo
<1>4. \A k \in 1..n : TokensTo(s, k) = TokensTo(s, k - 1) \cup {Token(s, k - 1)}
  BY <1>1 DEF TokensTo
<1>5. \A k \in 1..n : e[Token(s, k - 1)] = put(k)
  BY DEF Restores
<1>6. \A x \in Inert : x \in W /\ e[x] = <<x>>
  BY DEF Restores, Maps
<1>7. ASSUME NEW x \in Seq(Inert) PROVE Subst(e, x) = x
  <2>1. \A i \in 1..Len(x) : e[x[i]] = <<x[i]>>
    <3> HIDE DEF Inert
    <3> QED
      BY <1>6
  <2> QED
    BY <2>1, SubstIdentity
<1>8. content \in U[0]
  <2>1. TokensTo(s, 0) = {}
    BY DEF TokensTo
  <2>2. content \in Over(0) /\ 0 \in 0..n
    BY <1>1, <2>1
  <2> QED
    BY <2>2
<1>9. ASSUME NEW x \in V, NEW k \in 1..n
      PROVE  /\ RestoreWith(s, values, pointer, x, Places(values)[k]) \in V
             /\ x \in U[k - 1] => RestoreWith(s, values, pointer, x, Places(values)[k]) \in U[k]
  <2> DEFINE tok == Token(s, k - 1)
             f == [w \in ToSet(x) |-> IF w = tok THEN put(k) ELSE <<w>>]
             y == RestoreWith(s, values, pointer, x, Places(values)[k])
  <2>1. y = Subst(f, x)
    <3>1. Places(values)[k] = k
      BY <1>1 DEF Places
    <3>2. y = Replace(x, tok, put(k))
      BY <3>1 DEF RestoreWith
    <3> HIDE DEF put, tok, y
    <3> QED
      BY <3>2, ReplaceIsSubst
  <2>2. put(k) \in Seq(Inert) /\ put(k) \in Seq(W)
    <3> HIDE DEF put
    <3> QED
      BY <1>2
  <2>3. x \in Seq(ToSet(x)) /\ ToSet(x) \subseteq W
    BY TextOver DEF IsText
  <2>4. y \in V
    <3>1. f \in Maps(ToSet(x), W)
      <4>1. \A w \in ToSet(x) : <<w>> \in Seq(W)
        BY <2>3
      <4> HIDE DEF put, tok
      <4> QED
        BY <2>2, <4>1 DEF Maps
    <3> HIDE DEF f, y
    <3> QED
      BY <2>1, <2>3, <3>1, SubstSeqs
  <2>5. ASSUME x \in U[k - 1] PROVE y \in U[k]
    <3>1. k - 1 \in 0..n /\ k \in 0..n
      BY <1>1
    <3>2. x \in Over(k - 1) /\ Subst(e, x) = Subst(e, content)
      BY <2>5, <3>1
    <3>3. ToSet(x) \subseteq W \ TokensTo(s, k - 1)
      <4> HIDE DEF V
      <4> QED
        BY <3>2, TextOver
    <3>4. f \in Maps(ToSet(x), W \ TokensTo(s, k))
      <4>1. put(k) \in Over(k)
        <5>1. Inert \subseteq W \ TokensTo(s, k)
          BY <1>3, <3>1
        <5> HIDE DEF put, Inert
        <5> QED
          BY <2>2, <5>1
      <4>2. \A w \in ToSet(x) : w # tok => w \in W \ TokensTo(s, k)
        BY <1>4, <3>3
      <4>3. \A w \in ToSet(x) : w # tok => <<w>> \in Over(k)
        BY <4>2
      <4> HIDE DEF put, tok
      <4> QED
        BY <4>1, <4>3 DEF Maps
    <3>5. y \in Over(k)
      <4> HIDE DEF f, y
      <4> QED
        BY <2>1, <2>3, <3>4, SubstSeqs
    <3>6. Subst(e, y) = Subst(e, x)
      <4>1. ASSUME NEW i \in 1..Len(x) PROVE e[x[i]] = Subst(e, f[x[i]])
        <5>1. x[i] \in ToSet(x) /\ x[i] \in W
          BY <2>3
        <5>2. CASE x[i] = tok
          <6>1. f[x[i]] = put(k)
            BY <5>1, <5>2
          <6>2. Subst(e, put(k)) = put(k)
            BY <1>7, <2>2
          <6> HIDE DEF put, f
          <6> QED
            BY <1>5, <5>2, <6>1, <6>2
        <5>3. CASE x[i] # tok
          <6>1. f[x[i]] = <<x[i]>>
            BY <5>1, <5>3
          <6> HIDE DEF f
          <6> QED
            BY <5>1, <6>1, SubstSingle
        <5> QED
          BY <5>2, <5>3
      <4>2. f \in Maps(ToSet(x), W)
        <5>1. \A w \in ToSet(x) : <<w>> \in Seq(W)
          BY <2>3
        <5> HIDE DEF put, tok
        <5> QED
          BY <2>2, <5>1 DEF Maps
      <4> HIDE DEF f, y
      <4>3. Subst(e, Subst(f, x)) = Subst(e, x)
        BY <2>3, <4>1, <4>2, SubstTwice
      <4> QED
        BY <2>1, <4>3
    <3> HIDE DEF y
    <3> QED
      BY <3>1, <3>2, <3>5, <3>6
  <2> QED
    BY <2>4, <2>5
<1>10. RestoreAt(s, values, content, pointer) \in U[n]
  <2> HIDE DEF U
  <2> QED
    BY <1>1, <1>8, <1>9, RestoreReaches
<1>11. RestoreAt(s, values, content, pointer) \in Seq(Inert)
       /\ Subst(e, RestoreAt(s, values, content, pointer)) = Subst(e, content)
  BY <1>1, <1>10
<1> QED
  <2> HIDE DEF Inert
  <2> QED
    BY <1>7, <1>11

-----------------------------------------------------------------------------
(* What is left to find.  Where a symbol of rewritten text comes from says *)
(* whether a match in it is new, or was there before and was passed over.  *)

(* Every match is found, or overlaps one that is and begins before it.     *)
LEMMA FoundCovers ==
  ASSUME NEW d, NEW text, IsText(text), Len(d.pattern) \in Nat \ {0},
         NEW i \in DOMAIN text, Matches(d, text, i)
  PROVE  \E j \in Found(d, text) : j <= i /\ i < j + Len(d.pattern)
<1> DEFINE n == Len(d.pattern)
           size == Len(text)
           Covered(at, c) == \E j \in at : j <= c /\ c < j + n
           All == [at : SUBSET DOMAIN text, from : Nat]
           V == {x \in All : x.from = 1 \/ \E j \in x.at : x.from = j + n}
           U == [k \in 0..size |-> {x \in All : x.at \subseteq 1..k /\ \A c \in 1..k : Matches(d, text, c) => Covered(x.at, c)}]
<1>1. size \in Nat /\ DOMAIN text = 1..size /\ n \in Nat \ {0}
  BY DEF IsText
<1>2. [at |-> {}, from |-> 1] \in V /\ [at |-> {}, from |-> 1] \in U[0]
  BY <1>1
<1>3. ASSUME NEW x \in V, NEW k \in 1..size
      PROVE  /\ ScanWith(d, text, x, Places(text)[k]) \in V
             /\ x \in U[k - 1] => ScanWith(d, text, x, Places(text)[k]) \in U[k]
  <2>1. Places(text)[k] = k /\ k \in DOMAIN text /\ k \in Nat /\ k - 1 \in 0..size /\ k \in 0..size
    BY <1>1 DEF Places
  <2>2. CASE k >= x.from /\ Matches(d, text, k)
    <3> DEFINE y == [at |-> x.at \cup {k}, from |-> k + n]
    <3>1. ScanWith(d, text, x, Places(text)[k]) = y
      BY <2>1, <2>2 DEF ScanWith
    <3>2. y \in All /\ y.from = k + n /\ k \in y.at /\ y.at = x.at \cup {k}
      BY <2>1, <1>1
    <3>3. y \in V
      BY <3>2
    <3>4. ASSUME x \in U[k - 1] PROVE y \in U[k]
      <4>1. x.at \subseteq 1..(k - 1) /\ \A c \in 1..(k - 1) : Matches(d, text, c) => Covered(x.at, c)
        BY <2>1, <3>4
      <4>2. y.at \subseteq 1..k
        BY <2>1, <3>2, <4>1
      <4>3. ASSUME NEW c \in 1..k, Matches(d, text, c) PROVE Covered(y.at, c)
        <5>1. CASE c = k
          BY <1>1, <2>1, <3>2, <5>1
        <5>2. CASE c # k
          <6>1. c \in 1..(k - 1)
            BY <2>1, <5>2
          <6> QED
            BY <3>2, <4>1, <4>3, <6>1
        <5> QED
          BY <5>1, <5>2
      <4> HIDE DEF y, Covered
      <4> QED
        BY <2>1, <3>2, <4>2, <4>3
    <3> HIDE DEF y, V, U
    <3> QED
      BY <3>1, <3>3, <3>4
  <2>3. CASE ~(k >= x.from /\ Matches(d, text, k))
    <3>1. ScanWith(d, text, x, Places(text)[k]) = x
      BY <2>1, <2>3 DEF ScanWith
    <3>2. ASSUME x \in U[k - 1] PROVE x \in U[k]
      <4>1. x.at \subseteq 1..(k - 1) /\ \A c \in 1..(k - 1) : Matches(d, text, c) => Covered(x.at, c)
        BY <2>1, <3>2
      <4>2. x.at \subseteq 1..k
        BY <2>1, <4>1
      <4>3. ASSUME NEW c \in 1..k, Matches(d, text, c) PROVE Covered(x.at, c)
        <5>1. CASE c = k
          <6>1. k < x.from /\ x.from # 1
            BY <2>1, <2>3, <4>3, <5>1
          <6>2. PICK j \in x.at : x.from = j + n
            BY <6>1
          <6>3. j \in 1..(k - 1)
            BY <4>1
          <6>4. j <= k /\ k < j + n
            BY <6>1, <6>2, <6>3, <2>1
          <6> QED
            BY <5>1, <6>4
        <5>2. CASE c # k
          <6>1. c \in 1..(k - 1)
            BY <2>1, <5>2
          <6> QED
            BY <4>1, <4>3, <6>1
        <5> QED
          BY <5>1, <5>2
      <4> HIDE DEF Covered
      <4> QED
        BY <2>1, <4>2, <4>3
    <3> HIDE DEF V, U
    <3> QED
      BY <3>1, <3>2
  <2> QED
    BY <2>2, <2>3
<1>4. \E seen \in V : seen \in U[size] /\ Found(d, text) = seen.at
  <2> HIDE DEF V, U
  <2> QED
    BY <1>1, <1>2, <1>3, ScanReaches
<1>5. size \in 0..size /\ i \in 1..size
  BY <1>1
<1> QED
  BY <1>4, <1>5

(* h says of every symbol of after which symbol of text it is, or 0 for a  *)
(* mark: what is between two marks was together before, and nothing comes  *)
(* from holes.                                                             *)
Origin(h, after, text, holes) ==
  /\ h \in [1..Len(after) -> 0..Len(text)]
  /\ \A c \in 1..Len(after) :
       /\ h[c] = 0 => after[c].name \in MarkNames
       /\ h[c] # 0 => after[c] = text[h[c]] /\ h[c] \notin holes
       /\ c # Len(after) /\ h[c] # 0 /\ h[c + 1] # 0 => h[c + 1] = h[c] + 1

(* The last symbol is a mark, or the one at i.                             *)
EndsAt(h, after, i) == Len(after) = 0 \/ h[Len(after)] \in {0, i}

(* The origins of two texts that are put together where the first ends.    *)
LEMMA OriginConcat ==
  ASSUME NEW W, NEW text, NEW holes, NEW P \in Seq(W), NEW Q \in Seq(W), NEW i \in Nat \ {0},
         NEW j, Len(Q) # 0,
         NEW h, Origin(h, P, text, holes), EndsAt(h, P, i - 1),
         NEW f, Origin(f, Q, text, holes), f[1] \in {0, i}, EndsAt(f, Q, j)
  PROVE  \E o : Origin(o, P \o Q, text, holes) /\ EndsAt(o, P \o Q, j)
<1> DEFINE n == Len(P)
           m == Len(Q)
           PQ == P \o Q
           o == [c \in 1..(n + m) |-> IF c <= n THEN h[c] ELSE f[c - n]]
<1>1. n \in Nat /\ m \in Nat /\ m # 0
  OBVIOUS
<1>2. /\ Len(PQ) = n + m
      /\ \A c \in 1..n : PQ[c] = P[c]
      /\ \A c \in 1..m : PQ[n + c] = Q[c]
  OBVIOUS
<1>3. \A c \in 1..n : c \in 1..(n + m) /\ o[c] = h[c]
  BY <1>1
<1>4. \A c \in 1..m : n + c \in 1..(n + m) /\ o[n + c] = f[c]
  BY <1>1
<1>5. \A c \in 1..(n + m) : c \in 1..n \/ \E e \in 1..m : c = n + e
  <2> TAKE c \in 1..(n + m)
  <2>1. CASE c <= n
    BY <1>1, <2>1
  <2>2. CASE ~(c <= n)
    <3>1. c - n \in 1..m /\ c = n + (c - n)
      BY <1>1, <2>2
    <3> QED
      BY <3>1
  <2> QED
    BY <2>1, <2>2
<1>6. o \in [1..(n + m) -> 0..Len(text)]
  <2>1. \A c \in 1..n : h[c] \in 0..Len(text)
    BY DEF Origin
  <2>2. \A c \in 1..m : f[c] \in 0..Len(text)
    BY DEF Origin
  <2>3. ASSUME NEW c \in 1..(n + m) PROVE o[c] \in 0..Len(text)
    <3> HIDE DEF o, n, m
    <3> QED
      BY <1>3, <1>4, <1>5, <2>1, <2>2
  <2>4. o = [c \in 1..(n + m) |-> o[c]]
    OBVIOUS
  <2> HIDE DEF o
  <2> QED
    BY <2>3, <2>4
<1> HIDE DEF o, PQ
<1>7. ASSUME NEW c \in 1..(n + m)
      PROVE  /\ o[c] = 0 => PQ[c].name \in MarkNames
             /\ o[c] # 0 => PQ[c] = text[o[c]] /\ o[c] \notin holes
             /\ c # n + m /\ o[c] # 0 /\ o[c + 1] # 0 => o[c + 1] = o[c] + 1
  <2>1. CASE c \in 1..n /\ c # n
    <3>1. c + 1 \in 1..n
      BY <1>1, <2>1
    <3> QED
      BY <1>2, <1>3, <2>1, <3>1 DEF Origin
  <2>2. CASE c = n
    <3>1. n \in 1..n /\ 1 \in 1..m
      BY <1>1, <2>2
    <3>2. h[n] \in {0, i - 1}
      BY <1>1, <3>1 DEF EndsAt
    <3>3. o[n] = h[n] /\ o[n + 1] = f[1] /\ PQ[n] = P[n]
      BY <1>2, <1>3, <1>4, <3>1
    <3>4. (i - 1) + 1 = i
      OBVIOUS
    <3>5. /\ h[n] = 0 => P[n].name \in MarkNames
          /\ h[n] # 0 => P[n] = text[h[n]] /\ h[n] \notin holes
      BY <3>1 DEF Origin
    <3> HIDE DEF n, m
    <3> QED
      BY <2>2, <3>2, <3>3, <3>4, <3>5
  <2>3. CASE c \notin 1..n
    <3>1. PICK e \in 1..m : c = n + e
      BY <1>5, <2>3
    <3>2. o[c] = f[e] /\ PQ[c] = Q[e]
      BY <1>2, <1>4, <3>1
    <3>3. /\ f[e] = 0 => Q[e].name \in MarkNames
          /\ f[e] # 0 => Q[e] = text[f[e]] /\ f[e] \notin holes
          /\ e # m /\ f[e] # 0 /\ f[e + 1] # 0 => f[e + 1] = f[e] + 1
      BY DEF Origin
    <3>4. ASSUME c # n + m PROVE e # m /\ o[c + 1] = f[e + 1]
      <4>1. e # m /\ e + 1 \in 1..m /\ c + 1 = n + (e + 1)
        BY <1>1, <3>1, <3>4
      <4> QED
        BY <1>4, <4>1
    <3> HIDE DEF n, m
    <3> QED
      BY <3>2, <3>3, <3>4
  <2> QED
    BY <2>1, <2>2, <2>3
<1>8. Origin(o, PQ, text, holes)
  BY <1>2, <1>6, <1>7 DEF Origin
<1>9. EndsAt(o, PQ, j)
  <2>1. m \in 1..m
    BY <1>1
  <2>2. o[n + m] = f[m] /\ f[m] \in {0, j}
    BY <1>1, <1>4, <2>1 DEF EndsAt
  <2> QED
    BY <1>2, <2>2 DEF EndsAt
<1> QED
  BY <1>8, <1>9 DEF PQ

(* Where the symbols of a rewritten text come from.                        *)
Holes(at, g) == {IF g = 0 THEN j ELSE j + g - 1 : j \in at}

(* The symbols of a match are those of the text from its place on.         *)
LEMMA MatchSymbols ==
  ASSUME NEW k \in 1..Count, NEW W, NEW text \in Seq(W)
  PROVE  \A i \in Found(Detectors[k], text) : LET m == Len(Detectors[k].pattern) IN
           /\ i \in 1..Len(text) /\ i + m - 1 <= Len(text)
           /\ MatchAt(Detectors[k], text, i) \in Seq(W) /\ Len(MatchAt(Detectors[k], text, i)) = m
           /\ \A c \in 1..m : MatchAt(Detectors[k], text, i)[c] = text[i + c - 1]
<1> TAKE i \in Found(Detectors[k], text)
<1> DEFINE d == Detectors[k]
           m == Len(d.pattern)
           n == Len(text)
<1>1. m \in Nat /\ n \in Nat /\ DOMAIN text = 1..n /\ IsText(text)
  BY DetectorTypes, TextOver
<1>2. i \in 1..n /\ i + m - 1 <= n
  BY <1>1, FoundMatches DEF Matches
<1>3. MatchAt(d, text, i) \in Seq(W) /\ Len(MatchAt(d, text, i)) = m
  BY MatchIn
<1>4. \A c \in 1..m : MatchAt(d, text, i)[c] = text[i + c - 1]
  <2> HIDE DEF m, n
  <2> QED
    BY <1>1, <1>2 DEF MatchAt, m
<1> QED
  BY <1>2, <1>3, <1>4

(* Rewriting with by puts a mark in the place of each match, or of its     *)
(* g-th symbol.                                                            *)
Marking(d, W, text, by, g) ==
  /\ DOMAIN by \subseteq Found(d, text) /\ Len(d.pattern) # 0 /\ g \in 0..Len(d.pattern)
  /\ \A i \in DOMAIN by : \E x \in W : x.name \in MarkNames
       /\ by[i] = IF g = 0 THEN <<x>> ELSE [MatchAt(d, text, i) EXCEPT ![g] = x]

(* It leaves the rest.                                                     *)
LEMMA RewriteOrigin ==
  ASSUME NEW k \in 1..Count, NEW W, NEW text \in Seq(W), NEW by, NEW g,
         Marking(Detectors[k], W, text, by, g)
  PROVE  \E h : Origin(h, Rewrite(Detectors[k], text, by), text, Holes(DOMAIN by, g))
<1> DEFINE d == Detectors[k]
           at == DOMAIN by
           m == Len(d.pattern)
           n == Len(text)
           Within(i) == \E j \in at : j < i /\ i < j + m
           part(i) == CASE i \in at -> by[i]
                        [] i \notin at /\ Within(i) -> <<>>
                        [] OTHER -> <<text[i]>>
           seqs == [i \in DOMAIN text |-> part(i)]
           Covers(j, i) == j <= i /\ i < j + m
           holes == Holes(at, g)
           Reach(i) == IF \E j \in at : Covers(j, i) THEN (CHOOSE j \in at : Covers(j, i)) + m - 1 ELSE i
<1>1. m \in Nat \ {0} /\ n \in Nat /\ DOMAIN text = 1..n /\ IsText(text)
  <2>1. Len(d.pattern) # 0
    BY DEF Marking
  <2> QED
    BY <2>1, DetectorTypes, TextOver
<1>0. \A i \in at : /\ i \in 1..n /\ i + m - 1 <= n
                     /\ MatchAt(d, text, i) \in Seq(W) /\ Len(MatchAt(d, text, i)) = m
                     /\ \A c \in 1..m : MatchAt(d, text, i)[c] = text[i + c - 1]
  <2>1. at \subseteq Found(d, text)
    BY DEF Marking
  <2> QED
    BY <2>1, MatchSymbols, ZenonT(60)
<1> USE DEF Marking
<1>2. \A j \in at : j \in 1..n /\ j + m - 1 <= n
  BY <1>0
<1>3. \A i, j \in at : i < j => i + m <= j
  <2>1. \A i, j \in Found(d, text) : i < j => i + m <= j
    BY <1>1, FoundApart
  <2> QED
    BY <2>1
<1>4. ASSUME NEW i \in Nat, NEW j \in at, Covers(j, i) PROVE Reach(i) = j + m - 1
  <2>1. \A l \in at : Covers(l, i) => l = j
    <3>1. SUFFICES ASSUME NEW l \in at, Covers(l, i) PROVE ~(l < j) /\ ~(j < l)
      BY <1>2
    <3> QED
      BY <1>1, <1>2, <1>3, <1>4, <3>1, SMTT(60)
  <2>2. (CHOOSE l \in at : Covers(l, i)) = j
    <3> HIDE DEF Covers, at
    <3> QED
      BY <1>4, <2>1
  <2> HIDE DEF Covers, at
  <2> QED
    BY <1>4, <2>2
<1>5. \A i \in Nat : ~(\E j \in at : Covers(j, i)) => Reach(i) = i
  OBVIOUS
<1>6. \A i \in at : /\ MatchAt(d, text, i) \in Seq(W) /\ Len(MatchAt(d, text, i)) = m
                    /\ by[i] \in Seq(W)
                    /\ \A c \in 1..m : MatchAt(d, text, i)[c] = text[i + c - 1]
  <2> TAKE i \in at
  <2>1. MatchAt(d, text, i) \in Seq(W) /\ Len(MatchAt(d, text, i)) = m
    BY <1>0
  <2>2. PICK x \in W : by[i] = IF g = 0 THEN <<x>> ELSE [MatchAt(d, text, i) EXCEPT ![g] = x]
    OBVIOUS
  <2>3. by[i] \in Seq(W)
    <3>1. CASE g = 0
      BY <2>2, <3>1
    <3>2. CASE g # 0
      <4>1. g \in 1..m
        BY <1>1, <3>2
      <4> DEFINE match == MatchAt(d, text, i)
      <4>2. match \in Seq(W) /\ g \in 1..Len(match)
        BY <2>1, <4>1
      <4> HIDE DEF match, d, m
      <4>3. [match EXCEPT ![g] = x] \in Seq(W)
        BY <4>2
      <4> QED
        BY <2>2, <3>2, <4>3 DEF match
    <3> QED
      BY <3>1, <3>2
  <2>4. \A c \in 1..m : MatchAt(d, text, i)[c] = text[i + c - 1]
    BY <1>0
  <2> QED
    BY <2>1, <2>3, <2>4
<1>7. \A i \in 1..n : part(i) \in Seq(W)
  <2>1. \A i \in 1..n : <<text[i]>> \in Seq(W) /\ <<>> \in Seq(W)
    BY <1>1
  <2> HIDE DEF Within
  <2> QED
    BY <1>6, <2>1
<1>8. seqs \in Seq(Seq(W)) /\ Len(seqs) = n /\ DOMAIN seqs = 1..n /\ \A i \in 1..n : seqs[i] = part(i)
  <2> HIDE DEF part
  <2> QED
    BY <1>1, <1>7
<1>9. Rewrite(d, text, by) = FlattenSeq(seqs)
  BY DEF Rewrite
<1> HIDE DEF seqs
<1>10. PICK R : R \in [0..n -> Seq(W)] /\ R[0] = <<>> /\ \A i \in 1..n : R[i] = R[i - 1] \o seqs[i]
  <2>1. \E R : PrefixesOf(R, W, seqs, n)
    BY <1>8, FlattenPrefixes
  <2> QED
    BY <1>8, <2>1 DEF PrefixesOf
<1>11. FlattenSeq(seqs) = R[n]
  BY <1>8, <1>10, FlattenUnique
<1> DEFINE T == {i \in 0..n : \E h : Origin(h, R[i], text, holes) /\ EndsAt(h, R[i], Reach(i))}
<1>12. 0 \in T
  <2> DEFINE h == [c \in 1..0 |-> 0]
  <2>1. Len(R[0]) = 0 /\ 1..0 = {} /\ h \in [1..0 -> 0..n] /\ 0 \in 0..n
    BY <1>1, <1>10
  <2>2. Origin(h, R[0], text, holes) /\ EndsAt(h, R[0], Reach(0))
    <3> HIDE DEF h, Reach, holes
    <3> QED
      BY <2>1 DEF Origin, EndsAt
  <2> HIDE DEF Reach, h, holes
  <2> QED
    BY <2>1, <2>2
<1>13. ASSUME NEW i \in 1..n, i - 1 \in T PROVE i \in T
  <2>1. i \in Nat \ {0} /\ i - 1 \in Nat /\ i \in 0..n /\ i - 1 \in 0..n
    BY <1>1
  <2>2. PICK h : Origin(h, R[i - 1], text, holes) /\ EndsAt(h, R[i - 1], Reach(i - 1))
    BY <1>13
  <2>3. R[i] = R[i - 1] \o part(i) /\ R[i - 1] \in Seq(W) /\ part(i) \in Seq(W)
    BY <1>7, <1>8, <1>10, <2>1
  <2>4. CASE ~Within(i)
    <3>1. Reach(i - 1) = i - 1
      <4>1. CASE \E j \in at : Covers(j, i - 1)
        <5>1. PICK j \in at : Covers(j, i - 1)
          BY <4>1
        <5>2. j < i /\ i - 1 < j + m /\ j \in 1..n
          BY <1>2, <2>1, <5>1
        <5>5. ~(i < j + m)
          BY <2>4, <5>1, <5>2
        <5>3. j + m - 1 = i - 1
          <6>1. m \in Nat /\ i \in Nat /\ j \in Nat
            BY <1>1, <2>1, <5>2
          <6>2. \A a, b, c \in Nat : b - 1 < c + a /\ ~(b < c + a) => c + a - 1 = b - 1
            OBVIOUS
          <6> HIDE DEF m, n, Covers, Reach, Within, part
          <6> QED
            BY <5>2, <5>5, <6>1, <6>2
        <5> HIDE DEF Covers, Reach
        <5>4. Reach(i - 1) = j + m - 1
          BY <1>4, <2>1, <5>1
        <5> QED
          BY <5>3, <5>4
      <4>2. CASE ~(\E j \in at : Covers(j, i - 1))
        <5> HIDE DEF Covers, Reach
        <5> QED
          BY <1>5, <2>1, <4>2
      <4> QED
        BY <4>1, <4>2
    <3>2. Len(part(i)) # 0 /\ \E f : Origin(f, part(i), text, holes) /\ f[1] \in {0, i} /\ EndsAt(f, part(i), Reach(i))
      <4>1. CASE i \in at
        <5>1. Covers(i, i) /\ part(i) = by[i]
          BY <1>1, <2>1, <4>1
        <5>2. Reach(i) = i + m - 1
          BY <1>4, <2>1, <4>1, <5>1
        <5>3. PICK x \in W : x.name \in MarkNames /\ by[i] = IF g = 0 THEN <<x>> ELSE [MatchAt(d, text, i) EXCEPT ![g] = x]
          BY <4>1
        <5>4. CASE g = 0
          <6> DEFINE f == [c \in 1..1 |-> 0]
          <6>1. by[i] = <<x>> /\ Len(<<x>>) = 1 /\ <<x>>[1] = x
            BY <5>3, <5>4
          <6>2. f \in [1..1 -> 0..n] /\ f[1] = 0 /\ \A c \in 1..1 : c = 1
            BY <1>1
          <6> HIDE DEF f, holes, Reach, part
          <6>3. Origin(f, <<x>>, text, holes) /\ EndsAt(f, <<x>>, Reach(i))
            BY <5>3, <6>1, <6>2 DEF Origin, EndsAt
          <6> QED
            BY <5>1, <6>1, <6>2, <6>3
        <5>5. CASE g # 0
          <6> DEFINE f == [c \in 1..m |-> IF c = g THEN 0 ELSE i + c - 1]
                     Q == [MatchAt(d, text, i) EXCEPT ![g] = x]
          <6>1. by[i] = Q /\ g \in 1..m /\ i \in 1..n /\ i + m - 1 <= n
            BY <1>1, <1>2, <4>1, <5>3, <5>5
          <6>2. Q \in Seq(W) /\ Len(Q) = m /\ Q[g] = x /\ \A c \in 1..m : c # g => Q[c] = text[i + c - 1]
            <7>1. MatchAt(d, text, i) \in Seq(W) /\ Len(MatchAt(d, text, i)) = m
                  /\ \A c \in 1..m : MatchAt(d, text, i)[c] = text[i + c - 1]
              BY <1>6, <4>1
            <7> HIDE DEF d, m, n
            <7> QED
              BY <6>1, <7>1
          <6>3. f \in [1..m -> 0..n] /\ \A c \in 1..m : f[c] = IF c = g THEN 0 ELSE i + c - 1
            BY <1>1, <6>1
          <6>4. ASSUME NEW c \in 1..m, c # g PROVE i + c - 1 \notin holes
            <7>1. SUFFICES ASSUME NEW j \in at, i + c - 1 = j + g - 1 PROVE FALSE
              BY <5>5 DEF Holes
            <7>2. j \in 1..n /\ i \in Nat /\ g \in Nat /\ c \in Nat /\ m \in Nat /\ 1 <= c /\ c <= m /\ 1 <= g /\ g <= m
              BY <1>1, <1>2, <2>1, <6>1
            <7>3. i + m <= j \/ j + m <= i \/ i = j
              <8>1. i < j \/ j < i \/ i = j
                BY <7>2
              <8> QED
                BY <1>3, <4>1, <8>1
            <7> HIDE DEF m, n, at
            <7> QED
              BY <6>4, <7>1, <7>2, <7>3
          <6>5. Origin(f, Q, text, holes)
            <7>1. ASSUME NEW c \in 1..m, c # m PROVE f[c] # 0 /\ f[c + 1] # 0 => f[c + 1] = f[c] + 1
              <8>1. c + 1 \in 1..m /\ i + (c + 1) - 1 = (i + c - 1) + 1
                BY <1>1, <2>1, <7>1
              <8> HIDE DEF f, m
              <8> QED
                BY <6>3, <8>1
            <7>2. \A c \in 1..m : c # g => i + c - 1 # 0
              BY <1>1, <2>1
            <7> HIDE DEF f, Q, m, holes
            <7> QED
              BY <5>3, <6>2, <6>3, <6>4, <7>1, <7>2 DEF Origin
          <6>6. f[1] \in {0, i} /\ EndsAt(f, Q, Reach(i))
            <7>1. 1 \in 1..m /\ m \in 1..m /\ i + 1 - 1 = i
              BY <1>1, <2>1
            <7> HIDE DEF f, Q, m, Reach
            <7> QED
              BY <5>2, <6>2, <6>3, <7>1 DEF EndsAt
          <6> HIDE DEF f, Q, Reach, part, holes
          <6> QED
            BY <1>1, <5>1, <6>1, <6>2, <6>5, <6>6
        <5> QED
          BY <5>4, <5>5
      <4>2. CASE i \notin at
        <5>1. ~(\E j \in at : Covers(j, i))
          <6>1. SUFFICES ASSUME NEW j \in at, Covers(j, i) PROVE FALSE
            OBVIOUS
          <6>2. j # i /\ j \in 1..n
            BY <1>2, <4>2
          <6> QED
            BY <2>1, <2>4, <6>1, <6>2
        <5>2. Reach(i) = i
          BY <1>5, <2>1, <5>1
        <5>3. part(i) = <<text[i]>>
          <6> HIDE DEF Within
          <6> QED
            BY <2>4, <4>2
        <5>4. i \notin holes
          <6>1. SUFFICES ASSUME NEW j \in at, i = IF g = 0 THEN j ELSE j + g - 1 PROVE FALSE
            BY DEF Holes
          <6>2. j \in 1..n /\ g \in Nat /\ g <= m
            BY <1>1, <1>2
          <6>3. Covers(j, i)
            <7>1. m \in Nat \ {0} /\ j \in Nat /\ i \in Nat /\ (g = 0 => i = j) /\ (g # 0 => i = j + g - 1)
              BY <1>1, <2>1, <6>1, <6>2
            <7> HIDE DEF m, n, at
            <7> QED
              BY <6>2, <7>1
          <6> QED
            BY <5>1, <6>3
        <5> DEFINE f == [c \in 1..1 |-> i]
        <5>5. f \in [1..1 -> 0..n] /\ f[1] = i /\ \A c \in 1..1 : c = 1
          BY <1>1, <2>1
        <5>6. Len(<<text[i]>>) = 1 /\ <<text[i]>>[1] = text[i]
          OBVIOUS
        <5> HIDE DEF f, holes, Reach, part
        <5>7. Origin(f, <<text[i]>>, text, holes) /\ EndsAt(f, <<text[i]>>, Reach(i))
          BY <2>1, <5>2, <5>4, <5>5, <5>6 DEF Origin, EndsAt
        <5> QED
          BY <5>3, <5>5, <5>6, <5>7
      <4> QED
        BY <4>1, <4>2
    <3>3. PICK f : Origin(f, part(i), text, holes) /\ f[1] \in {0, i} /\ EndsAt(f, part(i), Reach(i))
      BY <3>2
    <3>4. \E o : Origin(o, R[i], text, holes) /\ EndsAt(o, R[i], Reach(i))
      <4> HIDE DEF holes, Reach, part, n
      <4> QED
        BY <2>1, <2>2, <2>3, <3>1, <3>2, <3>3, OriginConcat
    <3> HIDE DEF holes, Reach
    <3> QED
      BY <2>1, <3>4
  <2>5. CASE Within(i)
    <3>1. PICK j \in at : j < i /\ i < j + m
      BY <2>5
    <3>2. j \in 1..n /\ j + m - 1 <= n
      BY <1>2
    <3>3. i \notin at
      <4>1. SUFFICES ASSUME i \in at PROVE FALSE
        OBVIOUS
      <4>2. j + m <= i
        BY <1>3, <3>1, <4>1
      <4> QED
        BY <1>1, <2>1, <3>1, <3>2, <4>2
    <3>4. Covers(j, i) /\ Covers(j, i - 1)
      BY <1>1, <2>1, <3>1, <3>2
    <3>5. Reach(i) = j + m - 1 /\ Reach(i - 1) = j + m - 1
      <4> HIDE DEF Covers, Reach
      <4> QED
        BY <1>4, <2>1, <3>4
    <3>6. part(i) = <<>>
      <4> HIDE DEF Within
      <4> QED
        BY <2>5, <3>3
    <3>7. R[i] = R[i - 1]
      <4> HIDE DEF part, Reach, T
      <4> QED
        BY <2>3, <3>6
    <3> HIDE DEF holes, Reach
    <3> QED
      BY <2>1, <2>2, <3>5, <3>7
  <2> QED
    BY <2>4, <2>5
<1>14. n \in T
  <2>1. ASSUME NEW i \in 0..(n - 1), i \in T PROVE i + 1 \in T
    <3>1. i + 1 \in 1..n /\ (i + 1) - 1 = i
      BY <1>1
    <3> HIDE DEF T
    <3> QED
      BY <1>13, <2>1, <3>1
  <2> HIDE DEF T
  <2> QED
    BY <1>1, <1>12, <2>1, InductionTo
<1> QED
  <2> HIDE DEF holes, Reach
  <2> QED
    BY <1>9, <1>11, <1>14 DEF holes

(* Of a rule whose matches lie apart every one is found.                   *)

LEMMA ApartFound ==
  ASSUME NEW k \in 1..Count, Apart(Detectors[k]), NEW W, NEW text \in Seq(W)
  PROVE  Found(Detectors[k], text) = {i \in 1..Len(text) : Matches(Detectors[k], text, i)}
<1> DEFINE d == Detectors[k]
           n == Len(d.pattern)
<1>1. n \in Nat \ {0} /\ DOMAIN d.pattern = 1..n /\ Len(text) \in Nat /\ DOMAIN text = 1..Len(text) /\ IsText(text)
  BY DetectorTypes, TextOver DEF Apart
<1>2. Found(d, text) \subseteq {i \in 1..Len(text) : Matches(d, text, i)}
  BY <1>1, FoundMatches
<1>3. ASSUME NEW i \in 1..Len(text), Matches(d, text, i) PROVE i \in Found(d, text)
  <2>1. PICK j \in Found(d, text) : j <= i /\ i < j + n
    BY <1>1, <1>3, FoundCovers
  <2>2. j \in 1..Len(text) /\ Matches(d, text, j)
    BY <1>2
  <2>3. ASSUME j # i PROVE FALSE
    <3>1. i - j \in 1..(n - 1)
      BY <1>1, <2>1, <2>2, <2>3
    <3>2. PICK c \in 1..(n - (i - j)) : d.pattern[c] \cap d.pattern[c + (i - j)] = {}
      BY <3>1 DEF Apart
    <3>3. c \in 1..n /\ c + (i - j) \in 1..n /\ i + c - 1 = j + (c + (i - j)) - 1
      BY <1>1, <2>2, <3>1
    <3>4. text[i + c - 1].name \in d.pattern[c] /\ text[j + (c + (i - j)) - 1].name \in d.pattern[c + (i - j)]
      <4> HIDE DEF d, n
      <4> QED
        BY <1>1, <1>3, <2>2, <3>3 DEF Matches
    <3> QED
      BY <3>2, <3>3, <3>4
  <2> QED
    BY <2>1, <2>3
<1> QED
  BY <1>2, <1>3

(* A rewritten text has no match of a separate rule that was not there     *)
(* before, clear of what was replaced.                                     *)
LEMMA MatchWasThere ==
  ASSUME NEW l \in 1..Count, Separate(Detectors[l]), NEW W, NEW text \in Seq(W), NEW after \in Seq(W),
         NEW holes, NEW h, Origin(h, after, text, holes),
         NEW a \in 1..Len(after), Matches(Detectors[l], after, a)
  PROVE  \E b \in 1..Len(text) :
           /\ Matches(Detectors[l], text, b)
           /\ MatchAt(Detectors[l], text, b) = MatchAt(Detectors[l], after, a)
           /\ \A c \in 1..Len(Detectors[l].pattern) : b + c - 1 \notin holes
<1> DEFINE d == Detectors[l]
           m == Len(d.pattern)
           n == Len(after)
           b == h[a]
<1>1. m \in Nat \ {0} /\ DOMAIN d.pattern = 1..m /\ n \in Nat /\ Len(text) \in Nat
  BY DetectorTypes DEF Separate, Apart
<1>2. a + m - 1 <= n /\ \A c \in 1..m : a + c - 1 \in 1..n /\ after[a + c - 1].name \in d.pattern[c]
  <2>1. a + m - 1 <= n
    BY DEF Matches
  <2>2. \A c \in 1..m : a + c - 1 \in 1..n
    BY <1>1, <2>1
  <2> HIDE DEF m
  <2> QED
    BY <1>1, <2>1, <2>2 DEF Matches
<1>3. ASSUME NEW c \in 1..m
      PROVE  /\ h[a + c - 1] \in 1..Len(text) /\ after[a + c - 1] = text[h[a + c - 1]] /\ h[a + c - 1] \notin holes
  <2>1. a + c - 1 \in 1..n /\ after[a + c - 1].name \notin MarkNames
    <3>1. d.pattern[c] \cap MarkNames = {}
      BY <1>1 DEF Separate, Apart
    <3> QED
      BY <1>2, <3>1
  <2>2. h[a + c - 1] # 0 /\ h[a + c - 1] \in 0..Len(text)
    BY <2>1 DEF Origin
  <2> QED
    BY <1>1, <2>1, <2>2 DEF Origin
<1> DEFINE T == {c \in 0..(m - 1) : h[a + c] = b + c}
<1>4. 1 \in 1..m /\ a + 1 - 1 = a
  BY <1>1
<1>5. b \in 1..Len(text) /\ b \in Nat
  BY <1>3, <1>4
<1>6. 0 \in T
  BY <1>1, <1>5
<1>7. ASSUME NEW c \in 0..((m - 1) - 1), c \in T PROVE c + 1 \in T
  <2>1. /\ c + 1 \in 0..(m - 1) /\ c + 1 \in 1..m /\ c + 2 \in 1..m /\ c \in Nat
        /\ a + (c + 1) - 1 = a + c /\ a + (c + 2) - 1 = (a + c) + 1 /\ a + (c + 1) = (a + c) + 1
    BY <1>1
  <2>2. h[a + c] # 0 /\ h[(a + c) + 1] # 0
    BY <1>3, <2>1
  <2>3. a + c \in 1..n /\ (a + c) + 1 \in 1..n
    BY <1>2, <2>1
  <2>4. a + c # n
    BY <1>1, <2>3
  <2>5. h[(a + c) + 1] = h[a + c] + 1
    BY <2>2, <2>3, <2>4 DEF Origin
  <2>6. h[a + c] = b + c
    BY <1>7
  <2>7. h[a + (c + 1)] = b + (c + 1)
    <3> HIDE DEF b, T, m, n
    <3> QED
      BY <1>5, <2>1, <2>5, <2>6
  <2> HIDE DEF b
  <2> QED
    BY <2>1, <2>7
<1>8. \A c \in 0..(m - 1) : h[a + c] = b + c
  <2>1. SUFFICES ASSUME NEW c \in 0..(m - 1) PROVE c \in T
    OBVIOUS
  <2>2. c \in Nat /\ \A e \in 0..(c - 1) : e \in 0..((m - 1) - 1)
    BY <1>1
  <2>3. \A e \in 0..(c - 1) : e \in T => e + 1 \in T
    <3> HIDE DEF T
    <3> QED
      BY <1>7, <2>2
  <2> HIDE DEF T
  <2> QED
    BY <1>6, <2>2, <2>3, InductionTo
<1>9. ASSUME NEW c \in 1..m
      PROVE  /\ b + c - 1 \in 1..Len(text) /\ after[a + c - 1] = text[b + c - 1] /\ b + c - 1 \notin holes
  <2>1. c - 1 \in 0..(m - 1) /\ a + (c - 1) = a + c - 1 /\ b + (c - 1) = b + c - 1
    BY <1>1, <1>5
  <2>2. h[a + c - 1] = b + c - 1
    <3>1. h[a + (c - 1)] = b + (c - 1)
      BY <1>8, <2>1
    <3> HIDE DEF b
    <3> QED
      BY <2>1, <3>1
  <2> HIDE DEF b
  <2> QED
    BY <1>3, <2>2
<1>10. b + m - 1 <= Len(text)
  <2>1. m \in 1..m
    BY <1>1
  <2> HIDE DEF b, m
  <2> QED
    BY <1>1, <1>9, <2>1
<1>11. Matches(d, text, b)
  <2>1. \A c \in 1..m : text[b + c - 1].name \in d.pattern[c]
    <3> HIDE DEF b, m
    <3> QED
      BY <1>2, <1>9
  <2> HIDE DEF b, m
  <2> QED
    BY <1>1, <1>10, <2>1 DEF Matches, m
<1>12. MatchAt(d, text, b) = MatchAt(d, after, a)
  <2> DEFINE x == SubSeq(text, b, b + m - 1)
             y == SubSeq(after, a, a + m - 1)
  <2> HIDE DEF b, m
  <2>1. x \in Seq(W) /\ Len(x) = m /\ \A c \in 1..m : x[c] = text[b + c - 1]
    BY <1>1, <1>5, <1>10
  <2>2. y \in Seq(W) /\ Len(y) = m /\ \A c \in 1..m : y[c] = after[a + c - 1]
    BY <1>1, <1>2
  <2>3. \A c \in 1..m : x[c] = y[c]
    BY <1>9, <2>1, <2>2
  <2> HIDE DEF x, y
  <2>4. x = y
    BY <2>1, <2>2, <2>3, SeqEqual
  <2> QED
    BY <2>4 DEF MatchAt, x, y, m
<1> QED
  <2> HIDE DEF b
  <2> QED
    BY <1>5, <1>9, <1>11, <1>12

(* A detector finds nothing in a text.                                     *)

FindsNone(d, text) == SecretsAt(d, text) = {}

(* Every secret that it finds is rewritten.                                *)
MarksAll(d, text, by) == SecretsAt(d, text) \subseteq DOMAIN by

(* So what is rewritten where a detector finds something has nothing more  *)
(* for it, nor for one that found nothing before.                          *)
LEMMA RewriteClears ==
  ASSUME NEW k \in 1..Count, NEW W, NEW text \in Seq(W), NEW by, NEW g,
         Marking(Detectors[k], W, text, by, g),
         NEW after, after = Rewrite(Detectors[k], text, by), after \in Seq(W),
         NEW l \in 1..Count, Separate(Detectors[l]),
         FindsNone(Detectors[l], text) \/ (l = k /\ MarksAll(Detectors[k], text, by))
  PROVE  FindsNone(Detectors[l], after)
<1>1. PICK h : Origin(h, after, text, Holes(DOMAIN by, g))
  BY RewriteOrigin
<1> SUFFICES ASSUME NEW a \in SecretsAt(Detectors[l], after) PROVE FALSE
  BY DEF FindsNone
<1> DEFINE d == Detectors[l]
<1>2. a \in Found(d, after) /\ GateOk(d, Secret(d, MatchAt(d, after, a)))
  BY DEF SecretsAt
<1>0. Apart(d)
  BY DEF Separate
<1>3. a \in 1..Len(after) /\ Matches(d, after, a)
  BY <1>0, <1>2, ApartFound
<1>4. PICK b \in 1..Len(text) : /\ Matches(d, text, b) /\ MatchAt(d, text, b) = MatchAt(d, after, a)
                                /\ \A c \in 1..Len(d.pattern) : b + c - 1 \notin Holes(DOMAIN by, g)
  BY <1>1, <1>3, MatchWasThere
<1>5. b \in Found(d, text)
  BY <1>0, <1>4, ApartFound
<1>6. b \in SecretsAt(d, text)
  BY <1>2, <1>4, <1>5 DEF SecretsAt
<1>7. l = k /\ b \in DOMAIN by
  BY <1>6 DEF FindsNone, MarksAll
<1>8. \E c \in 1..Len(d.pattern) : b + c - 1 \in Holes(DOMAIN by, g)
  <2>1. Len(d.pattern) \in Nat \ {0} /\ d = Detectors[k] /\ g \in 0..Len(d.pattern)
    BY <1>7, DetectorTypes DEF Marking
  <2>2. CASE g = 0
    <3>1. 1 \in 1..Len(d.pattern) /\ b + 1 - 1 = b
      BY <2>1
    <3>2. b \in Holes(DOMAIN by, g)
      BY <1>7, <2>2 DEF Holes
    <3> QED
      BY <3>1, <3>2
  <2>3. CASE g # 0
    <3>1. g \in 1..Len(d.pattern)
      BY <2>1, <2>3
    <3>2. b + g - 1 \in Holes(DOMAIN by, g)
      BY <1>7, <2>3 DEF Holes
    <3> QED
      BY <3>1, <3>2
  <2> QED
    BY <2>2, <2>3
<1> QED
  BY <1>4, <1>8

(* What a text is made of once something of content was replaced in it.    *)
Remains(W, content) == {x \in W : x \in ToSet(content) \/ x.name \in MarkNames}

(* The texts in which none of the first k detectors that a content asks    *)
(* for finds anything.                                                     *)
Cleared(content, W, k) ==
  {text \in Seq(W) : \A l \in 1..k :
     KeywordPrefilterOk(Detectors[l], content) => FindsNone(Detectors[l], text)}

(* A text of such symbols that all of them cleared has no violation: no    *)
(* mark makes a detector look at it that the content did not.              *)
LEMMA ClearedClean ==
  ASSUME RulesSeparate, NEW W, NEW content \in Seq(W),
         NEW text \in Cleared(content, Remains(W, content), Count)
  PROVE  ~CheckViolations(text)
<1> SUFFICES ASSUME NEW l \in 1..Count, KeywordPrefilterOk(Detectors[l], text),
                    SecretsAt(Detectors[l], text) # {}
             PROVE  FALSE
  BY DetectorTypes DEF CheckViolations, Triggers
<1>1. ~KeywordPrefilterOk(Detectors[l], content)
  BY DEF Cleared, FindsNone
<1>2. Detectors[l].keywords # {}
  BY <1>1 DEF KeywordPrefilterOk
<1>3. PICK i \in DOMAIN text : text[i].name \in Detectors[l].keywords
  BY <1>2 DEF KeywordPrefilterOk
<1>4. text \in Seq(Remains(W, content))
  BY DEF Cleared
<1>5. text[i] \in Remains(W, content)
  BY <1>4
<1>6. Detectors[l].keywords \cap MarkNames = {}
  BY DetectorTypes DEF RulesSeparate, Separate, Apart
<1>7. text[i] \in ToSet(content)
  BY <1>3, <1>5, <1>6 DEF Remains
<1>8. PICK j \in DOMAIN content : content[j] = text[i]
  BY <1>7 DEF ToSet
<1> QED
  BY <1>1, <1>3, <1>8 DEF KeywordPrefilterOk

(* The symbols of a content are among those that may remain.               *)
LEMMA ContentRemains ==
  ASSUME NEW W, NEW content \in Seq(W)
  PROVE  content \in Seq(Remains(W, content))
<1>1. Len(content) \in Nat /\ DOMAIN content = 1..Len(content)
  OBVIOUS
<1>2. \A i \in DOMAIN content : content[i] \in Remains(W, content)
  BY DEF Remains, ToSet
<1> QED
  BY <1>1, <1>2

(* Masking the matches of one more detector clears the text of it.         *)
LEMMA MaskClears ==
  ASSUME RulesSeparate, NEW W, Masked \in W, NEW content, NEW k \in 1..Count,
         NEW text \in Cleared(content, W, k - 1)
  PROVE  MaskWith(content, text, Detectors[k]) \in Cleared(content, W, k)
<1> DEFINE d == Detectors[k]
           by == [i \in MaskedAt(d, text) |-> <<Masked>>]
           after == Rewrite(d, text, by)
<1>1. text \in Seq(W) /\ k \in Nat /\ \A l \in 1..k : l \in 1..Count /\ (l = k \/ l \in 1..(k - 1))
  BY DetectorTypes DEF Cleared
<1>2. CASE ~KeywordPrefilterOk(d, content)
  <2>1. MaskWith(content, text, d) = text
    BY <1>2 DEF MaskWith
  <2> QED
    BY <1>1, <1>2, <2>1 DEF Cleared
<1>3. CASE KeywordPrefilterOk(d, content)
  <2>1. MaskWith(content, text, d) = after
    BY <1>3 DEF MaskWith
  <2>2. /\ DOMAIN by \subseteq Found(d, text) /\ SecretsAt(d, text) \subseteq DOMAIN by
        /\ \A i \in DOMAIN by : by[i] = <<Masked>>
    BY DEF MaskedAt, SecretsAt
  <2>3. Len(d.pattern) # 0 /\ 0 \in 0..Len(d.pattern)
    <3>1. d.pattern \in Seq(ToSet(d.pattern)) /\ Separate(d)
      <4>1. k \in DOMAIN Detectors
        BY DetectorTypes
      <4> QED
        BY <4>1, DetectorsAssumption DEF RulesSeparate
    <3> HIDE DEF d
    <3>2. d.pattern # <<>>
      BY <3>1 DEF Separate, Apart
    <3> QED
      BY <3>1, <3>2
  <2>4. Masked.name \in MarkNames
    BY DEF Masked, Literal, MarkNames
  <2>5. \A l \in 1..Count : Separate(Detectors[l])
    BY DetectorTypes DEF RulesSeparate
  <2> HIDE DEF by
  <2>6. after \in Seq(W)
    <3>1. <<Masked>> \in Seq(W)
      OBVIOUS
    <3>2. \A i \in DOMAIN by : by[i] \in Seq(W)
      BY <2>2, <3>1
    <3> QED
      BY <1>1, <3>2, RewriteIn
  <2>7. Marking(d, W, text, by, 0)
    BY <2>2, <2>3, <2>4 DEF Marking
  <2>8. ASSUME NEW l \in 1..k, KeywordPrefilterOk(Detectors[l], content)
        PROVE  FindsNone(Detectors[l], after)
    <3>1. FindsNone(Detectors[l], text) \/ (l = k /\ MarksAll(d, text, by))
      BY <1>1, <2>2, <2>8 DEF Cleared, MarksAll
    <3>2. l \in 1..Count /\ Separate(Detectors[l])
      BY <1>1, <2>5
    <3> HIDE DEF after
    <3>3. after = Rewrite(d, text, by)
      BY DEF after
    <3> QED
      BY <1>1, <2>6, <2>7, <3>1, <3>2, <3>3, RewriteClears
  <2> HIDE DEF after
  <2> QED
    BY <2>1, <2>6, <2>8 DEF Cleared
<1> QED
  BY <1>2, <1>3

(* One-way redaction leaves nothing to find.                               *)
LEMMA PermanentClean ==
  ASSUME RulesSeparate, NEW W, NEW content \in Seq(W), Masked \in W
  PROVE  ~CheckViolations(RedactPermanent(content))
<1> DEFINE R == Remains(W, content)
           V == Seq(R)
           U == [k \in 0..Count |-> Cleared(content, R, k)]
<1>1. Count \in Nat /\ Masked \in R
  BY DetectorTypes DEF Remains, Masked, Literal, MarkNames
<1>2. content \in V
  BY ContentRemains
<1>3. content \in U[0]
  BY <1>1, <1>2 DEF Cleared
<1>4. \A x \in V, k \in 1..Count : x \in U[k - 1] => MaskWith(content, x, Detectors[k]) \in U[k]
  <2> TAKE x \in V, k \in 1..Count
  <2>1. k - 1 \in 0..Count /\ k \in 0..Count
    BY <1>1
  <2> HIDE DEF R
  <2> QED
    BY <1>1, <2>1, MaskClears
<1>5. \A x \in V, k \in 1..Count : MaskWith(content, x, Detectors[k]) \in V
  <2> TAKE x \in V, k \in 1..Count
  <2> DEFINE by == [i \in MaskedAt(Detectors[k], x) |-> <<Masked>>]
  <2>1. \A i \in DOMAIN by : by[i] \in V
    BY <1>1
  <2> HIDE DEF by, R
  <2>2. Rewrite(Detectors[k], x, by) \in V
    BY <2>1, RewriteIn
  <2> QED
    BY <2>2 DEF MaskWith, by
<1>6. RedactPermanent(content) \in U[Count]
  <2> HIDE DEF V, U
  <2> QED
    BY <1>2, <1>3, <1>4, <1>5, PermanentReaches
<1>7. RedactPermanent(content) \in Cleared(content, R, Count)
  BY <1>1, <1>6
<1> QED
  <2> HIDE DEF V, U
  <2> QED
    BY <1>7, ClearedClean

(* Redacting one more detector into a session clears the text of it.       *)
LEMMA RedactOneClears ==
  ASSUME RulesSeparate, NEW s, NEW content, NEW pointer, NEW k \in 1..Count, NEW W, NEW E,
         \A n \in Nat : Token(s, n) \in W,
         \A value \in Seq(W) : Entry(value, pointer) \in E,
         NEW acc \in [text : Seq(W), values : Seq(E)], acc.text \in Cleared(content, W, k - 1)
  PROVE  RedactOne(s, Detectors[k], content, pointer, acc).text \in Cleared(content, W, k)
<1> DEFINE d == Detectors[k]
           at == RedactedAt(content, acc.text, d)
           token(i) == Token(s, Len(acc.values) + Before(at, i))
           by == [i \in at |-> IF d.group = 0 THEN <<token(i)>>
                               ELSE [MatchAt(d, acc.text, i) EXCEPT ![d.group] = token(i)]]
           after == Rewrite(d, acc.text, by)
<1>1. /\ acc.text \in Seq(W) /\ Len(acc.values) \in Nat /\ k \in Nat
      /\ \A l \in 1..k : l \in 1..Count /\ (l = k \/ l \in 1..(k - 1))
  BY DetectorTypes DEF Cleared
<1>2. RedactOne(s, d, content, pointer, acc).text = after
  BY DEF RedactOne, RedactedAt
<1>3. after \in Seq(W)
  <2> HIDE DEF after
  <2> QED
    BY <1>2, RedactOneIn
<1>4. at \subseteq Found(d, acc.text) /\ (KeywordPrefilterOk(d, content) => at = SecretsAt(d, acc.text))
  BY DEF RedactedAt, SecretsAt
<1>5. \A l \in 1..Count : Separate(Detectors[l])
  BY DetectorTypes DEF RulesSeparate
<1>6. Len(d.pattern) # 0 /\ d.group \in 0..Len(d.pattern)
  BY <1>5, DetectorTypes DEF Separate, Apart
<1>7. ASSUME NEW i \in at
      PROVE  \E x \in W : x.name \in MarkNames
               /\ by[i] = IF d.group = 0 THEN <<x>> ELSE [MatchAt(d, acc.text, i) EXCEPT ![d.group] = x]
  <2>1. Before(at, i) \in Nat
    <3>1. at \in SUBSET (1..Len(acc.text)) /\ Len(acc.text) \in Nat
      BY <1>1, <1>4, MatchSymbols
    <3> HIDE DEF at
    <3> QED
      BY <3>1, BeforeTurn
  <2>2. token(i) \in W /\ token(i).name \in MarkNames
    BY <1>1, <2>1 DEF Token, MarkNames
  <2>3. by[i] = IF d.group = 0 THEN <<token(i)>> ELSE [MatchAt(d, acc.text, i) EXCEPT ![d.group] = token(i)]
    OBVIOUS
  <2> HIDE DEF by, token, at, d
  <2> QED
    BY <2>2, <2>3
<1>8. DOMAIN by = at
  OBVIOUS
<1> HIDE DEF by, at
<1>10. Marking(d, W, acc.text, by, d.group)
  BY <1>4, <1>6, <1>7, <1>8 DEF Marking
<1>9. ASSUME NEW l \in 1..k, KeywordPrefilterOk(Detectors[l], content)
      PROVE  FindsNone(Detectors[l], after)
  <2>1. FindsNone(Detectors[l], acc.text) \/ (l = k /\ MarksAll(d, acc.text, by))
    BY <1>1, <1>4, <1>8, <1>9 DEF Cleared, MarksAll
  <2>2. l \in 1..Count /\ Separate(Detectors[l])
    BY <1>1, <1>5
  <2>3. after = Rewrite(d, acc.text, by)
    OBVIOUS
  <2> HIDE DEF after
  <2> QED
    BY <1>1, <1>3, <1>10, <2>1, <2>2, <2>3, RewriteClears, ZenonT(60)
<1> HIDE DEF after
<1> QED
  BY <1>2, <1>3, <1>9 DEF Cleared

(* Redaction into a session leaves nothing to find.                        *)
LEMMA RedactAtClean ==
  ASSUME RulesSeparate, NEW s, NEW pointer, NEW W, NEW E, NEW content \in Seq(W), NEW values \in Seq(E),
         \A n \in Nat : Token(s, n) \in W,
         \A value \in Seq(W) : Entry(value, pointer) \in E
  PROVE  ~CheckViolations(RedactAt(s, content, pointer, values).text)
<1> DEFINE R == Remains(W, content)
           V == [text : Seq(R), values : Seq(E)]
           U == [k \in 0..Count |-> {x \in V : x.text \in Cleared(content, R, k)}]
           start == [text |-> content, values |-> values]
<1>1. Count \in Nat /\ \A n \in Nat : Token(s, n) \in R
  BY DetectorTypes DEF Remains, Token, MarkNames
<1>2. \A value \in Seq(R) : Entry(value, pointer) \in E
  <2>1. R \subseteq W
    BY DEF Remains
  <2>2. \A value \in Seq(R) : value \in Seq(W)
    <3> HIDE DEF R
    <3> QED
      BY <2>1
  <2> HIDE DEF R
  <2> QED
    BY <2>2
<1>3. start \in V
  BY ContentRemains
<1>4. start \in U[0]
  BY <1>1, <1>3 DEF Cleared
<1>5. \A x \in V, k \in 1..Count : RedactOne(s, Detectors[k], content, pointer, x) \in V
  <2> HIDE DEF R
  <2> QED
    BY <1>1, <1>2, RedactOneIn
<1>6. \A x \in V, k \in 1..Count : x \in U[k - 1] => RedactOne(s, Detectors[k], content, pointer, x) \in U[k]
  <2> TAKE x \in V, k \in 1..Count
  <2>1. k - 1 \in 0..Count /\ k \in 0..Count
    BY <1>1
  <2>2. RedactOne(s, Detectors[k], content, pointer, x) \in V
    <3> HIDE DEF V
    <3> QED
      BY <1>5
  <2>3. ASSUME x \in U[k - 1] PROVE x.text \in Cleared(content, R, k - 1)
    BY <2>1, <2>3
  <2>4. ASSUME x.text \in Cleared(content, R, k - 1)
        PROVE  RedactOne(s, Detectors[k], content, pointer, x).text \in Cleared(content, R, k)
    <3> HIDE DEF R
    <3> QED
      BY <1>1, <1>2, <2>4, RedactOneClears
  <2>5. ASSUME RedactOne(s, Detectors[k], content, pointer, x).text \in Cleared(content, R, k)
        PROVE  RedactOne(s, Detectors[k], content, pointer, x) \in U[k]
    <3> HIDE DEF V
    <3> QED
      BY <2>1, <2>2, <2>5
  <2> HIDE DEF V, U
  <2> QED
    BY <2>3, <2>4, <2>5
<1>7. RedactAt(s, content, pointer, values) \in U[Count]
  <2> HIDE DEF V, U
  <2> QED
    BY <1>3, <1>4, <1>5, <1>6, RedactAtReaches
<1>8. RedactAt(s, content, pointer, values).text \in Cleared(content, R, Count)
  BY <1>1, <1>7
<1> QED
  <2> HIDE DEF V, U
  <2> QED
    BY <1>8, ClearedClean

(* What can be stored of a text by rules that leave marks alone.           *)
Plain(W) == {x \in W : x.name \notin MarkNames}

(* A secret of such a rule has no mark in it.                              *)
LEMMA SecretPlain ==
  ASSUME NEW k \in 1..Count, Separate(Detectors[k]), NEW W, NEW text \in Seq(W),
         NEW i \in Found(Detectors[k], text)
  PROVE  Secret(Detectors[k], MatchAt(Detectors[k], text, i)) \in Seq(Plain(W))
<1> DEFINE d == Detectors[k]
           m == Len(d.pattern)
           match == MatchAt(d, text, i)
           P == Plain(W)
<1>1. /\ m \in Nat /\ d.group \in 0..m /\ DOMAIN d.pattern = 1..m /\ i \in 1..Len(text)
      /\ match \in Seq(W) /\ Len(match) = m /\ \A c \in 1..m : match[c] = text[i + c - 1]
  BY DetectorTypes, MatchSymbols
<1>2. Matches(d, text, i)
  <2>1. IsText(text)
    BY TextOver
  <2> QED
    BY <2>1, FoundMatches
<1>3. \A c \in 1..m : match[c] \in P
  <2> TAKE c \in 1..m
  <2>1. match[c] \in W /\ match[c] = text[i + c - 1]
    <3> HIDE DEF match, m
    <3> QED
      BY <1>1
  <2>3. text[i + c - 1].name \in d.pattern[c]
    <3> HIDE DEF match, m
    <3> QED
      BY <1>1, <1>2 DEF Matches
  <2>2. d.pattern[c] \cap MarkNames = {}
    BY <1>1 DEF Separate, Apart
  <2> HIDE DEF match, d
  <2> QED
    BY <2>1, <2>2, <2>3 DEF Plain
<1>4. match \in Seq(P)
  <2> HIDE DEF match, m, P
  <2> QED
    BY <1>1, <1>3
<1>5. CASE d.group = 0
  BY <1>4, <1>5 DEF Secret
<1>6. CASE d.group # 0
  <2>1. match[d.group] \in P
    BY <1>1, <1>3, <1>6
  <2> HIDE DEF match, P
  <2>2. <<match[d.group]>> \in Seq(P)
    BY <2>1
  <2> QED
    BY <1>6, <2>2 DEF Secret, match, P
<1> QED
  BY <1>5, <1>6

(* So no value it stores has one.                                          *)
LEMMA RedactOnePlain ==
  ASSUME NEW s, NEW content, NEW pointer, NEW k \in 1..Count, Separate(Detectors[k]), NEW W, NEW E,
         \A n \in Nat : Token(s, n) \in W,
         \A value \in Seq(Plain(W)) : Entry(value, pointer) \in E,
         NEW acc \in [text : Seq(W), values : Seq(E)]
  PROVE  RedactOne(s, Detectors[k], content, pointer, acc) \in [text : Seq(W), values : Seq(E)]
<1> DEFINE d == Detectors[k]
           at == RedactedAt(content, acc.text, d)
           token(i) == Token(s, Len(acc.values) + Before(at, i))
           by == [i \in at |-> IF d.group = 0 THEN <<token(i)>>
                               ELSE [MatchAt(d, acc.text, i) EXCEPT ![d.group] = token(i)]]
           stored == [j \in 1..Cardinality(at) |->
                        Entry(Secret(d, MatchAt(d, acc.text, Nth(at, j))), pointer)]
           text == Rewrite(d, acc.text, by)
           All == E \cup {Entry(value, pointer) : value \in Seq(W)}
<1>1. RedactOne(s, d, content, pointer, acc) = [text |-> text, values |-> acc.values \o stored]
  BY DEF RedactOne, RedactedAt
<1>2. acc.text \in Seq(W) /\ acc.values \in Seq(E)
  OBVIOUS
<1>3. RedactOne(s, d, content, pointer, acc).text \in Seq(W)
  <2>1. \A value \in Seq(W) : Entry(value, pointer) \in All
    OBVIOUS
  <2>2. acc \in [text : Seq(W), values : Seq(All)]
    <3>1. E \subseteq All
      OBVIOUS
    <3> HIDE DEF All
    <3>2. acc.values \in Seq(All)
      BY <1>2, <3>1
    <3> QED
      BY <1>2, <3>2
  <2> HIDE DEF All
  <2>3. RedactOne(s, d, content, pointer, acc) \in [text : Seq(W), values : Seq(All)]
    BY <2>1, <2>2, RedactOneIn
  <2> QED
    BY <2>3
<1>4. at \subseteq Found(d, acc.text) /\ at \in SUBSET (1..Len(acc.text)) /\ Len(acc.text) \in Nat
  <2>1. at \subseteq Found(d, acc.text)
    BY DEF SecretsAt, RedactedAt
  <2> HIDE DEF at
  <2> QED
    BY <1>2, <2>1, MatchSymbols
<1>5. IsFiniteSet(at) /\ Cardinality(at) \in Nat
  <2>1. IsFiniteSet(1..Len(acc.text))
    BY <1>4, FS_Interval
  <2> HIDE DEF at
  <2>2. IsFiniteSet(at)
    BY <1>4, <2>1, FS_Subset
  <2> QED
    BY <2>2, FS_CardinalityType
<1>6. stored \in Seq(E)
  <2>1. ASSUME NEW j \in 1..Cardinality(at) PROVE stored[j] \in E
    <3>1. Nth(at, j) \in at
      BY <1>4, NthIn
    <3>2. Secret(d, MatchAt(d, acc.text, Nth(at, j))) \in Seq(Plain(W))
      <4> HIDE DEF at
      <4> QED
        BY <1>2, <1>4, <3>1, SecretPlain
    <3> QED
      BY <3>2
  <2>2. stored \in [1..Cardinality(at) -> E]
    BY <2>1
  <2> HIDE DEF stored
  <2> QED
    BY <1>5, <2>2
<1>7. acc.values \o stored \in Seq(E)
  <2> HIDE DEF stored
  <2> QED
    BY <1>2, <1>6
<1> HIDE DEF text, stored
<1> QED
  BY <1>1, <1>3, <1>7

(* Nor any that a redaction stores.                                        *)
LEMMA RedactAtPlain ==
  ASSUME RulesSeparate, NEW s, NEW pointer, NEW W, NEW E,
         \A n \in Nat : Token(s, n) \in W,
         \A value \in Seq(Plain(W)) : Entry(value, pointer) \in E,
         NEW content \in Seq(W), NEW values \in Seq(E)
  PROVE  RedactAt(s, content, pointer, values) \in [text : Seq(W), values : Seq(E)]
<1> DEFINE V == [text : Seq(W), values : Seq(E)]
<1>1. [text |-> content, values |-> values] \in V
  OBVIOUS
<1>2. \A x \in V, k \in 1..Count : RedactOne(s, Detectors[k], content, pointer, x) \in V
  <2>1. \A k \in 1..Count : Separate(Detectors[k])
    BY DetectorTypes DEF RulesSeparate
  <2> QED
    BY <2>1, RedactOnePlain
<1> HIDE DEF V
<1>3. RedactAt(s, content, pointer, values) \in V
  BY <1>1, <1>2, RedactAtIn
<1> QED
  BY <1>3 DEF V

(* Where no rule has a gate, what detection finds nothing in needs no mask. *)

LEMMA CleanUnmasked ==
  ASSUME RulesUngated, NEW W, NEW text \in Seq(W), ~CheckViolations(text)
  PROVE  NothingToMask(text)
<1> SUFFICES ASSUME NEW k \in 1..Count, KeywordPrefilterOk(Detectors[k], text)
             PROVE  MaskedAt(Detectors[k], text) = {}
  BY DetectorTypes DEF NothingToMask
<1> DEFINE d == Detectors[k]
<1>1. SecretsAt(d, text) = {}
  BY DetectorTypes DEF CheckViolations, Triggers
<1>2. ASSUME d.external, NEW i \in Found(d, text) PROVE FALSE
  <2> DEFINE match == MatchAt(d, text, i)
  <2>1. match \in Seq(W) /\ Len(match) = Len(d.pattern)
    BY MatchIn
  <2>2. Len(d.pattern) # 0 /\ d.gated = {} /\ d.group \in 0..Len(d.pattern)
    BY <1>2, DetectorTypes, SMTT(60) DEF RulesUngated
  <2>3. \E j \in DOMAIN Secret(d, match) : TRUE
    <3>1. CASE d.group = 0
      <4>1. Secret(d, match) = match
        BY <3>1 DEF Secret
      <4> HIDE DEF match, d
      <4>2. 1 \in DOMAIN match
        BY <2>1, <2>2
      <4> QED
        BY <4>1, <4>2
    <3>2. CASE d.group # 0
      <4>1. Secret(d, match) = <<match[d.group]>>
        BY <3>2 DEF Secret
      <4> HIDE DEF match, d
      <4>2. 1 \in DOMAIN <<match[d.group]>>
        OBVIOUS
      <4> QED
        BY <4>1, <4>2
    <3> QED
      BY <3>1, <3>2
  <2>4. GateOk(d, Secret(d, match))
    BY <2>2, <2>3 DEF GateOk
  <2>5. i \in SecretsAt(d, text)
    BY <2>4 DEF SecretsAt
  <2> QED
    BY <1>1, <2>5
<1> QED
  BY <1>1, <1>2 DEF MaskedAt

-----------------------------------------------------------------------------
(* Parts of texts.                                                         *)

(* part is in whole, behind its first a symbols.                           *)
IsPartAt(a, part, whole) ==
  /\ a \in Nat /\ a + Len(part) <= Len(whole)
  /\ \A c \in 1..Len(part) : whole[a + c] = part[c]

(* What is in a text stays where it is when another is put behind it.      *)
LEMMA PartConcat ==
  ASSUME NEW W, NEW p \in Seq(W), NEW q \in Seq(W), NEW part \in Seq(W)
  PROVE  /\ \A a : IsPartAt(a, part, p) => IsPartAt(a, part, p \o q)
         /\ IsPartAt(Len(p), q, p \o q)
<1> DEFINE r == p \o q
<1>1. /\ Len(r) = Len(p) + Len(q) /\ Len(p) \in Nat /\ Len(q) \in Nat /\ Len(part) \in Nat
      /\ \A c \in 1..Len(p) : r[c] = p[c]
      /\ \A c \in 1..Len(q) : r[Len(p) + c] = q[c]
  OBVIOUS
<1> HIDE DEF r
<1>2. ASSUME NEW a, IsPartAt(a, part, p) PROVE IsPartAt(a, part, r)
  <2>1. \A c \in 1..Len(part) : a + c \in 1..Len(p)
    BY <1>1, <1>2 DEF IsPartAt
  <2> QED
    BY <1>1, <1>2, <2>1 DEF IsPartAt
<1>3. IsPartAt(Len(p), q, r)
  BY <1>1 DEF IsPartAt
<1> QED
  BY <1>2, <1>3 DEF r

(* Each of the texts that are put together is in what they make.           *)
LEMMA FlattenHolds ==
  ASSUME NEW W, NEW seqs \in Seq(Seq(W)), NEW i \in 1..Len(seqs)
  PROVE  FlattenSeq(seqs) \in Seq(W) /\ \E a : IsPartAt(a, seqs[i], FlattenSeq(seqs))
<1> DEFINE n == Len(seqs)
           part == seqs[i]
<1>1. n \in Nat /\ i \in Nat /\ 1 <= i /\ i <= n /\ \A j \in 1..n : seqs[j] \in Seq(W)
  OBVIOUS
<1>2. PICK R : R \in [0..n -> Seq(W)] /\ R[0] = <<>> /\ \A j \in 1..n : R[j] = R[j - 1] \o seqs[j]
  <2>1. \E R : PrefixesOf(R, W, seqs, n)
    BY FlattenPrefixes
  <2> QED
    BY <2>1 DEF PrefixesOf
<1>3. FlattenSeq(seqs) = R[n]
  BY <1>2, FlattenUnique
<1> DEFINE T == {j \in 0..n : i <= j => \E a : IsPartAt(a, part, R[j])}
<1>4. 0 \in T
  BY <1>1
<1>5. ASSUME NEW j \in 0..(n - 1), j \in T PROVE j + 1 \in T
  <2>1. j \in Nat /\ j \in 0..n /\ j + 1 \in 1..n /\ j + 1 \in 0..n /\ (j + 1) - 1 = j
    BY <1>1
  <2>2. R[j] \in Seq(W) /\ R[j + 1] \in Seq(W) /\ seqs[j + 1] \in Seq(W)
    <3>1. R[j] \in Seq(W) /\ R[j + 1] \in Seq(W)
      <4> HIDE DEF n
      <4> QED
        BY <1>2, <2>1
    <3>2. seqs[j + 1] \in Seq(W)
      BY <1>1, <2>1
    <3> QED
      BY <3>1, <3>2
  <2>3. R[j + 1] = R[j] \o seqs[j + 1]
    BY <1>2, <2>1
  <2>4. CASE i <= j
    <3>1. PICK a : IsPartAt(a, part, R[j])
      BY <1>5, <2>4
    <3>2. part \in Seq(W)
      BY <1>1
    <3>3. IsPartAt(a, part, R[j] \o seqs[j + 1])
      <4> HIDE DEF part
      <4> QED
        BY <2>2, <3>1, <3>2, PartConcat
    <3> QED
      BY <2>1, <2>3, <3>3
  <2>5. CASE i = j + 1
    <3>1. IsPartAt(Len(R[j]), seqs[j + 1], R[j] \o seqs[j + 1])
      BY <2>2, PartConcat
    <3> QED
      BY <2>1, <2>3, <2>5, <3>1
  <2>6. CASE i > j + 1
    BY <1>1, <2>1, <2>6
  <2> QED
    BY <1>1, <2>1, <2>4, <2>5, <2>6
<1>6. n \in T
  <2> HIDE DEF T, n
  <2> QED
    BY <1>1, <1>4, <1>5, InductionTo
<1> QED
  BY <1>1, <1>2, <1>3, <1>6

(* What a detector finds in a part of a text one finds in the text.        *)
LEMMA PartViolates ==
  ASSUME RulesApart, NEW W, NEW whole \in Seq(W), NEW part \in Seq(W), NEW a,
         IsPartAt(a, part, whole), CheckViolations(part)
  PROVE  CheckViolations(whole)
<1>1. PICK k \in 1..Count : Triggers(Detectors[k], part)
  BY DetectorTypes DEF CheckViolations
<1> DEFINE d == Detectors[k]
           n == Len(d.pattern)
<1>2. /\ Len(part) \in Nat /\ DOMAIN part = 1..Len(part) /\ IsText(part)
      /\ Len(whole) \in Nat /\ DOMAIN whole = 1..Len(whole) /\ IsText(whole)
      /\ n \in Nat /\ DOMAIN d.pattern = 1..n
  BY TextOver, DetectorTypes
<1>3. \A c \in 1..Len(part) : a + c \in 1..Len(whole) /\ whole[a + c] = part[c]
  BY <1>2 DEF IsPartAt
<1>4. Apart(d)
  BY DetectorTypes DEF RulesApart
<1>5. PICK i \in SecretsAt(d, part) : TRUE
  BY <1>1 DEF Triggers
<1>6. i \in Found(d, part) /\ GateOk(d, Secret(d, MatchAt(d, part, i)))
  BY <1>5 DEF SecretsAt
<1>7. i \in 1..Len(part) /\ i + n - 1 <= Len(part)
  BY <1>6, MatchSymbols
<1>8. Matches(d, part, i)
  BY <1>2, <1>6, FoundMatches
<1>9. a \in Nat /\ i \in Nat /\ a + Len(part) <= Len(whole)
  BY <1>7 DEF IsPartAt
<1>10. \A c \in 1..n : i + c - 1 \in 1..Len(part) /\ a + (i + c - 1) = (a + i) + c - 1
  BY <1>2, <1>7, <1>9, SMTT(60)
<1>11. \A c \in 1..n : whole[(a + i) + c - 1] = part[i + c - 1]
  <2> HIDE DEF n
  <2> QED
    BY <1>3, <1>10
<1>12. a + i \in 1..Len(whole) /\ (a + i) + n - 1 <= Len(whole)
  BY <1>2, <1>7, <1>9, SMTT(60)
<1>13. Matches(d, whole, a + i)
  <2> HIDE DEF d, n
  <2> QED
    BY <1>2, <1>8, <1>11, <1>12 DEF Matches, n
<1>14. a + i \in Found(d, whole)
  BY <1>4, <1>12, <1>13, ApartFound
<1>15. MatchAt(d, whole, a + i) = MatchAt(d, part, i)
  <2>1. /\ MatchAt(d, part, i) \in Seq(W) /\ Len(MatchAt(d, part, i)) = n
        /\ \A c \in 1..n : MatchAt(d, part, i)[c] = part[i + c - 1]
    BY <1>6, MatchSymbols, ZenonT(60)
  <2>2. /\ MatchAt(d, whole, a + i) \in Seq(W) /\ Len(MatchAt(d, whole, a + i)) = n
        /\ \A c \in 1..n : MatchAt(d, whole, a + i)[c] = whole[(a + i) + c - 1]
    BY <1>14, MatchSymbols, ZenonT(60)
  <2> HIDE DEF d, n
  <2>3. \A c \in 1..n : MatchAt(d, part, i)[c] = MatchAt(d, whole, a + i)[c]
    BY <1>11, <2>1, <2>2
  <2> QED
    BY <2>1, <2>2, <2>3, SeqEqual
<1>16. a + i \in SecretsAt(d, whole)
  BY <1>6, <1>14, <1>15 DEF SecretsAt
<1>17. KeywordPrefilterOk(d, whole)
  <2>1. KeywordPrefilterOk(d, part)
    BY <1>1 DEF Triggers
  <2> HIDE DEF d
  <2> QED
    BY <1>2, <1>3, <2>1 DEF KeywordPrefilterOk
<1>18. Triggers(d, whole)
  BY <1>16, <1>17 DEF Triggers
<1> QED
  BY <1>18, DetectorTypes DEF CheckViolations

(* It is still a part of it once they are normalized.                      *)
LEMMA PartNormalized ==
  ASSUME RulesApart, NEW W, NEW whole \in Seq(W), NEW part \in Seq(W), NEW a,
         IsPartAt(a, part, whole), CheckViolations(NormalizeForMatching(part))
  PROVE  CheckViolations(NormalizeForMatching(whole))
<1> DEFINE X == W \cup {Literal(Hidden[name]) : name \in DOMAIN Hidden}
           N == NormalizeForMatching(whole)
           P == NormalizeForMatching(part)
<1>1. /\ Len(part) \in Nat /\ DOMAIN part = 1..Len(part) /\ \A c \in 1..Len(part) : part[c] \in W
      /\ Len(whole) \in Nat /\ DOMAIN whole = 1..Len(whole) /\ \A c \in 1..Len(whole) : whole[c] \in W
  OBVIOUS
<1>2. N \in Seq(X) /\ Len(N) = Len(whole)
  BY <1>1 DEF NormalizeForMatching
<1>3. P \in Seq(X) /\ Len(P) = Len(part)
  BY <1>1 DEF NormalizeForMatching
<1>4. ASSUME NEW c \in 1..Len(part) PROVE N[a + c] = P[c]
  <2>1. a + c \in 1..Len(whole) /\ whole[a + c] = part[c]
    BY <1>1 DEF IsPartAt
  <2> QED
    BY <1>1, <2>1 DEF NormalizeForMatching
<1> HIDE DEF N, P, X
<1>5. IsPartAt(a, P, N)
  BY <1>2, <1>3, <1>4 DEF IsPartAt
<1>6. CheckViolations(P)
  BY DEF P
<1>7. CheckViolations(N)
  BY <1>2, <1>3, <1>5, <1>6, PartViolates
<1> QED
  BY <1>7 DEF N
=============================================================================
