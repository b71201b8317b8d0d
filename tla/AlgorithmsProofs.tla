------------------------- MODULE AlgorithmsProofs ---------------------------
(***************************************************************************)
(* What the pure steps of module Algorithms compute, for every input.      *)
(*                                                                         *)
(* Their data are sequences, and what a step does to a sequence is mostly  *)
(* a fold.  So the module begins with induction over the subsets of a      *)
(* finite set, has from it that a fold has a run (a function p with p[0]   *)
(* the base and p[k] the step of p[k - 1]), and then proves of each fold a *)
(* relation that every step of its run keeps.  The lemmas named ...Fold    *)
(* say that a fold has such a run, those named ...More that a step keeps   *)
(* the relation.  The theorems state what the operators promise for every  *)
(* input, and the invariants of the runs follow from them.                 *)
(***************************************************************************)
EXTENDS Algorithms, FiniteSetTheorems, SequenceTheorems, TLAPS

-----------------------------------------------------------------------------
(* Induction.  A set with every subset of a finite set whose smaller       *)
(* subsets it has, has them all; so for the numbers up to n.               *)

LEMMA SetInduction ==
    ASSUME NEW D, IsFiniteSet(D), NEW P,
           \A T \in SUBSET D : (\A U \in SUBSET T : U # T => U \in P) => T \in P
    PROVE  \A T \in SUBSET D : T \in P
<1> DEFINE bad == {T \in SUBSET D : T \notin P}
<1>1. IsWellFoundedOn(StrictSubsetOrdering(D), FiniteSubsetsOf(D))
  BY FS_StrictSubsetOrderingWellFounded
<1>2. FiniteSubsetsOf(D) = SUBSET D
  BY FS_FiniteSubsetsOfFinite
<1>3. SUFFICES ASSUME bad # {}
               PROVE  FALSE
  OBVIOUS
<1>4. PICK T \in bad : \A U \in bad : <<U, T>> \notin StrictSubsetOrdering(D)
  <2>1. bad \subseteq FiniteSubsetsOf(D)
    BY <1>2
  <2> HIDE DEF bad
  <2> QED
    BY <1>1, <1>3, <2>1, WFMin
<1>5. \A U \in SUBSET T : U # T => U \in P
  BY <1>4 DEF StrictSubsetOrdering
<1> QED
  BY <1>4, <1>5

LEMMA CountInduction ==
    ASSUME NEW n \in Nat, NEW P, 0 \in P,
           \A k \in 0..(n - 1) : k \in P => k + 1 \in P
    PROVE  \A k \in 0..n : k \in P
<1> DEFINE Q == {T \in SUBSET (1..n) : \A k \in 0..n : T = 1..k => k \in P}
<1>1. IsFiniteSet(1..n)
  BY FS_Interval
<1>2. ASSUME NEW T \in SUBSET (1..n), \A U \in SUBSET T : U # T => U \in Q
      PROVE  T \in Q
  <2> SUFFICES ASSUME NEW k \in 0..n, T = 1..k
               PROVE  k \in P
    OBVIOUS
  <2>1. CASE k = 0
    BY <2>1
  <2>2. CASE k # 0
    <3>1. k - 1 \in 0..(n - 1) /\ 1..(k - 1) \in SUBSET T /\ 1..(k - 1) # T
      BY <2>2
    <3>2. 1..(k - 1) \in Q
      BY <1>2, <3>1
    <3>3. k - 1 \in P
      BY <3>1, <3>2
    <3> QED
      BY <3>1, <3>3
  <2> QED
    BY <2>1, <2>2
<1>3. \A T \in SUBSET (1..n) : T \in Q
  <2> HIDE DEF Q
  <2> QED
    BY <1>1, <1>2, SetInduction, ZenonT(60)
<1>4. ASSUME NEW k \in 0..n
      PROVE  k \in P
  <2>1. 1..k \in SUBSET (1..n)
    OBVIOUS
  <2> QED
    BY <1>3, <2>1
<1> QED
  BY <1>4

-----------------------------------------------------------------------------
(* Folds.  A fold applies a step to the elements of a sequence of length   *)
(* n: its run is what it has computed after each of them.                  *)

Steps(n, A) == [1..n -> [A -> A]]

IsFold(g, n, A, base, step) ==
    \A s \in SUBSET (1..n) :
        /\ g[s] \in A
        /\ s = {} => g[s] = base
        /\ s # {} => /\ Max(s) \in 1..n
                     /\ g[s \ {Max(s)}] \in A
                     /\ g[s] = step[Max(s)][g[s \ {Max(s)}]]

Folds(g, n, A, base, step) ==
    \A s \in SUBSET (1..n) :
        /\ s = {} => g[s] = base
        /\ s # {} /\ Max(s) \in 1..n /\ g[s \ {Max(s)}] \in A
                => g[s] = step[Max(s)][g[s \ {Max(s)}]]

IsRun(q, n, A, base, step) ==
    /\ q \in [0..n -> A]
    /\ q[0] = base
    /\ \A k \in 1..n : q[k - 1] \in A /\ q[k] = step[k][q[k - 1]]

LEMMA MaxIn ==
    ASSUME NEW n \in Nat, NEW s \in SUBSET (1..n), s # {}
    PROVE  Max(s) \in s /\ \A x \in s : x <= Max(s)
<1> DEFINE P == {k \in 0..n : \A t \in SUBSET (1..k) : t # {} => \E x \in t : \A y \in t : x >= y}
<1>1. 0 \in P
  <2>1. 1..0 = {} /\ 0 \in 0..n
    OBVIOUS
  <2> QED
    BY <2>1
<1>2. ASSUME NEW k \in 0..(n - 1), k \in P
      PROVE  k + 1 \in P
  <2>1. ASSUME NEW t \in SUBSET (1..(k + 1)), t # {}
        PROVE  \E x \in t : \A y \in t : x >= y
    BY <1>2, <2>1
  <2> QED
    BY <2>1
<1>3. \A k \in 0..n : k \in P
  BY <1>1, <1>2, CountInduction
<1>4. \E x \in s : \A y \in s : x >= y
  BY <1>3, SMTT(30)
<1>5. \A x \in s : x \in Int
  OBVIOUS
<1>6. \E x : x \in s /\ \A y \in s : x >= y
  BY <1>4
<1>7. Max(s) \in s /\ \A x \in s : Max(s) >= x
  BY <1>6 DEF Max
<1> QED
  BY <1>5, <1>7

LEMMA MaxOf ==
    ASSUME NEW k \in Nat \ {0}, NEW s \in SUBSET (1..k), k \in s
    PROVE  Max(s) = k
<1>1. s # {} /\ k \in Nat
  OBVIOUS
<1>2. Max(s) \in s /\ \A x \in s : x <= Max(s)
  BY <1>1, MaxIn
<1>3. Max(s) \in 1..k /\ k <= Max(s)
  BY <1>2
<1> QED
  BY <1>3

\* There is a function with the intermediate results of a fold.
LEMMA FoldExists ==
    ASSUME NEW n \in Nat, NEW A, NEW base \in A, NEW step \in Steps(n, A)
    PROVE  \E g : g \in [SUBSET (1..n) -> A] /\ IsFold(g, n, A, base, step)
<1> DEFINE Good(k, g) == \A s \in SUBSET (1..k) :
             g[s] = IF s = {} THEN base ELSE step[Max(s)][g[s \ {Max(s)}]]
           Found(k) == \E g \in [SUBSET (1..k) -> A] : Good(k, g)
           P == {k \in 0..n : Found(k)}
<1>0. \A k \in 1..n, a \in A : step[k][a] \in A
  BY DEF Steps
<1>1. 0 \in P
  <2> DEFINE g == [s \in SUBSET (1..0) |-> base]
  <2>1. g \in [SUBSET (1..0) -> A]
    OBVIOUS
  <2>2. Good(0, g)
    OBVIOUS
  <2> HIDE DEF g
  <2>3. Found(0)
    BY <2>1, <2>2
  <2> HIDE DEF Found
  <2> QED
    BY <2>3
<1>2. ASSUME NEW k \in 0..(n - 1), k \in P
      PROVE  k + 1 \in P
  <2>1. PICK g \in [SUBSET (1..k) -> A] : Good(k, g)
    BY <1>2
  <2> DEFINE m == k + 1
             h == [s \in SUBSET (1..m) |->
                     IF m \in s THEN step[m][g[s \ {m}]] ELSE g[s]]
  <2>2. /\ m \in 1..n /\ m \in Nat \ {0} /\ k \in Nat
        /\ \A s \in SUBSET (1..m) : /\ s \ {m} \in SUBSET (1..k)
                                    /\ m \notin s => s \in SUBSET (1..k)
    OBVIOUS
  <2>3. h \in [SUBSET (1..m) -> A]
    BY <1>0, <2>1, <2>2
  <2>4. \A s \in SUBSET (1..m) : m \in s => Max(s) = m
    BY <2>2, MaxOf
  <2>5. \A s \in SUBSET (1..k) : s \in SUBSET (1..m) /\ m \notin s
    OBVIOUS
  <2>6. \A s \in SUBSET (1..k) : h[s] = g[s]
    BY <2>5, SMTT(30)
  <2>7. ASSUME NEW s \in SUBSET (1..m)
        PROVE  h[s] = IF s = {} THEN base ELSE step[Max(s)][h[s \ {Max(s)}]]
    <3>1. CASE m \in s
      BY <2>2, <2>4, <2>6, <3>1
    <3>2. CASE m \notin s
      <4>1. s \in SUBSET (1..k) /\ h[s] = g[s]
        BY <2>2, <2>6, <3>2
      <4>2. CASE s = {}
        BY <2>1, <4>1, <4>2
      <4>3. CASE s # {}
        BY <2>1, <2>6, <4>1, <4>3
      <4> QED
        BY <4>2, <4>3
    <3> QED
      BY <3>1, <3>2
  <2>8. Good(m, h)
    BY <2>7
  <2>9. Found(m)
    BY <2>3, <2>8
  <2>10. m \in P
    <3> HIDE DEF Found, m
    <3> QED
      BY <2>2, <2>9
  <2> QED
    BY <2>10
<1>3. \A k \in 0..n : k \in P
  BY <1>1, <1>2, CountInduction
<1>4. PICK g \in [SUBSET (1..n) -> A] : Good(n, g)
  <2> HIDE DEF Found
  <2>1. Found(n)
    BY <1>3
  <2> QED
    BY <2>1 DEF Found
<1>5. \A s \in SUBSET (1..n) : s # {} => Max(s) \in 1..n /\ s \ {Max(s)} \in SUBSET (1..n)
  BY MaxIn
<1>6. IsFold(g, n, A, base, step)
  BY <1>4, <1>5 DEF IsFold
<1> QED
  BY <1>4, <1>6

\* What computes as a fold does has a run.
LEMMA FoldRuns ==
    ASSUME NEW n \in Nat, NEW A, NEW base \in A, NEW step \in Steps(n, A), NEW iter,
           Folds(iter, n, A, base, step)
    PROVE  \E q : IsRun(q, n, A, base, step) /\ iter[1..n] = q[n]
<1> DEFINE p == [k \in 0..n |-> iter[1..k]]
           P == {k \in 0..n : p[k] \in A}
<1>0. \A k \in 1..n, a \in A : step[k][a] \in A
  BY DEF Steps
<1>1. 0 \in P /\ p[0] = base
  <2>1. 1..0 = {} /\ 0 \in 0..n /\ {} \in SUBSET (1..n)
    OBVIOUS
  <2>2. iter[{}] = base
    BY <2>1 DEF Folds
  <2> QED
    BY <2>1, <2>2
<1>2. ASSUME NEW k \in 1..n, iter[1..(k - 1)] \in A
      PROVE  iter[1..k] = step[k][iter[1..(k - 1)]]
  <2>1. 1..k # {} /\ (1..k) \ {k} = 1..(k - 1) /\ 1..k \in SUBSET (1..n)
    OBVIOUS
  <2>2. k \in Nat \ {0} /\ 1..k \in SUBSET (1..k) /\ k \in 1..k
    OBVIOUS
  <2>3. Max(1..k) = k
    BY <2>2, MaxOf
  <2> QED
    BY <1>2, <2>1, <2>3 DEF Folds
<1>3. ASSUME NEW k \in 0..(n - 1), k \in P
      PROVE  k + 1 \in P
  BY <1>0, <1>2, <1>3
<1>4. \A k \in 0..n : k \in P
  BY <1>1, <1>3, CountInduction
<1>5. p \in [0..n -> A]
  BY <1>4
<1>6. \A k \in 1..n : p[k - 1] \in A /\ p[k] = step[k][p[k - 1]]
  BY <1>2, <1>5
<1>7. iter[1..n] = p[n]
  OBVIOUS
<1> HIDE DEF p
<1>8. IsRun(p, n, A, base, step)
  BY <1>1, <1>5, <1>6 DEF IsRun
<1> QED
  BY <1>7, <1>8

\* A sequence of sequences flattened is the last of their successive
\* concatenations.
LEMMA FlattenRun ==
    ASSUME NEW C, NEW seqs \in Seq(Seq(C))
    PROVE  \E q \in [0..Len(seqs) -> Seq(C)] :
             /\ q[0] = <<>>
             /\ \A k \in 1..Len(seqs) : q[k] = q[k - 1] \o seqs[k]
             /\ FlattenSeq(seqs) = q[Len(seqs)]
<1> DEFINE n == Len(seqs)
           T == Seq(C)
           step == [k \in 1..n |-> [a \in T |-> a \o seqs[k]]]
           body(g) == [i \in 1..n |-> IF i = 1 THEN seqs[i] ELSE g[i - 1] \o seqs[i]]
           flat == CHOOSE g : g = body(g)
<1>1. n \in Nat /\ <<>> \in T /\ \A k \in 1..n : seqs[k] \in Seq(C)
  OBVIOUS
<1>2. FlattenSeq(seqs) = IF n = 0 THEN <<>> ELSE flat[n]
  BY DEF FlattenSeq
<1>3. step \in Steps(n, T)
  BY <1>1 DEF Steps
<1>4. PICK g : g \in [SUBSET (1..n) -> T] /\ IsFold(g, n, T, <<>>, step)
  BY <1>1, <1>3, FoldExists
<1>5. Folds(g, n, T, <<>>, step)
  BY <1>4 DEF IsFold, Folds
<1>6. PICK q : IsRun(q, n, T, <<>>, step)
  BY <1>1, <1>3, <1>5, FoldRuns
<1>7. /\ q \in [0..n -> T] /\ q[0] = <<>>
      /\ \A k \in 1..n : q[k] = q[k - 1] \o seqs[k]
  BY <1>6 DEF IsRun
<1>a. 1 \in 1..n => q[1] = seqs[1]
  <2> SUFFICES ASSUME 1 \in 1..n
               PROVE  q[1] = seqs[1]
    OBVIOUS
  <2>1. 1 - 1 = 0
    OBVIOUS
  <2>2. q[1] = <<>> \o seqs[1] /\ seqs[1] \in Seq(C)
    BY <1>1, <1>7, <2>1
  <2> QED
    BY <2>2
<1>8. flat = body(flat)
  <2> DEFINE f == [i \in 1..n |-> q[i]]
  <2>1. \A i \in 1..n : f[i] = IF i = 1 THEN seqs[i] ELSE f[i - 1] \o seqs[i]
    <3> SUFFICES ASSUME NEW i \in 1..n
                 PROVE  f[i] = IF i = 1 THEN seqs[i] ELSE f[i - 1] \o seqs[i]
      OBVIOUS
    <3>1. CASE i = 1
      BY <1>a, <3>1
    <3>2. CASE i # 1
      <4>1. i - 1 \in 1..n
        BY <1>1, <3>2
      <4> QED
        BY <1>7, <3>2, <4>1
    <3> QED
      BY <3>1, <3>2
  <2> HIDE DEF n
  <2>2. f = body(f)
    BY <2>1
  <2> HIDE DEF body, f
  <2> QED
    BY <2>2
<1>9. \A k \in 0..n : k \in {i \in 0..n : i = 0 \/ flat[i] = q[i]}
  <2> DEFINE P == {i \in 0..n : i = 0 \/ flat[i] = q[i]}
  <2>1. 0 \in P
    BY <1>1
  <2>2. ASSUME NEW k \in 0..(n - 1), k \in P
        PROVE  k + 1 \in P
    <3>1. k + 1 \in 1..n /\ k + 1 \in 0..n /\ (k + 1) - 1 = k
      BY <1>1
    <3>2. flat[k + 1] = IF k + 1 = 1 THEN seqs[k + 1] ELSE flat[k] \o seqs[k + 1]
      <4> HIDE DEF flat, n
      <4> QED
        BY <1>8, <3>1
    <3>3. q[k + 1] = q[k] \o seqs[k + 1]
      BY <1>7, <3>1
    <3>4. flat[k + 1] = q[k + 1]
      <4> HIDE DEF n, flat
      <4>1. CASE k = 0
        BY <1>a, <3>1, <3>2, <4>1
      <4>2. CASE k # 0
        <5>1. flat[k] = q[k] /\ k + 1 # 1
          BY <2>2, <4>2
        <5> QED
          BY <3>2, <3>3, <5>1
      <4> QED
        BY <4>1, <4>2
    <3> HIDE DEF n, flat
    <3> QED
      BY <3>1, <3>4
  <2> HIDE DEF P, n
  <2>3. \A k \in 0..n : k \in P
    BY <1>1, <2>1, <2>2, CountInduction
  <2> QED
    BY <2>3 DEF P
<1>10. FlattenSeq(seqs) = q[n]
  <2> HIDE DEF flat
  <2> QED
    BY <1>1, <1>2, <1>7, <1>9
<1> QED
  BY <1>7, <1>10

LEMMA FlattenAppend ==
    ASSUME NEW C, NEW seqs \in Seq(Seq(C)), NEW last \in Seq(C)
    PROVE  /\ FlattenSeq(seqs) \in Seq(C)
           /\ FlattenSeq(Append(seqs, last)) = FlattenSeq(seqs) \o last
<1> DEFINE n == Len(seqs)
           more == Append(seqs, last)
<1>1. /\ n \in Nat /\ more \in Seq(Seq(C)) /\ Len(more) = n + 1
      /\ more[n + 1] = last /\ \A k \in 1..n : more[k] = seqs[k]
  OBVIOUS
<1> HIDE DEF n, more
<1>2. PICK q \in [0..n -> Seq(C)] :
        /\ q[0] = <<>>
        /\ \A k \in 1..n : q[k] = q[k - 1] \o seqs[k]
        /\ FlattenSeq(seqs) = q[n]
  BY FlattenRun DEF n
<1>3. PICK p \in [0..(n + 1) -> Seq(C)] :
        /\ p[0] = <<>>
        /\ \A k \in 1..(n + 1) : p[k] = p[k - 1] \o more[k]
        /\ FlattenSeq(more) = p[n + 1]
  <2>1. \E p \in [0..Len(more) -> Seq(C)] :
        /\ p[0] = <<>>
        /\ \A k \in 1..Len(more) : p[k] = p[k - 1] \o more[k]
        /\ FlattenSeq(more) = p[Len(more)]
    BY <1>1, FlattenRun
  <2> QED
    BY <1>1, <2>1
<1>4. \A k \in 0..n : k \in {i \in 0..n : p[i] = q[i]}
  <2> DEFINE P == {i \in 0..n : p[i] = q[i]}
  <2>1. 0 \in P
    BY <1>1, <1>2, <1>3
  <2>2. ASSUME NEW k \in 0..(n - 1), k \in P
        PROVE  k + 1 \in P
    <3>1. k + 1 \in 1..n /\ k + 1 \in 1..(n + 1) /\ k + 1 \in 0..n /\ (k + 1) - 1 = k
      BY <1>1
    <3>2. p[k + 1] = p[k] \o seqs[k + 1]
      BY <1>1, <1>3, <3>1
    <3>3. q[k + 1] = q[k] \o seqs[k + 1]
      BY <1>2, <3>1
    <3> QED
      BY <2>2, <3>1, <3>2, <3>3
  <2> HIDE DEF P
  <2>3. \A k \in 0..n : k \in P
    BY <1>1, <2>1, <2>2, CountInduction
  <2> QED
    BY <2>3 DEF P
<1>5. p[n] = q[n] /\ q[n] \in Seq(C)
  BY <1>1, <1>2, <1>4
<1>6. n + 1 \in 1..(n + 1) /\ (n + 1) - 1 = n
  BY <1>1
<1>7. p[n + 1] = p[n] \o last
  BY <1>1, <1>3, <1>6
<1>8. FlattenSeq(more) = FlattenSeq(seqs) \o last
  BY <1>2, <1>3, <1>5, <1>7
<1>9. FlattenSeq(seqs) \in Seq(C)
  BY <1>2, <1>5
<1> QED
  BY <1>8, <1>9 DEF more

LEMMA MinIn ==
    ASSUME NEW n \in Nat, NEW s \in SUBSET (1..n), s # {}
    PROVE  Min(s) \in s /\ \A x \in s : Min(s) <= x
<1> DEFINE t == {n + 1 - x : x \in s}
<1>1. t \in SUBSET (1..n) /\ t # {}
  <2>1. \A x \in s : x \in 1..n /\ n + 1 - x \in 1..n
    OBVIOUS
  <2>2. \A y \in t : y \in 1..n
    BY <2>1
  <2> QED
    BY <2>2
<1>2. Max(t) \in t /\ \A y \in t : y <= Max(t)
  BY <1>1, MaxIn
<1>3. PICK x \in s : Max(t) = n + 1 - x
  BY <1>2
<1>4. ASSUME NEW y \in s
      PROVE  x <= y
  <2>1. n + 1 - y <= n + 1 - x
    BY <1>2, <1>3
  <2>2. x \in Int /\ y \in Int
    OBVIOUS
  <2> QED
    BY <2>1, <2>2
<1>5. Min(s) \in s /\ \A y \in s : Min(s) <= y
  BY <1>4 DEF Min
<1> QED
  BY <1>5

\* A sequence is what it begins with followed by the rest.
IsParted(C, s, m, a, b) ==
    /\ a \in Seq(C) /\ b \in Seq(C)
    /\ Len(a) = m /\ Len(b) = Len(s) - m
    /\ \A i \in 1..m : a[i] = s[i]
    /\ \A i \in 1..(Len(s) - m) : b[i] = s[m + i]
    /\ s = a \o b

LEMMA Parted ==
    ASSUME NEW C, NEW s \in Seq(C), NEW m \in 0..Len(s)
    PROVE  IsParted(C, s, m, SubSeq(s, 1, m), SubSeq(s, m + 1, Len(s)))
<1> DEFINE n == Len(s)
           a == SubSeq(s, 1, m)
           b == SubSeq(s, m + 1, n)
<1>1. n \in Nat /\ m \in Int /\ m + 1 \in Int /\ 1 \in Int /\ n \in Int /\ m <= n /\ 0 <= m
      /\ \A i \in 1..n : s[i] \in C
  OBVIOUS
<1>2. /\ a \in Seq(C) /\ Len(a) = IF 1 <= m THEN m - 1 + 1 ELSE 0
      /\ \A i \in 1..(m - 1 + 1) : a[i] = s[1 + i - 1]
  BY <1>1, SubSeqProperties
<1>3. /\ b \in Seq(C) /\ Len(b) = IF m + 1 <= n THEN n - (m + 1) + 1 ELSE 0
      /\ \A i \in 1..(n - (m + 1) + 1) : b[i] = s[m + 1 + i - 1]
  BY <1>1, SubSeqProperties
<1> HIDE DEF n, a, b
<1>4. Len(a) = m /\ \A i \in 1..m : a[i] = s[i]
  BY <1>1, <1>2
<1>5. Len(b) = n - m /\ \A i \in 1..(n - m) : b[i] = s[m + i]
  BY <1>1, <1>3
<1>c. /\ a \o b \in Seq(C) /\ Len(a \o b) = Len(a) + Len(b)
      /\ \A i \in 1..(Len(a) + Len(b)) : (a \o b)[i] =
            IF i <= Len(a) THEN a[i] ELSE b[i - Len(a)]
  BY <1>2, <1>3, ConcatProperties
<1>6. a \o b \in Seq(C) /\ Len(a \o b) = n
  BY <1>1, <1>c, <1>4, <1>5
<1>7. \A i \in 1..n : s[i] = (a \o b)[i]
  <2> SUFFICES ASSUME NEW i \in 1..n
               PROVE  s[i] = (a \o b)[i]
    OBVIOUS
  <2>1. (a \o b)[i] = IF i <= m THEN a[i] ELSE b[i - m]
    BY <1>1, <1>c, <1>4, <1>5, SMTT(30)
  <2>2. CASE i <= m
    BY <1>1, <1>4, <2>1, <2>2
  <2>3. CASE ~(i <= m)
    BY <1>1, <1>5, <2>1, <2>3
  <2> QED
    BY <2>2, <2>3
<1>8. s = a \o b
  BY <1>6, <1>7, SeqEqual DEF n
<1> QED
  BY <1>2, <1>3, <1>4, <1>5, <1>8 DEF n, a, b, IsParted

LEMMA MaxFromZero ==
    ASSUME NEW n \in Nat, NEW s \in SUBSET (0..n), s # {}
    PROVE  Max(s) \in s /\ \A x \in s : x <= Max(s)
<1> DEFINE t == {x + 1 : x \in s}
<1>1. t \in SUBSET (1..(n + 1)) /\ t # {} /\ n + 1 \in Nat
  <2>1. \A x \in s : x \in 0..n /\ x + 1 \in 1..(n + 1)
    OBVIOUS
  <2>2. \A y \in t : y \in 1..(n + 1)
    BY <2>1
  <2>3. t # {}
    OBVIOUS
  <2> HIDE DEF t
  <2> QED
    BY <2>2, <2>3
<1>2. Max(t) \in t /\ \A y \in t : y <= Max(t)
  BY <1>1, MaxIn
<1>3. PICK x \in s : Max(t) = x + 1
  BY <1>2
<1>4. ASSUME NEW y \in s
      PROVE  x >= y
  <2>1. y + 1 <= x + 1
    BY <1>2, <1>3
  <2>2. x \in Int /\ y \in Int
    OBVIOUS
  <2> QED
    BY <2>1, <2>2
<1>5. Max(s) \in s /\ \A y \in s : Max(s) >= y
  BY <1>4 DEF Max
<1>6. \A y \in s : y \in Int
  OBVIOUS
<1> QED
  BY <1>5, <1>6

-----------------------------------------------------------------------------
(* Replies.                                                                *)

InkStep(ink, c) == IF c \in Blank THEN ink ELSE Append(ink, c)

LEMMA InkFold ==
    ASSUME NEW C, NEW text \in Seq(C)
    PROVE  \E p \in [0..Len(text) -> Seq(C)] :
             /\ p[0] = <<>>
             /\ \A k \in 1..Len(text) : p[k] = InkStep(p[k - 1], text[k])
             /\ Ink(text) = p[Len(text)]
<1> DEFINE n == Len(text)
           T == Seq(C)
           base == <<>>
           body(g) == [s \in SUBSET (1..n) |-> IF s = {} THEN base
                         ELSE InkStep(g[s \ {Max(s)}], text[Max(s)])]
           step == [k \in 1..n |-> [a \in T |-> InkStep(a, text[k])]]
           iter == CHOOSE g : g = body(g)
<1>1. n \in Nat /\ DOMAIN text = 1..n
  OBVIOUS
<1>2. Ink(text) = iter[1..n]
  BY <1>1 DEF Ink, InkStep, FoldLeft, MapThenFoldSet
<1>3. base \in T /\ \A k \in 1..n, a \in T : InkStep(a, text[k]) \in T
  BY DEF InkStep
<1>4. step \in Steps(n, T)
  BY <1>3 DEF Steps
<1> HIDE DEF n, T, base
<1>5. iter = body(iter)
  <2> HIDE DEF step, body
  <2>1. PICK g : g \in [SUBSET (1..n) -> T] /\ IsFold(g, n, T, base, step)
    BY <1>1, <1>3, <1>4, FoldExists
  <2>2. \A s \in SUBSET (1..n) : g[s] = body(g)[s]
    BY <2>1 DEF IsFold, step, body
  <2>3. g = body(g)
    BY <2>1, <2>2 DEF body
  <2> QED
    BY <2>3
<1> HIDE DEF iter
<1>6. Folds(iter, n, T, base, step)
  BY <1>5 DEF Folds
<1>7. PICK q : IsRun(q, n, T, base, step) /\ iter[1..n] = q[n]
  <2> HIDE DEF step
  <2> QED
    BY <1>1, <1>3, <1>4, <1>6, FoldRuns
<1>8. /\ q \in [0..n -> T] /\ q[0] = base
      /\ \A k \in 1..n : q[k] = InkStep(q[k - 1], text[k])
  BY <1>7 DEF IsRun
<1> QED
  BY <1>2, <1>7, <1>8 DEF n, T, base

LEMMA InkConcat ==
    ASSUME NEW C, NEW s \in Seq(C), NEW t \in Seq(C)
    PROVE  Ink(s) \in Seq(C) /\ Ink(s \o t) = Ink(s) \o Ink(t)
<1> DEFINE m == Len(s)
           n == Len(t)
           u == s \o t
<1>1. /\ m \in Nat /\ n \in Nat /\ u \in Seq(C) /\ Len(u) = m + n
      /\ \A i \in 1..m : u[i] = s[i]
      /\ \A i \in 1..n : u[m + i] = t[i]
  OBVIOUS
<1> HIDE DEF m, n, u
<1>2. PICK p \in [0..m -> Seq(C)] :
        /\ p[0] = <<>>
        /\ \A k \in 1..m : p[k] = InkStep(p[k - 1], s[k])
        /\ Ink(s) = p[m]
  BY InkFold DEF m
<1>3. PICK q \in [0..n -> Seq(C)] :
        /\ q[0] = <<>>
        /\ \A k \in 1..n : q[k] = InkStep(q[k - 1], t[k])
        /\ Ink(t) = q[n]
  BY InkFold DEF n
<1>4. PICK r \in [0..(m + n) -> Seq(C)] :
        /\ r[0] = <<>>
        /\ \A k \in 1..(m + n) : r[k] = InkStep(r[k - 1], u[k])
        /\ Ink(u) = r[m + n]
  <2>1. \E r \in [0..Len(u) -> Seq(C)] :
        /\ r[0] = <<>>
        /\ \A k \in 1..Len(u) : r[k] = InkStep(r[k - 1], u[k])
        /\ Ink(u) = r[Len(u)]
    BY <1>1, InkFold
  <2> QED
    BY <1>1, <2>1
<1>5. r[m] = p[m]
  <2> DEFINE P == {k \in 0..m : r[k] = p[k]}
  <2>1. 0 \in P
    BY <1>1, <1>2, <1>4
  <2>2. ASSUME NEW k \in 0..(m - 1), k \in P
        PROVE  k + 1 \in P
    BY <1>1, <1>2, <1>4, <2>2
  <2> HIDE DEF P
  <2>3. \A k \in 0..m : k \in P
    BY <1>1, <2>1, <2>2, CountInduction
  <2>4. m \in 0..m
    BY <1>1
  <2> QED
    BY <2>3, <2>4 DEF P
<1>6. p[m] \in Seq(C) /\ \A k \in 0..n : q[k] \in Seq(C)
  <2>1. m \in 0..m
    BY <1>1
  <2>2. p \in [0..m -> Seq(C)]
    BY <1>2
  <2>3. q \in [0..n -> Seq(C)]
    BY <1>3
  <2> QED
    BY <2>1, <2>2, <2>3
<1>7. r[m + n] = p[m] \o q[n]
  <2> DEFINE P == {k \in 0..n : r[m + k] = p[m] \o q[k]}
  <2>1. 0 \in P
    <3>1. m + 0 = m /\ p[m] \o <<>> = p[m] /\ 0 \in 0..n
      BY <1>1, <1>6
    <3> QED
      BY <1>3, <1>5, <3>1
  <2>2. ASSUME NEW k \in 0..(n - 1), k \in P
        PROVE  k + 1 \in P
    <3>a. /\ k + 1 \in 1..n /\ m + (k + 1) \in 1..(m + n) /\ k + 1 \in 0..n /\ (k + 1) - 1 = k
          /\ (m + (k + 1)) - 1 = m + k /\ k \in 0..n
      <4>1. m \in Nat /\ n \in Nat /\ k \in Nat /\ k <= n - 1
        BY <1>1
      <4> QED
        BY <4>1
    <3>b. t[k + 1] \in C
      BY <3>a DEF n
    <3>1. /\ k + 1 \in 1..n /\ k + 1 \in 0..n /\ (k + 1) - 1 = k /\ k \in 0..n
          /\ u[m + (k + 1)] = t[k + 1] /\ t[k + 1] \in C
      BY <1>1, <3>a, <3>b
    <3>2. r[m + (k + 1)] = InkStep(p[m] \o q[k], t[k + 1])
      BY <1>4, <2>2, <3>a, <3>1
    <3>3. q[k + 1] = InkStep(q[k], t[k + 1])
      BY <1>3, <3>1
    <3>4. \A a, b \in Seq(C), c \in C : InkStep(a \o b, c) = a \o InkStep(b, c)
      <4>1. ASSUME NEW a \in Seq(C), NEW b \in Seq(C), NEW c \in C
            PROVE  Append(a \o b, c) = a \o Append(b, c)
        <5>1. a \o b \in Seq(C) /\ <<c>> \in Seq(C)
          OBVIOUS
        <5>2. Append(a \o b, c) = (a \o b) \o <<c>> /\ Append(b, c) = b \o <<c>>
          BY <5>1, AppendIsConcat
        <5>3. (a \o b) \o <<c>> = a \o (b \o <<c>>)
          BY <5>1, ConcatAssociative, SMTT(30)
        <5> QED
          BY <5>2, <5>3
      <4> QED
        BY <4>1, ZenonT(60) DEF InkStep
    <3>5. InkStep(p[m] \o q[k], t[k + 1]) = p[m] \o InkStep(q[k], t[k + 1])
      BY <1>6, <3>1, <3>4
    <3> QED
      BY <3>1, <3>2, <3>3, <3>5
  <2> HIDE DEF P
  <2>3. \A k \in 0..n : k \in P
    BY <1>1, <2>1, <2>2, CountInduction
  <2>4. n \in 0..n
    BY <1>1
  <2> QED
    BY <2>3, <2>4 DEF P
<1> QED
  BY <1>2, <1>3, <1>4, <1>6, <1>7 DEF u

LEMMA InkOfBlanks ==
    ASSUME NEW C, NEW s \in Seq(C), \A i \in DOMAIN s : s[i] \in Blank
    PROVE  Ink(s) = <<>>
<1> DEFINE m == Len(s)
<1>1. m \in Nat /\ \A i \in 1..m : s[i] \in Blank
  OBVIOUS
<1> HIDE DEF m
<1>2. PICK p \in [0..m -> Seq(C)] :
        /\ p[0] = <<>>
        /\ \A k \in 1..m : p[k] = InkStep(p[k - 1], s[k])
        /\ Ink(s) = p[m]
  BY InkFold DEF m
<1> DEFINE P == {k \in 0..m : p[k] = <<>>}
<1>3. 0 \in P
  BY <1>1, <1>2
<1>4. ASSUME NEW k \in 0..(m - 1), k \in P
      PROVE  k + 1 \in P
  BY <1>1, <1>2, <1>4 DEF InkStep
<1> HIDE DEF P
<1>5. \A k \in 0..m : k \in P
  BY <1>1, <1>3, <1>4, CountInduction
<1>6. m \in 0..m
  BY <1>1
<1> QED
  BY <1>2, <1>5, <1>6 DEF P

\* What a strip takes off is blank, and it leaves no blank at its end.
LEMMA LstripFacts ==
    ASSUME NEW C, NEW s \in Seq(C)
    PROVE  /\ Lstrip(s) \in Seq(C) /\ Ink(Lstrip(s)) = Ink(s) /\ Len(Lstrip(s)) <= Len(s)
           /\ Lstrip(s) = <<>> \/ (Len(Lstrip(s)) >= 1 /\ Lstrip(s)[1] \notin Blank)
<1> DEFINE ink == {i \in DOMAIN s : s[i] \notin Blank}
<1>1. Len(s) \in Nat /\ DOMAIN s = 1..Len(s) /\ ink \in SUBSET (1..Len(s))
  OBVIOUS
<1>2. Ink(<<>>) = <<>>
  <2>1. <<>> \in Seq(C) /\ DOMAIN <<>> = {}
    OBVIOUS
  <2> QED
    BY <2>1, InkOfBlanks
<1>3. CASE ink = {}
  BY <1>1, <1>2, <1>3, InkOfBlanks DEF Lstrip
<1>4. CASE ink # {}
  <2> DEFINE m == Min(ink) - 1
             a == SubSeq(s, 1, m)
             b == SubSeq(s, m + 1, Len(s))
  <2>1. Min(ink) \in ink /\ \A x \in ink : Min(ink) <= x
    BY <1>1, <1>4, MinIn
  <2>2. m \in 0..Len(s) /\ m + 1 = Min(ink) /\ Min(ink) \in 1..Len(s) /\ m < Len(s)
    BY <1>1, <2>1
  <2>3. Lstrip(s) = b
    BY <1>4, <2>2 DEF Lstrip
  <2>4. s[m + 1] \notin Blank /\ \A i \in 1..m : s[i] \in Blank
    <3>1. s[m + 1] \notin Blank
      BY <2>1, <2>2
    <3>2. ASSUME NEW i \in 1..m
          PROVE  s[i] \in Blank
      <4>1. i \in DOMAIN s /\ ~(Min(ink) <= i)
        BY <1>1, <2>2
      <4> QED
        BY <2>1, <4>1
    <3> QED
      BY <3>1, <3>2
  <2> HIDE DEF m, ink
  <2>p. IsParted(C, s, m, a, b)
    BY <2>2, Parted
  <2> HIDE DEF a, b
  <2>5. /\ a \in Seq(C) /\ b \in Seq(C) /\ Len(a) = m /\ Len(b) = Len(s) - m
        /\ (\A i \in 1..m : a[i] = s[i])
        /\ (\A i \in 1..(Len(s) - m) : b[i] = s[m + i])
        /\ s = a \o b
    BY <2>p DEF IsParted
  <2>6. Ink(a) = <<>>
    <3>1. \A i \in DOMAIN a : a[i] \in Blank
      BY <2>4, <2>5
    <3> QED
      BY <2>5, <3>1, InkOfBlanks
  <2>7. Ink(s) = Ink(a) \o Ink(b) /\ Ink(b) \in Seq(C)
    BY <2>5, InkConcat
  <2>8. Ink(s) = Ink(b)
    BY <2>6, <2>7
  <2>9. 1 \in 1..(Len(s) - m) /\ Len(b) >= 1 /\ Len(b) <= Len(s)
    BY <1>1, <2>2, <2>5
  <2>10. b[1] \notin Blank
    BY <2>4, <2>5, <2>9
  <2> QED
    BY <2>3, <2>5, <2>8, <2>9, <2>10
<1> QED
  BY <1>3, <1>4

LEMMA RstripFacts ==
    ASSUME NEW C, NEW s \in Seq(C)
    PROVE  /\ Rstrip(s) \in Seq(C) /\ Ink(Rstrip(s)) = Ink(s) /\ Len(Rstrip(s)) <= Len(s)
           /\ s # <<>> /\ s[1] \notin Blank => Len(Rstrip(s)) >= 1
<1> DEFINE ink == {i \in DOMAIN s : s[i] \notin Blank}
<1>1. Len(s) \in Nat /\ DOMAIN s = 1..Len(s) /\ ink \in SUBSET (1..Len(s))
  OBVIOUS
<1>2. Ink(<<>>) = <<>>
  <2>1. <<>> \in Seq(C) /\ DOMAIN <<>> = {}
    OBVIOUS
  <2> QED
    BY <2>1, InkOfBlanks
<1>3. CASE ink = {}
  BY <1>1, <1>2, <1>3, InkOfBlanks DEF Rstrip
<1>4. CASE ink # {}
  <2> DEFINE m == Max(ink)
             a == SubSeq(s, 1, m)
             b == SubSeq(s, m + 1, Len(s))
  <2>1. m \in ink /\ \A x \in ink : x <= m
    BY <1>1, <1>4, MaxIn
  <2>2. m \in 0..Len(s) /\ m \in 1..Len(s)
    BY <1>1, <2>1
  <2>3. Rstrip(s) = a
    BY <1>4 DEF Rstrip
  <2>4. \A i \in 1..(Len(s) - m) : s[m + i] \in Blank
    <3> SUFFICES ASSUME NEW i \in 1..(Len(s) - m)
                 PROVE  s[m + i] \in Blank
      OBVIOUS
    <3>1. m + i \in DOMAIN s /\ ~(m + i <= m)
      BY <1>1, <2>2
    <3> QED
      BY <2>1, <3>1
  <2> HIDE DEF m, ink
  <2>p. IsParted(C, s, m, a, b)
    BY <2>2, Parted
  <2> HIDE DEF a, b
  <2>5. /\ a \in Seq(C) /\ b \in Seq(C) /\ Len(a) = m /\ Len(b) = Len(s) - m
        /\ (\A i \in 1..m : a[i] = s[i])
        /\ (\A i \in 1..(Len(s) - m) : b[i] = s[m + i])
        /\ s = a \o b
    BY <2>p DEF IsParted
  <2>6. Ink(b) = <<>>
    <3>1. DOMAIN b = 1..(Len(s) - m)
      BY <2>5
    <3>2. \A i \in DOMAIN b : b[i] \in Blank
      BY <2>4, <2>5, <3>1
    <3> QED
      BY <2>5, <3>2, InkOfBlanks
  <2>7. Ink(s) = Ink(a) \o Ink(b) /\ Ink(a) \in Seq(C)
    BY <2>5, InkConcat
  <2>8. Ink(s) = Ink(a)
    BY <2>6, <2>7
  <2>9. Len(a) >= 1 /\ Len(a) <= Len(s)
    BY <1>1, <2>2, <2>5
  <2> QED
    BY <2>3, <2>5, <2>8, <2>9
<1> QED
  BY <1>3, <1>4

\* The states of the loop of split_discord_message, and one pass of it.
Splits(C) == [parts : Seq(Seq(C)), rest : Seq(C)]

SplitStep(s, limit) ==
    IF Len(s.rest) <= limit
    THEN s
    ELSE LET cut == Boundary(s.rest, limit)
         IN  [parts |-> Append(s.parts, Rstrip(SubSeq(s.rest, 1, cut))),
              rest |-> Lstrip(SubSeq(s.rest, cut + 1, Len(s.rest)))]

SplitEnd(text, limit) ==
    LET step(s, pass) == SplitStep(s, limit)
    IN  FoldLeft(step, [parts |-> <<>>, rest |-> Lstrip(Rstrip(text))],
                 [pass \in 1..Len(text) |-> pass])

LEMMA BoundaryType ==
    ASSUME NEW C, NEW s \in Seq(C), NEW limit \in Nat \ {0}, ~(Len(s) <= limit)
    PROVE  /\ Boundary(s, limit) \in 0..limit
           /\ Boundary(s, limit) = limit \/ s[Boundary(s, limit) + 1] \in Blank
<1> DEFINE breaks == {i \in 0..limit : s[i + 1] \in Blank}
           last == IF breaks = {} THEN -1 ELSE Max(breaks)
<1>1. limit \div 2 \in Nat
  OBVIOUS
<1>2. Boundary(s, limit) = IF last < limit \div 2 THEN limit ELSE last
  BY DEF Boundary
<1>3. CASE breaks = {}
  BY <1>1, <1>2, <1>3
<1>4. CASE breaks # {}
  <2>1. Max(breaks) \in breaks
    BY <1>4, MaxFromZero DEF breaks
  <2>2. last \in 0..limit /\ s[last + 1] \in Blank
    BY <1>4, <2>1
  <2> HIDE DEF last
  <2> QED
    BY <1>1, <1>2, <2>2
<1> QED
  BY <1>3, <1>4

LEMMA BoundaryInside ==
    ASSUME NEW C, NEW s \in Seq(C), NEW limit \in Nat \ {0}, ~(Len(s) <= limit),
           s[1] \notin Blank
    PROVE  Boundary(s, limit) \in 1..limit
<1>1. /\ Boundary(s, limit) \in 0..limit
      /\ Boundary(s, limit) = limit \/ s[Boundary(s, limit) + 1] \in Blank
  BY BoundaryType
<1>2. Boundary(s, limit) # 0
  BY <1>1
<1> QED
  BY <1>1, <1>2

LEMMA SplitStepType ==
    ASSUME NEW C, NEW s \in Splits(C), NEW limit \in Nat \ {0}
    PROVE  SplitStep(s, limit) \in Splits(C)
<1>1. s.parts \in Seq(Seq(C)) /\ s.rest \in Seq(C) /\ Len(s.rest) \in Nat
  BY DEF Splits
<1>2. CASE Len(s.rest) <= limit
  BY <1>2 DEF SplitStep
<1>3. CASE ~(Len(s.rest) <= limit)
  <2> DEFINE cut == Boundary(s.rest, limit)
             a == SubSeq(s.rest, 1, cut)
             b == SubSeq(s.rest, cut + 1, Len(s.rest))
  <2>1. cut \in 0..limit
    BY <1>1, <1>3, BoundaryType
  <2> HIDE DEF cut
  <2>2. cut \in 0..Len(s.rest)
    BY <1>1, <1>3, <2>1
  <2>p. IsParted(C, s.rest, cut, a, b)
    BY <1>1, <2>2, Parted
  <2> HIDE DEF a, b
  <2>3. a \in Seq(C) /\ b \in Seq(C)
    BY <2>p DEF IsParted
  <2>4. Rstrip(a) \in Seq(C)
    BY <2>3, RstripFacts
  <2>5. Lstrip(b) \in Seq(C)
    BY <2>3, LstripFacts
  <2>6. SplitStep(s, limit) = [parts |-> Append(s.parts, Rstrip(a)), rest |-> Lstrip(b)]
    BY <1>3 DEF SplitStep, cut, a, b
  <2>7. Append(s.parts, Rstrip(a)) \in Seq(Seq(C))
    BY <1>1, <2>4, AppendProperties
  <2> QED
    BY <2>5, <2>6, <2>7 DEF Splits
<1> QED
  BY <1>2, <1>3

LEMMA SplitFold ==
    ASSUME NEW C, NEW text \in Seq(C), NEW limit \in Nat \ {0}
    PROVE  \E p \in [0..Len(text) -> Splits(C)] :
             /\ p[0] = [parts |-> <<>>, rest |-> Lstrip(Rstrip(text))]
             /\ \A k \in 1..Len(text) : p[k] = SplitStep(p[k - 1], limit)
             /\ SplitEnd(text, limit) = p[Len(text)]
<1> DEFINE n == Len(text)
           T == Splits(C)
           base == [parts |-> <<>>, rest |-> Lstrip(Rstrip(text))]
           body(g) == [s \in SUBSET (1..n) |-> IF s = {} THEN base
                         ELSE SplitStep(g[s \ {Max(s)}], limit)]
           step == [k \in 1..n |-> [a \in T |-> SplitStep(a, limit)]]
           iter == CHOOSE g : g = body(g)
<1>1. n \in Nat
  OBVIOUS
<1>2. SplitEnd(text, limit) = iter[1..n]
  BY <1>1 DEF SplitEnd, SplitStep, FoldLeft, MapThenFoldSet
<1>3. base \in T /\ \A k \in 1..n, a \in T : SplitStep(a, limit) \in T
  <2>1. Lstrip(Rstrip(text)) \in Seq(C)
    BY RstripFacts, LstripFacts
  <2>2. \A a \in T : SplitStep(a, limit) \in T
    BY SplitStepType
  <2> QED
    BY <2>1, <2>2 DEF Splits
<1>4. step \in Steps(n, T)
  BY <1>3 DEF Steps
<1> HIDE DEF n, T, base
<1>5. iter = body(iter)
  <2> HIDE DEF step, body
  <2>1. PICK g : g \in [SUBSET (1..n) -> T] /\ IsFold(g, n, T, base, step)
    BY <1>1, <1>3, <1>4, FoldExists
  <2>2. \A s \in SUBSET (1..n) : g[s] = body(g)[s]
    BY <2>1 DEF IsFold, step, body
  <2>3. g = body(g)
    BY <2>1, <2>2 DEF body
  <2> QED
    BY <2>3
<1> HIDE DEF iter
<1>6. Folds(iter, n, T, base, step)
  BY <1>5 DEF Folds
<1>7. PICK q : IsRun(q, n, T, base, step) /\ iter[1..n] = q[n]
  <2> HIDE DEF step
  <2> QED
    BY <1>1, <1>3, <1>4, <1>6, FoldRuns
<1>8. /\ q \in [0..n -> T] /\ q[0] = base
      /\ \A k \in 1..n : q[k] = SplitStep(q[k - 1], limit)
  BY <1>7 DEF IsRun
<1> QED
  BY <1>2, <1>7, <1>8 DEF n, T, base

\* Parts and rest hold the ink of the text, every part fits, the rest begins
\* with ink, and it gets shorter with every pass.
SplitGood(C, text, limit, k, s) ==
    /\ s \in Splits(C)
    /\ Ink(FlattenSeq(s.parts)) \o Ink(s.rest) = Ink(text)
    /\ \A i \in DOMAIN s.parts : Len(s.parts[i]) \in 1..limit
    /\ s.rest = <<>> \/ (Len(s.rest) >= 1 /\ s.rest[1] \notin Blank)
    /\ Len(s.rest) <= limit \/ Len(s.rest) <= Len(text) - k

LEMMA SplitStepGood ==
    ASSUME NEW C, NEW text \in Seq(C), NEW limit \in Nat \ {0}, NEW k \in Nat, NEW s
    PROVE  SplitGood(C, text, limit, k, s)
             => SplitGood(C, text, limit, k + 1, SplitStep(s, limit))
<1>0. SUFFICES ASSUME SplitGood(C, text, limit, k, s)
               PROVE  SplitGood(C, text, limit, k + 1, SplitStep(s, limit))
  OBVIOUS
<1>1. s.parts \in Seq(Seq(C)) /\ s.rest \in Seq(C) /\ Len(s.rest) \in Nat /\ Len(text) \in Nat
  BY <1>0 DEF SplitGood, Splits
<1>2. CASE Len(s.rest) <= limit
  BY <1>0, <1>2 DEF SplitGood, SplitStep
<1>3. CASE ~(Len(s.rest) <= limit)
  <2> DEFINE cut == Boundary(s.rest, limit)
             a == SubSeq(s.rest, 1, cut)
             b == SubSeq(s.rest, cut + 1, Len(s.rest))
             parts == Append(s.parts, Rstrip(a))
             rest == Lstrip(b)
  <2>1. SplitStep(s, limit) = [parts |-> parts, rest |-> rest]
    BY <1>3 DEF SplitStep
  <2>2. Len(s.rest) >= 1 /\ s.rest[1] \notin Blank
    BY <1>0, <1>1, <1>3 DEF SplitGood
  <2>3. cut \in 1..limit
    BY <1>1, <1>3, <2>2, BoundaryInside
  <2>4. cut \in 0..Len(s.rest)
    BY <1>1, <1>3, <2>3
  <2> HIDE DEF cut
  <2>p. IsParted(C, s.rest, cut, a, b)
    BY <1>1, <2>4, Parted
  <2> HIDE DEF a, b
  <2>5. /\ a \in Seq(C) /\ b \in Seq(C)
        /\ Len(a) = cut /\ Len(b) = Len(s.rest) - cut
        /\ (\A i \in 1..cut : a[i] = s.rest[i])
        /\ s.rest = a \o b
    BY <2>p DEF IsParted
  <2>6. Ink(s.rest) = Ink(a) \o Ink(b) /\ Ink(a) \in Seq(C) /\ Ink(b) \in Seq(C)
    BY <2>5, InkConcat
  <2>7. Rstrip(a) \in Seq(C) /\ Ink(Rstrip(a)) = Ink(a) /\ Len(Rstrip(a)) <= Len(a)
        /\ (a # <<>> /\ a[1] \notin Blank => Len(Rstrip(a)) >= 1)
    BY <2>5, RstripFacts
  <2>8. /\ rest \in Seq(C) /\ Ink(rest) = Ink(b) /\ Len(rest) <= Len(b)
        /\ rest = <<>> \/ (Len(rest) >= 1 /\ rest[1] \notin Blank)
    BY <2>5, LstripFacts
  <2>9. a # <<>> /\ a[1] \notin Blank
    BY <2>2, <2>3, <2>5
  <2>10. Len(Rstrip(a)) \in 1..limit
    BY <2>3, <2>5, <2>7, <2>9
  <2>11. parts \in Seq(Seq(C)) /\ \A i \in DOMAIN parts : Len(parts[i]) \in 1..limit
    <3>1. Rstrip(a) \in Seq(C) /\ \A i \in DOMAIN s.parts : Len(s.parts[i]) \in 1..limit
      BY <1>0, <2>7 DEF SplitGood
    <3>2. /\ parts \in Seq(Seq(C)) /\ Len(parts) = Len(s.parts) + 1
          /\ \A i \in 1..Len(s.parts) : parts[i] = s.parts[i]
          /\ parts[Len(s.parts) + 1] = Rstrip(a)
      BY <1>1, <3>1, AppendProperties
    <3> HIDE DEF parts
    <3>3. /\ DOMAIN parts = 1..(Len(s.parts) + 1) /\ DOMAIN s.parts = 1..Len(s.parts)
          /\ Len(s.parts) \in Nat
      BY <1>1, <3>2
    <3>4. ASSUME NEW i \in DOMAIN parts
          PROVE  Len(parts[i]) \in 1..limit
      <4>1. CASE i = Len(s.parts) + 1
        BY <2>10, <3>2, <4>1
      <4>2. CASE i # Len(s.parts) + 1
        <5>1. i \in 1..Len(s.parts)
          BY <3>3, <4>2
        <5> QED
          BY <3>1, <3>2, <3>3, <5>1
      <4> QED
        BY <4>1, <4>2
    <3> QED
      BY <3>2, <3>4
  <2>12. Ink(FlattenSeq(parts)) \o Ink(rest) = Ink(text)
    <3> DEFINE f == FlattenSeq(s.parts)
    <3>1. f \in Seq(C) /\ FlattenSeq(parts) = f \o Rstrip(a)
      BY <1>1, <2>7, FlattenAppend
    <3> HIDE DEF f, parts, rest
    <3>a. Ink(f \o Rstrip(a)) = Ink(f) \o Ink(Rstrip(a)) /\ Ink(f) \in Seq(C)
      BY <2>7, <3>1, InkConcat, ZenonT(60)
    <3>2. Ink(f \o Rstrip(a)) = Ink(f) \o Ink(a) /\ Ink(f) \in Seq(C)
      BY <2>7, <3>a
    <3>b. ASSUME NEW x \in Seq(C), NEW y \in Seq(C), NEW z \in Seq(C)
          PROVE  (x \o y) \o z = x \o (y \o z)
      BY ConcatAssociative, SMTT(30)
    <3>3. (Ink(f) \o Ink(a)) \o Ink(b) = Ink(f) \o (Ink(a) \o Ink(b))
      BY <2>6, <3>2, <3>b
    <3>4. Ink(f) \o Ink(s.rest) = Ink(text)
      BY <1>0 DEF SplitGood, f
    <3> QED
      BY <2>6, <2>8, <3>1, <3>2, <3>3, <3>4
  <2>13. Len(rest) <= Len(text) - (k + 1)
    BY <1>0, <1>1, <1>3, <2>3, <2>5, <2>8 DEF SplitGood
  <2> HIDE DEF parts, rest
  <2> QED
    BY <1>0, <2>1, <2>8, <2>11, <2>12, <2>13, SMTT(30) DEF SplitGood, Splits
<1> QED
  BY <1>2, <1>3

\* SplitReply (split_discord_message) for every text and every limit: the
\* passes come to an end within the length of the text, and the parts arrive
\* whole.
THEOREM SplitRepliesArriveWhole ==
    ASSUME NEW C, NEW text \in Seq(C), NEW limit \in Nat \ {0}
    PROVE  ArrivesWhole(text, SplitReply(text, limit), limit)
<1> DEFINE n == Len(text)
           first == [parts |-> <<>>, rest |-> Lstrip(Rstrip(text))]
           end == SplitEnd(text, limit)
<1>1. n \in Nat
  OBVIOUS
<1>2. PICK p \in [0..n -> Splits(C)] :
        /\ p[0] = first
        /\ \A k \in 1..n : p[k] = SplitStep(p[k - 1], limit)
        /\ end = p[n]
  BY SplitFold, SMTT(30)
<1>3. SplitGood(C, text, limit, 0, first)
  <2>1. /\ Rstrip(text) \in Seq(C) /\ Ink(Rstrip(text)) = Ink(text) /\ Len(Rstrip(text)) <= Len(text)
    BY RstripFacts
  <2>2. /\ first.rest \in Seq(C) /\ Ink(first.rest) = Ink(text) /\ Len(first.rest) <= Len(Rstrip(text))
        /\ first.rest = <<>> \/ (Len(first.rest) >= 1 /\ first.rest[1] \notin Blank)
    BY <2>1, LstripFacts
  <2>3. first.parts = <<>> /\ <<>> \in Seq(Seq(C)) /\ DOMAIN <<>> = {} /\ Len(<<>>) = 0
    OBVIOUS
  <2>4. first \in Splits(C)
    BY <2>2, <2>3 DEF Splits
  <2> HIDE DEF first
  <2>5. Ink(FlattenSeq(<<>>)) = <<>>
    BY <2>3, InkOfBlanks DEF FlattenSeq
  <2>6. Ink(text) \in Seq(C)
    BY InkConcat
  <2>7. Ink(FlattenSeq(first.parts)) \o Ink(first.rest) = Ink(text)
    BY <2>2, <2>3, <2>5, <2>6
  <2>8. Len(first.rest) <= Len(text) - 0
    BY <2>1, <2>2
  <2> QED
    BY <2>2, <2>3, <2>4, <2>7, <2>8 DEF SplitGood
<1> HIDE DEF n, first, end
<1> DEFINE P == {k \in 0..n : SplitGood(C, text, limit, k, p[k])}
<1>4. 0 \in P
  BY <1>1, <1>2, <1>3
<1>5. ASSUME NEW k \in 0..(n - 1), k \in P
      PROVE  k + 1 \in P
  BY <1>1, <1>2, <1>5, SplitStepGood
<1> HIDE DEF P
<1>6. \A k \in 0..n : k \in P
  BY <1>1, <1>4, <1>5, CountInduction
<1>7. SplitGood(C, text, limit, n, end)
  BY <1>1, <1>2, <1>6 DEF P
<1>8. /\ end.parts \in Seq(Seq(C)) /\ end.rest \in Seq(C) /\ Len(end.rest) \in Nat
      /\ Ink(FlattenSeq(end.parts)) \o Ink(end.rest) = Ink(text)
      /\ \A i \in DOMAIN end.parts : Len(end.parts[i]) \in 1..limit
      /\ end.rest = <<>> \/ Len(end.rest) >= 1
  BY <1>7 DEF SplitGood, Splits
<1>9. Len(end.rest) <= limit
  BY <1>1, <1>7, <1>8 DEF SplitGood, n
<1>10. SplitReply(text, limit) = IF end.rest = <<>> THEN end.parts ELSE Append(end.parts, end.rest)
  BY DEF SplitReply, SplitEnd, SplitStep, end, FoldLeft, MapThenFoldSet
<1>11. FlattenSeq(end.parts) \in Seq(C) /\ FlattenSeq(Append(end.parts, end.rest)) = FlattenSeq(end.parts) \o end.rest
  BY <1>8, FlattenAppend
<1>12. CASE end.rest = <<>>
  <2>1. Ink(FlattenSeq(end.parts)) \in Seq(C)
    BY <1>11, InkConcat
  <2>2. Ink(<<>>) = <<>>
    <3>1. <<>> \in Seq(C) /\ DOMAIN <<>> = {}
      OBVIOUS
    <3> QED
      BY <3>1, InkOfBlanks
  <2>3. Ink(FlattenSeq(end.parts)) = Ink(text)
    BY <1>8, <1>12, <2>1, <2>2
  <2> QED
    BY <1>8, <1>10, <1>12, <2>3 DEF ArrivesWhole
<1>13. CASE end.rest # <<>>
  <2>1. Ink(FlattenSeq(end.parts) \o end.rest) = Ink(FlattenSeq(end.parts)) \o Ink(end.rest)
    BY <1>8, <1>11, InkConcat, ZenonT(60)
  <2> DEFINE parts == Append(end.parts, end.rest)
             m == Len(end.parts)
  <2>2. /\ m \in Nat /\ DOMAIN parts = 1..(m + 1) /\ DOMAIN end.parts = 1..m
        /\ \A i \in 1..m : parts[i] = end.parts[i]
        /\ parts[m + 1] = end.rest
    BY <1>8, AppendProperties
  <2> HIDE DEF parts, m
  <2>3. Len(end.rest) \in 1..limit
    BY <1>8, <1>9, <1>13
  <2>4. ASSUME NEW i \in DOMAIN parts
        PROVE  Len(parts[i]) \in 1..limit
    <3>1. CASE i = m + 1
      BY <2>2, <2>3, <3>1
    <3>2. CASE i # m + 1
      <4>1. i \in 1..m
        BY <2>2, <3>2
      <4> QED
        BY <1>8, <2>2, <4>1
    <3> QED
      BY <3>1, <3>2
  <2>5. Ink(FlattenSeq(parts)) = Ink(text)
    BY <1>8, <1>11, <2>1 DEF parts
  <2>6. SplitReply(text, limit) = parts
    BY <1>10, <1>13 DEF parts
  <2> QED
    BY <2>4, <2>5, <2>6 DEF ArrivesWhole
<1> QED
  BY <1>12, <1>13

-----------------------------------------------------------------------------
(* Rate limits.                                                            *)

\* The events of a deque are the times of messages of S, in their order, and
\* none of S later than bound is missing.
IsTrack(f, events, S, time, bound) ==
    /\ f \in [1..Len(events) -> S]
    /\ \A a, b \in 1..Len(events) : a < b => f[a] < f[b]
    /\ \A a \in 1..Len(events) : events[a] = time[f[a]]
    /\ \A j \in S : time[j] > bound => \E a \in 1..Len(events) : f[a] = j

Tracks(events, S, time, bound) == \E f : IsTrack(f, events, S, time, bound)

\* Where the window that ends now begins.
Edge(now, window) == now - window

\* The messages of S later than a time.
Live(S, time, bound) == {j \in S : time[j] > bound}

\* The times of n messages, in the order they come.
Clock(time, n) ==
    /\ \A j \in 1..n : time[j] \in Int
    /\ \A i, j \in 1..n : i <= j => time[i] <= time[j]

LEMMA TracksLater ==
    ASSUME NEW events \in Seq(Int), NEW S, NEW time, NEW b, NEW c,
           Tracks(events, S, time, b), \A j \in S : time[j] > c => time[j] > b
    PROVE  Tracks(events, S, time, c)
<1>1. PICK f : IsTrack(f, events, S, time, b)
  BY DEF Tracks
<1>2. IsTrack(f, events, S, time, c)
  BY <1>1 DEF IsTrack
<1> QED
  BY <1>2 DEF Tracks

LEMMA TracksAppend ==
    ASSUME NEW n \in Nat, NEW k \in 0..(n - 1), NEW events \in Seq(Int), NEW S \in SUBSET (1..k),
           NEW time, time[k + 1] \in Int, NEW b, Tracks(events, S, time, b)
    PROVE  Tracks(Append(events, time[k + 1]), S \cup {k + 1}, time, b)
<1> DEFINE more == Append(events, time[k + 1])
           m == Len(events)
<1>1. PICK f : IsTrack(f, events, S, time, b)
  BY DEF Tracks
<1>2. /\ m \in Nat /\ Len(more) = m + 1 /\ more[m + 1] = time[k + 1]
      /\ \A a \in 1..m : more[a] = events[a]
  BY AppendProperties
<1> DEFINE g == [a \in 1..(m + 1) |-> IF a = m + 1 THEN k + 1 ELSE f[a]]
<1>3. /\ f \in [1..m -> S]
      /\ \A x, y \in 1..m : x < y => f[x] < f[y]
      /\ \A x \in 1..m : events[x] = time[f[x]]
      /\ \A j \in S : time[j] > b => \E x \in 1..m : f[x] = j
  BY <1>1 DEF IsTrack
<1> HIDE DEF more, m
<1>4. \A a \in 1..(m + 1) : a # m + 1 => a \in 1..m
  BY <1>2
<1>5. g \in [1..(m + 1) -> S \cup {k + 1}]
  BY <1>3, <1>4
<1>6. ASSUME NEW x \in 1..(m + 1), NEW y \in 1..(m + 1), x < y
      PROVE  g[x] < g[y]
  <2>1. x \in 1..m /\ f[x] \in S
    BY <1>2, <1>3, <1>6
  <2>2. f[x] < k + 1
    <3>1. f[x] \in 1..k
      BY <2>1
    <3> HIDE DEF g
    <3> QED
      BY <3>1
  <2>3. CASE y = m + 1
    BY <1>2, <2>1, <2>2, <2>3
  <2>4. CASE y # m + 1
    BY <1>2, <1>3, <1>4, <1>6, <2>1, <2>4
  <2> QED
    BY <2>3, <2>4
<1>7. \A a \in 1..(m + 1) : more[a] = time[g[a]]
  BY <1>2, <1>3, <1>4
<1>8. ASSUME NEW j \in S \cup {k + 1}, time[j] > b
      PROVE  \E a \in 1..(m + 1) : g[a] = j
  BY <1>2, <1>3, <1>8
<1> HIDE DEF g
<1>9. IsTrack(g, more, S \cup {k + 1}, time, b)
  BY <1>2, <1>5, <1>6, <1>7, <1>8 DEF IsTrack
<1> QED
  BY <1>9 DEF Tracks, more

LEMMA RecentType ==
    ASSUME NEW events \in Seq(Int), NEW now \in Int, NEW window \in Int
    PROVE  /\ Recent(events, now, window) \in Seq(Int)
           /\ Len(Recent(events, now, window)) \in Nat
<1> DEFINE old == {i \in DOMAIN events : \A j \in 1..i : events[j] <= now - window}
           c == Cardinality(old)
<1>1. IsFiniteSet(old)
  BY FS_Interval, FS_Subset
<1>2. c \in Nat
  BY <1>1, FS_CardinalityType
<1>3. Recent(events, now, window) = SubSeq(events, c + 1, Len(events))
  BY DEF Recent
<1> HIDE DEF c
<1>4. c + 1 \in Int /\ Len(events) \in Int /\ \A i \in (c + 1)..Len(events) : events[i] \in Int
  BY <1>2
<1>5. SubSeq(events, c + 1, Len(events)) \in Seq(Int)
  BY <1>4, SubSeqProperties
<1> QED
  BY <1>3, <1>5

\* What Recent drops is what has left the window: the events that stay are as
\* many as the messages of S within it.
LEMMA RecentTracks ==
    ASSUME NEW n \in Nat, NEW events \in Seq(Int), NEW S \in SUBSET (1..n), NEW time,
           Clock(time, n), NEW now \in Int, NEW window \in Int,
           Tracks(events, S, time, Edge(now, window))
    PROVE  /\ Tracks(Recent(events, now, window), S, time, Edge(now, window))
           /\ Len(Recent(events, now, window)) = Cardinality(Live(S, time, Edge(now, window)))
<1> DEFINE cut == Edge(now, window)
           m == Len(events)
           old == {i \in 1..m : \A j \in 1..i : events[j] <= cut}
<1>1. PICK f : IsTrack(f, events, S, time, cut)
  BY DEF Tracks
<1>2. m \in Nat /\ cut \in Int /\ DOMAIN events = 1..m /\ \A i \in 1..m : events[i] \in Int
  BY DEF Edge
<1>3. /\ f \in [1..m -> S]
      /\ \A x, y \in 1..m : x < y => f[x] < f[y]
      /\ \A x \in 1..m : events[x] = time[f[x]]
      /\ \A j \in S : time[j] > cut => \E x \in 1..m : f[x] = j
  BY <1>1 DEF IsTrack
<1>4. Recent(events, now, window) = SubSeq(events, Cardinality(old) + 1, m)
  BY <1>2 DEF Recent, Edge
<1> HIDE DEF cut, m
<1>5. \A x, y \in 1..m : x <= y => events[x] <= events[y]
  <2> SUFFICES ASSUME NEW x \in 1..m, NEW y \in 1..m, x <= y
               PROVE  events[x] <= events[y]
    OBVIOUS
  <2>1. f[x] \in 1..n /\ f[y] \in 1..n /\ f[x] <= f[y]
    <3>a. f[x] \in S /\ f[y] \in S
      BY <1>3
    <3>b. f[x] \in 1..n /\ f[y] \in 1..n
      BY <3>a
    <3>c. CASE x = y
      BY <3>b, <3>c
    <3>d. CASE x # y
      BY <1>2, <1>3, <3>b, <3>d
    <3> QED
      BY <3>c, <3>d
  <2>2. time[f[x]] <= time[f[y]]
    BY <2>1 DEF Clock
  <2> QED
    BY <1>3, <2>2
<1>6. PICK c \in 0..m : old = 1..c /\ \A x \in (c + 1)..m : events[x] > cut
  <2>1. CASE old = {}
    <3>1. \A x \in 1..m : events[x] > cut
      <4> SUFFICES ASSUME NEW x \in 1..m
                   PROVE  events[x] > cut
        OBVIOUS
      <4>1. PICK j \in 1..x : ~(events[j] <= cut)
        BY <2>1
      <4>2. j \in 1..m /\ j <= x
        BY <1>2
      <4>3. events[j] <= events[x]
        BY <1>5, <4>2
      <4> QED
        BY <1>2, <4>1, <4>2, <4>3
    <3>2. 1..0 = {} /\ 0 \in 0..m /\ (0 + 1)..m = 1..m
      BY <1>2
    <3> QED
      BY <2>1, <3>1, <3>2
  <2>2. CASE old # {}
    <3> DEFINE c == Max(old)
    <3>1. c \in old /\ \A x \in old : x <= c
      BY <1>2, <2>2, MaxIn
    <3> HIDE DEF c
    <3>2. c \in 1..m /\ \A j \in 1..c : events[j] <= cut
      BY <3>1
    <3>3. \A x \in 1..c : x \in old
      BY <1>2, <3>2
    <3>4. \A x \in old : x \in 1..c
      BY <1>2, <3>1, <3>2
    <3>5. ASSUME NEW x \in (c + 1)..m
          PROVE  events[x] > cut
      <4>1. x \in 1..m /\ ~(x <= c)
        BY <1>2, <3>2
      <4>2. x \notin old
        BY <3>1, <4>1
      <4>3. PICK j \in 1..x : ~(events[j] <= cut)
        BY <4>1, <4>2
      <4>4. j \in 1..m /\ j <= x
        BY <1>2, <4>1
      <4>5. events[j] <= events[x]
        BY <1>5, <4>1, <4>4
      <4> QED
        BY <1>2, <4>1, <4>3, <4>4, <4>5
    <3>6. old = 1..c /\ c \in 0..m
      <4> HIDE DEF old
      <4>1. c \in 0..m
        BY <1>2, <3>2
      <4>2. \A x : x \in old <=> x \in 1..c
        BY <3>3, <3>4
      <4>3. old = 1..c
        BY <4>2, Zenon
      <4> QED
        BY <4>1, <4>3
    <3> QED
      BY <3>5, <3>6
  <2> QED
    BY <2>1, <2>2
<1>7. Cardinality(old) = c
  <2>1. c \in Nat /\ 1 \in Int
    BY <1>2
  <2>2. Cardinality(1..c) = c
    BY <2>1, FS_Interval
  <2> QED
    BY <1>6, <2>2
<1> DEFINE recent == SubSeq(events, c + 1, m)
           r == m - c
           g == [a \in 1..r |-> f[c + a]]
           live == Live(S, time, cut)
<1>8. Recent(events, now, window) = recent
  BY <1>4, <1>7
<1>9. IsParted(Int, events, c, SubSeq(events, 1, c), recent)
  BY <1>6, Parted DEF m
<1>10. /\ recent \in Seq(Int) /\ Len(recent) = r
       /\ \A i \in 1..r : recent[i] = events[c + i]
  BY <1>9 DEF IsParted, m
<1>11. r \in Nat /\ \A a \in 1..r : c + a \in 1..m /\ c + a \in (c + 1)..m
  BY <1>2
<1> HIDE DEF recent, r, old
<1>12. g \in [1..r -> S] /\ \A a \in 1..r : g[a] = f[c + a]
  BY <1>3, <1>11
<1> HIDE DEF g
<1>13. \A x, y \in 1..r : x < y => g[x] < g[y]
  <2> SUFFICES ASSUME NEW x \in 1..r, NEW y \in 1..r, x < y
               PROVE  g[x] < g[y]
    OBVIOUS
  <2>1. c + x \in 1..m /\ c + y \in 1..m /\ c + x < c + y
    BY <1>2, <1>11
  <2>2. f[c + x] < f[c + y]
    BY <1>3, <2>1
  <2> QED
    BY <1>12, <2>2
<1>14. \A a \in 1..r : recent[a] = time[g[a]] /\ time[g[a]] > cut
  <2> SUFFICES ASSUME NEW a \in 1..r
               PROVE  recent[a] = time[g[a]] /\ time[g[a]] > cut
    OBVIOUS
  <2>1. recent[a] = events[c + a] /\ events[c + a] = time[f[c + a]] /\ events[c + a] > cut
    BY <1>3, <1>6, <1>10, <1>11
  <2> QED
    BY <1>12, <2>1
<1>15. \A j \in S : time[j] > cut => \E a \in 1..r : g[a] = j
  <2> SUFFICES ASSUME NEW j \in S, time[j] > cut
               PROVE  \E a \in 1..r : g[a] = j
    OBVIOUS
  <2>1. PICK x \in 1..m : f[x] = j
    BY <1>3
  <2>2. events[x] > cut
    BY <1>3, <2>1
  <2>3. x \notin 1..c
    <3> SUFFICES ASSUME x \in 1..c
                 PROVE  FALSE
      OBVIOUS
    <3>1. x \in old
      BY <1>6
    <3>2. x \in 1..x /\ events[x] <= cut
      BY <3>1 DEF old
    <3> QED
      BY <1>2, <2>1, <2>2, <3>2
  <2>4. x - c \in 1..r /\ c + (x - c) = x
    BY <1>2, <1>6, <2>1, <2>3 DEF r
  <2> QED
    BY <1>12, <2>1, <2>4
<1>16. IsTrack(g, recent, S, time, cut)
  BY <1>10, <1>12, <1>13, <1>14, <1>15 DEF IsTrack
<1>17. Cardinality(live) = r
  <2>1. \A a \in 1..r : g[a] \in live
    BY <1>12, <1>14 DEF Live
  <2>2. \A j \in live : \E a \in 1..r : g[a] = j
    BY <1>15 DEF Live
  <2>3. g \in [1..r -> live]
    BY <1>12, <2>1
  <2>4. \A x, y \in 1..r : x # y => g[x] # g[y]
    <3> SUFFICES ASSUME NEW x \in 1..r, NEW y \in 1..r, x # y
                 PROVE  g[x] # g[y]
      OBVIOUS
    <3>a. g[x] \in S /\ g[y] \in S
      BY <1>12
    <3>b. g[x] \in 1..n /\ g[y] \in 1..n
      BY <3>a
    <3>1. x < y \/ y < x
      BY <1>11
    <3>2. CASE x < y
      BY <1>13, <3>b, <3>2
    <3>3. CASE y < x
      BY <1>13, <3>b, <3>3
    <3> QED
      BY <3>1, <3>2, <3>3
  <2> HIDE DEF live
  <2>5. ExistsBijection(1..r, live)
    BY <2>2, <2>3, <2>4 DEF IsInjective, Injection, Surjection, Bijection, ExistsBijection
  <2>6. IsFiniteSet(1..r) /\ Cardinality(1..r) = r
    BY <1>11, FS_Interval
  <2>7. Cardinality(live) = Cardinality(1..r)
    BY <2>5, <2>6, FS_Bijection
  <2> QED
    BY <2>6, <2>7
<1> QED
  BY <1>8, <1>10, <1>16, <1>17 DEF Tracks, cut


LEMMA AllowTracks ==
    ASSUME NEW n \in Nat, NEW k \in 0..(n - 1), NEW events \in Seq(Int), NEW S \in SUBSET (1..k),
           NEW time, NEW limit \in Int, NEW window \in Int,
           Clock(time, n), Tracks(events, S, time, Edge(time[k + 1], window))
    PROVE  LET judged == Allow(events, limit, window, time[k + 1])
               recent == Live(S, time, Edge(time[k + 1], window))
           IN  /\ judged.events \in Seq(Int)
               /\ judged.allowed \in BOOLEAN
               /\ judged.allowed <=> Cardinality(recent) < limit
               /\ Tracks(judged.events, IF judged.allowed THEN S \cup {k + 1} ELSE S,
                         time, Edge(time[k + 1], window))
<1> DEFINE now == time[k + 1]
           kept == Recent(events, now, window)
           recent == Live(S, time, Edge(now, window))
           judged == Allow(events, limit, window, now)
<1>1. now \in Int /\ S \in SUBSET (1..n)
  BY DEF Clock
<1>2. kept \in Seq(Int) /\ Len(kept) \in Nat
  BY <1>1, RecentType
<1>3. Tracks(kept, S, time, Edge(now, window)) /\ Len(kept) = Cardinality(recent)
  BY <1>1, RecentTracks
<1>4. Append(kept, now) \in Seq(Int)
  BY <1>1, <1>2
<1>5. Tracks(Append(kept, now), S \cup {k + 1}, time, Edge(now, window))
  BY <1>1, <1>2, <1>3, TracksAppend
<1>6. judged = IF Len(kept) >= limit
               THEN [allowed |-> FALSE, events |-> kept]
               ELSE [allowed |-> TRUE, events |-> Append(kept, now)]
  BY DEF Allow
<1> HIDE DEF kept, recent, judged
<1>7. CASE Len(kept) >= limit
  BY <1>2, <1>3, <1>6, <1>7 DEF judged, recent
<1>8. CASE ~(Len(kept) >= limit)
  BY <1>2, <1>3, <1>4, <1>5, <1>6, <1>8 DEF judged, recent
<1> QED
  BY <1>7, <1>8

\* The state of the fold Admissions is, and its step.
Verdicts == {"ignored", "refused", "admitted"}

Admitting(U, C) ==
    [users : [U -> Seq(Int)], channels : [C -> Seq(Int)], out : Seq(Verdicts)]

AdmitStep(s, m, limits, window) ==
    LET byUser == Allow(s.users[m.user], limits.user, window, m.time)
        byChannel == Allow(s.channels[m.channel], limits.channel, window, m.time)
    IN  CASE ~Route(m).accepted -> [s EXCEPT !.out = Append(@, "ignored")]
          [] Route(m).accepted /\ ~byUser.allowed ->
                [s EXCEPT !.users[m.user] = byUser.events,
                          !.out = Append(@, "refused")]
          [] OTHER ->
                [s EXCEPT !.users[m.user] = byUser.events,
                          !.channels[m.channel] = byChannel.events,
                          !.out = Append(@, IF byChannel.allowed
                                            THEN "admitted" ELSE "refused")]

AdmissionsEnd(U, C, messages, limits, window) ==
    FoldLeft(LAMBDA s, m : AdmitStep(s, m, limits, window),
             [users |-> [u \in U |-> <<>>], channels |-> [c \in C |-> <<>>], out |-> <<>>],
             messages)

Addressed(m, U, C) == m.user \in U /\ m.channel \in C /\ m.time \in Int

LEMMA AllowType ==
    ASSUME NEW events \in Seq(Int), NEW limit \in Int, NEW window \in Int, NEW now \in Int
    PROVE  /\ Allow(events, limit, window, now).events \in Seq(Int)
           /\ Allow(events, limit, window, now).allowed \in BOOLEAN
<1> DEFINE kept == Recent(events, now, window)
<1>1. kept \in Seq(Int) /\ Append(kept, now) \in Seq(Int)
  BY RecentType
<1> HIDE DEF kept
<1>2. Allow(events, limit, window, now) =
        IF Len(kept) >= limit
        THEN [allowed |-> FALSE, events |-> kept]
        ELSE [allowed |-> TRUE, events |-> Append(kept, now)]
  BY DEF Allow, kept
<1> QED
  BY <1>1, <1>2

\* What one step makes of the events and the verdicts.
AdmitCases(s, next, accepted, users, channels, byUser, byChannel) ==
    \/ /\ ~accepted
       /\ next.out = Append(s.out, "ignored")
       /\ next.users = s.users /\ next.channels = s.channels
    \/ /\ accepted /\ ~byUser
       /\ next.out = Append(s.out, "refused")
       /\ next.users = users /\ next.channels = s.channels
    \/ /\ accepted /\ byUser /\ ~byChannel
       /\ next.out = Append(s.out, "refused")
       /\ next.users = users /\ next.channels = channels
    \/ /\ accepted /\ byUser /\ byChannel
       /\ next.out = Append(s.out, "admitted")
       /\ next.users = users /\ next.channels = channels

\* One step of the fold, case by case.
LEMMA AdmitStepCases ==
    ASSUME NEW U, NEW C, NEW s \in Admitting(U, C), NEW m, Addressed(m, U, C),
           NEW limits \in [user : Int, channel : Int], NEW window \in Int
    PROVE  LET byUser == Allow(s.users[m.user], limits.user, window, m.time)
               byChannel == Allow(s.channels[m.channel], limits.channel, window, m.time)
               users == [s.users EXCEPT ![m.user] = byUser.events]
               channels == [s.channels EXCEPT ![m.channel] = byChannel.events]
               next == AdmitStep(s, m, limits, window)
           IN  /\ next \in Admitting(U, C)
               /\ AdmitCases(s, next, Route(m).accepted, users, channels,
                             byUser.allowed, byChannel.allowed)
<1> DEFINE byUser == Allow(s.users[m.user], limits.user, window, m.time)
           byChannel == Allow(s.channels[m.channel], limits.channel, window, m.time)
           users == [s.users EXCEPT ![m.user] = byUser.events]
           channels == [s.channels EXCEPT ![m.channel] = byChannel.events]
           next == AdmitStep(s, m, limits, window)
<1>1. /\ m.user \in U /\ m.channel \in C /\ m.time \in Int
      /\ limits.user \in Int /\ limits.channel \in Int
      /\ s.users \in [U -> Seq(Int)] /\ s.channels \in [C -> Seq(Int)] /\ s.out \in Seq(Verdicts)
      /\ DOMAIN s = {"users", "channels", "out"}
      /\ s = [users |-> s.users, channels |-> s.channels, out |-> s.out]
  BY DEF Addressed, Admitting
<1>2. s.users[m.user] \in Seq(Int) /\ s.channels[m.channel] \in Seq(Int)
  BY <1>1
<1>3. /\ byUser.events \in Seq(Int) /\ byUser.allowed \in BOOLEAN
      /\ byChannel.events \in Seq(Int) /\ byChannel.allowed \in BOOLEAN
  BY <1>1, <1>2, AllowType
<1>4. users \in [U -> Seq(Int)] /\ channels \in [C -> Seq(Int)]
  BY <1>1, <1>3
<1>5. \A v \in Verdicts : Append(s.out, v) \in Seq(Verdicts)
  BY <1>1
<1>6. next = CASE ~Route(m).accepted -> [s EXCEPT !.out = Append(s.out, "ignored")]
               [] Route(m).accepted /\ ~byUser.allowed ->
                    [s EXCEPT !.users = users, !.out = Append(s.out, "refused")]
               [] OTHER ->
                    [s EXCEPT !.users = users, !.channels = channels,
                              !.out = Append(s.out, IF byChannel.allowed
                                                    THEN "admitted" ELSE "refused")]
  BY <1>1 DEF AdmitStep, byUser, byChannel
<1> HIDE DEF AdmitCases, byUser, byChannel, users, channels, next
<1>7. CASE ~Route(m).accepted
  <2>1. next = [s EXCEPT !.out = Append(s.out, "ignored")]
    BY <1>6, <1>7
  <2>2. next.out = Append(s.out, "ignored") /\ next.users = s.users /\ next.channels = s.channels
    BY <1>1, <2>1
  <2>3. next \in Admitting(U, C)
    BY <1>1, <1>5, <2>1 DEF Admitting, Verdicts
  <2> QED
    BY <1>7, <2>2, <2>3 DEF AdmitCases, byUser, byChannel, users, channels, next
<1>8. CASE Route(m).accepted /\ ~byUser.allowed
  <2>1. next = [s EXCEPT !.users = users, !.out = Append(s.out, "refused")]
    BY <1>6, <1>8
  <2>2. next.out = Append(s.out, "refused") /\ next.users = users /\ next.channels = s.channels
    BY <1>1, <2>1
  <2>3. next \in Admitting(U, C)
    BY <1>1, <1>4, <1>5, <2>1 DEF Admitting, Verdicts
  <2> QED
    BY <1>8, <2>2, <2>3 DEF AdmitCases, byUser, byChannel, users, channels, next
<1>9. CASE Route(m).accepted /\ byUser.allowed
  <2> DEFINE verdict == IF byChannel.allowed THEN "admitted" ELSE "refused"
  <2>0. verdict \in Verdicts
    BY DEF Verdicts
  <2>1. next = [s EXCEPT !.users = users, !.channels = channels, !.out = Append(s.out, verdict)]
    BY <1>6, <1>9
  <2>2. next.out = Append(s.out, verdict) /\ next.users = users /\ next.channels = channels
    BY <1>1, <2>1
  <2>3. next \in Admitting(U, C)
    BY <1>1, <1>4, <1>5, <2>0, <2>1 DEF Admitting
  <2> QED
    BY <1>9, <2>2, <2>3 DEF AdmitCases, byUser, byChannel, users, channels, next
<1> QED
  BY <1>7, <1>8, <1>9

AdmissionsRun(p, U, C, messages, limits, window) ==
    /\ p \in [0..Len(messages) -> Admitting(U, C)]
    /\ p[0] = [users |-> [u \in U |-> <<>>], channels |-> [c \in C |-> <<>>], out |-> <<>>]
    /\ \A k \in 1..Len(messages) : p[k] = AdmitStep(p[k - 1], messages[k], limits, window)
    /\ AdmissionsEnd(U, C, messages, limits, window) = p[Len(messages)]

LEMMA AdmissionsFold ==
    ASSUME NEW U, NEW C, NEW M, NEW messages \in Seq(M), NEW limits \in [user : Int, channel : Int],
           NEW window \in Int, \A i \in 1..Len(messages) : Addressed(messages[i], U, C)
    PROVE  \E p : AdmissionsRun(p, U, C, messages, limits, window)
<1> DEFINE n == Len(messages)
           T == Admitting(U, C)
           base == [users |-> [u \in U |-> <<>>], channels |-> [c \in C |-> <<>>], out |-> <<>>]
           body(g) == [s \in SUBSET (1..n) |-> IF s = {} THEN base
                         ELSE AdmitStep(g[s \ {Max(s)}], messages[Max(s)], limits, window)]
           step == [k \in 1..n |-> [a \in T |-> AdmitStep(a, messages[k], limits, window)]]
           iter == CHOOSE g : g = body(g)
<1>1. n \in Nat /\ DOMAIN messages = 1..n
  OBVIOUS
<1>2. AdmissionsEnd(U, C, messages, limits, window) = iter[1..n]
  BY <1>1 DEF AdmissionsEnd, AdmitStep, FoldLeft, MapThenFoldSet
<1>3. base \in T /\ \A k \in 1..n, a \in T : AdmitStep(a, messages[k], limits, window) \in T
  <2>1. base \in T
    BY DEF Admitting
  <2>2. ASSUME NEW k \in 1..n, NEW a \in T
        PROVE  AdmitStep(a, messages[k], limits, window) \in T
    BY AdmitStepCases
  <2> QED
    BY <2>1, <2>2
<1>4. step \in Steps(n, T)
  BY <1>3 DEF Steps
<1> HIDE DEF n, T, base
<1>5. iter = body(iter)
  <2> HIDE DEF step, body
  <2>1. PICK g : g \in [SUBSET (1..n) -> T] /\ IsFold(g, n, T, base, step)
    BY <1>1, <1>3, <1>4, FoldExists
  <2>2. \A s \in SUBSET (1..n) : g[s] = body(g)[s]
    BY <2>1 DEF IsFold, step, body
  <2>3. g = body(g)
    BY <2>1, <2>2 DEF body
  <2> QED
    BY <2>3
<1> HIDE DEF iter
<1>6. Folds(iter, n, T, base, step)
  BY <1>5 DEF Folds
<1>7. PICK q : IsRun(q, n, T, base, step) /\ iter[1..n] = q[n]
  <2> HIDE DEF step
  <2> QED
    BY <1>1, <1>3, <1>4, <1>6, FoldRuns
<1>8. /\ q \in [0..n -> T] /\ q[0] = base
      /\ \A k \in 1..n : q[k] = AdmitStep(q[k - 1], messages[k], limits, window)
  BY <1>7 DEF IsRun
<1> QED
  BY <1>2, <1>7, <1>8 DEF n, T, base, AdmissionsRun

\* The messages a user's or a channel's events stand for, after k messages.
OfUser(messages, k, u) == {j \in 1..k : messages[j].user = u}
OfChannel(messages, k, c) == {j \in 1..k : messages[j].channel = c}
Worked(out, S) == {j \in S : out[j] = "admitted"}
Asked(out, S) == {j \in S : out[j] # "ignored"}

\* S is what the user's events stand for: all that was worked on, no more
\* than was asked.
Stands(events, S, out, own, time, bound) ==
    /\ S \subseteq Asked(out, own)
    /\ Worked(out, own) \subseteq S
    /\ Tracks(events, S, time, bound)

UserTracked(events, out, own, time, bound) ==
    \E S : Stands(events, S, out, own, time, bound)

\* What holds once k of n messages were judged.
Judged(s, U, C, messages, time, k, limits, window) ==
    /\ s \in Admitting(U, C)
    /\ Len(s.out) = k
    /\ k < Len(messages) =>
        /\ \A u \in U : UserTracked(s.users[u], s.out, OfUser(messages, k, u), time,
                                    Edge(time[k + 1], window))
        /\ \A c \in C : Tracks(s.channels[c], Worked(s.out, OfChannel(messages, k, c)), time,
                               Edge(time[k + 1], window))
    /\ \A i \in 1..k : /\ s.out[i] = "ignored" <=> ~Route(messages[i]).accepted
                       /\ JudgedFairly(messages, s.out, i, limits, window)

\* Whether a message was judged fairly depends on the verdicts up to it.
LEMMA JudgedAlike ==
    ASSUME NEW messages, NEW out, NEW more, NEW i \in Nat \ {0}, NEW limits, NEW window,
           \A j \in 1..i : more[j] = out[j], JudgedFairly(messages, out, i, limits, window)
    PROVE  JudgedFairly(messages, more, i, limits, window)
<1> DEFINE near == Before(messages, i, window)
<1>1. near \subseteq 1..i
  BY DEF Before
<1>2. more[i] = out[i]
  OBVIOUS
<1> HIDE DEF near
<1>3. \A j \in near : more[j] = out[j]
  BY <1>1
<1>4. {j \in near : more[j] = "admitted"} = {j \in near : out[j] = "admitted"}
  BY <1>3
<1>5. {j \in near : more[j] # "ignored"} = {j \in near : out[j] # "ignored"}
  BY <1>3
<1> QED
  BY <1>2, <1>4, <1>5 DEF JudgedFairly, near

LEMMA FewerOf ==
    ASSUME NEW k \in Nat, NEW S, NEW T \in SUBSET (1..k), S \subseteq T
    PROVE  Cardinality(S) \in Nat /\ Cardinality(T) \in Nat /\ Cardinality(S) <= Cardinality(T)
<1>1. IsFiniteSet(1..k)
  BY FS_Interval
<1>2. IsFiniteSet(T)
  BY <1>1, FS_Subset
<1>3. IsFiniteSet(S)
  BY <1>2, FS_Subset
<1>4. Cardinality(S) <= Cardinality(T)
  BY <1>2, FS_Subset
<1> QED
  BY <1>2, <1>3, <1>4, FS_CardinalityType

\* The verdict on message k + 1, from what the events stand for.
LEMMA VerdictIsFair ==
    ASSUME NEW n \in Nat, NEW messages, NEW time, NEW k \in 0..(n - 1), NEW out,
           \A j \in 1..n : time[j] = messages[j].time,
           NEW limits \in [user : Int, channel : Int], NEW window,
           NEW S,
           S \subseteq Asked(out, OfUser(messages, k, messages[k + 1].user)),
           Worked(out, OfUser(messages, k, messages[k + 1].user)) \subseteq S,
           NEW byUser, NEW byChannel,
           byUser <=> Cardinality(Live(S, time, Edge(time[k + 1], window))) < limits.user,
           byChannel <=>
             Cardinality(Live(Worked(out, OfChannel(messages, k, messages[k + 1].channel)), time,
                              Edge(time[k + 1], window))) < limits.channel,
           out[k + 1] = "admitted" => byUser /\ byChannel,
           out[k + 1] = "refused" => ~byUser \/ ~byChannel
    PROVE  JudgedFairly(messages, out, k + 1, limits, window)
<1> DEFINE i == k + 1
           near == Before(messages, i, window)
           admitted == {j \in near : out[j] = "admitted"}
           asked == {j \in near : out[j] # "ignored"}
           mine == Live(S, time, Edge(time[i], window))
           there == Live(Worked(out, OfChannel(messages, k, messages[i].channel)), time,
                         Edge(time[i], window))
<1>1. near = {j \in 1..k : time[j] > Edge(time[i], window)}
  BY DEF Before, Edge
<1>2. SameUser(admitted, messages, i) \subseteq mine
  BY <1>1 DEF SameUser, Worked, OfUser, Live, Edge
<1>3. mine \subseteq SameUser(asked, messages, i)
  BY <1>1 DEF SameUser, Asked, OfUser, Live, Edge
<1>4. SameChannel(admitted, messages, i) = there
  BY <1>1 DEF SameChannel, Worked, OfChannel, Live, Edge
<1>5. /\ mine \in SUBSET (1..k) /\ SameUser(asked, messages, i) \in SUBSET (1..k)
      /\ there \in SUBSET (1..k) /\ k \in Nat
  <2>1. S \subseteq 1..k
    BY DEF Asked, OfUser
  <2>2. mine \subseteq 1..k
    BY <2>1 DEF Live
  <2>3. SameUser(asked, messages, i) \subseteq 1..k
    BY <1>1 DEF SameUser
  <2>4. Worked(out, OfChannel(messages, k, messages[i].channel)) \subseteq 1..k
    BY DEF Worked, OfChannel
  <2>5. there \subseteq 1..k
    BY <2>4 DEF Live
  <2> QED
    BY <2>2, <2>3, <2>5
<1>6. limits.user \in Int /\ limits.channel \in Int
  OBVIOUS
<1>7. byUser <=> Cardinality(mine) < limits.user
  OBVIOUS
<1>8. byChannel <=> Cardinality(there) < limits.channel
  OBVIOUS
<1> HIDE DEF near, mine, there, i, admitted, asked
<1>9. /\ Cardinality(SameUser(admitted, messages, i)) \in Nat
      /\ Cardinality(mine) \in Nat
      /\ Cardinality(SameUser(admitted, messages, i)) <= Cardinality(mine)
  BY <1>2, <1>5, FewerOf
<1>10. /\ Cardinality(SameUser(asked, messages, i)) \in Nat
       /\ Cardinality(mine) <= Cardinality(SameUser(asked, messages, i))
  BY <1>3, <1>5, FewerOf
<1>11. Cardinality(there) \in Nat
  BY <1>5, FewerOf
<1>12. byUser => Cardinality(SameUser(admitted, messages, i)) < limits.user
  BY <1>6, <1>7, <1>9
<1>13. ~byUser => Cardinality(SameUser(asked, messages, i)) >= limits.user
  BY <1>6, <1>7, <1>9, <1>10
<1>14. ~byChannel => Cardinality(SameChannel(admitted, messages, i)) >= limits.channel
  BY <1>4, <1>6, <1>8, <1>11
<1>15. byChannel => Cardinality(SameChannel(admitted, messages, i)) < limits.channel
  BY <1>4, <1>8
<1>16. (out[i] = "admitted" => byUser /\ byChannel) /\ (out[i] = "refused" => ~byUser \/ ~byChannel)
  BY DEF i
<1>17. JudgedFairly(messages, out, i, limits, window)
  BY <1>12, <1>13, <1>14, <1>15, <1>16 DEF JudgedFairly, near, admitted, asked
<1> QED
  BY <1>17 DEF i

\* Append adds one entry and leaves the others alone.
LEMMA AppendedOne ==
    ASSUME NEW S, NEW q \in Seq(S), NEW v \in S, NEW k, Len(q) = k
    PROVE  /\ Len(Append(q, v)) = k + 1
           /\ \A j \in 1..k : Append(q, v)[j] = q[j]
           /\ Append(q, v)[k + 1] = v
  BY AppendProperties

\* One more message: the invariant of the fold is kept.
LEMMA JudgedStep ==
    ASSUME NEW U, NEW C, NEW M, NEW messages \in Seq(M), NEW time,
           \A j \in 1..Len(messages) : Addressed(messages[j], U, C),
           \A j \in 1..Len(messages) : time[j] = messages[j].time,
           Clock(time, Len(messages)),
           NEW limits \in [user : Int, channel : Int], NEW window \in Int,
           NEW k \in 0..(Len(messages) - 1), NEW s,
           Judged(s, U, C, messages, time, k, limits, window)
    PROVE  Judged(AdmitStep(s, messages[k + 1], limits, window), U, C, messages, time,
                  k + 1, limits, window)
<1> DEFINE n == Len(messages)
           m == messages[k + 1]
           t == time[k + 1]
           edge == Edge(t, window)
           byUser == Allow(s.users[m.user], limits.user, window, t)
           byChannel == Allow(s.channels[m.channel], limits.channel, window, t)
           users == [s.users EXCEPT ![m.user] = byUser.events]
           channels == [s.channels EXCEPT ![m.channel] = byChannel.events]
           next == AdmitStep(s, m, limits, window)
           C0 == Worked(s.out, OfChannel(messages, k, m.channel))
<1>1. /\ s \in Admitting(U, C)
      /\ Len(s.out) = k
      /\ k < Len(messages) =>
           /\ \A u \in U : UserTracked(s.users[u], s.out, OfUser(messages, k, u), time, Edge(time[k + 1], window))
           /\ \A c \in C : Tracks(s.channels[c], Worked(s.out, OfChannel(messages, k, c)), time, Edge(time[k + 1], window))
      /\ \A i \in 1..k : /\ s.out[i] = "ignored" <=> ~Route(messages[i]).accepted
                         /\ JudgedFairly(messages, s.out, i, limits, window)
  BY DEF Judged
<1>2. /\ n \in Nat /\ k \in Nat /\ k + 1 \in 1..n /\ k < n /\ k \in 0..(n - 1)
      /\ t \in Int /\ m.time = t /\ m.user \in U /\ m.channel \in C /\ Addressed(m, U, C)
      /\ limits.user \in Int /\ limits.channel \in Int
  <2>1. n \in Nat /\ k \in Nat /\ k + 1 \in 1..n /\ k < n /\ k \in 0..(n - 1)
    OBVIOUS
  <2> QED
    BY <2>1 DEF Addressed
<1>3. /\ s.users \in [U -> Seq(Int)] /\ s.channels \in [C -> Seq(Int)] /\ s.out \in Seq(Verdicts)
      /\ s.users[m.user] \in Seq(Int) /\ s.channels[m.channel] \in Seq(Int)
  BY <1>1, <1>2 DEF Admitting
<1> HIDE DEF n
<1>4. PICK S : Stands(s.users[m.user], S, s.out, OfUser(messages, k, m.user), time, edge)
  BY <1>1, <1>2 DEF UserTracked, n
<1>5. Tracks(s.channels[m.channel], C0, time, edge)
  BY <1>1, <1>2 DEF n
<1>6. S \in SUBSET (1..k) /\ C0 \in SUBSET (1..k)
  BY <1>4 DEF Stands, Asked, OfUser, Worked, OfChannel
<1>7. Tracks(s.users[m.user], S, time, edge) /\ Clock(time, n)
  BY <1>4 DEF Stands, n
<1> HIDE DEF m, t, edge, C0
<1>8. /\ byUser.allowed <=> Cardinality(Live(S, time, edge)) < limits.user
      /\ byUser.allowed \in BOOLEAN
      /\ Tracks(byUser.events, IF byUser.allowed THEN S \cup {k + 1} ELSE S, time, edge)
  BY <1>2, <1>3, <1>6, <1>7, AllowTracks, ZenonT(60) DEF t, edge
<1>9. /\ byChannel.allowed <=> Cardinality(Live(C0, time, edge)) < limits.channel
      /\ byChannel.allowed \in BOOLEAN
      /\ Tracks(byChannel.events, IF byChannel.allowed THEN C0 \cup {k + 1} ELSE C0, time, edge)
  BY <1>2, <1>3, <1>5, <1>6, <1>7, AllowTracks, ZenonT(60) DEF t, edge
<1> HIDE DEF byUser, byChannel
<1>10. /\ next \in Admitting(U, C)
       /\ \/ /\ ~Route(m).accepted
             /\ next.out = Append(s.out, "ignored")
             /\ next.users = s.users /\ next.channels = s.channels
          \/ /\ Route(m).accepted /\ ~byUser.allowed
             /\ next.out = Append(s.out, "refused")
             /\ next.users = users /\ next.channels = s.channels
          \/ /\ Route(m).accepted /\ byUser.allowed /\ ~byChannel.allowed
             /\ next.out = Append(s.out, "refused")
             /\ next.users = users /\ next.channels = channels
          \/ /\ Route(m).accepted /\ byUser.allowed /\ byChannel.allowed
             /\ next.out = Append(s.out, "admitted")
             /\ next.users = users /\ next.channels = channels
  <2>1. /\ next \in Admitting(U, C)
        /\ AdmitCases(s, next, Route(m).accepted,
             [s.users EXCEPT ![m.user] = Allow(s.users[m.user], limits.user, window, m.time).events],
             [s.channels EXCEPT ![m.channel] =
                Allow(s.channels[m.channel], limits.channel, window, m.time).events],
             Allow(s.users[m.user], limits.user, window, m.time).allowed,
             Allow(s.channels[m.channel], limits.channel, window, m.time).allowed)
    BY <1>1, <1>2, AdmitStepCases
  <2>2. m.time = t
    BY <1>2
  <2>3. AdmitCases(s, next, Route(m).accepted, users, channels, byUser.allowed, byChannel.allowed)
    BY <2>1, <2>2 DEF byUser, byChannel
  <2> HIDE DEF next, users, channels
  <2> QED
    BY <2>1, <2>3, SMTT(30) DEF AdmitCases
<1> DEFINE verdict == next.out[k + 1]
<1> HIDE DEF next, users, channels
<1>11. /\ Len(next.out) = k + 1
       /\ \A j \in 1..k : next.out[j] = s.out[j]
       /\ verdict = "ignored" <=> ~Route(m).accepted
       /\ verdict = "admitted" <=> Route(m).accepted /\ byUser.allowed /\ byChannel.allowed
       /\ verdict = "refused" <=> Route(m).accepted /\ ~(byUser.allowed /\ byChannel.allowed)
  <2>1. \A v \in Verdicts : /\ Len(Append(s.out, v)) = k + 1
                            /\ \A j \in 1..k : Append(s.out, v)[j] = s.out[j]
                            /\ Append(s.out, v)[k + 1] = v
    <3> SUFFICES ASSUME NEW v \in Verdicts
                 PROVE  /\ Len(Append(s.out, v)) = k + 1
                        /\ \A j \in 1..k : Append(s.out, v)[j] = s.out[j]
                        /\ Append(s.out, v)[k + 1] = v
      OBVIOUS
    <3>1. s.out \in Seq(Verdicts) /\ Len(s.out) = k
      BY <1>1, <1>3
    <3> QED
      BY <3>1, AppendedOne
  <2>2. "ignored" \in Verdicts /\ "refused" \in Verdicts /\ "admitted" \in Verdicts
    BY DEF Verdicts
  <2>3. ASSUME NEW v \in Verdicts, next.out = Append(s.out, v)
        PROVE  Len(next.out) = k + 1 /\ (\A j \in 1..k : next.out[j] = s.out[j]) /\ verdict = v
    BY <2>1, <2>3, SMTT(30)
  <2> HIDE DEF verdict
  <2>4. CASE ~Route(m).accepted /\ next.out = Append(s.out, "ignored")
    BY <2>2, <2>3, <2>4
  <2>5. CASE /\ Route(m).accepted /\ ~(byUser.allowed /\ byChannel.allowed)
             /\ next.out = Append(s.out, "refused")
    BY <2>2, <2>3, <2>5
  <2>6. CASE /\ Route(m).accepted /\ byUser.allowed /\ byChannel.allowed
             /\ next.out = Append(s.out, "admitted")
    BY <2>2, <2>3, <2>6
  <2> QED
    BY <1>10, <2>4, <2>5, <2>6
<1> DEFINE more == next.out
<1> HIDE DEF verdict
<1>12. ASSUME NEW i \in 1..(k + 1)
       PROVE  /\ more[i] = "ignored" <=> ~Route(messages[i]).accepted
              /\ JudgedFairly(messages, more, i, limits, window)
  <2>1. CASE i \in 1..k
    <3>1. \A j \in 1..i : more[j] = s.out[j]
      BY <1>2, <1>11, <2>1, SMTT(30)
    <3>2. i \in Nat \ {0} /\ i \in 1..i
      BY <1>2
    <3>3. JudgedFairly(messages, s.out, i, limits, window)
      BY <1>1, <2>1
    <3> HIDE DEF more
    <3>4. JudgedFairly(messages, more, i, limits, window)
      BY <3>1, <3>2, <3>3, JudgedAlike
    <3> QED
      BY <1>1, <2>1, <3>1, <3>2, <3>4
  <2>2. CASE i = k + 1
    <3>1. Asked(s.out, OfUser(messages, k, m.user)) = Asked(more, OfUser(messages, k, m.user))
      BY <1>11 DEF Asked, OfUser
    <3>2. Worked(s.out, OfUser(messages, k, m.user)) = Worked(more, OfUser(messages, k, m.user))
      BY <1>11 DEF Worked, OfUser
    <3>3. C0 = Worked(more, OfChannel(messages, k, m.channel))
      BY <1>11 DEF Worked, OfChannel, C0
    <3>4. /\ S \subseteq Asked(more, OfUser(messages, k, m.user))
          /\ Worked(more, OfUser(messages, k, m.user)) \subseteq S
      BY <1>4, <3>1, <3>2 DEF Stands
    <3>5. /\ more[k + 1] = "admitted" => byUser.allowed /\ byChannel.allowed
          /\ more[k + 1] = "refused" => ~byUser.allowed \/ ~byChannel.allowed
          /\ more[k + 1] = "ignored" <=> ~Route(m).accepted
      BY <1>11 DEF verdict
    <3>6. \A j \in 1..n : time[j] = messages[j].time
      BY DEF n
    <3>7. JudgedFairly(messages, more, k + 1, limits, window)
      <4> HIDE DEF more
      <4> QED
        BY <1>2, <1>8, <1>9, <3>3, <3>4, <3>5, <3>6, VerdictIsFair, ZenonT(60) DEF m, t, edge
    <3> QED
      BY <2>2, <3>5, <3>7 DEF m
  <2>3. i \in 1..k \/ i = k + 1
    BY <1>2
  <2> QED
    BY <2>1, <2>2, <2>3
<1>13. ASSUME k + 1 < n
       PROVE  /\ \A u \in U : UserTracked(next.users[u], more, OfUser(messages, k + 1, u), time,
                                          Edge(time[k + 1 + 1], window))
              /\ \A c \in C : Tracks(next.channels[c], Worked(more, OfChannel(messages, k + 1, c)),
                                     time, Edge(time[k + 1 + 1], window))
  <2> DEFINE later == Edge(time[k + 1 + 1], window)
  <2>1. \A j \in 1..n : time[j] \in Int /\ time[j] > later => time[j] > edge
    <3>1. k + 1 \in 1..n /\ k + 1 + 1 \in 1..n /\ k + 1 <= k + 1 + 1
      BY <1>2, <1>13, SMTT(30)
    <3>2. time[k + 1] <= time[k + 1 + 1] /\ time[k + 1] \in Int /\ time[k + 1 + 1] \in Int
      BY <1>7, <3>1 DEF Clock
    <3>3. edge <= later /\ edge \in Int /\ later \in Int
      BY <3>2, SMTT(30) DEF edge, t, Edge
    <3> HIDE DEF later
    <3> QED
      BY <3>3
  <2>2. \A j \in 1..n : time[j] \in Int
    BY <1>7 DEF Clock
  <2>3. \A j \in 1..k : j \in 1..n
    BY <1>2
  <2>4. \A T \in SUBSET (1..(k + 1)) : \A j \in T : time[j] > later => time[j] > edge
    BY <1>2, <2>1, <2>2
  <2>5. next.users \in [U -> Seq(Int)] /\ next.channels \in [C -> Seq(Int)]
    BY <1>10 DEF Admitting
  <2>6. \A j \in 1..(k + 1) : j \in 1..k \/ j = k + 1
    BY <1>2
  <2>7. \A j \in 1..k : j \in 1..(k + 1) /\ j # k + 1
    BY <1>2
  <2>a. k + 1 \in 1..(k + 1)
    BY <1>2
  <2>8. ASSUME NEW u \in U
        PROVE  UserTracked(next.users[u], more, OfUser(messages, k + 1, u), time, later)
    <3>0. next.users[u] \in Seq(Int)
      BY <2>5
    <3>1. CASE u = m.user
      <4> DEFINE T == IF Route(m).accepted /\ byUser.allowed THEN S \cup {k + 1} ELSE S
      <4>1. T \subseteq Asked(more, OfUser(messages, k + 1, u))
        BY <1>4, <1>11, <2>a, <2>7, <3>1 DEF Stands, Asked, OfUser, verdict, m
      <4>2. Worked(more, OfUser(messages, k + 1, u)) \subseteq T
        BY <1>4, <1>11, <2>6, <3>1 DEF Worked, OfUser, Stands, verdict
      <4>3. Tracks(next.users[u], T, time, edge)
        <5>1. CASE ~Route(m).accepted
          BY <1>7, <1>10, <3>1, <5>1
        <5>2. CASE Route(m).accepted
          BY <1>2, <1>3, <1>8, <1>10, <3>1, <5>2 DEF users
        <5> QED
          BY <5>1, <5>2
      <4>4. T \in SUBSET (1..(k + 1))
        BY <1>6, <2>7, <2>a
      <4> HIDE DEF T, more
      <4>5. Tracks(next.users[u], T, time, later)
        BY <2>4, <3>0, <4>3, <4>4, TracksLater
      <4>6. Stands(next.users[u], T, more, OfUser(messages, k + 1, u), time, later)
        BY <4>1, <4>2, <4>5 DEF Stands
      <4> QED
        BY <4>6 DEF UserTracked
    <3>2. CASE u # m.user
      <4>1. next.users[u] = s.users[u]
        BY <1>3, <1>10, <3>2 DEF users
      <4>2. PICK T : Stands(s.users[u], T, s.out, OfUser(messages, k, u), time, edge)
        BY <1>1, <1>2 DEF UserTracked, n, edge, t
      <4>3. OfUser(messages, k + 1, u) = OfUser(messages, k, u)
        BY <2>6, <2>7, <3>2 DEF OfUser, m
      <4>4. Asked(more, OfUser(messages, k, u)) = Asked(s.out, OfUser(messages, k, u))
        BY <1>11 DEF Asked, OfUser
      <4>5. Worked(more, OfUser(messages, k, u)) = Worked(s.out, OfUser(messages, k, u))
        BY <1>11 DEF Worked, OfUser
      <4>6. T \in SUBSET (1..(k + 1))
        BY <2>7, <4>2 DEF Stands, Asked, OfUser
      <4> HIDE DEF more
      <4>7. Tracks(next.users[u], T, time, later)
        <5>1. \A j \in T : time[j] > later => time[j] > edge
          BY <2>4, <4>6
        <5>2. Tracks(next.users[u], T, time, edge)
          BY <4>1, <4>2 DEF Stands
        <5> HIDE DEF later
        <5> QED
          BY <3>0, <5>1, <5>2, TracksLater
      <4>8. Stands(next.users[u], T, more, OfUser(messages, k + 1, u), time, later)
        BY <4>2, <4>3, <4>4, <4>5, <4>7 DEF Stands
      <4> QED
        BY <4>8 DEF UserTracked
    <3> QED
      BY <3>1, <3>2
  <2>9. ASSUME NEW c \in C
        PROVE  Tracks(next.channels[c], Worked(more, OfChannel(messages, k + 1, c)), time, later)
    <3> DEFINE T == Worked(more, OfChannel(messages, k + 1, c))
    <3>0. next.channels[c] \in Seq(Int)
      BY <2>5
    <3>1. T \in SUBSET (1..(k + 1))
      BY DEF Worked, OfChannel
    <3>2. Tracks(next.channels[c], T, time, edge)
      <4>1. CASE c = m.channel
        <5>1. T = IF verdict = "admitted" THEN C0 \cup {k + 1} ELSE C0
          <6>1. \A j \in 1..k : j \in T <=> j \in C0
            BY <1>11, <2>7, <4>1 DEF C0, Worked, OfChannel
          <6>2. k + 1 \in T <=> verdict = "admitted"
            BY <2>a, <4>1 DEF Worked, OfChannel, verdict, m
          <6>3. k + 1 \notin C0
            BY <1>2, <1>6
          <6> HIDE DEF T
          <6>4. \A j \in C0 : j \in 1..k
            BY <1>6
          <6>5. \A j : j \in T <=> j \in C0 \/ (j = k + 1 /\ verdict = "admitted")
            BY <2>6, <3>1, <6>1, <6>2, <6>4
          <6>6. CASE verdict = "admitted"
            BY <6>5, <6>6
          <6>7. CASE verdict # "admitted"
            BY <6>5, <6>7
          <6> QED
            BY <6>6, <6>7
        <5> HIDE DEF T
        <5>2. CASE ~(Route(m).accepted /\ byUser.allowed)
          BY <1>5, <1>10, <1>11, <4>1, <5>1, <5>2
        <5>3. CASE Route(m).accepted /\ byUser.allowed
          <6>0. next.channels = channels
            BY <1>10, <5>3
          <6>1. next.channels[c] = byChannel.events
            BY <1>2, <1>3, <4>1, <6>0 DEF channels
          <6> QED
            BY <1>9, <1>11, <5>1, <5>3, <6>1
        <5> QED
          BY <5>2, <5>3
      <4>2. CASE c # m.channel
        <5>1. next.channels[c] = s.channels[c]
          BY <1>3, <1>10, <4>2 DEF channels
        <5>2. OfChannel(messages, k + 1, c) = OfChannel(messages, k, c)
          BY <2>6, <2>7, <4>2 DEF OfChannel, m
        <5>3. T = Worked(s.out, OfChannel(messages, k, c))
          BY <1>11, <5>2 DEF Worked, OfChannel
        <5> HIDE DEF T
        <5> QED
          BY <1>1, <1>2, <5>1, <5>3 DEF n, edge, t
      <4> QED
        BY <4>1, <4>2
    <3> HIDE DEF T
    <3>3. \A j \in T : time[j] > later => time[j] > edge
      BY <2>4, <3>1
    <3>4. Tracks(next.channels[c], T, time, later)
      BY <3>0, <3>2, <3>3, TracksLater
    <3> QED
      BY <3>4 DEF T
  <2> QED
    BY <2>8, <2>9
<1>14. Judged(next, U, C, messages, time, k + 1, limits, window)
  BY <1>10, <1>11, <1>12, <1>13 DEF Judged, n
<1> QED
  BY <1>14 DEF next, m

\* What the limits and the policy promise of the verdicts on the messages.
FairVerdicts(messages, out, limits, window) ==
    /\ Len(out) = Len(messages)
    /\ \A i \in 1..Len(messages) :
         /\ out[i] = "ignored" <=> ~Route(messages[i]).accepted
         /\ JudgedFairly(messages, out, i, limits, window)

\* Whatever messages arrive, in the order of their times: each is worked on,
\* refused or ignored as the limits and the policy say (Admissions, that is
\* on_message with SlidingWindowLimiter.allow and the policy's route).
THEOREM AdmissionsJudgeFairly ==
    ASSUME NEW M, NEW messages \in Seq(M), NEW time,
           \A j \in 1..Len(messages) : time[j] = messages[j].time,
           Clock(time, Len(messages)),
           NEW limits \in [user : Int, channel : Int], NEW window \in Int
    PROVE  FairVerdicts(messages, Admissions(messages, limits.user, limits.channel, window),
                        limits, window)
<1> DEFINE n == Len(messages)
           U == {messages[i].user : i \in DOMAIN messages}
           C == {messages[i].channel : i \in DOMAIN messages}
           out == Admissions(messages, limits.user, limits.channel, window)
           end == AdmissionsEnd(U, C, messages, limits, window)
           start == [users |-> [u \in U |-> <<>>], channels |-> [c \in C |-> <<>>], out |-> <<>>]
<1>1. /\ n \in Nat /\ DOMAIN messages = 1..n
      /\ \A i \in 1..n : messages[i] \in M
  OBVIOUS
<1>2. \A i \in 1..Len(messages) : Addressed(messages[i], U, C)
  BY <1>1 DEF Clock, Addressed
<1>3. out = end.out
  BY DEF Admissions, AdmissionsEnd, AdmitStep
<1> HIDE DEF U, C, out, end
<1>a. PICK p : AdmissionsRun(p, U, C, messages, limits, window)
  BY <1>2, AdmissionsFold
<1>4. /\ p \in [0..n -> Admitting(U, C)]
      /\ p[0] = start
      /\ \A k \in 1..n : p[k] = AdmitStep(p[k - 1], messages[k], limits, window)
      /\ end = p[n]
  BY <1>a DEF AdmissionsRun, end
<1> DEFINE P == {k \in 0..n : Judged(p[k], U, C, messages, time, k, limits, window)}
<1>5. 0 \in P
  <2>1. p[0] = start /\ start \in Admitting(U, C) /\ 0 \in 0..n
    BY <1>1, <1>4, SMTT(30)
  <2>2. p[0].out = <<>> /\ Len(p[0].out) = 0
    BY <2>1
  <2>3. \A u \in U : p[0].users[u] = <<>>
    BY <2>1
  <2>4. \A c \in C : p[0].channels[c] = <<>>
    BY <2>1
  <2>5. \A b : Tracks(<<>>, {}, time, b)
    <3> SUFFICES ASSUME NEW b
                 PROVE  Tracks(<<>>, {}, time, b)
      OBVIOUS
    <3>1. Len(<<>>) = 0 /\ 1..0 = {}
      OBVIOUS
    <3> DEFINE f == [a \in {} |-> a]
    <3>2. f \in [1..Len(<<>>) -> {}]
      BY <3>1
    <3> HIDE DEF f
    <3>3. IsTrack(f, <<>>, {}, time, b)
      BY <3>1, <3>2 DEF IsTrack
    <3> QED
      BY <3>3 DEF Tracks
  <2>6. /\ \A u \in U : OfUser(messages, 0, u) = {}
        /\ \A c \in C : OfChannel(messages, 0, c) = {}
    BY DEF OfUser, OfChannel
  <2>7. \A o : Asked(o, {}) = {} /\ Worked(o, {}) = {}
    BY DEF Asked, Worked
  <2>8. \A u \in U : UserTracked(p[0].users[u], p[0].out, OfUser(messages, 0, u), time,
                                 Edge(time[0 + 1], window))
    BY <2>3, <2>5, <2>6, <2>7 DEF Stands, UserTracked
  <2>9. \A c \in C : Tracks(p[0].channels[c], Worked(p[0].out, OfChannel(messages, 0, c)), time,
                            Edge(time[0 + 1], window))
    BY <2>4, <2>5, <2>6, <2>7
  <2>10. \A i \in 1..0 : FALSE
    OBVIOUS
  <2>11. p[0] \in Admitting(U, C)
    BY <1>1, <1>4, SMTT(30)
  <2>12. Judged(p[0], U, C, messages, time, 0, limits, window)
    BY <2>2, <2>8, <2>9, <2>10, <2>11 DEF Judged
  <2> QED
    BY <1>1, <2>12
<1>6. ASSUME NEW k \in 0..(n - 1), k \in P
      PROVE  k + 1 \in P
  <2>1. k + 1 \in 1..n /\ k + 1 \in 0..n /\ (k + 1) - 1 = k /\ k \in 0..(Len(messages) - 1)
    BY <1>1
  <2>2. p[k + 1] = AdmitStep(p[k], messages[k + 1], limits, window)
    BY <1>4, <2>1
  <2>3. Judged(p[k], U, C, messages, time, k, limits, window)
    BY <1>6
  <2>4. Judged(p[k + 1], U, C, messages, time, k + 1, limits, window)
    BY <1>2, <2>1, <2>2, <2>3, JudgedStep
  <2> QED
    BY <2>1, <2>4
<1> HIDE DEF P
<1>7. \A k \in 0..n : k \in P
  BY <1>1, <1>5, <1>6, CountInduction
<1>8. Judged(p[n], U, C, messages, time, n, limits, window)
  BY <1>1, <1>7 DEF P
<1> QED
  BY <1>3, <1>4, <1>8 DEF Judged, out, FairVerdicts

-----------------------------------------------------------------------------
(* What the runs' messages come to.                                        *)

SumRun(p, numbers) ==
    /\ p \in [0..Len(numbers) -> Int]
    /\ p[0] = 0
    /\ \A k \in 1..Len(numbers) : p[k] = p[k - 1] + numbers[k]
    /\ SumOf(numbers) = p[Len(numbers)]

LEMMA SumFold ==
    ASSUME NEW numbers \in Seq(Int)
    PROVE  \E p : SumRun(p, numbers)
<1> DEFINE n == Len(numbers)
           T == Int
           base == 0
           body(g) == [s \in SUBSET (1..n) |-> IF s = {} THEN base
                         ELSE g[s \ {Max(s)}] + numbers[Max(s)]]
           step == [k \in 1..n |-> [a \in T |-> a + numbers[k]]]
           iter == CHOOSE g : g = body(g)
<1>1. n \in Nat /\ DOMAIN numbers = 1..n
  OBVIOUS
<1>2. SumOf(numbers) = iter[1..n]
  BY <1>1 DEF SumOf, FoldLeft, MapThenFoldSet
<1>3. base \in T /\ \A k \in 1..n, a \in T : a + numbers[k] \in T
  OBVIOUS
<1>4. step \in Steps(n, T)
  BY <1>3 DEF Steps
<1> HIDE DEF n, T, base
<1>5. iter = body(iter)
  <2> HIDE DEF step, body
  <2>1. PICK g : g \in [SUBSET (1..n) -> T] /\ IsFold(g, n, T, base, step)
    BY <1>1, <1>3, <1>4, FoldExists
  <2>2. \A s \in SUBSET (1..n) : g[s] = body(g)[s]
    BY <2>1 DEF IsFold, step, body
  <2>3. g = body(g)
    BY <2>1, <2>2 DEF body
  <2> QED
    BY <2>3
<1> HIDE DEF iter
<1>6. Folds(iter, n, T, base, step)
  BY <1>5 DEF Folds
<1>7. PICK q : IsRun(q, n, T, base, step) /\ iter[1..n] = q[n]
  <2> HIDE DEF step
  <2> QED
    BY <1>1, <1>3, <1>4, <1>6, FoldRuns
<1>8. /\ q \in [0..n -> T] /\ q[0] = base
      /\ \A k \in 1..n : q[k] = q[k - 1] + numbers[k]
  BY <1>7 DEF IsRun
<1> QED
  BY <1>2, <1>7, <1>8 DEF n, T, base, SumRun

LEMMA SumOfOne ==
    ASSUME NEW numbers \in Seq(Int), Len(numbers) = 1
    PROVE  SumOf(numbers) = numbers[1]
<1>1. PICK p : SumRun(p, numbers)
  BY SumFold
<1>2. p[0] = 0 /\ p[1] = p[1 - 1] + numbers[1] /\ 1 - 1 = 0 /\ numbers[1] \in Int
  BY <1>1 DEF SumRun
<1> QED
  BY <1>1, <1>2 DEF SumRun

\* One number more.
LEMMA SumOfMore ==
    ASSUME NEW numbers \in Seq(Int), NEW more \in Seq(Int), Len(more) = Len(numbers) + 1,
           \A i \in 1..Len(numbers) : more[i] = numbers[i]
    PROVE  SumOf(more) = SumOf(numbers) + more[Len(more)]
<1> DEFINE k == Len(numbers)
<1>0. k \in Nat
  OBVIOUS
<1>1. PICK p : SumRun(p, numbers)
  BY SumFold
<1>2. PICK q : SumRun(q, more)
  BY SumFold
<1>3. /\ p[0] = 0 /\ SumOf(numbers) = p[k]
      /\ \A i \in 1..k : p[i] = p[i - 1] + numbers[i]
  BY <1>1 DEF SumRun, k
<1>4. /\ q[0] = 0 /\ SumOf(more) = q[k + 1]
      /\ \A i \in 1..(k + 1) : q[i] = q[i - 1] + more[i]
  BY <1>2 DEF SumRun
<1>a. Len(more) = k + 1 /\ \A i \in 1..k : more[i] = numbers[i]
  OBVIOUS
<1> DEFINE P == {i \in 0..k : q[i] = p[i]}
<1> HIDE DEF k
<1>5. 0 \in P
  BY <1>0, <1>3, <1>4 DEF P
<1>6. ASSUME NEW i \in 0..(k - 1), i \in P
      PROVE  i + 1 \in P
  BY <1>0, <1>a, <1>3, <1>4, <1>6
<1> HIDE DEF P
<1>7. \A i \in 0..k : i \in P
  BY <1>0, <1>5, <1>6, CountInduction
<1>8. q[k] = p[k]
  BY <1>0, <1>7 DEF P
<1>9. k + 1 \in 1..(k + 1) /\ (k + 1) - 1 = k
  BY <1>0
<1> QED
  BY <1>3, <1>4, <1>8, <1>9, <1>a

\* What the options of a text were read to so far.
Readings ==
    [expect : {"option", "mode", "run", "resumed", "question", "stop"}, mode : Modes,
     rag : BOOLEAN, agent : BOOLEAN, resume : BOOLEAN,
     question : Seq(Options \cup Words \cup Modes)]

LEMMA UnreadType == Unread \in Readings
BY DEF Unread, Readings, Modes

LEMMA ReadType ==
    ASSUME NEW s \in Readings, NEW token \in Options \cup Words \cup Modes
    PROVE  Read(s, token) \in Readings
<1>1. /\ Append(s.question, token) \in Seq(Options \cup Words \cup Modes)
      /\ s.question \in Seq(Options \cup Words \cup Modes)
  BY DEF Readings
<1> DEFINE more == Append(s.question, token)
<1>2. Read(s, token) =
        CASE s.expect = "option" /\ token = "--no-rag" ->
                [s EXCEPT !.rag = FALSE, !.mode = "bypass"]
          [] s.expect = "option" /\ token = "--rag-mode" -> [s EXCEPT !.expect = "mode"]
          [] s.expect = "option" /\ token = "--agent" -> [s EXCEPT !.agent = TRUE]
          [] s.expect = "option" /\ token = "--agent-resume" -> [s EXCEPT !.expect = "run"]
          [] s.expect = "mode" /\ token \in Modes ->
                [s EXCEPT !.expect = "option", !.mode = token, !.rag = token # "bypass"]
          [] s.expect = "run" /\ token = "run-id" ->
                [s EXCEPT !.expect = "resumed", !.agent = TRUE, !.resume = TRUE]
          [] \/ s.expect = "mode" /\ token \notin Modes
             \/ s.expect = "run" /\ token # "run-id" -> [s EXCEPT !.expect = "stop"]
          [] s.expect = "stop" -> s
          [] OTHER -> [s EXCEPT !.expect = "question", !.question = more]
  BY DEF Read
<1> HIDE DEF more
<1>3. more \in Seq(Options \cup Words \cup Modes)
  BY <1>1 DEF more
<1>4. "bypass" \in Modes
  BY DEF Modes
<1>5. /\ [s EXCEPT !.rag = FALSE, !.mode = "bypass"] \in Readings
      /\ [s EXCEPT !.expect = "mode"] \in Readings
      /\ [s EXCEPT !.agent = TRUE] \in Readings
      /\ [s EXCEPT !.expect = "run"] \in Readings
      /\ [s EXCEPT !.expect = "resumed", !.agent = TRUE, !.resume = TRUE] \in Readings
      /\ [s EXCEPT !.expect = "stop"] \in Readings
      /\ [s EXCEPT !.expect = "question", !.question = more] \in Readings
  BY <1>3, <1>4 DEF Readings
<1>6. token \in Modes =>
        [s EXCEPT !.expect = "option", !.mode = token, !.rag = token # "bypass"] \in Readings
  BY DEF Readings
<1> QED
  BY <1>2, <1>5, <1>6

ReadRun(p, tokens) ==
    /\ p \in [0..Len(tokens) -> Readings]
    /\ p[0] = Unread
    /\ \A k \in 1..Len(tokens) : p[k] = Read(p[k - 1], tokens[k])
    /\ FoldLeft(Read, Unread, tokens) = p[Len(tokens)]

LEMMA ReadFold ==
    ASSUME NEW tokens \in Seq(Options \cup Words \cup Modes)
    PROVE  \E p : ReadRun(p, tokens)
<1> DEFINE n == Len(tokens)
           T == Readings
           base == Unread
           body(g) == [s \in SUBSET (1..n) |-> IF s = {} THEN base
                         ELSE Read(g[s \ {Max(s)}], tokens[Max(s)])]
           step == [k \in 1..n |-> [a \in T |-> Read(a, tokens[k])]]
           iter == CHOOSE g : g = body(g)
<1>1. n \in Nat /\ DOMAIN tokens = 1..n
  OBVIOUS
<1>2. FoldLeft(Read, Unread, tokens) = iter[1..n]
  BY <1>1 DEF FoldLeft, MapThenFoldSet
<1>3. base \in T /\ \A k \in 1..n, a \in T : Read(a, tokens[k]) \in T
  BY UnreadType, ReadType
<1>4. step \in Steps(n, T)
  BY <1>3 DEF Steps
<1> HIDE DEF n, T, base
<1>5. iter = body(iter)
  <2> HIDE DEF step, body
  <2>1. PICK g : g \in [SUBSET (1..n) -> T] /\ IsFold(g, n, T, base, step)
    BY <1>1, <1>3, <1>4, FoldExists
  <2>2. \A s \in SUBSET (1..n) : g[s] = body(g)[s]
    BY <2>1 DEF IsFold, step, body
  <2>3. g = body(g)
    BY <2>1, <2>2 DEF body
  <2> QED
    BY <2>3
<1> HIDE DEF iter
<1>6. Folds(iter, n, T, base, step)
  BY <1>5 DEF Folds
<1>7. PICK q : IsRun(q, n, T, base, step) /\ iter[1..n] = q[n]
  <2> HIDE DEF step
  <2> QED
    BY <1>1, <1>3, <1>4, <1>6, FoldRuns
<1>8. /\ q \in [0..n -> T] /\ q[0] = base
      /\ \A k \in 1..n : q[k] = Read(q[k - 1], tokens[k])
  BY <1>7 DEF IsRun
<1> QED
  BY <1>2, <1>7, <1>8 DEF n, T, base, ReadRun

\* The two texts of the runs' messages: an option without its value is
\* refused, a question for the agent is accepted.
LEMMA TextsRouted ==
    ASSUME NEW m, m.human, m.allowed, m.mention
    PROVE  /\ m.tokens = <<"--rag-mode">> => ~Route(m).accepted
           /\ m.tokens = <<"--agent", "word">> => Route(m).accepted
<1> DEFINE end == FoldLeft(Read, Unread, m.tokens)
<1>1. Route(m) =
        IF /\ m.human /\ m.allowed /\ m.mention
           /\ end.expect \in {"question", "resumed"}
           /\ ~Contains(end.question, "unsafe")
        THEN [accepted |-> TRUE, mode |-> end.mode, rag |-> end.rag,
              agent |-> end.agent, resume |-> end.resume]
        ELSE [accepted |-> FALSE]
  BY DEF Route, Refused
<1> HIDE DEF end
<1>2. Route(m).accepted <=>
        /\ end.expect \in {"question", "resumed"}
        /\ ~Contains(end.question, "unsafe")
  BY <1>1
<1> DEFINE tokens == m.tokens
<1>3. ASSUME tokens = <<"--rag-mode">>
      PROVE  ~Route(m).accepted
  <2>1. tokens \in Seq(Options \cup Words \cup Modes) /\ Len(tokens) = 1 /\ tokens[1] = "--rag-mode"
    BY <1>3 DEF Options
  <2> HIDE DEF tokens
  <2>2. PICK p : ReadRun(p, tokens)
    BY <2>1, ReadFold
  <2>3. end = p[1] /\ p[1] = Read(p[1 - 1], tokens[1]) /\ p[0] = Unread /\ 1 - 1 = 0
    BY <2>1, <2>2 DEF ReadRun, end, tokens
  <2>4. end = [Unread EXCEPT !.expect = "mode"]
    BY <2>1, <2>3 DEF Read, Unread
  <2>5. end.expect = "mode"
    BY <2>4 DEF Unread
  <2> QED
    BY <1>2, <2>5
<1>4. ASSUME tokens = <<"--agent", "word">>
      PROVE  Route(m).accepted
  <2>1. /\ tokens \in Seq(Options \cup Words \cup Modes) /\ Len(tokens) = 2
        /\ tokens[1] = "--agent" /\ tokens[2] = "word"
    BY <1>4 DEF Options, Words
  <2> HIDE DEF tokens
  <2>2. PICK p : ReadRun(p, tokens)
    BY <2>1, ReadFold
  <2>3. /\ end = p[2] /\ p[2] = Read(p[2 - 1], tokens[2]) /\ p[1] = Read(p[1 - 1], tokens[1])
        /\ p[0] = Unread /\ 1 - 1 = 0 /\ 2 - 1 = 1
    BY <2>1, <2>2 DEF ReadRun, end, tokens
  <2>4. Unread.expect = "option" /\ Unread.question = <<>> /\ Unread \in Readings
    BY UnreadType DEF Unread
  <2>a. Read(Unread, "--agent") = [Unread EXCEPT !.agent = TRUE]
    BY <2>4 DEF Read
  <2> DEFINE q == p[1]
  <2>5. q = [Unread EXCEPT !.agent = TRUE]
    BY <2>1, <2>3, <2>a
  <2>b. q.expect = "option" /\ q.question = <<>> /\ q \in Readings
    BY <2>4, <2>5, ZenonT(60) DEF Readings
  <2>c. Read(q, "word") = [q EXCEPT !.expect = "question", !.question = Append(q.question, "word")]
    BY <2>b DEF Read
  <2>6. end = [q EXCEPT !.expect = "question", !.question = Append(<<>>, "word")]
    BY <2>1, <2>3, <2>b, <2>c, ZenonT(60)
  <2> HIDE DEF q
  <2>7. end.expect = "question" /\ end.question = Append(<<>>, "word")
    BY <2>b, <2>6 DEF Readings
  <2>8. Append(<<>>, "word") = <<"word">>
    OBVIOUS
  <2>9. ~Contains(end.question, "unsafe")
    BY <2>7, <2>8 DEF Contains
  <2> QED
    BY <1>2, <2>7, <2>9
<1> QED
  BY <1>3, <1>4

\* Each action computes its own step and no other.
LEMMA StepsApart ==
    /\ Init => call.step = "due"
    /\ Search => call'.step = "search"
    /\ Link => call'.step = "link"
    /\ Ask => call'.step = "ask"
    /\ Index => call'.step = "index"
    /\ Admit => call'.step = "admit"
    /\ Reply => call'.step = "reply"
    /\ Return => call'.step = "due"
<1>1. Init => call.step = "due"
  BY DEF Init, Requests, Due
<1>2. Search => call'.step = "search"
  BY DEF Search
<1>3. Link => call'.step = "link"
  BY DEF Link
<1>4. Ask => call'.step = "ask"
  BY DEF Ask
<1>5. Index => call'.step = "index"
  BY DEF Index
<1>6. Admit => call'.step = "admit"
  BY DEF Admit
<1>7. Reply => call'.step = "reply"
  <2> SUFFICES ASSUME Reply
               PROVE  call'.step = "reply"
    OBVIOUS
  <2>1. PICK text : call' = [step |-> "reply", text |-> text, parts |-> SplitReply(text, PartLimit)]
    BY DEF Reply
  <2> QED
    BY <2>1
<1>8. Return => call'.step = "due"
  BY DEF Return, Requests, Due
<1> QED
  BY <1>1, <1>2, <1>3, <1>4, <1>5, <1>6, <1>7, <1>8

LEMMA AdmitIsFair == Admit => WindowsHold'
<1>0. SUFFICES ASSUME NEW who \in [2..4 -> {"u", "v"} \X {"c", "d"}],
                    NEW steps \in [2..4 -> 0..2],
                    NEW tokens \in [1..4 -> {<<"--agent", "word">>, <<"--rag-mode">>}],
                    call' = LET at(i) == IF i = 1 THEN <<"u", "c">> ELSE who[i]
                                time(i) == SumOf([j \in 1..(i - 1) |-> steps[j + 1]])
                                messages == [i \in 1..4 |->
                                    [user |-> at(i)[1], channel |-> at(i)[2], time |-> time(i),
                                     human |-> TRUE, allowed |-> TRUE, mention |-> TRUE,
                                     tokens |-> tokens[i]]]
                            IN  [step |-> "admit", messages |-> messages,
                                 out |-> Admissions(messages, Limits.user,
                                            Limits.channel, RateWindow)]
             PROVE  WindowsHold'
  BY DEF Admit
<1> DEFINE at(i) == IF i = 1 THEN <<"u", "c">> ELSE who[i]
           waits(i) == [j \in 1..(i - 1) |-> steps[j + 1]]
           messages == [i \in 1..4 |->
               [user |-> at(i)[1], channel |-> at(i)[2], time |-> SumOf(waits(i)),
                human |-> TRUE, allowed |-> TRUE, mention |-> TRUE, tokens |-> tokens[i]]]
           out == Admissions(messages, Limits.user, Limits.channel, RateWindow)
           time == [i \in 1..4 |-> SumOf(waits(i))]
<1>1. call' = [step |-> "admit", messages |-> messages, out |-> out]
  BY <1>0
<1>2. /\ steps[2] \in Int /\ steps[2] >= 0 /\ steps[3] \in Int /\ steps[3] >= 0
      /\ steps[4] \in Int /\ steps[4] >= 0
  OBVIOUS
<1>3. /\ waits(1) \in Seq(Int) /\ Len(waits(1)) = 0
      /\ waits(2) \in Seq(Int) /\ Len(waits(2)) = 1 /\ waits(2)[1] = steps[2]
      /\ waits(3) \in Seq(Int) /\ Len(waits(3)) = 2 /\ waits(3)[1] = steps[2] /\ waits(3)[2] = steps[3]
      /\ waits(4) \in Seq(Int) /\ Len(waits(4)) = 3
      /\ waits(4)[1] = steps[2] /\ waits(4)[2] = steps[3] /\ waits(4)[3] = steps[4]
  <2>1. ASSUME NEW k \in 0..3
        PROVE  /\ waits(k + 1) \in Seq(Int) /\ Len(waits(k + 1)) = k
               /\ \A j \in 1..k : waits(k + 1)[j] = steps[j + 1]
    <3>1. (k + 1) - 1 = k /\ k \in Nat /\ \A j \in 1..k : j + 1 \in 2..4
      OBVIOUS
    <3>2. \A j \in 1..k : steps[j + 1] \in Int
      BY <3>1
    <3> DEFINE w == [j \in 1..k |-> steps[j + 1]]
    <3>3. waits(k + 1) = w
      BY <3>1
    <3>4. w \in Seq(Int) /\ Len(w) = k
      BY <3>1, <3>2
    <3>5. \A j \in 1..k : w[j] = steps[j + 1]
      OBVIOUS
    <3> HIDE DEF w, waits
    <3> QED
      BY <3>3, <3>4, <3>5
  <2> HIDE DEF waits
  <2> QED
    BY <2>1
<1> HIDE DEF waits
<1>4. SumOf(waits(1)) = 0
  BY <1>3, SumFold, SMTT(30) DEF SumRun
<1>5. SumOf(waits(2)) = steps[2]
  BY <1>3, SumOfOne
<1>6. SumOf(waits(3)) = SumOf(waits(2)) + steps[3]
  <2>1. \A i \in 1..Len(waits(2)) : waits(3)[i] = waits(2)[i]
    <3>1. \A i \in 1..1 : i = 1
      OBVIOUS
    <3> QED
      BY <1>3, <3>1
  <2>a. Len(waits(3)) = 2 /\ Len(waits(2)) = 1 /\ waits(3)[2] = steps[3]
    BY <1>3
  <2>c. 2 = 1 + 1
    OBVIOUS
  <2>b. Len(waits(3)) = Len(waits(2)) + 1
    BY <2>a, <2>c, Zenon
  <2>2. waits(3)[Len(waits(3))] = steps[3]
    BY <2>a, Zenon
  <2>3. SumOf(waits(3)) = SumOf(waits(2)) + waits(3)[Len(waits(3))]
    BY <1>3, <2>1, <2>b, SumOfMore
  <2> QED
    BY <2>2, <2>3
<1>7. SumOf(waits(4)) = SumOf(waits(3)) + steps[4]
  <2>1. \A i \in 1..Len(waits(3)) : waits(4)[i] = waits(3)[i]
    <3>1. \A i \in 1..2 : i = 1 \/ i = 2
      OBVIOUS
    <3> QED
      BY <1>3, <3>1
  <2>a. Len(waits(4)) = 3 /\ Len(waits(3)) = 2 /\ waits(4)[3] = steps[4]
    BY <1>3
  <2>c. 3 = 2 + 1
    OBVIOUS
  <2>b. Len(waits(4)) = Len(waits(3)) + 1
    BY <2>a, <2>c, Zenon
  <2>2. waits(4)[Len(waits(4))] = steps[4]
    BY <2>a, Zenon
  <2>3. SumOf(waits(4)) = SumOf(waits(3)) + waits(4)[Len(waits(4))]
    BY <1>3, <2>1, <2>b, SumOfMore
  <2> QED
    BY <2>2, <2>3
<1>8. /\ time[1] = 0 /\ time[2] = steps[2] /\ time[3] = steps[2] + steps[3]
      /\ time[4] = steps[2] + steps[3] + steps[4]
  BY <1>4, <1>5, <1>6, <1>7
<1> DEFINE M == {messages[i] : i \in 1..4}
<1>9. messages \in Seq(M) /\ Len(messages) = 4 /\ DOMAIN messages = 1..4
  OBVIOUS
<1>10. \A i \in 1..4 : /\ time[i] = messages[i].time
                       /\ messages[i].human /\ messages[i].allowed /\ messages[i].mention
                       /\ messages[i].tokens \in {<<"--agent", "word">>, <<"--rag-mode">>}
  OBVIOUS
<1> HIDE DEF time, messages, M
<1>11. Clock(time, 4)
  BY <1>2, <1>8 DEF Clock
<1>12. Limits \in [user : Int, channel : Int] /\ RateWindow \in Int
  BY DEF Limits, RateWindow
<1>13. \A i \in 1..4 : /\ out[i] = "ignored" <=> ~Route(messages[i]).accepted
                       /\ JudgedFairly(messages, out, i, Limits, RateWindow)
  <2>1. \A j \in 1..Len(messages) : time[j] = messages[j].time
    BY <1>9, <1>10
  <2>2. Clock(time, Len(messages))
    BY <1>9, <1>11
  <2>3. FairVerdicts(messages, out, Limits, RateWindow)
    BY <1>9, <1>12, <2>1, <2>2, AdmissionsJudgeFairly
  <2> QED
    BY <1>9, <2>3 DEF FairVerdicts
<1>14. \A i \in 1..4 : out[i] = "ignored" <=> messages[i].tokens = <<"--rag-mode">>
  BY <1>10, <1>13, TextsRouted, SMTT(30)
<1> HIDE DEF out
<1>15. call'.messages = messages /\ call'.out = out
  BY <1>1
<1> QED
  BY <1>9, <1>13, <1>14, <1>15, SMTT(30) DEF WindowsHold

\* The rate limits of the Discord runtime hold in every state: a verdict
\* of Admissions is always one that JudgedFairly and the policy allow.
THEOREM WindowsHoldAlways == Spec => []WindowsHold
<1>1. Init => WindowsHold
  BY StepsApart DEF WindowsHold
<1>2. WindowsHold /\ [Next]_call => WindowsHold'
  BY AdmitIsFair, StepsApart DEF WindowsHold, Next
<1> QED
  BY <1>1, <1>2, PTL DEF Spec

LEMMA UpToType ==
    ASSUME NEW S, NEW n \in Nat, NEW text, text \in UpTo(S, n)
    PROVE  text \in Seq(S)
<1>1. PICK k \in 0..n : text \in [1..k -> S]
  BY DEF UpTo
<1>2. k \in Nat
  OBVIOUS
<1> QED
  BY <1>1, <1>2

LEMMA ReplyIsWhole == Reply => RepliesArriveWhole'
<1> DEFINE C == {"x", " ", "\n"}
<1> SUFFICES ASSUME Reply
             PROVE  RepliesArriveWhole'
  OBVIOUS
<1>1. PICK text :
        /\ text \in UpTo(C, 8)
        /\ call' = [step |-> "reply", text |-> text, parts |-> SplitReply(text, PartLimit)]
  BY DEF Reply
<1> HIDE DEF C
<1>3. text \in Seq(C)
  BY <1>1, UpToType
<1>4. PartLimit \in Nat \ {0}
  BY DEF PartLimit
<1>5. ArrivesWhole(text, SplitReply(text, PartLimit), PartLimit)
  BY <1>3, <1>4, SplitRepliesArriveWhole
<1>6. call'.text = text /\ call'.parts = SplitReply(text, PartLimit)
  BY <1>1
<1> QED
  BY <1>5, <1>6 DEF RepliesArriveWhole

\* Every reply the model sends arrives whole.
THEOREM RepliesArriveWholeAlways == Spec => []RepliesArriveWhole
<1>1. Init => RepliesArriveWhole
  BY StepsApart DEF RepliesArriveWhole
<1>2. RepliesArriveWhole /\ [Next]_call => RepliesArriveWhole'
  BY ReplyIsWhole, StepsApart DEF RepliesArriveWhole, Next
<1> QED
  BY <1>1, <1>2, PTL DEF Spec

-----------------------------------------------------------------------------
(* Facts and sources of an answer.                                         *)

\* The facts of the evidence MergeScoped keeps.
Named(queryFacts, types) ==
    UNION {InScope(queryFacts[i], types) : i \in DOMAIN queryFacts}

Fits(queryFacts, fact) ==
    \A types \in Scopes : \/ Named(queryFacts, types) = {}
                          \/ InScope(fact, types) = {}
                          \/ InScope(fact, types) \cap Named(queryFacts, types) # {}

KeepStep(kept, fact, queryFacts) ==
    IF Fits(queryFacts, fact) THEN Append(kept, fact) ELSE kept

Kept(queryFacts, evidenceFacts) ==
    FoldLeft(LAMBDA kept, fact : KeepStep(kept, fact, queryFacts), <<>>, evidenceFacts)

Fitting(F, queryFacts) == {f \in F : Fits(queryFacts, f)}

LEMMA KeepType ==
    ASSUME NEW F, NEW queryFacts, NEW kept \in Seq(Fitting(F, queryFacts)), NEW fact \in F
    PROVE  KeepStep(kept, fact, queryFacts) \in Seq(Fitting(F, queryFacts))
<1>1. CASE Fits(queryFacts, fact)
  BY <1>1 DEF Fitting, KeepStep
<1>2. CASE ~Fits(queryFacts, fact)
  BY <1>2 DEF KeepStep
<1> QED
  BY <1>1, <1>2

KeepRun(p, E, queryFacts, evidenceFacts) ==
    /\ p \in [0..Len(evidenceFacts) -> Seq(Fitting(E, queryFacts))]
    /\ p[0] = <<>>
    /\ \A k \in 1..Len(evidenceFacts) : p[k] = KeepStep(p[k - 1], evidenceFacts[k], queryFacts)
    /\ Kept(queryFacts, evidenceFacts) = p[Len(evidenceFacts)]

LEMMA KeepFold ==
    ASSUME NEW E, NEW queryFacts, NEW evidenceFacts \in Seq(E)
    PROVE  \E p : KeepRun(p, E, queryFacts, evidenceFacts)
<1> DEFINE n == Len(evidenceFacts)
           T == Seq(Fitting(E, queryFacts))
           base == <<>>
           body(g) == [s \in SUBSET (1..n) |-> IF s = {} THEN base
                         ELSE KeepStep(g[s \ {Max(s)}], evidenceFacts[Max(s)], queryFacts)]
           step == [k \in 1..n |-> [a \in T |-> KeepStep(a, evidenceFacts[k], queryFacts)]]
           iter == CHOOSE g : g = body(g)
<1>1. n \in Nat /\ DOMAIN evidenceFacts = 1..n
  OBVIOUS
<1>2. Kept(queryFacts, evidenceFacts) = iter[1..n]
  BY <1>1 DEF Kept, KeepStep, FoldLeft, MapThenFoldSet
<1>3. base \in T /\ \A k \in 1..n, a \in T : KeepStep(a, evidenceFacts[k], queryFacts) \in T
  BY KeepType
<1>4. step \in Steps(n, T)
  BY <1>3 DEF Steps
<1> HIDE DEF n, T, base
<1>5. iter = body(iter)
  <2> HIDE DEF step, body
  <2>1. PICK g : g \in [SUBSET (1..n) -> T] /\ IsFold(g, n, T, base, step)
    BY <1>1, <1>3, <1>4, FoldExists
  <2>2. \A s \in SUBSET (1..n) : g[s] = body(g)[s]
    BY <2>1 DEF IsFold, step, body
  <2>3. g = body(g)
    BY <2>1, <2>2 DEF body
  <2> QED
    BY <2>3
<1> HIDE DEF iter
<1>6. Folds(iter, n, T, base, step)
  BY <1>5 DEF Folds
<1>7. PICK q : IsRun(q, n, T, base, step) /\ iter[1..n] = q[n]
  <2> HIDE DEF step
  <2> QED
    BY <1>1, <1>3, <1>4, <1>6, FoldRuns
<1>8. /\ q \in [0..n -> T] /\ q[0] = base
      /\ \A k \in 1..n : q[k] = KeepStep(q[k - 1], evidenceFacts[k], queryFacts)
  BY <1>7 DEF IsRun
<1> QED
  BY <1>2, <1>7, <1>8 DEF n, T, base, KeepRun

\* ByRelation's step.
PutStep(kept, fact) ==
    IF \E i \in DOMAIN kept : kept[i].relation = fact.relation
    THEN [i \in DOMAIN kept |->
            IF kept[i].relation = fact.relation THEN fact ELSE kept[i]]
    ELSE Append(kept, fact)

LEMMA PutType ==
    ASSUME NEW F, NEW kept \in Seq(F), NEW fact \in F
    PROVE  PutStep(kept, fact) \in Seq(F)
<1> DEFINE n == Len(kept)
           other == [i \in DOMAIN kept |->
                        IF kept[i].relation = fact.relation THEN fact ELSE kept[i]]
<1>1. n \in Nat /\ DOMAIN kept = 1..n /\ \A i \in 1..n : kept[i] \in F
  OBVIOUS
<1>2. other \in [1..n -> F]
  BY <1>1
<1>3. other \in Seq(F)
  <2> HIDE DEF n, other
  <2> QED
    BY <1>1, <1>2
<1>4. Append(kept, fact) \in Seq(F)
  OBVIOUS
<1> HIDE DEF other
<1>5. PutStep(kept, fact) = other \/ PutStep(kept, fact) = Append(kept, fact)
  BY DEF PutStep, other
<1> QED
  BY <1>3, <1>4, <1>5

PutRun(p, F, facts) ==
    /\ p \in [0..Len(facts) -> Seq(F)]
    /\ p[0] = <<>>
    /\ \A k \in 1..Len(facts) : p[k] = PutStep(p[k - 1], facts[k])
    /\ ByRelation(facts) = p[Len(facts)]

LEMMA PutFold ==
    ASSUME NEW F, NEW facts \in Seq(F)
    PROVE  \E p : PutRun(p, F, facts)
<1> DEFINE n == Len(facts)
           T == Seq(F)
           base == <<>>
           body(g) == [s \in SUBSET (1..n) |-> IF s = {} THEN base
                         ELSE PutStep(g[s \ {Max(s)}], facts[Max(s)])]
           step == [k \in 1..n |-> [a \in T |-> PutStep(a, facts[k])]]
           iter == CHOOSE g : g = body(g)
<1>1. n \in Nat /\ DOMAIN facts = 1..n
  OBVIOUS
<1>2. ByRelation(facts) = iter[1..n]
  BY <1>1 DEF ByRelation, PutStep, FoldLeft, MapThenFoldSet
<1>3. base \in T /\ \A k \in 1..n, a \in T : PutStep(a, facts[k]) \in T
  BY PutType
<1>4. step \in Steps(n, T)
  BY <1>3 DEF Steps
<1> HIDE DEF n, T, base
<1>5. iter = body(iter)
  <2> HIDE DEF step, body
  <2>1. PICK g : g \in [SUBSET (1..n) -> T] /\ IsFold(g, n, T, base, step)
    BY <1>1, <1>3, <1>4, FoldExists
  <2>2. \A s \in SUBSET (1..n) : g[s] = body(g)[s]
    BY <2>1 DEF IsFold, step, body
  <2>3. g = body(g)
    BY <2>1, <2>2 DEF body
  <2> QED
    BY <2>3
<1> HIDE DEF iter
<1>6. Folds(iter, n, T, base, step)
  BY <1>5 DEF Folds
<1>7. PICK q : IsRun(q, n, T, base, step) /\ iter[1..n] = q[n]
  <2> HIDE DEF step
  <2> QED
    BY <1>1, <1>3, <1>4, <1>6, FoldRuns
<1>8. /\ q \in [0..n -> T] /\ q[0] = base
      /\ \A k \in 1..n : q[k] = PutStep(q[k - 1], facts[k])
  BY <1>7 DEF IsRun
<1> QED
  BY <1>2, <1>7, <1>8 DEF n, T, base, PutRun

\* The facts of an answer are the question's, and of the evidence's those
\* that fit them (MergeScoped, with no fact of another job or boss).
LEMMA MergedFacts ==
    ASSUME NEW Q, NEW E, NEW queryFacts \in Seq(Q), NEW evidenceFacts \in Seq(E)
    PROVE  MergeScoped(queryFacts, evidenceFacts) \in Seq(Q \cup Fitting(E, queryFacts))
<1> DEFINE F == Q \cup Fitting(E, queryFacts)
           kept == Kept(queryFacts, evidenceFacts)
<1>1. PICK p : KeepRun(p, E, queryFacts, evidenceFacts)
  BY KeepFold
<1>2. kept \in Seq(Fitting(E, queryFacts))
  <2>1. /\ p \in [0..Len(evidenceFacts) -> Seq(Fitting(E, queryFacts))]
        /\ kept = p[Len(evidenceFacts)]
    BY <1>1 DEF KeepRun
  <2>2. Len(evidenceFacts) \in 0..Len(evidenceFacts)
    OBVIOUS
  <2> HIDE DEF kept
  <2> QED
    BY <2>1, <2>2
<1>3. MergeScoped(queryFacts, evidenceFacts) = ByRelation(queryFacts \o kept)
  BY DEF MergeScoped, Kept, KeepStep, Fits, Named
<1> DEFINE all == queryFacts \o kept
<1>4. all \in Seq(F)
  BY <1>2
<1> HIDE DEF all, F
<1>5. PICK q : PutRun(q, F, all)
  BY <1>4, PutFold
<1>6. ByRelation(all) \in Seq(F)
  <2>1. q \in [0..Len(all) -> Seq(F)] /\ ByRelation(all) = q[Len(all)]
    BY <1>5 DEF PutRun
  <2>2. Len(all) \in 0..Len(all)
    BY <1>4
  <2> QED
    BY <2>1, <2>2
<1> QED
  BY <1>3, <1>6 DEF all, F

\* SourceViews, its views and its step.
Views(E, F) == [rank : Nat, of : E \cup {f.source : f \in F}, link : BOOLEAN]

EvidenceViews(evidence, withdrawn) ==
    [i \in DOMAIN evidence |->
        [rank |-> i, of |-> evidence[i], link |-> evidence[i] \notin withdrawn.chunks]]

OpenFact(fact, withdrawn) ==
    /\ fact.relation \notin withdrawn.relations
    /\ fact.source \notin withdrawn.sources

ViewStep(views, fact, withdrawn) ==
    IF \E i \in DOMAIN views : views[i].of = fact.source
    THEN views
    ELSE Append(views, [rank |-> Len(views) + 1, of |-> fact.source,
                        link |-> OpenFact(fact, withdrawn)])

LEMMA ViewsType ==
    ASSUME NEW E, NEW F, NEW evidence \in Seq(E), NEW withdrawn
    PROVE  /\ EvidenceViews(evidence, withdrawn) \in Seq(Views(E, F))
           /\ Len(EvidenceViews(evidence, withdrawn)) = Len(evidence)
<1> DEFINE n == Len(evidence)
           views == EvidenceViews(evidence, withdrawn)
<1>1. n \in Nat /\ DOMAIN evidence = 1..n /\ \A i \in 1..n : i \in Nat /\ evidence[i] \in E
  OBVIOUS
<1>2. \A i \in 1..n : [rank |-> i, of |-> evidence[i], link |-> evidence[i] \notin withdrawn.chunks]
                        \in Views(E, F)
  BY <1>1 DEF Views
<1>3. views = [i \in 1..n |->
        [rank |-> i, of |-> evidence[i], link |-> evidence[i] \notin withdrawn.chunks]]
  BY <1>1 DEF EvidenceViews
<1> HIDE DEF n, views
<1>4. views \in [1..n -> Views(E, F)]
  BY <1>2, <1>3
<1>5. views \in Seq(Views(E, F)) /\ Len(views) = n
  BY <1>1, <1>4
<1> QED
  BY <1>5 DEF views, n

LEMMA ViewStepType ==
    ASSUME NEW E, NEW F, NEW views \in Seq(Views(E, F)), NEW fact \in F, NEW withdrawn
    PROVE  ViewStep(views, fact, withdrawn) \in Seq(Views(E, F))
<1> DEFINE view == [rank |-> Len(views) + 1, of |-> fact.source, link |-> OpenFact(fact, withdrawn)]
<1>1. view \in Views(E, F)
  BY DEF OpenFact, Views
<1> HIDE DEF view
<1>2. Append(views, view) \in Seq(Views(E, F))
  BY <1>1
<1> QED
  BY <1>2 DEF ViewStep, view

ViewRun(p, E, F, answer, withdrawn) ==
    /\ p \in [0..Len(answer.facts) -> Seq(Views(E, F))]
    /\ p[0] = EvidenceViews(answer.evidence, withdrawn)
    /\ \A k \in 1..Len(answer.facts) : p[k] = ViewStep(p[k - 1], answer.facts[k], withdrawn)
    /\ SourceViews(answer, withdrawn) = p[Len(answer.facts)]

LEMMA ViewFold ==
    ASSUME NEW E, NEW F, NEW answer, answer.evidence \in Seq(E), answer.facts \in Seq(F), NEW withdrawn
    PROVE  \E p : ViewRun(p, E, F, answer, withdrawn)
<1> DEFINE n == Len(answer.facts)
           T == Seq(Views(E, F))
           base == EvidenceViews(answer.evidence, withdrawn)
           body(g) == [s \in SUBSET (1..n) |-> IF s = {} THEN base
                         ELSE ViewStep(g[s \ {Max(s)}], answer.facts[Max(s)], withdrawn)]
           step == [k \in 1..n |-> [a \in T |-> ViewStep(a, answer.facts[k], withdrawn)]]
           iter == CHOOSE g : g = body(g)
<1>1. n \in Nat /\ DOMAIN answer.facts = 1..n
  OBVIOUS
<1>2. SourceViews(answer, withdrawn) = iter[1..n]
  BY <1>1 DEF SourceViews, EvidenceViews, ViewStep, OpenFact, FoldLeft, MapThenFoldSet
<1>3. base \in T /\ \A k \in 1..n, a \in T : ViewStep(a, answer.facts[k], withdrawn) \in T
  BY ViewsType, ViewStepType
<1>4. step \in Steps(n, T)
  BY <1>3 DEF Steps
<1> HIDE DEF n, T, base
<1>5. iter = body(iter)
  <2> HIDE DEF step, body
  <2>1. PICK g : g \in [SUBSET (1..n) -> T] /\ IsFold(g, n, T, base, step)
    BY <1>1, <1>3, <1>4, FoldExists
  <2>2. \A s \in SUBSET (1..n) : g[s] = body(g)[s]
    BY <2>1 DEF IsFold, step, body
  <2>3. g = body(g)
    BY <2>1, <2>2 DEF body
  <2> QED
    BY <2>3
<1> HIDE DEF iter
<1>6. Folds(iter, n, T, base, step)
  BY <1>5 DEF Folds
<1>7. PICK q : IsRun(q, n, T, base, step) /\ iter[1..n] = q[n]
  <2> HIDE DEF step
  <2> QED
    BY <1>1, <1>3, <1>4, <1>6, FoldRuns, SMTT(30)
<1>8. /\ q \in [0..n -> T] /\ q[0] = base
      /\ \A k \in 1..n : q[k] = ViewStep(q[k - 1], answer.facts[k], withdrawn)
  BY <1>7 DEF IsRun
<1> QED
  BY <1>2, <1>7, <1>8 DEF n, T, base, ViewRun

\* Fact j is the first of its source.
FirstFrom(facts, j) == \A l \in 1..(j - 1) : facts[l].source # facts[j].source

\* What holds of the views once k facts were looked at.
Viewed(views, evidence, facts, k, withdrawn) ==
    /\ Len(views) >= Len(evidence)
    /\ \A i \in 1..Len(views) : views[i].rank = i
    /\ \A i \in 1..Len(evidence) :
         views[i].of = evidence[i] /\ (views[i].link <=> evidence[i] \notin withdrawn.chunks)
    /\ \A i \in 1..Len(views) : i > Len(evidence) =>
         /\ views[i].of \notin ToSet(evidence)
         /\ \E j \in 1..k : /\ FirstFrom(facts, j) /\ views[i].of = facts[j].source
                            /\ views[i].link <=> OpenFact(facts[j], withdrawn)
    /\ \A j \in 1..k : \E i \in 1..Len(views) : views[i].of = facts[j].source

LEMMA ViewedMore ==
    ASSUME NEW E, NEW F, NEW evidence \in Seq(E), NEW facts \in Seq(F), NEW withdrawn,
           NEW k \in 0..(Len(facts) - 1), NEW views \in Seq(Views(E, F)),
           Viewed(views, evidence, facts, k, withdrawn)
    PROVE  Viewed(ViewStep(views, facts[k + 1], withdrawn), evidence, facts, k + 1, withdrawn)
<1> DEFINE n == Len(views)
           m == Len(evidence)
           fact == facts[k + 1]
           new == [rank |-> n + 1, of |-> fact.source, link |-> OpenFact(fact, withdrawn)]
           more == Append(views, new)
<1>1. /\ n \in Nat /\ m \in Nat /\ k \in Nat /\ DOMAIN views = 1..n /\ DOMAIN evidence = 1..m
      /\ \A j \in 1..(k + 1) : j \in 1..k \/ j = k + 1
      /\ \A j \in 1..k : j \in 1..(k + 1)
      /\ k + 1 \in 1..(k + 1)
  OBVIOUS
<1>2. /\ n >= m
      /\ \A i \in 1..n : views[i].rank = i
      /\ \A i \in 1..m :
           views[i].of = evidence[i] /\ (views[i].link <=> evidence[i] \notin withdrawn.chunks)
      /\ \A i \in 1..n : i > m =>
           /\ views[i].of \notin ToSet(evidence)
           /\ \E j \in 1..k : /\ FirstFrom(facts, j) /\ views[i].of = facts[j].source
                              /\ views[i].link <=> OpenFact(facts[j], withdrawn)
      /\ \A j \in 1..k : \E i \in 1..n : views[i].of = facts[j].source
  BY DEF Viewed
<1>3. /\ Len(more) = n + 1 /\ more[n + 1] = new
      /\ \A i \in 1..n : more[i] = views[i]
  BY AppendProperties
<1>4. new.rank = n + 1 /\ new.of = fact.source /\ new.link = OpenFact(fact, withdrawn)
  OBVIOUS
<1>5. CASE \E i \in DOMAIN views : views[i].of = fact.source
  <2>1. ViewStep(views, fact, withdrawn) = views
    BY <1>5 DEF ViewStep
  <2> HIDE DEF n, m, fact
  <2>2. \A j \in 1..(k + 1) : \E i \in 1..n : views[i].of = facts[j].source
    BY <1>1, <1>2, <1>5 DEF fact
  <2>3. Viewed(views, evidence, facts, k + 1, withdrawn)
    BY <1>1, <1>2, <2>2 DEF Viewed, n, m
  <2> QED
    BY <2>1, <2>3 DEF fact
<1>6. CASE ~\E i \in DOMAIN views : views[i].of = fact.source
  <2>1. ViewStep(views, fact, withdrawn) = more
    BY <1>6 DEF ViewStep
  <2> HIDE DEF n, m, fact, new, more
  <2>2. \A i \in 1..n : views[i].of # fact.source
    BY <1>1, <1>6
  <2>3. FirstFrom(facts, k + 1)
    BY <1>1, <1>2, <2>2 DEF fact, FirstFrom
  <2>4. fact.source \notin ToSet(evidence)
    <3>1. \A i \in 1..m : evidence[i] # fact.source
      <4>1. \A i \in 1..m : i \in 1..n
        BY <1>1, <1>2
      <4> QED
        BY <1>2, <2>2, <4>1
    <3> QED
      BY <1>1, <3>1 DEF ToSet
  <2>5. \A i \in 1..(n + 1) : i \in 1..n \/ i = n + 1
    BY <1>1
  <2>6. \A i \in 1..n : i \in 1..(n + 1)
    BY <1>1
  <2>7. n + 1 \in 1..(n + 1) /\ n + 1 >= m
    BY <1>1, <1>2
  <2>8. \A i \in 1..(n + 1) : more[i].rank = i
    BY <1>2, <1>3, <1>4, <2>5
  <2>9. \A i \in 1..m : /\ more[i].of = evidence[i]
                        /\ more[i].link <=> evidence[i] \notin withdrawn.chunks
    BY <1>1, <1>2, <1>3
  <2>10. ASSUME NEW i \in 1..(n + 1), i > m
         PROVE  /\ more[i].of \notin ToSet(evidence)
                /\ \E j \in 1..(k + 1) : /\ FirstFrom(facts, j) /\ more[i].of = facts[j].source
                                         /\ more[i].link <=> OpenFact(facts[j], withdrawn)
    <3>1. CASE i \in 1..n
      BY <1>1, <1>2, <1>3, <2>10, <3>1, ZenonT(60)
    <3>2. CASE i = n + 1
      BY <1>1, <1>3, <1>4, <2>3, <2>4, <3>2 DEF fact
    <3> QED
      BY <2>5, <3>1, <3>2
  <2>11. \A j \in 1..(k + 1) : \E i \in 1..(n + 1) : more[i].of = facts[j].source
    <3> SUFFICES ASSUME NEW j \in 1..(k + 1)
                 PROVE  \E i \in 1..(n + 1) : more[i].of = facts[j].source
      OBVIOUS
    <3>1. CASE j \in 1..k
      <4>1. PICK i \in 1..n : views[i].of = facts[j].source
        BY <1>2, <3>1
      <4> QED
        BY <1>3, <2>6, <4>1
    <3>2. CASE j = k + 1
      BY <1>3, <1>4, <2>7, <3>2 DEF fact
    <3> QED
      BY <1>1, <3>1, <3>2
  <2>12. Len(more) >= m
    BY <1>3, <2>7
  <2>13. Viewed(more, evidence, facts, k + 1, withdrawn)
    BY <1>3, <2>8, <2>9, <2>10, <2>11, <2>12 DEF Viewed, m
  <2> QED
    BY <2>1, <2>13 DEF fact
<1> QED
  BY <1>5, <1>6

\* Whatever an answer used and whatever was withdrawn since: every source is
\* listed once, under a number of its own, and opens unless it was withdrawn
\* (SourceViews, that is load_answer_sources).
THEOREM SourcesStayOpen ==
    ASSUME NEW E, NEW F, NEW answer, answer.evidence \in Seq(E), answer.facts \in Seq(F),
           NEW withdrawn
    PROVE  SourcesOpen(answer.evidence, answer.facts, SourceViews(answer, withdrawn), withdrawn)
<1> DEFINE evidence == answer.evidence
           facts == answer.facts
           n == Len(facts)
           m == Len(evidence)
           views == SourceViews(answer, withdrawn)
<1>1. PICK p : ViewRun(p, E, F, answer, withdrawn)
  BY ViewFold
<1>2. /\ p \in [0..n -> Seq(Views(E, F))]
      /\ p[0] = EvidenceViews(evidence, withdrawn)
      /\ \A k \in 1..n : p[k] = ViewStep(p[k - 1], facts[k], withdrawn)
      /\ views = p[n]
  BY <1>1 DEF ViewRun
<1>3. /\ n \in Nat /\ m \in Nat /\ DOMAIN facts = 1..n /\ DOMAIN evidence = 1..m
      /\ evidence \in Seq(E) /\ facts \in Seq(F)
  OBVIOUS
<1> HIDE DEF evidence, facts, n, m, views
<1> DEFINE P == {k \in 0..n : Viewed(p[k], evidence, facts, k, withdrawn)}
<1>4. 0 \in P
  <2>1. EvidenceViews(evidence, withdrawn) = [i \in 1..m |->
          [rank |-> i, of |-> evidence[i], link |-> evidence[i] \notin withdrawn.chunks]]
    BY <1>3 DEF EvidenceViews
  <2>2. Len(EvidenceViews(evidence, withdrawn)) = m
    BY <1>3, ViewsType DEF m
  <2> DEFINE first == EvidenceViews(evidence, withdrawn)
  <2>3. \A i \in 1..m : /\ first[i].rank = i /\ first[i].of = evidence[i]
                        /\ first[i].link <=> evidence[i] \notin withdrawn.chunks
    <3> SUFFICES ASSUME NEW i \in 1..m
                 PROVE  /\ first[i].rank = i /\ first[i].of = evidence[i]
                        /\ first[i].link <=> evidence[i] \notin withdrawn.chunks
      OBVIOUS
    <3> DEFINE open == evidence[i] \notin withdrawn.chunks
    <3>1. first[i] = [rank |-> i, of |-> evidence[i], link |-> open]
      BY <2>1
    <3> HIDE DEF first
    <3>2. first[i].rank = i /\ first[i].of = evidence[i]
      BY <3>1
    <3>3. first[i].link = open
      BY <3>1
    <3> QED
      BY <3>2, <3>3
  <2> HIDE DEF first
  <2>4. Len(first) = m /\ m >= m /\ \A i \in 1..m : ~(i > m)
    BY <1>3, <2>2 DEF first
  <2>5. \A j \in 1..0 : FALSE
    OBVIOUS
  <2>6. Viewed(first, evidence, facts, 0, withdrawn)
    BY <2>3, <2>4, <2>5 DEF Viewed, m
  <2>7. 0 \in 0..n
    BY <1>3
  <2> QED
    BY <1>2, <2>6, <2>7 DEF first
<1>5. ASSUME NEW k \in 0..(n - 1), k \in P
      PROVE  k + 1 \in P
  <2>1. k + 1 \in 1..n /\ k + 1 \in 0..n /\ (k + 1) - 1 = k /\ k \in 0..(Len(facts) - 1) /\ k \in 0..n
    BY <1>3 DEF n
  <2>2. p[k + 1] = ViewStep(p[k], facts[k + 1], withdrawn) /\ p[k] \in Seq(Views(E, F))
    BY <1>2, <2>1
  <2>3. Viewed(p[k], evidence, facts, k, withdrawn)
    BY <1>5
  <2>4. Viewed(p[k + 1], evidence, facts, k + 1, withdrawn)
    <3>1. evidence \in Seq(E) /\ facts \in Seq(F)
      BY <1>3
    <3>2. k \in 0..(Len(facts) - 1) /\ p[k] \in Seq(Views(E, F))
      BY <2>1, <2>2
    <3>3. Viewed(ViewStep(p[k], facts[k + 1], withdrawn), evidence, facts, k + 1, withdrawn)
      BY <2>3, <3>1, <3>2, ViewedMore, ZenonT(60)
    <3> QED
      BY <2>2, <3>3
  <2> QED
    BY <2>1, <2>4
<1> HIDE DEF P
<1>6. \A k \in 0..n : k \in P
  BY <1>3, <1>4, <1>5, CountInduction
<1>7. Viewed(views, evidence, facts, n, withdrawn) /\ views \in Seq(Views(E, F))
  BY <1>2, <1>3, <1>6 DEF P
<1> DEFINE v == Len(views)
<1>8. /\ v \in Nat /\ DOMAIN views = 1..v
      /\ v >= m
      /\ \A i \in 1..v : views[i].rank = i
      /\ \A i \in 1..m :
           views[i].of = evidence[i] /\ (views[i].link <=> evidence[i] \notin withdrawn.chunks)
      /\ \A i \in 1..v : i > m =>
           /\ views[i].of \notin ToSet(evidence)
           /\ \E j \in 1..n : /\ FirstFrom(facts, j) /\ views[i].of = facts[j].source
                              /\ views[i].link <=> OpenFact(facts[j], withdrawn)
      /\ \A j \in 1..n : \E i \in 1..v : views[i].of = facts[j].source
  BY <1>7, SMTT(30) DEF Viewed, m
<1> HIDE DEF v
<1> DEFINE sources == ToSet(evidence) \cup {f.source : f \in ToSet(facts)}
           first(source) == CHOOSE i \in DOMAIN facts :
             /\ facts[i].source = source
             /\ \A j \in 1..(i - 1) : facts[j].source # source
<1>9. \A i \in 1..v : i \in 1..m \/ i > m
  BY <1>3, <1>8
<1>10. /\ \A i \in 1..m : evidence[i] \in ToSet(evidence)
       /\ \A x \in ToSet(evidence) : \E i \in 1..m : evidence[i] = x
       /\ \A j \in 1..n : facts[j] \in ToSet(facts)
       /\ \A x \in ToSet(facts) : \E j \in 1..n : facts[j] = x
  BY <1>3 DEF ToSet
<1>11. {views[i].of : i \in DOMAIN views} = sources
  <2>1. ASSUME NEW i \in 1..v
        PROVE  views[i].of \in sources
    <3>1. CASE i \in 1..m
      BY <1>8, <1>10, <3>1
    <3>2. CASE i > m
      <4>1. PICK j \in 1..n : views[i].of = facts[j].source
        BY <1>8, <3>2
      <4> QED
        BY <1>10, <4>1
    <3> QED
      BY <1>9, <3>1, <3>2
  <2>2. ASSUME NEW x \in ToSet(evidence)
        PROVE  \E i \in 1..v : views[i].of = x
    <3>1. PICK i \in 1..m : evidence[i] = x
      BY <1>10
    <3>2. i \in 1..v
      BY <1>3, <1>8
    <3> QED
      BY <1>8, <3>1, <3>2
  <2>3. ASSUME NEW f \in ToSet(facts)
        PROVE  \E i \in 1..v : views[i].of = f.source
    BY <1>8, <1>10
  <2> QED
    BY <1>8, <2>1, <2>2, <2>3, SMTT(30)
<1>12. ASSUME NEW i \in 1..v
       PROVE  views[i].link <=>
                IF views[i].of \in ToSet(evidence)
                THEN views[i].of \notin withdrawn.chunks
                ELSE /\ views[i].of \notin withdrawn.sources
                     /\ facts[first(views[i].of)].relation \notin withdrawn.relations
  <2>1. CASE i \in 1..m
    BY <1>8, <1>10, <2>1, ZenonT(60)
  <2>2. CASE i > m
    <3>1. PICK j \in 1..n : /\ FirstFrom(facts, j) /\ views[i].of = facts[j].source
                            /\ views[i].link <=> OpenFact(facts[j], withdrawn)
      BY <1>8, <2>2
    <3>2. views[i].of \notin ToSet(evidence)
      BY <1>8, <2>2
    <3> DEFINE source == views[i].of
               l == first(source)
    <3> HIDE DEF source
    <3>3. \E x \in DOMAIN facts : /\ facts[x].source = source
                                  /\ \A y \in 1..(x - 1) : facts[y].source # source
      BY <1>3, <3>1 DEF FirstFrom, source
    <3>4. /\ l \in 1..n /\ facts[l].source = source
          /\ \A y \in 1..(l - 1) : facts[y].source # source
      BY <1>3, <3>3
    <3> HIDE DEF l
    <3>5. l = j
      <4>1. ~(l < j)
        BY <1>3, <3>1, <3>4 DEF FirstFrom, source
      <4>2. ~(j < l)
        BY <1>3, <3>1, <3>4 DEF source
      <4> QED
        BY <1>3, <3>4, <4>1, <4>2
    <3> QED
      BY <3>1, <3>2, <3>5 DEF OpenFact, l, source
  <2> QED
    BY <1>9, <2>1, <2>2
<1>13. SourcesOpen(evidence, facts, views, withdrawn)
  BY <1>8, <1>11, <1>12, ZenonT(60) DEF SourcesOpen
<1> QED
  BY <1>13 DEF evidence, facts, views

-----------------------------------------------------------------------------
(* Words of an answer.                                                     *)

\* A call that was worth a retry at every attempt but the last.
LEMMA LastAnswer ==
    ASSUME NEW A, NEW answers \in Seq(A), Len(answers) >= 1,
           \A i \in 1..(Len(answers) - 1) : answers[i].kind \in {"503", "500", "unreachable"}
    PROVE  Generate(answers) = answers[Len(answers)]
<1> DEFINE n == Len(answers)
           ends == {i \in DOMAIN answers :
                      answers[i].kind \notin {"503", "500", "unreachable"} \/ i = Len(answers)}
<1>1. n \in Nat /\ n >= 1 /\ DOMAIN answers = 1..n
  OBVIOUS
<1>2. ends = {n}
  <2>1. \A i \in 1..n : i = n \/ i \in 1..(n - 1)
    <3> HIDE DEF n, ends
    <3>1. n \in Nat
      BY <1>1, SMTT(30)
    <3> QED
      BY <3>1
  <2>2. \A i \in ends : i = n
    BY <1>1, <2>1
  <2>3. n \in ends
    BY <1>1
  <2> HIDE DEF ends
  <2> QED
    BY <2>2, <2>3
<1>3. Min(ends) = n
  BY <1>1, <1>2, MinIn
<1> QED
  BY <1>3 DEF Generate, LastAttempt

\* The two kinds of violations of a text.
Misnamed(text, facts) ==
    {q \in text \X Abbreviations(facts) :
        /\ q[1].term = q[2].subject /\ q[1].form \in {"guess", "plain"}
        /\ q[2].object \notin q[1].as}
Unsupported(text, facts) ==
    {y \in text : /\ y.form = "guess"
                  /\ y.term \notin {f.subject : f \in Abbreviations(facts)}
                  /\ ~Supported(y, facts)}

LEMMA ViolationsAre ==
    ASSUME NEW text, NEW facts
    PROVE  /\ Violations(text, facts) =
                {[explanation |-> p[1], expected |-> p[2].object] :
                    p \in Misnamed(text, facts)}
                \cup {[explanation |-> x, expected |-> Unverified] :
                        x \in Unsupported(text, facts)}
           /\ Violations(text, facts) = {} =>
                Misnamed(text, facts) = {} /\ Unsupported(text, facts) = {}
           /\ Violations(text, facts) # {} =>
                Misnamed(text, facts) # {} \/ Unsupported(text, facts) # {}
<1> DEFINE V == Violations(text, facts)
           M == Misnamed(text, facts)
           U == Unsupported(text, facts)
<1>1. V = {[explanation |-> p[1], expected |-> p[2].object] : p \in M}
             \cup {[explanation |-> x, expected |-> Unverified] : x \in U}
  BY Zenon DEF Violations, Misnamed, Unsupported
<1> HIDE DEF V, M, U
<1>2. V = {} => M = {} /\ U = {}
  BY <1>1
<1>3. V # {} => M # {} \/ U # {}
  BY <1>1
<1> QED
  BY <1>1, <1>2, <1>3 DEF V, M, U

LEMMA RegisteredAre ==
    ASSUME NEW facts, NEW term
    PROVE  Registered(term, facts) <=> term \in {f.subject : f \in Abbreviations(facts)}
BY DEF Registered, Abbreviations

\* What is left without a violation is confirmed by the facts, as far as it
\* is checked.
LEMMA NoViolations ==
    ASSUME NEW text, NEW facts, Violations(text, facts) = {}, NEW x \in text,
           Checkable(x, facts)
    PROVE  Confirmed(x, facts)
<1> DEFINE names == {f.object : f \in {g \in facts :
                        g.subject = x.term /\ g.predicate = "abbreviation_of"}}
           related == {f.object : f \in {g \in facts : g.subject = x.term}}
           named == {f.subject : f \in facts} \cup {f.object : f \in facts}
<1>1. Misnamed(text, facts) = {} /\ Unsupported(text, facts) = {}
  BY ViolationsAre
<1>2. CASE ~Registered(x.term, facts)
  <2>1. x.form = "guess"
    BY <1>2 DEF Checkable
  <2>2. Supported(x, facts)
    BY <1>1, <1>2, <2>1, RegisteredAre DEF Unsupported
  <2>3. x.as \subseteq related \/ x.whole \in named
    BY <2>2 DEF Supported
  <2> QED
    BY <1>2, <2>3 DEF Confirmed
<1>3. CASE Registered(x.term, facts)
  <2>1. ASSUME NEW f \in facts, f.subject = x.term, f.predicate = "abbreviation_of"
        PROVE  f.object \in x.as
    <3>1. f \in Abbreviations(facts) /\ x.form \in {"guess", "plain"}
      BY <2>1 DEF Abbreviations, Checkable
    <3>2. <<x, f>> \notin Misnamed(text, facts)
      BY <1>1
    <3> QED
      BY <2>1, <3>1, <3>2 DEF Misnamed
  <2>2. names \subseteq x.as
    BY <2>1
  <2> QED
    BY <1>3, <2>2 DEF Confirmed
<1> QED
  BY <1>2, <1>3

KnownPredicates == {"abbreviation_of", "is_a", "part_of", "variant_of", "has_difficulty"}

LEMMA MisnamedIsWrong ==
    ASSUME NEW text, NEW facts, NEW q \in Misnamed(text, facts)
    PROVE  /\ q[1] \in text /\ Unconfirmed(q[1], facts)
           /\ Registered(q[1].term, facts)
<1> DEFINE x == q[1]
           f == q[2]
           names == {h.object : h \in {g \in facts :
                      g.subject = x.term /\ g.predicate = "abbreviation_of"}}
<1>1. /\ x \in text /\ f \in facts /\ f.predicate = "abbreviation_of"
      /\ x.term = f.subject /\ x.form \in {"guess", "plain"} /\ f.object \notin x.as
  BY DEF Misnamed, Abbreviations
<1> HIDE DEF x, f
<1>2. Registered(x.term, facts)
  BY <1>1 DEF Registered
<1>3. Checkable(x, facts)
  BY <1>1, <1>2 DEF Checkable
<1>4. f.object \in names
  BY <1>1
<1>5. ~Confirmed(x, facts)
  BY <1>1, <1>2, <1>4 DEF Confirmed
<1> QED
  BY <1>1, <1>2, <1>3, <1>5 DEF x, Unconfirmed

\* A violation is an explanation the facts do not confirm, if no other
\* relations are known than those that support one.
LEMMA ViolationIsWrong ==
    ASSUME NEW text, NEW facts, Violations(text, facts) # {},
           \A f \in facts : f.predicate \in KnownPredicates
    PROVE  \E x \in text : Unconfirmed(x, facts)
<1>1. Misnamed(text, facts) # {} \/ Unsupported(text, facts) # {}
  BY ViolationsAre
<1>2. CASE Misnamed(text, facts) # {}
  BY <1>2, MisnamedIsWrong
<1>3. CASE Unsupported(text, facts) # {}
  <2>1. PICK x \in text : /\ x.form = "guess"
                          /\ x.term \notin {f.subject : f \in Abbreviations(facts)}
                          /\ ~Supported(x, facts)
    BY <1>3 DEF Unsupported
  <2> DEFINE related == {f.object : f \in {g \in facts : g.subject = x.term}}
             named == {f.subject : f \in facts} \cup {f.object : f \in facts}
  <2>2. ~Registered(x.term, facts)
    BY <2>1, RegisteredAre
  <2>3. \A g \in facts : g.subject = x.term =>
            g.predicate \in {"is_a", "part_of", "variant_of", "has_difficulty"}
    BY <2>2 DEF KnownPredicates, Registered
  <2>4. ~(x.as \subseteq related) /\ x.whole \notin named
    BY <2>1, <2>3 DEF Supported
  <2>5. Unconfirmed(x, facts)
    BY <2>1, <2>2, <2>4 DEF Confirmed, Checkable, Unconfirmed
  <2> QED
    BY <2>5
<1> QED
  BY <1>1, <1>2, <1>3

\* What cleaning leaves wrong explains a registered term.
LEMMA CleanedIsWrong ==
    ASSUME NEW text, NEW facts, Violations(Cleaned(text, facts), facts) # {}
    PROVE  \E x \in text : Unconfirmed(x, facts) /\ Registered(x.term, facts)
<1> DEFINE rest == Cleaned(text, facts)
<1>1. rest \subseteq text
  BY DEF Cleaned
<1>2. Unsupported(rest, facts) = {}
  <2> SUFFICES ASSUME NEW y \in Unsupported(rest, facts)
               PROVE  FALSE
    OBVIOUS
  <2>1. y \in rest /\ y \in Unsupported(text, facts)
    BY <1>1 DEF Unsupported
  <2> DEFINE v == [explanation |-> y, expected |-> Unverified]
  <2>2. v \in Violations(text, facts)
    BY <2>1, ViolationsAre
  <2>3. y \notin rest
    BY <2>2 DEF Cleaned
  <2> QED
    BY <2>1, <2>3
<1>3. Misnamed(rest, facts) # {}
  BY <1>2, ViolationsAre
<1> HIDE DEF rest
<1> QED
  BY <1>1, <1>3, MisnamedIsWrong

\* The words are those of one of the calls.
Said(text, calls) ==
    \E k \in 1..2 : /\ Generate(calls[k]).kind = "ok"
                   /\ text \subseteq Generate(calls[k]).text

\* Why the model's words are given up.
GivenUp(facts, calls) ==
    LET first == Generate(calls[1])
        second == Generate(calls[2])
    IN  \/ first.kind # "ok"
        \/ /\ Violations(first.text, facts) # {}
           /\ \/ second.kind # "ok"
              \/ Violations(Cleaned(second.text, facts), facts) # {}

LEMMA GroundedCases ==
    ASSUME NEW facts, NEW calls
    PROVE  LET outcome == Grounded(facts, calls)
           IN  \/ /\ outcome.mode = "generated"
                  /\ Violations(outcome.text, facts) = {}
                  /\ Said(outcome.text, calls)
               \/ outcome.mode = "retrieval_only" /\ GivenUp(facts, calls)
<1> DEFINE fallback == [mode |-> "retrieval_only", text |-> {}]
           first == Generate(calls[1])
           second == Generate(calls[2])
           outcome == Grounded(facts, calls)
<1>1. ASSUME NEW text
      PROVE  \/ /\ Violations(Cleaned(text, facts), facts) = {}
                /\ Checked(text, facts, fallback) =
                     [mode |-> "generated", text |-> Cleaned(text, facts)]
             \/ /\ Violations(Cleaned(text, facts), facts) # {}
                /\ Checked(text, facts, fallback) = fallback
  BY DEF Checked
<1>a. ASSUME NEW text, Violations(text, facts) = {}
      PROVE  Cleaned(text, facts) = text
  BY <1>a DEF Cleaned
<1> HIDE DEF first, second
<1>2. outcome = CASE first.kind # "ok" -> fallback
                  [] first.kind = "ok" /\ Violations(first.text, facts) = {} ->
                        Checked(first.text, facts, fallback)
                  [] OTHER -> IF second.kind # "ok" THEN fallback
                                                    ELSE Checked(second.text, facts, fallback)
  BY DEF Grounded, first, second
<1>3. fallback.mode = "retrieval_only"
  OBVIOUS
<1> HIDE DEF outcome, fallback
<1>4. CASE first.kind # "ok"
  BY <1>2, <1>3, <1>4 DEF outcome, first, GivenUp
<1>5. CASE first.kind = "ok" /\ Violations(first.text, facts) = {}
  BY <1>1, <1>2, <1>5, <1>a DEF Said, first, outcome
<1>6. CASE first.kind = "ok" /\ Violations(first.text, facts) # {}
  <2>1. outcome = IF second.kind # "ok" THEN fallback
                                        ELSE Checked(second.text, facts, fallback)
    BY <1>2, <1>6
  <2>2. CASE second.kind # "ok"
    BY <1>3, <1>6, <2>1, <2>2 DEF outcome, first, second, GivenUp
  <2>3. CASE second.kind = "ok"
    <3>1. Cleaned(second.text, facts) \subseteq second.text
      BY DEF Cleaned
    <3> QED
      BY <1>1, <1>3, <1>6, <2>1, <2>3, <3>1 DEF outcome, first, second, GivenUp, Said
  <2> QED
    BY <2>2, <2>3
<1> QED
  BY <1>4, <1>5, <1>6

\* What an answer claims: looked up or not, generated or not.
AnswerStands(mode, out, calls) ==
    LET facts == ToSet(out.facts)
    IN  /\ out.mode = "direct" <=> mode = "bypass"
        /\ out.mode = "generated" =>
             /\ out.evidence # <<>> \/ out.facts # <<>>
             /\ \A x \in out.text : ~Unconfirmed(x, facts)
             /\ Said(out.text, calls)
        /\ out.mode = "retrieval_only" => GivenUp(facts, calls)

\* Whatever was found and whatever the model said, in every mode: an answer
\* goes out as the model's only if it stands on evidence or facts, which
\* confirm each of its explanations that is checkable (in brackets or an
\* equation if its term is registered, in short brackets if not), and its
\* words are given up only if the first call came to nothing, or to a
\* violation and the second to nothing or to one that cleaning leaves
\* (QAService.answer).
THEOREM AnswersStand ==
    ASSUME NEW mode \in Modes, NEW found, NEW factsOf, NEW linked, NEW calls
    PROVE  AnswerStands(mode, Answer(mode, found, factsOf, linked, calls), calls)
<1> DEFINE plan == Plan(mode)
           evidence == IF plan.evidence THEN found ELSE <<>>
           links == IF plan.links /\ evidence # <<>> THEN linked ELSE <<>>
           facts == IF plan.knowledge THEN MergeScoped(factsOf[plan.hops], links) ELSE <<>>
           reply == Generate(calls[1])
           spoken == IF reply.kind = "ok" THEN reply.text ELSE {}
           outcome ==
             CASE mode = "bypass" -> [mode |-> "direct", text |-> spoken]
               [] mode # "bypass" /\ ~Sufficient(evidence, facts) ->
                    [mode |-> "insufficient_evidence", text |-> {}]
               [] OTHER -> Grounded(ToSet(facts), calls)
           out == Answer(mode, found, factsOf, linked, calls)
<1> HIDE DEF plan
<1>1. out = [mode |-> outcome.mode, text |-> outcome.text, evidence |-> evidence, facts |-> facts]
  BY DEF Answer, plan
<1> HIDE DEF evidence, facts, spoken
<1>a. /\ mode = "bypass" => outcome = [mode |-> "direct", text |-> spoken]
      /\ mode # "bypass" /\ ~Sufficient(evidence, facts) =>
           outcome = [mode |-> "insufficient_evidence", text |-> {}]
      /\ mode # "bypass" /\ Sufficient(evidence, facts) => outcome = Grounded(ToSet(facts), calls)
  OBVIOUS
<1> HIDE DEF outcome, out
<1>2. /\ out.mode = outcome.mode /\ out.text = outcome.text
      /\ out.evidence = evidence /\ out.facts = facts
  BY <1>1
<1>3. CASE mode = "bypass"
  BY <1>a, <1>2, <1>3 DEF AnswerStands, out
<1>4. CASE mode # "bypass" /\ ~Sufficient(evidence, facts)
  BY <1>a, <1>2, <1>4 DEF AnswerStands, out
<1>5. CASE mode # "bypass" /\ Sufficient(evidence, facts)
  <2>1. outcome = Grounded(ToSet(facts), calls)
    BY <1>a, <1>5
  <2> DEFINE F == ToSet(facts)
  <2> HIDE DEF F
  <2>2. \/ /\ outcome.mode = "generated"
           /\ Violations(outcome.text, F) = {}
           /\ Said(outcome.text, calls)
        \/ outcome.mode = "retrieval_only" /\ GivenUp(F, calls)
    BY <2>1, GroundedCases DEF F
  <2>3. outcome.mode = "generated" =>
          /\ \A x \in outcome.text : ~Unconfirmed(x, F)
          /\ Said(outcome.text, calls)
    BY <2>2, NoViolations DEF Unconfirmed
  <2>4. evidence # <<>> \/ facts # <<>>
    BY <1>5 DEF Sufficient
  <2>5. outcome.mode # "direct"
    BY <2>2
  <2> QED
    BY <1>2, <1>5, <2>2, <2>3, <2>4, <2>5 DEF AnswerStands, F, out
<1> QED
  BY <1>3, <1>4, <1>5

\* The facts of an answer are those MergeScoped makes of the question's and,
\* in a mode that reads them, the evidence's.
LEMMA AnswerFacts ==
    ASSUME NEW mode \in Modes, NEW found, NEW one, NEW two, NEW linked, NEW calls
    PROVE  LET out == Answer(mode, found, <<one, two>>, linked, calls)
           IN  /\ out.evidence \in {<<>>, found}
               /\ \/ out.facts = <<>>
                  \/ \E q \in {one, two}, e \in {<<>>, linked} : out.facts = MergeScoped(q, e)
<1> DEFINE plan == Plan(mode)
           evidence == IF plan.evidence THEN found ELSE <<>>
           links == IF plan.links /\ evidence # <<>> THEN linked ELSE <<>>
           facts == IF plan.knowledge THEN MergeScoped(<<one, two>>[plan.hops], links) ELSE <<>>
           out == Answer(mode, found, <<one, two>>, linked, calls)
<1>1. out.evidence = evidence /\ out.facts = facts
  BY DEF Answer
<1>2. plan.knowledge => plan.hops \in 1..2
  BY DEF Plan, Modes
<1> HIDE DEF plan, out
<1>3. evidence \in {<<>>, found} /\ links \in {<<>>, linked}
  OBVIOUS
<1> HIDE DEF evidence, links
<1>4. plan.hops \in 1..2 => <<one, two>>[plan.hops] \in {one, two}
  OBVIOUS
<1>5. facts = <<>> \/ \E q \in {one, two} : facts = MergeScoped(q, links)
  BY <1>2, <1>4
<1> HIDE DEF facts
<1> QED
  BY <1>1, <1>3, <1>5 DEF out

-----------------------------------------------------------------------------
(* What the runs' questions come to.                                       *)

Tokens == Options \cup Words \cup Modes
ReadEnd(tokens) == FoldLeft(Read, Unread, tokens)

\* A reading that expects this, in this mode, with no question yet.
At(s, expect, mode) ==
    s \in Readings /\ s.expect = expect /\ s.mode = mode /\ s.question = <<>>

LEMMA ReadSteps ==
    /\ At(Unread, "option", "mix")
    /\ \A s, mode : At(s, "option", mode) =>
         /\ At(Read(s, "--no-rag"), "option", "bypass")
         /\ At(Read(s, "--agent"), "option", mode)
         /\ At(Read(s, "--rag-mode"), "mode", mode)
    /\ \A s, old : \A mode \in Modes : At(s, "mode", old) => At(Read(s, mode), "option", mode)
<1>1. At(Unread, "option", "mix")
  BY UnreadType DEF At, Unread
<1>2. ASSUME NEW s, NEW mode, At(s, "option", mode)
      PROVE  /\ At(Read(s, "--no-rag"), "option", "bypass")
             /\ At(Read(s, "--agent"), "option", mode)
             /\ At(Read(s, "--rag-mode"), "mode", mode)
  <2>1. s \in Readings /\ s.expect = "option" /\ s.mode = mode /\ s.question = <<>>
    BY <1>2 DEF At
  <2>2. {"--no-rag", "--agent", "--rag-mode"} \subseteq Options \cup Words \cup Modes
    BY DEF Options
  <2>3. \A t \in {"--no-rag", "--agent", "--rag-mode"} : Read(s, t) \in Readings
    BY <2>1, <2>2, ReadType
  <2>4. /\ Read(s, "--no-rag") = [s EXCEPT !.rag = FALSE, !.mode = "bypass"]
        /\ Read(s, "--agent") = [s EXCEPT !.agent = TRUE]
        /\ Read(s, "--rag-mode") = [s EXCEPT !.expect = "mode"]
    BY <2>1 DEF Read
  <2>5. /\ Read(s, "--no-rag").expect = "option" /\ Read(s, "--no-rag").mode = "bypass"
        /\ Read(s, "--no-rag").question = <<>>
    BY <2>1, <2>4 DEF Readings
  <2>6. /\ Read(s, "--agent").expect = "option" /\ Read(s, "--agent").mode = mode
        /\ Read(s, "--agent").question = <<>>
    BY <2>1, <2>4 DEF Readings
  <2>7. /\ Read(s, "--rag-mode").expect = "mode" /\ Read(s, "--rag-mode").mode = mode
        /\ Read(s, "--rag-mode").question = <<>>
    BY <2>1, <2>4 DEF Readings
  <2> QED
    BY <2>3, <2>5, <2>6, <2>7 DEF At
<1>3. ASSUME NEW s, NEW old, NEW mode \in Modes, At(s, "mode", old)
      PROVE  At(Read(s, mode), "option", mode)
  <2>1. s \in Readings /\ s.expect = "mode" /\ s.question = <<>>
    BY <1>3 DEF At
  <2>2. Read(s, mode) \in Readings
    BY <2>1, ReadType
  <2>3. Read(s, mode) = [s EXCEPT !.expect = "option", !.mode = mode, !.rag = mode # "bypass"]
    BY <2>1 DEF Read
  <2>4. /\ Read(s, mode).expect = "option" /\ Read(s, mode).mode = mode
        /\ Read(s, mode).question = <<>>
    BY <2>1, <2>3 DEF Readings
  <2> QED
    BY <2>2, <2>4 DEF At
<1> QED
  BY <1>1, <1>2, <1>3

\* The texts of up to three tokens.
LEMMA ReadFew ==
    ASSUME NEW a \in Tokens, NEW b \in Tokens, NEW c \in Tokens
    PROVE  /\ ReadEnd(<<>>) = Unread
           /\ ReadEnd(<<a>>) = Read(Unread, a)
           /\ ReadEnd(<<a, b>>) = Read(Read(Unread, a), b)
           /\ ReadEnd(<<a, b, c>>) = Read(Read(Read(Unread, a), b), c)
<1>1. ReadEnd(<<>>) = Unread
  <2> DEFINE tokens == <<>>
  <2>1. tokens \in Seq(Options \cup Words \cup Modes) /\ Len(tokens) = 0
    OBVIOUS
  <2> HIDE DEF tokens
  <2>2. PICK p : ReadRun(p, tokens)
    BY <2>1, ReadFold
  <2> QED
    BY <2>1, <2>2 DEF ReadRun, ReadEnd, tokens
<1>2. ReadEnd(<<a>>) = Read(Unread, a)
  <2> DEFINE tokens == <<a>>
  <2>1. tokens \in Seq(Options \cup Words \cup Modes) /\ Len(tokens) = 1 /\ tokens[1] = a
    BY DEF Tokens
  <2> HIDE DEF tokens
  <2>2. PICK p : ReadRun(p, tokens)
    BY <2>1, ReadFold
  <2>3. p[1] = Read(p[1 - 1], tokens[1]) /\ p[0] = Unread /\ 1 - 1 = 0 /\ ReadEnd(tokens) = p[1]
    BY <2>1, <2>2 DEF ReadRun, ReadEnd
  <2> QED
    BY <2>1, <2>3 DEF tokens
<1>3. ReadEnd(<<a, b>>) = Read(Read(Unread, a), b)
  <2> DEFINE tokens == <<a, b>>
  <2>1. /\ tokens \in Seq(Options \cup Words \cup Modes) /\ Len(tokens) = 2
        /\ tokens[1] = a /\ tokens[2] = b
    BY DEF Tokens
  <2> HIDE DEF tokens
  <2>2. PICK p : ReadRun(p, tokens)
    BY <2>1, ReadFold
  <2>3. /\ p[1] = Read(p[1 - 1], tokens[1]) /\ p[2] = Read(p[2 - 1], tokens[2])
        /\ p[0] = Unread /\ 1 - 1 = 0 /\ 2 - 1 = 1 /\ ReadEnd(tokens) = p[2]
    BY <2>1, <2>2 DEF ReadRun, ReadEnd
  <2> QED
    BY <2>1, <2>3 DEF tokens
<1>4. ReadEnd(<<a, b, c>>) = Read(Read(Read(Unread, a), b), c)
  <2> DEFINE tokens == <<a, b, c>>
  <2>1. /\ tokens \in Seq(Options \cup Words \cup Modes) /\ Len(tokens) = 3
        /\ tokens[1] = a /\ tokens[2] = b /\ tokens[3] = c
    BY DEF Tokens
  <2> HIDE DEF tokens
  <2>2. PICK p : ReadRun(p, tokens)
    BY <2>1, ReadFold
  <2>3. /\ p[1] = Read(p[1 - 1], tokens[1]) /\ p[2] = Read(p[2 - 1], tokens[2])
        /\ p[3] = Read(p[3 - 1], tokens[3])
        /\ p[0] = Unread /\ 1 - 1 = 0 /\ 2 - 1 = 1 /\ 3 - 1 = 2 /\ ReadEnd(tokens) = p[3]
    BY <2>1, <2>2 DEF ReadRun, ReadEnd
  <2> QED
    BY <2>1, <2>3 DEF tokens
<1> QED
  BY <1>1, <1>2, <1>3, <1>4

\* One token more.
LEMMA ReadMore ==
    ASSUME NEW tokens \in Seq(Tokens), NEW token \in Tokens
    PROVE  ReadEnd(Append(tokens, token)) = Read(ReadEnd(tokens), token)
<1> DEFINE k == Len(tokens)
           more == Append(tokens, token)
<1>0. /\ k \in Nat /\ more \in Seq(Tokens) /\ Len(more) = k + 1 /\ more[k + 1] = token
      /\ \A i \in 1..k : more[i] = tokens[i]
  OBVIOUS
<1> HIDE DEF more
<1>1. PICK p : ReadRun(p, tokens)
  BY ReadFold DEF Tokens
<1>2. PICK q : ReadRun(q, more)
  BY <1>0, ReadFold DEF Tokens
<1>3. /\ p[0] = Unread /\ ReadEnd(tokens) = p[k]
      /\ \A i \in 1..k : p[i] = Read(p[i - 1], tokens[i])
  BY <1>1 DEF ReadRun, ReadEnd, k
<1>4. /\ q[0] = Unread /\ ReadEnd(more) = q[k + 1]
      /\ \A i \in 1..(k + 1) : q[i] = Read(q[i - 1], more[i])
  BY <1>0, <1>2 DEF ReadRun, ReadEnd
<1> DEFINE P == {i \in 0..k : q[i] = p[i]}
<1> HIDE DEF k
<1>5. 0 \in P
  BY <1>0, <1>3, <1>4 DEF P
<1>6. ASSUME NEW i \in 0..(k - 1), i \in P
      PROVE  i + 1 \in P
  <2>1. i + 1 \in 1..k /\ i + 1 \in 1..(k + 1) /\ (i + 1) - 1 = i /\ i + 1 \in 0..k
    BY <1>0
  <2>2. q[i + 1] = Read(q[i], more[i + 1]) /\ p[i + 1] = Read(p[i], tokens[i + 1])
    BY <1>3, <1>4, <2>1
  <2>3. q[i] = p[i] /\ more[i + 1] = tokens[i + 1]
    BY <1>0, <1>6, <2>1 DEF P
  <2>4. q[i + 1] = p[i + 1]
    BY <2>2, <2>3
  <2> QED
    BY <2>1, <2>4 DEF P
<1> HIDE DEF P
<1>7. \A i \in 0..k : i \in P
  BY <1>0, <1>5, <1>6, CountInduction
<1>8. q[k] = p[k]
  BY <1>0, <1>7 DEF P
<1>9. k + 1 \in 1..(k + 1) /\ (k + 1) - 1 = k
  BY <1>0
<1>10. q[k + 1] = Read(p[k], token)
  BY <1>0, <1>4, <1>8, <1>9
<1> QED
  BY <1>3, <1>4, <1>10 DEF more

LEMMA OptionsRead ==
    ASSUME NEW options \in QuestionOptions
    PROVE  /\ options \in Seq(Tokens)
           /\ \E mode \in Modes :
                /\ At(ReadEnd(options), "option", mode)
                /\ mode = "bypass" <=>
                     options \in {<<"--no-rag">>, <<"--agent", "--rag-mode", "bypass">>}
<1>1. /\ {"--no-rag", "--rag-mode", "--agent"} \subseteq Tokens /\ Modes \subseteq Tokens
      /\ {"mix", "local", "bypass", "naive", "global", "hybrid"} \subseteq Modes
  BY DEF Tokens, Options, Modes
<1>a. ReadEnd(<<>>) = Unread
  BY <1>1, ReadFew
<1>b. ReadEnd(<<"--no-rag">>) = Read(Unread, "--no-rag")
  BY <1>1, ReadFew
<1>c. ASSUME NEW mode \in Modes
      PROVE  ReadEnd(<<"--rag-mode", mode>>) = Read(Read(Unread, "--rag-mode"), mode)
  BY <1>1, ReadFew
<1>d. ASSUME NEW mode \in Modes, NEW first \in {"--no-rag", "--agent"}
      PROVE  ReadEnd(<<first, "--rag-mode", mode>>) =
               Read(Read(Read(Unread, first), "--rag-mode"), mode)
  <2>1. first \in Tokens /\ "--rag-mode" \in Tokens /\ mode \in Tokens
    BY <1>1
  <2> QED
    BY <2>1, ReadFew, ZenonT(60)
<1>e. ASSUME NEW s, NEW mode \in Modes, NEW old, At(s, "option", old)
      PROVE  At(Read(Read(s, "--rag-mode"), mode), "option", mode)
  BY <1>e, ReadSteps
<1>2. CASE options = <<>>
  BY <1>a, <1>1, <1>2, ReadSteps
<1>3. CASE options = <<"--no-rag">>
  BY <1>b, <1>1, <1>3, ReadSteps
<1>4. CASE options = <<"--no-rag", "--rag-mode", "local">>
  <2>1. At(Read(Unread, "--no-rag"), "option", "bypass")
    BY ReadSteps
  <2>2. At(ReadEnd(options), "option", "local")
    BY <1>1, <1>4, <1>d, <1>e, <2>1
  <2>3. options \in Seq(Tokens) /\ Len(options) = 3 /\ options[1] = "--no-rag"
    BY <1>1, <1>4
  <2>4. options \notin {<<"--no-rag">>, <<"--agent", "--rag-mode", "bypass">>}
    BY <2>3
  <2> QED
    BY <1>1, <2>2, <2>3, <2>4
<1>5. CASE options = <<"--agent", "--rag-mode", "bypass">>
  <2>1. At(Read(Unread, "--agent"), "option", "mix")
    BY ReadSteps
  <2>2. At(ReadEnd(options), "option", "bypass")
    BY <1>1, <1>5, <1>d, <1>e, <2>1
  <2>3. options \in Seq(Tokens)
    BY <1>1, <1>5
  <2> QED
    BY <1>1, <1>5, <2>2, <2>3
<1>6. ASSUME NEW mode \in {"naive", "global", "hybrid"}, options = <<"--rag-mode", mode>>
      PROVE  /\ At(ReadEnd(options), "option", mode)
             /\ options \in Seq(Tokens)
             /\ options \notin {<<"--no-rag">>, <<"--agent", "--rag-mode", "bypass">>}
  BY <1>c, <1>e, <1>1, <1>6, ReadSteps
<1>7. CASE \E mode \in {"naive", "global", "hybrid"} : options = <<"--rag-mode", mode>>
  BY <1>1, <1>6, <1>7
<1> QED
  BY <1>2, <1>3, <1>4, <1>5, <1>7 DEF QuestionOptions

LEMMA QuestionRouted ==
    ASSUME NEW options \in QuestionOptions, NEW message,
           message.human, message.allowed, message.mention,
           message.tokens = Append(options, "word")
    PROVE  /\ Route(message).mode \in Modes
           /\ Route(message).mode = "bypass" <=>
                options \in {<<"--no-rag">>, <<"--agent", "--rag-mode", "bypass">>}
<1>1. options \in Seq(Tokens)
  BY OptionsRead
<1>2. PICK mode \in Modes :
         /\ At(ReadEnd(options), "option", mode)
         /\ mode = "bypass" <=>
              options \in {<<"--no-rag">>, <<"--agent", "--rag-mode", "bypass">>}
  BY OptionsRead
<1> DEFINE s == ReadEnd(options)
           end == Read(s, "word")
<1>3. s \in Readings /\ s.expect = "option" /\ s.mode = mode /\ s.question = <<>>
  BY <1>2 DEF At
<1>4. FoldLeft(Read, Unread, message.tokens) = end
  BY <1>1, ReadMore DEF Tokens, Words, ReadEnd
<1> HIDE DEF s
<1>5. end = [s EXCEPT !.expect = "question", !.question = Append(<<>>, "word")]
  BY <1>3 DEF Read
<1> HIDE DEF end
<1>6. end.expect = "question" /\ end.question = Append(<<>>, "word") /\ end.mode = mode
  BY <1>3, <1>5 DEF Readings
<1>7. ~Contains(end.question, "unsafe")
  BY <1>6 DEF Contains
<1>8. Route(message) = [accepted |-> TRUE, mode |-> end.mode, rag |-> end.rag,
                        agent |-> end.agent, resume |-> end.resume]
  BY <1>4, <1>6, <1>7 DEF Route
<1>9. Route(message).mode = mode
  BY <1>6, <1>8
<1> QED
  BY <1>2, <1>9

LEMMA CallsEnd ==
    ASSUME NEW c \in Calls
    PROVE  Generate(c) = c[Len(c)]
<1>1. ASSUME NEW x
      PROVE  Generate(<<x>>) = x
  <2> DEFINE answers == <<x>>
  <2>1. answers \in Seq({x}) /\ Len(answers) = 1 /\ answers[1] = x
    OBVIOUS
  <2> HIDE DEF answers
  <2>2. \A i \in 1..(Len(answers) - 1) : answers[i].kind \in {"503", "500", "unreachable"}
    BY <2>1
  <2>3. Generate(answers) = answers[Len(answers)]
    BY <2>1, <2>2, LastAnswer, SMTT(30)
  <2> QED
    BY <2>1, <2>3 DEF answers
<1>2. ASSUME NEW x, NEW y, NEW z, x.kind = "503", y.kind = "unreachable"
      PROVE  Generate(<<x, y, z>>) = z
  <2> DEFINE answers == <<x, y, z>>
             A == {x, y, z}
  <2>1. /\ answers \in Seq(A) /\ Len(answers) = 3
        /\ answers[1] = x /\ answers[2] = y /\ answers[3] = z
    OBVIOUS
  <2> HIDE DEF answers, A
  <2>a. Len(answers) >= 1
    BY <2>1
  <2>2. \A i \in 1..(Len(answers) - 1) : answers[i].kind \in {"503", "500", "unreachable"}
    BY <1>2, <2>1
  <2>3. Generate(answers) = answers[Len(answers)]
    BY <2>1, <2>2, <2>a, LastAnswer
  <2> QED
    BY <2>1, <2>3 DEF answers
<1> DEFINE texts == {{}, {Right, Long}, {Wrong}, {Guess, Equation}, {Known, Guess},
                     {Right, Wrong}, {Spelled}}
<1>5. CASE \E t \in texts : c = <<[kind |-> "ok", text |-> t]>>
  <2>1. PICK t \in texts : c = <<[kind |-> "ok", text |-> t]>>
    BY <1>5
  <2> HIDE DEF texts
  <2> DEFINE reply == [kind |-> "ok", text |-> t]
  <2> HIDE DEF reply
  <2>2. Len(c) = 1 /\ c[1] = reply /\ Generate(c) = reply
    BY <2>1, <1>1 DEF reply
  <2> QED
    BY <2>2
<1>6. CASE c = <<[kind |-> "503"], [kind |-> "unreachable"], [kind |-> "500"]>>
  <2> DEFINE x == [kind |-> "503"]
             y == [kind |-> "unreachable"]
             z == [kind |-> "500"]
  <2>1. x.kind = "503" /\ y.kind = "unreachable" /\ z.kind = "500"
    OBVIOUS
  <2>2. c = <<x, y, z>>
    BY <1>6
  <2> HIDE DEF x, y, z
  <2>3. Len(c) = 3 /\ c[3] = z /\ Generate(c) = z
    BY <1>2, <2>1, <2>2
  <2> QED
    BY <2>1, <2>3
<1>7. CASE c = <<[kind |-> "503"], [kind |-> "unreachable"],
                 [kind |-> "ok", text |-> {Known, Guess}]>>
  <2> DEFINE x == [kind |-> "503"]
             y == [kind |-> "unreachable"]
             z == [kind |-> "ok", text |-> {Known, Guess}]
  <2>1. x.kind = "503" /\ y.kind = "unreachable"
    OBVIOUS
  <2>2. c = <<x, y, z>>
    BY <1>7
  <2> HIDE DEF x, y, z
  <2>3. Len(c) = 3 /\ c[3] = z /\ Generate(c) = z
    BY <1>2, <2>1, <2>2
  <2> QED
    BY <2>3
<1>8. CASE c = <<[kind |-> "malformed"]>>
  <2> DEFINE x == [kind |-> "malformed"]
  <2>1. x.kind = "malformed" /\ c = <<x>>
    BY <1>8
  <2> HIDE DEF x
  <2>2. Len(c) = 1 /\ c[1] = x /\ Generate(c) = x
    BY <1>1, <2>1
  <2> QED
    BY <2>1, <2>2
<1> QED
  BY <1>5, <1>6, <1>7, <1>8 DEF Calls

RunFacts == {NK, NK2, Hero, Mage}

LEMMA RunFactsAre ==
    /\ \A f \in RunFacts : f.predicate \in {"abbreviation_of", "is_a"}
    /\ Mage \notin {NK, NK2, Hero}
    /\ \A Q : \A queryFacts \in Seq(Q) :
         (\E i \in DOMAIN queryFacts : queryFacts[i] = Hero)
            /\ (\A i \in DOMAIN queryFacts : queryFacts[i] \in {NK, NK2, Hero})
              => ~Fits(queryFacts, Mage)
<1>1. /\ NK.subject = "nk" /\ NK2.subject = "nk" /\ Hero.subject = "hero" /\ Mage.subject = "mage"
      /\ NK.predicate = "abbreviation_of" /\ NK2.predicate = "abbreviation_of"
      /\ Hero.predicate = "is_a" /\ Mage.predicate = "is_a"
  BY DEF NK, NK2, Hero, Mage, Fact
<1>2. /\ NK.stype = "abbreviation" /\ NK2.stype = "abbreviation"
      /\ Hero.stype = "job" /\ Mage.stype = "job"
      /\ NK.otype = "item" /\ NK2.otype = "item"
      /\ Hero.otype = "job_family" /\ Mage.otype = "job_family"
  BY DEF NK, NK2, Hero, Mage, Fact
<1>3. \A f \in RunFacts : f.predicate \in {"abbreviation_of", "is_a"}
  BY <1>1 DEF RunFacts
<1>5. Mage \notin {NK, NK2, Hero}
  BY <1>1
<1>6. ASSUME NEW Q, NEW queryFacts \in Seq(Q), NEW i \in DOMAIN queryFacts, queryFacts[i] = Hero,
             \A j \in DOMAIN queryFacts : queryFacts[j] \in {NK, NK2, Hero}
      PROVE  ~Fits(queryFacts, Mage)
  <2> DEFINE types == {"job"}
  <2>1. InScope(Mage, types) = {"mage"}
    BY <1>1, <1>2 DEF InScope
  <2>2. InScope(Hero, types) = {"hero"} /\ InScope(NK, types) = {} /\ InScope(NK2, types) = {}
    BY <1>1, <1>2 DEF InScope
  <2>3. "hero" \in Named(queryFacts, types)
    BY <1>6, <2>2 DEF Named
  <2>4. "mage" \notin Named(queryFacts, types)
    BY <1>6, <2>2 DEF Named
  <2>5. types \in Scopes
    BY DEF Scopes
  <2> HIDE DEF types
  <2> QED
    BY <2>1, <2>3, <2>4, <2>5 DEF Fits
<1> QED
  BY <1>3, <1>5, <1>6

\* The facts of the runs' answers.
LEMMA RunAnswerFacts ==
    ASSUME NEW one \in {<<>>, <<NK>>, <<Hero, NK>>, <<NK, NK2>>},
           NEW linked \in {<<>>, <<Hero>>, <<Mage, Hero>>},
           NEW facts, facts = <<>> \/ \E q \in {one, one \o <<Hero>>}, e \in {<<>>, linked} :
                                        facts = MergeScoped(q, e)
    PROVE  /\ facts \in Seq(RunFacts)
           /\ Hero \in ToSet(one) => Mage \notin ToSet(facts)
<1> DEFINE Q == {NK, NK2, Hero}
           E == {Mage, Hero}
<1>1. one \in Seq(Q) /\ one \o <<Hero>> \in Seq(Q) /\ linked \in Seq(E) /\ <<>> \in Seq(E)
  <2>1. /\ <<>> \in Seq(Q) /\ <<NK>> \in Seq(Q) /\ <<Hero, NK>> \in Seq(Q)
        /\ <<NK, NK2>> \in Seq(Q) /\ <<Hero>> \in Seq(Q)
    OBVIOUS
  <2>2. <<>> \in Seq(E) /\ <<Hero>> \in Seq(E) /\ <<Mage, Hero>> \in Seq(E)
    OBVIOUS
  <2>3. one \in Seq(Q) /\ linked \in Seq(E)
    BY <2>1, <2>2
  <2> HIDE DEF Q
  <2> QED
    BY <2>1, <2>2, <2>3
<1>2. CASE facts = <<>>
  BY <1>2 DEF ToSet
<1>3. CASE \E q \in {one, one \o <<Hero>>}, e \in {<<>>, linked} : facts = MergeScoped(q, e)
  <2>1. PICK q \in {one, one \o <<Hero>>}, e \in {<<>>, linked} : facts = MergeScoped(q, e)
    BY <1>3
  <2>2. q \in Seq(Q) /\ e \in Seq(E)
    BY <1>1
  <2>3. Hero \in ToSet(one) => \E i \in DOMAIN q : q[i] = Hero
    <3>1. ASSUME NEW i \in DOMAIN one, one[i] = Hero
          PROVE  \E j \in DOMAIN q : q[j] = Hero
      <4>1. CASE q = one
        BY <3>1, <4>1
      <4>2. CASE q = one \o <<Hero>>
        <5>1. i \in 1..Len(one) /\ Len(one) \in Nat /\ Len(q) = Len(one) + 1 /\ q[i] = one[i]
          BY <1>1, <4>2
        <5>2. i \in 1..Len(q) /\ DOMAIN q = 1..Len(q)
          BY <2>2, <5>1
        <5> QED
          BY <3>1, <5>1, <5>2
      <4> QED
        BY <4>1, <4>2
    <3> QED
      BY <3>1 DEF ToSet
  <2> HIDE DEF Q, E
  <2>4. facts \in Seq(Q \cup Fitting(E, q))
    BY <2>1, <2>2, MergedFacts
  <2>5. Q \cup Fitting(E, q) \subseteq RunFacts
    BY DEF Q, E, Fitting, RunFacts
  <2>6. facts \in Seq(RunFacts)
    BY <2>4, <2>5
  <2>7. ASSUME Hero \in ToSet(one)
        PROVE  Mage \notin ToSet(facts)
    <3>1. \A i \in DOMAIN q : q[i] \in {NK, NK2, Hero}
      BY <2>2 DEF Q
    <3>2. ~Fits(q, Mage)
      BY <2>2, <2>3, <2>7, <3>1, RunFactsAre
    <3>3. Mage \notin Q \cup Fitting(E, q)
      BY <3>2, RunFactsAre DEF Q, Fitting
    <3>4. \A i \in DOMAIN facts : facts[i] \in Q \cup Fitting(E, q)
      <4> DEFINE R == Q \cup Fitting(E, q)
      <4>1. facts \in Seq(R)
        BY <2>4
      <4> HIDE DEF R
      <4>2. \A i \in DOMAIN facts : facts[i] \in R
        BY <4>1
      <4> QED
        BY <4>2 DEF R
    <3> QED
      BY <3>3, <3>4 DEF ToSet
  <2> QED
    BY <2>6, <2>7
<1> QED
  BY <1>2, <1>3

\* What Ask computes.
AskOutcome(options, found, one, linked, calls, withdrawn) ==
    LET message == [human |-> TRUE, allowed |-> TRUE, mention |-> TRUE,
                    tokens |-> Append(options, "word")]
        answer == Answer(Route(message).mode, found,
                    <<one, one \o <<Hero>> >>, linked, calls)
    IN  [step |-> "ask", options |-> options, calls |-> calls,
         asked |-> one, withdrawn |-> withdrawn, out |-> answer,
         views |-> SourceViews(answer, withdrawn)]

LEMMA AskIsAsked ==
    Ask => \E options \in QuestionOptions, found \in {<<>>, <<"c1">>, <<"c1", "c2">>},
              one \in {<<>>, <<NK>>, <<Hero, NK>>, <<NK, NK2>>},
              linked \in {<<>>, <<Hero>>, <<Mage, Hero>>},
              calls \in Calls \X Calls, withdrawn \in Withdrawals :
                call' = AskOutcome(options, found, one, linked, calls, withdrawn)
BY Zenon DEF Ask, AskOutcome

LEMMA AskIsGrounded == Ask => AnswersAreGrounded'
<1> SUFFICES ASSUME Ask
             PROVE  AnswersAreGrounded'
  OBVIOUS
<1>0. PICK options \in QuestionOptions, found \in {<<>>, <<"c1">>, <<"c1", "c2">>},
           one \in {<<>>, <<NK>>, <<Hero, NK>>, <<NK, NK2>>},
           linked \in {<<>>, <<Hero>>, <<Mage, Hero>>},
           calls \in Calls \X Calls, withdrawn \in Withdrawals :
             call' = AskOutcome(options, found, one, linked, calls, withdrawn)
  BY AskIsAsked
<1> DEFINE message == [human |-> TRUE, allowed |-> TRUE, mention |-> TRUE,
                       tokens |-> Append(options, "word")]
           mode == Route(message).mode
           two == one \o <<Hero>>
           out == Answer(mode, found, <<one, two>>, linked, calls)
           facts == ToSet(out.facts)
<1>1. /\ mode \in Modes
      /\ mode = "bypass" <=> options \in {<<"--no-rag">>, <<"--agent", "--rag-mode", "bypass">>}
  BY QuestionRouted
<1>2. call' = [step |-> "ask", options |-> options, calls |-> calls,
               asked |-> one, withdrawn |-> withdrawn, out |-> out,
               views |-> SourceViews(out, withdrawn)]
  BY <1>0 DEF AskOutcome
<1> HIDE DEF mode, two
<1>3. /\ out.evidence \in {<<>>, found}
      /\ \/ out.facts = <<>>
         \/ \E q \in {one, two}, e \in {<<>>, linked} : out.facts = MergeScoped(q, e)
  BY <1>1, AnswerFacts
<1>4. AnswerStands(mode, out, calls)
  BY <1>1, AnswersStand
<1> HIDE DEF out
<1>5. /\ out.facts \in Seq(RunFacts)
      /\ Hero \in ToSet(one) => Mage \notin facts
  BY <1>3, RunAnswerFacts, ZenonT(60) DEF two
<1>6. SourcesOpen(out.evidence, out.facts, SourceViews(out, withdrawn), withdrawn)
  <2>1. out.evidence \in Seq({"c1", "c2"})
    <3>1. /\ <<>> \in Seq({"c1", "c2"}) /\ <<"c1">> \in Seq({"c1", "c2"})
          /\ <<"c1", "c2">> \in Seq({"c1", "c2"})
      OBVIOUS
    <3>2. found \in Seq({"c1", "c2"})
      BY <3>1
    <3> QED
      BY <1>3, <3>1, <3>2
  <2> QED
    BY <1>5, <2>1, SourcesStayOpen
<1>7. facts \in SUBSET RunFacts
  BY <1>5 DEF ToSet
<1>8. out.facts # <<>> => facts # {}
  <2>1. out.facts # <<>> => 1 \in DOMAIN out.facts
    BY <1>5
  <2> QED
    BY <2>1 DEF ToSet
<1> HIDE DEF facts
<1>9. calls[1] \in Calls /\ calls[2] \in Calls
  OBVIOUS
<1>10. out.mode = "direct" <=> mode = "bypass"
  BY <1>4 DEF AnswerStands
<1> DEFINE last(k) == calls[k][Len(calls[k])]
           first == Generate(calls[1])
           second == Generate(calls[2])
<1>11. ASSUME out.mode = "generated"
       PROVE  /\ out.evidence # <<>> \/ facts # {}
              /\ \A x \in out.text : ~Unconfirmed(x, facts)
  <2>1. /\ out.evidence # <<>> \/ out.facts # <<>>
        /\ \A x \in out.text : ~Unconfirmed(x, facts)
    BY <1>4, <1>11 DEF AnswerStands, facts
  <2> QED
    BY <1>8, <2>1
<1>12. ASSUME out.mode = "retrieval_only"
       PROVE  \/ last(1).kind # "ok"
              \/ /\ \E x \in last(1).text : Unconfirmed(x, facts)
                 /\ \/ last(2).kind # "ok"
                    \/ \E x \in last(2).text : Unconfirmed(x, facts) /\ Registered(x.term, facts)
  <2>1. first = last(1) /\ second = last(2)
    BY <1>9, CallsEnd
  <2>2. \A f \in facts : f.predicate \in KnownPredicates
    BY <1>7, RunFactsAre DEF KnownPredicates
  <2>3. GivenUp(facts, calls)
    BY <1>4, <1>12 DEF AnswerStands, facts
  <2>4. Violations(first.text, facts) # {} => \E x \in first.text : Unconfirmed(x, facts)
    BY <2>2, ViolationIsWrong
  <2>5. Violations(Cleaned(second.text, facts), facts) # {} =>
          \E x \in second.text : Unconfirmed(x, facts) /\ Registered(x.term, facts)
    BY CleanedIsWrong
  <2>6. \/ first.kind # "ok"
        \/ /\ Violations(first.text, facts) # {}
           /\ \/ second.kind # "ok"
              \/ Violations(Cleaned(second.text, facts), facts) # {}
    BY <2>3 DEF GivenUp
  <2> HIDE DEF first, second, last
  <2> QED
    BY <2>1, <2>4, <2>5, <2>6
<1> HIDE DEF last
<1>13. /\ call'.step = "ask" /\ call'.options = options /\ call'.calls = calls
       /\ call'.asked = one /\ call'.withdrawn = withdrawn /\ call'.out = out
       /\ call'.views = SourceViews(out, withdrawn)
  BY <1>2
<1> QED
  BY <1>1, <1>5, <1>6, <1>10, <1>11, <1>12, <1>13 DEF AnswersAreGrounded, facts, last, Unconfirmed

\* Whatever is found, related and said, in every mode and after every
\* withdrawal of the runs: no answer goes out as the model's unless it stands
\* on evidence or facts, which confirm its explanations as far as these are
\* checkable; its words are given up only if a call failed or the last one
\* misnamed a registered term; the facts are the question's own; and each
\* source opens unless it was withdrawn (QAService.answer,
\* load_answer_sources).
THEOREM AnswersAreGroundedAlways == Spec => []AnswersAreGrounded
<1>1. Init => AnswersAreGrounded
  BY StepsApart DEF AnswersAreGrounded
<1>2. AnswersAreGrounded /\ [Next]_call => AnswersAreGrounded'
  BY AskIsGrounded, StepsApart DEF AnswersAreGrounded, Next
<1> QED
  BY <1>1, <1>2, PTL DEF Spec

-----------------------------------------------------------------------------
(* Sorting.                                                                *)

IsOrder(S, R) ==
    /\ \A a \in S : <<a, a>> \notin R
    /\ \A a, b, c \in S : <<a, b>> \in R /\ <<b, c>> \in R => <<a, c>> \in R
    /\ \A a, b \in S : a = b \/ <<a, b>> \in R \/ <<b, a>> \in R

InLine(s, S, R) ==
    /\ s \in Seq(S)
    /\ \A x \in S : \E i \in 1..Len(s) : s[i] = x
    /\ \A i, j \in 1..Len(s) : i < j => <<s[i], s[j]>> \in R
    /\ \A i, j \in 1..Len(s) : s[i] = s[j] => i = j

\* InOrder lists every element once, in the order.
LEMMA InOrderSorts ==
    ASSUME NEW S, IsFiniteSet(S), NEW R, IsOrder(S, R)
    PROVE  InLine(InOrder(S, R), S, R)
<1> DEFINE n == Cardinality(S)
           below(x) == {y \in S : <<y, x>> \in R}
           r == [x \in S |-> Cardinality(below(x))]
           s == InOrder(S, R)
<1>1. n \in Nat
  BY FS_CardinalityType
<1>2. \A x \in S : IsFiniteSet(below(x)) /\ r[x] \in Nat /\ r[x] < n
  <2> SUFFICES ASSUME NEW x \in S
               PROVE  IsFiniteSet(below(x)) /\ r[x] \in Nat /\ r[x] < n
    OBVIOUS
  <2>1. below(x) \in SUBSET (S \ {x})
    BY DEF IsOrder
  <2>2. IsFiniteSet(S \ {x}) /\ Cardinality(S \ {x}) = n - 1
    BY FS_RemoveElement
  <2> HIDE DEF below
  <2>3. IsFiniteSet(below(x)) /\ Cardinality(below(x)) <= Cardinality(S \ {x})
    BY <2>1, <2>2, FS_Subset
  <2>4. Cardinality(below(x)) \in Nat
    BY <2>3, FS_CardinalityType
  <2> HIDE DEF n
  <2> QED
    BY <1>1, <2>2, <2>3, <2>4
<1>c. \A x \in S : r[x] \in Nat /\ r[x] < n
  BY <1>2
<1>d. \A x \in S : IsFiniteSet(below(x))
  BY <1>2
<1>3. \A x, y \in S : <<x, y>> \in R => r[x] < r[y]
  <2> SUFFICES ASSUME NEW x \in S, NEW y \in S, <<x, y>> \in R
               PROVE  r[x] < r[y]
    OBVIOUS
  <2>1. below(x) \in SUBSET below(y) /\ x \in below(y) /\ x \notin below(x)
    BY DEF IsOrder
  <2> HIDE DEF below
  <2>2. r[x] = Cardinality(below(x)) /\ r[y] = Cardinality(below(y))
    OBVIOUS
  <2>3. r[x] <= r[y] /\ r[x] # r[y]
    BY <1>d, <2>1, <2>2, FS_Subset
  <2> HIDE DEF r
  <2> QED
    BY <1>c, <2>3
<1>a. \A x, y \in S : r[x] = r[y] => x = y
  <2> SUFFICES ASSUME NEW x \in S, NEW y \in S, x # y
               PROVE  r[x] # r[y]
    OBVIOUS
  <2>1. <<x, y>> \in R \/ <<y, x>> \in R
    BY DEF IsOrder
  <2> HIDE DEF r, n
  <2> QED
    BY <1>c, <1>3, <2>1
<1>4. \A i \in 1..n : \E x \in S : r[x] = i - 1
  <2> DEFINE f == [x \in S |-> r[x] + 1]
  <2> HIDE DEF r, n, below
  <2>1. f \in Injection(S, 1..n)
    BY <1>a, <1>c, <1>1 DEF Injection, IsInjective
  <2>2. IsFiniteSet(1..n) /\ Cardinality(1..n) = n
    BY <1>1, FS_Interval
  <2>3. f \in Surjection(S, 1..n)
    BY <2>1, <2>2, FS_Injection DEF n
  <2>4. \A i \in 1..n : \E x \in S : f[x] = i
    BY <2>3 DEF Surjection
  <2> QED
    BY <1>1, <1>c, <2>4
<1>5. /\ \A i \in 1..n : s[i] = CHOOSE x \in S : Cardinality({y \in S : <<y, x>> \in R}) = i - 1
      /\ DOMAIN s = 1..n /\ s = [i \in 1..n |-> s[i]]
  <2>1. s = [i \in 1..n |-> CHOOSE x \in S : Cardinality({y \in S : <<y, x>> \in R}) = i - 1]
    BY DEF InOrder
  <2> HIDE DEF s, n
  <2>2. DOMAIN s = 1..n
    BY <2>1, Zenon
  <2>3. ASSUME NEW i \in 1..n
        PROVE  s[i] = CHOOSE x \in S : Cardinality({y \in S : <<y, x>> \in R}) = i - 1
    BY <2>1, Zenon
  <2>4. s = [i \in 1..n |-> s[i]]
    BY <2>1, <2>2, <2>3, Zenon
  <2> QED
    BY <2>2, <2>3, <2>4, Zenon
<1>6. \A i \in 1..n : s[i] \in S /\ r[s[i]] = i - 1
  <2> SUFFICES ASSUME NEW i \in 1..n
               PROVE  s[i] \in S /\ r[s[i]] = i - 1
    OBVIOUS
  <2>1. \E x \in S : Cardinality({y \in S : <<y, x>> \in R}) = i - 1
    BY <1>4
  <2> DEFINE t == s[i]
  <2>2. t \in S /\ Cardinality({y \in S : <<y, t>> \in R}) = i - 1
    BY <1>5, <2>1
  <2> HIDE DEF t
  <2>3. r[t] = i - 1
    BY <2>2
  <2> QED
    BY <2>2, <2>3 DEF t
<1> HIDE DEF r, n, s, below
<1>7. s \in Seq(S) /\ Len(s) = n
  BY <1>1, <1>5, <1>6
<1>8. \A x \in S : \E i \in 1..n : s[i] = x
  <2> SUFFICES ASSUME NEW x \in S
               PROVE  \E i \in 1..n : s[i] = x
    OBVIOUS
  <2> DEFINE i == r[x] + 1
  <2>1. i \in 1..n /\ i - 1 = r[x]
    BY <1>1, <1>c
  <2> HIDE DEF i
  <2> QED
    BY <1>6, <1>a, <2>1
<1>9. \A i, j \in 1..n : i < j => <<s[i], s[j]>> \in R
  <2> SUFFICES ASSUME NEW i \in 1..n, NEW j \in 1..n, i < j
               PROVE  <<s[i], s[j]>> \in R
    OBVIOUS
  <2> DEFINE x == s[i]
             y == s[j]
  <2>1. x \in S /\ y \in S /\ r[x] = i - 1 /\ r[y] = j - 1
    BY <1>6
  <2> HIDE DEF x, y
  <2>2. r[x] < r[y]
    BY <2>1
  <2>3. x # y /\ ~(<<y, x>> \in R)
    BY <1>c, <1>3, <2>1, <2>2
  <2>4. <<x, y>> \in R
    BY <2>1, <2>3 DEF IsOrder
  <2> QED
    BY <2>4 DEF x, y
<1>10. \A i, j \in 1..n : s[i] = s[j] => i = j
  BY <1>6
<1> QED
  BY <1>7, <1>8, <1>9, <1>10 DEF InLine, s

-----------------------------------------------------------------------------
(* Evidence.                                                               *)

\* Shortlist and its step.
ShortStep(kept, id, about) ==
    IF /\ Len(kept) < RerankLimit
       /\ about[id].inScope
       /\ Cardinality(OfFamily(kept, about, id)) < GroupCap
    THEN Append(kept, id)
    ELSE kept

ShortRun(p, Ids, fused, about) ==
    /\ p \in [0..Len(fused) -> Seq(Ids)]
    /\ p[0] = <<>>
    /\ \A k \in 1..Len(fused) : p[k] = ShortStep(p[k - 1], fused[k], about)
    /\ Shortlist(fused, about) = p[Len(fused)]

LEMMA ShortFold ==
    ASSUME NEW Ids, NEW fused \in Seq(Ids), NEW about
    PROVE  \E p : ShortRun(p, Ids, fused, about)
<1> DEFINE n == Len(fused)
           T == Seq(Ids)
           base == <<>>
           body(g) == [s \in SUBSET (1..n) |-> IF s = {} THEN base
                         ELSE ShortStep(g[s \ {Max(s)}], fused[Max(s)], about)]
           step == [k \in 1..n |-> [a \in T |-> ShortStep(a, fused[k], about)]]
           iter == CHOOSE g : g = body(g)
<1>1. n \in Nat /\ DOMAIN fused = 1..n
  OBVIOUS
<1>2. Shortlist(fused, about) = iter[1..n]
  BY <1>1 DEF Shortlist, ShortStep, FoldLeft, MapThenFoldSet
<1>3. base \in T /\ \A k \in 1..n, a \in T : ShortStep(a, fused[k], about) \in T
  BY DEF ShortStep
<1>4. step \in Steps(n, T)
  BY <1>3 DEF Steps
<1> HIDE DEF n, T, base
<1>5. iter = body(iter)
  <2> HIDE DEF step, body
  <2>1. PICK g : g \in [SUBSET (1..n) -> T] /\ IsFold(g, n, T, base, step)
    BY <1>1, <1>3, <1>4, FoldExists
  <2>2. \A s \in SUBSET (1..n) : g[s] = body(g)[s]
    BY <2>1 DEF IsFold, step, body
  <2>3. g = body(g)
    BY <2>1, <2>2 DEF body
  <2> QED
    BY <2>3
<1> HIDE DEF iter
<1>6. Folds(iter, n, T, base, step)
  BY <1>5 DEF Folds
<1>7. PICK q : IsRun(q, n, T, base, step) /\ iter[1..n] = q[n]
  <2> HIDE DEF step
  <2> QED
    BY <1>1, <1>3, <1>4, <1>6, FoldRuns
<1>8. /\ q \in [0..n -> T] /\ q[0] = base
      /\ \A k \in 1..n : q[k] = ShortStep(q[k - 1], fused[k], about)
  BY <1>7 DEF IsRun
<1> QED
  BY <1>2, <1>7, <1>8 DEF n, T, base, ShortRun

\* Evidence and its step.
ChooseStep(kept, id, about, score) ==
    IF /\ Len(kept) < EvidenceLimit
       /\ score[id] >= MinimumScore
       /\ OfFamily(kept, about, id) = {}
    THEN Append(kept, id)
    ELSE kept

ChooseRun(p, Ids, ranked, about, score) ==
    /\ p \in [0..Len(ranked) -> Seq(Ids)]
    /\ p[0] = <<>>
    /\ \A k \in 1..Len(ranked) : p[k] = ChooseStep(p[k - 1], ranked[k], about, score)
    /\ Evidence(ranked, about, score) = p[Len(ranked)]

LEMMA ChooseFold ==
    ASSUME NEW Ids, NEW ranked \in Seq(Ids), NEW about, NEW score
    PROVE  \E p : ChooseRun(p, Ids, ranked, about, score)
<1> DEFINE n == Len(ranked)
           T == Seq(Ids)
           base == <<>>
           body(g) == [s \in SUBSET (1..n) |-> IF s = {} THEN base
                         ELSE ChooseStep(g[s \ {Max(s)}], ranked[Max(s)], about, score)]
           step == [k \in 1..n |-> [a \in T |-> ChooseStep(a, ranked[k], about, score)]]
           iter == CHOOSE g : g = body(g)
<1>1. n \in Nat /\ DOMAIN ranked = 1..n
  OBVIOUS
<1>2. Evidence(ranked, about, score) = iter[1..n]
  BY <1>1 DEF Evidence, ChooseStep, FoldLeft, MapThenFoldSet
<1>3. base \in T /\ \A k \in 1..n, a \in T : ChooseStep(a, ranked[k], about, score) \in T
  BY DEF ChooseStep
<1>4. step \in Steps(n, T)
  BY <1>3 DEF Steps
<1> HIDE DEF n, T, base
<1>5. iter = body(iter)
  <2> HIDE DEF step, body
  <2>1. PICK g : g \in [SUBSET (1..n) -> T] /\ IsFold(g, n, T, base, step)
    BY <1>1, <1>3, <1>4, FoldExists
  <2>2. \A s \in SUBSET (1..n) : g[s] = body(g)[s]
    BY <2>1 DEF IsFold, step, body
  <2>3. g = body(g)
    BY <2>1, <2>2 DEF body
  <2> QED
    BY <2>3
<1> HIDE DEF iter
<1>6. Folds(iter, n, T, base, step)
  BY <1>5 DEF Folds
<1>7. PICK q : IsRun(q, n, T, base, step) /\ iter[1..n] = q[n]
  <2> HIDE DEF step
  <2> QED
    BY <1>1, <1>3, <1>4, <1>6, FoldRuns
<1>8. /\ q \in [0..n -> T] /\ q[0] = base
      /\ \A k \in 1..n : q[k] = ChooseStep(q[k - 1], ranked[k], about, score)
  BY <1>7 DEF IsRun
<1> QED
  BY <1>2, <1>7, <1>8 DEF n, T, base, ChooseRun

\* What is kept of the first k ranked candidates: different ones, all in
\* scope, and what is left out is out of scope or overtaken.
Shorted(kept, fused, about, k) ==
    /\ \A i \in 1..Len(kept) : \E j \in 1..k : kept[i] = fused[j]
    /\ \A i, j \in 1..Len(kept) : kept[i] = kept[j] => i = j
    /\ \A i \in 1..Len(kept) : about[kept[i]].inScope
    /\ \A j \in 1..k : \/ \E i \in 1..Len(kept) : kept[i] = fused[j]
                       \/ ~about[fused[j]].inScope
                       \/ Overtaken(fused[j], fused, about)

LEMMA ShortedMore ==
    ASSUME NEW Ids, NEW fused \in Seq(Ids), NEW about,
           \A i, j \in 1..Len(fused) : fused[i] = fused[j] => i = j,
           NEW k \in 0..(Len(fused) - 1), NEW kept \in Seq(Ids), Shorted(kept, fused, about, k)
    PROVE  Shorted(ShortStep(kept, fused[k + 1], about), fused, about, k + 1)
<1> DEFINE n == Len(fused)
           m == Len(kept)
           id == fused[k + 1]
           above == Above(fused, about, k + 1)
           new == ShortStep(kept, id, about)
<1>1. /\ n \in Nat /\ m \in Nat /\ k \in Nat /\ k + 1 \in 1..n /\ id \in Ids
      /\ DOMAIN fused = 1..n /\ DOMAIN kept = 1..m /\ (k + 1) - 1 = k
      /\ \A j \in 1..k : j \in 1..n /\ j \in 1..(k + 1) /\ j # k + 1
      /\ \A j \in 1..(k + 1) : j \in 1..k \/ j = k + 1
  OBVIOUS
<1>2. above = {fused[j] : j \in {i \in 1..k : about[fused[i]].inScope}}
  BY <1>1 DEF Above
<1>3. IsFiniteSet(above)
  <2>1. IsFiniteSet(1..k)
    BY <1>1, FS_Interval
  <2> DEFINE S == {i \in 1..k : about[fused[i]].inScope}
             g == [j \in S |-> fused[j]]
  <2>2. IsFiniteSet(S)
    BY <2>1, FS_Subset
  <2>3. g \in Surjection(S, above)
    BY <1>2 DEF Surjection
  <2> HIDE DEF S, g, above
  <2> QED
    BY <2>2, <2>3, FS_Surjection
<1> HIDE DEF n, m, id, above, new
<1>4. /\ \A i \in 1..m : \E j \in 1..k : kept[i] = fused[j]
      /\ \A i, j \in 1..m : kept[i] = kept[j] => i = j
      /\ \A i \in 1..m : about[kept[i]].inScope
      /\ \A j \in 1..k : \/ \E i \in 1..m : kept[i] = fused[j]
                         \/ ~about[fused[j]].inScope
                         \/ Overtaken(fused[j], fused, about)
  BY DEF Shorted, m
<1>5. \A i \in 1..m : kept[i] \in above /\ kept[i] # id
  <2> SUFFICES ASSUME NEW i \in 1..m
               PROVE  kept[i] \in above /\ kept[i] # id
    OBVIOUS
  <2>1. PICK j \in 1..k : kept[i] = fused[j]
    BY <1>4
  <2>2. about[fused[j]].inScope
    BY <1>4, <2>1
  <2>3. fused[j] # id
    BY <1>1 DEF id, n
  <2> QED
    BY <1>2, <2>1, <2>2, <2>3
<1>6. CASE m < RerankLimit /\ about[id].inScope /\ Cardinality(OfFamily(kept, about, id)) < GroupCap
  <2>1. new = Append(kept, id)
    BY <1>6 DEF new, ShortStep, m
  <2>2. /\ Len(new) = m + 1 /\ new[m + 1] = id
        /\ \A i \in 1..m : new[i] = kept[i] /\ i \in 1..(m + 1) /\ i # m + 1
        /\ \A i \in 1..(m + 1) : i \in 1..m \/ i = m + 1
        /\ m + 1 \in 1..(m + 1)
    BY <1>1, <2>1 DEF m
  <2>3. \A i \in 1..(m + 1) : \E j \in 1..(k + 1) : new[i] = fused[j]
    BY <1>1, <1>4, <2>2 DEF id
  <2>4. \A i, j \in 1..(m + 1) : new[i] = new[j] => i = j
    <3> SUFFICES ASSUME NEW i \in 1..(m + 1), NEW j \in 1..(m + 1), new[i] = new[j]
                 PROVE  i = j
      OBVIOUS
    <3>1. CASE i \in 1..m /\ j \in 1..m
      BY <1>4, <2>2, <3>1
    <3>2. CASE i \in 1..m /\ j = m + 1
      BY <1>5, <2>2, <3>2
    <3>3. CASE j \in 1..m /\ i = m + 1
      BY <1>5, <2>2, <3>3
    <3> QED
      BY <2>2, <3>1, <3>2, <3>3
  <2>5. \A i \in 1..(m + 1) : about[new[i]].inScope
    BY <1>4, <1>6, <2>2
  <2>6. \A j \in 1..(k + 1) : \/ \E i \in 1..(m + 1) : new[i] = fused[j]
                              \/ ~about[fused[j]].inScope
                              \/ Overtaken(fused[j], fused, about)
    <3> SUFFICES ASSUME NEW j \in 1..(k + 1), about[fused[j]].inScope,
                        ~Overtaken(fused[j], fused, about)
                 PROVE  \E i \in 1..(m + 1) : new[i] = fused[j]
      OBVIOUS
    <3>1. CASE j \in 1..k
      BY <1>4, <2>2, <3>1
    <3>2. CASE j = k + 1
      BY <2>2, <3>2 DEF id
    <3> QED
      BY <1>1, <3>1, <3>2
  <2> QED
    BY <2>2, <2>3, <2>4, <2>5, <2>6 DEF Shorted, new, id
<1>7. CASE ~(m < RerankLimit /\ about[id].inScope /\ Cardinality(OfFamily(kept, about, id)) < GroupCap)
  <2>1. new = kept
    BY <1>7 DEF new, ShortStep, m
  <2>2. ~about[id].inScope \/ Overtaken(id, fused, about)
    <3>1. CASE ~about[id].inScope
      BY <3>1
    <3>2. CASE ~(m < RerankLimit)
      <4> DEFINE g == [i \in 1..m |-> kept[i]]
      <4>1. g \in Injection(1..m, above)
        BY <1>4, <1>5 DEF Injection, IsInjective
      <4>2. Cardinality(1..m) = m
        BY <1>1, FS_Interval, SMTT(30)
      <4>3. Cardinality(1..m) <= Cardinality(above)
        BY <1>3, <4>1, FS_Injection
      <4>4. RerankLimit \in Nat /\ Cardinality(above) \in Nat
        BY <1>3, FS_CardinalityType, RetrievalAssumption
      <4>5. Cardinality(above) >= RerankLimit
        BY <1>1, <3>2, <4>2, <4>3, <4>4
      <4>6. Overtaken(id, fused, about)
        BY <1>1, <4>5 DEF Overtaken, id, above
      <4> QED
        BY <4>6
    <3>3. CASE ~(Cardinality(OfFamily(kept, about, id)) < GroupCap)
      <4> DEFINE S == OfFamily(kept, about, id)
                 T == Siblings(above, about, id)
                 g == [i \in S |-> kept[i]]
      <4>1. S \in SUBSET (1..m) /\ \A i \in S : Family(about[kept[i]]) = Family(about[id])
        BY <1>1 DEF OfFamily
      <4>2. IsFiniteSet(S) /\ IsFiniteSet(T)
        <5>1. IsFiniteSet(1..m)
          BY <1>1, FS_Interval
        <5>2. T \in SUBSET above
          BY DEF Siblings
        <5> HIDE DEF S, T
        <5> QED
          BY <1>3, <4>1, <5>1, <5>2, FS_Subset
      <4> HIDE DEF S
      <4>3. \A i \in S : kept[i] \in T
        BY <1>5, <4>1 DEF Siblings
      <4>4. g \in Injection(S, T)
        BY <1>4, <4>1, <4>3 DEF Injection, IsInjective
      <4>5. Cardinality(S) <= Cardinality(T)
        BY <4>2, <4>4, FS_Injection
      <4> HIDE DEF T
      <4>6. GroupCap \in Nat /\ Cardinality(S) \in Nat /\ Cardinality(T) \in Nat
        BY <4>2, FS_CardinalityType, RetrievalAssumption
      <4>7. Cardinality(T) >= GroupCap
        BY <3>3, <4>5, <4>6 DEF S
      <4>8. Overtaken(id, fused, about)
        BY <1>1, <4>7 DEF Overtaken, id, above, T
      <4> QED
        BY <4>8
    <3> QED
      BY <1>7, <3>1, <3>2, <3>3
  <2>3. \A i \in 1..m : \E j \in 1..(k + 1) : new[i] = fused[j]
    BY <1>1, <1>4, <2>1
  <2>4. \A j \in 1..(k + 1) : \/ \E i \in 1..m : new[i] = fused[j]
                              \/ ~about[fused[j]].inScope
                              \/ Overtaken(fused[j], fused, about)
    BY <1>1, <1>4, <2>1, <2>2 DEF id
  <2>5. Len(new) = m
    BY <2>1 DEF m
  <2> QED
    BY <1>4, <2>1, <2>3, <2>4, <2>5 DEF Shorted, new, id
<1> QED
  BY <1>6, <1>7 DEF new, id

\* So the shortlist of all.
LEMMA Shortlisted ==
    ASSUME NEW Ids, NEW fused \in Seq(Ids), NEW about,
           \A i, j \in 1..Len(fused) : fused[i] = fused[j] => i = j
    PROVE  /\ Shortlist(fused, about) \in Seq(Ids)
           /\ Shorted(Shortlist(fused, about), fused, about, Len(fused))
<1> DEFINE n == Len(fused)
<1>0. n \in Nat
  OBVIOUS
<1>1. PICK p : ShortRun(p, Ids, fused, about)
  BY ShortFold
<1>2. /\ p \in [0..n -> Seq(Ids)] /\ p[0] = <<>> /\ Shortlist(fused, about) = p[n]
      /\ \A k \in 1..n : p[k] = ShortStep(p[k - 1], fused[k], about)
  BY <1>1 DEF ShortRun
<1> DEFINE P == {k \in 0..n : Shorted(p[k], fused, about, k)}
<1>3. 0 \in P
  BY <1>0, <1>2 DEF Shorted
<1>4. ASSUME NEW k \in 0..(n - 1), k \in P
      PROVE  k + 1 \in P
  BY <1>0, <1>2, <1>4, ShortedMore
<1> HIDE DEF P, n
<1>5. \A k \in 0..n : k \in P
  BY <1>0, <1>3, <1>4, CountInduction
<1>6. n \in 0..n
  BY <1>0
<1>7. Shorted(p[n], fused, about, n) /\ p[n] \in Seq(Ids)
  BY <1>2, <1>5, <1>6 DEF P
<1> QED
  BY <1>2, <1>7 DEF n

\* Why a ranked candidate is not among the kept ones.
Missed(id, kept, about, score) ==
    \/ score[id] < MinimumScore
    \/ \E i \in 1..Len(kept) : /\ Family(about[kept[i]]) = Family(about[id])
                               /\ score[kept[i]] >= score[id]
    \/ /\ Len(kept) = EvidenceLimit
       /\ \A i \in 1..Len(kept) : score[kept[i]] >= score[id]

\* What is kept of the first k: the best first, one of a family.
Chosen(kept, ranked, about, score, k) ==
    /\ \A i \in 1..Len(kept) : \E j \in 1..k : kept[i] = ranked[j]
    /\ \A i \in 1..Len(kept) : score[kept[i]] >= MinimumScore
    /\ \A i, j \in 1..Len(kept) : i < j =>
          /\ Family(about[kept[i]]) # Family(about[kept[j]])
          /\ score[kept[i]] >= score[kept[j]]
    /\ Len(kept) <= EvidenceLimit
    /\ \A j \in 1..k : \/ \E i \in 1..Len(kept) : kept[i] = ranked[j]
                       \/ Missed(ranked[j], kept, about, score)

LEMMA ChosenMore ==
    ASSUME NEW Ids, NEW ranked \in Seq(Ids), NEW about, NEW score,
           \A i, j \in 1..Len(ranked) : i < j => score[ranked[i]] >= score[ranked[j]],
           \A id \in Ids : score[id] \in Nat,
           NEW k \in 0..(Len(ranked) - 1), NEW kept \in Seq(Ids),
           Chosen(kept, ranked, about, score, k)
    PROVE  Chosen(ChooseStep(kept, ranked[k + 1], about, score), ranked, about, score, k + 1)
<1> DEFINE n == Len(ranked)
           m == Len(kept)
           id == ranked[k + 1]
           new == ChooseStep(kept, id, about, score)
<1>1. /\ n \in Nat /\ m \in Nat /\ k \in Nat /\ k + 1 \in 1..n /\ id \in Ids
      /\ DOMAIN ranked = 1..n /\ DOMAIN kept = 1..m
      /\ \A j \in 1..k : j \in 1..n /\ j \in 1..(k + 1) /\ j < k + 1
      /\ \A j \in 1..(k + 1) : j \in 1..k \/ j = k + 1
  OBVIOUS
<1>2. EvidenceLimit \in Nat /\ MinimumScore \in Nat
  BY RetrievalAssumption
<1> HIDE DEF n, m, id, new
<1>3. /\ \A i \in 1..m : \E j \in 1..k : kept[i] = ranked[j]
      /\ \A i \in 1..m : score[kept[i]] >= MinimumScore
      /\ \A i, j \in 1..m : i < j => /\ Family(about[kept[i]]) # Family(about[kept[j]])
                                     /\ score[kept[i]] >= score[kept[j]]
      /\ m <= EvidenceLimit
      /\ \A j \in 1..k : \/ \E i \in 1..m : kept[i] = ranked[j]
                         \/ Missed(ranked[j], kept, about, score)
  BY DEF Chosen, m
<1>4. \A i \in 1..m : score[kept[i]] >= score[id]
  BY <1>1, <1>3 DEF id, n
<1>5. CASE m < EvidenceLimit /\ score[id] >= MinimumScore /\ OfFamily(kept, about, id) = {}
  <2>1. new = Append(kept, id)
    BY <1>5 DEF new, ChooseStep, m
  <2>2. /\ Len(new) = m + 1 /\ new[m + 1] = id
        /\ \A i \in 1..m : new[i] = kept[i] /\ i \in 1..(m + 1) /\ i < m + 1
        /\ \A i \in 1..(m + 1) : i \in 1..m \/ i = m + 1
        /\ m + 1 \in 1..(m + 1)
    BY <1>1, <2>1 DEF m
  <2>3. \A i \in 1..m : Family(about[kept[i]]) # Family(about[id])
    BY <1>1, <1>5 DEF OfFamily
  <2>4. \A i \in 1..(m + 1) : \E j \in 1..(k + 1) : new[i] = ranked[j]
    <3>1. \A i \in 1..m : \E j \in 1..(k + 1) : new[i] = ranked[j]
      BY <1>1, <1>3, <2>2
    <3>2. new[m + 1] = ranked[k + 1] /\ k + 1 \in 1..(k + 1)
      BY <1>1, <2>2 DEF id
    <3> QED
      BY <2>2, <3>1, <3>2
  <2>5. \A i \in 1..(m + 1) : score[new[i]] >= MinimumScore
    BY <1>3, <1>5, <2>2
  <2>6. \A i, j \in 1..(m + 1) : i < j => /\ Family(about[new[i]]) # Family(about[new[j]])
                                          /\ score[new[i]] >= score[new[j]]
    <3> SUFFICES ASSUME NEW i \in 1..(m + 1), NEW j \in 1..(m + 1), i < j
                 PROVE  /\ Family(about[new[i]]) # Family(about[new[j]])
                        /\ score[new[i]] >= score[new[j]]
      OBVIOUS
    <3>1. i \in 1..m
      BY <1>1
    <3>2. CASE j \in 1..m
      BY <1>3, <2>2, <3>1, <3>2, ZenonT(60)
    <3>3. CASE j = m + 1
      BY <1>4, <2>2, <2>3, <3>1, <3>3
    <3> QED
      BY <2>2, <3>2, <3>3
  <2>7. m + 1 <= EvidenceLimit
    BY <1>1, <1>2, <1>5
  <2>8. ASSUME NEW j \in 1..k, Missed(ranked[j], kept, about, score)
        PROVE  Missed(ranked[j], new, about, score)
    <3>1. ~(m = EvidenceLimit)
      BY <1>1, <1>2, <1>5
    <3>2. CASE score[ranked[j]] < MinimumScore
      BY <3>2 DEF Missed
    <3>3. CASE \E i \in 1..m : /\ Family(about[kept[i]]) = Family(about[ranked[j]])
                               /\ score[kept[i]] >= score[ranked[j]]
      BY <2>2, <3>3 DEF Missed
    <3> QED
      BY <2>8, <3>1, <3>2, <3>3 DEF Missed, m
  <2>9. \A j \in 1..(k + 1) : \/ \E i \in 1..(m + 1) : new[i] = ranked[j]
                              \/ Missed(ranked[j], new, about, score)
    <3> SUFFICES ASSUME NEW j \in 1..(k + 1)
                 PROVE  \/ \E i \in 1..(m + 1) : new[i] = ranked[j]
                        \/ Missed(ranked[j], new, about, score)
      OBVIOUS
    <3>1. CASE j \in 1..k
      BY <1>3, <2>2, <2>8, <3>1
    <3>2. CASE j = k + 1
      BY <2>2, <3>2 DEF id
    <3> QED
      BY <1>1, <3>1, <3>2
  <2> QED
    BY <2>2, <2>4, <2>5, <2>6, <2>7, <2>9 DEF Chosen, new, id
<1>6. CASE ~(m < EvidenceLimit /\ score[id] >= MinimumScore /\ OfFamily(kept, about, id) = {})
  <2>1. new = kept
    BY <1>6 DEF new, ChooseStep, m
  <2>2. Missed(id, kept, about, score)
    <3>1. CASE ~(score[id] >= MinimumScore)
      <4>1. score[id] < MinimumScore
        BY <1>1, <1>2, <3>1
      <4> QED
        BY <4>1 DEF Missed
    <3>2. CASE ~(m < EvidenceLimit)
      <4>1. m = EvidenceLimit
        BY <1>1, <1>2, <1>3, <3>2
      <4> QED
        BY <1>4, <4>1 DEF Missed, m
    <3>3. CASE OfFamily(kept, about, id) # {}
      BY <1>1, <1>4, <3>3 DEF OfFamily, Missed, m
    <3> QED
      BY <1>6, <3>1, <3>2, <3>3
  <2>3. \A i \in 1..m : \E j \in 1..(k + 1) : kept[i] = ranked[j]
    BY <1>1, <1>3
  <2>4. \A j \in 1..(k + 1) : \/ \E i \in 1..m : kept[i] = ranked[j]
                              \/ Missed(ranked[j], kept, about, score)
    BY <1>1, <1>3, <2>2 DEF id
  <2> QED
    BY <1>3, <2>1, <2>3, <2>4 DEF Chosen, new, id, m
<1> QED
  BY <1>5, <1>6 DEF new, id

LEMMA ChosenOfAll ==
    ASSUME NEW Ids, NEW ranked \in Seq(Ids), NEW about, NEW score,
           \A i, j \in 1..Len(ranked) : i < j => score[ranked[i]] >= score[ranked[j]],
           \A id \in Ids : score[id] \in Nat
    PROVE  /\ Evidence(ranked, about, score) \in Seq(Ids)
           /\ Chosen(Evidence(ranked, about, score), ranked, about, score, Len(ranked))
<1> DEFINE n == Len(ranked)
<1>0. n \in Nat
  OBVIOUS
<1>1. PICK p : ChooseRun(p, Ids, ranked, about, score)
  BY ChooseFold
<1>2. /\ p \in [0..n -> Seq(Ids)] /\ p[0] = <<>> /\ Evidence(ranked, about, score) = p[n]
      /\ \A k \in 1..n : p[k] = ChooseStep(p[k - 1], ranked[k], about, score)
  BY <1>1 DEF ChooseRun
<1> DEFINE P == {k \in 0..n : Chosen(p[k], ranked, about, score, k)}
<1>3. 0 \in P
  BY <1>0, <1>2, RetrievalAssumption DEF Chosen
<1>4. ASSUME NEW k \in 0..(n - 1), k \in P
      PROVE  k + 1 \in P
  <2>1. k + 1 \in 1..n /\ (k + 1) - 1 = k /\ k \in 0..n /\ k + 1 \in 0..n
    BY <1>0, SMTT(30)
  <2>2. p[k + 1] = ChooseStep(p[k], ranked[k + 1], about, score) /\ p[k] \in Seq(Ids)
    BY <1>2, <2>1
  <2>3. Chosen(p[k], ranked, about, score, k)
    BY <1>4
  <2>4. Chosen(ChooseStep(p[k], ranked[k + 1], about, score), ranked, about, score, k + 1)
    BY <2>2, <2>3, ChosenMore
  <2> HIDE DEF n
  <2> QED
    BY <2>1, <2>2, <2>4
<1> HIDE DEF P, n
<1>5. \A k \in 0..n : k \in P
  BY <1>0, <1>3, <1>4, CountInduction
<1>6. n \in 0..n
  BY <1>0
<1>7. Chosen(p[n], ranked, about, score, n) /\ p[n] \in Seq(Ids)
  BY <1>2, <1>5, <1>6 DEF P
<1> QED
  BY <1>2, <1>7 DEF n

LEMMA MaxOfTwo ==
    ASSUME NEW a \in Nat, NEW b \in Nat
    PROVE  Max({a, b}) = IF b > a THEN b ELSE a
<1> DEFINE S == {a, b}
           m == IF b > a THEN b ELSE a
<1>1. m \in S /\ \A y \in S : m >= y
  OBVIOUS
<1>2. \A x \in S : (\A y \in S : x >= y) => x = m
  OBVIOUS
<1>3. Max(S) = CHOOSE x \in S : \A y \in S : x >= y
  BY DEF Max
<1> HIDE DEF S, m
<1>4. Max(S) = m
  BY <1>1, <1>2, <1>3
<1> QED
  BY <1>4 DEF S, m

LEMMA ToSetFinite ==
    ASSUME NEW C, NEW s \in Seq(C)
    PROVE  IsFiniteSet(ToSet(s)) /\ ToSet(s) \in SUBSET C
<1> DEFINE n == Len(s)
<1>1. n \in Nat /\ DOMAIN s = 1..n /\ s \in [1..n -> C]
  OBVIOUS
<1>2. ToSet(s) = {s[i] : i \in 1..n}
  BY <1>1 DEF ToSet
<1> HIDE DEF n
<1>3. s \in Surjection(1..n, ToSet(s))
  BY <1>1, <1>2 DEF Surjection
<1>4. IsFiniteSet(1..n)
  BY <1>1, FS_Interval
<1>5. IsFiniteSet(ToSet(s))
  BY <1>3, <1>4, FS_Surjection
<1> QED
  BY <1>1, <1>2, <1>5

\* The order of the fusion, and of the scores with it.
FusionOrder(S, fusion) ==
    {p \in S \X S : \/ fusion[p[1]] > fusion[p[2]]
                    \/ fusion[p[1]] = fusion[p[2]] /\ p[1] < p[2]}

ScoreOrder(S, score, fusion) ==
    {p \in S \X S : \/ score[p[1]] > score[p[2]]
                    \/ score[p[1]] = score[p[2]] /\ fusion[p[1]] > fusion[p[2]]
                    \/ score[p[1]] = score[p[2]] /\ fusion[p[1]] = fusion[p[2]] /\ p[1] < p[2]}

LEMMA OrdersOrder ==
    ASSUME NEW S \in SUBSET Nat, NEW score, NEW fusion,
           \A x \in S : score[x] \in Int, \A x \in S : fusion[x] \in Int
    PROVE  IsOrder(S, FusionOrder(S, fusion)) /\ IsOrder(S, ScoreOrder(S, score, fusion))
<1>1. \A a, b \in S : <<a, b>> \in FusionOrder(S, fusion) <=>
        \/ fusion[a] > fusion[b]
        \/ fusion[a] = fusion[b] /\ a < b
  BY DEF FusionOrder
<1>2. \A a, b \in S : <<a, b>> \in ScoreOrder(S, score, fusion) <=>
        \/ score[a] > score[b]
        \/ score[a] = score[b] /\ fusion[a] > fusion[b]
        \/ score[a] = score[b] /\ fusion[a] = fusion[b] /\ a < b
  BY DEF ScoreOrder
<1>3. \A x \in S : x \in Int
  OBVIOUS
<1> DEFINE R == FusionOrder(S, fusion)
           Q == ScoreOrder(S, score, fusion)
<1> HIDE DEF R, Q
<1>4. IsOrder(S, R)
  BY <1>1, <1>3 DEF R, IsOrder
<1>5. IsOrder(S, Q)
  <2>1. \A a \in S : <<a, a>> \notin Q
    BY <1>2, <1>3 DEF Q
  <2>2. \A a, b, c \in S : <<a, b>> \in Q /\ <<b, c>> \in Q => <<a, c>> \in Q
    BY <1>2, <1>3 DEF Q
  <2>3. \A a, b \in S : a = b \/ <<a, b>> \in Q \/ <<b, a>> \in Q
    <3> SUFFICES ASSUME NEW a \in S, NEW b \in S, a # b
                 PROVE  <<a, b>> \in Q \/ <<b, a>> \in Q
      OBVIOUS
    <3>1. /\ score[a] \in Int /\ score[b] \in Int /\ fusion[a] \in Int /\ fusion[b] \in Int
          /\ a \in Int /\ b \in Int
      BY <1>3
    <3>2. a < b \/ b < a
      BY <3>1
    <3>3. \/ score[a] > score[b]
          \/ score[b] > score[a]
          \/ score[a] = score[b] /\ fusion[a] > fusion[b]
          \/ score[a] = score[b] /\ fusion[b] > fusion[a]
          \/ score[a] = score[b] /\ fusion[a] = fusion[b]
      BY <3>1
    <3> QED
      BY <1>2, <3>2, <3>3 DEF Q
  <2> QED
    BY <2>1, <2>2, <2>3 DEF IsOrder
<1> QED
  BY <1>4, <1>5 DEF R, Q

LEMMA FusionType ==
    ASSUME NEW Ids, NEW dense \in Seq(Ids), NEW lexical \in Seq(Ids), NEW about,
           NEW id, about[id].boost \in Nat
    PROVE  FusionScore(dense, lexical, about, id) \in Int
<1>1. ASSUME NEW listing \in Seq(Ids)
      PROVE  Listed(listing, id) \in Int
  <2>1. CASE Contains(listing, id)
    <3>1. \E rank \in DOMAIN listing : listing[rank] = id
      BY <2>1 DEF Contains
    <3> DEFINE rank == CHOOSE r \in DOMAIN listing : listing[r] = id
    <3>2. rank \in DOMAIN listing
      BY <3>1
    <3>3. rank \in Nat /\ 60 + rank \in Nat /\ 60 + rank > 0
      BY <3>2
    <3>4. Listed(listing, id) = (61 * 62 * 63) \div (60 + rank)
      BY <2>1 DEF Listed, Share
    <3> HIDE DEF rank
    <3> DEFINE d == 60 + rank
               c == 61 * 62 * 63
    <3>5. d \in Nat /\ d > 0 /\ c \in Int
      BY <3>3
    <3> HIDE DEF d, c
    <3>6. c \div d \in Int
      BY <3>5
    <3> QED
      BY <3>4, <3>6 DEF c, d
  <2>2. CASE ~Contains(listing, id)
    BY <2>2 DEF Listed
  <2> QED
    BY <2>1, <2>2
<1>2. Listed(dense, id) \in Int /\ Listed(lexical, id) \in Int
  BY <1>1
<1> QED
  BY <1>2 DEF FusionScore

\* The listings fused: every candidate once.
LEMMA FusedOnce ==
    ASSUME NEW Ids \in SUBSET Nat, NEW dense \in Seq(Ids), NEW lexical \in Seq(Ids), NEW about,
           \A id \in Ids : about[id].boost \in Nat
    PROVE  LET S == ToSet(dense) \cup ToSet(lexical)
               fused == Fused(dense, lexical, about)
           IN  /\ S \in SUBSET Ids
               /\ fused \in Seq(S)
               /\ \A x \in S : \E i \in 1..Len(fused) : fused[i] = x
               /\ \A i, j \in 1..Len(fused) : fused[i] = fused[j] => i = j
<1> DEFINE S == ToSet(dense) \cup ToSet(lexical)
           fused == Fused(dense, lexical, about)
           fusion == [id \in S |-> FusionScore(dense, lexical, about, id)]
           R == FusionOrder(S, fusion)
<1>1. IsFiniteSet(S) /\ S \in SUBSET Ids
  BY ToSetFinite, FS_Union
<1>2. \A x \in S : fusion[x] = FusionScore(dense, lexical, about, x)
  OBVIOUS
<1>3. fused = InOrder(S, R)
  BY <1>2 DEF FusionOrder, Fused
<1>4. \A x \in S : fusion[x] \in Int
  BY <1>1, <1>2, FusionType
<1> HIDE DEF S, fusion, R, fused
<1>5. S \in SUBSET Nat
  BY <1>1
<1>6. IsOrder(S, R)
  BY <1>4, <1>5, OrdersOrder DEF R
<1>7. InLine(fused, S, R)
  BY <1>1, <1>3, <1>6, InOrderSorts
<1> QED
  BY <1>1, <1>7 DEF InLine, S, fused

LEMMA SeqSub ==
    ASSUME NEW A, NEW B, A \in SUBSET B, NEW s \in Seq(A)
    PROVE  s \in Seq(B)
<1>1. Len(s) \in Nat /\ s \in [1..Len(s) -> A]
  OBVIOUS
<1>2. s \in [1..Len(s) -> B]
  BY <1>1
<1> QED
  BY <1>1, <1>2

\* What the shortlisted deserve: the calibrated scores.
ScoresFit(short, about, truth) ==
    \A id \in ToSet(short) :
        /\ Deserved(id, short, about, truth) \in Nat
        /\ Deserved(id, short, about, truth) =
                Calibrated(about[id], truth[Place(short, id)])

LEMMA DeservedScores ==
    ASSUME NEW Ids, NEW short \in Seq(Ids), NEW about, NEW truth,
           truth \in [1..Len(short) -> Nat], \A id \in Ids : about[id].title \in Nat
    PROVE  ScoresFit(short, about, truth)
<1> SUFFICES ASSUME NEW id \in ToSet(short)
             PROVE  /\ Deserved(id, short, about, truth) \in Nat
                    /\ Deserved(id, short, about, truth) =
                         Calibrated(about[id], truth[Place(short, id)])
  BY DEF ScoresFit
<1> DEFINE i == Place(short, id)
           a == truth[i]
           b == about[id].title
<1>1. \E j \in DOMAIN short : short[j] = id
  BY DEF ToSet
<1>2. i \in 1..Len(short) /\ short[i] = id
  BY <1>1 DEF Place
<1> HIDE DEF i
<1>3. a \in Nat /\ b \in Nat
  BY <1>2
<1>4. Deserved(id, short, about, truth) = Max({a, b})
  BY DEF Deserved, i
<1>5. Calibrated(about[id], a) = IF b > a THEN b ELSE a
  BY DEF Calibrated
<1> HIDE DEF a, b
<1>6. Max({a, b}) = IF b > a THEN b ELSE a
  BY <1>3, MaxOfTwo
<1> QED
  BY <1>3, <1>4, <1>5, <1>6 DEF a, b, i

\* Whatever the two listings, the candidates and the limits, and in whatever
\* order the rerank service lists its scores: the evidence is the best of
\* what was found, the best first, one piece of each family, and what is
\* missing is missing for a reason (hybrid_retrieve).
THEOREM EvidenceStands ==
    ASSUME NEW Ids \in SUBSET Nat, NEW dense \in Seq(Ids), NEW lexical \in Seq(Ids),
           NEW about, \A id \in Ids : about[id].boost \in Nat,
           \A id \in Ids : about[id].title \in Nat,
           NEW truth, truth \in [1..Len(ShortlistOf(dense, lexical, about)) -> Nat],
           NEW answers,
           ShortlistOf(dense, lexical, about) # <<>> =>
             Rerank(Len(ShortlistOf(dense, lexical, about)), answers)
               = [failed |-> FALSE, values |-> truth]
    PROVE  /\ ~HybridRetrieve(dense, lexical, about, answers).failed
           /\ BestOf(HybridRetrieve(dense, lexical, about, answers).evidence,
                     ToSet(dense) \cup ToSet(lexical), Fused(dense, lexical, about),
                     ShortlistOf(dense, lexical, about), about, truth)
<1> DEFINE short == ShortlistOf(dense, lexical, about)
<1>0. /\ truth \in [1..Len(short) -> Nat]
      /\ short # <<>> => Rerank(Len(short), answers) = [failed |-> FALSE, values |-> truth]
      /\ short = Shortlist(Fused(dense, lexical, about), about)
  BY DEF ShortlistOf
<1> DEFINE S == ToSet(dense) \cup ToSet(lexical)
           fused == Fused(dense, lexical, about)
           out == HybridRetrieve(dense, lexical, about, answers)
           T == ToSet(short)
           score == Scored(short, about, truth)
           fusion == [id \in T |-> FusionScore(dense, lexical, about, id)]
           R == ScoreOrder(T, score, fusion)
           ranked == Ranked(T, score, dense, lexical, about)
<1>1. /\ S \in SUBSET Ids
      /\ fused \in Seq(S)
      /\ \A x \in S : \E i \in 1..Len(fused) : fused[i] = x
      /\ \A i, j \in 1..Len(fused) : fused[i] = fused[j] => i = j
  BY FusedOnce
<1>2. short \in Seq(S) /\ Shorted(short, fused, about, Len(fused))
  <2> HIDE DEF S, fused
  <2> QED
    BY <1>0, <1>1, Shortlisted DEF fused
<1> HIDE DEF short
<1>b. short \in Seq(Ids)
  BY <1>1, <1>2, SeqSub
<1>c. ScoresFit(short, about, truth)
  BY <1>0, <1>b, DeservedScores
<1>3. short = <<>> => out = [failed |-> FALSE, evidence |-> <<>>]
  BY DEF HybridRetrieve, short
<1>4. short # <<>> => out = [failed |-> FALSE, evidence |-> Evidence(ranked, about, score)]
  <2> SUFFICES ASSUME short # <<>>
               PROVE  out = [failed |-> FALSE, evidence |-> Evidence(ranked, about, score)]
    OBVIOUS
  <2> DEFINE scores == Rerank(Len(short), answers)
             whole == Evidence(Ranked(T, Scored(short, about, scores.values), dense, lexical, about),
                               about, Scored(short, about, scores.values))
  <2>1. scores.values = truth /\ ~scores.failed
    BY <1>0
  <2>2. out = IF short = <<>> \/ scores.failed
              THEN [failed |-> short # <<>>, evidence |-> <<>>]
              ELSE [failed |-> FALSE, evidence |-> whole]
    BY DEF HybridRetrieve, short
  <2>3. whole = Evidence(ranked, about, score)
    BY <2>1
  <2> HIDE DEF scores, whole, ranked, score, out
  <2> QED
    BY <2>1, <2>2, <2>3
<1>a. ranked = InOrder(T, R)
  BY DEF ScoreOrder, Ranked
<1> HIDE DEF ranked
<1> DEFINE deserved(id) == Deserved(id, short, about, truth)
<1>5. \A id \in T : score[id] = deserved(id) /\ score[id] \in Nat
  BY <1>c DEF Scored, ScoresFit
<1>7. T \in SUBSET Nat /\ IsFiniteSet(T) /\ T \in SUBSET S
  <2> HIDE DEF S
  <2>1. IsFiniteSet(ToSet(short)) /\ ToSet(short) \in SUBSET S
    BY <1>2, ToSetFinite
  <2> QED
    BY <1>1, <2>1
<1>6. \A id \in T : fusion[id] \in Int
  BY <1>1, <1>7, FusionType
<1> HIDE DEF fusion, score
<1> HIDE DEF T
<1>8. IsOrder(T, R)
  <2>1. \A x \in T : score[x] \in Int
    BY <1>5
  <2> QED
    BY <1>6, <1>7, <2>1, OrdersOrder
<1>9. InLine(ranked, T, R)
  BY <1>7, <1>8, <1>a, InOrderSorts
<1>10. \A i, j \in 1..Len(ranked) : i < j => score[ranked[i]] >= score[ranked[j]]
  <2> SUFFICES ASSUME NEW i \in 1..Len(ranked), NEW j \in 1..Len(ranked), i < j
               PROVE  score[ranked[i]] >= score[ranked[j]]
    OBVIOUS
  <2>1. <<ranked[i], ranked[j]>> \in R /\ ranked[i] \in T /\ ranked[j] \in T
    <3> HIDE DEF R
    <3>1. ranked \in Seq(T) /\ \A a, b \in 1..Len(ranked) : a < b => <<ranked[a], ranked[b]>> \in R
      BY <1>9 DEF InLine
    <3>2. ranked[i] \in T /\ ranked[j] \in T
      BY <3>1
    <3> QED
      BY <3>1, <3>2
  <2>2. score[ranked[i]] > score[ranked[j]] \/ score[ranked[i]] = score[ranked[j]]
    BY <2>1 DEF ScoreOrder
  <2> QED
    BY <1>5, <2>1, <2>2, SMTT(30)
<1>11. ranked \in Seq(T) /\ \A x \in T : \E i \in 1..Len(ranked) : ranked[i] = x
  BY <1>9 DEF InLine
<1> HIDE DEF out, S, fused
<1> DEFINE e == Evidence(ranked, about, score)
<1>12. e \in Seq(T) /\ Chosen(e, ranked, about, score, Len(ranked))
  BY <1>5, <1>10, <1>11, ChosenOfAll
<1> HIDE DEF e
<1>13. \A id \in S : \/ id \in T
                     \/ ~about[id].inScope
                     \/ Overtaken(id, fused, about)
  <2> SUFFICES ASSUME NEW id \in S
               PROVE  \/ id \in T
                      \/ ~about[id].inScope
                      \/ Overtaken(id, fused, about)
    OBVIOUS
  <2>1. PICK j \in 1..Len(fused) : fused[j] = id
    BY <1>1
  <2>2. \/ \E i \in 1..Len(short) : short[i] = fused[j]
        \/ ~about[fused[j]].inScope
        \/ Overtaken(fused[j], fused, about)
    BY <1>2 DEF Shorted
  <2>3. (\E i \in 1..Len(short) : short[i] = id) => id \in T
    BY <1>2 DEF T, ToSet
  <2> QED
    BY <2>1, <2>2, <2>3
<1>14. CASE short = <<>>
  BY <1>3, <1>13, <1>14 DEF T, ToSet, BestOf, out, S, fused, short
<1>15. CASE short # <<>>
  <2> DEFINE m == Len(e)
  <2>1. m \in Nat /\ DOMAIN e = 1..m /\ (\A i \in 1..m : e[i] \in T) /\ ToSet(e) = {e[i] : i \in 1..m}
    BY <1>12 DEF ToSet
  <2>2. /\ \A i \in 1..m : score[e[i]] >= MinimumScore
        /\ \A i, j \in 1..m : i < j => /\ Family(about[e[i]]) # Family(about[e[j]])
                                       /\ score[e[i]] >= score[e[j]]
        /\ \A j \in 1..Len(ranked) : \/ \E i \in 1..m : e[i] = ranked[j]
                                     \/ Missed(ranked[j], e, about, score)
    BY <1>12 DEF Chosen
  <2>3. \A i \in 1..m : Deserved(e[i], short, about, truth) = score[e[i]]
    BY <1>5, <2>1
  <2>4. \A id \in T : Deserved(id, short, about, truth) = score[id]
    BY <1>5
  <2> HIDE DEF m
  <2>5. \A i, j \in DOMAIN e : i < j =>
          /\ Family(about[e[i]]) # Family(about[e[j]])
          /\ Deserved(e[i], short, about, truth) >= Deserved(e[j], short, about, truth)
    BY <2>1, <2>2, <2>3
  <2>6. \A id \in ToSet(e) : Deserved(id, short, about, truth) >= MinimumScore
    BY <2>1, <2>2, <2>3
  <2>7. ASSUME NEW id \in T, id \notin ToSet(e)
        PROVE  \/ Deserved(id, short, about, truth) < MinimumScore
               \/ \E d \in ToSet(e) : /\ Family(about[d]) = Family(about[id])
                                      /\ Deserved(d, short, about, truth) >= Deserved(id, short, about, truth)
               \/ /\ Len(e) = EvidenceLimit
                  /\ \A d \in ToSet(e) : Deserved(d, short, about, truth) >= Deserved(id, short, about, truth)
    <3>1. PICK j \in 1..Len(ranked) : ranked[j] = id
      BY <1>11
    <3>2. Missed(id, e, about, score)
      BY <2>1, <2>2, <2>7, <3>1
    <3>3. CASE score[id] < MinimumScore
      BY <2>4, <3>3
    <3>4. CASE \E i \in 1..m : /\ Family(about[e[i]]) = Family(about[id])
                               /\ score[e[i]] >= score[id]
      BY <2>1, <2>3, <2>4, <3>4
    <3>5. CASE Len(e) = EvidenceLimit /\ \A i \in 1..m : score[e[i]] >= score[id]
      BY <2>1, <2>3, <2>4, <3>5
    <3> QED
      BY <3>2, <3>3, <3>4, <3>5 DEF Missed, m
  <2>8. BestOf(e, S, fused, short, about, truth)
    BY <1>13, <2>5, <2>6, <2>7 DEF BestOf
  <2>9. out.evidence = e /\ ~out.failed
    BY <1>4, <1>15 DEF e
  <2> QED
    BY <2>8, <2>9 DEF out, S, fused, short
<1> QED
  BY <1>14, <1>15 DEF short

-----------------------------------------------------------------------------
(* What the runs' searches come to.                                        *)

\* A server with an answer at the first attempt, or busy twice.
LEMMA AttemptOfThree ==
    ASSUME NEW x, NEW y, NEW z, NEW R
    PROVE  /\ x.kind \notin R => <<x, y, z>>[LastAttempt(<<x, y, z>>, R)] = x
           /\ x.kind \in R /\ y.kind \in R => <<x, y, z>>[LastAttempt(<<x, y, z>>, R)] = z
<1> DEFINE a == <<x, y, z>>
           ends == {n \in DOMAIN a : a[n].kind \notin R \/ n = Len(a)}
<1>1. DOMAIN a = 1..3 /\ Len(a) = 3 /\ a[1] = x /\ a[2] = y /\ a[3] = z
  OBVIOUS
<1> HIDE DEF a
<1>2. ends \in SUBSET (1..3) /\ 3 \in ends
  BY <1>1
<1>3. 1 \in ends <=> x.kind \notin R
  BY <1>1
<1>4. 2 \in ends <=> y.kind \notin R
  BY <1>1
<1> HIDE DEF ends
<1>5. Min(ends) \in ends /\ \A n \in ends : Min(ends) <= n
  BY <1>2, MinIn
<1>6. ASSUME x.kind \notin R
      PROVE  a[Min(ends)] = x
  <2>1. 1 \in ends /\ Min(ends) \in 1..3
    BY <1>2, <1>3, <1>5, <1>6
  <2>2. Min(ends) <= 1
    BY <1>5, <2>1
  <2> DEFINE m == Min(ends)
  <2>3. m \in 1..3 /\ m <= 1
    BY <2>1, <2>2
  <2> HIDE DEF m
  <2>4. m = 1
    BY <2>3
  <2> QED
    BY <1>1, <2>4 DEF m
<1>7. ASSUME x.kind \in R, y.kind \in R
      PROVE  a[Min(ends)] = z
  <2> DEFINE m == Min(ends)
  <2>1. 1 \notin ends /\ 2 \notin ends
    BY <1>3, <1>4, <1>7
  <2>2. m \in ends
    BY <1>5
  <2> HIDE DEF m
  <2>3. m \in 1..3 /\ m # 1 /\ m # 2
    BY <1>2, <2>1, <2>2
  <2>4. m = 3
    BY <2>3
  <2> QED
    BY <1>1, <2>4 DEF m
<1> QED
  BY <1>6, <1>7 DEF LastAttempt, ends, a

\* entries are the scores truth, one per document, in another order.
Shuffled(entries, order, n, truth) ==
    /\ Len(entries) = n
    /\ order \in [1..n -> 1..n]
    /\ \A i \in 1..n : \E j \in 1..n : order[j] = i
    /\ \A i \in 1..n : entries[i].index = order[i]
    /\ \A i \in 1..n : entries[i].value = truth[order[i]]

\* One score per document, whatever order they are listed in.
LEMMA EntriesComplete ==
    ASSUME NEW n \in Nat, NEW Values, NEW truth \in [1..n -> Values], NEW entries, NEW order,
           Shuffled(entries, order, n, truth)
    PROVE  EntriesByIndex(n, entries) = [failed |-> FALSE, values |-> truth]
<1>1. Len(entries) = n /\ order \in [1..n -> 1..n] /\ \A i \in 1..n : \E j \in 1..n : order[j] = i
  BY DEF Shuffled
<1>2. \A i \in 1..n : entries[i].index = order[i] /\ entries[i].value = truth[order[i]]
  BY DEF Shuffled
<1> DEFINE indices == {entries[i].index : i \in 1..n}
<1>3. indices = 1..n
  <2>1. \A k \in indices : k \in 1..n
    <3> SUFFICES ASSUME NEW k \in indices
                 PROVE  k \in 1..n
      OBVIOUS
    <3>1. PICK i \in 1..n : k = entries[i].index
      OBVIOUS
    <3>2. entries[i].index = order[i] /\ order[i] \in 1..n
      BY <1>1, <1>2
    <3> QED
      BY <3>1, <3>2
  <2>2. \A k \in 1..n : k \in indices
    <3> SUFFICES ASSUME NEW k \in 1..n
                 PROVE  k \in indices
      OBVIOUS
    <3>1. PICK i \in 1..n : order[i] = k
      BY <1>1
    <3>2. entries[i].index = k
      BY <1>2, <3>1
    <3> QED
      BY <3>2
  <2> HIDE DEF indices
  <2> QED
    BY <2>1, <2>2
<1> DEFINE found(i) == CHOOSE j \in 1..n : entries[j].index = i
           values == [i \in 1..n |-> entries[found(i)].value]
<1>4. \A i \in 1..n : values[i] = truth[i]
  <2> SUFFICES ASSUME NEW i \in 1..n
               PROVE  values[i] = truth[i]
    OBVIOUS
  <2>1. \E j \in 1..n : entries[j].index = i
    <3>1. PICK j \in 1..n : order[j] = i
      BY <1>1
    <3> QED
      BY <1>2, <3>1
  <2> DEFINE j == found(i)
  <2>2. j \in 1..n /\ entries[j].index = i
    BY <2>1
  <2>3. values[i] = entries[j].value
    OBVIOUS
  <2> HIDE DEF j, values
  <2>4. entries[j].value = truth[order[j]] /\ order[j] = i
    BY <1>2, <2>2
  <2> QED
    BY <2>3, <2>4
<1>5. values = truth
  BY <1>4
<1>6. EntriesByIndex(n, entries) = [failed |-> FALSE, values |-> values]
  BY <1>1, <1>3 DEF EntriesByIndex
<1> QED
  BY <1>5, <1>6

ServiceFails(behaviour, n) ==
    \/ behaviour \in {"overloaded", "unreachable"}
    \/ behaviour = "repeated index" /\ n > 1

LEMMA ServiceScores ==
    ASSUME NEW n \in Nat \ {0}, NEW truth \in [1..n -> 0..2], NEW behaviour \in ServiceModes
    PROVE  /\ ServiceFails(behaviour, n) => Rerank(n, ServiceAnswers(behaviour, n, truth)).failed
           /\ ~ServiceFails(behaviour, n) =>
                Rerank(n, ServiceAnswers(behaviour, n, truth)) = [failed |-> FALSE, values |-> truth]
<1> DEFINE entry(i) == [index |-> i, value |-> truth[i]]
           inOrder == [i \in 1..n |-> entry(i)]
           backwards == [i \in 1..n |-> entry(n + 1 - i)]
           same == [i \in 1..n |-> entry(1)]
           reply(entries) == [kind |-> "ok", entries |-> entries]
           busy == [kind |-> "429"]
           answers == ServiceAnswers(behaviour, n, truth)
           R == {"429", "503"}
<1>0. n \in Nat
  OBVIOUS
<1>1. EntriesByIndex(n, inOrder) = [failed |-> FALSE, values |-> truth]
  <2> DEFINE order == [i \in 1..n |-> i]
             E == inOrder
  <2>1. Len(E) = n
    OBVIOUS
  <2>2. order \in [1..n -> 1..n] /\ \A i \in 1..n : \E j \in 1..n : order[j] = i
    OBVIOUS
  <2>3. \A i \in 1..n : E[i].index = order[i]
    OBVIOUS
  <2>4. \A i \in 1..n : E[i].value = truth[order[i]]
    OBVIOUS
  <2> HIDE DEF order, E
  <2>5. Shuffled(E, order, n, truth)
    BY <2>1, <2>2, <2>3, <2>4 DEF Shuffled
  <2>6. EntriesByIndex(n, E) = [failed |-> FALSE, values |-> truth]
    BY <1>0, <2>5, EntriesComplete
  <2> QED
    BY <2>6 DEF E
<1>2. EntriesByIndex(n, backwards) = [failed |-> FALSE, values |-> truth]
  <2> DEFINE order == [i \in 1..n |-> n + 1 - i]
             E == backwards
  <2>1. \A i \in 1..n : n + 1 - i \in 1..n /\ n + 1 - (n + 1 - i) = i
    OBVIOUS
  <2>2. order \in [1..n -> 1..n]
    BY <2>1
  <2>3. \A i \in 1..n : \E j \in 1..n : order[j] = i
    BY <2>1
  <2>4. Len(E) = n
    OBVIOUS
  <2>5. \A i \in 1..n : E[i].index = order[i]
    OBVIOUS
  <2>6. \A i \in 1..n : E[i].value = truth[order[i]]
    OBVIOUS
  <2> HIDE DEF order, E
  <2>7. Shuffled(E, order, n, truth)
    BY <2>2, <2>3, <2>4, <2>5, <2>6 DEF Shuffled
  <2>8. EntriesByIndex(n, E) = [failed |-> FALSE, values |-> truth]
    BY <1>0, <2>7, EntriesComplete
  <2> QED
    BY <2>8 DEF E
<1>3. n > 1 => EntriesByIndex(n, same).failed
  <2> SUFFICES ASSUME n > 1
               PROVE  EntriesByIndex(n, same).failed
    OBVIOUS
  <2>1. \A i \in 1..n : same[i].index = 1
    OBVIOUS
  <2>2. 2 \in 1..n
    OBVIOUS
  <2> DEFINE indices == {same[i].index : i \in 1..n}
  <2>3. 2 \notin indices
    BY <2>1
  <2>4. indices # 1..n
    BY <2>2, <2>3
  <2> QED
    BY <2>4 DEF EntriesByIndex, NoValues
<1>4. ~(n > 1) => EntriesByIndex(n, same) = [failed |-> FALSE, values |-> truth]
  BY <1>1
<1> HIDE DEF inOrder, backwards, same
<1>5. ASSUME NEW x, NEW y, NEW z
      PROVE  /\ x.kind \notin R => Rerank(n, <<x, y, z>>) =
                  IF x.kind = "ok" THEN EntriesByIndex(n, x.entries) ELSE NoValues
             /\ x.kind \in R /\ y.kind \in R => Rerank(n, <<x, y, z>>) =
                  IF z.kind = "ok" THEN EntriesByIndex(n, z.entries) ELSE NoValues
  <2> DEFINE a == <<x, y, z>>
             answer == a[LastAttempt(a, R)]
  <2>1. /\ x.kind \notin R => answer = x
        /\ x.kind \in R /\ y.kind \in R => answer = z
    BY AttemptOfThree
  <2>2. Rerank(n, a) = IF answer.kind = "ok" THEN EntriesByIndex(n, answer.entries) ELSE NoValues
    BY DEF Rerank
  <2> HIDE DEF answer, a
  <2>3. /\ x.kind \notin R => Rerank(n, a) =
             IF x.kind = "ok" THEN EntriesByIndex(n, x.entries) ELSE NoValues
        /\ x.kind \in R /\ y.kind \in R => Rerank(n, a) =
             IF z.kind = "ok" THEN EntriesByIndex(n, z.entries) ELSE NoValues
    BY <2>1, <2>2
  <2> QED
    BY <2>3 DEF a
<1>6. ASSUME NEW entries
      PROVE  reply(entries).kind = "ok" /\ reply(entries).entries = entries
  OBVIOUS
<1>7. busy.kind \in R /\ [kind |-> "503"].kind \in R /\ [kind |-> "unreachable"].kind \notin R /\ "ok" \notin R
  OBVIOUS
<1>8. NoValues.failed
  BY DEF NoValues
<1>9. CASE behaviour = "in order"
  <2>1. answers = <<reply(inOrder), busy, busy>>
    BY <1>9 DEF ServiceAnswers, inOrder
  <2> DEFINE x == reply(inOrder)
  <2>2. x.kind = "ok" /\ x.entries = inOrder
    OBVIOUS
  <2>3. answers = <<x, busy, busy>>
    BY <2>1
  <2> HIDE DEF x, answers, busy
  <2>4. Rerank(n, answers) = EntriesByIndex(n, inOrder)
    BY <1>5, <1>7, <2>2, <2>3
  <2> QED
    BY <1>1, <1>9, <2>4 DEF ServiceFails, answers
<1>10. CASE behaviour = "reversed"
  <2>1. answers = <<reply(backwards), busy, busy>>
    BY <1>10 DEF ServiceAnswers, backwards
  <2> DEFINE x == reply(backwards)
  <2>2. x.kind = "ok" /\ x.entries = backwards
    OBVIOUS
  <2>3. answers = <<x, busy, busy>>
    BY <2>1
  <2> HIDE DEF x, answers, busy
  <2>4. Rerank(n, answers) = EntriesByIndex(n, backwards)
    BY <1>5, <1>7, <2>2, <2>3
  <2> QED
    BY <1>2, <1>10, <2>4 DEF ServiceFails, answers
<1>11. CASE behaviour = "overloaded twice"
  <2>1. answers = <<busy, [kind |-> "503"], reply(backwards)>>
    BY <1>11 DEF ServiceAnswers, backwards
  <2> DEFINE z == reply(backwards)
             y == [kind |-> "503"]
  <2>2. z.kind = "ok" /\ z.entries = backwards /\ y.kind \in R /\ busy.kind \in R
    OBVIOUS
  <2>3. answers = <<busy, y, z>>
    BY <2>1
  <2> HIDE DEF y, z, answers, busy
  <2>4. Rerank(n, answers) = EntriesByIndex(n, backwards)
    BY <1>5, <2>2, <2>3
  <2> QED
    BY <1>2, <1>11, <2>4 DEF ServiceFails, answers
<1>12. CASE behaviour = "overloaded"
  BY <1>5, <1>8, <1>12 DEF ServiceAnswers, ServiceFails, answers
<1>13. CASE behaviour = "unreachable"
  <2>1. answers = <<[kind |-> "unreachable"], reply(backwards), reply(backwards)>>
    BY <1>13 DEF ServiceAnswers, backwards
  <2> DEFINE x == [kind |-> "unreachable"]
             z == reply(backwards)
  <2>2. x.kind \notin R /\ x.kind # "ok"
    OBVIOUS
  <2>3. answers = <<x, z, z>>
    BY <2>1
  <2> HIDE DEF x, z, answers
  <2>4. Rerank(n, answers) = NoValues
    BY <1>5, <2>2, <2>3
  <2> QED
    BY <1>8, <1>13, <2>4 DEF ServiceFails, answers
<1>14. CASE behaviour = "repeated index"
  <2>1. answers = <<reply(same), reply(backwards), reply(backwards)>>
    BY <1>14 DEF ServiceAnswers, backwards, same
  <2> DEFINE x == reply(same)
             z == reply(backwards)
  <2>2. x.kind = "ok" /\ x.entries = same
    OBVIOUS
  <2>3. answers = <<x, z, z>>
    BY <2>1
  <2> HIDE DEF x, z, answers
  <2>4. Rerank(n, answers) = EntriesByIndex(n, same)
    BY <1>5, <1>7, <2>2, <2>3
  <2> QED
    BY <1>3, <1>4, <1>14, <2>4 DEF ServiceFails, answers
<1> QED
  BY <1>9, <1>10, <1>11, <1>12, <1>13, <1>14 DEF ServiceModes

SearchKinds ==
    {Branch, Orphan, Post, Question, Stray} \X {Branch, Post, Stray} \X {Branch, Post} \X {Branch}

\* What Search computes.
SearchOutcome(dense, lexical, kinds, behaviour, truth) ==
    LET short == ShortlistOf(dense, lexical, kinds)
    IN  [step |-> "search", listed |-> ToSet(dense) \cup ToSet(lexical),
         fused |-> Fused(dense, lexical, kinds), about |-> kinds,
         short |-> short, truth |-> truth, behaviour |-> behaviour,
         out |-> HybridRetrieve(dense, lexical, kinds,
                    ServiceAnswers(behaviour, Len(short), truth))]

LEMMA SearchIsSearched ==
    Search => \E dense \in {<<>>, <<1, 2, 3>>, <<4, 1>>}, lexical \in {<<3>>, <<2, 4>>},
                 kinds \in SearchKinds, behaviour \in ServiceModes :
                \E truth \in [DOMAIN ShortlistOf(dense, lexical, kinds) -> 0..2] :
                    call' = SearchOutcome(dense, lexical, kinds, behaviour, truth)
BY DEF Search, SearchOutcome, SearchKinds

LEMMA KindsAre ==
    ASSUME NEW kinds \in SearchKinds, NEW id \in 1..4
    PROVE  kinds[id].boost \in Nat /\ kinds[id].title \in Nat
<1> DEFINE Fine(c) == c.boost \in Nat /\ c.title \in Nat
<1>1. Fine(Branch) /\ Fine(Orphan) /\ Fine(Post) /\ Fine(Question) /\ Fine(Stray)
  BY DEF Branch, Orphan, Post, Question, Stray
<1>2. kinds[id] \in {Branch, Orphan, Post, Question, Stray}
  BY DEF SearchKinds
<1> QED
  BY <1>1, <1>2

LEMMA SearchIsBest == Search => EvidenceIsBest'
<1> SUFFICES ASSUME Search
             PROVE  EvidenceIsBest'
  OBVIOUS
<1>0. PICK dense \in {<<>>, <<1, 2, 3>>, <<4, 1>>}, lexical \in {<<3>>, <<2, 4>>},
           kinds \in SearchKinds, behaviour \in ServiceModes :
             \E truth \in [DOMAIN ShortlistOf(dense, lexical, kinds) -> 0..2] :
                call' = SearchOutcome(dense, lexical, kinds, behaviour, truth)
  BY SearchIsSearched
<1>1. PICK truth \in [DOMAIN ShortlistOf(dense, lexical, kinds) -> 0..2] :
             call' = SearchOutcome(dense, lexical, kinds, behaviour, truth)
  BY <1>0
<1> DEFINE Ids == 1..4
           short == ShortlistOf(dense, lexical, kinds)
           n == Len(short)
           answers == ServiceAnswers(behaviour, n, truth)
           out == HybridRetrieve(dense, lexical, kinds, answers)
           listed == ToSet(dense) \cup ToSet(lexical)
           fused == Fused(dense, lexical, kinds)
<1>2. dense \in Seq(Ids) /\ lexical \in Seq(Ids)
  <2>1. /\ <<>> \in Seq(Ids) /\ <<1, 2, 3>> \in Seq(Ids) /\ <<4, 1>> \in Seq(Ids)
        /\ <<3>> \in Seq(Ids) /\ <<2, 4>> \in Seq(Ids)
    OBVIOUS
  <2> HIDE DEF Ids
  <2> QED
    BY <2>1
<1>3. Ids \in SUBSET Nat /\ \A id \in Ids : kinds[id].boost \in Nat /\ kinds[id].title \in Nat
  BY KindsAre
<1> HIDE DEF Ids
<1>4. short \in Seq(listed)
  BY <1>2, <1>3, FusedOnce, Shortlisted DEF fused, ShortlistOf
<1>5. n \in Nat /\ DOMAIN short = 1..n /\ (short = <<>> <=> n = 0)
  BY <1>4
<1>6. truth \in [1..n -> 0..2] /\ truth \in [1..n -> Nat]
  BY <1>5
<1>7. short # <<>> =>
        /\ ServiceFails(behaviour, n) => Rerank(n, answers).failed
        /\ ~ServiceFails(behaviour, n) => Rerank(n, answers) = [failed |-> FALSE, values |-> truth]
  BY <1>5, <1>6, ServiceScores
<1>8. CASE short # <<>> /\ ServiceFails(behaviour, n)
  <2>1. Rerank(n, answers).failed
    BY <1>7, <1>8
  <2>2. out = [failed |-> short # <<>>, evidence |-> <<>>]
    BY <2>1 DEF HybridRetrieve
  <2> DEFINE failed == short # <<>>
  <2>3. out = [failed |-> failed, evidence |-> <<>>]
    BY <2>2
  <2>5. failed
    BY <1>8
  <2> HIDE DEF failed, out
  <2>6. out.failed = failed
    BY <2>3
  <2>7. out.failed
    BY <2>5, <2>6
  <2>4. call'.step = "search" /\ call'.out = out /\ call'.behaviour = behaviour /\ call'.short = short
    BY <1>1 DEF SearchOutcome, out
  <2> HIDE DEF short, n
  <2> QED
    BY <1>8, <2>7, <2>4 DEF EvidenceIsBest, ServiceFails, n
<1>9. CASE ~(short # <<>> /\ ServiceFails(behaviour, n))
  <2>1. short # <<>> => Rerank(n, answers) = [failed |-> FALSE, values |-> truth]
    BY <1>7, <1>9
  <2>2. ~out.failed /\ BestOf(out.evidence, listed, fused, short, kinds, truth)
    <3> HIDE DEF answers
    <3> QED
      BY <1>2, <1>3, <1>6, <2>1, EvidenceStands
  <2>3. /\ call'.step = "search" /\ call'.out = out /\ call'.behaviour = behaviour
        /\ call'.short = short /\ call'.listed = listed /\ call'.fused = fused
        /\ call'.about = kinds /\ call'.truth = truth
    BY <1>1 DEF SearchOutcome
  <2> HIDE DEF out, short, n, listed, fused
  <2> QED
    BY <1>9, <2>2, <2>3 DEF EvidenceIsBest, ServiceFails, n
<1> QED
  BY <1>8, <1>9

\* The evidence of every search of the runs is the best of what was found,
\* and a service answer that is wrong or missing fails the question instead
\* of ranking by wrong scores (hybrid_retrieve, RemoteReranker.score).
THEOREM EvidenceIsBestAlways == Spec => []EvidenceIsBest
<1>1. Init => EvidenceIsBest
  BY StepsApart DEF EvidenceIsBest
<1>2. EvidenceIsBest /\ [Next]_call => EvidenceIsBest'
  <2> SUFFICES ASSUME EvidenceIsBest, [Next]_call
               PROVE  EvidenceIsBest'
    OBVIOUS
  <2>1. CASE Search
    BY <2>1, SearchIsBest
  <2>2. CASE Ask \/ Link \/ Admit \/ Index \/ Reply \/ Return
    BY <2>2, StepsApart DEF EvidenceIsBest
  <2>3. CASE UNCHANGED call
    BY <2>3 DEF EvidenceIsBest
  <2> QED
    BY <2>1, <2>2, <2>3 DEF Next
<1> QED
  BY <1>1, <1>2, PTL DEF Spec

-----------------------------------------------------------------------------
(* Texts.  Pieces span the tokens after a up to b if each begins where the *)
(* one before it ends.                                                     *)

Pieces == (Nat \ {0}) \X Nat

Cuts(e, ps, a, b) ==
    /\ e \in [0..Len(ps) -> Nat]
    /\ e[0] = a /\ e[Len(ps)] = b
    /\ \A i \in 1..Len(ps) : e[i - 1] < e[i] /\ ps[i] = <<e[i - 1] + 1, e[i]>>

Spans(ps, a, b) == ps \in Seq(Pieces) /\ \E e : Cuts(e, ps, a, b)

TotalStep(sum, piece) == sum + Size(piece)

TotalRun(p, pieces) ==
    /\ p \in [0..Len(pieces) -> Int]
    /\ p[0] = 0
    /\ \A k \in 1..Len(pieces) : p[k] = TotalStep(p[k - 1], pieces[k])
    /\ Total(pieces) = p[Len(pieces)]

LEMMA TotalFold ==
    ASSUME NEW pieces \in Seq(Pieces)
    PROVE  \E p : TotalRun(p, pieces)
<1> DEFINE n == Len(pieces)
           T == Int
           base == 0
           body(g) == [s \in SUBSET (1..n) |-> IF s = {} THEN base
                         ELSE TotalStep(g[s \ {Max(s)}], pieces[Max(s)])]
           step == [k \in 1..n |-> [a \in T |-> TotalStep(a, pieces[k])]]
           iter == CHOOSE g : g = body(g)
<1>1. n \in Nat /\ DOMAIN pieces = 1..n
  OBVIOUS
<1>2. Total(pieces) = iter[1..n]
  BY <1>1 DEF Total, TotalStep, FoldLeft, MapThenFoldSet
<1>3. base \in T /\ \A k \in 1..n, a \in T : TotalStep(a, pieces[k]) \in T
  BY DEF Pieces, TotalStep, Size
<1>4. step \in Steps(n, T)
  BY <1>3 DEF Steps
<1> HIDE DEF n, T, base
<1>5. iter = body(iter)
  <2> HIDE DEF step, body
  <2>1. PICK g : g \in [SUBSET (1..n) -> T] /\ IsFold(g, n, T, base, step)
    BY <1>1, <1>3, <1>4, FoldExists
  <2>2. \A s \in SUBSET (1..n) : g[s] = body(g)[s]
    BY <2>1 DEF IsFold, step, body
  <2>3. g = body(g)
    BY <2>1, <2>2 DEF body
  <2> QED
    BY <2>3
<1> HIDE DEF iter
<1>6. Folds(iter, n, T, base, step)
  BY <1>5 DEF Folds
<1>7. PICK q : IsRun(q, n, T, base, step) /\ iter[1..n] = q[n]
  <2> HIDE DEF step
  <2> QED
    BY <1>1, <1>3, <1>4, <1>6, FoldRuns
<1>8. /\ q \in [0..n -> T] /\ q[0] = base
      /\ \A k \in 1..n : q[k] = TotalStep(q[k - 1], pieces[k])
  BY <1>7 DEF IsRun
<1> QED
  BY <1>2, <1>7, <1>8 DEF n, T, base, TotalRun

LEMMA CutsType ==
    ASSUME NEW ps \in Seq(Pieces), NEW a, NEW b, NEW e, Cuts(e, ps, a, b)
    PROVE  /\ Len(ps) \in Nat /\ a \in Nat /\ b \in Nat
           /\ \A i \in 0..Len(ps) : e[i] \in Nat
           /\ \A i \in 1..Len(ps) : e[i - 1] \in Nat /\ e[i - 1] < e[i]
<1>1. Len(ps) \in Nat
  OBVIOUS
<1>2. \A i \in 0..Len(ps) : e[i] \in Nat
  BY DEF Cuts
<1>3. e[0] = a /\ e[Len(ps)] = b
  BY DEF Cuts
<1>4. \A i \in 1..Len(ps) : i - 1 \in 0..Len(ps)
  BY <1>1
<1> QED
  BY <1>1, <1>2, <1>3, <1>4 DEF Cuts

LEMMA CutsRise ==
    ASSUME NEW ps \in Seq(Pieces), NEW a, NEW b, NEW e, Cuts(e, ps, a, b)
    PROVE  \A i \in 0..Len(ps) : a <= e[i] /\ e[i] <= b /\ (i > 0 => a < e[i])
<1> DEFINE n == Len(ps)
<1>1. n \in Nat /\ a \in Nat /\ b \in Nat /\ \A i \in 0..n : e[i] \in Nat
  BY CutsType
<1>2. \A i \in 1..n : e[i - 1] < e[i]
  BY CutsType
<1>3. e[0] = a /\ e[n] = b
  BY DEF Cuts
<1> HIDE DEF n
<1> DEFINE P == {k \in 0..n : a <= e[k] /\ (k > 0 => a < e[k])}
           Q == {k \in 0..n : e[n - k] <= b}
<1>4. 0 \in P /\ 0 \in Q
  BY <1>1, <1>3
<1>5. \A k \in 0..(n - 1) : k \in P => k + 1 \in P
  <2> SUFFICES ASSUME NEW k \in 0..(n - 1), k \in P
               PROVE  k + 1 \in P
    OBVIOUS
  <2>1. k + 1 \in 1..n /\ (k + 1) - 1 = k /\ k \in 0..n /\ k + 1 \in 0..n
    BY <1>1
  <2>2. e[k] < e[k + 1]
    BY <1>2, <2>1
  <2> QED
    BY <1>1, <2>1, <2>2
<1>6. \A k \in 0..(n - 1) : k \in Q => k + 1 \in Q
  BY <1>1, <1>2
<1>7. \A k \in 0..n : k \in P
  BY <1>1, <1>4, <1>5, CountInduction
<1>8. \A k \in 0..n : k \in Q
  BY <1>1, <1>4, <1>6, CountInduction
<1>9. ASSUME NEW i \in 0..n
      PROVE  a <= e[i] /\ e[i] <= b /\ (i > 0 => a < e[i])
  <2>1. n - i \in 0..n /\ n - (n - i) = i
    BY <1>1
  <2>2. e[i] <= b
    BY <1>8, <2>1
  <2> QED
    BY <1>7, <2>2
<1> QED
  BY <1>9 DEF n

LEMMA SpansType ==
    ASSUME NEW ps, NEW a, NEW b, Spans(ps, a, b)
    PROVE  /\ ps \in Seq(Pieces) /\ a \in Nat /\ b \in Nat /\ a <= b
           /\ ps = <<>> => a = b
           /\ ps # <<>> => a < b /\ Head(ps)[1] = a + 1 /\ Last(ps)[2] = b
<1>1. PICK e : Cuts(e, ps, a, b)
  BY DEF Spans
<1>2. ps \in Seq(Pieces)
  BY DEF Spans
<1> DEFINE n == Len(ps)
<1>3. n \in Nat /\ a \in Nat /\ b \in Nat /\ (ps = <<>> <=> n = 0)
  BY <1>1, <1>2, CutsType
<1>4. e[0] = a /\ e[n] = b /\ \A i \in 1..n : ps[i] = <<e[i - 1] + 1, e[i]>>
  BY <1>1 DEF Cuts
<1>5. \A i \in 0..n : a <= e[i] /\ e[i] <= b /\ (i > 0 => a < e[i])
  BY <1>1, <1>2, CutsRise
<1>6. ps # <<>> => Head(ps) = ps[1] /\ Last(ps) = ps[n]
  BY <1>2 DEF Last
<1> HIDE DEF n
<1>7. a <= b /\ (n = 0 => a = b)
  BY <1>3, <1>4, <1>5
<1>8. ASSUME n # 0
      PROVE  a < b /\ ps[1][1] = a + 1 /\ ps[n][2] = b
  BY <1>3, <1>4, <1>5, <1>8
<1> QED
  BY <1>2, <1>3, <1>6, <1>7, <1>8

LEMMA SpansNone ==
    ASSUME NEW a \in Nat
    PROVE  Spans(<<>>, a, a)
<1> DEFINE e == [i \in 0..0 |-> a]
<1>1. Cuts(e, <<>>, a, a)
  BY DEF Cuts
<1> HIDE DEF e
<1> QED
  BY <1>1 DEF Spans

LEMMA SpansAppend ==
    ASSUME NEW ps, NEW a, NEW b, Spans(ps, a, b), NEW c \in Nat, b < c
    PROVE  Spans(Append(ps, <<b + 1, c>>), a, c)
<1>1. ps \in Seq(Pieces) /\ b \in Nat
  BY SpansType
<1>2. PICK e : Cuts(e, ps, a, b)
  BY DEF Spans
<1> DEFINE n == Len(ps)
           last == <<b + 1, c>>
           more == Append(ps, last)
           f == [i \in 0..(n + 1) |-> IF i = n + 1 THEN c ELSE e[i]]
<1>3. last \in Pieces
  BY <1>1 DEF Pieces
<1>4. /\ more \in Seq(Pieces) /\ Len(more) = n + 1 /\ n \in Nat
      /\ more[n + 1] = last /\ \A i \in 1..n : more[i] = ps[i]
  BY <1>1, <1>3
<1>5. /\ e \in [0..n -> Nat] /\ e[0] = a /\ e[n] = b
      /\ \A i \in 1..n : e[i - 1] < e[i] /\ ps[i] = <<e[i - 1] + 1, e[i]>>
  BY <1>2 DEF Cuts
<1> HIDE DEF n, more
<1>6. f \in [0..(n + 1) -> Nat] /\ f[0] = a /\ f[n + 1] = c
  BY <1>4, <1>5
<1>7. ASSUME NEW i \in 1..(n + 1)
      PROVE  f[i - 1] < f[i] /\ more[i] = <<f[i - 1] + 1, f[i]>>
  <2>1. i - 1 \in 0..(n + 1) /\ i - 1 # n + 1 /\ i \in 0..(n + 1)
    BY <1>4
  <2>2. f[i - 1] = e[i - 1]
    BY <2>1
  <2>3. CASE i = n + 1
    BY <1>4, <1>5, <2>1, <2>2, <2>3
  <2>4. CASE i # n + 1
    <3>1. i \in 1..n /\ f[i] = e[i]
      BY <1>4, <2>1, <2>4
    <3> QED
      BY <1>4, <1>5, <2>2, <3>1
  <2> QED
    BY <2>3, <2>4
<1> HIDE DEF f, last
<1>8. Cuts(f, more, a, c)
  BY <1>4, <1>6, <1>7 DEF Cuts
<1> QED
  BY <1>4, <1>8 DEF Spans, more, last

LEMMA SpansConcat ==
    ASSUME NEW ps, NEW qs, NEW a, NEW b, NEW c, Spans(ps, a, b), Spans(qs, b, c)
    PROVE  Spans(ps \o qs, a, c)
<1>1. ps \in Seq(Pieces) /\ qs \in Seq(Pieces)
  BY DEF Spans
<1>2. PICK e : Cuts(e, ps, a, b)
  BY DEF Spans
<1>3. PICK f : Cuts(f, qs, b, c)
  BY DEF Spans
<1> DEFINE m == Len(ps)
           n == Len(qs)
           all == ps \o qs
           g == [i \in 0..(m + n) |-> IF i <= m THEN e[i] ELSE f[i - m]]
<1>4. /\ all \in Seq(Pieces) /\ Len(all) = m + n /\ m \in Nat /\ n \in Nat
      /\ \A i \in 1..(m + n) : all[i] = IF i <= m THEN ps[i] ELSE qs[i - m]
  BY <1>1
<1>5. /\ e \in [0..m -> Nat] /\ e[0] = a /\ e[m] = b
      /\ \A i \in 1..m : e[i - 1] < e[i] /\ ps[i] = <<e[i - 1] + 1, e[i]>>
  BY <1>2 DEF Cuts
<1>6. /\ f \in [0..n -> Nat] /\ f[0] = b /\ f[n] = c
      /\ \A i \in 1..n : f[i - 1] < f[i] /\ qs[i] = <<f[i - 1] + 1, f[i]>>
  BY <1>3 DEF Cuts
<1> HIDE DEF m, n, all
<1>7. g \in [0..(m + n) -> Nat]
  <2>1. \A i \in 0..(m + n) : (i <= m => i \in 0..m) /\ (~(i <= m) => i - m \in 0..n)
    BY <1>4
  <2> QED
    BY <1>5, <1>6, <2>1
<1>8. g[0] = a /\ g[m + n] = c
  BY <1>4, <1>5, <1>6
<1>9. ASSUME NEW i \in 1..(m + n)
      PROVE  g[i - 1] < g[i] /\ all[i] = <<g[i - 1] + 1, g[i]>>
  <2>1. i - 1 \in 0..(m + n) /\ i \in 0..(m + n)
    BY <1>4
  <2>2. CASE i <= m
    <3>1. i \in 1..m /\ i - 1 <= m
      BY <1>4, <2>2
    <3>2. g[i] = e[i] /\ g[i - 1] = e[i - 1] /\ all[i] = ps[i]
      BY <1>4, <2>1, <2>2, <3>1
    <3> QED
      BY <1>5, <3>1, <3>2
  <2>3. CASE ~(i <= m)
    <3>1. i - m \in 1..n /\ (i - m) - 1 = (i - 1) - m
      BY <1>4, <2>3
    <3>2. g[i] = f[i - m] /\ all[i] = qs[i - m]
      BY <1>4, <2>1, <2>3
    <3>3. g[i - 1] = f[(i - m) - 1]
      <4>1. CASE i - 1 <= m
        <5>1. i - 1 = m /\ (i - m) - 1 = 0
          BY <1>4, <2>3, <4>1
        <5> QED
          BY <1>5, <1>6, <2>1, <5>1
      <4>2. CASE ~(i - 1 <= m)
        BY <2>1, <3>1, <4>2
      <4> QED
        BY <4>1, <4>2
    <3> QED
      BY <1>6, <3>1, <3>2, <3>3
  <2> QED
    BY <2>2, <2>3
<1> HIDE DEF g
<1>10. Cuts(g, all, a, c)
  BY <1>4, <1>7, <1>8, <1>9 DEF Cuts
<1> QED
  BY <1>4, <1>10 DEF Spans, all

\* The end of a span spans its own part, and no token is counted twice.
LEMMA SpansEnd ==
    ASSUME NEW ps, NEW a, NEW b, Spans(ps, a, b), NEW i \in 1..(Len(ps) + 1)
    PROVE  \E c \in Nat : a <= c /\ c <= b /\ Spans(SubSeq(ps, i, Len(ps)), c, b)
<1>1. ps \in Seq(Pieces)
  BY DEF Spans
<1>2. PICK e : Cuts(e, ps, a, b)
  BY DEF Spans
<1> DEFINE n == Len(ps)
           m == i - 1
           rest == SubSeq(ps, m + 1, n)
           f == [j \in 0..(n - m) |-> e[m + j]]
<1>3. n \in Nat /\ m \in 0..n /\ m + 1 = i
  BY <1>1
<1>4. /\ rest \in Seq(Pieces) /\ Len(rest) = n - m
      /\ \A j \in 1..(n - m) : rest[j] = ps[m + j]
  <2>1. IsParted(Pieces, ps, m, SubSeq(ps, 1, m), SubSeq(ps, m + 1, Len(ps)))
    BY <1>1, <1>3, Parted
  <2> QED
    BY <2>1 DEF IsParted
<1>5. /\ e \in [0..n -> Nat] /\ e[n] = b
      /\ \A j \in 1..n : e[j - 1] < e[j] /\ ps[j] = <<e[j - 1] + 1, e[j]>>
  BY <1>2 DEF Cuts
<1>6. a <= e[m] /\ e[m] <= b
  BY <1>1, <1>2, <1>3, CutsRise
<1> HIDE DEF n, m, rest
<1>7. f \in [0..(n - m) -> Nat]
  BY <1>3, <1>5
<1>8. f[0] = e[m] /\ f[n - m] = b
  BY <1>3, <1>5
<1>9. ASSUME NEW j \in 1..(n - m)
      PROVE  f[j - 1] < f[j] /\ rest[j] = <<f[j - 1] + 1, f[j]>>
  <2>1. /\ j - 1 \in 0..(n - m) /\ j \in 0..(n - m) /\ m + j \in 1..n
        /\ m + (j - 1) = (m + j) - 1
    BY <1>3
  <2>2. f[j] = e[m + j] /\ f[j - 1] = e[(m + j) - 1]
    BY <2>1
  <2> QED
    BY <1>4, <1>5, <2>1, <2>2
<1> HIDE DEF f
<1>10. Cuts(f, rest, e[m], b)
  BY <1>4, <1>7, <1>8, <1>9 DEF Cuts
<1>11. Spans(rest, e[m], b)
  BY <1>4, <1>10 DEF Spans
<1>12. e[m] \in Nat
  BY <1>3, <1>5
<1> QED
  BY <1>3, <1>6, <1>11, <1>12 DEF rest, n

LEMMA SpansTotal ==
    ASSUME NEW ps, NEW a, NEW b, Spans(ps, a, b)
    PROVE  Total(ps) = b - a
<1>1. ps \in Seq(Pieces)
  BY DEF Spans
<1>2. PICK e : Cuts(e, ps, a, b)
  BY DEF Spans
<1>3. PICK p : TotalRun(p, ps)
  BY <1>1, TotalFold
<1> DEFINE n == Len(ps)
           P == {k \in 0..n : p[k] = e[k] - a}
<1>4. n \in Nat /\ a \in Nat /\ \A k \in 0..n : e[k] \in Nat
  BY <1>1, <1>2, CutsType
<1>5. /\ e[0] = a /\ e[n] = b
      /\ \A i \in 1..n : ps[i] = <<e[i - 1] + 1, e[i]>>
  BY <1>2 DEF Cuts
<1>6. p[0] = 0 /\ Total(ps) = p[n] /\ \A k \in 1..n : p[k] = p[k - 1] + Size(ps[k])
  BY <1>3 DEF TotalRun, TotalStep
<1> HIDE DEF n
<1>7. 0 \in P
  BY <1>4, <1>5, <1>6
<1>8. \A k \in 0..(n - 1) : k \in P => k + 1 \in P
  <2> SUFFICES ASSUME NEW k \in 0..(n - 1), k \in P
               PROVE  k + 1 \in P
    OBVIOUS
  <2>1. k + 1 \in 1..n /\ (k + 1) - 1 = k /\ k \in 0..n /\ k + 1 \in 0..n
    BY <1>4
  <2>2. ps[k + 1] = <<e[k] + 1, e[k + 1]>>
    BY <1>5, <2>1
  <2>3. Size(ps[k + 1]) = e[k + 1] - (e[k] + 1) + 1
    BY <2>2 DEF Size
  <2>4. p[k + 1] = p[k] + Size(ps[k + 1])
    BY <1>6, <2>1
  <2>5. e[k] \in Nat /\ e[k + 1] \in Nat /\ p[k] = e[k] - a
    BY <1>4, <2>1
  <2> HIDE DEF Size
  <2>6. p[k + 1] = e[k + 1] - a
    BY <1>4, <2>3, <2>4, <2>5
  <2> QED
    BY <2>1, <2>6
<1>9. \A k \in 0..n : k \in P
  BY <1>4, <1>7, <1>8, CountInduction
<1>10. n \in 0..n
  BY <1>4
<1> QED
  BY <1>5, <1>6, <1>9, <1>10

Small(ps, limit) == \A i \in 1..Len(ps) : Size(ps[i]) \in 1..limit

LEMMA SmallNone ==
    ASSUME NEW limit
    PROVE  Small(<<>>, limit)
BY DEF Small

LEMMA SmallConcat ==
    ASSUME NEW ps \in Seq(Pieces), NEW qs \in Seq(Pieces), NEW limit, Small(ps, limit), Small(qs, limit)
    PROVE  Small(ps \o qs, limit)
<1> DEFINE m == Len(ps)
           n == Len(qs)
           all == ps \o qs
<1>1. /\ Len(all) = m + n /\ m \in Nat /\ n \in Nat
      /\ \A i \in 1..(m + n) : all[i] = IF i <= m THEN ps[i] ELSE qs[i - m]
  OBVIOUS
<1>2. /\ \A i \in 1..m : Size(ps[i]) \in 1..limit
      /\ \A i \in 1..n : Size(qs[i]) \in 1..limit
  BY DEF Small
<1> HIDE DEF m, n, all
<1>3. ASSUME NEW i \in 1..(m + n)
      PROVE  Size(all[i]) \in 1..limit
  <2>1. CASE i <= m
    BY <1>1, <1>2, <2>1
  <2>2. CASE ~(i <= m)
    <3>1. i - m \in 1..n /\ all[i] = qs[i - m]
      BY <1>1, <2>2
    <3> QED
      BY <1>2, <3>1
  <2> QED
    BY <2>1, <2>2
<1>4. Small(all, limit)
  BY <1>1, <1>3 DEF Small
<1> QED
  BY <1>4 DEF all

LEMMA MinOfTwo ==
    ASSUME NEW x \in Int, NEW y \in Int
    PROVE  Min({x, y}) = IF x <= y THEN x ELSE y
<1> DEFINE m == IF x <= y THEN x ELSE y
<1>1. m \in {x, y} /\ \A z \in {x, y} : m <= z
  OBVIOUS
<1>2. \A z \in {x, y} : z \in Int
  OBVIOUS
<1> DEFINE least == Min({x, y})
<1>3. least \in {x, y} /\ \A z \in {x, y} : least <= z
  BY <1>1 DEF Min
<1> HIDE DEF least, m
<1>4. least \in Int /\ m \in Int /\ least <= m /\ m <= least
  BY <1>1, <1>2, <1>3
<1>5. least = m
  BY <1>4
<1> QED
  BY <1>5 DEF least, m

\* How many blocks a size makes, the last of them perhaps shorter.
LEMMA Blocks ==
    ASSUME NEW size \in Nat, NEW limit \in Nat \ {0}
    PROVE  LET n == (size + limit - 1) \div limit
           IN  /\ n \in Nat /\ (n = 0 <=> size = 0)
               /\ size <= n * limit
               /\ \A i \in 0..n : i * limit \in Nat /\ (i < n => i * limit < size)
               /\ \A i \in 1..n : i * limit = (i - 1) * limit + limit
<1> DEFINE n == (size + limit - 1) \div limit
           r == (size + limit - 1) % limit
<1>1. n \in Int /\ r \in 0..(limit - 1) /\ size + limit - 1 = limit * n + r
  OBVIOUS
<1> HIDE DEF n, r
<1>2. limit * n = size + limit - 1 - r /\ limit * n >= size /\ limit * n < size + limit
  BY <1>1
<1>3. n * limit = limit * n
  BY <1>1
<1>4. n >= 0
  BY <1>1, <1>2
<1>5. n = 0 <=> size = 0
  BY <1>1, <1>2, <1>4
<1>6. ASSUME NEW i \in 0..n
      PROVE  i * limit \in Nat /\ (i < n => i * limit < size)
  BY <1>1, <1>2, <1>3
<1>7. \A i \in 1..n : i * limit = (i - 1) * limit + limit
  BY <1>1
<1>8. n \in Nat /\ size <= n * limit
  BY <1>1, <1>2, <1>3, <1>4
<1> QED
  BY <1>5, <1>6, <1>7, <1>8 DEF n

LEMMA CutSpans ==
    ASSUME NEW a \in Nat, NEW b \in Nat, a < b, NEW limit \in Nat \ {0}
    PROVE  Spans(Cut(<<a + 1, b>>, limit), a, b) /\ Small(Cut(<<a + 1, b>>, limit), limit)
<1> DEFINE word == <<a + 1, b>>
           size == b - a
           n == (size + limit - 1) \div limit
           M == [i \in 0..n |-> i * limit]
           e == [i \in 0..n |-> IF b <= a + M[i] THEN b ELSE a + M[i]]
           ps == Cut(word, limit)
<1>1. size \in Nat \ {0} /\ word[1] = a + 1 /\ word[2] = b /\ Size(word) = size
  BY DEF Size
<1>2. /\ n \in Nat \ {0} /\ size <= M[n] /\ M[0] = 0
      /\ \A i \in 0..n : M[i] \in Nat /\ (i < n => M[i] < size)
      /\ \A i \in 1..n : M[i] = M[i - 1] + limit
  <2> HIDE DEF size
  <2>1. /\ n \in Nat /\ (n = 0 <=> size = 0) /\ size <= n * limit
        /\ \A i \in 0..n : i * limit \in Nat /\ (i < n => i * limit < size)
        /\ \A i \in 1..n : i * limit = (i - 1) * limit + limit
    BY <1>1, Blocks
  <2> HIDE DEF n
  <2>2. 0 * limit = 0 /\ \A i \in 1..n : i - 1 \in 0..n /\ i \in 0..n
    BY <2>1
  <2>3. \A i \in 0..n : M[i] = i * limit
    OBVIOUS
  <2>4. n \in 0..n /\ 0 \in 0..n
    BY <2>1
  <2> HIDE DEF M
  <2>5. \A i \in 1..n : M[i] = M[i - 1] + limit
    BY <2>1, <2>2, <2>3
  <2> QED
    BY <1>1, <2>1, <2>2, <2>3, <2>4, <2>5
<1>3. \A i \in 1..n : ps[i] = <<a + M[i - 1] + 1, Min({b, a + M[i]})>>
  <2> SUFFICES ASSUME NEW i \in 1..n
               PROVE  ps[i] = <<a + M[i - 1] + 1, Min({b, a + M[i]})>>
    OBVIOUS
  <2>1. ps[i] = <<word[1] + (i - 1) * limit, Min({word[2], word[1] + i * limit - 1})>>
    BY <1>1 DEF Cut
  <2>2. M[i] = i * limit /\ M[i - 1] = (i - 1) * limit
    OBVIOUS
  <2>3. M[i] \in Nat /\ M[i - 1] \in Nat
    BY <1>2
  <2> HIDE DEF M, word, ps, n
  <2>4. word[1] + (i - 1) * limit = a + M[i - 1] + 1 /\ word[1] + i * limit - 1 = a + M[i]
    BY <1>1, <2>2, <2>3
  <2> QED
    BY <1>1, <2>1, <2>4
<1>4. DOMAIN ps = 1..n
  BY <1>1 DEF Cut
<1>5. \A i \in 0..n : e[i] = IF b <= a + M[i] THEN b ELSE a + M[i]
  OBVIOUS
<1>6. e \in [0..n -> Nat]
  <2> HIDE DEF M, n
  <2> QED
    BY <1>2
<1>7. \A i \in 1..n : ps[i] = <<a + M[i - 1] + 1, e[i]>>
  <2> SUFFICES ASSUME NEW i \in 1..n
               PROVE  ps[i] = <<a + M[i - 1] + 1, e[i]>>
    OBVIOUS
  <2> HIDE DEF ps, e, M, n
  <2>1. i \in 0..n /\ M[i] \in Nat
    BY <1>2
  <2>2. a + M[i] \in Int
    BY <2>1
  <2>3. Min({b, a + M[i]}) = IF b <= a + M[i] THEN b ELSE a + M[i]
    <3> DEFINE y == a + M[i]
    <3>1. y \in Int
      BY <2>2
    <3> HIDE DEF y
    <3>2. Min({b, y}) = IF b <= y THEN b ELSE y
      BY <3>1, MinOfTwo
    <3> QED
      BY <3>2 DEF y
  <2>4. Min({b, a + M[i]}) = e[i]
    BY <1>5, <2>1, <2>3
  <2> QED
    BY <1>3, <2>4
<1> HIDE DEF ps, e, M, n
<1>8. e[0] = a /\ e[n] = b
  BY <1>1, <1>2, <1>5
<1>9. ASSUME NEW i \in 1..n
      PROVE  /\ e[i - 1] = a + M[i - 1] /\ e[i - 1] \in Nat /\ e[i] \in Nat
             /\ e[i - 1] < e[i] /\ e[i] - e[i - 1] <= limit
  BY <1>2, <1>5
<1>10. \A i \in 1..n : ps[i] = <<e[i - 1] + 1, e[i]>>
  BY <1>7, <1>9
<1>11. ps \in Seq(Pieces) /\ Len(ps) = n
  <2>1. \A i \in 1..n : ps[i] \in Pieces
    <3> SUFFICES ASSUME NEW i \in 1..n
                 PROVE  ps[i] \in Pieces
      OBVIOUS
    <3>1. e[i - 1] + 1 \in Nat \ {0} /\ e[i] \in Nat
      BY <1>9
    <3>2. <<e[i - 1] + 1, e[i]>> \in (Nat \ {0}) \X Nat
      BY <3>1
    <3> QED
      BY <1>10, <3>2 DEF Pieces
  <2>2. ps = [i \in 1..n |-> ps[i]]
    BY <1>1 DEF ps, n, Cut
  <2>3. n \in Nat
    BY <1>2
  <2> HIDE DEF Pieces
  <2> QED
    BY <2>1, <2>2, <2>3
<1>12. Cuts(e, ps, a, b)
  BY <1>6, <1>8, <1>9, <1>10, <1>11 DEF Cuts
<1>13. \A i \in 1..n : Size(ps[i]) \in 1..limit
  BY <1>9, <1>10 DEF Size
<1> QED
  BY <1>11, <1>12, <1>13 DEF Spans, Small, ps, word

LEMMA JoinedSpans ==
    ASSUME NEW ps, NEW a, NEW b, Spans(ps, a, b), NEW limit \in Nat, b - a <= limit
    PROVE  Spans(Joined(ps), a, b) /\ Small(Joined(ps), limit)
<1>1. /\ a \in Nat /\ b \in Nat
      /\ ps = <<>> => a = b
      /\ ps # <<>> => a < b /\ Head(ps)[1] = a + 1 /\ Last(ps)[2] = b
  BY SpansType
<1>2. CASE ps = <<>>
  BY <1>1, <1>2, SpansNone, SmallNone DEF Joined
<1>3. CASE ps # <<>>
  <2> DEFINE one == <<a + 1, b>>
  <2>1. Joined(ps) = <<one>>
    BY <1>1, <1>3 DEF Joined
  <2>2. Spans(<<>>, a, a)
    BY <1>1, SpansNone
  <2>3. Spans(Append(<<>>, one), a, b)
    BY <1>1, <1>3, <2>2, SpansAppend
  <2>4. Size(one) = b - (a + 1) + 1
    BY DEF Size
  <2>5. Size(one) \in 1..limit
    BY <1>1, <1>3, <2>4
  <2> HIDE DEF one
  <2>6. Append(<<>>, one) = <<one>>
    OBVIOUS
  <2>7. Small(<<one>>, limit)
    BY <2>5 DEF Small
  <2> QED
    BY <2>1, <2>3, <2>6, <2>7
<1> QED
  BY <1>2, <1>3

-----------------------------------------------------------------------------
(* Sections.                                                               *)

Splitting == [groups : Seq(Pieces), current : Seq(Pieces)]

CollectStep(s, word, limit) ==
    CASE Size(word) > limit ->
            [groups |-> s.groups \o Joined(s.current) \o Cut(word, limit),
             current |-> <<>>]
      [] Size(word) <= limit /\ s.current # <<>>
            /\ Total(s.current) + Size(word) > limit ->
            [groups |-> s.groups \o Joined(s.current),
             current |-> <<word>>]
      [] OTHER -> [s EXCEPT !.current = Append(@, word)]

Collect(words, limit) ==
    LET step(s, word) ==
            CASE Size(word) > limit ->
                    [groups |-> s.groups \o Joined(s.current) \o Cut(word, limit),
                     current |-> <<>>]
              [] Size(word) <= limit /\ s.current # <<>>
                    /\ Total(s.current) + Size(word) > limit ->
                    [groups |-> s.groups \o Joined(s.current),
                     current |-> <<word>>]
              [] OTHER -> [s EXCEPT !.current = Append(@, word)]
    IN  FoldLeft(step, [groups |-> <<>>, current |-> <<>>], words)

LEMMA SplitOversizedEnds ==
    ASSUME NEW words, NEW limit
    PROVE  SplitOversized(words, limit) =
                Collect(words, limit).groups \o Joined(Collect(words, limit).current)
BY DEF SplitOversized, Collect

LEMMA PieceIs ==
    ASSUME NEW piece \in Pieces
    PROVE  \E a, b \in Nat : piece = <<a + 1, b>> /\ Size(piece) = b - a
<1> DEFINE first == piece[1]
           b == piece[2]
           a == first - 1
<1>1. first \in Nat \ {0} /\ b \in Nat /\ piece = <<first, b>>
  BY DEF Pieces
<1>2. a \in Nat /\ a + 1 = first
  BY <1>1
<1>3. Size(piece) = b - first + 1
  BY DEF Size
<1> HIDE DEF first, b
<1>4. Size(piece) = b - a
  BY <1>1, <1>2, <1>3
<1> HIDE DEF a
<1> QED
  BY <1>1, <1>2, <1>4

LEMMA CollectStepType ==
    ASSUME NEW s \in Splitting, NEW word \in Pieces, NEW limit \in Nat \ {0}
    PROVE  CollectStep(s, word, limit) \in Splitting
<1>1. s.groups \in Seq(Pieces) /\ s.current \in Seq(Pieces)
  BY DEF Splitting
<1>2. Joined(s.current) \in Seq(Pieces)
  <2>1. CASE s.current = <<>>
    BY <2>1 DEF Joined
  <2>2. CASE s.current # <<>>
    <3> DEFINE one == <<Head(s.current)[1], Last(s.current)[2]>>
    <3>1. /\ Head(s.current) \in (Nat \ {0}) \X Nat /\ Last(s.current) \in (Nat \ {0}) \X Nat
      BY <1>1, <2>2, SMTT(30) DEF Last, Pieces
    <3>2. one \in Pieces
      BY <3>1 DEF Pieces
    <3>3. Joined(s.current) = <<one>>
      BY <2>2 DEF Joined
    <3> HIDE DEF one
    <3>4. <<one>> \in Seq(Pieces)
      BY <3>2
    <3> QED
      BY <3>3, <3>4
  <2> QED
    BY <2>1, <2>2
<1>3. Size(word) > limit => Cut(word, limit) \in Seq(Pieces)
  <2> SUFFICES ASSUME Size(word) > limit
               PROVE  Cut(word, limit) \in Seq(Pieces)
    OBVIOUS
  <2>1. PICK a \in Nat, b \in Nat : word = <<a + 1, b>> /\ Size(word) = b - a
    BY PieceIs
  <2>2. a < b
    BY <2>1
  <2>3. Spans(Cut(<<a + 1, b>>, limit), a, b)
    BY <2>2, CutSpans
  <2> QED
    BY <2>1, <2>3 DEF Spans
<1> DEFINE J == Joined(s.current)
           K == Cut(word, limit)
<1>4. s.groups \o J \in Seq(Pieces) /\ (Size(word) > limit => s.groups \o J \o K \in Seq(Pieces))
  BY <1>1, <1>2, <1>3 DEF J, K
<1>5. <<word>> \in Seq(Pieces) /\ Append(s.current, word) \in Seq(Pieces) /\ <<>> \in Seq(Pieces)
  BY <1>1
<1> DEFINE A == [groups |-> s.groups \o J \o K, current |-> <<>>]
           B == [groups |-> s.groups \o J, current |-> <<word>>]
           C == [s EXCEPT !.current = Append(@, word)]
<1>6. (Size(word) > limit => A \in Splitting) /\ B \in Splitting /\ C \in Splitting
  BY <1>1, <1>4, <1>5 DEF Splitting
<1>7. CollectStep(s, word, limit) =
        CASE Size(word) > limit -> A
          [] Size(word) <= limit /\ s.current # <<>>
                /\ Total(s.current) + Size(word) > limit -> B
          [] OTHER -> C
  BY DEF CollectStep
<1>8. Size(word) > limit => ~(Size(word) <= limit)
  BY PieceIs
<1> HIDE DEF A, B, C
<1> QED
  BY <1>6, <1>7, <1>8

CollectRun(p, words, limit) ==
    /\ p \in [0..Len(words) -> Splitting]
    /\ p[0] = [groups |-> <<>>, current |-> <<>>]
    /\ \A k \in 1..Len(words) : p[k] = CollectStep(p[k - 1], words[k], limit)
    /\ Collect(words, limit) = p[Len(words)]

LEMMA CollectFold ==
    ASSUME NEW words \in Seq(Pieces), NEW limit \in Nat \ {0}
    PROVE  \E p : CollectRun(p, words, limit)
<1> DEFINE n == Len(words)
           T == Splitting
           base == [groups |-> <<>>, current |-> <<>>]
           body(g) == [s \in SUBSET (1..n) |-> IF s = {} THEN base
                         ELSE CollectStep(g[s \ {Max(s)}], words[Max(s)], limit)]
           step == [k \in 1..n |-> [a \in T |-> CollectStep(a, words[k], limit)]]
           iter == CHOOSE g : g = body(g)
<1>1. n \in Nat /\ DOMAIN words = 1..n
  OBVIOUS
<1>2. Collect(words, limit) = iter[1..n]
  BY <1>1 DEF Collect, CollectStep, FoldLeft, MapThenFoldSet
<1>3. base \in T /\ \A k \in 1..n, a \in T : CollectStep(a, words[k], limit) \in T
  <2>1. base \in T
    BY DEF Splitting
  <2>2. \A k \in 1..n : words[k] \in Pieces
    OBVIOUS
  <2> HIDE DEF n
  <2> QED
    BY <2>1, <2>2, CollectStepType
<1>4. step \in Steps(n, T)
  BY <1>3 DEF Steps
<1> HIDE DEF n, T, base
<1>5. iter = body(iter)
  <2> HIDE DEF step, body
  <2>1. PICK g : g \in [SUBSET (1..n) -> T] /\ IsFold(g, n, T, base, step)
    BY <1>1, <1>3, <1>4, FoldExists
  <2>2. \A s \in SUBSET (1..n) : g[s] = body(g)[s]
    BY <2>1 DEF IsFold, step, body
  <2>3. g = body(g)
    BY <2>1, <2>2 DEF body
  <2> QED
    BY <2>3
<1> HIDE DEF iter
<1>6. Folds(iter, n, T, base, step)
  BY <1>5 DEF Folds
<1>7. PICK q : IsRun(q, n, T, base, step) /\ iter[1..n] = q[n]
  <2> HIDE DEF step
  <2> QED
    BY <1>1, <1>3, <1>4, <1>6, FoldRuns
<1>8. /\ q \in [0..n -> T] /\ q[0] = base
      /\ \A k \in 1..n : q[k] = CollectStep(q[k - 1], words[k], limit)
  BY <1>7 DEF IsRun
<1> QED
  BY <1>2, <1>7, <1>8 DEF n, T, base, CollectRun

SplitKept(s, a, b, limit) ==
    \E c \in Nat : /\ Spans(s.groups, a, c) /\ Small(s.groups, limit)
                   /\ Spans(s.current, c, b) /\ b - c <= limit

LEMMA CollectStepKeeps ==
    ASSUME NEW s \in Splitting, NEW a, NEW b, NEW limit \in Nat \ {0}, SplitKept(s, a, b, limit),
           NEW d \in Nat, b < d
    PROVE  SplitKept(CollectStep(s, <<b + 1, d>>, limit), a, d, limit)
<1> DEFINE word == <<b + 1, d>>
           t == CollectStep(s, word, limit)
           J == Joined(s.current)
           K == Cut(word, limit)
<1>1. s.groups \in Seq(Pieces) /\ s.current \in Seq(Pieces)
  BY DEF Splitting
<1>2. PICK c \in Nat : /\ Spans(s.groups, a, c) /\ Small(s.groups, limit)
                       /\ Spans(s.current, c, b) /\ b - c <= limit
  BY DEF SplitKept
<1>3. a \in Nat /\ b \in Nat /\ c <= b /\ (s.current = <<>> => c = b)
  BY <1>2, SpansType
<1>4. Size(word) = d - b
  BY <1>3 DEF Size
<1>5. Spans(J, c, b) /\ Small(J, limit)
  BY <1>2, JoinedSpans
<1>6. J \in Seq(Pieces) /\ K \in Seq(Pieces) /\ Spans(K, b, d) /\ Small(K, limit)
  BY <1>3, <1>5, CutSpans DEF Spans
<1>7. Spans(s.groups \o J, a, b) /\ Small(s.groups \o J, limit) /\ s.groups \o J \in Seq(Pieces)
  BY <1>1, <1>2, <1>5, <1>6, SpansConcat, SmallConcat DEF Spans
<1>8. Spans(<<>>, d, d) /\ Spans(<<word>>, b, d)
  <2>1. Spans(<<>>, b, b) /\ Spans(<<>>, d, d)
    BY <1>3, SpansNone
  <2>2. Spans(Append(<<>>, word), b, d)
    BY <1>3, <2>1, SpansAppend
  <2>3. Append(<<>>, word) = <<word>>
    OBVIOUS
  <2> QED
    BY <2>1, <2>2, <2>3
<1>9. Spans(Append(s.current, word), c, d)
  BY <1>2, SpansAppend
<1>10. CASE Size(word) > limit
  <2>1. t.groups = s.groups \o J \o K /\ t.current = <<>>
    <3>1. ~(Size(word) <= limit)
      BY <1>3, <1>4, <1>10
    <3>2. t = [groups |-> s.groups \o J \o K, current |-> <<>>]
      BY <1>10, <3>1 DEF CollectStep, J, K
    <3> HIDE DEF t, J, K
    <3> QED
      BY <3>2
  <2> DEFINE G == s.groups \o J
  <2>2. Spans(G \o K, a, d) /\ Small(G \o K, limit)
    BY <1>6, <1>7, SpansConcat, SmallConcat DEF G
  <2> HIDE DEF t, J, K
  <2>9. SplitKept(t, a, d, limit)
    BY <1>3, <1>8, <2>1, <2>2 DEF SplitKept
  <2> QED
    BY <2>9 DEF t, word
<1>11. CASE Size(word) <= limit /\ s.current # <<>> /\ Total(s.current) + Size(word) > limit
  <2>1. t.groups = s.groups \o J /\ t.current = <<word>>
    <3>1. ~(Size(word) > limit)
      BY <1>3, <1>4, <1>11
    <3>2. t = [groups |-> s.groups \o J, current |-> <<word>>]
      BY <1>11, <3>1 DEF CollectStep, J
    <3> HIDE DEF t, J, word
    <3> QED
      BY <3>2
  <2>2. d - b <= limit
    BY <1>4, <1>11
  <2> HIDE DEF t, J, K, word
  <2>9. SplitKept(t, a, d, limit)
    BY <1>3, <1>7, <1>8, <2>1, <2>2 DEF SplitKept
  <2> QED
    BY <2>9 DEF t, word
<1>12. CASE /\ ~(Size(word) > limit)
            /\ ~(Size(word) <= limit /\ s.current # <<>> /\ Total(s.current) + Size(word) > limit)
  <2>1. t.groups = s.groups /\ t.current = Append(s.current, word)
    BY <1>12 DEF CollectStep, Splitting
  <2>2. Total(s.current) = b - c
    BY <1>2, SpansTotal
  <2>3. d - c <= limit
    <3>1. d - b <= limit
      BY <1>3, <1>4, <1>12
    <3>2. CASE s.current = <<>>
      BY <1>3, <3>1, <3>2
    <3>3. CASE s.current # <<>>
      BY <1>3, <1>4, <1>12, <2>2, <3>1, <3>3
    <3> QED
      BY <3>2, <3>3
  <2> HIDE DEF t, J, K, word
  <2>9. SplitKept(t, a, d, limit)
    BY <1>2, <1>3, <1>9, <2>1, <2>3 DEF SplitKept
  <2> QED
    BY <2>9 DEF t, word
<1> QED
  BY <1>10, <1>11, <1>12

LEMMA SplitSpans ==
    ASSUME NEW words, NEW a, NEW b, Spans(words, a, b), NEW limit \in Nat \ {0}
    PROVE  /\ Spans(SplitOversized(words, limit), a, b)
           /\ Small(SplitOversized(words, limit), limit)
<1>1. words \in Seq(Pieces) /\ a \in Nat /\ b \in Nat
  BY SpansType
<1>2. PICK e : Cuts(e, words, a, b)
  BY DEF Spans
<1>3. PICK p : CollectRun(p, words, limit)
  BY <1>1, CollectFold
<1> DEFINE n == Len(words)
           P == {k \in 0..n : SplitKept(p[k], a, e[k], limit)}
<1>4. n \in Nat /\ \A k \in 0..n : e[k] \in Nat
  BY <1>1, <1>2, CutsType
<1>5. /\ e[0] = a /\ e[n] = b
      /\ \A i \in 1..n : e[i - 1] < e[i] /\ words[i] = <<e[i - 1] + 1, e[i]>>
  BY <1>2 DEF Cuts
<1>6. /\ p[0] = [groups |-> <<>>, current |-> <<>>] /\ Collect(words, limit) = p[n]
      /\ \A k \in 0..n : p[k] \in Splitting
      /\ \A k \in 1..n : p[k] = CollectStep(p[k - 1], words[k], limit)
  BY <1>3 DEF CollectRun
<1> HIDE DEF n
<1>7. 0 \in P
  BY <1>1, <1>4, <1>5, <1>6, SpansNone, SmallNone, SMTT(30) DEF SplitKept
<1>8. \A k \in 0..(n - 1) : k \in P => k + 1 \in P
  <2> SUFFICES ASSUME NEW k \in 0..(n - 1), k \in P
               PROVE  k + 1 \in P
    OBVIOUS
  <2>1. k + 1 \in 1..n /\ (k + 1) - 1 = k /\ k \in 0..n /\ k + 1 \in 0..n
    BY <1>4
  <2>2. e[k] < e[k + 1] /\ words[k + 1] = <<e[k] + 1, e[k + 1]>> /\ e[k + 1] \in Nat
    BY <1>4, <1>5, <2>1
  <2>3. p[k + 1] = CollectStep(p[k], words[k + 1], limit) /\ p[k] \in Splitting
    BY <1>6, <2>1
  <2> DEFINE s == p[k]
             c == e[k]
             d == e[k + 1]
  <2>4. SplitKept(s, a, c, limit) /\ c < d /\ d \in Nat /\ s \in Splitting
    BY <2>2, <2>3
  <2> HIDE DEF s, c, d
  <2>5. SplitKept(CollectStep(s, <<c + 1, d>>, limit), a, d, limit)
    BY <2>4, CollectStepKeeps
  <2>6. SplitKept(p[k + 1], a, e[k + 1], limit)
    BY <2>2, <2>3, <2>5 DEF s, c, d
  <2> QED
    BY <2>1, <2>6
<1>9. \A k \in 0..n : k \in P
  BY <1>4, <1>7, <1>8, CountInduction
<1>10. n \in 0..n
  BY <1>4
<1> DEFINE s == p[n]
<1>11. SplitKept(s, a, b, limit)
  BY <1>5, <1>9, <1>10
<1> HIDE DEF s
<1>12. PICK c \in Nat : /\ Spans(s.groups, a, c) /\ Small(s.groups, limit)
                        /\ Spans(s.current, c, b) /\ b - c <= limit
  BY <1>11 DEF SplitKept
<1> DEFINE J == Joined(s.current)
<1>13. Spans(J, c, b) /\ Small(J, limit)
  BY <1>12, JoinedSpans
<1> HIDE DEF J
<1>14. Spans(s.groups \o J, a, b) /\ Small(s.groups \o J, limit)
  BY <1>12, <1>13, SpansConcat, SmallConcat DEF Spans
<1> QED
  BY <1>6, <1>14, SplitOversizedEnds DEF J, s

\* Paragraphs one behind the other.
IsChain(e, ps, a, b) ==
    /\ e \in [0..Len(ps) -> Nat]
    /\ e[0] = a /\ e[Len(ps)] = b
    /\ \A i \in 1..Len(ps) : Spans(ps[i], e[i - 1], e[i])

Chained(ps, a, b) == ps \in Seq(Seq(Pieces)) /\ \E e : IsChain(e, ps, a, b)

AllSmall(ps, limit) == \A i \in 1..Len(ps) : Small(ps[i], limit)

LEMMA ChainSpans ==
    ASSUME NEW ps, NEW a, NEW b, Chained(ps, a, b)
    PROVE  /\ Spans(FlattenSeq(ps), a, b)
           /\ \A limit \in Nat : AllSmall(ps, limit) => Small(FlattenSeq(ps), limit)
<1>1. ps \in Seq(Seq(Pieces)) /\ Len(ps) \in Nat
  BY DEF Chained
<1>2. PICK e : IsChain(e, ps, a, b)
  BY DEF Chained
<1> DEFINE n == Len(ps)
<1>3. /\ e \in [0..n -> Nat] /\ e[0] = a /\ e[n] = b /\ n \in Nat
      /\ \A i \in 1..n : Spans(ps[i], e[i - 1], e[i])
  BY <1>1, <1>2 DEF IsChain
<1>4. PICK q \in [0..n -> Seq(Pieces)] :
        /\ q[0] = <<>>
        /\ \A k \in 1..n : q[k] = q[k - 1] \o ps[k]
        /\ FlattenSeq(ps) = q[n]
  BY <1>1, FlattenRun
<1>5. \A i \in 1..n : ps[i] \in Seq(Pieces)
  BY <1>1
<1> HIDE DEF n
<1>6. Spans(q[n], a, b)
  <2> DEFINE P == {k \in 0..n : Spans(q[k], a, e[k])}
  <2>1. 0 \in P
    BY <1>3, <1>4, SpansNone
  <2>2. \A k \in 0..(n - 1) : k \in P => k + 1 \in P
    <3> SUFFICES ASSUME NEW k \in 0..(n - 1), k \in P
                 PROVE  k + 1 \in P
      OBVIOUS
    <3>1. k + 1 \in 1..n /\ (k + 1) - 1 = k /\ k + 1 \in 0..n
      BY <1>3
    <3>2. q[k + 1] = q[k] \o ps[k + 1]
      BY <1>4, <3>1
    <3>3. Spans(ps[k + 1], e[k], e[k + 1])
      BY <1>3, <3>1
    <3>4. Spans(q[k], a, e[k])
      OBVIOUS
    <3>5. Spans(q[k] \o ps[k + 1], a, e[k + 1])
      <4> DEFINE s == q[k]
                 t == ps[k + 1]
                 c == e[k]
                 d == e[k + 1]
      <4>1. Spans(s, a, c) /\ Spans(t, c, d)
        BY <3>3, <3>4
      <4> HIDE DEF s, t, c, d
      <4>2. Spans(s \o t, a, d)
        BY <4>1, SpansConcat
      <4> QED
        BY <4>2 DEF s, t, d
    <3> QED
      BY <3>1, <3>2, <3>5
  <2>3. \A k \in 0..n : k \in P
    BY <1>3, <2>1, <2>2, CountInduction
  <2>4. n \in 0..n
    BY <1>3
  <2> QED
    BY <1>3, <2>3, <2>4
<1>7. ASSUME NEW limit \in Nat, AllSmall(ps, limit)
      PROVE  Small(q[n], limit)
  <2> DEFINE P == {k \in 0..n : Small(q[k], limit)}
  <2>1. 0 \in P
    BY <1>3, <1>4, SmallNone
  <2>2. \A k \in 0..(n - 1) : k \in P => k + 1 \in P
    <3> SUFFICES ASSUME NEW k \in 0..(n - 1), k \in P
                 PROVE  k + 1 \in P
      OBVIOUS
    <3>1. k + 1 \in 1..n /\ (k + 1) - 1 = k /\ k + 1 \in 0..n /\ k \in 0..n
      BY <1>3
    <3>2. q[k + 1] = q[k] \o ps[k + 1]
      BY <1>4, <3>1
    <3>3. Small(ps[k + 1], limit) /\ Small(q[k], limit)
      BY <1>7, <3>1 DEF AllSmall, n
    <3>4. q[k] \in Seq(Pieces) /\ ps[k + 1] \in Seq(Pieces)
      BY <1>4, <1>5, <3>1
    <3>5. Small(q[k] \o ps[k + 1], limit)
      BY <3>3, <3>4, SmallConcat
    <3> QED
      BY <3>1, <3>2, <3>5
  <2>3. \A k \in 0..n : k \in P
    BY <1>3, <2>1, <2>2, CountInduction
  <2>4. n \in 0..n
    BY <1>3
  <2> QED
    BY <2>3, <2>4
<1> QED
  BY <1>4, <1>6, <1>7

LEMMA SectionsSpan ==
    ASSUME NEW ps, NEW a, NEW b, Chained(ps, a, b), NEW limit \in Nat \ {0}
    PROVE  Spans(Sections(ps, limit), a, b) /\ Small(Sections(ps, limit), limit)
<1>1. ps \in Seq(Seq(Pieces))
  BY DEF Chained
<1>2. PICK e : IsChain(e, ps, a, b)
  BY DEF Chained
<1> DEFINE n == Len(ps)
           qs == [i \in 1..n |-> SplitOversized(ps[i], limit)]
<1>3. n \in Nat /\ DOMAIN ps = 1..n
  BY <1>1
<1>4. /\ e \in [0..n -> Nat] /\ e[0] = a /\ e[n] = b
      /\ \A i \in 1..n : Spans(ps[i], e[i - 1], e[i])
  BY <1>2 DEF IsChain
<1>5. Sections(ps, limit) = FlattenSeq(qs)
  BY <1>3 DEF Sections
<1> HIDE DEF n
<1>6. ASSUME NEW i \in 1..n
      PROVE  Spans(qs[i], e[i - 1], e[i]) /\ Small(qs[i], limit)
  <2> DEFINE p == ps[i]
             c == e[i - 1]
             d == e[i]
  <2>1. Spans(p, c, d)
    BY <1>4
  <2>2. qs[i] = SplitOversized(p, limit)
    OBVIOUS
  <2> HIDE DEF p, c, d, qs
  <2>3. Spans(qs[i], c, d) /\ Small(qs[i], limit)
    BY <2>1, <2>2, SplitSpans
  <2> QED
    BY <2>3 DEF c, d
<1>7. qs \in Seq(Seq(Pieces)) /\ Len(qs) = n
  BY <1>3, <1>6 DEF Spans
<1> HIDE DEF qs
<1>8. IsChain(e, qs, a, b) /\ AllSmall(qs, limit)
  BY <1>4, <1>6, <1>7 DEF IsChain, AllSmall
<1>9. Chained(qs, a, b)
  BY <1>7, <1>8 DEF Chained
<1>10. limit \in Nat
  OBVIOUS
<1> QED
  BY <1>5, <1>8, <1>9, <1>10, ChainSpans

-----------------------------------------------------------------------------
(* Bodies.                                                                 *)

KeptFrom(i, ps, section, overlap, limit) ==
    LET kept == SubSeq(ps, i, Len(ps))
    IN  /\ Overlap(ps, section, overlap, limit) = kept
        /\ Total(kept) <= overlap
        /\ kept = <<>> \/ ~(Total(kept) + Size(section) > limit)

\* What the overlap keeps: an end of the chunk, short enough.
LEMMA OverlapIs ==
    ASSUME NEW ps \in Seq(Pieces), NEW section \in Pieces, NEW overlap \in Nat, NEW limit \in Nat
    PROVE  \E i \in 1..(Len(ps) + 1) : KeptFrom(i, ps, section, overlap, limit)
<1> DEFINE n == Len(ps)
           end(i) == SubSeq(ps, i, n)
           ends == {end(i) : i \in 1..(n + 1)}
           short == {e \in ends : Total(e) <= overlap}
           longest(e) == e \in short /\ \A f \in short : Len(f) <= Len(e)
           kept == CHOOSE e \in short : \A f \in short : Len(f) <= Len(e)
<1>1. n \in Nat
  OBVIOUS
<1>2. end(n + 1) = <<>>
  OBVIOUS
<1>3. Total(<<>>) = 0
  BY SpansNone, SpansTotal
<1>4. <<>> \in short
  BY <1>1, <1>2, <1>3
<1>5. \A e \in ends : Len(e) \in 0..n
  BY <1>1, Parted DEF IsParted
<1>6. \E e \in short : \A f \in short : Len(f) <= Len(e)
  <2> DEFINE lengths == {Len(e) : e \in short}
  <2>1. lengths \in SUBSET (0..n) /\ lengths # {}
    BY <1>4, <1>5
  <2>2. Max(lengths) \in lengths /\ \A x \in lengths : x <= Max(lengths)
    BY <1>1, <2>1, MaxFromZero
  <2>3. PICK e \in short : Len(e) = Max(lengths)
    BY <2>2
  <2>4. \A f \in short : Len(f) \in lengths
    OBVIOUS
  <2> HIDE DEF lengths, short
  <2> QED
    BY <2>2, <2>3, <2>4
<1>7. kept \in short
  BY <1>6
<1>8. Overlap(ps, section, overlap, limit) =
        IF Total(kept) + Size(section) > limit THEN <<>> ELSE kept
  BY DEF Overlap
<1> HIDE DEF kept
<1>9. CASE Total(kept) + Size(section) > limit
  <2>1. n + 1 \in 1..(n + 1) /\ Overlap(ps, section, overlap, limit) = <<>>
    BY <1>1, <1>8, <1>9
  <2> DEFINE m == n + 1
  <2>2. SubSeq(ps, m, Len(ps)) = <<>> /\ m \in 1..(Len(ps) + 1)
    BY <1>2, <2>1
  <2> HIDE DEF m
  <2>3. KeptFrom(m, ps, section, overlap, limit)
    BY <1>3, <2>1, <2>2 DEF KeptFrom
  <2> QED
    BY <2>2, <2>3
<1>10. CASE ~(Total(kept) + Size(section) > limit)
  <2>1. PICK i \in 1..(n + 1) : kept = end(i)
    BY <1>7
  <2>2. Total(kept) <= overlap
    BY <1>7
  <2>3. Overlap(ps, section, overlap, limit) = kept
    BY <1>8, <1>10
  <2>4. KeptFrom(i, ps, section, overlap, limit)
    BY <1>10, <2>1, <2>2, <2>3 DEF KeptFrom
  <2> QED
    BY <2>4
<1> QED
  BY <1>9, <1>10

LEMMA OverlapType ==
    ASSUME NEW ps \in Seq(Pieces), NEW section \in Pieces, NEW overlap \in Nat, NEW limit \in Nat
    PROVE  Overlap(ps, section, overlap, limit) \in Seq(Pieces)
<1> DEFINE n == Len(ps)
           kept == Overlap(ps, section, overlap, limit)
<1>1. PICK i \in 1..(n + 1) : KeptFrom(i, ps, section, overlap, limit)
  BY OverlapIs
<1>2. kept = SubSeq(ps, i, n)
  BY <1>1 DEF KeptFrom
<1> DEFINE m == i - 1
<1>3. m \in 0..n /\ m + 1 = i
  OBVIOUS
<1> HIDE DEF m
<1>4. IsParted(Pieces, ps, m, SubSeq(ps, 1, m), SubSeq(ps, m + 1, n))
  BY <1>3, Parted
<1> QED
  BY <1>2, <1>3, <1>4 DEF IsParted

Packing == [bodies : Seq(Seq(Pieces)), current : Seq(Pieces)]

PackStep(s, section, target, limit, overlap) ==
    IF s.current # <<>> /\ Total(s.current) + Size(section) > target
    THEN [bodies |-> Append(s.bodies, s.current),
          current |->
            Append(Overlap(s.current, section, overlap, limit), section)]
    ELSE [s EXCEPT !.current = Append(@, section)]

Pack(sections, target, limit, overlap) ==
    LET step(s, section) ==
            IF s.current # <<>> /\ Total(s.current) + Size(section) > target
            THEN [bodies |-> Append(s.bodies, s.current),
                  current |->
                    Append(Overlap(s.current, section, overlap, limit), section)]
            ELSE [s EXCEPT !.current = Append(@, section)]
    IN  FoldLeft(step, [bodies |-> <<>>, current |-> <<>>], sections)

LEMMA BodiesPack ==
    ASSUME NEW paragraphs, NEW target, NEW limit, NEW overlap
    PROVE  Bodies(paragraphs, target, limit, overlap) =
             LET end == Pack(Sections(paragraphs, limit), target, limit, overlap)
             IN  IF end.current = <<>> THEN end.bodies ELSE Append(end.bodies, end.current)
BY DEF Bodies, Pack

LEMMA PackStepType ==
    ASSUME NEW s \in Packing, NEW section \in Pieces, NEW target \in Int, NEW limit \in Nat,
           NEW overlap \in Nat
    PROVE  PackStep(s, section, target, limit, overlap) \in Packing
<1>1. s.bodies \in Seq(Seq(Pieces)) /\ s.current \in Seq(Pieces)
  BY DEF Packing
<1> DEFINE kept == Overlap(s.current, section, overlap, limit)
<1>2. kept \in Seq(Pieces)
  BY <1>1, OverlapType
<1> HIDE DEF kept
<1>3. /\ Append(kept, section) \in Seq(Pieces) /\ Append(s.current, section) \in Seq(Pieces)
      /\ Append(s.bodies, s.current) \in Seq(Seq(Pieces))
  BY <1>1, <1>2
<1> DEFINE A == [bodies |-> Append(s.bodies, s.current), current |-> Append(kept, section)]
           B == [s EXCEPT !.current = Append(@, section)]
<1>4. A \in Packing /\ B \in Packing
  BY <1>1, <1>3 DEF Packing
<1>5. PackStep(s, section, target, limit, overlap) = A \/ PackStep(s, section, target, limit, overlap) = B
  <2> DEFINE C == s.current # <<>> /\ Total(s.current) + Size(section) > target
  <2>1. PackStep(s, section, target, limit, overlap) = IF C THEN A ELSE B
    BY DEF PackStep, kept
  <2> HIDE DEF A, B, C
  <2> QED
    BY <2>1
<1> HIDE DEF A, B
<1> QED
  BY <1>4, <1>5

PackRun(p, sections, target, limit, overlap) ==
    /\ p \in [0..Len(sections) -> Packing]
    /\ p[0] = [bodies |-> <<>>, current |-> <<>>]
    /\ \A k \in 1..Len(sections) : p[k] = PackStep(p[k - 1], sections[k], target, limit, overlap)
    /\ Pack(sections, target, limit, overlap) = p[Len(sections)]

LEMMA PackFold ==
    ASSUME NEW sections \in Seq(Pieces), NEW target \in Int, NEW limit \in Nat, NEW overlap \in Nat
    PROVE  \E p : PackRun(p, sections, target, limit, overlap)
<1> DEFINE n == Len(sections)
           T == Packing
           base == [bodies |-> <<>>, current |-> <<>>]
           body(g) == [s \in SUBSET (1..n) |-> IF s = {} THEN base
                         ELSE PackStep(g[s \ {Max(s)}], sections[Max(s)], target, limit, overlap)]
           step == [k \in 1..n |-> [a \in T |-> PackStep(a, sections[k], target, limit, overlap)]]
           iter == CHOOSE g : g = body(g)
<1>1. n \in Nat /\ DOMAIN sections = 1..n
  OBVIOUS
<1>2. Pack(sections, target, limit, overlap) = iter[1..n]
  BY <1>1 DEF Pack, PackStep, FoldLeft, MapThenFoldSet
<1>3. base \in T /\ \A k \in 1..n, a \in T : PackStep(a, sections[k], target, limit, overlap) \in T
  <2>1. base \in T
    BY DEF Packing
  <2>2. \A k \in 1..n : sections[k] \in Pieces
    OBVIOUS
  <2> HIDE DEF n
  <2> QED
    BY <2>1, <2>2, PackStepType
<1>4. step \in Steps(n, T)
  BY <1>3 DEF Steps
<1> HIDE DEF n, T, base
<1>5. iter = body(iter)
  <2> HIDE DEF step, body
  <2>1. PICK g : g \in [SUBSET (1..n) -> T] /\ IsFold(g, n, T, base, step)
    BY <1>1, <1>3, <1>4, FoldExists
  <2>2. \A s \in SUBSET (1..n) : g[s] = body(g)[s]
    BY <2>1 DEF IsFold, step, body
  <2>3. g = body(g)
    BY <2>1, <2>2 DEF body
  <2> QED
    BY <2>3
<1> HIDE DEF iter
<1>6. Folds(iter, n, T, base, step)
  BY <1>5 DEF Folds
<1>7. PICK q : IsRun(q, n, T, base, step) /\ iter[1..n] = q[n]
  <2> HIDE DEF step
  <2> QED
    BY <1>1, <1>3, <1>4, <1>6, FoldRuns
<1>8. /\ q \in [0..n -> T] /\ q[0] = base
      /\ \A k \in 1..n : q[k] = PackStep(q[k - 1], sections[k], target, limit, overlap)
  BY <1>7 DEF IsRun
<1> QED
  BY <1>2, <1>7, <1>8 DEF n, T, base, PackRun

\* all are the bodies of the tokens up to b; the i-th has those after x[i].
InBodies(x, y, all, b, limit, overlap) ==
    /\ all \in Seq(Seq(Pieces)) /\ Len(all) > 0
    /\ x \in [1..Len(all) -> Nat] /\ y \in [1..Len(all) -> Nat]
    /\ x[1] = 0 /\ y[Len(all)] = b
    /\ \A i \in 1..Len(all) :
        /\ Spans(all[i], x[i], y[i])
        /\ x[i] < y[i] /\ y[i] - x[i] <= limit
        /\ i > 1 => /\ y[i - 1] < y[i]
                    /\ x[i - 1] <= x[i] /\ x[i] <= y[i - 1]
                    /\ y[i - 1] - x[i] <= overlap

Bodied(all, b, limit, overlap) == \E x, y : InBodies(x, y, all, b, limit, overlap)

LEMMA BodiedOne ==
    ASSUME NEW body, NEW b, Spans(body, 0, b), 0 < b, NEW limit \in Nat, b <= limit,
           NEW overlap \in Nat
    PROVE  Bodied(Append(<<>>, body), b, limit, overlap)
<1> DEFINE all == Append(<<>>, body)
           x == [i \in 1..1 |-> 0]
           y == [i \in 1..1 |-> b]
<1>1. body \in Seq(Pieces) /\ b \in Nat
  BY SpansType
<1>2. all \in Seq(Seq(Pieces)) /\ Len(all) = 1 /\ all[1] = body
  BY <1>1
<1>3. x \in [1..1 -> Nat] /\ y \in [1..1 -> Nat] /\ x[1] = 0 /\ y[1] = b /\ \A i \in 1..1 : i = 1
  BY <1>1
<1> HIDE DEF all, x, y
<1>4. ASSUME NEW i \in 1..Len(all)
      PROVE  /\ Spans(all[i], x[i], y[i])
             /\ x[i] < y[i] /\ y[i] - x[i] <= limit
             /\ ~(i > 1)
  BY <1>1, <1>2, <1>3
<1>5. InBodies(x, y, all, b, limit, overlap)
  BY <1>2, <1>3, <1>4 DEF InBodies
<1> QED
  BY <1>5 DEF Bodied, all

\* The last body goes on.
LEMMA BodiedLonger ==
    ASSUME NEW bodies \in Seq(Seq(Pieces)), NEW current \in Seq(Pieces), NEW b \in Nat, NEW d \in Nat,
           NEW limit \in Nat, NEW overlap \in Nat,
           Bodied(Append(bodies, current), b, limit, overlap),
           b < d, Total(current) + (d - b) <= limit
    PROVE  Bodied(Append(bodies, Append(current, <<b + 1, d>>)), d, limit, overlap)
<1> DEFINE n == Len(bodies) + 1
           all == Append(bodies, current)
           longer == Append(current, <<b + 1, d>>)
           more == Append(bodies, longer)
<1>1. PICK x, y : InBodies(x, y, all, b, limit, overlap)
  BY DEF Bodied
<1>2. /\ Len(all) = n /\ n \in Nat \ {0} /\ all[n] = current
      /\ \A i \in 1..n : i # n => all[i] = bodies[i]
  OBVIOUS
<1>3. /\ x \in [1..n -> Nat] /\ y \in [1..n -> Nat] /\ x[1] = 0 /\ y[n] = b
      /\ \A i \in 1..n :
          /\ Spans(all[i], x[i], y[i])
          /\ x[i] < y[i] /\ y[i] - x[i] <= limit
          /\ i > 1 => /\ y[i - 1] < y[i]
                      /\ x[i - 1] <= x[i] /\ x[i] <= y[i - 1]
                      /\ y[i - 1] - x[i] <= overlap
  BY <1>1, <1>2 DEF InBodies
<1>4. Spans(current, x[n], b) /\ x[n] \in Nat /\ n \in 1..n
  <2>1. n \in 1..n
    BY <1>2
  <2> QED
    BY <1>2, <1>3, <2>1
<1>5. Spans(longer, x[n], d) /\ longer \in Seq(Pieces) /\ x[n] < d /\ d - x[n] <= limit
  <2> DEFINE c == x[n]
  <2>1. Spans(current, c, b) /\ c \in Nat
    BY <1>4
  <2> HIDE DEF c
  <2>2. Spans(longer, c, d)
    BY <2>1, SpansAppend
  <2>3. Total(current) = b - c /\ c <= b
    BY <2>1, SpansTotal, SpansType
  <2> HIDE DEF longer
  <2>4. c < d /\ d - c <= limit
    BY <2>1, <2>3
  <2> QED
    BY <2>2, <2>4 DEF c, Spans
<1> HIDE DEF longer
<1>6. /\ more \in Seq(Seq(Pieces)) /\ Len(more) = n /\ more[n] = longer
      /\ \A i \in 1..n : i # n => more[i] = bodies[i]
  BY <1>5, SMTT(30)
<1> DEFINE z == [i \in 1..n |-> IF i = n THEN d ELSE y[i]]
<1> HIDE DEF n, all, more
<1>7. z \in [1..n -> Nat] /\ z[n] = d
  BY <1>3, <1>4
<1>8. \A i \in 1..n : i # n => z[i] = y[i]
  OBVIOUS
<1> HIDE DEF z
<1>9. ASSUME NEW i \in 1..n
      PROVE  /\ Spans(more[i], x[i], z[i])
             /\ x[i] < z[i] /\ z[i] - x[i] <= limit
             /\ i > 1 => /\ z[i - 1] < z[i]
                         /\ x[i - 1] <= x[i] /\ x[i] <= z[i - 1]
                         /\ z[i - 1] - x[i] <= overlap
  <2>1. i > 1 => i - 1 \in 1..n /\ i - 1 # n
    BY <1>2
  <2>2. CASE i = n
    <3>1. /\ Spans(more[i], x[i], z[i]) /\ x[i] < z[i] /\ z[i] - x[i] <= limit
      BY <1>5, <1>6, <1>7, <2>2
    <3>2. ASSUME i > 1
          PROVE  /\ z[i - 1] < z[i]
                 /\ x[i - 1] <= x[i] /\ x[i] <= z[i - 1]
                 /\ z[i - 1] - x[i] <= overlap
      <4>1. z[i - 1] = y[i - 1] /\ z[i] = d /\ y[i] = b /\ y[i - 1] \in Nat
        BY <1>3, <1>7, <1>8, <2>1, <2>2, <3>2
      <4>2. y[i - 1] < y[i] /\ x[i - 1] <= x[i] /\ x[i] <= y[i - 1] /\ y[i - 1] - x[i] <= overlap
        BY <1>3, <3>2
      <4> QED
        BY <4>1, <4>2, SMTT(30)
    <3> QED
      BY <3>1, <3>2
  <2>3. CASE i # n
    BY <1>2, <1>3, <1>6, <1>8, <2>1, <2>3
  <2> QED
    BY <2>2, <2>3
<1>10. InBodies(x, z, more, d, limit, overlap)
  <2>1. Len(more) > 0 /\ Len(more) = n
    BY <1>2, <1>6
  <2>2. x \in [1..n -> Nat] /\ x[1] = 0
    BY <1>3
  <2> QED
    BY <1>6, <1>7, <1>9, <2>1, <2>2 DEF InBodies
<1> QED
  BY <1>10 DEF Bodied, more, longer

IsPiece(piece, b, d) ==
    piece = <<b + 1, d>> /\ Size(piece) = d - b /\ piece \in Pieces

\* Another body, with an end of the last one before it.
LEMMA BodiedMore ==
    ASSUME NEW all \in Seq(Seq(Pieces)), NEW current \in Seq(Pieces), Last(all) = current,
           NEW b \in Nat, NEW d \in Nat,
           NEW limit \in Nat, NEW overlap \in Nat, Bodied(all, b, limit, overlap),
           b < d, d - b <= limit,
           NEW section, IsPiece(section, b, d)
    PROVE  Bodied(Append(all, Append(Overlap(current, section, overlap, limit), section)),
                  d, limit, overlap)
<1> DEFINE n == Len(all)
<1>1. PICK x, y : InBodies(x, y, all, b, limit, overlap)
  BY DEF Bodied
<1>2. n \in Nat \ {0} /\ all[n] = current /\ n \in 1..n
  BY <1>1 DEF InBodies, Last
<1>3. /\ x \in [1..n -> Nat] /\ y \in [1..n -> Nat] /\ x[1] = 0 /\ y[n] = b
      /\ \A i \in 1..n :
          /\ Spans(all[i], x[i], y[i])
          /\ x[i] < y[i] /\ y[i] - x[i] <= limit
          /\ i > 1 => /\ y[i - 1] < y[i]
                      /\ x[i - 1] <= x[i] /\ x[i] <= y[i - 1]
                      /\ y[i - 1] - x[i] <= overlap
  BY <1>1 DEF InBodies
<1>4. Spans(current, x[n], b) /\ x[n] \in Nat
  BY <1>2, <1>3
<1> DEFINE kept == Overlap(current, section, overlap, limit)
           body == Append(kept, section)
<1>5. \E c \in Nat : /\ x[n] <= c /\ c <= b /\ b - c <= overlap /\ d - c <= limit
                     /\ Spans(kept, c, b)
  <2>a. section \in Pieces /\ Size(section) = d - b
    BY DEF IsPiece
  <2>b. PICK i \in 1..(Len(current) + 1) : KeptFrom(i, current, section, overlap, limit)
    BY <2>a, OverlapIs
  <2>1. /\ kept = SubSeq(current, i, Len(current))
        /\ Total(kept) <= overlap
        /\ kept = <<>> \/ ~(Total(kept) + (d - b) > limit)
    BY <2>a, <2>b DEF KeptFrom
  <2> HIDE DEF kept
  <2>2. PICK c \in Nat : x[n] <= c /\ c <= b /\ Spans(SubSeq(current, i, Len(current)), c, b)
    BY <1>4, SpansEnd
  <2>3. Spans(kept, c, b)
    BY <2>1, <2>2
  <2>4. Total(kept) = b - c /\ (kept = <<>> => c = b)
    BY <2>3, SpansTotal, SpansType
  <2>5. b - c <= overlap
    BY <2>1, <2>4
  <2>6. d - c <= limit
    BY <2>1, <2>2, <2>4
  <2> QED
    BY <2>2, <2>3, <2>5, <2>6
<1> HIDE DEF kept
<1>6. PICK c \in Nat : /\ x[n] <= c /\ c <= b /\ b - c <= overlap /\ d - c <= limit
                       /\ Spans(kept, c, b)
  BY <1>5
<1>7. Spans(body, c, d) /\ c < d /\ body \in Seq(Pieces)
  <2>1. Spans(Append(kept, <<b + 1, d>>), c, d)
    BY <1>6, SpansAppend
  <2>2. Spans(body, c, d)
    BY <2>1 DEF IsPiece
  <2>3. c < d
    BY <1>6
  <2> QED
    BY <2>2, <2>3 DEF Spans
<1> HIDE DEF body
<1> DEFINE m == n + 1
           more == Append(all, body)
           u == [i \in 1..m |-> IF i = m THEN c ELSE x[i]]
           z == [i \in 1..m |-> IF i = m THEN d ELSE y[i]]
<1>8. /\ more \in Seq(Seq(Pieces)) /\ Len(more) = m /\ more[m] = body
      /\ \A i \in 1..n : more[i] = all[i]
  BY <1>7
<1>9. m \in Nat /\ m > 1 /\ m - 1 = n /\ \A i \in 1..m : i # m => i \in 1..n
  BY <1>2, SMTT(30)
<1> HIDE DEF n, m, more
<1>10. u \in [1..m -> Nat] /\ z \in [1..m -> Nat]
  BY <1>3, <1>9
<1>11. /\ \A i \in 1..n : i \in 1..m /\ i # m
       /\ m \in 1..m /\ 1 \in 1..n
  BY <1>2, <1>9
<1>12. /\ \A i \in 1..n : u[i] = x[i] /\ z[i] = y[i]
       /\ u[m] = c /\ z[m] = d
  BY <1>11
<1> HIDE DEF u, z
<1>13. ASSUME NEW i \in 1..m
       PROVE  /\ Spans(more[i], u[i], z[i])
              /\ u[i] < z[i] /\ z[i] - u[i] <= limit
              /\ i > 1 => /\ z[i - 1] < z[i]
                          /\ u[i - 1] <= u[i] /\ u[i] <= z[i - 1]
                          /\ z[i - 1] - u[i] <= overlap
  <2>1. CASE i = m
    BY <1>2, <1>3, <1>6, <1>7, <1>8, <1>9, <1>12, <2>1
  <2>2. CASE i # m
    <3>1. i \in 1..n /\ (i > 1 => i - 1 \in 1..n)
      BY <1>2, <1>9, <2>2
    <3>2. u[i] = x[i] /\ z[i] = y[i] /\ more[i] = all[i] /\ (i > 1 => u[i - 1] = x[i - 1] /\ z[i - 1] = y[i - 1])
      BY <1>8, <1>12, <3>1
    <3> QED
      BY <1>3, <3>1, <3>2
  <2> QED
    BY <2>1, <2>2
<1>14. u[1] = 0
  BY <1>3, <1>11, <1>12
<1>15. InBodies(u, z, more, d, limit, overlap)
  <2>1. Len(more) > 0 /\ Len(more) = m
    BY <1>8, <1>9
  <2> QED
    BY <1>8, <1>10, <1>12, <1>13, <1>14, <2>1 DEF InBodies
<1> QED
  BY <1>15 DEF Bodied, more, body, kept

LEMMA TotalType ==
    ASSUME NEW ps \in Seq(Pieces)
    PROVE  Total(ps) \in Int
<1>1. PICK p : TotalRun(p, ps)
  BY TotalFold
<1>2. p \in [0..Len(ps) -> Int] /\ Total(ps) = p[Len(ps)]
  BY <1>1 DEF TotalRun
<1>3. Len(ps) \in 0..Len(ps)
  OBVIOUS
<1> QED
  BY <1>2, <1>3

LEMMA AppendNonEmpty ==
    ASSUME NEW C, NEW s \in Seq(C), NEW x \in C
    PROVE  Append(s, x) # <<>>
<1>1. Len(Append(s, x)) = Len(s) + 1 /\ Len(s) \in Nat /\ Len(<<>>) = 0
  OBVIOUS
<1> QED
  BY <1>1

\* After the tokens up to b: no body yet, or those so far and the next.
PackKept(s, b, limit, overlap) ==
    \/ b = 0 /\ s.current = <<>> /\ s.bodies = <<>>
    \/ s.current # <<>> /\ Bodied(Append(s.bodies, s.current), b, limit, overlap)

LEMMA PackStepKeeps ==
    ASSUME NEW s \in Packing, NEW b \in Nat, NEW d \in Nat, NEW limit \in Nat, NEW overlap \in Nat,
           NEW target \in Int, target <= limit, PackKept(s, b, limit, overlap),
           b < d, d - b <= limit, NEW section, IsPiece(section, b, d)
    PROVE  PackKept(PackStep(s, section, target, limit, overlap), d, limit, overlap)
<1> DEFINE t == PackStep(s, section, target, limit, overlap)
           kept == Overlap(s.current, section, overlap, limit)
           C == s.current # <<>> /\ Total(s.current) + Size(section) > target
<1>1. s.bodies \in Seq(Seq(Pieces)) /\ s.current \in Seq(Pieces)
  BY DEF Packing
<1>2. section = <<b + 1, d>> /\ Size(section) = d - b /\ section \in Pieces
  BY DEF IsPiece
<1>3. CASE C
  <2>1. t.bodies = Append(s.bodies, s.current) /\ t.current = Append(kept, section)
    BY <1>3 DEF PackStep
  <2>2. Bodied(Append(s.bodies, s.current), b, limit, overlap)
    BY <1>3 DEF PackKept
  <2> DEFINE all == Append(s.bodies, s.current)
             current == s.current
  <2>3. all \in Seq(Seq(Pieces)) /\ Last(all) = current /\ current \in Seq(Pieces)
    BY <1>1 DEF Last
  <2>4. Bodied(Append(all, Append(kept, section)), d, limit, overlap)
    BY <2>2, <2>3, BodiedMore
  <2>5. Append(kept, section) # <<>>
    <3>1. t \in Packing
      BY <1>2, PackStepType
    <3>2. kept \in Seq(Pieces)
      BY <1>1, <1>2, OverlapType
    <3> HIDE DEF kept
    <3> QED
      BY <1>2, <3>2
  <2> HIDE DEF kept
  <2>6. PackKept(t, d, limit, overlap)
    BY <2>1, <2>4, <2>5 DEF PackKept
  <2> QED
    BY <2>6
<1>4. CASE ~C
  <2>1. t.bodies = s.bodies /\ t.current = Append(s.current, section)
    BY <1>4 DEF PackStep, Packing
  <2>0. section \in Pieces
    BY <1>2
  <2>2. Append(s.current, section) # <<>>
    BY <1>1, <2>0, AppendNonEmpty
  <2>3. Bodied(Append(s.bodies, Append(s.current, section)), d, limit, overlap)
    <3>1. CASE s.current = <<>>
      <4>1. b = 0 /\ s.bodies = <<>>
        BY <3>1 DEF PackKept
      <4>2. Spans(<<>>, 0, 0)
        BY SpansNone
      <4>3. Spans(Append(<<>>, <<0 + 1, d>>), 0, d)
        BY <4>1, <4>2, SpansAppend
      <4>4. section = <<0 + 1, d>>
        BY <1>2, <4>1
      <4> DEFINE body == Append(<<>>, section)
      <4>5. Spans(body, 0, d) /\ 0 < d /\ d <= limit
        BY <4>1, <4>3, <4>4
      <4> HIDE DEF body
      <4>6. Bodied(Append(<<>>, body), d, limit, overlap)
        BY <4>5, BodiedOne
      <4> QED
        BY <3>1, <4>1, <4>6 DEF body
    <3>2. CASE s.current # <<>>
      <4>1. Bodied(Append(s.bodies, s.current), b, limit, overlap)
        BY <3>2 DEF PackKept
      <4>2. Total(s.current) \in Int
        BY <1>1, TotalType
      <4>3. ~(Total(s.current) + (d - b) > target)
        BY <1>2, <1>4, <3>2
      <4>4. Total(s.current) + (d - b) <= limit
        BY <4>2, <4>3
      <4> DEFINE bodies == s.bodies
                 current == s.current
      <4>5. /\ bodies \in Seq(Seq(Pieces)) /\ current \in Seq(Pieces)
            /\ Bodied(Append(bodies, current), b, limit, overlap)
            /\ Total(current) + (d - b) <= limit
        BY <1>1, <4>1, <4>4
      <4> HIDE DEF bodies, current
      <4>6. Bodied(Append(bodies, Append(current, <<b + 1, d>>)), d, limit, overlap)
        BY <4>5, BodiedLonger
      <4> QED
        BY <1>2, <4>6 DEF bodies, current
    <3> QED
      BY <3>1, <3>2
  <2>4. PackKept(t, d, limit, overlap)
    BY <2>1, <2>2, <2>3 DEF PackKept
  <2> QED
    BY <2>4
<1> QED
  BY <1>3, <1>4

LEMMA BodiesKeep ==
    ASSUME NEW ps, NEW b, Chained(ps, 0, b), NEW limit \in Nat \ {0}, NEW overlap \in Nat,
           NEW target \in Int, target <= limit
    PROVE  LET bodies == Bodies(ps, target, limit, overlap)
           IN  \/ b = 0 /\ bodies = <<>>
               \/ bodies # <<>> /\ Bodied(bodies, b, limit, overlap)
<1> DEFINE sections == Sections(ps, limit)
           n == Len(sections)
<1>1. Spans(sections, 0, b) /\ Small(sections, limit)
  BY SectionsSpan
<1> HIDE DEF sections
<1>2. sections \in Seq(Pieces) /\ b \in Nat /\ n \in Nat
  BY <1>1, SpansType
<1>3. PICK e : Cuts(e, sections, 0, b)
  BY <1>1 DEF Spans
<1>4. PICK p : PackRun(p, sections, target, limit, overlap)
  BY <1>2, PackFold
<1>5. /\ e[0] = 0 /\ e[n] = b /\ \A k \in 0..n : e[k] \in Nat
      /\ \A i \in 1..n : e[i - 1] < e[i] /\ sections[i] = <<e[i - 1] + 1, e[i]>>
  BY <1>2, <1>3, CutsType DEF Cuts
<1>6. \A i \in 1..n : Size(sections[i]) \in 1..limit /\ sections[i] \in Pieces
  BY <1>1, <1>2 DEF Small
<1>7. /\ p[0] = [bodies |-> <<>>, current |-> <<>>]
      /\ Pack(sections, target, limit, overlap) = p[n]
      /\ \A k \in 0..n : p[k] \in Packing
      /\ \A k \in 1..n : p[k] = PackStep(p[k - 1], sections[k], target, limit, overlap)
  BY <1>4 DEF PackRun
<1> HIDE DEF n
<1> DEFINE P == {k \in 0..n : PackKept(p[k], e[k], limit, overlap)}
<1>8. 0 \in P
  BY <1>2, <1>5, <1>7 DEF PackKept
<1>9. \A k \in 0..(n - 1) : k \in P => k + 1 \in P
  <2> SUFFICES ASSUME NEW k \in 0..(n - 1), k \in P
               PROVE  k + 1 \in P
    OBVIOUS
  <2>1. k + 1 \in 1..n /\ (k + 1) - 1 = k /\ k \in 0..n /\ k + 1 \in 0..n
    BY <1>2
  <2> DEFINE s == p[k]
             section == sections[k + 1]
             c == e[k]
             d == e[k + 1]
  <2>2. c \in Nat /\ d \in Nat /\ c < d /\ section = <<c + 1, d>>
    BY <1>5, <2>1
  <2>3. p[k + 1] = PackStep(s, section, target, limit, overlap) /\ s \in Packing
    BY <1>7, <2>1
  <2>4. Size(section) \in 1..limit /\ section \in Pieces
    BY <1>6, <2>1
  <2>5. PackKept(s, c, limit, overlap)
    OBVIOUS
  <2> HIDE DEF s, section, c, d
  <2>6. Size(section) = d - (c + 1) + 1
    BY <2>2 DEF Size
  <2>7. Size(section) = d - c /\ d - c <= limit
    BY <2>2, <2>4, <2>6
  <2>8. IsPiece(section, c, d)
    BY <2>2, <2>4, <2>7 DEF IsPiece
  <2>9. PackKept(PackStep(s, section, target, limit, overlap), d, limit, overlap)
    BY <2>2, <2>3, <2>5, <2>7, <2>8, PackStepKeeps
  <2> QED
    BY <2>1, <2>3, <2>9 DEF d
<1>10. \A k \in 0..n : k \in P
  <2> HIDE DEF P
  <2> QED
    BY <1>2, <1>8, <1>9, CountInduction
<1>11. n \in 0..n
  BY <1>2
<1> DEFINE s == p[n]
           bodies == Bodies(ps, target, limit, overlap)
<1>12. PackKept(s, b, limit, overlap)
  BY <1>5, <1>10, <1>11
<1>13. bodies = IF s.current = <<>> THEN s.bodies ELSE Append(s.bodies, s.current)
  BY <1>7, BodiesPack DEF sections
<1>14. s.bodies \in Seq(Seq(Pieces)) /\ s.current \in Seq(Pieces)
  BY <1>7, <1>11 DEF Packing
<1>15. Append(s.bodies, s.current) # <<>>
  BY <1>14, AppendNonEmpty
<1> HIDE DEF s, bodies
<1>16. \/ b = 0 /\ bodies = <<>>
       \/ bodies # <<>> /\ Bodied(bodies, b, limit, overlap)
  BY <1>12, <1>13, <1>15 DEF PackKept
<1> QED
  BY <1>16 DEF bodies

LEMMA BodiedKeeps ==
    ASSUME NEW text, NEW b, Spans(text, 0, b), NEW limit \in Nat, NEW overlap \in Nat,
           NEW bodies, bodies # <<>>, Bodied(bodies, b, limit, overlap)
    PROVE  KeepsText(text, bodies, limit, overlap)
<1> DEFINE n == Len(bodies)
<1>1. PICK x, y : InBodies(x, y, bodies, b, limit, overlap)
  BY DEF Bodied
<1>2. /\ bodies \in Seq(Seq(Pieces)) /\ n > 0 /\ n \in Nat /\ DOMAIN bodies = 1..n
  BY <1>1 DEF InBodies
<1>3. /\ x \in [1..n -> Nat] /\ y \in [1..n -> Nat] /\ x[1] = 0 /\ y[n] = b
      /\ \A i \in 1..n :
          /\ Spans(bodies[i], x[i], y[i])
          /\ x[i] < y[i] /\ y[i] - x[i] <= limit
          /\ i > 1 => /\ y[i - 1] < y[i]
                      /\ x[i - 1] <= x[i] /\ x[i] <= y[i - 1]
                      /\ y[i - 1] - x[i] <= overlap
  BY <1>1 DEF InBodies
<1>4. ASSUME NEW i \in 1..n
      PROVE  /\ Head(bodies[i])[1] = x[i] + 1 /\ Last(bodies[i])[2] = y[i]
             /\ Total(bodies[i]) = y[i] - x[i]
             /\ x[i] \in Nat /\ y[i] \in Nat
  <2> DEFINE c == x[i]
             d == y[i]
             body == bodies[i]
  <2>1. Spans(body, c, d) /\ c < d /\ c \in Nat /\ d \in Nat
    BY <1>3
  <2> HIDE DEF c, d, body
  <2>2. Total(body) = d - c
    BY <2>1, SpansTotal
  <2>3. body = <<>> => c = d
    BY <2>1, SpansType
  <2>4. body # <<>>
    BY <2>1, <2>3
  <2>5. Head(body)[1] = c + 1 /\ Last(body)[2] = d
    BY <2>1, <2>4, SpansType
  <2> QED
    BY <2>1, <2>2, <2>5 DEF c, d, body
<1>5. text # <<>> /\ Last(text)[2] = b
  <2>1. 1 \in 1..n /\ n \in 1..n
    BY <1>2
  <2>2. CASE n = 1
    BY <1>3, <2>1, <2>2, SpansType
  <2>3. CASE n # 1
    <3>1. y[n - 1] < y[n] /\ n - 1 \in 1..n
      BY <1>2, <1>3, <2>1, <2>3, SMTT(30)
    <3>2. y[n - 1] \in Nat
      BY <1>3, <3>1
    <3>3. b # 0
      BY <1>3, <3>1, <3>2
    <3> QED
      BY <3>3, SpansType
  <2> QED
    BY <2>2, <2>3
<1> HIDE DEF n
<1>6. Head(bodies[1])[1] = 1 /\ Last(bodies[n])[2] = b
  <2>1. 1 \in 1..n /\ n \in 1..n
    BY <1>2
  <2>2. Head(bodies[1])[1] = x[1] + 1
    BY <1>4, <2>1
  <2>3. Last(bodies[n])[2] = y[n]
    BY <1>4, <2>1
  <2> QED
    BY <1>3, <2>2, <2>3
<1>7. ASSUME NEW i \in 1..n
      PROVE  /\ Total(bodies[i]) <= limit
             /\ Total(bodies[i]) = Last(bodies[i])[2] - Head(bodies[i])[1] + 1
             /\ i > 1 => /\ Last(bodies[i])[2] > Last(bodies[i - 1])[2]
                         /\ Head(bodies[i])[1] \in
                                Head(bodies[i - 1])[1]..(Last(bodies[i - 1])[2] + 1)
                         /\ Last(bodies[i - 1])[2] - Head(bodies[i])[1] + 1 <= overlap
  <2> DEFINE total == Total(bodies[i])
             first == Head(bodies[i])[1]
             last == Last(bodies[i])[2]
  <2>1. /\ first = x[i] + 1 /\ last = y[i] /\ total = y[i] - x[i]
        /\ x[i] \in Nat /\ y[i] \in Nat
    BY <1>4
  <2>2. /\ x[i] < y[i] /\ y[i] - x[i] <= limit
    BY <1>3
  <2> HIDE DEF total, first, last
  <2>3. total <= limit /\ total = last - first + 1
    BY <2>1, <2>2, SMTT(30)
  <2>4. ASSUME i > 1
        PROVE  /\ last > Last(bodies[i - 1])[2]
               /\ first \in Head(bodies[i - 1])[1]..(Last(bodies[i - 1])[2] + 1)
               /\ Last(bodies[i - 1])[2] - first + 1 <= overlap
    <3>1. i - 1 \in 1..n
      BY <1>2, <2>4
    <3> DEFINE firstBefore == Head(bodies[i - 1])[1]
               lastBefore == Last(bodies[i - 1])[2]
    <3>2. /\ firstBefore = x[i - 1] + 1 /\ lastBefore = y[i - 1]
          /\ x[i - 1] \in Nat /\ y[i - 1] \in Nat
      BY <1>4, <3>1
    <3>3. /\ y[i - 1] < y[i] /\ x[i - 1] <= x[i] /\ x[i] <= y[i - 1] /\ y[i - 1] - x[i] <= overlap
      BY <1>3, <2>4
    <3> HIDE DEF firstBefore, lastBefore
    <3> DEFINE u == x[i]
               v == y[i]
               w == x[i - 1]
               z == y[i - 1]
    <3>5. /\ u \in Nat /\ v \in Nat /\ w \in Nat /\ z \in Nat
          /\ first = u + 1 /\ last = v /\ firstBefore = w + 1 /\ lastBefore = z
          /\ z < v /\ w <= u /\ u <= z /\ z - u <= overlap
      BY <2>1, <3>2, <3>3
    <3> HIDE DEF u, v, w, z
    <3>4. /\ last > lastBefore /\ first \in firstBefore..(lastBefore + 1)
          /\ lastBefore - first + 1 <= overlap
      BY <3>5
    <3> QED
      BY <3>4 DEF firstBefore, lastBefore
  <2> QED
    BY <2>3, <2>4 DEF total, first, last
<1> QED
  BY <1>2, <1>5, <1>6, <1>7 DEF KeepsText, n

\* The chunks of any text keep it, whatever the sizes of its words and
\* paragraphs, the chunk sizes asked for and the overlap: chunk_document
\* leaves nothing out, repeats no more than the overlap and makes no chunk
\* the embedder would cut.
THEOREM BodiesKeepText ==
    ASSUME NEW ps, NEW b, Chained(ps, 0, b), NEW limit \in Nat \ {0}, NEW overlap \in Nat,
           NEW target \in Int, target <= limit
    PROVE  KeepsText(FlattenSeq(ps), Bodies(ps, target, limit, overlap), limit, overlap)
<1> DEFINE bodies == Bodies(ps, target, limit, overlap)
           text == FlattenSeq(ps)
<1>1. \/ b = 0 /\ bodies = <<>>
      \/ bodies # <<>> /\ Bodied(bodies, b, limit, overlap)
  BY BodiesKeep
<1>2. Spans(text, 0, b)
  BY ChainSpans
<1> HIDE DEF bodies, text
<1>3. CASE b = 0 /\ bodies = <<>>
  BY <1>2, <1>3, SpansType DEF KeepsText, text, bodies
<1>4. CASE bodies # <<>> /\ Bodied(bodies, b, limit, overlap)
  BY <1>2, <1>4, BodiedKeeps DEF text, bodies
<1> QED
  BY <1>1, <1>3, <1>4

-----------------------------------------------------------------------------
(* The texts of the runs.                                                  *)

LEMMA ChainType ==
    ASSUME NEW ps, NEW a, NEW b, Chained(ps, a, b)
    PROVE  ps \in Seq(Seq(Pieces)) /\ a \in Nat /\ b \in Nat
<1>1. ps \in Seq(Seq(Pieces)) /\ Len(ps) \in Nat
  BY DEF Chained
<1>2. PICK e : IsChain(e, ps, a, b)
  BY DEF Chained
<1>3. e \in [0..Len(ps) -> Nat] /\ e[0] = a /\ e[Len(ps)] = b
  BY <1>2 DEF IsChain
<1>4. 0 \in 0..Len(ps) /\ Len(ps) \in 0..Len(ps)
  BY <1>1
<1> QED
  BY <1>1, <1>3, <1>4

LEMMA ChainAppend ==
    ASSUME NEW ps, NEW a, NEW b, NEW c, Chained(ps, a, b), NEW q, Spans(q, b, c)
    PROVE  Chained(Append(ps, q), a, c)
<1> DEFINE n == Len(ps)
           m == n + 1
           more == Append(ps, q)
<1>1. PICK e : IsChain(e, ps, a, b)
  BY DEF Chained
<1>2. ps \in Seq(Seq(Pieces)) /\ q \in Seq(Pieces) /\ n \in Nat /\ c \in Nat
  BY ChainType, SpansType
<1>3. /\ e \in [0..n -> Nat] /\ e[0] = a /\ e[n] = b
      /\ \A i \in 1..n : Spans(ps[i], e[i - 1], e[i])
  BY <1>1 DEF IsChain
<1>4. /\ more \in Seq(Seq(Pieces)) /\ Len(more) = m /\ more[m] = q
      /\ \A i \in 1..n : more[i] = ps[i]
  BY <1>2
<1> DEFINE f == [i \in 0..m |-> IF i = m THEN c ELSE e[i]]
<1>5. /\ m \in Nat /\ m - 1 = n /\ \A i \in 0..m : i # m => i \in 0..n
      /\ \A i \in 1..m : i # m => i \in 1..n
      /\ 0 \in 0..m /\ m \in 0..m /\ 0 # m /\ n \in 0..m /\ n # m
      /\ \A i \in 1..n : i \in 0..m /\ i - 1 \in 0..m /\ i # m /\ i - 1 # m
  BY <1>2, SMTT(30)
<1> HIDE DEF n, m, more
<1>6. f \in [0..m -> Nat] /\ f[0] = a /\ f[m] = c /\ f[n] = b
  BY <1>2, <1>3, <1>5
<1>7. \A i \in 1..n : f[i] = e[i] /\ f[i - 1] = e[i - 1]
  BY <1>5
<1> HIDE DEF f
<1>8. ASSUME NEW i \in 1..m
      PROVE  Spans(more[i], f[i - 1], f[i])
  <2>1. CASE i = m
    BY <1>4, <1>5, <1>6, <2>1
  <2>2. CASE i # m
    BY <1>3, <1>4, <1>5, <1>7, <2>2
  <2> QED
    BY <2>1, <2>2
<1>9. IsChain(f, more, a, c)
  BY <1>4, <1>6, <1>8 DEF IsChain
<1> QED
  BY <1>4, <1>9 DEF Chained, more

\* The last paragraph goes on.
LEMMA ChainLonger ==
    ASSUME NEW ps, NEW a, NEW b, NEW c \in Nat, Chained(ps, a, b), ps # <<>>, b < c
    PROVE  Chained([ps EXCEPT ![Len(ps)] = Append(@, <<b + 1, c>>)], a, c)
<1> DEFINE n == Len(ps)
           last == ps[n]
           longer == Append(last, <<b + 1, c>>)
           more == [ps EXCEPT ![n] = longer]
<1>1. PICK e : IsChain(e, ps, a, b)
  BY DEF Chained
<1>2. ps \in Seq(Seq(Pieces)) /\ n \in Nat \ {0} /\ b \in Nat
  BY ChainType
<1>3. /\ e \in [0..n -> Nat] /\ e[0] = a /\ e[n] = b
      /\ \A i \in 1..n : Spans(ps[i], e[i - 1], e[i])
  BY <1>1 DEF IsChain
<1>4. Spans(longer, e[n - 1], c)
  <2> DEFINE d == e[n - 1]
  <2>1. n \in 1..n
    BY <1>2
  <2>2. Spans(last, d, b)
    BY <1>3, <2>1
  <2> HIDE DEF last, d
  <2>3. Spans(longer, d, c)
    BY <2>2, SpansAppend
  <2> QED
    BY <2>3 DEF d
<1> HIDE DEF longer
<1>5. longer \in Seq(Pieces)
  BY <1>4 DEF Spans
<1>6. /\ more \in Seq(Seq(Pieces)) /\ Len(more) = n /\ more[n] = longer
      /\ \A i \in 1..n : i # n => more[i] = ps[i]
  BY <1>2, <1>5
<1> DEFINE f == [i \in 0..n |-> IF i = n THEN c ELSE e[i]]
<1>7. /\ 0 \in 0..n /\ n \in 0..n /\ 0 # n
      /\ \A i \in 1..n : i \in 0..n /\ i - 1 \in 0..n /\ i - 1 # n
  BY <1>2
<1>8. [ps EXCEPT ![Len(ps)] = Append(@, <<b + 1, c>>)] = more
  BY DEF longer
<1> HIDE DEF n, more
<1>9. f \in [0..n -> Nat] /\ f[0] = a /\ f[n] = c
  BY <1>3, <1>7
<1>10. \A i \in 1..n : (i # n => f[i] = e[i]) /\ f[i - 1] = e[i - 1]
  BY <1>7
<1> HIDE DEF f
<1>11. ASSUME NEW i \in 1..n
       PROVE  Spans(more[i], f[i - 1], f[i])
  <2>1. CASE i = n
    BY <1>4, <1>6, <1>9, <1>10, <2>1
  <2>2. CASE i # n
    BY <1>3, <1>6, <1>10, <2>2
  <2> QED
    BY <2>1, <2>2
<1>12. IsChain(f, more, a, c)
  BY <1>6, <1>9, <1>11 DEF IsChain
<1>13. Chained(more, a, c)
  BY <1>6, <1>12 DEF Chained
<1> QED
  BY <1>8, <1>13

Upto(sizes, i) == SumOf(SubSeq(sizes, 1, i))

LEMMA UptoMore ==
    ASSUME NEW sizes \in Seq(Nat \ {0})
    PROVE  /\ Upto(sizes, 0) = 0
           /\ \A i \in 0..(Len(sizes) - 1) : Upto(sizes, i + 1) = Upto(sizes, i) + sizes[i + 1]
<1> DEFINE n == Len(sizes)
<1>1. n \in Nat /\ \A i \in 1..n : sizes[i] \in Int
  OBVIOUS
<1>2. Upto(sizes, 0) = 0
  <2>1. SubSeq(sizes, 1, 0) = <<>> /\ <<>> \in Seq(Int) /\ Len(<<>>) = 0
    OBVIOUS
  <2>2. PICK p : SumRun(p, <<>>)
    BY <2>1, SumFold
  <2>3. SumOf(<<>>) = 0
    BY <2>1, <2>2 DEF SumRun
  <2> QED
    BY <2>1, <2>3 DEF Upto
<1>3. sizes \in Seq(Int)
  OBVIOUS
<1>4. ASSUME NEW i \in 0..n
      PROVE  /\ SubSeq(sizes, 1, i) \in Seq(Int) /\ Len(SubSeq(sizes, 1, i)) = i
             /\ \A j \in 1..i : SubSeq(sizes, 1, i)[j] = sizes[j]
  BY <1>3, Parted DEF IsParted
<1>5. ASSUME NEW i \in 0..(n - 1)
      PROVE  Upto(sizes, i + 1) = Upto(sizes, i) + sizes[i + 1]
  <2> DEFINE less == SubSeq(sizes, 1, i)
             k == i + 1
             more == SubSeq(sizes, 1, k)
  <2>1. i \in 0..n /\ k \in 0..n /\ k \in 1..k /\ \A j \in 1..i : j \in 1..k
    BY <1>1
  <2>2. /\ less \in Seq(Int) /\ Len(less) = i /\ \A j \in 1..i : less[j] = sizes[j]
    BY <1>4, <2>1
  <2>3. /\ more \in Seq(Int) /\ Len(more) = k /\ \A j \in 1..k : more[j] = sizes[j]
    BY <1>4, <2>1
  <2> HIDE DEF less, more
  <2>4. Len(more) = Len(less) + 1 /\ \A j \in 1..Len(less) : more[j] = less[j]
    BY <2>1, <2>2, <2>3
  <2>5. SumOf(more) = SumOf(less) + more[Len(more)]
    BY <2>2, <2>3, <2>4, SumOfMore
  <2>6. more[Len(more)] = sizes[k]
    BY <2>1, <2>3
  <2> QED
    BY <2>5, <2>6 DEF less, more, Upto
<1> QED
  BY <1>2, <1>5

LEMMA UptoRises ==
    ASSUME NEW sizes \in Seq(Nat \ {0})
    PROVE  /\ \A i \in 0..Len(sizes) : Upto(sizes, i) \in Nat
           /\ \A i \in 1..Len(sizes) : Upto(sizes, i - 1) < Upto(sizes, i)
<1> DEFINE n == Len(sizes)
<1>1. n \in Nat /\ \A i \in 1..n : sizes[i] \in Nat \ {0}
  OBVIOUS
<1>2. /\ Upto(sizes, 0) = 0
      /\ \A i \in 0..(n - 1) : Upto(sizes, i + 1) = Upto(sizes, i) + sizes[i + 1]
  BY UptoMore
<1> HIDE DEF n
<1> DEFINE P == {i \in 0..n : Upto(sizes, i) \in Nat}
<1>3. 0 \in P
  BY <1>1, <1>2
<1>4. \A i \in 0..(n - 1) : i \in P => i + 1 \in P
  <2> SUFFICES ASSUME NEW i \in 0..(n - 1), i \in P
               PROVE  i + 1 \in P
    OBVIOUS
  <2>1. i + 1 \in 1..n /\ i + 1 \in 0..n
    BY <1>1
  <2> QED
    BY <1>1, <1>2, <2>1, SMTT(30)
<1>5. \A i \in 0..n : i \in P
  BY <1>1, <1>3, <1>4, CountInduction
<1>6. ASSUME NEW i \in 1..n
      PROVE  Upto(sizes, i - 1) < Upto(sizes, i)
  <2> DEFINE j == i - 1
  <2>1. j \in 0..(n - 1) /\ j + 1 = i /\ j \in 0..n
    BY <1>1
  <2> HIDE DEF j
  <2>2. Upto(sizes, i) = Upto(sizes, j) + sizes[i]
    BY <1>2, <2>1
  <2>3. Upto(sizes, j) \in Nat /\ sizes[i] \in Nat \ {0}
    BY <1>1, <1>5, <2>1
  <2>4. Upto(sizes, j) < Upto(sizes, i)
    BY <2>2, <2>3
  <2> QED
    BY <2>4 DEF j
<1> QED
  BY <1>5, <1>6 DEF n

WordOf(sizes, i) == <<Upto(sizes, i - 1) + 1, Upto(sizes, i)>>

ParagraphStep(ps, i, sizes, ends) ==
    IF i = 1 \/ i - 1 \in ends
    THEN Append(ps, <<WordOf(sizes, i)>>)
    ELSE [ps EXCEPT ![Len(ps)] = Append(@, WordOf(sizes, i))]

LEMMA WordOfType ==
    ASSUME NEW sizes \in Seq(Nat \ {0}), NEW i \in 1..Len(sizes)
    PROVE  WordOf(sizes, i) \in Pieces
<1> DEFINE j == i - 1
           n == Len(sizes)
<1>1. j \in 0..n /\ i \in 0..n
  OBVIOUS
<1>2. \A k \in 0..n : Upto(sizes, k) \in Nat
  BY UptoRises
<1> HIDE DEF j, n
<1>3. Upto(sizes, j) + 1 \in Nat \ {0} /\ Upto(sizes, i) \in Nat
  BY <1>1, <1>2
<1> QED
  BY <1>3 DEF WordOf, Pieces, j

LEMMA ParagraphStepType ==
    ASSUME NEW ps \in Seq(Seq(Pieces)), NEW sizes \in Seq(Nat \ {0}), NEW ends,
           NEW i \in 1..Len(sizes)
    PROVE  ParagraphStep(ps, i, sizes, ends) \in Seq(Seq(Pieces))
<1> DEFINE word == WordOf(sizes, i)
           C == i = 1 \/ i - 1 \in ends
           n == Len(ps)
<1>1. word \in Pieces
  BY WordOfType
<1> HIDE DEF word
<1>2. Append(ps, <<word>>) \in Seq(Seq(Pieces))
  BY <1>1
<1>3. [ps EXCEPT ![n] = Append(@, word)] \in Seq(Seq(Pieces))
  <2> DEFINE longer == Append(ps[n], word)
  <2>1. DOMAIN ps = 1..n /\ n \in Nat
    OBVIOUS
  <2>2. CASE n = 0
    <3>1. n \notin DOMAIN ps
      BY <2>1, <2>2
    <3>2. [ps EXCEPT ![n] = longer] = ps
      BY <2>1, <3>1
    <3> QED
      BY <3>2
  <2>3. CASE n # 0
    BY <1>1, <2>1, <2>3 DEF longer
  <2> QED
    BY <2>2, <2>3
<1>4. ParagraphStep(ps, i, sizes, ends) =
        IF C THEN Append(ps, <<word>>) ELSE [ps EXCEPT ![n] = Append(@, word)]
  BY DEF ParagraphStep, word
<1> HIDE DEF C, n
<1> QED
  BY <1>2, <1>3, <1>4

ParagraphsRun(p, sizes, ends) ==
    /\ p \in [0..Len(sizes) -> Seq(Seq(Pieces))]
    /\ p[0] = <<>>
    /\ \A k \in 1..Len(sizes) : p[k] = ParagraphStep(p[k - 1], [i \in DOMAIN sizes |-> i][k], sizes, ends)
    /\ Paragraphs(sizes, ends) = p[Len(sizes)]

LEMMA ParagraphsFold ==
    ASSUME NEW sizes \in Seq(Nat \ {0}), NEW ends
    PROVE  \E p : ParagraphsRun(p, sizes, ends)
<1> DEFINE n == Len(sizes)
           T == Seq(Seq(Pieces))
           base == <<>>
           body(g) == [s \in SUBSET (1..n) |-> IF s = {} THEN base
                         ELSE ParagraphStep(g[s \ {Max(s)}], [i \in DOMAIN sizes |-> i][Max(s)], sizes, ends)]
           step == [k \in 1..n |-> [a \in T |-> ParagraphStep(a, [i \in DOMAIN sizes |-> i][k], sizes, ends)]]
           iter == CHOOSE g : g = body(g)
<1>1. n \in Nat /\ DOMAIN sizes = 1..n
  OBVIOUS
<1>2. Paragraphs(sizes, ends) = iter[1..n]
  BY <1>1 DEF Paragraphs, ParagraphStep, WordOf, Upto, FoldLeft, MapThenFoldSet
<1>3. base \in T /\ \A k \in 1..n, a \in T : ParagraphStep(a, [i \in DOMAIN sizes |-> i][k], sizes, ends) \in T
  BY <1>1, ParagraphStepType
<1>4. step \in Steps(n, T)
  BY <1>3 DEF Steps
<1> HIDE DEF n, T, base
<1>5. iter = body(iter)
  <2> HIDE DEF step, body
  <2>1. PICK g : g \in [SUBSET (1..n) -> T] /\ IsFold(g, n, T, base, step)
    BY <1>1, <1>3, <1>4, FoldExists
  <2>2. \A s \in SUBSET (1..n) : g[s] = body(g)[s]
    BY <2>1 DEF IsFold, step, body
  <2>3. g = body(g)
    BY <2>1, <2>2 DEF body
  <2> QED
    BY <2>3
<1> HIDE DEF iter
<1>6. Folds(iter, n, T, base, step)
  BY <1>5 DEF Folds
<1>7. PICK q : IsRun(q, n, T, base, step) /\ iter[1..n] = q[n]
  <2> HIDE DEF step
  <2> QED
    BY <1>1, <1>3, <1>4, <1>6, FoldRuns
<1>8. /\ q \in [0..n -> T] /\ q[0] = base
      /\ \A k \in 1..n : q[k] = ParagraphStep(q[k - 1], [i \in DOMAIN sizes |-> i][k], sizes, ends)
  BY <1>7 DEF IsRun
<1> QED
  BY <1>2, <1>7, <1>8 DEF n, T, base, ParagraphsRun

LEMMA ParagraphsChain ==
    ASSUME NEW sizes \in Seq(Nat \ {0}), NEW ends
    PROVE  Chained(Paragraphs(sizes, ends), 0, Upto(sizes, Len(sizes)))
<1> DEFINE n == Len(sizes)
<1>1. PICK p : ParagraphsRun(p, sizes, ends)
  BY ParagraphsFold
<1>2. /\ p[0] = <<>> /\ Paragraphs(sizes, ends) = p[n]
      /\ \A k \in 0..n : p[k] \in Seq(Seq(Pieces))
      /\ \A k \in 1..n : p[k] = ParagraphStep(p[k - 1], [i \in 1..n |-> i][k], sizes, ends)
  <2>1. DOMAIN sizes = 1..n
    OBVIOUS
  <2> QED
    BY <1>1, <2>1 DEF ParagraphsRun
<1>3. \A k \in 1..n : p[k] = ParagraphStep(p[k - 1], k, sizes, ends)
  BY <1>2
<1>4. /\ \A i \in 0..n : Upto(sizes, i) \in Nat
      /\ \A i \in 1..n : Upto(sizes, i - 1) < Upto(sizes, i)
  BY UptoRises
<1>5. Upto(sizes, 0) = 0 /\ n \in Nat
  BY UptoMore
<1> HIDE DEF n
<1> DEFINE P == {k \in 0..n : Chained(p[k], 0, Upto(sizes, k)) /\ (k > 0 => p[k] # <<>>)}
<1>6. 0 \in P
  <2> DEFINE e == [i \in 0..0 |-> 0]
  <2>1. IsChain(e, <<>>, 0, 0)
    BY DEF IsChain
  <2>2. <<>> \in Seq(Seq(Pieces))
    OBVIOUS
  <2> HIDE DEF e
  <2>3. Chained(<<>>, 0, 0)
    BY <2>1, <2>2 DEF Chained
  <2> QED
    BY <1>2, <1>5, <2>3
<1>7. \A k \in 0..(n - 1) : k \in P => k + 1 \in P
  <2> SUFFICES ASSUME NEW k \in 0..(n - 1), k \in P
               PROVE  k + 1 \in P
    OBVIOUS
  <2> DEFINE m == k + 1
             ps == p[k]
             b == Upto(sizes, k)
             c == Upto(sizes, m)
             word == WordOf(sizes, m)
  <2>1. m \in 1..n /\ m - 1 = k /\ k \in 0..n /\ m \in 0..n /\ m > 0
    BY <1>5
  <2>2. Chained(ps, 0, b) /\ (k > 0 => ps # <<>>) /\ ps \in Seq(Seq(Pieces))
    BY <1>2, <2>1
  <2>3. b \in Nat /\ c \in Nat /\ b < c
    BY <1>4, <2>1
  <2>4. word = <<b + 1, c>>
    BY <2>1 DEF WordOf
  <2>5. p[m] = ParagraphStep(ps, m, sizes, ends)
    BY <1>3, <2>1
  <2>6. k = 0 <=> m = 1
    BY <2>1
  <2>7. word \in Pieces
    BY <2>1, WordOfType DEF n
  <2>8. p[m] = IF m = 1 \/ k \in ends THEN Append(ps, <<word>>)
               ELSE [ps EXCEPT ![Len(ps)] = Append(@, word)]
    BY <2>1, <2>5 DEF ParagraphStep, word
  <2> HIDE DEF m, ps, b, c, word
  <2>9. Chained(p[m], 0, c) /\ p[m] # <<>>
    <3>1. CASE m = 1 \/ k \in ends
      <4>1. Spans(<<>>, b, b)
        BY <2>3, SpansNone
      <4>2. Spans(Append(<<>>, <<b + 1, c>>), b, c)
        BY <2>3, <4>1, SpansAppend
      <4>3. Spans(<<word>>, b, c)
        BY <2>4, <4>2
      <4>4. Chained(Append(ps, <<word>>), 0, c)
        BY <2>2, <4>3, ChainAppend
      <4>5. <<word>> \in Seq(Pieces)
        BY <2>7
      <4>6. Append(ps, <<word>>) # <<>>
        BY <2>2, <4>5, AppendNonEmpty
      <4> QED
        BY <2>8, <3>1, <4>4, <4>6
    <3>2. CASE ~(m = 1 \/ k \in ends)
      <4>1. ps # <<>>
        BY <2>1, <2>2, <2>6, <3>2
      <4>2. Chained([ps EXCEPT ![Len(ps)] = Append(@, <<b + 1, c>>)], 0, c)
        BY <2>2, <2>3, <4>1, ChainLonger
      <4>3. p[m] = [ps EXCEPT ![Len(ps)] = Append(@, <<b + 1, c>>)]
        BY <2>4, <2>8, <3>2
      <4>4. DOMAIN p[m] = DOMAIN ps /\ DOMAIN ps # {}
        BY <2>2, <4>1, <4>3
      <4>5. p[m] # <<>>
        BY <4>4
      <4> QED
        BY <4>2, <4>3, <4>5
    <3> QED
      BY <3>1, <3>2
  <2> QED
    BY <2>1, <2>9 DEF m, c
<1>8. \A k \in 0..n : k \in P
  BY <1>5, <1>6, <1>7, CountInduction
<1>9. n \in 0..n
  BY <1>5
<1> QED
  BY <1>2, <1>8, <1>9 DEF n

-----------------------------------------------------------------------------
(* Vectors.                                                                *)

\* The windows of at most size that n texts make, and what of a vector per
\* text the k-th should get.
WindowCount(n, size) == (n + size - 1) \div size

WindowLength(n, size, k) == Min({size, n - (k - 1) * size})

WindowOf(n, size, k, vector) ==
    [i \in 1..WindowLength(n, size, k) |-> vector[(k - 1) * size + i]]

WindowsOf(n, size, vector) ==
    [k \in 1..WindowCount(n, size) |-> WindowOf(n, size, k, vector)]

\* Where the k-th window ends.
WindowEnds(e, n, size) ==
    LET count == WindowCount(n, size)
    IN  /\ count \in Nat /\ count <= n
        /\ e \in [0..count -> Nat] /\ e[0] = 0 /\ e[count] = n
        /\ \A k \in 1..count :
            /\ e[k - 1] = (k - 1) * size /\ e[k - 1] \in Nat
            /\ WindowLength(n, size, k) \in 1..size
            /\ e[k] = e[k - 1] + WindowLength(n, size, k) /\ e[k] <= n

LEMMA WindowsEnd ==
    ASSUME NEW n \in Nat, NEW size \in Nat \ {0}
    PROVE  \E e : WindowEnds(e, n, size)
<1> DEFINE count == WindowCount(n, size)
           M == [k \in 0..count |-> k * size]
           e == [k \in 0..count |-> IF n <= M[k] THEN n ELSE M[k]]
<1>1. /\ count \in Nat /\ (count = 0 <=> n = 0) /\ n <= count * size
      /\ \A i \in 0..count : i * size \in Nat /\ (i < count => i * size < n)
      /\ \A i \in 1..count : i * size = (i - 1) * size + size
  BY Blocks DEF WindowCount
<1> HIDE DEF count
<1>2. /\ \A i \in 0..count : M[i] = i * size /\ M[i] \in Nat /\ (i < count => M[i] < n)
      /\ \A i \in 1..count : M[i - 1] = (i - 1) * size /\ M[i] = M[i - 1] + size
  BY <1>1
<1>3. \A k \in 0..count : e[k] = IF n <= M[k] THEN n ELSE M[k]
  OBVIOUS
<1>4. e \in [0..count -> Nat]
  BY <1>2
<1>5. M[0] = 0 /\ n <= M[count]
  BY <1>1, <1>2
<1> HIDE DEF M, e
<1>6. e[0] = 0 /\ e[count] = n
  BY <1>1, <1>3, <1>5
<1>7. ASSUME NEW k \in 1..count
      PROVE  /\ e[k - 1] = (k - 1) * size /\ e[k - 1] \in Nat
             /\ WindowLength(n, size, k) \in 1..size
             /\ e[k] = e[k - 1] + WindowLength(n, size, k) /\ e[k] <= n
  <2>1. k - 1 \in 0..count /\ k \in 0..count /\ k - 1 < count
    BY <1>1
  <2> DEFINE a == M[k - 1]
             b == M[k]
             rest == n - (k - 1) * size
             length == WindowLength(n, size, k)
  <2>2. a = (k - 1) * size /\ a \in Nat /\ a < n /\ b = a + size /\ b \in Nat
    BY <1>2, <2>1
  <2>3. rest = n - a
    BY <2>2
  <2>4. e[k - 1] = IF n <= a THEN n ELSE a
    BY <1>3, <2>1
  <2>5. e[k] = IF n <= b THEN n ELSE b
    BY <1>3, <2>1
  <2>6. length = Min({size, rest})
    BY DEF WindowLength
  <2> HIDE DEF a, b, rest, length
  <2>7. length = IF size <= rest THEN size ELSE rest
    BY <2>2, <2>3, <2>6, MinOfTwo
  <2>8. e[k - 1] = a
    BY <2>2, <2>4
  <2>9. length \in 1..size /\ e[k] = a + length /\ e[k] <= n
    BY <2>2, <2>3, <2>5, <2>7
  <2> QED
    BY <2>2, <2>8, <2>9 DEF length
<1>8. count <= n
  BY <1>1
<1>9. WindowEnds(e, n, size)
  BY <1>1, <1>4, <1>6, <1>7, <1>8 DEF WindowEnds, count
<1> QED
  BY <1>9

\* Every window is answered, in an order of the server's, with the vectors
\* of its texts.
Answered(answers, n, size, vector) ==
    \A k \in 1..WindowCount(n, size) :
        /\ answers[k].kind = "ok"
        /\ \E order : Shuffled(answers[k].entries, order, WindowLength(n, size, k),
                               WindowOf(n, size, k, vector))

LEMMA EmbedIs ==
    ASSUME NEW n, NEW size, NEW answers
    PROVE  Embed(n, size, answers) =
             LET window == [k \in 1..WindowCount(n, size) |->
                    IF answers[k].kind = "ok"
                    THEN EntriesByIndex(WindowLength(n, size, k), answers[k].entries)
                    ELSE NoValues]
             IN  IF \E k \in 1..WindowCount(n, size) : window[k].failed
                 THEN NoValues
                 ELSE [failed |-> FALSE, values |->
                        FlattenSeq([k \in 1..WindowCount(n, size) |-> window[k].values])]
BY DEF Embed, WindowCount, WindowLength

\* A window not answered leaves no text its vector.
LEMMA EmbedFails ==
    ASSUME NEW n, NEW size, NEW answers, NEW lost \in 1..WindowCount(n, size),
           answers[lost].kind # "ok"
    PROVE  Embed(n, size, answers).failed
<1> DEFINE count == WindowCount(n, size)
           window == [k \in 1..count |->
                    IF answers[k].kind = "ok"
                    THEN EntriesByIndex(WindowLength(n, size, k), answers[k].entries)
                    ELSE NoValues]
<1> HIDE DEF count
<1>1. window[lost] = NoValues
  BY DEF count
<1>2. window[lost].failed
  BY <1>1 DEF NoValues
<1>3. \E k \in 1..count : window[k].failed
  BY <1>2 DEF count
<1>4. Embed(n, size, answers) = NoValues
  BY <1>3, EmbedIs DEF count
<1> QED
  BY <1>4 DEF NoValues

LEMMA WindowsFlatten ==
    ASSUME NEW n \in Nat, NEW size \in Nat \ {0}, NEW V, NEW vector \in [1..n -> V]
    PROVE  FlattenSeq(WindowsOf(n, size, vector)) = vector
<1> DEFINE count == WindowCount(n, size)
           seqs == WindowsOf(n, size, vector)
           length == [k \in 1..count |-> WindowLength(n, size, k)]
<1>1. PICK e : WindowEnds(e, n, size)
  BY WindowsEnd
<1>2. /\ count \in Nat /\ e \in [0..count -> Nat] /\ e[0] = 0 /\ e[count] = n
      /\ \A k \in 1..count :
            /\ e[k - 1] = (k - 1) * size /\ e[k - 1] \in Nat
            /\ length[k] \in 1..size
            /\ e[k] = e[k - 1] + length[k] /\ e[k] <= n
  BY <1>1 DEF WindowEnds
<1>3. \A k \in 1..count : seqs[k] = [i \in 1..length[k] |-> vector[e[k - 1] + i]]
  BY <1>2 DEF WindowsOf, WindowOf
<1>4. DOMAIN seqs = 1..count /\ seqs = [k \in 1..count |-> seqs[k]]
  BY DEF WindowsOf
<1> HIDE DEF length, count, seqs
<1>5. ASSUME NEW k \in 1..count
      PROVE  seqs[k] \in Seq(V) /\ Len(seqs[k]) = length[k]
  <2>1. length[k] \in Nat /\ e[k - 1] \in Nat /\ e[k - 1] + length[k] <= n
    BY <1>2, SMTT(30)
  <2>2. \A i \in 1..length[k] : vector[e[k - 1] + i] \in V
    <3> SUFFICES ASSUME NEW i \in 1..length[k]
                 PROVE  vector[e[k - 1] + i] \in V
      OBVIOUS
    <3>1. e[k - 1] + i \in 1..n
      BY <2>1, SMTT(30)
    <3> QED
      BY <3>1
  <2> DEFINE m == length[k]
             s == [i \in 1..m |-> vector[e[k - 1] + i]]
  <2>3. m \in Nat /\ \A i \in 1..m : s[i] \in V
    BY <2>1, <2>2
  <2>4. DOMAIN s = 1..m /\ s = [i \in 1..m |-> s[i]]
    OBVIOUS
  <2>5. seqs[k] = s
    BY <1>3
  <2> HIDE DEF m, s
  <2>6. s \in Seq(V) /\ Len(s) = m
    BY <2>3, <2>4
  <2> QED
    BY <2>5, <2>6 DEF m
<1>6. seqs \in Seq(Seq(V)) /\ Len(seqs) = count
  <2> DEFINE T == Seq(V)
  <2>1. \A k \in 1..count : seqs[k] \in T
    BY <1>5
  <2> HIDE DEF T
  <2>2. seqs = [k \in 1..count |-> seqs[k]] /\ count \in Nat
    BY <1>2, <1>4
  <2>3. seqs \in [1..count -> T]
    BY <2>1, <2>2
  <2>4. seqs \in Seq(T)
    BY <2>2, <2>3
  <2>5. Len(seqs) = count
    BY <1>4, <2>2, <2>4
  <2> QED
    BY <2>4, <2>5 DEF T
<1>7. PICK q \in [0..count -> Seq(V)] :
        /\ q[0] = <<>>
        /\ \A k \in 1..count : q[k] = q[k - 1] \o seqs[k]
        /\ FlattenSeq(seqs) = q[count]
  BY <1>6, FlattenRun
<1> DEFINE P == {k \in 0..count : Len(q[k]) = e[k] /\ \A i \in 1..e[k] : q[k][i] = vector[i]}
<1>8. 0 \in P
  BY <1>2, <1>7
<1>9. \A k \in 0..(count - 1) : k \in P => k + 1 \in P
  <2> SUFFICES ASSUME NEW k \in 0..(count - 1), k \in P
               PROVE  k + 1 \in P
    OBVIOUS
  <2> DEFINE m == k + 1
             a == q[k]
             b == seqs[m]
             c == e[k]
             l == length[m]
  <2>1. m \in 1..count /\ m - 1 = k /\ k \in 0..count /\ m \in 0..count
    BY <1>2
  <2> HIDE DEF m
  <2>2. a \in Seq(V) /\ Len(a) = c /\ \A i \in 1..c : a[i] = vector[i]
    BY <1>7, <2>1
  <2>3. b \in Seq(V) /\ Len(b) = l
    BY <1>5, <2>1
  <2>4. c \in Nat /\ l \in Nat /\ e[m] = c + l
    <3>1. e[m - 1] \in Nat /\ length[m] \in 1..size /\ e[m] = e[m - 1] + length[m]
      BY <1>2, <2>1
    <3>2. e[m - 1] = e[k]
      BY <2>1
    <3> QED
      BY <3>1, <3>2
  <2>5. \A i \in 1..l : b[i] = vector[c + i]
    <3>0. seqs[m] = [i \in 1..length[m] |-> vector[e[m - 1] + i]]
      BY <1>3, <2>1
    <3>1. b = [i \in 1..l |-> vector[c + i]]
      BY <2>1, <3>0
    <3> QED
      BY <3>1
  <2>6. q[m] = a \o b
    BY <1>7, <2>1
  <2> HIDE DEF a, b, c, l
  <2>7. Len(a \o b) = c + l /\ \A i \in 1..(c + l) : (a \o b)[i] = vector[i]
    <3>1. /\ Len(a \o b) = Len(a) + Len(b)
          /\ \A i \in 1..(Len(a) + Len(b)) : (a \o b)[i] =
                IF i <= Len(a) THEN a[i] ELSE b[i - Len(a)]
      BY <2>2, <2>3, ConcatProperties, ZenonT(60)
    <3>2. ASSUME NEW i \in 1..(c + l)
          PROVE  (a \o b)[i] = vector[i]
      <4>1. (a \o b)[i] = IF i <= c THEN a[i] ELSE b[i - c]
        BY <2>2, <2>3, <3>1
      <4>2. CASE i <= c
        BY <2>2, <2>4, <4>1, <4>2
      <4>3. CASE ~(i <= c)
        BY <2>4, <2>5, <4>1, <4>3
      <4> QED
        BY <4>2, <4>3
    <3> QED
      BY <2>2, <2>3, <3>1, <3>2
  <2>8. Len(q[m]) = e[m] /\ \A i \in 1..e[m] : q[m][i] = vector[i]
    BY <2>4, <2>6, <2>7
  <2> QED
    BY <2>1, <2>8 DEF m
<1>10. \A k \in 0..count : k \in P
  BY <1>2, <1>8, <1>9, CountInduction
<1>11. count \in 0..count
  BY <1>2
<1> DEFINE flat == q[count]
<1>12. flat \in Seq(V) /\ Len(flat) = n /\ \A i \in 1..n : flat[i] = vector[i]
  BY <1>2, <1>7, <1>10, <1>11
<1> HIDE DEF flat
<1>13. vector \in Seq(V) /\ Len(vector) = n
  OBVIOUS
<1>14. flat = vector
  BY <1>12, <1>13, SeqEqual
<1> QED
  BY <1>7, <1>14 DEF flat, seqs

\* Each text gets the vector computed from it, though the server lists the
\* vectors of a window in an order of its own (RemoteEmbeddingProvider.embed).
THEOREM VectorsInPlace ==
    ASSUME NEW n \in Nat, NEW size \in Nat \ {0}, NEW V, NEW vector \in [1..n -> V],
           NEW answers, Answered(answers, n, size, vector)
    PROVE  Embed(n, size, answers) = [failed |-> FALSE, values |-> vector]
<1> DEFINE count == WindowCount(n, size)
           window == [k \in 1..count |->
                    IF answers[k].kind = "ok"
                    THEN EntriesByIndex(WindowLength(n, size, k), answers[k].entries)
                    ELSE NoValues]
           parts == [k \in 1..count |-> window[k].values]
           wanted == WindowsOf(n, size, vector)
<1>1. PICK e : WindowEnds(e, n, size)
  BY WindowsEnd
<1>2. ASSUME NEW k \in 1..count
      PROVE  window[k] = [failed |-> FALSE, values |-> WindowOf(n, size, k, vector)]
  <2> DEFINE m == WindowLength(n, size, k)
             truth == WindowOf(n, size, k, vector)
             entries == answers[k].entries
  <2>1. answers[k].kind = "ok" /\ \E order : Shuffled(entries, order, m, truth)
    BY DEF Answered
  <2>2. PICK order : Shuffled(entries, order, m, truth)
    BY <2>1
  <2>3. m \in Nat /\ e[k - 1] = (k - 1) * size /\ e[k - 1] \in Nat /\ e[k - 1] + m <= n
    BY <1>1 DEF WindowEnds
  <2>4. truth \in [1..m -> V]
    <3>1. ASSUME NEW i \in 1..m
          PROVE  vector[(k - 1) * size + i] \in V
      <4>1. e[k - 1] + i \in 1..n
        BY <2>3
      <4> QED
        BY <2>3, <4>1
    <3> QED
      BY <3>1 DEF WindowOf
  <2>5. window[k] = EntriesByIndex(m, entries)
    BY <2>1
  <2> HIDE DEF m, truth, entries, window
  <2>6. EntriesByIndex(m, entries) = [failed |-> FALSE, values |-> truth]
    BY <2>2, <2>3, <2>4, EntriesComplete
  <2> QED
    BY <2>5, <2>6 DEF truth
<1>3. Embed(n, size, answers) =
        IF \E k \in 1..count : window[k].failed
        THEN NoValues
        ELSE [failed |-> FALSE, values |-> FlattenSeq(parts)]
  BY EmbedIs
<1> HIDE DEF count, window
<1>4. \A k \in 1..count : ~window[k].failed /\ window[k].values = WindowOf(n, size, k, vector)
  <2> SUFFICES ASSUME NEW k \in 1..count
               PROVE  ~window[k].failed /\ window[k].values = WindowOf(n, size, k, vector)
    OBVIOUS
  <2> DEFINE truth == WindowOf(n, size, k, vector)
  <2>1. window[k] = [failed |-> FALSE, values |-> truth]
    BY <1>2
  <2> HIDE DEF truth
  <2>2. ~window[k].failed /\ window[k].values = truth
    BY <2>1
  <2> QED
    BY <2>2 DEF truth
<1>5. parts = wanted
  BY <1>4 DEF WindowsOf, count
<1> HIDE DEF wanted, parts
<1>7. FlattenSeq(wanted) = vector
  BY WindowsFlatten DEF wanted
<1> QED
  BY <1>3, <1>4, <1>5, <1>7

-----------------------------------------------------------------------------
(* What the runs' texts come to.                                           *)

IndexOutcome(sizes, ends, target, overlap, lost) ==
    LET text == Paragraphs(sizes, ends)
        bodies == Bodies(text, target, BodyLimit, overlap)
    IN  [step |-> "index", text |-> text, overlap |-> overlap,
         bodies |-> bodies, lost |-> lost,
         vectors |-> Embed(Len(bodies), Window,
            [k \in 1..Len(bodies) |->
                IF k = lost THEN [kind |-> "503"]
                            ELSE WindowAnswer(Len(bodies), k)])]

LEMMA IndexIsIndexed ==
    Index => \E sizes \in UpTo({1, 2, 5}, 4), ends \in SUBSET Int,
           target \in 1..BodyLimit,
                overlap \in 0..2, lost \in 0..2 :
                call' = IndexOutcome(sizes, ends, target, overlap, lost)
<1> SUFFICES ASSUME Index
             PROVE  \E sizes \in UpTo({1, 2, 5}, 4), ends \in SUBSET Int,
           target \in 1..BodyLimit,
                       overlap \in 0..2, lost \in 0..2 :
                       call' = IndexOutcome(sizes, ends, target, overlap, lost)
  OBVIOUS
<1>1. PICK sizes \in UpTo({1, 2, 5}, 4) :
        \E ends \in SUBSET (1..(Len(sizes) - 1)), target \in 1..BodyLimit,
           overlap \in 0..2, lost \in 0..2 :
        \E text \in {Paragraphs(sizes, ends)} :
        \E bodies \in {Bodies(text, target, BodyLimit, overlap)} :
            call' = [step |-> "index", text |-> text, overlap |-> overlap,
                     bodies |-> bodies, lost |-> lost,
                     vectors |-> Embed(Len(bodies), Window,
                        [k \in 1..Len(bodies) |->
                            IF k = lost THEN [kind |-> "503"]
                                        ELSE WindowAnswer(Len(bodies), k)])]
  BY DEF Index
<1>0. PICK ends \in SUBSET (1..(Len(sizes) - 1)), target \in 1..BodyLimit, overlap \in 0..2, lost \in 0..2 :
        \E text \in {Paragraphs(sizes, ends)} :
        \E bodies \in {Bodies(text, target, BodyLimit, overlap)} :
            call' = [step |-> "index", text |-> text, overlap |-> overlap,
                     bodies |-> bodies, lost |-> lost,
                     vectors |-> Embed(Len(bodies), Window,
                        [k \in 1..Len(bodies) |->
                            IF k = lost THEN [kind |-> "503"]
                                        ELSE WindowAnswer(Len(bodies), k)])]
  BY <1>1
<1>2. call' = IndexOutcome(sizes, ends, target, overlap, lost)
  BY <1>0 DEF IndexOutcome
<1>3. ends \in SUBSET Int
  OBVIOUS
<1> QED
  BY <1>2, <1>3

LEMMA SizesAre ==
    ASSUME NEW sizes \in UpTo({1, 2, 5}, 4)
    PROVE  sizes \in Seq(Nat \ {0})
<1>1. PICK k \in 0..4 : sizes \in [1..k -> {1, 2, 5}]
  BY DEF UpTo
<1>2. sizes \in [1..k -> Nat \ {0}] /\ k \in Nat
  BY <1>1
<1> QED
  BY <1>2

\* A window of the runs is answered with its last chunk first.
LEMMA WindowsAnswered ==
    ASSUME NEW n \in Nat, NEW lost, lost \notin 1..WindowCount(n, Window),
           NEW answers, answers = [k \in 1..n |-> IF k = lost THEN [kind |-> "503"]
                                                  ELSE WindowAnswer(n, k)]
    PROVE  Answered(answers, n, Window, [i \in 1..n |-> i])
<1> DEFINE count == WindowCount(n, Window)
           vector == [i \in 1..n |-> i]
<1>1. Window \in Nat \ {0} /\ Window \in Int
  BY DEF Window
<1>2. PICK e : WindowEnds(e, n, Window)
  BY <1>1, WindowsEnd
<1>3. count \in Nat /\ count <= n
  BY <1>2 DEF WindowEnds
<1>4. ASSUME NEW k \in 1..count
      PROVE  /\ answers[k].kind = "ok"
             /\ \E order : Shuffled(answers[k].entries, order, WindowLength(n, Window, k),
                                    WindowOf(n, Window, k, vector))
  <2> DEFINE m == WindowLength(n, Window, k)
             truth == WindowOf(n, Window, k, vector)
             order == [i \in 1..m |-> m + 1 - i]
             entry(i) == [index |-> i, value |-> (k - 1) * Window + i]
             entries == [i \in 1..m |-> entry(m + 1 - i)]
  <2>1. k \in 1..n /\ k # lost /\ k - 1 \in Int
    BY <1>3
  <2>2. answers[k] = WindowAnswer(n, k)
    BY <2>1
  <2>3. WindowAnswer(n, k) = [kind |-> "ok", entries |-> entries]
    BY DEF WindowAnswer, WindowLength
  <2>4. answers[k].kind = "ok" /\ answers[k].entries = entries
    <3> HIDE DEF entries
    <3> QED
      BY <2>2, <2>3
  <2>5. /\ m \in Nat /\ e[k - 1] = (k - 1) * Window /\ e[k - 1] \in Nat /\ e[k - 1] + m <= n
    BY <1>1, <1>2 DEF WindowEnds
  <2>6. \A i \in 1..m : truth[i] = (k - 1) * Window + i
    BY <2>5 DEF WindowOf
  <2>7. /\ \A i \in 1..m : entries[i].index = m + 1 - i
        /\ \A i \in 1..m : entries[i].value = (k - 1) * Window + (m + 1 - i)
    OBVIOUS
  <2>8. DOMAIN entries = 1..m
    OBVIOUS
  <2> HIDE DEF m, truth, entries
  <2>9. \A i \in 1..m : m + 1 - i \in 1..m /\ m + 1 - (m + 1 - i) = i
    BY <2>5
  <2>10. order \in [1..m -> 1..m]
    BY <2>9
  <2>11. \A i \in 1..m : \E j \in 1..m : order[j] = i
    BY <2>9
  <2>12. \A i \in 1..m : entries[i].index = order[i]
    BY <2>7
  <2>13. \A i \in 1..m : entries[i].value = truth[order[i]]
    BY <2>6, <2>7, <2>10
  <2>14. Len(entries) = m
    BY <2>5, <2>8 DEF entries
  <2> HIDE DEF order
  <2>15. Shuffled(entries, order, m, truth)
    BY <2>10, <2>11, <2>12, <2>13, <2>14 DEF Shuffled
  <2> QED
    BY <2>4, <2>15 DEF m, truth
<1> QED
  BY <1>4 DEF Answered

LEMMA IndexKeeps == Index => IndexKeepsText'
<1> SUFFICES ASSUME Index
             PROVE  IndexKeepsText'
  OBVIOUS
<1>1. PICK sizes \in UpTo({1, 2, 5}, 4), ends \in SUBSET Int,
           target \in 1..BodyLimit,
           overlap \in 0..2, lost \in 0..2 :
        call' = IndexOutcome(sizes, ends, target, overlap, lost)
  BY IndexIsIndexed
<1> DEFINE text == Paragraphs(sizes, ends)
           bodies == Bodies(text, target, BodyLimit, overlap)
           n == Len(bodies)
           answers == [k \in 1..n |-> IF k = lost THEN [kind |-> "503"]
                                      ELSE WindowAnswer(n, k)]
           vectors == Embed(n, Window, answers)
           b == Upto(sizes, Len(sizes))
<1>2. /\ call'.step = "index" /\ call'.text = text /\ call'.overlap = overlap
      /\ call'.bodies = bodies /\ call'.lost = lost /\ call'.vectors = vectors
  BY <1>1 DEF IndexOutcome
<1>3. Chained(text, 0, b)
  BY SizesAre, ParagraphsChain
<1>4. /\ BodyLimit \in Nat \ {0} /\ overlap \in Nat /\ target \in Int /\ target <= BodyLimit
      /\ Window \in Nat \ {0}
  BY DEF BodyLimit, Window
<1> HIDE DEF text, b
<1>5. KeepsText(FlattenSeq(text), bodies, BodyLimit, overlap)
  BY <1>3, <1>4, BodiesKeepText
<1>6. n \in Nat
  BY <1>3, <1>4, BodiesKeep DEF Bodied, InBodies
<1> DEFINE count == WindowCount(n, Window)
           vector == [i \in 1..n |-> i]
<1> HIDE DEF bodies, n
<1>7. CASE lost \in 1..count
  <2>1. count \in Nat /\ count <= n
    BY <1>4, <1>6, WindowsEnd DEF WindowEnds
  <2>2. lost \in 1..n
    BY <1>6, <1>7, <2>1
  <2>3. answers[lost].kind # "ok"
    BY <2>2
  <2>4. vectors.failed
    BY <1>7, <2>3, EmbedFails
  <2> HIDE DEF vectors
  <2> QED
    BY <1>2, <1>5, <1>7, <2>4 DEF IndexKeepsText, WindowCount, n
<1>8. CASE lost \notin 1..count
  <2>1. Answered(answers, n, Window, vector)
    BY <1>6, <1>8, WindowsAnswered
  <2>2. vector \in [1..n -> Nat]
    BY <1>6
  <2>3. vectors = [failed |-> FALSE, values |-> vector]
    <3> HIDE DEF answers, vector
    <3> QED
      BY <1>4, <1>6, <2>1, <2>2, VectorsInPlace
  <2>4. ~vectors.failed /\ vectors.values = vector
    <3> HIDE DEF vectors, vector
    <3> QED
      BY <2>3
  <2> HIDE DEF vectors
  <2> QED
    BY <1>2, <1>5, <1>8, <2>4 DEF IndexKeepsText, WindowCount, n
<1> QED
  BY <1>7, <1>8

\* Every text of the runs is kept whole by its chunks, and each chunk gets
\* the vector computed from it or none does (chunk_document,
\* RemoteEmbeddingProvider.embed).
THEOREM IndexKeepsTextAlways == Spec => []IndexKeepsText
<1>1. Init => IndexKeepsText
  BY StepsApart DEF IndexKeepsText
<1>2. IndexKeepsText /\ [Next]_call => IndexKeepsText'
  BY IndexKeeps, StepsApart DEF IndexKeepsText, Next
<1> QED
  BY <1>1, <1>2, PTL DEF Spec

-----------------------------------------------------------------------------
(* Synchronised tables.                                                    *)

Table(K, S) == UNION {[D -> [active : BOOLEAN, src : S]] : D \in SUBSET K}

RowSets(S, E, R) == [source : Table(S, S), entity : Table(E, S), relation : Table(R, S)]

Catalogs(S, E, R) ==
    [source : S, entities : SUBSET E, external : SUBSET E, relations : SUBSET R]

SyncStates(S, E, R) == [failed : BOOLEAN, rows : RowSets(S, E, R)]

IsUpserted(u, t, listed, src, K, S) ==
    /\ u \in Table(K, S)
    /\ DOMAIN u = DOMAIN t \cup listed
    /\ \A key \in listed : u[key] = [active |-> TRUE, src |-> src]
    /\ \A key \in (DOMAIN t) \ listed :
        u[key] = IF t[key].src = src THEN [active |-> FALSE, src |-> src] ELSE t[key]

LEMMA UpsertedIs ==
    ASSUME NEW K, NEW S, NEW t \in Table(K, S), NEW listed \in SUBSET K, NEW src \in S
    PROVE  IsUpserted(Graph!Upserted(t, listed, src), t, listed, src, K, S)
<1> DEFINE u == Graph!Upserted(t, listed, src)
           Row == [active : BOOLEAN, src : S]
<1>1. PICK D \in SUBSET K : t \in [D -> Row]
  BY DEF Table
<1>2. DOMAIN u = D \cup listed /\ D = DOMAIN t
  BY <1>1 DEF Graph!Upserted
<1>3. \A key \in listed : u[key] = [active |-> TRUE, src |-> src]
  BY DEF Graph!Upserted
<1>4. \A key \in (DOMAIN t) \ listed :
        u[key] = IF t[key].src = src THEN [active |-> FALSE, src |-> src] ELSE t[key]
  BY DEF Graph!Upserted
<1>5. u = [key \in D \cup listed |-> u[key]]
  BY <1>2 DEF Graph!Upserted
<1> HIDE DEF u
<1>6. \A key \in D \cup listed : u[key] \in Row
  <2>1. [active |-> TRUE, src |-> src] \in Row /\ [active |-> FALSE, src |-> src] \in Row
    OBVIOUS
  <2> HIDE DEF Row
  <2> QED
    BY <1>1, <1>2, <1>3, <1>4, <2>1
<1>7. u \in [D \cup listed -> Row]
  BY <1>5, <1>6
<1>8. u \in Table(K, S)
  BY <1>7 DEF Table
<1> QED
  BY <1>2, <1>3, <1>4, <1>8 DEF u, IsUpserted

\* A catalog fails or is written to the three tables.
Wrote(e, s, c) ==
    \/ e = [failed |-> TRUE, rows |-> s.rows]
    \/ e = [failed |-> s.failed,
            rows |-> [source |-> Graph!Upserted(s.rows.source, {c.source}, c.source),
                      entity |-> Graph!Upserted(s.rows.entity, c.entities, c.source),
                      relation |-> Graph!Upserted(s.rows.relation, c.relations, c.source)]]

LEMMA SyncWrites ==
    ASSUME NEW S, NEW E, NEW R, NEW s \in SyncStates(S, E, R), NEW c
    PROVE  Wrote(Graph!SyncCatalog(s, c), s, c)
<1>1. s.rows \in RowSets(S, E, R) /\ s = [failed |-> s.failed, rows |-> s.rows]
  BY DEF SyncStates
<1>2. s.rows = [source |-> s.rows.source, entity |-> s.rows.entity,
                relation |-> s.rows.relation]
  BY <1>1 DEF RowSets
<1> QED
  BY <1>1, <1>2, ZenonT(60) DEF Graph!SyncCatalog, Wrote

LEMMA SyncStepType ==
    ASSUME NEW S, NEW E, NEW R, NEW s \in SyncStates(S, E, R), NEW c \in Catalogs(S, E, R)
    PROVE  Graph!SyncCatalog(s, c) \in SyncStates(S, E, R)
<1>1. s.failed \in BOOLEAN /\ s.rows \in RowSets(S, E, R)
  BY DEF SyncStates
<1>2. /\ s.rows.source \in Table(S, S) /\ s.rows.entity \in Table(E, S)
      /\ s.rows.relation \in Table(R, S)
  BY <1>1 DEF RowSets
<1>3. /\ c.source \in S /\ {c.source} \in SUBSET S /\ c.entities \in SUBSET E
      /\ c.relations \in SUBSET R
  BY DEF Catalogs
<1> DEFINE a == Graph!Upserted(s.rows.source, {c.source}, c.source)
           b == Graph!Upserted(s.rows.entity, c.entities, c.source)
           d == Graph!Upserted(s.rows.relation, c.relations, c.source)
<1>4. a \in Table(S, S) /\ b \in Table(E, S) /\ d \in Table(R, S)
  BY <1>2, <1>3, UpsertedIs, ZenonT(60) DEF IsUpserted
<1>5. \/ Graph!SyncCatalog(s, c) = [failed |-> TRUE, rows |-> s.rows]
      \/ Graph!SyncCatalog(s, c) =
            [failed |-> s.failed, rows |-> [source |-> a, entity |-> b, relation |-> d]]
  BY SyncWrites DEF Wrote
<1> HIDE DEF a, b, d
<1>6. [source |-> a, entity |-> b, relation |-> d] \in RowSets(S, E, R)
  BY <1>4 DEF RowSets
<1>7. \A f \in BOOLEAN, q \in RowSets(S, E, R) : [failed |-> f, rows |-> q] \in SyncStates(S, E, R)
  BY DEF SyncStates
<1> QED
  BY <1>1, <1>5, <1>6, <1>7

Synced(rows, catalogs) ==
    Graph!FoldLeft(Graph!SyncCatalog, [failed |-> FALSE, rows |-> rows], catalogs)

SyncRun(p, S, E, R, rows, catalogs) ==
    /\ p \in [0..Len(catalogs) -> SyncStates(S, E, R)]
    /\ p[0] = [failed |-> FALSE, rows |-> rows]
    /\ \A k \in 1..Len(catalogs) : p[k] = Graph!SyncCatalog(p[k - 1], catalogs[k])
    /\ Synced(rows, catalogs) = p[Len(catalogs)]

LEMMA SyncFold ==
    ASSUME NEW S, NEW E, NEW R, NEW rows \in RowSets(S, E, R),
           NEW catalogs \in Seq(Catalogs(S, E, R))
    PROVE  \E p : SyncRun(p, S, E, R, rows, catalogs)
<1> DEFINE n == Len(catalogs)
           T == SyncStates(S, E, R)
           base == [failed |-> FALSE, rows |-> rows]
           body(g) == [s \in SUBSET (1..n) |-> IF s = {} THEN base
                         ELSE Graph!SyncCatalog(g[s \ {Max(s)}], catalogs[Max(s)])]
           step == [k \in 1..n |-> [a \in T |-> Graph!SyncCatalog(a, catalogs[k])]]
           iter == CHOOSE g : g = body(g)
<1>1. n \in Nat /\ DOMAIN catalogs = 1..n
  OBVIOUS
<1>2. Synced(rows, catalogs) = iter[1..n]
  BY <1>1 DEF Synced, Graph!FoldLeft, Graph!MapThenFoldSet, Graph!Max, Max
<1>3. base \in T /\ \A k \in 1..n, a \in T : Graph!SyncCatalog(a, catalogs[k]) \in T
  BY SyncStepType DEF SyncStates, T
<1>4. step \in Steps(n, T)
  BY <1>3 DEF Steps
<1> HIDE DEF n, T, base
<1>5. iter = body(iter)
  <2> HIDE DEF step, body
  <2>1. PICK g : g \in [SUBSET (1..n) -> T] /\ IsFold(g, n, T, base, step)
    BY <1>1, <1>3, <1>4, FoldExists
  <2>2. \A s \in SUBSET (1..n) : g[s] = body(g)[s]
    BY <2>1 DEF IsFold, step, body
  <2>3. g = body(g)
    BY <2>1, <2>2 DEF body
  <2> QED
    BY <2>3
<1> HIDE DEF iter
<1>6. Folds(iter, n, T, base, step)
  BY <1>5 DEF Folds
<1>7. PICK q : IsRun(q, n, T, base, step) /\ iter[1..n] = q[n]
  <2> HIDE DEF step
  <2> QED
    BY <1>1, <1>3, <1>4, <1>6, FoldRuns
<1>8. /\ q \in [0..n -> T] /\ q[0] = base
      /\ \A k \in 1..n : q[k] = Graph!SyncCatalog(q[k - 1], catalogs[k])
  BY <1>7 DEF IsRun
<1> QED
  BY <1>2, <1>7, <1>8 DEF n, T, base, SyncRun

\* A table u that n catalogs made of the table t: each listed the keys L[i]
\* as srcs[i].  What some catalog lists belongs to the last that does; what
\* none lists is off if its owner is among them and else as it was.
Written(u, t, L, srcs, n, K, S) ==
    /\ u \in Table(K, S)
    /\ \A key \in K : key \in DOMAIN u <=> key \in DOMAIN t \/ \E i \in 1..n : key \in L[i]
    /\ \A key \in K, i \in 1..n :
        key \in L[i] /\ (\A j \in (i + 1)..n : key \notin L[j]) =>
            u[key] = [active |-> TRUE, src |-> srcs[i]]
    /\ \A key \in DOMAIN t : (\A i \in 1..n : key \notin L[i]) =>
        /\ (\A i \in 1..n : srcs[i] # t[key].src) => u[key] = t[key]
        /\ (\E i \in 1..n : srcs[i] = t[key].src) =>
            u[key] = [active |-> FALSE, src |-> t[key].src]

Distinct(srcs, n) == \A i, j \in 1..n : srcs[i] = srcs[j] => i = j

Follows(m, k) == m = k + 1

LEMMA WrittenMore ==
    ASSUME NEW K, NEW S, NEW t \in Table(K, S), NEW N \in Nat,
           NEW L \in [1..N -> SUBSET K], NEW srcs \in [1..N -> S], Distinct(srcs, N),
           NEW k \in 0..(N - 1), NEW m, Follows(m, k), NEW u, Written(u, t, L, srcs, k, K, S)
    PROVE  Written(Graph!Upserted(u, L[m], srcs[m]), t, L, srcs, m, K, S)
<1> DEFINE v == Graph!Upserted(u, L[m], srcs[m])
<1>1. m \in 1..N /\ k \in Nat /\ m \in Nat /\ m \notin 1..k /\ 1..m = 1..k \cup {m}
      /\ m = k + 1
  BY DEF Follows
<1>2. L[m] \in SUBSET K /\ srcs[m] \in S /\ u \in Table(K, S)
  BY <1>1 DEF Written
<1>3. /\ v \in Table(K, S)
      /\ DOMAIN v = DOMAIN u \cup L[m]
      /\ \A key \in L[m] : v[key] = [active |-> TRUE, src |-> srcs[m]]
      /\ \A key \in (DOMAIN u) \ L[m] :
            v[key] = IF u[key].src = srcs[m] THEN [active |-> FALSE, src |-> srcs[m]] ELSE u[key]
  <2>1. IsUpserted(v, u, L[m], srcs[m], K, S)
    BY <1>2, UpsertedIs
  <2> HIDE DEF v
  <2> QED
    BY <2>1 DEF IsUpserted
<1> HIDE DEF v
<1>4. \A i \in 1..k : i \in 1..N /\ i + 1 \in Nat /\ m \in (i + 1)..m
                      /\ \A j \in (i + 1)..k : j \in (i + 1)..m
  BY <1>1
<1>5. \A i \in 1..k : srcs[i] # srcs[m]
  BY <1>1, <1>4 DEF Distinct
<1>6. (m + 1)..m = {}
  BY <1>1
<1>7. \A key \in K : key \in DOMAIN v <=> key \in DOMAIN t \/ \E i \in 1..m : key \in L[i]
  BY <1>1, <1>3 DEF Written
<1>8. ASSUME NEW key \in K, NEW i \in 1..m, key \in L[i], \A j \in (i + 1)..m : key \notin L[j]
      PROVE  v[key] = [active |-> TRUE, src |-> srcs[i]]
  <2>1. CASE i = m
    BY <1>3, <1>8, <2>1
  <2>2. CASE i # m
    <3>1. i \in 1..k
      BY <1>1, <2>2
    <3>2. key \notin L[m] /\ \A j \in (i + 1)..k : key \notin L[j]
      BY <1>4, <1>8, <3>1
    <3>3. u[key] = [active |-> TRUE, src |-> srcs[i]] /\ key \in DOMAIN u
      BY <1>8, <3>1, <3>2 DEF Written
    <3>4. u[key].src # srcs[m]
      BY <1>5, <3>1, <3>3
    <3> QED
      BY <1>3, <3>2, <3>3, <3>4
  <2> QED
    BY <2>1, <2>2
<1>9. ASSUME NEW key \in DOMAIN t, \A i \in 1..m : key \notin L[i]
      PROVE  /\ (\A i \in 1..m : srcs[i] # t[key].src) => v[key] = t[key]
             /\ (\E i \in 1..m : srcs[i] = t[key].src) =>
                    v[key] = [active |-> FALSE, src |-> t[key].src]
  <2>1. key \in K
    BY DEF Table
  <2>2. /\ key \in (DOMAIN u) \ L[m]
        /\ \A i \in 1..k : key \notin L[i]
    BY <1>1, <1>9, <2>1 DEF Written
  <2>3. /\ (\A i \in 1..k : srcs[i] # t[key].src) => u[key] = t[key]
        /\ (\E i \in 1..k : srcs[i] = t[key].src) =>
                u[key] = [active |-> FALSE, src |-> t[key].src]
    BY <2>2 DEF Written
  <2>4. v[key] = IF u[key].src = srcs[m] THEN [active |-> FALSE, src |-> srcs[m]] ELSE u[key]
    BY <1>3, <2>2
  <2>5. CASE \E i \in 1..k : srcs[i] = t[key].src
    BY <1>1, <1>5, <2>3, <2>4, <2>5
  <2>6. CASE \A i \in 1..k : srcs[i] # t[key].src
    BY <1>1, <2>3, <2>4, <2>6
  <2> QED
    BY <2>5, <2>6
<1> QED
  BY <1>3, <1>7, <1>8, <1>9 DEF Written, v

LEMMA WrittenNone ==
    ASSUME NEW K, NEW S, NEW t \in Table(K, S), NEW L, NEW srcs
    PROVE  Written(t, t, L, srcs, 0, K, S)
<1>1. 1..0 = {}
  OBVIOUS
<1> QED
  BY <1>1 DEF Written

\* The rows that n catalogs made of the rows before.
Sources(catalogs) == [i \in 1..Len(catalogs) |-> catalogs[i].source]
SourceKeys(catalogs) == [i \in 1..Len(catalogs) |-> {catalogs[i].source}]
EntityKeys(catalogs) == [i \in 1..Len(catalogs) |-> catalogs[i].entities]
RelationKeys(catalogs) == [i \in 1..Len(catalogs) |-> catalogs[i].relations]

RowsWritten(u, t, catalogs, n, S, E, R) ==
    /\ u \in RowSets(S, E, R)
    /\ Written(u.source, t.source, SourceKeys(catalogs), Sources(catalogs), n, S, S)
    /\ Written(u.entity, t.entity, EntityKeys(catalogs), Sources(catalogs), n, E, S)
    /\ Written(u.relation, t.relation, RelationKeys(catalogs), Sources(catalogs), n, R, S)

LEMMA SyncedRows ==
    ASSUME NEW S, NEW E, NEW R, NEW rows \in RowSets(S, E, R),
           NEW catalogs \in Seq(Catalogs(S, E, R)), Distinct(Sources(catalogs), Len(catalogs)),
           ~Synced(rows, catalogs).failed
    PROVE  RowsWritten(Synced(rows, catalogs).rows, rows, catalogs, Len(catalogs), S, E, R)
<1> DEFINE n == Len(catalogs)
           srcs == Sources(catalogs)
           LS == SourceKeys(catalogs)
           LE == EntityKeys(catalogs)
           LR == RelationKeys(catalogs)
<1>1. PICK p : SyncRun(p, S, E, R, rows, catalogs)
  BY SyncFold
<1>2. /\ p \in [0..n -> SyncStates(S, E, R)]
      /\ p[0] = [failed |-> FALSE, rows |-> rows]
      /\ \A k \in 1..n : p[k] = Graph!SyncCatalog(p[k - 1], catalogs[k])
      /\ Synced(rows, catalogs) = p[n]
  BY <1>1 DEF SyncRun
<1>3. n \in Nat /\ \A k \in 1..n : catalogs[k] \in Catalogs(S, E, R)
  OBVIOUS
<1>4. \A k \in 1..n : /\ catalogs[k].source \in S /\ catalogs[k].entities \in SUBSET E
                      /\ catalogs[k].relations \in SUBSET R
  BY <1>3 DEF Catalogs
<1>5. /\ srcs \in [1..n -> S] /\ LS \in [1..n -> SUBSET S] /\ LE \in [1..n -> SUBSET E]
      /\ LR \in [1..n -> SUBSET R]
  BY <1>4 DEF Sources, SourceKeys, EntityKeys, RelationKeys
<1>6. \A k \in 1..n : /\ srcs[k] = catalogs[k].source /\ LS[k] = {catalogs[k].source}
                      /\ LE[k] = catalogs[k].entities /\ LR[k] = catalogs[k].relations
  BY DEF Sources, SourceKeys, EntityKeys, RelationKeys
<1>7. /\ rows.source \in Table(S, S) /\ rows.entity \in Table(E, S)
      /\ rows.relation \in Table(R, S)
  BY DEF RowSets
<1> HIDE DEF n, srcs, LS, LE, LR
<1> DEFINE Good(k) == ~p[k].failed =>
                /\ p[k].rows \in RowSets(S, E, R)
                /\ Written(p[k].rows.source, rows.source, LS, srcs, k, S, S)
                /\ Written(p[k].rows.entity, rows.entity, LE, srcs, k, E, S)
                /\ Written(p[k].rows.relation, rows.relation, LR, srcs, k, R, S)
           P == {k \in 0..n : Good(k)}
<1>8. 0 \in P
  BY <1>2, <1>3, <1>7, WrittenNone
<1>9. ASSUME NEW k \in 0..(n - 1), k \in P
      PROVE  k + 1 \in P
  <2> DEFINE m == k + 1
             c == catalogs[m]
             s == p[k]
             e == p[m]
  <2>1. m \in 1..n /\ m \in 0..n /\ k \in 0..n /\ m - 1 = k /\ Follows(m, k)
    BY <1>3 DEF Follows
  <2> HIDE DEF m
  <2>2. s \in SyncStates(S, E, R) /\ e \in SyncStates(S, E, R) /\ e = Graph!SyncCatalog(s, c)
    BY <1>2, <2>1
  <2>3. SUFFICES ASSUME ~e.failed
                 PROVE  Good(m)
    BY <2>1 DEF m
  <2> HIDE DEF s, e, c
  <2> DEFINE a == Graph!Upserted(s.rows.source, {c.source}, c.source)
             b == Graph!Upserted(s.rows.entity, c.entities, c.source)
             d == Graph!Upserted(s.rows.relation, c.relations, c.source)
  <2>4. Wrote(e, s, c)
    BY <2>2, SyncWrites
  <2>5. /\ ~s.failed
        /\ e.rows.source = a /\ e.rows.entity = b /\ e.rows.relation = d
    BY <2>3, <2>4 DEF Wrote
  <2>6. e.rows \in RowSets(S, E, R)
    BY <2>2 DEF SyncStates
  <2>7. /\ Written(s.rows.source, rows.source, LS, srcs, k, S, S)
        /\ Written(s.rows.entity, rows.entity, LE, srcs, k, E, S)
        /\ Written(s.rows.relation, rows.relation, LR, srcs, k, R, S)
    BY <1>9, <2>5 DEF s
  <2>8. /\ {c.source} = LS[m] /\ c.entities = LE[m] /\ c.relations = LR[m]
        /\ c.source = srcs[m]
    BY <1>6, <2>1 DEF c
  <2>9. Distinct(srcs, n)
    BY DEF srcs, n
  <2>10. Written(e.rows.source, rows.source, LS, srcs, m, S, S)
    <3>1. e.rows.source = Graph!Upserted(s.rows.source, LS[m], srcs[m])
      BY <2>5, <2>8
    <3>2. Written(Graph!Upserted(s.rows.source, LS[m], srcs[m]), rows.source, LS, srcs, m, S, S)
      BY <1>3, <1>5, <1>7, <2>1, <2>7, <2>9, WrittenMore
    <3> QED
      BY <3>1, <3>2
  <2>11. Written(e.rows.entity, rows.entity, LE, srcs, m, E, S)
    <3>1. e.rows.entity = Graph!Upserted(s.rows.entity, LE[m], srcs[m])
      BY <2>5, <2>8
    <3>2. Written(Graph!Upserted(s.rows.entity, LE[m], srcs[m]), rows.entity, LE, srcs, m, E, S)
      BY <1>3, <1>5, <1>7, <2>1, <2>7, <2>9, WrittenMore
    <3> QED
      BY <3>1, <3>2
  <2>12. Written(e.rows.relation, rows.relation, LR, srcs, m, R, S)
    <3>1. e.rows.relation = Graph!Upserted(s.rows.relation, LR[m], srcs[m])
      BY <2>5, <2>8
    <3>2. Written(Graph!Upserted(s.rows.relation, LR[m], srcs[m]), rows.relation, LR, srcs, m, R, S)
      BY <1>3, <1>5, <1>7, <2>1, <2>7, <2>9, WrittenMore
    <3> QED
      BY <3>1, <3>2
  <2> QED
    BY <2>6, <2>10, <2>11, <2>12 DEF e
<1>10. \A k \in 0..n : k \in P
  BY <1>3, <1>8, <1>9, CountInduction
<1>11. Good(n)
  BY <1>3, <1>10
<1> QED
  BY <1>2, <1>11 DEF RowsWritten, n, srcs, LS, LE, LR

\* Whether a key is active after n catalogs, and whose it is.
Inherits(t, key, srcs, n) ==
    Graph!IsActive(t, key) /\ \A i \in 1..n : srcs[i] # t[key].src

Taken(u, t, L, srcs, n, key) ==
    /\ Graph!IsActive(u, key) <=> (\E i \in 1..n : key \in L[i]) \/ Inherits(t, key, srcs, n)
    /\ (\E i \in 1..n : key \in L[i]) => \E i \in 1..n : key \in L[i] /\ u[key].src = srcs[i]
    /\ key \in DOMAIN u /\ (\A i \in 1..n : key \notin L[i]) =>
        key \in DOMAIN t /\ u[key].src = t[key].src

LEMMA WrittenTaken ==
    ASSUME NEW K, NEW S, NEW t \in Table(K, S), NEW n \in Nat, NEW L, NEW srcs,
           NEW u, Written(u, t, L, srcs, n, K, S), NEW key \in K
    PROVE  Taken(u, t, L, srcs, n, key)
<1>1. CASE \E i \in 1..n : key \in L[i]
  <2> DEFINE s == {i \in 1..n : key \in L[i]}
  <2>1. s \in SUBSET (1..n) /\ s # {}
    BY <1>1
  <2>2. Max(s) \in s /\ \A x \in s : x <= Max(s)
    <3> HIDE DEF s
    <3> QED
      BY <2>1, MaxIn
  <2>3. PICK m \in 1..n : m = Max(s)
    BY <2>2
  <2>4. key \in L[m] /\ \A x \in 1..n : key \in L[x] => x <= m
    BY <2>2, <2>3
  <2>5. \A j \in (m + 1)..n : key \notin L[j]
    BY <2>4
  <2>6. u[key] = [active |-> TRUE, src |-> srcs[m]] /\ key \in DOMAIN u
    BY <2>4, <2>5 DEF Written
  <2>7. u[key].active /\ u[key].src = srcs[m]
    BY <2>6
  <2> QED
    BY <1>1, <2>4, <2>6, <2>7 DEF Taken, Graph!IsActive
<1>2. CASE \A i \in 1..n : key \notin L[i]
  <2>1. key \in DOMAIN u <=> key \in DOMAIN t
    BY <1>2 DEF Written
  <2>2. CASE key \notin DOMAIN t
    BY <1>2, <2>1, <2>2 DEF Taken, Inherits, Graph!IsActive
  <2>3. CASE key \in DOMAIN t
    <3>1. /\ (\A i \in 1..n : srcs[i] # t[key].src) => u[key] = t[key]
          /\ (\E i \in 1..n : srcs[i] = t[key].src) =>
                u[key] = [active |-> FALSE, src |-> t[key].src]
      BY <1>2, <2>3 DEF Written
    <3>2. CASE \A i \in 1..n : srcs[i] # t[key].src
      BY <1>2, <2>1, <2>3, <3>1, <3>2 DEF Taken, Inherits, Graph!IsActive
    <3>3. CASE \E i \in 1..n : srcs[i] = t[key].src
      BY <1>2, <2>1, <2>3, <3>1, <3>3 DEF Taken, Inherits, Graph!IsActive
    <3> QED
      BY <3>2, <3>3
  <2> QED
    BY <2>2, <2>3
<1> QED
  BY <1>1, <1>2

\* What SyncBuiltin makes of the fold: all or nothing, and the retired
\* source switched off.
SwitchedOff(u, t) ==
    /\ DOMAIN u = DOMAIN t
    /\ \A key \in DOMAIN t :
        /\ u[key].active <=> t[key].active /\ key # "old"
        /\ u[key].src = t[key].src

Built(out, s, rows) ==
    /\ out.failed = s.failed
    /\ s.failed => out.rows = rows
    /\ ~s.failed => /\ out.rows.entity = s.rows.entity
                    /\ out.rows.relation = s.rows.relation
                    /\ SwitchedOff(out.rows.source, s.rows.source)


LEMMA SyncBuilds ==
    ASSUME NEW S, NEW E, NEW R, NEW rows, NEW catalogs,
           Synced(rows, catalogs) \in SyncStates(S, E, R)
    PROVE  Built(Graph!SyncBuiltin(rows, catalogs), Synced(rows, catalogs), rows)
<1> DEFINE s == Synced(rows, catalogs)
           out == Graph!SyncBuiltin(rows, catalogs)
           t == s.rows.source
           u == [key \in DOMAIN t |-> [t[key] EXCEPT !.active = @ /\ key \notin {"old"}]]
<1>1. out = IF s.failed
            THEN [failed |-> TRUE, rows |-> rows]
            ELSE [failed |-> FALSE, rows |-> [s.rows EXCEPT !.source = u]]
  BY DEF Graph!SyncBuiltin, Synced
<1> HIDE DEF out
<1>2. s.failed \in BOOLEAN /\ s.rows \in RowSets(S, E, R)
  BY DEF SyncStates
<1> HIDE DEF s
<1>3. t \in Table(S, S)
  BY <1>2 DEF RowSets
<1> HIDE DEF t
<1>4. PICK D \in SUBSET S : t \in [D -> [active : BOOLEAN, src : S]]
  BY <1>3 DEF Table
<1>5. SwitchedOff(u, t)
  BY <1>4 DEF SwitchedOff
<1> HIDE DEF u
<1>6. CASE s.failed
  BY <1>1, <1>2, <1>6 DEF Built, s, out
<1>7. CASE ~s.failed
  <2>1. out = [failed |-> FALSE, rows |-> [s.rows EXCEPT !.source = u]]
    BY <1>1, <1>7
  <2>2. /\ out.failed = FALSE /\ out.rows.entity = s.rows.entity
        /\ out.rows.relation = s.rows.relation /\ out.rows.source = u
    BY <1>2, <2>1 DEF RowSets
  <2>3. out.failed = s.failed
    BY <1>2, <1>7, <2>2
  <2> QED
    BY <1>5, <1>7, <2>2, <2>3 DEF Built, s, out, t
<1> QED
  BY <1>6, <1>7

LEMMA SyncedType ==
    ASSUME NEW S, NEW E, NEW R, NEW rows \in RowSets(S, E, R),
           NEW catalogs \in Seq(Catalogs(S, E, R))
    PROVE  Synced(rows, catalogs) \in SyncStates(S, E, R)
<1>1. PICK p : SyncRun(p, S, E, R, rows, catalogs)
  BY SyncFold
<1>2. Len(catalogs) \in Nat
  OBVIOUS
<1>3. Len(catalogs) \in 0..Len(catalogs)
  BY <1>2
<1> QED
  BY <1>1, <1>3 DEF SyncRun

LEMMA SyncBuiltinType ==
    ASSUME NEW S, NEW E, NEW R, NEW rows \in RowSets(S, E, R),
           NEW catalogs \in Seq(Catalogs(S, E, R))
    PROVE  Graph!SyncBuiltin(rows, catalogs).rows \in RowSets(S, E, R)
<1> DEFINE s == Synced(rows, catalogs)
           out == Graph!SyncBuiltin(rows, catalogs)
           t == s.rows.source
           u == [key \in DOMAIN t |-> [t[key] EXCEPT !.active = @ /\ key \notin {"old"}]]
<1>1. out = IF s.failed
            THEN [failed |-> TRUE, rows |-> rows]
            ELSE [failed |-> FALSE, rows |-> [s.rows EXCEPT !.source = u]]
  BY DEF Graph!SyncBuiltin, Synced
<1> HIDE DEF out
<1>2. s \in SyncStates(S, E, R)
  BY SyncedType
<1> HIDE DEF s
<1>3. s.rows \in RowSets(S, E, R)
  BY <1>2 DEF SyncStates
<1>4. t \in Table(S, S)
  BY <1>3 DEF RowSets
<1> HIDE DEF t
<1>5. PICK D \in SUBSET S : t \in [D -> [active : BOOLEAN, src : S]]
  BY <1>4 DEF Table
<1>6. \A key \in D : [t[key] EXCEPT !.active = @ /\ key \notin {"old"}] \in [active : BOOLEAN, src : S]
  BY <1>5
<1>7. u \in [D -> [active : BOOLEAN, src : S]]
  BY <1>5, <1>6
<1>8. u \in Table(S, S)
  BY <1>7 DEF Table
<1> HIDE DEF u
<1>9. [s.rows EXCEPT !.source = u] \in RowSets(S, E, R)
  BY <1>3, <1>8 DEF RowSets
<1>10. CASE s.failed
  BY <1>1, <1>10 DEF out
<1>11. CASE ~s.failed
  BY <1>1, <1>9, <1>11 DEF out
<1> QED
  BY <1>10, <1>11

\* A synchronisation that succeeds, key by key.
Rebuilt(new, old, catalogs, S, E, R) ==
    /\ \A r \in R : Taken(new.relation, old.relation, RelationKeys(catalogs),
                          Sources(catalogs), Len(catalogs), r)
    /\ \A e \in E : Taken(new.entity, old.entity, EntityKeys(catalogs),
                          Sources(catalogs), Len(catalogs), e)
    /\ \A key \in S : Graph!IsActive(new.source, key) <=>
        /\ key # "old"
        /\ \/ \E i \in 1..Len(catalogs) : catalogs[i].source = key
           \/ Inherits(old.source, key, Sources(catalogs), Len(catalogs))

LEMMA SyncRebuilds ==
    ASSUME NEW S, NEW E, NEW R, NEW rows \in RowSets(S, E, R),
           NEW catalogs \in Seq(Catalogs(S, E, R)), Distinct(Sources(catalogs), Len(catalogs)),
           ~Graph!SyncBuiltin(rows, catalogs).failed
    PROVE  Rebuilt(Graph!SyncBuiltin(rows, catalogs).rows, rows, catalogs, S, E, R)
<1> DEFINE s == Synced(rows, catalogs)
           out == Graph!SyncBuiltin(rows, catalogs)
           n == Len(catalogs)
           srcs == Sources(catalogs)
<1>1. Built(out, s, rows)
  BY SyncedType, SyncBuilds
<1>2. ~s.failed /\ ~out.failed
  BY <1>1 DEF out, Built
<1>3. RowsWritten(s.rows, rows, catalogs, n, S, E, R)
  BY <1>2, SyncedRows
<1> HIDE DEF s, out
<1>4. /\ out.rows.entity = s.rows.entity /\ out.rows.relation = s.rows.relation
      /\ SwitchedOff(out.rows.source, s.rows.source)
  BY <1>1, <1>2 DEF Built
<1>5. n \in Nat /\ rows.source \in Table(S, S) /\ rows.entity \in Table(E, S)
      /\ rows.relation \in Table(R, S)
  BY DEF RowSets
<1>6. \A r \in R : Taken(out.rows.relation, rows.relation, RelationKeys(catalogs), srcs, n, r)
  BY <1>3, <1>4, <1>5, WrittenTaken DEF RowsWritten
<1>7. \A e \in E : Taken(out.rows.entity, rows.entity, EntityKeys(catalogs), srcs, n, e)
  BY <1>3, <1>4, <1>5, WrittenTaken DEF RowsWritten
<1>8. ASSUME NEW key \in S
      PROVE  Graph!IsActive(out.rows.source, key) <=>
                /\ key # "old"
                /\ \/ \E i \in 1..n : catalogs[i].source = key
                   \/ Inherits(rows.source, key, srcs, n)
  <2>1. Written(s.rows.source, rows.source, SourceKeys(catalogs), srcs, n, S, S)
    BY <1>3 DEF RowsWritten
  <2>2. \A i \in 1..n : SourceKeys(catalogs)[i] = {catalogs[i].source}
    BY DEF SourceKeys
  <2> HIDE DEF n, srcs
  <2>3. Taken(s.rows.source, rows.source, SourceKeys(catalogs), srcs, n, key)
    BY <1>5, <2>1, WrittenTaken
  <2>4. Graph!IsActive(s.rows.source, key) <=>
            (\E i \in 1..n : key \in SourceKeys(catalogs)[i]) \/ Inherits(rows.source, key, srcs, n)
    BY <2>3 DEF Taken
  <2>5. Graph!IsActive(out.rows.source, key) <=> Graph!IsActive(s.rows.source, key) /\ key # "old"
    BY <1>4 DEF SwitchedOff, Graph!IsActive
  <2> QED
    BY <2>2, <2>4, <2>5
<1> QED
  BY <1>6, <1>7, <1>8 DEF Rebuilt, out

\* A release takes over: when its catalogs, each of another source, are
\* synchronised, a relation or an entity is active just if one of them lists
\* it or it was active as some other source's; a retired source is not; and
\* if one catalog fails, nothing changes (sync_builtin_knowledge, in one
\* transaction).
THEOREM ReleasesTakeOver ==
    ASSUME NEW S, NEW E, NEW R, NEW rows \in RowSets(S, E, R),
           NEW catalogs \in Seq(Catalogs(S, E, R)), Distinct(Sources(catalogs), Len(catalogs)),
           NEW r \in R, NEW e \in E
    PROVE  LET out == Graph!SyncBuiltin(rows, catalogs)
               srcs == Sources(catalogs)
               n == Len(catalogs)
           IN  /\ out.failed => out.rows = rows
               /\ ~out.failed =>
                    /\ Graph!IsActive(out.rows.relation, r) <=>
                        \/ \E i \in 1..n : r \in catalogs[i].relations
                        \/ Inherits(rows.relation, r, srcs, n)
                    /\ Graph!IsActive(out.rows.entity, e) <=>
                        \/ \E i \in 1..n : e \in catalogs[i].entities
                        \/ Inherits(rows.entity, e, srcs, n)
                    /\ ~Graph!IsActive(out.rows.source, "old")
<1> DEFINE out == Graph!SyncBuiltin(rows, catalogs)
           n == Len(catalogs)
           srcs == Sources(catalogs)
<1>1. out.failed => out.rows = rows
  BY SyncedType, SyncBuilds DEF Built
<1>2. ASSUME ~out.failed
      PROVE  /\ Graph!IsActive(out.rows.relation, r) <=>
                    \/ \E i \in 1..n : r \in catalogs[i].relations
                    \/ Inherits(rows.relation, r, srcs, n)
             /\ Graph!IsActive(out.rows.entity, e) <=>
                    \/ \E i \in 1..n : e \in catalogs[i].entities
                    \/ Inherits(rows.entity, e, srcs, n)
             /\ ~Graph!IsActive(out.rows.source, "old")
  <2>1. Rebuilt(out.rows, rows, catalogs, S, E, R)
    BY <1>2, SyncRebuilds
  <2>2. \A i \in 1..n : /\ RelationKeys(catalogs)[i] = catalogs[i].relations
                        /\ EntityKeys(catalogs)[i] = catalogs[i].entities
    BY DEF RelationKeys, EntityKeys
  <2>3. out.rows \in RowSets(S, E, R)
    BY SyncBuiltinType
  <2> HIDE DEF out
  <2>4. /\ Taken(out.rows.relation, rows.relation, RelationKeys(catalogs), srcs, n, r)
        /\ Taken(out.rows.entity, rows.entity, EntityKeys(catalogs), srcs, n, e)
    BY <2>1 DEF Rebuilt
  <2>5. ~Graph!IsActive(out.rows.source, "old")
    BY <2>1, <2>3 DEF Rebuilt, RowSets, Table, Graph!IsActive
  <2> HIDE DEF n, srcs
  <2> QED
    BY <2>2, <2>4, <2>5 DEF Taken
<1> QED
  BY <1>1, <1>2

-----------------------------------------------------------------------------
(* The neighbourhood of the named entities.                                *)

LEMMA LastOf ==
    ASSUME NEW S, IsFiniteSet(S), S # {}, NEW place, \A r \in S : place[r] \in Int
    PROVE  \E m \in S : \A r \in S : place[r] <= place[m]
<1> DEFINE P == {T \in SUBSET S : T # {} => \E m \in T : \A r \in T : place[r] <= place[m]}
<1>1. ASSUME NEW T \in SUBSET S, \A U \in SUBSET T : U # T => U \in P
      PROVE  T \in P
  <2> SUFFICES ASSUME NEW x \in T
               PROVE  \E m \in T : \A r \in T : place[r] <= place[m]
    OBVIOUS
  <2> DEFINE U == T \ {x}
  <2>1. U \in P /\ \A r \in T : r = x \/ r \in U
    BY <1>1
  <2>2. CASE U = {}
    BY <2>1, <2>2
  <2>3. CASE U # {}
    <3>1. PICK m \in U : \A r \in U : place[r] <= place[m]
      BY <2>1, <2>3
    <3> QED
      BY <2>1, <3>1
  <2> QED
    BY <2>2, <2>3
<1>2. S \in P
  <2> HIDE DEF P
  <2> QED
    BY <1>1, SetInduction, ZenonT(60)
<1> QED
  BY <1>2

LEMMA FirstOf ==
    ASSUME NEW S, IsFiniteSet(S), S # {}, NEW place, \A r \in S : place[r] \in Int
    PROVE  \E m \in S : \A r \in S : place[m] <= place[r]
<1> DEFINE back == [r \in S |-> 0 - place[r]]
<1>1. \A r \in S : back[r] \in Int /\ back[r] = 0 - place[r]
  OBVIOUS
<1> HIDE DEF back
<1>2. PICK m \in S : \A r \in S : back[r] <= back[m]
  BY <1>1, LastOf
<1> QED
  BY <1>1, <1>2

LEMMA ForemostIs ==
    ASSUME NEW S, NEW n, NEW place
    PROVE  Graph!Foremost(S, n, place) =
             {r \in S : Cardinality({q \in S : place[q] <= place[r]}) <= n}
BY DEF Graph!Foremost, Graph!Cardinality, Cardinality

\* The first n are at most n, and all of them or n.
LEMMA ForemostAll ==
    ASSUME NEW S, IsFiniteSet(S), NEW n \in Int, Cardinality(S) <= n, NEW place
    PROVE  Graph!Foremost(S, n, place) = S
<1>1. ASSUME NEW r \in S
      PROVE  Cardinality({q \in S : place[q] <= place[r]}) <= n
  <2> DEFINE T == {q \in S : place[q] <= place[r]}
  <2>1. IsFiniteSet(T) /\ Cardinality(T) <= Cardinality(S)
    BY FS_Subset
  <2>2. Cardinality(T) \in Nat /\ Cardinality(S) \in Nat
    BY <2>1, FS_CardinalityType
  <2> HIDE DEF T
  <2>3. Cardinality(T) <= n
    BY <2>1, <2>2
  <2> QED
    BY <2>3 DEF T
<1> QED
  BY <1>1, ForemostIs

LEMMA ForemostSome ==
    ASSUME NEW S, IsFiniteSet(S), NEW n \in Nat, NEW place,
           \A r \in S : place[r] \in Int,
           \A q, r \in S : place[q] = place[r] => q = r
    PROVE  LET first == Graph!Foremost(S, n, place)
           IN  /\ Cardinality(first) <= n
               /\ first = S \/ Cardinality(first) = n
<1> DEFINE F == Graph!Foremost(S, n, place)
           upto(r) == {q \in S : place[q] <= place[r]}
<1>1. F = {r \in S : Cardinality(upto(r)) <= n}
  BY ForemostIs
<1> HIDE DEF F
<1>2. F \subseteq S /\ IsFiniteSet(F) /\ Cardinality(F) \in Nat
  BY <1>1, FS_Subset, FS_CardinalityType
<1>3. \A r \in S : IsFiniteSet(upto(r)) /\ Cardinality(upto(r)) \in Nat
  BY FS_Subset, FS_CardinalityType
<1>4. Cardinality(F) <= n
  <2>1. CASE F = {}
    BY <2>1, FS_EmptySet
  <2>2. CASE F # {}
    <3>1. PICK m \in F : \A r \in F : place[r] <= place[m]
      BY <1>2, <2>2, LastOf
    <3>2. F \in SUBSET upto(m) /\ m \in S
      BY <1>2, <3>1
    <3>3. Cardinality(F) <= Cardinality(upto(m)) /\ Cardinality(upto(m)) <= n
      BY <1>1, <1>3, <3>2, FS_Subset
    <3> HIDE DEF upto
    <3> QED
      BY <1>2, <1>3, <3>2, <3>3
  <2> QED
    BY <2>1, <2>2
<1>5. ASSUME F # S
      PROVE  Cardinality(F) = n
  <2> DEFINE R == S \ F
  <2>1. IsFiniteSet(R) /\ R # {} /\ R \subseteq S
    BY <1>2, <1>5, FS_Subset
  <2>2. PICK m \in R : \A r \in R : place[m] <= place[r]
    BY <2>1, FirstOf
  <2>3. ASSUME NEW q \in upto(m)
        PROVE  q \in F \cup {m}
    <3>1. q \in S /\ place[q] <= place[m] /\ m \in S
      OBVIOUS
    <3>2. CASE q \in R
      BY <2>2, <3>1, <3>2
    <3> QED
      BY <3>1, <3>2
  <2>4. /\ IsFiniteSet(F \cup {m})
        /\ Cardinality(F \cup {m}) = Cardinality(F) + 1
    BY <1>2, FS_AddElement
  <2>5. Cardinality(upto(m)) <= Cardinality(F \cup {m})
    <3> DEFINE G == F \cup {m}
               V == upto(m)
    <3>1. V \in SUBSET G /\ IsFiniteSet(G)
      BY <2>3, <2>4
    <3> HIDE DEF G, V
    <3>2. Cardinality(V) <= Cardinality(G)
      BY <3>1, FS_Subset
    <3> QED
      BY <3>2 DEF G, V
  <2>6. ~(Cardinality(upto(m)) <= n) /\ m \in S
    BY <1>1
  <2> HIDE DEF upto, R
  <2> QED
    BY <1>2, <1>3, <1>4, <2>4, <2>5, <2>6
<1> QED
  BY <1>4, <1>5 DEF F

\* The two hops of a search: those that touch a seed, then the rest.
Rest(relations, seeds, once) ==
    Near(relations, (UNION {Graph!Ends(r) : r \in once}) \ seeds) \ once

LEMMA TwoHops ==
    ASSUME NEW seeds, NEW relations, IsFiniteSet(relations), NEW place
    PROVE  LET once == Graph!Foremost(Near(relations, seeds), MaxRelations, place)
               then == Graph!Foremost(Rest(relations, seeds, once),
                                      MaxRelations - Cardinality(once), place)
           IN  /\ Graph!Expanded(seeds, relations, place) = once \cup then
               /\ once \subseteq Near(relations, seeds)
               /\ Rest(relations, seeds, once) \subseteq Around(relations, seeds)
               /\ Near(relations, seeds) \subseteq Around(relations, seeds)
               /\ then \subseteq Rest(relations, seeds, once)
               /\ once = Near(relations, seeds) =>
                    Around(relations, seeds) = once \cup Rest(relations, seeds, once)
               /\ Around(relations, seeds) \subseteq relations
<1> DEFINE near == Near(relations, seeds)
           around == Around(relations, seeds)
           room == MaxRelations - Cardinality({})
           once == Graph!Foremost(near, MaxRelations, place)
           rest == Rest(relations, seeds, once)
           then == Graph!Foremost(rest, MaxRelations - Cardinality(once), place)
<1>1. room = MaxRelations /\ near \ {} = near
  BY FS_EmptySet, SearchAssumption
<1>2. Graph!Expanded(seeds, relations, place) = once \cup then
  <2>1. {} \cup Graph!Foremost(near \ {}, room, place) = once
    BY <1>1
  <2> DEFINE touching(f) == {r \in relations : Graph!Ends(r) \cap f # {}}
             more(selected, f) ==
                selected \cup Graph!Foremost(touching(f) \ selected,
                                MaxRelations - Cardinality(selected), place)
  <2>2. \A f : touching(f) = Near(relations, f)
    BY DEF Near
  <2>3. more({}, seeds) = once
    BY <2>1, <2>2
  <2>4. Graph!Expanded(seeds, relations, place) =
          more(more({}, seeds), (UNION {Graph!Ends(r) : r \in more({}, seeds)}) \ seeds)
    BY DEF Graph!Expanded, Graph!Cardinality, Cardinality
  <2> HIDE DEF once
  <2>5. more(once, (UNION {Graph!Ends(r) : r \in once}) \ seeds) = once \cup then
    BY <2>2 DEF Rest
  <2> QED
    BY <2>3, <2>4, <2>5
<1>3. once \subseteq near /\ then \subseteq rest
  BY DEF Graph!Foremost
<1>4. /\ near = {r \in relations : Graph!Ends(r) \cap seeds # {}}
      /\ \A r \in relations : r \in around <=>
            \/ Graph!Ends(r) \cap seeds # {}
            \/ \E q \in near : Graph!Ends(r) \cap Graph!Ends(q) # {}
      /\ around \subseteq relations
  BY DEF Near, Around
<1> HIDE DEF once
<1>5. /\ rest \subseteq relations
      /\ \A r \in relations : r \in rest <=>
            /\ r \notin once
            /\ \E q \in once : \E e \in Graph!Ends(q) : e \in Graph!Ends(r) /\ e \notin seeds
  BY DEF Rest, Near
<1> HIDE DEF near, around, rest, then
<1>6. near \subseteq around /\ rest \subseteq around
  BY <1>3, <1>4, <1>5
<1>7. once = near => around = once \cup rest
  <2> SUFFICES ASSUME once = near, NEW r \in around
               PROVE  r \in once \cup rest
    BY <1>6
  <2>1. CASE Graph!Ends(r) \cap seeds # {}
    BY <1>4, <2>1
  <2>2. CASE Graph!Ends(r) \cap seeds = {}
    BY <1>4, <1>5, <2>2
  <2> QED
    BY <2>1, <2>2
<1> QED
  BY <1>2, <1>3, <1>4, <1>6, <1>7 DEF near, around, once, rest, then

\* A search that may select all there is finds all there is, in any order.
LEMMA SearchComplete ==
    ASSUME NEW seeds, NEW relations, IsFiniteSet(relations), NEW place
    PROVE  LET found == Graph!Expanded(seeds, relations, place)
               near == Near(relations, seeds)
               around == Around(relations, seeds)
           IN  /\ found \subseteq around
               /\ Cardinality(near) <= MaxRelations => near \subseteq found
               /\ Cardinality(around) <= MaxRelations => found = around
<1> DEFINE found == Graph!Expanded(seeds, relations, place)
           near == Near(relations, seeds)
           around == Around(relations, seeds)
           once == Graph!Foremost(near, MaxRelations, place)
           rest == Rest(relations, seeds, once)
           then == Graph!Foremost(rest, MaxRelations - Cardinality(once), place)
<1>1. /\ found = once \cup then /\ once \subseteq near /\ rest \subseteq around
      /\ near \subseteq around /\ then \subseteq rest /\ around \subseteq relations
      /\ once = near => around = once \cup rest
  BY TwoHops
<1> HIDE DEF found, near, around
<1>2. /\ IsFiniteSet(around) /\ IsFiniteSet(near)
      /\ Cardinality(around) \in Nat /\ Cardinality(near) \in Nat
      /\ Cardinality(near) <= Cardinality(around)
  BY <1>1, FS_Subset, FS_CardinalityType
<1>3. MaxRelations \in Int
  BY SearchAssumption
<1>4. Cardinality(near) <= MaxRelations => once = near
  BY <1>2, <1>3, ForemostAll
<1>5. rest \cap once = {}
  BY DEF Rest
<1> HIDE DEF once, rest
<1>6. ASSUME Cardinality(around) <= MaxRelations
      PROVE  found = around
  <2>1. once = near
    BY <1>2, <1>3, <1>4, <1>6
  <2>2. /\ IsFiniteSet(once) /\ IsFiniteSet(rest)
        /\ Cardinality(once) \in Nat /\ Cardinality(rest) \in Nat
    BY <1>1, <1>2, <2>1, FS_Subset, FS_CardinalityType
  <2>3. Cardinality(around) = Cardinality(once) + Cardinality(rest)
    <3>1. Cardinality(once \cup rest) =
              Cardinality(once) + Cardinality(rest) - Cardinality(once \cap rest)
      BY <2>2, FS_Union
    <3>2. once \cap rest = {}
      BY <1>5
    <3>3. Cardinality(once \cap rest) = 0
      BY <3>2, FS_EmptySet
    <3>4. around = once \cup rest
      BY <1>1, <2>1
    <3> QED
      BY <2>2, <3>1, <3>3, <3>4
  <2>4. /\ Cardinality(rest) <= MaxRelations - Cardinality(once)
        /\ MaxRelations - Cardinality(once) \in Int
    BY <1>3, <1>6, <2>2, <2>3
  <2>5. then = rest
    BY <2>2, <2>4, ForemostAll
  <2> QED
    BY <1>1, <2>1, <2>5
<1> HIDE DEF then
<1>7. found \subseteq around
  BY <1>1
<1> QED
  BY <1>1, <1>4, <1>6, <1>7 DEF found, near, around

\* A search of two hops, among any relations with any ids, selects only what
\* touches a seed or is one step further, and no more than its cap; it
\* leaves something out only if it has selected as many as the cap, and
\* nothing that touches a seed for the sake of anything further
\* (_expanded_relation_ids).
THEOREM SearchFindsTheNear ==
    ASSUME NEW seeds, NEW relations, IsFiniteSet(relations), NEW place,
           \A r \in relations : place[r] \in Int,
           \A q, r \in relations : place[q] = place[r] => q = r
    PROVE  LET found == Graph!Expanded(seeds, relations, place)
               near == Near(relations, seeds)
               around == Around(relations, seeds)
           IN  /\ found \subseteq around
               /\ Cardinality(found) <= MaxRelations
               /\ found = around \/ Cardinality(found) = MaxRelations
               /\ near \subseteq found \/ found \subseteq near
<1> DEFINE found == Graph!Expanded(seeds, relations, place)
           near == Near(relations, seeds)
           around == Around(relations, seeds)
           once == Graph!Foremost(near, MaxRelations, place)
           rest == Rest(relations, seeds, once)
           room == MaxRelations - Cardinality(once)
           then == Graph!Foremost(rest, room, place)
<1>1. /\ found = once \cup then /\ once \subseteq near /\ rest \subseteq around
      /\ near \subseteq around /\ then \subseteq rest /\ around \subseteq relations
      /\ once = near => around = once \cup rest
  BY TwoHops
<1> HIDE DEF found, near, around
<1>2. /\ IsFiniteSet(around) /\ IsFiniteSet(near) /\ IsFiniteSet(once)
      /\ Cardinality(once) \in Nat
  BY <1>1, FS_Subset, FS_CardinalityType
<1>3. MaxRelations \in Nat
  BY SearchAssumption
<1>4. near \subseteq relations /\ rest \subseteq relations
  BY <1>1
<1>5. Cardinality(once) <= MaxRelations /\ (once = near \/ Cardinality(once) = MaxRelations)
  <2>1. \A r \in near : place[r] \in Int
    BY <1>4
  <2>2. \A q, r \in near : place[q] = place[r] => q = r
    BY <1>4
  <2> QED
    BY <1>2, <1>3, <2>1, <2>2, ForemostSome
<1>6. once \cap rest = {}
  BY DEF Rest
<1> HIDE DEF once, rest
<1>7. IsFiniteSet(rest) /\ IsFiniteSet(then) /\ Cardinality(then) \in Nat
  BY <1>1, <1>2, FS_Subset, FS_CardinalityType
<1>8. room \in Nat
  BY <1>2, <1>3, <1>5
<1>a. MaxRelations = Cardinality(once) + room
  BY <1>2, <1>3
<1> HIDE DEF room
<1>9. Cardinality(then) <= room /\ (then = rest \/ Cardinality(then) = room)
  <2>1. \A r \in rest : place[r] \in Int
    BY <1>4
  <2>2. \A q, r \in rest : place[q] = place[r] => q = r
    BY <1>4
  <2> QED
    BY <1>7, <1>8, <2>1, <2>2, ForemostSome
<1> HIDE DEF then
<1>10. Cardinality(found) = Cardinality(once) + Cardinality(then)
  <2>1. once \cap then = {}
    BY <1>1, <1>6
  <2>2. Cardinality(once \cup then) =
            Cardinality(once) + Cardinality(then) - Cardinality(once \cap then)
    BY <1>2, <1>7, FS_Union
  <2>3. Cardinality(once \cap then) = 0
    BY <2>1, FS_EmptySet
  <2>4. found = once \cup then
    BY <1>1
  <2> QED
    BY <1>2, <1>7, <2>2, <2>3, <2>4
<1>11. Cardinality(found) <= MaxRelations
  BY <1>2, <1>7, <1>8, <1>9, <1>10, <1>a
<1>12. CASE once = near
  <2>1. then = rest => found = around
    BY <1>1, <1>12
  <2>2. Cardinality(then) = room => Cardinality(found) = MaxRelations
    BY <1>10, <1>a
  <2>3. near \subseteq found /\ found \subseteq around
    BY <1>1, <1>12
  <2> QED
    BY <1>9, <1>11, <2>1, <2>2, <2>3 DEF found, near, around
<1>13. CASE Cardinality(once) = MaxRelations
  <2>1. Cardinality(then) = 0
    BY <1>7, <1>8, <1>9, <1>13, <1>a, <1>3
  <2>2. then = {}
    BY <1>7, <2>1, FS_EmptySet
  <2>3. found \subseteq near /\ found \subseteq around /\ Cardinality(found) = MaxRelations
    BY <1>1, <1>13, <2>2
  <2> QED
    BY <1>11, <2>3 DEF found, near, around
<1> QED
  BY <1>5, <1>12, <1>13

-----------------------------------------------------------------------------
(* The longest matches.                                                    *)

Matches == [entity : DOMAIN IdPlaces, first : Int, last : Int]

MatchStep(kept, m) ==
    IF \A k \in {k \in kept : Graph!Overlaps(k, m)} :
            Graph!SameSpan(k, m) /\ k.entity # m.entity
    THEN kept \cup {m}
    ELSE kept

MatchesKept(seq) ==
    LET step(kept, m) ==
            LET over == {k \in kept : Graph!Overlaps(k, m)}
            IN  IF \A k \in over : Graph!SameSpan(k, m) /\ k.entity # m.entity
                THEN kept \cup {m}
                ELSE kept
    IN  Graph!FoldLeft(step, {}, seq)

MatchRun(p, C, seq) ==
    /\ p \in [0..Len(seq) -> SUBSET C]
    /\ p[0] = {}
    /\ \A k \in 1..Len(seq) : p[k] = MatchStep(p[k - 1], seq[k])
    /\ MatchesKept(seq) = p[Len(seq)]

LEMMA MatchFold ==
    ASSUME NEW C, NEW seq \in Seq(C)
    PROVE  \E p : MatchRun(p, C, seq)
<1> DEFINE n == Len(seq)
           T == SUBSET C
           base == {}
           body(g) == [s \in SUBSET (1..n) |-> IF s = {} THEN base
                         ELSE MatchStep(g[s \ {Max(s)}], seq[Max(s)])]
           step == [k \in 1..n |-> [a \in T |-> MatchStep(a, seq[k])]]
           iter == CHOOSE g : g = body(g)
<1>1. n \in Nat /\ DOMAIN seq = 1..n
  OBVIOUS
<1>2. MatchesKept(seq) = iter[1..n]
  BY <1>1 DEF MatchesKept, MatchStep, Graph!FoldLeft, Graph!MapThenFoldSet, Graph!Max, Max
<1>3. base \in T /\ \A k \in 1..n, a \in T : MatchStep(a, seq[k]) \in T
  BY DEF MatchStep
<1>4. step \in Steps(n, T)
  BY <1>3 DEF Steps
<1> HIDE DEF n, T, base
<1>5. iter = body(iter)
  <2> HIDE DEF step, body
  <2>1. PICK g : g \in [SUBSET (1..n) -> T] /\ IsFold(g, n, T, base, step)
    BY <1>1, <1>3, <1>4, FoldExists
  <2>2. \A s \in SUBSET (1..n) : g[s] = body(g)[s]
    BY <2>1 DEF IsFold, step, body
  <2>3. g = body(g)
    BY <2>1, <2>2 DEF body
  <2> QED
    BY <2>3
<1> HIDE DEF iter
<1>6. Folds(iter, n, T, base, step)
  BY <1>5 DEF Folds
<1>7. PICK q : IsRun(q, n, T, base, step) /\ iter[1..n] = q[n]
  <2> HIDE DEF step
  <2> QED
    BY <1>1, <1>3, <1>4, <1>6, FoldRuns
<1>8. /\ q \in [0..n -> T] /\ q[0] = base
      /\ \A k \in 1..n : q[k] = MatchStep(q[k - 1], seq[k])
  BY <1>7 DEF IsRun
<1> QED
  BY <1>2, <1>7, <1>8 DEF n, T, base, MatchRun

\* A match another keeps out: it overlaps a longer one, or one as long that
\* begins further left.
Length(m) == m.last - m.first

Outdone(c, k) ==
    /\ Graph!Overlaps(k, c)
    /\ \/ Length(k) > Length(c)
       \/ Length(k) = Length(c) /\ k.first < c.first

KeptSoFar(kept, s, n) ==
    /\ \A k \in kept : \E i \in 1..n : s[i] = k
    /\ \A a, b \in kept : Graph!Overlaps(a, b) => Graph!SameSpan(a, b)
    /\ \A i \in 1..n : s[i] \in kept \/ \E k \in kept : Outdone(s[i], k)

Goings(candidates) == {p \in candidates \X candidates : Graph!GoesFirst(p[1], p[2])}

LEMMA GoingsIn ==
    ASSUME NEW candidates, NEW a \in candidates, NEW b \in candidates
    PROVE  <<a, b>> \in Goings(candidates) <=> Graph!GoesFirst(a, b)
BY DEF Goings

LEMMA GoesFirstIs ==
    ASSUME NEW a, NEW b
    PROVE  Graph!GoesFirst(a, b) <=>
            \/ Length(a) > Length(b)
            \/ /\ Length(a) = Length(b)
               /\ \/ a.first < b.first
                  \/ a.first = b.first /\ IdPlaces[a.entity] < IdPlaces[b.entity]
BY DEF Graph!GoesFirst, Length

LEMMA IdPlacesApart ==
    /\ \A e \in DOMAIN IdPlaces : IdPlaces[e] \in Int
    /\ \A e, f \in DOMAIN IdPlaces : IdPlaces[e] = IdPlaces[f] => e = f
<1>1. DOMAIN IdPlaces = {"hard", "hardLotus", "hero", "jobs", "lotus", "warrior"}
  BY DEF IdPlaces
<1>2. /\ IdPlaces["hard"] = 1 /\ IdPlaces["hardLotus"] = 2 /\ IdPlaces["hero"] = 3
      /\ IdPlaces["jobs"] = 4 /\ IdPlaces["lotus"] = 5 /\ IdPlaces["warrior"] = 6
  BY DEF IdPlaces
<1> QED
  BY <1>1, <1>2

LEMMA GoingsOrder ==
    ASSUME NEW candidates \in SUBSET Matches
    PROVE  IsOrder(candidates, Goings(candidates))
<1> DEFINE R == Goings(candidates)
<1>1. \A m \in candidates : /\ m.first \in Int /\ m.last \in Int /\ Length(m) \in Int
                            /\ m.entity \in DOMAIN IdPlaces /\ IdPlaces[m.entity] \in Int
  BY IdPlacesApart DEF Matches, Length
<1>2. \A a, b \in candidates : <<a, b>> \in R <=>
            \/ Length(a) > Length(b)
            \/ /\ Length(a) = Length(b)
               /\ \/ a.first < b.first
                  \/ a.first = b.first /\ IdPlaces[a.entity] < IdPlaces[b.entity]
  BY GoingsIn, GoesFirstIs
<1> HIDE DEF R
<1>3. \A a \in candidates : <<a, a>> \notin R
  BY <1>1, <1>2
<1>4. ASSUME NEW a \in candidates, NEW b \in candidates, NEW c \in candidates,
             <<a, b>> \in R, <<b, c>> \in R
      PROVE  <<a, c>> \in R
  BY <1>1, <1>2, <1>4
<1>5. ASSUME NEW a \in candidates, NEW b \in candidates, <<a, b>> \notin R, <<b, a>> \notin R
      PROVE  a = b
  BY <1>1, <1>2, <1>5, IdPlacesApart DEF Length, Matches
<1> QED
  BY <1>3, <1>4, <1>5 DEF IsOrder, R

LEMMA KeptMore ==
    ASSUME NEW s \in Seq(Matches), NEW n \in Nat, NEW m \in 1..Len(s), Follows(m, n),
           \A i \in 1..n : i \in 1..Len(s) /\ s[i] # s[m] /\ Graph!GoesFirst(s[i], s[m]),
           NEW kept, KeptSoFar(kept, s, n)
    PROVE  KeptSoFar(MatchStep(kept, s[m]), s, m)
<1> DEFINE c == s[m]
           e == MatchStep(kept, c)
           free == \A k \in kept : Graph!Overlaps(k, c) => Graph!SameSpan(k, c) /\ k.entity # c.entity
<1>1. (free => e = kept \cup {c}) /\ (~free => e = kept)
  BY DEF MatchStep
<1>2. /\ \A i \in 1..n : i \in 1..m
      /\ \A i \in 1..m : i \in 1..n \/ i = m
      /\ m \in 1..m
  BY DEF Follows
<1>3. /\ \A k \in kept : \E i \in 1..n : s[i] = k
      /\ \A a, b \in kept : Graph!Overlaps(a, b) => Graph!SameSpan(a, b)
      /\ \A i \in 1..n : s[i] \in kept \/ \E k \in kept : Outdone(s[i], k)
  BY DEF KeptSoFar
<1>4. c \in Matches /\ \A i \in 1..n : s[i] \in Matches
  OBVIOUS
<1> HIDE DEF e
<1>5. \A k \in kept : k \in Matches /\ Graph!GoesFirst(k, c) /\ k # c
  BY <1>3, <1>4
<1>6. CASE free
  <2>1. e = kept \cup {c}
    BY <1>1, <1>6
  <2>2. \A k \in kept : Graph!Overlaps(c, k) => Graph!SameSpan(c, k)
    BY <1>6 DEF Graph!Overlaps, Graph!SameSpan
  <2>3. Graph!SameSpan(c, c)
    BY DEF Graph!SameSpan
  <2>4. \A k \in e : \E i \in 1..m : s[i] = k
    BY <1>2, <1>3, <2>1
  <2>5. \A a, b \in e : Graph!Overlaps(a, b) => Graph!SameSpan(a, b)
    BY <1>3, <1>6, <2>1, <2>2, <2>3
  <2>6. \A i \in 1..m : s[i] \in e \/ \E k \in e : Outdone(s[i], k)
    BY <1>2, <1>3, <2>1
  <2> HIDE DEF free, c
  <2>7. KeptSoFar(e, s, m)
    BY <2>4, <2>5, <2>6 DEF KeptSoFar
  <2> QED
    BY <2>7 DEF e, c
<1>7. CASE ~free
  <2>1. e = kept
    BY <1>1, <1>7
  <2>2. PICK k \in kept : Graph!Overlaps(k, c) /\ ~(Graph!SameSpan(k, c) /\ k.entity # c.entity)
    BY <1>7
  <2>3. k \in Matches /\ Graph!GoesFirst(k, c) /\ k # c
    BY <1>5
  <2> HIDE DEF c
  <2>4. ~Graph!SameSpan(k, c)
    <3>1. SUFFICES ASSUME Graph!SameSpan(k, c)
                   PROVE  FALSE
      OBVIOUS
    <3>2. k.first = c.first /\ k.last = c.last /\ k.entity = c.entity
      BY <2>2, <3>1 DEF Graph!SameSpan
    <3>3. /\ k = [entity |-> k.entity, first |-> k.first, last |-> k.last]
          /\ c = [entity |-> c.entity, first |-> c.first, last |-> c.last]
      BY <1>4, <2>3 DEF Matches
    <3> QED
      BY <2>3, <3>2, <3>3
  <2>5. k.first \in Int /\ k.last \in Int /\ c.first \in Int /\ c.last \in Int
    BY <1>4, <2>3 DEF Matches
  <2>6. \/ Length(k) > Length(c)
        \/ /\ Length(k) = Length(c)
           /\ \/ k.first < c.first
              \/ k.first = c.first /\ IdPlaces[k.entity] < IdPlaces[c.entity]
    BY <2>3, GoesFirstIs
  <2>7. ~(Length(k) = Length(c) /\ k.first = c.first)
    BY <2>4, <2>5 DEF Graph!SameSpan, Length
  <2>8. Outdone(c, k)
    BY <2>2, <2>6, <2>7 DEF Outdone
  <2>9. \A i \in 1..m : s[i] \in kept \/ \E q \in kept : Outdone(s[i], q)
    BY <1>2, <1>3, <2>8 DEF c
  <2>10. \A q \in kept : \E i \in 1..m : s[i] = q
    BY <1>2, <1>3
  <2>11. KeptSoFar(kept, s, m)
    BY <1>3, <2>9, <2>10 DEF KeptSoFar
  <2> QED
    BY <2>1, <2>11 DEF e, c
<1> QED
  BY <1>6, <1>7

LEMMA GraphOrder ==
    ASSUME NEW S, NEW R
    PROVE  Graph!InOrder(S, R) = InOrder(S, R)
BY DEF Graph!InOrder, InOrder, Graph!Cardinality, Cardinality

\* The names found in a question do not run into each other: of two that
\* overlap both stay only if they are the same words, and a name is dropped
\* only for an overlapping one that is longer, or as long and further left
\* (select_entity_matches).
THEOREM MatchesAreLongest ==
    ASSUME NEW candidates \in SUBSET Matches, IsFiniteSet(candidates)
    PROVE  LET kept == Graph!LongestMatches(candidates)
           IN  /\ kept \subseteq candidates
               /\ \A a, b \in kept : Graph!Overlaps(a, b) => Graph!SameSpan(a, b)
               /\ \A c \in candidates \ kept : \E k \in kept : Outdone(c, k)
<1> DEFINE R == Goings(candidates)
           s == InOrder(candidates, R)
           n == Len(s)
           kept == Graph!LongestMatches(candidates)
<1>1. InLine(s, candidates, R)
  BY GoingsOrder, InOrderSorts
<1>2. kept = MatchesKept(s)
  BY GraphOrder DEF Graph!LongestMatches, MatchesKept, Goings
<1> HIDE DEF R, s, kept
<1>3. /\ s \in Seq(candidates)
      /\ \A x \in candidates : \E i \in 1..n : s[i] = x
      /\ \A i, j \in 1..n : i < j => <<s[i], s[j]>> \in R
      /\ \A i, j \in 1..n : s[i] = s[j] => i = j
  BY <1>1 DEF InLine
<1>4. s \in Seq(Matches) /\ n \in Nat /\ \A i \in 1..n : s[i] \in candidates
  BY <1>3, SeqSub
<1>5. \A i, j \in 1..n : i < j => Graph!GoesFirst(s[i], s[j])
  BY <1>3, <1>4, GoingsIn DEF R
<1>6. PICK p : MatchRun(p, Matches, s)
  BY <1>4, MatchFold
<1>7. /\ p[0] = {} /\ \A k \in 1..n : p[k] = MatchStep(p[k - 1], s[k])
      /\ kept = p[n]
  BY <1>2, <1>6 DEF MatchRun
<1> DEFINE P == {k \in 0..n : KeptSoFar(p[k], s, k)}
<1>8. 0 \in P
  BY <1>4, <1>7 DEF KeptSoFar
<1>9. ASSUME NEW k \in 0..(n - 1), k \in P
      PROVE  k + 1 \in P
  <2> DEFINE m == k + 1
  <2>1. m \in 1..n /\ m \in 0..n /\ m - 1 = k /\ Follows(m, k) /\ k \in Nat
    BY <1>4 DEF Follows
  <2>2. \A i \in 1..k : i \in 1..n /\ i < m /\ i # m
    BY <1>4
  <2> HIDE DEF m, n
  <2>3. \A i \in 1..k : i \in 1..n /\ s[i] # s[m] /\ Graph!GoesFirst(s[i], s[m])
    BY <1>3, <1>5, <2>1, <2>2
  <2>4. p[m] = MatchStep(p[k], s[m])
    BY <1>7, <2>1
  <2>5. KeptSoFar(MatchStep(p[k], s[m]), s, m)
    BY <1>4, <1>9, <2>1, <2>3, KeptMore DEF n
  <2> QED
    BY <2>1, <2>4, <2>5 DEF m
<1>10. \A k \in 0..n : k \in P
  BY <1>4, <1>8, <1>9, CountInduction
<1>11. KeptSoFar(p[n], s, n)
  BY <1>4, <1>10
<1> HIDE DEF n
<1>12. /\ \A k \in kept : \E i \in 1..n : s[i] = k
       /\ \A a, b \in kept : Graph!Overlaps(a, b) => Graph!SameSpan(a, b)
       /\ \A i \in 1..n : s[i] \in kept \/ \E k \in kept : Outdone(s[i], k)
  BY <1>7, <1>11 DEF KeptSoFar
<1>13. kept \subseteq candidates
  BY <1>4, <1>12
<1>14. \A c \in candidates \ kept : \E k \in kept : Outdone(c, k)
  BY <1>3, <1>12, SMTT(30) DEF n
<1> QED
  BY <1>12, <1>13, <1>14 DEF kept

-----------------------------------------------------------------------------
(* The runs' releases.                                                     *)

Srcs == {"first", "second", "old"}
Jobs == {"hero", "warrior", "jobs"}
Bosses == {"lotus", "hardLotus", "hard"}
Ents == Jobs \cup Bosses
Rels == Relations \cup {OldRelation}

HeldBy(holder, c) == {r \in DOMAIN holder : holder[r] = c}


ReleaseOf(cs, holder, dropped) ==
    /\ cs \in Seq(Catalogs(Srcs, Ents, Rels))
    /\ Len(cs) \in 2..3
    /\ cs[1].source = "first" /\ cs[1].entities = Jobs \ dropped
    /\ cs[1].relations = HeldBy(holder, "first")
    /\ cs[2].source = "second" /\ cs[2].entities = Bosses \ dropped
    /\ cs[2].relations = HeldBy(holder, "second")
    /\ Len(cs) = 3 => /\ cs[3].source = "old" /\ cs[3].entities = {}
                      /\ cs[3].relations = HeldBy(holder, "old")
                      /\ HeldBy(holder, "old") # {}

LEMMA EndsAre ==
    \A r \in Rels : Graph!Ends(r) \in SUBSET Ents
<1>1. /\ Graph!Ends(<<"hero", "is_a", "warrior">>) = {"hero", "warrior"}
      /\ Graph!Ends(<<"warrior", "part_of", "jobs">>) = {"warrior", "jobs"}
      /\ Graph!Ends(<<"hardLotus", "variant_of", "lotus">>) = {"hardLotus", "lotus"}
      /\ Graph!Ends(<<"hardLotus", "has_difficulty", "hard">>) = {"hardLotus", "hard"}
      /\ Graph!Ends(<<"lotus", "uses", "jobs">>) = {"lotus", "jobs"}
  BY DEF Graph!Ends
<1> QED
  BY <1>1 DEF Rels, Relations, OldRelation, Ents, Jobs, Bosses


LEMMA TwoOrThree ==
    ASSUME NEW T, NEW a \in T, NEW b \in T, NEW d \in T
    PROVE  /\ <<a, b>> \o <<>> \in Seq(T) /\ Len(<<a, b>> \o <<>>) = 2
           /\ (<<a, b>> \o <<>>)[1] = a /\ (<<a, b>> \o <<>>)[2] = b
           /\ <<a, b>> \o <<d>> \in Seq(T) /\ Len(<<a, b>> \o <<d>>) = 3
           /\ (<<a, b>> \o <<d>>)[1] = a /\ (<<a, b>> \o <<d>>)[2] = b
           /\ (<<a, b>> \o <<d>>)[3] = d
OBVIOUS

LEMMA ReleaseIs ==
    ASSUME NEW holder, DOMAIN holder \in SUBSET Rels, NEW dropped
    PROVE  ReleaseOf(Release(holder, dropped), holder, dropped)
<1> DEFINE T == Catalogs(Srcs, Ents, Rels)
           H(c) == HeldBy(holder, c)
           J == Jobs \ dropped
           B == Bosses \ dropped
           a == [source |-> "first", entities |-> J,
                 external |-> (UNION {Graph!Ends(r) : r \in H("first")}) \ Jobs,
                 relations |-> H("first")]
           b == [source |-> "second", entities |-> B,
                 external |-> (UNION {Graph!Ends(r) : r \in H("second")}) \ Bosses,
                 relations |-> H("second")]
           d == [source |-> "old", entities |-> {},
                 external |-> UNION {Graph!Ends(r) : r \in H("old")},
                 relations |-> H("old")]
           cs == Release(holder, dropped)
<1>1. a \in T /\ b \in T /\ d \in T
  BY EndsAre DEF HeldBy, Srcs, Ents, Catalogs
<1>2. cs = <<a, b>> \o (IF H("old") = {} THEN <<>> ELSE <<d>>)
  BY DEF Release, HeldBy, Jobs, Bosses
<1>3. /\ a.source = "first" /\ a.entities = J /\ a.relations = H("first")
      /\ b.source = "second" /\ b.entities = B /\ b.relations = H("second")
      /\ d.source = "old" /\ d.entities = {} /\ d.relations = H("old")
  OBVIOUS
<1> HIDE DEF a, b, d, cs, T, H, J, B
<1>4. CASE H("old") = {}
  <2>1. cs = <<a, b>> \o <<>>
    BY <1>2, <1>4
  <2>2. cs \in Seq(T) /\ Len(cs) = 2 /\ cs[1] = a /\ cs[2] = b
    BY <1>1, <2>1, TwoOrThree
  <2> QED
    BY <1>3, <2>2 DEF ReleaseOf, T, H, J, B, cs
<1>5. CASE H("old") # {}
  <2>1. cs = <<a, b>> \o <<d>>
    BY <1>2, <1>5
  <2>2. cs \in Seq(T) /\ Len(cs) = 3 /\ cs[1] = a /\ cs[2] = b /\ cs[3] = d
    BY <1>1, <2>1, TwoOrThree
  <2> QED
    BY <1>3, <1>5, <2>2 DEF ReleaseOf, T, H, J, B, cs
<1> QED
  BY <1>4, <1>5

LEMMA ReleaseDistinct ==
    ASSUME NEW cs, NEW holder, NEW dropped, ReleaseOf(cs, holder, dropped)
    PROVE  Distinct(Sources(cs), Len(cs))
<1>1. /\ Len(cs) \in 2..3 /\ cs[1].source = "first" /\ cs[2].source = "second"
      /\ Len(cs) = 3 => cs[3].source = "old"
  BY DEF ReleaseOf
<1>2. \A i \in 1..Len(cs) : Sources(cs)[i] = cs[i].source
  BY DEF Sources
<1>3. Len(cs) = 2 \/ Len(cs) = 3
  BY <1>1
<1>4. CASE Len(cs) = 2
  BY <1>1, <1>2, <1>4 DEF Distinct
<1>5. CASE Len(cs) = 3
  BY <1>1, <1>2, <1>5 DEF Distinct
<1> QED
  BY <1>3, <1>4, <1>5

LEMMA NoRowsType ==
    ASSUME NEW S, NEW E, NEW R
    PROVE  /\ Graph!NoRows \in RowSets(S, E, R)
           /\ DOMAIN Graph!NoRows.entity = {} /\ DOMAIN Graph!NoRows.relation = {}
<1> DEFINE t == <<>>
<1>1. DOMAIN t = {} /\ \A K, Q : t \in [{} -> Q]
  OBVIOUS
<1>2. Graph!NoRows = [source |-> t, entity |-> t, relation |-> t]
  BY DEF Graph!NoRows
<1> HIDE DEF t
<1>3. \A K, Q : t \in Table(K, Q)
  BY <1>1 DEF Table
<1> QED
  BY <1>1, <1>2, <1>3 DEF RowSets

\* After the upgrade the rows say what the new release says, and nothing
\* else that is joined.
SaysNow(rows, now, dropped) ==
    /\ \A r : Graph!IsActive(rows.relation, r)
              /\ Graph!IsActive(rows.source, rows.relation[r].src) =>
            r \in Relations /\ now[r] # "none"
    /\ \A r \in Relations : now[r] # "none" =>
        /\ Graph!IsActive(rows.relation, r)
        /\ Graph!IsActive(rows.source, rows.relation[r].src)
    /\ \A e : Graph!IsActive(rows.entity, e) <=> e \in Ents \ dropped
    /\ \A e \in Ents \ dropped : Graph!IsActive(rows.source, rows.entity[e].src)

Upgrade(before, now, dropped) ==
    Graph!SyncBuiltin(Graph!SyncBuiltin(Graph!NoRows, Release(before, {})).rows,
                      Release(now, dropped))

\* What the release before wrote: no entity is a retired source's, and a
\* relation is its holder's.
LEMMA RowsBefore ==
    ASSUME NEW holder, DOMAIN holder \in SUBSET Rels
    PROVE  LET rows == Graph!SyncBuiltin(Graph!NoRows, Release(holder, {})).rows
           IN  /\ \A e \in Ents : e \in DOMAIN rows.entity =>
                    rows.entity[e].src \in {"first", "second"}
               /\ \A r \in Rels : r \in DOMAIN rows.relation =>
                    r \in DOMAIN holder /\ holder[r] = rows.relation[r].src
<1> DEFINE cs == Release(holder, {})
           out == Graph!SyncBuiltin(Graph!NoRows, cs)
           t == out.rows.entity
           u == out.rows.relation
           srcs == Sources(cs)
           LE == EntityKeys(cs)
           LR == RelationKeys(cs)
           n == Len(cs)
<1>1. ReleaseOf(cs, holder, {})
  BY ReleaseIs
<1>2. /\ cs \in Seq(Catalogs(Srcs, Ents, Rels)) /\ Distinct(srcs, n)
      /\ n \in 2..3
  BY <1>1, ReleaseDistinct DEF ReleaseOf
<1>3. /\ Graph!NoRows \in RowSets(Srcs, Ents, Rels)
      /\ DOMAIN Graph!NoRows.entity = {} /\ DOMAIN Graph!NoRows.relation = {}
  BY NoRowsType
<1>4. CASE out.failed
  BY <1>2, <1>3, <1>4, SyncedType, SyncBuilds DEF Built, out
<1>5. CASE ~out.failed
  <2>1. Rebuilt(out.rows, Graph!NoRows, cs, Srcs, Ents, Rels)
    BY <1>2, <1>3, <1>5, SyncRebuilds
  <2>2. \A i \in 1..n : /\ LE[i] = cs[i].entities /\ LR[i] = cs[i].relations
                        /\ srcs[i] = cs[i].source
    BY DEF EntityKeys, RelationKeys, Sources
  <2>3. \A i \in 1..n : i = 1 \/ i = 2 \/ (n = 3 /\ i = 3)
    <3> HIDE DEF n
    <3> QED
      BY <1>2
  <2>4. ASSUME NEW i \in 1..n
        PROVE  /\ LE[i] # {} => srcs[i] \in {"first", "second"}
               /\ LR[i] = HeldBy(holder, srcs[i])
    BY <1>1, <2>2, <2>3 DEF ReleaseOf
  <2>5. /\ \A e \in Ents : Taken(t, Graph!NoRows.entity, LE, srcs, n, e)
        /\ \A r \in Rels : Taken(u, Graph!NoRows.relation, LR, srcs, n, r)
    BY <2>1 DEF Rebuilt
  <2> HIDE DEF t, u, LE, LR, srcs, n
  <2>6. \A e \in Ents : e \in DOMAIN t => \E i \in 1..n : e \in LE[i] /\ t[e].src = srcs[i]
    BY <1>3, <2>5 DEF Taken
  <2>7. \A r \in Rels : r \in DOMAIN u => \E i \in 1..n : r \in LR[i] /\ u[r].src = srcs[i]
    BY <1>3, <2>5 DEF Taken
  <2>8. \A r \in Rels : r \in DOMAIN u => r \in DOMAIN holder /\ holder[r] = u[r].src
    BY <2>4, <2>7 DEF HeldBy
  <2>9. \A e \in Ents : e \in DOMAIN t => t[e].src \in {"first", "second"}
    BY <2>4, <2>6
  <2> QED
    BY <2>8, <2>9 DEF t, u
<1> QED
  BY <1>4, <1>5

\* What the new release lists, and what only the retired catalog held.
Left(now, old) == {r \in Relations : now[r] # "none"} \cup old

LEMMA UpgradeSaysNow ==
    ASSUME NEW before \in [Rels -> Srcs], NEW now \in [Relations -> {"none", "first", "second"}],
           NEW dropped \in SUBSET Ents, ~Upgrade(before, now, dropped).failed
    PROVE  /\ SaysNow(Upgrade(before, now, dropped).rows, now, dropped)
           /\ \A r : Graph!IsActive(Upgrade(before, now, dropped).rows.relation, r) =>
                r \in Left(now, HeldBy(before, "old"))
<1> DEFINE old == Graph!SyncBuiltin(Graph!NoRows, Release(before, {})).rows
           cs == Release(now, dropped)
           out == Graph!SyncBuiltin(old, cs)
           rows == out.rows
           srcs == Sources(cs)
           LE == EntityKeys(cs)
           LR == RelationKeys(cs)
           n == Len(cs)
<1>1. Upgrade(before, now, dropped) = out
  BY DEF Upgrade
<1>2. /\ DOMAIN before \in SUBSET Rels /\ DOMAIN now = Relations
      /\ Relations \in SUBSET Rels /\ Ents \in SUBSET Ents
  BY DEF Rels
<1>3. ReleaseOf(Release(before, {}), before, {}) /\ ReleaseOf(cs, now, dropped)
  BY <1>2, ReleaseIs
<1>4. /\ cs \in Seq(Catalogs(Srcs, Ents, Rels)) /\ Distinct(srcs, n)
      /\ Release(before, {}) \in Seq(Catalogs(Srcs, Ents, Rels))
  BY <1>3, ReleaseDistinct DEF ReleaseOf
<1>5. old \in RowSets(Srcs, Ents, Rels)
  BY <1>4, NoRowsType, SyncBuiltinType
<1>6. /\ \A e \in Ents : e \in DOMAIN old.entity => old.entity[e].src \in {"first", "second"}
      /\ \A r \in Rels : r \in DOMAIN old.relation => before[r] = old.relation[r].src
  BY <1>2, RowsBefore
<1> HIDE DEF old
<1>7. rows \in RowSets(Srcs, Ents, Rels)
  BY <1>4, <1>5, SyncBuiltinType
<1>8. Rebuilt(rows, old, cs, Srcs, Ents, Rels)
  BY <1>1, <1>4, <1>5, SyncRebuilds
<1> HIDE DEF out
<1>9. HeldBy(now, "old") = {}
  BY DEF HeldBy
<1>10. /\ n = 2 /\ cs[1].source = "first" /\ cs[2].source = "second"
       /\ cs[1].entities = Jobs \ dropped /\ cs[2].entities = Bosses \ dropped
       /\ cs[1].relations = HeldBy(now, "first") /\ cs[2].relations = HeldBy(now, "second")
  BY <1>3, <1>9 DEF ReleaseOf
<1>11. \A i \in 1..n : /\ srcs[i] = cs[i].source /\ LE[i] = cs[i].entities
                       /\ LR[i] = cs[i].relations
  BY DEF Sources, EntityKeys, RelationKeys
<1>12. /\ \A r \in Rels : Taken(rows.relation, old.relation, LR, srcs, n, r)
       /\ \A e \in Ents : Taken(rows.entity, old.entity, LE, srcs, n, e)
       /\ \A key \in Srcs : Graph!IsActive(rows.source, key) <=>
            key # "old" /\ (\/ \E i \in 1..n : cs[i].source = key
                            \/ Inherits(old.source, key, srcs, n))
  BY <1>8 DEF Rebuilt
<1>13. /\ rows.relation \in Table(Rels, Srcs) /\ rows.entity \in Table(Ents, Srcs)
       /\ old.relation \in Table(Rels, Srcs) /\ old.entity \in Table(Ents, Srcs)
  BY <1>5, <1>7 DEF RowSets
<1> HIDE DEF rows, cs, srcs, LE, LR
<1>14. /\ 1 \in 1..n /\ 2 \in 1..n /\ \A i \in 1..n : i = 1 \/ i = 2
  BY <1>10
<1> HIDE DEF n
<1>15. /\ srcs[1] = "first" /\ srcs[2] = "second"
       /\ LE[1] = Jobs \ dropped /\ LE[2] = Bosses \ dropped
       /\ LR[1] = HeldBy(now, "first") /\ LR[2] = HeldBy(now, "second")
  BY <1>10, <1>11, <1>14
<1>16. /\ Graph!IsActive(rows.source, "first") /\ Graph!IsActive(rows.source, "second")
       /\ ~Graph!IsActive(rows.source, "old")
  BY <1>10, <1>12, <1>14 DEF Srcs
<1>17. /\ DOMAIN rows.relation \subseteq Rels /\ DOMAIN rows.entity \subseteq Ents
       /\ \A r \in DOMAIN old.relation : old.relation[r].src \in Srcs
  BY <1>13 DEF Table
<1>18. \A r : (\E i \in 1..n : r \in LR[i]) <=> r \in Relations /\ now[r] # "none"
  BY <1>2, <1>14, <1>15 DEF HeldBy
<1>19. \A e : (\E i \in 1..n : e \in LE[i]) <=> e \in Ents \ dropped
  BY <1>14, <1>15 DEF Ents
<1>a. ASSUME NEW r, Graph!IsActive(rows.relation, r),
             ~(r \in Relations /\ now[r] # "none")
      PROVE  rows.relation[r].src = "old" /\ r \in HeldBy(before, "old")
  <2>1. r \in DOMAIN rows.relation /\ r \in Rels
    BY <1>17, <1>a DEF Graph!IsActive
  <2>2. Taken(rows.relation, old.relation, LR, srcs, n, r)
    BY <1>12, <2>1
  <2>3. \A i \in 1..n : r \notin LR[i]
    BY <1>18, <1>a
  <2>4. Inherits(old.relation, r, srcs, n)
    BY <1>a, <2>2, <2>3 DEF Taken
  <2>5. r \in DOMAIN old.relation /\ rows.relation[r].src = old.relation[r].src
    BY <2>1, <2>2, <2>3 DEF Taken
  <2>6. old.relation[r].src \in Srcs /\ old.relation[r].src # "first"
        /\ old.relation[r].src # "second"
    BY <1>14, <1>15, <1>17, <2>4, <2>5 DEF Inherits
  <2>7. rows.relation[r].src = "old" /\ before[r] = "old"
    BY <1>6, <2>1, <2>5, <2>6 DEF Srcs
  <2> QED
    BY <2>1, <2>7 DEF HeldBy
<1>20. ASSUME NEW r, Graph!IsActive(rows.relation, r),
              Graph!IsActive(rows.source, rows.relation[r].src)
       PROVE  r \in Relations /\ now[r] # "none"
  BY <1>16, <1>20, <1>a
<1>21. ASSUME NEW r \in Relations, now[r] # "none"
       PROVE  /\ Graph!IsActive(rows.relation, r)
              /\ Graph!IsActive(rows.source, rows.relation[r].src)
  BY <1>2, <1>12, <1>14, <1>15, <1>16, <1>18, <1>21 DEF Taken
<1>22. ASSUME NEW e \in Ents \ dropped
       PROVE  /\ Graph!IsActive(rows.entity, e)
              /\ Graph!IsActive(rows.source, rows.entity[e].src)
  BY <1>12, <1>14, <1>15, <1>16, <1>19, SMTT(30) DEF Taken
<1>23. ASSUME NEW e, Graph!IsActive(rows.entity, e)
       PROVE  e \in Ents \ dropped
  BY <1>6, <1>12, <1>14, <1>15, <1>17, <1>19, <1>23 DEF Graph!IsActive, Inherits, Taken
<1>24. SaysNow(rows, now, dropped)
  BY <1>20, <1>21, <1>22, <1>23 DEF SaysNow
<1>25. \A r : Graph!IsActive(rows.relation, r) => r \in Left(now, HeldBy(before, "old"))
  BY <1>a DEF Left
<1> QED
  BY <1>1, <1>24, <1>25 DEF rows

\* The matches selected are among those found.
LEMMA SelectWithin ==
    ASSUME NEW candidates \in SUBSET Matches, IsFiniteSet(candidates)
    PROVE  Graph!SelectEntityMatches(candidates) \subseteq candidates
<1> DEFINE kept == Graph!LongestMatches(candidates)
<1>1. kept \subseteq candidates
  BY MatchesAreLongest
<1> HIDE DEF kept
<1>2. Graph!SelectEntityMatches(candidates) \subseteq kept
  BY DEF Graph!SelectEntityMatches, kept
<1> QED
  BY <1>1, <1>2

LEMMA AroundWithin ==
    ASSUME NEW e, NEW relations
    PROVE  Graph!Around(e, relations) \subseteq relations
<1>1. CASE Kinds[e] = "job"
  BY <1>1 DEF Graph!Around
<1>2. CASE Kinds[e] = "job_family"
  BY <1>2 DEF Graph!Around
<1>3. CASE Kinds[e] = "taxonomy"
  BY <1>3 DEF Graph!Around
<1>4. CASE Kinds[e] = "abbreviation"
  BY <1>4 DEF Graph!Around
<1>5. CASE Kinds[e] = "boss"
  BY <1>5 DEF Graph!Around
<1>6. CASE Kinds[e] \notin {"job", "job_family", "taxonomy", "abbreviation", "boss"}
  BY <1>6 DEF Graph!Around
<1> QED
  BY <1>1, <1>2, <1>3, <1>4, <1>5, <1>6

LinkOutcome(before, now, dropped, asked, hops, place) ==
    [step |-> "link", now |-> now, dropped |-> dropped, old |-> HeldBy(before, "old"),
     asked |-> asked, hops |-> hops,
     out |-> Graph!Retrieve(Upgrade(before, now, dropped).rows, asked, hops, place)]

AskedFor(names) == {p \in Places : p.entity \in names}

NameSets ==
    {{"hero"}, {"hero", "warrior"}, {"jobs"}, {"hard"}, {"lotus", "hardLotus"},
     {"jobs", "lotus", "hero"}}

LEMMA LinkIsLinked ==
    Link => \E before \in [Rels -> Srcs], now \in [Relations -> {"none", "first", "second"}],
               dropped \in {{}, {"hard"}}, names \in NameSets, hops \in 1..2, place \in IdOrders :
                /\ ~Upgrade(before, now, dropped).failed
                /\ call' = LinkOutcome(before, now, dropped, AskedFor(names), hops, place)
<1> SUFFICES ASSUME Link
             PROVE  \E before \in [Rels -> Srcs],
                       now \in [Relations -> {"none", "first", "second"}],
                       dropped \in {{}, {"hard"}}, names \in NameSets, hops \in 1..2, place \in IdOrders :
                        /\ ~Upgrade(before, now, dropped).failed
                        /\ call' = LinkOutcome(before, now, dropped, AskedFor(names), hops, place)
  OBVIOUS
<1>1. PICK before \in [Rels -> Srcs], now \in [Relations -> {"none", "first", "second"}],
           dropped \in {{}, {"hard"}} :
        /\ ~Upgrade(before, now, dropped).failed
        /\ \E asked \in {AskedFor(n) : n \in NameSets}, hops \in 1..2, place \in IdOrders :
            call' = LinkOutcome(before, now, dropped, asked, hops, place)
  BY ZenonT(60) DEF Link, Rels, Srcs, Upgrade, AskedFor, NameSets, LinkOutcome, HeldBy
<1>2. PICK asked \in {AskedFor(n) : n \in NameSets}, hops \in 1..2, place \in IdOrders :
        call' = LinkOutcome(before, now, dropped, asked, hops, place)
  BY <1>1
<1>3. PICK names \in NameSets : asked = AskedFor(names)
  BY <1>2
<1> QED
  BY <1>1, <1>2, <1>3

LEMMA AskedAre ==
    ASSUME NEW names
    PROVE  /\ AskedFor(names) \in SUBSET Matches
           /\ IsFiniteSet(AskedFor(names))
           /\ \A m \in AskedFor(names) : m.entity \in names \cap Ents
<1>1. DOMAIN IdPlaces = Ents
  BY DEF IdPlaces, Ents, Jobs, Bosses
<1>2. \A p \in Places : p \in Matches /\ p.entity \in Ents
  BY <1>1 DEF Places, Matches, Ents, Jobs, Bosses
<1>3. IsFiniteSet(Places)
  <2> DEFINE a == [entity |-> "hero", first |-> 1, last |-> 2]
             b == [entity |-> "warrior", first |-> 1, last |-> 4]
             c == [entity |-> "jobs", first |-> 4, last |-> 4]
             d == [entity |-> "lotus", first |-> 6, last |-> 7]
             e == [entity |-> "hardLotus", first |-> 6, last |-> 7]
             g == [entity |-> "hard", first |-> 9, last |-> 9]
  <2>1. Places = {a} \cup {b} \cup {c} \cup {d} \cup {e} \cup {g}
    BY DEF Places
  <2> HIDE DEF a, b, c, d, e, g
  <2>2. IsFiniteSet({a}) /\ IsFiniteSet({b}) /\ IsFiniteSet({c}) /\ IsFiniteSet({d})
        /\ IsFiniteSet({e}) /\ IsFiniteSet({g})
    BY FS_Singleton
  <2>3. IsFiniteSet({a} \cup {b})
    BY <2>2, FS_Union
  <2>4. IsFiniteSet({a} \cup {b} \cup {c})
    BY <2>2, <2>3, FS_Union
  <2>5. IsFiniteSet({a} \cup {b} \cup {c} \cup {d})
    BY <2>2, <2>4, FS_Union
  <2>6. IsFiniteSet({a} \cup {b} \cup {c} \cup {d} \cup {e})
    BY <2>2, <2>5, FS_Union
  <2>7. IsFiniteSet({a} \cup {b} \cup {c} \cup {d} \cup {e} \cup {g})
    BY <2>2, <2>6, FS_Union
  <2> QED
    BY <2>1, <2>7
<1>4. AskedFor(names) \in SUBSET Places
  BY DEF AskedFor
<1>5. IsFiniteSet(AskedFor(names))
  BY <1>3, <1>4, FS_Subset
<1> QED
  BY <1>2, <1>4, <1>5 DEF AskedFor

\* A set of names either has the dropped entity alone or not at all.
LEMMA NamesKnown ==
    ASSUME NEW names \in NameSets, NEW dropped \in {{}, {"hard"}}
    PROVE  names \cap dropped = {} \/ (names = {"hard"} /\ dropped = {"hard"})
BY DEF NameSets

InForce(now, dropped) ==
    {r \in Relations : now[r] # "none" /\ Graph!Ends(r) \cap dropped = {}}

NamesOf(matches) == {m.entity : m \in Graph!SelectEntityMatches(matches)}

LEMMA NearGrows ==
    ASSUME NEW A, NEW B, A \subseteq B, NEW entities
    PROVE  /\ Near(A, entities) \subseteq Near(B, entities)
           /\ Around(A, entities) \subseteq Around(B, entities)
<1>1. \A e : Near(A, e) \subseteq Near(B, e)
  BY DEF Near
<1>2. \A d, e : d \subseteq e => Near(B, d) \subseteq Near(B, e)
  BY DEF Near
<1> DEFINE da == UNION {Graph!Ends(r) : r \in Near(A, entities)}
           db == UNION {Graph!Ends(r) : r \in Near(B, entities)}
<1>3. da \subseteq db
  BY <1>1
<1>4. Around(A, entities) = Near(A, entities \cup da)
      /\ Around(B, entities) = Near(B, entities \cup db)
  BY DEF Around
<1> HIDE DEF da, db
<1> QED
  BY <1>1, <1>2, <1>3, <1>4

LEMMA RelsFinite == IsFiniteSet(Rels)
<1> DEFINE a == <<"hero", "is_a", "warrior">>
           b == <<"warrior", "part_of", "jobs">>
           c == <<"hardLotus", "variant_of", "lotus">>
           d == <<"hardLotus", "has_difficulty", "hard">>
<1>1. Rels = {a} \cup {b} \cup {c} \cup {d} \cup {OldRelation}
  BY DEF Rels, Relations
<1> HIDE DEF a, b, c, d
<1>2. IsFiniteSet({a} \cup {b})
  BY FS_Singleton, FS_Union
<1>3. IsFiniteSet({a} \cup {b} \cup {c})
  BY <1>2, FS_Singleton, FS_Union
<1>4. IsFiniteSet({a} \cup {b} \cup {c} \cup {d})
  BY <1>3, FS_Singleton, FS_Union
<1> QED
  BY <1>1, <1>4, FS_Singleton, FS_Union

\* What a search of two hops owes the question.
Owed(active, force, named, hops, out) ==
    /\ out \subseteq force
    /\ hops = 2 /\ Cardinality(Near(active, named)) <= MaxRelations =>
            Near(force, named) \subseteq out
    /\ hops = 2 /\ Cardinality(Around(active, named)) <= MaxRelations =>
            Around(force, named) \subseteq out

\* The facts of a question after an upgrade.
LEMMA FactsOfNow ==
    ASSUME NEW rows, NEW now, NEW dropped \in SUBSET Ents, SaysNow(rows, now, dropped),
           NEW active \in SUBSET Rels, \A r : Graph!IsActive(rows.relation, r) => r \in active,
           NEW asked \in SUBSET Matches, IsFiniteSet(asked),
           \A m \in asked : m.entity \in Ents, NEW hops \in 1..2, NEW place
    PROVE  LET known == {m \in asked : m.entity \notin dropped}
           IN  Owed(active, InForce(now, dropped), NamesOf(known), hops,
                    Graph!Retrieve(rows, asked, hops, place))
<1> DEFINE known == {m \in asked : m.entity \notin dropped}
           force == InForce(now, dropped)
           seeds == NamesOf(known)
           out == Graph!Retrieve(rows, asked, hops, place)
           relations == {r \in DOMAIN rows.relation : rows.relation[r].active}
           direct == UNION {Graph!Around(e, relations) : e \in seeds}
           searched == Graph!Expanded(seeds, relations, place)
           expanded == IF hops > 1 THEN searched ELSE {}
           found == {m \in asked : /\ Graph!IsActive(rows.entity, m.entity)
                                   /\ Graph!IsActive(rows.source, rows.entity[m.entity].src)}
<1>1. found = known
  BY DEF SaysNow
<1>2. out = Graph!Joined(rows, direct \cup expanded)
  BY <1>1 DEF Graph!Retrieve, NamesOf
<1>3. \A r : r \in relations <=> Graph!IsActive(rows.relation, r)
  BY DEF Graph!IsActive
<1> HIDE DEF found, known, relations, seeds
<1>4. relations \subseteq active
  BY <1>3
<1>5. IsFiniteSet(active) /\ IsFiniteSet(relations)
  BY <1>4, RelsFinite, FS_Subset
<1>6. /\ searched \subseteq Around(relations, seeds)
      /\ Cardinality(Near(relations, seeds)) <= MaxRelations =>
            Near(relations, seeds) \subseteq searched
      /\ Cardinality(Around(relations, seeds)) <= MaxRelations =>
            searched = Around(relations, seeds)
  BY <1>5, SearchComplete
<1>7. Around(relations, seeds) \subseteq relations /\ Near(relations, seeds) \subseteq relations
  BY DEF Around, Near
<1>8. direct \subseteq relations
  BY AroundWithin
<1>9. (hops = 2 => expanded = searched) /\ expanded \subseteq searched
  OBVIOUS
<1> HIDE DEF direct, expanded, searched
<1>10. out = {r \in direct \cup expanded :
                /\ \A e \in Graph!Ends(r) : Graph!IsActive(rows.entity, e)
                /\ Graph!IsActive(rows.source, rows.relation[r].src)}
  BY <1>2 DEF Graph!Joined
<1> HIDE DEF out
<1>11. out \subseteq force
  BY <1>3, <1>6, <1>7, <1>8, <1>9, <1>10 DEF SaysNow, InForce
<1>12. \A r \in force :
        /\ r \in relations
        /\ \A e \in Graph!Ends(r) : Graph!IsActive(rows.entity, e)
        /\ Graph!IsActive(rows.source, rows.relation[r].src)
  BY <1>3, EndsAre DEF InForce, Rels, SaysNow
<1>13. /\ Near(relations, seeds) \subseteq Near(active, seeds)
       /\ Around(relations, seeds) \subseteq Around(active, seeds)
       /\ Near(force, seeds) \subseteq Near(relations, seeds) \cap force
       /\ Around(force, seeds) \subseteq Around(relations, seeds) \cap force
  <2>1. force \subseteq relations
    BY <1>12
  <2>2. Near(force, seeds) \subseteq force /\ Around(force, seeds) \subseteq force
    BY DEF Near, Around
  <2> HIDE DEF force
  <2> QED
    BY <1>4, <2>1, <2>2, NearGrows
<1>14. /\ IsFiniteSet(Near(active, seeds)) /\ IsFiniteSet(Around(active, seeds))
  <2>1. Near(active, seeds) \subseteq active /\ Around(active, seeds) \subseteq active
    BY DEF Near, Around
  <2> QED
    BY <1>5, <2>1, FS_Subset
<1>15. MaxRelations \in Int
  BY SearchAssumption
<1>16. /\ Cardinality(Near(relations, seeds)) <= Cardinality(Near(active, seeds))
       /\ Cardinality(Near(relations, seeds)) \in Nat
       /\ Cardinality(Near(active, seeds)) \in Nat
  BY <1>13, <1>14, FS_Subset, FS_CardinalityType
<1>17. /\ Cardinality(Around(relations, seeds)) <= Cardinality(Around(active, seeds))
       /\ Cardinality(Around(relations, seeds)) \in Nat
       /\ Cardinality(Around(active, seeds)) \in Nat
  BY <1>13, <1>14, FS_Subset, FS_CardinalityType
<1> HIDE DEF force
<1>18. \A r \in force : r \in expanded => r \in out
  BY <1>10, <1>12
<1>19. ASSUME hops = 2, Cardinality(Near(active, seeds)) <= MaxRelations
       PROVE  Near(force, seeds) \subseteq out
  <2>1. Cardinality(Near(relations, seeds)) <= MaxRelations
    BY <1>15, <1>16, <1>19
  <2> QED
    BY <1>6, <1>9, <1>13, <1>18, <1>19, <2>1
<1>20. ASSUME hops = 2, Cardinality(Around(active, seeds)) <= MaxRelations
       PROVE  Around(force, seeds) \subseteq out
  <2>1. Cardinality(Around(relations, seeds)) <= MaxRelations
    BY <1>15, <1>17, <1>20
  <2> QED
    BY <1>6, <1>9, <1>13, <1>18, <1>20, <2>1
<1> QED
  BY <1>11, <1>19, <1>20 DEF out, known, seeds, force, Owed

LEMMA LinkIsCurrent == Link => FactsAreCurrent'
<1> SUFFICES ASSUME Link
             PROVE  FactsAreCurrent'
  OBVIOUS
<1>1. PICK before \in [Rels -> Srcs], now \in [Relations -> {"none", "first", "second"}],
           dropped \in {{}, {"hard"}}, names \in NameSets, hops \in 1..2, place \in IdOrders :
        /\ ~Upgrade(before, now, dropped).failed
        /\ call' = LinkOutcome(before, now, dropped, AskedFor(names), hops, place)
  BY LinkIsLinked
<1> DEFINE asked == AskedFor(names)
           rows == Upgrade(before, now, dropped).rows
           out == Graph!Retrieve(rows, asked, hops, place)
           force == InForce(now, dropped)
           old == HeldBy(before, "old")
           active == Left(now, old)
           known == {m \in asked : m.entity \notin dropped}
<1>2. /\ call'.step = "link" /\ call'.now = now /\ call'.dropped = dropped /\ call'.old = old
      /\ call'.asked = asked /\ call'.hops = hops /\ call'.out = out
  BY <1>1 DEF LinkOutcome
<1>3. dropped \in SUBSET Ents
  BY DEF Ents, Bosses
<1>4. /\ SaysNow(rows, now, dropped)
      /\ \A r : Graph!IsActive(rows.relation, r) => r \in active
  BY <1>1, <1>3, UpgradeSaysNow
<1>5. /\ asked \in SUBSET Matches /\ IsFiniteSet(asked)
      /\ \A m \in asked : m.entity \in names \cap Ents
  BY AskedAre
<1>6. active \in SUBSET Rels
  BY DEF Left, HeldBy, Rels
<1> HIDE DEF rows, asked, active
<1>7. Owed(active, force, NamesOf(known), hops, out)
  BY <1>3, <1>4, <1>5, <1>6, FactsOfNow, ZenonT(60)
<1>8. Owed(active, force, NamesOf(asked), hops, out)
  <2>1. CASE names \cap dropped = {}
    <3>1. known = asked
      BY <1>5, <2>1
    <3> HIDE DEF known, force, out
    <3> QED
      BY <1>7, <3>1
  <2>2. CASE names = {"hard"} /\ dropped = {"hard"}
    <3>1. \A x \in NamesOf(asked) : x = "hard"
      BY <1>5, <2>2, SelectWithin DEF NamesOf
    <3>2. \A r \in force : Graph!Ends(r) \cap {"hard"} = {}
      BY <2>2 DEF InForce
    <3>3. out \subseteq force
      BY <1>7 DEF Owed
    <3> HIDE DEF force, out
    <3>4. Near(force, NamesOf(asked)) = {}
      BY <3>1, <3>2 DEF Near
    <3>5. Around(force, NamesOf(asked)) = Near(force, NamesOf(asked))
      BY <3>4 DEF Around, Near
    <3> QED
      BY <3>3, <3>4, <3>5 DEF Owed
  <2> QED
    BY <2>1, <2>2, NamesKnown
<1> HIDE DEF out, old
<1>9. Owed(Left(call'.now, call'.old), InForce(call'.now, call'.dropped),
           NamesOf(call'.asked), call'.hops, call'.out)
  BY <1>2, <1>8 DEF active
<1>10. InForce(call'.now, call'.dropped) =
          {r \in {q \in Relations : call'.now[q] # "none"} :
                Graph!Ends(r) \cap call'.dropped = {}}
  BY DEF InForce
<1> QED
  BY <1>9, <1>10 DEF FactsAreCurrent, Owed, Left, NamesOf

\* The facts a question gets after an upgrade are those of the new release,
\* and in two hops all of them that are near, or around, when there are no
\* more active relations so close than a search may select
\* (sync_builtin_knowledge, DatabaseKnowledgeRetriever.retrieve).
THEOREM FactsAreCurrentAlways == Spec => []FactsAreCurrent
<1>1. Init => FactsAreCurrent
  BY StepsApart DEF FactsAreCurrent
<1>2. FactsAreCurrent /\ [Next]_call => FactsAreCurrent'
  BY LinkIsCurrent, StepsApart DEF FactsAreCurrent, Next
<1> QED
  BY <1>1, <1>2, PTL DEF Spec

=============================================================================
