------------------------------ MODULE FoldTheory ------------------------------
(***************************************************************************)
(* What a fold over a sequence computes.  The operator which is folded is  *)
(* a parameter of the module, with a context it may depend on, so that an  *)
(* instance has these theorems for an operator of its own.                 *)
(***************************************************************************)
EXTENDS Integers, Sequences, SequencesExt, SequenceTheorems, WellFoundedInduction, TLAPS

CONSTANT Op(_, _, _)

Fold(ctx, base, seq) == FoldLeft(LAMBDA acc, e : Op(ctx, acc, e), base, seq)

\* Where something holds at 0 and with each number at the next, it holds up to n.
LEMMA UpTo ==
    ASSUME NEW n \in Nat, NEW T, 0 \in T, \A k \in 0 .. n - 1 : k \in T => k + 1 \in T
    PROVE  \A k \in 0 .. n : k \in T
<1> DEFINE failing == {k \in 0 .. n : k \notin T}
<1> SUFFICES ASSUME failing # {} PROVE FALSE
  OBVIOUS
<1>1. failing \subseteq Nat
  OBVIOUS
<1>2. PICK k \in failing : \A j \in failing : ~ (<<j, k>> \in OpToRel(<, Nat))
  <2> HIDE DEF failing
  <2> QED
    BY <1>1, NatLessThanWellFounded, WFMin
<1>3. k \in 1 .. n
  OBVIOUS
<1>4. <<k - 1, k>> \in OpToRel(<, Nat)
  <2>1. k - 1 \in Nat /\ k \in Nat /\ k - 1 < k
    BY <1>3
  <2> QED
    BY <2>1 DEF OpToRel
<1>5. k - 1 \notin failing
  BY <1>2, <1>4
<1>6. k - 1 \in 0 .. n - 1 /\ k - 1 \in T
  BY <1>3, <1>5
<1>7. k \in T
  BY <1>3, <1>6
<1> QED
  BY <1>7

\* The function by which the community modules fold over the numbers 1 .. n.
Body(ctx, base, seq, g, s) ==
    IF s = {} THEN base ELSE Op(ctx, g[s \ {Max(s)}], seq[Max(s)])

Iter(ctx, base, seq, n) ==
    CHOOSE g : g = [s \in SUBSET (1 .. n) |-> Body(ctx, base, seq, g, s)]

LEMMA IterExists ==
    ASSUME NEW ctx, NEW base, NEW seq, NEW n \in Nat, NEW set \in SUBSET (1 .. n)
    PROVE  Iter(ctx, base, seq, n)[set] = Body(ctx, base, seq, Iter(ctx, base, seq, n), set)
<1> DEFINE B(g, s) == Body(ctx, base, seq, g, s)
           Exists(m) == \E g : g = [s \in SUBSET (1 .. m) |-> B(g, s)]
           T == {m \in Nat : Exists(m)}
<1>1. 0 \in T
  <2> DEFINE g == [s \in SUBSET (1 .. 0) |-> base]
  <2>1. 1 .. 0 = {}
    OBVIOUS
  <2>2. \A s \in SUBSET (1 .. 0) : B(g, s) = base
    BY <2>1 DEF Body
  <2>3. g = [s \in SUBSET (1 .. 0) |-> B(g, s)]
    BY <2>2
  <2> HIDE DEF g
  <2> QED
    BY <2>3
<1>2. ASSUME NEW m \in 0 .. n - 1, m \in T
      PROVE  m + 1 \in T
  <2>1. PICK g : g = [s \in SUBSET (1 .. m) |-> B(g, s)]
    BY <1>2
  <2> DEFINE h == [s \in SUBSET (1 .. m + 1) |->
                        IF m + 1 \in s THEN Op(ctx, g[s \ {m + 1}], seq[m + 1]) ELSE g[s]]
  <2>2. ASSUME NEW s \in SUBSET (1 .. m + 1)
        PROVE  h[s] = B(h, s)
    <3>1. CASE m + 1 \in s
      <4>1. Max(s) = m + 1
        <5>1. \A y \in s : y \in Int /\ m + 1 >= y
          OBVIOUS
        <5>2. \A x \in s : (\A y \in s : x >= y) => x = m + 1
          BY <3>1, <5>1
        <5> QED
          BY <3>1, <5>1, <5>2 DEF Max
      <4>2. s \ {m + 1} \in SUBSET (1 .. m + 1) /\ m + 1 \notin s \ {m + 1}
        OBVIOUS
      <4>3. h[s \ {m + 1}] = g[s \ {m + 1}]
        BY <4>2
      <4>4. h[s] = Op(ctx, g[s \ {m + 1}], seq[m + 1])
        BY <3>1
      <4>5. B(h, s) = Op(ctx, h[s \ {m + 1}], seq[m + 1])
        BY <3>1, <4>1 DEF Body
      <4> QED
        BY <4>3, <4>4, <4>5
    <3>2. CASE m + 1 \notin s
      <4>1. s \in SUBSET (1 .. m)
        BY <3>2
      <4>2. h[s] = g[s] /\ g[s] = B(g, s)
        BY <2>1, <3>2, <4>1
      <4>3. h[s \ {Max(s)}] = g[s \ {Max(s)}]
        <5> DEFINE t == s \ {Max(s)}
        <5>1. t \in SUBSET (1 .. m + 1) /\ m + 1 \notin t
          BY <3>2
        <5> HIDE DEF t
        <5>2. h[t] = g[t]
          BY <5>1
        <5> QED
          BY <5>2 DEF t
      <4> QED
        BY <4>2, <4>3 DEF Body
    <3> QED
      BY <3>1, <3>2
  <2>3. h = [s \in SUBSET (1 .. m + 1) |-> B(h, s)]
    <3>1. h = [s \in SUBSET (1 .. m + 1) |-> h[s]]
      OBVIOUS
    <3> HIDE DEF h, B
    <3> QED
      BY <2>2, <3>1
  <2>4. Exists(m + 1)
    <3> HIDE DEF h
    <3> QED
      BY <2>3
  <2> HIDE DEF Exists
  <2> QED
    BY <2>4
<1>3. n \in T
  <2> HIDE DEF T
  <2>1. \A k \in 0 .. n : k \in T
    BY <1>1, <1>2, UpTo
  <2> QED
    BY <2>1
<1>4. Exists(n)
  BY <1>3
<1>5. Iter(ctx, base, seq, n) = [s \in SUBSET (1 .. n) |-> B(Iter(ctx, base, seq, n), s)]
  BY <1>4 DEF Iter, Body
<1>6. Iter(ctx, base, seq, n)[set] = B(Iter(ctx, base, seq, n), set)
  <2> DEFINE g == Iter(ctx, base, seq, n)
  <2> HIDE DEF g, B
  <2>1. g = [s \in SUBSET (1 .. n) |-> B(g, s)]
    BY <1>5 DEF g
  <2> QED
    BY <2>1 DEF g
<1> QED
  BY <1>6

\* The accumulator after the first k elements.
After(ctx, base, seq, k) == Iter(ctx, base, seq, Len(seq))[1 .. k]

LEMMA AfterSteps ==
    ASSUME NEW ctx, NEW base, NEW S, NEW seq \in Seq(S), NEW k \in 1 .. Len(seq)
    PROVE  After(ctx, base, seq, k) = Op(ctx, After(ctx, base, seq, k - 1), seq[k])
<1> DEFINE n == Len(seq)
           s == 1 .. k
<1>1. n \in Nat
  BY LenProperties
<1>2. Max(s) = k
  <2>1. \A x \in 1 .. k : (\A y \in 1 .. k : x >= y) => x = k
    OBVIOUS
  <2>2. k \in 1 .. k /\ \A y \in 1 .. k : k >= y
    BY <1>1
  <2> QED
    BY <2>1, <2>2 DEF Max
<1>3. s \ {k} = 1 .. k - 1
  BY <1>1
<1>4. s \in SUBSET (1 .. n) /\ k \in s
  BY <1>1
<1> HIDE DEF s, n
<1>5. s # {}
  BY <1>4
<1>6. Iter(ctx, base, seq, n)[s] =
        Body(ctx, base, seq, Iter(ctx, base, seq, n), s)
  BY <1>1, <1>4, IterExists
<1>7. Iter(ctx, base, seq, n)[s] = Op(ctx, Iter(ctx, base, seq, n)[1 .. k - 1], seq[k])
  BY <1>2, <1>3, <1>5, <1>6 DEF Body
<1> QED
  BY <1>7 DEF After, s, n

LEMMA IterNone ==
    ASSUME NEW ctx, NEW base, NEW seq, NEW n \in Nat
    PROVE  Iter(ctx, base, seq, n)[{}] = base
<1>1. {} \in SUBSET (1 .. n)
  OBVIOUS
<1>2. Iter(ctx, base, seq, n)[{}] = Body(ctx, base, seq, Iter(ctx, base, seq, n), {})
  BY <1>1, IterExists
<1> QED
  BY <1>2 DEF Body

LEMMA AfterNone ==
    ASSUME NEW ctx, NEW base, NEW S, NEW seq \in Seq(S)
    PROVE  After(ctx, base, seq, 0) = base
<1>1. 1 .. 0 = {} /\ Len(seq) \in Nat
  BY LenProperties
<1> QED
  BY <1>1, IterNone DEF After

LEMMA FoldIsAfter ==
    ASSUME NEW ctx, NEW base, NEW S, NEW seq \in Seq(S)
    PROVE  Fold(ctx, base, seq) = After(ctx, base, seq, Len(seq))
<1>1. DOMAIN seq = 1 .. Len(seq)
  BY LenProperties
<1> QED
  BY <1>1 DEF Fold, FoldLeft, MapThenFoldSet, Iter, Body, After

\* What holds of the base, and of the accumulator after each element if it did
\* before it, holds of the fold.
THEOREM FoldInvariant ==
    ASSUME NEW ctx, NEW base, NEW S, NEW seq \in Seq(S), NEW I, base \in I,
           \A k \in 1 .. Len(seq) : \A acc \in I : Op(ctx, acc, seq[k]) \in I
    PROVE  Fold(ctx, base, seq) \in I
<1> DEFINE r(k) == After(ctx, base, seq, k)
           n == Len(seq)
           T == {k \in 0 .. n : r(k) \in I}
<1>1. /\ r(0) = base
      /\ \A k \in 1 .. n : r(k) = Op(ctx, r(k - 1), seq[k])
      /\ Fold(ctx, base, seq) = r(n)
  <2>2. After(ctx, base, seq, 0) = base
    BY AfterNone
  <2>3. \A k \in 1 .. Len(seq) :
            After(ctx, base, seq, k) = Op(ctx, After(ctx, base, seq, k - 1), seq[k])
    BY AfterSteps
  <2>4. Fold(ctx, base, seq) = After(ctx, base, seq, Len(seq))
    BY FoldIsAfter
  <2> QED
    BY <2>2, <2>3, <2>4
<1>2. n \in Nat
  BY LenProperties
<1>3. \A k \in 1 .. n : \A acc \in I : Op(ctx, acc, seq[k]) \in I
  OBVIOUS
<1> HIDE DEF r, n
<1>4. 0 \in T
  BY <1>1, <1>2
<1>5. ASSUME NEW k \in 0 .. n - 1, k \in T
      PROVE  k + 1 \in T
  <2>1. k + 1 \in 1 .. n /\ (k + 1) - 1 = k
    BY <1>2
  <2>2. r(k + 1) = Op(ctx, r(k), seq[k + 1])
    BY <1>1, <2>1
  <2> QED
    BY <1>2, <1>3, <1>5, <2>1, <2>2
<1>6. \A k \in 0 .. n : k \in T
  <2> HIDE DEF T
  <2> QED
    BY <1>2, <1>4, <1>5, UpTo
<1> QED
  BY <1>1, <1>2, <1>6

\* The same of what depends on how many elements there were.
THEOREM FoldInvariantAt ==
    ASSUME NEW ctx, NEW base, NEW S, NEW seq \in Seq(S), NEW J, <<0, base>> \in J,
           \A k \in 1 .. Len(seq) : \A acc :
                <<k - 1, acc>> \in J => <<k, Op(ctx, acc, seq[k])>> \in J
    PROVE  <<Len(seq), Fold(ctx, base, seq)>> \in J
<1> DEFINE r(k) == After(ctx, base, seq, k)
           n == Len(seq)
           T == {k \in 0 .. n : <<k, r(k)>> \in J}
<1>1. r(0) = base
  BY AfterNone
<1>2. \A k \in 1 .. n : r(k) = Op(ctx, r(k - 1), seq[k])
  BY AfterSteps
<1>3. Fold(ctx, base, seq) = r(n)
  BY FoldIsAfter
<1>4. n \in Nat
  BY LenProperties
<1>5. \A k \in 1 .. n : \A acc :
            <<k - 1, acc>> \in J => <<k, Op(ctx, acc, seq[k])>> \in J
  OBVIOUS
<1> HIDE DEF r, n
<1>6. 0 \in T
  BY <1>1, <1>4
<1>7. ASSUME NEW k \in 0 .. n - 1, k \in T
      PROVE  k + 1 \in T
  <2>1. k + 1 \in 1 .. n /\ (k + 1) - 1 = k
    BY <1>4
  <2>2. r(k + 1) = Op(ctx, r(k), seq[k + 1])
    BY <1>2, <2>1
  <2>3. <<k + 1, Op(ctx, r(k), seq[k + 1])>> \in J
    <3>1. <<(k + 1) - 1, r(k)>> \in J
      BY <1>7, <2>1
    <3> QED
      BY <1>5, <2>1, <3>1
  <2> QED
    BY <1>4, <2>1, <2>2, <2>3
<1>8. \A k \in 0 .. n : k \in T
  <2> HIDE DEF T
  <2> QED
    BY <1>4, <1>6, <1>7, UpTo
<1>9. n \in T
  BY <1>4, <1>8
<1> QED
  BY <1>3, <1>9 DEF n

\* A fold goes through accumulators of which each is the operator's result on
\* the one before it and the next element.
THEOREM FoldSteps ==
    ASSUME NEW ctx, NEW base, NEW S, NEW seq \in Seq(S)
    PROVE  \E r : /\ r[0] = base
                  /\ \A k \in 1 .. Len(seq) : r[k] = Op(ctx, r[k - 1], seq[k])
                  /\ Fold(ctx, base, seq) = r[Len(seq)]
<1> DEFINE n == Len(seq)
           r == [k \in 0 .. n |-> After(ctx, base, seq, k)]
<1>1. n \in Nat
  BY LenProperties
<1>2. After(ctx, base, seq, 0) = base
  BY AfterNone
<1>3. \A k \in 1 .. n :
            After(ctx, base, seq, k) = Op(ctx, After(ctx, base, seq, k - 1), seq[k])
  BY AfterSteps
<1>4. Fold(ctx, base, seq) = After(ctx, base, seq, n)
  BY FoldIsAfter
<1>5. \A k \in 0 .. n : r[k] = After(ctx, base, seq, k)
  OBVIOUS
<1> HIDE DEF r
<1>6. r[0] = base /\ Fold(ctx, base, seq) = r[n]
  BY <1>1, <1>2, <1>4, <1>5
<1>7. ASSUME NEW k \in 1 .. n
      PROVE  r[k] = Op(ctx, r[k - 1], seq[k])
  <2>1. k \in 0 .. n /\ k - 1 \in 0 .. n
    BY <1>1
  <2> QED
    BY <1>3, <1>5, <2>1
<1> QED
  BY <1>6, <1>7

LEMMA FoldNone ==
    ASSUME NEW ctx, NEW base
    PROVE  Fold(ctx, base, <<>>) = base
<1> DEFINE empty == <<>>
<1>1. empty \in Seq({}) /\ Len(empty) = 0
  OBVIOUS
<1> HIDE DEF empty
<1>2. After(ctx, base, empty, 0) = base
  BY <1>1, AfterNone
<1>3. Fold(ctx, base, empty) = After(ctx, base, empty, Len(empty))
  BY <1>1, FoldIsAfter
<1> QED
  BY <1>1, <1>2, <1>3 DEF empty

\* Appending an element takes the fold one step further.
THEOREM FoldAppend ==
    ASSUME NEW ctx, NEW base, NEW S, NEW seq \in Seq(S), NEW e \in S
    PROVE  Fold(ctx, base, Append(seq, e)) = Op(ctx, Fold(ctx, base, seq), e)
<1> DEFINE n == Len(seq)
           longer == Append(seq, e)
<1>0. longer \in Seq(S)
  BY AppendProperties
<1>1. /\ Len(longer) = n + 1
      /\ \A k \in 1 .. n : longer[k] = seq[k]
      /\ longer[n + 1] = e
  BY AppendProperties
<1>2. n \in Nat
  BY LenProperties
<1>3. PICK r : /\ r[0] = base
               /\ \A k \in 1 .. Len(seq) : r[k] = Op(ctx, r[k - 1], seq[k])
               /\ Fold(ctx, base, seq) = r[Len(seq)]
  BY FoldSteps
<1> HIDE DEF longer
<1>4. PICK q : /\ q[0] = base
               /\ \A k \in 1 .. Len(longer) : q[k] = Op(ctx, q[k - 1], longer[k])
               /\ Fold(ctx, base, longer) = q[Len(longer)]
  BY <1>0, FoldSteps
<1> HIDE DEF n
<1> DEFINE T == {k \in 0 .. n : r[k] = q[k]}
<1>5. 0 \in T
  BY <1>2, <1>3, <1>4
<1>6. ASSUME NEW k \in 0 .. n - 1, k \in T
      PROVE  k + 1 \in T
  <2>1. k + 1 \in 1 .. n /\ k + 1 \in 1 .. n + 1 /\ (k + 1) - 1 = k /\ r[k] = q[k]
    BY <1>2, <1>6
  <2>2. r[k + 1] = Op(ctx, r[k], seq[k + 1])
    BY <1>3, <2>1 DEF n
  <2>3. q[k + 1] = Op(ctx, q[k], longer[k + 1])
    BY <1>1, <1>4, <2>1
  <2>4. longer[k + 1] = seq[k + 1]
    BY <1>1, <2>1
  <2> QED
    BY <1>2, <2>1, <2>2, <2>3, <2>4
<1>7. \A k \in 0 .. n : k \in T
  <2> HIDE DEF T
  <2> QED
    BY <1>2, <1>5, <1>6, UpTo
<1>8. r[n] = q[n]
  BY <1>2, <1>7
<1>9. q[n + 1] = Op(ctx, q[n], e)
  <2>1. n + 1 \in 1 .. n + 1 /\ (n + 1) - 1 = n
    BY <1>2
  <2> QED
    BY <1>1, <1>4, <2>1
<1> QED
  BY <1>1, <1>3, <1>4, <1>8, <1>9 DEF n, longer
=============================================================================
