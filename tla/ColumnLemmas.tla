---------------------------- MODULE ColumnLemmas ----------------------------
(***************************************************************************)
(* What the other proofs need to know of sequences of columns: what taking *)
(* an element out, or putting one in, does; and of shapes: what their      *)
(* elements amount to, and when an int can count them.                     *)
(***************************************************************************)
EXTENDS ColumnInfos, SequenceTheorems, TLAPS

(***************************************************************************)
(* Sequences                                                               *)
(***************************************************************************)
LEMMA SameFunction ==
    ASSUME NEW D, NEW R, NEW f \in [D -> R], NEW g \in [D -> R], \A d \in D : f[d] = g[d]
    PROVE  f = g
OBVIOUS

\* t is s without what was at place i.
Shrinks(t, s, i, S) ==
    /\ t \in Seq(S)
    /\ Len(t) = Len(s) - 1
    /\ \A j \in 1 .. i - 1 : t[j] = s[j]
    /\ \A j \in i .. Len(s) - 1 : t[j] = s[j + 1]

LEMMA RemoveAtElements ==
    ASSUME NEW S, NEW s \in Seq(S), NEW i \in 1 .. Len(s)
    PROVE  Shrinks(RemoveAt(s, i), s, i, S)
<1> DEFINE n == Len(s)
           front == SubSeq(s, 1, i - 1)
           back == SubSeq(s, i + 1, Len(s))
           whole == front \o back
<1>1. n \in Nat /\ i \in 1 .. n /\ \A j \in 1 .. n : s[j] \in S
  BY ElementOfSeq, LenProperties
<1>2. /\ front \in Seq(S)
      /\ Len(front) = i - 1
      /\ \A j \in 1 .. i - 1 : front[j] = s[j]
  <2>1. \A j \in 1 .. i - 1 : s[j] \in S
    BY <1>1
  <2> QED
    BY <1>1, <2>1, SubSeqProperties
<1>3. /\ back \in Seq(S)
      /\ Len(back) = n - i
      /\ \A j \in 1 .. n - i : back[j] = s[i + j]
  <2>1. \A j \in i + 1 .. Len(s) : s[j] \in S
    BY <1>1
  <2> QED
    BY <1>1, <2>1, SubSeqProperties
<1>4. RemoveAt(s, i) = whole
  BY DEF RemoveAt
<1> HIDE DEF front, back
<1>5. /\ whole \in Seq(S)
      /\ Len(whole) = n - 1
      /\ \A j \in 1 .. n - 1 : whole[j] = IF j <= i - 1 THEN front[j] ELSE back[j - (i - 1)]
  <2>1. /\ whole \in Seq(S)
        /\ Len(whole) = Len(front) + Len(back)
        /\ \A j \in 1 .. Len(front) + Len(back) :
                whole[j] = IF j <= Len(front) THEN front[j] ELSE back[j - Len(front)]
    BY <1>2, <1>3, ConcatProperties
  <2>2. Len(front) + Len(back) = n - 1
    BY <1>1, <1>2, <1>3
  <2> QED
    BY <1>2, <2>1, <2>2
<1> HIDE DEF whole, n
<1>6. ASSUME NEW j \in 1 .. i - 1
      PROVE  whole[j] = s[j]
  <2>1. j \in 1 .. n - 1 /\ j <= i - 1
    BY <1>1
  <2> QED
    BY <1>2, <1>5, <2>1
<1>7. ASSUME NEW j \in i .. n - 1
      PROVE  whole[j] = s[j + 1]
  <2>1. j \in 1 .. n - 1 /\ ~ (j <= i - 1) /\ j - (i - 1) \in 1 .. n - i /\ i + (j - (i - 1)) = j + 1
    BY <1>1
  <2> QED
    BY <1>3, <1>5, <2>1
<1> QED
  BY <1>4, <1>5, <1>6, <1>7 DEF Shrinks, n

LEMMA RemoveAtProperties ==
    ASSUME NEW S, NEW s \in Seq(S), NEW i \in 1 .. Len(s)
    PROVE  /\ RemoveAt(s, i) \in Seq(S)
           /\ Len(RemoveAt(s, i)) = Len(s) - 1
           /\ \A j \in 1 .. i - 1 : RemoveAt(s, i)[j] = s[j]
BY RemoveAtElements DEF Shrinks

\* There is only one such sequence.
LEMMA ShrinksOnce ==
    ASSUME NEW S, NEW s, Len(s) \in Nat \ {0}, NEW i \in 1 .. Len(s),
           NEW t, NEW u, Shrinks(t, s, i, S), Shrinks(u, s, i, S)
    PROVE  t = u
<1> DEFINE D == 1 .. Len(s) - 1
<1>1. t \in [D -> S] /\ u \in [D -> S]
  BY LenProperties DEF Shrinks
<1>2. \A j \in D : j \in 1 .. i - 1 \/ j \in i .. Len(s) - 1
  OBVIOUS
<1>3. \A j \in D : t[j] = u[j]
  BY <1>2 DEF Shrinks
<1> HIDE DEF D
<1> QED
  BY <1>1, <1>3, SameFunction

\* t is s with e at place i, and what was there and after it one place on.
Grows(t, s, i, e, S) ==
    /\ t \in Seq(S)
    /\ Len(t) = Len(s) + 1
    /\ i \in 1 .. Len(s) + 1
    /\ t[i] = e
    /\ \A j \in 1 .. i - 1 : t[j] = s[j]
    /\ \A j \in i + 1 .. Len(s) + 1 : t[j] = s[j - 1]

LEMMA InsertAtProperties ==
    ASSUME NEW S, NEW s \in Seq(S), NEW e \in S, NEW i \in 1 .. Len(s) + 1
    PROVE  Grows(InsertAt(s, i, e), s, i, e, S)
<1> DEFINE n == Len(s)
           front == SubSeq(s, 1, i - 1)
           back == SubSeq(s, i, Len(s))
<1>1. n \in Nat /\ \A j \in 1 .. n : s[j] \in S
  BY ElementOfSeq, LenProperties
<1>2. /\ front \in Seq(S)
      /\ Len(front) = i - 1
      /\ \A j \in 1 .. i - 1 : front[j] = s[j]
  <2>1. \A j \in 1 .. i - 1 : s[j] \in S
    BY <1>1
  <2> QED
    BY <1>1, <2>1, SubSeqProperties
<1>3. /\ back \in Seq(S)
      /\ Len(back) = n - i + 1
      /\ \A j \in 1 .. n - i + 1 : back[j] = s[i + j - 1]
  <2>1. \A j \in i .. Len(s) : s[j] \in S
    BY <1>1
  <2> QED
    BY <1>1, <2>1, SubSeqProperties
<1>4. <<e>> \in Seq(S) /\ Len(<<e>>) = 1 /\ <<e>>[1] = e
  OBVIOUS
<1> DEFINE middle == <<e>>
           half == front \o middle
           whole == half \o back
<1>5. InsertAt(s, i, e) = whole
  BY DEF InsertAt
<1> HIDE DEF front, back, middle
<1>6. middle \in Seq(S) /\ Len(middle) = 1 /\ middle[1] = e
  BY <1>4 DEF middle
<1>7. /\ half \in Seq(S)
      /\ Len(half) = i
      /\ \A j \in 1 .. i : half[j] = IF j <= i - 1 THEN front[j] ELSE middle[j - (i - 1)]
  <2>1. /\ half \in Seq(S)
        /\ Len(half) = Len(front) + Len(middle)
        /\ \A j \in 1 .. Len(front) + Len(middle) :
                half[j] = IF j <= Len(front) THEN front[j] ELSE middle[j - Len(front)]
    BY <1>2, <1>6, ConcatProperties
  <2>2. Len(front) + Len(middle) = i
    BY <1>1, <1>2, <1>6
  <2> QED
    BY <1>2, <2>1, <2>2
<1> HIDE DEF half
<1>8. /\ whole \in Seq(S)
      /\ Len(whole) = n + 1
      /\ \A j \in 1 .. n + 1 : whole[j] = IF j <= i THEN half[j] ELSE back[j - i]
  <2>1. /\ whole \in Seq(S)
        /\ Len(whole) = Len(half) + Len(back)
        /\ \A j \in 1 .. Len(half) + Len(back) :
                whole[j] = IF j <= Len(half) THEN half[j] ELSE back[j - Len(half)]
    BY <1>3, <1>7, ConcatProperties
  <2>2. Len(half) + Len(back) = n + 1
    BY <1>1, <1>3, <1>7
  <2> QED
    BY <1>7, <2>1, <2>2
<1> HIDE DEF whole, n
<1>9. i \in 1 .. n + 1
  BY DEF n
<1>10. whole[i] = e
  <2>1. i \in 1 .. n + 1 /\ i \in 1 .. i /\ ~ (i <= i - 1) /\ i - (i - 1) = 1 /\ i <= i
    BY <1>1, <1>9
  <2>2. whole[i] = half[i] /\ half[i] = middle[1]
    BY <1>7, <1>8, <2>1
  <2> QED
    BY <1>6, <2>2
<1>11. ASSUME NEW j \in 1 .. i - 1
       PROVE  whole[j] = s[j]
  <2>1. j \in 1 .. n + 1 /\ j \in 1 .. i /\ j <= i - 1 /\ j <= i
    BY <1>1, <1>9
  <2> QED
    BY <1>2, <1>7, <1>8, <2>1
<1>12. ASSUME NEW j \in i + 1 .. n + 1
       PROVE  whole[j] = s[j - 1]
  <2>1. j \in 1 .. n + 1 /\ ~ (j <= i) /\ j - i \in 1 .. n - i + 1 /\ i + (j - i) - 1 = j - 1
    BY <1>1, <1>9
  <2> QED
    BY <1>3, <1>8, <2>1
<1> QED
  BY <1>5, <1>8, <1>9, <1>10, <1>11, <1>12 DEF n, Grows

\* There is only one such sequence.
LEMMA GrowsOnce ==
    ASSUME NEW S, NEW s, Len(s) \in Nat, NEW i, NEW e,
           NEW t, NEW u, Grows(t, s, i, e, S), Grows(u, s, i, e, S)
    PROVE  t = u
<1> DEFINE D == 1 .. Len(s) + 1
<1>1. t \in [D -> S] /\ u \in [D -> S]
  BY LenProperties DEF Grows
<1>2. \A j \in D : j = i \/ j \in 1 .. i - 1 \/ j \in i + 1 .. Len(s) + 1
  BY DEF Grows
<1>3. \A j \in D : t[j] = u[j]
  BY <1>2 DEF Grows
<1> HIDE DEF D
<1> QED
  BY <1>1, <1>3, SameFunction

\* A function on the numbers 1 .. n is a sequence of length n.
LEMMA FunctionIsSeq ==
    ASSUME NEW S, NEW n \in Nat, NEW f \in [1 .. n -> S]
    PROVE  f \in Seq(S) /\ Len(f) = n
<1>1. \A i \in 1 .. n : f[i] \in S
  OBVIOUS
<1>2. f = [i \in 1 .. n |-> f[i]]
  OBVIOUS
<1>3. [i \in 1 .. n |-> f[i]] \in Seq(S)
  BY <1>1, IsASeq
<1>4. f \in Seq(S)
  BY <1>2, <1>3
<1>5. Len(f) \in Nat /\ DOMAIN f = 1 .. Len(f) /\ DOMAIN f = 1 .. n
  BY <1>4, LenProperties
<1> QED
  BY <1>4, <1>5

-----------------------------------------------------------------------------
(***************************************************************************)
(* Shapes                                                                  *)
(***************************************************************************)
\* The numbers which an int can count to, from 1.
Half == 2 ^ (IntBits - 1)
IntCounts == 1 .. Half - 1

LEMMA HalfType == Half \in Nat /\ Half >= 2
  BY IntBitsAssumption DEF Half

LEMMA ToIntKeeps ==
    ASSUME NEW x \in Int, - Half <= x, x < Half
    PROVE  ToInt(x) = x
<1> DEFINE d == 2 * Half
           y == x + Half
<1>1. d \in Nat /\ d > 0 /\ y \in 0 .. d - 1 /\ y - Half = x
  BY HalfType
<1> HIDE DEF d, y
<1>2. y % d = y
  BY <1>1
<1>3. ToInt(x) = (y % d) - Half
  BY DEF ToInt, d, y, Half
<1> QED
  BY <1>1, <1>2, <1>3

LEMMA ToIntRange ==
    ASSUME NEW x \in Int
    PROVE  ToInt(x) \in Int /\ - Half <= ToInt(x) /\ ToInt(x) < Half
<1> DEFINE d == 2 * Half
           y == x + Half
<1>1. d \in Nat /\ d > 0 /\ y \in Int
  BY HalfType
<1> HIDE DEF d, y
<1>2. y % d \in 0 .. d - 1
  BY <1>1
<1>3. ToInt(x) = (y % d) - Half
  BY DEF ToInt, d, y, Half
<1> QED
  BY <1>2, <1>3, HalfType DEF d

ProductOp(ctx, product, n) == product * n
NelemOp(ctx, product, n) == ToInt(product * n)
SqueezeOp(ctx, kept, n) == IF n = 1 THEN kept ELSE Append(kept, n)

Products == INSTANCE FoldTheory WITH Op <- ProductOp
Nelems == INSTANCE FoldTheory WITH Op <- NelemOp
Squeezes == INSTANCE FoldTheory WITH Op <- SqueezeOp

LEMMA ProductIsFold == ASSUME NEW e PROVE Product(e) = Products!Fold(0, 1, e)
BY DEF Product, ProductOp, Products!Fold, Products!FoldLeft, FoldLeft,
       Products!MapThenFoldSet, MapThenFoldSet, Products!Max, Max

LEMMA NelemIsFold == ASSUME NEW e PROVE Nelem(e) = Nelems!Fold(0, 1, e)
BY DEF Nelem, NelemOp, Nelems!Fold, Nelems!FoldLeft, FoldLeft,
       Nelems!MapThenFoldSet, MapThenFoldSet, Nelems!Max, Max

LEMMA SqueezeIsFold == ASSUME NEW e PROVE Squeeze(e) = Squeezes!Fold(0, <<>>, e)
BY DEF Squeeze, SqueezeOp, Squeezes!Fold, Squeezes!FoldLeft, FoldLeft,
       Squeezes!MapThenFoldSet, MapThenFoldSet, Squeezes!Max, Max

LEMMA ProductNone == Product(<<>>) = 1
BY ProductIsFold, Products!FoldNone

LEMMA ProductAppend ==
    ASSUME NEW e \in Seq(Nat), NEW n \in Nat
    PROVE  Product(Append(e, n)) = Product(e) * n
BY ProductIsFold, Products!FoldAppend DEF ProductOp

LEMMA NelemNone == Nelem(<<>>) = 1
BY NelemIsFold, Nelems!FoldNone

LEMMA NelemAppend ==
    ASSUME NEW e \in Seq(Nat), NEW n \in Nat
    PROVE  Nelem(Append(e, n)) = ToInt(Nelem(e) * n)
BY NelemIsFold, Nelems!FoldAppend DEF NelemOp

LEMMA ProductType ==
    ASSUME NEW e \in Seq(Nat)
    PROVE  Product(e) \in Nat
<1>1. ASSUME NEW k \in 1 .. Len(e), NEW acc \in Nat
      PROVE  ProductOp(0, acc, e[k]) \in Nat
  <2>1. e[k] \in Nat
    BY ElementOfSeq
  <2> QED
    BY <2>1 DEF ProductOp
<1>2. Products!Fold(0, 1, e) \in Nat
  <2>1. 1 \in Nat
    OBVIOUS
  <2> QED
    BY <1>1, <2>1, Products!FoldInvariant
<1> QED
  BY <1>2, ProductIsFold

\* The shapes with as many elements as an int can count.
CountedShape == {e \in Seq(Nat) : Product(e) \in IntCounts}

\* A product which has left the numbers an int counts to does not come back.
LEMMA NelemIsProduct ==
    ASSUME NEW e \in CountedShape
    PROVE  Nelem(e) = Product(e)
<1> DEFINE n == Len(e)
<1>1. n \in Nat /\ \A k \in 1 .. n : e[k] \in Nat
  BY LenProperties, ElementOfSeq DEF CountedShape
<1>2. PICK p : /\ p[0] = 1
               /\ \A k \in 1 .. n : p[k] = p[k - 1] * e[k]
               /\ Product(e) = p[n]
  BY ProductIsFold, Products!FoldSteps DEF ProductOp, CountedShape
<1>3. PICK c : /\ c[0] = 1
               /\ \A k \in 1 .. n : c[k] = ToInt(c[k - 1] * e[k])
               /\ Nelem(e) = c[n]
  BY NelemIsFold, Nelems!FoldSteps DEF NelemOp, CountedShape
<1> HIDE DEF n
<1> DEFINE Lost(x) == x \in Nat /\ (x = 0 \/ x >= Half)
           T == {k \in 0 .. n : (p[k] \in IntCounts /\ c[k] = p[k]) \/ Lost(p[k])}
<1>4. 0 \in T
  BY <1>1, <1>2, <1>3, HalfType DEF IntCounts
<1>5. ASSUME NEW k \in 0 .. n - 1, k \in T
      PROVE  k + 1 \in T
  <2>1. k + 1 \in 1 .. n /\ (k + 1) - 1 = k
    BY <1>1
  <2> DEFINE x == p[k]
             y == e[k + 1]
  <2>2. y \in Nat /\ p[k + 1] = x * y /\ c[k + 1] = ToInt(c[k] * y)
    BY <1>1, <1>2, <1>3, <2>1
  <2>3. x \in Nat /\ ((x \in IntCounts /\ c[k] = x) \/ Lost(x))
    BY <1>5 DEF IntCounts
  <2> HIDE DEF x, y
  <2>4. x * y \in Nat
    BY <2>2, <2>3
  <2>5. CASE Lost(x)
    <3>1. x * y = 0 \/ (x # 0 /\ x * y >= x)
      BY <2>2, <2>3
    <3>2. Lost(x * y)
      <4> DEFINE z == x * y
      <4>1. z \in Nat /\ (z = 0 \/ (x # 0 /\ z >= x))
        BY <2>4, <3>1
      <4> HIDE DEF z
      <4>2. Lost(z)
        BY <2>3, <2>5, <4>1, HalfType
      <4> QED
        BY <4>2 DEF z
    <3> QED
      BY <1>1, <2>1, <2>2, <3>2
  <2>6. CASE x \in IntCounts /\ c[k] = x
    <3>1. CASE x * y \in IntCounts
      <4>1. x * y \in Int /\ - Half <= x * y /\ x * y < Half
        BY <3>1, HalfType DEF IntCounts
      <4>2. ToInt(x * y) = x * y
        BY <4>1, ToIntKeeps
      <4> QED
        BY <1>1, <2>1, <2>2, <2>6, <3>1, <4>2
    <3>2. CASE x * y \notin IntCounts
      <4>1. Lost(x * y)
        BY <2>4, <3>2, HalfType DEF IntCounts
      <4> QED
        BY <1>1, <2>1, <2>2, <4>1
    <3> QED
      BY <3>1, <3>2
  <2> QED
    BY <2>3, <2>5, <2>6
<1>6. \A k \in 0 .. n : k \in T
  <2> HIDE DEF T
  <2> QED
    BY <1>1, <1>4, <1>5, Products!UpTo
<1>7. n \in T /\ p[n] \in IntCounts
  BY <1>1, <1>2, <1>6 DEF CountedShape
<1>8. ~ Lost(p[n])
  BY <1>7, HalfType DEF IntCounts
<1> QED
  BY <1>2, <1>3, <1>7, <1>8

LEMMA SqueezeNone == Squeeze(<<>>) = <<>>
BY SqueezeIsFold, Squeezes!FoldNone

LEMMA SqueezeAppend ==
    ASSUME NEW e \in Seq(Nat), NEW n \in Nat
    PROVE  Squeeze(Append(e, n)) = IF n = 1 THEN Squeeze(e) ELSE Append(Squeeze(e), n)
BY SqueezeIsFold, Squeezes!FoldAppend DEF SqueezeOp

LEMMA SqueezeSteps ==
    ASSUME NEW e \in Seq(Nat)
    PROVE  \E s : /\ s[0] = <<>>
                  /\ \A k \in 1 .. Len(e) : s[k] = SqueezeOp(0, s[k - 1], e[k])
                  /\ Squeeze(e) = s[Len(e)]
<1> DEFINE none == <<>>
<1>1. Squeeze(e) = Squeezes!Fold(0, none, e)
  BY SqueezeIsFold
<1> HIDE DEF none
<1>2. \E s : /\ s[0] = none
             /\ \A k \in 1 .. Len(e) : s[k] = SqueezeOp(0, s[k - 1], e[k])
             /\ Squeeze(e) = s[Len(e)]
  BY <1>1, Squeezes!FoldSteps
<1> QED
  BY <1>2 DEF none

LEMMA SqueezeType ==
    ASSUME NEW e \in Seq(Nat)
    PROVE  Squeeze(e) \in Seq(Nat \ {1}) /\ Len(Squeeze(e)) <= Len(e)
<1> DEFINE J == {at \in Nat \X Seq(Nat \ {1}) : Len(at[2]) <= at[1]}
<1>1. <<0, <<>>>> \in J
  <2> DEFINE none == <<>>
             shapes == Seq(Nat \ {1})
             at == <<0, none>>
  <2>1. none \in shapes /\ Len(none) = 0
    OBVIOUS
  <2> HIDE DEF none, shapes
  <2>2. at \in Nat \X shapes /\ Len(at[2]) <= at[1]
    BY <2>1
  <2> QED
    BY <2>2 DEF at, none, shapes
<1>2. ASSUME NEW k \in 1 .. Len(e), NEW acc, <<k - 1, acc>> \in J
      PROVE  <<k, SqueezeOp(0, acc, e[k])>> \in J
  <2>1. Len(e) \in Nat /\ e[k] \in Nat
    BY LenProperties, ElementOfSeq
  <2>2. k - 1 \in Nat /\ acc \in Seq(Nat \ {1}) /\ Len(acc) <= k - 1 /\ Len(acc) \in Nat
    BY <1>2, LenProperties
  <2>3. CASE e[k] = 1
    BY <2>1, <2>2, <2>3 DEF SqueezeOp
  <2>4. CASE e[k] # 1
    <3>1. Append(acc, e[k]) \in Seq(Nat \ {1}) /\ Len(Append(acc, e[k])) = Len(acc) + 1
      BY <2>1, <2>2, <2>4, AppendProperties
    <3>2. SqueezeOp(0, acc, e[k]) = Append(acc, e[k])
      BY <2>4 DEF SqueezeOp
    <3> DEFINE longer == Append(acc, e[k])
    <3>3. longer \in Seq(Nat \ {1}) /\ Len(longer) <= k /\ k \in Nat
      BY <2>1, <2>2, <3>1
    <3> HIDE DEF longer
    <3>4. <<k, longer>> \in J
      BY <3>3
    <3> QED
      BY <3>2, <3>4 DEF longer
  <2> QED
    BY <2>3, <2>4
<1>3. <<Len(e), Squeezes!Fold(0, <<>>, e)>> \in J
  <2> HIDE DEF J
  <2> QED
    BY <1>1, <1>2, Squeezes!FoldInvariantAt
<1> QED
  BY <1>3, SqueezeIsFold

LEMMA SqueezedIsShape ==
    ASSUME NEW e \in Seq(Nat)
    PROVE  Squeeze(e) \in Seq(Nat)
<1>1. Squeeze(e) \in Seq(Nat \ {1})
  BY SqueezeType
<1>2. Seq(Nat \ {1}) \subseteq Seq(Nat)
  <2>1. ASSUME NEW s \in Seq(Nat \ {1})
        PROVE  s \in Seq(Nat)
    <3>1. Len(s) \in Nat /\ s = [i \in 1 .. Len(s) |-> s[i]]
      BY LenProperties
    <3>2. \A i \in 1 .. Len(s) : s[i] \in Nat
      BY ElementOfSeq
    <3>3. [i \in 1 .. Len(s) |-> s[i]] \in Seq(Nat)
      BY <3>1, <3>2, IsASeq
    <3> QED
      BY <3>1, <3>3
  <2> QED
    BY <2>1
<1> QED
  BY <1>1, <1>2

\* Axes of length 1 add nothing to the count.
LEMMA SqueezeKeepsProduct ==
    ASSUME NEW e \in Seq(Nat)
    PROVE  Product(Squeeze(e)) = Product(e)
<1> DEFINE n == Len(e)
<1>1. n \in Nat /\ \A k \in 1 .. n : e[k] \in Nat
  BY LenProperties, ElementOfSeq
<1>2. PICK p : /\ p[0] = 1
               /\ \A k \in 1 .. n : p[k] = p[k - 1] * e[k]
               /\ Product(e) = p[n]
  BY ProductIsFold, Products!FoldSteps DEF ProductOp
<1>3. PICK s : /\ s[0] = <<>>
               /\ \A k \in 1 .. n : s[k] = SqueezeOp(0, s[k - 1], e[k])
               /\ Squeeze(e) = s[n]
  BY SqueezeSteps
<1> HIDE DEF n
<1> DEFINE T == {k \in 0 .. n : s[k] \in Seq(Nat) /\ Product(s[k]) = p[k] /\ p[k] \in Nat}
<1>4. 0 \in T
  <2>1. s[0] \in Seq(Nat) /\ Product(s[0]) = 1
    BY <1>3, ProductNone
  <2> QED
    BY <1>1, <1>2, <2>1
<1>5. ASSUME NEW k \in 0 .. n - 1, k \in T
      PROVE  k + 1 \in T
  <2>1. k + 1 \in 1 .. n /\ k + 1 \in 0 .. n /\ (k + 1) - 1 = k
    BY <1>1
  <2> DEFINE y == e[k + 1]
  <2>2. y \in Nat /\ p[k + 1] = p[k] * y /\ s[k + 1] = SqueezeOp(0, s[k], y)
    BY <1>1, <1>2, <1>3, <2>1
  <2>3. s[k] \in Seq(Nat) /\ Product(s[k]) = p[k] /\ p[k] \in Nat
    BY <1>5
  <2> HIDE DEF y
  <2>4. p[k] * y \in Nat
    BY <2>2, <2>3
  <2>5. CASE y = 1
    <3>1. p[k] * y = p[k]
      BY <2>3, <2>5
    <3> QED
      BY <2>1, <2>2, <2>3, <2>5, <3>1 DEF SqueezeOp
  <2>6. CASE y # 1
    <3>1. s[k + 1] = Append(s[k], y)
      BY <2>2, <2>6 DEF SqueezeOp
    <3>2. Append(s[k], y) \in Seq(Nat)
      BY <2>2, <2>3, AppendProperties
    <3>3. Product(Append(s[k], y)) = Product(s[k]) * y
      BY <2>2, <2>3, ProductAppend
    <3> QED
      BY <2>1, <2>2, <2>3, <2>4, <3>1, <3>2, <3>3
  <2> QED
    BY <2>5, <2>6
<1>6. \A k \in 0 .. n : k \in T
  <2> HIDE DEF T
  <2> QED
    BY <1>1, <1>4, <1>5, Products!UpTo
<1> QED
  BY <1>1, <1>2, <1>3, <1>6

LEMMA SqueezeKeepsNelem ==
    ASSUME NEW e \in Seq(Nat)
    PROVE  Nelem(Squeeze(e)) = Nelem(e) /\ Nelem(e) \in Int /\ - Half <= Nelem(e) /\ Nelem(e) < Half
<1> DEFINE n == Len(e)
           InRange(x) == x \in Int /\ - Half <= x /\ x < Half
<1>1. n \in Nat /\ \A k \in 1 .. n : e[k] \in Nat
  BY LenProperties, ElementOfSeq
<1>2. PICK p : /\ p[0] = 1
               /\ \A k \in 1 .. n : p[k] = ToInt(p[k - 1] * e[k])
               /\ Nelem(e) = p[n]
  BY NelemIsFold, Nelems!FoldSteps DEF NelemOp
<1>3. PICK s : /\ s[0] = <<>>
               /\ \A k \in 1 .. n : s[k] = SqueezeOp(0, s[k - 1], e[k])
               /\ Squeeze(e) = s[n]
  BY SqueezeSteps
<1> HIDE DEF n
<1> DEFINE T == {k \in 0 .. n : s[k] \in Seq(Nat) /\ Nelem(s[k]) = p[k] /\ InRange(p[k])}
<1>4. 0 \in T
  <2>1. s[0] \in Seq(Nat) /\ Nelem(s[0]) = 1
    BY <1>3, NelemNone
  <2> QED
    BY <1>1, <1>2, <2>1, HalfType
<1>5. ASSUME NEW k \in 0 .. n - 1, k \in T
      PROVE  k + 1 \in T
  <2>1. k + 1 \in 1 .. n /\ k + 1 \in 0 .. n /\ (k + 1) - 1 = k
    BY <1>1
  <2> DEFINE y == e[k + 1]
  <2>2. y \in Nat /\ p[k + 1] = ToInt(p[k] * y) /\ s[k + 1] = SqueezeOp(0, s[k], y)
    BY <1>1, <1>2, <1>3, <2>1
  <2>3. s[k] \in Seq(Nat) /\ Nelem(s[k]) = p[k] /\ InRange(p[k])
    BY <1>5
  <2> HIDE DEF y
  <2>4. p[k] * y \in Int
    BY <2>2, <2>3
  <2>5. CASE y = 1
    <3>1. p[k] * y = p[k]
      BY <2>3, <2>5
    <3>2. ToInt(p[k]) = p[k]
      BY <2>3, ToIntKeeps
    <3>3. s[k + 1] = s[k] /\ p[k + 1] = p[k]
      BY <2>2, <2>5, <3>1, <3>2 DEF SqueezeOp
    <3> QED
      BY <2>1, <2>3, <3>3
  <2>6. CASE y # 1
    <3>1. s[k + 1] = Append(s[k], y)
      BY <2>2, <2>6 DEF SqueezeOp
    <3>2. Append(s[k], y) \in Seq(Nat)
      BY <2>2, <2>3, AppendProperties
    <3>3. Nelem(Append(s[k], y)) = ToInt(Nelem(s[k]) * y)
      BY <2>2, <2>3, NelemAppend
    <3>4. InRange(ToInt(p[k] * y))
      BY <2>4, ToIntRange
    <3> QED
      BY <2>1, <2>2, <2>3, <3>1, <3>2, <3>3, <3>4
  <2> QED
    BY <2>5, <2>6
<1>6. \A k \in 0 .. n : k \in T
  <2> HIDE DEF T
  <2> QED
    BY <1>1, <1>4, <1>5, Products!UpTo
<1> QED
  BY <1>1, <1>2, <1>3, <1>6

LEMMA OneAxis ==
    ASSUME NEW n \in Nat
    PROVE  /\ Product(<<n>>) = n
           /\ Squeeze(<<n>>) = IF n = 1 THEN <<>> ELSE <<n>>
<1>1. <<>> \in Seq(Nat) /\ <<n>> = Append(<<>>, n)
  OBVIOUS
<1>2. Product(Append(<<>>, n)) = 1 * n
  BY <1>1, ProductAppend, ProductNone
<1>3. Squeeze(Append(<<>>, n)) = IF n = 1 THEN <<>> ELSE Append(<<>>, n)
  BY <1>1, SqueezeAppend, SqueezeNone
<1> QED
  BY <1>1, <1>2, <1>3

LEMMA TwoAxes ==
    ASSUME NEW m \in Nat, NEW n \in Nat
    PROVE  /\ Product(<<m, n>>) = m * n
           /\ n = 1 => Squeeze(<<m, n>>) = Squeeze(<<m>>)
<1>1. <<m>> \in Seq(Nat) /\ <<m, n>> = Append(<<m>>, n)
  OBVIOUS
<1>2. Product(Append(<<m>>, n)) = m * n
  BY <1>1, ProductAppend, OneAxis
<1>3. n = 1 => Squeeze(Append(<<m>>, n)) = Squeeze(<<m>>)
  BY <1>1, SqueezeAppend
<1> QED
  BY <1>1, <1>2, <1>3

\* A shape of at most one axis is that of a vector of all its elements.
LEMMA FlatShape ==
    ASSUME NEW e \in Seq(Nat), Naxes(Squeeze(e)) <= 1
    PROVE  Squeeze(<<Product(e)>>) = Squeeze(e)
<1> DEFINE s == Squeeze(e)
<1>1. s \in Seq(Nat \ {1}) /\ Len(s) \in Nat /\ Len(s) <= 1
  BY SqueezeType, LenProperties DEF Naxes
<1>2. Product(s) = Product(e)
  BY SqueezeKeepsProduct
<1> HIDE DEF s
<1>3. CASE Len(s) = 0
  <2>1. s = <<>>
    BY <1>1, <1>3
  <2>2. Product(e) = 1
    BY <1>2, <2>1, ProductNone
  <2> QED
    BY <2>1, <2>2, OneAxis DEF s
<1>4. CASE Len(s) = 1
  <2>1. s[1] \in Nat /\ s[1] # 1
    <3>1. 1 \in 1 .. Len(s) /\ s \in Seq(Nat \ {1})
      BY <1>1, <1>4
    <3>2. s[1] \in Nat \ {1}
      BY <3>1, ElementOfSeq
    <3> QED
      BY <3>2
  <2>0. s = <<s[1]>>
    <3>1. s \in Seq(Nat \ {1}) /\ Len(s) = 1
      BY <1>1, <1>4
    <3> QED
      BY <3>1
  <2>2. Product(e) = s[1]
    BY <1>2, <2>0, <2>1, OneAxis
  <2>3. Squeeze(<<s[1]>>) = <<s[1]>>
    BY <2>1, OneAxis
  <2> QED
    BY <2>0, <2>1, <2>2, <2>3 DEF s
<1> QED
  BY <1>1, <1>3, <1>4

-----------------------------------------------------------------------------
(***************************************************************************)
(* Columns                                                                 *)
(***************************************************************************)
LEMMA TformCounts ==
    ASSUME NEW e \in Seq(Nat)
    PROVE  /\ TformRepeat(e) \in IntCounts
           /\ e \in CountedShape => TformRepeat(e) = Product(e)
<1>1. Nelem(e) \in Int /\ Nelem(e) < Half
  BY SqueezeKeepsNelem
<1>2. TformRepeat(e) \in IntCounts
  BY <1>1, HalfType DEF TformRepeat, IntCounts
<1>3. ASSUME e \in CountedShape
      PROVE  TformRepeat(e) = Product(e)
  <2>1. Nelem(e) = Product(e) /\ Product(e) \in IntCounts
    BY <1>3, NelemIsProduct DEF CountedShape
  <2> QED
    BY <2>1, HalfType DEF TformRepeat, IntCounts
<1> QED
  BY <1>2, <1>3

\* The place at which a column comes to stand.
InsertedAt(n, colnum) == IF colnum > n THEN n + 1 ELSE colnum

LEMMA InsertColElements ==
    ASSUME NEW S, NEW s \in Seq(S), NEW e \in S, NEW colnum \in Nat \ {0}
    PROVE  Grows(InsertCol(s, colnum, e), s, InsertedAt(Len(s), colnum), e, S)
<1>1. Len(s) \in Nat
  BY LenProperties
<1>2. CASE colnum > Len(s)
  <2>1. InsertCol(s, colnum, e) = Append(s, e) /\ InsertedAt(Len(s), colnum) = Len(s) + 1
    BY <1>2 DEF InsertCol, InsertedAt
  <2>2. /\ Append(s, e) \in Seq(S)
        /\ Len(Append(s, e)) = Len(s) + 1
        /\ \A j \in 1 .. Len(s) : Append(s, e)[j] = s[j]
        /\ Append(s, e)[Len(s) + 1] = e
    BY AppendProperties
  <2>3. Grows(Append(s, e), s, Len(s) + 1, e, S)
    BY <1>1, <2>2 DEF Grows
  <2> QED
    BY <2>1, <2>3
<1>3. CASE ~ colnum > Len(s)
  <2>1. colnum \in 1 .. Len(s)
    BY <1>1, <1>3
  <2>2. InsertCol(s, colnum, e) = InsertAt(s, colnum, e) /\ InsertedAt(Len(s), colnum) = colnum
    BY <1>3 DEF InsertCol, InsertedAt
  <2>3. Grows(InsertAt(s, colnum, e), s, colnum, e, S)
    BY <2>1, InsertAtProperties
  <2> QED
    BY <2>2, <2>3
<1> QED
  BY <1>2, <1>3

\* The column which ColumnInfo::insert adds.
ShapedColumn(ttype, type, extent) ==
    IF NeedsTdim(extent)
    THEN [NewColumn(ttype, StoredType(type), TformRepeat(extent)) EXCEPT !.tdim = extent]
    ELSE NewColumn(ttype, StoredType(type), TformRepeat(extent))

\* Its two calls amount to the insertion of one column.
LEMMA InsertedIsOneColumn ==
    ASSUME NEW S, NEW cols \in Seq(S), NEW ttype, NEW type, NEW extent, NEW colnum \in Nat \ {0},
           ~ TdimMisses(cols, extent, colnum),
           NewColumn(ttype, StoredType(type), TformRepeat(extent)) \in S,
           ShapedColumn(ttype, type, extent) \in S
    PROVE  Inserted(cols, ttype, type, extent, colnum) =
                InsertCol(cols, colnum, ShapedColumn(ttype, type, extent))
<1> DEFINE bare == NewColumn(ttype, StoredType(type), TformRepeat(extent))
           full == ShapedColumn(ttype, type, extent)
           n == Len(cols)
<1>1. CASE ~ NeedsTdim(extent)
  BY <1>1 DEF Inserted, InsertedBare, ShapedColumn
<1>2. CASE NeedsTdim(extent)
  <2>1. full = [bare EXCEPT !.tdim = extent]
    BY <1>2 DEF ShapedColumn
  <2>2. Inserted(cols, ttype, type, extent, colnum) =
            [InsertCol(cols, colnum, bare) EXCEPT ![colnum].tdim = extent]
    BY <1>2 DEF Inserted, InsertedBare, WriteTdim
  <2>3. n \in Nat /\ colnum <= n + 1
    BY <1>2, LenProperties DEF TdimMisses
  <2>4. colnum = InsertedAt(Len(cols), colnum)
    BY <2>3 DEF InsertedAt
  <2>5. bare \in S /\ full \in S
    OBVIOUS
  <2> HIDE DEF bare, full
  <2> DEFINE f == InsertCol(cols, colnum, bare)
             g == InsertCol(cols, colnum, full)
  <2>6. Grows(f, cols, InsertedAt(Len(cols), colnum), bare, S)
    BY <2>5, InsertColElements
  <2>7. Grows(g, cols, InsertedAt(Len(cols), colnum), full, S)
    BY <2>5, InsertColElements
  <2> HIDE DEF f, g
  <2>61. /\ f \in Seq(S)
         /\ Len(f) = n + 1
         /\ f[colnum] = bare
         /\ \A j \in 1 .. colnum - 1 : f[j] = cols[j]
         /\ \A j \in colnum + 1 .. n + 1 : f[j] = cols[j - 1]
    BY <2>4, <2>6 DEF Grows
  <2>71. /\ g \in Seq(S)
         /\ Len(g) = n + 1
         /\ g[colnum] = full
         /\ \A j \in 1 .. colnum - 1 : g[j] = cols[j]
         /\ \A j \in colnum + 1 .. n + 1 : g[j] = cols[j - 1]
    BY <2>4, <2>7 DEF Grows
  <2> HIDE DEF n
  <2> DEFINE D == 1 .. n + 1
  <2>8. f \in [D -> S] /\ g \in [D -> S] /\ colnum \in D
    BY <2>3, <2>61, <2>71, LenProperties
  <2> DEFINE h == [f EXCEPT ![colnum] = full]
  <2>9. h = g
    <3>1. ASSUME NEW j \in D
          PROVE  h[j] = g[j]
      <4>1. CASE j = colnum
        BY <2>71, <2>8, <4>1
      <4>2. CASE j # colnum
        <5>1. h[j] = f[j]
          BY <2>8, <4>2
        <5>2. j \in 1 .. colnum - 1 \/ j \in colnum + 1 .. n + 1
          BY <2>3, <4>2
        <5> QED
          BY <2>61, <2>71, <5>1, <5>2
      <4> QED
        BY <4>1, <4>2
    <3>2. h \in [D -> S]
      BY <2>5, <2>8
    <3>3. g \in [D -> S] /\ \A j \in D : h[j] = g[j]
      BY <2>8, <3>1
    <3> HIDE DEF h, D, f, g
    <3> QED
      BY <3>2, <3>3, SameFunction
  <2>10. [f EXCEPT ![colnum].tdim = extent] = [f EXCEPT ![colnum] = full]
    BY <2>1, <2>61
  <2> QED
    BY <2>2, <2>9, <2>10 DEF f, g, full
<1> QED
  BY <1>1, <1>2

\* The column which Table::resize leaves.
ReshapedColumn(col, extent) ==
    [col EXCEPT !.repeat = Nelem(extent), !.tdim = IF IsVector(extent) THEN NoTdim ELSE extent]

LEMMA ResizedIsOneColumn ==
    ASSUME NEW S, NEW cols \in Seq(S), NEW colnum \in 1 .. Len(cols), NEW extent
    PROVE  Resized(cols, colnum, extent) =
                [cols EXCEPT ![colnum] = ReshapedColumn(cols[colnum], extent)]
<1>1. colnum \in DOMAIN cols
  BY LenProperties
<1> QED
  BY <1>1 DEF Resized, Lengthened, ModifyVectorLen, WriteTdim, ReshapedColumn

-----------------------------------------------------------------------------
(***************************************************************************)
(* What a column is read back as                                           *)
(***************************************************************************)
\* A column of which an int can count the elements, and whose TDIM, if it has
\* one, accounts for all of them.
Sound(col) ==
    /\ col.repeat \in IntCounts
    /\ col.width \in Nat
    /\ col.tdim \in Seq(Nat)
    /\ TdimReadable(col)

\* The substrings of a string column fill it.
Filled(col) == StringWidth(col) * (col.repeat \div StringWidth(col)) = col.repeat

LEMMA Quotient ==
    ASSUME NEW m \in Nat \ {0}, NEW w \in 1 .. m
    PROVE  /\ m \div w \in Nat \ {0}
           /\ w * (m \div w) \in 1 .. m
           /\ w = m => m \div w = 1
<1> DEFINE q == m \div w
<1>1. q \in Int /\ w * q <= m /\ m < w * (q + 1)
  OBVIOUS
<1> HIDE DEF q
<1>2. q >= 1
  <2> SUFFICES ASSUME q <= 0 PROVE FALSE
    BY <1>1
  <2>1. w * (q + 1) <= w
    BY <1>1
  <2> QED
    BY <1>1, <2>1
<1>3. w * q \in Int /\ w * q >= 1
  BY <1>1, <1>2
<1>4. w = m => q = 1
  <2> SUFFICES ASSUME w = m, q >= 2 PROVE FALSE
    BY <1>1, <1>2
  <2>1. w * q >= w * 2
    BY <1>1
  <2> QED
    BY <1>1, <2>1
<1> QED
  BY <1>1, <1>2, <1>3, <1>4 DEF q

LEMMA StringWidthType ==
    ASSUME NEW col, col.repeat \in Nat \ {0}, col.width \in Nat
    PROVE  /\ StringWidth(col) \in 1 .. col.repeat
           /\ col.width = 0 => StringWidth(col) = col.repeat
BY DEF StringWidth

LEMMA ReadTdimType ==
    ASSUME NEW col, Sound(col)
    PROVE  ReadTdim(col) \in Seq(Nat) /\ Product(ReadTdim(col)) = col.repeat
<1>1. col.repeat \in Nat /\ col.tdim \in Seq(Nat) /\ TdimReadable(col)
  BY HalfType DEF Sound, IntCounts
<1>2. CASE col.tdim = NoTdim
  <2>1. <<col.repeat>> \in Seq(Nat) /\ ReadTdim(col) = <<col.repeat>>
    BY <1>1, <1>2 DEF ReadTdim
  <2> QED
    BY <1>1, <2>1, OneAxis
<1>3. CASE col.tdim # NoTdim
  BY <1>1, <1>3 DEF ReadTdim, TdimReadable
<1> QED
  BY <1>2, <1>3

LEMMA CellExtentSound ==
    ASSUME NEW col, Sound(col)
    PROVE  /\ CellExtent(col) \in CountedShape
           /\ Filled(col) \/ col.type # "String" => Product(CellExtent(col)) = col.repeat
<1> DEFINE w == StringWidth(col)
           q == col.repeat \div w
<1>1. col.repeat \in Nat \ {0} /\ col.repeat < Half /\ col.width \in Nat /\ Half \in Nat
  BY HalfType DEF Sound, IntCounts
<1>2. CASE col.type = "String" /\ Naxes(ReadTdim(col)) = 1
  <2>1. CellExtent(col) = <<w, q>>
    BY <1>2 DEF CellExtent
  <2>2. w \in 1 .. col.repeat
    BY <1>1, StringWidthType
  <2>3. q \in Nat \ {0} /\ w * q \in 1 .. col.repeat
    BY <1>1, <2>2, Quotient
  <2>4. Filled(col) => w * q = col.repeat
    BY DEF Filled
  <2> HIDE DEF w, q
  <2>5. w \in Nat /\ q \in Nat
    BY <1>1, <2>2, <2>3
  <2>6. <<w, q>> \in Seq(Nat)
    BY <2>5
  <2>61. Product(<<w, q>>) = w * q
    BY <2>5, TwoAxes
  <2>7. w * q \in IntCounts
    BY <1>1, <2>3 DEF IntCounts
  <2> QED
    BY <1>2, <2>1, <2>4, <2>6, <2>61, <2>7 DEF CountedShape
<1>3. CASE ~ (col.type = "String" /\ Naxes(ReadTdim(col)) = 1)
  <2>1. CellExtent(col) = ReadTdim(col)
    BY <1>3 DEF CellExtent
  <2>2. ReadTdim(col) \in Seq(Nat) /\ Product(ReadTdim(col)) = col.repeat
    BY ReadTdimType
  <2>3. col.repeat \in IntCounts
    BY DEF Sound
  <2> QED
    BY <2>1, <2>2, <2>3 DEF CountedShape
<1> QED
  BY <1>2, <1>3

\* What fits_read_tdimll finds of a shape, with or without a TDIM.
LEMMA TdimReadsBack ==
    ASSUME NEW e \in CountedShape, NEW col, col.repeat = Product(e),
           (col.tdim = NoTdim /\ Naxes(Squeeze(e)) <= 1) \/ col.tdim = e
    PROVE  \/ ReadTdim(col) = <<col.repeat>> /\ Squeeze(<<col.repeat>>) = Squeeze(e)
           \/ ReadTdim(col) = e
<1> DEFINE m == col.repeat
<1>0. e \in Seq(Nat) /\ m = Product(e)
  BY DEF CountedShape
<1> HIDE DEF m
<1>1. CASE col.tdim = NoTdim
  <2>1. Naxes(Squeeze(e)) <= 1
    <3>1. CASE e = NoTdim
      <4>1. Squeeze(e) = <<>>
        BY <3>1, SqueezeNone DEF NoTdim
      <4> QED
        BY <4>1 DEF Naxes
    <3> QED
      BY <1>1, <3>1
  <2>2. Squeeze(<<m>>) = Squeeze(e)
    BY <1>0, <2>1, FlatShape
  <2> QED
    BY <1>1, <2>2 DEF ReadTdim, m
<1>2. CASE col.tdim # NoTdim
  BY <1>2 DEF ReadTdim
<1> QED
  BY <1>1, <1>2

\* What ColumnInfo::init makes of that.
LEMMA ReadsBack ==
    ASSUME NEW e \in CountedShape, NEW col, col.repeat = Product(e), col.width = 0,
           (col.tdim = NoTdim /\ Naxes(Squeeze(e)) <= 1) \/ col.tdim = e
    PROVE  SameShape(CellExtent(col), e)
<1> DEFINE m == col.repeat
<1>1. e \in Seq(Nat) /\ m \in Nat \ {0} /\ m = Product(e)
  BY HalfType DEF CountedShape, IntCounts
<1>2. StringWidth(col) = m /\ m \div m = 1
  <2>1. col.width \in Nat /\ m \in 1 .. m
    BY <1>1
  <2> QED
    BY <1>1, <2>1, StringWidthType, Quotient
<1> HIDE DEF m
<1>3. Squeeze(<<m, 1>>) = Squeeze(<<m>>)
  BY <1>1, TwoAxes
<1>4. (ReadTdim(col) = <<m>> /\ Squeeze(<<m>>) = Squeeze(e)) \/ ReadTdim(col) = e
  BY TdimReadsBack DEF m
<1>5. CASE col.type = "String" /\ Naxes(ReadTdim(col)) = 1
  <2>1. CellExtent(col) = <<m, 1>>
    BY <1>2, <1>5 DEF CellExtent, m
  <2>2. Squeeze(<<m>>) = Squeeze(e)
    <3>1. CASE ReadTdim(col) = e
      <4>1. Len(e) = 1
        BY <1>5, <3>1 DEF Naxes
      <4>2. e = <<e[1]>> /\ e[1] \in Nat
        BY <1>1, <4>1
      <4>3. Product(e) = e[1]
        BY <4>2, OneAxis
      <4> QED
        BY <1>1, <4>2, <4>3
    <3> QED
      BY <1>4, <3>1
  <2> QED
    BY <1>3, <2>1, <2>2 DEF SameShape
<1>6. CASE ~ (col.type = "String" /\ Naxes(ReadTdim(col)) = 1)
  <2>1. CellExtent(col) = ReadTdim(col)
    BY <1>6 DEF CellExtent
  <2> QED
    BY <1>4, <2>1 DEF SameShape
<1> QED
  BY <1>5, <1>6

LEMMA NewColumnSound ==
    ASSUME NEW ttype, NEW type, NEW e \in Seq(Nat)
    PROVE  Sound(NewColumn(ttype, StoredType(type), TformRepeat(e)))
<1>1. TformRepeat(e) \in IntCounts
  BY TformCounts
<1> QED
  BY <1>1 DEF Sound, NewColumn, TdimReadable, NoTdim

LEMMA ShapedColumnFields ==
    ASSUME NEW ttype, NEW type, NEW e
    PROVE  LET col == ShapedColumn(ttype, type, e)
           IN  /\ col.name = ttype /\ col.type = StoredType(type)
               /\ col.repeat = TformRepeat(e) /\ col.width = 0
               /\ col.tdim = IF NeedsTdim(e) THEN e ELSE NoTdim
BY DEF ShapedColumn, NewColumn

\* A column inserted with a shape an int can count can be described, as what
\* it was asked to be.
THEOREM ShapedColumnDescribed ==
    ASSUME NEW ttype, NEW type, NEW e \in CountedShape
    PROVE  LET col == ShapedColumn(ttype, type, e)
           IN  Sound(col) /\ Filled(col) /\ SameShape(CellExtent(col), e)
<1> DEFINE col == ShapedColumn(ttype, type, e)
<1>1. /\ col.repeat = TformRepeat(e) /\ col.width = 0
      /\ col.tdim = IF NeedsTdim(e) THEN e ELSE NoTdim
  BY ShapedColumnFields
<1> HIDE DEF col
<1>2. e \in Seq(Nat) /\ Product(e) \in IntCounts
  BY DEF CountedShape
<1>3. TformRepeat(e) = Product(e)
  BY <1>2, TformCounts
<1>4. Len(Squeeze(e)) \in Nat /\ (NeedsTdim(e) <=> Len(Squeeze(e)) > 1)
  BY <1>2, SqueezeType, LenProperties DEF NeedsTdim, Naxes
<1>5. Sound(col)
  <2>1. col.tdim \in Seq(Nat) /\ TdimReadable(col)
    BY <1>1, <1>2, <1>3 DEF TdimReadable, NoTdim
  <2> QED
    BY <1>1, <1>2, <1>3, <2>1 DEF Sound
<1>6. Filled(col)
  <2>1. col.repeat \in Nat \ {0} /\ col.width \in Nat /\ col.repeat \in 1 .. col.repeat
    BY <1>1, <1>2, <1>3, HalfType DEF IntCounts
  <2>2. StringWidth(col) = col.repeat
    BY <1>1, <2>1, StringWidthType
  <2>3. col.repeat \div col.repeat = 1
    BY <2>1, Quotient
  <2> QED
    BY <2>1, <2>2, <2>3 DEF Filled
<1>7. (col.tdim = NoTdim /\ Naxes(Squeeze(e)) <= 1) \/ col.tdim = e
  BY <1>1, <1>4 DEF Naxes
<1>8. SameShape(CellExtent(col), e)
  BY <1>1, <1>3, <1>7, ReadsBack
<1> QED
  BY <1>5, <1>6, <1>8 DEF col

LEMMA ReshapedColumnFields ==
    ASSUME NEW S, NEW R, NEW T, NEW W, NEW D,
           NEW col \in [name : S, type : T, repeat : R, width : W, tdim : D], NEW e
    PROVE  LET reshaped == ReshapedColumn(col, e)
           IN  /\ reshaped.name = col.name /\ reshaped.type = col.type
               /\ reshaped.repeat = Nelem(e) /\ reshaped.width = col.width
               /\ reshaped.tdim = IF IsVector(e) THEN NoTdim ELSE e
BY DEF ReshapedColumn

\* A column resized to a shape an int can count can be described, its TDIM is
\* that shape's, and, if it is not a string column cut into substrings, it is
\* described as what it was asked to be.
THEOREM ReshapedColumnDescribed ==
    ASSUME NEW S, NEW R, NEW T, NEW D,
           NEW col \in [name : S, type : T, repeat : R, width : Nat, tdim : D],
           NEW e \in CountedShape
    PROVE  LET reshaped == ReshapedColumn(col, e)
           IN  /\ Sound(reshaped)
               /\ SameShape(ReadTdim(reshaped), e)
               /\ col.width = 0 => SameShape(CellExtent(reshaped), e)
<1> DEFINE reshaped == ReshapedColumn(col, e)
<1>1. /\ reshaped.repeat = Nelem(e) /\ reshaped.width = col.width
      /\ reshaped.tdim = IF IsVector(e) THEN NoTdim ELSE e
  BY ReshapedColumnFields
<1> HIDE DEF reshaped
<1>2. e \in Seq(Nat) /\ Product(e) \in IntCounts /\ Nelem(e) = Product(e)
  BY NelemIsProduct DEF CountedShape
<1>3. Sound(reshaped)
  <2>1. reshaped.tdim \in Seq(Nat) /\ TdimReadable(reshaped)
    BY <1>1, <1>2 DEF TdimReadable, NoTdim
  <2> QED
    BY <1>1, <1>2, <2>1 DEF Sound
<1>4. (reshaped.tdim = NoTdim /\ Naxes(Squeeze(e)) <= 1) \/ reshaped.tdim = e
  BY <1>1 DEF IsVector
<1>5. ASSUME col.width = 0
      PROVE  SameShape(CellExtent(reshaped), e)
  BY <1>1, <1>2, <1>4, <1>5, ReadsBack
<1>6. SameShape(ReadTdim(reshaped), e)
  <2>1. \/ ReadTdim(reshaped) = <<reshaped.repeat>> /\ Squeeze(<<reshaped.repeat>>) = Squeeze(e)
        \/ ReadTdim(reshaped) = e
    BY <1>1, <1>2, <1>4, TdimReadsBack
  <2> QED
    BY <2>1 DEF SameShape
<1> QED
  BY <1>3, <1>5, <1>6 DEF reshaped

-----------------------------------------------------------------------------
(***************************************************************************)
(* Bytes                                                                   *)
(***************************************************************************)
\* The bytes which ColumnInfo counts in a cell are those CFITSIO stores.
LEMMA CellBytesAreStored ==
    ASSUME NEW col, Sound(col), Filled(col) \/ col.type # "String"
    PROVE  CellBytes(col) = StorageBytes(col)
<1> DEFINE e == CellExtent(col)
           m == col.repeat
<1>1. e \in CountedShape /\ Product(e) = m
  BY CellExtentSound
<1>2. Nelem(e) = m /\ m \in Nat
  BY <1>1, NelemIsProduct, HalfType DEF CountedShape, IntCounts
<1> HIDE DEF e, m
<1>3. CASE col.type = "Bit"
  <2>1. CellBytes(col) = (m \div 8) + (IF (m \div 8) * 8 < m THEN 1 ELSE 0)
    BY <1>2, <1>3 DEF CellBytes, e
  <2>2. StorageBytes(col) = (m + 7) \div 8
    BY <1>3 DEF StorageBytes, m
  <2>3. (m \div 8) + (IF (m \div 8) * 8 < m THEN 1 ELSE 0) = (m + 7) \div 8
    BY <1>2
  <2> QED
    BY <2>1, <2>2, <2>3
<1>4. CASE col.type = "String"
  <2>1. CellBytes(col) = m
    BY <1>2, <1>4 DEF CellBytes, e
  <2>2. StorageBytes(col) = m * ElementBytes["String"]
    BY <1>4 DEF StorageBytes, m
  <2>3. ElementBytes["String"] = 1
    BY DEF ElementBytes
  <2> QED
    BY <1>2, <2>1, <2>2, <2>3
<1>5. CASE col.type \notin {"Bit", "String"}
  <2>1. CellBytes(col) = m * ElementBytes[col.type]
    BY <1>2, <1>5 DEF CellBytes, e
  <2>2. StorageBytes(col) = m * ElementBytes[col.type]
    BY <1>5 DEF StorageBytes, m
  <2> QED
    BY <2>1, <2>2
<1> QED
  BY <1>3, <1>4, <1>5

LEMMA StorageBytesType ==
    ASSUME NEW col, col.repeat \in Nat, col.type \in ColumnTypes
    PROVE  StorageBytes(col) \in Nat
<1>1. CASE col.type = "Bit"
  BY <1>1 DEF StorageBytes
<1>2. CASE col.type # "Bit"
  <2>1. ElementBytes[col.type] \in Nat
    BY <1>2 DEF ElementBytes, ColumnTypes
  <2> QED
    BY <1>2, <2>1 DEF StorageBytes
<1> QED
  BY <1>1, <1>2

OffsetOp(ctx, offset, col) == offset + CellBytes(col)

Offsets == INSTANCE FoldTheory WITH Op <- OffsetOp

LEMMA OffsetIsFold ==
    ASSUME NEW cols, NEW n
    PROVE  Offset(cols, n) = Offsets!Fold(0, 1, SubSeq(cols, 1, n - 1))
BY DEF Offset, OffsetOp, Offsets!Fold, Offsets!FoldLeft, FoldLeft,
       Offsets!MapThenFoldSet, MapThenFoldSet, Offsets!Max, Max

\* The columns before the n-th.
LEMMA ColumnsBefore ==
    ASSUME NEW S, NEW cols \in Seq(S), NEW n \in 1 .. Len(cols) + 1
    PROVE  /\ SubSeq(cols, 1, n - 1) \in Seq(S)
           /\ Len(SubSeq(cols, 1, n - 1)) = n - 1
           /\ \A k \in 1 .. n - 1 : SubSeq(cols, 1, n - 1)[k] = cols[k]
<1>1. Len(cols) \in Nat /\ \A k \in 1 .. Len(cols) : cols[k] \in S
  BY ElementOfSeq, LenProperties
<1>2. \A k \in 1 .. n - 1 : cols[k] \in S
  BY <1>1
<1> QED
  BY <1>1, <1>2, SubSeqProperties

LEMMA OffsetSteps ==
    ASSUME NEW S, NEW cols \in Seq(S), NEW n \in 1 .. Len(cols) + 1
    PROVE  \E r : /\ r[0] = 1
                  /\ \A k \in 1 .. n - 1 : r[k] = r[k - 1] + CellBytes(cols[k])
                  /\ Offset(cols, n) = r[n - 1]
<1> DEFINE before == SubSeq(cols, 1, n - 1)
<1>1. before \in Seq(S)
  BY ColumnsBefore
<1>2. Len(before) = n - 1 /\ \A k \in 1 .. n - 1 : before[k] = cols[k]
  BY ColumnsBefore
<1>3. Offset(cols, n) = Offsets!Fold(0, 1, before)
  BY OffsetIsFold
<1> HIDE DEF before
<1>4. PICK r : /\ r[0] = 1
               /\ \A k \in 1 .. Len(before) : r[k] = OffsetOp(0, r[k - 1], before[k])
               /\ Offsets!Fold(0, 1, before) = r[Len(before)]
  BY <1>1, Offsets!FoldSteps
<1>5. \A k \in 1 .. n - 1 : r[k] = r[k - 1] + CellBytes(cols[k])
  BY <1>2, <1>4 DEF OffsetOp
<1> QED
  BY <1>2, <1>3, <1>4, <1>5
=============================================================================
