----------------------------- MODULE RowsProofs -----------------------------
(***************************************************************************)
(* Theorems about Rows and RowLoops, for any number of Rows, tables,       *)
(* columns, variables and rows of a table, and whatever fails.             *)
(*                                                                         *)
(* Nothing about Rows rests on LoopsAssumption, which is for the loops.    *)
(***************************************************************************)
EXTENDS RowLoops, ColumnLemmas

-----------------------------------------------------------------------------
(***************************************************************************)
(* Bytes and elements of a row                                             *)
(***************************************************************************)
\* Columns which are described as they are stored: an int counts their
\* elements, and no string column is cut into substrings.
SoundColumn == {col \in Column : Sound(col)}
UncutColumn == {col \in SoundColumn : col.width = 0}

LEMMA StoredBytes ==
    ASSUME NEW col \in SoundColumn
    PROVE  /\ StorageBytes(col) \in Nat \ {0}
           /\ Elements(col) \in Nat \ {0}
<1> DEFINE m == col.repeat
<1>1. /\ m \in Nat \ {0} /\ col.width \in Nat /\ col.type \in ColumnTypes
  BY DEF SoundColumn, Column
<1>2. CASE col.type = "Bit"
  <2>1. StorageBytes(col) = (m + 7) \div 8 /\ Elements(col) = StorageBytes(col)
    BY <1>2 DEF StorageBytes, Elements
  <2>2. (m + 7) \div 8 \in Nat \ {0}
    BY <1>1
  <2> QED
    BY <2>1, <2>2
<1>3. CASE col.type # "Bit"
  <2>1. ElementBytes[col.type] \in Nat \ {0}
    BY <1>1, <1>3 DEF ElementBytes, ColumnTypes
  <2> DEFINE k == ElementBytes[col.type]
  <2>2. StorageBytes(col) = m * k
    BY <1>3 DEF StorageBytes
  <2> HIDE DEF k, m
  <2>3. m * k \in Nat \ {0}
    BY <1>1, <2>1 DEF k
  <2>4. Elements(col) \in Nat \ {0}
    <3>1. CASE col.type = "String"
      <4>1. Elements(col) = m \div StringWidth(col)
        BY <3>1 DEF Elements, m
      <4>2. StringWidth(col) \in 1 .. m
        BY <1>1, StringWidthType DEF m
      <4> QED
        BY <1>1, <4>1, <4>2, Quotient
    <3>2. CASE col.type # "String"
      BY <1>1, <1>3, <3>2 DEF Elements, m
    <3> QED
      BY <3>1, <3>2
  <2> QED
    BY <2>2, <2>3, <2>4
<1> QED
  BY <1>2, <1>3

FirstByteOp(ctx, byte, col) == byte + StorageBytes(col)

FirstBytes == INSTANCE FoldTheory WITH Op <- FirstByteOp

LEMMA FirstByteIsFold ==
    ASSUME NEW cs, NEW n
    PROVE  FirstByte(cs, n) = FirstBytes!Fold(0, 1, SubSeq(cs, 1, n - 1))
BY DEF FirstByte, FirstByteOp, FirstBytes!Fold, FirstBytes!FoldLeft, FoldLeft,
       FirstBytes!MapThenFoldSet, MapThenFoldSet, FirstBytes!Max, Max

LEMMA FirstByteSteps ==
    ASSUME NEW S, NEW cs \in Seq(S), NEW n \in 1 .. Len(cs) + 1
    PROVE  \E r : /\ r[0] = 1
                  /\ \A k \in 1 .. n - 1 : r[k] = r[k - 1] + StorageBytes(cs[k])
                  /\ FirstByte(cs, n) = r[n - 1]
<1> DEFINE before == SubSeq(cs, 1, n - 1)
<1>1. before \in Seq(S)
  BY ColumnsBefore
<1>2. Len(before) = n - 1 /\ \A k \in 1 .. n - 1 : before[k] = cs[k]
  BY ColumnsBefore
<1>3. FirstByte(cs, n) = FirstBytes!Fold(0, 1, before)
  BY FirstByteIsFold
<1> HIDE DEF before
<1>4. PICK r : /\ r[0] = 1
               /\ \A k \in 1 .. Len(before) : r[k] = FirstByteOp(0, r[k - 1], before[k])
               /\ FirstBytes!Fold(0, 1, before) = r[Len(before)]
  BY <1>1, FirstBytes!FoldSteps, SMTT(30)
<1>5. \A k \in 1 .. n - 1 : r[k] = r[k - 1] + StorageBytes(cs[k])
  BY <1>2, <1>4 DEF FirstByteOp
<1> QED
  BY <1>2, <1>3, <1>4, <1>5

\* A column begins where the one before it ends.
LEMMA FirstByteNext ==
    ASSUME NEW cs \in Seq(SoundColumn), NEW n \in 1 .. Len(cs)
    PROVE  FirstByte(cs, n + 1) = FirstByte(cs, n) + StorageBytes(cs[n])
<1>1. Len(cs) \in Nat /\ cs[n] \in SoundColumn
  BY ElementOfSeq, LenProperties
<1> DEFINE before == SubSeq(cs, 1, n - 1)
           longer == SubSeq(cs, 1, n)
<1>2. n \in 1 .. Len(cs) + 1 /\ n + 1 \in 1 .. Len(cs) + 1 /\ (n + 1) - 1 = n
  BY <1>1
<1>3. before \in Seq(SoundColumn) /\ Len(before) = n - 1 /\ \A k \in 1 .. n - 1 : before[k] = cs[k]
  BY <1>2, ColumnsBefore
<1>4. longer \in Seq(SoundColumn) /\ Len(longer) = n /\ \A k \in 1 .. n : longer[k] = cs[k]
  <2>1. \A k \in 1 .. n : cs[k] \in SoundColumn
    BY <1>1, ElementOfSeq
  <2> QED
    BY <1>1, <2>1, SubSeqProperties
<1>5. /\ FirstByte(cs, n) = FirstBytes!Fold(0, 1, before)
      /\ FirstByte(cs, n + 1) = FirstBytes!Fold(0, 1, longer)
  BY <1>2, FirstByteIsFold
<1> HIDE DEF before, longer
<1>6. longer = Append(before, cs[n])
  <2> DEFINE D == 1 .. n
             app == Append(before, cs[n])
  <2>1. app \in Seq(SoundColumn) /\ Len(app) = n /\ app[n] = cs[n]
        /\ \A k \in 1 .. n - 1 : app[k] = before[k]
    BY <1>1, <1>3, AppendProperties
  <2> HIDE DEF app
  <2>2. app \in [D -> SoundColumn] /\ longer \in [D -> SoundColumn]
    BY <1>4, <2>1, LenProperties
  <2>3. \A k \in D : app[k] = longer[k]
    <3> SUFFICES ASSUME NEW k \in D PROVE app[k] = longer[k]
      OBVIOUS
    <3>1. CASE k = n
      BY <1>4, <2>1, <3>1
    <3>2. CASE k # n
      <4>1. k \in 1 .. n - 1
        BY <3>2
      <4> QED
        BY <1>3, <1>4, <2>1, <4>1
    <3> QED
      BY <3>1, <3>2
  <2> HIDE DEF D
  <2>4. app = longer
    BY <2>2, <2>3, SameFunction
  <2> QED
    BY <2>4 DEF app
<1>7. FirstBytes!Fold(0, 1, longer) = FirstByteOp(0, FirstBytes!Fold(0, 1, before), cs[n])
  BY <1>1, <1>3, <1>6, FirstBytes!FoldAppend
<1> QED
  BY <1>5, <1>7 DEF FirstByteOp

LEMMA FirstByteOfFirst ==
    ASSUME NEW S, NEW cs \in Seq(S)
    PROVE  FirstByte(cs, 1) = 1
<1>1. 1 \in 1 .. Len(cs) + 1 /\ 1 - 1 = 0
  BY LenProperties
<1> QED
  BY <1>1, FirstByteSteps

LEMMA FirstByteType ==
    ASSUME NEW cs \in Seq(SoundColumn), NEW n \in 1 .. Len(cs) + 1
    PROVE  FirstByte(cs, n) \in Nat \ {0}
<1> DEFINE N == Len(cs)
           T == {k \in 0 .. N : FirstByte(cs, k + 1) \in Nat \ {0}}
<1>1. N \in Nat
  BY LenProperties
<1>2. 0 \in T
  <2>1. FirstByte(cs, 1) = 1 /\ 0 + 1 = 1
    BY FirstByteOfFirst
  <2> QED
    BY <1>1, <2>1
<1>3. ASSUME NEW k \in 0 .. N - 1, k \in T
      PROVE  k + 1 \in T
  <2>1. k + 1 \in 1 .. N /\ FirstByte(cs, k + 1) \in Nat \ {0}
    BY <1>1, <1>3
  <2>2. FirstByte(cs, (k + 1) + 1) = FirstByte(cs, k + 1) + StorageBytes(cs[k + 1])
    BY <2>1, FirstByteNext
  <2>3. StorageBytes(cs[k + 1]) \in Nat \ {0}
    BY <2>1, ElementOfSeq, StoredBytes
  <2> QED
    BY <1>1, <2>1, <2>2, <2>3
<1>4. \A k \in 0 .. N : k \in T
  <2> HIDE DEF T
  <2> QED
    BY <1>1, <1>2, <1>3, FirstBytes!UpTo
<1>5. n - 1 \in 0 .. N /\ (n - 1) + 1 = n
  BY <1>1
<1>6. n - 1 \in T
  BY <1>4, <1>5
<1> QED
  BY <1>5, <1>6

\* Columns do not overlap, and all are within the row.
LEMMA BytesInOrder ==
    ASSUME NEW cs \in Seq(SoundColumn), NEW m \in 1 .. Len(cs), NEW n \in m + 1 .. Len(cs) + 1
    PROVE  FirstByte(cs, m) + StorageBytes(cs[m]) <= FirstByte(cs, n)
<1> DEFINE N == Len(cs) - m
           end == FirstByte(cs, m) + StorageBytes(cs[m])
           T == {k \in 0 .. N : end <= FirstByte(cs, m + 1 + k)}
<1>1. N \in Nat /\ Len(cs) \in Nat
  BY LenProperties
<1>2. end \in Nat
  <2>1. m \in 1 .. Len(cs) + 1
    BY <1>1
  <2>2. FirstByte(cs, m) \in Nat
    BY <2>1, FirstByteType
  <2>3. StorageBytes(cs[m]) \in Nat
    BY ElementOfSeq, StoredBytes
  <2> QED
    BY <2>2, <2>3
<1>3. 0 \in T
  <2>1. FirstByte(cs, m + 1) = end /\ m + 1 + 0 = m + 1
    BY FirstByteNext
  <2> QED
    BY <1>1, <1>2, <2>1
<1> HIDE DEF end
<1>4. ASSUME NEW k \in 0 .. N - 1, k \in T
      PROVE  k + 1 \in T
  <2> DEFINE p == m + 1 + k
  <2>1. p \in 1 .. Len(cs) /\ p \in 1 .. Len(cs) + 1 /\ m + 1 + (k + 1) = p + 1 /\ k + 1 \in 0 .. N
    BY <1>1
  <2>2. end <= FirstByte(cs, p)
    BY <1>4
  <2> HIDE DEF p
  <2>3. FirstByte(cs, p + 1) = FirstByte(cs, p) + StorageBytes(cs[p])
    BY <2>1, FirstByteNext
  <2>4. StorageBytes(cs[p]) \in Nat
    BY <2>1, ElementOfSeq, StoredBytes
  <2>5. FirstByte(cs, p) \in Nat
    BY <2>1, FirstByteType
  <2>6. end <= FirstByte(cs, p + 1)
    BY <1>2, <2>2, <2>3, <2>4, <2>5
  <2> QED
    BY <2>1, <2>6
<1>5. \A k \in 0 .. N : k \in T
  <2> HIDE DEF T, N
  <2> QED
    BY <1>1, <1>3, <1>4, FirstBytes!UpTo
<1>6. n - (m + 1) \in 0 .. N /\ m + 1 + (n - (m + 1)) = n
  BY <1>1
<1>7. n - (m + 1) \in T
  BY <1>5, <1>6
<1>8. end <= FirstByte(cs, n)
  BY <1>6, <1>7
<1> QED
  BY <1>8 DEF end

\* The row is as long as its columns.
LEMMA RowBytesType ==
    ASSUME NEW cs \in Seq(SoundColumn)
    PROVE  /\ RowBytes(cs) \in Nat
           /\ \A n \in 1 .. Len(cs) :
                /\ FirstByte(cs, n) \in Nat \ {0} /\ StorageBytes(cs[n]) \in Nat \ {0}
                /\ FirstByte(cs, n) + StorageBytes(cs[n]) <= RowBytes(cs) + 1
<1>1. Len(cs) \in Nat /\ Len(cs) + 1 \in 1 .. Len(cs) + 1
  BY LenProperties
<1>2. FirstByte(cs, Len(cs) + 1) \in Nat \ {0}
  BY <1>1, FirstByteType
<1>3. RowBytes(cs) = FirstByte(cs, Len(cs) + 1) - 1
  BY DEF RowBytes
<1>4. ASSUME NEW n \in 1 .. Len(cs)
      PROVE  /\ FirstByte(cs, n) \in Nat \ {0} /\ StorageBytes(cs[n]) \in Nat \ {0}
             /\ FirstByte(cs, n) + StorageBytes(cs[n]) <= RowBytes(cs) + 1
  <2>1. n \in 1 .. Len(cs) + 1 /\ Len(cs) + 1 \in n + 1 .. Len(cs) + 1
    BY <1>1
  <2>2. FirstByte(cs, n) \in Nat \ {0}
    BY <2>1, FirstByteType
  <2>3. StorageBytes(cs[n]) \in Nat \ {0}
    BY ElementOfSeq, StoredBytes
  <2>4. FirstByte(cs, n) + StorageBytes(cs[n]) <= FirstByte(cs, Len(cs) + 1)
    BY <2>1, BytesInOrder
  <2> QED
    BY <1>2, <1>3, <2>2, <2>3, <2>4
<1> QED
  BY <1>2, <1>3, <1>4

LEMMA UncutIsStored ==
    ASSUME NEW col \in UncutColumn
    PROVE  /\ CellBytes(col) = StorageBytes(col)
           /\ CellExtent(col) \in CountedShape
           /\ Nelem(CellExtent(col)) = col.repeat
           /\ StringWidth(col) = col.repeat
<1>1. Sound(col) /\ col.width = 0 /\ col.repeat \in Nat \ {0} /\ col.width \in Nat
  BY DEF UncutColumn, SoundColumn, Column
<1>2. StringWidth(col) = col.repeat
  BY <1>1, StringWidthType
<1>3. Filled(col)
  <2>1. col.repeat \div col.repeat = 1
    BY <1>1, Quotient
  <2> QED
    BY <1>1, <1>2, <2>1 DEF Filled
<1>4. CellExtent(col) \in CountedShape /\ Product(CellExtent(col)) = col.repeat
  BY <1>1, <1>3, CellExtentSound
<1>5. Nelem(CellExtent(col)) = col.repeat
  BY <1>4, NelemIsProduct
<1> QED
  BY <1>1, <1>2, <1>3, <1>4, <1>5, CellBytesAreStored

\* The offset which ColumnInfo accumulates is the first byte of the column.
LEMMA OffsetIsFirstByteOf ==
    ASSUME NEW cs \in Seq(UncutColumn), NEW n \in 1 .. Len(cs) + 1
    PROVE  Offset(cs, n) = FirstByte(cs, n)
<1> DEFINE m == n - 1
<1>1. m \in Nat /\ \A i \in 1 .. m : i \in 1 .. Len(cs)
  BY LenProperties
<1>2. PICK r : /\ r[0] = 1
               /\ \A k \in 1 .. m : r[k] = r[k - 1] + CellBytes(cs[k])
               /\ Offset(cs, n) = r[m]
  BY OffsetSteps, SMTT(30)
<1>3. PICK q : /\ q[0] = 1
               /\ \A k \in 1 .. m : q[k] = q[k - 1] + StorageBytes(cs[k])
               /\ FirstByte(cs, n) = q[m]
  BY FirstByteSteps, SMTT(30)
<1>4. \A i \in 1 .. m : CellBytes(cs[i]) = StorageBytes(cs[i])
  <2> SUFFICES ASSUME NEW i \in 1 .. m PROVE CellBytes(cs[i]) = StorageBytes(cs[i])
    OBVIOUS
  <2>1. cs[i] \in UncutColumn
    BY <1>1, ElementOfSeq
  <2> QED
    BY <2>1, UncutIsStored
<1> HIDE DEF m
<1> DEFINE T == {k \in 0 .. m : r[k] = q[k]}
<1>5. 0 \in T
  BY <1>1, <1>2, <1>3
<1>6. ASSUME NEW k \in 0 .. m - 1, k \in T
      PROVE  k + 1 \in T
  <2>1. k + 1 \in 1 .. m /\ k + 1 \in 0 .. m /\ (k + 1) - 1 = k
    BY <1>1
  <2> QED
    BY <1>2, <1>3, <1>4, <1>6, <2>1
<1>7. \A k \in 0 .. m : k \in T
  <2> HIDE DEF T
  <2> QED
    BY <1>1, <1>5, <1>6, FirstBytes!UpTo
<1>8. m \in T
  BY <1>1, <1>7
<1> QED
  BY <1>2, <1>3, <1>8

LEMMA Multiples ==
    ASSUME NEW R \in Nat, NEW x \in Int, NEW y \in Int, x < y
    PROVE  x * R + R <= y * R
<1> DEFINE d == y - x - 1
<1>1. d \in Nat /\ y = x + 1 + d
  OBVIOUS
<1> HIDE DEF d
<1>2. d * R \in Nat
  BY <1>1
<1>3. y * R = x * R + R + d * R
  BY <1>1
<1> QED
  BY <1>2, <1>3

\* Pieces of two rows overlap only if they are of the same row.
LEMMA RowsDiffer ==
    ASSUME NEW R \in Nat, NEW i \in Int, NEW j \in Int,
           NEW a \in Nat \ {0}, NEW m \in Nat \ {0}, a + m <= R + 1,
           NEW b \in Nat \ {0}, NEW n \in Nat \ {0}, b + n <= R + 1,
           Overlap((i - 1) * R + a, m, (j - 1) * R + b, n)
    PROVE  i = j
<1> DEFINE P == (i - 1) * R
           Q == (j - 1) * R
<1>1. P \in Int /\ Q \in Int
  OBVIOUS
<1>2. i < j => P + R <= Q
  BY Multiples
<1>3. j < i => Q + R <= P
  BY Multiples
<1>4. P + a < Q + b + n /\ Q + b < P + a + m
  BY DEF Overlap
<1> HIDE DEF P, Q
<1>5. ~ i < j
  BY <1>1, <1>2, <1>4
<1>6. ~ j < i
  BY <1>1, <1>3, <1>4
<1> QED
  BY <1>5, <1>6

-----------------------------------------------------------------------------
(***************************************************************************)
(* An entry which fits a column                                            *)
(***************************************************************************)
\* An access through it touches the cell of that column in that row, and no other.
LEMMA TouchesItsCell ==
    ASSUME NEW cs \in Seq(SoundColumn), NEW e, NEW n \in 1 .. Len(cs), Fits(cs, e, n),
           NEW i \in Int, NEW j \in Int, NEW m \in 1 .. Len(cs)
    PROVE  Touches(cs, e, i, j, m) <=> j = i /\ m = n
<1> DEFINE R == RowBytes(cs)
           F(k) == FirstByte(cs, k)
           S(k) == StorageBytes(cs[k])
           E == Elements(cs[n])
<1>1. CASE e.string
  <2>1. e.offset = F(n) /\ e.nbytes = S(n)
    BY <1>1 DEF Fits
  <2>2. Touches(cs, e, i, j, m) <=> Overlap((i - 1) * R + F(n), S(n), (j - 1) * R + F(m), S(m))
    BY <1>1, <2>1 DEF Touches
  <2>3. /\ R \in Nat
        /\ F(n) \in Nat \ {0} /\ S(n) \in Nat \ {0} /\ F(n) + S(n) <= R + 1
        /\ F(m) \in Nat \ {0} /\ S(m) \in Nat \ {0} /\ F(m) + S(m) <= R + 1
    BY RowBytesType
  <2>4. m < n => F(m) + S(m) <= F(n)
    <3> SUFFICES ASSUME m < n PROVE F(m) + S(m) <= F(n)
      OBVIOUS
    <3>1. n \in m + 1 .. Len(cs) + 1
      BY LenProperties
    <3> QED
      BY <3>1, BytesInOrder
  <2>5. n < m => F(n) + S(n) <= F(m)
    <3> SUFFICES ASSUME n < m PROVE F(n) + S(n) <= F(m)
      OBVIOUS
    <3>1. m \in n + 1 .. Len(cs) + 1
      BY LenProperties
    <3> QED
      BY <3>1, BytesInOrder
  <2>6. m \in Int /\ n \in Int
    OBVIOUS
  <2> DEFINE fm == F(m)
             fn == F(n)
             sm == S(m)
             sn == S(n)
             r == R
  <2>7. /\ r \in Nat
        /\ fn \in Nat \ {0} /\ sn \in Nat \ {0} /\ fn + sn <= r + 1
        /\ fm \in Nat \ {0} /\ sm \in Nat \ {0} /\ fm + sm <= r + 1
        /\ m < n => fm + sm <= fn
        /\ n < m => fn + sn <= fm
    BY <2>3, <2>4, <2>5
  <2>8. m = n => fm = fn /\ sm = sn
    OBVIOUS
  <2> HIDE DEF fm, fn, sm, sn, r
  <2>9. ASSUME Overlap((i - 1) * r + fn, sn, (j - 1) * r + fm, sm)
        PROVE  j = i /\ m = n
    <3>1. i = j
      BY <2>7, <2>9, RowsDiffer
    <3> DEFINE P == (i - 1) * r
    <3>2. P \in Int
      BY <2>7
    <3>3. P + fn < P + fm + sm /\ P + fm < P + fn + sn
      BY <2>9, <3>1 DEF Overlap
    <3> HIDE DEF P
    <3>4. m = n
      BY <2>6, <2>7, <3>2, <3>3
    <3> QED
      BY <3>1, <3>4
  <2>10. ASSUME j = i, m = n
         PROVE  Overlap((i - 1) * r + fn, sn, (j - 1) * r + fm, sm)
    <3> DEFINE P == (i - 1) * r
    <3>1. P \in Int
      BY <2>7
    <3> HIDE DEF P
    <3>2. P + fn < P + fn + sn
      BY <2>7, <3>1
    <3> QED
      BY <2>8, <2>10, <3>2 DEF Overlap, P
  <2> QED
    BY <2>2, <2>9, <2>10 DEF fm, fn, sm, sn, r
<1>2. CASE ~ e.string
  <2>1. e.colnum = n /\ e.natomic = E
    BY <1>2 DEF Fits
  <2>2. E \in Nat \ {0}
    BY ElementOfSeq, StoredBytes
  <2>3. ASSUME m = n
        PROVE  Touches(cs, e, i, j, m) <=> Overlap((i - 1) * E, E, (j - 1) * E, E)
    BY <1>2, <2>1, <2>3 DEF Touches
  <2>4. Touches(cs, e, i, j, m) => m = n
    BY <1>2, <2>1 DEF Touches
  <2> HIDE DEF E
  <2>5. Overlap((i - 1) * E, E, (j - 1) * E, E) <=> i = j
    <3> DEFINE P == (i - 1) * E
               Q == (j - 1) * E
    <3>1. P \in Int /\ Q \in Int
      BY <2>2
    <3>2. i < j => P + E <= Q
      BY <2>2, Multiples
    <3>3. j < i => Q + E <= P
      BY <2>2, Multiples
    <3>4. i = j => P = Q
      OBVIOUS
    <3> HIDE DEF P, Q
    <3>5. (P < Q + E /\ Q < P + E) <=> i = j
      BY <2>2, <3>1, <3>2, <3>3, <3>4
    <3> QED
      BY <3>5 DEF Overlap, P, Q
  <2> QED
    BY <2>3, <2>4, <2>5
<1> QED
  BY <1>1, <1>2

\* It fits no other column.
LEMMA FitsOneColumn ==
    ASSUME NEW cs \in Seq(SoundColumn), NEW e, NEW n \in 1 .. Len(cs), Fits(cs, e, n),
           NEW m \in 1 .. Len(cs), Fits(cs, e, m)
    PROVE  m = n
<1>1. \A i \in Int : Touches(cs, e, i, i, m) <=> i = i /\ m = n
  BY TouchesItsCell
<1>2. \A i \in Int : Touches(cs, e, i, i, m) <=> i = i /\ m = m
  BY TouchesItsCell
<1> QED
  BY <1>1, <1>2

\* The row it is read or written at is the only one.
LEMMA LastRowIsItsRow ==
    ASSUME NEW cs \in Seq(SoundColumn), NEW e, NEW n \in 1 .. Len(cs), Fits(cs, e, n),
           NEW i \in Int
    PROVE  LastRow(cs, e, i) = i
<1>1. CASE e.string
  <2> DEFINE R == RowBytes(cs)
             x == FirstByte(cs, n) + StorageBytes(cs[n]) - 2
  <2>1. LastRow(cs, e, i) = i + x \div R
    BY <1>1 DEF LastRow, Fits
  <2>2. R \in Nat \ {0} /\ x \in 0 .. R - 1
    BY RowBytesType
  <2> HIDE DEF R, x
  <2>3. x \div R = 0
    BY <2>2
  <2> QED
    BY <2>1, <2>3
<1>2. CASE ~ e.string
  <2> DEFINE E == Elements(cs[n])
  <2>1. LastRow(cs, e, i) = i + (E - 1) \div E
    BY <1>2 DEF LastRow, Fits
  <2>2. E \in Nat \ {0}
    BY ElementOfSeq, StoredBytes
  <2> HIDE DEF E
  <2>3. (E - 1) \div E = 0
    BY <2>2
  <2> QED
    BY <2>1, <2>3
<1> QED
  BY <1>1, <1>2

-----------------------------------------------------------------------------
(***************************************************************************)
(* Descriptions and entries                                                *)
(***************************************************************************)
InfoRecord ==
    [ttype : Names, type : ColumnTypes, extent : Seq(Nat), colnum : Nat \ {0}, offset : Nat,
     nbytes : Nat]

SoundInfo == {info \in InfoRecord : info.extent \in CountedShape}

LEMMA CellBytesType ==
    ASSUME NEW col \in SoundColumn
    PROVE  CellBytes(col) \in Nat /\ CellExtent(col) \in CountedShape
<1> DEFINE e == CellExtent(col)
           m == Nelem(e)
<1>1. Sound(col) /\ col.type \in ColumnTypes
  BY DEF SoundColumn, Column
<1>2. e \in CountedShape
  BY <1>1, CellExtentSound
<1>3. m \in Nat
  BY <1>2, NelemIsProduct, HalfType DEF CountedShape, IntCounts
<1> HIDE DEF e
<1>4. CASE col.type = "Bit"
  <2>1. CellBytes(col) = (m \div 8) + (IF (m \div 8) * 8 < m THEN 1 ELSE 0)
    BY <1>4 DEF CellBytes, e
  <2> HIDE DEF m
  <2>2. m \div 8 \in Nat
    BY <1>3
  <2> QED
    BY <1>2, <2>1, <2>2 DEF e
<1>5. CASE col.type = "String"
  <2>1. CellBytes(col) = m
    BY <1>5 DEF CellBytes, e
  <2> QED
    BY <1>2, <1>3, <2>1 DEF e
<1>6. CASE col.type \notin {"Bit", "String"}
  <2>1. CellBytes(col) = m * ElementBytes[col.type]
    BY <1>6 DEF CellBytes, e
  <2>2. ElementBytes[col.type] \in Nat
    BY <1>1, <1>6 DEF ElementBytes, ColumnTypes
  <2> QED
    BY <1>2, <1>3, <2>1, <2>2 DEF e
<1> QED
  BY <1>4, <1>5, <1>6

LEMMA OffsetType ==
    ASSUME NEW cs \in Seq(SoundColumn), NEW n \in 1 .. Len(cs)
    PROVE  Offset(cs, n) \in Nat
<1> DEFINE m == n - 1
<1>1. m \in Nat /\ n \in 1 .. Len(cs) + 1 /\ \A i \in 1 .. m : i \in 1 .. Len(cs)
  BY LenProperties
<1>2. PICK r : /\ r[0] = 1
               /\ \A k \in 1 .. m : r[k] = r[k - 1] + CellBytes(cs[k])
               /\ Offset(cs, n) = r[m]
  BY <1>1, OffsetSteps, SMTT(30)
<1>3. \A i \in 1 .. m : CellBytes(cs[i]) \in Nat
  BY <1>1, ElementOfSeq, CellBytesType
<1> HIDE DEF m
<1> DEFINE T == {k \in 0 .. m : r[k] \in Nat}
<1>4. 0 \in T
  BY <1>1, <1>2
<1>5. ASSUME NEW k \in 0 .. m - 1, k \in T
      PROVE  k + 1 \in T
  <2>1. k + 1 \in 1 .. m /\ k + 1 \in 0 .. m /\ (k + 1) - 1 = k
    BY <1>1
  <2> QED
    BY <1>2, <1>3, <1>5, <2>1
<1>6. \A k \in 0 .. m : k \in T
  <2> HIDE DEF T
  <2> QED
    BY <1>1, <1>4, <1>5, FirstBytes!UpTo
<1>7. m \in T
  BY <1>1, <1>6
<1> QED
  BY <1>2, <1>7

LEMMA InfosType ==
    ASSUME NEW cs \in Seq(SoundColumn)
    PROVE  /\ Infos(cs) \in Seq(SoundInfo)
           /\ Len(Infos(cs)) = Len(cs)
           /\ \A n \in 1 .. Len(cs) : Infos(cs)[n] = Info(cs, n) /\ Infos(cs)[n].colnum = n
<1>1. Len(cs) \in Nat /\ DOMAIN cs = 1 .. Len(cs)
  BY LenProperties
<1>2. ASSUME NEW n \in 1 .. Len(cs)
      PROVE  Info(cs, n) \in SoundInfo
  <2>1. cs[n] \in SoundColumn
    BY ElementOfSeq
  <2>2. cs[n].name \in Names /\ cs[n].type \in ColumnTypes
    BY <2>1 DEF SoundColumn, Column
  <2>3. CellBytes(cs[n]) \in Nat /\ CellExtent(cs[n]) \in CountedShape
    BY <2>1, CellBytesType
  <2>4. CellExtent(cs[n]) \in Seq(Nat)
    BY <2>3 DEF CountedShape
  <2>5. Offset(cs, n) \in Nat
    BY OffsetType
  <2>6. n \in Nat \ {0}
    OBVIOUS
  <2>7. Info(cs, n) \in InfoRecord /\ Info(cs, n).extent = CellExtent(cs[n])
    BY <2>2, <2>3, <2>4, <2>5, <2>6 DEF Info, InfoRecord
  <2> QED
    BY <2>3, <2>7 DEF SoundInfo
<1> DEFINE f == [n \in 1 .. Len(cs) |-> Info(cs, n)]
<1>3. Infos(cs) = f
  BY <1>1 DEF Infos
<1>4. f \in [1 .. Len(cs) -> SoundInfo] /\ \A n \in 1 .. Len(cs) : f[n] = Info(cs, n)
  BY <1>2
<1> HIDE DEF f
<1>5. f \in Seq(SoundInfo) /\ Len(f) = Len(cs)
  BY <1>1, <1>4, FunctionIsSeq
<1>6. \A n \in 1 .. Len(cs) : Info(cs, n).colnum = n
  BY DEF Info
<1> QED
  BY <1>3, <1>4, <1>5, <1>6

\* What an entry keeps is what the last of the descriptions it has seen says.
MadeEntry ==
    {e \in Entry :
        /\ Len(e.seen) = e.colnum
        /\ \E info \in SoundInfo :
            /\ e.seen[e.colnum] = info
            /\ e.string = (info.type = "String")
            /\ e.offset = info.offset
            /\ e.nbytes = info.nbytes
            /\ e.natomic = Natomic(info)}

\* Descriptions are numbered by their places.
Numbered(infos) == \A n \in 1 .. Len(infos) : infos[n].colnum = n

LEMMA EntryIsMade ==
    ASSUME NEW infos \in Seq(SoundInfo), Numbered(infos), NEW n \in 1 .. Len(infos),
           NEW name \in Names, NEW base \in Bases
    PROVE  EntryFor(infos, n, name, base) \in MadeEntry
<1> DEFINE e == EntryFor(infos, n, name, base)
           info == infos[n]
           seen == SubSeq(infos, 1, n)
<1>1. n \in Nat \ {0} /\ info \in SoundInfo /\ info.colnum = n
  BY ElementOfSeq, LenProperties DEF Numbered
<1>2. seen \in Seq(SoundInfo) /\ Len(seen) = n /\ seen[n] = info
  <2>1. \A k \in 1 .. n : infos[k] \in SoundInfo
    BY ElementOfSeq, LenProperties
  <2> QED
    BY <1>1, <2>1, SubSeqProperties
<1> HIDE DEF info, seen
<1>3. seen \in Seq(InfoRecord)
  <2>1. SoundInfo \subseteq InfoRecord
    BY DEF SoundInfo
  <2> QED
    BY <1>2, <2>1
<1>4. info \in InfoRecord /\ info.extent \in CountedShape
  BY <1>1 DEF SoundInfo
<1>5. Natomic(info) \in Nat
  <2>1. Nelem(info.extent) \in Nat
    BY <1>4, NelemIsProduct, HalfType DEF CountedShape, IntCounts
  <2> QED
    BY <1>4, <2>1 DEF Natomic, InfoRecord
<1>6. e = [name |-> name, base |-> base, colnum |-> info.colnum, string |-> info.type = "String",
           offset |-> info.offset, nbytes |-> info.nbytes, natomic |-> Natomic(info),
           seen |-> seen]
  BY DEF EntryFor, info, seen
<1>7. e \in Entry
  <2>1. info.offset \in Nat /\ info.nbytes \in Nat /\ (info.type = "String") \in BOOLEAN
    BY <1>4 DEF InfoRecord
  <2> QED
    BY <1>1, <1>3, <1>5, <1>6, <2>1 DEF Entry, InfoRecord
<1> HIDE DEF e
<1>8. /\ e.colnum = n /\ e.seen = seen /\ e.string = (info.type = "String")
      /\ e.offset = info.offset /\ e.nbytes = info.nbytes /\ e.natomic = Natomic(info)
  BY <1>1, <1>6
<1>9. e \in MadeEntry
  BY <1>1, <1>2, <1>7, <1>8 DEF MadeEntry
<1> QED
  BY <1>9 DEF e

\* Where the columns up to its own are what it has seen, an entry fits its column.
IntactIn(e, cs) ==
    /\ e.colnum <= Len(cs)
    /\ SubSeq(Infos(cs), 1, e.colnum) = e.seen

LEMMA IntactFits ==
    ASSUME NEW cs \in Seq(UncutColumn), NEW e \in MadeEntry, IntactIn(e, cs)
    PROVE  e.colnum \in 1 .. Len(cs) /\ Fits(cs, e, e.colnum)
<1> DEFINE n == e.colnum
           col == cs[n]
<1>1. cs \in Seq(SoundColumn)
  <2>1. UncutColumn \subseteq SoundColumn
    BY DEF UncutColumn
  <2> QED
    BY <2>1
<1>2. n \in 1 .. Len(cs)
  <2>1. n \in Nat \ {0} /\ Len(cs) \in Nat
    BY LenProperties DEF MadeEntry, Entry
  <2> QED
    BY <2>1 DEF IntactIn
<1>3. PICK info \in SoundInfo : /\ e.seen[n] = info
                                /\ e.string = (info.type = "String")
                                /\ e.offset = info.offset
                                /\ e.nbytes = info.nbytes
                                /\ e.natomic = Natomic(info)
  BY DEF MadeEntry
<1> HIDE DEF n, col
<1>4. info = Info(cs, n)
  <2>1. Infos(cs) \in Seq(SoundInfo) /\ Len(Infos(cs)) = Len(cs) /\ Infos(cs)[n] = Info(cs, n)
    BY <1>1, <1>2, InfosType
  <2> DEFINE infos == Infos(cs)
  <2> HIDE DEF infos
  <2>2. infos \in Seq(SoundInfo) /\ n \in 1 .. Len(infos)
    BY <1>2, <2>1 DEF infos
  <2>3. SubSeq(infos, 1, n)[n] = infos[n]
    <3>1. \A k \in 1 .. n : infos[k] \in SoundInfo
      BY <2>2, ElementOfSeq, LenProperties
    <3>2. n \in Nat /\ Len(infos) \in Nat /\ n \in 1 .. n
      BY <2>2, LenProperties
    <3> QED
      BY <2>2, <3>1, <3>2, SubSeqProperties
  <2> QED
    BY <1>3, <2>1, <2>3 DEF IntactIn, infos, n
<1>5. /\ info.type = col.type /\ info.extent = CellExtent(col)
      /\ info.offset = Offset(cs, n) /\ info.nbytes = CellBytes(col)
  BY <1>4 DEF Info, col
<1>6. col \in UncutColumn /\ col \in SoundColumn
  BY <1>1, <1>2, ElementOfSeq DEF col
<1>7. CellBytes(col) = StorageBytes(col) /\ Nelem(CellExtent(col)) = col.repeat
  BY <1>6, UncutIsStored
<1>8. Offset(cs, n) = FirstByte(cs, n)
  BY <1>2, OffsetIsFirstByteOf, LenProperties
<1>9. (col.type = "String") = e.string
  BY <1>3, <1>5
<1>10. CASE col.type = "String"
  BY <1>2, <1>3, <1>5, <1>7, <1>8, <1>9, <1>10 DEF Fits, col, n
<1>11. CASE col.type # "String"
  <2>1. e.natomic = Elements(col)
    BY <1>3, <1>5, <1>7, <1>11 DEF Natomic, Elements
  <2> QED
    BY <1>2, <1>9, <1>11, <2>1 DEF Fits, col, n
<1> QED
  BY <1>10, <1>11

\* What reading a cell through it finds.
LEMMA GetItsCell ==
    ASSUME NEW cs \in Seq(SoundColumn), NEW e, NEW n \in 1 .. Len(cs), Fits(cs, e, n),
           NEW d, NEW i
    PROVE  Get(cs, d, e, i) = d[i][n]
<1> DEFINE at == {k \in DOMAIN cs : Fits(cs, e, k)}
<1>1. DOMAIN cs = 1 .. Len(cs)
  BY LenProperties
<1>2. at = {n}
  BY <1>1, FitsOneColumn
<1>3. Get(cs, d, e, i) = IF at = {} THEN Junk ELSE d[i][CHOOSE k \in at : TRUE]
  BY DEF Get
<1> HIDE DEF at
<1>4. (CHOOSE k \in at : TRUE) = n
  BY <1>2
<1> QED
  BY <1>2, <1>3, <1>4

\* The rows of a table and the cells in them.
Table(cs) == {d \in Seq(Seq(Cell)) : \A j \in 1 .. Len(d) : Len(d[j]) = Len(cs)}

LEMMA CellsOfTable ==
    ASSUME NEW cs \in Seq(SoundColumn), NEW d \in Table(cs), NEW j \in 1 .. Len(d),
           NEW n \in 1 .. Len(cs)
    PROVE  d[j][n] \in Cell
<1>1. d[j] \in Seq(Cell) /\ Len(d[j]) = Len(cs)
  BY ElementOfSeq DEF Table
<1> QED
  BY <1>1, ElementOfSeq

LEMMA RowsMadeType ==
    ASSUME NEW cs \in Seq(SoundColumn), NEW rows \in Nat,
           NEW d \in [1 .. rows -> [1 .. Len(cs) -> Cell]]
    PROVE  d \in Table(cs) /\ Len(d) = rows
<1>1. Len(cs) \in Nat
  BY LenProperties
<1>2. ASSUME NEW j \in 1 .. rows
      PROVE  d[j] \in Seq(Cell) /\ Len(d[j]) = Len(cs)
  <2>1. d[j] \in [1 .. Len(cs) -> Cell]
    OBVIOUS
  <2> QED
    BY <1>1, <2>1, FunctionIsSeq
<1>3. d \in [1 .. rows -> Seq(Cell)]
  BY <1>2
<1>4. d \in Seq(Seq(Cell)) /\ Len(d) = rows
  BY <1>3, FunctionIsSeq
<1> QED
  BY <1>2, <1>4 DEF Table

\* The cell in row j and column n after a write at row i.
PutCell(cs, d, e, i, value, j, n) ==
    CASE Touches(cs, e, i, j, n) -> IF j = i /\ Fits(cs, e, n) THEN value ELSE Junk
      [] ~ Touches(cs, e, i, j, n) /\ j <= Len(d) -> d[j][n]
      [] OTHER -> Junk

RowsAfter(cs, d, e, i) == IF LastRow(cs, e, i) > Len(d) THEN LastRow(cs, e, i) ELSE Len(d)

LEMMA PutCells ==
    ASSUME NEW cs \in Seq(SoundColumn), NEW d, NEW e, NEW i, NEW value
    PROVE  LET new == Put(cs, d, e, i, value)
           IN  /\ new = [j \in 1 .. RowsAfter(cs, d, e, i) |->
                            [n \in 1 .. Len(cs) |-> PutCell(cs, d, e, i, value, j, n)]]
               /\ \A j \in 1 .. RowsAfter(cs, d, e, i) : \A n \in 1 .. Len(cs) :
                        new[j][n] = PutCell(cs, d, e, i, value, j, n)
<1>1. DOMAIN cs = 1 .. Len(cs)
  BY LenProperties
<1>2. Put(cs, d, e, i, value) =
            [j \in 1 .. RowsAfter(cs, d, e, i) |->
                [n \in 1 .. Len(cs) |-> PutCell(cs, d, e, i, value, j, n)]]
  BY <1>1 DEF Put, PutCell, RowsAfter
<1> QED
  BY <1>2

\* There are columns for the bytes which a string entry has been given.
Reaches(cs, e) == cs # <<>> /\ (e.string \/ e.colnum \in DOMAIN cs)

LEMMA LastRowType ==
    ASSUME NEW cs \in Seq(SoundColumn), NEW e \in Entry, Reaches(cs, e), NEW i \in Int
    PROVE  LastRow(cs, e, i) \in Int
<1>1. /\ e.offset \in Nat /\ e.nbytes \in Nat /\ e.natomic \in Nat
      /\ e.string \in BOOLEAN /\ e.colnum \in Nat
  BY DEF Entry
<1>2. CASE e.string
  <2> DEFINE R == RowBytes(cs)
             x == e.offset + e.nbytes - 2
  <2>1. LastRow(cs, e, i) = i + x \div R
    BY <1>2 DEF LastRow
  <2>2. Len(cs) \in Nat /\ Len(cs) # 0
    BY EmptySeq, LenProperties DEF Reaches
  <2>3. 1 \in 1 .. Len(cs)
    BY <2>2
  <2>4. R \in Nat \ {0}
    <3>1. /\ R \in Nat
          /\ FirstByte(cs, 1) \in Nat \ {0} /\ StorageBytes(cs[1]) \in Nat \ {0}
          /\ FirstByte(cs, 1) + StorageBytes(cs[1]) <= R + 1
      BY <2>3, RowBytesType
    <3> QED
      BY <3>1
  <2>5. x \in Int
    BY <1>1
  <2> HIDE DEF x, R
  <2>6. x \div R \in Int
    BY <2>4, <2>5
  <2> QED
    BY <2>1, <2>6
<1>3. CASE ~ e.string
  <2> DEFINE E == Elements(cs[e.colnum])
             x == e.natomic - 1
  <2>1. LastRow(cs, e, i) = i + x \div E
    BY <1>3 DEF LastRow
  <2>2. E \in Nat \ {0}
    BY <1>3, ElementOfSeq, LenProperties, StoredBytes DEF Reaches
  <2>3. x \in Int
    BY <1>1
  <2> HIDE DEF x, E
  <2>4. x \div E \in Int
    BY <2>2, <2>3
  <2> QED
    BY <2>1, <2>4
<1> QED
  BY <1>1, <1>2, <1>3

\* A write leaves a table, with no fewer rows.
LEMMA PutType ==
    ASSUME NEW cs \in Seq(SoundColumn), NEW d \in Table(cs), NEW e \in Entry, Reaches(cs, e),
           NEW i \in Int, NEW value \in Cell
    PROVE  Put(cs, d, e, i, value) \in Table(cs)
<1> DEFINE rows == RowsAfter(cs, d, e, i)
           new == Put(cs, d, e, i, value)
<1>1. rows \in Nat
  <2>1. Len(d) \in Nat
    BY LenProperties DEF Table
  <2>2. LastRow(cs, e, i) \in Int
    BY LastRowType
  <2> QED
    BY <2>1, <2>2 DEF RowsAfter
<1>2. ASSUME NEW j \in 1 .. rows, NEW n \in 1 .. Len(cs)
      PROVE  PutCell(cs, d, e, i, value, j, n) \in Cell
  <2>1. Junk \in Cell
    BY DEF Cell
  <2>2. j <= Len(d) => d[j][n] \in Cell
    <3> SUFFICES ASSUME j <= Len(d) PROVE d[j][n] \in Cell
      OBVIOUS
    <3>1. j \in 1 .. Len(d)
      BY <1>1, LenProperties DEF Table
    <3> QED
      BY <3>1, CellsOfTable
  <2>3. CASE Touches(cs, e, i, j, n)
    <3>1. PutCell(cs, d, e, i, value, j, n) = IF j = i /\ Fits(cs, e, n) THEN value ELSE Junk
      BY <2>3 DEF PutCell
    <3> QED
      BY <2>1, <3>1
  <2>4. CASE ~ Touches(cs, e, i, j, n) /\ j <= Len(d)
    <3>1. PutCell(cs, d, e, i, value, j, n) = d[j][n]
      BY <2>4 DEF PutCell
    <3> QED
      BY <2>2, <2>4, <3>1
  <2>5. CASE ~ Touches(cs, e, i, j, n) /\ ~ j <= Len(d)
    <3>1. PutCell(cs, d, e, i, value, j, n) = Junk
      BY <2>5 DEF PutCell
    <3> QED
      BY <2>1, <3>1
  <2> QED
    BY <2>3, <2>4, <2>5
<1>3. new = [j \in 1 .. rows |-> [n \in 1 .. Len(cs) |-> PutCell(cs, d, e, i, value, j, n)]]
  BY PutCells
<1> HIDE DEF rows, new
<1>4. new \in [1 .. rows -> [1 .. Len(cs) -> Cell]]
  BY <1>2, <1>3
<1>5. new \in Table(cs)
  BY <1>1, <1>4, RowsMadeType
<1> QED
  BY <1>5 DEF new

\* A table which differs from another in one cell only, or in having row i.
DiffersAt(new, d, cs, i, n) ==
    /\ Len(new) = IF i > Len(d) THEN i ELSE Len(d)
    /\ \A j \in 1 .. Len(d) : \A k \in 1 .. Len(cs) :
            new[j][k] # d[j][k] => j = i /\ k = n

LEMMA PutItsCell ==
    ASSUME NEW cs \in Seq(SoundColumn), NEW d \in Table(cs), NEW e \in Entry,
           NEW n \in 1 .. Len(cs), Fits(cs, e, n), NEW i \in Nat \ {0}, NEW value \in Cell
    PROVE  LET new == Put(cs, d, e, i, value)
           IN  /\ new \in Table(cs)
               /\ new[i][n] = value
               /\ DiffersAt(new, d, cs, i, n)
<1> DEFINE new == Put(cs, d, e, i, value)
           rows == RowsAfter(cs, d, e, i)
<1>1. Len(d) \in Nat
  BY LenProperties DEF Table
<1>2. rows = IF i > Len(d) THEN i ELSE Len(d)
  BY LastRowIsItsRow DEF RowsAfter
<1>3. Reaches(cs, e)
  <2>1. e.string \in BOOLEAN
    BY DEF Entry
  <2>2. cs # <<>> /\ n \in DOMAIN cs
    BY LenProperties, EmptySeq
  <2> QED
    BY <2>1, <2>2 DEF Fits, Reaches
<1>4. new \in Table(cs)
  BY <1>3, PutType
<1>5. /\ new = [j \in 1 .. rows |-> [k \in 1 .. Len(cs) |-> PutCell(cs, d, e, i, value, j, k)]]
      /\ \A j \in 1 .. rows : \A k \in 1 .. Len(cs) : new[j][k] = PutCell(cs, d, e, i, value, j, k)
  BY PutCells
<1>6. DOMAIN new = 1 .. rows
  BY <1>5
<1> HIDE DEF new, rows
<1>7. Len(new) = rows
  <2>1. rows \in Nat
    BY <1>1, <1>2
  <2>2. new \in Seq(Seq(Cell)) /\ Len(new) \in Nat /\ DOMAIN new = 1 .. Len(new)
    BY <1>4, LenProperties DEF Table
  <2> QED
    BY <1>6, <2>1, <2>2
<1>8. new[i][n] = value
  <2>1. i \in 1 .. rows
    BY <1>1, <1>2
  <2>2. Touches(cs, e, i, i, n)
    BY TouchesItsCell
  <2>3. PutCell(cs, d, e, i, value, i, n) = value
    BY <2>2 DEF PutCell
  <2> QED
    BY <1>5, <2>1, <2>3
<1>9. ASSUME NEW j \in 1 .. Len(d), NEW k \in 1 .. Len(cs), ~ (j = i /\ k = n)
      PROVE  new[j][k] = d[j][k]
  <2>1. j \in 1 .. rows
    BY <1>1, <1>2
  <2>2. ~ Touches(cs, e, i, j, k)
    BY <1>9, TouchesItsCell
  <2>3. j <= Len(d)
    BY <1>1
  <2>4. PutCell(cs, d, e, i, value, j, k) = d[j][k]
    BY <2>2, <2>3 DEF PutCell
  <2> QED
    BY <1>5, <2>1, <2>4
<1>10. DiffersAt(new, d, cs, i, n)
  BY <1>2, <1>7, <1>9 DEF DiffersAt
<1> QED
  BY <1>4, <1>8, <1>10 DEF new

-----------------------------------------------------------------------------
(***************************************************************************)
(* What reads and writes have done after some of the entries               *)
(***************************************************************************)
ReadOp(ctx, mem, e) == [mem EXCEPT ![e.base] = Get(ctx[1], ctx[2], e, ctx[3])]
WriteOp(ctx, cells, e) == Put(ctx[1], cells, e, ctx[2], ctx[3][e.base])

Reading == INSTANCE FoldTheory WITH Op <- ReadOp
Writing == INSTANCE FoldTheory WITH Op <- WriteOp

LEMMA ReadIsFold ==
    ASSUME NEW cs, NEW d, NEW es, NEW i, NEW k
    PROVE  ReadUpTo(cs, d, es, i, k) = Reading!Fold(<<cs, d, i>>, memory, SubSeq(es, 1, k))
BY DEF ReadUpTo, ReadOp, Reading!Fold, Reading!FoldLeft, FoldLeft,
       Reading!MapThenFoldSet, MapThenFoldSet, Reading!Max, Max

LEMMA WriteIsFold ==
    ASSUME NEW cs, NEW d, NEW es, NEW i, NEW k
    PROVE  WriteUpTo(cs, d, es, i, k) = Writing!Fold(<<cs, i, memory>>, d, SubSeq(es, 1, k))
BY DEF WriteUpTo, WriteOp, Writing!Fold, Writing!FoldLeft, FoldLeft,
       Writing!MapThenFoldSet, MapThenFoldSet, Writing!Max, Max

\* The first entries.
LEMMA FirstEntries ==
    ASSUME NEW S, NEW es \in Seq(S), NEW k \in 0 .. Len(es)
    PROVE  /\ SubSeq(es, 1, k) \in Seq(S)
           /\ Len(SubSeq(es, 1, k)) = k
           /\ \A j \in 1 .. k : SubSeq(es, 1, k)[j] = es[j]
<1>1. Len(es) \in Nat /\ \A j \in 1 .. Len(es) : es[j] \in S
  BY ElementOfSeq, LenProperties
<1>2. \A j \in 1 .. k : es[j] \in S
  BY <1>1
<1> QED
  BY <1>1, <1>2, SubSeqProperties

\* The variables change one by one.
ReadOne(cs, d, mem, e, i) == [mem EXCEPT ![e.base] = Get(cs, d, e, i)]

ReadThrough(cs, d, es, i, k, r) ==
    /\ r[0] = memory
    /\ \A j \in 1 .. k : r[j] = ReadOne(cs, d, r[j - 1], es[j], i)
    /\ ReadUpTo(cs, d, es, i, k) = r[k]

LEMMA ReadSteps ==
    ASSUME NEW S, NEW es \in Seq(S), NEW k \in 0 .. Len(es), NEW cs, NEW d, NEW i
    PROVE  \E r : ReadThrough(cs, d, es, i, k, r)
<1> DEFINE first == SubSeq(es, 1, k)
           ctx == <<cs, d, i>>
<1>1. first \in Seq(S)
  BY FirstEntries
<1>2. Len(first) = k /\ \A j \in 1 .. k : first[j] = es[j]
  BY FirstEntries
<1>3. ReadUpTo(cs, d, es, i, k) = Reading!Fold(ctx, memory, first)
  BY ReadIsFold
<1>4. ctx[1] = cs /\ ctx[2] = d /\ ctx[3] = i
  OBVIOUS
<1> HIDE DEF first, ctx
<1>5. PICK r : /\ r[0] = memory
               /\ \A j \in 1 .. Len(first) : r[j] = ReadOp(ctx, r[j - 1], first[j])
               /\ Reading!Fold(ctx, memory, first) = r[Len(first)]
  BY <1>1, Reading!FoldSteps, SMTT(30)
<1>6. \A j \in 1 .. k : r[j] = ReadOne(cs, d, r[j - 1], es[j], i)
  BY <1>2, <1>4, <1>5 DEF ReadOp, ReadOne
<1>7. ReadThrough(cs, d, es, i, k, r)
  BY <1>2, <1>3, <1>5, <1>6 DEF ReadThrough
<1> QED
  BY <1>7

\* The rows change entry by entry.
WriteThrough(cs, d, es, i, k, r) ==
    /\ r[0] = d
    /\ \A j \in 1 .. k : r[j] = Put(cs, r[j - 1], es[j], i, memory[es[j].base])
    /\ WriteUpTo(cs, d, es, i, k) = r[k]

LEMMA WriteSteps ==
    ASSUME NEW S, NEW es \in Seq(S), NEW k \in 0 .. Len(es), NEW cs, NEW d, NEW i
    PROVE  \E r : WriteThrough(cs, d, es, i, k, r)
<1> DEFINE first == SubSeq(es, 1, k)
           ctx == <<cs, i, memory>>
<1>1. first \in Seq(S)
  BY FirstEntries
<1>2. Len(first) = k /\ \A j \in 1 .. k : first[j] = es[j]
  BY FirstEntries
<1>3. WriteUpTo(cs, d, es, i, k) = Writing!Fold(ctx, d, first)
  BY WriteIsFold
<1>4. ctx[1] = cs /\ ctx[2] = i /\ ctx[3] = memory
  OBVIOUS
<1> HIDE DEF first, ctx
<1>5. PICK r : /\ r[0] = d
               /\ \A j \in 1 .. Len(first) : r[j] = WriteOp(ctx, r[j - 1], first[j])
               /\ Writing!Fold(ctx, d, first) = r[Len(first)]
  BY <1>1, Writing!FoldSteps, SMTT(30)
<1>6. \A j \in 1 .. k : r[j] = Put(cs, r[j - 1], es[j], i, memory[es[j].base])
  BY <1>2, <1>4, <1>5 DEF WriteOp
<1>7. WriteThrough(cs, d, es, i, k, r)
  BY <1>2, <1>3, <1>5, <1>6 DEF WriteThrough
<1> QED
  BY <1>7

LEMMA GetType ==
    ASSUME NEW cs \in Seq(SoundColumn), NEW d \in Table(cs), NEW e, NEW i \in 1 .. Len(d)
    PROVE  Get(cs, d, e, i) \in Cell
<1> DEFINE at == {n \in DOMAIN cs : Fits(cs, e, n)}
<1>1. Get(cs, d, e, i) = IF at = {} THEN Junk ELSE d[i][CHOOSE n \in at : TRUE]
  BY DEF Get
<1>2. at \subseteq 1 .. Len(cs)
  BY LenProperties
<1> HIDE DEF at
<1>3. CASE at = {}
  BY <1>1, <1>3 DEF Cell
<1>4. CASE at # {}
  <2> DEFINE m == CHOOSE n \in at : TRUE
  <2>1. m \in 1 .. Len(cs)
    BY <1>2, <1>4
  <2>2. Get(cs, d, e, i) = d[i][m]
    BY <1>1, <1>4
  <2> HIDE DEF m
  <2> QED
    BY <2>1, <2>2, CellsOfTable
<1> QED
  BY <1>3, <1>4

Memory == [Bases -> Cell]

LEMMA ReadUpToType ==
    ASSUME NEW cs \in Seq(SoundColumn), NEW d \in Table(cs), NEW es \in Seq(Entry),
           memory \in Memory, NEW k \in 0 .. Len(es), NEW i \in Nat, k > 0 => i \in 1 .. Len(d)
    PROVE  ReadUpTo(cs, d, es, i, k) \in Memory
<1>1. k \in Nat /\ \A j \in 1 .. k : es[j] \in Entry
  BY LenProperties, ElementOfSeq
<1>2. PICK r : ReadThrough(cs, d, es, i, k, r)
  BY ReadSteps
<1>3. /\ r[0] = memory
      /\ \A j \in 1 .. k : r[j] = ReadOne(cs, d, r[j - 1], es[j], i)
      /\ ReadUpTo(cs, d, es, i, k) = r[k]
  BY <1>2 DEF ReadThrough
<1> DEFINE T == {j \in 0 .. k : r[j] \in Memory}
<1>4. 0 \in T
  BY <1>1, <1>3
<1>5. ASSUME NEW j \in 0 .. k - 1, j \in T
      PROVE  j + 1 \in T
  <2>1. j + 1 \in 1 .. k /\ j + 1 \in 0 .. k /\ (j + 1) - 1 = j /\ i \in 1 .. Len(d)
    BY <1>1
  <2>2. r[j + 1] = [r[j] EXCEPT ![es[j + 1].base] = Get(cs, d, es[j + 1], i)]
    BY <1>3, <2>1 DEF ReadOne
  <2>3. Get(cs, d, es[j + 1], i) \in Cell
    BY <2>1, GetType
  <2>4. r[j] \in Memory
    BY <1>5
  <2>5. r[j + 1] \in Memory
    BY <2>2, <2>3, <2>4 DEF Memory
  <2> QED
    BY <2>1, <2>5
<1>6. \A j \in 0 .. k : j \in T
  <2> HIDE DEF T
  <2> QED
    BY <1>1, <1>4, <1>5, FirstBytes!UpTo
<1>7. k \in T
  BY <1>1, <1>6
<1> QED
  BY <1>3, <1>7

LEMMA WriteUpToType ==
    ASSUME NEW cs \in Seq(SoundColumn), NEW d \in Table(cs), NEW es \in Seq(Entry),
           memory \in Memory, NEW k \in 0 .. Len(es), NEW i \in Int, \A j \in 1 .. k : Reaches(cs, es[j])
    PROVE  WriteUpTo(cs, d, es, i, k) \in Table(cs)
<1>1. k \in Nat /\ \A j \in 1 .. k : es[j] \in Entry
  BY LenProperties, ElementOfSeq
<1>2. k \in Nat /\ \A j \in 1 .. k : es[j] \in Entry /\ memory[es[j].base] \in Cell
  <2>1. \A e \in Entry : memory[e.base] \in Cell
    <3>1. \A e \in Entry : e.base \in Bases
      BY DEF Entry
    <3> QED
      BY <3>1 DEF Memory
  <2> QED
    BY <1>1, <2>1
<1>3. PICK r : WriteThrough(cs, d, es, i, k, r)
  BY WriteSteps
<1>4. /\ r[0] = d
      /\ \A j \in 1 .. k : r[j] = Put(cs, r[j - 1], es[j], i, memory[es[j].base])
      /\ WriteUpTo(cs, d, es, i, k) = r[k]
  BY <1>3 DEF WriteThrough
<1> DEFINE T == {j \in 0 .. k : r[j] \in Table(cs)}
<1>5. 0 \in T
  BY <1>2, <1>4
<1>6. ASSUME NEW j \in 0 .. k - 1, j \in T
      PROVE  j + 1 \in T
  <2>1. j + 1 \in 1 .. k /\ j + 1 \in 0 .. k /\ (j + 1) - 1 = j
    BY <1>2
  <2>2. r[j + 1] = Put(cs, r[j], es[j + 1], i, memory[es[j + 1].base])
    BY <1>4, <2>1
  <2>3. r[j] \in Table(cs)
    BY <1>6
  <2>4. r[j + 1] \in Table(cs)
    BY <1>2, <2>1, <2>2, <2>3, PutType
  <2> QED
    BY <2>1, <2>4
<1>7. \A j \in 0 .. k : j \in T
  <2> HIDE DEF T
  <2> QED
    BY <1>2, <1>5, <1>6, FirstBytes!UpTo
<1>8. k \in T
  BY <1>2, <1>7
<1> QED
  BY <1>4, <1>8

-----------------------------------------------------------------------------
(***************************************************************************)
(* Types                                                                   *)
(***************************************************************************)
\* An int can count the elements of every shape which the client asks for.
ShapesCounted == Extents \subseteq CountedShape

\* The columns which the calls of tables make of columns in K are in K.
Kind(K) ==
    /\ K \subseteq SoundColumn
    /\ \A name \in Names, type \in Types, extent \in Extents :
            /\ ShapedColumn(name, type, extent) \in K
            /\ NewColumn(name, StoredType(type), TformRepeat(extent)) \in K
    /\ \A col \in K, extent \in Extents : ReshapedColumn(col, extent) \in K

LEMMA StoredTypes == \A type \in Types : StoredType(type) \in ColumnTypes
BY TypesAssumption DEF StoredType, ColumnTypes

LEMMA UncutIsKind ==
    ASSUME ShapesCounted
    PROVE  Kind(SoundColumn) /\ Kind(UncutColumn)
<1>1. UncutColumn \subseteq SoundColumn
  BY DEF UncutColumn
<1>2. ASSUME NEW name \in Names, NEW type \in Types, NEW extent \in Extents
      PROVE  /\ ShapedColumn(name, type, extent) \in UncutColumn
             /\ NewColumn(name, StoredType(type), TformRepeat(extent)) \in UncutColumn
  <2> DEFINE bare == NewColumn(name, StoredType(type), TformRepeat(extent))
             full == ShapedColumn(name, type, extent)
  <2>1. extent \in CountedShape /\ extent \in Seq(Nat)
    BY DEF ShapesCounted, CountedShape
  <2>2. TformRepeat(extent) \in Nat \ {0}
    BY <2>1, TformCounts, HalfType DEF IntCounts
  <2>3. StoredType(type) \in ColumnTypes
    BY StoredTypes
  <2>4. bare \in Column /\ bare.width = 0
    <3>1. NoTdim \in Seq(Nat)
      BY DEF NoTdim
    <3> QED
      BY <2>2, <2>3, <3>1 DEF NewColumn, Column
  <2>5. full \in Column /\ full.width = 0
    <3> HIDE DEF bare
    <3>1. CASE NeedsTdim(extent)
      <4>1. full = [bare EXCEPT !.tdim = extent]
        BY <3>1 DEF ShapedColumn, bare
      <4> HIDE DEF full
      <4> QED
        BY <2>1, <2>4, <4>1 DEF Column
    <3>2. CASE ~ NeedsTdim(extent)
      <4>1. full = bare
        BY <3>2 DEF ShapedColumn, bare
      <4> QED
        BY <2>4, <4>1
    <3> QED
      BY <3>1, <3>2
  <2>6. Sound(bare)
    BY <2>1, NewColumnSound
  <2>7. Sound(full)
    BY <2>1, ShapedColumnDescribed
  <2> QED
    BY <2>4, <2>5, <2>6, <2>7 DEF SoundColumn, UncutColumn
<1>3. ASSUME NEW col \in SoundColumn, NEW extent \in Extents
      PROVE  /\ ReshapedColumn(col, extent) \in SoundColumn
             /\ ReshapedColumn(col, extent).width = col.width
  <2> DEFINE reshaped == ReshapedColumn(col, extent)
  <2>1. extent \in CountedShape /\ extent \in Seq(Nat)
    BY DEF ShapesCounted, CountedShape
  <2>2. col \in Column
    BY DEF SoundColumn
  <2>3. Nelem(extent) \in Nat \ {0}
    BY <2>1, NelemIsProduct DEF CountedShape, IntCounts
  <2>4. NoTdim \in Seq(Nat)
    BY DEF NoTdim
  <2>5. reshaped \in Column /\ reshaped.width = col.width
    BY <2>1, <2>2, <2>3, <2>4 DEF ReshapedColumn, Column
  <2>6. Sound(reshaped)
    BY <2>1, <2>2, ReshapedColumnDescribed DEF Column
  <2> QED
    BY <2>5, <2>6 DEF SoundColumn
<1> QED
  BY <1>1, <1>2, <1>3 DEF Kind, UncutColumn

RowRecord == [table : TableObjects, idx : Nat, auto : BOOLEAN, entries : Seq(MadeEntry)]

\* TypeOK with what it rests on: columns can be described, descriptions are
\* numbered by their places, entries are what descriptions made them, and a
\* Row has entries only if its table has columns.
Typed ==
    /\ cols \in [TableObjects -> Seq(SoundColumn)]
    /\ columns \in [TableObjects -> Seq(SoundInfo)]
    /\ \A t \in TableObjects : Numbered(columns[t])
    /\ chdu \in TableObjects
    /\ data \in [TableObjects -> Seq(Seq(Cell))]
    /\ \A t \in TableObjects : data[t] \in Table(cols[t])
    /\ row \in [Objects -> RowRecord]
    /\ \A r \in Objects : row[r].entries # <<>> => cols[row[r].table] # <<>>
    /\ memory \in Memory

LEMMA TypedIsTypeOK == Typed => TypeOK
<1> SUFFICES ASSUME Typed PROVE TypeOK
  OBVIOUS
<1>1. cols \in [TableObjects -> Seq(Column)]
  <2>1. SoundColumn \subseteq Column
    BY DEF SoundColumn
  <2>2. Seq(SoundColumn) \subseteq Seq(Column)
    BY <2>1
  <2> QED
    BY <2>2 DEF Typed
<1>2. ASSUME NEW t \in TableObjects
      PROVE  data[t] \in Seq(Seq(Cell)) /\ \A j \in DOMAIN data[t] : Len(data[t][j]) = Len(cols[t])
  <2>1. data[t] \in Table(cols[t])
    BY DEF Typed
  <2>2. data[t] \in Seq(Seq(Cell)) /\ \A j \in 1 .. Len(data[t]) : Len(data[t][j]) = Len(cols[t])
    BY <2>1 DEF Table
  <2>3. DOMAIN data[t] = 1 .. Len(data[t])
    BY <2>2, LenProperties
  <2> QED
    BY <2>2, <2>3
<1>3. row \in [Objects -> [table : TableObjects, idx : Nat, auto : BOOLEAN, entries : Seq(Entry)]]
  <2>1. MadeEntry \subseteq Entry
    BY DEF MadeEntry
  <2>2. Seq(MadeEntry) \subseteq Seq(Entry)
    BY <2>1
  <2> DEFINE wide == [table : TableObjects, idx : Nat, auto : BOOLEAN, entries : Seq(Entry)]
  <2>3. RowRecord \subseteq wide
    BY <2>2 DEF RowRecord
  <2> HIDE DEF wide
  <2>4. row \in [Objects -> wide]
    BY <2>3 DEF Typed
  <2> QED
    BY <2>4 DEF wide
<1> QED
  BY <1>1, <1>2, <1>3 DEF TypeOK, Typed, Memory

-----------------------------------------------------------------------------
(***************************************************************************)
(* Calls of tables                                                         *)
(***************************************************************************)
\* What a call which changes the layout of table t may leave: columns in K, at
\* least one, rows as wide, and descriptions of these columns or the old ones.
Relaid(t, K) ==
    /\ t \in TableObjects
    /\ \E cs \in Seq(K), d \in Seq(Seq(Cell)) :
            /\ cs # <<>> /\ d \in Table(cs) /\ Relayout(t, cs, d)
            /\ columns' = columns \/ Refresh(t, cs)

\* Each row of a table, changed alike.
LEMMA EachRow ==
    ASSUME NEW cs, NEW d \in Table(cs), NEW new, NEW f,
           DOMAIN f = 1 .. Len(d),
           \A j \in 1 .. Len(d) : f[j] \in Seq(Cell) /\ Len(f[j]) = Len(new)
    PROVE  f = [j \in 1 .. Len(d) |-> f[j]] => f \in Table(new)
<1> SUFFICES ASSUME f = [j \in 1 .. Len(d) |-> f[j]] PROVE f \in Table(new)
  OBVIOUS
<1>1. Len(d) \in Nat
  BY LenProperties DEF Table
<1>2. f \in [1 .. Len(d) -> Seq(Cell)]
  OBVIOUS
<1>3. f \in Seq(Seq(Cell)) /\ Len(f) = Len(d)
  BY <1>1, <1>2, FunctionIsSeq
<1> QED
  BY <1>3 DEF Table

LEMMA JunkIsCell == Junk \in Cell
BY DEF Cell

LEMMA AddColumnEffect ==
    ASSUME NEW K, Kind(K), Typed, cols \in [TableObjects -> Seq(K)],
           NEW t \in TableObjects, NEW name \in Names, NEW type \in Types, NEW extent \in Extents,
           NEW colnum \in 1 .. MaxColumns, AddColumn(t, name, type, extent, colnum)
    PROVE  Relaid(t, K)
<1> DEFINE old == cols[t]
           cs == Inserted(old, name, type, extent, colnum)
           d == data[t]
           new == [j \in DOMAIN d |-> InsertCol(d[j], colnum, Junk)]
           full == ShapedColumn(name, type, extent)
<1>1. old \in Seq(K) /\ Len(old) \in Nat /\ d \in Table(old) /\ colnum \in Nat \ {0}
  BY LenProperties DEF Typed
<1>2. full \in K /\ NewColumn(name, StoredType(type), TformRepeat(extent)) \in K
  BY DEF Kind
<1>3. ~ TdimMisses(old, extent, colnum)
  BY <1>1 DEF AddColumn, TdimMisses
<1> HIDE DEF old, d
<1>4. cs = InsertCol(old, colnum, full)
  BY <1>1, <1>2, <1>3, InsertedIsOneColumn
<1> HIDE DEF cs, full
<1>5. cs \in Seq(K) /\ Len(cs) = Len(old) + 1
  <2>1. Grows(InsertCol(old, colnum, full), old, InsertedAt(Len(old), colnum), full, K)
    BY <1>1, <1>2, InsertColElements
  <2> QED
    BY <1>4, <2>1 DEF Grows
<1>6. cs # <<>>
  BY <1>1, <1>5, EmptySeq
<1>7. DOMAIN d = 1 .. Len(d) /\ \A j \in 1 .. Len(d) : d[j] \in Seq(Cell) /\ Len(d[j]) = Len(old)
  BY <1>1, ElementOfSeq, LenProperties DEF Table
<1>8. ASSUME NEW j \in 1 .. Len(d)
      PROVE  InsertCol(d[j], colnum, Junk) \in Seq(Cell) /\ Len(InsertCol(d[j], colnum, Junk)) = Len(cs)
  <2> DEFINE line == d[j]
  <2>1. line \in Seq(Cell) /\ Len(line) = Len(old)
    BY <1>7
  <2> HIDE DEF line
  <2>2. Grows(InsertCol(line, colnum, Junk), line, InsertedAt(Len(line), colnum), Junk, Cell)
    BY <1>1, <2>1, JunkIsCell, InsertColElements
  <2>3. InsertCol(line, colnum, Junk) \in Seq(Cell) /\ Len(InsertCol(line, colnum, Junk)) = Len(cs)
    BY <1>5, <2>1, <2>2 DEF Grows
  <2> QED
    BY <2>3 DEF line
<1>9. /\ DOMAIN new = 1 .. Len(d)
      /\ \A j \in 1 .. Len(d) : new[j] \in Seq(Cell) /\ Len(new[j]) = Len(cs)
      /\ new = [j \in 1 .. Len(d) |-> new[j]]
  BY <1>7, <1>8
<1>10. new = [j \in DOMAIN data[t] |-> InsertCol(data[t][j], colnum, Junk)]
  BY DEF d
<1> HIDE DEF new
<1>11. new \in Table(cs)
  BY <1>1, <1>9, EachRow
<1>12. Relayout(t, cs, new) /\ Refresh(t, cs)
  BY <1>10 DEF AddColumn, cs, old
<1>13. new \in Seq(Seq(Cell))
  BY <1>11 DEF Table
<1> QED
  BY <1>5, <1>6, <1>11, <1>12, <1>13 DEF Relaid

LEMMA ResizeColumnEffect ==
    ASSUME NEW K, Kind(K), Typed, cols \in [TableObjects -> Seq(K)],
           NEW t \in TableObjects, NEW extent \in Extents, NEW colnum \in 1 .. MaxColumns,
           ResizeColumn(t, colnum, extent)
    PROVE  Relaid(t, K)
<1> DEFINE old == cols[t]
           cs == Resized(old, colnum, extent)
           d == data[t]
           new == [j \in DOMAIN d |-> [d[j] EXCEPT ![colnum] = Junk]]
           reshaped == ReshapedColumn(old[colnum], extent)
<1>1. old \in Seq(K) /\ Len(old) \in Nat /\ d \in Table(old)
  BY LenProperties DEF Typed
<1>2. colnum \in 1 .. Len(old) /\ colnum \in DOMAIN old
  <2>1. colnum \in DOMAIN cols[t]
    BY DEF ResizeColumn
  <2> QED
    BY <1>1, <2>1, LenProperties
<1> HIDE DEF old, d
<1>3. reshaped \in K
  <2>1. old[colnum] \in K
    BY <1>1, <1>2, ElementOfSeq
  <2> QED
    BY <2>1 DEF Kind
<1>4. cs = [old EXCEPT ![colnum] = reshaped]
  BY <1>1, <1>2, ResizedIsOneColumn
<1> HIDE DEF cs, reshaped
<1>5. cs \in Seq(K) /\ Len(cs) = Len(old)
  BY <1>1, <1>2, <1>3, <1>4, ExceptSeq
<1>6. cs # <<>>
  BY <1>1, <1>2, <1>5, EmptySeq
<1>7. DOMAIN d = 1 .. Len(d) /\ \A j \in 1 .. Len(d) : d[j] \in Seq(Cell) /\ Len(d[j]) = Len(old)
  BY <1>1, ElementOfSeq, LenProperties DEF Table
<1>8. ASSUME NEW j \in 1 .. Len(d)
      PROVE  [d[j] EXCEPT ![colnum] = Junk] \in Seq(Cell) /\ Len([d[j] EXCEPT ![colnum] = Junk]) = Len(cs)
  <2> DEFINE line == d[j]
  <2>1. line \in Seq(Cell) /\ colnum \in 1 .. Len(line) /\ Len(line) = Len(cs)
    BY <1>2, <1>5, <1>7
  <2> HIDE DEF line
  <2>2. [line EXCEPT ![colnum] = Junk] \in Seq(Cell) /\ Len([line EXCEPT ![colnum] = Junk]) = Len(line)
    BY <2>1, JunkIsCell, ExceptSeq
  <2> QED
    BY <2>1, <2>2 DEF line
<1>9. /\ DOMAIN new = 1 .. Len(d)
      /\ \A j \in 1 .. Len(d) : new[j] \in Seq(Cell) /\ Len(new[j]) = Len(cs)
      /\ new = [j \in 1 .. Len(d) |-> new[j]]
  BY <1>7, <1>8
<1>10. new = [j \in DOMAIN data[t] |-> [data[t][j] EXCEPT ![colnum] = Junk]]
  BY DEF d
<1> HIDE DEF new
<1>11. new \in Table(cs)
  BY <1>1, <1>9, EachRow
<1>12. Relayout(t, cs, new) /\ Refresh(t, cs)
  BY <1>10 DEF ResizeColumn, cs, old
<1>13. new \in Seq(Seq(Cell))
  BY <1>11 DEF Table
<1> QED
  BY <1>5, <1>6, <1>11, <1>12, <1>13 DEF Relaid

LEMMA DeletedEffect ==
    ASSUME NEW K, Typed, cols \in [TableObjects -> Seq(K)],
           NEW t \in TableObjects, NEW colnum \in 1 .. Len(cols[t]), Deleted(t, colnum),
           columns' = columns \/ Refresh(t, DeleteCol(cols[t], colnum))
    PROVE  Relaid(t, K)
<1> DEFINE old == cols[t]
           cs == DeleteCol(old, colnum)
           d == data[t]
           new == [j \in DOMAIN d |-> DeleteCol(d[j], colnum)]
<1>1. old \in Seq(K) /\ Len(old) \in Nat /\ d \in Table(old) /\ colnum \in 1 .. Len(old)
  BY LenProperties DEF Typed
<1>2. Len(old) > 1
  BY DEF Deleted
<1> HIDE DEF old, d
<1>3. cs \in Seq(K) /\ Len(cs) = Len(old) - 1
  BY <1>1, RemoveAtProperties DEF DeleteCol
<1> HIDE DEF cs
<1>4. cs # <<>>
  BY <1>1, <1>2, <1>3, EmptySeq
<1>5. DOMAIN d = 1 .. Len(d) /\ \A j \in 1 .. Len(d) : d[j] \in Seq(Cell) /\ Len(d[j]) = Len(old)
  BY <1>1, ElementOfSeq, LenProperties DEF Table
<1>6. ASSUME NEW j \in 1 .. Len(d)
      PROVE  DeleteCol(d[j], colnum) \in Seq(Cell) /\ Len(DeleteCol(d[j], colnum)) = Len(cs)
  <2> DEFINE line == d[j]
  <2>1. line \in Seq(Cell) /\ colnum \in 1 .. Len(line) /\ Len(line) = Len(old)
    BY <1>1, <1>5
  <2> HIDE DEF line
  <2>2. DeleteCol(line, colnum) \in Seq(Cell) /\ Len(DeleteCol(line, colnum)) = Len(line) - 1
    BY <2>1, RemoveAtProperties DEF DeleteCol
  <2> QED
    BY <1>3, <2>1, <2>2 DEF line
<1>7. /\ DOMAIN new = 1 .. Len(d)
      /\ \A j \in 1 .. Len(d) : new[j] \in Seq(Cell) /\ Len(new[j]) = Len(cs)
      /\ new = [j \in 1 .. Len(d) |-> new[j]]
  BY <1>5, <1>6
<1>8. new = [j \in DOMAIN data[t] |-> DeleteCol(data[t][j], colnum)]
  BY DEF d
<1> HIDE DEF new
<1>9. new \in Table(cs)
  BY <1>1, <1>7, EachRow
<1>10. Relayout(t, cs, new) /\ (columns' = columns \/ Refresh(t, cs))
  BY <1>8 DEF Deleted, cs, old
<1>11. new \in Seq(Seq(Cell))
  BY <1>9 DEF Table
<1> QED
  BY <1>3, <1>4, <1>9, <1>10, <1>11 DEF Relaid

\* A call of a table leaves the layout alone, or relays it.
LEMMA TableCallEffect ==
    ASSUME NEW K, Kind(K), Typed, cols \in [TableObjects -> Seq(K)],
           NEW t \in TableObjects, TableCall(t)
    PROVE  Query(t) \/ Relaid(t, K)
<1>1. CASE Query(t)
  BY <1>1
<1>2. ASSUME NEW name \in Names, NEW type \in Types, NEW extent \in Extents,
             NEW colnum \in 1 .. MaxColumns, AddColumn(t, name, type, extent, colnum)
      PROVE  Relaid(t, K)
  BY <1>2, AddColumnEffect
<1>3. ASSUME NEW colnum \in 1 .. MaxColumns, NEW extent \in Extents,
             ResizeColumn(t, colnum, extent)
      PROVE  Relaid(t, K)
  BY <1>3, ResizeColumnEffect
<1>4. ASSUME NEW colnum \in 1 .. MaxColumns, DeleteColumn(t, colnum)
      PROVE  Relaid(t, K)
  <2>1. /\ colnum \in DOMAIN cols[t] /\ Deleted(t, colnum)
        /\ Refresh(t, DeleteCol(cols[t], colnum))
    BY <1>4 DEF DeleteColumn
  <2>2. colnum \in 1 .. Len(cols[t])
    <3>1. cols[t] \in Seq(K)
      OBVIOUS
    <3> QED
      BY <2>1, <3>1, LenProperties
  <2> QED
    BY <2>1, <2>2, DeletedEffect
<1>5. ASSUME NEW name \in Names, DeleteColumnByName(t, name)
      PROVE  Relaid(t, K)
  <2>1. PICK n \in DOMAIN columns[t] :
            IsColnum(cols[t], name, n) /\ Deleted(t, columns[t][n].colnum)
    BY <1>5 DEF DeleteColumnByName
  <2>2. columns[t][n].colnum = n
    <3>1. columns[t] \in Seq(SoundInfo) /\ Numbered(columns[t])
      BY DEF Typed
    <3>2. n \in 1 .. Len(columns[t])
      BY <2>1, <3>1, LenProperties
    <3> QED
      BY <3>1, <3>2 DEF Numbered
  <2>3. n \in 1 .. Len(cols[t])
    BY <2>1 DEF IsColnum, ColumnsNamed
  <2>4. columns' = columns
    BY <1>5 DEF DeleteColumnByName
  <2> QED
    BY <2>1, <2>2, <2>3, <2>4, DeletedEffect
<1> QED
  BY <1>1, <1>2, <1>3, <1>4, <1>5 DEF TableCall

-----------------------------------------------------------------------------
(***************************************************************************)
(* Type correctness                                                        *)
(***************************************************************************)
LEMMA SeqOfKind ==
    ASSUME NEW K, Kind(K)
    PROVE  K \subseteq SoundColumn /\ Seq(K) \subseteq Seq(SoundColumn)
<1>1. K \subseteq SoundColumn
  BY DEF Kind
<1> QED
  BY <1>1

LEMMA RelaidTyped ==
    ASSUME NEW K, Kind(K), Typed, NEW t, Relaid(t, K)
    PROVE  Typed' /\ (cols \in [TableObjects -> Seq(K)] => (cols \in [TableObjects -> Seq(K)])')
<1>1. PICK cs \in Seq(K), d \in Seq(Seq(Cell)) :
            /\ t \in TableObjects /\ cs # <<>> /\ d \in Table(cs) /\ Relayout(t, cs, d)
            /\ columns' = columns \/ Refresh(t, cs)
  BY DEF Relaid
<1>2. /\ cols' = [cols EXCEPT ![t] = cs] /\ data' = [data EXCEPT ![t] = d] /\ chdu' = t
      /\ row' = row /\ memory' = memory
  BY <1>1 DEF Relayout
<1>3. cs \in Seq(SoundColumn)
  BY SeqOfKind
<1>4. cols' \in [TableObjects -> Seq(SoundColumn)] /\ data' \in [TableObjects -> Seq(Seq(Cell))]
  BY <1>2, <1>3 DEF Typed
<1>5. columns' \in [TableObjects -> Seq(SoundInfo)] /\ \A s \in TableObjects : Numbered(columns'[s])
  <2>1. CASE columns' = columns
    BY <2>1 DEF Typed
  <2>2. CASE columns' = [columns EXCEPT ![t] = Infos(cs)]
    <3> DEFINE infos == Infos(cs)
    <3>1. infos \in Seq(SoundInfo) /\ Numbered(infos)
      BY <1>3, InfosType DEF Numbered
    <3> HIDE DEF infos
    <3>2. columns' = [columns EXCEPT ![t] = infos]
      BY <2>2 DEF infos
    <3> QED
      BY <3>1, <3>2 DEF Typed
  <2> QED
    BY <1>1, <2>1, <2>2 DEF Refresh
<1>6. \A s \in TableObjects : data'[s] \in Table(cols'[s])
  <2> SUFFICES ASSUME NEW s \in TableObjects PROVE data'[s] \in Table(cols'[s])
    OBVIOUS
  <2>1. CASE s = t
    BY <1>1, <1>2, <2>1 DEF Typed
  <2>2. CASE s # t
    BY <1>2, <2>2 DEF Typed
  <2> QED
    BY <2>1, <2>2
<1>7. \A r \in Objects : row'[r].entries # <<>> => cols'[row'[r].table] # <<>>
  BY <1>1, <1>2 DEF Typed, RowRecord
<1>8. /\ memory' \in Memory /\ row' \in [Objects -> RowRecord]
      /\ chdu' \in TableObjects
  BY <1>1, <1>2 DEF Typed
<1>9. Typed'
  BY <1>4, <1>5, <1>6, <1>7, <1>8 DEF Typed
<1> QED
  BY <1>2, <1>9

\* What a call of a Row may change.
LEMMA TypedAgain ==
    ASSUME Typed, UNCHANGED <<cols, columns>>, chdu' \in TableObjects, memory' \in Memory,
           NEW r \in Objects, NEW new \in RowRecord, new.entries # <<>> => cols[new.table] # <<>>,
           row' = [row EXCEPT ![r] = new],
           NEW t \in TableObjects, NEW d \in Table(cols[t]), data' = [data EXCEPT ![t] = d]
    PROVE  Typed'
<1>1. row' \in [Objects -> RowRecord]
  BY DEF Typed
<1>2. data' \in [TableObjects -> Seq(Seq(Cell))]
  BY DEF Typed, Table
<1>3. \A s \in TableObjects : data'[s] \in Table(cols'[s])
  BY DEF Typed
<1>4. \A s \in Objects : row'[s].entries # <<>> => cols'[row'[s].table] # <<>>
  BY DEF Typed
<1> QED
  BY <1>1, <1>2, <1>3, <1>4 DEF Typed

\* The common case.
LEMMA RowTyped ==
    ASSUME Typed, UNCHANGED <<cols, columns, data, memory>>, chdu' \in TableObjects,
           NEW r \in Objects, NEW new \in RowRecord, new.entries # <<>> => cols[new.table] # <<>>,
           row' = [row EXCEPT ![r] = new]
    PROVE  Typed'
<1>1. PICK t \in TableObjects : TRUE
  BY DEF Typed
<1>2. data' = [data EXCEPT ![t] = data[t]] /\ data[t] \in Table(cols[t]) /\ memory' \in Memory
  BY DEF Typed
<1> QED
  BY <1>1, <1>2, TypedAgain

LEMMA RowOfTyped ==
    ASSUME Typed, NEW r \in Objects
    PROVE  /\ row[r] \in RowRecord
           /\ row[r].table \in TableObjects /\ row[r].idx \in Nat /\ row[r].auto \in BOOLEAN
           /\ row[r].entries \in Seq(MadeEntry) /\ row[r].entries \in Seq(Entry)
           /\ row[r].entries # <<>> => cols[row[r].table] # <<>>
<1>1. row[r] \in RowRecord /\ (row[r].entries # <<>> => cols[row[r].table] # <<>>)
  BY DEF Typed
<1>2. MadeEntry \subseteq Entry
  BY DEF MadeEntry
<1>3. Seq(MadeEntry) \subseteq Seq(Entry)
  BY <1>2
<1> QED
  BY <1>1, <1>3 DEF RowRecord

LEMMA EntriesTyped ==
    ASSUME Typed, NEW r \in Objects, NEW all \in Seq(MadeEntry),
           all # <<>> => cols[row[r].table] # <<>>,
           row' = [row EXCEPT ![r].entries = all],
           chdu' \in TableObjects, UNCHANGED <<cols, columns, data, memory>>
    PROVE  Typed'
<1> DEFINE new == [row[r] EXCEPT !.entries = all]
<1>1. row' = [row EXCEPT ![r] = new]
  BY DEF Typed
<1>2. new \in RowRecord /\ new.entries = all /\ new.table = row[r].table
  BY RowOfTyped DEF RowRecord
<1> HIDE DEF new
<1> QED
  BY <1>1, <1>2, RowTyped

\* Descriptions of which there is one that its column is found by make entries.
LEMMA EntryMadeOf ==
    ASSUME Typed, NEW t \in TableObjects, NEW name \in Names, NEW base \in Bases,
           NEW n \in DOMAIN columns[t], IsColnum(cols[t], name, n)
    PROVE  EntryFor(columns[t], n, name, base) \in MadeEntry /\ cols[t] # <<>>
<1>1. columns[t] \in Seq(SoundInfo) /\ Numbered(columns[t]) /\ cols[t] \in Seq(SoundColumn)
  BY DEF Typed
<1>2. n \in 1 .. Len(columns[t])
  BY <1>1, LenProperties
<1>3. n \in 1 .. Len(cols[t])
  BY DEF IsColnum, ColumnsNamed
<1>4. cols[t] # <<>>
  BY <1>1, <1>3, EmptySeq
<1> QED
  BY <1>1, <1>2, <1>4, EntryIsMade

LEMMA AddTyped ==
    ASSUME Typed, NEW r \in Objects, NEW name \in Names, NEW base \in Bases, Add(r, name, base)
    PROVE  Typed'
<1> DEFINE t == row[r].table
<1>1. /\ chdu' = t /\ UNCHANGED <<cols, data, columns, memory>> /\ t \in TableObjects
      /\ memory' \in Memory
  BY RowOfTyped DEF Add, Typed
<1>2. ASSUME NEW n \in DOMAIN columns[t], IsColnum(cols[t], name, n),
             row' = [row EXCEPT ![r].entries = Append(@, EntryFor(columns[t], n, name, base))]
      PROVE  Typed'
  <2> DEFINE e == EntryFor(columns[t], n, name, base)
             all == Append(row[r].entries, e)
  <2>1. e \in MadeEntry /\ cols[t] # <<>>
    BY <1>1, <1>2, EntryMadeOf
  <2>2. row' = [row EXCEPT ![r].entries = all]
    BY <1>2
  <2> HIDE DEF e
  <2>3. all \in Seq(MadeEntry)
    BY <2>1, RowOfTyped, AppendProperties
  <2> HIDE DEF all
  <2> QED
    BY <1>1, <2>1, <2>2, <2>3, EntriesTyped
<1>3. CASE UNCHANGED row
  <2>1. row' = [row EXCEPT ![r].entries = row[r].entries]
    BY <1>3 DEF Typed, RowRecord
  <2> QED
    BY <1>1, <2>1, RowOfTyped, EntriesTyped
<1> QED
  BY <1>2, <1>3 DEF Add

\* A block's entries come after those which are there.
LEMMA AddBlockTyped ==
    ASSUME Typed, NEW r \in Objects, NEW block \in Blocks, AddBlock(r, block)
    PROVE  Typed'
<1> DEFINE t == row[r].table
           found(k) == {n \in DOMAIN columns[t] : IsColnum(cols[t], block[k].name, n)}
           entry(k) == EntryFor(columns[t], CHOOSE n \in found(k) : TRUE, block[k].name,
                                block[k].base)
<1>1. /\ chdu' = t /\ UNCHANGED <<cols, data, columns, memory>> /\ t \in TableObjects
      /\ memory' \in Memory
  BY RowOfTyped DEF AddBlock, Typed
<1>2. PICK count \in 0 .. Len(block) :
            /\ \A k \in 1 .. count : found(k) # {}
            /\ row' = [row EXCEPT ![r].entries = @ \o [k \in 1 .. count |-> entry(k)]]
  BY DEF AddBlock
<1> DEFINE P == [name : Names, base : Bases]
<1> HIDE DEF P
<1>3. block \in Seq(P)
  BY BlocksAssumption DEF P
<1>4. Len(block) \in Nat /\ count \in Nat
  <2>1. Len(block) \in Nat
    BY <1>3, LenProperties
  <2> QED
    BY <2>1
<1>5. ASSUME NEW k \in 1 .. count
      PROVE  entry(k) \in MadeEntry /\ cols[t] # <<>>
  <2> DEFINE n == CHOOSE n \in found(k) : TRUE
  <2>1. n \in DOMAIN columns[t] /\ IsColnum(cols[t], block[k].name, n)
    BY <1>2
  <2>2. block[k] \in [name : Names, base : Bases]
    <3>1. k \in 1 .. Len(block)
      BY <1>4
    <3>2. block[k] \in P
      BY <1>3, <3>1, ElementOfSeq
    <3> QED
      BY <3>2 DEF P
  <2>3. entry(k) = EntryFor(columns[t], n, block[k].name, block[k].base)
    OBVIOUS
  <2> HIDE DEF n, entry
  <2> QED
    BY <1>1, <2>1, <2>2, <2>3, EntryMadeOf
<1> DEFINE es == [k \in 1 .. count |-> entry(k)]
           all == row[r].entries \o es
<1>6. row' = [row EXCEPT ![r].entries = all]
  BY <1>2
<1> HIDE DEF entry, found
<1>7. es \in Seq(MadeEntry) /\ Len(es) = count
  BY <1>4, <1>5, FunctionIsSeq
<1> HIDE DEF es
<1>8. all \in Seq(MadeEntry)
  BY <1>7, RowOfTyped, ConcatProperties
<1>9. all # <<>> => cols[t] # <<>>
  <2>1. CASE count = 0
    <3>1. es = <<>>
      BY <1>7, <2>1, EmptySeq
    <3>2. all = row[r].entries
      BY <3>1, RowOfTyped, ConcatEmptySeq
    <3> QED
      BY <3>2, RowOfTyped
  <2>2. CASE count # 0
    BY <1>4, <1>5, <2>2
  <2> QED
    BY <2>1, <2>2
<1> HIDE DEF all
<1> QED
  BY <1>1, <1>6, <1>8, <1>9, EntriesTyped

LEMMA MemberTyped ==
    ASSUME Typed, NEW r \in Objects, NEW idx \in Nat, NEW flag \in BOOLEAN, NEW s \in Objects
    PROVE  SetIdx(r, idx) \/ AutoAdvance(r, flag) \/ Copy(r, s) => Typed'
<1>1. chdu \in TableObjects /\ row[r] \in RowRecord /\ row[s] \in RowRecord
  BY RowOfTyped DEF Typed
<1>2. ASSUME SetIdx(r, idx)
      PROVE  Typed'
  <2> DEFINE new == [row[r] EXCEPT !.idx = idx]
  <2>1. /\ row' = [row EXCEPT ![r] = new] /\ chdu' \in TableObjects
        /\ UNCHANGED <<cols, columns, data, memory>>
    BY <1>1, <1>2 DEF SetIdx, Typed
  <2>2. new \in RowRecord /\ new.entries = row[r].entries /\ new.table = row[r].table
    BY <1>1 DEF RowRecord
  <2> HIDE DEF new
  <2> QED
    BY <2>1, <2>2, RowOfTyped, RowTyped
<1>3. ASSUME AutoAdvance(r, flag)
      PROVE  Typed'
  <2> DEFINE new == [row[r] EXCEPT !.auto = flag]
  <2>1. /\ row' = [row EXCEPT ![r] = new] /\ chdu' \in TableObjects
        /\ UNCHANGED <<cols, columns, data, memory>>
    BY <1>1, <1>3 DEF AutoAdvance, Typed
  <2>2. new \in RowRecord /\ new.entries = row[r].entries /\ new.table = row[r].table
    BY <1>1 DEF RowRecord
  <2> HIDE DEF new
  <2> QED
    BY <2>1, <2>2, RowOfTyped, RowTyped
<1>4. ASSUME Copy(r, s)
      PROVE  Typed'
  <2>1. /\ row' = [row EXCEPT ![s] = row[r]] /\ chdu' \in TableObjects
        /\ UNCHANGED <<cols, columns, data, memory>>
    BY <1>1, <1>4 DEF Copy
  <2> QED
    BY <1>1, <2>1, RowOfTyped, RowTyped
<1> QED
  BY <1>2, <1>3, <1>4

\* A call ends with the cursor moved, or not, and nothing else of the Row.
LEMMA AdvanceTyped ==
    ASSUME Typed, UNCHANGED <<cols, columns>>, NEW r \in Objects, NEW i \in Nat, NEW outcome,
           Advance(r, i, outcome), chdu' \in TableObjects, memory' \in Memory,
           NEW t \in TableObjects, NEW d \in Table(cols[t]), data' = [data EXCEPT ![t] = d]
    PROVE  Typed'
<1> DEFINE x == IF row[r].auto /\ outcome = "returned" THEN i + 1 ELSE i
           new == [row[r] EXCEPT !.idx = x]
<1>1. row' = [row EXCEPT ![r] = new]
  BY DEF Advance, Typed
<1>2. x \in Nat
  OBVIOUS
<1> HIDE DEF x
<1>3. new \in RowRecord /\ new.entries = row[r].entries /\ new.table = row[r].table
  BY <1>2, RowOfTyped DEF RowRecord
<1> HIDE DEF new
<1> QED
  BY <1>1, <1>3, RowOfTyped, TypedAgain

\* Cells are asked for only at a row which there is.
LEMMA ReadableAt ==
    ASSUME NEW es \in Seq(Entry), NEW cs, NEW d, NEW i \in Nat, NEW k \in 0 .. Len(es),
           \A j \in 1 .. k : Readable(cs, d, es[j], i)
    PROVE  k > 0 => i >= 1
<1>1. k > 0 => 1 \in 1 .. k
  BY LenProperties
<1> QED
  BY <1>1 DEF Readable, Accessible

LEMMA ReadRowTyped ==
    ASSUME Typed, NEW r \in Objects, NEW i \in Nat, NEW outcome, ReadRow(r, i, outcome)
    PROVE  Typed' /\ UNCHANGED cols
<1> DEFINE t == row[r].table
           es == row[r].entries
           cs == cols[t]
           d == data[t]
<1>1. /\ chdu' = t /\ t \in TableObjects /\ UNCHANGED <<cols, data, columns>>
      /\ Advance(r, i, outcome)
  BY RowOfTyped DEF ReadRow, SetAsChdu
<1>2. /\ es \in Seq(Entry) /\ cs \in Seq(SoundColumn) /\ d \in Table(cs) /\ memory \in Memory
      /\ Len(d) \in Nat
  BY <1>1, RowOfTyped, LenProperties DEF Typed, Table
<1>3. \/ UNCHANGED memory
      \/ /\ es # <<>> /\ i <= Len(d)
         /\ \A k \in DOMAIN es : Readable(cs, d, es[k], i)
         /\ memory' = ReadUpTo(cs, d, es, i, Len(es))
      \/ /\ i <= Len(d)
         /\ \E k \in DOMAIN es :
                /\ \A j \in 1 .. k - 1 : Readable(cs, d, es[j], i)
                /\ \E mem \in {ReadUpTo(cs, d, es, i, k - 1)} :
                        memory' \in {mem, [mem EXCEPT ![es[k].base] = Junk]}
  BY <1>1 DEF ReadRow
<1> HIDE DEF es, cs, d
<1>4. DOMAIN es = 1 .. Len(es) /\ Len(es) \in Nat
  BY <1>2, LenProperties
<1>5. ASSUME NEW k \in 0 .. Len(es), i <= Len(d), \A j \in 1 .. k : Readable(cs, d, es[j], i)
      PROVE  ReadUpTo(cs, d, es, i, k) \in Memory
  <2>1. k > 0 => i \in 1 .. Len(d)
    <3>1. k > 0 => i >= 1
      BY <1>2, <1>5, ReadableAt
    <3> QED
      BY <1>2, <1>5, <3>1
  <2> QED
    BY <1>2, <2>1, ReadUpToType
<1>6. memory' \in Memory
  <2>1. CASE UNCHANGED memory
    BY <1>2, <2>1
  <2>2. CASE /\ i <= Len(d)
             /\ \A k \in DOMAIN es : Readable(cs, d, es[k], i)
             /\ memory' = ReadUpTo(cs, d, es, i, Len(es))
    <3>1. Len(es) \in 0 .. Len(es) /\ \A j \in 1 .. Len(es) : Readable(cs, d, es[j], i)
      BY <1>4, <2>2
    <3>2. ReadUpTo(cs, d, es, i, Len(es)) \in Memory
      BY <1>5, <2>2, <3>1
    <3> QED
      BY <2>2, <3>2
  <2>3. ASSUME i <= Len(d), NEW k \in DOMAIN es,
               \A j \in 1 .. k - 1 : Readable(cs, d, es[j], i),
               \E mem \in {ReadUpTo(cs, d, es, i, k - 1)} :
                    memory' \in {mem, [mem EXCEPT ![es[k].base] = Junk]}
        PROVE  memory' \in Memory
    <3> DEFINE mem == ReadUpTo(cs, d, es, i, k - 1)
    <3>1. k - 1 \in 0 .. Len(es)
      BY <1>4
    <3>2. mem \in Memory
      BY <1>5, <2>3, <3>1
    <3>3. memory' = mem \/ memory' = [mem EXCEPT ![es[k].base] = Junk]
      BY <2>3
    <3> HIDE DEF mem
    <3> QED
      BY <3>2, <3>3, JunkIsCell DEF Memory
  <2> QED
    BY <1>3, <2>1, <2>2, <2>3
<1>7. data' = [data EXCEPT ![t] = data[t]] /\ data[t] \in Table(cols[t])
  BY <1>1 DEF Typed
<1> HIDE DEF t
<1>8. Typed'
  BY <1>1, <1>6, <1>7, AdvanceTyped
<1> QED
  BY <1>1, <1>8

LEMMA AccessibleReaches ==
    ASSUME NEW cs \in Seq(SoundColumn), cs # <<>>, NEW e, NEW i, Accessible(cs, e, i)
    PROVE  Reaches(cs, e)
BY DEF Accessible, Reaches

\* What a write leaves in its table.
Written(r, i, d) ==
    LET t == row[r].table
        es == row[r].entries
    IN  \E k \in 0 .. Len(es) :
            /\ \A j \in 1 .. k : Accessible(cols[t], es[j], i)
            /\ \/ d = WriteUpTo(cols[t], data[t], es, i, k)
               \/ /\ k < Len(es) /\ Accessible(cols[t], es[k + 1], i)
                  /\ d = Put(cols[t], WriteUpTo(cols[t], data[t], es, i, k), es[k + 1], i, Junk)

LEMMA WriteRowEffect ==
    ASSUME Typed, NEW r \in Objects, NEW i \in Nat, NEW outcome, WriteRow(r, i, outcome)
    PROVE  /\ chdu' = row[r].table
           /\ UNCHANGED <<cols, columns, memory>>
           /\ Advance(r, i, outcome)
           /\ UNCHANGED data \/ \E d : Written(r, i, d) /\ data' = [data EXCEPT ![row[r].table] = d]
<1> DEFINE t == row[r].table
           es == row[r].entries
           cs == cols[t]
           d == data[t]
<1>1. chdu' = t /\ UNCHANGED <<cols, columns, memory>> /\ Advance(r, i, outcome)
  BY DEF WriteRow, SetAsChdu
<1>2. \/ UNCHANGED data
      \/ /\ \A k \in DOMAIN es : Accessible(cs, es[k], i)
         /\ data' = [data EXCEPT ![t] = WriteUpTo(cs, d, es, i, Len(es))]
      \/ \E k \in DOMAIN es :
            /\ \A j \in 1 .. k - 1 : Accessible(cs, es[j], i)
            /\ \E cells \in {WriteUpTo(cs, d, es, i, k - 1)} :
                \/ data' = [data EXCEPT ![t] = cells]
                \/ /\ Accessible(cs, es[k], i)
                   /\ data' = [data EXCEPT ![t] = Put(cs, cells, es[k], i, Junk)]
  BY <1>1 DEF WriteRow
<1>3. DOMAIN es = 1 .. Len(es) /\ Len(es) \in Nat
  BY RowOfTyped, LenProperties
<1>4. CASE UNCHANGED data
  BY <1>1, <1>4
<1>5. CASE /\ \A k \in DOMAIN es : Accessible(cs, es[k], i)
           /\ data' = [data EXCEPT ![t] = WriteUpTo(cs, d, es, i, Len(es))]
  <2>1. Written(r, i, WriteUpTo(cs, d, es, i, Len(es)))
    <3>1. Len(es) \in 0 .. Len(es) /\ \A j \in 1 .. Len(es) : Accessible(cs, es[j], i)
      BY <1>3, <1>5
    <3> QED
      BY <3>1 DEF Written
  <2> QED
    BY <1>1, <1>5, <2>1
<1>6. ASSUME NEW k \in DOMAIN es,
             \A j \in 1 .. k - 1 : Accessible(cs, es[j], i),
             \E cells \in {WriteUpTo(cs, d, es, i, k - 1)} :
                \/ data' = [data EXCEPT ![t] = cells]
                \/ /\ Accessible(cs, es[k], i)
                   /\ data' = [data EXCEPT ![t] = Put(cs, cells, es[k], i, Junk)]
      PROVE  \E new : Written(r, i, new) /\ data' = [data EXCEPT ![t] = new]
  <2> DEFINE m == k - 1
             cells == WriteUpTo(cs, d, es, i, m)
  <2>1. m \in 0 .. Len(es) /\ m < Len(es) /\ k = m + 1 /\ \A j \in 1 .. m : Accessible(cs, es[j], i)
    BY <1>3, <1>6
  <2>2. \/ data' = [data EXCEPT ![t] = cells]
        \/ Accessible(cs, es[k], i) /\ data' = [data EXCEPT ![t] = Put(cs, cells, es[k], i, Junk)]
    BY <1>6
  <2> HIDE DEF m
  <2>3. Written(r, i, cells)
    BY <2>1 DEF Written
  <2>4. Accessible(cs, es[k], i) => Written(r, i, Put(cs, cells, es[k], i, Junk))
    BY <2>1 DEF Written
  <2> QED
    BY <2>2, <2>3, <2>4
<1> QED
  BY <1>1, <1>2, <1>4, <1>5, <1>6

LEMMA WrittenType ==
    ASSUME Typed, NEW r \in Objects, NEW i \in Nat, NEW d, Written(r, i, d)
    PROVE  d \in Table(cols[row[r].table])
<1> DEFINE t == row[r].table
           es == row[r].entries
           cs == cols[t]
<1>1. /\ t \in TableObjects /\ es \in Seq(Entry) /\ cs \in Seq(SoundColumn) /\ data[t] \in Table(cs)
      /\ memory \in Memory /\ (es # <<>> => cs # <<>>) /\ Len(es) \in Nat
  BY RowOfTyped, LenProperties DEF Typed
<1>2. PICK k \in 0 .. Len(es) :
            /\ \A j \in 1 .. k : Accessible(cs, es[j], i)
            /\ \/ d = WriteUpTo(cs, data[t], es, i, k)
               \/ /\ k < Len(es) /\ Accessible(cs, es[k + 1], i)
                  /\ d = Put(cs, WriteUpTo(cs, data[t], es, i, k), es[k + 1], i, Junk)
  BY DEF Written
<1> HIDE DEF es, cs, t
<1>3. k \in Nat /\ (k > 0 \/ k < Len(es) => cs # <<>>)
  BY <1>1, EmptySeq
<1>4. \A j \in 1 .. k : Reaches(cs, es[j])
  <2> SUFFICES ASSUME NEW j \in 1 .. k PROVE Reaches(cs, es[j])
    OBVIOUS
  <2> QED
    BY <1>1, <1>2, <1>3, AccessibleReaches
<1> DEFINE before == WriteUpTo(cs, data[t], es, i, k)
<1>5. before \in Table(cs)
  BY <1>1, <1>4, WriteUpToType
<1> HIDE DEF before
<1>6. CASE d = before
  BY <1>5, <1>6 DEF cs, t
<1>7. CASE k < Len(es) /\ Accessible(cs, es[k + 1], i) /\ d = Put(cs, before, es[k + 1], i, Junk)
  <2>1. es[k + 1] \in Entry
    <3>1. k + 1 \in 1 .. Len(es)
      BY <1>1, <1>3, <1>7
    <3> QED
      BY <1>1, <3>1, ElementOfSeq
  <2>2. Reaches(cs, es[k + 1])
    BY <1>1, <1>3, <1>7, AccessibleReaches
  <2>3. d \in Table(cs)
    BY <1>1, <1>5, <1>7, <2>1, <2>2, JunkIsCell, PutType
  <2> QED
    BY <2>3 DEF cs, t
<1> QED
  BY <1>2, <1>6, <1>7 DEF before

LEMMA WriteRowTyped ==
    ASSUME Typed, NEW r \in Objects, NEW i \in Nat, NEW outcome, WriteRow(r, i, outcome)
    PROVE  Typed' /\ UNCHANGED cols
<1> DEFINE t == row[r].table
<1>1. /\ chdu' = t /\ UNCHANGED <<cols, columns, memory>> /\ Advance(r, i, outcome)
      /\ UNCHANGED data \/ \E d : Written(r, i, d) /\ data' = [data EXCEPT ![t] = d]
  BY WriteRowEffect
<1>2. t \in TableObjects /\ data[t] \in Table(cols[t]) /\ memory' \in Memory
  BY <1>1, RowOfTyped DEF Typed
<1>3. \E d \in Table(cols[t]) : data' = [data EXCEPT ![t] = d]
  <2>1. CASE UNCHANGED data
    <3>1. data' = [data EXCEPT ![t] = data[t]]
      BY <1>2, <2>1 DEF Typed
    <3> QED
      BY <1>2, <3>1
  <2>2. CASE \E d : Written(r, i, d) /\ data' = [data EXCEPT ![t] = d]
    BY <2>2, WrittenType
  <2> QED
    BY <1>1, <2>1, <2>2
<1>4. PICK d \in Table(cols[t]) : data' = [data EXCEPT ![t] = d]
  BY <1>3
<1> HIDE DEF t
<1>5. Typed'
  BY <1>1, <1>2, <1>4, AdvanceTyped
<1> QED
  BY <1>1, <1>5

LEMMA InitTyped ==
    ASSUME Init, InitialColumns \in [TableObjects -> Seq(SoundColumn)]
    PROVE  Typed
<1>1. /\ cols = InitialColumns /\ chdu \in TableObjects
      /\ columns = [t \in TableObjects |-> Infos(InitialColumns[t])]
      /\ row \in [Objects -> {NewRow(t) : t \in TableObjects}]
      /\ memory = [base \in Bases |-> Junk]
  BY DEF Init
<1>2. PICK rows \in 0 .. 1, value \in Values :
            data = [t \in TableObjects |->
                        [j \in 1 .. rows |-> [n \in DOMAIN InitialColumns[t] |-> value]]]
  BY DEF Init
<1>3. ASSUME NEW t \in TableObjects
      PROVE  columns[t] \in Seq(SoundInfo) /\ Numbered(columns[t]) /\ data[t] \in Table(cols[t])
  <2> DEFINE cs == cols[t]
             d == [j \in 1 .. rows |-> [n \in DOMAIN InitialColumns[t] |-> value]]
  <2>1. cs \in Seq(SoundColumn) /\ columns[t] = Infos(cs) /\ data[t] = d
    BY <1>1, <1>2
  <2>2. DOMAIN InitialColumns[t] = 1 .. Len(cs)
    BY <1>1, <2>1, LenProperties
  <2>3. d \in [1 .. rows -> [1 .. Len(cs) -> Cell]]
    BY <2>2 DEF Cell
  <2> HIDE DEF cs, d
  <2>4. d \in Table(cs)
    BY <1>2, <2>1, <2>3, RowsMadeType
  <2>5. columns[t] \in Seq(SoundInfo) /\ Numbered(columns[t])
    BY <2>1, InfosType DEF Numbered
  <2> QED
    BY <2>1, <2>4, <2>5 DEF cs
<1>4. columns \in [TableObjects -> Seq(SoundInfo)]
  <2>1. columns = [t \in TableObjects |-> columns[t]]
    BY <1>1
  <2> QED
    BY <1>3, <2>1
<1>5. data \in [TableObjects -> Seq(Seq(Cell))]
  <2>1. data = [t \in TableObjects |-> data[t]]
    BY <1>2
  <2> QED
    BY <1>3, <2>1 DEF Table
<1>6. \A r \in Objects : row[r] \in RowRecord /\ row[r].entries = <<>>
  <2> SUFFICES ASSUME NEW r \in Objects PROVE row[r] \in RowRecord /\ row[r].entries = <<>>
    OBVIOUS
  <2>1. PICK t \in TableObjects : row[r] = NewRow(t)
    BY <1>1
  <2>2. <<>> \in Seq(MadeEntry)
    BY EmptySeq
  <2> QED
    BY <2>1, <2>2 DEF NewRow, RowRecord
<1>7. row \in [Objects -> RowRecord]
  BY <1>1, <1>6
<1>8. memory \in Memory
  BY <1>1, JunkIsCell DEF Memory
<1> QED
  BY <1>1, <1>3, <1>4, <1>5, <1>6, <1>7, <1>8 DEF Typed

LEMMA SetMemoryTyped ==
    ASSUME Typed, NEW base \in Bases, NEW value \in Values, SetMemory(base, value)
    PROVE  Typed' /\ UNCHANGED cols
<1>1. memory' \in Memory
  BY DEF SetMemory, Typed, Memory, Cell
<1> QED
  BY <1>1 DEF SetMemory, Typed

\* Of the calls of a Row none changes the layout of a table.
LEMMA RowCallTyped ==
    ASSUME Typed, NEW r \in Objects, RowCall(r)
    PROVE  Typed' /\ UNCHANGED cols
<1>1. ASSUME NEW name \in Names, NEW base \in Bases, Add(r, name, base)
      PROVE  Typed' /\ UNCHANGED cols
  BY <1>1, AddTyped DEF Add
<1>2. ASSUME NEW block \in Blocks, AddBlock(r, block)
      PROVE  Typed' /\ UNCHANGED cols
  BY <1>2, AddBlockTyped DEF AddBlock
<1>3. ASSUME NEW idx \in 0 .. MaxRows + 1, SetIdx(r, idx)
      PROVE  Typed' /\ UNCHANGED cols
  <2>1. idx \in Nat /\ TRUE \in BOOLEAN
    OBVIOUS
  <2> QED
    BY <1>3, <2>1, MemberTyped DEF SetIdx
<1>4. ASSUME NEW flag \in BOOLEAN, AutoAdvance(r, flag)
      PROVE  Typed' /\ UNCHANGED cols
  <2>1. 0 \in Nat
    OBVIOUS
  <2> QED
    BY <1>4, <2>1, MemberTyped DEF AutoAdvance
<1>5. ASSUME NEW s \in Objects, Copy(r, s)
      PROVE  Typed' /\ UNCHANGED cols
  <2>1. 0 \in Nat /\ TRUE \in BOOLEAN
    OBVIOUS
  <2> QED
    BY <1>5, <2>1, MemberTyped DEF Copy
<1>6. row[r].idx \in Nat
  BY RowOfTyped
<1>7. CASE Read(r)
  BY <1>6, <1>7, ReadRowTyped DEF Read
<1>8. CASE Write(r)
  BY <1>6, <1>8, WriteRowTyped DEF Write
<1>9. ASSUME NEW idx \in 0 .. MaxRows + 1, ReadAt(r, idx) \/ WriteAt(r, idx)
      PROVE  Typed' /\ UNCHANGED cols
  <2>1. idx \in Nat
    OBVIOUS
  <2> QED
    BY <1>9, <2>1, ReadRowTyped, WriteRowTyped DEF ReadAt, WriteAt
<1> QED
  BY <1>1, <1>2, <1>3, <1>4, <1>5, <1>7, <1>8, <1>9 DEF RowCall

\* Typed, for tables all of whose columns are in K.
TypedOf(K) == Typed /\ cols \in [TableObjects -> Seq(K)]

LEMMA QueryTyped ==
    ASSUME Typed, NEW t \in TableObjects, Query(t)
    PROVE  Typed' /\ UNCHANGED cols
BY DEF Query, Typed

LEMMA NextTyped ==
    ASSUME NEW K, Kind(K), TypedOf(K), [Next]_vars
    PROVE  TypedOf(K)'
<1>1. Typed /\ cols \in [TableObjects -> Seq(K)]
  BY DEF TypedOf
<1>2. ASSUME NEW t \in TableObjects, TableCall(t)
      PROVE  TypedOf(K)'
  <2>1. Query(t) \/ Relaid(t, K)
    BY <1>1, <1>2, TableCallEffect
  <2>2. CASE Query(t)
    BY <1>1, <2>2, QueryTyped DEF TypedOf
  <2>3. CASE Relaid(t, K)
    BY <1>1, <2>3, RelaidTyped DEF TypedOf
  <2> QED
    BY <2>1, <2>2, <2>3
<1>3. ASSUME NEW r \in Objects, RowCall(r)
      PROVE  TypedOf(K)'
  BY <1>1, <1>3, RowCallTyped DEF TypedOf
<1>4. ASSUME NEW base \in Bases, NEW value \in Values, SetMemory(base, value)
      PROVE  TypedOf(K)'
  BY <1>1, <1>4, SetMemoryTyped DEF TypedOf
<1>5. CASE UNCHANGED vars
  <2>1. Typed'
    BY <1>1, <1>5 DEF vars, Typed
  <2> QED
    BY <1>1, <1>5, <2>1 DEF vars, TypedOf
<1> QED
  BY <1>2, <1>3, <1>4, <1>5 DEF Next

LEMMA InitTypedOf ==
    ASSUME NEW K, Kind(K), InitialColumns \in [TableObjects -> Seq(K)], Init
    PROVE  TypedOf(K)
<1>1. InitialColumns \in [TableObjects -> Seq(SoundColumn)] /\ cols = InitialColumns
  BY SeqOfKind DEF Init
<1> QED
  BY <1>1, InitTyped DEF TypedOf

\* TypeOK: whatever is called, in whatever order, a table's rows are as wide
\* as its columns are many, and a Row's members and entries are what the code
\* can make them.  For tables whose columns can be described to begin with,
\* and shapes whose elements an int counts.
THEOREM TypeCorrect ==
    ASSUME ShapesCounted, InitialColumns \in [TableObjects -> Seq(SoundColumn)]
    PROVE  Spec => []TypeOK
<1> DEFINE IInv == TypedOf(SoundColumn)
<1>1. Kind(SoundColumn)
  BY UncutIsKind
<1>2. Init => IInv
  BY <1>1, InitTypedOf
<1>3. IInv /\ [Next]_vars => IInv'
  BY <1>1, NextTyped
<1>4. IInv => TypeOK
  BY TypedIsTypeOK DEF TypedOf
<1> QED
  BY <1>2, <1>3, <1>4, PTL DEF Spec

-----------------------------------------------------------------------------
(***************************************************************************)
(* What reads and writes through intact entries do                         *)
(***************************************************************************)
IntactEntries(es, cs) == es \in Seq(MadeEntry) /\ \A k \in 1 .. Len(es) : IntactIn(es[k], cs)

DistinctColumns(es) == \A j, k \in 1 .. Len(es) : j # k => es[j].colnum # es[k].colnum
DistinctBases(es) == \A j, k \in 1 .. Len(es) : j # k => es[j].base # es[k].base

\* What a table may be like when the first k entries have been written at row i.
CellsWritten(cs, d, es, i, k, new) ==
    /\ new \in Table(cs)
    /\ Len(new) = IF k > 0 /\ i > Len(d) THEN i ELSE Len(d)
    /\ \A j \in 1 .. Len(d) : \A n \in 1 .. Len(cs) :
            new[j][n] # d[j][n] => j = i /\ \E m \in 1 .. k : es[m].colnum = n
    /\ DistinctColumns(es) => \A m \in 1 .. k : new[i][es[m].colnum] = memory[es[m].base]

LEMMA IntactEntry ==
    ASSUME NEW cs \in Seq(UncutColumn), NEW es, IntactEntries(es, cs), NEW k \in 1 .. Len(es)
    PROVE  /\ es[k] \in Entry /\ es[k].base \in Bases
           /\ es[k].colnum \in 1 .. Len(cs) /\ Fits(cs, es[k], es[k].colnum)
           /\ cs \in Seq(SoundColumn)
<1>1. es[k] \in MadeEntry /\ IntactIn(es[k], cs)
  BY ElementOfSeq DEF IntactEntries
<1>2. es[k] \in Entry
  BY <1>1 DEF MadeEntry
<1>3. es[k].base \in Bases
  BY <1>2 DEF Entry
<1>4. UncutColumn \subseteq SoundColumn
  BY DEF UncutColumn
<1>5. cs \in Seq(SoundColumn)
  BY <1>4
<1> QED
  BY <1>1, <1>2, <1>3, <1>5, IntactFits

LEMMA OneMoreWritten ==
    ASSUME NEW cs \in Seq(UncutColumn), NEW es, IntactEntries(es, cs), NEW d \in Table(cs),
           memory \in Memory, NEW i \in Nat \ {0}, NEW k \in 0 .. Len(es) - 1, NEW cells,
           CellsWritten(cs, d, es, i, k, cells), NEW value \in Cell
    PROVE  LET new == Put(cs, cells, es[k + 1], i, value)
           IN  /\ new \in Table(cs)
               /\ Len(new) = IF i > Len(d) THEN i ELSE Len(d)
               /\ new[i][es[k + 1].colnum] = value
               /\ \A j \in 1 .. Len(d) : \A n \in 1 .. Len(cs) :
                    new[j][n] # d[j][n] => j = i /\ \E m \in 1 .. k + 1 : es[m].colnum = n
               /\ DistinctColumns(es) =>
                    \A m \in 1 .. k : new[i][es[m].colnum] = memory[es[m].base]
<1> DEFINE e == es[k + 1]
           new == Put(cs, cells, e, i, value)
           c == e.colnum
<1>1. Len(es) \in Nat /\ Len(d) \in Nat /\ k + 1 \in 1 .. Len(es) /\ k \in Nat
  BY LenProperties DEF IntactEntries, Table
<1>2. e \in Entry /\ c \in 1 .. Len(cs) /\ Fits(cs, e, c) /\ cs \in Seq(SoundColumn)
  BY <1>1, IntactEntry
<1> HIDE DEF e
<1>3. /\ cells \in Table(cs) /\ Len(cells) = IF k > 0 /\ i > Len(d) THEN i ELSE Len(d)
      /\ \A j \in 1 .. Len(d) : \A n \in 1 .. Len(cs) :
            cells[j][n] # d[j][n] => j = i /\ \E m \in 1 .. k : es[m].colnum = n
      /\ DistinctColumns(es) => \A m \in 1 .. k : cells[i][es[m].colnum] = memory[es[m].base]
  BY DEF CellsWritten
<1>4. new \in Table(cs) /\ new[i][c] = value /\ DiffersAt(new, cells, cs, i, c)
  <2> HIDE DEF c
  <2>1. cells \in Table(cs)
    BY <1>3
  <2>2. c = e.colnum /\ Fits(cs, e, c)
    BY <1>2 DEF c
  <2> QED
    BY <1>2, <2>1, <2>2, PutItsCell
<1> HIDE DEF new, c
<1>5. /\ Len(new) = IF i > Len(cells) THEN i ELSE Len(cells)
      /\ \A j \in 1 .. Len(cells) : \A n \in 1 .. Len(cs) :
            new[j][n] # cells[j][n] => j = i /\ n = c
  BY <1>4 DEF DiffersAt
<1>6. Len(new) = IF i > Len(d) THEN i ELSE Len(d)
  BY <1>1, <1>3, <1>5
<1>7. ASSUME NEW j \in 1 .. Len(d), NEW n \in 1 .. Len(cs), new[j][n] # d[j][n]
      PROVE  j = i /\ \E m \in 1 .. k + 1 : es[m].colnum = n
  <2>1. j \in 1 .. Len(cells)
    BY <1>1, <1>3
  <2>2. CASE new[j][n] # cells[j][n]
    <3>1. j = i /\ n = es[k + 1].colnum
      BY <1>5, <2>1, <2>2 DEF c, e
    <3> QED
      BY <1>1, <3>1
  <2>3. CASE new[j][n] = cells[j][n]
    <3>1. j = i /\ \E m \in 1 .. k : es[m].colnum = n
      BY <1>3, <1>7, <2>3
    <3>2. \A m \in 1 .. k : m \in 1 .. k + 1
      BY <1>1
    <3> QED
      BY <3>1, <3>2
  <2> QED
    BY <2>2, <2>3
<1>8. ASSUME DistinctColumns(es), NEW m \in 1 .. k
      PROVE  new[i][es[m].colnum] = memory[es[m].base]
  <2>1. m \in 1 .. Len(es) /\ m # k + 1 /\ k > 0
    BY <1>1
  <2>2. es[m].colnum # c
    BY <1>1, <1>8, <2>1 DEF DistinctColumns, c, e
  <2>3. es[m].colnum \in 1 .. Len(cs)
    BY <2>1, IntactEntry
  <2>4. i \in 1 .. Len(cells)
    BY <1>1, <1>3, <2>1
  <2>5. new[i][es[m].colnum] = cells[i][es[m].colnum]
    BY <1>5, <2>2, <2>3, <2>4
  <2> QED
    BY <1>3, <1>8, <2>5
<1> QED
  BY <1>4, <1>6, <1>7, <1>8 DEF new, c, e

LEMMA WriteUpToCells ==
    ASSUME NEW cs \in Seq(UncutColumn), NEW es, IntactEntries(es, cs), NEW d \in Table(cs),
           memory \in Memory, NEW i \in Nat \ {0}, NEW k \in 0 .. Len(es)
    PROVE  CellsWritten(cs, d, es, i, k, WriteUpTo(cs, d, es, i, k))
<1>1. es \in Seq(MadeEntry) /\ Len(es) \in Nat /\ k \in Nat /\ Len(d) \in Nat
  BY LenProperties DEF IntactEntries, Table
<1>2. PICK r : WriteThrough(cs, d, es, i, k, r)
  BY <1>1, WriteSteps
<1>3. /\ r[0] = d
      /\ \A j \in 1 .. k : r[j] = Put(cs, r[j - 1], es[j], i, memory[es[j].base])
      /\ WriteUpTo(cs, d, es, i, k) = r[k]
  BY <1>2 DEF WriteThrough
<1> DEFINE T == {j \in 0 .. k : CellsWritten(cs, d, es, i, j, r[j])}
<1>4. 0 \in T
  <2>1. CellsWritten(cs, d, es, i, 0, d)
    BY <1>1 DEF CellsWritten
  <2> QED
    BY <1>1, <1>3, <2>1
<1>5. ASSUME NEW j \in 0 .. k - 1, j \in T
      PROVE  j + 1 \in T
  <2>1. j + 1 \in 1 .. k /\ j + 1 \in 0 .. k /\ (j + 1) - 1 = j /\ j \in 0 .. Len(es) - 1
        /\ j + 1 \in 1 .. Len(es)
    BY <1>1
  <2> DEFINE value == memory[es[j + 1].base]
             new == Put(cs, r[j], es[j + 1], i, value)
  <2>2. r[j + 1] = new
    BY <1>3, <2>1
  <2>3. value \in Cell
    BY <2>1, IntactEntry DEF Memory
  <2>4. CellsWritten(cs, d, es, i, j, r[j])
    BY <1>5
  <2> DEFINE v == value
  <2> HIDE DEF v
  <2>5. /\ new \in Table(cs)
        /\ Len(new) = IF i > Len(d) THEN i ELSE Len(d)
        /\ new[i][es[j + 1].colnum] = value
        /\ \A y \in 1 .. Len(d) : \A n \in 1 .. Len(cs) :
                new[y][n] # d[y][n] => y = i /\ \E m \in 1 .. j + 1 : es[m].colnum = n
        /\ DistinctColumns(es) => \A m \in 1 .. j : new[i][es[m].colnum] = memory[es[m].base]
    <3> HIDE DEF value
    <3> QED
      BY <2>1, <2>3, <2>4, OneMoreWritten
  <2> HIDE DEF new
  <2>6. DistinctColumns(es) =>
            \A m \in 1 .. j + 1 : new[i][es[m].colnum] = memory[es[m].base]
    <3>1. \A m \in 1 .. j + 1 : m \in 1 .. j \/ m = j + 1
      BY <2>1
    <3> QED
      BY <2>5, <3>1
  <2>7. CellsWritten(cs, d, es, i, j + 1, new)
    <3>1. j + 1 > 0
      BY <2>1
    <3> QED
      BY <2>5, <2>6, <3>1 DEF CellsWritten
  <2> QED
    BY <2>1, <2>2, <2>7
<1>6. \A j \in 0 .. k : j \in T
  <2> HIDE DEF T
  <2> QED
    BY <1>1, <1>4, <1>5, FirstBytes!UpTo
<1>7. k \in T
  BY <1>1, <1>6
<1> QED
  BY <1>3, <1>7

\* The variables when the first k entries have been read at row i.
VariablesRead(cs, d, es, i, k, mem) ==
    /\ mem \in Memory
    /\ \A base \in Bases : mem[base] # memory[base] => \E m \in 1 .. k : es[m].base = base
    /\ DistinctBases(es) => \A m \in 1 .. k : mem[es[m].base] = d[i][es[m].colnum]

LEMMA ReadUpToCells ==
    ASSUME NEW cs \in Seq(UncutColumn), NEW es, IntactEntries(es, cs), NEW d \in Table(cs),
           memory \in Memory, NEW i \in 1 .. Len(d), NEW k \in 0 .. Len(es)
    PROVE  VariablesRead(cs, d, es, i, k, ReadUpTo(cs, d, es, i, k))
<1>1. es \in Seq(MadeEntry) /\ Len(es) \in Nat /\ k \in Nat
  BY LenProperties DEF IntactEntries
<1>2. PICK r : ReadThrough(cs, d, es, i, k, r)
  BY <1>1, ReadSteps
<1>3. /\ r[0] = memory
      /\ \A j \in 1 .. k : r[j] = ReadOne(cs, d, r[j - 1], es[j], i)
      /\ ReadUpTo(cs, d, es, i, k) = r[k]
  BY <1>2 DEF ReadThrough
<1> DEFINE T == {j \in 0 .. k : VariablesRead(cs, d, es, i, j, r[j])}
<1>4. 0 \in T
  <2>1. VariablesRead(cs, d, es, i, 0, memory)
    BY DEF VariablesRead
  <2> QED
    BY <1>1, <1>3, <2>1
<1>5. ASSUME NEW j \in 0 .. k - 1, j \in T
      PROVE  j + 1 \in T
  <2>1. j + 1 \in 1 .. k /\ j + 1 \in 0 .. k /\ (j + 1) - 1 = j /\ j + 1 \in 1 .. Len(es) /\ j \in Nat
    BY <1>1
  <2> DEFINE e == es[j + 1]
             cell == d[i][e.colnum]
             mem == r[j]
             new == [mem EXCEPT ![e.base] = cell]
  <2>2. /\ mem \in Memory
        /\ \A base \in Bases : mem[base] # memory[base] => \E m \in 1 .. j : es[m].base = base
        /\ DistinctBases(es) => \A m \in 1 .. j : mem[es[m].base] = d[i][es[m].colnum]
    BY <1>5 DEF VariablesRead
  <2>3. /\ e.base \in Bases /\ e.colnum \in 1 .. Len(cs) /\ Fits(cs, e, e.colnum)
        /\ cs \in Seq(SoundColumn)
    BY <2>1, IntactEntry
  <2>4. Get(cs, d, e, i) = cell /\ cell \in Cell
    BY <2>3, GetItsCell, CellsOfTable
  <2>5. r[j + 1] = new
    BY <1>3, <2>1, <2>4 DEF ReadOne
  <2> HIDE DEF mem, cell
  <2>6. new \in Memory
    BY <2>2, <2>3, <2>4 DEF Memory
  <2>7. \A base \in Bases : new[base] = IF base = e.base THEN cell ELSE mem[base]
    BY <2>2, <2>3 DEF Memory
  <2> HIDE DEF new
  <2>8. \A base \in Bases : new[base] # memory[base] => \E m \in 1 .. j + 1 : es[m].base = base
    <3>1. \A m \in 1 .. j : m \in 1 .. j + 1
      BY <2>1
    <3> QED
      BY <2>1, <2>2, <2>7, <3>1
  <2>9. ASSUME DistinctBases(es), NEW m \in 1 .. j + 1
        PROVE  new[es[m].base] = d[i][es[m].colnum]
    <3>1. CASE m = j + 1
      BY <2>3, <2>7, <3>1 DEF cell
    <3>2. CASE m # j + 1
      <4>1. m \in 1 .. j /\ m \in 1 .. Len(es)
        BY <1>1, <2>1, <3>2
      <4>2. es[m].base # e.base
        BY <2>1, <2>9, <3>2, <4>1 DEF DistinctBases
      <4>3. es[m].base \in Bases
        BY <4>1, IntactEntry
      <4> QED
        BY <2>2, <2>7, <2>9, <4>1, <4>2, <4>3
    <3> QED
      BY <3>1, <3>2
  <2>10. VariablesRead(cs, d, es, i, j + 1, new)
    BY <2>6, <2>8, <2>9 DEF VariablesRead
  <2> QED
    BY <2>1, <2>5, <2>10
<1>6. \A j \in 0 .. k : j \in T
  <2> HIDE DEF T
  <2> QED
    BY <1>1, <1>4, <1>5, FirstBytes!UpTo
<1>7. k \in T
  BY <1>1, <1>6
<1> QED
  BY <1>3, <1>7

\* A Row all of whose columns are where they were when they were added.
LEMMA IntactRow ==
    ASSUME TypedOf(UncutColumn), NEW r \in Objects,
           \A k \in DOMAIN row[r].entries : Intact(row[r].entries[k], row[r].table)
    PROVE  IntactEntries(row[r].entries, cols[row[r].table])
<1>1. row[r].entries \in Seq(MadeEntry)
  BY RowOfTyped DEF TypedOf
<1>2. DOMAIN row[r].entries = 1 .. Len(row[r].entries)
  BY <1>1, LenProperties
<1> QED
  BY <1>1, <1>2 DEF IntactEntries, Intact, IntactIn

LEMMA ProperEntries ==
    ASSUME NEW S, NEW es \in Seq(S), Proper(es)
    PROVE  DistinctBases(es) /\ DistinctColumns(es)
<1>1. DOMAIN es = 1 .. Len(es)
  BY LenProperties
<1> QED
  BY <1>1 DEF Proper, DistinctBases, DistinctColumns

\* The Row of a read or a write keeps its entries and its table.
LEMMA AdvanceKeeps ==
    ASSUME Typed, NEW r \in Objects, NEW i, NEW outcome, Advance(r, i, outcome)
    PROVE  row'[r].table = row[r].table /\ row'[r].entries = row[r].entries
<1> DEFINE x == IF row[r].auto /\ outcome = "returned" THEN i + 1 ELSE i
           new == [row[r] EXCEPT !.idx = x]
<1>1. row' = [row EXCEPT ![r] = new]
  BY DEF Advance, Typed
<1> HIDE DEF x
<1>2. new.table = row[r].table /\ new.entries = row[r].entries
  BY RowOfTyped DEF RowRecord
<1> HIDE DEF new
<1>3. row'[r] = new
  BY <1>1 DEF Typed
<1> QED
  BY <1>2, <1>3

LEMMA TransfersIf ==
    ASSUME NEW op, NEW r, NEW i, NEW outcome, last' = Call(op, r, i, outcome), UNCHANGED cols,
           NEW t, NEW es, row'[r].table = t, row'[r].entries = es,
           outcome = "returned" /\ Proper(es) /\ (\A k \in DOMAIN es : Intact(es[k], t)) =>
                \A k \in DOMAIN es : memory'[es[k].base] = data'[t][i][es[k].colnum]
    PROVE  Transfers(op)'
<1>1. last'.op = op /\ last'.obj = r /\ last'.idx = i /\ last'.outcome = outcome
  BY DEF Call
<1>2. ASSUME NEW e
      PROVE  Intact(e, t)' <=> Intact(e, t)
  BY DEF Intact
<1>3. ASSUME LastRowCall(op)', Proper(es), \A k \in DOMAIN es : Intact(es[k], t)'
      PROVE  \A k \in DOMAIN es : memory'[es[k].base] = data'[t][i][es[k].colnum]
  <2>1. outcome = "returned"
    BY <1>1, <1>3 DEF LastRowCall
  <2>2. \A k \in DOMAIN es : Intact(es[k], t)
    BY <1>2, <1>3
  <2> QED
    BY <1>3, <2>1, <2>2
<1>4. row'[last'.obj].table = t /\ row'[last'.obj].entries = es /\ last'.idx = i
  BY <1>1
<1> QED
  BY <1>3, <1>4 DEF Transfers

LEMMA ReadRowTransfers ==
    ASSUME TypedOf(UncutColumn), NEW r \in Objects, NEW i \in Nat, NEW outcome,
           ReadRow(r, i, outcome)
    PROVE  Transfers("read")'
<1> DEFINE t == row[r].table
           es == row[r].entries
           cs == cols[t]
           d == data[t]
<1>1. Typed /\ t \in TableObjects /\ cs \in Seq(UncutColumn) /\ d \in Table(cs) /\ memory \in Memory
      /\ es \in Seq(MadeEntry)
  BY RowOfTyped DEF TypedOf, Typed
<1>2. /\ chdu' = t /\ UNCHANGED <<cols, data>> /\ last' = Call("read", r, i, outcome)
      /\ row'[r].table = t /\ row'[r].entries = es
  BY <1>1, AdvanceKeeps DEF ReadRow, SetAsChdu
<1> SUFFICES ASSUME outcome = "returned", Proper(es),
                    \A k \in DOMAIN es : Intact(es[k], t),
                    NEW k \in DOMAIN es
             PROVE  memory'[es[k].base] = d[i][es[k].colnum]
  <2>1. outcome = "returned" /\ Proper(es) /\ (\A k \in DOMAIN es : Intact(es[k], t)) =>
            \A k \in DOMAIN es : memory'[es[k].base] = data'[t][i][es[k].colnum]
    BY <1>2
  <2> HIDE DEF es, t
  <2> QED
    BY <1>2, <2>1, TransfersIf
<1>3. /\ es # <<>> /\ i <= Len(d)
      /\ \A m \in DOMAIN es : Readable(cs, d, es[m], i)
      /\ memory' = ReadUpTo(cs, d, es, i, Len(es))
  BY <1>2 DEF ReadRow
<1>4. IntactEntries(es, cs) /\ DistinctBases(es)
  BY <1>1, IntactRow, ProperEntries
<1> HIDE DEF es, cs, d, t
<1>5. DOMAIN es = 1 .. Len(es) /\ Len(es) \in Nat /\ Len(d) \in Nat
  BY <1>1, LenProperties DEF Table
<1>6. i \in 1 .. Len(d)
  <2>1. Readable(cs, d, es[k], i)
    BY <1>3
  <2> QED
    BY <1>3, <1>5, <2>1 DEF Readable, Accessible
<1>7. VariablesRead(cs, d, es, i, Len(es), memory')
  BY <1>1, <1>3, <1>4, <1>5, <1>6, ReadUpToCells
<1> QED
  BY <1>4, <1>5, <1>7 DEF VariablesRead

\* However far a write through intact entries gets.
LEMMA WrittenCells ==
    ASSUME TypedOf(UncutColumn), NEW r \in Objects, NEW i \in Nat, NEW d, Written(r, i, d),
           IntactEntries(row[r].entries, cols[row[r].table])
    PROVE  LET t == row[r].table
               es == row[r].entries
           IN  /\ d \in Table(cols[t])
               /\ \A j \in 1 .. Len(data[t]) : \A n \in 1 .. Len(cols[t]) :
                    d[j][n] # data[t][j][n] => j = i /\ \E m \in 1 .. Len(es) : es[m].colnum = n
               /\ d = data[t] \/ Len(d) = IF i > Len(data[t]) THEN i ELSE Len(data[t])
               /\ i \in Nat \ {0} \/ d = data[t]
<1> DEFINE t == row[r].table
           es == row[r].entries
           cs == cols[t]
           old == data[t]
<1>1. t \in TableObjects /\ cs \in Seq(UncutColumn) /\ old \in Table(cs) /\ memory \in Memory
      /\ es \in Seq(MadeEntry) /\ IntactEntries(es, cs)
  BY RowOfTyped DEF TypedOf, Typed
<1>2. PICK k \in 0 .. Len(es) :
            /\ \A j \in 1 .. k : Accessible(cs, es[j], i)
            /\ \/ d = WriteUpTo(cs, old, es, i, k)
               \/ /\ k < Len(es) /\ Accessible(cs, es[k + 1], i)
                  /\ d = Put(cs, WriteUpTo(cs, old, es, i, k), es[k + 1], i, Junk)
  BY DEF Written
<1> SUFFICES /\ d \in Table(cs)
             /\ \A j \in 1 .. Len(old) : \A n \in 1 .. Len(cs) :
                    d[j][n] # old[j][n] => j = i /\ \E m \in 1 .. Len(es) : es[m].colnum = n
             /\ d = old \/ Len(d) = IF i > Len(old) THEN i ELSE Len(old)
             /\ i \in Nat \ {0} \/ d = old
  OBVIOUS
<1> HIDE DEF es, cs, old, t
<1>3. k \in Nat /\ Len(es) \in Nat /\ Len(old) \in Nat
  BY <1>1, LenProperties DEF Table
<1> DEFINE before == WriteUpTo(cs, old, es, i, k)
<1>4. CASE k = 0 /\ d = before
  <2>1. PICK r1 : WriteThrough(cs, old, es, i, k, r1)
    BY <1>1, WriteSteps
  <2>2. d = old
    BY <1>4, <2>1 DEF WriteThrough
  <2> QED
    BY <1>1, <2>2
<1>5. CASE k > 0 \/ (k < Len(es) /\ Accessible(cs, es[k + 1], i))
  <2>1. i \in Nat \ {0}
    <3>1. k > 0 => 1 \in 1 .. k
      BY <1>3
    <3> QED
      BY <1>2, <1>5, <3>1 DEF Accessible
  <2>2. CellsWritten(cs, old, es, i, k, before)
    BY <1>1, <2>1, WriteUpToCells
  <2>3. CASE k > 0 /\ d = before
    <3>1. \A m \in 1 .. k : m \in 1 .. Len(es)
      BY <1>3
    <3> HIDE DEF before
    <3> QED
      BY <2>1, <2>2, <2>3, <3>1 DEF CellsWritten
  <2>4. CASE k < Len(es) /\ d = Put(cs, before, es[k + 1], i, Junk)
    <3> HIDE DEF before
    <3>1. k \in 0 .. Len(es) - 1
      BY <1>3, <2>4
    <3>2. /\ d \in Table(cs)
          /\ Len(d) = IF i > Len(old) THEN i ELSE Len(old)
          /\ \A j \in 1 .. Len(old) : \A n \in 1 .. Len(cs) :
                d[j][n] # old[j][n] => j = i /\ \E m \in 1 .. k + 1 : es[m].colnum = n
      BY <1>1, <2>1, <2>2, <2>4, <3>1, JunkIsCell, OneMoreWritten
    <3>3. \A m \in 1 .. k + 1 : m \in 1 .. Len(es)
      BY <1>3, <3>1
    <3> QED
      BY <2>1, <3>2, <3>3
  <2> QED
    BY <1>2, <1>4, <2>3, <2>4, <1>3
<1> QED
  BY <1>2, <1>3, <1>4, <1>5

LEMMA WriteRowTransfers ==
    ASSUME TypedOf(UncutColumn), NEW r \in Objects, NEW i \in Nat, NEW outcome,
           WriteRow(r, i, outcome)
    PROVE  Transfers("write")'
<1> DEFINE t == row[r].table
           es == row[r].entries
           cs == cols[t]
           d == data[t]
<1>1. Typed /\ t \in TableObjects /\ cs \in Seq(UncutColumn) /\ d \in Table(cs) /\ memory \in Memory
      /\ es \in Seq(MadeEntry)
  BY RowOfTyped DEF TypedOf, Typed
<1>2. /\ chdu' = t /\ UNCHANGED <<cols, memory>> /\ last' = Call("write", r, i, outcome)
      /\ row'[r].table = t /\ row'[r].entries = es
  BY <1>1, AdvanceKeeps DEF WriteRow, SetAsChdu
<1> SUFFICES ASSUME outcome = "returned", Proper(es),
                    \A k \in DOMAIN es : Intact(es[k], t),
                    NEW k \in DOMAIN es
             PROVE  data'[t][i][es[k].colnum] = memory[es[k].base]
  <2>1. outcome = "returned" /\ Proper(es) /\ (\A k \in DOMAIN es : Intact(es[k], t)) =>
            \A k \in DOMAIN es : memory'[es[k].base] = data'[t][i][es[k].colnum]
    BY <1>2
  <2> HIDE DEF es, t
  <2> QED
    BY <1>2, <2>1, TransfersIf
<1> DEFINE new == WriteUpTo(cs, d, es, i, Len(es))
<1>3. /\ es # <<>>
      /\ \A m \in DOMAIN es : Accessible(cs, es[m], i)
      /\ data' = [data EXCEPT ![t] = new]
  BY <1>2 DEF WriteRow
<1>4. IntactEntries(es, cs) /\ DistinctColumns(es)
  BY <1>1, IntactRow, ProperEntries
<1>5. data'[t] = new
  BY <1>1, <1>3 DEF Typed
<1> HIDE DEF es, cs, d, t
<1>6. DOMAIN es = 1 .. Len(es) /\ Len(es) \in Nat
  BY <1>1, LenProperties
<1>7. i \in Nat \ {0}
  <2>1. Accessible(cs, es[k], i)
    BY <1>3
  <2> QED
    BY <2>1 DEF Accessible
<1>8. CellsWritten(cs, d, es, i, Len(es), new)
  BY <1>1, <1>4, <1>6, <1>7, WriteUpToCells
<1> HIDE DEF new
<1> QED
  BY <1>4, <1>5, <1>6, <1>8 DEF CellsWritten

\* A read or a write is the only step which leaves one behind.
LEMMA LastIsRowCall ==
    ASSUME Typed, Next, last'.op # "other"
    PROVE  \E r \in Objects, i \in Nat, outcome \in Outcomes :
                ReadRow(r, i, outcome) \/ WriteRow(r, i, outcome)
<1>1. last' # OtherCall
  BY DEF OtherCall
<1>2. PICK r \in Objects : RowCall(r)
  BY <1>1 DEF Next, TableCall, Query, AddColumn, ResizeColumn, DeleteColumn, DeleteColumnByName,
              Deleted, Relayout, SetMemory
<1>3. \/ Read(r) \/ Write(r)
      \/ \E idx \in 0 .. MaxRows + 1 : ReadAt(r, idx) \/ WriteAt(r, idx)
  BY <1>1, <1>2 DEF RowCall, Add, AddBlock, SetIdx, AutoAdvance, Copy
<1>4. row[r].idx \in Nat /\ \A idx \in 0 .. MaxRows + 1 : idx \in Nat
  BY RowOfTyped
<1> QED
  BY <1>3, <1>4 DEF Read, Write, ReadAt, WriteAt

LEMMA TransfersStep ==
    ASSUME TypedOf(UncutColumn), Next
    PROVE  Transfers("read")' /\ Transfers("write")'
<1>1. Typed
  BY DEF TypedOf
<1>2. CASE last'.op = "other"
  BY <1>2 DEF Transfers, LastRowCall
<1>3. CASE last'.op # "other"
  <2>1. PICK r \in Objects, i \in Nat, outcome \in Outcomes :
            ReadRow(r, i, outcome) \/ WriteRow(r, i, outcome)
    BY <1>1, <1>3, LastIsRowCall
  <2>2. CASE ReadRow(r, i, outcome)
    <3>1. Transfers("read")'
      BY <2>2, ReadRowTransfers
    <3>2. last'.op = "read"
      BY <2>2 DEF ReadRow, Call
    <3> QED
      BY <3>1, <3>2 DEF Transfers, LastRowCall
  <2>3. CASE WriteRow(r, i, outcome)
    <3>1. Transfers("write")'
      BY <2>3, WriteRowTransfers
    <3>2. last'.op = "write"
      BY <2>3 DEF WriteRow, Call
    <3> QED
      BY <3>1, <3>2 DEF Transfers, LastRowCall
  <2> QED
    BY <2>1, <2>2, <2>3
<1> QED
  BY <1>2, <1>3

\* What WritesNothingElse says of a step.
NothingElseWritten(r, i) ==
    (\A k \in DOMAIN row[r].entries : Intact(row[r].entries[k], row[r].table)) =>
        \A t \in TableObjects : \A j \in DOMAIN data[t] : \A n \in DOMAIN cols[t] :
            data'[t][j][n] # data[t][j][n] =>
                /\ t = row[r].table /\ j = i
                /\ \E k \in DOMAIN row[r].entries : row[r].entries[k].colnum = n

LEMMA WriteRowElse ==
    ASSUME TypedOf(UncutColumn), NEW r \in Objects, NEW i \in Nat, NEW outcome,
           WriteRow(r, i, outcome)
    PROVE  NothingElseWritten(r, i)
<1>1. Typed
  BY DEF TypedOf
<1>2. UNCHANGED data \/ \E d : Written(r, i, d) /\ data' = [data EXCEPT ![row[r].table] = d]
  BY <1>1, WriteRowEffect
<1>3. CASE UNCHANGED data
  BY <1>3 DEF NothingElseWritten
<1>4. ASSUME NEW d, Written(r, i, d), data' = [data EXCEPT ![row[r].table] = d]
      PROVE  NothingElseWritten(r, i)
  <2> SUFFICES ASSUME \A k \in DOMAIN row[r].entries : Intact(row[r].entries[k], row[r].table),
                      NEW t \in TableObjects, NEW j \in DOMAIN data[t], NEW n \in DOMAIN cols[t],
                      data'[t][j][n] # data[t][j][n]
               PROVE  /\ t = row[r].table /\ j = i
                      /\ \E k \in DOMAIN row[r].entries : row[r].entries[k].colnum = n
    BY DEF NothingElseWritten
  <2>1. t = row[r].table
    BY <1>1, <1>4 DEF Typed
  <2>2. data'[t] = d
    BY <1>1, <1>4, <2>1 DEF Typed
  <2>3. /\ DOMAIN row[r].entries = 1 .. Len(row[r].entries) /\ DOMAIN cols[t] = 1 .. Len(cols[t])
        /\ DOMAIN data[t] = 1 .. Len(data[t])
    <3>1. row[r].entries \in Seq(MadeEntry) /\ cols[t] \in Seq(UncutColumn)
          /\ data[t] \in Seq(Seq(Cell))
      BY <1>1, RowOfTyped DEF TypedOf, Typed
    <3> QED
      BY <3>1, LenProperties
  <2>4. IntactEntries(row[r].entries, cols[row[r].table])
    BY IntactRow
  <2>5. \A y \in 1 .. Len(data[t]) : \A m \in 1 .. Len(cols[t]) :
            d[y][m] # data[t][y][m] =>
                y = i /\ \E k \in 1 .. Len(row[r].entries) : row[r].entries[k].colnum = m
    BY <1>4, <2>1, <2>4, WrittenCells
  <2> QED
    BY <2>1, <2>2, <2>3, <2>5
<1> QED
  BY <1>2, <1>3, <1>4

LEMMA NothingElseStep ==
    ASSUME TypedOf(UncutColumn), Next, last'.op = "write"
    PROVE  NothingElseWritten(last'.obj, last'.idx)
<1>1. Typed
  BY DEF TypedOf
<1>2. PICK r \in Objects, i \in Nat, outcome \in Outcomes :
            ReadRow(r, i, outcome) \/ WriteRow(r, i, outcome)
  BY <1>1, LastIsRowCall
<1>3. ~ ReadRow(r, i, outcome)
  BY DEF ReadRow, Call
<1>4. last' = Call("write", r, i, outcome)
  BY <1>2, <1>3 DEF WriteRow
<1>5. last'.obj = r /\ last'.idx = i
  BY <1>4 DEF Call
<1> QED
  BY <1>2, <1>3, <1>5, WriteRowElse

\* Tables begin with columns which can be described and are not cut into
\* substrings; what the calls add and make of them is like that.
UncutFromTheStart == ShapesCounted /\ InitialColumns \in [TableObjects -> Seq(UncutColumn)]

LEMMA UncutTyped ==
    ASSUME UncutFromTheStart
    PROVE  Spec => []TypedOf(UncutColumn)
<1> DEFINE IInv == TypedOf(UncutColumn)
<1>1. Kind(UncutColumn) /\ InitialColumns \in [TableObjects -> Seq(UncutColumn)]
  BY UncutIsKind DEF UncutFromTheStart
<1>2. Init => IInv
  BY <1>1, InitTypedOf
<1>3. IInv /\ [Next]_vars => IInv'
  BY <1>1, NextTyped
<1> QED
  BY <1>2, <1>3, PTL DEF Spec

\* ReadsItsColumns: Row::read puts the cell of each entry's column into its variable.
THEOREM ReadsArrive ==
    ASSUME UncutFromTheStart
    PROVE  Spec => ReadsItsColumns
<1>1. TypedOf(UncutColumn) /\ [Next]_vars => [Transfers("read")']_vars
  BY TransfersStep
<1> QED
  BY <1>1, UncutTyped, PTL DEF Spec, ReadsItsColumns

\* WritesItsColumns: Row::write puts each variable into the cell of its entry's column.
THEOREM WritesArrive ==
    ASSUME UncutFromTheStart
    PROVE  Spec => WritesItsColumns
<1>1. TypedOf(UncutColumn) /\ [Next]_vars => [Transfers("write")']_vars
  BY TransfersStep
<1> QED
  BY <1>1, UncutTyped, PTL DEF Spec, WritesItsColumns

\* WritesNothingElse: a Row::write through intact entries changes no other
\* column, row or table, also if it throws half-way.
THEOREM NothingElseIsWritten ==
    ASSUME UncutFromTheStart
    PROVE  Spec => WritesNothingElse
<1> DEFINE Step ==
        last'.op = "write" =>
            LET r == last'.obj
                es == row[r].entries
            IN  (\A k \in DOMAIN es : Intact(es[k], row[r].table)) =>
                    \A t \in TableObjects : \A j \in DOMAIN data[t] :
                        \A n \in DOMAIN cols[t] :
                            data'[t][j][n] # data[t][j][n] =>
                                /\ t = row[r].table /\ j = last'.idx
                                /\ \E k \in DOMAIN es : es[k].colnum = n
<1>1. TypedOf(UncutColumn) /\ [Next]_vars => [Step]_vars
  <2> SUFFICES ASSUME TypedOf(UncutColumn), Next, last'.op = "write" PROVE Step
    OBVIOUS
  <2>1. NothingElseWritten(last'.obj, last'.idx)
    BY NothingElseStep
  <2> QED
    BY <2>1 DEF NothingElseWritten
<1> QED
  BY <1>1, UncutTyped, PTL DEF Spec, WritesNothingElse

-----------------------------------------------------------------------------
(***************************************************************************)
(* The loops                                                               *)
(***************************************************************************)
\* Tables whose columns can be described, are not cut into substrings, and can
\* be told apart by their names.
LoopsTables ==
    /\ InitialColumns \in [TableObjects -> Seq(UncutColumn)]
    /\ \A t \in TableObjects : \A m, n \in 1 .. Len(InitialColumns[t]) :
            InitialColumns[t][m].name = InitialColumns[t][n].name => m = n

\* The record of one row of the shared table.
Line == [1 .. Len(InitialColumns[Shared]) -> Cell]

\* The cursors count the records.  The table has a row for each record written,
\* and one more at most, at which a write has thrown.
LoopInv ==
    /\ Typed
    /\ cols = InitialColumns
    /\ \A r \in Objects :
            row[r].table = TableOf(r) /\ row[r].entries = FullRow(r).entries /\ row[r].auto = TRUE
    /\ row[Writer].idx = Len(wrote) + 1
    /\ row[Reader].idx = Len(got) + 1
    /\ wrote \in Seq(Line)
    /\ got \in Seq(Line)
    /\ Len(data[Shared]) \in {Len(wrote), Len(wrote) + 1}
    /\ Len(data[Shared]) = Len(wrote) + 1 => Len(wrote) + 1 \in tried
    /\ \A k \in 1 .. Len(wrote) : data[Shared][k] = wrote[k]
    /\ \A k \in 1 .. Len(got) : k \in tried \/ (k \in 1 .. Len(wrote) /\ got[k] = wrote[k])

LEMMA TheRows ==
    /\ Writer \in Objects /\ Reader \in Objects /\ Other \in Objects
    /\ Shared \in TableObjects /\ Elsewhere \in TableObjects /\ Shared # Elsewhere
    /\ TableOf(Writer) = Shared /\ TableOf(Reader) = Shared /\ TableOf(Other) = Elsewhere
    /\ Writer # Reader /\ Other # Writer /\ Other # Reader
BY LoopsAssumption DEF TableOf

FullEntries(r) == FullRow(r).entries

LEMMA FullRowProperties ==
    ASSUME LoopsTables, NEW r \in Objects
    PROVE  /\ FullRow(r).table = TableOf(r) /\ FullRow(r).auto = TRUE /\ FullRow(r).idx = 1
           /\ FullRow(r) \in RowRecord
           /\ TableOf(r) \in TableObjects
           /\ FullEntries(r) \in Seq(MadeEntry)
           /\ Len(FullEntries(r)) = Len(InitialColumns[TableOf(r)])
           /\ \A n \in 1 .. Len(FullEntries(r)) : FullEntries(r)[n].colnum = n
           /\ IntactEntries(FullEntries(r), InitialColumns[TableOf(r)])
           /\ DistinctColumns(FullEntries(r)) /\ DistinctBases(FullEntries(r))
<1> DEFINE t == TableOf(r)
           cs == InitialColumns[t]
           infos == Infos(cs)
           es == [n \in DOMAIN infos |-> EntryFor(infos, n, infos[n].ttype, <<r, infos[n].ttype>>)]
<1>1. t \in TableObjects
  BY LoopsAssumption DEF TableOf
<1>2. cs \in Seq(UncutColumn)
  BY <1>1 DEF LoopsTables
<1>3. cs \in Seq(SoundColumn) /\ Len(cs) \in Nat
  <2>1. UncutColumn \subseteq SoundColumn
    BY DEF UncutColumn
  <2> QED
    BY <1>2, <2>1, LenProperties
<1> HIDE DEF t
<1>4. FullRow(r) = [NewRow(t) EXCEPT !.entries = es]
  BY DEF FullRow, t
<1>5. \A m, n \in 1 .. Len(cs) : cs[m].name = cs[n].name => m = n
  BY <1>1 DEF LoopsTables
<1> HIDE DEF cs
<1>6. /\ infos \in Seq(SoundInfo) /\ Len(infos) = Len(cs) /\ Numbered(infos)
      /\ \A n \in 1 .. Len(cs) : infos[n] = Info(cs, n)
      /\ DOMAIN infos = 1 .. Len(cs)
  <2>1. infos \in Seq(SoundInfo) /\ Len(infos) = Len(cs)
    BY <1>3, InfosType
  <2>2. \A n \in 1 .. Len(cs) : infos[n] = Info(cs, n) /\ infos[n].colnum = n
    BY <1>3, InfosType
  <2> HIDE DEF infos
  <2> QED
    BY <2>1, <2>2, LenProperties DEF Numbered
<1> HIDE DEF infos
<1>7. ASSUME NEW n \in 1 .. Len(cs)
      PROVE  /\ es[n] \in MadeEntry
             /\ es[n].colnum = n /\ es[n].base = <<r, cs[n].name>> /\ es[n].seen = SubSeq(infos, 1, n)
  <2> DEFINE name == infos[n].ttype
             base == <<r, name>>
  <2>1. es[n] = EntryFor(infos, n, name, base)
    BY <1>6
  <2>2. name \in Names
    <3>1. infos[n] \in SoundInfo
      BY <1>6, ElementOfSeq
    <3> QED
      BY <3>1 DEF SoundInfo, InfoRecord
  <2>3. name = cs[n].name
    BY <1>6 DEF Info
  <2>4. base \in Bases
    BY <2>2, LoopsAssumption
  <2> HIDE DEF es, name
  <2>5. es[n] \in MadeEntry
    BY <1>6, <2>1, <2>2, <2>4, EntryIsMade
  <2>6. infos[n].colnum = n
    BY <1>6 DEF Numbered
  <2>7. es[n].colnum = n /\ es[n].base = base /\ es[n].seen = SubSeq(infos, 1, n)
    BY <2>1, <2>6 DEF EntryFor
  <2> QED
    BY <2>1, <2>3, <2>5, <2>7 DEF name
<1>8. es \in [1 .. Len(cs) -> MadeEntry]
  BY <1>6, <1>7
<1> HIDE DEF es
<1>9. /\ \A n \in 1 .. Len(cs) : es[n].colnum = n
      /\ \A n \in 1 .. Len(cs) : es[n].base = <<r, cs[n].name>>
      /\ \A n \in 1 .. Len(cs) : es[n].seen = SubSeq(infos, 1, n)
  BY <1>7
<1>10. es \in Seq(MadeEntry) /\ Len(es) = Len(cs)
  BY <1>3, <1>8, FunctionIsSeq
<1>11. IntactEntries(es, cs)
  <2> SUFFICES ASSUME NEW k \in 1 .. Len(es) PROVE IntactIn(es[k], cs)
    BY <1>10 DEF IntactEntries
  <2>1. es[k].colnum = k /\ es[k].seen = SubSeq(Infos(cs), 1, k) /\ k <= Len(cs)
    BY <1>3, <1>9, <1>10 DEF infos
  <2> QED
    BY <2>1 DEF IntactIn
<1>12. DistinctColumns(es)
  BY <1>9, <1>10 DEF DistinctColumns
<1>13. DistinctBases(es)
  <2> SUFFICES ASSUME NEW j \in 1 .. Len(es), NEW k \in 1 .. Len(es), j # k
               PROVE  es[j].base # es[k].base
    BY DEF DistinctBases
  <2>1. cs[j].name # cs[k].name
    BY <1>5, <1>10
  <2>2. es[j].base = <<r, cs[j].name>> /\ es[k].base = <<r, cs[k].name>>
    BY <1>9, <1>10
  <2> QED
    BY <2>1, <2>2
<1>14. /\ FullRow(r).table = t /\ FullRow(r).auto = TRUE /\ FullRow(r).idx = 1
       /\ FullRow(r).entries = es /\ FullRow(r) \in RowRecord
  <2>1. FullRow(r) = [table |-> t, idx |-> 1, auto |-> TRUE, entries |-> es]
    BY <1>4 DEF NewRow
  <2> QED
    BY <1>1, <1>10, <2>1 DEF RowRecord
<1> QED
  BY <1>1, <1>9, <1>10, <1>11, <1>12, <1>13, <1>14 DEF FullEntries, t, cs

\* The Rows after a read or a write.
LEMMA AdvanceRows ==
    ASSUME Typed, NEW r \in Objects, NEW i, NEW outcome, Advance(r, i, outcome)
    PROVE  /\ \A s \in Objects :
                /\ row'[s].table = row[s].table /\ row'[s].entries = row[s].entries
                /\ row'[s].auto = row[s].auto
                /\ s # r => row'[s].idx = row[s].idx
           /\ row'[r].idx = IF row[r].auto /\ outcome = "returned" THEN i + 1 ELSE i
<1> DEFINE x == IF row[r].auto /\ outcome = "returned" THEN i + 1 ELSE i
           new == [row[r] EXCEPT !.idx = x]
<1>1. row' = [row EXCEPT ![r] = new]
  BY DEF Advance, Typed
<1>2. new.idx = x
  BY RowOfTyped DEF RowRecord
<1> HIDE DEF x
<1>3. new.table = row[r].table /\ new.entries = row[r].entries /\ new.auto = row[r].auto
  BY RowOfTyped DEF RowRecord
<1> HIDE DEF new
<1>4. row'[r] = new /\ \A s \in Objects : s # r => row'[s] = row[s]
  BY <1>1 DEF Typed
<1>5. row'[r].idx = x
  BY <1>2, <1>4
<1>6. ASSUME NEW s \in Objects
      PROVE  /\ row'[s].table = row[s].table /\ row'[s].entries = row[s].entries
             /\ row'[s].auto = row[s].auto
             /\ s # r => row'[s].idx = row[s].idx
  BY <1>3, <1>4
<1> QED
  BY <1>5, <1>6 DEF x

\* Rows of the loops have their tables' columns, each in its place.
LEMMA RowsOfLoops ==
    ASSUME LoopsTables, LoopInv, NEW r \in Objects
    PROVE  /\ row[r].table = TableOf(r) /\ row[r].auto = TRUE
           /\ row[r].entries \in Seq(MadeEntry)
           /\ Len(row[r].entries) = Len(InitialColumns[TableOf(r)])
           /\ DOMAIN row[r].entries = 1 .. Len(row[r].entries)
           /\ \A n \in 1 .. Len(row[r].entries) : row[r].entries[n].colnum = n
           /\ IntactEntries(row[r].entries, cols[row[r].table])
           /\ DistinctColumns(row[r].entries) /\ DistinctBases(row[r].entries)
<1>1. /\ row[r].table = TableOf(r) /\ row[r].auto = TRUE /\ row[r].entries = FullEntries(r)
      /\ cols = InitialColumns
  BY DEF LoopInv, FullEntries
<1>2. DOMAIN FullEntries(r) = 1 .. Len(FullEntries(r))
  BY FullRowProperties, LenProperties
<1> QED
  BY <1>1, <1>2, FullRowProperties

\* A record of the writer or of the reader.
LEMMA RecordType ==
    ASSUME LoopsTables, LoopInv, NEW r \in {Writer, Reader}, NEW mem \in Memory
    PROVE  /\ Record(r, mem) \in Line
           /\ \A n \in 1 .. Len(InitialColumns[Shared]) :
                Record(r, mem)[n] = mem[row[r].entries[n].base]
<1> DEFINE es == row[r].entries
           N == Len(InitialColumns[Shared])
<1>1. r \in Objects /\ TableOf(r) = Shared
  BY TheRows
<1>2. es \in Seq(MadeEntry) /\ Len(es) = N /\ DOMAIN es = 1 .. N
  BY <1>1, RowsOfLoops
<1>3. Record(r, mem) = [n \in DOMAIN es |-> mem[es[n].base]]
  BY DEF Record
<1> HIDE DEF es, N
<1>4. \A n \in 1 .. N : es[n].base \in Bases
  <2> SUFFICES ASSUME NEW n \in 1 .. N PROVE es[n].base \in Bases
    OBVIOUS
  <2>1. es[n] \in MadeEntry
    BY <1>2, ElementOfSeq
  <2> QED
    BY <2>1 DEF MadeEntry, Entry
<1>5. Record(r, mem) \in [1 .. N -> Cell] /\ \A n \in 1 .. N : Record(r, mem)[n] = mem[es[n].base]
  BY <1>2, <1>3, <1>4 DEF Memory
<1> QED
  BY <1>5 DEF N, es, Line

\* A row of the shared table is a record when its cells are.
LEMMA RowIsLine ==
    ASSUME NEW cs, NEW d \in Table(cs), NEW i \in 1 .. Len(d), Len(cs) = Len(InitialColumns[Shared]),
           NEW line \in Line, \A n \in 1 .. Len(cs) : d[i][n] = line[n]
    PROVE  d[i] = line
<1> DEFINE N == Len(cs)
           f == d[i]
<1>1. f \in Seq(Cell) /\ Len(f) = N
  BY ElementOfSeq DEF Table
<1>2. line \in [1 .. N -> Cell]
  BY DEF Line
<1>3. f \in [1 .. N -> Cell]
  <2> HIDE DEF f, N
  <2> QED
    BY <1>1, LenProperties
<1>4. \A n \in 1 .. N : f[n] = line[n]
  OBVIOUS
<1> DEFINE D == 1 .. N
<1>5. /\ f \in [D -> Cell] /\ line \in [D -> Cell]
      /\ \A n \in D : f[n] = line[n]
  BY <1>2, <1>3, <1>4
<1> HIDE DEF f, D
<1>6. f = line
  BY <1>5, SameFunction
<1> QED
  BY <1>6 DEF f

LEMMA LoopsInitInv == LoopsTables /\ LoopsInit => LoopInv
<1> SUFFICES ASSUME LoopsTables, LoopsInit PROVE LoopInv
  OBVIOUS
<1>1. /\ cols = InitialColumns /\ data = [t \in TableObjects |-> <<>>] /\ chdu \in TableObjects
      /\ columns = [t \in TableObjects |-> Infos(InitialColumns[t])]
      /\ row = [r \in Objects |-> FullRow(r)]
      /\ memory = [base \in Bases |-> Junk]
      /\ wrote = <<>> /\ tried = {} /\ got = <<>>
  BY DEF LoopsInit
<1>2. UncutColumn \subseteq SoundColumn
  BY DEF UncutColumn
<1>3. cols \in [TableObjects -> Seq(UncutColumn)] /\ cols \in [TableObjects -> Seq(SoundColumn)]
  <2>1. Seq(UncutColumn) \subseteq Seq(SoundColumn)
    BY <1>2
  <2> QED
    BY <1>1, <2>1 DEF LoopsTables
<1>4. ASSUME NEW t \in TableObjects
      PROVE  columns[t] \in Seq(SoundInfo) /\ Numbered(columns[t])
  <2> DEFINE cs == cols[t]
  <2>1. cs \in Seq(SoundColumn) /\ columns[t] = Infos(cs)
    BY <1>1, <1>3
  <2> HIDE DEF cs
  <2> QED
    BY <2>1, InfosType DEF Numbered
<1>5. columns \in [TableObjects -> Seq(SoundInfo)]
  <2>1. columns = [t \in TableObjects |-> columns[t]]
    BY <1>1
  <2> QED
    BY <1>4, <2>1
<1>6. data \in [TableObjects -> Seq(Seq(Cell))] /\ \A t \in TableObjects : data[t] \in Table(cols[t])
  <2>1. <<>> \in Seq(Seq(Cell)) /\ Len(<<>>) = 0
    BY EmptySeq
  <2> QED
    BY <1>1, <2>1 DEF Table
<1>7. row \in [Objects -> RowRecord]
  BY <1>1, FullRowProperties
<1>8. \A r \in Objects : row[r].table = TableOf(r) /\ row[r].entries = FullRow(r).entries
                         /\ row[r].auto = TRUE /\ row[r].idx = 1
  BY <1>1, FullRowProperties
<1>9. ASSUME NEW r \in Objects, row[r].entries # <<>>
      PROVE  cols[row[r].table] # <<>>
  <2> DEFINE es == FullEntries(r)
             cs == InitialColumns[TableOf(r)]
  <2>1. row[r].entries = es /\ cols[row[r].table] = cs /\ es # <<>>
    BY <1>1, <1>8, <1>9 DEF FullEntries
  <2>2. es \in Seq(MadeEntry) /\ Len(es) = Len(cs)
    BY FullRowProperties
  <2> HIDE DEF es
  <2>3. Len(cs) # 0
    BY <2>1, <2>2, EmptySeq
  <2>4. cs # <<>>
    BY <2>3, EmptySeq
  <2> QED
    BY <2>1, <2>4
<1>10. memory \in Memory
  BY <1>1, JunkIsCell DEF Memory
<1>11. Typed
  BY <1>1, <1>3, <1>4, <1>5, <1>6, <1>7, <1>9, <1>10 DEF Typed
<1>12. /\ wrote \in Seq(Line) /\ got \in Seq(Line) /\ Len(wrote) = 0 /\ Len(got) = 0
       /\ Len(data[Shared]) = 0
  BY <1>1, TheRows, EmptySeq
<1>13. row[Writer].idx = Len(wrote) + 1 /\ row[Reader].idx = Len(got) + 1
  BY <1>8, <1>12, TheRows
<1>14. /\ Len(data[Shared]) \in {Len(wrote), Len(wrote) + 1}
       /\ Len(data[Shared]) # Len(wrote) + 1
       /\ \A k \in 1 .. Len(wrote) : data[Shared][k] = wrote[k]
       /\ \A k \in 1 .. Len(got) : k \in tried \/ (k \in 1 .. Len(wrote) /\ got[k] = wrote[k])
  BY <1>12
<1>15. cols = InitialColumns
  BY <1>1
<1> QED
  BY <1>8, <1>11, <1>12, <1>13, <1>14, <1>15 DEF LoopInv

\* What is not the writer's or the reader's leaves their cursors and their table alone.
LEMMA LoopInvStays ==
    ASSUME LoopInv, Typed', UNCHANGED <<cols, wrote, tried, got>>, data'[Shared] = data[Shared],
           \A r \in Objects : /\ row'[r].table = row[r].table /\ row'[r].entries = row[r].entries
                              /\ row'[r].auto = row[r].auto,
           row'[Writer].idx = row[Writer].idx, row'[Reader].idx = row[Reader].idx
    PROVE  LoopInv'
BY DEF LoopInv

LEMMA FillInv ==
    ASSUME LoopInv, NEW record \in [Names -> Values], Fill(record)
    PROVE  LoopInv'
<1>1. memory' = [base \in Bases |-> IF base[1] = Writer THEN record[base[2]] ELSE memory[base]]
  BY DEF Fill
<1>2. memory' \in Memory
  <2>1. \A base \in Bases : base[2] \in Names
    BY LoopsAssumption
  <2>2. memory \in Memory
    BY DEF LoopInv, Typed
  <2> QED
    BY <1>1, <2>1, <2>2 DEF Memory, Cell
<1>3. UNCHANGED <<cols, data, chdu, columns, row, wrote, tried, got>>
  BY DEF Fill
<1>4. Typed'
  BY <1>2, <1>3 DEF LoopInv, Typed
<1> QED
  BY <1>3, <1>4, LoopInvStays

LEMMA LoopFacts ==
    ASSUME LoopsTables, LoopInv
    PROVE  /\ TypedOf(UncutColumn) /\ Typed
           /\ InitialColumns[Shared] \in Seq(UncutColumn)
           /\ cols[Shared] = InitialColumns[Shared]
           /\ data[Shared] \in Table(InitialColumns[Shared]) /\ Len(data[Shared]) \in Nat
           /\ memory \in Memory
           /\ Len(wrote) \in Nat /\ Len(got) \in Nat
           /\ row[Writer].idx = Len(wrote) + 1 /\ row[Reader].idx = Len(got) + 1
<1>1. Typed /\ cols = InitialColumns
  BY DEF LoopInv
<1>2. cols \in [TableObjects -> Seq(UncutColumn)]
  BY <1>1 DEF LoopsTables
<1>3. data[Shared] \in Table(cols[Shared]) /\ memory \in Memory
  BY <1>1, TheRows DEF Typed
<1>4. Len(data[Shared]) \in Nat
  BY <1>3, LenProperties DEF Table
<1>5. Len(wrote) \in Nat /\ Len(got) \in Nat
  BY LenProperties DEF LoopInv
<1> QED
  BY <1>1, <1>2, <1>3, <1>4, <1>5, TheRows DEF TypedOf, LoopInv

\* The records stay in the rows before the one which is being written.
LEMMA RowsBeforeStay ==
    ASSUME LoopsTables, LoopInv, NEW new \in Table(InitialColumns[Shared]),
           Len(new) \in {Len(wrote), Len(wrote) + 1},
           \A j \in 1 .. Len(data[Shared]) : \A n \in 1 .. Len(InitialColumns[Shared]) :
                new[j][n] # data[Shared][j][n] => j = Len(wrote) + 1
    PROVE  \A k \in 1 .. Len(wrote) : new[k] = wrote[k]
<1> SUFFICES ASSUME NEW k \in 1 .. Len(wrote) PROVE new[k] = wrote[k]
  OBVIOUS
<1> DEFINE cs == InitialColumns[Shared]
           line == wrote[k]
           d == data[Shared]
<1>1. Len(wrote) \in Nat /\ Len(d) \in {Len(wrote), Len(wrote) + 1} /\ d[k] = line /\ wrote \in Seq(Line)
  BY LoopFacts DEF LoopInv
<1>2. k \in 1 .. Len(d) /\ k \in 1 .. Len(new) /\ k # Len(wrote) + 1
  BY <1>1
<1>3. line \in Line
  BY <1>1, ElementOfSeq
<1>4. \A n \in 1 .. Len(cs) : new[k][n] = line[n]
  BY <1>1, <1>2
<1> HIDE DEF line, cs
<1>5. new[k] = line
  BY <1>2, <1>3, <1>4, RowIsLine DEF cs
<1> QED
  BY <1>5 DEF line

LEMMA WriterRowsStay ==
    ASSUME LoopsTables, LoopInv, NEW outcome, WriteRow(Writer, row[Writer].idx, outcome)
    PROVE  /\ Typed' /\ cols' = InitialColumns
           /\ \A r \in Objects : row'[r].table = TableOf(r) /\ row'[r].entries = FullRow(r).entries
                                 /\ row'[r].auto = TRUE
           /\ row'[Writer].idx = IF outcome = "returned" THEN Len(wrote) + 2 ELSE Len(wrote) + 1
           /\ row'[Reader].idx = Len(got) + 1
<1> DEFINE i == row[Writer].idx
<1>1. i = Len(wrote) + 1 /\ i \in Nat /\ Typed /\ Writer \in Objects /\ Reader \in Objects
      /\ Reader # Writer /\ Len(wrote) \in Nat /\ Len(got) \in Nat
  BY LoopFacts, TheRows
<1> HIDE DEF i
<1>2. WriteRow(Writer, i, outcome)
  BY DEF i
<1>3. Typed' /\ UNCHANGED cols /\ Advance(Writer, i, outcome)
  BY <1>1, <1>2, WriteRowTyped, WriteRowEffect
<1>4. /\ \A s \in Objects :
            /\ row'[s].table = row[s].table /\ row'[s].entries = row[s].entries
            /\ row'[s].auto = row[s].auto
            /\ s # Writer => row'[s].idx = row[s].idx
      /\ row'[Writer].idx = IF row[Writer].auto /\ outcome = "returned" THEN i + 1 ELSE i
  BY <1>1, <1>3, AdvanceRows
<1>5. \A r \in Objects : row[r].table = TableOf(r) /\ row[r].entries = FullRow(r).entries
                         /\ row[r].auto = TRUE
  BY DEF LoopInv
<1>6. row'[Writer].idx = IF outcome = "returned" THEN Len(wrote) + 2 ELSE Len(wrote) + 1
  BY <1>1, <1>4, <1>5
<1>7. row'[Reader].idx = Len(got) + 1
  BY <1>1, <1>4 DEF LoopInv
<1> QED
  BY <1>3, <1>4, <1>5, <1>6, <1>7 DEF LoopInv

LEMMA WriterReturnsInv ==
    ASSUME LoopsTables, LoopInv, WriterWrites("returned")
    PROVE  LoopInv'
<1> DEFINE i == row[Writer].idx
           es == row[Writer].entries
           cs == InitialColumns[Shared]
           d == data[Shared]
           new == WriteUpTo(cs, d, es, i, Len(es))
           record == Record(Writer, memory)
<1>1. /\ WriteRow(Writer, row[Writer].idx, "returned") /\ wrote' = Append(wrote, record)
      /\ tried' = tried /\ got' = got
  BY DEF WriterWrites
<1>2. /\ TypedOf(UncutColumn) /\ Typed /\ cs \in Seq(UncutColumn) /\ cols[Shared] = cs
      /\ d \in Table(cs) /\ Len(d) \in Nat /\ memory \in Memory
      /\ Len(wrote) \in Nat /\ i = Len(wrote) + 1 /\ i \in Nat \ {0}
  BY LoopFacts
<1>3. row[Writer].table = Shared /\ es \in Seq(MadeEntry) /\ Len(es) = Len(cs)
      /\ IntactEntries(es, cs) /\ DistinctColumns(es) /\ \A n \in 1 .. Len(es) : es[n].colnum = n
  BY <1>2, RowsOfLoops, TheRows
<1>4. data' = [data EXCEPT ![Shared] = new]
  BY <1>1, <1>2, <1>3 DEF WriteRow, SetAsChdu
<1>5. data'[Shared] = new
  BY <1>2, <1>4, TheRows DEF Typed
<1>6. record \in Line /\ \A n \in 1 .. Len(cs) : record[n] = memory[es[n].base]
  BY <1>2, RecordType
<1>7. Len(es) > 0
  <2>1. es # <<>>
    BY <1>1 DEF WriteRow
  <2> HIDE DEF es
  <2> QED
    BY <1>3, <2>1, EmptySeq, LenProperties
<1> HIDE DEF i, es, record, d
<1>8. CellsWritten(cs, d, es, i, Len(es), new)
  <2>1. Len(es) \in 0 .. Len(es)
    BY <1>3, LenProperties
  <2> QED
    BY <1>2, <1>3, <2>1, WriteUpToCells
<1> HIDE DEF new
<1>9. Len(d) \in {Len(wrote), Len(wrote) + 1}
  BY DEF LoopInv, d
<1>10. new \in Table(cs) /\ Len(new) = Len(wrote) + 1
  BY <1>2, <1>7, <1>8, <1>9 DEF CellsWritten
<1>11. \A k \in 1 .. Len(wrote) : new[k] = wrote[k]
  <2>1. \A j \in 1 .. Len(data[Shared]) : \A n \in 1 .. Len(InitialColumns[Shared]) :
            new[j][n] # data[Shared][j][n] => j = Len(wrote) + 1
    BY <1>2, <1>8 DEF CellsWritten, d
  <2> HIDE DEF cs
  <2>2. new \in Table(InitialColumns[Shared])
    BY <1>10 DEF cs
  <2> QED
    BY <1>10, <2>1, <2>2, RowsBeforeStay
<1>12. new[i] = record
  <2>1. \A n \in 1 .. Len(cs) : new[i][n] = record[n]
    BY <1>3, <1>6, <1>8 DEF CellsWritten
  <2>2. i \in 1 .. Len(new)
    BY <1>2, <1>10
  <2> HIDE DEF cs
  <2> QED
    BY <1>6, <1>10, <2>1, <2>2, RowIsLine DEF cs
<1>13. wrote' \in Seq(Line) /\ Len(wrote') = Len(wrote) + 1 /\ wrote'[Len(wrote) + 1] = record
       /\ \A k \in 1 .. Len(wrote) : wrote'[k] = wrote[k]
  <2>1. wrote \in Seq(Line)
    BY DEF LoopInv
  <2> QED
    BY <1>1, <1>6, <2>1, AppendProperties
<1>14. \A k \in 1 .. Len(wrote') : data'[Shared][k] = wrote'[k]
  <2> SUFFICES ASSUME NEW k \in 1 .. Len(wrote') PROVE data'[Shared][k] = wrote'[k]
    OBVIOUS
  <2>1. k \in 1 .. Len(wrote) \/ k = Len(wrote) + 1
    BY <1>2, <1>13
  <2> QED
    BY <1>2, <1>5, <1>11, <1>12, <1>13, <2>1
<1>15. \A k \in 1 .. Len(got') :
            k \in tried' \/ (k \in 1 .. Len(wrote') /\ got'[k] = wrote'[k])
  <2> SUFFICES ASSUME NEW k \in 1 .. Len(got), k \notin tried
               PROVE  k \in 1 .. Len(wrote') /\ got[k] = wrote'[k]
    BY <1>1
  <2>1. k \in 1 .. Len(wrote) /\ got[k] = wrote[k]
    BY DEF LoopInv
  <2> QED
    BY <1>2, <1>13, <2>1
<1>16. /\ Typed' /\ cols' = InitialColumns
       /\ \A r \in Objects : row'[r].table = TableOf(r) /\ row'[r].entries = FullRow(r).entries
                             /\ row'[r].auto = TRUE
       /\ row'[Writer].idx = Len(wrote) + 2
       /\ row'[Reader].idx = Len(got) + 1
  BY <1>1, WriterRowsStay
<1>17. /\ row'[Writer].idx = Len(wrote') + 1 /\ row'[Reader].idx = Len(got') + 1
       /\ got' \in Seq(Line)
       /\ Len(data'[Shared]) \in {Len(wrote'), Len(wrote') + 1}
       /\ Len(data'[Shared]) # Len(wrote') + 1
  BY <1>1, <1>2, <1>5, <1>10, <1>13, <1>16 DEF LoopInv
<1> QED
  BY <1>13, <1>14, <1>15, <1>16, <1>17 DEF LoopInv

LEMMA WriterThrowsInv ==
    ASSUME LoopsTables, LoopInv, NEW outcome, outcome # "returned", WriterWrites(outcome)
    PROVE  LoopInv'
<1> DEFINE i == row[Writer].idx
           es == row[Writer].entries
           cs == InitialColumns[Shared]
           old == data[Shared]
<1>1. /\ WriteRow(Writer, row[Writer].idx, outcome) /\ wrote' = wrote
      /\ tried' = tried \cup {i} /\ got' = got
  BY DEF WriterWrites
<1>2. /\ TypedOf(UncutColumn) /\ Typed /\ cols[Shared] = cs
      /\ old \in Table(cs) /\ Len(old) \in Nat
      /\ Len(wrote) \in Nat /\ i = Len(wrote) + 1 /\ i \in Nat
      /\ Len(old) \in {Len(wrote), Len(wrote) + 1}
      /\ Writer \in Objects /\ Shared \in TableObjects
  <2>1. Len(old) \in {Len(wrote), Len(wrote) + 1}
    BY DEF LoopInv
  <2>2. i = Len(wrote) + 1 /\ Len(wrote) \in Nat
    BY LoopFacts
  <2>3. i \in Nat
    BY <2>2
  <2> QED
    BY <2>1, <2>2, <2>3, LoopFacts, TheRows
<1>3. row[Writer].table = Shared /\ IntactEntries(es, cols[row[Writer].table])
  BY <1>2, RowsOfLoops, TheRows
<1>4. UNCHANGED data \/ \E d : Written(Writer, i, d) /\ data' = [data EXCEPT ![Shared] = d]
  BY <1>1, <1>2, <1>3, WriteRowEffect
<1>5. /\ data'[Shared] \in Table(cs)
      /\ Len(data'[Shared]) = Len(old) \/ Len(data'[Shared]) = Len(wrote) + 1
      /\ \A j \in 1 .. Len(old) : \A n \in 1 .. Len(cs) :
            data'[Shared][j][n] # old[j][n] => j = Len(wrote) + 1
  <2>1. CASE UNCHANGED data
    BY <1>2, <2>1
  <2>2. ASSUME NEW d, Written(Writer, i, d), data' = [data EXCEPT ![Shared] = d]
        PROVE  <1>5!1 /\ <1>5!2 /\ <1>5!3
    <3>1. data'[Shared] = d
      BY <1>2, <2>2 DEF Typed
    <3> HIDE DEF es, i
    <3>2. /\ d \in Table(cs)
          /\ \A j \in 1 .. Len(old) : \A n \in 1 .. Len(cs) : d[j][n] # old[j][n] => j = i
          /\ d = old \/ Len(d) = IF i > Len(old) THEN i ELSE Len(old)
      BY <1>2, <1>3, <2>2, WrittenCells DEF es
    <3> HIDE DEF cs, old
    <3> QED
      BY <1>2, <3>1, <3>2
  <2> QED
    BY <1>4, <2>1, <2>2
<1>6. Len(data'[Shared]) \in {Len(wrote), Len(wrote) + 1}
  BY <1>2, <1>5
<1>7. \A k \in 1 .. Len(wrote) : data'[Shared][k] = wrote[k]
  <2> DEFINE new == data'[Shared]
  <2>1. new \in Table(InitialColumns[Shared]) /\ Len(new) \in {Len(wrote), Len(wrote) + 1}
    BY <1>5, <1>6
  <2>2. \A j \in 1 .. Len(data[Shared]) : \A n \in 1 .. Len(InitialColumns[Shared]) :
            new[j][n] # data[Shared][j][n] => j = Len(wrote) + 1
    BY <1>5
  <2> HIDE DEF new
  <2>3. \A k \in 1 .. Len(wrote) : new[k] = wrote[k]
    BY <2>1, <2>2, RowsBeforeStay
  <2> QED
    BY <2>3 DEF new
<1>8. /\ Typed' /\ cols' = InitialColumns
      /\ \A r \in Objects : row'[r].table = TableOf(r) /\ row'[r].entries = FullRow(r).entries
                            /\ row'[r].auto = TRUE
      /\ row'[Writer].idx = Len(wrote) + 1
      /\ row'[Reader].idx = Len(got) + 1
  BY <1>1, WriterRowsStay
<1>9. Len(wrote') + 1 \in tried'
  BY <1>1, <1>2
<1>10. \A k \in 1 .. Len(got') :
            k \in tried' \/ (k \in 1 .. Len(wrote') /\ got'[k] = wrote'[k])
  BY <1>1 DEF LoopInv
<1>11. wrote' \in Seq(Line) /\ got' \in Seq(Line)
  BY <1>1 DEF LoopInv
<1>12. row'[Writer].idx = Len(wrote') + 1 /\ row'[Reader].idx = Len(got') + 1
  BY <1>1, <1>8
<1>13. /\ Len(data'[Shared]) \in {Len(wrote'), Len(wrote') + 1}
       /\ \A k \in 1 .. Len(wrote') : data'[Shared][k] = wrote'[k]
  BY <1>1, <1>6, <1>7
<1> QED
  BY <1>8, <1>9, <1>10, <1>11, <1>12, <1>13 DEF LoopInv

LEMMA ReaderInv ==
    ASSUME LoopsTables, LoopInv, NEW outcome, ReaderReads(outcome)
    PROVE  LoopInv'
<1> DEFINE i == row[Reader].idx
           es == row[Reader].entries
           cs == InitialColumns[Shared]
           d == data[Shared]
<1>1. /\ ReadRow(Reader, row[Reader].idx, outcome)
      /\ got' = (IF outcome = "returned" THEN Append(got, Record(Reader, memory')) ELSE got)
      /\ UNCHANGED <<wrote, tried>>
  BY DEF ReaderReads
<1>2. i = Len(got) + 1 /\ Len(got) \in Nat /\ i \in Nat /\ Len(wrote) \in Nat
  <2>1. i = Len(got) + 1 /\ Len(got) \in Nat /\ Len(wrote) \in Nat
    BY LoopFacts
  <2> QED
    BY <2>1
<1>3. /\ TypedOf(UncutColumn) /\ Typed /\ cs \in Seq(UncutColumn) /\ cols[Shared] = cs
      /\ d \in Table(cs) /\ Len(d) \in Nat /\ memory \in Memory
      /\ Reader \in Objects /\ Writer \in Objects /\ Writer # Reader
  BY LoopFacts, TheRows
<1>4. row[Reader].table = Shared /\ es \in Seq(MadeEntry) /\ Len(es) = Len(cs)
      /\ DOMAIN es = 1 .. Len(es)
      /\ IntactEntries(es, cs) /\ DistinctBases(es) /\ \A n \in 1 .. Len(es) : es[n].colnum = n
  BY <1>3, RowsOfLoops, TheRows
<1>5. UNCHANGED <<cols, data>> /\ Advance(Reader, i, outcome)
  BY <1>1 DEF ReadRow
<1>6. Typed'
  BY <1>1, <1>2, <1>3, ReadRowTyped
<1>7. /\ \A s \in Objects :
            /\ row'[s].table = row[s].table /\ row'[s].entries = row[s].entries
            /\ row'[s].auto = row[s].auto
            /\ s # Reader => row'[s].idx = row[s].idx
      /\ row'[Reader].idx = IF row[Reader].auto /\ outcome = "returned" THEN i + 1 ELSE i
  BY <1>3, <1>5, AdvanceRows
<1>8. row[Reader].auto = TRUE
  BY <1>3 DEF LoopInv
<1>9. CASE outcome # "returned"
  <2>1. got' = got /\ row'[Reader].idx = row[Reader].idx /\ row'[Writer].idx = row[Writer].idx
    BY <1>1, <1>3, <1>7, <1>9
  <2>2. UNCHANGED <<cols, wrote, tried, got>> /\ data'[Shared] = data[Shared]
    BY <1>1, <1>5, <2>1
  <2> QED
    BY <1>6, <1>7, <2>1, <2>2, LoopInvStays
<1>10. CASE outcome = "returned"
  <2> DEFINE record == Record(Reader, memory')
  <2>1. /\ es # <<>> /\ i <= Len(d)
        /\ \A k \in DOMAIN es : Readable(cs, d, es[k], i)
        /\ memory' = ReadUpTo(cs, d, es, i, Len(es))
    BY <1>1, <1>3, <1>4, <1>10 DEF ReadRow, SetAsChdu
  <2>2. i \in 1 .. Len(d)
    BY <1>2, <1>3, <2>1
  <2>3. memory' \in Memory
    BY <1>6 DEF Typed
  <2>4. record \in Line /\ \A n \in 1 .. Len(cs) : record[n] = memory'[es[n].base]
    BY <2>3, RecordType
  <2>5. got' = Append(got, record)
    BY <1>1, <1>10
  <2> HIDE DEF es, record, d
  <2>6. VariablesRead(cs, d, es, i, Len(es), memory')
    <3>1. Len(es) \in 0 .. Len(es)
      BY <1>4, LenProperties
    <3> QED
      BY <1>3, <1>4, <2>1, <2>2, <3>1, ReadUpToCells
  <2>7. d[i] = record
    <3>1. \A n \in 1 .. Len(cs) : d[i][n] = record[n]
      BY <1>4, <2>4, <2>6 DEF VariablesRead
    <3> HIDE DEF cs, i
    <3> QED
      BY <1>3, <2>2, <2>4, <3>1, RowIsLine DEF cs
  <2>8. got' \in Seq(Line) /\ Len(got') = Len(got) + 1 /\ got'[Len(got) + 1] = record
        /\ \A k \in 1 .. Len(got) : got'[k] = got[k]
    <3>1. got \in Seq(Line)
      BY DEF LoopInv
    <3> QED
      BY <2>4, <2>5, <3>1, AppendProperties
  <2>9. i \in tried \/ (i \in 1 .. Len(wrote) /\ record = wrote[i])
    <3>1. CASE i \in 1 .. Len(wrote)
      <4>1. d[i] = wrote[i]
        BY <3>1 DEF LoopInv, d
      <4> QED
        BY <2>7, <3>1, <4>1
    <3>2. CASE i \notin 1 .. Len(wrote)
      <4>1. Len(d) \in {Len(wrote), Len(wrote) + 1}
            /\ (Len(d) = Len(wrote) + 1 => Len(wrote) + 1 \in tried)
        BY DEF LoopInv, d
      <4>2. i = Len(wrote) + 1 /\ Len(d) = Len(wrote) + 1
        BY <1>2, <1>3, <2>2, <3>2, <4>1
      <4> QED
        BY <4>1, <4>2
    <3> QED
      BY <3>1, <3>2
  <2>10. \A k \in 1 .. Len(got') :
            k \in tried' \/ (k \in 1 .. Len(wrote') /\ got'[k] = wrote'[k])
    <3> SUFFICES ASSUME NEW k \in 1 .. Len(got')
                 PROVE  k \in tried \/ (k \in 1 .. Len(wrote) /\ got'[k] = wrote[k])
      BY <1>1
    <3>1. CASE k = i
      BY <1>2, <2>8, <2>9, <3>1
    <3>2. CASE k # i
      <4>1. k \in 1 .. Len(got)
        BY <1>2, <2>8, <3>2
      <4>2. k \in tried \/ (k \in 1 .. Len(wrote) /\ got[k] = wrote[k])
        BY <4>1 DEF LoopInv
      <4> QED
        BY <2>8, <4>1, <4>2
    <3> QED
      BY <3>1, <3>2
  <2>11. /\ row'[Reader].idx = Len(got') + 1
         /\ row'[Writer].idx = Len(wrote') + 1
    <3>1. row[Writer].idx = Len(wrote) + 1
      BY DEF LoopInv
    <3> HIDE DEF i
    <3> QED
      BY <1>1, <1>2, <1>3, <1>7, <1>8, <1>10, <2>8, <3>1
  <2>12. /\ wrote' \in Seq(Line)
         /\ Len(data'[Shared]) \in {Len(wrote'), Len(wrote') + 1}
         /\ Len(data'[Shared]) = Len(wrote') + 1 => Len(wrote') + 1 \in tried'
         /\ \A k \in 1 .. Len(wrote') : data'[Shared][k] = wrote'[k]
    BY <1>1, <1>5 DEF LoopInv
  <2>13. cols' = InitialColumns
    BY <1>5 DEF LoopInv
  <2>14. \A r \in Objects : row'[r].table = TableOf(r) /\ row'[r].entries = FullRow(r).entries
                            /\ row'[r].auto = TRUE
    BY <1>7 DEF LoopInv
  <2> QED
    BY <1>6, <2>8, <2>10, <2>11, <2>12, <2>13, <2>14 DEF LoopInv
<1> QED
  BY <1>9, <1>10

LEMMA OtherInv ==
    ASSUME LoopsTables, LoopInv, OtherWorks
    PROVE  LoopInv'
<1> DEFINE i == row[Other].idx
<1>1. Typed /\ Other \in Objects /\ Writer \in Objects /\ Reader \in Objects
      /\ Other # Writer /\ Other # Reader /\ Elsewhere # Shared
      /\ Shared \in TableObjects /\ Elsewhere \in TableObjects /\ TableOf(Other) = Elsewhere
  BY LoopFacts, TheRows
<1>2. UNCHANGED <<wrote, tried, got>>
  BY DEF OtherWorks
<1>3. row[Other].table = Elsewhere /\ i \in Nat
  BY <1>1, RowsOfLoops, RowOfTyped
<1> HIDE DEF i
<1>4. ASSUME NEW outcome \in Outcomes, ReadRow(Other, i, outcome)
      PROVE  LoopInv'
  <2>1. Typed' /\ UNCHANGED cols
    BY <1>1, <1>3, <1>4, ReadRowTyped
  <2>2. Advance(Other, i, outcome) /\ UNCHANGED data
    BY <1>4 DEF ReadRow
  <2>3. \A s \in Objects :
            /\ row'[s].table = row[s].table /\ row'[s].entries = row[s].entries
            /\ row'[s].auto = row[s].auto
            /\ s # Other => row'[s].idx = row[s].idx
    BY <1>1, <2>2, AdvanceRows
  <2>4. row'[Writer].idx = row[Writer].idx /\ row'[Reader].idx = row[Reader].idx
    BY <1>1, <2>3
  <2> QED
    BY <1>2, <2>1, <2>2, <2>3, <2>4, LoopInvStays
<1>5. ASSUME NEW outcome \in Outcomes, WriteRow(Other, i, outcome)
      PROVE  LoopInv'
  <2>1. Typed' /\ UNCHANGED cols
    BY <1>1, <1>3, <1>5, WriteRowTyped
  <2>2. /\ Advance(Other, i, outcome)
        /\ UNCHANGED data \/ \E d : Written(Other, i, d) /\ data' = [data EXCEPT ![Elsewhere] = d]
    BY <1>1, <1>3, <1>5, WriteRowEffect
  <2>3. \A s \in Objects :
            /\ row'[s].table = row[s].table /\ row'[s].entries = row[s].entries
            /\ row'[s].auto = row[s].auto
            /\ s # Other => row'[s].idx = row[s].idx
    BY <1>1, <2>2, AdvanceRows
  <2>4. row'[Writer].idx = row[Writer].idx /\ row'[Reader].idx = row[Reader].idx
    BY <1>1, <2>3
  <2>5. data'[Shared] = data[Shared]
    BY <1>1, <2>2 DEF Typed
  <2> QED
    BY <1>2, <2>1, <2>3, <2>4, <2>5, LoopInvStays
<1>6. ASSUME Query(Elsewhere)
      PROVE  LoopInv'
  <2>1. Typed' /\ UNCHANGED cols
    BY <1>1, <1>6, QueryTyped
  <2>2. UNCHANGED <<data, row>>
    BY <1>6 DEF Query
  <2> QED
    BY <1>2, <2>1, <2>2, LoopInvStays
<1> QED
  BY <1>4, <1>5, <1>6 DEF OtherWorks, Read, Write, i

LEMMA LoopsNextInv ==
    LoopsTables /\ LoopInv /\ [LoopsNext]_loopVars => LoopInv'
<1> SUFFICES ASSUME LoopsTables, LoopInv, [LoopsNext]_loopVars PROVE LoopInv'
  OBVIOUS
<1>1. ASSUME NEW record \in [Names -> Values], Fill(record)
      PROVE  LoopInv'
  BY <1>1, FillInv
<1>2. ASSUME NEW outcome \in Outcomes, WriterWrites(outcome)
      PROVE  LoopInv'
  BY <1>2, WriterReturnsInv, WriterThrowsInv
<1>3. ASSUME NEW outcome \in Outcomes, ReaderReads(outcome)
      PROVE  LoopInv'
  BY <1>3, ReaderInv
<1>4. CASE OtherWorks
  BY <1>4, OtherInv
<1>5. CASE UNCHANGED loopVars
  <2>1. UNCHANGED vars /\ UNCHANGED <<wrote, tried, got>>
    BY <1>5 DEF loopVars
  <2>2. Typed'
    BY <2>1 DEF LoopInv, Typed, vars
  <2> QED
    BY <2>1, <2>2, LoopInvStays DEF vars
<1> QED
  BY <1>1, <1>2, <1>3, <1>4, <1>5 DEF LoopsNext

LEMMA LoopInvHolds ==
    ASSUME LoopsTables
    PROVE  LoopsSpec => []LoopInv
<1>1. LoopsInit => LoopInv
  BY LoopsInitInv
<1>2. LoopInv /\ [LoopsNext]_loopVars => LoopInv'
  BY LoopsNextInv
<1> QED
  BY <1>1, <1>2, PTL DEF LoopsSpec

LEMMA LoopDomains ==
    ASSUME LoopInv
    PROVE  /\ DOMAIN wrote = 1 .. Len(wrote) /\ DOMAIN got = 1 .. Len(got)
           /\ \A k \in 1 .. Len(wrote) : k \in DOMAIN data[Shared]
<1>1. /\ wrote \in Seq(Line) /\ got \in Seq(Line) /\ data[Shared] \in Seq(Seq(Cell))
      /\ Len(data[Shared]) \in {Len(wrote), Len(wrote) + 1}
  BY TheRows DEF LoopInv, Typed
<1>2. /\ DOMAIN wrote = 1 .. Len(wrote) /\ DOMAIN got = 1 .. Len(got) /\ Len(wrote) \in Nat
      /\ DOMAIN data[Shared] = 1 .. Len(data[Shared])
  BY <1>1, LenProperties
<1> QED
  BY <1>1, <1>2

\* WrittenRowsStand: of the records for which write has returned none is lost,
\* put elsewhere or overwritten.
THEOREM WrittenStand ==
    ASSUME LoopsTables
    PROVE  LoopsSpec => []WrittenRowsStand
<1>1. LoopInv => WrittenRowsStand
  BY LoopDomains DEF LoopInv, WrittenRowsStand
<1> QED
  BY <1>1, LoopInvHolds, PTL

\* ReadAsWritten: the reader gets each record once and as it was written,
\* unless a write has thrown at its row.
THEOREM ReadComesBack ==
    ASSUME LoopsTables
    PROVE  LoopsSpec => []ReadAsWritten
<1>1. LoopInv => ReadAsWritten
  BY LoopDomains DEF LoopInv, ReadAsWritten
<1> QED
  BY <1>1, LoopInvHolds, PTL
=============================================================================
