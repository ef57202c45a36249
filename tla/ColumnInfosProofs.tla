------------------------- MODULE ColumnInfosProofs -------------------------
(***************************************************************************)
(* Proofs that what ColumnInfo::insert writes into a header is what        *)
(* ColumnInfo::init reads back, for tables of any number of columns and    *)
(* shapes of any size, as long as an int can count a cell's elements.      *)
(***************************************************************************)
EXTENDS MCColumnInfos, ColumnLemmas

\* The columns which are found in the table have up to 9 elements.
LargeInt == Half > 9

Col == [name : {"c"}, type : ColumnTypes, repeat : IntCounts, width : Nat, tdim : Seq(Nat)]

\* The column is what was asked for, if an int can count its elements.
Kept(col, e) ==
    /\ Product(e) \in Nat \ {0}
    /\ Filled(col)
    /\ Product(e) < Half => TdimReadable(col) /\ SameShape(CellExtent(col), e)

\* The inductive invariant.
IInv ==
    /\ cols \in Seq(Col)
    /\ asked \in Seq(Seq(Nat))
    /\ Len(asked) = Len(cols)
    /\ \A n \in 1 .. Len(cols) : Kept(cols[n], asked[n])

MakeOp(ctx, kept, n) == IF n > 1 THEN Append(kept, n) ELSE kept

Makes == INSTANCE FoldTheory WITH Op <- MakeOp

LEMMA MakeExtentIsFold ==
    ASSUME NEW sizes
    PROVE  MakeExtent(sizes) = Makes!Fold(0, <<Head(sizes)>>, Tail(sizes))
BY DEF MakeExtent, MakeOp, Makes!Fold, Makes!FoldLeft, FoldLeft,
       Makes!MapThenFoldSet, MapThenFoldSet, Makes!Max, Max

\* Shapes with no empty axis.
Solid == {e \in Seq(Nat) : Product(e) \in Nat \ {0}}

LEMMA SolidAppend ==
    ASSUME NEW e \in Solid, NEW n \in Nat \ {0}
    PROVE  Append(e, n) \in Solid
<1>1. e \in Seq(Nat) /\ Product(e) \in Nat \ {0} /\ n \in Nat
  BY DEF Solid
<1>2. Append(e, n) \in Seq(Nat)
  BY <1>1, AppendProperties
<1>3. Product(Append(e, n)) = Product(e) * n
  BY <1>1, ProductAppend
<1> DEFINE p == Product(e)
<1>4. p \in Nat \ {0}
  BY <1>1
<1> HIDE DEF p
<1>5. p * n \in Nat \ {0}
  BY <1>4
<1> QED
  BY <1>2, <1>3, <1>5 DEF Solid, p

LEMMA ShapesAreSolid == Shapes \subseteq Solid
<1> SUFFICES ASSUME NEW count \in 1 .. MaxAxes, NEW sizes \in [1 .. count -> Sizes]
             PROVE  MakeExtent(sizes) \in Solid
  BY DEF Shapes
<1>1. count \in Nat \ {0}
  BY BoundsAssumption
<1>2. sizes \in [1 .. count -> Nat \ {0}]
  BY SizesAssumption
<1>3. sizes \in Seq(Nat \ {0}) /\ Len(sizes) = count
  BY <1>1, <1>2, FunctionIsSeq
<1> DEFINE head == Head(sizes)
           tail == Tail(sizes)
           first == <<head>>
<1>4. head \in Nat \ {0}
  BY <1>1, <1>3
<1>5. tail \in Seq(Nat \ {0})
  BY <1>1, <1>3
<1>6. first \in Solid
  <2> HIDE DEF head
  <2>1. first \in Seq(Nat)
    BY <1>4
  <2>2. Product(first) = head
    BY <1>4, OneAxis
  <2> QED
    BY <1>4, <2>1, <2>2 DEF Solid
<1>7. MakeExtent(sizes) = Makes!Fold(0, first, tail)
  BY MakeExtentIsFold
<1> HIDE DEF head, tail, first
<1>8. ASSUME NEW k \in 1 .. Len(tail), NEW acc \in Solid
      PROVE  MakeOp(0, acc, tail[k]) \in Solid
  <2>1. tail[k] \in Nat \ {0}
    BY <1>5, ElementOfSeq
  <2>2. Append(acc, tail[k]) \in Solid
    BY <2>1, SolidAppend
  <2> QED
    BY <2>2 DEF MakeOp
<1>9. Makes!Fold(0, first, tail) \in Solid
  BY <1>5, <1>6, <1>8, Makes!FoldInvariant
<1> QED
  BY <1>7, <1>9

-----------------------------------------------------------------------------
\* A column of an int's count of elements which can be described is kept in
\* the shape it is described with.
LEMMA FoundIsKept ==
    ASSUME NEW col, Sound(col), Filled(col)
    PROVE  Kept(col, CellExtent(col))
<1>1. Product(CellExtent(col)) \in Nat \ {0}
  BY CellExtentSound, HalfType DEF CountedShape, IntCounts
<1>2. SameShape(CellExtent(col), CellExtent(col))
  BY DEF SameShape
<1> QED
  BY <1>1, <1>2 DEF Kept, Sound

LEMMA FoundColumnsType ==
    ASSUME LargeInt, NEW col \in FoundColumns
    PROVE  col \in Col /\ Sound(col) /\ Filled(col)
<1> DEFINE c1 == [name |-> "c", type |-> "String", repeat |-> 6, width |-> 3, tdim |-> NoTdim]
           c2 == [name |-> "c", type |-> "String", repeat |-> 4, width |-> 0, tdim |-> <<4>>]
           c3 == [name |-> "c", type |-> "Float", repeat |-> 4, width |-> 0, tdim |-> <<2, 2>>]
           c4 == [name |-> "c", type |-> "Bit", repeat |-> 9, width |-> 0, tdim |-> <<9>>]
           Good(x) == x \in Col /\ Sound(x) /\ Filled(x)
<1>0. {4, 6, 9} \subseteq IntCounts
  BY HalfType DEF LargeInt, IntCounts
<1>1. Good(c1)
  <2>1. c1 \in Col
    BY <1>0 DEF Col, NoTdim, ColumnTypes
  <2>2. Sound(c1)
    BY <1>0 DEF Sound, NoTdim, TdimReadable
  <2>3. Filled(c1)
    <3>1. StringWidth(c1) = 3 /\ c1.repeat = 6
      BY DEF StringWidth
    <3> QED
      BY <3>1 DEF Filled
  <2> QED
    BY <2>1, <2>2, <2>3
<1>2. Good(c2)
  <2>1. c2 \in Col
    BY <1>0 DEF Col, NoTdim, ColumnTypes
  <2>2. Sound(c2)
    <3>1. Product(<<4>>) = 4
      BY OneAxis
    <3> QED
      BY <1>0, <3>1 DEF Sound, TdimReadable
  <2>3. Filled(c2)
    <3>1. StringWidth(c2) = 4 /\ c2.repeat = 4
      BY DEF StringWidth
    <3> QED
      BY <3>1 DEF Filled
  <2> QED
    BY <2>1, <2>2, <2>3
<1>3. Good(c3)
  <2>1. c3 \in Col
    BY <1>0 DEF Col, NoTdim, ColumnTypes
  <2>2. Sound(c3)
    <3>1. Product(<<2, 2>>) = 4
      <4>1. 2 \in Nat
        OBVIOUS
      <4>2. Product(<<2, 2>>) = 2 * 2
        BY <4>1, TwoAxes
      <4> QED
        BY <4>2
    <3> QED
      BY <1>0, <3>1 DEF Sound, TdimReadable
  <2>3. Filled(c3)
    <3>1. StringWidth(c3) = 4 /\ c3.repeat = 4
      BY DEF StringWidth
    <3> QED
      BY <3>1 DEF Filled
  <2> QED
    BY <2>1, <2>2, <2>3
<1>4. Good(c4)
  <2>1. c4 \in Col
    BY <1>0 DEF Col, NoTdim, ColumnTypes
  <2>2. Sound(c4)
    <3>1. Product(<<9>>) = 9
      BY OneAxis
    <3> QED
      BY <1>0, <3>1 DEF Sound, TdimReadable
  <2>3. Filled(c4)
    <3>1. StringWidth(c4) = 9 /\ c4.repeat = 9
      BY DEF StringWidth
    <3> QED
      BY <3>1 DEF Filled
  <2> QED
    BY <2>1, <2>2, <2>3
<1>5. col \in {c1, c2, c3, c4}
  BY DEF FoundColumns
<1> HIDE DEF Good, c1, c2, c3, c4
<1>6. Good(col)
  BY <1>1, <1>2, <1>3, <1>4, <1>5
<1> QED
  BY <1>6 DEF Good

LEMMA InitKept ==
    ASSUME LargeInt, Init
    PROVE  IInv
<1>1. PICK found \in {<<>>} \cup {<<col>> : col \in FoundColumns} :
            cols = found /\ asked = [n \in 1 .. Len(found) |-> CellExtent(found[n])]
  BY DEF Init
<1>2. CASE found = <<>>
  <2>1. cols = <<>> /\ Len(found) = 0 /\ cols \in Seq(Col) /\ Len(cols) = 0
    BY <1>1, <1>2
  <2>2. asked \in [1 .. 0 -> Seq(Nat)]
    BY <1>1, <2>1
  <2>3. asked \in Seq(Seq(Nat)) /\ Len(asked) = 0
    BY <2>2, FunctionIsSeq
  <2> QED
    BY <2>1, <2>3 DEF IInv
<1>3. ASSUME NEW col \in FoundColumns, found = <<col>>
      PROVE  IInv
  <2> DEFINE e == CellExtent(col)
  <2>1. col \in Col /\ Sound(col) /\ Filled(col)
    BY FoundColumnsType
  <2>2. Kept(col, e)
    BY <2>1, FoundIsKept
  <2>3. e \in Seq(Nat)
    BY <2>1, CellExtentSound DEF CountedShape
  <2>4. cols = <<col>> /\ Len(found) = 1 /\ found[1] = col
    BY <1>1, <1>3
  <2> HIDE DEF e
  <2>5. asked \in [1 .. 1 -> Seq(Nat)] /\ asked[1] = e
    BY <1>1, <2>3, <2>4 DEF e
  <2>6. asked \in Seq(Seq(Nat)) /\ Len(asked) = 1
    BY <2>5, FunctionIsSeq
  <2>7. cols \in Seq(Col) /\ Len(cols) = 1 /\ cols[1] = col
    BY <2>1, <2>4
  <2>8. \A n \in 1 .. Len(cols) : n = 1
    BY <2>7
  <2> QED
    BY <2>2, <2>5, <2>6, <2>7, <2>8 DEF IInv
<1> QED
  BY <1>1, <1>2, <1>3

LEMMA StoredTypes ==
    ASSUME NEW type \in ColumnTypes
    PROVE  StoredType(type) \in ColumnTypes
BY DEF StoredType, ColumnTypes

\* The column which an insertion adds, whatever shape it is asked for.
LEMMA InsertedKept ==
    ASSUME NEW type \in ColumnTypes, NEW e \in Solid
    PROVE  LET col == ShapedColumn("c", type, e)
           IN  col \in Col /\ Kept(col, e)
<1> DEFINE col == ShapedColumn("c", type, e)
<1>1. e \in Seq(Nat) /\ Product(e) \in Nat \ {0}
  BY DEF Solid
<1>2. TformRepeat(e) \in IntCounts
  BY <1>1, TformCounts
<1>3. /\ col.repeat = TformRepeat(e) /\ col.width = 0
      /\ col.tdim = IF NeedsTdim(e) THEN e ELSE NoTdim
  BY ShapedColumnFields
<1>4. StoredType(type) \in ColumnTypes
  BY StoredTypes
<1>5. col \in Col
  <2>1. NewColumn("c", StoredType(type), TformRepeat(e)) \in Col
    BY <1>2, <1>4 DEF NewColumn, Col, NoTdim
  <2>2. [NewColumn("c", StoredType(type), TformRepeat(e)) EXCEPT !.tdim = e] \in Col
    BY <1>1, <2>1 DEF Col
  <2> QED
    BY <2>1, <2>2 DEF ShapedColumn
<1> HIDE DEF col
<1>6. Filled(col)
  <2>1. col.repeat \in Nat \ {0} /\ col.width \in Nat /\ col.repeat \in 1 .. col.repeat
    BY <1>2, <1>3, HalfType DEF IntCounts
  <2>2. StringWidth(col) = col.repeat
    BY <1>3, <2>1, StringWidthType
  <2>3. col.repeat \div col.repeat = 1
    BY <2>1, Quotient
  <2> QED
    BY <2>1, <2>2, <2>3 DEF Filled
<1>7. ASSUME Product(e) < Half
      PROVE  TdimReadable(col) /\ SameShape(CellExtent(col), e)
  <2>1. e \in CountedShape
    BY <1>1, <1>7, HalfType DEF CountedShape, IntCounts
  <2> QED
    BY <2>1, ShapedColumnDescribed DEF col, Sound
<1> QED
  BY <1>1, <1>5, <1>6, <1>7 DEF Kept, col

LEMMA NextKept ==
    ASSUME IInv, [Next]_vars
    PROVE  IInv'
<1>1. CASE UNCHANGED vars
  BY <1>1 DEF IInv, vars
<1>2. ASSUME NEW type \in Types, NEW e \in Shapes, NEW colnum \in 1 .. Len(cols) + 2,
             Insert(type, e, colnum)
      PROVE  IInv'
  <2> DEFINE col == ShapedColumn("c", type, e)
             n == Len(cols)
             at == InsertedAt(n, colnum)
  <2>1. /\ cols \in Seq(Col) /\ asked \in Seq(Seq(Nat)) /\ Len(asked) = n
        /\ \A i \in 1 .. n : Kept(cols[i], asked[i])
        /\ n \in Nat
    BY LenProperties DEF IInv
  <2>2. type \in ColumnTypes /\ e \in Solid /\ e \in Seq(Nat) /\ colnum \in Nat \ {0}
    BY <2>1, TypesAssumption, ShapesAreSolid DEF Solid
  <2>3. col \in Col /\ Kept(col, e)
    BY <2>2, InsertedKept
  <2>4. NewColumn("c", StoredType(type), TformRepeat(e)) \in Col
    <3>1. TformRepeat(e) \in IntCounts /\ StoredType(type) \in ColumnTypes
      BY <2>2, TformCounts, StoredTypes
    <3> QED
      BY <3>1 DEF NewColumn, Col, NoTdim
  <2>5. cols' = InsertCol(cols, colnum, col)
    <3>1. cols' = Inserted(cols, "c", type, e, colnum) /\ ~ TdimMisses(cols, e, colnum)
      BY <1>2 DEF Insert
    <3>2. Inserted(cols, "c", type, e, colnum) = InsertCol(cols, colnum, col)
      BY <2>1, <2>2, <2>3, <2>4, <3>1, InsertedIsOneColumn
    <3> QED
      BY <3>1, <3>2
  <2>6. asked' = InsertCol(asked, colnum, e)
    BY <1>2 DEF Insert
  <2> HIDE DEF col
  <2>7. Grows(cols', cols, at, col, Col)
    BY <2>1, <2>2, <2>3, <2>5, InsertColElements
  <2>8. Grows(asked', asked, at, e, Seq(Nat))
    <3>1. Grows(InsertCol(asked, colnum, e), asked, InsertedAt(Len(asked), colnum), e, Seq(Nat))
      BY <2>1, <2>2, InsertColElements
    <3> QED
      BY <2>1, <2>6, <3>1
  <2> HIDE DEF at
  <2>9. /\ cols' \in Seq(Col) /\ asked' \in Seq(Seq(Nat))
        /\ Len(cols') = n + 1 /\ Len(asked') = n + 1
        /\ at \in 1 .. n + 1
        /\ cols'[at] = col /\ asked'[at] = e
        /\ \A j \in 1 .. at - 1 : cols'[j] = cols[j] /\ asked'[j] = asked[j]
        /\ \A j \in at + 1 .. n + 1 : cols'[j] = cols[j - 1] /\ asked'[j] = asked[j - 1]
    BY <2>1, <2>7, <2>8 DEF Grows
  <2> HIDE DEF n
  <2>10. ASSUME NEW j \in 1 .. n + 1
         PROVE  Kept(cols'[j], asked'[j])
    <3>1. CASE j = at
      BY <2>3, <2>9, <3>1
    <3>2. CASE j \in 1 .. at - 1
      <4>1. j \in 1 .. n
        BY <2>1, <2>9, <3>2
      <4> QED
        BY <2>1, <2>9, <3>2, <4>1
    <3>3. CASE j \in at + 1 .. n + 1
      <4>1. j - 1 \in 1 .. n
        BY <2>1, <2>9, <3>3
      <4> QED
        BY <2>1, <2>9, <3>3, <4>1
    <3>4. j = at \/ j \in 1 .. at - 1 \/ j \in at + 1 .. n + 1
      BY <2>1, <2>9
    <3> QED
      BY <3>1, <3>2, <3>3, <3>4
  <2>11. \A j \in 1 .. Len(cols') : Kept(cols'[j], asked'[j])
    BY <2>9, <2>10
  <2> QED
    BY <2>9, <2>11 DEF IInv, Kept
<1> QED
  BY <1>1, <1>2 DEF Next

THEOREM InvHolds ==
    ASSUME LargeInt
    PROVE  Spec => []IInv
<1>1. Init => IInv
  BY InitKept
<1>2. IInv /\ [Next]_vars => IInv'
  BY NextKept
<1> QED
  BY <1>1, <1>2, PTL DEF Spec

\* However many columns are inserted, wherever, each is described with the
\* shape it was given, if an int can count its elements.
THEOREM ShapesSurvive ==
    ASSUME LargeInt
    PROVE  Spec => []ShapeSurvivesHeader
<1>1. IInv => ShapeSurvivesHeader
  <2> SUFFICES ASSUME IInv, NEW n \in 1 .. Len(cols), Product(asked[n]) < 2 ^ (IntBits - 1)
               PROVE  Describable(cols[n]) /\ SameShape(CellExtent(cols[n]), asked[n])
    BY DEF ShapeSurvivesHeader
  <2>1. cols[n] \in Col
    BY ElementOfSeq DEF IInv
  <2>2. Kept(cols[n], asked[n]) /\ Product(asked[n]) < Half
    BY DEF IInv, Half
  <2> QED
    BY <2>1, <2>2 DEF Kept, Describable, Col
<1> QED
  BY <1>1, InvHolds, PTL

\* Equal shapes have equal counts, whether or not the int overflows.
THEOREM CountsAgree ==
    ASSUME LargeInt
    PROVE  Spec => []SameShapeSameCount
<1>1. IInv => SameShapeSameCount
  <2> SUFFICES ASSUME IInv, NEW n \in 1 .. Len(cols), NEW e \in Shapes, SameShape(e, asked[n])
               PROVE  Nelem(e) = Nelem(asked[n])
    BY DEF SameShapeSameCount
  <2>1. asked[n] \in Seq(Nat)
    <3>1. n \in 1 .. Len(asked) /\ asked \in Seq(Seq(Nat))
      BY DEF IInv
    <3> QED
      BY <3>1, ElementOfSeq
  <2>2. e \in Seq(Nat)
    BY ShapesAreSolid DEF Solid
  <2>3. Nelem(e) = Nelem(Squeeze(e))
    BY <2>2, SqueezeKeepsNelem
  <2>4. Nelem(asked[n]) = Nelem(Squeeze(asked[n]))
    BY <2>1, SqueezeKeepsNelem
  <2> QED
    BY <2>3, <2>4 DEF SameShape
<1> QED
  BY <1>1, InvHolds, PTL

TotalOp(ctx, sum, n) == sum + n

Totals == INSTANCE FoldTheory WITH Op <- TotalOp

LEMMA TotalIsFold ==
    ASSUME NEW numbers
    PROVE  Total(numbers) = Totals!Fold(0, 0, numbers)
BY DEF Total, TotalOp, Totals!Fold, Totals!FoldLeft, FoldLeft,
       Totals!MapThenFoldSet, MapThenFoldSet, Totals!Max, Max

\* The bytes before the n-th column, when the columns before it can be described.
LEMMA OffsetFollows ==
    ASSUME NEW cs \in Seq(Col), NEW n \in 1 .. Len(cs),
           \A i \in 1 .. n - 1 : Describable(cs[i]) /\ Filled(cs[i])
    PROVE  Offset(cs, n) = 1 + Total([i \in 1 .. n - 1 |-> StorageBytes(cs[i])])
<1> DEFINE m == n - 1
           sizes == [i \in 1 .. m |-> StorageBytes(cs[i])]
<1>1. m \in Nat /\ \A i \in 1 .. m : i \in 1 .. Len(cs)
  BY LenProperties
<1>2. \A i \in 1 .. m :
            StorageBytes(cs[i]) \in Nat /\ CellBytes(cs[i]) = StorageBytes(cs[i])
  <2> SUFFICES ASSUME NEW i \in 1 .. m
               PROVE  StorageBytes(cs[i]) \in Nat /\ CellBytes(cs[i]) = StorageBytes(cs[i])
    OBVIOUS
  <2>1. cs[i] \in Col
    BY <1>1, ElementOfSeq
  <2>2. Describable(cs[i]) /\ Filled(cs[i])
    OBVIOUS
  <2> DEFINE col == cs[i]
  <2> HIDE DEF col
  <2>3. Sound(col)
    BY <2>1, <2>2 DEF Sound, Col, Describable, col
  <2>4. CellBytes(col) = StorageBytes(col)
    BY <2>2, <2>3, CellBytesAreStored DEF col
  <2>5. col.repeat \in Nat /\ col.type \in ColumnTypes
    <3>1. col.repeat \in IntCounts /\ col.type \in ColumnTypes
      BY <2>1 DEF Col, col
    <3> QED
      BY <3>1, HalfType DEF IntCounts
  <2>6. StorageBytes(col) \in Nat
    BY <2>5, StorageBytesType
  <2> QED
    BY <2>4, <2>6 DEF col
<1>3. sizes \in [1 .. m -> Nat] /\ \A i \in 1 .. m : sizes[i] = StorageBytes(cs[i])
  BY <1>2
<1> HIDE DEF sizes
<1>4. sizes \in Seq(Nat) /\ Len(sizes) = m
  BY <1>1, <1>3, FunctionIsSeq
<1>5. PICK r : /\ r[0] = 1
               /\ \A k \in 1 .. m : r[k] = r[k - 1] + CellBytes(cs[k])
               /\ Offset(cs, n) = r[m]
  <2>1. n \in 1 .. Len(cs) + 1
    BY LenProperties
  <2> QED
    BY <2>1, OffsetSteps
<1>6. PICK q : /\ q[0] = 0
               /\ \A k \in 1 .. Len(sizes) : q[k] = TotalOp(0, q[k - 1], sizes[k])
               /\ Total(sizes) = q[Len(sizes)]
  <2>1. Total(sizes) = Totals!Fold(0, 0, sizes)
    BY TotalIsFold
  <2>2. sizes \in Seq(Nat)
    BY <1>4
  <2> QED
    BY <2>1, <2>2, Totals!FoldSteps
<1> HIDE DEF m
<1> DEFINE T == {k \in 0 .. m : q[k] \in Nat /\ r[k] = 1 + q[k]}
<1>7. 0 \in T
  BY <1>1, <1>5, <1>6
<1>8. ASSUME NEW k \in 0 .. m - 1, k \in T
      PROVE  k + 1 \in T
  <2>1. k + 1 \in 1 .. m /\ k + 1 \in 0 .. m /\ (k + 1) - 1 = k
    BY <1>1
  <2>2. r[k + 1] = r[k] + sizes[k + 1]
    BY <1>2, <1>3, <1>5, <2>1
  <2>3. q[k + 1] = q[k] + sizes[k + 1]
    BY <1>4, <1>6, <2>1 DEF TotalOp
  <2>4. sizes[k + 1] \in Nat
    BY <1>3, <2>1
  <2> QED
    BY <1>8, <2>1, <2>2, <2>3, <2>4
<1>9. \A k \in 0 .. m : k \in T
  <2> HIDE DEF T
  <2> QED
    BY <1>1, <1>7, <1>8, Totals!UpTo
<1>10. Offset(cs, n) = 1 + Total(sizes)
  <2>1. m \in T
    BY <1>1, <1>9
  <2> QED
    BY <1>4, <1>5, <1>6, <2>1
<1> QED
  BY <1>10 DEF sizes, m

\* The offset which a string entry of a Row takes is that of the cell.
THEOREM OffsetsAreFirstBytes ==
    ASSUME LargeInt
    PROVE  Spec => []OffsetIsFirstByte
<1>1. IInv => OffsetIsFirstByte
  <2> SUFFICES ASSUME IInv, NEW n \in 1 .. Len(cols),
                      \A i \in 1 .. n - 1 : Describable(cols[i])
               PROVE  Offset(cols, n) = 1 + Total([i \in 1 .. n - 1 |-> StorageBytes(cols[i])])
    BY DEF OffsetIsFirstByte
  <2>1. cols \in Seq(Col) /\ \A i \in 1 .. Len(cols) : Filled(cols[i])
    BY DEF IInv, Kept
  <2>2. \A i \in 1 .. n - 1 : Describable(cols[i]) /\ Filled(cols[i])
    <3>1. \A i \in 1 .. n - 1 : i \in 1 .. Len(cols)
      BY <2>1, LenProperties
    <3> QED
      BY <2>1, <3>1
  <2> QED
    BY <2>1, <2>2, OffsetFollows
<1> QED
  BY <1>1, InvHolds, PTL

-----------------------------------------------------------------------------
(***************************************************************************)
(* Bits                                                                    *)
(***************************************************************************)
Byte == [1 .. 8 -> BOOLEAN]

LEMMA SwappedType ==
    ASSUME NEW byte \in Byte
    PROVE  Swapped(byte, 4) \in Byte /\ Swapped(byte, 2) \in Byte /\ Swapped(byte, 1) \in Byte
<1>1. \A k \in 1 .. 8 : (IF ((k - 1) \div 4) % 2 = 0 THEN k + 4 ELSE k - 4) \in 1 .. 8
  OBVIOUS
<1>2. \A k \in 1 .. 8 : (IF ((k - 1) \div 2) % 2 = 0 THEN k + 2 ELSE k - 2) \in 1 .. 8
  OBVIOUS
<1>3. \A k \in 1 .. 8 : (IF ((k - 1) \div 1) % 2 = 0 THEN k + 1 ELSE k - 1) \in 1 .. 8
  OBVIOUS
<1> QED
  BY <1>1, <1>2, <1>3 DEF Swapped, Byte

LEMMA SwappedBits ==
    ASSUME NEW byte \in Byte
    PROVE  /\ \A k \in 1 .. 4 : Swapped(byte, 4)[k] = byte[k + 4] /\ Swapped(byte, 4)[k + 4] = byte[k]
           /\ \A k \in {1, 2, 5, 6} :
                Swapped(byte, 2)[k] = byte[k + 2] /\ Swapped(byte, 2)[k + 2] = byte[k]
           /\ \A k \in {1, 3, 5, 7} :
                Swapped(byte, 1)[k] = byte[k + 1] /\ Swapped(byte, 1)[k + 1] = byte[k]
<1>1. \A k \in 1 .. 4 : Swapped(byte, 4)[k] = byte[k + 4] /\ Swapped(byte, 4)[k + 4] = byte[k]
  BY DEF Swapped
<1>2. \A k \in {1, 2, 5, 6} :
            Swapped(byte, 2)[k] = byte[k + 2] /\ Swapped(byte, 2)[k + 2] = byte[k]
  BY DEF Swapped
<1>3. \A k \in {1, 3, 5, 7} :
            Swapped(byte, 1)[k] = byte[k + 1] /\ Swapped(byte, 1)[k + 1] = byte[k]
  BY DEF Swapped
<1> QED
  BY <1>1, <1>2, <1>3

LEMMA ReverseBits ==
    ASSUME NEW byte \in Byte
    PROVE  reverse_bits(byte) \in Byte /\ \A k \in 1 .. 8 : reverse_bits(byte)[k] = byte[9 - k]
<1> DEFINE b4 == Swapped(byte, 4)
           b2 == Swapped(b4, 2)
           b1 == Swapped(b2, 1)
<1>1. b4 \in Byte
  BY SwappedType
<1>2. \A k \in 1 .. 4 : b4[k] = byte[k + 4] /\ b4[k + 4] = byte[k]
  BY SwappedBits
<1> HIDE DEF b4
<1>3. b2 \in Byte
  BY <1>1, SwappedType
<1>4. \A k \in {1, 2, 5, 6} : b2[k] = b4[k + 2] /\ b2[k + 2] = b4[k]
  BY <1>1, SwappedBits
<1> HIDE DEF b2
<1>5. b1 \in Byte
  BY <1>3, SwappedType
<1>6. \A k \in {1, 3, 5, 7} : b1[k] = b2[k + 1] /\ b1[k + 1] = b2[k]
  BY <1>3, SwappedBits
<1> HIDE DEF b1
<1>7. b1[1] = byte[8] /\ b1[2] = byte[7] /\ b1[3] = byte[6] /\ b1[4] = byte[5]
  BY <1>2, <1>4, <1>6
<1>8. b1[5] = byte[4] /\ b1[6] = byte[3] /\ b1[7] = byte[2] /\ b1[8] = byte[1]
  BY <1>2, <1>4, <1>6
<1>9. \A k \in 1 .. 8 : b1[k] = byte[9 - k]
  BY <1>7, <1>8
<1>10. reverse_bits(byte) = b1
  BY DEF reverse_bits, b1, b2, b4
<1> QED
  BY <1>5, <1>9, <1>10

\* The byte of a bit and its place in it.
LEMMA BitPlace ==
    ASSUME NEW c \in Nat, NEW k \in 1 .. 8 * c
    PROVE  /\ ((k - 1) \div 8) + 1 \in 1 .. c
           /\ ((k - 1) % 8) + 1 \in 1 .. 8
           /\ 8 - ((k - 1) % 8) \in 1 .. 8
           /\ 8 * (((k - 1) \div 8) + 1) - (9 - (((k - 1) % 8) + 1)) + 1 = k
OBVIOUS

Bit(bytes, k) == bytes[((k - 1) \div 8) + 1][((k - 1) % 8) + 1]

LEMMA ReversedBytes ==
    ASSUME NEW c \in Nat, NEW bytes \in [1 .. c -> Byte]
    PROVE  /\ Reversed(bytes) \in [1 .. c -> Byte]
           /\ \A m \in 1 .. c : \A k \in 1 .. 8 : Reversed(bytes)[m][k] = bytes[m][9 - k]
<1>1. DOMAIN bytes = 1 .. c /\ \A m \in 1 .. c : bytes[m] \in Byte
  OBVIOUS
<1>2. \A m \in 1 .. c : Reversed(bytes)[m] = reverse_bits(bytes[m])
  BY <1>1 DEF Reversed
<1>3. \A m \in 1 .. c : reverse_bits(bytes[m]) \in Byte
  BY <1>1, ReverseBits
<1>4. Reversed(bytes) \in [1 .. c -> Byte]
  BY <1>1, <1>3 DEF Reversed
<1>5. ASSUME NEW m \in 1 .. c, NEW k \in 1 .. 8
      PROVE  Reversed(bytes)[m][k] = bytes[m][9 - k]
  BY <1>1, <1>2, ReverseBits
<1> QED
  BY <1>4, <1>5

LEMMA BitsReadProperties ==
    ASSUME NEW c \in Nat, NEW bytes \in [1 .. c -> Byte], NEW size \in Nat, size <= 8 * c
    PROVE  BitsRead(bytes, size) \in [1 .. size -> BOOLEAN]
           /\ \A k \in 1 .. size : BitsRead(bytes, size)[k] = Bit(bytes, k)
<1> DEFINE blocks == Reversed(bytes)
           bits == FromBlocks(blocks)
<1>1. blocks \in [1 .. c -> Byte]
  BY ReversedBytes
<1>2. \A m \in 1 .. c : \A k \in 1 .. 8 : blocks[m][k] = bytes[m][9 - k]
  BY ReversedBytes
<1> HIDE DEF blocks
<1>3. Len(blocks) = c
  BY <1>1, FunctionIsSeq
<1>4. /\ bits \in [1 .. 8 * c -> BOOLEAN]
      /\ \A k \in 1 .. 8 * c : bits[k] = Bit(bytes, k)
  <2>1. \A k \in 1 .. 8 * c : bits[k] = blocks[((k - 1) \div 8) + 1][8 - ((k - 1) % 8)]
    BY <1>3 DEF FromBlocks
  <2>2. ASSUME NEW k \in 1 .. 8 * c
        PROVE  bits[k] = Bit(bytes, k) /\ bits[k] \in BOOLEAN
    <3> DEFINE m == ((k - 1) \div 8) + 1
               j == 8 - ((k - 1) % 8)
    <3>1. m \in 1 .. c /\ j \in 1 .. 8 /\ 9 - j = ((k - 1) % 8) + 1
      BY BitPlace
    <3>2. bits[k] = blocks[m][j]
      BY <2>1
    <3>3. Bit(bytes, k) = bytes[m][9 - j]
      BY <3>1 DEF Bit
    <3> HIDE DEF m, j, bits
    <3>4. blocks[m] \in Byte
      BY <1>1, <3>1
    <3>5. blocks[m][j] \in BOOLEAN
      BY <3>1, <3>4 DEF Byte
    <3> QED
      BY <1>2, <3>1, <3>2, <3>3, <3>5
  <2>3. bits = [k \in 1 .. 8 * c |-> bits[k]]
    BY <1>3 DEF FromBlocks
  <2> HIDE DEF bits
  <2> QED
    BY <2>2, <2>3
<1> HIDE DEF bits
<1>5. 8 * c \in Nat
  OBVIOUS
<1>6. Len(bits) = 8 * c
  BY <1>4, <1>5, FunctionIsSeq
<1>7. BitsRead(bytes, size) = [k \in 1 .. size |-> k <= 8 * c /\ bits[k]]
  BY <1>6 DEF BitsRead, ResizedBits, bits, blocks
<1>8. \A k \in 1 .. size : k \in 1 .. 8 * c /\ k <= 8 * c /\ bits[k] \in BOOLEAN
  BY <1>4
<1> QED
  BY <1>4, <1>7, <1>8

LEMMA BlockBits ==
    ASSUME NEW size \in Nat, NEW bits \in [1 .. size -> BOOLEAN]
    PROVE  /\ NumBlocks(bits) = (size + 7) \div 8
           /\ Reversed(ToBlocks(bits)) \in [1 .. (size + 7) \div 8 -> Byte]
           /\ \A k \in 1 .. 8 * ((size + 7) \div 8) :
                    Bit(Reversed(ToBlocks(bits)), k) = (k <= size /\ bits[k])
<1> DEFINE c == (size + 7) \div 8
           blocks == ToBlocks(bits)
           bytes == Reversed(blocks)
<1>1. c \in Nat
  OBVIOUS
<1>2. Len(bits) = size
  BY FunctionIsSeq
<1>3. blocks = [m \in 1 .. c |-> [k \in 1 .. 8 |-> 8 * m - k + 1 <= size /\ bits[8 * m - k + 1]]]
  BY <1>2 DEF ToBlocks, NumBlocks
<1>4. bytes = Reversed(blocks) /\ NumBlocks(bits) = c
  BY <1>2 DEF NumBlocks
<1> HIDE DEF c, blocks, bytes
<1>5. \A m \in 1 .. c : \A k \in 1 .. 8 :
            /\ (8 * m - k + 1 <= size /\ bits[8 * m - k + 1]) \in BOOLEAN
            /\ blocks[m][k] = (8 * m - k + 1 <= size /\ bits[8 * m - k + 1])
  BY <1>3
<1>6. blocks \in [1 .. c -> Byte]
  BY <1>3 DEF Byte
<1>7. bytes \in [1 .. c -> Byte]
  BY <1>1, <1>4, <1>6, ReversedBytes
<1>8. \A m \in 1 .. c : \A k \in 1 .. 8 : bytes[m][k] = blocks[m][9 - k]
  BY <1>1, <1>4, <1>6, ReversedBytes
<1>9. ASSUME NEW k \in 1 .. 8 * c
      PROVE  Bit(bytes, k) = (k <= size /\ bits[k])
  <2> DEFINE m == ((k - 1) \div 8) + 1
             j == ((k - 1) % 8) + 1
  <2>1. m \in 1 .. c /\ j \in 1 .. 8 /\ 8 * m - (9 - j) + 1 = k
    BY <1>1, BitPlace
  <2>2. Bit(bytes, k) = bytes[m][j]
    BY DEF Bit
  <2> HIDE DEF m, j
  <2>3. 9 - j \in 1 .. 8
    BY <2>1
  <2>4. bytes[m][j] = blocks[m][9 - j]
    BY <1>8, <2>1
  <2>5. blocks[m][9 - j] = (8 * m - (9 - j) + 1 <= size /\ bits[8 * m - (9 - j) + 1])
    BY <1>5, <2>1, <2>3
  <2> QED
    BY <2>1, <2>2, <2>4, <2>5
<1> QED
  BY <1>4, <1>7, <1>9 DEF c, bytes, blocks

\* The blocks of a BitSet go into a buffer which has room for them.
LEMMA BitsWrittenProperties ==
    ASSUME NEW size \in Nat, NEW bits \in [1 .. size -> BOOLEAN],
           NEW c \in Nat, (size + 7) \div 8 <= c, NEW buffer \in [1 .. c -> Byte]
    PROVE  /\ BitsWritten(bits, buffer) \in [1 .. c -> Byte]
           /\ \A k \in 1 .. 8 * ((size + 7) \div 8) :
                    Bit(BitsWritten(bits, buffer), k) = (k <= size /\ bits[k])
<1> DEFINE blocks == Reversed(ToBlocks(bits))
           b == (size + 7) \div 8
           bytes == BitsWritten(bits, buffer)
<1>1. b \in Nat /\ b <= c
  OBVIOUS
<1>2. blocks \in [1 .. b -> Byte] /\ \A k \in 1 .. 8 * b : Bit(blocks, k) = (k <= size /\ bits[k])
  BY BlockBits
<1>3. bytes = [m \in 1 .. c |-> IF m \in DOMAIN blocks THEN blocks[m] ELSE buffer[m]]
  BY DEF BitsWritten
<1> HIDE DEF blocks, b, bytes
<1>4. \A m \in 1 .. b : m \in 1 .. c /\ bytes[m] = blocks[m]
  BY <1>1, <1>2, <1>3
<1>5. bytes \in [1 .. c -> Byte]
  BY <1>2, <1>3
<1>6. ASSUME NEW k \in 1 .. 8 * b
      PROVE  Bit(bytes, k) = (k <= size /\ bits[k])
  <2>1. ((k - 1) \div 8) + 1 \in 1 .. b
    BY <1>1, BitPlace
  <2>2. Bit(bytes, k) = Bit(blocks, k)
    BY <1>4, <2>1 DEF Bit
  <2> QED
    BY <1>2, <2>2
<1> QED
  BY <1>5, <1>6 DEF b, bytes

\* A column of a cell which is looked at.
LEMMA CellsAreSound ==
    ASSUME IInv, NEW type \in {"Bit", "String"}, NEW n \in CellsOf(type)
    PROVE  /\ n \in 1 .. Len(cols) /\ cols[n].type = type /\ cols[n] \in Col
           /\ Sound(cols[n]) /\ Filled(cols[n])
<1>1. n \in 1 .. Len(cols) /\ StoredType(cols[n].type) = type /\ Product(asked[n]) < Half
  BY DEF CellsOf, Half
<1>2. cols[n] \in Col
  BY <1>1, ElementOfSeq DEF IInv
<1>3. Kept(cols[n], asked[n])
  BY <1>1 DEF IInv
<1>4. cols[n].type = type
  BY <1>1 DEF StoredType
<1>5. Sound(cols[n])
  BY <1>1, <1>2, <1>3 DEF Sound, Kept, Col
<1> QED
  BY <1>1, <1>2, <1>3, <1>4, <1>5 DEF Kept

\* What becomes of the bits of a BitSet in a cell of nelem bits.
LEMMA BitsJustified ==
    ASSUME NEW nelem \in Nat, NEW c \in Nat, c = (nelem + 7) \div 8,
           NEW buffer \in [1 .. c -> Byte],
           NEW size \in 0 .. 8 * c, NEW bits \in [1 .. size -> BOOLEAN]
    PROVE  /\ Len(BitsWritten(bits, buffer)) = c
           /\ \A k \in 1 .. 8 * NumBlocks(bits) :
                /\ Bit(BitsWritten(bits, buffer), k) = (k <= size /\ bits[k])
                /\ k <= nelem =>
                        BitsRead(BitsWritten(bits, buffer), nelem)[k] = (k <= size /\ bits[k])
           /\ size = nelem => BitsRead(BitsWritten(bits, buffer), nelem) = bits
<1> DEFINE bytes == BitsWritten(bits, buffer)
           back == BitsRead(bytes, nelem)
           b == (size + 7) \div 8
           D == 1 .. nelem
<1>1. nelem <= 8 * c /\ b \in Nat /\ b <= c /\ size \in Nat /\ size <= 8 * b
  OBVIOUS
<1>2. bytes \in [1 .. c -> Byte]
  BY <1>1, BitsWrittenProperties
<1>3. \A k \in 1 .. 8 * b : Bit(bytes, k) = (k <= size /\ bits[k])
  BY <1>1, BitsWrittenProperties
<1>4. NumBlocks(bits) = b
  BY <1>1, BlockBits
<1> HIDE DEF bytes, b
<1>5. Len(bytes) = c
  BY <1>2, FunctionIsSeq
<1>6. back \in [1 .. nelem -> BOOLEAN] /\ \A k \in 1 .. nelem : back[k] = Bit(bytes, k)
  BY <1>1, <1>2, BitsReadProperties
<1> HIDE DEF back
<1>7. \A k \in 1 .. 8 * b : k <= nelem => back[k] = (k <= size /\ bits[k])
  <2> SUFFICES ASSUME NEW k \in 1 .. 8 * b, k <= nelem PROVE back[k] = (k <= size /\ bits[k])
    OBVIOUS
  <2>1. k \in 1 .. nelem
    BY <1>1
  <2> QED
    BY <1>3, <1>6, <2>1
<1>8. ASSUME size = nelem
      PROVE  back = bits
  <2>1. ASSUME NEW k \in D
        PROVE  back[k] = bits[k]
    <3>1. k \in 1 .. 8 * b /\ k <= nelem /\ k <= size /\ bits[k] \in BOOLEAN
      BY <1>1, <1>8
    <3> QED
      BY <1>7, <3>1
  <2>2. back \in [D -> BOOLEAN] /\ bits \in [D -> BOOLEAN]
    BY <1>6, <1>8
  <2> HIDE DEF D
  <2> QED
    BY <2>1, <2>2, SameFunction
<1> QED
  BY <1>3, <1>4, <1>5, <1>7, <1>8 DEF back, bytes

\* Bits keep their places, as far as the client's BitSet has a block for them,
\* and those another program leaves after them do not show.
THEOREM BitsKeepTheirPlaces ==
    ASSUME LargeInt
    PROVE  Spec => []BitsAreLeftJustified
<1>1. ASSUME IInv, NEW n \in CellsOf("Bit"), NEW nelem, nelem = Nelem(CellExtent(cols[n]))
      PROVE  /\ nelem \in Nat
             /\ StorageBytes(cols[n]) = (nelem + 7) \div 8
             /\ CellBytes(cols[n]) = (nelem + 7) \div 8
  <2> DEFINE col == cols[n]
  <2>1. col.type = "Bit" /\ Sound(col) /\ Filled(col)
    BY <1>1, CellsAreSound
  <2> HIDE DEF col
  <2>2. CellExtent(col) \in CountedShape /\ Product(CellExtent(col)) = col.repeat
    BY <2>1, CellExtentSound
  <2>3. nelem = col.repeat /\ nelem \in Nat
    BY <1>1, <2>2, NelemIsProduct, HalfType DEF CountedShape, IntCounts, col
  <2>4. StorageBytes(col) = (nelem + 7) \div 8
    BY <2>1, <2>3 DEF StorageBytes
  <2>5. CellBytes(col) = StorageBytes(col)
    BY <2>1, CellBytesAreStored
  <2> QED
    BY <2>3, <2>4, <2>5 DEF col
<1>2. ASSUME NEW size \in Nat, NEW bits \in BitPatterns(size)
      PROVE  bits \in [1 .. size -> BOOLEAN]
  BY DEF BitPatterns
<1>3. ASSUME NEW c \in Nat, NEW buffer \in Buffers(c)
      PROVE  buffer \in [1 .. c -> Byte] /\ \E set \in BOOLEAN : \A k \in 1 .. 8 * c : Bit(buffer, k) = set
  <2>1. PICK set \in BOOLEAN : buffer = [m \in 1 .. c |-> [k \in 1 .. 8 |-> set]]
    BY DEF Buffers
  <2>2. buffer \in [1 .. c -> Byte]
    BY <2>1 DEF Byte
  <2>3. ASSUME NEW k \in 1 .. 8 * c
        PROVE  Bit(buffer, k) = set
    <3>1. ((k - 1) \div 8) + 1 \in 1 .. c /\ ((k - 1) % 8) + 1 \in 1 .. 8
      BY BitPlace
    <3> QED
      BY <2>1, <3>1 DEF Bit
  <2> QED
    BY <2>2, <2>3
<1>4. IInv => BitsAreLeftJustified
  <2> SUFFICES ASSUME IInv, NEW n \in CellsOf("Bit"), NEW buffer \in Buffers(CellBytes(cols[n]))
               PROVE  LET nelem == Nelem(CellExtent(cols[n]))
                          nbytes == CellBytes(cols[n])
                      IN  /\ \A size \in 0 .. 8 * nbytes : \A bits \in BitPatterns(size) :
                                LET bytes == BitsWritten(bits, buffer)
                                    back == BitsRead(bytes, nelem)
                                IN  /\ Len(bytes) = StorageBytes(cols[n])
                                    /\ \A k \in 1 .. 8 * NumBlocks(bits) :
                                            /\ Bit(bytes, k) = (k <= size /\ bits[k])
                                            /\ k <= nelem => back[k] = (k <= size /\ bits[k])
                                    /\ size = nelem => back = bits
                          /\ LET back == BitsRead(buffer, nelem)
                             IN  /\ Len(back) = nelem
                                 /\ \A k \in 1 .. nelem : back[k] = buffer[1][1]
    BY DEF BitsAreLeftJustified, Bit
  <2> DEFINE nelem == Nelem(CellExtent(cols[n]))
             nbytes == CellBytes(cols[n])
  <2>1. /\ nelem \in Nat
        /\ nbytes \in Nat
        /\ StorageBytes(cols[n]) = nbytes
        /\ nbytes = (nelem + 7) \div 8
    <3>1. nelem \in Nat /\ StorageBytes(cols[n]) = nbytes /\ nbytes = (nelem + 7) \div 8
      BY <1>1
    <3> HIDE DEF nelem, nbytes
    <3> QED
      BY <3>1
  <2> HIDE DEF nelem, nbytes
  <2>2. /\ buffer \in [1 .. nbytes -> Byte]
        /\ \E set \in BOOLEAN : \A k \in 1 .. 8 * nbytes : Bit(buffer, k) = set
    BY <1>3, <2>1 DEF nbytes
  <2>3. ASSUME NEW size \in 0 .. 8 * nbytes, NEW bits \in BitPatterns(size)
        PROVE  /\ Len(BitsWritten(bits, buffer)) = nbytes
               /\ \A k \in 1 .. 8 * NumBlocks(bits) :
                    /\ Bit(BitsWritten(bits, buffer), k) = (k <= size /\ bits[k])
                    /\ k <= nelem =>
                            BitsRead(BitsWritten(bits, buffer), nelem)[k] = (k <= size /\ bits[k])
               /\ size = nelem => BitsRead(BitsWritten(bits, buffer), nelem) = bits
    <3>1. size \in Nat
      BY <2>1
    <3>2. bits \in [1 .. size -> BOOLEAN]
      BY <1>2, <3>1
    <3> QED
      BY <2>1, <2>2, <3>2, BitsJustified
  <2>4. Len(BitsRead(buffer, nelem)) = nelem
        /\ \A k \in 1 .. nelem : BitsRead(buffer, nelem)[k] = buffer[1][1]
    <3> DEFINE back == BitsRead(buffer, nelem)
    <3>1. nelem <= 8 * nbytes
      BY <2>1
    <3>2. back \in [1 .. nelem -> BOOLEAN] /\ \A k \in 1 .. nelem : back[k] = Bit(buffer, k)
      BY <2>1, <2>2, <3>1, BitsReadProperties
    <3> HIDE DEF back
    <3>3. Len(back) = nelem
      BY <2>1, <3>2, FunctionIsSeq
    <3>4. ASSUME NEW k \in 1 .. nelem
          PROVE  back[k] = buffer[1][1]
      <4>1. k \in 1 .. 8 * nbytes /\ 1 \in 1 .. 8 * nbytes
        BY <2>1, <3>1
      <4>2. Bit(buffer, k) = Bit(buffer, 1)
        BY <2>2, <4>1
      <4>3. Bit(buffer, 1) = buffer[1][1]
        <5>1. (1 - 1) \div 8 = 0 /\ (1 - 1) % 8 = 0
          OBVIOUS
        <5>2. ((1 - 1) \div 8) + 1 = 1 /\ ((1 - 1) % 8) + 1 = 1
          BY <5>1
        <5> QED
          BY <5>2 DEF Bit
      <4> QED
        BY <3>2, <4>2, <4>3
    <3> QED
      BY <3>3, <3>4 DEF back
  <2> QED
    BY <2>1, <2>3, <2>4 DEF nelem, nbytes
<1> QED
  BY <1>4, InvHolds, PTL

-----------------------------------------------------------------------------
(***************************************************************************)
(* Strings                                                                 *)
(***************************************************************************)
\* The characters of the strings are neither blanks nor NULs.  (They are pairs,
\* and neither of those strings is of length 2, but the provers do not know.)
PlainCharacters == \A m, k \in Nat : <<m, k>> \notin {Blank, Nul}

Plain(s) == \A k \in 1 .. Len(s) : s[k] # Nul

LEMMA DivMod ==
    ASSUME NEW w \in Nat \ {0}, NEW a \in Nat, NEW b \in 0 .. w - 1
    PROVE  (a * w + b) \div w = a /\ (a * w + b) % w = b
<1> DEFINE x == a * w + b
           q == x \div w
<1>1. x \in Nat /\ x = a * w + b
  OBVIOUS
<1> HIDE DEF x
<1>2. q \in Int /\ w * q <= x /\ x < w * (q + 1) /\ x % w = x - w * q
  BY <1>1
<1> HIDE DEF q
<1>3. q = a
  <2>1. CASE q < a
    <3>1. w * (q + 1) <= w * a
      BY <1>2, <2>1
    <3> QED
      BY <1>1, <1>2, <3>1
  <2>2. CASE q > a
    <3>1. w * q >= w * (a + 1)
      BY <1>2, <2>2
    <3> QED
      BY <1>1, <1>2, <3>1
  <2> QED
    BY <1>2, <2>1, <2>2
<1> QED
  BY <1>1, <1>2, <1>3 DEF q, x

\* Places of width w, one after the other: the j-th character of the m-th, and
\* what a character belongs to.
CharAt(w, m, j) == (m - 1) * w + j

PlaceOfChar(w, k) == ((k - 1) \div w) + 1

InItsPlace(w, k) == ((k - 1) % w) + 1

LEMMA Places ==
    ASSUME NEW w \in Nat \ {0}, NEW count \in Nat, NEW m \in 1 .. count, NEW j \in 1 .. w
    PROVE  /\ CharAt(w, m, j) \in 1 .. count * w
           /\ PlaceOfChar(w, CharAt(w, m, j)) = m
           /\ InItsPlace(w, CharAt(w, m, j)) = j
<1> DEFINE k == (m - 1) * w + j
<1>1. m - 1 \in Nat /\ j - 1 \in 0 .. w - 1 /\ k - 1 = (m - 1) * w + (j - 1)
  OBVIOUS
<1>2. (k - 1) \div w = m - 1 /\ (k - 1) % w = j - 1
  BY <1>1, DivMod
<1>3. m * w <= count * w /\ (m - 1) * w = m * w - w /\ (m - 1) * w >= 0
  OBVIOUS
<1>4. k \in 1 .. count * w
  BY <1>1, <1>3
<1> QED
  BY <1>1, <1>2, <1>4 DEF CharAt, PlaceOfChar, InItsPlace

LEMMA SubSeqOf ==
    ASSUME NEW S, NEW s \in Seq(S), NEW a \in Nat, NEW b \in Nat, a + b <= Len(s)
    PROVE  /\ SubSeq(s, a + 1, a + b) \in Seq(S)
           /\ Len(SubSeq(s, a + 1, a + b)) = b
           /\ \A j \in 1 .. b : SubSeq(s, a + 1, a + b)[j] = s[a + j]
<1> DEFINE from == a + 1
           to == a + b
           t == SubSeq(s, from, to)
<1>1. Len(s) \in Nat /\ \A i \in 1 .. Len(s) : s[i] \in S
  BY ElementOfSeq, LenProperties
<1>2. from \in Nat \ {0} /\ to \in Nat /\ to <= Len(s) /\ from <= to + 1
  OBVIOUS
<1>3. \A i \in from .. to : s[i] \in S
  BY <1>1, <1>2
<1> HIDE DEF from, to
<1>4. /\ t \in Seq(S)
      /\ Len(t) = IF from <= to THEN to - from + 1 ELSE 0
      /\ \A i \in 1 .. to - from + 1 : t[i] = s[from + i - 1]
  BY <1>2, <1>3, SubSeqProperties
<1> HIDE DEF t
<1>5. to - from + 1 = b
  BY DEF to, from
<1>6. Len(t) = b
  BY <1>2, <1>4, <1>5
<1>7. ASSUME NEW j \in 1 .. b
      PROVE  t[j] = s[a + j]
  <2>1. j \in 1 .. to - from + 1 /\ from + j - 1 = a + j
    BY <1>5 DEF from
  <2> QED
    BY <1>4, <2>1
<1> QED
  BY <1>4, <1>6, <1>7 DEF t, from, to

LEMMA SameSeq ==
    ASSUME NEW S, NEW s \in Seq(S), NEW t \in Seq(S), Len(s) = Len(t),
           \A i \in 1 .. Len(s) : s[i] = t[i]
    PROVE  s = t
<1> DEFINE D == 1 .. Len(s)
<1>1. s \in [D -> S] /\ t \in [D -> S]
  BY LenProperties
<1>2. \A d \in D : s[d] = t[d]
  OBVIOUS
<1> HIDE DEF D
<1> QED
  BY <1>1, <1>2, SameFunction

\* The first n elements.
LEMMA Prefix ==
    ASSUME NEW S, NEW s \in Seq(S), NEW n \in 0 .. Len(s)
    PROVE  /\ SubSeq(s, 1, n) \in Seq(S)
           /\ Len(SubSeq(s, 1, n)) = n
           /\ \A j \in 1 .. n : SubSeq(s, 1, n)[j] = s[j]
<1>1. Len(s) \in Nat /\ \A k \in 1 .. Len(s) : s[k] \in S
  BY ElementOfSeq, LenProperties
<1>2. \A k \in 1 .. n : s[k] \in S
  BY <1>1
<1> QED
  BY <1>1, <1>2, SubSeqProperties

LEMMA PlainIsWhole ==
    ASSUME NEW S, NEW s \in Seq(S), Plain(s)
    PROVE  UpToNul(s) = s
<1>1. DOMAIN s = 1 .. Len(s)
  BY LenProperties
<1> QED
  BY <1>1 DEF UpToNul, Plain

\* The first characters.
LEMMA FirstCharsOf ==
    ASSUME NEW S, NEW s \in Seq(S), NEW width \in Nat
    PROVE  LET n == IF Len(s) < width THEN Len(s) ELSE width
           IN  /\ FirstChars(s, width) \in Seq(S)
               /\ Len(FirstChars(s, width)) = n
               /\ \A j \in 1 .. n : FirstChars(s, width)[j] = s[j]
<1> DEFINE n == IF Len(s) < width THEN Len(s) ELSE width
<1>1. n \in Nat /\ n <= Len(s)
  BY LenProperties
<1>2. FirstChars(s, width) = SubSeq(s, 1, n)
  BY DEF FirstChars
<1> HIDE DEF n
<1>3. n \in 0 .. Len(s)
  BY <1>1, LenProperties
<1>4. /\ SubSeq(s, 1, n) \in Seq(S)
      /\ Len(SubSeq(s, 1, n)) = n
      /\ \A j \in 1 .. n : SubSeq(s, 1, n)[j] = s[j]
  BY <1>3, Prefix
<1> QED
  BY <1>2, <1>4 DEF n

\* What another call is given of a string is read up to its end.
LEMMA PieceProperties ==
    ASSUME NEW S, {Nul, Blank} \subseteq S, NEW s \in Seq(S), NEW width \in Nat
    PROVE  LET n == IF Len(s) < width THEN Len(s) ELSE width
           IN  /\ Piece(s, width) \in Seq(S)
               /\ Len(Piece(s, width)) = width
               /\ \A j \in 1 .. n : Piece(s, width)[j] = s[j]
               /\ Len(s) < width => Piece(s, width)[Len(s) + 1] = Nul
<1> DEFINE p == Piece(s, width)
           D == 1 .. width
<1>1. /\ Len(s) \in Nat /\ DOMAIN s = 1 .. Len(s)
      /\ \A k \in DOMAIN s : s[k] \in S
  BY LenProperties, ElementOfSeq
<1>2. \A k \in D : p[k] = CASE k \in DOMAIN s -> s[k]
                            [] k = Len(s) + 1 -> Nul
                            [] OTHER -> Blank
  BY DEF Piece
<1>3. \A k \in D : p[k] \in S
  <2> HIDE DEF p
  <2> QED
    BY <1>1, <1>2
<1>4. p \in [1 .. width -> S]
  <2>1. p = [k \in D |-> p[k]]
    BY DEF Piece
  <2> HIDE DEF p
  <2> QED
    BY <1>3, <2>1
<1>5. p \in Seq(S) /\ Len(p) = width
  BY <1>4, FunctionIsSeq
<1> HIDE DEF p
<1>6. \A j \in D : j <= Len(s) => p[j] = s[j]
  BY <1>1, <1>2
<1>7. Len(s) < width => p[Len(s) + 1] = Nul
  <2>1. Len(s) + 1 \notin DOMAIN s
    BY <1>1
  <2>2. Len(s) < width => Len(s) + 1 \in D
    BY <1>1
  <2> QED
    BY <1>2, <2>1, <2>2
<1> QED
  BY <1>1, <1>5, <1>6, <1>7 DEF p

\* A string with a NUL after so many plain characters ends there.
LEMMA UpToNulOf ==
    ASSUME NEW S, NEW s \in Seq(S), NEW n \in Nat, n < Len(s), s[n + 1] = Nul,
           \A k \in 1 .. n : s[k] # Nul
    PROVE  UpToNul(s) = SubSeq(s, 1, n)
<1> DEFINE First(k) == s[k] = Nul /\ Nul \notin {s[j] : j \in 1 .. k - 1}
           at == CHOOSE k \in DOMAIN s : First(k)
<1>1. Len(s) \in Nat /\ DOMAIN s = 1 .. Len(s) /\ n + 1 \in DOMAIN s
  BY LenProperties
<1>2. First(n + 1)
  OBVIOUS
<1>3. ASSUME NEW k \in DOMAIN s, First(k)
      PROVE  k = n + 1
  <2>1. k \in Nat /\ ~ (k < n + 1)
    BY <1>1, <1>3
  <2>2. ~ (n + 1 < k)
    <3>1. ASSUME n + 1 < k
          PROVE  FALSE
      <4>1. n + 1 \in 1 .. k - 1
        BY <2>1, <3>1
      <4> QED
        BY <1>3, <4>1
    <3> QED
      BY <3>1
  <2> QED
    BY <2>1, <2>2
<1>4. at = n + 1
  <2> HIDE DEF First
  <2> QED
    BY <1>1, <1>2, <1>3
<1>5. UpToNul(s) = SubSeq(s, 1, at - 1)
  BY <1>1 DEF UpToNul
<1> HIDE DEF at
<1>6. at - 1 = n
  BY <1>4
<1> QED
  BY <1>5, <1>6

\* A string which is put into its place comes back as far as there is room.
LEMMA PieceReadsBack ==
    ASSUME NEW S, {Nul, Blank} \subseteq S, NEW s \in Seq(S), Plain(s), NEW width \in Nat
    PROVE  UpToNul(Piece(s, width)) = FirstChars(s, width)
<1> DEFINE p == Piece(s, width)
           n == IF Len(s) < width THEN Len(s) ELSE width
           first == FirstChars(s, width)
           read == UpToNul(p)
<1>1. /\ p \in Seq(S) /\ Len(p) = width
      /\ \A j \in 1 .. n : p[j] = s[j]
      /\ Len(s) < width => p[Len(s) + 1] = Nul
  BY PieceProperties
<1>2. first \in Seq(S) /\ Len(first) = n /\ \A j \in 1 .. n : first[j] = s[j]
  BY FirstCharsOf
<1>3. Len(s) \in Nat /\ n \in Nat /\ n <= Len(s) /\ n <= width
  BY LenProperties
<1>4. \A j \in 1 .. n : p[j] # Nul
  BY <1>1, <1>3 DEF Plain
<1> HIDE DEF p, first
<1>5. read = SubSeq(p, 1, n)
  <2>1. CASE Len(s) < width
    <3>1. n = Len(s) /\ n < Len(p) /\ p[n + 1] = Nul
      BY <1>1, <2>1
    <3> HIDE DEF n
    <3> QED
      BY <1>1, <1>3, <1>4, <3>1, UpToNulOf
  <2>2. CASE ~ (Len(s) < width)
    <3>1. n = width /\ Plain(p)
      BY <1>1, <1>4, <2>2 DEF Plain
    <3>2. read = p
      BY <1>1, <3>1, PlainIsWhole
    <3>3. SubSeq(p, 1, Len(p)) = p
      <4> DEFINE t == SubSeq(p, 1, Len(p))
      <4>0. Len(p) + 1 \in 1 .. Len(p) + 1 /\ Len(p) + 1 - 1 = Len(p)
        BY <1>1
      <4>1. t \in Seq(S) /\ Len(t) = Len(p) /\ \A j \in 1 .. Len(p) : t[j] = p[j]
        BY <1>1, <4>0, ColumnsBefore
      <4> HIDE DEF t
      <4>2. p \in Seq(S) /\ Len(p) = Len(t)
        BY <1>1, <4>1
      <4>3. \A i \in 1 .. Len(t) : t[i] = p[i]
        BY <4>1
      <4>4. t = p
        BY <4>1, <4>2, <4>3, SameSeq
      <4> QED
        BY <4>4 DEF t
    <3> QED
      BY <1>1, <3>1, <3>2, <3>3
  <2> QED
    BY <2>1, <2>2
<1>6. read \in Seq(S) /\ Len(read) = n /\ \A j \in 1 .. n : read[j] = p[j]
  <2>1. n \in 0 .. Len(p) /\ p \in Seq(S)
    BY <1>1, <1>3
  <2> HIDE DEF n, read
  <2>2. /\ SubSeq(p, 1, n) \in Seq(S)
        /\ Len(SubSeq(p, 1, n)) = n
        /\ \A j \in 1 .. n : SubSeq(p, 1, n)[j] = p[j]
    BY <2>1, Prefix
  <2> QED
    BY <1>5, <2>2
<1> HIDE DEF n, read
<1>7. read = first
  BY <1>1, <1>2, <1>6, SameSeq
<1> QED
  BY <1>7 DEF read, first, p

\* The m-th of places of the same width.
Room(count, w) == count * w

Cut(chars, w, m) == SubSeq(chars, (m - 1) * w + 1, m * w)

LEMMA CutProperties ==
    ASSUME NEW S, NEW width \in Nat \ {0}, NEW count \in Nat, NEW m \in 1 .. count,
           NEW chars \in Seq(S), Len(chars) = Room(count, width)
    PROVE  /\ Cut(chars, width, m) \in Seq(S)
           /\ Len(Cut(chars, width, m)) = width
           /\ \A j \in 1 .. width : Cut(chars, width, m)[j] = chars[CharAt(width, m, j)]
<1> DEFINE a == (m - 1) * width
           b == m * width
<1>1. a \in Nat /\ b = a + width /\ b \in Nat
  <2>1. m - 1 \in Nat /\ m \in Nat
    OBVIOUS
  <2> QED
    BY <2>1
<1>2. b <= count * width /\ count * width \in Nat
  OBVIOUS
<1> HIDE DEF a, b
<1>3. a + width <= Len(chars)
  BY <1>1, <1>2 DEF Room
<1>4. /\ SubSeq(chars, a + 1, a + width) \in Seq(S)
      /\ Len(SubSeq(chars, a + 1, a + width)) = width
      /\ \A j \in 1 .. width : SubSeq(chars, a + 1, a + width)[j] = chars[a + j]
  BY <1>1, <1>3, SubSeqOf
<1>5. SubSeq(chars, a + 1, b) = SubSeq(chars, a + 1, a + width)
  BY <1>1
<1>6. /\ SubSeq(chars, a + 1, b) \in Seq(S)
      /\ Len(SubSeq(chars, a + 1, b)) = width
      /\ \A j \in 1 .. width : SubSeq(chars, a + 1, b)[j] = chars[a + j]
  BY <1>4, <1>5
<1> QED
  BY <1>6 DEF a, b, Cut, CharAt

\* The characters of the strings which are written and read.
Chars == (Nat \X Nat) \cup {Nul, Blank}

\* A vector of strings without NULs.
Vector(ss, count) ==
    /\ DOMAIN ss = 1 .. count
    /\ \A m \in 1 .. count : ss[m] \in Seq(Chars) /\ Plain(ss[m])

LEMMA StringsInTheirPlaces ==
    ASSUME NEW width \in Nat \ {0}, NEW count \in Nat, NEW ss, Vector(ss, count),
           NEW m \in 1 .. count
    PROVE  Cut(StringsWritten(ss, width, Room(count, width)), width, m) = Piece(ss[m], width)
<1> DEFINE nbytes == Room(count, width)
           chars == StringsWritten(ss, width, nbytes)
           D == 1 .. nbytes
<1>1. nbytes \in Nat
  BY DEF Room
<1>2. /\ chars = [k \in D |-> chars[k]]
      /\ \A k \in D : chars[k] = IF PlaceOfChar(width, k) \in 1 .. count
                             THEN Piece(ss[PlaceOfChar(width, k)], width)[InItsPlace(width, k)]
                             ELSE Blank
  BY DEF StringsWritten, Vector, PlaceOfChar, InItsPlace
<1>3. \A i \in 1 .. count : /\ Piece(ss[i], width) \in Seq(Chars)
                            /\ Len(Piece(ss[i], width)) = width
  <2>1. {Nul, Blank} \subseteq Chars /\ width \in Nat
    BY DEF Chars
  <2>2. \A i \in 1 .. count : ss[i] \in Seq(Chars)
    BY DEF Vector
  <2> QED
    BY <2>1, <2>2, PieceProperties
<1>4. \A k \in D : InItsPlace(width, k) \in 1 .. width
  BY DEF InItsPlace
<1>5. chars \in Seq(Chars) /\ Len(chars) = nbytes
  <2>1. \A k \in D : chars[k] \in Chars
    <3>1. Blank \in Chars
      BY DEF Chars
    <3> HIDE DEF chars, D
    <3> QED
      BY <1>2, <1>3, <1>4, <3>1, ElementOfSeq
  <2> HIDE DEF chars
  <2>2. chars \in [1 .. nbytes -> Chars]
    BY <1>2, <2>1
  <2> HIDE DEF nbytes
  <2> QED
    BY <1>1, <2>2, FunctionIsSeq
<1> DEFINE place == Cut(chars, width, m)
           p == Piece(ss[m], width)
<1>6. /\ place \in Seq(Chars) /\ Len(place) = width
      /\ \A j \in 1 .. width : place[j] = chars[CharAt(width, m, j)]
  <2> HIDE DEF chars
  <2>1. chars \in Seq(Chars) /\ Len(chars) = Room(count, width)
    BY <1>5
  <2> HIDE DEF nbytes
  <2> QED
    BY <2>1, CutProperties
<1>7. ASSUME NEW j \in 1 .. width
      PROVE  chars[CharAt(width, m, j)] = p[j]
  <2> DEFINE k == CharAt(width, m, j)
  <2>1. k \in D /\ PlaceOfChar(width, k) = m /\ InItsPlace(width, k) = j
    <3>1. /\ k \in 1 .. count * width
          /\ PlaceOfChar(width, k) = m /\ InItsPlace(width, k) = j
      BY Places
    <3>2. D = 1 .. count * width
      BY DEF Room
    <3> HIDE DEF k, D
    <3> QED
      BY <3>1, <3>2
  <2>2. PlaceOfChar(width, k) \in 1 .. count
    BY <2>1
  <2> HIDE DEF chars, k, D, p
  <2>3. chars[k] = Piece(ss[m], width)[j]
    BY <1>2, <2>1, <2>2
  <2> QED
    BY <2>3 DEF k, p
<1>8. p \in Seq(Chars) /\ Len(p) = width
  BY <1>3
<1> HIDE DEF place, p, chars
<1>9. \A j \in 1 .. Len(place) : place[j] = p[j]
  BY <1>6, <1>7
<1>10. place = p
  BY <1>6, <1>8, <1>9, SameSeq
<1> QED
  BY <1>10 DEF place, p, chars

LEMMA StringsComeBack ==
    ASSUME NEW width \in Nat \ {0}, NEW count \in Nat, NEW ss, Vector(ss, count)
    PROVE  StringsRead(StringsWritten(ss, width, Room(count, width)), width, Room(count, width))
                = [m \in DOMAIN ss |-> FirstChars(ss[m], width)]
<1> DEFINE chars == StringsWritten(ss, width, Room(count, width))
<1>1. Room(count, width) \div width = count
  <2>1. 0 \in 0 .. width - 1
    OBVIOUS
  <2>2. (count * width + 0) \div width = count
    BY <2>1, DivMod
  <2> QED
    BY <2>2 DEF Room
<1>2. ASSUME NEW m \in 1 .. count
      PROVE  UpToNul(Cut(chars, width, m)) = FirstChars(ss[m], width)
  <2>1. Cut(chars, width, m) = Piece(ss[m], width)
    BY StringsInTheirPlaces
  <2>2. ss[m] \in Seq(Chars) /\ Plain(ss[m]) /\ width \in Nat
    BY DEF Vector
  <2>3. UpToNul(Piece(ss[m], width)) = FirstChars(ss[m], width)
    <3>1. {Nul, Blank} \subseteq Chars
      BY DEF Chars
    <3> QED
      BY <2>2, <3>1, PieceReadsBack
  <2> QED
    BY <2>1, <2>3
<1> HIDE DEF chars
<1>3. StringsRead(chars, width, Room(count, width))
        = [m \in 1 .. count |-> UpToNul(Cut(chars, width, m))]
  BY <1>1 DEF StringsRead, Cut
<1> QED
  BY <1>2, <1>3 DEF chars, Vector

\* A single string has blanks after it.
LEMMA WholeProperties ==
    ASSUME NEW s \in Seq(Chars), Plain(s), NEW nbytes \in Nat
    PROVE  /\ StringWritten(s, nbytes) \in Seq(Chars)
           /\ Len(StringWritten(s, nbytes)) = nbytes
           /\ Plain(StringWritten(s, nbytes))
           /\ \A j \in 1 .. nbytes : j <= Len(s) => StringWritten(s, nbytes)[j] = s[j]
<1> DEFINE w == StringWritten(s, nbytes)
           D == 1 .. nbytes
<1>1. /\ Len(s) \in Nat /\ DOMAIN s = 1 .. Len(s)
      /\ \A k \in DOMAIN s : s[k] \in Chars /\ s[k] # Nul
  BY LenProperties, ElementOfSeq DEF Plain
<1>2. w = [k \in D |-> w[k]] /\ \A k \in D : w[k] = IF k \in DOMAIN s THEN s[k] ELSE Blank
  BY DEF StringWritten
<1>3. Blank \in Chars /\ Blank # Nul
  BY DEF Chars, Blank, Nul
<1> HIDE DEF w
<1>4. \A k \in D : w[k] \in Chars /\ w[k] # Nul
  BY <1>1, <1>2, <1>3
<1>5. w \in [1 .. nbytes -> Chars]
  BY <1>2, <1>4
<1>6. w \in Seq(Chars) /\ Len(w) = nbytes
  BY <1>5, FunctionIsSeq
<1> QED
  BY <1>1, <1>2, <1>4, <1>6 DEF Plain, w

\* It comes back as far as there is room.
LEMMA WholeComesBack ==
    ASSUME NEW s \in Seq(Chars), Plain(s), NEW nbytes \in Nat
    PROVE  /\ StringRead(StringWritten(s, nbytes)) = StringWritten(s, nbytes)
           /\ FirstChars(StringWritten(s, nbytes), Len(s)) = FirstChars(s, nbytes)
<1> DEFINE w == StringWritten(s, nbytes)
           a == FirstChars(w, Len(s))
           b == FirstChars(s, nbytes)
           n == IF Len(s) < nbytes THEN Len(s) ELSE nbytes
<1>1. /\ w \in Seq(Chars) /\ Len(w) = nbytes /\ Plain(w)
      /\ \A j \in 1 .. nbytes : j <= Len(s) => w[j] = s[j]
  BY WholeProperties
<1>2. Len(s) \in Nat
  BY LenProperties
<1> HIDE DEF w
<1>3. StringRead(w) = w
  BY <1>1, PlainIsWhole DEF StringRead
<1>4. b \in Seq(Chars) /\ Len(b) = n /\ \A j \in 1 .. n : b[j] = s[j]
  BY FirstCharsOf
<1>5. a \in Seq(Chars) /\ Len(a) = n /\ \A j \in 1 .. n : a[j] = w[j]
  <2>1. w \in Seq(Chars) /\ Len(s) \in Nat
    BY <1>1, <1>2
  <2>2. n = IF Len(w) < Len(s) THEN Len(w) ELSE Len(s)
    BY <1>1, <1>2
  <2> QED
    BY <2>1, <2>2, FirstCharsOf
<1>6. n \in Nat /\ n <= nbytes /\ n <= Len(s)
  BY <1>2
<1> HIDE DEF a, b, n
<1>7. \A j \in 1 .. Len(a) : a[j] = b[j]
  BY <1>1, <1>4, <1>5, <1>6
<1>8. a = b
  BY <1>4, <1>5, <1>7, SameSeq
<1> QED
  BY <1>3, <1>8 DEF a, b, w

\* The pieces of it, one after the other.
JoinOp(ctx, s, piece) == s \o piece

Joins == INSTANCE FoldTheory WITH Op <- JoinOp

LEMMA JoinIsFold ==
    ASSUME NEW pieces
    PROVE  FoldLeft(LAMBDA s, piece : s \o piece, <<>>, pieces) = Joins!Fold(0, <<>>, pieces)
BY DEF JoinOp, Joins!Fold, Joins!FoldLeft, FoldLeft,
       Joins!MapThenFoldSet, MapThenFoldSet, Joins!Max, Max

\* The first k places.
Start(chars, w, k) == SubSeq(chars, 1, k * w)

LEMMA StartProperties ==
    ASSUME NEW width \in Nat \ {0}, NEW count \in Nat, NEW k \in 0 .. count,
           NEW chars \in Seq(Chars), Len(chars) = Room(count, width)
    PROVE  /\ Start(chars, width, k) \in Seq(Chars)
           /\ Len(Start(chars, width, k)) = k * width
           /\ \A j \in 1 .. k * width : Start(chars, width, k)[j] = chars[j]
<1> DEFINE n == k * width
<1>1. n \in Nat /\ n <= count * width
  OBVIOUS
<1> HIDE DEF n
<1>2. n \in 0 .. Len(chars)
  BY <1>1 DEF Room
<1> QED
  BY <1>2, Prefix DEF n, Start

LEMMA OneMorePlace ==
    ASSUME NEW width \in Nat \ {0}, NEW count \in Nat, NEW k \in 1 .. count,
           NEW chars \in Seq(Chars), Len(chars) = Room(count, width)
    PROVE  Start(chars, width, k - 1) \o Cut(chars, width, k) = Start(chars, width, k)
<1> DEFINE a == Start(chars, width, k - 1)
           b == Cut(chars, width, k)
           c == Start(chars, width, k)
           m == (k - 1) * width
           whole == a \o b
<1>1. m \in Nat /\ k * width = m + width /\ k - 1 \in 0 .. count /\ k \in 0 .. count
  <2>1. k - 1 \in Nat
    OBVIOUS
  <2> QED
    BY <2>1
<1>2. a \in Seq(Chars) /\ Len(a) = m /\ \A j \in 1 .. m : a[j] = chars[j]
  BY <1>1, StartProperties
<1>3. b \in Seq(Chars) /\ Len(b) = width /\ \A j \in 1 .. width : b[j] = chars[m + j]
  <2>1. /\ b \in Seq(Chars) /\ Len(b) = width
        /\ \A j \in 1 .. width : b[j] = chars[CharAt(width, k, j)]
    BY CutProperties
  <2>2. \A j \in 1 .. width : CharAt(width, k, j) = m + j
    BY DEF CharAt
  <2> HIDE DEF b, m
  <2> QED
    BY <2>1, <2>2
<1>4. c \in Seq(Chars) /\ Len(c) = m + width /\ \A j \in 1 .. m + width : c[j] = chars[j]
  <2>1. /\ c \in Seq(Chars) /\ Len(c) = k * width
        /\ \A j \in 1 .. k * width : c[j] = chars[j]
    BY <1>1, StartProperties
  <2>2. k * width = m + width
    BY <1>1
  <2> DEFINE kw == k * width
  <2> HIDE DEF c, m, kw
  <2>3. /\ c \in Seq(Chars) /\ Len(c) = kw
        /\ \A j \in 1 .. kw : c[j] = chars[j]
    BY <2>1 DEF kw
  <2>4. kw = m + width
    BY <2>2 DEF kw
  <2> QED
    BY <2>3, <2>4
<1> HIDE DEF a, b, c, m
<1>5. /\ whole \in Seq(Chars) /\ Len(whole) = m + width
      /\ \A j \in 1 .. m + width : whole[j] = IF j <= m THEN a[j] ELSE b[j - m]
  <2>1. /\ whole \in Seq(Chars) /\ Len(whole) = Len(a) + Len(b)
        /\ \A j \in 1 .. Len(a) + Len(b) : whole[j] = IF j <= Len(a) THEN a[j] ELSE b[j - Len(a)]
    <3>1. a \in Seq(Chars) /\ b \in Seq(Chars)
      BY <1>2, <1>3
    <3> QED
      BY <3>1, ConcatProperties
  <2> HIDE DEF whole
  <2> QED
    BY <1>2, <1>3, <2>1
<1> HIDE DEF whole
<1>6. ASSUME NEW j \in 1 .. Len(whole)
      PROVE  whole[j] = c[j]
  <2>1. CASE j <= m
    BY <1>1, <1>2, <1>4, <1>5, <2>1
  <2>2. CASE ~ (j <= m)
    <3>1. j - m \in 1 .. width /\ m + (j - m) = j /\ j \in 1 .. m + width
      BY <1>1, <1>5, <2>2
    <3>2. whole[j] = b[j - m] /\ b[j - m] = chars[m + (j - m)] /\ c[j] = chars[j]
      BY <1>3, <1>4, <1>5, <2>2, <3>1
    <3> QED
      BY <3>1, <3>2
  <2> QED
    BY <2>1, <2>2
<1>7. whole = c
  BY <1>4, <1>5, <1>6, SameSeq
<1> QED
  BY <1>7 DEF whole, a, b, c

LEMMA PiecesJoin ==
    ASSUME NEW width \in Nat \ {0}, NEW count \in Nat,
           NEW chars \in Seq(Chars), Plain(chars), Len(chars) = Room(count, width)
    PROVE  FoldLeft(LAMBDA s, piece : s \o piece, <<>>,
                    StringsRead(chars, width, Room(count, width))) = chars
<1> DEFINE pieces == StringsRead(chars, width, Room(count, width))
           none == <<>>
<1>1. Room(count, width) \div width = count
  <2>1. 0 \in 0 .. width - 1
    OBVIOUS
  <2>2. (count * width + 0) \div width = count
    BY <2>1, DivMod
  <2> QED
    BY <2>2 DEF Room
<1>2. /\ pieces = [m \in 1 .. count |-> pieces[m]]
      /\ \A m \in 1 .. count : pieces[m] = UpToNul(Cut(chars, width, m))
  BY <1>1 DEF StringsRead, Cut
<1> HIDE DEF pieces
<1>3. ASSUME NEW m \in 1 .. count
      PROVE  pieces[m] = Cut(chars, width, m)
  <2> DEFINE cut == Cut(chars, width, m)
  <2>1. /\ cut \in Seq(Chars) /\ Len(cut) = width
        /\ \A j \in 1 .. width : cut[j] = chars[CharAt(width, m, j)]
    BY CutProperties
  <2>2. \A j \in 1 .. width : CharAt(width, m, j) \in 1 .. count * width
    BY Places
  <2> HIDE DEF cut
  <2>3. Plain(cut)
    BY <2>1, <2>2 DEF Plain, Room
  <2>4. UpToNul(cut) = cut
    BY <2>1, <2>3, PlainIsWhole
  <2> QED
    BY <1>2, <2>4 DEF cut
<1>4. pieces \in Seq(Seq(Chars)) /\ Len(pieces) = count
  <2>1. \A m \in 1 .. count : pieces[m] \in Seq(Chars)
    <3>1. \A m \in 1 .. count : Cut(chars, width, m) \in Seq(Chars)
      BY CutProperties
    <3> QED
      BY <1>3, <3>1
  <2>2. pieces \in [1 .. count -> Seq(Chars)]
    BY <1>2, <2>1
  <2> QED
    BY <2>2, FunctionIsSeq
<1>5. FoldLeft(LAMBDA s, piece : s \o piece, <<>>, pieces) = Joins!Fold(0, none, pieces)
  BY JoinIsFold
<1>6. none = Start(chars, width, 0)
  <2>1. /\ Start(chars, width, 0) \in Seq(Chars)
        /\ Len(Start(chars, width, 0)) = 0 * width
    <3>1. 0 \in 0 .. count
      OBVIOUS
    <3> QED
      BY <3>1, StartProperties
  <2> DEFINE start == Start(chars, width, 0)
  <2>2. start \in Seq(Chars) /\ Len(start) = 0
    BY <2>1
  <2> HIDE DEF start
  <2>3. start = <<>>
    BY <2>2, EmptySeq
  <2> QED
    BY <2>3 DEF start
<1> HIDE DEF none
<1>7. PICK r : /\ r[0] = none
               /\ \A k \in 1 .. Len(pieces) : r[k] = JoinOp(0, r[k - 1], pieces[k])
               /\ Joins!Fold(0, none, pieces) = r[Len(pieces)]
  <2>1. \A S : pieces \in Seq(S) =>
           \E q : /\ q[0] = none
                  /\ \A k \in 1 .. Len(pieces) : q[k] = JoinOp(0, q[k - 1], pieces[k])
                  /\ Joins!Fold(0, none, pieces) = q[Len(pieces)]
    BY Joins!FoldSteps
  <2>2. pieces \in Seq(Seq(Chars))
    BY <1>4
  <2> QED
    BY <2>1, <2>2
<1> DEFINE U == {k \in 0 .. count : r[k] = Start(chars, width, k)}
<1>8. 0 \in U
  BY <1>6, <1>7
<1>9. ASSUME NEW k \in 0 .. count - 1, k \in U
      PROVE  k + 1 \in U
  <2>1. k + 1 \in 1 .. count /\ k + 1 \in 0 .. count /\ (k + 1) - 1 = k
    OBVIOUS
  <2>2. r[k + 1] = r[k] \o Cut(chars, width, k + 1)
    BY <1>3, <1>4, <1>7, <2>1 DEF JoinOp
  <2> DEFINE i == k + 1
  <2>3. i \in 1 .. count /\ i - 1 = k
    BY <2>1
  <2> HIDE DEF i
  <2>4. Start(chars, width, i - 1) \o Cut(chars, width, i) = Start(chars, width, i)
    BY <2>3, OneMorePlace
  <2>5. r[i] = Start(chars, width, i)
    BY <1>9, <2>2, <2>3, <2>4 DEF i
  <2> QED
    BY <2>1, <2>5 DEF i
<1>10. \A k \in 0 .. count : k \in U
  <2> HIDE DEF U
  <2> QED
    BY <1>8, <1>9, Joins!UpTo
<1>11. r[count] = Start(chars, width, count)
  BY <1>10
<1>12. Start(chars, width, count) = chars
  <2> DEFINE start == Start(chars, width, count)
  <2>1. /\ start \in Seq(Chars) /\ Len(start) = count * width
        /\ \A j \in 1 .. count * width : start[j] = chars[j]
    <3>1. count \in 0 .. count
      OBVIOUS
    <3> QED
      BY <3>1, StartProperties
  <2> HIDE DEF start
  <2>2. Len(start) = Len(chars) /\ \A j \in 1 .. Len(start) : start[j] = chars[j]
    BY <2>1 DEF Room
  <2>3. start = chars
    BY <2>1, <2>2, SameSeq
  <2> QED
    BY <2>3 DEF start
<1> QED
  BY <1>4, <1>5, <1>7, <1>11, <1>12 DEF pieces

\* The first axis of a string column divides it into places.
LEMMA FirstAxisDivides ==
    ASSUME NEW e \in Seq(Nat), e # <<>>, Product(e) # 0
    PROVE  e[1] \in Nat \ {0} /\ \E count \in Nat : Product(e) = Room(count, e[1])
<1> DEFINE n == Len(e)
<1>1. n \in Nat \ {0} /\ \A k \in 1 .. n : e[k] \in Nat
  BY LenProperties, ElementOfSeq, EmptySeq
<1>2. PICK p : /\ p[0] = 1
               /\ \A k \in 1 .. n : p[k] = p[k - 1] * e[k]
               /\ Product(e) = p[n]
  BY ProductIsFold, Products!FoldSteps DEF ProductOp
<1> HIDE DEF n
<1> DEFINE w == e[1]
           T == {k \in 0 .. n : k = 0 \/ \E c \in Nat : p[k] = c * w}
<1>3. w \in Nat
  BY <1>1
<1>4. 0 \in T
  BY <1>1
<1>5. ASSUME NEW k \in 0 .. n - 1, k \in T
      PROVE  k + 1 \in T
  <2>1. k + 1 \in 1 .. n /\ k + 1 \in 0 .. n /\ (k + 1) - 1 = k
    BY <1>1
  <2> DEFINE y == e[k + 1]
  <2>2. y \in Nat /\ p[k + 1] = p[k] * y
    BY <1>1, <1>2, <2>1
  <2>3. CASE k = 0
    <3>1. p[k + 1] = 1 * w
      BY <1>2, <1>3, <2>2, <2>3
    <3> QED
      BY <2>1, <3>1
  <2>4. CASE k # 0
    <3>1. PICK c \in Nat : p[k] = c * w
      BY <1>5, <2>4
    <3> HIDE DEF y, w
    <3>2. p[k + 1] = (c * y) * w /\ c * y \in Nat
      BY <1>3, <2>2, <3>1
    <3> QED
      BY <2>1, <3>2
  <2> QED
    BY <2>3, <2>4
<1>6. \A k \in 0 .. n : k \in T
  <2> HIDE DEF T
  <2> QED
    BY <1>1, <1>4, <1>5, Products!UpTo
<1>7. n \in T
  BY <1>1, <1>6
<1>8. PICK c \in Nat : p[n] = c * w
  BY <1>1, <1>7
<1>9. Product(e) = Room(c, w)
  BY <1>2, <1>8 DEF Room
<1>10. w # 0
  BY <1>2, <1>3, <1>8
<1> QED
  BY <1>3, <1>9, <1>10

\* The cell of a string column.
LEMMA StringCell ==
    ASSUME IInv, NEW n \in CellsOf("String")
    PROVE  LET e == CellExtent(cols[n])
           IN  /\ e[1] \in Nat \ {0}
               /\ \E count \in Nat \ {0} : /\ Nelem(e) = Room(count, e[1])
                                           /\ CellBytes(cols[n]) = Room(count, e[1])
<1> DEFINE col == cols[n]
           e == CellExtent(col)
<1>1. col.type = "String" /\ Sound(col) /\ Filled(col)
  BY CellsAreSound
<1> HIDE DEF col
<1>2. e \in CountedShape
  BY <1>1, CellExtentSound
<1>3. e \in Seq(Nat) /\ Product(e) \in Nat /\ Product(e) # 0
  BY <1>2, HalfType DEF CountedShape, IntCounts
<1>4. Nelem(e) = Product(e)
  BY <1>2, NelemIsProduct
<1>5. CellBytes(col) = Nelem(e)
  BY <1>1 DEF CellBytes
<1>6. e # <<>>
  <2>1. CASE Naxes(ReadTdim(col)) = 1
    BY <1>1, <2>1 DEF CellExtent
  <2>2. CASE Naxes(ReadTdim(col)) # 1
    <3>1. e = ReadTdim(col)
      BY <2>2 DEF CellExtent
    <3>2. ReadTdim(col) # <<>>
      BY DEF ReadTdim, NoTdim
    <3> QED
      BY <3>1, <3>2
  <2> QED
    BY <2>1, <2>2
<1> HIDE DEF e
<1>7. e[1] \in Nat \ {0} /\ \E count \in Nat : Product(e) = Room(count, e[1])
  BY <1>3, <1>6, FirstAxisDivides
<1>8. PICK count \in Nat : Product(e) = Room(count, e[1])
  BY <1>7
<1>9. count # 0
  BY <1>3, <1>7, <1>8 DEF Room
<1> QED
  BY <1>4, <1>5, <1>7, <1>8, <1>9 DEF e, col

LEMMA PatternsAreVectors ==
    ASSUME PlainCharacters, NEW width \in Nat \ {0}, NEW count \in Nat,
           NEW ss \in StringPatterns(count, width)
    PROVE  Vector(ss, count)
<1>1. PICK shift \in 0 .. width + 1 :
            ss = [m \in 1 .. count |-> [k \in 1 .. (m + shift) % (width + 2) |-> <<m, k>>]]
  BY DEF StringPatterns
<1>2. ASSUME NEW m \in 1 .. count
      PROVE  ss[m] \in Seq(Chars) /\ Plain(ss[m])
  <2> DEFINE len == (m + shift) % (width + 2)
             char(k) == <<m, k>>
             s == ss[m]
  <2>1. len \in Nat /\ m \in Nat
    OBVIOUS
  <2>2. s = [k \in 1 .. len |-> char(k)]
    BY <1>1
  <2> HIDE DEF len, s
  <2>3. \A k \in Nat : char(k) \in Chars /\ char(k) # Nul
    BY <2>1 DEF Chars, PlainCharacters
  <2> HIDE DEF char
  <2>4. s \in [1 .. len -> Chars] /\ \A k \in 1 .. len : s[k] # Nul
    BY <2>1, <2>2, <2>3
  <2>5. s \in Seq(Chars) /\ Len(s) = len
    BY <2>1, <2>4, FunctionIsSeq
  <2> QED
    BY <2>4, <2>5 DEF Plain, s
<1>3. DOMAIN ss = 1 .. count
  BY <1>1
<1> QED
  BY <1>2, <1>3 DEF Vector

\* Strings come back as far as there is room for them, and a vector of strings
\* sees the pieces of a single one, for string cells of every shape.
THEOREM StringsSurvive ==
    ASSUME LargeInt, PlainCharacters
    PROVE  Spec => []StringsReadBack
<1>1. IInv => StringsReadBack
  <2> SUFFICES ASSUME IInv, NEW n \in CellsOf("String")
               PROVE  LET nelem == Nelem(CellExtent(cols[n]))
                          width == CellExtent(cols[n])[1]
                          nbytes == CellBytes(cols[n])
                      IN  \A ss \in StringPatterns(nelem \div width, width) :
                              LET whole == StringWritten(ss[1], nbytes)
                              IN  /\ StringsRead(StringsWritten(ss, width, nbytes), width, nelem)
                                        = [m \in DOMAIN ss |-> FirstChars(ss[m], width)]
                                  /\ FirstChars(StringRead(whole), Len(ss[1])) = FirstChars(ss[1], nbytes)
                                  /\ FoldLeft(LAMBDA s, piece : s \o piece, <<>>,
                                              StringsRead(whole, width, nelem)) = StringRead(whole)
    BY DEF StringsReadBack
  <2> DEFINE width == CellExtent(cols[n])[1]
             nelem == Nelem(CellExtent(cols[n]))
             nbytes == CellBytes(cols[n])
  <2>1. width \in Nat \ {0}
    BY StringCell
  <2>2. PICK count \in Nat \ {0} : nelem = Room(count, width) /\ nbytes = Room(count, width)
    BY StringCell
  <2> HIDE DEF width, nelem, nbytes
  <2>3. nelem \div width = count
    <3>1. 0 \in 0 .. width - 1
      BY <2>1
    <3>2. (count * width + 0) \div width = count
      BY <2>1, <3>1, DivMod
    <3> QED
      BY <2>1, <2>2, <3>2 DEF Room
  <2> SUFFICES ASSUME NEW ss \in StringPatterns(count, width)
               PROVE  /\ StringsRead(StringsWritten(ss, width, nbytes), width, nelem)
                            = [m \in DOMAIN ss |-> FirstChars(ss[m], width)]
                      /\ FirstChars(StringRead(StringWritten(ss[1], nbytes)), Len(ss[1]))
                            = FirstChars(ss[1], nbytes)
                      /\ FoldLeft(LAMBDA s, piece : s \o piece, <<>>,
                                  StringsRead(StringWritten(ss[1], nbytes), width, nelem))
                            = StringRead(StringWritten(ss[1], nbytes))
    BY <2>3 DEF width, nelem, nbytes
  <2>4. Vector(ss, count)
    BY <2>1, PatternsAreVectors
  <2>5. StringsRead(StringsWritten(ss, width, nbytes), width, nelem)
            = [m \in DOMAIN ss |-> FirstChars(ss[m], width)]
    BY <2>1, <2>2, <2>4, StringsComeBack
  <2>6. ss[1] \in Seq(Chars) /\ Plain(ss[1])
    BY <2>4 DEF Vector
  <2>7. nbytes \in Nat
    BY <2>1, <2>2 DEF Room
  <2> DEFINE whole == StringWritten(ss[1], nbytes)
  <2>8. /\ StringRead(whole) = whole
        /\ FirstChars(whole, Len(ss[1])) = FirstChars(ss[1], nbytes)
    BY <2>6, <2>7, WholeComesBack
  <2>9. whole \in Seq(Chars) /\ Len(whole) = nbytes /\ Plain(whole)
    BY <2>6, <2>7, WholeProperties
  <2> HIDE DEF whole
  <2>10. FoldLeft(LAMBDA s, piece : s \o piece, <<>>, StringsRead(whole, width, Room(count, width)))
            = whole
    BY <2>1, <2>2, <2>9, PiecesJoin
  <2> QED
    BY <2>2, <2>5, <2>8, <2>10 DEF whole
<1> QED
  BY <1>1, InvHolds, PTL
=============================================================================
