------------------------------ MODULE Layouts ------------------------------
(***************************************************************************)
(* What the column calls of misFITS::Table promise to whoever reads the    *)
(* file: each call leaves every table as it is, or inserts one column of   *)
(* the type and shape asked for, or gives one column the shape asked for,  *)
(* or takes one column out; only an insertion past the end may leave the   *)
(* column without its axes, from where its shape may be taken for others.  *)
(* There are no descriptions, no TFORM and no TDIM here, and a cell's      *)
(* shape is told without its axes of length 1, as operator == of Extent    *)
(* sees it.                                                                *)
(***************************************************************************)
EXTENDS Naturals, Sequences, SequencesExt

CONSTANTS Names, Types, Shapes, InitialLayouts

VARIABLE layout     \* for each HDU, the sequence of its columns

Init == layout \in InitialLayouts

\* All the elements of a cell on one axis.
Flat(shape) ==
    IF shape = <<>> THEN <<>>
    ELSE <<FoldLeft(LAMBDA product, n : product * n, 1, shape)>>

\* A column has a shape asked for, or has lost the axes of one.
Columns == [name : Names, type : Types, shape : Shapes \cup {Flat(shape) : shape \in Shapes}]

SetColumns(h, columns) == layout' = [layout EXCEPT ![h] = columns]

\* A column now stands at this place, and those from there on have moved up.
Insert(h, at) ==
    /\ layout'[h][at] \in Columns
    /\ SetColumns(h, InsertAt(layout[h], at, layout'[h][at]))

Reshape(h, n, shape) == SetColumns(h, [layout[h] EXCEPT ![n].shape = shape])

Delete(h, n) == SetColumns(h, RemoveAt(layout[h], n))

\* The primary HDU has no columns to lose and keeps its place.
DropHdu(h) == h # 1 /\ layout' = RemoveAt(layout, h)

Edit(h) ==
    LET columns == Len(layout[h])
    IN  \/ /\ Len(layout'[h]) = columns + 1
           /\ \E at \in 1 .. columns + 1 : Insert(h, at)
        \/ /\ Len(layout'[h]) = columns
           /\ \E n \in 1 .. columns, shape \in Shapes : Reshape(h, n, shape)
        \/ /\ Len(layout'[h]) < columns
           /\ \E n \in 1 .. columns : Delete(h, n)

Next ==
    /\ layout' # layout
    /\ \/ /\ DOMAIN layout' = DOMAIN layout
          /\ \E h \in DOMAIN layout : layout'[h] # layout[h] /\ Edit(h)
       \/ \E h \in DOMAIN layout : DropHdu(h)

Spec == Init /\ [][Next]_layout
=============================================================================
