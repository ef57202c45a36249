--------------------------- MODULE MCCopyColumns ---------------------------
(***************************************************************************)
(* Small tables for CopyColumns.                                           *)
(***************************************************************************)
EXTENDS CopyColumns, TLC

CONSTANTS a, b, c

Col(name, type, repeat, tdim) ==
    [name |-> name, type |-> type, repeat |-> repeat, width |-> 0, tdim |-> tdim]

Short(name, repeat) == Col(name, "Short", repeat, NoTdim)

Matrix(name) == Col(name, "Short", 4, <<2, 2>>)

\* The source has a scalar and a matrix; the destination has columns of the same
\* names in another order, one of them of another shape, or one of the names.
SmallTables ==
    (Source :> {<<Short(a, 1), Matrix(b)>>})
        @@ (Destination :> {<<Short(b, 2), Short(a, 1)>>, <<Short(b, 4)>>})

OneColumn == [t \in TableObjects |-> {<<Short(a, 1)>>, <<Short(b, 1)>>}]

\* No name, either, both in the order which is not the source's, one given twice, one
\* followed by a name which the source does not have.
SomeLists == {<<>>, <<a>>, <<b>>, <<b, a>>, <<b, b>>, <<b, c>>}

OneName == {<<a>>, <<b>>}

\* Bounds on the states looked at: a copy within a file may extend the source.
Bounds ==
    /\ \A t \in TableObjects : Len(cols[t]) <= MaxColumns
    /\ Len(data[Source]) <= 2 /\ Len(data[Destination]) <= 1
    /\ \/ Len(data[Source]) + Len(data[Destination]) <= 2
       \/ Described(Source) /\ Described(Destination)

\* No action reads last, and the properties read it only in the state a step
\* leads to.
NoLast == <<shared, chdu, cols, data, naxis2, columns>>
=============================================================================
