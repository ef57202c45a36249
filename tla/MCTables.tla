------------------------------ MODULE MCTables ------------------------------
(***************************************************************************)
(* Small files for Tables.                                                 *)
(***************************************************************************)
EXTENDS Tables, TLC, FiniteSets

CONSTANTS a, b, t1, t2

Primary == [kind |-> "image", extname |-> Unnamed, cols |-> <<>>]

TableHdu(extname, cols) == [kind |-> "binary", extname |-> extname, cols |-> cols]

AsciiHdu(extname, cols) == [kind |-> "ascii", extname |-> extname, cols |-> cols]

Col(name, type, repeat, tdim) ==
    [name |-> name, type |-> type, repeat |-> repeat, width |-> 0, tdim |-> tdim]

Scalar(name) == Col(name, "Long", 1, NoTdim)
Vector(name) == Col(name, "Long", 2, NoTdim)
Matrix(name) == Col(name, "Long", 4, <<2, 2>>)
Word(name) == Col(name, "String", 2, NoTdim)
Other(name) == Col(name, "Complex", 1, NoTdim)

\* Shapes: a scalar, a vector, a matrix.
OneExtent == {<<2>>}
TwoExtents == {<<1>>, <<2, 2>>}
LongExtents == {<<2>>, <<2, 2>>}

\* Tables of one column and of two, the second of which misFITS cannot
\* describe, and an ASCII table before them.
TwoTables ==
    {<<Primary, TableHdu(a, <<Matrix(a)>>), TableHdu(b, <<Word(a)>>)>>,
     <<Primary, AsciiHdu(b, <<Scalar(a)>>), TableHdu(a, <<Vector(a), Other(a)>>)>>}

EmptyTable == {<<Primary, TableHdu(Unnamed, <<>>)>>}

\* Bounds on the states looked at: no object is stale in two ways at once, and
\* an object one of whose calls has failed is the only one.
Staleness == \A t \in Objects : Cardinality(drift[t]) <= 1

LoneFailures ==
    Staleness /\ ((\E t \in Objects : "failed" \in drift[t]) => Cardinality(Live) <= 1)

\* No action reads last, and the properties of the runs with this view read it
\* only in the state a step leads to, so one state stands for all that differ
\* in last: TLC still checks each step out of it.
NoLast == <<hdus, chdu, table, drift>>

\* Neither objects nor names are told apart when the files name no column.
Symmetry == {p @@ q : p \in Permutations(Objects), q \in Permutations(Names)}
=============================================================================
