------------------------------- MODULE MCRows -------------------------------
(***************************************************************************)
(* Small tables for Rows.                                                  *)
(***************************************************************************)
EXTENDS Rows

CONSTANTS a, b, t1, r1, x, y

Col(name, type, repeat) ==
    [name |-> name, type |-> type, repeat |-> repeat, width |-> 0, tdim |-> NoTdim]

\* A string after a bit, which does not fill its byte.
BitsAndString == t1 :> <<Col(a, "Bit", 1), Col(b, "String", 2)>>

\* Nine bits, in two bytes.
NineBits == {<<9>>}

\* A struct with a variable for each column.
Struct == {<<[name |-> b, base |-> x], [name |-> a, base |-> y]>>}

\* Bounds on the states looked at: a Row with an outdated entry may write past
\* the row, and columns deleted by name may go on being described.
Bounds ==
    \A t \in TableObjects : Len(data[t]) <= MaxRows + 1 /\ Len(columns[t]) <= Len(cols[t]) + 1

\* No action reads last, and the properties read it only in the state a step
\* leads to.
NoLast == <<cols, data, chdu, columns, row, memory>>
=============================================================================
