------------------------------ MODULE MCFiles ------------------------------
(***************************************************************************)
(* Small files for Files.                                                  *)
(***************************************************************************)
EXTENDS Files, TLC

CONSTANTS f1, f2, t1, t2, disk, memory

Extension(origin) == [origin |-> origin, image |-> FALSE, data |-> TRUE]

\* A file with a primary HDU and a table, and a store for copies.
TwoHdus == disk :> <<NullPrimary, Extension("events")>> @@ memory :> <<>>

\* Where a fitsfile was when it was closed makes no difference: nothing reads it.
NoClosedPositions ==
    <<file, [i \in DOMAIN fits |->
                IF fits[i].closes = 0 THEN fits[i] ELSE [closes |-> fits[i].closes]],
      content, table>>

\* The last fitsfile is there for reopen: no tables are looked at with it.
TablesOrLastFits == Len(fits) = MaxFits => \A t \in Tables : table[t] = NoTable

Symmetry == {p @@ q : p \in Permutations(Handles), q \in Permutations(Tables)}
=============================================================================
