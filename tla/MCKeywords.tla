----------------------------- MODULE MCKeywords -----------------------------
(***************************************************************************)
(* Two small headers for Keywords.                                         *)
(***************************************************************************)
EXTENDS Keywords, TLC

CONSTANTS primary, table, a, b, x, y, i

TwoHeaders ==
    (primary :> <<Card(a, y, 1, FALSE), Card(b, y, 1, FALSE)>>) @@ (table :> <<Card(a, x, 8, FALSE)>>)

\* Room for a long string and its warning in one of them.
Bounds == (primary :> 4) @@ (table :> 1)
=============================================================================
