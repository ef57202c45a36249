----------------------------- MODULE MCRowLoops -----------------------------
(***************************************************************************)
(* Small tables for RowLoops.                                              *)
(***************************************************************************)
EXTENDS RowLoops

Col(name, type) ==
    [name |-> name, type |-> type, repeat |-> 1, width |-> 0, tdim |-> NoTdim]

BothTables == [t \in TableObjects |-> <<Col("a", "Short"), Col("b", "String")>>]

AllBases == Objects \X Names
=============================================================================
