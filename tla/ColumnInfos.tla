---------------------------- MODULE ColumnInfos ----------------------------
(***************************************************************************)
(* misFITS::ColumnInfo: how the shape and type of a column are written     *)
(* into a FITS header (tform, insert) and read back from it (init).        *)
(***************************************************************************)
EXTENDS Extents, Cfitsio

\* spec_from_id has no entry for complex types (and throws for them).
ColumnTypes ==
    {"Bit", "Byte", "Logical", "String", "Short", "Long", "LongLong", "Float",
     "Double", "UShort", "ULong"}

\* The repeat count of the TFORM: left out unless it is above 1, and FITS
\* takes a missing count to be 1.
TformRepeat(extent) == IF Nelem(extent) \in Nat \ {0, 1} THEN Nelem(extent) ELSE 1

(***************************************************************************)
(* ColumnInfo::insert, in two CFITSIO calls: the new column, then its TDIM *)
(* if it has more than one dimension.                                      *)
(***************************************************************************)
InsertedBare(cols, ttype, type, extent, colnum) ==
    InsertCol(cols, colnum,
              NewColumn(ttype, StoredType(type), TformRepeat(extent)))

\* Variant with a bug: TDIM only from three axes up.
ManyAxes(extent) == Naxes(Squeeze(extent)) > 2

NeedsTdim(extent) == Naxes(Squeeze(extent)) > 1

\* A column number past the end is good enough for the new column, which goes
\* to the end, but not for its TDIM.
TdimMisses(cols, extent, colnum) == NeedsTdim(extent) /\ colnum > Len(cols) + 1

Inserted(cols, ttype, type, extent, colnum) ==
    LET bare == InsertedBare(cols, ttype, type, extent, colnum)
    IN  IF NeedsTdim(extent) THEN WriteTdim(bare, colnum, extent) ELSE bare

(***************************************************************************)
(* The columns as Table::resize leaves them.                               *)
(***************************************************************************)
Lengthened(cols, colnum, extent) == ModifyVectorLen(cols, colnum, Nelem(extent))

\* TDIM is deleted, if it is there, for a cell of one dimension.
Resized(cols, colnum, extent) ==
    WriteTdim(Lengthened(cols, colnum, extent), colnum,
              IF IsVector(extent) THEN NoTdim ELSE extent)

(***************************************************************************)
(* ColumnInfo::init, the description of a column of the CHDU.  It fails    *)
(* on an unsupported type and on a TDIM which CFITSIO refuses.             *)
(***************************************************************************)
Describable(col) == col.type \in ColumnTypes /\ TdimReadable(col)

CellExtent(col) ==
    IF col.type = "String" /\ Naxes(ReadTdim(col)) = 1
    THEN <<StringWidth(col), col.repeat \div StringWidth(col)>>
    ELSE ReadTdim(col)

\* Variant with a bug: the last bits of a bit column have no byte.
WholeBytes(col) ==
    LET nelem == Nelem(CellExtent(col))
    IN  CASE col.type = "Bit" -> nelem \div 8
          [] col.type = "String" -> nelem
          [] OTHER -> nelem * ElementBytes[col.type]

CellBytes(col) ==
    LET nelem == Nelem(CellExtent(col))
    IN  CASE col.type = "Bit" ->
                (nelem \div 8) + (IF (nelem \div 8) * 8 < nelem THEN 1 ELSE 0)
          [] col.type = "String" -> nelem
          [] OTHER -> nelem * ElementBytes[col.type]

\* Variant with a bug: counts columns from 0.
DescribeFromZero(col, colnum) ==
    [ttype |-> col.name, type |-> col.type, extent |-> CellExtent(col),
     colnum |-> colnum - 1]

\* A ColumnInfo, without the offset, nbytes and tunit that follow from it or
\* say nothing about the layout.
Describe(col, colnum) ==
    [ttype |-> col.name, type |-> col.type, extent |-> CellExtent(col),
     colnum |-> colnum]

\* Table::refresh accumulates the offset of the first byte of each column, from 1.
Offset(cols, colnum) ==
    FoldLeft(LAMBDA offset, col : offset + CellBytes(col), 1,
             SubSeq(cols, 1, colnum - 1))
=============================================================================
