------------------------------ MODULE Cfitsio ------------------------------
(***************************************************************************)
(* The columns of a FITS binary table as CFITSIO keeps them in a header,   *)
(* and what the CFITSIO column routines misFITS calls do to them.  CFITSIO *)
(* is not part of the repository: these operators say what src/misfits     *)
(* relies on and what src/tests/cfitsio.cc shows.                          *)
(*                                                                         *)
(* A column is a record: its TTYPE name, the type and repeat count of its  *)
(* TFORM, the substring width of an rAw TFORM (0 when there is none), and  *)
(* its TDIM keyword, <<>> when it is absent.  A column carries its TDIM    *)
(* with it because CFITSIO renumbers the indexed keywords when columns are *)
(* inserted or deleted before it.                                          *)
(***************************************************************************)
EXTENDS Naturals, Sequences, SequencesExt

NoTdim == <<>>

NewColumn(name, type, repeat) ==
    [name |-> name, type |-> type, repeat |-> repeat, width |-> 0,
     tdim |-> NoTdim]

\* fits_insert_col: a position past the last column means the end.
InsertCol(cols, colnum, col) ==
    IF colnum > Len(cols) THEN Append(cols, col) ELSE InsertAt(cols, colnum, col)

\* fits_delete_col
DeleteCol(cols, colnum) == RemoveAt(cols, colnum)

\* fits_modify_vector_len: everything but TDIM is fixed up.
ModifyVectorLen(cols, colnum, repeat) ==
    [cols EXCEPT ![colnum].repeat = repeat]

\* fits_write_tdimll, or the TDIM keyword written or deleted by hand.
WriteTdim(cols, colnum, tdim) == [cols EXCEPT ![colnum].tdim = tdim]

Product(tdim) == FoldLeft(LAMBDA product, n : product * n, 1, tdim)

\* fits_read_tdimll: without a TDIM the cell is a vector of repeat elements,
\* and a TDIM which does not account for all of them is an error.
TdimReadable(col) == col.tdim = NoTdim \/ Product(col.tdim) = col.repeat

ReadTdim(col) == IF col.tdim = NoTdim THEN <<col.repeat>> ELSE col.tdim

\* fits_get_coltypell on a string column: the width is the repeat count
\* unless the TFORM has a smaller one.
StringWidth(col) ==
    IF col.width \in 1 .. col.repeat THEN col.width ELSE col.repeat

\* The columns fits_get_colnum can mean by a name; it fails (COL_NOT_FOUND,
\* COL_NOT_UNIQUE) unless there is exactly one.
ColumnsNamed(cols, name) == {n \in 1 .. Len(cols) : cols[n].name = name}

IsColnum(cols, name, colnum) == ColumnsNamed(cols, name) = {colnum}

Found(cols, name) == \E n \in 1 .. Len(cols) : IsColnum(cols, name, n)

\* The bytes CFITSIO gives a column in each row: a bit column is rounded up
\* to whole bytes, and repeat counts the characters of a string column.
ElementBytes ==
    [Byte |-> 1, Logical |-> 1, String |-> 1, Short |-> 2, UShort |-> 2,
     Long |-> 4, ULong |-> 4, Float |-> 4, LongLong |-> 8, Double |-> 8,
     Complex |-> 8]

StorageBytes(col) ==
    IF col.type = "Bit" THEN (col.repeat + 7) \div 8
    ELSE col.repeat * ElementBytes[col.type]

\* The unsigned types are stored as signed ones with a TZERO, and
\* fits_get_coltypell reports the stored type.
StoredType(type) ==
    CASE type = "UShort" -> "Short"
      [] type = "ULong"  -> "Long"
      [] OTHER           -> type
=============================================================================
