-------------------------------- MODULE Rows --------------------------------
(***************************************************************************)
(* Row objects, which carry the cells of one table row at a time between   *)
(* the file and the client's variables.                                    *)
(*                                                                         *)
(* A misFITS::Row has a cursor and a list of entries.  When a column is    *)
(* added to a Row, its entry takes from the table's description what it    *)
(* needs to find the column again: the column number, or, for strings, the *)
(* offset of the first byte in the row.  It is not told when the layout    *)
(* of the table changes later (BUGS 2).  A read or a write works through   *)
(* the entries in order and may throw at any of them.                      *)
(*                                                                         *)
(* Each table is here the only one at its HDU, so that a table stands for  *)
(* its HDU too; the tables are in one file and share its CHDU.  What the   *)
(* calls of tables do in detail is in Tables.                              *)
(***************************************************************************)
EXTENDS ColumnInfos

CONSTANTS
    Objects,          \* the Row objects of the client
    TableObjects,     \* the tables of the file
    Bases,            \* the client's variables
    Blocks,           \* MemBlocks laid over them: lists of columns and variables
    Values,           \* what the client puts in them
    Junk,             \* any other value
    Names,            \* column names
    Types,            \* types of the columns the client adds
    Extents,          \* shapes the client asks for
    InitialColumns,   \* the columns of each table to begin with
    MaxColumns,       \* columns are added to a table up to this many
    MaxEntries,       \* nothing is added to a Row with this many entries
    MaxRows,          \* the client does not write to rows after this one
    Faulty            \* whether a CFITSIO call on a cell may fail for reasons of its own

ASSUME JunkAssumption == Junk \notin Values
ASSUME TypesAssumption == Types \subseteq ColumnTypes
ASSUME ExtentsAssumption ==
    \A extent \in Extents : extent \in Seq(Nat \ {0}) /\ Nelem(extent) \in Nat \ {0}
ASSUME BoundsAssumption == {MaxColumns, MaxEntries, MaxRows} \subseteq Nat
ASSUME BlocksAssumption == Blocks \subseteq Seq([name : Names, base : Bases])
ASSUME FaultyAssumption == Faulty \in BOOLEAN

Column ==
    [name : Names, type : ColumnTypes, repeat : Nat \ {0}, width : Nat, tdim : Seq(Nat)]

ASSUME InitialColumnsAssumption ==
    /\ InitialColumns \in [TableObjects -> Seq(Column)]
    /\ \A t \in TableObjects :
            \A n \in DOMAIN InitialColumns[t] : TdimReadable(InitialColumns[t][n])

VARIABLES
    cols,      \* the columns of each table
    data,      \* the cells of each table, row by row
    chdu,      \* the table at the CHDU
    columns,   \* each table's description of its columns
    row,       \* each Row's members: table_, idx_, auto_advance_, entries
    memory,    \* the client's variables
    last       \* history: the latest call, and how it ended

vars == <<cols, data, chdu, columns, row, memory, last>>
-----------------------------------------------------------------------------
Cell == Values \cup {Junk}

\* A column's description, with what string entries take from it.
Info(cs, n) ==
    [ttype |-> cs[n].name, type |-> cs[n].type, extent |-> CellExtent(cs[n]),
     colnum |-> n, offset |-> Offset(cs, n), nbytes |-> CellBytes(cs[n])]

Infos(cs) == [n \in DOMAIN cs |-> Info(cs, n)]

\* Variant with a bug: counts the bits of a bit column.
AllElements(info) == Nelem(info.extent)

\* The elements which an entry asks CFITSIO for at each access: bits travel in bytes.
Natomic(info) == IF info.type = "Bit" THEN info.nbytes ELSE Nelem(info.extent)

\* Variant with a bug: counts columns from 0.
EntryFromZero(infos, n, name, base) ==
    [name |-> name, base |-> base, colnum |-> infos[n].colnum - 1,
     string |-> infos[n].type = "String", offset |-> infos[n].offset,
     nbytes |-> infos[n].nbytes, natomic |-> Natomic(infos[n]), seen |-> SubSeq(infos, 1, n)]

\* An entry.  The history fields name and seen hold the name it was asked for
\* by and the descriptions of the columns up to its own at that time.
EntryFor(infos, n, name, base) ==
    [name |-> name, base |-> base, colnum |-> infos[n].colnum, string |-> infos[n].type = "String",
     offset |-> infos[n].offset, nbytes |-> infos[n].nbytes,
     natomic |-> Natomic(infos[n]), seen |-> SubSeq(infos, 1, n)]

Outcomes == {"returned", "end", "threw"}

Call(op, obj, idx, outcome) == [op |-> op, obj |-> obj, idx |-> idx, outcome |-> outcome]

OtherCall == [op |-> "other", outcome |-> "returned"]

-----------------------------------------------------------------------------
(***************************************************************************)
(* CFITSIO's access to the cells of the CHDU                               *)
(***************************************************************************)
FirstByte(cs, n) ==
    FoldLeft(LAMBDA byte, col : byte + StorageBytes(col), 1, SubSeq(cs, 1, n - 1))

RowBytes(cs) == FirstByte(cs, Len(cs) + 1) - 1

\* A string column's elements are its substrings, a bit column's its bytes.
Elements(col) ==
    CASE col.type = "String" -> col.repeat \div StringWidth(col)
      [] col.type = "Bit" -> StorageBytes(col)
      [] OTHER -> col.repeat

Overlap(a, m, b, n) == a < b + n /\ b < a + m

\* The access of entry e at row i touches the cell in row j, column n: cells
\* are rows of bytes for a string entry, or the elements of one column.
Touches(cs, e, i, j, n) ==
    IF e.string
    THEN Overlap((i - 1) * RowBytes(cs) + e.offset, e.nbytes,
                 (j - 1) * RowBytes(cs) + FirstByte(cs, n), StorageBytes(cs[n]))
    ELSE n = e.colnum /\ Overlap((i - 1) * Elements(cs[n]), e.natomic,
                                 (j - 1) * Elements(cs[n]), Elements(cs[n]))

\* The entry stands for column n, all of it and nothing else.
Fits(cs, e, n) ==
    /\ (cs[n].type = "String") = e.string
    /\ IF e.string
       THEN e.offset = FirstByte(cs, n) /\ e.nbytes = StorageBytes(cs[n])
       ELSE e.colnum = n /\ e.natomic = Elements(cs[n])

LastRow(cs, e, i) ==
    IF e.string
    THEN i + (e.offset + e.nbytes - 2) \div RowBytes(cs)
    ELSE i + (e.natomic - 1) \div Elements(cs[e.colnum])

\* BAD_ROW_NUM, BAD_COL_NUM
Accessible(cs, e, i) == i >= 1 /\ (e.string \/ e.colnum \in DOMAIN cs)

Readable(cs, d, e, i) == Accessible(cs, e, i) /\ LastRow(cs, e, i) <= Len(d)

\* Numbers in a column of strings are converted, if they can be.
Convertible(cs, e) ==
    e.string \/ e.colnum \notin DOMAIN cs \/ cs[e.colnum].type # "String"

Get(cs, d, e, i) ==
    LET at == {n \in DOMAIN cs : Fits(cs, e, n)}
    IN  IF at = {} THEN Junk ELSE d[i][CHOOSE n \in at : TRUE]

\* Writing after the last row appends rows.
Put(cs, d, e, i, value) ==
    LET rows == IF LastRow(cs, e, i) > Len(d) THEN LastRow(cs, e, i) ELSE Len(d)
    IN  [j \in 1 .. rows |->
            [n \in DOMAIN cs |->
                CASE Touches(cs, e, i, j, n) -> IF j = i /\ Fits(cs, e, n) THEN value ELSE Junk
                  [] ~ Touches(cs, e, i, j, n) /\ j <= Len(d) -> d[j][n]
                  [] OTHER -> Junk]]
-----------------------------------------------------------------------------
(***************************************************************************)
(* Setting up a Row                                                        *)
(***************************************************************************)
NewRow(t) == [table |-> t, idx |-> 1, auto |-> TRUE, entries |-> <<>>]

\* Row::add: the column is found in the file, its description in the table.
Add(r, name, base) ==
    LET t == row[r].table
    IN  /\ Len(row[r].entries) < MaxEntries
        /\ chdu' = t
        /\ \/ \E n \in DOMAIN columns[t] :
                /\ IsColnum(cols[t], name, n)
                /\ row' = [row EXCEPT ![r].entries = Append(@, EntryFor(columns[t], n, name, base))]
           \/ /\ ~ \E n \in DOMAIN columns[t] : IsColnum(cols[t], name, n)
              /\ UNCHANGED row
        /\ last' = OtherCall
        /\ UNCHANGED <<cols, data, columns, memory>>

\* Row::add of a MemBlock: entries are added up to a column which is not found,
\* and stay when the call throws.
AddBlock(r, block) ==
    LET t == row[r].table
        found(k) == {n \in DOMAIN columns[t] : IsColnum(cols[t], block[k].name, n)}
        entry(k) == EntryFor(columns[t], CHOOSE n \in found(k) : TRUE, block[k].name, block[k].base)
    IN  /\ Len(row[r].entries) < MaxEntries
        /\ block # <<>>
        /\ chdu' = t
        /\ \E count \in 0 .. Len(block) :
                /\ \A k \in 1 .. count : found(k) # {}
                /\ count < Len(block) => found(count + 1) = {}
                /\ row' = [row EXCEPT ![r].entries = @ \o [k \in 1 .. count |-> entry(k)]]
        /\ last' = OtherCall
        /\ UNCHANGED <<cols, data, columns, memory>>

\* idx( row ) and advance( nrows )
SetIdx(r, idx) ==
    /\ row' = [row EXCEPT ![r].idx = idx]
    /\ last' = OtherCall
    /\ UNCHANGED <<cols, data, chdu, columns, memory>>

AutoAdvance(r, flag) ==
    /\ row' = [row EXCEPT ![r].auto = flag]
    /\ last' = OtherCall
    /\ UNCHANGED <<cols, data, chdu, columns, memory>>

\* Row( row ): the copy shares the entries and goes its own way.
Copy(r, s) ==
    /\ row' = [row EXCEPT ![s] = row[r]]
    /\ last' = OtherCall
    /\ UNCHANGED <<cols, data, chdu, columns, memory>>

SetMemory(base, value) ==
    /\ memory' = [memory EXCEPT ![base] = value]
    /\ last' = OtherCall
    /\ UNCHANGED <<cols, data, chdu, columns, row>>
-----------------------------------------------------------------------------
(***************************************************************************)
(* Reading and writing                                                     *)
(***************************************************************************)
\* Variant with a bug: the CHDU is left where it is.
Stay(r) == chdu' = chdu

SetAsChdu(r) == chdu' = row[r].table

\* Variant with a bug: leaves out the last entry.
ReadBefore(cs, d, es, i, k) ==
    FoldLeft(LAMBDA mem, e : [mem EXCEPT ![e.base] = Get(cs, d, e, i)],
             memory, SubSeq(es, 1, k - 1))

\* The variables after the first k entries have been read at row i.
ReadUpTo(cs, d, es, i, k) ==
    FoldLeft(LAMBDA mem, e : [mem EXCEPT ![e.base] = Get(cs, d, e, i)], memory, SubSeq(es, 1, k))

\* The cells after the first k entries have been written at row i.
WriteUpTo(cs, d, es, i, k) ==
    FoldLeft(LAMBDA cells, e : Put(cs, cells, e, i, memory[e.base]), d, SubSeq(es, 1, k))

\* Variant with a bug: advances however the call ends.
AlwaysAdvances(r, i, outcome) ==
    row' = [row EXCEPT ![r].idx = IF row[r].auto THEN i + 1 ELSE i]

\* The cursor stays at i when the call throws or there is no such row.
Advance(r, i, outcome) ==
    row' = [row EXCEPT ![r].idx = IF row[r].auto /\ outcome = "returned" THEN i + 1 ELSE i]

\* Row::read at row i.
ReadRow(r, i, outcome) ==
    LET es == row[r].entries
        cs == cols[chdu']
        d == data[chdu']
    IN  /\ SetAsChdu(r)
        /\ \/ /\ outcome = "threw"
              /\ es = <<>>
              /\ UNCHANGED memory
           \/ /\ outcome = "end"
              /\ es # <<>> /\ i > Len(d)
              /\ UNCHANGED memory
           \/ /\ outcome = "returned"
              /\ es # <<>> /\ i <= Len(d)
              /\ \A k \in DOMAIN es : Readable(cs, d, es[k], i)
              /\ memory' = ReadUpTo(cs, d, es, i, Len(es))
           \/ /\ outcome = "threw"
              /\ i <= Len(d)
              /\ \E k \in DOMAIN es :
                    /\ \A j \in 1 .. k - 1 : Readable(cs, d, es[j], i)
                    /\ Faulty \/ ~ Readable(cs, d, es[k], i) \/ ~ Convertible(cs, es[k])
                    /\ \E mem \in {ReadUpTo(cs, d, es, i, k - 1)} :
                            memory' \in {mem, [mem EXCEPT ![es[k].base] = Junk]}
        /\ Advance(r, i, outcome)
        /\ last' = Call("read", r, i, outcome)
        /\ UNCHANGED <<cols, data, columns>>

\* Row::write at row i.
WriteRow(r, i, outcome) ==
    LET es == row[r].entries
        cs == cols[chdu']
        d == data[chdu']
    IN  /\ SetAsChdu(r)
        /\ \/ /\ outcome = "threw"
              /\ es = <<>>
              /\ UNCHANGED data
           \/ /\ outcome = "returned"
              /\ es # <<>>
              /\ \A k \in DOMAIN es : Accessible(cs, es[k], i)
              /\ data' = [data EXCEPT ![chdu'] = WriteUpTo(cs, d, es, i, Len(es))]
           \/ /\ outcome = "threw"
              /\ \E k \in DOMAIN es :
                    /\ \A j \in 1 .. k - 1 : Accessible(cs, es[j], i)
                    /\ \/ ~ Accessible(cs, es[k], i)
                       \/ Faulty
                       \/ ~ Convertible(cs, es[k])
                    /\ \E cells \in {WriteUpTo(cs, d, es, i, k - 1)} :
                        \/ data' = [data EXCEPT ![chdu'] = cells]
                        \/ /\ Accessible(cs, es[k], i)
                           /\ data' = [data EXCEPT ![chdu'] = Put(cs, cells, es[k], i, Junk)]
        /\ Advance(r, i, outcome)
        /\ last' = Call("write", r, i, outcome)
        /\ UNCHANGED <<cols, columns, memory>>

\* read() and read( idx )
Read(r) == \E outcome \in Outcomes : ReadRow(r, row[r].idx, outcome)
ReadAt(r, idx) == \E outcome \in Outcomes : ReadRow(r, idx, outcome)

\* write() and write( idx )
Write(r) == row[r].idx <= MaxRows /\ \E outcome \in Outcomes : WriteRow(r, row[r].idx, outcome)
WriteAt(r, idx) == idx <= MaxRows /\ \E outcome \in Outcomes : WriteRow(r, idx, outcome)
-----------------------------------------------------------------------------
(***************************************************************************)
(* What the tables do under the Rows, as far as the layout goes            *)
(***************************************************************************)
Relayout(t, cs, d) ==
    /\ cols' = [cols EXCEPT ![t] = cs]
    /\ data' = [data EXCEPT ![t] = d]
    /\ chdu' = t
    /\ last' = OtherCall
    /\ UNCHANGED <<row, memory>>

Refresh(t, cs) == columns' = [columns EXCEPT ![t] = Infos(cs)]

AddColumn(t, name, type, extent, colnum) ==
    LET cs == Inserted(cols[t], name, type, extent, colnum)
    IN  /\ Len(cols[t]) < MaxColumns
        /\ colnum <= Len(cols[t]) + 1
        /\ ColumnsNamed(cols[t], name) = {}
        /\ Relayout(t, cs, [j \in DOMAIN data[t] |-> InsertCol(data[t][j], colnum, Junk)])
        /\ Refresh(t, cs)

ResizeColumn(t, colnum, extent) ==
    LET cs == Resized(cols[t], colnum, extent)
    IN  /\ colnum \in DOMAIN columns[t] \cap DOMAIN cols[t]
        /\ ~ SameShape(columns[t][colnum].extent, extent)
        /\ Relayout(t, cs, [j \in DOMAIN data[t] |-> [data[t][j] EXCEPT ![colnum] = Junk]])
        /\ Refresh(t, cs)

\* A table keeps at least one column here.
Deleted(t, colnum) ==
    /\ Len(cols[t]) > 1
    /\ Relayout(t, DeleteCol(cols[t], colnum),
                [j \in DOMAIN data[t] |-> DeleteCol(data[t][j], colnum)])

DeleteColumn(t, colnum) ==
    /\ colnum \in DOMAIN cols[t]
    /\ Deleted(t, colnum)
    /\ Refresh(t, DeleteCol(cols[t], colnum))

DeleteColumnByName(t, name) ==
    /\ \E n \in DOMAIN columns[t] : IsColnum(cols[t], name, n) /\ Deleted(t, columns[t][n].colnum)
    /\ UNCHANGED columns

\* Any other call of a table.
Query(t) ==
    /\ chdu' = t
    /\ last' = OtherCall
    /\ UNCHANGED <<cols, data, columns, row, memory>>
-----------------------------------------------------------------------------
\* Tables are empty, or hold a row which someone has written before.
Init ==
    /\ cols = InitialColumns
    /\ \E rows \in 0 .. 1, value \in Values :
            data = [t \in TableObjects |->
                        [j \in 1 .. rows |-> [n \in DOMAIN InitialColumns[t] |-> value]]]
    /\ chdu \in TableObjects
    /\ columns = [t \in TableObjects |-> Infos(InitialColumns[t])]
    /\ row \in [Objects -> {NewRow(t) : t \in TableObjects}]
    /\ memory = [base \in Bases |-> Junk]
    /\ last = OtherCall

TableCall(t) ==
    \/ Query(t)
    \/ \E name \in Names, type \in Types, extent \in Extents, colnum \in 1 .. MaxColumns :
            AddColumn(t, name, type, extent, colnum)
    \/ \E colnum \in 1 .. MaxColumns, extent \in Extents : ResizeColumn(t, colnum, extent)
    \/ \E colnum \in 1 .. MaxColumns : DeleteColumn(t, colnum)
    \/ \E name \in Names : DeleteColumnByName(t, name)

RowCall(r) ==
    \/ \E name \in Names, base \in Bases : Add(r, name, base)
    \/ \E block \in Blocks : AddBlock(r, block)
    \/ \E idx \in 0 .. MaxRows + 1 : SetIdx(r, idx)
    \/ \E flag \in BOOLEAN : AutoAdvance(r, flag)
    \/ \E s \in Objects : Copy(r, s)
    \/ Read(r)
    \/ Write(r)
    \/ \E idx \in 0 .. MaxRows + 1 : ReadAt(r, idx) \/ WriteAt(r, idx)

Next ==
    \/ \E t \in TableObjects : TableCall(t)
    \/ \E r \in Objects : RowCall(r)
    \/ \E base \in Bases, value \in Values : SetMemory(base, value)

Spec == Init /\ [][Next]_vars
-----------------------------------------------------------------------------
(***************************************************************************)
(* Properties                                                              *)
(***************************************************************************)
Entry ==
    [name : Names, base : Bases, colnum : Nat \ {0}, string : BOOLEAN, offset : Nat, nbytes : Nat,
     natomic : Nat, seen : Seq([ttype : Names, type : ColumnTypes, extent : Seq(Nat),
                                colnum : Nat \ {0}, offset : Nat, nbytes : Nat])]

TypeOK ==
    /\ cols \in [TableObjects -> Seq(Column)]
    /\ chdu \in TableObjects
    /\ \A t \in TableObjects :
        /\ data[t] \in Seq(Seq(Cell))
        /\ \A j \in DOMAIN data[t] : Len(data[t][j]) = Len(cols[t])
    /\ row \in [Objects -> [table : TableObjects, idx : Nat, auto : BOOLEAN,
                            entries : Seq(Entry)]]
    /\ memory \in [Bases -> Cell]

\* The columns up to the entry's own are what they were when it was made.
\* Columns after it may have come, gone or been resized.
Intact(e, t) ==
    /\ e.colnum <= Len(cols[t])
    /\ cols[t][e.colnum].name = e.name
    /\ SubSeq(Infos(cols[t]), 1, e.colnum) = e.seen

\* No variable and no column is used twice.
Proper(es) ==
    \A j, k \in DOMAIN es : j # k => es[j].base # es[k].base /\ es[j].colnum # es[k].colnum

LastRowCall(op) == last.op = op /\ last.outcome = "returned"

Transfers(op) ==
    LastRowCall(op) =>
        LET t == row[last.obj].table
            es == row[last.obj].entries
        IN  Proper(es) /\ (\A k \in DOMAIN es : Intact(es[k], t)) =>
                \A k \in DOMAIN es : memory[es[k].base] = data[t][last.idx][es[k].colnum]

\* A read which returns true has put into each variable the cell of the
\* column whose name it was added with, though strings are found by offsets
\* which ColumnInfo computes and CFITSIO does not know, and though columns
\* after those of the Row may have changed in the meantime.
ReadsItsColumns == [][Transfers("read")']_vars

\* The same for a write which returns.
WritesItsColumns == [][Transfers("write")']_vars

\* A write through intact entries, whether it returns or throws half-way,
\* changes no cell of another column, of another row or of another table,
\* wherever the CHDU was.
WritesNothingElse ==
    [][ last'.op = "write" =>
            LET r == last'.obj
                es == row[r].entries
            IN  (\A k \in DOMAIN es : Intact(es[k], row[r].table)) =>
                    \A t \in TableObjects : \A j \in DOMAIN data[t] :
                        \A n \in DOMAIN cols[t] :
                            data'[t][j][n] # data[t][j][n] =>
                                /\ t = row[r].table /\ j = last'.idx
                                /\ \E k \in DOMAIN es : es[k].colnum = n ]_vars
=============================================================================
