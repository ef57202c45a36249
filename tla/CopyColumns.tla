---------------------------- MODULE CopyColumns ----------------------------
(***************************************************************************)
(* Table::copy_columns: columns are copied from a table, the source, to    *)
(* another one, the destination, which may be in the same file.            *)
(*                                                                         *)
(* A copy asks for each column in turn whether both tables have it,        *)
(* deleting those of the destination which are to be replaced; inserts     *)
(* what is missing in one go; adds rows; describes the destination again;  *)
(* and has CFITSIO copy the cells, column by column.  It may throw at any  *)
(* of these steps, and what it has done by then stays done.                *)
(*                                                                         *)
(* CFITSIO keeps two counts of the rows of a table: its own, which is      *)
(* right, and the NAXIS2 keyword, which is brought up to date when the     *)
(* file is flushed, when the CHDU moves away and when the header is        *)
(* redefined.  fits_copy_col goes by NAXIS2 (tests/cfitsio.cc, Flush).     *)
(***************************************************************************)
EXTENDS ColumnInfos

CONSTANTS
    Source, Destination,   \* the two tables
    Names,                 \* column names
    Null,                  \* a cell CFITSIO has made and no one has written
    Junk,                  \* any other value
    InitialColumns,        \* the columns each table may have to begin with
    MaxColumns,            \* the destination has at most this many columns before a copy
    MaxRows,               \* the client writes at most this many rows
    Sharing,               \* whether the tables are in one file: the cases looked at
    CountedLast,           \* the table whose rows are counted last: the compiler's choices
    NameLists,             \* the lists of names the client gives
    FailAfter              \* how many changes CFITSIO makes before a call to it fails

TableObjects == {Source, Destination}

Column ==
    [name : Names, type : ColumnTypes, repeat : Nat \ {0}, width : Nat, tdim : Seq(Nat)]

ASSUME TablesAssumption == Source # Destination
ASSUME CellsAssumption == Null # Junk
ASSUME BoundsAssumption == {MaxColumns, MaxRows} \subseteq Nat

\* What CFITSIO makes of numbers in string columns is left to it.
ASSUME InitialColumnsAssumption ==
    \A t \in TableObjects : \A cs \in InitialColumns[t] :
        /\ cs \in Seq(Column)
        /\ \A n \in DOMAIN cs : Describable(cs[n]) /\ cs[n].type # "String"
ASSUME SharingAssumption == Sharing \subseteq BOOLEAN
ASSUME CountedAssumption == CountedLast \subseteq TableObjects
ASSUME NameListsAssumption == NameLists \subseteq Seq(Names)
ASSUME FailAfterAssumption == FailAfter \subseteq Nat

VARIABLES
    shared,    \* whether both tables are in the same file
    chdu,      \* the table at the CHDU of that file
    cols,      \* the columns of each table
    data,      \* the cells of each table, row by row
    naxis2,    \* the NAXIS2 keyword of each table
    columns,   \* each table's description of its columns
    last       \* history: the latest call, and how it ended

vars == <<shared, chdu, cols, data, naxis2, columns, last>>
-----------------------------------------------------------------------------
Descriptions(cs) == [n \in DOMAIN cs |-> Describe(cs[n], n)]

Rows(st, t) == Len(st.data[t])

\* The table which a CFITSIO call on the file of t works on.
AtChdu(st, t) == IF shared THEN st.chdu ELSE t

Synced(st, t) == [st EXCEPT !.naxis2[t] = Rows(st, t)]

\* set_as_chdu: CFITSIO closes the HDU it leaves.
MovedTo(st, t) ==
    IF shared /\ st.chdu # t THEN [Synced(st, st.chdu) EXCEPT !.chdu = t] ELSE st

\* File::flush, which does not go to the table it is called for.
Flushed(st, t) == Synced(st, AtChdu(st, t))

Throw(st) == [st EXCEPT !.ok = FALSE]

\* A CFITSIO call changes a table; when calls have run out it fails instead.
Spend(st) == [st EXCEPT !.calls = @ - 1]
Fails(st) == st.calls = 0
Fault(st) == [Throw(st) EXCEPT !.fault = TRUE]
-----------------------------------------------------------------------------
(***************************************************************************)
(* CFITSIO's changes of a table                                            *)
(***************************************************************************)
\* A table with other columns and cells; CFITSIO redefines its header.
Rewritten(st, t, cs, cells) == Synced([st EXCEPT !.cols[t] = cs, !.data[t] = cells], t)

WithoutColumn(st, t, n) ==
    Rewritten(st, t, DeleteCol(st.cols[t], n),
              [i \in DOMAIN st.data[t] |-> DeleteCol(st.data[t][i], n)])

\* A column as fits_insert_cols makes it; TDIM and TUNIT are not among what it
\* is given.
Bare(info) == NewColumn(info.ttype, info.type, TformRepeat(info.extent))

\* Variant with a bug: the rows are left as long as they were.
ColumnsWithoutCells(st, t, infos) ==
    Rewritten(st, t, st.cols[t] \o [i \in DOMAIN infos |-> Bare(infos[i])], st.data[t])

\* fits_insert_cols behind the last column
WithColumns(st, t, infos) ==
    Rewritten(st, t, st.cols[t] \o [i \in DOMAIN infos |-> Bare(infos[i])],
              [i \in DOMAIN st.data[t] |-> st.data[t][i] \o [n \in DOMAIN infos |-> Null]])

\* fits_insert_rows
WithRows(st, t, after, count) ==
    LET new == [i \in 1 .. count |-> [n \in DOMAIN st.cols[t] |-> Null]]
        old == st.data[t]
    IN  Rewritten(st, t, st.cols[t],
                  SubSeq(old, 1, after) \o new \o SubSeq(old, after + 1, Len(old)))

SameLayout(col, other) == col.type = other.type /\ col.repeat = other.repeat

RowsToCopy(st, from, to) ==
    IF st.naxis2[from] < st.naxis2[to] THEN st.naxis2[from] ELSE st.naxis2[to]

\* Variant with a bug: numbers the columns alike in both tables.
WithCellsAlike(st, from, m, to, n) ==
    [st EXCEPT !.data[to] =
        [i \in DOMAIN @ |->
            IF i <= RowsToCopy(st, from, to) /\ m \in DOMAIN @[i]
            THEN [@[i] EXCEPT ![m] = st.data[from][i][m]] ELSE @[i]]]

\* The cells of one column of a table, from its rows that are to be copied.
CellsWritten(st, from, m, to, n) ==
    LET copied(i) == IF SameLayout(st.cols[from][m], st.cols[to][n])
                     THEN st.data[from][i][m] ELSE Junk
    IN  [i \in DOMAIN st.data[to] |->
            IF i <= RowsToCopy(st, from, to)
            THEN [st.data[to][i] EXCEPT ![n] = copied(i)] ELSE st.data[to][i]]

\* fits_copy_col into a column which is there.
WithCells(st, from, m, to, n) ==
    [st EXCEPT !.data[to] = CellsWritten(st, from, m, to, n)]
-----------------------------------------------------------------------------
(***************************************************************************)
(* copy_columns, from set_as_chdu to the last fits_copy_col, as steps on   *)
(* the state of the tables.                                                *)
(***************************************************************************)
Modes == {"NoDuplicates", "Replace", "OverWrite"}
Extensions == {"ExtendTable", "ExtendTableIfEmpty", "neither"}
Hows == [mode : Modes, extend : Extensions]

\* colinfo( name ): the file knows where the column is, the cache what it is.
Known(st, t, name) ==
    \E n \in DOMAIN st.columns[t] : IsColnum(st.cols[t], name, n)

Colinfo(st, t, name) ==
    st.columns[t][CHOOSE n \in DOMAIN st.columns[t] : IsColnum(st.cols[t], name, n)]

\* The two requests of one column: the description of the source's is noted,
\* and, unless the destination has one to overwrite, it is to be inserted.
Noted(st, info) == [st EXCEPT !.source_info = Append(@, info)]
ToInsert(st, info) == [st EXCEPT !.insert = Append(@, info)]

\* Variant with a bug: the column is deleted where the source has it.
DeletedAtSource(st, name, info) ==
    IF Fails(st) THEN Fault(st)
    ELSE ToInsert(WithoutColumn(Spend(st), Destination, info.colnum), info)

\* The description of the destination is not made anew.
DeletedByName(st, name, info) ==
    IF ~ Known(st, Destination, name) THEN Throw(st)
    ELSE IF Fails(st) THEN Fault(st)
    ELSE ToInsert(WithoutColumn(Spend(st), Destination,
                                Colinfo(st, Destination, name).colnum), info)

Requested(st, name, mode) ==
    IF ~ Known(st, Source, name) THEN Throw(MovedTo(st, Source))
    ELSE LET info == Colinfo(st, Source, name)
             noted == MovedTo(Noted(MovedTo(st, Source), info), Destination)
         IN  CASE ~ Found(st.cols[Destination], name) -> ToInsert(noted, info)
               [] Found(st.cols[Destination], name) /\ mode = "Replace" ->
                    DeletedByName(noted, name, info)
               [] Found(st.cols[Destination], name) /\ mode = "OverWrite" -> noted
               [] OTHER -> Throw(noted)

Asked(st, names, mode) ==
    FoldLeft(LAMBDA at, name : IF at.ok THEN Requested(at, name, mode) ELSE at, st, names)

\* Variant with a bug: uses the file of the source.
InsertedAtSource(st) ==
    IF ~ st.ok \/ st.insert = <<>> THEN st
    ELSE IF Fails(st) THEN Fault(MovedTo(st, Destination))
    ELSE WithColumns(Spend(MovedTo(st, Destination)), Source, st.insert)

\* Variant with a bug: inserts what was asked for before the exception.
InsertedAnyway(st) ==
    IF st.insert = <<>> THEN st
    ELSE WithColumns(MovedTo(st, Destination), Destination, st.insert)

ColumnsInserted(st) ==
    IF ~ st.ok \/ st.insert = <<>> THEN st
    ELSE IF Fails(st) THEN Fault(MovedTo(st, Destination))
    ELSE WithColumns(Spend(MovedTo(st, Destination)), Destination, st.insert)

\* Rows are missing at the destination and it is to be extended.
Extends(st, extend) ==
    /\ Rows(st, Source) > Rows(st, Destination)
    /\ \/ extend = "ExtendTable"
       \/ extend = "ExtendTableIfEmpty" /\ Rows(st, Destination) = 0

\* The rows are counted once more in the arguments of fits_insert_rows, which C++
\* evaluates in any order: the CHDU is that of the table counted last.
RowsInserted(st, extend, last_counted) ==
    LET counted == MovedTo(MovedTo(st, Source), Destination)
        at == MovedTo(counted, last_counted)
    IN  CASE ~ st.ok -> st
          [] st.ok /\ ~ Extends(st, extend) -> counted
          [] st.ok /\ Extends(st, extend) /\ Fails(st) -> Fault(at)
          [] OTHER -> WithRows(Spend(at), AtChdu(at, Destination), Rows(st, Destination),
                               Rows(st, Source) - Rows(st, Destination))

\* Variant with a bug: what was known of the destination is used.
NotRefreshed(st) == MovedTo(st, Destination)

Refreshed(st) ==
    IF ~ st.ok THEN st
    ELSE [MovedTo(st, Destination) EXCEPT
            !.columns[Destination] = Descriptions(st.cols[Destination])]

CellsCopied(st, info) ==
    IF ~ st.ok THEN st
    ELSE LET at == MovedTo(st, Destination)
             from == AtChdu(at, Source)
         IN  IF ~ Known(st, Destination, info.ttype) \/ info.colnum \notin DOMAIN st.cols[from]
             THEN Throw(at)
             ELSE IF Fails(at) THEN Fault(at)
             ELSE WithCells(Spend(at), from, info.colnum, Destination,
                            Colinfo(st, Destination, info.ttype).colnum)

Copied(st, names, how, last_counted) ==
    LET asked == Asked(MovedTo(MovedTo(st, Source), Destination), names, how.mode)
        extended == RowsInserted(ColumnsInserted(asked), how.extend, last_counted)
    IN  FoldLeft(CellsCopied, Refreshed(extended), asked.source_info)
-----------------------------------------------------------------------------
(***************************************************************************)
(* The client's calls                                                      *)
(***************************************************************************)
OtherCall == [op |-> "other"]

\* The tables before a call, in which so many calls of CFITSIO may change them.
Before(calls) ==
    [chdu |-> chdu, cols |-> cols, data |-> data, naxis2 |-> naxis2, columns |-> columns,
     ok |-> TRUE, fault |-> FALSE, calls |-> calls, source_info |-> <<>>, insert |-> <<>>]

Unlimited == -1

Now == Before(Unlimited)

Become(st) ==
    /\ chdu' = st.chdu
    /\ cols' = st.cols
    /\ data' = st.data
    /\ naxis2' = st.naxis2
    /\ columns' = st.columns
    /\ UNCHANGED shared

\* Both forms of copy_columns with names; copy_column has one name.
Copy(names, how) ==
    /\ Len(cols[Destination]) <= MaxColumns
    /\ \E last_counted \in IF shared THEN CountedLast ELSE {Destination},
          calls \in {Unlimited} \cup FailAfter :
            LET st == Copied(Before(calls), names, how, last_counted)
            IN  /\ Become(IF names = <<>> THEN Now ELSE st)
                /\ last' = [op |-> "copy", names |-> names, how |-> how,
                            ok |-> st.ok \/ names = <<>>, fault |-> st.fault]

\* copy_columns without names asks the description for all the columns which the
\* file has; the description may be short of some.
CopyAll(how) ==
    LET described == columns[Source]
        at == MovedTo(Now, Source)
    IN  \/ /\ Len(described) >= Len(cols[Source])
           /\ Copy([n \in DOMAIN cols[Source] |-> described[n].ttype], how)
        \/ /\ Len(described) < Len(cols[Source])
           /\ Become(at)
           /\ last' = OtherCall

\* A Row adds a row; the cells the client writes are told apart.
WriteRow(t) ==
    LET at == MovedTo(Now, t)
        i == Rows(at, t) + 1
    IN  /\ i <= MaxRows
        /\ Become([at EXCEPT !.data[t] =
                        Append(@, [n \in DOMAIN cols[t] |-> <<t, cols[t][n].name, i>>])])
        /\ last' = OtherCall

\* Table::flush and File::flush
Flush(t) == Become(Flushed(Now, t)) /\ last' = OtherCall

\* Any call of a table which changes nothing.
Query(t) == Become(MovedTo(Now, t)) /\ last' = OtherCall

\* delete_column by name, which does not refresh
DeleteColumnByName(t, name) ==
    /\ Len(cols[t]) > 1
    /\ Known(Now, t, name)
    /\ Become(WithoutColumn(MovedTo(Now, t), t, Colinfo(Now, t, name).colnum))
    /\ last' = OtherCall

\* Another Table may have added a column to the source since it was described.
Init ==
    /\ shared \in Sharing
    /\ chdu \in TableObjects
    /\ cols \in {cs \in [TableObjects -> UNION {InitialColumns[t] : t \in TableObjects}] :
                    \A t \in TableObjects : cs[t] \in InitialColumns[t]}
    /\ data = [t \in TableObjects |-> <<>>]
    /\ naxis2 = [t \in TableObjects |-> 0]
    /\ \E described \in 0 .. 1 :
            columns = [t \in TableObjects |->
                IF t = Source /\ Len(cols[t]) > 1
                THEN SubSeq(Descriptions(cols[t]), 1, Len(cols[t]) - described)
                ELSE Descriptions(cols[t])]
    /\ last = OtherCall

Next ==
    \/ \E t \in TableObjects :
            \/ WriteRow(t)
            \/ Flush(t)
            \/ Query(t)
            \/ \E name \in Names : DeleteColumnByName(t, name)
    \/ \E how \in Hows :
            \/ \E names \in NameLists : Copy(names, how)
            \/ CopyAll(how)

Spec == Init /\ [][Next]_vars
-----------------------------------------------------------------------------
(***************************************************************************)
(* Properties                                                              *)
(***************************************************************************)
TypeOK ==
    /\ shared \in BOOLEAN
    /\ chdu \in TableObjects
    /\ \A t \in TableObjects :
        /\ cols[t] \in Seq(Column)
        /\ \A i \in DOMAIN data[t] : DOMAIN data[t][i] = DOMAIN cols[t]
        /\ naxis2[t] \in 0 .. Len(data[t])
        /\ \A n \in DOMAIN columns[t] : columns[t][n].colnum = n

Described(t) == columns[t] = Descriptions(cols[t])

Distinct(names) == \A i, j \in DOMAIN names : i # j => names[i] # names[j]

\* The names by which CFITSIO finds the columns of a table.
NamesOf(cs) == [n \in DOMAIN cs |-> cs[n].name]

Copying == last'.op = "copy"

\* What a copy which returned has promised of one of its columns, given that
\* every row is counted in NAXIS2.
CopiedAs(name, m, n) ==
    LET from == cols[Source][m]
        to == cols'[Destination][n]
        kept == last'.how.mode = "OverWrite" /\ Found(cols[Destination], name)
    IN  /\ kept \/ SameLayout(from, to)
        /\ SameLayout(from, to) =>
                \A i \in DOMAIN data[Source] \cap DOMAIN data'[Destination] :
                    data'[Destination][i][n] = data[Source][i][m]
        /\ last'.how.extend = "ExtendTable" =>
                DOMAIN data[Source] \subseteq DOMAIN data'[Destination]

NamedColumnsCopied ==
    \A k \in DOMAIN last'.names, m \in DOMAIN cols[Source] :
        cols[Source][m].name = last'.names[k] =>
            \E n \in DOMAIN cols'[Destination] :
                /\ IsColnum(cols'[Destination], last'.names[k], n)
                /\ CopiedAs(last'.names[k], m, n)

Counted == \A t \in TableObjects : naxis2[t] = Len(data[t])

\* NEWS 0.0.7: copy columns from one HDU to another.  After a copy which
\* returns, each of the columns is in the destination once, with the type and
\* the number of elements of the source's, and every row both tables have
\* holds the source's cells; the tables are in two files, the source is
\* described as it is and both have been flushed.
CopiedBetweenFiles ==
    [][ Copying /\ last'.ok /\ ~ shared /\ Described(Source) /\ Counted
            => NamedColumnsCopied ]_vars

\* The same when both are in one file.
CopiedBetweenHdus ==
    [][ Copying /\ last'.ok /\ Described(Source) /\ Counted => NamedColumnsCopied ]_vars

\* The columns of a table which a copy does not name
Others(cs, names) == {n \in DOMAIN cs : cs[n].name \notin names}

\* One by one and in their order, the columns not named of a table are those of a
\* later one, shape for shape and cell for cell in the rows up to the given one.
OthersStand(cs, cells, later, laterCells, names, rows) ==
    \E at \in [Others(cs, names) -> Others(later, names)] :
        /\ \A l \in Others(later, names) : \E n \in Others(cs, names) : at[n] = l
        /\ \A m, n \in Others(cs, names) : m < n => at[m] < at[n]
        /\ \A n \in Others(cs, names) :
            /\ later[at[n]] = cs[n]
            /\ \A i \in 1 .. rows : laterCells[i][at[n]] = cells[i][n]

\* However a copy ends, and in whichever file the tables are, the columns of the
\* destination which it does not name keep their order, their shapes and the
\* cells of the rows that were there.  The source is described as it is: a stale
\* description gives a copy columns of other names than those it was asked for.
OtherColumnsStand ==
    [][ Copying /\ Described(Source) =>
            OthersStand(cols[Destination], data[Destination],
                        cols'[Destination], data'[Destination],
                        {last'.names[k] : k \in DOMAIN last'.names},
                        Len(data[Destination])) ]_vars

\* However a copy ends, it changes nothing in a source in another file.
SourceStands ==
    [][ Copying /\ ~ shared => cols'[Source] = cols[Source] /\ data'[Source] = data[Source] ]_vars

\* One by one and in their order, the columns of a later table are those of an
\* earlier one, cell for cell; the columns which are gone have one of the names.
Thinned(cs, cells, later, laterCells, names) ==
    /\ DOMAIN laterCells = DOMAIN cells
    /\ \E at \in [DOMAIN later -> DOMAIN cs] :
        /\ \A m, n \in DOMAIN later : m < n => at[m] < at[n]
        /\ \A n \in DOMAIN later :
            /\ later[n] = cs[at[n]]
            /\ \A i \in DOMAIN cells : laterCells[i][n] = cells[i][at[n]]
        /\ \A m \in DOMAIN cs : cs[m].name \in names \/ \E n \in DOMAIN later : at[n] = m

\* A copy from another file which throws, CFITSIO having done all it was asked
\* for, has inserted nothing, written nothing and described nothing: all names are
\* looked at before the first insertion.  Columns to be replaced are deleted while the
\* names are looked at, so that some of those it names may be gone; in the other modes the
\* destination is as it was.  The source is described as it is, no name is given twice,
\* and the destination has no two columns of one name: else names are looked
\* up which the copy has made ambiguous.
RefusalOnlyDeletes ==
    [][ (/\ Copying /\ ~ last'.ok /\ ~ last'.fault /\ ~ shared /\ Described(Source)
         /\ Distinct(last'.names) /\ Distinct(NamesOf(cols[Destination])))
            => /\ UNCHANGED columns[Destination]
               /\ Thinned(cols[Destination], data[Destination],
                          cols'[Destination], data'[Destination],
                          {last'.names[k] : k \in DOMAIN last'.names})
               /\ last'.how.mode # "Replace" =>
                        UNCHANGED <<cols[Destination], data[Destination]>> ]_vars

\* A copy which returns has described the destination as it is now, also
\* when it was not before and whichever table was at the CHDU.
DescribedAfterCopy ==
    [][ Copying /\ last'.ok /\ last'.names # <<>> => Described(Destination)' ]_vars
=============================================================================
