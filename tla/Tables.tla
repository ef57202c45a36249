------------------------------- MODULE Tables -------------------------------
(***************************************************************************)
(* Table objects on one open FITS file.                                    *)
(*                                                                         *)
(* The file is a sequence of HDUs and has one current HDU (CHDU), which    *)
(* every CFITSIO routine works on.  A misFITS::Table remembers the number  *)
(* of its HDU and, in columns, a description of each of its columns; it    *)
(* makes its HDU the CHDU before it does anything, and rebuilds the        *)
(* description (refresh) after it has changed the columns.  Any number of  *)
(* tables share the file, and may share an HDU, without knowing of each    *)
(* other, and the client moves the CHDU and deletes HDUs under them.       *)
(*                                                                         *)
(* A call of the library runs to its end before the next one starts, so a  *)
(* call is one step.  It may throw half-way: Faults says which CFITSIO     *)
(* calls inside it may fail for reasons of their own.                      *)
(***************************************************************************)
EXTENDS ColumnInfos

CONSTANTS
    Objects,        \* the Table objects of the client
    Client,         \* stands for the client in calls which are not a table's
    Names,          \* column names
    Extnames,       \* EXTNAMEs the client uses
    Unnamed,        \* the EXTNAME of an HDU which has none
    Types,          \* column types the client adds
    Extents,        \* cell shapes the client asks for
    InitialFiles,   \* the files to start from: sequences of HDUs
    MaxColumns,     \* columns are added to an HDU up to this many
    ReadOnly,       \* the file is open in OpenMode::ReadOnly
    Faults          \* CFITSIO calls that may fail inside a misFITS call

ASSUME ObjectsAssumption == Client \notin Objects
ASSUME NamesAssumption == Unnamed \notin Names \cup Extnames
ASSUME TypesAssumption == Types \subseteq ColumnTypes
ASSUME ExtentsAssumption ==
    \A extent \in Extents : extent \in Seq(Nat \ {0}) /\ Nelem(extent) \in Nat \ {0}
ASSUME MaxColumnsAssumption == MaxColumns \in Nat
ASSUME ModeAssumption == ReadOnly \in BOOLEAN
ASSUME FaultsAssumption ==
    Faults \subseteq {"change",     \* the call which changes the columns
                      "tdim",       \* a TDIM keyword call after it
                      "refresh"}    \* any call of a refresh

Column ==
    [name : Names, type : ColumnTypes \cup {"Complex"}, repeat : Nat \ {0},
     width : Nat, tdim : Seq(Nat)]

HDU == [kind : {"image", "ascii", "binary"}, extname : Extnames \cup {Unnamed}, cols : Seq(Column)]

\* The first HDU of a FITS file is an image.
ASSUME InitialFilesAssumption ==
    \A file \in InitialFiles :
        file \in Seq(HDU) /\ file # <<>> /\ file[1].kind = "image"

VARIABLES
    hdus,      \* the HDUs of the file
    chdu,      \* the number of the CHDU
    table,     \* each object's members: hdu_num_, extname_, columns
    drift,     \* history: why an object's description may not be that of its HDU
    last       \* history: the latest call, and how it ended

vars == <<hdus, chdu, table, drift, last>>

-----------------------------------------------------------------------------
ColumnInfo ==
    [ttype : Names, type : ColumnTypes, extent : Seq(Nat), colnum : Nat \ {0}]

\* An object that does not exist (any more) has no HDU.
NoTable == [hdu_num |-> 0, extname |-> Unnamed, columns |-> <<>>]

Live == {t \in Objects : table[t].hdu_num # 0}

\* What may separate an object from its HDU: another object changed the
\* columns, a call of its own threw, a column was deleted by name, the
\* EXTNAME was set, an HDU at or before its own was deleted.
Reasons == {"other", "failed", "by_name", "renamed", "moved"}

Calls ==
    [op : {"other", "has_keyword", "set_extname", "add", "resize", "delete"},
     obj : Objects \cup {Client}, ok : BOOLEAN, answer : BOOLEAN,
     colnum : Nat, extent : Seq(Nat)]

Call(op, obj, colnum, extent) ==
    [op |-> op, obj |-> obj, ok |-> TRUE, answer |-> TRUE,
     colnum |-> colnum, extent |-> extent]

Plain(op, obj) == Call(op, obj, 0, <<>>)

\* The calls which no property asks about are not told apart.
OtherCall == Plain("other", Client)

Threw(call) == [call EXCEPT !.ok = FALSE]

\* fits_movabs_hdu has an HDU to go to.
Reachable(t) == table[t].hdu_num \in 1 .. Len(hdus)

Own(t) == hdus[table[t].hdu_num]

IsTable(hdu) == hdu.kind \in {"binary", "ascii"}

-----------------------------------------------------------------------------
(***************************************************************************)
(* set_as_chdu and refresh, the two halves of nearly every call            *)
(***************************************************************************)
\* Variant with a bug: CFITSIO is left where the client has moved it.
StaysOnChdu(t) == Reachable(t) /\ chdu' = chdu

SetAsChdu(t) == Reachable(t) /\ chdu' = table[t].hdu_num

\* What CFITSIO reads and changes after a call's set_as_chdu: it knows the
\* CHDU, and nothing of the object which calls it.
Current == hdus[chdu']

SetCols(cols) == hdus' = [hdus EXCEPT ![chdu'].cols = cols]

\* What a change of the CHDU's columns by one object does to the others.
Disturb(t, reasons) ==
    drift' = [u \in Objects |->
                CASE u = t -> reasons
                  [] /\ u # t
                     /\ table[u].hdu_num = chdu'
                     /\ hdus' # hdus -> drift[u] \cup {"other"}
                  [] OTHER -> drift[u]]

Readable(hdu, n) == hdu.kind = "binary" /\ Describable(hdu.cols[n])

Scan(hdu, n) == [i \in 1 .. n |-> Describe(hdu.cols[i], i)]

RefreshThrowsEarly(t, hdu, call) ==
    /\ ~ IsTable(hdu) \/ "refresh" \in Faults
    /\ \E extname \in {table[t].extname} \cup {hdu.extname : fault \in Faults \cap {"refresh"}} :
            table' = [table EXCEPT ![t].extname = extname]
    /\ Disturb(t, drift[t] \cup {"failed"})
    /\ last' = Threw(call)

\* Variant with a bug: EXTNAME is not read again.
ScansColumnsOnly(t, hdu, call) ==
    /\ IsTable(hdu)
    /\ \A i \in 1 .. Len(hdu.cols) : Readable(hdu, i)
    /\ table' = [table EXCEPT ![t].columns = Scan(hdu, Len(hdu.cols))]
    /\ Disturb(t, {})
    /\ last' = call

\* Columns are described one by one after the old descriptions have been
\* thrown away, so an exception leaves those described so far.
RefreshScans(t, hdu, call) ==
    /\ IsTable(hdu)
    /\ \E n \in 0 .. Len(hdu.cols) :
            /\ \A i \in 1 .. n : Readable(hdu, i)
            /\ table' = [table EXCEPT ![t].extname = hdu.extname,
                                      ![t].columns = Scan(hdu, n)]
            /\ \/ /\ n = Len(hdu.cols)
                  /\ Disturb(t, {})
                  /\ last' = call
               \/ /\ n < Len(hdu.cols)
                  /\ ~ Readable(hdu, n + 1) \/ "refresh" \in Faults
                  /\ Disturb(t, drift[t] \cup {"failed"})
                  /\ last' = Threw(call)

\* Variant with a bug: the columns have changed and refresh is not called.
Forgets(t, hdu, call) == UNCHANGED table /\ Disturb(t, {}) /\ last' = call

Refresh(t, hdu, call) == RefreshThrowsEarly(t, hdu, call) \/ RefreshScans(t, hdu, call)

\* A call of t leaves cols in the CHDU and refreshes.
ChangeAndRefresh(t, cols, call) ==
    /\ SetCols(cols)
    /\ Refresh(t, [Current EXCEPT !.cols = cols], call)

\* Variant with a bug: resize sets the extent of the description first.
ThrowsWithExtentSet(t, cols, call) ==
    /\ SetCols(cols)
    /\ table' = IF call.op = "resize" /\ call.colnum \in DOMAIN table[t].columns
                THEN [table EXCEPT ![t].columns[call.colnum].extent = call.extent]
                ELSE table
    /\ Disturb(t, IF cols = Current.cols THEN drift[t] ELSE drift[t] \cup {"failed"})
    /\ last' = Threw(call)

\* A call of t leaves cols in the CHDU and throws before it refreshes.
ChangeAndThrow(t, cols, call) ==
    /\ SetCols(cols)
    /\ UNCHANGED table
    /\ Disturb(t, IF cols = Current.cols THEN drift[t] ELSE drift[t] \cup {"failed"})
    /\ last' = Threw(call)

Throw(t, call) == ChangeAndThrow(t, Current.cols, call)

\* A call of t which leaves everything but the CHDU as it is.
Return(t, call) == UNCHANGED <<hdus, table, drift>> /\ last' = call

-----------------------------------------------------------------------------
(***************************************************************************)
(* The client's own calls: moving about, deleting HDUs, constructing and   *)
(* destroying tables                                                       *)
(***************************************************************************)
\* File::move_by and both forms of File::move_to.
Move ==
    /\ chdu' \in 1 .. Len(hdus)
    /\ last' = OtherCall
    /\ UNCHANGED <<hdus, table, drift>>

\* The primary HDU is not deleted but emptied; after the last HDU the one
\* before it becomes the CHDU.
DeleteHdu ==
    /\ hdus' = IF chdu = 1
               THEN [hdus EXCEPT ![1] = [@ EXCEPT !.kind = "image", !.cols = <<>>,
                                                  !.extname = Unnamed]]
               ELSE RemoveAt(hdus, chdu)
    /\ chdu' = IF chdu > Len(hdus') THEN Len(hdus') ELSE chdu
    /\ drift' = [t \in Objects |->
                    IF chdu # 1 /\ table[t].hdu_num >= chdu
                    THEN drift[t] \cup {"moved"} ELSE drift[t]]
    /\ last' = OtherCall
    /\ UNCHANGED table

\* A failed constructor leaves no object, but may have moved the CHDU.
ConstructOn(t, n) ==
    LET fresh == [hdu_num |-> n, extname |-> hdus[n].extname,
                  columns |-> Scan(hdus[n], Len(hdus[n].cols))]
        complete == IsTable(hdus[n]) /\ \A i \in 1 .. Len(hdus[n].cols) : Readable(hdus[n], i)
    IN  /\ chdu' = n
        /\ UNCHANGED hdus
        /\ \/ /\ complete
              /\ table' = [table EXCEPT ![t] = fresh]
              /\ drift' = [drift EXCEPT ![t] = {}]
              /\ last' = OtherCall
           \/ /\ ~ complete \/ "refresh" \in Faults
              /\ UNCHANGED <<table, drift>>
              /\ last' = Threw(OtherCall)

\* Table( file, hdu_num ); 0 stands for the CHDU.
Construct(t, hdu_num) ==
    /\ t \notin Live
    /\ hdu_num \in 0 .. Len(hdus)
    /\ ConstructOn(t, IF hdu_num = 0 THEN chdu ELSE hdu_num)

\* Table( file, extname ): the first HDU of that name, if there is one.
ConstructByName(t, extname) ==
    /\ t \notin Live
    /\ \E n \in 1 .. Len(hdus) :
            /\ hdus[n].extname = extname
            /\ \A i \in 1 .. n - 1 : hdus[i].extname # extname
            /\ ConstructOn(t, n)

Destroy(t) ==
    /\ t \in Live
    /\ table' = [table EXCEPT ![t] = NoTable]
    /\ drift' = [drift EXCEPT ![t] = {}]
    /\ last' = OtherCall
    /\ UNCHANGED <<hdus, chdu>>

\* Any call of a table whose HDU number is past the end of the file: the
\* move fails, CFITSIO staying where it is or at the last HDU, and throws.
CallUnreachable(t) ==
    /\ t \in Live
    /\ ~ Reachable(t)
    /\ chdu' \in {chdu, Len(hdus)}
    /\ last' = Threw(OtherCall)
    /\ UNCHANGED <<hdus, table, drift>>

-----------------------------------------------------------------------------
(***************************************************************************)
(* Calls which change nothing in the columns                               *)
(***************************************************************************)
\* num_columns, num_rows, has_column, colinfo( name ), get_hdrpos and the
\* keyword calls other than has_keyword: what they leave behind is the CHDU.
Query(t) ==
    /\ t \in Live
    /\ SetAsChdu(t)
    /\ Return(t, OtherCall)

HasTdim(hdu, colnum) == colnum \in 1 .. Len(hdu.cols) /\ hdu.cols[colnum].tdim # NoTdim

\* has_keyword( "TDIM<colnum>" ) reads the CHDU, whichever that is.
HasKeyword(t, colnum) ==
    /\ t \in Live
    /\ Return(t, [Call("has_keyword", t, colnum, <<>>)
                    EXCEPT !.answer = HasTdim(hdus[chdu], colnum)])
    /\ UNCHANGED chdu

\* HDU::refresh, which is public and leaves columns alone.
RefreshHdu(t) ==
    /\ t \in Live
    /\ SetAsChdu(t)
    /\ table' = [table EXCEPT ![t].extname = Current.extname]
    /\ drift' = [drift EXCEPT ![t] = @ \ {"renamed"}]
    /\ last' = OtherCall
    /\ UNCHANGED hdus

\* set_keyword( EXTNAME ) does not touch extname_.
SetExtname(t, extname) ==
    /\ t \in Live
    /\ SetAsChdu(t)
    /\ hdus' = [hdus EXCEPT ![chdu'].extname = extname]
    /\ drift' = [u \in Objects |->
                    IF table[u].hdu_num = chdu'
                    THEN drift[u] \cup {"renamed"} ELSE drift[u]]
    /\ last' = Plain("set_extname", t)
    /\ UNCHANGED table
-----------------------------------------------------------------------------
(***************************************************************************)
(* Adding columns                                                          *)
(***************************************************************************)
\* Both forms of add: a column number of 0 stands for the end.
AddColumn(t, ttype, type, extent, colnum) ==
    /\ t \in Live
    /\ SetAsChdu(t)
    /\ \E hdu \in {Current} :
        LET cols == hdu.cols
            at == IF colnum = 0 THEN Len(cols) + 1 ELSE colnum
            call == Plain("add", t)
        IN  /\ Len(cols) < MaxColumns
            /\ \/ /\ ReadOnly \/ hdu.kind # "binary"
                  /\ Throw(t, call)
               \/ /\ ~ ReadOnly /\ hdu.kind = "binary"
                  /\ \/ /\ ~ TdimMisses(cols, extent, at)
                        /\ ChangeAndRefresh(t, Inserted(cols, ttype, type, extent, at), call)
                     \/ /\ "change" \in Faults
                        /\ Throw(t, call)
                     \/ /\ \/ TdimMisses(cols, extent, at)
                           \/ "tdim" \in Faults /\ NeedsTdim(extent)
                        /\ ChangeAndThrow(t, InsertedBare(cols, ttype, type, extent, at), call)

Add(t, ttype, type, extent, colnum) == AddColumn(t, ttype, type, extent, colnum)

\* add( ColumnInfo ) with a description taken from a table.
AddLike(t, u, n) ==
    /\ u \in Live
    /\ n \in DOMAIN table[u].columns
    /\ LET info == table[u].columns[n]
       IN  AddColumn(t, info.ttype, info.type, info.extent, info.colnum)
-----------------------------------------------------------------------------
(***************************************************************************)
(* Resizing columns                                                        *)
(***************************************************************************)
ResizeColumn(t, colnum, extent, call) ==
    LET columns == table[t].columns
    IN  \E hdu \in {Current} :
           \/ /\ colnum \notin DOMAIN columns      \* columns.at
              /\ Throw(t, call)
           \/ /\ colnum \in DOMAIN columns
              /\ SameShape(columns[colnum].extent, extent)
              /\ Return(t, call)
           \/ /\ colnum \in DOMAIN columns
              /\ ~ SameShape(columns[colnum].extent, extent)
              /\ \/ /\ \/ hdu.kind # "binary" \/ colnum \notin DOMAIN hdu.cols
                       \/ "change" \in Faults
                    /\ Throw(t, call)
                 \/ /\ hdu.kind = "binary" /\ colnum \in DOMAIN hdu.cols
                    /\ \/ ChangeAndRefresh(t, Resized(hdu.cols, colnum, extent), call)
                       \/ /\ "tdim" \in Faults
                          /\ ChangeAndThrow(t, Lengthened(hdu.cols, colnum, extent), call)

Resize(t, colnum, extent) ==
    /\ t \in Live
    /\ SetAsChdu(t)
    /\ ResizeColumn(t, colnum, extent, Call("resize", t, colnum, extent))

\* colinfo( name ): CFITSIO finds the column in the file, the description
\* comes from the cache.
ColinfoThrows(t, name) ==
    \/ ~ Found(Current.cols, name)
    \/ \E n \in DOMAIN Current.cols :
            IsColnum(Current.cols, name, n) /\ n \notin DOMAIN table[t].columns

\* Variant with a bug: the name is looked up in the descriptions.
CachedColnum(t, name, colnum) ==
    \E n \in DOMAIN table[t].columns :
        table[t].columns[n].ttype = name /\ colnum = table[t].columns[n].colnum

\* colinfo( name ).colnum
ColinfoColnum(t, name, colnum) ==
    \E n \in DOMAIN table[t].columns :
        /\ IsColnum(Current.cols, name, n)
        /\ colnum = table[t].columns[n].colnum

ResizeByName(t, name, extent) ==
    /\ t \in Live
    /\ SetAsChdu(t)
    /\ \/ /\ ColinfoThrows(t, name)
          /\ Throw(t, Call("resize", t, 0, extent))
       \/ \E colnum \in 1 .. Len(table[t].columns) :
             /\ ColinfoColnum(t, name, colnum)
             /\ ResizeColumn(t, colnum, extent, Call("resize", t, colnum, extent))
-----------------------------------------------------------------------------
(***************************************************************************)
(* Deleting columns                                                        *)
(***************************************************************************)
DeleteColumn(t, colnum) ==
    LET cols == Current.cols
        call == Plain("delete", t)
    IN  /\ t \in Live
        /\ SetAsChdu(t)
        /\ \/ /\ colnum \notin DOMAIN cols \/ "change" \in Faults
              /\ Throw(t, call)
           \/ /\ colnum \in DOMAIN cols
              /\ ChangeAndRefresh(t, DeleteCol(cols, colnum), call)

\* Unlike the other form, this one does not refresh.
DeleteColumnByName(t, name) ==
    /\ t \in Live
    /\ SetAsChdu(t)
    /\ \/ /\ ColinfoThrows(t, name) \/ "change" \in Faults
          /\ Throw(t, Plain("delete", t))
       \/ \E colnum \in DOMAIN Current.cols :
             /\ ColinfoColnum(t, name, colnum)
             /\ SetCols(DeleteCol(Current.cols, colnum))
             /\ Disturb(t, drift[t] \cup {"by_name"})
             /\ last' = Plain("delete", t)
             /\ UNCHANGED table

-----------------------------------------------------------------------------
Init ==
    /\ hdus \in InitialFiles
    /\ chdu = 1
    /\ table = [t \in Objects |-> NoTable]
    /\ drift = [t \in Objects |-> {}]
    /\ last = OtherCall

TableCall(t) ==
    \/ Query(t)
    \/ RefreshHdu(t)
    \/ \E extname \in Extnames : SetExtname(t, extname)
    \/ \E colnum \in 1 .. MaxColumns : HasKeyword(t, colnum)
    \/ \E ttype \in Names, type \in Types, extent \in Extents, colnum \in 0 .. MaxColumns :
            Add(t, ttype, type, extent, colnum)
    \/ \E u \in Objects, n \in 1 .. MaxColumns : AddLike(t, u, n)
    \/ \E colnum \in 1 .. MaxColumns, extent \in Extents : Resize(t, colnum, extent)
    \/ \E name \in Names, extent \in Extents : ResizeByName(t, name, extent)
    \/ \E colnum \in 1 .. MaxColumns : DeleteColumn(t, colnum)
    \/ \E name \in Names : DeleteColumnByName(t, name)

Next ==
    \/ Move
    \/ DeleteHdu
    \/ \E t \in Objects :
            \/ \E n \in 0 .. Len(hdus) : Construct(t, n)
            \/ \E extname \in Extnames : ConstructByName(t, extname)
            \/ Destroy(t)
            \/ CallUnreachable(t)
            \/ TableCall(t)

Spec == Init /\ [][Next]_vars
-----------------------------------------------------------------------------
(***************************************************************************)
(* Properties                                                              *)
(***************************************************************************)
\* A description never holds more than the columns' names, supported types,
\* shapes and numbers, and an object that exists is never at the primary HDU.
TypeOK ==
    /\ hdus \in Seq(HDU) /\ hdus # <<>> /\ hdus[1].kind = "image"
    /\ chdu \in 1 .. Len(hdus)
    /\ table \in [Objects -> [hdu_num : Nat \ {1}, extname : Extnames \cup {Unnamed},
                              columns : Seq(ColumnInfo)]]
    /\ drift \in [Objects -> SUBSET Reasons]
    /\ last \in Calls

\* The description of t's columns is what a refresh would make it.
ColumnsFresh(t) ==
    /\ Reachable(t)
    /\ \A n \in DOMAIN Own(t).cols : Readable(Own(t), n)
    /\ table[t].columns = Scan(Own(t), Len(Own(t).cols))

\* An object which alone has worked on its HDU, by calls which did not throw
\* and with no column deleted by name, describes it exactly: what colinfo,
\* Row and resize take from columns is what is in the file.  A set_keyword of
\* EXTNAME makes its name stale, and no more than its name.
CacheFresh ==
    \A t \in Live :
        /\ drift[t] \subseteq {"renamed"} => ColumnsFresh(t)
        /\ drift[t] = {} => table[t].extname = Own(t).extname

\* The latest call, if it was a resize, has done what it was asked for.
ResizedAsAsked ==
    last.op = "resize" /\ last.ok /\ drift[last.obj] = {} =>
        SameShape(CellExtent(Own(last.obj).cols[last.colnum]), last.extent)

\* NEWS 0.0.4: Table::resize() resizes a column's vector length.  A resize
\* which returns leaves the column in the shape that was asked for, though it may have
\* returned early on the word of the object's description.
ResizeEffective == [][ResizedAsAsked']_vars

\* The latest call, if it was a resize which threw, has left no description
\* which shows the shape asked for, unless the column has got it.
FailureNotMasked ==
    last.op = "resize" /\ ~ last.ok /\ Reachable(last.obj) =>
        LET columns == table[last.obj].columns
            cols == Own(last.obj).cols
            n == last.colnum
        IN  n \in DOMAIN columns /\ SameShape(columns[n].extent, last.extent) =>
                n \in DOMAIN cols /\ SameShape(ReadTdim(cols[n]), last.extent)

\* A resize which throws after it has changed the column can be tried again:
\* the second call does not return early on the word of the description.
FailedResizeNotMasked == [][FailureNotMasked']_vars

\* Every column which can be described at first can be described for ever:
\* TFORM and TDIM change together in every call (as long as CFITSIO does not
\* fail between the two), so that no refresh of any object throws for it.
TdimConsistent ==
    \A h \in DOMAIN hdus :
        \A n \in DOMAIN hdus[h].cols : TdimReadable(hdus[h].cols[n])

\* tests/table.cc MetaData: a table is isolated from the position of its
\* file, so has_keyword answers for the table's own HDU.
HasKeywordIsOwn ==
    last.op = "has_keyword" /\ Reachable(last.obj) =>
        last.answer = HasTdim(Own(last.obj), last.colnum)

\* CFITSIO changes the CHDU, wherever the client has left it, and is not told
\* for which object.  A call of a table changes no HDU but the one with the
\* object's number, since it first makes that the CHDU.
ChangesStayInHdu ==
    [][ \A h \in DOMAIN hdus :
            last'.obj # Client /\ hdus'[h] # hdus[h] => h = table[last'.obj].hdu_num ]_vars

\* A call by name hits the column of that name in the file, however stale
\* the description whose entry it looks up may be.
NamedColumnOnly ==
    [][ \A t \in Live, name \in Names :
            LET h == table[t].hdu_num
                cols == hdus[h].cols
                Named(n) == n \in DOMAIN cols /\ cols[n].name = name
            IN  /\ last'.op = "delete" /\ hdus' # hdus /\ DeleteColumnByName(t, name) =>
                        \E n \in DOMAIN cols :
                            Named(n) /\ hdus'[h].cols = RemoveAt(cols, n)
                /\ \A extent \in Extents :
                        last'.op = "resize" /\ hdus' # hdus /\ ResizeByName(t, name, extent) =>
                            \A n \in DOMAIN cols :
                                hdus'[h].cols[n] # cols[n] => Named(n) ]_vars

-----------------------------------------------------------------------------
(***************************************************************************)
(* Refinement                                                              *)
(***************************************************************************)
ColumnLayout(col) ==
    [name |-> col.name, type |-> col.type, shape |-> Squeeze(CellExtent(col))]

LayoutOf(file) ==
    [h \in DOMAIN file |->
        [n \in DOMAIN file[h].cols |-> ColumnLayout(file[h].cols[n])]]

Abstract ==
    INSTANCE Layouts WITH
        layout <- LayoutOf(hdus),
        Types <- {StoredType(type) : type \in Types},
        Shapes <- {Squeeze(extent) : extent \in Extents},
        InitialLayouts <- {LayoutOf(file) : file \in InitialFiles}

\* However stale its description, and though TFORM and TDIM are written by
\* two CFITSIO calls, each call of a table does to the columns of the file
\* one of the things Layouts allows, or nothing.
ImplementsLayouts == Abstract!Spec
=============================================================================
