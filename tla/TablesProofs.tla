---------------------------- MODULE TablesProofs ----------------------------
(***************************************************************************)
(* Theorems about Tables, for any number of objects, names, shapes and     *)
(* HDUs, either mode and any faults.                                       *)
(***************************************************************************)
EXTENDS Tables, ColumnLemmas

-----------------------------------------------------------------------------
(***************************************************************************)
(* Columns: what CFITSIO and ColumnInfo make of typed columns              *)
(***************************************************************************)
LEMMA InsertColType ==
    ASSUME NEW S, NEW s \in Seq(S), NEW e \in S, NEW n \in Nat \ {0}
    PROVE  /\ InsertCol(s, n, e) \in Seq(S)
           /\ Len(InsertCol(s, n, e)) = Len(s) + 1
<1>1. CASE n > Len(s)
  <2>1. InsertCol(s, n, e) = Append(s, e)
    BY <1>1 DEF InsertCol
  <2> QED
    BY <2>1, AppendProperties
<1>2. CASE ~ (n > Len(s))
  <2>1. Len(s) \in Nat
    BY LenProperties
  <2>2. n \in 1 .. Len(s)
    BY <1>2, <2>1
  <2>3. InsertCol(s, n, e) = InsertAt(s, n, e)
    BY <1>2 DEF InsertCol
  <2> QED
    BY <2>2, <2>3, InsertAtProperties DEF Grows
<1> QED
  BY <1>1, <1>2

LEMMA NewColumnType ==
    ASSUME NEW ttype \in Names, NEW type \in ColumnTypes, NEW extent
    PROVE  NewColumn(ttype, StoredType(type), TformRepeat(extent)) \in Column
<1>1. StoredType(type) \in ColumnTypes
  BY DEF StoredType, ColumnTypes
<1>2. TformRepeat(extent) \in Nat \ {0}
  BY DEF TformRepeat
<1>3. <<>> \in Seq(Nat)
  OBVIOUS
<1> QED
  BY <1>1, <1>2, <1>3 DEF NewColumn, NoTdim, Column

LEMMA ShapedColumnType ==
    ASSUME NEW ttype \in Names, NEW type \in ColumnTypes, NEW extent \in Seq(Nat)
    PROVE  ShapedColumn(ttype, type, extent) \in Column
<1> DEFINE bare == NewColumn(ttype, StoredType(type), TformRepeat(extent))
<1>1. bare \in Column
  BY NewColumnType
<1>2. [bare EXCEPT !.tdim = extent] \in Column
  <2> HIDE DEF bare
  <2> QED
    BY <1>1 DEF Column
<1> QED
  BY <1>1, <1>2 DEF ShapedColumn

\* CFITSIO has failed after it has given the column another length.
LengthenedColumn(col, extent) == [col EXCEPT !.repeat = Nelem(extent)]

LEMMA ReshapedColumnType ==
    ASSUME NEW col \in Column, NEW extent \in Extents
    PROVE  /\ ReshapedColumn(col, extent) \in Column
           /\ LengthenedColumn(col, extent) \in Column
<1>1. extent \in Seq(Nat) /\ Nelem(extent) \in Nat \ {0}
  BY ExtentsAssumption, SeqMonotonic
<1>2. (IF IsVector(extent) THEN NoTdim ELSE extent) \in Seq(Nat)
  BY <1>1 DEF NoTdim
<1> QED
  BY <1>1, <1>2 DEF ReshapedColumn, LengthenedColumn, Column

LEMMA CellExtentType ==
    ASSUME NEW col \in Column
    PROVE  CellExtent(col) \in Seq(Nat)
<1>1. col.repeat \in Nat \ {0} /\ col.width \in Nat /\ col.tdim \in Seq(Nat)
  BY DEF Column
<1>2. StringWidth(col) \in Nat \ {0}
  BY <1>1 DEF StringWidth
<1>3. col.repeat \div StringWidth(col) \in Nat
  BY <1>1, <1>2
<1>4. <<StringWidth(col), col.repeat \div StringWidth(col)>> \in Seq(Nat)
  BY <1>2, <1>3
<1>5. ReadTdim(col) \in Seq(Nat)
  BY <1>1 DEF ReadTdim
<1> QED
  BY <1>4, <1>5 DEF CellExtent

LEMMA DescribeType ==
    ASSUME NEW col \in Column, col.type \in ColumnTypes, NEW i \in Nat \ {0}
    PROVE  Describe(col, i) \in ColumnInfo
<1>1. col.name \in Names
  BY DEF Column
<1>2. CellExtent(col) \in Seq(Nat)
  BY CellExtentType
<1> QED
  BY <1>1, <1>2 DEF Describe, ColumnInfo

LEMMA ScanType ==
    ASSUME NEW hdu \in HDU, NEW n \in 0 .. Len(hdu.cols),
           \A i \in 1 .. n : Readable(hdu, i)
    PROVE  Scan(hdu, n) \in Seq(ColumnInfo)
<1>1. hdu.cols \in Seq(Column)
  BY DEF HDU
<1>2. Len(hdu.cols) \in Nat
  BY <1>1, LenProperties
<1>3. ASSUME NEW i \in 1 .. n
      PROVE  Describe(hdu.cols[i], i) \in ColumnInfo
  <2>1. hdu.cols[i] \in Column
    BY <1>1, <1>2, ElementOfSeq
  <2>2. hdu.cols[i].type \in ColumnTypes
    BY DEF Readable, Describable
  <2>3. i \in Nat \ {0}
    BY <1>2
  <2> QED
    BY <2>1, <2>2, <2>3, DescribeType
<1>4. n \in Nat
  BY <1>2
<1>5. Scan(hdu, n) \in [1 .. n -> ColumnInfo]
  BY <1>3 DEF Scan
<1> QED
  BY <1>4, <1>5, SeqDef

-----------------------------------------------------------------------------
(***************************************************************************)
(* Types                                                                   *)
(***************************************************************************)
TableType ==
    [hdu_num : Nat \ {1}, extname : Extnames \cup {Unnamed}, columns : Seq(ColumnInfo)]

LEMMA OwnType ==
    ASSUME TypeOK, NEW t \in Objects, t \in Live, Reachable(t)
    PROVE  /\ Len(hdus) \in Nat
           /\ table[t].hdu_num \in 2 .. Len(hdus)
           /\ Own(t) \in HDU
           /\ Own(t).cols \in Seq(Column)
<1>1. Len(hdus) \in Nat
  BY LenProperties DEF TypeOK
<1>2. table[t].hdu_num \in Nat \ {0, 1}
  BY DEF TypeOK, Live
<1>3. table[t].hdu_num \in 1 .. Len(hdus)
  BY DEF Reachable
<1>4. Own(t) \in HDU
  BY <1>3, ElementOfSeq DEF Own, TypeOK
<1> QED
  BY <1>1, <1>2, <1>3, <1>4 DEF HDU

\* After set_as_chdu CFITSIO works on the object's own HDU.
LEMMA CurrentIsOwn ==
    ASSUME NEW t, SetAsChdu(t)
    PROVE  Reachable(t) /\ chdu' = table[t].hdu_num /\ Current = Own(t)
BY DEF SetAsChdu, Current, Own

\* What set_as_chdu and a change of the columns leave of the file.
LEMMA SetColsEffect ==
    ASSUME TypeOK, NEW t \in Objects, t \in Live, SetAsChdu(t),
           NEW cols \in Seq(Column), SetCols(cols)
    PROVE  /\ hdus' \in Seq(HDU) /\ hdus' # <<>> /\ hdus'[1].kind = "image"
           /\ Len(hdus') = Len(hdus)
           /\ \A h \in 1 .. Len(hdus) :
                hdus'[h] = IF h = table[t].hdu_num THEN [hdus[h] EXCEPT !.cols = cols]
                           ELSE hdus[h]
           /\ [Own(t) EXCEPT !.cols = cols] \in HDU
<1> DEFINE new == [Own(t) EXCEPT !.cols = cols]
<1>1. /\ Len(hdus) \in Nat
      /\ table[t].hdu_num \in 2 .. Len(hdus)
      /\ Own(t) \in HDU
  BY CurrentIsOwn, OwnType
<1>2. new \in HDU
  BY <1>1 DEF HDU
<1>3. hdus \in Seq(HDU)
  BY DEF TypeOK
<1>4. hdus' = [hdus EXCEPT ![table[t].hdu_num] = new]
  BY CurrentIsOwn DEF SetCols, Own
<1> HIDE DEF new
<1>5. /\ hdus' \in Seq(HDU)
      /\ Len(hdus') = Len(hdus)
      /\ \A h \in 1 .. Len(hdus) : hdus'[h] = IF h = table[t].hdu_num THEN new ELSE hdus[h]
  BY <1>1, <1>2, <1>3, <1>4, ExceptSeq
<1>6. hdus'[1] = hdus[1]
  BY <1>1, <1>5
<1>7. hdus' # <<>>
  BY <1>1, <1>5
<1> QED
  BY <1>2, <1>5, <1>6, <1>7 DEF new, TypeOK, Own

LEMMA DisturbType ==
    ASSUME TypeOK, NEW t \in Objects, NEW reasons \in SUBSET Reasons, Disturb(t, reasons)
    PROVE  drift' \in [Objects -> SUBSET Reasons]
<1>1. "other" \in Reasons
  BY DEF Reasons
<1>2. \A u \in Objects : drift[u] \in SUBSET Reasons
  BY DEF TypeOK
<1> QED
  BY <1>1, <1>2 DEF Disturb

LEMMA CallTypes ==
    /\ OtherCall \in Calls
    /\ \A call \in Calls : Threw(call) \in Calls
    /\ \A t \in Objects, op \in {"other", "has_keyword", "set_extname", "add", "resize", "delete"} :
            Plain(op, t) \in Calls
    /\ \A t \in Objects, n \in Nat, extent \in Seq(Nat) :
            /\ Call("resize", t, n, extent) \in Calls
            /\ Call("has_keyword", t, n, extent) \in Calls
<1>1. <<>> \in Seq(Nat)
  OBVIOUS
<1> QED
  BY <1>1 DEF OtherCall, Plain, Call, Calls, Threw

LEMMA RefreshType ==
    ASSUME TypeOK, NEW t \in Objects, t \in Live,
           NEW hdu \in HDU, NEW call \in Calls, Refresh(t, hdu, call)
    PROVE  /\ table' \in [Objects -> TableType]
           /\ drift' \in [Objects -> SUBSET Reasons]
           /\ last' \in Calls
<1> USE DEF TableType
<1>1. table \in [Objects -> TableType] /\ drift[t] \in SUBSET Reasons
  BY DEF TypeOK
<1>2. /\ hdu.extname \in Extnames \cup {Unnamed}
      /\ table[t].extname \in Extnames \cup {Unnamed}
  BY <1>1 DEF HDU
<1>3. {} \in SUBSET Reasons /\ drift[t] \cup {"failed"} \in SUBSET Reasons
  BY <1>1 DEF Reasons
<1>4. CASE RefreshThrowsEarly(t, hdu, call)
  <2>1. \E extname \in Extnames \cup {Unnamed} : table' = [table EXCEPT ![t].extname = extname]
    BY <1>2, <1>4 DEF RefreshThrowsEarly
  <2>2. table' \in [Objects -> TableType]
    BY <1>1, <2>1
  <2>3. drift' \in [Objects -> SUBSET Reasons]
    BY <1>3, <1>4, DisturbType DEF RefreshThrowsEarly
  <2>4. last' \in Calls
    BY <1>4, CallTypes DEF RefreshThrowsEarly
  <2> QED
    BY <2>2, <2>3, <2>4
<1>5. CASE RefreshScans(t, hdu, call)
  <2>1. PICK n \in 0 .. Len(hdu.cols) :
            /\ \A i \in 1 .. n : Readable(hdu, i)
            /\ table' = [table EXCEPT ![t].extname = hdu.extname,
                                      ![t].columns = Scan(hdu, n)]
            /\ \/ Disturb(t, {}) /\ last' = call
               \/ Disturb(t, drift[t] \cup {"failed"}) /\ last' = Threw(call)
    BY <1>5 DEF RefreshScans
  <2>2. Scan(hdu, n) \in Seq(ColumnInfo)
    BY <2>1, ScanType
  <2>3. table' \in [Objects -> TableType]
    BY <1>1, <1>2, <2>1, <2>2
  <2>4. drift' \in [Objects -> SUBSET Reasons]
    BY <1>3, <2>1, DisturbType
  <2>5. last' \in Calls
    BY <2>1, CallTypes
  <2> QED
    BY <2>3, <2>4, <2>5
<1> QED
  BY <1>4, <1>5 DEF Refresh

LEMMA ChangeAndRefreshType ==
    ASSUME TypeOK, NEW t \in Objects, t \in Live, SetAsChdu(t),
           NEW cols \in Seq(Column), NEW call \in Calls, ChangeAndRefresh(t, cols, call)
    PROVE  TypeOK'
<1>1. Reachable(t) /\ chdu' = table[t].hdu_num /\ Current = Own(t) /\ SetCols(cols)
  BY CurrentIsOwn DEF ChangeAndRefresh
<1>2. /\ hdus' \in Seq(HDU) /\ hdus' # <<>> /\ hdus'[1].kind = "image"
      /\ Len(hdus') = Len(hdus)
      /\ [Own(t) EXCEPT !.cols = cols] \in HDU
  BY <1>1, SetColsEffect
<1>3. chdu' \in 1 .. Len(hdus')
  BY <1>1, <1>2 DEF Reachable
<1>4. Refresh(t, [Own(t) EXCEPT !.cols = cols], call)
  BY <1>1 DEF ChangeAndRefresh
<1>5. /\ table' \in [Objects -> TableType]
      /\ drift' \in [Objects -> SUBSET Reasons]
      /\ last' \in Calls
  BY <1>2, <1>4, RefreshType
<1> QED
  BY <1>2, <1>3, <1>5 DEF TypeOK, TableType

LEMMA ChangeAndThrowType ==
    ASSUME TypeOK, NEW t \in Objects, t \in Live, SetAsChdu(t),
           NEW cols \in Seq(Column), NEW call \in Calls, ChangeAndThrow(t, cols, call)
    PROVE  TypeOK'
<1>1. Reachable(t) /\ chdu' = table[t].hdu_num /\ SetCols(cols)
  BY CurrentIsOwn DEF ChangeAndThrow
<1>2. /\ hdus' \in Seq(HDU) /\ hdus' # <<>> /\ hdus'[1].kind = "image"
      /\ Len(hdus') = Len(hdus)
  BY <1>1, SetColsEffect
<1>3. chdu' \in 1 .. Len(hdus')
  BY <1>1, <1>2 DEF Reachable
<1>4. last' \in Calls
  BY CallTypes DEF ChangeAndThrow
<1>5. /\ drift[t] \in SUBSET Reasons
      /\ drift[t] \cup {"failed"} \in SUBSET Reasons
  BY DEF TypeOK, Reasons
<1>6. drift' \in [Objects -> SUBSET Reasons]
  BY <1>5, DisturbType DEF ChangeAndThrow
<1> QED
  BY <1>2, <1>3, <1>4, <1>6 DEF TypeOK, ChangeAndThrow

LEMMA DeleteHduEffect ==
    ASSUME TypeOK, DeleteHdu
    PROVE  /\ hdus' \in Seq(HDU) /\ hdus' # <<>> /\ hdus'[1].kind = "image"
           /\ Len(hdus') = IF chdu = 1 THEN Len(hdus) ELSE Len(hdus) - 1
           /\ \A h \in 1 .. Len(hdus) :
                (IF chdu = 1 THEN h # 1 ELSE h < chdu) =>
                    h \in 1 .. Len(hdus') /\ hdus'[h] = hdus[h]
<1>1. hdus \in Seq(HDU) /\ chdu \in 1 .. Len(hdus) /\ Len(hdus) \in Nat
  BY LenProperties DEF TypeOK
<1>2. CASE chdu = 1
  <2> DEFINE new == [hdus[1] EXCEPT !.kind = "image", !.cols = <<>>, !.extname = Unnamed]
  <2>1. hdus[1] \in HDU
    BY <1>1, <1>2, ElementOfSeq
  <2>2. <<>> \in Seq(Column)
    OBVIOUS
  <2>3. new \in HDU /\ new.kind = "image"
    BY <2>1, <2>2 DEF HDU
  <2>4. hdus' = [hdus EXCEPT ![1] = new]
    BY <1>2 DEF DeleteHdu
  <2> HIDE DEF new
  <2>5. /\ hdus' \in Seq(HDU)
        /\ Len(hdus') = Len(hdus)
        /\ \A h \in 1 .. Len(hdus) : hdus'[h] = IF h = 1 THEN new ELSE hdus[h]
    BY <1>1, <1>2, <2>3, <2>4, ExceptSeq
  <2>6. hdus' # <<>>
    BY <1>1, <2>5
  <2> QED
    BY <1>1, <1>2, <2>3, <2>5, <2>6
<1>3. CASE chdu # 1
  <2>1. hdus' = RemoveAt(hdus, chdu)
    BY <1>3 DEF DeleteHdu
  <2>2. /\ hdus' \in Seq(HDU)
        /\ Len(hdus') = Len(hdus) - 1
        /\ \A h \in 1 .. chdu - 1 : hdus'[h] = hdus[h]
    BY <1>1, <2>1, RemoveAtProperties
  <2>3. hdus'[1] = hdus[1] /\ hdus' # <<>>
    BY <1>1, <1>3, <2>2
  <2> QED
    BY <1>1, <1>3, <2>2, <2>3 DEF TypeOK
<1> QED
  BY <1>2, <1>3

LEMMA ConstructOnType ==
    ASSUME TypeOK, NEW t \in Objects, NEW n \in 1 .. Len(hdus), ConstructOn(t, n)
    PROVE  TypeOK'
<1> DEFINE complete == IsTable(hdus[n]) /\ \A i \in 1 .. Len(hdus[n].cols) : Readable(hdus[n], i)
           fresh == [hdu_num |-> n, extname |-> hdus[n].extname,
                     columns |-> Scan(hdus[n], Len(hdus[n].cols))]
<1>1. /\ chdu' = n /\ UNCHANGED hdus
      /\ \/ /\ complete
            /\ table' = [table EXCEPT ![t] = fresh]
            /\ drift' = [drift EXCEPT ![t] = {}]
            /\ last' = OtherCall
         \/ UNCHANGED <<table, drift>> /\ last' = Threw(OtherCall)
  BY DEF ConstructOn
<1>2. hdus[n] \in HDU /\ hdus[n].cols \in Seq(Column) /\ Len(hdus[n].cols) \in Nat
  <2>1. hdus[n] \in HDU
    BY ElementOfSeq DEF TypeOK
  <2>2. hdus[n].cols \in Seq(Column)
    BY <2>1 DEF HDU
  <2> QED
    BY <2>1, <2>2, LenProperties
<1>3. complete => fresh \in TableType
  <2> SUFFICES ASSUME complete PROVE fresh \in TableType
    OBVIOUS
  <2>1. n # 1
    BY DEF TypeOK, IsTable
  <2>2. n \in Nat
    BY LenProperties DEF TypeOK
  <2>3. Scan(hdus[n], Len(hdus[n].cols)) \in Seq(ColumnInfo)
    BY <1>2, ScanType
  <2>4. hdus[n].extname \in Extnames \cup {Unnamed}
    BY <1>2 DEF HDU
  <2> QED
    BY <2>1, <2>2, <2>3, <2>4 DEF TableType
<1> HIDE DEF complete, fresh
<1>4. table' \in [Objects -> TableType] /\ drift' \in [Objects -> SUBSET Reasons]
  <2>1. table \in [Objects -> TableType] /\ drift \in [Objects -> SUBSET Reasons]
    BY DEF TypeOK, TableType
  <2>2. CASE complete /\ table' = [table EXCEPT ![t] = fresh] /\ drift' = [drift EXCEPT ![t] = {}]
    BY <1>3, <2>1, <2>2
  <2>3. CASE UNCHANGED <<table, drift>>
    BY <2>1, <2>3
  <2> QED
    BY <1>1, <2>2, <2>3
<1>5. last' \in Calls
  BY <1>1, CallTypes
<1> QED
  BY <1>1, <1>4, <1>5 DEF TypeOK, TableType

-----------------------------------------------------------------------------
(***************************************************************************)
(* What a call makes of the columns of an HDU: an edit of one column, of a *)
(* type and shape which the client has asked for or which it has taken     *)
(* from a description.                                                     *)
(***************************************************************************)
Asked(type, extent) ==
    \/ type \in Types /\ extent \in Extents
    \/ \E t \in Objects : \E n \in DOMAIN table[t].columns :
            type = table[t].columns[n].type /\ extent = table[t].columns[n].extent

EditedTo(old, cols) ==
    \/ cols = old
    \/ \E ttype \in Names, type \in ColumnTypes, extent \in Seq(Nat), n \in Nat \ {0} :
            /\ Asked(type, extent)
            /\ \/ cols = InsertCol(old, n, ShapedColumn(ttype, type, extent))
               \/ cols = InsertCol(old, n, NewColumn(ttype, StoredType(type), TformRepeat(extent)))
    \/ \E n \in DOMAIN old :
            \/ cols = RemoveAt(old, n)
            \/ \E extent \in Extents :
                    \/ cols = [old EXCEPT ![n] = ReshapedColumn(old[n], extent)]
                    \/ /\ "tdim" \in Faults
                       /\ cols = [old EXCEPT ![n] = LengthenedColumn(old[n], extent)]

\* A kind of columns which edits keep.
Kind(S) ==
    /\ \A ttype \in Names, type \in ColumnTypes, extent \in Seq(Nat) :
            Asked(type, extent) =>
                /\ ShapedColumn(ttype, type, extent) \in S
                /\ NewColumn(ttype, StoredType(type), TformRepeat(extent)) \in S
    /\ \A col \in S, extent \in Extents :
            /\ ReshapedColumn(col, extent) \in S
            /\ "tdim" \in Faults => LengthenedColumn(col, extent) \in S

LEMMA EditedKeepsKind ==
    ASSUME NEW S, Kind(S), NEW old \in Seq(S), NEW cols, EditedTo(old, cols)
    PROVE  cols \in Seq(S)
<1>1. DOMAIN old = 1 .. Len(old) /\ \A n \in DOMAIN old : old[n] \in S
  BY LenProperties, ElementOfSeq
<1>2. ASSUME NEW ttype \in Names, NEW type \in ColumnTypes, NEW extent \in Seq(Nat),
             NEW n \in Nat \ {0}, Asked(type, extent)
      PROVE  /\ InsertCol(old, n, ShapedColumn(ttype, type, extent)) \in Seq(S)
             /\ InsertCol(old, n, NewColumn(ttype, StoredType(type), TformRepeat(extent))) \in Seq(S)
  <2>1. /\ ShapedColumn(ttype, type, extent) \in S
        /\ NewColumn(ttype, StoredType(type), TformRepeat(extent)) \in S
    BY <1>2 DEF Kind
  <2> QED
    BY <2>1, InsertColType
<1>3. ASSUME NEW n \in DOMAIN old
      PROVE  RemoveAt(old, n) \in Seq(S)
  BY <1>1, RemoveAtProperties
<1>4. ASSUME NEW n \in DOMAIN old, NEW col \in S
      PROVE  [old EXCEPT ![n] = col] \in Seq(S)
  BY <1>1, ExceptSeq
<1>5. ASSUME NEW n \in DOMAIN old, NEW extent \in Extents
      PROVE  /\ ReshapedColumn(old[n], extent) \in S
             /\ "tdim" \in Faults => LengthenedColumn(old[n], extent) \in S
  BY <1>1 DEF Kind
<1> QED
  BY <1>2, <1>3, <1>4, <1>5 DEF EditedTo

\* Columns whose TDIM accounts for their elements.
SoundColumn == {col \in Column : Sound(col)}

\* An int can count the elements of every shape which the client asks for.
ShapesCounted == Extents \subseteq CountedShape

\* Besides, every call which writes a TFORM also writes the TDIM.
TdimsWritten == "tdim" \notin Faults /\ ShapesCounted

\* An int can count the elements of every description's shape.
DescriptionsCounted ==
    \A t \in Objects : \A n \in DOMAIN table[t].columns : table[t].columns[n].extent \in CountedShape

LEMMA SoundColumnKind ==
    ASSUME TdimsWritten, DescriptionsCounted
    PROVE  Kind(SoundColumn)
<1>1. ASSUME NEW ttype \in Names, NEW type \in ColumnTypes, NEW extent \in Seq(Nat),
             Asked(type, extent)
      PROVE  /\ ShapedColumn(ttype, type, extent) \in SoundColumn
             /\ NewColumn(ttype, StoredType(type), TformRepeat(extent)) \in SoundColumn
  <2>1. extent \in CountedShape
    BY <1>1 DEF Asked, TdimsWritten, ShapesCounted, DescriptionsCounted
  <2> DEFINE bare == NewColumn(ttype, StoredType(type), TformRepeat(extent))
             full == ShapedColumn(ttype, type, extent)
  <2>2. bare \in Column /\ full \in Column
    BY NewColumnType, ShapedColumnType
  <2>3. Sound(bare) /\ Sound(full)
    BY <2>1, NewColumnSound, ShapedColumnDescribed
  <2> HIDE DEF bare, full
  <2> QED
    BY <2>2, <2>3 DEF SoundColumn, bare, full
<1>2. ASSUME NEW col \in SoundColumn, NEW extent \in Extents
      PROVE  ReshapedColumn(col, extent) \in SoundColumn
  <2>1. col \in Column /\ ReshapedColumn(col, extent) \in Column
    BY ReshapedColumnType DEF SoundColumn
  <2>2. extent \in CountedShape
    BY DEF TdimsWritten, ShapesCounted
  <2>3. Sound(ReshapedColumn(col, extent))
    BY <2>1, <2>2, ReshapedColumnDescribed DEF Column
  <2> QED
    BY <2>1, <2>3 DEF SoundColumn
<1> QED
  BY <1>1, <1>2 DEF Kind, TdimsWritten

\* Columns which are not string columns cut into substrings.
UncutColumn == {col \in Column : col.width = 0}

LEMMA UncutColumnKind == Kind(UncutColumn)
<1>1. ASSUME NEW ttype \in Names, NEW type \in ColumnTypes, NEW extent \in Seq(Nat)
      PROVE  /\ ShapedColumn(ttype, type, extent) \in UncutColumn
             /\ NewColumn(ttype, StoredType(type), TformRepeat(extent)) \in UncutColumn
  <2> DEFINE bare == NewColumn(ttype, StoredType(type), TformRepeat(extent))
             full == ShapedColumn(ttype, type, extent)
  <2>1. bare \in Column /\ full \in Column
    BY NewColumnType, ShapedColumnType
  <2>2. bare.width = 0
    BY DEF NewColumn
  <2>3. full.width = 0
    BY ShapedColumnFields
  <2> HIDE DEF bare, full
  <2> QED
    BY <2>1, <2>2, <2>3 DEF UncutColumn, bare, full
<1>2. ASSUME NEW col \in UncutColumn, NEW extent \in Extents
      PROVE  /\ ReshapedColumn(col, extent) \in UncutColumn
             /\ LengthenedColumn(col, extent) \in UncutColumn
  <2>1. col \in Column /\ col.width = 0
    BY DEF UncutColumn
  <2>2. ReshapedColumn(col, extent) \in Column /\ LengthenedColumn(col, extent) \in Column
    BY <2>1, ReshapedColumnType
  <2>3. ReshapedColumn(col, extent).width = 0 /\ LengthenedColumn(col, extent).width = 0
    BY <2>1 DEF ReshapedColumn, LengthenedColumn, Column
  <2> QED
    BY <2>2, <2>3 DEF UncutColumn
<1> QED
  BY <1>1, <1>2 DEF Kind

-----------------------------------------------------------------------------
(***************************************************************************)
(* Every call of a table is one of: nothing but a move of the CHDU, a      *)
(* change of an EXTNAME, or an edit of the columns of its own HDU.         *)
(***************************************************************************)
EditsByName(t, cols, call) ==
    /\ SetCols(cols)
    /\ Disturb(t, drift[t] \cup {"by_name"})
    /\ last' = call
    /\ UNCHANGED table

Edits(t, cols) ==
    /\ SetAsChdu(t)
    /\ EditedTo(Own(t).cols, cols)
    /\ \E call \in Calls :
        /\ call.obj = t
        /\ \/ ChangeAndRefresh(t, cols, call)
           \/ ChangeAndThrow(t, cols, call)
           \/ EditsByName(t, cols, call)

Quiet ==
    /\ UNCHANGED <<hdus, table, drift>>
    /\ chdu' \in 1 .. Len(hdus)
    /\ last' \in Calls

LEMMA CallObj ==
    ASSUME NEW t \in Objects, NEW op, NEW n, NEW extent
    PROVE  Call(op, t, n, extent).obj = t /\ Plain(op, t).obj = t
BY DEF Call, Plain

LEMMA AddColumnEdits ==
    ASSUME TypeOK, NEW t \in Objects, NEW ttype \in Names, NEW type \in ColumnTypes,
           NEW extent \in Seq(Nat), NEW colnum \in Nat, Asked(type, extent),
           AddColumn(t, ttype, type, extent, colnum)
    PROVE  \E cols \in Seq(Column) : Edits(t, cols)
<1> DEFINE old == Own(t).cols
           at == IF colnum = 0 THEN Len(old) + 1 ELSE colnum
           call == Plain("add", t)
           bare == NewColumn(ttype, StoredType(type), TformRepeat(extent))
           full == ShapedColumn(ttype, type, extent)
<1>0. t \in Live /\ SetAsChdu(t) /\ Current = Own(t) /\ Reachable(t)
  BY CurrentIsOwn DEF AddColumn
<1>1. \/ ChangeAndThrow(t, old, call)
      \/ /\ ~ TdimMisses(old, extent, at)
         /\ ChangeAndRefresh(t, Inserted(old, ttype, type, extent, at), call)
      \/ ChangeAndThrow(t, InsertedBare(old, ttype, type, extent, at), call)
  BY <1>0 DEF AddColumn, Throw
<1>2. old \in Seq(Column)
  BY <1>0, OwnType
<1>3. at \in Nat \ {0}
  BY <1>2, LenProperties
<1>4. call \in Calls /\ call.obj = t
  BY CallTypes, CallObj
<1> HIDE DEF old, at, call
<1>5. bare \in Column /\ full \in Column
  BY NewColumnType, ShapedColumnType
<1>6. InsertedBare(old, ttype, type, extent, at) = InsertCol(old, at, bare)
  BY DEF InsertedBare
<1>7. ~ TdimMisses(old, extent, at) =>
            Inserted(old, ttype, type, extent, at) = InsertCol(old, at, full)
  BY <1>2, <1>3, <1>5, InsertedIsOneColumn
<1>8. EditedTo(old, old) /\ EditedTo(old, InsertCol(old, at, bare)) /\ EditedTo(old, InsertCol(old, at, full))
  <2>1. EditedTo(old, old)
    BY DEF EditedTo
  <2>2. EditedTo(old, InsertCol(old, at, bare))
    BY <1>3 DEF EditedTo
  <2>3. EditedTo(old, InsertCol(old, at, full))
    BY <1>3 DEF EditedTo
  <2> QED
    BY <2>1, <2>2, <2>3
<1>9. /\ InsertCol(old, at, bare) \in Seq(Column)
      /\ InsertCol(old, at, full) \in Seq(Column)
  BY <1>2, <1>3, <1>5, InsertColType
<1> HIDE DEF bare, full
<1> QED
  BY <1>0, <1>1, <1>2, <1>4, <1>6, <1>7, <1>8, <1>9 DEF Edits, old

LEMMA ResizeColumnEdits ==
    ASSUME TypeOK, NEW t \in Objects, t \in Live, SetAsChdu(t),
           NEW colnum, NEW extent \in Extents, NEW call \in Calls, call.obj = t,
           ResizeColumn(t, colnum, extent, call)
    PROVE  Quiet \/ \E cols \in Seq(Column) : Edits(t, cols)
<1> DEFINE old == Own(t).cols
<1>0. Current = Own(t)
  BY CurrentIsOwn
<1>1. old \in Seq(Column) /\ DOMAIN old = 1 .. Len(old)
  BY OwnType, LenProperties DEF SetAsChdu
<1> HIDE DEF old
<1>2. \/ ChangeAndThrow(t, old, call)
      \/ Quiet
      \/ /\ colnum \in DOMAIN old
         /\ \/ ChangeAndRefresh(t, Resized(old, colnum, extent), call)
            \/ "tdim" \in Faults /\ ChangeAndThrow(t, Lengthened(old, colnum, extent), call)
  BY <1>0 DEF ResizeColumn, Throw, Return, Quiet, SetAsChdu, Reachable, old
<1>3. EditedTo(old, old)
  BY DEF EditedTo
<1>4. ASSUME colnum \in DOMAIN old
      PROVE  /\ EditedTo(old, Resized(old, colnum, extent))
             /\ "tdim" \in Faults => EditedTo(old, Lengthened(old, colnum, extent))
             /\ Resized(old, colnum, extent) \in Seq(Column)
             /\ Lengthened(old, colnum, extent) \in Seq(Column)
  <2>1. Resized(old, colnum, extent) = [old EXCEPT ![colnum] = ReshapedColumn(old[colnum], extent)]
    BY <1>1, <1>4, ResizedIsOneColumn
  <2>2. Lengthened(old, colnum, extent) = [old EXCEPT ![colnum] = LengthenedColumn(old[colnum], extent)]
    BY <1>1, <1>4 DEF Lengthened, ModifyVectorLen, LengthenedColumn
  <2>3. old[colnum] \in Column
    BY <1>1, <1>4, ElementOfSeq
  <2>4. /\ ReshapedColumn(old[colnum], extent) \in Column
        /\ LengthenedColumn(old[colnum], extent) \in Column
    BY <2>3, ReshapedColumnType
  <2>5. Resized(old, colnum, extent) \in Seq(Column) /\ Lengthened(old, colnum, extent) \in Seq(Column)
    BY <1>1, <1>4, <2>1, <2>2, <2>4, ExceptSeq
  <2>6. EditedTo(old, Resized(old, colnum, extent))
    BY <1>4, <2>1 DEF EditedTo
  <2>7. "tdim" \in Faults => EditedTo(old, Lengthened(old, colnum, extent))
    BY <1>4, <2>2 DEF EditedTo
  <2> QED
    BY <2>5, <2>6, <2>7
<1> QED
  BY <1>1, <1>2, <1>3, <1>4 DEF Edits, old

LEMMA DeleteColumnEdits ==
    ASSUME TypeOK, NEW t \in Objects, NEW key, DeleteColumn(t, key) \/ DeleteColumnByName(t, key)
    PROVE  \E cols \in Seq(Column) : Edits(t, cols)
<1> DEFINE old == Own(t).cols
           call == Plain("delete", t)
<1>0. t \in Live /\ SetAsChdu(t) /\ Current = Own(t) /\ Reachable(t)
  BY CurrentIsOwn DEF DeleteColumn, DeleteColumnByName
<1>1. \/ ChangeAndThrow(t, old, call)
      \/ \E n \in DOMAIN old :
            \/ ChangeAndRefresh(t, DeleteCol(old, n), call)
            \/ EditsByName(t, DeleteCol(old, n), call)
  BY <1>0 DEF DeleteColumn, DeleteColumnByName, EditsByName, Throw
<1>2. old \in Seq(Column) /\ DOMAIN old = 1 .. Len(old)
  BY <1>0, OwnType, LenProperties
<1>3. call \in Calls /\ call.obj = t
  BY CallTypes, CallObj
<1> HIDE DEF old, call
<1>4. \A n \in DOMAIN old :
            DeleteCol(old, n) \in Seq(Column) /\ EditedTo(old, DeleteCol(old, n))
  BY <1>2, RemoveAtProperties DEF DeleteCol, EditedTo
<1>5. EditedTo(old, old)
  BY DEF EditedTo
<1> QED
  BY <1>0, <1>1, <1>2, <1>3, <1>4, <1>5 DEF Edits, old

LEMMA TableCallEdits ==
    ASSUME TypeOK, NEW t \in Objects, TableCall(t)
    PROVE  /\ t \in Live
           /\ \/ Quiet
              \/ RefreshHdu(t)
              \/ \E extname \in Extnames : SetExtname(t, extname)
              \/ \E cols \in Seq(Column) : Edits(t, cols)
<1>1. t \in Live
  BY DEF TableCall, Query, RefreshHdu, SetExtname, HasKeyword, Add, AddLike, AddColumn,
         Resize, ResizeByName, DeleteColumn, DeleteColumnByName
<1>2. \A extent \in Extents : extent \in Seq(Nat)
  BY ExtentsAssumption, SeqMonotonic
<1>3. CASE Query(t)
  BY <1>3, CallTypes DEF Query, SetAsChdu, Reachable, Return, Quiet
<1>3a. ASSUME NEW colnum \in 1 .. MaxColumns, HasKeyword(t, colnum)
      PROVE  Quiet
  <2>1. colnum \in Nat /\ <<>> \in Seq(Nat)
    BY MaxColumnsAssumption
  <2>2. Call("has_keyword", t, colnum, <<>>) \in Calls
    BY <2>1, CallTypes
  <2>3. HasTdim(hdus[chdu], colnum) \in BOOLEAN
    BY DEF HasTdim
  <2>4. last' \in Calls
    BY <1>3a, <2>2, <2>3 DEF HasKeyword, Return, Calls
  <2> QED
    BY <1>3a, <2>4 DEF HasKeyword, Return, Quiet, TypeOK
<1>4. ASSUME NEW ttype \in Names, NEW type \in Types, NEW extent \in Extents,
             NEW colnum \in 0 .. MaxColumns, Add(t, ttype, type, extent, colnum)
      PROVE  \E cols \in Seq(Column) : Edits(t, cols)
  <2>1. type \in ColumnTypes /\ colnum \in Nat
    BY TypesAssumption, MaxColumnsAssumption
  <2>2. AddColumn(t, ttype, type, extent, colnum)
    BY <1>4 DEF Add
  <2>3. SetAsChdu(t)
    BY <2>2 DEF AddColumn
  <2>4. Asked(type, extent)
    BY DEF Asked
  <2> QED
    BY <1>2, <2>1, <2>2, <2>3, <2>4, AddColumnEdits
<1>5. ASSUME NEW u \in Objects, NEW n \in 1 .. MaxColumns, AddLike(t, u, n)
      PROVE  \E cols \in Seq(Column) : Edits(t, cols)
  <2> DEFINE info == table[u].columns[n]
  <2>1. n \in DOMAIN table[u].columns /\ AddColumn(t, info.ttype, info.type, info.extent, info.colnum)
    BY <1>5 DEF AddLike
  <2>2. table[u].columns \in Seq(ColumnInfo)
    BY DEF TypeOK
  <2>3. info \in ColumnInfo
    BY <2>1, <2>2, LenProperties, ElementOfSeq
  <2> HIDE DEF info
  <2>4. /\ info.ttype \in Names /\ info.type \in ColumnTypes
        /\ info.extent \in Seq(Nat) /\ info.colnum \in Nat
    BY <2>3 DEF ColumnInfo
  <2>5. SetAsChdu(t)
    BY <2>1 DEF AddColumn
  <2>6. Asked(info.type, info.extent)
    BY <2>1 DEF Asked, info
  <2> QED
    BY <2>1, <2>4, <2>5, <2>6, AddColumnEdits
<1>6. ASSUME NEW extent \in Extents,
             \/ \E colnum \in 1 .. MaxColumns : Resize(t, colnum, extent)
             \/ \E name \in Names : ResizeByName(t, name, extent)
      PROVE  Quiet \/ \E cols \in Seq(Column) : Edits(t, cols)
  <2>1. SetAsChdu(t)
    BY <1>6 DEF Resize, ResizeByName
  <2>2. \/ Throw(t, Call("resize", t, 0, extent))
        \/ \E colnum \in Nat : ResizeColumn(t, colnum, extent, Call("resize", t, colnum, extent))
    <3>1. Len(table[t].columns) \in Nat
      BY LenProperties DEF TypeOK
    <3> QED
      BY <1>6, <3>1, MaxColumnsAssumption DEF Resize, ResizeByName
  <2>3. CASE Throw(t, Call("resize", t, 0, extent))
    <3>1. Own(t).cols \in Seq(Column)
      BY <1>1, <2>1, OwnType DEF SetAsChdu
    <3>2. Call("resize", t, 0, extent) \in Calls /\ Call("resize", t, 0, extent).obj = t
      BY <1>2, CallTypes, CallObj
    <3>3. EditedTo(Own(t).cols, Own(t).cols)
      BY DEF EditedTo
    <3>4. ChangeAndThrow(t, Own(t).cols, Call("resize", t, 0, extent))
      BY <2>1, <2>3, CurrentIsOwn DEF Throw
    <3>5. Edits(t, Own(t).cols)
      BY <2>1, <3>2, <3>3, <3>4 DEF Edits
    <3> QED
      BY <3>1, <3>5
  <2>4. ASSUME NEW colnum \in Nat,
               ResizeColumn(t, colnum, extent, Call("resize", t, colnum, extent))
        PROVE  Quiet \/ \E cols \in Seq(Column) : Edits(t, cols)
    <3>1. Call("resize", t, colnum, extent) \in Calls /\ Call("resize", t, colnum, extent).obj = t
      BY <1>2, CallTypes, CallObj
    <3> QED
      BY <1>1, <2>1, <2>4, <3>1, ResizeColumnEdits
  <2> QED
    BY <2>1, <2>2, <2>3, <2>4
<1>7. ASSUME NEW key, DeleteColumn(t, key) \/ DeleteColumnByName(t, key)
      PROVE  \E cols \in Seq(Column) : Edits(t, cols)
  <2>1. SetAsChdu(t)
    BY <1>7 DEF DeleteColumn, DeleteColumnByName
  <2> QED
    BY <1>7, <2>1, DeleteColumnEdits
<1> QED
  BY <1>1, <1>3, <1>4, <1>5, <1>6, <1>7, <1>3a DEF TableCall

-----------------------------------------------------------------------------
LEMMA TableCallType ==
    ASSUME TypeOK, NEW t \in Objects, TableCall(t)
    PROVE  TypeOK'
<1>1. t \in Live
  BY TableCallEdits
<1>2. CASE Quiet
  BY <1>2 DEF Quiet, TypeOK
<1>3. CASE RefreshHdu(t)
  <2>1. Current.extname \in Extnames \cup {Unnamed}
    BY <1>3, OwnType, CurrentIsOwn DEF RefreshHdu, HDU
  <2>2. table' \in [Objects -> TableType] /\ drift' \in [Objects -> SUBSET Reasons]
    BY <1>3, <2>1 DEF RefreshHdu, TypeOK, TableType
  <2> QED
    BY <1>3, <2>2, CallTypes DEF RefreshHdu, TypeOK, TableType, SetAsChdu, Reachable
<1>4. ASSUME NEW extname \in Extnames, SetExtname(t, extname)
      PROVE  TypeOK'
  <2> DEFINE new == [Own(t) EXCEPT !.extname = extname]
  <2>1. /\ Len(hdus) \in Nat
        /\ table[t].hdu_num \in 2 .. Len(hdus)
        /\ Own(t) \in HDU
    BY <1>4, OwnType DEF SetExtname, SetAsChdu
  <2>2. new \in HDU
    BY <2>1 DEF HDU
  <2>3. hdus' = [hdus EXCEPT ![table[t].hdu_num] = new]
    BY <1>4 DEF SetExtname, SetAsChdu, Own
  <2> HIDE DEF new
  <2>4. hdus' \in Seq(HDU) /\ Len(hdus') = Len(hdus) /\ hdus'[1] = hdus[1]
    BY <2>1, <2>2, <2>3, ExceptSeq DEF TypeOK
  <2>5. hdus' # <<>>
    BY <2>1, <2>4
  <2>6. drift' \in [Objects -> SUBSET Reasons]
    BY <1>4 DEF SetExtname, TypeOK, Reasons
  <2>7. last' \in Calls
    BY <1>4, CallTypes DEF SetExtname
  <2> QED
    BY <1>4, <2>1, <2>4, <2>5, <2>6, <2>7 DEF TypeOK, SetExtname, SetAsChdu
<1>5. ASSUME NEW cols \in Seq(Column), Edits(t, cols)
      PROVE  TypeOK'
  <2>0. SetAsChdu(t)
    BY <1>5 DEF Edits
  <2>1. PICK call \in Calls :
            \/ ChangeAndRefresh(t, cols, call)
            \/ ChangeAndThrow(t, cols, call)
            \/ EditsByName(t, cols, call)
    BY <1>5 DEF Edits
  <2>2. CASE EditsByName(t, cols, call)
    <3>1. /\ hdus' \in Seq(HDU) /\ hdus' # <<>> /\ hdus'[1].kind = "image"
          /\ Len(hdus') = Len(hdus)
      BY <1>1, <2>0, <2>2, SetColsEffect DEF EditsByName
    <3>2. chdu' \in 1 .. Len(hdus')
      BY <2>0, <3>1 DEF SetAsChdu, Reachable
    <3>3. drift[t] \cup {"by_name"} \in SUBSET Reasons
      BY DEF TypeOK, Reasons
    <3>4. drift' \in [Objects -> SUBSET Reasons]
      BY <2>2, <3>3, DisturbType DEF EditsByName
    <3> QED
      BY <2>2, <3>1, <3>2, <3>4 DEF TypeOK, EditsByName
  <2> QED
    BY <1>1, <2>0, <2>1, <2>2, ChangeAndRefreshType, ChangeAndThrowType
<1> QED
  BY <1>2, <1>3, <1>4, <1>5, TableCallEdits

LEMMA InitType == Init => TypeOK
<1> SUFFICES ASSUME Init PROVE TypeOK
  OBVIOUS
<1>1. hdus \in Seq(HDU) /\ hdus # <<>> /\ hdus[1].kind = "image"
  BY InitialFilesAssumption DEF Init
<1>2. Len(hdus) \in Nat \ {0}
  BY <1>1, EmptySeq
<1>3. <<>> \in Seq(ColumnInfo)
  OBVIOUS
<1>4. NoTable \in TableType
  BY <1>3 DEF NoTable, TableType
<1> QED
  BY <1>1, <1>2, <1>4, CallTypes DEF Init, TypeOK, TableType

LEMMA NextType == TypeOK /\ [Next]_vars => TypeOK'
<1> SUFFICES ASSUME TypeOK, [Next]_vars PROVE TypeOK'
  OBVIOUS
<1>1. CASE Move
  BY <1>1, CallTypes DEF Move, TypeOK
<1>2. CASE DeleteHdu
  <2>1. /\ hdus' \in Seq(HDU) /\ hdus' # <<>> /\ hdus'[1].kind = "image"
        /\ Len(hdus') = IF chdu = 1 THEN Len(hdus) ELSE Len(hdus) - 1
    BY <1>2, DeleteHduEffect
  <2>2. Len(hdus') \in Nat \ {0}
    BY <2>1, EmptySeq
  <2>3. chdu' \in 1 .. Len(hdus')
    BY <1>2, <2>1, <2>2, LenProperties DEF TypeOK, DeleteHdu
  <2>4. drift' \in [Objects -> SUBSET Reasons]
    BY <1>2 DEF DeleteHdu, TypeOK, Reasons
  <2> QED
    BY <1>2, <2>1, <2>3, <2>4, CallTypes DEF DeleteHdu, TypeOK
<1>3. ASSUME NEW t \in Objects, NEW n \in 0 .. Len(hdus), Construct(t, n)
      PROVE  TypeOK'
  <2>1. (IF n = 0 THEN chdu ELSE n) \in 1 .. Len(hdus)
    BY LenProperties DEF TypeOK
  <2> QED
    BY <1>3, <2>1, ConstructOnType DEF Construct
<1>4. ASSUME NEW t \in Objects, NEW extname \in Extnames, ConstructByName(t, extname)
      PROVE  TypeOK'
  BY <1>4, ConstructOnType DEF ConstructByName
<1>5. ASSUME NEW t \in Objects, Destroy(t)
      PROVE  TypeOK'
  <2>1. <<>> \in Seq(ColumnInfo)
    OBVIOUS
  <2>2. NoTable \in TableType
    BY <2>1 DEF NoTable, TableType
  <2>3. table' \in [Objects -> TableType] /\ drift' \in [Objects -> SUBSET Reasons]
    BY <1>5, <2>2 DEF Destroy, TypeOK, TableType
  <2> QED
    BY <1>5, <2>3, CallTypes DEF Destroy, TypeOK, TableType
<1>6. ASSUME NEW t \in Objects, CallUnreachable(t)
      PROVE  TypeOK'
  <2>1. Len(hdus) \in Nat \ {0}
    BY EmptySeq DEF TypeOK
  <2>2. chdu' \in 1 .. Len(hdus)
    BY <1>6, <2>1 DEF CallUnreachable, TypeOK
  <2> QED
    BY <1>6, <2>2, CallTypes DEF CallUnreachable, TypeOK
<1>7. ASSUME NEW t \in Objects, TableCall(t)
      PROVE  TypeOK'
  BY <1>7, TableCallType
<1>8. CASE UNCHANGED vars
  BY <1>8 DEF vars, TypeOK
<1> QED
  BY <1>1, <1>2, <1>3, <1>4, <1>5, <1>6, <1>7, <1>8 DEF Next

\* Type correctness: whatever is called in whatever order, and whatever
\* throws, the file keeps its primary HDU, the CHDU exists, every description
\* is of a table HDU and has only columns misFITS supports.
THEOREM TypeCorrect == Spec => []TypeOK
BY InitType, NextType, PTL DEF Spec

-----------------------------------------------------------------------------
(***************************************************************************)
(* Descriptions: CacheFresh is inductive together with TypeOK              *)
(***************************************************************************)
FreshFor(t) ==
    t \in Live =>
        /\ drift[t] \subseteq {"renamed"} => ColumnsFresh(t)
        /\ drift[t] = {} => table[t].extname = Own(t).extname

LEMMA CacheFreshSplit == CacheFresh => \A t \in Objects : FreshFor(t)
BY DEF CacheFresh, FreshFor, Live

LEMMA CacheFreshJoin ==
    ASSUME \A t \in Objects : FreshFor(t)'
    PROVE  CacheFresh'
BY DEF CacheFresh, FreshFor, Live

LEMMA FreshIsReachable ==
    ASSUME TypeOK, NEW t \in Objects, t \in Live, ColumnsFresh(t)
    PROVE  table[t].hdu_num \in 2 .. Len(hdus)
BY OwnType DEF ColumnsFresh

\* An object whose members, history and HDU stay as they are stays fresh.
LEMMA UndisturbedFresh ==
    ASSUME TypeOK, NEW u \in Objects, FreshFor(u),
           table'[u] = table[u], drift'[u] = drift[u],
           u \in Live /\ Reachable(u) => Reachable(u)' /\ Own(u)' = Own(u)
    PROVE  FreshFor(u)'
<1> SUFFICES ASSUME u \in Live' PROVE FreshFor(u)'
  BY DEF FreshFor
<1>1. u \in Live
  BY DEF Live
<1>2. ASSUME drift[u] \subseteq {"renamed"}
      PROVE  /\ Reachable(u)' /\ Own(u)' = Own(u) /\ ColumnsFresh(u)
             /\ ColumnsFresh(u)'
  <2>1. ColumnsFresh(u)
    BY <1>1, <1>2 DEF FreshFor
  <2>2. Reachable(u)' /\ Own(u)' = Own(u)
    BY <1>1, <2>1 DEF ColumnsFresh
  <2> QED
    BY <2>1, <2>2 DEF ColumnsFresh
<1>3. drift[u] = {} => table'[u].extname = Own(u)'.extname
  BY <1>1, <1>2 DEF FreshFor
<1> QED
  BY <1>1, <1>2, <1>3 DEF FreshFor

\* A call of another object leaves u fresh, or marks it.
LEMMA OthersFresh ==
    ASSUME TypeOK, NEW t \in Objects, t \in Live, SetAsChdu(t),
           NEW cols \in Seq(Column), SetCols(cols),
           NEW reasons, Disturb(t, reasons),
           NEW u \in Objects, u # t, table'[u] = table[u], FreshFor(u)
    PROVE  FreshFor(u)'
<1>1. /\ Len(hdus') = Len(hdus)
      /\ \A h \in 1 .. Len(hdus) :
            h # table[t].hdu_num => hdus'[h] = hdus[h]
  BY SetColsEffect
<1>2. CASE table[u].hdu_num = table[t].hdu_num /\ hdus' # hdus
  <2>1. "other" \in drift'[u]
    BY <1>2 DEF Disturb, SetAsChdu
  <2> QED
    BY <2>1 DEF FreshFor
<1>3. CASE ~ (table[u].hdu_num = table[t].hdu_num /\ hdus' # hdus)
  <2>1. drift'[u] = drift[u]
    BY <1>3 DEF Disturb, SetAsChdu
  <2>2. u \in Live /\ Reachable(u) => Reachable(u)' /\ Own(u)' = Own(u)
    BY <1>1, <1>3 DEF Reachable, Own
  <2> QED
    BY <2>1, <2>2, UndisturbedFresh
<1> QED
  BY <1>2, <1>3

LEMMA ChangeAndRefreshFresh ==
    ASSUME TypeOK, CacheFresh, NEW t \in Objects, t \in Live, SetAsChdu(t),
           NEW cols \in Seq(Column), NEW call, ChangeAndRefresh(t, cols, call)
    PROVE  CacheFresh'
<1> DEFINE hdu == [Own(t) EXCEPT !.cols = cols]
<1>0. Reachable(t) /\ Current = Own(t)
  BY CurrentIsOwn
<1>1. SetCols(cols) /\ (RefreshThrowsEarly(t, hdu, call) \/ RefreshScans(t, hdu, call))
  BY <1>0 DEF ChangeAndRefresh, Refresh
<1>2. /\ Len(hdus') = Len(hdus)
      /\ table[t].hdu_num \in 1 .. Len(hdus)
      /\ hdus'[table[t].hdu_num] = hdu
  BY <1>0, <1>1, SetColsEffect DEF Reachable, Own
<1>3. cols = hdu.cols /\ DOMAIN cols = 1 .. Len(cols) /\ Len(cols) \in Nat
  BY <1>0, OwnType, LenProperties DEF HDU
<1>4. table[t] \in TableType /\ table \in [Objects -> TableType]
  BY DEF TypeOK, TableType
<1>5. CASE RefreshThrowsEarly(t, hdu, call)
  <2>1. "failed" \in drift'[t] /\ Disturb(t, drift[t] \cup {"failed"})
    BY <1>5 DEF RefreshThrowsEarly, Disturb
  <2>2. \A u \in Objects : u # t => table'[u] = table[u]
    BY <1>4, <1>5 DEF RefreshThrowsEarly
  <2>3. \A u \in Objects : u # t => FreshFor(u)'
    BY <1>1, <2>1, <2>2, CacheFreshSplit, OthersFresh
  <2>4. FreshFor(t)'
    BY <2>1 DEF FreshFor
  <2> QED
    BY <2>3, <2>4, CacheFreshJoin
<1>6. CASE RefreshScans(t, hdu, call)
  <2> HIDE DEF hdu
  <2>1. PICK n \in 0 .. Len(hdu.cols) :
            /\ \A i \in 1 .. n : Readable(hdu, i)
            /\ table' = [table EXCEPT ![t].extname = hdu.extname,
                                      ![t].columns = Scan(hdu, n)]
            /\ \/ n = Len(hdu.cols) /\ Disturb(t, {})
               \/ Disturb(t, drift[t] \cup {"failed"})
    BY <1>6 DEF RefreshScans
  <2>2. \A u \in Objects : u # t => table'[u] = table[u]
    BY <1>4, <2>1
  <2>3. /\ table'[t].hdu_num = table[t].hdu_num
        /\ table'[t].extname = hdu.extname
        /\ table'[t].columns = Scan(hdu, n)
    BY <1>4, <2>1 DEF TableType
  <2>4. \A u \in Objects : u # t => FreshFor(u)'
    BY <1>1, <2>1, <2>2, CacheFreshSplit, OthersFresh
  <2>5. CASE "failed" \in drift'[t]
    <3>1. FreshFor(t)'
      BY <2>5 DEF FreshFor
    <3> QED
      BY <2>4, <3>1, CacheFreshJoin
  <2>6. CASE n = Len(hdu.cols)
    <3>1. Own(t)' = hdu /\ Reachable(t)'
      BY <1>2, <2>3 DEF Own, Reachable
    <3>2. ColumnsFresh(t)'
      BY <1>3, <2>1, <2>3, <2>6, <3>1 DEF ColumnsFresh
    <3>3. FreshFor(t)'
      BY <2>3, <3>1, <3>2 DEF FreshFor
    <3> QED
      BY <2>4, <3>3, CacheFreshJoin
  <2> QED
    BY <2>1, <2>5, <2>6 DEF Disturb
<1> QED
  BY <1>1, <1>5, <1>6

LEMMA ChangeAndThrowFresh ==
    ASSUME TypeOK, CacheFresh, NEW t \in Objects, t \in Live, SetAsChdu(t),
           NEW cols \in Seq(Column), NEW call, ChangeAndThrow(t, cols, call)
    PROVE  CacheFresh'
<1>0. Reachable(t) /\ Current = Own(t)
  BY CurrentIsOwn
<1>1. /\ SetCols(cols) /\ table' = table
      /\ Disturb(t, IF cols = Own(t).cols THEN drift[t] ELSE drift[t] \cup {"failed"})
  BY <1>0 DEF ChangeAndThrow
<1>2. \A u \in Objects : u # t => FreshFor(u)'
  BY <1>1, CacheFreshSplit, OthersFresh
<1>3. CASE cols = Own(t).cols
  <2>1. /\ Len(hdus') = Len(hdus)
        /\ table[t].hdu_num \in 1 .. Len(hdus)
        /\ hdus'[table[t].hdu_num] = [Own(t) EXCEPT !.cols = cols]
    BY <1>0, <1>1, SetColsEffect DEF Reachable, Own
  <2>2. Own(t) \in HDU
    BY <1>0, OwnType
  <2>3. [Own(t) EXCEPT !.cols = cols] = Own(t)
    BY <1>3, <2>2 DEF HDU
  <2>4. Reachable(t)' /\ Own(t)' = Own(t)
    BY <1>1, <2>1, <2>3 DEF Reachable, Own
  <2>5. drift'[t] = drift[t]
    BY <1>1, <1>3 DEF Disturb
  <2>6. FreshFor(t)'
    BY <1>1, <2>4, <2>5, CacheFreshSplit, UndisturbedFresh
  <2> QED
    BY <1>2, <2>6, CacheFreshJoin
<1>4. CASE cols # Own(t).cols
  <2>1. "failed" \in drift'[t]
    BY <1>1, <1>4 DEF Disturb
  <2>2. FreshFor(t)'
    BY <2>1 DEF FreshFor
  <2> QED
    BY <1>2, <2>2, CacheFreshJoin
<1> QED
  BY <1>3, <1>4

LEMMA TableCallFresh ==
    ASSUME TypeOK, CacheFresh, NEW t \in Objects, TableCall(t)
    PROVE  CacheFresh'
<1>1. t \in Live
  BY TableCallEdits
<1>2. CASE Quiet
  BY <1>2 DEF Quiet, CacheFresh, ColumnsFresh, Live, Reachable, Own
<1>3. CASE RefreshHdu(t)
  <2>1. /\ hdus' = hdus
        /\ table[t] \in TableType
        /\ table' = [table EXCEPT ![t].extname = Own(t).extname]
        /\ drift' = [drift EXCEPT ![t] = @ \ {"renamed"}]
    BY <1>3, CurrentIsOwn DEF RefreshHdu, TypeOK, TableType
  <2>2. /\ table'[t].hdu_num = table[t].hdu_num
        /\ table'[t].extname = Own(t).extname
        /\ table'[t].columns = table[t].columns
        /\ drift'[t] = drift[t] \ {"renamed"}
    BY <2>1 DEF TypeOK, TableType
  <2>3. Reachable(t)' = Reachable(t) /\ Own(t)' = Own(t)
    BY <2>1, <2>2 DEF Reachable, Own
  <2>4. FreshFor(t)'
    <3>1. drift'[t] \subseteq {"renamed"} => ColumnsFresh(t)
      BY <1>1, <2>2, CacheFreshSplit DEF FreshFor
    <3>2. ColumnsFresh(t) => ColumnsFresh(t)'
      BY <2>2, <2>3 DEF ColumnsFresh
    <3> QED
      BY <2>2, <2>3, <3>1, <3>2 DEF FreshFor
  <2>5. ASSUME NEW u \in Objects, u # t
        PROVE  FreshFor(u)'
    <3>1. table'[u] = table[u] /\ drift'[u] = drift[u]
      BY <2>1, <2>5 DEF TypeOK
    <3>2. u \in Live /\ Reachable(u) => Reachable(u)' /\ Own(u)' = Own(u)
      BY <2>1, <3>1 DEF Reachable, Own
    <3> QED
      BY <3>1, <3>2, CacheFreshSplit, UndisturbedFresh
  <2> QED
    BY <2>4, <2>5, CacheFreshJoin
<1>4. ASSUME NEW extname \in Extnames, SetExtname(t, extname)
      PROVE  CacheFresh'
  <2> DEFINE h == table[t].hdu_num
             new == [hdus[h] EXCEPT !.extname = extname]
  <2>1. h \in 1 .. Len(hdus) /\ hdus \in Seq(HDU) /\ hdus[h] \in HDU
    BY <1>4, ElementOfSeq DEF SetExtname, SetAsChdu, Reachable, TypeOK
  <2>2. new \in HDU /\ new.kind = hdus[h].kind /\ new.cols = hdus[h].cols
    BY <2>1 DEF HDU
  <2>3. hdus' = [hdus EXCEPT ![h] = new]
    BY <1>4 DEF SetExtname, SetAsChdu
  <2> HIDE DEF new
  <2>4. /\ Len(hdus') = Len(hdus)
        /\ \A i \in 1 .. Len(hdus) : hdus'[i] = IF i = h THEN new ELSE hdus[i]
    BY <2>1, <2>2, <2>3, ExceptSeq
  <2>5. ASSUME NEW u \in Objects
        PROVE  FreshFor(u)'
    <3>1. CASE table[u].hdu_num = h
      <4>1. table' = table /\ drift'[u] = drift[u] \cup {"renamed"}
        BY <1>4, <3>1 DEF SetExtname, SetAsChdu
      <4>2. ASSUME u \in Live, drift[u] \subseteq {"renamed"}
            PROVE  ColumnsFresh(u)'
        <5>1. ColumnsFresh(u)
          BY <4>2, CacheFreshSplit DEF FreshFor
        <5>2. Reachable(u)' /\ Own(u)' = new /\ Own(u) = hdus[h]
          BY <2>1, <2>4, <3>1, <4>1 DEF Reachable, Own
        <5>3. /\ \A n \in DOMAIN new.cols : Readable(new, n)
              /\ table[u].columns = Scan(new, Len(new.cols))
          BY <2>2, <5>1, <5>2 DEF ColumnsFresh, Readable, Scan
        <5> QED
          BY <4>1, <5>2, <5>3 DEF ColumnsFresh
      <4> QED
        BY <4>1, <4>2 DEF FreshFor, Live
    <3>2. CASE table[u].hdu_num # h
      <4>1. table' = table /\ drift'[u] = drift[u]
        BY <1>4, <3>2 DEF SetExtname, SetAsChdu
      <4>2. u \in Live /\ Reachable(u) => Reachable(u)' /\ Own(u)' = Own(u)
        BY <2>4, <3>2, <4>1 DEF Reachable, Own
      <4> QED
        BY <4>1, <4>2, CacheFreshSplit, UndisturbedFresh
    <3> QED
      BY <3>1, <3>2
  <2> QED
    BY <2>5, CacheFreshJoin
<1>5. ASSUME NEW cols \in Seq(Column), Edits(t, cols)
      PROVE  CacheFresh'
  <2>0. SetAsChdu(t)
    BY <1>5 DEF Edits
  <2>1. PICK call \in Calls :
            \/ ChangeAndRefresh(t, cols, call)
            \/ ChangeAndThrow(t, cols, call)
            \/ EditsByName(t, cols, call)
    BY <1>5 DEF Edits
  <2>2. CASE EditsByName(t, cols, call)
    <3>1. /\ SetCols(cols) /\ table' = table
          /\ Disturb(t, drift[t] \cup {"by_name"})
      BY <2>2 DEF EditsByName
    <3>2. "by_name" \in drift'[t]
      BY <3>1 DEF Disturb
    <3>3. FreshFor(t)'
      BY <3>2 DEF FreshFor
    <3>4. \A u \in Objects : u # t => FreshFor(u)'
      BY <1>1, <2>0, <3>1, CacheFreshSplit, OthersFresh
    <3> QED
      BY <3>3, <3>4, CacheFreshJoin
  <2> QED
    BY <1>1, <2>0, <2>1, <2>2, ChangeAndRefreshFresh, ChangeAndThrowFresh
<1> QED
  BY <1>2, <1>3, <1>4, <1>5, TableCallEdits

LEMMA ConstructOnFresh ==
    ASSUME TypeOK, CacheFresh, NEW t \in Objects, NEW n \in 1 .. Len(hdus), ConstructOn(t, n)
    PROVE  CacheFresh'
<1>1. hdus' = hdus
  BY DEF ConstructOn
<1>2. CASE UNCHANGED <<table, drift>>
  BY <1>1, <1>2 DEF CacheFresh, ColumnsFresh, Live, Reachable, Own
<1>3. CASE /\ \A i \in 1 .. Len(hdus[n].cols) : Readable(hdus[n], i)
           /\ table' = [table EXCEPT ![t] =
                            [hdu_num |-> n, extname |-> hdus[n].extname,
                             columns |-> Scan(hdus[n], Len(hdus[n].cols))]]
           /\ drift' = [drift EXCEPT ![t] = {}]
  <2>1. ASSUME NEW u \in Objects, u # t
        PROVE  FreshFor(u)'
    <3>1. table'[u] = table[u] /\ drift'[u] = drift[u]
      BY <1>3, <2>1 DEF TypeOK
    <3>2. u \in Live /\ Reachable(u) => Reachable(u)' /\ Own(u)' = Own(u)
      BY <1>1, <3>1 DEF Reachable, Own
    <3> QED
      BY <3>1, <3>2, CacheFreshSplit, UndisturbedFresh
  <2>2. /\ table'[t].hdu_num = n
        /\ table'[t].extname = hdus[n].extname
        /\ table'[t].columns = Scan(hdus[n], Len(hdus[n].cols))
    BY <1>3 DEF TypeOK
  <2>3. Reachable(t)' /\ Own(t)' = hdus[n]
    BY <1>1, <2>2 DEF Reachable, Own
  <2>4. DOMAIN hdus[n].cols = 1 .. Len(hdus[n].cols)
    <3>1. hdus[n] \in HDU
      BY ElementOfSeq DEF TypeOK
    <3>2. hdus[n].cols \in Seq(Column)
      BY <3>1 DEF HDU
    <3> QED
      BY <3>2, LenProperties
  <2>5. ColumnsFresh(t)'
    BY <1>3, <2>2, <2>3, <2>4 DEF ColumnsFresh
  <2>6. FreshFor(t)'
    BY <2>2, <2>3, <2>5 DEF FreshFor
  <2> QED
    BY <2>1, <2>6, CacheFreshJoin
<1> QED
  BY <1>2, <1>3 DEF ConstructOn

LEMMA NextFresh == TypeOK /\ CacheFresh /\ [Next]_vars => CacheFresh'
<1> SUFFICES ASSUME TypeOK, CacheFresh, [Next]_vars PROVE CacheFresh'
  OBVIOUS
<1>1. CASE Move \/ UNCHANGED vars \/ \E t \in Objects : CallUnreachable(t)
  <2>1. UNCHANGED <<hdus, table, drift>>
    BY <1>1 DEF Move, CallUnreachable, vars
  <2> QED
    BY <2>1 DEF CacheFresh, ColumnsFresh, Live, Reachable, Own
<1>2. CASE DeleteHdu
  <2>1. ASSUME NEW u \in Objects
        PROVE  FreshFor(u)'
    <3>1. table' = table /\ chdu \in Nat
      BY <1>2, LenProperties DEF DeleteHdu, TypeOK
    <3>2. CASE chdu # 1 /\ table[u].hdu_num >= chdu
      <4>1. "moved" \in drift'[u]
        BY <1>2, <3>2 DEF DeleteHdu
      <4> QED
        BY <4>1 DEF FreshFor
    <3>3. CASE ~ (chdu # 1 /\ table[u].hdu_num >= chdu)
      <4>1. drift'[u] = drift[u]
        BY <1>2, <3>3 DEF DeleteHdu
      <4>2. ASSUME u \in Live, Reachable(u)
            PROVE  Reachable(u)' /\ Own(u)' = Own(u)
        <5>1. table[u].hdu_num \in 2 .. Len(hdus) /\ Len(hdus) \in Nat
          BY <4>2, OwnType
        <5>2. IF chdu = 1 THEN table[u].hdu_num # 1 ELSE table[u].hdu_num < chdu
          BY <3>1, <3>3, <5>1
        <5> QED
          BY <1>2, <3>1, <5>1, <5>2, DeleteHduEffect DEF Reachable, Own
      <4> QED
        BY <3>1, <4>1, <4>2, CacheFreshSplit, UndisturbedFresh
    <3> QED
      BY <3>2, <3>3
  <2> QED
    BY <2>1, CacheFreshJoin
<1>3. ASSUME NEW t \in Objects, NEW n \in 0 .. Len(hdus), Construct(t, n)
      PROVE  CacheFresh'
  <2>1. (IF n = 0 THEN chdu ELSE n) \in 1 .. Len(hdus)
    BY LenProperties DEF TypeOK
  <2> QED
    BY <1>3, <2>1, ConstructOnFresh DEF Construct
<1>4. ASSUME NEW t \in Objects, NEW extname \in Extnames, ConstructByName(t, extname)
      PROVE  CacheFresh'
  BY <1>4, ConstructOnFresh DEF ConstructByName
<1>5. ASSUME NEW t \in Objects, Destroy(t)
      PROVE  CacheFresh'
  <2>1. ASSUME NEW u \in Objects
        PROVE  FreshFor(u)'
    <3>1. CASE u = t
      <4>1. table'[u].hdu_num = 0
        BY <1>5, <3>1 DEF Destroy, TypeOK, NoTable
      <4> QED
        BY <4>1 DEF FreshFor, Live
    <3>2. CASE u # t
      <4>1. table'[u] = table[u] /\ drift'[u] = drift[u] /\ hdus' = hdus
        BY <1>5, <3>2 DEF Destroy, TypeOK
      <4>2. u \in Live /\ Reachable(u) => Reachable(u)' /\ Own(u)' = Own(u)
        BY <4>1 DEF Reachable, Own
      <4> QED
        BY <4>1, <4>2, CacheFreshSplit, UndisturbedFresh
    <3> QED
      BY <3>1, <3>2
  <2> QED
    BY <2>1, CacheFreshJoin
<1>6. ASSUME NEW t \in Objects, TableCall(t)
      PROVE  CacheFresh'
  BY <1>6, TableCallFresh
<1> QED
  BY <1>1, <1>2, <1>3, <1>4, <1>5, <1>6 DEF Next

\* An object which alone has worked on its HDU describes it exactly.
THEOREM DescriptionsAreFresh == Spec => []CacheFresh
<1>1. Init => CacheFresh
  BY DEF Init, CacheFresh, Live, NoTable
<1>2. TypeOK /\ CacheFresh /\ [Next]_vars => CacheFresh'
  BY NextFresh
<1> QED
  BY <1>1, <1>2, TypeCorrect, PTL DEF Spec

-----------------------------------------------------------------------------
(***************************************************************************)
(* Which HDU, and which column, a call changes                             *)
(***************************************************************************)
LEMMA EditStaysInHdu ==
    ASSUME TypeOK, NEW t \in Objects, t \in Live,
           NEW cols \in Seq(Column), Edits(t, cols)
    PROVE  /\ last'.obj = t
           /\ \A h \in DOMAIN hdus : hdus'[h] # hdus[h] => h = table[t].hdu_num
<1>1. PICK call \in Calls :
          /\ call.obj = t
          /\ \/ ChangeAndRefresh(t, cols, call)
             \/ ChangeAndThrow(t, cols, call)
             \/ EditsByName(t, cols, call)
  BY DEF Edits
<1>2. SetAsChdu(t) /\ SetCols(cols)
  BY <1>1 DEF Edits, ChangeAndRefresh, ChangeAndThrow, EditsByName
<1>3. last' \in {call, Threw(call)}
  BY <1>1 DEF ChangeAndRefresh, ChangeAndThrow, EditsByName, Refresh,
              RefreshThrowsEarly, RefreshScans
<1>4. Threw(call).obj = t
  BY <1>1 DEF Threw, Calls
<1>5. DOMAIN hdus = 1 .. Len(hdus)
  BY LenProperties DEF TypeOK
<1> QED
  BY <1>1, <1>2, <1>3, <1>4, <1>5, SetColsEffect

\* Wherever the client has left the CHDU, and whatever the table believes of
\* its columns, a call of a table changes no HDU but its own.
THEOREM CallsStayInTheirHdu == Spec => ChangesStayInHdu
<1> DEFINE Stays == \A h \in DOMAIN hdus :
                        last'.obj # Client /\ hdus'[h] # hdus[h] => h = table[last'.obj].hdu_num
<1>1. TypeOK /\ [Next]_vars => [Stays]_vars
  <2> SUFFICES ASSUME TypeOK, [Next]_vars PROVE Stays \/ UNCHANGED vars
    OBVIOUS
  <2>1. CASE hdus' = hdus
    BY <2>1
  <2>2. CASE last' = OtherCall
    BY <2>2 DEF OtherCall, Plain, Call
  <2>3. ASSUME NEW t \in Objects, TableCall(t)
        PROVE  Stays \/ hdus' = hdus
    <3>1. t \in Live
      BY <2>3, TableCallEdits
    <3>2. ASSUME NEW extname, SetExtname(t, extname)
          PROVE  Stays
      <4>1. last'.obj = t
        BY <3>2, CallObj DEF SetExtname
      <4>2. /\ hdus' = [hdus EXCEPT ![table[t].hdu_num].extname = extname]
            /\ hdus \in Seq(HDU)
        BY <3>2 DEF SetExtname, SetAsChdu, TypeOK
      <4>3. \A h \in DOMAIN hdus : h # table[t].hdu_num => hdus'[h] = hdus[h]
        BY <4>2
      <4> QED
        BY <4>1, <4>3
    <3>3. ASSUME NEW cols \in Seq(Column), Edits(t, cols)
          PROVE  Stays
      BY <3>1, <3>3, EditStaysInHdu
    <3> QED
      BY <2>3, <3>2, <3>3, TableCallEdits DEF Quiet, RefreshHdu
  <2>4. CASE DeleteHdu
    BY <2>2, <2>4 DEF DeleteHdu
  <2> QED
    BY <2>1, <2>2, <2>3, <2>4
       DEF Next, Move, Construct, ConstructByName, ConstructOn, Destroy, CallUnreachable, vars
<1> QED
  BY <1>1, TypeCorrect, PTL DEF Spec, ChangesStayInHdu

-----------------------------------------------------------------------------
(***************************************************************************)
(* The entries of descriptions.  An entry is made by Describe and kept, or *)
(* dropped, until the next refresh: what holds for those Describe makes of *)
(* the columns holds for all.  J is a set of pairs of an entry and its     *)
(* place.                                                                  *)
(***************************************************************************)
Entries(J) ==
    \A t \in Objects : \A n \in DOMAIN table[t].columns : <<table[t].columns[n], n>> \in J

DescribedIn(J, cols) ==
    \A i \in 1 .. Len(cols) : cols[i].type \in ColumnTypes => <<Describe(cols[i], i), i>> \in J

LEMMA ScanEntries ==
    ASSUME NEW J, NEW hdu \in HDU, DescribedIn(J, hdu.cols), NEW n \in 0 .. Len(hdu.cols),
           \A i \in 1 .. n : Readable(hdu, i)
    PROVE  \A i \in DOMAIN Scan(hdu, n) : <<Scan(hdu, n)[i], i>> \in J
<1>1. Len(hdu.cols) \in Nat
  BY LenProperties DEF HDU
<1>2. \A i \in 1 .. n : i \in 1 .. Len(hdu.cols) /\ hdu.cols[i].type \in ColumnTypes
  BY <1>1 DEF Readable, Describable
<1>3. DOMAIN Scan(hdu, n) = 1 .. n /\ \A i \in 1 .. n : Scan(hdu, n)[i] = Describe(hdu.cols[i], i)
  BY DEF Scan
<1> QED
  BY <1>2, <1>3 DEF DescribedIn

LEMMA RefreshEntries ==
    ASSUME TypeOK, NEW J, Entries(J), NEW t \in Objects,
           NEW hdu \in HDU, DescribedIn(J, hdu.cols), NEW call, Refresh(t, hdu, call)
    PROVE  Entries(J)'
<1>1. table \in [Objects -> TableType]
  BY DEF TypeOK, TableType
<1>2. CASE RefreshThrowsEarly(t, hdu, call)
  <2>1. PICK extname : table' = [table EXCEPT ![t].extname = extname]
    BY <1>2 DEF RefreshThrowsEarly
  <2>2. \A u \in Objects : table'[u].columns = table[u].columns
    BY <1>1, <2>1 DEF TableType
  <2> QED
    BY <2>2 DEF Entries
<1>3. CASE RefreshScans(t, hdu, call)
  <2>1. PICK n \in 0 .. Len(hdu.cols) :
            /\ \A i \in 1 .. n : Readable(hdu, i)
            /\ table' = [table EXCEPT ![t].extname = hdu.extname, ![t].columns = Scan(hdu, n)]
    BY <1>3 DEF RefreshScans
  <2>2. /\ table'[t].columns = Scan(hdu, n)
        /\ \A u \in Objects : u # t => table'[u].columns = table[u].columns
    BY <1>1, <2>1 DEF TableType
  <2>3. \A i \in DOMAIN Scan(hdu, n) : <<Scan(hdu, n)[i], i>> \in J
    BY <2>1, ScanEntries
  <2> QED
    BY <2>2, <2>3 DEF Entries
<1> QED
  BY <1>2, <1>3 DEF Refresh

LEMMA NextEntries ==
    ASSUME TypeOK, NEW J, Entries(J),
           \A h \in 1 .. Len(hdus) : DescribedIn(J, hdus[h].cols),
           \A t \in Objects, cols \in Seq(Column) :
                Edits(t, cols) => DescribedIn(J, cols),
           [Next]_vars
    PROVE  Entries(J)'
<1>1. CASE UNCHANGED table
  BY <1>1 DEF Entries
<1>2. ASSUME NEW t \in Objects, NEW n \in 1 .. Len(hdus), ConstructOn(t, n)
      PROVE  Entries(J)'
  <2>1. CASE /\ \A i \in 1 .. Len(hdus[n].cols) : Readable(hdus[n], i)
             /\ table' = [table EXCEPT ![t] =
                            [hdu_num |-> n, extname |-> hdus[n].extname,
                             columns |-> Scan(hdus[n], Len(hdus[n].cols))]]
    <3>1. hdus[n] \in HDU
      BY ElementOfSeq DEF TypeOK
    <3>2. Len(hdus[n].cols) \in Nat
      BY <3>1, LenProperties DEF HDU
    <3>3. /\ table'[t].columns = Scan(hdus[n], Len(hdus[n].cols))
          /\ \A u \in Objects : u # t => table'[u] = table[u]
      BY <2>1 DEF TypeOK
    <3> DEFINE hdu == hdus[n]
               len == Len(hdu.cols)
    <3>4. hdu \in HDU /\ DescribedIn(J, hdu.cols) /\ len \in 0 .. Len(hdu.cols)
      BY <3>1, <3>2
    <3>5. \A i \in 1 .. len : Readable(hdu, i)
      BY <2>1
    <3> HIDE DEF hdu
    <3>6. \A i \in DOMAIN Scan(hdu, len) : <<Scan(hdu, len)[i], i>> \in J
      BY <3>4, <3>5, ScanEntries
    <3> QED
      BY <3>3, <3>6 DEF Entries, hdu
  <2> QED
    BY <1>1, <1>2, <2>1 DEF ConstructOn
<1>3. ASSUME NEW t \in Objects, NEW n \in 0 .. Len(hdus), Construct(t, n)
      PROVE  Entries(J)'
  <2>1. (IF n = 0 THEN chdu ELSE n) \in 1 .. Len(hdus)
    BY LenProperties DEF TypeOK
  <2> QED
    BY <1>2, <1>3, <2>1 DEF Construct
<1>4. ASSUME NEW t \in Objects, NEW extname \in Extnames, ConstructByName(t, extname)
      PROVE  Entries(J)'
  BY <1>2, <1>4 DEF ConstructByName
<1>5. ASSUME NEW t \in Objects, Destroy(t)
      PROVE  Entries(J)'
  <2>1. /\ table'[t].columns = <<>>
        /\ \A u \in Objects : u # t => table'[u] = table[u]
    BY <1>5 DEF Destroy, TypeOK, NoTable
  <2> QED
    BY <2>1 DEF Entries
<1>6. ASSUME NEW t \in Objects, TableCall(t)
      PROVE  Entries(J)'
  <2>1. t \in Live
    BY <1>6, TableCallEdits
  <2>2. CASE RefreshHdu(t)
    <3>1. \A u \in Objects : table'[u].columns = table[u].columns
      BY <2>2 DEF RefreshHdu, TypeOK
    <3> QED
      BY <3>1 DEF Entries
  <2>3. ASSUME NEW cols \in Seq(Column), Edits(t, cols)
        PROVE  Entries(J)'
    <3>1. \/ UNCHANGED table
          \/ \E call \in Calls : ChangeAndRefresh(t, cols, call)
      BY <2>3 DEF Edits, ChangeAndThrow, EditsByName
    <3>2. ASSUME NEW call \in Calls, ChangeAndRefresh(t, cols, call)
          PROVE  Entries(J)'
      <4> DEFINE hdu == [Own(t) EXCEPT !.cols = cols]
      <4>0. SetAsChdu(t) /\ Reachable(t) /\ Current = Own(t)
        BY <2>3, CurrentIsOwn DEF Edits
      <4>1. hdu \in HDU /\ Refresh(t, hdu, call)
        BY <2>1, <3>2, <4>0, SetColsEffect DEF ChangeAndRefresh
      <4>2. hdu.cols = cols
        BY <2>1, <4>0, OwnType DEF HDU
      <4>3. DescribedIn(J, hdu.cols)
        BY <2>3, <4>2
      <4> HIDE DEF hdu
      <4> QED
        BY <4>1, <4>3, RefreshEntries
    <3> QED
      BY <1>1, <3>1, <3>2
  <2> QED
    BY <1>1, <1>6, <2>2, <2>3, TableCallEdits DEF Quiet, SetExtname
<1> QED
  BY <1>1, <1>3, <1>4, <1>5, <1>6 DEF Next, Move, DeleteHdu, CallUnreachable, vars

\* Each entry of columns says its own place: with that, colinfo( name ).colnum
\* is the number which CFITSIO found, however stale the rest of the entry.
ColumnIsIndex ==
    \A t \in Objects : \A n \in DOMAIN table[t].columns : table[t].columns[n].colnum = n

IndexEntries == {entry \in ColumnInfo \X Nat : entry[1].colnum = entry[2]}

LEMMA DescribedAtIndex ==
    ASSUME NEW cols \in Seq(Column)
    PROVE  DescribedIn(IndexEntries, cols)
<1> SUFFICES ASSUME NEW i \in 1 .. Len(cols), cols[i].type \in ColumnTypes
             PROVE  <<Describe(cols[i], i), i>> \in IndexEntries
  BY DEF DescribedIn
<1>1. cols[i] \in Column /\ i \in Nat \ {0}
  BY ElementOfSeq, LenProperties
<1>2. Describe(cols[i], i) \in ColumnInfo
  BY <1>1, DescribeType
<1>3. Describe(cols[i], i).colnum = i
  BY DEF Describe
<1> QED
  BY <1>1, <1>2, <1>3 DEF IndexEntries

LEMMA EntriesType ==
    ASSUME TypeOK, NEW t \in Objects, NEW n \in DOMAIN table[t].columns
    PROVE  table[t].columns[n] \in ColumnInfo /\ n \in Nat
<1>1. table[t].columns \in Seq(ColumnInfo)
  BY DEF TypeOK
<1> QED
  BY <1>1, LenProperties, ElementOfSeq

LEMMA HdusType ==
    ASSUME TypeOK, NEW h \in 1 .. Len(hdus)
    PROVE  hdus[h] \in HDU /\ hdus[h].cols \in Seq(Column)
<1>1. hdus[h] \in HDU
  BY ElementOfSeq DEF TypeOK
<1> QED
  BY <1>1 DEF HDU

LEMMA NextIsIndex == TypeOK /\ ColumnIsIndex /\ [Next]_vars => ColumnIsIndex'
<1> SUFFICES ASSUME TypeOK, ColumnIsIndex, [Next]_vars PROVE ColumnIsIndex'
  OBVIOUS
<1>1. Entries(IndexEntries)
  BY EntriesType DEF Entries, IndexEntries, ColumnIsIndex
<1>2. \A h \in 1 .. Len(hdus) : DescribedIn(IndexEntries, hdus[h].cols)
  BY HdusType, DescribedAtIndex
<1>3. Entries(IndexEntries)'
  BY <1>1, <1>2, DescribedAtIndex, NextEntries
<1> QED
  BY <1>3 DEF Entries, IndexEntries, ColumnIsIndex

LEMMA NamedResize ==
    ASSUME TypeOK, ColumnIsIndex, NEW t \in Objects, t \in Live, NEW name,
           NEW extent \in Extents, ResizeByName(t, name, extent), hdus' # hdus
    PROVE  LET h == table[t].hdu_num
               cols == hdus[h].cols
           IN  \A n \in DOMAIN cols :
                    hdus'[h].cols[n] # cols[n] => n \in DOMAIN cols /\ cols[n].name = name
<1> DEFINE h == table[t].hdu_num
           cols == hdus[h].cols
<1>1. /\ SetAsChdu(t) /\ Reachable(t) /\ Current = Own(t)
      /\ Own(t).cols = cols
  BY CurrentIsOwn DEF ResizeByName, Own
<1>2. /\ cols \in Seq(Column) /\ h \in 1 .. Len(hdus)
      /\ hdus \in Seq(HDU) /\ hdus[h] \in HDU
  BY <1>1, OwnType DEF Reachable, TypeOK, Own
<1>3. \A new : SetCols(new) => hdus'[h].cols = new
  BY <1>1, <1>2 DEF SetCols, SetAsChdu, HDU
<1>4. Throw(t, Call("resize", t, 0, extent)) => hdus'[h].cols = cols
  BY <1>1, <1>3 DEF Throw, ChangeAndThrow
<1>5. ASSUME NEW n \in 1 .. Len(cols), IsColnum(cols, name, n),
             NEW call, ResizeColumn(t, n, extent, call)
      PROVE  /\ cols[n].name = name
             /\ \A i \in DOMAIN cols : i # n => hdus'[h].cols[i] = cols[i]
  <2>1. cols[n].name = name
    BY <1>5 DEF IsColnum, ColumnsNamed
  <2>2. \/ hdus'[h].cols = cols
        \/ hdus'[h].cols = Resized(cols, n, extent)
        \/ hdus'[h].cols = Lengthened(cols, n, extent)
    BY <1>1, <1>3, <1>5
       DEF ResizeColumn, Throw, Return, ChangeAndThrow, ChangeAndRefresh
  <2>3. \A i \in DOMAIN cols : i # n =>
            Resized(cols, n, extent)[i] = cols[i] /\ Lengthened(cols, n, extent)[i] = cols[i]
    BY <1>2 DEF Resized, Lengthened, ModifyVectorLen, WriteTdim
  <2> QED
    BY <2>1, <2>2, <2>3
<1>6. ASSUME NEW colnum, ColinfoColnum(t, name, colnum),
             ResizeColumn(t, colnum, extent, Call("resize", t, colnum, extent))
      PROVE  \E n \in 1 .. Len(cols) : IsColnum(cols, name, n) /\ colnum = n
  <2>1. PICK n \in DOMAIN table[t].columns :
            IsColnum(cols, name, n) /\ colnum = table[t].columns[n].colnum
    BY <1>1, <1>6 DEF ColinfoColnum
  <2>2. colnum = n
    BY <2>1 DEF ColumnIsIndex
  <2>3. n \in 1 .. Len(cols)
    BY <2>1 DEF IsColnum, ColumnsNamed
  <2> QED
    BY <2>1, <2>2, <2>3
<1> HIDE DEF cols, h
<1>7. \/ Throw(t, Call("resize", t, 0, extent))
      \/ \E n \in 1 .. Len(cols) : \E call :
            IsColnum(cols, name, n) /\ ResizeColumn(t, n, extent, call)
  BY <1>6 DEF ResizeByName
<1>8. \A n \in DOMAIN cols :
            hdus'[h].cols[n] # cols[n] => n \in DOMAIN cols /\ cols[n].name = name
  BY <1>4, <1>5, <1>7
<1> QED
  BY <1>8 DEF cols, h

LEMMA NamedDelete ==
    ASSUME TypeOK, ColumnIsIndex, NEW t \in Objects, t \in Live, NEW name,
           DeleteColumnByName(t, name), hdus' # hdus
    PROVE  LET h == table[t].hdu_num
               cols == hdus[h].cols
           IN  \E n \in DOMAIN cols :
                    /\ n \in DOMAIN cols /\ cols[n].name = name
                    /\ hdus'[h].cols = RemoveAt(cols, n)
<1> DEFINE h == table[t].hdu_num
           cols == hdus[h].cols
<1>1. /\ SetAsChdu(t) /\ Reachable(t) /\ Current = Own(t)
      /\ Own(t).cols = cols
  BY CurrentIsOwn DEF DeleteColumnByName, Own
<1>2. /\ cols \in Seq(Column) /\ h \in 1 .. Len(hdus)
      /\ hdus \in Seq(HDU) /\ hdus[h] \in HDU
  BY <1>1, OwnType DEF Reachable, TypeOK, Own
<1>3. \A new : SetCols(new) => hdus'[h].cols = new
  BY <1>1, <1>2 DEF SetCols, SetAsChdu, HDU
<1>4. ~ Throw(t, Plain("delete", t))
  <2> SUFFICES ASSUME Throw(t, Plain("delete", t)) PROVE hdus' = hdus
    OBVIOUS
  <2>1. hdus' = [hdus EXCEPT ![h].cols = cols]
    BY <1>1 DEF Throw, ChangeAndThrow, SetCols, SetAsChdu
  <2>2. [hdus[h] EXCEPT !.cols = cols] = hdus[h]
    BY <1>2 DEF HDU
  <2> QED
    BY <1>2, <2>1, <2>2
<1>5. PICK colnum \in DOMAIN Own(t).cols :
          /\ ColinfoColnum(t, name, colnum)
          /\ SetCols(DeleteCol(Own(t).cols, colnum))
  BY <1>1, <1>4 DEF DeleteColumnByName
<1>6. PICK n \in DOMAIN table[t].columns :
          IsColnum(cols, name, n) /\ colnum = table[t].columns[n].colnum
  BY <1>1, <1>5 DEF ColinfoColnum
<1>7. colnum = n /\ n \in DOMAIN cols
  BY <1>1, <1>5, <1>6 DEF ColumnIsIndex
<1>8. cols[n].name = name
  BY <1>6 DEF IsColnum, ColumnsNamed
<1> QED
  BY <1>1, <1>3, <1>5, <1>7, <1>8 DEF DeleteCol

\* A resize or a delete by name changes the column of that name in the file
\* and no other, however stale the description it is looked up in may be.
THEOREM CallsByNameHitTheNamedColumn == Spec => NamedColumnOnly
<1> DEFINE Named ==
        \A t \in Live, name \in Names :
            LET h == table[t].hdu_num
                cols == hdus[h].cols
                Hit(n) == n \in DOMAIN cols /\ cols[n].name = name
            IN  /\ last'.op = "delete" /\ hdus' # hdus /\ DeleteColumnByName(t, name) =>
                        \E n \in DOMAIN cols :
                            Hit(n) /\ hdus'[h].cols = RemoveAt(cols, n)
                /\ \A extent \in Extents :
                        last'.op = "resize" /\ hdus' # hdus /\ ResizeByName(t, name, extent) =>
                            \A n \in DOMAIN cols :
                                hdus'[h].cols[n] # cols[n] => Hit(n)
<1>1. TypeOK /\ ColumnIsIndex /\ [Next]_vars => [Named]_vars
  BY NamedResize, NamedDelete DEF Live
<1>2. Init => ColumnIsIndex
  BY DEF Init, ColumnIsIndex, NoTable
<1>3. TypeOK /\ ColumnIsIndex /\ [Next]_vars => ColumnIsIndex'
  BY NextIsIndex
<1> QED
  BY <1>1, <1>2, <1>3, TypeCorrect, PTL DEF Spec, NamedColumnOnly

-----------------------------------------------------------------------------
(***************************************************************************)
(* TDIM                                                                    *)
(***************************************************************************)
HdusIn(S) == \A h \in DOMAIN hdus : hdus[h].cols \in Seq(S)

\* Columns of which every edit makes columns of the same kind.
LEMMA NextHdus ==
    ASSUME TypeOK, NEW S, HdusIn(S),
           \A t \in Objects, cols \in Seq(Column) :
                Edits(t, cols) /\ Own(t).cols \in Seq(S) => cols \in Seq(S),
           [Next]_vars
    PROVE  HdusIn(S)'
<1>0. DOMAIN hdus = 1 .. Len(hdus) /\ Len(hdus) \in Nat /\ hdus \in Seq(HDU)
  BY LenProperties DEF TypeOK
<1>1. CASE UNCHANGED hdus
  BY <1>1 DEF HdusIn
<1>2. CASE DeleteHdu
  <2>1. CASE chdu = 1
    <3>1. <<>> \in Seq(S)
      OBVIOUS
    <3>2. hdus[1] \in HDU
      BY <1>0, <2>1, ElementOfSeq DEF TypeOK
    <3>3. DOMAIN hdus' = DOMAIN hdus /\ hdus'[1].cols = <<>>
      BY <1>0, <1>2, <2>1, <3>2 DEF DeleteHdu, HDU, TypeOK
    <3>4. \A h \in DOMAIN hdus : h # 1 => hdus'[h] = hdus[h]
      BY <1>0, <1>2, <2>1 DEF DeleteHdu
    <3> QED
      BY <3>1, <3>3, <3>4 DEF HdusIn
  <2>2. CASE chdu # 1
    <3> DEFINE Hdus == {hdu \in HDU : hdu.cols \in Seq(S)}
    <3>1. hdus \in Seq(Hdus)
      BY <1>0, ElementOfSeq, SeqDef DEF HdusIn
    <3>2. chdu \in 1 .. Len(hdus) /\ hdus' = RemoveAt(hdus, chdu)
      BY <1>2, <2>2 DEF DeleteHdu, TypeOK
    <3>3. hdus' \in Seq(Hdus)
      BY <3>1, <3>2, RemoveAtProperties
    <3>4. \A h \in DOMAIN hdus' : hdus'[h] \in Hdus
      BY <3>3, ElementOfSeq, LenProperties
    <3> QED
      BY <3>4 DEF HdusIn
  <2> QED
    BY <2>1, <2>2
<1>3. ASSUME NEW t \in Objects, TableCall(t)
      PROVE  HdusIn(S)'
  <2> DEFINE own == table[t].hdu_num
  <2>1. t \in Live
    BY <1>3, TableCallEdits
  <2>2. ASSUME NEW extname, SetExtname(t, extname)
        PROVE  HdusIn(S)'
    <3>1. own \in 1 .. Len(hdus) /\ hdus' = [hdus EXCEPT ![own].extname = extname]
      BY <2>2 DEF SetExtname, SetAsChdu, Reachable
    <3>2. hdus[own] \in HDU
      BY <1>0, <3>1, ElementOfSeq
    <3>3. DOMAIN hdus' = DOMAIN hdus /\ \A h \in DOMAIN hdus : hdus'[h].cols = hdus[h].cols
      BY <1>0, <3>1, <3>2 DEF HDU
    <3> QED
      BY <3>3 DEF HdusIn
  <2>3. ASSUME NEW cols \in Seq(Column), Edits(t, cols)
        PROVE  HdusIn(S)'
    <3>1. SetAsChdu(t) /\ SetCols(cols)
      BY <2>3 DEF Edits, ChangeAndRefresh, ChangeAndThrow, EditsByName
    <3>2. own \in 1 .. Len(hdus)
      BY <3>1 DEF SetAsChdu, Reachable
    <3>3. cols \in Seq(S)
      BY <1>0, <2>3, <3>2 DEF HdusIn, Own
    <3>4. hdus[own] \in HDU
      BY <1>0, <3>2, ElementOfSeq
    <3>5. /\ DOMAIN hdus' = DOMAIN hdus
          /\ hdus'[own].cols = cols
          /\ \A h \in DOMAIN hdus : h # own => hdus'[h] = hdus[h]
      BY <1>0, <3>1, <3>2, <3>4 DEF SetCols, SetAsChdu, HDU
    <3> QED
      BY <3>3, <3>5 DEF HdusIn
  <2> QED
    BY <1>1, <1>3, <2>1, <2>2, <2>3, TableCallEdits DEF Quiet, RefreshHdu
<1> QED
  BY <1>1, <1>2, <1>3
     DEF Next, Move, Construct, ConstructByName, ConstructOn, Destroy, CallUnreachable, vars

CountedEntries == {entry \in ColumnInfo \X Nat : entry[1].extent \in CountedShape}

LEMMA DescribedCounted ==
    ASSUME NEW cols \in Seq(SoundColumn)
    PROVE  DescribedIn(CountedEntries, cols)
<1> SUFFICES ASSUME NEW i \in 1 .. Len(cols), cols[i].type \in ColumnTypes
             PROVE  <<Describe(cols[i], i), i>> \in CountedEntries
  BY DEF DescribedIn
<1>1. cols[i] \in Column /\ Sound(cols[i]) /\ i \in Nat \ {0}
  BY ElementOfSeq, LenProperties DEF SoundColumn
<1>2. Describe(cols[i], i) \in ColumnInfo
  BY <1>1, DescribeType
<1>3. Describe(cols[i], i).extent = CellExtent(cols[i])
  BY DEF Describe
<1>4. CellExtent(cols[i]) \in CountedShape
  BY <1>1, CellExtentSound
<1> QED
  BY <1>1, <1>2, <1>3, <1>4 DEF CountedEntries

LEMMA NextSound ==
    ASSUME TdimsWritten, TypeOK, HdusIn(SoundColumn), DescriptionsCounted, [Next]_vars
    PROVE  HdusIn(SoundColumn)' /\ DescriptionsCounted'
<1>1. \A t \in Objects, cols \in Seq(Column) :
            Edits(t, cols) /\ Own(t).cols \in Seq(SoundColumn) => cols \in Seq(SoundColumn)
  BY SoundColumnKind, EditedKeepsKind DEF Edits
<1>2. HdusIn(SoundColumn)'
  BY <1>1, NextHdus
<1>3. DOMAIN hdus = 1 .. Len(hdus)
  BY LenProperties DEF TypeOK
<1>4. \A h \in 1 .. Len(hdus) : DescribedIn(CountedEntries, hdus[h].cols)
  BY <1>3, DescribedCounted DEF HdusIn
<1>5. \A t \in Objects, cols \in Seq(Column) :
            Edits(t, cols) => DescribedIn(CountedEntries, cols)
  <2>1. \A t \in Objects : Reachable(t) => Own(t).cols \in Seq(SoundColumn)
    BY <1>3 DEF Reachable, Own, HdusIn
  <2>2. \A t, cols : Edits(t, cols) => Reachable(t)
    BY DEF Edits, SetAsChdu
  <2> QED
    BY <1>1, <2>1, <2>2, DescribedCounted
<1>6. Entries(CountedEntries)
  BY EntriesType DEF Entries, CountedEntries, DescriptionsCounted
<1>7. Entries(CountedEntries)'
  BY <1>4, <1>5, <1>6, NextEntries
<1>8. DescriptionsCounted'
  BY <1>7 DEF Entries, CountedEntries, DescriptionsCounted
<1> QED
  BY <1>2, <1>8

\* Starting from files in which every TDIM accounts for its column, and with
\* shapes of which an int can count the elements, every column can be
\* described for ever, as long as CFITSIO does not fail between TFORM and TDIM.
THEOREM ColumnsStayReadable ==
    ASSUME TdimsWritten,
           \A file \in InitialFiles : \A h \in DOMAIN file : file[h].cols \in Seq(SoundColumn)
    PROVE  Spec => []TdimConsistent
<1>1. Init => HdusIn(SoundColumn) /\ DescriptionsCounted
  BY DEF Init, HdusIn, DescriptionsCounted, NoTable
<1>2. TypeOK /\ HdusIn(SoundColumn) /\ DescriptionsCounted /\ [Next]_vars
        => HdusIn(SoundColumn)' /\ DescriptionsCounted'
  BY NextSound
<1>3. HdusIn(SoundColumn) => TdimConsistent
  <2> SUFFICES ASSUME HdusIn(SoundColumn), NEW h \in DOMAIN hdus, NEW n \in DOMAIN hdus[h].cols
               PROVE  TdimReadable(hdus[h].cols[n])
    BY DEF TdimConsistent
  <2>1. hdus[h].cols[n] \in SoundColumn
    BY ElementOfSeq, LenProperties DEF HdusIn
  <2> QED
    BY <2>1 DEF SoundColumn, Sound
<1> QED
  BY <1>1, <1>2, <1>3, TypeCorrect, PTL DEF Spec

-----------------------------------------------------------------------------
(***************************************************************************)
(* Resizing                                                                *)
(***************************************************************************)
\* The step is a resize of this column, if it exists, to this shape.
Resizes(t, colnum, extent) ==
    /\ SetAsChdu(t)
    /\ ResizeColumn(t, colnum, extent, Call("resize", t, colnum, extent))

LEMMA CallOps ==
    /\ OtherCall.op = "other"
    /\ \A call \in Calls : Threw(call).op = call.op
    /\ \A op, obj : Plain(op, obj).op = op
    /\ \A op, obj, n, extent : Call(op, obj, n, extent).op = op
BY DEF OtherCall, Plain, Call, Calls, Threw

LEMMA RefreshKeepsCall ==
    ASSUME NEW t, NEW cols, NEW call,
           ChangeAndRefresh(t, cols, call) \/ ChangeAndThrow(t, cols, call)
    PROVE  last' \in {call, Threw(call)}
BY DEF ChangeAndRefresh, ChangeAndThrow, Refresh, RefreshThrowsEarly, RefreshScans

LEMMA OnlyResizesResize ==
    ASSUME TypeOK, Next, last'.op = "resize"
    PROVE  \E t \in Live, colnum \in Nat, extent \in Extents : Resizes(t, colnum, extent)
<1>1. ~ (Move \/ DeleteHdu)
  BY CallOps DEF Move, DeleteHdu
<1>2. \A t \in Objects : \A n : ~ ConstructOn(t, n)
  BY CallOps, CallTypes DEF ConstructOn
<1>3. \A t \in Objects : ~ (Destroy(t) \/ CallUnreachable(t))
  BY CallOps, CallTypes DEF Destroy, CallUnreachable
<1>4. PICK t \in Objects : TableCall(t)
  BY <1>1, <1>2, <1>3 DEF Next, Construct, ConstructByName
<1>5. t \in Live
  BY <1>4, TableCallEdits
<1>6. ~ (Query(t) \/ RefreshHdu(t))
  BY CallOps DEF Query, RefreshHdu, Return
<1>7. \A extname : ~ SetExtname(t, extname)
  BY CallOps DEF SetExtname
<1>8. \A colnum : ~ HasKeyword(t, colnum)
  <2>1. \A colnum, answer :
            [Call("has_keyword", t, colnum, <<>>) EXCEPT !.answer = answer].op = "has_keyword"
    BY DEF Call
  <2> QED
    BY <2>1 DEF HasKeyword, Return
<1>9. Plain("add", t) \in Calls /\ Plain("delete", t) \in Calls
  BY CallTypes
<1>10. \A ttype, type, extent, colnum : ~ AddColumn(t, ttype, type, extent, colnum)
  <2> SUFFICES ASSUME NEW ttype, NEW type, NEW extent, NEW colnum,
                      AddColumn(t, ttype, type, extent, colnum)
               PROVE  last'.op = "add"
    OBVIOUS
  <2>1. last' \in {Plain("add", t), Threw(Plain("add", t))}
    BY RefreshKeepsCall DEF AddColumn, Throw
  <2> QED
    BY <1>9, <2>1, CallOps
<1>11. \A key : ~ (DeleteColumn(t, key) \/ DeleteColumnByName(t, key))
  <2> SUFFICES ASSUME NEW key, DeleteColumn(t, key) \/ DeleteColumnByName(t, key)
               PROVE  last'.op = "delete"
    OBVIOUS
  <2>1. last' \in {Plain("delete", t), Threw(Plain("delete", t))}
    BY RefreshKeepsCall DEF DeleteColumn, DeleteColumnByName, Throw
  <2> QED
    BY <1>9, <2>1, CallOps
<1>12. ASSUME NEW colnum \in 1 .. MaxColumns, NEW extent \in Extents, Resize(t, colnum, extent)
       PROVE  colnum \in Nat /\ Resizes(t, colnum, extent)
  BY <1>12, MaxColumnsAssumption DEF Resize, Resizes
<1>13. ASSUME NEW name \in Names, NEW extent \in Extents, ResizeByName(t, name, extent)
       PROVE  \E colnum \in Nat : Resizes(t, colnum, extent)
  <2>1. table[t].columns \in Seq(ColumnInfo)
    BY DEF TypeOK
  <2>2. Len(table[t].columns) \in Nat /\ 0 \notin DOMAIN table[t].columns
    BY <2>1, LenProperties
  <2> QED
    BY <1>13, <2>2 DEF ResizeByName, Resizes, ResizeColumn
<1> QED
  BY <1>4, <1>5, <1>6, <1>7, <1>8, <1>10, <1>11, <1>12, <1>13 DEF TableCall, Add, AddLike

\* A call of t replaces the n-th column of its HDU and refreshes.
Replaces(t, n, col, call) ==
    SetAsChdu(t) /\ ChangeAndRefresh(t, [Own(t).cols EXCEPT ![n] = col], call)

\* What a resize leaves behind, by the way it ends.
LEMMA ResizeEnds ==
    ASSUME TypeOK, NEW t \in Objects, t \in Live, NEW colnum \in Nat, NEW extent \in Extents,
           Resizes(t, colnum, extent)
    PROVE  LET call == Call("resize", t, colnum, extent)
               columns == table[t].columns
               cols == Own(t).cols
           IN  \/ last' = call /\ UNCHANGED <<hdus, table, drift>>
                  /\ colnum \in DOMAIN columns /\ SameShape(columns[colnum].extent, extent)
               \/ last' = Threw(call) /\ UNCHANGED table
                  /\ ~ (colnum \in DOMAIN columns /\ SameShape(columns[colnum].extent, extent))
               \/ /\ colnum \in DOMAIN cols
                  /\ Replaces(t, colnum, ReshapedColumn(cols[colnum], extent), call)
<1> DEFINE call == Call("resize", t, colnum, extent)
           cols == Own(t).cols
<1>1. cols \in Seq(Column) /\ DOMAIN cols = 1 .. Len(cols)
  BY OwnType, LenProperties DEF Resizes, SetAsChdu
<1>2. SetAsChdu(t) /\ Current = Own(t) /\ ResizeColumn(t, colnum, extent, call)
  BY CurrentIsOwn DEF Resizes
<1>3. colnum \in DOMAIN cols =>
            Resized(cols, colnum, extent) =
                [cols EXCEPT ![colnum] = ReshapedColumn(cols[colnum], extent)]
  BY <1>1, ResizedIsOneColumn
<1>4. \A new : ChangeAndThrow(t, new, call) => last' = Threw(call) /\ UNCHANGED table
  BY DEF ChangeAndThrow
<1> HIDE DEF call
<1> QED
  BY <1>2, <1>3, <1>4 DEF ResizeColumn, Throw, Return, Replaces, call

\* The column is changed, whether or not the refresh then throws.
LEMMA ReplacedColumn ==
    ASSUME TypeOK, NEW t \in Objects, t \in Live, Reachable(t), NEW n \in DOMAIN Own(t).cols,
           NEW col \in Column, NEW call, Replaces(t, n, col, call)
    PROVE  /\ DOMAIN Own(t)'.cols = DOMAIN Own(t).cols
           /\ Own(t)'.cols[n] = col
           /\ last' \in {call, Threw(call)}
<1> DEFINE cols == [Own(t).cols EXCEPT ![n] = col]
<1>1. Own(t).cols \in Seq(Column) /\ DOMAIN Own(t).cols = 1 .. Len(Own(t).cols)
  BY OwnType, LenProperties
<1>2. cols \in Seq(Column) /\ DOMAIN cols = DOMAIN Own(t).cols /\ cols[n] = col
  BY <1>1, ExceptSeq
<1>3. SetAsChdu(t) /\ ChangeAndRefresh(t, cols, call)
  BY DEF Replaces
<1> HIDE DEF cols
<1>4. Own(t) \in HDU /\ table[t].hdu_num \in 1 .. Len(hdus) /\ SetCols(cols)
  BY <1>3, OwnType DEF Reachable, ChangeAndRefresh
<1>5. hdus'[table[t].hdu_num] = [Own(t) EXCEPT !.cols = cols]
  BY <1>2, <1>3, <1>4, SetColsEffect DEF Own
<1>6. table'[t].hdu_num = table[t].hdu_num
  <2>1. table \in [Objects -> TableType]
    BY DEF TypeOK, TableType
  <2> QED
    BY <1>3, <2>1 DEF ChangeAndRefresh, Refresh, RefreshThrowsEarly, RefreshScans, TableType
<1>7. Own(t)'.cols = cols
  BY <1>4, <1>5, <1>6 DEF Own, HDU
<1>8. last' \in {call, Threw(call)}
  BY <1>3, RefreshKeepsCall
<1> QED
  BY <1>2, <1>7, <1>8

\* A resize which throws after it has changed the column leaves no
\* description on whose word a second call would return early; whatever
\* fails, and whatever the file is.
THEOREM FailedResizesShow ==
    ASSUME ShapesCounted
    PROVE  Spec => FailedResizeNotMasked
<1>1. ASSUME TypeOK, Next, last'.op = "resize", ~ last'.ok
      PROVE  FailureNotMasked'
  <2>1. PICK t \in Live, colnum \in Nat, extent \in Extents : Resizes(t, colnum, extent)
    BY <1>1, OnlyResizesResize
  <2> DEFINE call == Call("resize", t, colnum, extent)
             columns == table[t].columns
             cols == Own(t).cols
             col == ReshapedColumn(cols[colnum], extent)
  <2>2. t \in Objects /\ Reachable(t) /\ extent \in Seq(Nat)
    BY <2>1, ExtentsAssumption, SeqMonotonic DEF Live, Resizes, SetAsChdu
  <2>3. /\ call.ok = TRUE
        /\ Threw(call).obj = t /\ Threw(call).colnum = colnum /\ Threw(call).extent = extent
    BY DEF Call, Threw
  <2>4. \/ last' = call
        \/ last' = Threw(call) /\ UNCHANGED table
           /\ ~ (colnum \in DOMAIN columns /\ SameShape(columns[colnum].extent, extent))
        \/ colnum \in DOMAIN cols /\ Replaces(t, colnum, col, call)
    BY <1>1, <2>1, <2>2, ResizeEnds
  <2> HIDE DEF call
  <2>5. CASE last' = call
    BY <1>1, <2>3, <2>5
  <2>6. CASE /\ last' = Threw(call) /\ UNCHANGED table
             /\ ~ (colnum \in DOMAIN columns /\ SameShape(columns[colnum].extent, extent))
    BY <2>3, <2>6 DEF FailureNotMasked
  <2>7. CASE colnum \in DOMAIN cols /\ Replaces(t, colnum, col, call)
    <3>1. cols \in Seq(Column)
      BY <1>1, <2>1, <2>2, OwnType
    <3>2. cols[colnum] \in Column
      BY <2>7, <3>1, LenProperties, ElementOfSeq
    <3>3. col \in Column
      BY <3>2, ReshapedColumnType
    <3>4. extent \in CountedShape
      BY DEF ShapesCounted
    <3>5. SameShape(ReadTdim(col), extent)
      BY <3>2, <3>4, ReshapedColumnDescribed DEF Column
    <3> HIDE DEF col
    <3>6. /\ DOMAIN Own(t)'.cols = DOMAIN Own(t).cols
          /\ Own(t)'.cols[colnum] = col
          /\ last' \in {call, Threw(call)}
      BY <1>1, <2>1, <2>2, <2>7, <3>3, ReplacedColumn
    <3> QED
      BY <1>1, <2>3, <2>7, <3>5, <3>6 DEF FailureNotMasked
  <2> QED
    BY <2>4, <2>5, <2>6, <2>7
<1>2. TypeOK /\ [Next]_vars => [FailureNotMasked']_vars
  <2>1. last'.op # "resize" \/ last'.ok => FailureNotMasked'
    BY DEF FailureNotMasked
  <2> QED
    BY <1>1, <2>1
<1> QED
  BY <1>2, TypeCorrect, PTL DEF Spec, FailedResizeNotMasked

\* An early return is justified, and a change is what was asked for.
LEMMA ResizeIsEffective ==
    ASSUME ShapesCounted, TypeOK, CacheFresh, HdusIn(UncutColumn),
           Next, last'.op = "resize", last'.ok, drift'[last'.obj] = {}
    PROVE  ResizedAsAsked'
<1>1. PICK t \in Live, colnum \in Nat, extent \in Extents : Resizes(t, colnum, extent)
  BY OnlyResizesResize
<1> DEFINE call == Call("resize", t, colnum, extent)
           columns == table[t].columns
           cols == Own(t).cols
           col == ReshapedColumn(cols[colnum], extent)
<1>2. t \in Objects /\ Reachable(t) /\ extent \in Seq(Nat)
  BY <1>1, ExtentsAssumption, SeqMonotonic DEF Live, Resizes, SetAsChdu
<1>3. Threw(call).ok = FALSE /\ call.obj = t /\ call.colnum = colnum /\ call.extent = extent
  BY DEF Call, Threw
<1>4. \/ last' = call /\ UNCHANGED <<hdus, table, drift>>
         /\ colnum \in DOMAIN columns /\ SameShape(columns[colnum].extent, extent)
      \/ last' = Threw(call)
      \/ colnum \in DOMAIN cols /\ Replaces(t, colnum, col, call)
  BY <1>1, <1>2, ResizeEnds
<1>5. /\ cols \in Seq(Column) /\ DOMAIN cols = 1 .. Len(cols)
      /\ cols \in Seq(UncutColumn)
  <2>1. table[t].hdu_num \in DOMAIN hdus
    BY <1>2, LenProperties DEF Reachable, TypeOK
  <2> QED
    BY <1>1, <1>2, <2>1, OwnType, LenProperties DEF HdusIn, Own
<1> HIDE DEF call
<1>6. CASE /\ last' = call /\ UNCHANGED <<hdus, table, drift>>
           /\ colnum \in DOMAIN columns /\ SameShape(columns[colnum].extent, extent)
  <2>1. ColumnsFresh(t)
    BY <1>1, <1>3, <1>6 DEF CacheFresh
  <2>2. columns[colnum].extent = CellExtent(cols[colnum])
    <3>1. columns = Scan(Own(t), Len(cols))
      BY <2>1 DEF ColumnsFresh
    <3> QED
      BY <1>6, <3>1 DEF Scan, Describe
  <2>3. Own(t)' = Own(t)
    BY <1>6 DEF Own
  <2> QED
    BY <1>3, <1>6, <2>2, <2>3 DEF ResizedAsAsked
<1>7. CASE colnum \in DOMAIN cols /\ Replaces(t, colnum, col, call)
  <2>1. cols[colnum] \in Column /\ cols[colnum].width = 0
    BY <1>5, <1>7, ElementOfSeq, LenProperties DEF UncutColumn
  <2>2. col \in Column
    BY <2>1, ReshapedColumnType
  <2>3. extent \in CountedShape
    BY DEF ShapesCounted
  <2>4. SameShape(CellExtent(col), extent)
    BY <2>1, <2>3, ReshapedColumnDescribed DEF Column
  <2> HIDE DEF col
  <2>5. Own(t)'.cols[colnum] = col /\ last' \in {call, Threw(call)}
    BY <1>1, <1>2, <1>7, <2>2, ReplacedColumn
  <2> QED
    BY <1>3, <2>4, <2>5 DEF ResizedAsAsked
<1> QED
  BY <1>3, <1>4, <1>6, <1>7

\* A resize which returns, of an object which describes its HDU exactly, has
\* given the column the shape asked for, though it may have returned early on
\* the word of the description; whatever CFITSIO calls fail.
THEOREM ResizesAreEffective ==
    ASSUME ShapesCounted,
           \A file \in InitialFiles : \A h \in DOMAIN file : file[h].cols \in Seq(UncutColumn)
    PROVE  Spec => ResizeEffective
<1>1. Init => HdusIn(UncutColumn)
  BY DEF Init, HdusIn
<1>2. TypeOK /\ HdusIn(UncutColumn) /\ [Next]_vars => HdusIn(UncutColumn)'
  <2>1. \A t \in Objects, cols \in Seq(Column) :
            Edits(t, cols) /\ Own(t).cols \in Seq(UncutColumn) => cols \in Seq(UncutColumn)
    BY UncutColumnKind, EditedKeepsKind DEF Edits
  <2> QED
    BY <2>1, NextHdus
<1>3. TypeOK /\ CacheFresh /\ HdusIn(UncutColumn) /\ [Next]_vars => [ResizedAsAsked']_vars
  <2>1. ~ (last'.op = "resize" /\ last'.ok /\ drift'[last'.obj] = {}) => ResizedAsAsked'
    BY DEF ResizedAsAsked
  <2> QED
    BY <2>1, ResizeIsEffective
<1> QED
  BY <1>1, <1>2, <1>3, TypeCorrect, DescriptionsAreFresh, PTL DEF Spec, ResizeEffective

-----------------------------------------------------------------------------
(***************************************************************************)
(* Refinement: the layout of a file, and what edits make of it             *)
(***************************************************************************)
LayoutColumn == [name : Names, type : ColumnTypes \cup {"Complex"}, shape : Seq(Nat)]

Laid(cols) == [n \in DOMAIN cols |-> ColumnLayout(cols[n])]

LEMMA ColumnLayoutType ==
    ASSUME NEW col \in Column
    PROVE  ColumnLayout(col) \in LayoutColumn
<1>1. CellExtent(col) \in Seq(Nat)
  BY CellExtentType
<1>2. Squeeze(CellExtent(col)) \in Seq(Nat)
  BY <1>1, SqueezeType, SeqMonotonic
<1> QED
  BY <1>2 DEF ColumnLayout, LayoutColumn, Column

LEMMA LaidType ==
    ASSUME NEW cols \in Seq(Column)
    PROVE  /\ Laid(cols) \in Seq(LayoutColumn)
           /\ Len(Laid(cols)) = Len(cols)
           /\ \A n \in 1 .. Len(cols) : Laid(cols)[n] = ColumnLayout(cols[n])
<1>1. Len(cols) \in Nat /\ DOMAIN cols = 1 .. Len(cols)
  BY LenProperties
<1>2. \A n \in 1 .. Len(cols) : ColumnLayout(cols[n]) \in LayoutColumn
  BY ElementOfSeq, ColumnLayoutType
<1>3. Laid(cols) \in [1 .. Len(cols) -> LayoutColumn]
  BY <1>1, <1>2 DEF Laid
<1>4. Laid(cols) \in Seq(LayoutColumn) /\ Len(Laid(cols)) = Len(cols)
  BY <1>1, <1>3, FunctionIsSeq
<1> QED
  BY <1>1, <1>4 DEF Laid

LEMMA LaidInsert ==
    ASSUME NEW old \in Seq(Column), NEW n \in Nat \ {0}, NEW col \in Column
    PROVE  LET at == InsertedAt(Len(old), n)
               laid == Laid(InsertCol(old, n, col))
           IN  /\ at \in 1 .. Len(Laid(old)) + 1
               /\ laid[at] = ColumnLayout(col)
               /\ Len(laid) = Len(Laid(old)) + 1
               /\ laid = InsertAt(Laid(old), at, laid[at])
<1> DEFINE at == InsertedAt(Len(old), n)
           new == InsertCol(old, n, col)
           lay == ColumnLayout(col)
<1>1. Grows(new, old, at, col, Column)
  BY InsertColElements
<1> HIDE DEF at, new
<1>2. new \in Seq(Column) /\ Len(new) = Len(old) + 1 /\ at \in 1 .. Len(old) + 1 /\ Len(old) \in Nat
  BY <1>1, LenProperties DEF Grows
<1>3. /\ Laid(old) \in Seq(LayoutColumn) /\ Len(Laid(old)) = Len(old)
      /\ \A j \in 1 .. Len(old) : Laid(old)[j] = ColumnLayout(old[j])
  BY LaidType
<1>4. /\ Laid(new) \in Seq(LayoutColumn) /\ Len(Laid(new)) = Len(new)
      /\ \A j \in 1 .. Len(new) : Laid(new)[j] = ColumnLayout(new[j])
  BY <1>2, LaidType
<1>5. lay \in LayoutColumn
  BY ColumnLayoutType
<1>6. Grows(Laid(new), Laid(old), at, lay, LayoutColumn)
  <2>1. Laid(new)[at] = lay
    BY <1>1, <1>2, <1>4 DEF Grows
  <2>2. ASSUME NEW j \in 1 .. at - 1
        PROVE  Laid(new)[j] = Laid(old)[j]
    <3>1. j \in 1 .. Len(old) /\ j \in 1 .. Len(new)
      BY <1>2
    <3> QED
      BY <1>1, <1>3, <1>4, <3>1 DEF Grows
  <2>3. ASSUME NEW j \in at + 1 .. Len(old) + 1
        PROVE  Laid(new)[j] = Laid(old)[j - 1]
    <3>1. j - 1 \in 1 .. Len(old) /\ j \in 1 .. Len(new)
      BY <1>2
    <3> QED
      BY <1>1, <1>3, <1>4, <3>1 DEF Grows
  <2> QED
    BY <1>2, <1>3, <1>4, <2>1, <2>2, <2>3 DEF Grows
<1> HIDE DEF lay
<1>7. at \in 1 .. Len(Laid(old)) + 1
  BY <1>2, <1>3
<1>8. Grows(InsertAt(Laid(old), at, lay), Laid(old), at, lay, LayoutColumn)
  BY <1>3, <1>5, <1>7, InsertAtProperties
<1>9. Laid(new) = InsertAt(Laid(old), at, lay)
  BY <1>2, <1>3, <1>6, <1>8, GrowsOnce
<1>10. Laid(new)[at] = lay /\ Len(Laid(new)) = Len(Laid(old)) + 1
  BY <1>6 DEF Grows
<1> QED
  BY <1>7, <1>9, <1>10 DEF new, at, lay

LEMMA LaidRemove ==
    ASSUME NEW old \in Seq(Column), NEW n \in 1 .. Len(old)
    PROVE  Laid(RemoveAt(old, n)) = RemoveAt(Laid(old), n)
<1> DEFINE new == RemoveAt(old, n)
<1>1. Shrinks(new, old, n, Column)
  BY RemoveAtElements
<1> HIDE DEF new
<1>2. new \in Seq(Column) /\ Len(new) = Len(old) - 1 /\ Len(old) \in Nat \ {0}
  BY <1>1, LenProperties DEF Shrinks
<1>3. /\ Laid(old) \in Seq(LayoutColumn) /\ Len(Laid(old)) = Len(old)
      /\ \A j \in 1 .. Len(old) : Laid(old)[j] = ColumnLayout(old[j])
  BY LaidType
<1>4. /\ Laid(new) \in Seq(LayoutColumn) /\ Len(Laid(new)) = Len(new)
      /\ \A j \in 1 .. Len(new) : Laid(new)[j] = ColumnLayout(new[j])
  BY <1>2, LaidType
<1>5. Shrinks(Laid(new), Laid(old), n, LayoutColumn)
  <2>1. ASSUME NEW j \in 1 .. n - 1
        PROVE  Laid(new)[j] = Laid(old)[j]
    <3>1. j \in 1 .. Len(old) /\ j \in 1 .. Len(new)
      BY <1>2
    <3> QED
      BY <1>1, <1>3, <1>4, <3>1 DEF Shrinks
  <2>2. ASSUME NEW j \in n .. Len(old) - 1
        PROVE  Laid(new)[j] = Laid(old)[j + 1]
    <3>1. j + 1 \in 1 .. Len(old) /\ j \in 1 .. Len(new)
      BY <1>2
    <3> QED
      BY <1>1, <1>3, <1>4, <3>1 DEF Shrinks
  <2> QED
    BY <1>2, <1>3, <1>4, <2>1, <2>2 DEF Shrinks
<1>6. Shrinks(RemoveAt(Laid(old), n), Laid(old), n, LayoutColumn)
  BY <1>3, RemoveAtElements
<1> QED
  BY <1>2, <1>3, <1>5, <1>6, ShrinksOnce DEF new

LEMMA LaidReshape ==
    ASSUME NEW old \in Seq(Column), NEW n \in 1 .. Len(old), NEW col \in Column,
           col.name = old[n].name, col.type = old[n].type
    PROVE  Laid([old EXCEPT ![n] = col]) =
                [Laid(old) EXCEPT ![n].shape = ColumnLayout(col).shape]
<1> DEFINE new == [old EXCEPT ![n] = col]
           D == 1 .. Len(old)
<1>1. new \in Seq(Column) /\ Len(new) = Len(old) /\ n \in D
      /\ \A j \in D : new[j] = IF j = n THEN col ELSE old[j]
  BY ExceptSeq
<1> HIDE DEF new
<1>2. /\ Laid(old) \in [D -> LayoutColumn]
      /\ \A j \in D : Laid(old)[j] = ColumnLayout(old[j])
  BY LaidType, LenProperties
<1>3. /\ Laid(new) \in [D -> LayoutColumn]
      /\ \A j \in D : Laid(new)[j] = ColumnLayout(new[j])
  BY <1>1, LaidType, LenProperties
<1>4. ColumnLayout(col).shape \in Seq(Nat)
  BY ColumnLayoutType DEF LayoutColumn
<1> DEFINE other == [Laid(old) EXCEPT ![n].shape = ColumnLayout(col).shape]
<1>5. [ColumnLayout(old[n]) EXCEPT !.shape = ColumnLayout(col).shape] = ColumnLayout(col)
  BY DEF ColumnLayout
<1>6. other \in [D -> LayoutColumn]
  BY <1>2, <1>4 DEF LayoutColumn
<1>7. \A j \in D : Laid(new)[j] = other[j]
  BY <1>1, <1>2, <1>3, <1>5
<1> HIDE DEF D, other
<1>8. Laid(new) = other
  BY <1>3, <1>6, <1>7, SameFunction
<1> QED
  BY <1>8 DEF new, other

-----------------------------------------------------------------------------
(***************************************************************************)
(* Columns of the types and shapes which Layouts knows                     *)
(***************************************************************************)
AskedTypes == {StoredType(type) : type \in Types}

AskedShapes == {Squeeze(extent) : extent \in Extents}

\* Layouts' Flat of them.
FlatShapes == {Squeeze(<<Product(extent)>>) : extent \in Extents}

\* A description, a column, which Layouts allows to take or leave.
Known(type, extent) ==
    /\ extent \in CountedShape
    /\ StoredType(type) \in AskedTypes
    /\ Squeeze(extent) \in AskedShapes \cup FlatShapes

KnownColumn ==
    {col \in SoundColumn :
        col.width = 0 /\ (col.type \in ColumnTypes => Known(col.type, CellExtent(col)))}

DescriptionsKnown ==
    \A t \in Objects : \A n \in DOMAIN table[t].columns :
        Known(table[t].columns[n].type, table[t].columns[n].extent)

LEMMA KnownAsked ==
    ASSUME ShapesCounted, DescriptionsKnown, NEW type, NEW extent, Asked(type, extent)
    PROVE  Known(type, extent)
<1>1. CASE type \in Types /\ extent \in Extents
  BY <1>1 DEF Known, ShapesCounted, AskedTypes, AskedShapes
<1>2. CASE \E t \in Objects : \E n \in DOMAIN table[t].columns :
                type = table[t].columns[n].type /\ extent = table[t].columns[n].extent
  BY <1>2 DEF DescriptionsKnown
<1> QED
  BY <1>1, <1>2 DEF Asked

LEMMA StoredTwice ==
    ASSUME NEW type
    PROVE  StoredType(StoredType(type)) = StoredType(type)
BY DEF StoredType

\* All the elements on one axis, as CFITSIO has it for want of a TDIM.
LEMMA KnownFlat ==
    ASSUME ShapesCounted, NEW type, NEW extent, Known(type, extent)
    PROVE  /\ <<Product(extent)>> \in CountedShape
           /\ Squeeze(<<Product(extent)>>) \in FlatShapes
<1>1. extent \in Seq(Nat) /\ Product(extent) \in IntCounts /\ Product(extent) \in Nat
  BY HalfType DEF Known, CountedShape, IntCounts
<1>2. <<Product(extent)>> \in Seq(Nat) /\ Product(<<Product(extent)>>) = Product(extent)
  BY <1>1, OneAxis
<1>3. PICK asked \in Extents : \/ Squeeze(extent) = Squeeze(asked)
                               \/ Squeeze(extent) = Squeeze(<<Product(asked)>>)
  BY DEF Known, AskedShapes, FlatShapes
<1>4. asked \in Seq(Nat) /\ Product(asked) \in Nat
  BY HalfType DEF ShapesCounted, CountedShape, IntCounts
<1>5. <<Product(asked)>> \in Seq(Nat) /\ Product(<<Product(asked)>>) = Product(asked)
  BY <1>4, OneAxis
<1>6. Product(extent) = Product(asked)
  BY <1>1, <1>3, <1>4, <1>5, SqueezeKeepsProduct
<1> QED
  BY <1>1, <1>2, <1>6 DEF CountedShape, FlatShapes

LEMMA BareColumnDescribed ==
    ASSUME NEW ttype, NEW type, NEW e \in CountedShape, <<Product(e)>> \in CountedShape
    PROVE  LET col == NewColumn(ttype, StoredType(type), TformRepeat(e))
           IN  SameShape(CellExtent(col), <<Product(e)>>)
<1> DEFINE col == NewColumn(ttype, StoredType(type), TformRepeat(e))
           flat == <<Product(e)>>
<1>1. e \in Seq(Nat) /\ Product(e) \in IntCounts /\ Product(e) \in Nat
  BY HalfType DEF CountedShape, IntCounts
<1>2. TformRepeat(e) = Product(e)
  BY <1>1, TformCounts
<1>3. col.repeat = Product(e) /\ col.width = 0 /\ col.tdim = NoTdim
  BY <1>2 DEF NewColumn
<1> HIDE DEF col
<1>4. Product(flat) = Product(e) /\ Naxes(Squeeze(flat)) <= 1
  <2>1. Product(flat) = Product(e)
    BY <1>1, OneAxis
  <2>2. CASE Product(e) = 1 
    <3>1. Squeeze(flat) = <<>>
      BY <1>1, <2>2, OneAxis
    <3>2. Naxes(Squeeze(flat)) = 0
      BY <3>1 DEF Naxes
    <3> QED
      BY <2>1, <3>2
  <2>3. CASE Product(e) # 1
    <3>1. Squeeze(flat) = flat
      BY <1>1, <2>3, OneAxis
    <3>2. Naxes(Squeeze(flat)) = 1
      BY <3>1 DEF Naxes
    <3> QED
      BY <2>1, <3>2
  <2> QED
    BY <2>2, <2>3
<1>5. flat \in CountedShape
  OBVIOUS
<1> HIDE DEF flat
<1>6. SameShape(CellExtent(col), flat)
  BY <1>3, <1>4, <1>5, ReadsBack
<1> QED
  BY <1>6 DEF col, flat

\* What is inserted is a column of Layouts.
LEMMA InsertedIsKnown ==
    ASSUME ShapesCounted, NEW ttype \in Names, NEW type \in ColumnTypes, NEW extent \in Seq(Nat),
           Known(type, extent),
           NEW col, \/ col = ShapedColumn(ttype, type, extent)
                    \/ col = NewColumn(ttype, StoredType(type), TformRepeat(extent))
    PROVE  /\ col \in KnownColumn
           /\ ColumnLayout(col) \in [name : Names, type : AskedTypes, shape : AskedShapes \cup FlatShapes]
<1>1. extent \in CountedShape
  BY DEF Known
<1>2. col \in Column
  BY NewColumnType, ShapedColumnType
<1>3. col.name = ttype /\ col.type = StoredType(type) /\ col.width = 0
  <2>1. CASE col = ShapedColumn(ttype, type, extent)
    BY <2>1, ShapedColumnFields
  <2>2. CASE col = NewColumn(ttype, StoredType(type), TformRepeat(extent))
    BY <2>2 DEF NewColumn
  <2> QED
    BY <2>1, <2>2
<1>4. Sound(col) /\ Squeeze(CellExtent(col)) \in AskedShapes \cup FlatShapes
  <2>1. CASE col = ShapedColumn(ttype, type, extent)
    <3>1. Sound(col) /\ SameShape(CellExtent(col), extent)
      BY <1>1, <2>1, ShapedColumnDescribed
    <3> QED
      BY <3>1 DEF SameShape, Known
  <2>2. CASE col = NewColumn(ttype, StoredType(type), TformRepeat(extent))
    <3>1. /\ <<Product(extent)>> \in CountedShape
          /\ Squeeze(<<Product(extent)>>) \in FlatShapes
      BY KnownFlat
    <3>2. Sound(col)
      BY <2>2, NewColumnSound
    <3>3. SameShape(CellExtent(col), <<Product(extent)>>)
      BY <1>1, <2>2, <3>1, BareColumnDescribed
    <3> QED
      BY <3>1, <3>2, <3>3 DEF SameShape
  <2> QED
    BY <2>1, <2>2
<1>5. CellExtent(col) \in CountedShape
  BY <1>4, CellExtentSound
<1>6. Known(col.type, CellExtent(col))
  BY <1>3, <1>4, <1>5, StoredTwice DEF Known
<1> QED
  BY <1>2, <1>3, <1>4, <1>6 DEF KnownColumn, SoundColumn, ColumnLayout, Known

\* What a resize leaves is the column with a shape of Layouts.
LEMMA ReshapedIsKnown ==
    ASSUME ShapesCounted, NEW col \in KnownColumn, NEW extent \in Extents
    PROVE  LET reshaped == ReshapedColumn(col, extent)
           IN  /\ reshaped \in KnownColumn
               /\ reshaped.name = col.name /\ reshaped.type = col.type
               /\ ColumnLayout(reshaped).shape \in AskedShapes
<1> DEFINE reshaped == ReshapedColumn(col, extent)
<1>1. col \in Column /\ col.width = 0 /\ (col.type \in ColumnTypes => Known(col.type, CellExtent(col)))
  BY DEF KnownColumn, SoundColumn
<1>2. extent \in CountedShape
  BY DEF ShapesCounted
<1>3. reshaped \in Column
  BY <1>1, ReshapedColumnType
<1>4. reshaped.name = col.name /\ reshaped.type = col.type /\ reshaped.width = 0
  BY <1>1 DEF ReshapedColumn, Column
<1>5. Sound(reshaped) /\ SameShape(CellExtent(reshaped), extent)
  BY <1>1, <1>2, ReshapedColumnDescribed DEF Column
<1> HIDE DEF reshaped
<1>6. CellExtent(reshaped) \in CountedShape
  BY <1>5, CellExtentSound
<1>7. Squeeze(CellExtent(reshaped)) \in AskedShapes
  BY <1>5 DEF SameShape, AskedShapes
<1>8. reshaped.type \in ColumnTypes => Known(reshaped.type, CellExtent(reshaped))
  BY <1>1, <1>4, <1>6, <1>7 DEF Known
<1>9. ColumnLayout(reshaped).shape \in AskedShapes
  BY <1>7 DEF ColumnLayout
<1>10. reshaped \in KnownColumn
  BY <1>3, <1>4, <1>5, <1>8 DEF KnownColumn, SoundColumn
<1> QED
  BY <1>4, <1>9, <1>10 DEF reshaped

LEMMA KnownColumnKind ==
    ASSUME TdimsWritten, DescriptionsKnown
    PROVE  Kind(KnownColumn)
<1>1. ShapesCounted
  BY DEF TdimsWritten
<1>2. ASSUME NEW ttype \in Names, NEW type \in ColumnTypes, NEW extent \in Seq(Nat),
             Asked(type, extent)
      PROVE  /\ ShapedColumn(ttype, type, extent) \in KnownColumn
             /\ NewColumn(ttype, StoredType(type), TformRepeat(extent)) \in KnownColumn
  <2>1. Known(type, extent)
    BY <1>1, <1>2, KnownAsked
  <2> QED
    BY <1>1, <2>1, InsertedIsKnown
<1>3. ASSUME NEW col \in KnownColumn, NEW extent \in Extents
      PROVE  ReshapedColumn(col, extent) \in KnownColumn
  BY <1>1, ReshapedIsKnown
<1> QED
  BY <1>2, <1>3 DEF Kind, TdimsWritten

LEMMA TimesIsOne ==
    ASSUME NEW q \in Nat, NEW n \in Nat, q * n = 1
    PROVE  n = 1
<1>1. CASE q = 0 \/ n = 0
  BY <1>1
<1>2. CASE q >= 1 /\ n >= 2
  <2>1. q * n >= n
    BY <1>2
  <2> QED
    BY <1>2, <2>1
<1> QED
  BY <1>1, <1>2

LEMMA SqueezedProduct ==
    ASSUME NEW s \in Seq(Nat \ {1}), s # <<>>
    PROVE  Product(s) \in Nat /\ Product(s) # 1
<1> DEFINE n == Len(s)
           front == SubSeq(s, 1, n - 1)
<1>1. n \in Nat \ {0} /\ \A k \in 1 .. n : s[k] \in Nat \ {1}
  BY EmptySeq, LenProperties, ElementOfSeq
<1>2. front \in Seq(Nat) /\ s = Append(front, s[n])
  <2>1. n \in 1 .. Len(s) + 1 /\ s \in Seq(Nat \ {1})
    BY <1>1
  <2>2. /\ front \in Seq(Nat \ {1}) /\ Len(front) = n - 1
        /\ \A k \in 1 .. n - 1 : front[k] = s[k]
    <3> HIDE DEF n
    <3> QED
      BY <2>1, ColumnsBefore
  <2>3. s = Append(front, s[n])
    BY <1>1, <2>2
  <2> QED
    BY <2>2, <2>3, SeqMonotonic
<1>3. s[n] \in Nat /\ s[n] # 1 /\ Product(front) \in Nat
  <2>1. n \in 1 .. n
    BY <1>1
  <2> HIDE DEF n, front
  <2> QED
    BY <1>1, <1>2, <2>1, ProductType
<1>4. Product(s) = Product(front) * s[n]
  BY <1>2, <1>3, ProductAppend
<1> HIDE DEF n, front
<1>5. Product(front) * s[n] \in Nat
  BY <1>3
<1> QED
  BY <1>3, <1>4, <1>5, TimesIsOne

LEMMA FlatIsProduct ==
    ASSUME NEW s
    PROVE  Abstract!Flat(s) = IF s = <<>> THEN <<>> ELSE <<Product(s)>>
BY DEF Abstract!Flat, Product, Abstract!FoldLeft, FoldLeft,
       Abstract!MapThenFoldSet, MapThenFoldSet, Abstract!Max, Max

LEMMA FlatOfSqueezed ==
    ASSUME NEW e \in Seq(Nat)
    PROVE  Abstract!Flat(Squeeze(e)) = Squeeze(<<Product(e)>>)
<1> DEFINE s == Squeeze(e)
<1>1. s \in Seq(Nat \ {1}) /\ Product(s) = Product(e)
  BY SqueezeType, SqueezeKeepsProduct
<1> HIDE DEF s
<1>2. CASE s = <<>>
  <2>1. Product(e) = 1
    BY <1>1, <1>2, ProductNone
  <2>2. Squeeze(<<Product(e)>>) = <<>>
    BY <2>1, OneAxis
  <2> QED
    BY <1>2, <2>2, FlatIsProduct DEF s
<1>3. CASE s # <<>>
  <2>1. Product(e) \in Nat /\ Product(e) # 1
    BY <1>1, <1>3, SqueezedProduct
  <2>2. Squeeze(<<Product(e)>>) = <<Product(e)>>
    BY <2>1, OneAxis
  <2>3. Abstract!Flat(s) = <<Product(e)>>
    BY <1>1, <1>3, FlatIsProduct
  <2> QED
    BY <2>2, <2>3 DEF s
<1> QED
  BY <1>2, <1>3

LEMMA AbstractColumns ==
    ASSUME ShapesCounted
    PROVE  [name : Names, type : AskedTypes, shape : AskedShapes \cup FlatShapes] \subseteq Abstract!Columns
<1>1. \A e \in Extents : e \in Seq(Nat)
  BY DEF ShapesCounted, CountedShape
<1>2. FlatShapes \subseteq {Abstract!Flat(shape) : shape \in AskedShapes}
  BY <1>1, FlatOfSqueezed DEF FlatShapes, AskedShapes
<1> QED
  BY <1>2 DEF Abstract!Columns, AskedTypes, AskedShapes

\* What Layouts allows to do to the columns of an HDU.
LayoutEdit(old, new) ==
    \/ new = old
    \/ /\ Len(new) = Len(old) + 1
       /\ \E at \in 1 .. Len(old) + 1 :
            new[at] \in Abstract!Columns /\ new = InsertAt(old, at, new[at])
    \/ /\ Len(new) = Len(old)
       /\ \E n \in 1 .. Len(old), shape \in AskedShapes : new = [old EXCEPT ![n].shape = shape]
    \/ /\ Len(new) < Len(old)
       /\ \E n \in 1 .. Len(old) : new = RemoveAt(old, n)

LEMMA EditedToLayout ==
    ASSUME TdimsWritten, DescriptionsKnown, NEW old \in Seq(KnownColumn), NEW cols,
           EditedTo(old, cols)
    PROVE  LayoutEdit(Laid(old), Laid(cols))
<1>1. ShapesCounted
  BY DEF TdimsWritten
<1>2. /\ DOMAIN old = 1 .. Len(old) /\ Len(old) \in Nat
      /\ \A n \in DOMAIN old : old[n] \in KnownColumn
  BY LenProperties, ElementOfSeq
<1>3. KnownColumn \subseteq Column
  BY DEF KnownColumn, SoundColumn
<1>4. old \in Seq(Column)
  BY <1>3, SeqMonotonic
<1>5. Len(Laid(old)) = Len(old)
  BY <1>4, LaidType
<1>6. ASSUME NEW ttype \in Names, NEW type \in ColumnTypes, NEW extent \in Seq(Nat),
             NEW n \in Nat \ {0}, Asked(type, extent),
             NEW col, \/ col = ShapedColumn(ttype, type, extent)
                      \/ col = NewColumn(ttype, StoredType(type), TformRepeat(extent)),
             cols = InsertCol(old, n, col)
      PROVE  LayoutEdit(Laid(old), Laid(cols))
  <2>1. Known(type, extent)
    BY <1>1, <1>6, KnownAsked
  <2>2. /\ col \in KnownColumn
        /\ ColumnLayout(col) \in [name : Names, type : AskedTypes, shape : AskedShapes \cup FlatShapes]
    BY <1>1, <1>6, <2>1, InsertedIsKnown
  <2>3. col \in Column /\ ColumnLayout(col) \in Abstract!Columns
    BY <1>1, <1>3, <2>2, AbstractColumns
  <2> DEFINE at == InsertedAt(Len(old), n)
             new == Laid(cols)
  <2>4. /\ at \in 1 .. Len(Laid(old)) + 1
        /\ new[at] = ColumnLayout(col)
        /\ Len(new) = Len(Laid(old)) + 1
        /\ new = InsertAt(Laid(old), at, new[at])
    BY <1>4, <1>6, <2>3, LaidInsert
  <2> HIDE DEF at, new
  <2>5. LayoutEdit(Laid(old), new)
    BY <2>3, <2>4 DEF LayoutEdit
  <2> QED
    BY <2>5 DEF new
<1>7. ASSUME NEW n \in DOMAIN old, cols = RemoveAt(old, n)
      PROVE  LayoutEdit(Laid(old), Laid(cols))
  <2>1. n \in 1 .. Len(old) /\ Laid(cols) = RemoveAt(Laid(old), n)
    BY <1>2, <1>4, <1>7, LaidRemove
  <2>2. cols \in Seq(Column) /\ Len(cols) = Len(old) - 1
    BY <1>4, <1>7, <2>1, RemoveAtProperties
  <2>3. Len(Laid(cols)) < Len(Laid(old))
    BY <1>2, <1>5, <2>2, LaidType
  <2> QED
    BY <1>5, <2>1, <2>3 DEF LayoutEdit
<1>8. ASSUME NEW n \in DOMAIN old, NEW extent \in Extents,
             cols = [old EXCEPT ![n] = ReshapedColumn(old[n], extent)]
      PROVE  LayoutEdit(Laid(old), Laid(cols))
  <2> DEFINE col == ReshapedColumn(old[n], extent)
  <2>1. /\ col \in KnownColumn /\ col.name = old[n].name /\ col.type = old[n].type
        /\ ColumnLayout(col).shape \in AskedShapes
    BY <1>1, <1>2, ReshapedIsKnown
  <2>2. cols = [old EXCEPT ![n] = col]
    BY <1>8
  <2> HIDE DEF col
  <2>3. n \in 1 .. Len(old) /\ col \in Column
    BY <1>2, <1>3, <2>1
  <2>4. Laid(cols) = [Laid(old) EXCEPT ![n].shape = ColumnLayout(col).shape]
    <3>1. n \in 1 .. Len(old) /\ col \in Column /\ old \in Seq(Column)
          /\ col.name = old[n].name /\ col.type = old[n].type
      BY <1>4, <2>1, <2>3
    <3>2. Laid([old EXCEPT ![n] = col]) = [Laid(old) EXCEPT ![n].shape = ColumnLayout(col).shape]
      BY <3>1, LaidReshape
    <3> QED
      BY <2>2, <3>2
  <2>5. cols \in Seq(Column) /\ Len(cols) = Len(old)
    BY <1>4, <2>2, <2>3, ExceptSeq
  <2>6. Len(Laid(cols)) = Len(Laid(old))
    BY <1>5, <2>5, LaidType
  <2> QED
    BY <1>5, <2>1, <2>3, <2>4, <2>6 DEF LayoutEdit
<1>9. CASE cols = old
  BY <1>9 DEF LayoutEdit
<1> QED
  BY <1>6, <1>7, <1>8, <1>9 DEF EditedTo, TdimsWritten

LEMMA LayoutOfType ==
    ASSUME NEW file \in Seq(HDU)
    PROVE  /\ LayoutOf(file) \in Seq(Seq(LayoutColumn))
           /\ Len(LayoutOf(file)) = Len(file)
           /\ \A h \in 1 .. Len(file) : LayoutOf(file)[h] = Laid(file[h].cols)
<1>1. Len(file) \in Nat /\ DOMAIN file = 1 .. Len(file)
  BY LenProperties
<1>2. \A h \in 1 .. Len(file) : file[h] \in HDU /\ file[h].cols \in Seq(Column)
  <2> SUFFICES ASSUME NEW h \in 1 .. Len(file) PROVE file[h] \in HDU /\ file[h].cols \in Seq(Column)
    OBVIOUS
  <2>1. file[h] \in HDU
    BY ElementOfSeq
  <2> QED
    BY <2>1 DEF HDU
<1>3. LayoutOf(file) = [h \in 1 .. Len(file) |-> Laid(file[h].cols)]
  BY <1>1 DEF LayoutOf, Laid
<1>4. LayoutOf(file) \in [1 .. Len(file) -> Seq(LayoutColumn)]
  BY <1>2, <1>3, LaidType
<1>5. LayoutOf(file) \in Seq(Seq(LayoutColumn)) /\ Len(LayoutOf(file)) = Len(file)
  BY <1>1, <1>4, FunctionIsSeq
<1> QED
  BY <1>3, <1>5

\* An edit of the columns of one HDU is an edit of its layout, or nothing.
LEMMA EditRefines ==
    ASSUME hdus \in Seq(HDU), hdus' \in Seq(HDU), Len(hdus') = Len(hdus),
           NEW h \in 1 .. Len(hdus), \A k \in 1 .. Len(hdus) : k # h => hdus'[k] = hdus[k],
           LayoutEdit(Laid(hdus[h].cols), Laid(hdus'[h].cols))
    PROVE  [Abstract!Next]_(LayoutOf(hdus))
<1> DEFINE old == LayoutOf(hdus)
           new == LayoutOf(hdus')
           D == 1 .. Len(hdus)
<1>1. /\ old \in [D -> Seq(LayoutColumn)]
      /\ \A k \in D : old[k] = Laid(hdus[k].cols)
  BY LayoutOfType, LenProperties
<1>2. /\ new \in [D -> Seq(LayoutColumn)]
      /\ \A k \in D : new[k] = Laid(hdus'[k].cols)
  BY LayoutOfType, LenProperties
<1>3. h \in D /\ LayoutEdit(old[h], new[h]) /\ \A k \in D : k # h => new[k] = old[k]
  BY <1>1, <1>2
<1> HIDE DEF old, new, D
<1>4. new = [old EXCEPT ![h] = new[h]]
  <2> DEFINE other == [old EXCEPT ![h] = new[h]]
  <2>1. other \in [D -> Seq(LayoutColumn)]
    BY <1>1, <1>2, <1>3
  <2>2. \A k \in D : new[k] = other[k]
    BY <1>1, <1>3
  <2> HIDE DEF other
  <2>3. new = other
    BY <1>2, <2>1, <2>2, SameFunction
  <2> QED
    BY <2>3 DEF other
<1>5. CASE new[h] = old[h]
  <2>1. [old EXCEPT ![h] = old[h]] = old
    BY <1>1
  <2>2. new = old
    BY <1>4, <1>5, <2>1
  <2> QED
    BY <2>2 DEF new, old
<1>6. CASE new[h] # old[h]
  <2>1. DOMAIN new = DOMAIN old /\ h \in DOMAIN old /\ new # old
    BY <1>1, <1>2, <1>3, <1>6
  <2>2. Abstract!Edit(h)
    <3> DEFINE a == old[h]
               b == new[h]
    <3>1. LayoutEdit(a, b) /\ b # a /\ new = [old EXCEPT ![h] = b]
      BY <1>3, <1>4, <1>6
    <3>2. \A s, i : Abstract!RemoveAt(s, i) = RemoveAt(s, i)
      BY DEF Abstract!RemoveAt, RemoveAt
    <3>3. \A s, i, e : Abstract!InsertAt(s, i, e) = InsertAt(s, i, e)
      BY DEF Abstract!InsertAt, InsertAt
    <3>4. a = LayoutOf(hdus)[h] /\ b = LayoutOf(hdus')[h]
      BY DEF old, new
    <3> HIDE DEF a, b
    <3>5. CASE /\ Len(b) = Len(a) + 1
               /\ \E at \in 1 .. Len(a) + 1 : b[at] \in Abstract!Columns /\ b = InsertAt(a, at, b[at])
      <4>1. PICK at \in 1 .. Len(a) + 1 : b[at] \in Abstract!Columns /\ b = InsertAt(a, at, b[at])
        BY <3>5
      <4>2. new = [old EXCEPT ![h] = InsertAt(a, at, b[at])]
        BY <3>1, <4>1
      <4>3. Abstract!Insert(h, at)
        BY <3>3, <3>4, <4>1, <4>2 DEF Abstract!Insert, Abstract!SetColumns, old, new
      <4> QED
        BY <3>4, <3>5, <4>3 DEF Abstract!Edit
    <3>6. CASE /\ Len(b) = Len(a)
               /\ \E n \in 1 .. Len(a), shape \in AskedShapes : b = [a EXCEPT ![n].shape = shape]
      <4>1. PICK n \in 1 .. Len(a), shape \in AskedShapes : b = [a EXCEPT ![n].shape = shape]
        BY <3>6
      <4>2. new = [old EXCEPT ![h] = [a EXCEPT ![n].shape = shape]]
        BY <3>1, <4>1
      <4>3. Abstract!Reshape(h, n, shape)
        BY <3>4, <4>2 DEF Abstract!Reshape, Abstract!SetColumns, old, new
      <4> QED
        BY <3>4, <3>6, <4>1, <4>3 DEF Abstract!Edit, AskedShapes
    <3>7. CASE /\ Len(b) < Len(a)
               /\ \E n \in 1 .. Len(a) : b = RemoveAt(a, n)
      <4>1. PICK n \in 1 .. Len(a) : b = RemoveAt(a, n)
        BY <3>7
      <4>2. new = [old EXCEPT ![h] = RemoveAt(a, n)]
        BY <3>1, <4>1
      <4>3. Abstract!Delete(h, n)
        BY <3>2, <3>4, <4>2 DEF Abstract!Delete, Abstract!SetColumns, old, new
      <4> QED
        BY <3>4, <3>7, <4>1, <4>3 DEF Abstract!Edit
    <3> QED
      BY <3>1, <3>5, <3>6, <3>7 DEF LayoutEdit
  <2> QED
    BY <1>6, <2>1, <2>2 DEF Abstract!Next, old, new
<1> QED
  BY <1>5, <1>6

\* What a step may do to the file.
LEMMA FileSteps ==
    ASSUME TypeOK, [Next]_vars
    PROVE  \/ UNCHANGED hdus
           \/ DeleteHdu
           \/ \E t \in Live :
                /\ Reachable(t)
                /\ \/ \E extname \in Extnames : SetExtname(t, extname)
                   \/ \E cols \in Seq(Column) : Edits(t, cols)
<1>1. ASSUME NEW t \in Objects, TableCall(t)
      PROVE  \/ UNCHANGED hdus
             \/ /\ t \in Live /\ Reachable(t)
                /\ \/ \E extname \in Extnames : SetExtname(t, extname)
                   \/ \E cols \in Seq(Column) : Edits(t, cols)
  <2>1. \A cols : Edits(t, cols) => Reachable(t)
    BY DEF Edits, SetAsChdu
  <2> QED
    BY <1>1, <2>1, TableCallEdits DEF Quiet, RefreshHdu, SetExtname, SetAsChdu
<1> QED
  BY <1>1 DEF Next, Move, Construct, ConstructByName, ConstructOn, Destroy, CallUnreachable, vars

\* What an edit does to the file.
LEMMA EditInPlace ==
    ASSUME TypeOK, NEW t \in Objects, t \in Live,
           NEW cols \in Seq(Column), Edits(t, cols)
    PROVE  /\ EditedTo(Own(t).cols, cols)
           /\ table[t].hdu_num \in 2 .. Len(hdus)
           /\ hdus' \in Seq(HDU) /\ Len(hdus') = Len(hdus)
           /\ hdus'[table[t].hdu_num].cols = cols
           /\ \A h \in 1 .. Len(hdus) : h # table[t].hdu_num => hdus'[h] = hdus[h]
<1>1. SetAsChdu(t) /\ EditedTo(Own(t).cols, cols) /\ SetCols(cols)
  BY DEF Edits, ChangeAndRefresh, ChangeAndThrow, EditsByName
<1>2. table[t].hdu_num \in 2 .. Len(hdus) /\ Own(t) \in HDU /\ Len(hdus) \in Nat
  BY <1>1, OwnType DEF SetAsChdu
<1>3. [Own(t) EXCEPT !.cols = cols].cols = cols
  BY <1>2 DEF HDU
<1>4. table[t].hdu_num \in 1 .. Len(hdus)
  BY <1>2
<1> QED
  BY <1>1, <1>2, <1>3, <1>4, SetColsEffect DEF Own

\* What a new EXTNAME does to the file.
LEMMA RenameInPlace ==
    ASSUME TypeOK, NEW t \in Objects, t \in Live, Reachable(t),
           NEW extname \in Extnames, SetExtname(t, extname)
    PROVE  /\ table[t].hdu_num \in 2 .. Len(hdus)
           /\ hdus' \in Seq(HDU) /\ Len(hdus') = Len(hdus)
           /\ hdus'[table[t].hdu_num].cols = Own(t).cols
           /\ \A h \in 1 .. Len(hdus) : h # table[t].hdu_num => hdus'[h] = hdus[h]
<1> DEFINE new == [Own(t) EXCEPT !.extname = extname]
<1>1. table[t].hdu_num \in 2 .. Len(hdus) /\ Own(t) \in HDU /\ Len(hdus) \in Nat
  BY OwnType
<1>2. new \in HDU /\ new.cols = Own(t).cols
  BY <1>1 DEF HDU
<1>3. hdus' = [hdus EXCEPT ![table[t].hdu_num] = new]
  BY DEF SetExtname, SetAsChdu, Own
<1> HIDE DEF new
<1>4. table[t].hdu_num \in 1 .. Len(hdus) /\ hdus \in Seq(HDU)
  BY <1>1 DEF TypeOK
<1> QED
  BY <1>1, <1>2, <1>3, <1>4, ExceptSeq

\* The primary HDU is an image, and has no columns.
PrimaryIsBare == hdus[1].cols = <<>>

LEMMA NextPrimary == TypeOK /\ PrimaryIsBare /\ [Next]_vars => PrimaryIsBare'
<1> SUFFICES ASSUME TypeOK, PrimaryIsBare, [Next]_vars PROVE PrimaryIsBare'
  OBVIOUS
<1>1. Len(hdus) \in Nat \ {0} /\ hdus \in Seq(HDU)
  BY EmptySeq, LenProperties DEF TypeOK
<1>2. CASE UNCHANGED hdus
  BY <1>2 DEF PrimaryIsBare
<1>3. CASE DeleteHdu
  <2>1. CASE chdu = 1
    <3>1. hdus[1] \in HDU
      BY <1>1, HdusType
    <3>2. hdus'[1].cols = <<>>
      BY <1>1, <1>3, <2>1, <3>1 DEF DeleteHdu, HDU
    <3> QED
      BY <3>2 DEF PrimaryIsBare
  <2>2. CASE chdu # 1
    <3>1. 1 \in 1 .. Len(hdus) /\ 1 < chdu
      BY <1>1, <2>2 DEF TypeOK
    <3>2. hdus'[1] = hdus[1]
      BY <1>3, <2>2, <3>1, DeleteHduEffect
    <3> QED
      BY <3>2 DEF PrimaryIsBare
  <2> QED
    BY <2>1, <2>2
<1>4. ASSUME NEW t \in Live, Reachable(t),
             \/ \E extname \in Extnames : SetExtname(t, extname)
             \/ \E cols \in Seq(Column) : Edits(t, cols)
      PROVE  PrimaryIsBare'
  <2>1. /\ table[t].hdu_num \in 2 .. Len(hdus)
        /\ \A h \in 1 .. Len(hdus) : h # table[t].hdu_num => hdus'[h] = hdus[h]
    BY <1>4, EditInPlace, RenameInPlace DEF Live
  <2>2. hdus'[1] = hdus[1]
    BY <1>1, <2>1
  <2> QED
    BY <2>2 DEF PrimaryIsBare
<1> QED
  BY <1>2, <1>3, <1>4, FileSteps

KnownEntries == {entry \in ColumnInfo \X Nat : Known(entry[1].type, entry[1].extent)}

LEMMA DescribedKnown ==
    ASSUME NEW cols \in Seq(KnownColumn)
    PROVE  DescribedIn(KnownEntries, cols)
<1> SUFFICES ASSUME NEW i \in 1 .. Len(cols), cols[i].type \in ColumnTypes
             PROVE  <<Describe(cols[i], i), i>> \in KnownEntries
  BY DEF DescribedIn
<1>1. cols[i] \in KnownColumn /\ i \in Nat \ {0}
  BY ElementOfSeq, LenProperties
<1>2. cols[i] \in Column /\ Known(cols[i].type, CellExtent(cols[i]))
  BY <1>1 DEF KnownColumn, SoundColumn
<1>3. Describe(cols[i], i) \in ColumnInfo
  BY <1>1, <1>2, DescribeType
<1>4. Describe(cols[i], i).extent = CellExtent(cols[i]) /\ Describe(cols[i], i).type = cols[i].type
  BY DEF Describe
<1> QED
  BY <1>1, <1>2, <1>3, <1>4 DEF KnownEntries

LEMMA NextKnown ==
    ASSUME TdimsWritten, TypeOK, HdusIn(KnownColumn), DescriptionsKnown, [Next]_vars
    PROVE  HdusIn(KnownColumn)' /\ DescriptionsKnown'
<1>1. \A t \in Objects, cols \in Seq(Column) :
            Edits(t, cols) /\ Own(t).cols \in Seq(KnownColumn) => cols \in Seq(KnownColumn)
  BY KnownColumnKind, EditedKeepsKind DEF Edits
<1>2. HdusIn(KnownColumn)'
  BY <1>1, NextHdus
<1>3. DOMAIN hdus = 1 .. Len(hdus)
  BY LenProperties DEF TypeOK
<1>4. \A h \in 1 .. Len(hdus) : DescribedIn(KnownEntries, hdus[h].cols)
  BY <1>3, DescribedKnown DEF HdusIn
<1>5. \A t \in Objects, cols \in Seq(Column) :
            Edits(t, cols) => DescribedIn(KnownEntries, cols)
  <2>1. \A t \in Objects : Reachable(t) => Own(t).cols \in Seq(KnownColumn)
    BY <1>3 DEF Reachable, Own, HdusIn
  <2>2. \A t, cols : Edits(t, cols) => Reachable(t)
    BY DEF Edits, SetAsChdu
  <2> QED
    BY <1>1, <2>1, <2>2, DescribedKnown
<1>6. Entries(KnownEntries)
  BY EntriesType DEF Entries, KnownEntries, DescriptionsKnown
<1>7. Entries(KnownEntries)'
  BY <1>4, <1>5, <1>6, NextEntries
<1>8. DescriptionsKnown'
  BY <1>7 DEF Entries, KnownEntries, DescriptionsKnown
<1> QED
  BY <1>2, <1>8

\* A deleted HDU: the layout loses it.
LEMMA DropRefines ==
    ASSUME TypeOK, PrimaryIsBare, DeleteHdu
    PROVE  [Abstract!Next]_(LayoutOf(hdus))
<1>1. hdus \in Seq(HDU) /\ Len(hdus) \in Nat \ {0} /\ chdu \in 1 .. Len(hdus)
  BY EmptySeq, LenProperties DEF TypeOK
<1>2. hdus' \in Seq(HDU)
  BY DeleteHduEffect
<1>3. CASE chdu = 1
  <2>1. hdus[1] \in HDU
    BY <1>1, HdusType
  <2>2. hdus'[1].cols = <<>> /\ Len(hdus') = Len(hdus)
    BY <1>1, <1>3, <2>1, DeleteHduEffect DEF DeleteHdu, HDU
  <2>3. \A k \in 1 .. Len(hdus) : k # 1 => hdus'[k] = hdus[k]
    BY <1>3, DeleteHduEffect
  <2>4. LayoutEdit(Laid(hdus[1].cols), Laid(hdus'[1].cols))
    BY <2>2 DEF PrimaryIsBare, LayoutEdit
  <2>5. 1 \in 1 .. Len(hdus)
    BY <1>1
  <2> QED
    BY <1>1, <1>2, <2>2, <2>3, <2>4, <2>5, EditRefines
<1>4. CASE chdu # 1
  <2> DEFINE old == LayoutOf(hdus)
             new == LayoutOf(hdus')
             S == Seq(LayoutColumn)
  <2>1. hdus' = RemoveAt(hdus, chdu)
    BY <1>4 DEF DeleteHdu
  <2>2. Shrinks(hdus', hdus, chdu, HDU)
    BY <1>1, <2>1, RemoveAtElements
  <2>3. /\ old \in Seq(S) /\ Len(old) = Len(hdus)
        /\ \A h \in 1 .. Len(hdus) : old[h] = Laid(hdus[h].cols)
    BY <1>1, LayoutOfType
  <2>4. /\ new \in Seq(S) /\ Len(new) = Len(hdus')
        /\ \A h \in 1 .. Len(hdus') : new[h] = Laid(hdus'[h].cols)
    BY <1>2, LayoutOfType
  <2> HIDE DEF old, new, S
  <2>5. Len(hdus') = Len(hdus) - 1
    BY <2>2 DEF Shrinks
  <2>6. Shrinks(new, old, chdu, S)
    <3>1. ASSUME NEW h \in 1 .. chdu - 1
          PROVE  new[h] = old[h]
      <4>1. h \in 1 .. Len(hdus) /\ h \in 1 .. Len(hdus')
        BY <1>1, <2>5
      <4> QED
        BY <2>2, <2>3, <2>4, <4>1 DEF Shrinks
    <3>2. ASSUME NEW h \in chdu .. Len(old) - 1
          PROVE  new[h] = old[h + 1]
      <4>1. h + 1 \in 1 .. Len(hdus) /\ h \in 1 .. Len(hdus') /\ h \in chdu .. Len(hdus) - 1
        BY <1>1, <2>3, <2>5
      <4> QED
        BY <2>2, <2>3, <2>4, <4>1 DEF Shrinks
    <3> QED
      BY <2>3, <2>4, <2>5, <3>1, <3>2 DEF Shrinks
  <2>7. Len(old) \in Nat \ {0} /\ chdu \in 1 .. Len(old)
    BY <1>1, <2>3
  <2>8. Shrinks(RemoveAt(old, chdu), old, chdu, S)
    BY <2>3, <2>7, RemoveAtElements
  <2>9. new = RemoveAt(old, chdu)
    BY <2>6, <2>7, <2>8, ShrinksOnce
  <2>10. Abstract!RemoveAt(old, chdu) = RemoveAt(old, chdu)
    BY DEF Abstract!RemoveAt, RemoveAt
  <2>11. chdu \in DOMAIN old /\ new # old
    <3>1. Len(new) # Len(old)
      BY <1>1, <2>3, <2>4, <2>5
    <3> QED
      BY <2>3, <2>7, <3>1, LenProperties
  <2>12. Abstract!DropHdu(chdu)
    BY <1>4, <2>9, <2>10 DEF Abstract!DropHdu, old, new
  <2> QED
    BY <2>11, <2>12 DEF Abstract!Next, old, new
<1> QED
  BY <1>3, <1>4

LEMMA StepRefines ==
    ASSUME TdimsWritten, TypeOK, HdusIn(KnownColumn), DescriptionsKnown, PrimaryIsBare, [Next]_vars
    PROVE  [Abstract!Next]_(LayoutOf(hdus))
<1>1. CASE UNCHANGED hdus
  BY <1>1
<1>2. CASE DeleteHdu
  BY <1>2, DropRefines
<1>3. ASSUME NEW t \in Live, Reachable(t), NEW extname \in Extnames, SetExtname(t, extname)
      PROVE  [Abstract!Next]_(LayoutOf(hdus))
  <2> DEFINE h == table[t].hdu_num
  <2>1. t \in Objects /\ hdus \in Seq(HDU)
    BY DEF Live, TypeOK
  <2>2. /\ h \in 2 .. Len(hdus)
        /\ hdus' \in Seq(HDU) /\ Len(hdus') = Len(hdus)
        /\ hdus'[h].cols = Own(t).cols
        /\ \A k \in 1 .. Len(hdus) : k # h => hdus'[k] = hdus[k]
    BY <1>3, <2>1, RenameInPlace
  <2>3. LayoutEdit(Laid(hdus[h].cols), Laid(hdus'[h].cols))
    BY <2>2 DEF Own, LayoutEdit
  <2>4. h \in 1 .. Len(hdus)
    BY <1>3 DEF Reachable
  <2> HIDE DEF h
  <2> QED
    BY <2>1, <2>2, <2>3, <2>4, EditRefines
<1>4. ASSUME NEW t \in Live, Reachable(t), NEW cols \in Seq(Column), Edits(t, cols)
      PROVE  [Abstract!Next]_(LayoutOf(hdus))
  <2> DEFINE h == table[t].hdu_num
  <2>1. t \in Objects /\ hdus \in Seq(HDU)
    BY DEF Live, TypeOK
  <2>2. /\ EditedTo(Own(t).cols, cols)
        /\ hdus' \in Seq(HDU) /\ Len(hdus') = Len(hdus)
        /\ hdus'[h].cols = cols
        /\ \A k \in 1 .. Len(hdus) : k # h => hdus'[k] = hdus[k]
    BY <1>4, <2>1, EditInPlace
  <2>3. h \in 1 .. Len(hdus) /\ Own(t) = hdus[h]
    BY <1>4 DEF Reachable, Own
  <2>4. Own(t).cols \in Seq(KnownColumn)
    BY <2>1, <2>3, LenProperties DEF HdusIn
  <2>5. LayoutEdit(Laid(Own(t).cols), Laid(cols))
    BY <2>2, <2>4, EditedToLayout
  <2>6. LayoutEdit(Laid(hdus[h].cols), Laid(hdus'[h].cols))
    BY <2>2, <2>3, <2>5
  <2> HIDE DEF h
  <2> QED
    BY <2>1, <2>2, <2>3, <2>6, EditRefines
<1> QED
  BY <1>1, <1>2, <1>3, <1>4, FileSteps

\* The tables of a file do to its columns what Layouts allows, however stale
\* their descriptions are: from files with the types and shapes which the
\* client asks for, in which every TDIM accounts for its column and no string
\* column is cut into substrings, as long as CFITSIO does not fail between
\* TFORM and TDIM.
THEOREM TablesImplementLayouts ==
    ASSUME TdimsWritten,
           \A file \in InitialFiles :
                /\ file[1].cols = <<>>
                /\ \A h \in DOMAIN file : file[h].cols \in Seq(KnownColumn)
    PROVE  Spec => ImplementsLayouts
<1>1. Init => HdusIn(KnownColumn) /\ DescriptionsKnown /\ PrimaryIsBare
  BY DEF Init, HdusIn, DescriptionsKnown, PrimaryIsBare, NoTable
<1>2. TypeOK /\ HdusIn(KnownColumn) /\ DescriptionsKnown /\ PrimaryIsBare /\ [Next]_vars
        => HdusIn(KnownColumn)' /\ DescriptionsKnown' /\ PrimaryIsBare'
  BY NextKnown, NextPrimary
<1>3. Init => Abstract!Init
  BY DEF Init, Abstract!Init
<1>4. TypeOK /\ HdusIn(KnownColumn) /\ DescriptionsKnown /\ PrimaryIsBare /\ [Next]_vars
        => [Abstract!Next]_(LayoutOf(hdus))
  BY StepRefines
<1> QED
  BY <1>1, <1>2, <1>3, <1>4, TypeCorrect, PTL DEF Spec, ImplementsLayouts, Abstract!Spec
=============================================================================
