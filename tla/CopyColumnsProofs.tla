-------------------------- MODULE CopyColumnsProofs --------------------------
(***************************************************************************)
(* Theorems about CopyColumns, for tables of any columns and rows, any     *)
(* lists of names and any order of CFITSIO's faults.                       *)
(***************************************************************************)
EXTENDS CopyColumns, ColumnLemmas

-----------------------------------------------------------------------------
(***************************************************************************)
(* What the tables are like between any two steps of a copy                *)
(***************************************************************************)
Info == [ttype : Names, type : ColumnTypes, extent : Seq(Int), colnum : Nat \ {0}]

AnyCell == {Null, Junk} \cup (TableObjects \X Names \X Nat)

State ==
    [chdu : TableObjects, cols : [TableObjects -> Seq(Column)],
     data : [TableObjects -> Seq(Seq(AnyCell))], naxis2 : [TableObjects -> Nat],
     columns : [TableObjects -> Seq(Info)], ok : BOOLEAN, fault : BOOLEAN, calls : Int,
     source_info : Seq(Info), insert : Seq(Info)]

\* The rows of a table are as long as it has columns, NAXIS2 counts no row which is
\* not there, and a description says of its n-th column that it is the n-th.
Rectangular(cs, cells) == \A i \in 1 .. Len(cells) : Len(cells[i]) = Len(cs)

Numbered(infos) == \A n \in 1 .. Len(infos) : infos[n].colnum = n

Kept(st) ==
    /\ st \in State
    /\ \A t \in TableObjects :
        /\ Rectangular(st.cols[t], st.data[t])
        /\ st.naxis2[t] <= Len(st.data[t])
        /\ Numbered(st.columns[t])

\* Two states of a copy with the same columns, cells and descriptions.
SameTables(st, other) ==
    other.cols = st.cols /\ other.data = st.data /\ other.columns = st.columns

\* And which have come as far in the copy.
SameProgress(st, other) ==
    /\ other.ok = st.ok /\ other.fault = st.fault /\ other.calls = st.calls
    /\ other.source_info = st.source_info /\ other.insert = st.insert

-----------------------------------------------------------------------------
(***************************************************************************)
(* What each change leaves of a state                                      *)
(***************************************************************************)
LEMMA SyncedKeeps ==
    ASSUME NEW st \in State, NEW t \in TableObjects
    PROVE  /\ Synced(st, t) \in State
           /\ SameTables(st, Synced(st, t)) /\ SameProgress(st, Synced(st, t))
           /\ Synced(st, t).chdu = st.chdu
           /\ Synced(st, t).naxis2 = [st.naxis2 EXCEPT ![t] = Len(st.data[t])]
<1>1. Len(st.data[t]) \in Nat
  BY LenProperties DEF State
<1> QED
  BY <1>1 DEF Synced, Rows, State, SameTables, SameProgress

LEMMA MovedToKeeps ==
    ASSUME NEW st \in State, NEW t \in TableObjects
    PROVE  /\ MovedTo(st, t) \in State
           /\ SameTables(st, MovedTo(st, t)) /\ SameProgress(st, MovedTo(st, t))
           /\ shared => MovedTo(st, t).chdu = t
           /\ \A s \in TableObjects :
                MovedTo(st, t).naxis2[s] \in {st.naxis2[s], Len(st.data[s])}
<1>1. st.chdu \in TableObjects
  BY DEF State
<1> DEFINE sy == Synced(st, st.chdu)
<1>2. /\ sy \in State
      /\ SameTables(st, sy) /\ SameProgress(st, sy)
      /\ sy.naxis2 = [st.naxis2 EXCEPT ![st.chdu] = Len(st.data[st.chdu])]
  BY <1>1, SyncedKeeps
<1> HIDE DEF sy
<1> DEFINE mv == [sy EXCEPT !.chdu = t]
<1>3. /\ mv \in State /\ mv.chdu = t
      /\ SameTables(sy, mv) /\ SameProgress(sy, mv)
      /\ mv.naxis2 = sy.naxis2
  BY <1>2 DEF State, SameTables, SameProgress
<1>4. SameTables(st, mv) /\ SameProgress(st, mv)
  BY <1>2, <1>3 DEF SameTables, SameProgress
<1>5. \A s \in TableObjects : mv.naxis2[s] \in {st.naxis2[s], Len(st.data[s])}
  BY <1>1, <1>2, <1>3 DEF State
<1> HIDE DEF mv
<1>6. MovedTo(st, t) = IF shared /\ st.chdu # t THEN mv ELSE st
  BY DEF MovedTo, mv, sy
<1>7. SameTables(st, st) /\ SameProgress(st, st)
  BY DEF SameTables, SameProgress
<1> QED
  BY <1>3, <1>4, <1>5, <1>6, <1>7

LEMMA RewrittenKeeps ==
    ASSUME NEW st \in State, NEW t \in TableObjects,
           NEW cs \in Seq(Column), NEW cells \in Seq(Seq(AnyCell))
    PROVE  LET new == Rewritten(st, t, cs, cells)
           IN  /\ new \in State /\ SameProgress(st, new)
               /\ new.chdu = st.chdu
               /\ new.cols = [st.cols EXCEPT ![t] = cs]
               /\ new.data = [st.data EXCEPT ![t] = cells]
               /\ new.columns = st.columns
               /\ new.naxis2 = [st.naxis2 EXCEPT ![t] = Len(cells)]
<1> DEFINE mid == [st EXCEPT !.cols[t] = cs, !.data[t] = cells]
<1>1. /\ mid \in State /\ SameProgress(st, mid)
      /\ mid.chdu = st.chdu
      /\ mid.cols = [st.cols EXCEPT ![t] = cs]
      /\ mid.data = [st.data EXCEPT ![t] = cells]
      /\ mid.columns = st.columns
      /\ mid.naxis2 = st.naxis2
  BY DEF State, SameProgress
<1>2. mid.data[t] = cells
  BY <1>1 DEF State
<1> HIDE DEF mid
<1>3. Rewritten(st, t, cs, cells) = Synced(mid, t)
  BY DEF Rewritten, mid
<1> DEFINE sy == Synced(mid, t)
<1>4. /\ sy \in State /\ SameTables(mid, sy) /\ SameProgress(mid, sy)
      /\ sy.chdu = mid.chdu
      /\ sy.naxis2 = [mid.naxis2 EXCEPT ![t] = Len(mid.data[t])]
  BY <1>1, SyncedKeeps
<1> HIDE DEF sy
<1>5. Rewritten(st, t, cs, cells) = sy
  BY <1>3 DEF sy
<1>6. /\ SameProgress(st, sy) /\ sy.cols = mid.cols /\ sy.data = mid.data
      /\ sy.columns = mid.columns
  BY <1>1, <1>4 DEF SameTables, SameProgress
<1> QED
  BY <1>1, <1>2, <1>4, <1>5, <1>6

\* Nothing has been done to the other tables.
OthersKept(st, t, new) ==
    /\ new.columns = st.columns
    /\ \A s \in TableObjects : s # t =>
            /\ new.cols[s] = st.cols[s] /\ new.data[s] = st.data[s]
            /\ new.naxis2[s] = st.naxis2[s]

LEMMA RewrittenTables ==
    ASSUME NEW st \in State, NEW t \in TableObjects,
           NEW cs \in Seq(Column), NEW cells \in Seq(Seq(AnyCell))
    PROVE  /\ Rewritten(st, t, cs, cells).cols[t] = cs
           /\ Rewritten(st, t, cs, cells).data[t] = cells
           /\ Rewritten(st, t, cs, cells).naxis2[t] = Len(cells)
           /\ OthersKept(st, t, Rewritten(st, t, cs, cells))
           /\ SameProgress(st, Rewritten(st, t, cs, cells))
<1> DEFINE new == Rewritten(st, t, cs, cells)
<1>1. /\ new \in State /\ SameProgress(st, new)
      /\ new.chdu = st.chdu
      /\ new.cols = [st.cols EXCEPT ![t] = cs]
      /\ new.data = [st.data EXCEPT ![t] = cells]
      /\ new.columns = st.columns
      /\ new.naxis2 = [st.naxis2 EXCEPT ![t] = Len(cells)]
  BY RewrittenKeeps
<1> HIDE DEF new
<1>2. new.cols[t] = cs /\ new.data[t] = cells /\ new.naxis2[t] = Len(cells)
  BY <1>1 DEF State
<1>3. OthersKept(st, t, new)
  BY <1>1 DEF State, OthersKept
<1> QED
  BY <1>1, <1>2, <1>3 DEF new

LEMMA ProgressKeeps ==
    ASSUME NEW st \in State
    PROVE  /\ Throw(st) \in State /\ SameTables(st, Throw(st)) /\ ~ Throw(st).ok
           /\ Throw(st).chdu = st.chdu /\ Throw(st).naxis2 = st.naxis2
           /\ Throw(st).fault = st.fault
           /\ Fault(st) \in State /\ SameTables(st, Fault(st)) /\ ~ Fault(st).ok
           /\ Fault(st).chdu = st.chdu /\ Fault(st).naxis2 = st.naxis2
           /\ Fault(st).fault
           /\ Spend(st) \in State /\ SameTables(st, Spend(st)) /\ Spend(st).ok = st.ok
           /\ Spend(st).chdu = st.chdu /\ Spend(st).naxis2 = st.naxis2
           /\ Spend(st).fault = st.fault
           /\ Spend(st).source_info = st.source_info /\ Spend(st).insert = st.insert
<1>1. Throw(st) \in State /\ SameTables(st, Throw(st)) /\ ~ Throw(st).ok
      /\ Throw(st).chdu = st.chdu /\ Throw(st).naxis2 = st.naxis2
           /\ Throw(st).fault = st.fault
  BY DEF Throw, State, SameTables
<1>2. Fault(st) \in State /\ SameTables(st, Fault(st)) /\ ~ Fault(st).ok
      /\ Fault(st).chdu = st.chdu /\ Fault(st).naxis2 = st.naxis2 /\ Fault(st).fault
  <2>1. Throw(st) \in State
    BY <1>1
  <2> QED
    BY <1>1, <2>1 DEF Fault, State, SameTables
<1>3. Spend(st) \in State /\ SameTables(st, Spend(st)) /\ Spend(st).ok = st.ok
      /\ Spend(st).chdu = st.chdu /\ Spend(st).naxis2 = st.naxis2
      /\ Spend(st).fault = st.fault
      /\ Spend(st).source_info = st.source_info /\ Spend(st).insert = st.insert
  <2> DEFINE left == st.calls - 1
  <2>1. left \in Int
    BY DEF State
  <2>2. Spend(st) = [st EXCEPT !.calls = left]
    BY DEF Spend, State
  <2> HIDE DEF left
  <2> QED
    BY <2>1, <2>2 DEF State, SameTables
<1> QED
  BY <1>1, <1>2, <1>3

LEMMA RequestKeeps ==
    ASSUME NEW st \in State, NEW info \in Info
    PROVE  /\ Noted(st, info) \in State /\ SameTables(st, Noted(st, info))
           /\ Noted(st, info).ok = st.ok /\ Noted(st, info).fault = st.fault
           /\ Noted(st, info).chdu = st.chdu /\ Noted(st, info).naxis2 = st.naxis2
           /\ Noted(st, info).source_info = Append(st.source_info, info)
           /\ Noted(st, info).insert = st.insert
           /\ ToInsert(st, info) \in State /\ SameTables(st, ToInsert(st, info))
           /\ ToInsert(st, info).ok = st.ok /\ ToInsert(st, info).fault = st.fault
           /\ ToInsert(st, info).chdu = st.chdu /\ ToInsert(st, info).naxis2 = st.naxis2
           /\ ToInsert(st, info).source_info = st.source_info
           /\ ToInsert(st, info).insert = Append(st.insert, info)
<1>1. /\ st.source_info \in Seq(Info) /\ st.insert \in Seq(Info)
      /\ Append(st.source_info, info) \in Seq(Info) /\ Append(st.insert, info) \in Seq(Info)
  BY AppendProperties DEF State
<1>2. Noted(st, info) \in State /\ SameTables(st, Noted(st, info))
           /\ Noted(st, info).ok = st.ok /\ Noted(st, info).fault = st.fault
           /\ Noted(st, info).chdu = st.chdu /\ Noted(st, info).naxis2 = st.naxis2
           /\ Noted(st, info).source_info = Append(st.source_info, info)
           /\ Noted(st, info).insert = st.insert
  BY <1>1 DEF Noted, State, SameTables
<1>3. ToInsert(st, info) \in State /\ SameTables(st, ToInsert(st, info))
           /\ ToInsert(st, info).ok = st.ok /\ ToInsert(st, info).fault = st.fault
           /\ ToInsert(st, info).chdu = st.chdu /\ ToInsert(st, info).naxis2 = st.naxis2
           /\ ToInsert(st, info).source_info = st.source_info
           /\ ToInsert(st, info).insert = Append(st.insert, info)
  BY <1>1 DEF ToInsert, State, SameTables
<1> QED
  BY <1>2, <1>3

-----------------------------------------------------------------------------
(***************************************************************************)
(* Each change of a table keeps rows and columns alike                     *)
(***************************************************************************)
LEMMA ColumnsOf ==
    ASSUME NEW st \in State, NEW t \in TableObjects
    PROVE  /\ st.cols[t] \in Seq(Column) /\ Len(st.cols[t]) \in Nat
           /\ DOMAIN st.cols[t] = 1 .. Len(st.cols[t])
           /\ \A n \in 1 .. Len(st.cols[t]) : st.cols[t][n] \in Column
           /\ st.columns[t] \in Seq(Info) /\ Len(st.columns[t]) \in Nat
           /\ DOMAIN st.columns[t] = 1 .. Len(st.columns[t])
           /\ \A n \in 1 .. Len(st.columns[t]) : st.columns[t][n] \in Info
<1>1. st.cols[t] \in Seq(Column) /\ st.columns[t] \in Seq(Info)
  BY DEF State
<1> QED
  BY <1>1, LenProperties, ElementOfSeq

LEMMA CellsOf ==
    ASSUME NEW st \in State, NEW t \in TableObjects
    PROVE  /\ st.data[t] \in Seq(Seq(AnyCell)) /\ Len(st.data[t]) \in Nat
           /\ DOMAIN st.data[t] = 1 .. Len(st.data[t])
           /\ \A i \in 1 .. Len(st.data[t]) :
                /\ st.data[t][i] \in Seq(AnyCell)
                /\ Len(st.data[t][i]) \in Nat
                /\ DOMAIN st.data[t][i] = 1 .. Len(st.data[t][i])
                /\ \A n \in 1 .. Len(st.data[t][i]) : st.data[t][i][n] \in AnyCell
<1>1. st.data[t] \in Seq(Seq(AnyCell))
  BY DEF State
<1>2. \A i \in 1 .. Len(st.data[t]) : st.data[t][i] \in Seq(AnyCell)
  BY <1>1, ElementOfSeq
<1> QED
  BY <1>1, <1>2, LenProperties, ElementOfSeq

LEMMA RewrittenIsKept ==
    ASSUME NEW st, Kept(st), NEW t \in TableObjects,
           NEW cs \in Seq(Column), NEW cells \in Seq(Seq(AnyCell)), Rectangular(cs, cells)
    PROVE  Kept(Rewritten(st, t, cs, cells))
<1> DEFINE new == Rewritten(st, t, cs, cells)
<1>1. st \in State
  BY DEF Kept
<1>2. /\ new \in State
      /\ new.cols = [st.cols EXCEPT ![t] = cs]
      /\ new.data = [st.data EXCEPT ![t] = cells]
      /\ new.columns = st.columns
      /\ new.naxis2 = [st.naxis2 EXCEPT ![t] = Len(cells)]
  BY <1>1, RewrittenKeeps
<1> HIDE DEF new
<1>3. Len(cells) \in Nat
  BY LenProperties
<1>4. ASSUME NEW s \in TableObjects
      PROVE  /\ Rectangular(new.cols[s], new.data[s])
             /\ new.naxis2[s] <= Len(new.data[s])
             /\ Numbered(new.columns[s])
  <2>1. CASE s = t
    <3>1. new.cols[s] = cs /\ new.data[s] = cells /\ new.naxis2[s] = Len(cells)
      BY <1>1, <1>2, <2>1 DEF State
    <3> QED
      BY <1>2, <1>3, <3>1 DEF Kept
  <2>2. CASE s # t
    <3>1. new.cols[s] = st.cols[s] /\ new.data[s] = st.data[s] /\ new.naxis2[s] = st.naxis2[s]
      BY <1>1, <1>2, <2>2 DEF State
    <3> QED
      BY <1>2, <3>1 DEF Kept
  <2> QED
    BY <2>1, <2>2
<1>5. Kept(new)
  BY <1>2, <1>4 DEF Kept
<1> QED
  BY <1>5 DEF new

\* A state with the tables of one that is kept, and no more rows counted than there are.
LEMMA SameTablesIsKept ==
    ASSUME NEW st, Kept(st), NEW new \in State, SameTables(st, new),
           \A t \in TableObjects : new.naxis2[t] \in {st.naxis2[t], Len(st.data[t])}
    PROVE  Kept(new)
<1>1. st \in State
  BY DEF Kept
<1>2. \A t \in TableObjects : Len(st.data[t]) \in Nat /\ st.naxis2[t] <= Len(st.data[t])
  BY <1>1, CellsOf DEF Kept
<1> QED
  BY <1>2 DEF Kept, SameTables

LEMMA MovedToIsKept ==
    ASSUME NEW st, Kept(st), NEW t \in TableObjects
    PROVE  Kept(MovedTo(st, t))
<1>1. st \in State
  BY DEF Kept
<1> QED
  BY <1>1, MovedToKeeps, SameTablesIsKept

LEMMA SyncedIsKept ==
    ASSUME NEW st, Kept(st), NEW t \in TableObjects
    PROVE  Kept(Synced(st, t))
<1>1. st \in State
  BY DEF Kept
<1>2. \A s \in TableObjects : [st.naxis2 EXCEPT ![t] = Len(st.data[t])][s]
                                \in {st.naxis2[s], Len(st.data[s])}
  BY <1>1 DEF State
<1> QED
  BY <1>1, <1>2, SyncedKeeps, SameTablesIsKept

LEMMA ProgressIsKept ==
    ASSUME NEW st, Kept(st)
    PROVE  Kept(Throw(st)) /\ Kept(Fault(st)) /\ Kept(Spend(st))
<1>1. st \in State
  BY DEF Kept
<1> QED
  BY <1>1, ProgressKeeps, SameTablesIsKept

LEMMA RequestIsKept ==
    ASSUME NEW st, Kept(st), NEW info \in Info
    PROVE  Kept(Noted(st, info)) /\ Kept(ToInsert(st, info))
<1>1. st \in State
  BY DEF Kept
<1> QED
  BY <1>1, RequestKeeps, SameTablesIsKept

LEMMA DeletedAreCells ==
    ASSUME NEW st, Kept(st), NEW t \in TableObjects, NEW n \in 1 .. Len(st.cols[t])
    PROVE  LET cs == DeleteCol(st.cols[t], n)
               cells == [i \in DOMAIN st.data[t] |-> DeleteCol(st.data[t][i], n)]
           IN  /\ cs \in Seq(Column) /\ cells \in Seq(Seq(AnyCell))
               /\ Len(cells) = Len(st.data[t])
               /\ Rectangular(cs, cells)
<1> DEFINE cs == DeleteCol(st.cols[t], n)
           cells == [i \in DOMAIN st.data[t] |-> DeleteCol(st.data[t][i], n)]
<1>1. st \in State /\ Rectangular(st.cols[t], st.data[t])
  BY DEF Kept
<1>2. cs \in Seq(Column) /\ Len(cs) = Len(st.cols[t]) - 1
  <2>1. st.cols[t] \in Seq(Column)
    BY <1>1, ColumnsOf
  <2> QED
    BY <2>1, RemoveAtProperties DEF DeleteCol
<1>3. ASSUME NEW i \in 1 .. Len(st.data[t])
      PROVE  cells[i] \in Seq(AnyCell) /\ Len(cells[i]) = Len(cs)
  <2>1. st.data[t][i] \in Seq(AnyCell) /\ n \in 1 .. Len(st.data[t][i])
        /\ Len(st.data[t][i]) = Len(st.cols[t])
    BY <1>1, CellsOf DEF Rectangular
  <2>2. DeleteCol(st.data[t][i], n) \in Seq(AnyCell)
        /\ Len(DeleteCol(st.data[t][i], n)) = Len(st.data[t][i]) - 1
    BY <2>1, RemoveAtProperties DEF DeleteCol
  <2>3. cells[i] = DeleteCol(st.data[t][i], n)
    BY <1>1, CellsOf
  <2> QED
    BY <1>2, <2>1, <2>2, <2>3
<1>4. DOMAIN cells = 1 .. Len(st.data[t]) /\ Len(st.data[t]) \in Nat
  BY <1>1, CellsOf
<1>5. cells \in [1 .. Len(st.data[t]) -> Seq(AnyCell)]
  <2> HIDE DEF cs
  <2> QED
    BY <1>3, <1>4
<1> HIDE DEF cells, cs
<1>6. cells \in Seq(Seq(AnyCell)) /\ Len(cells) = Len(st.data[t])
  BY <1>4, <1>5, FunctionIsSeq
<1>7. Rectangular(cs, cells)
  BY <1>3, <1>6 DEF Rectangular
<1> QED
  BY <1>2, <1>6, <1>7 DEF cs, cells

LEMMA WithoutColumnIsKept ==
    ASSUME NEW st, Kept(st), NEW t \in TableObjects, NEW n \in 1 .. Len(st.cols[t])
    PROVE  Kept(WithoutColumn(st, t, n))
<1> DEFINE cs == DeleteCol(st.cols[t], n)
           cells == [i \in DOMAIN st.data[t] |-> DeleteCol(st.data[t][i], n)]
<1>1. cs \in Seq(Column) /\ cells \in Seq(Seq(AnyCell)) /\ Rectangular(cs, cells)
  BY DeletedAreCells
<1> HIDE DEF cs, cells
<1>2. Kept(Rewritten(st, t, cs, cells))
  BY <1>1, RewrittenIsKept
<1> QED
  BY <1>2 DEF WithoutColumn, cs, cells

CellsWithout(cells, n) == [i \in DOMAIN cells |-> DeleteCol(cells[i], n)]

LEMMA WithoutColumnTables ==
    ASSUME NEW st, Kept(st), NEW t \in TableObjects, NEW n \in 1 .. Len(st.cols[t])
    PROVE  /\ WithoutColumn(st, t, n).cols[t] = DeleteCol(st.cols[t], n)
           /\ WithoutColumn(st, t, n).data[t] = CellsWithout(st.data[t], n)
           /\ WithoutColumn(st, t, n).naxis2[t] = Len(st.data[t])
           /\ OthersKept(st, t, WithoutColumn(st, t, n))
           /\ SameProgress(st, WithoutColumn(st, t, n))
<1> DEFINE cs == DeleteCol(st.cols[t], n)
           cells == CellsWithout(st.data[t], n)
<1>1. /\ cs \in Seq(Column) /\ cells \in Seq(Seq(AnyCell))
      /\ Len(cells) = Len(st.data[t]) /\ st \in State
  BY DeletedAreCells DEF Kept, CellsWithout
<1>2. WithoutColumn(st, t, n) = Rewritten(st, t, cs, cells)
  BY DEF WithoutColumn, CellsWithout
<1> HIDE DEF cs, cells
<1>3. /\ Rewritten(st, t, cs, cells).cols[t] = cs
      /\ Rewritten(st, t, cs, cells).data[t] = cells
      /\ Rewritten(st, t, cs, cells).naxis2[t] = Len(cells)
      /\ OthersKept(st, t, Rewritten(st, t, cs, cells))
      /\ SameProgress(st, Rewritten(st, t, cs, cells))
  BY <1>1, RewrittenTables
<1> QED
  BY <1>1, <1>2, <1>3 DEF cs, cells

LEMMA BareIsColumn ==
    ASSUME NEW info \in Info
    PROVE  Bare(info) \in Column
<1>1. TformRepeat(info.extent) \in Nat \ {0}
  BY DEF TformRepeat
<1>2. <<>> \in Seq(Nat)
  BY EmptySeq
<1>3. info.ttype \in Names /\ info.type \in ColumnTypes
  BY DEF Info
<1> HIDE DEF ColumnTypes
<1> QED
  BY <1>1, <1>2, <1>3 DEF Bare, NewColumn, NoTdim, Column

BareAll(infos) == [i \in DOMAIN infos |-> Bare(infos[i])]

NullRowOf(seq) == [n \in DOMAIN seq |-> Null]

CellsWith(cells, infos) == [i \in DOMAIN cells |-> cells[i] \o NullRowOf(infos)]

LEMMA BareColumns ==
    ASSUME NEW infos \in Seq(Info)
    PROVE  /\ BareAll(infos) \in Seq(Column)
           /\ Len(BareAll(infos)) = Len(infos)
<1>1. /\ Len(infos) \in Nat /\ DOMAIN infos = 1 .. Len(infos)
      /\ \A i \in 1 .. Len(infos) : infos[i] \in Info
  BY LenProperties, ElementOfSeq
<1>2. \A i \in 1 .. Len(infos) : Bare(infos[i]) \in Column
  BY <1>1, BareIsColumn
<1>3. BareAll(infos) \in [1 .. Len(infos) -> Column]
  BY <1>1, <1>2 DEF BareAll
<1> QED
  BY <1>1, <1>3, FunctionIsSeq

LEMMA NullRow ==
    ASSUME NEW S, NEW seq \in Seq(S)
    PROVE  NullRowOf(seq) \in Seq(AnyCell) /\ Len(NullRowOf(seq)) = Len(seq)
<1>1. Len(seq) \in Nat /\ DOMAIN seq = 1 .. Len(seq)
  BY LenProperties
<1>2. NullRowOf(seq) \in [1 .. Len(seq) -> AnyCell]
  BY <1>1 DEF AnyCell, NullRowOf
<1> QED
  BY <1>1, <1>2, FunctionIsSeq

LEMMA AddedAreCells ==
    ASSUME NEW st, Kept(st), NEW t \in TableObjects, NEW infos \in Seq(Info)
    PROVE  /\ st.cols[t] \o BareAll(infos) \in Seq(Column)
           /\ CellsWith(st.data[t], infos) \in Seq(Seq(AnyCell))
           /\ Len(CellsWith(st.data[t], infos)) = Len(st.data[t])
           /\ Rectangular(st.cols[t] \o BareAll(infos), CellsWith(st.data[t], infos))
<1> DEFINE added == BareAll(infos)
           nulls == NullRowOf(infos)
           cs == st.cols[t] \o added
           cells == CellsWith(st.data[t], infos)
<1>1. st \in State /\ Rectangular(st.cols[t], st.data[t])
  BY DEF Kept
<1>2. /\ added \in Seq(Column) /\ Len(added) = Len(infos)
      /\ nulls \in Seq(AnyCell) /\ Len(nulls) = Len(infos)
  BY BareColumns, NullRow
<1>3. cells = [i \in DOMAIN st.data[t] |-> st.data[t][i] \o nulls]
  BY DEF CellsWith
<1> HIDE DEF added, nulls, cells
<1>4. cs \in Seq(Column) /\ Len(cs) = Len(st.cols[t]) + Len(infos)
  <2>1. st.cols[t] \in Seq(Column) /\ added \in Seq(Column)
    BY <1>1, <1>2, ColumnsOf
  <2>2. /\ st.cols[t] \o added \in Seq(Column)
        /\ Len(st.cols[t] \o added) = Len(st.cols[t]) + Len(added)
    BY <2>1, ConcatProperties
  <2> QED
    BY <1>2, <2>2
<1>5. ASSUME NEW i \in 1 .. Len(st.data[t])
      PROVE  cells[i] \in Seq(AnyCell) /\ Len(cells[i]) = Len(cs)
  <2>1. st.data[t][i] \in Seq(AnyCell) /\ Len(st.data[t][i]) = Len(st.cols[t])
    BY <1>1, CellsOf DEF Rectangular
  <2>2. /\ st.data[t][i] \o nulls \in Seq(AnyCell)
        /\ Len(st.data[t][i] \o nulls) = Len(st.data[t][i]) + Len(nulls)
    BY <1>2, <2>1, ConcatProperties
  <2>3. cells[i] = st.data[t][i] \o nulls
    BY <1>1, <1>3, CellsOf
  <2> HIDE DEF cs
  <2> QED
    BY <1>2, <1>4, <2>1, <2>2, <2>3
<1>6. DOMAIN cells = 1 .. Len(st.data[t]) /\ Len(st.data[t]) \in Nat
  BY <1>1, <1>3, CellsOf
<1> HIDE DEF cs
<1>7. cells \in Seq(Seq(AnyCell)) /\ Len(cells) = Len(st.data[t])
  <2>1. cells \in [1 .. Len(st.data[t]) -> Seq(AnyCell)]
    BY <1>3, <1>5, <1>6
  <2> QED
    BY <1>6, <2>1, FunctionIsSeq
<1>8. Rectangular(cs, cells)
  BY <1>5, <1>7 DEF Rectangular
<1> QED
  BY <1>4, <1>7, <1>8 DEF cs, cells, added

LEMMA WithColumnsIsKept ==
    ASSUME NEW st, Kept(st), NEW t \in TableObjects, NEW infos \in Seq(Info)
    PROVE  Kept(WithColumns(st, t, infos))
<1> DEFINE cs == st.cols[t] \o BareAll(infos)
           cells == CellsWith(st.data[t], infos)
<1>1. cs \in Seq(Column) /\ cells \in Seq(Seq(AnyCell)) /\ Rectangular(cs, cells)
  BY AddedAreCells
<1>2. WithColumns(st, t, infos) = Rewritten(st, t, cs, cells)
  BY DEF WithColumns, BareAll, CellsWith, NullRowOf
<1> HIDE DEF cs, cells
<1> QED
  BY <1>1, <1>2, RewrittenIsKept

\* The rows of a table with others, of Null, among them.
CellsExtended(st, t, after, count) ==
    (SubSeq(st.data[t], 1, after) \o [i \in 1 .. count |-> NullRowOf(st.cols[t])])
        \o SubSeq(st.data[t], after + 1, Len(st.data[t]))

LEMMA ExtendedAreCells ==
    ASSUME NEW st, Kept(st), NEW t \in TableObjects,
           NEW after \in 0 .. Len(st.data[t]), NEW count \in Nat
    PROVE  /\ CellsExtended(st, t, after, count) \in Seq(Seq(AnyCell))
           /\ Rectangular(st.cols[t], CellsExtended(st, t, after, count))
<1> DEFINE old == st.data[t]
           nulls == NullRowOf(st.cols[t])
           new == [i \in 1 .. count |-> nulls]
           front == SubSeq(old, 1, after)
           back == SubSeq(old, after + 1, Len(old))
           middle == front \o new
           cells == middle \o back
           n == Len(st.cols[t])
           Wide == {r \in Seq(AnyCell) : Len(r) = n}
<1>1. st \in State /\ Rectangular(st.cols[t], st.data[t])
  BY DEF Kept
<1>2. nulls \in Seq(AnyCell) /\ Len(nulls) = Len(st.cols[t])
  BY <1>1, ColumnsOf, NullRow
<1> HIDE DEF nulls
<1>3. new \in Seq(Wide)
  BY <1>2, IsASeq
<1>4. old \in Seq(Wide) /\ Len(old) \in Nat
  <2>1. /\ old \in Seq(Seq(AnyCell)) /\ Len(old) \in Nat
        /\ \A i \in 1 .. Len(old) : old[i] \in Wide
    BY <1>1, CellsOf DEF Rectangular
  <2>2. old \in [1 .. Len(old) -> Wide]
    <3> HIDE DEF Wide
    <3> QED
      BY <2>1, LenProperties
  <2> HIDE DEF Wide
  <2> QED
    BY <2>1, <2>2, FunctionIsSeq
<1> HIDE DEF Wide, new
<1>5. front \in Seq(Wide)
  BY <1>4, SubSeqProperties
<1>6. back \in Seq(Wide)
  BY <1>4, SubSeqProperties
<1>7. cells \in Seq(Wide)
  <2> HIDE DEF front, back, old
  <2>1. middle \in Seq(Wide)
    BY <1>3, <1>5, ConcatProperties
  <2> HIDE DEF middle
  <2> QED
    BY <1>6, <2>1, ConcatProperties
<1> HIDE DEF cells, front, back, middle
<1>8. cells \in Seq(Seq(AnyCell)) /\ \A i \in 1 .. Len(cells) : Len(cells[i]) = n
  <2>1. Wide \subseteq Seq(AnyCell)
    BY DEF Wide
  <2>2. cells \in Seq(Seq(AnyCell))
    BY <1>7, <2>1, SeqMonotonic
  <2>3. \A i \in 1 .. Len(cells) : cells[i] \in Wide
    BY <1>7, ElementOfSeq
  <2> QED
    BY <2>2, <2>3 DEF Wide
<1>9. Rectangular(st.cols[t], cells)
  BY <1>1, <1>8 DEF Rectangular
<1>10. cells = CellsExtended(st, t, after, count)
  BY DEF CellsExtended, cells, middle, front, back, old, new, nulls
<1> QED
  BY <1>8, <1>9, <1>10

LEMMA ExtendedLength ==
    ASSUME NEW st, Kept(st), NEW t \in TableObjects,
           NEW after \in 0 .. Len(st.data[t]), NEW count \in Nat
    PROVE  Len(CellsExtended(st, t, after, count)) = Len(st.data[t]) + count
<1> DEFINE old == st.data[t]
           n == Len(old)
           new == [i \in 1 .. count |-> NullRowOf(st.cols[t])]
           front == SubSeq(old, 1, after)
           back == SubSeq(old, after + 1, n)
           middle == front \o new
<1>1. old \in Seq(Seq(AnyCell)) /\ n \in Nat /\ after \in 0 .. n
  BY CellsOf DEF Kept
<1>2. new \in Seq(Seq(AnyCell)) /\ Len(new) = count
  <2>1. NullRowOf(st.cols[t]) \in Seq(AnyCell)
    BY ColumnsOf, NullRow DEF Kept
  <2>2. new \in [1 .. count -> Seq(AnyCell)]
    BY <2>1
  <2> HIDE DEF new
  <2> QED
    BY <2>2, FunctionIsSeq
<1> HIDE DEF old, new
<1>3. front \in Seq(Seq(AnyCell)) /\ Len(front) = after
  BY <1>1, SubSeqProperties
<1>4. back \in Seq(Seq(AnyCell)) /\ Len(back) = n - after
  <2> DEFINE m == after + 1
  <2>1. n \in m - 1 .. n /\ m \in 1 .. n + 1
    BY <1>1
  <2> HIDE DEF m, n
  <2>2. SubSeq(old, m, n) \in Seq(Seq(AnyCell)) /\ Len(SubSeq(old, m, n)) = IF m <= n THEN n - m + 1 ELSE 0
    BY <1>1, <2>1, SubSeqProperties DEF n
  <2> QED
    BY <1>1, <2>1, <2>2 DEF m
<1> HIDE DEF front, back
<1>5. middle \in Seq(Seq(AnyCell)) /\ Len(middle) = after + count
  <2>1. middle \in Seq(Seq(AnyCell)) /\ Len(middle) = Len(front) + Len(new)
    BY <1>2, <1>3, ConcatProperties
  <2> QED
    BY <1>2, <1>3, <2>1
<1> HIDE DEF middle
<1>6. Len(middle \o back) = Len(middle) + Len(back)
  BY <1>4, <1>5, ConcatProperties
<1>7. Len(middle \o back) = n + count
  BY <1>1, <1>4, <1>5, <1>6
<1> QED
  BY <1>7 DEF CellsExtended, middle, front, back, old, new

LEMMA WithRowsIsKept ==
    ASSUME NEW st, Kept(st), NEW t \in TableObjects,
           NEW after \in 0 .. Len(st.data[t]), NEW count \in Nat
    PROVE  Kept(WithRows(st, t, after, count))
<1> DEFINE cells == CellsExtended(st, t, after, count)
<1>1. cells \in Seq(Seq(AnyCell)) /\ Rectangular(st.cols[t], cells)
  BY ExtendedAreCells
<1>2. st.cols[t] \in Seq(Column)
  BY ColumnsOf DEF Kept
<1>3. WithRows(st, t, after, count) = Rewritten(st, t, st.cols[t], cells)
  BY DEF WithRows, CellsExtended, NullRowOf
<1> HIDE DEF cells
<1> QED
  BY <1>1, <1>2, <1>3, RewrittenIsKept

LEMMA WithCellsKeeps ==
    ASSUME NEW st \in State, NEW from \in TableObjects, NEW to \in TableObjects, NEW m, NEW n,
           NEW cells \in Seq(Seq(AnyCell)), cells = CellsWritten(st, from, m, to, n)
    PROVE  LET new == WithCells(st, from, m, to, n)
           IN  /\ new \in State /\ SameProgress(st, new)
               /\ new.cols = st.cols /\ new.columns = st.columns
               /\ new.data = [st.data EXCEPT ![to] = cells]
               /\ new.naxis2 = st.naxis2
               /\ new.chdu = st.chdu
<1>1. WithCells(st, from, m, to, n) = [st EXCEPT !.data[to] = cells]
  BY DEF WithCells
<1> DEFINE new == [st EXCEPT !.data[to] = cells]
<1>2. /\ new \in State /\ SameProgress(st, new)
      /\ new.cols = st.cols /\ new.columns = st.columns
      /\ new.data = [st.data EXCEPT ![to] = cells]
      /\ new.naxis2 = st.naxis2
      /\ new.chdu = st.chdu
  BY DEF State, SameProgress
<1> HIDE DEF new
<1>3. WithCells(st, from, m, to, n) = new
  BY <1>1 DEF new
<1> QED
  BY <1>2, <1>3

LEMMA CellsWrittenAreCells ==
    ASSUME NEW st, Kept(st), NEW from \in TableObjects, NEW to \in TableObjects,
           NEW m \in 1 .. Len(st.cols[from]), NEW n \in 1 .. Len(st.cols[to])
    PROVE  /\ CellsWritten(st, from, m, to, n) \in Seq(Seq(AnyCell))
           /\ Len(CellsWritten(st, from, m, to, n)) = Len(st.data[to])
           /\ Rectangular(st.cols[to], CellsWritten(st, from, m, to, n))
<1> DEFINE cells == CellsWritten(st, from, m, to, n)
           rows == RowsToCopy(st, from, to)
           copied(i) == IF SameLayout(st.cols[from][m], st.cols[to][n])
                        THEN st.data[from][i][m] ELSE Junk
<1>1. /\ st \in State
      /\ Rectangular(st.cols[from], st.data[from]) /\ Rectangular(st.cols[to], st.data[to])
      /\ st.naxis2[from] <= Len(st.data[from])
  BY DEF Kept
<1>2. rows <= st.naxis2[from] /\ rows \in Nat
  <2>1. st.naxis2[from] \in Nat /\ st.naxis2[to] \in Nat
    BY <1>1 DEF State
  <2> QED
    BY <2>1 DEF RowsToCopy
<1>3. ASSUME NEW i \in 1 .. Len(st.data[to]), i <= rows
      PROVE  copied(i) \in AnyCell
  <2>1. i \in 1 .. Len(st.data[from])
    <3> HIDE DEF rows
    <3>1. st.naxis2[from] \in Nat /\ Len(st.data[from]) \in Nat /\ Len(st.data[to]) \in Nat
      BY <1>1, CellsOf DEF State
    <3> QED
      BY <1>1, <1>2, <1>3, <3>1
  <2>2. m \in 1 .. Len(st.data[from][i])
    BY <1>1, <2>1 DEF Rectangular
  <2>3. st.data[from][i][m] \in AnyCell
    BY <1>1, <2>1, <2>2, CellsOf
  <2> QED
    BY <2>3 DEF AnyCell
<1> HIDE DEF rows, copied
<1>4. cells = [i \in 1 .. Len(st.data[to]) |->
                IF i <= rows THEN [st.data[to][i] EXCEPT ![n] = copied(i)] ELSE st.data[to][i]]
  BY <1>1, CellsOf DEF CellsWritten, rows, copied
<1> HIDE DEF cells
<1>5. ASSUME NEW i \in 1 .. Len(st.data[to])
      PROVE  cells[i] \in Seq(AnyCell) /\ Len(cells[i]) = Len(st.cols[to])
  <2> DEFINE row == st.data[to][i]
             c == copied(i)
  <2>1. row \in Seq(AnyCell) /\ Len(row) = Len(st.cols[to]) /\ n \in 1 .. Len(row)
    BY <1>1, CellsOf DEF Rectangular
  <2>2. cells[i] = IF i <= rows THEN [row EXCEPT ![n] = c] ELSE row
    BY <1>4
  <2>3. CASE i <= rows
    <3>1. c \in AnyCell
      BY <1>3, <2>3
    <3> HIDE DEF row, c
    <3>2. [row EXCEPT ![n] = c] \in Seq(AnyCell) /\ Len([row EXCEPT ![n] = c]) = Len(row)
      BY <2>1, <3>1, ExceptSeq
    <3> QED
      BY <2>1, <2>2, <2>3, <3>2
  <2>4. CASE ~ (i <= rows)
    BY <2>1, <2>2, <2>4
  <2> QED
    BY <2>3, <2>4
<1>6. Len(st.data[to]) \in Nat /\ cells \in [1 .. Len(st.data[to]) -> Seq(AnyCell)]
  BY <1>1, <1>4, <1>5, CellsOf
<1>7. cells \in Seq(Seq(AnyCell)) /\ Len(cells) = Len(st.data[to])
  BY <1>6, FunctionIsSeq
<1>8. Rectangular(st.cols[to], cells)
  BY <1>5, <1>7 DEF Rectangular
<1> QED
  BY <1>7, <1>8 DEF cells

LEMMA WithCellsIsKept ==
    ASSUME NEW st, Kept(st), NEW from \in TableObjects, NEW to \in TableObjects,
           NEW m \in 1 .. Len(st.cols[from]), NEW n \in 1 .. Len(st.cols[to])
    PROVE  Kept(WithCells(st, from, m, to, n))
<1> DEFINE cells == CellsWritten(st, from, m, to, n)
           new == WithCells(st, from, m, to, n)
<1>1. /\ cells \in Seq(Seq(AnyCell)) /\ Len(cells) = Len(st.data[to])
      /\ Rectangular(st.cols[to], cells)
  BY CellsWrittenAreCells
<1>2. st \in State
  BY DEF Kept
<1>3. /\ new \in State
      /\ new.cols = st.cols /\ new.columns = st.columns
      /\ new.data = [st.data EXCEPT ![to] = cells]
      /\ new.naxis2 = st.naxis2
  BY <1>1, <1>2, WithCellsKeeps
<1> HIDE DEF new, cells
<1>4. \A t \in TableObjects :
        new.data[t] = IF t = to THEN cells ELSE st.data[t]
  BY <1>2, <1>3 DEF State
<1>5. Kept(new)
  BY <1>1, <1>3, <1>4 DEF Kept
<1> QED
  BY <1>5 DEF new

LEMMA WithColumnsTables ==
    ASSUME NEW st, Kept(st), NEW t \in TableObjects, NEW infos \in Seq(Info)
    PROVE  /\ WithColumns(st, t, infos).cols[t] = st.cols[t] \o BareAll(infos)
           /\ WithColumns(st, t, infos).data[t] = CellsWith(st.data[t], infos)
           /\ WithColumns(st, t, infos).naxis2[t] = Len(st.data[t])
           /\ OthersKept(st, t, WithColumns(st, t, infos))
           /\ SameProgress(st, WithColumns(st, t, infos))
<1> DEFINE cs == st.cols[t] \o BareAll(infos)
           cells == CellsWith(st.data[t], infos)
<1>1. /\ cs \in Seq(Column) /\ cells \in Seq(Seq(AnyCell))
      /\ Len(cells) = Len(st.data[t]) /\ st \in State
  BY AddedAreCells DEF Kept
<1>2. WithColumns(st, t, infos) = Rewritten(st, t, cs, cells)
  BY DEF WithColumns, BareAll, CellsWith, NullRowOf
<1> HIDE DEF cs, cells
<1>3. /\ Rewritten(st, t, cs, cells).cols[t] = cs
      /\ Rewritten(st, t, cs, cells).data[t] = cells
      /\ Rewritten(st, t, cs, cells).naxis2[t] = Len(cells)
      /\ OthersKept(st, t, Rewritten(st, t, cs, cells))
      /\ SameProgress(st, Rewritten(st, t, cs, cells))
  BY <1>1, RewrittenTables
<1> QED
  BY <1>1, <1>2, <1>3 DEF cs, cells

LEMMA WithRowsTables ==
    ASSUME NEW st, Kept(st), NEW t \in TableObjects,
           NEW after \in 0 .. Len(st.data[t]), NEW count \in Nat
    PROVE  /\ WithRows(st, t, after, count).cols[t] = st.cols[t]
           /\ WithRows(st, t, after, count).data[t] = CellsExtended(st, t, after, count)
           /\ WithRows(st, t, after, count).naxis2[t] = Len(CellsExtended(st, t, after, count))
           /\ OthersKept(st, t, WithRows(st, t, after, count))
           /\ SameProgress(st, WithRows(st, t, after, count))
<1> DEFINE cs == st.cols[t]
           cells == CellsExtended(st, t, after, count)
<1>1. cs \in Seq(Column) /\ cells \in Seq(Seq(AnyCell)) /\ st \in State
  BY ExtendedAreCells, ColumnsOf DEF Kept
<1>2. WithRows(st, t, after, count) = Rewritten(st, t, cs, cells)
  BY DEF WithRows, CellsExtended, NullRowOf
<1> HIDE DEF cs, cells
<1>3. /\ Rewritten(st, t, cs, cells).cols[t] = cs
      /\ Rewritten(st, t, cs, cells).data[t] = cells
      /\ Rewritten(st, t, cs, cells).naxis2[t] = Len(cells)
      /\ OthersKept(st, t, Rewritten(st, t, cs, cells))
      /\ SameProgress(st, Rewritten(st, t, cs, cells))
  BY <1>1, RewrittenTables
<1> QED
  BY <1>1, <1>2, <1>3 DEF cs, cells

-----------------------------------------------------------------------------
(***************************************************************************)
(* What is known of a column                                               *)
(***************************************************************************)
LEMMA KnownColumn ==
    ASSUME NEW st, Kept(st), NEW t \in TableObjects, NEW name, Known(st, t, name)
    PROVE  \E n \in 1 .. Len(st.columns[t]) :
                /\ n \in 1 .. Len(st.cols[t])
                /\ IsColnum(st.cols[t], name, n) /\ st.cols[t][n].name = name
                /\ Colinfo(st, t, name) = st.columns[t][n]
                /\ Colinfo(st, t, name) \in Info
                /\ Colinfo(st, t, name).colnum = n
<1>1. st \in State /\ Numbered(st.columns[t])
  BY DEF Kept
<1> DEFINE n == CHOOSE n \in DOMAIN st.columns[t] : IsColnum(st.cols[t], name, n)
<1>2. n \in DOMAIN st.columns[t] /\ IsColnum(st.cols[t], name, n)
  BY DEF Known
<1>3. Colinfo(st, t, name) = st.columns[t][n]
  BY DEF Colinfo
<1> HIDE DEF n
<1>4. n \in 1 .. Len(st.columns[t])
  BY <1>1, <1>2, ColumnsOf
<1>5. n \in 1 .. Len(st.cols[t]) /\ st.cols[t][n].name = name
  BY <1>2 DEF IsColnum, ColumnsNamed
<1>6. st.columns[t][n] \in Info /\ st.columns[t][n].colnum = n
  BY <1>1, <1>4, ColumnsOf DEF Numbered
<1> QED
  BY <1>2, <1>3, <1>4, <1>5, <1>6

LEMMA DescriptionsAreInfos ==
    ASSUME NEW cs \in Seq(Column)
    PROVE  /\ Descriptions(cs) \in Seq(Info) /\ Len(Descriptions(cs)) = Len(cs)
           /\ Numbered(Descriptions(cs))
           /\ \A n \in 1 .. Len(cs) : Descriptions(cs)[n] = Describe(cs[n], n)
<1>1. Len(cs) \in Nat /\ DOMAIN cs = 1 .. Len(cs) /\ \A n \in 1 .. Len(cs) : cs[n] \in Column
  BY LenProperties, ElementOfSeq
<1>2. ASSUME NEW n \in 1 .. Len(cs)
      PROVE  Describe(cs[n], n) \in Info /\ Describe(cs[n], n).colnum = n
  <2> DEFINE col == cs[n]
             extent == CellExtent(col)
  <2>1. /\ col \in Column /\ col.repeat \in Nat \ {0} /\ col.width \in Nat /\ col.tdim \in Seq(Nat)
        /\ col.name \in Names /\ col.type \in ColumnTypes
    BY <1>1 DEF Column
  <2> HIDE DEF col
  <2>2. StringWidth(col) \in Nat \ {0}
    BY <2>1 DEF StringWidth
  <2>3. ReadTdim(col) \in Seq(Int)
    BY <2>1, SeqMonotonic DEF ReadTdim
  <2>4. extent \in Seq(Int)
    <3>1. col.repeat \div StringWidth(col) \in Int
      BY <2>1, <2>2
    <3> QED
      BY <2>2, <2>3, <3>1 DEF CellExtent
  <2> HIDE DEF extent
  <2>5. Describe(col, n) = [ttype |-> col.name, type |-> col.type, extent |-> extent, colnum |-> n]
    BY DEF Describe, extent
  <2>6. n \in Nat \ {0}
    BY <1>1
  <2>7. Describe(col, n) \in Info /\ Describe(col, n).colnum = n
    BY <2>1, <2>4, <2>5, <2>6 DEF Info
  <2> QED
    BY <2>7 DEF col
<1>3. Descriptions(cs) = [n \in 1 .. Len(cs) |-> Describe(cs[n], n)]
  BY <1>1 DEF Descriptions
<1>4. Descriptions(cs) \in [1 .. Len(cs) -> Info]
  BY <1>2, <1>3
<1>5. Descriptions(cs) \in Seq(Info) /\ Len(Descriptions(cs)) = Len(cs)
  BY <1>1, <1>4, FunctionIsSeq
<1> QED
  BY <1>2, <1>3, <1>5 DEF Numbered

-----------------------------------------------------------------------------
(***************************************************************************)
(* The requests                                                            *)
(***************************************************************************)
\* What a step of a copy between two files leaves of the source.
SourceKept(st, new) ==
    new.cols[Source] = st.cols[Source] /\ new.data[Source] = st.data[Source]

LEMMA DeletedByNameKeeps ==
    ASSUME NEW st, Kept(st), NEW name \in Names, NEW info \in Info
    PROVE  /\ Kept(DeletedByName(st, name, info))
           /\ SourceKept(st, DeletedByName(st, name, info))
           /\ DeletedByName(st, name, info).columns = st.columns
<1> DEFINE new == DeletedByName(st, name, info)
           spent == Spend(st)
           n == Colinfo(st, Destination, name).colnum
           without == WithoutColumn(spent, Destination, n)
<1>1. st \in State /\ Source \in TableObjects /\ Destination \in TableObjects
  BY DEF Kept, TableObjects
<1>2. CASE ~ Known(st, Destination, name)
  <2>1. new = Throw(st)
    BY <1>2 DEF DeletedByName
  <2>2. Kept(Throw(st)) /\ SameTables(st, Throw(st))
    BY <1>1, ProgressIsKept, ProgressKeeps
  <2> QED
    BY <2>1, <2>2 DEF SourceKept, SameTables
<1>3. CASE Known(st, Destination, name) /\ Fails(st)
  <2>1. new = Fault(st)
    BY <1>3 DEF DeletedByName
  <2>2. Kept(Fault(st)) /\ SameTables(st, Fault(st))
    BY <1>1, ProgressIsKept, ProgressKeeps
  <2> QED
    BY <2>1, <2>2 DEF SourceKept, SameTables
<1>4. CASE Known(st, Destination, name) /\ ~ Fails(st)
  <2>1. new = ToInsert(without, info)
    BY <1>4 DEF DeletedByName
  <2>2. Kept(spent) /\ spent \in State /\ SameTables(st, spent)
    BY <1>1, ProgressIsKept, ProgressKeeps
  <2>3. n \in 1 .. Len(st.cols[Destination])
    BY <1>1, <1>4, KnownColumn
  <2> HIDE DEF spent, n
  <2>4. n \in 1 .. Len(spent.cols[Destination])
    BY <2>2, <2>3 DEF SameTables
  <2>5. Kept(without)
    BY <1>1, <2>2, <2>4, WithoutColumnIsKept
  <2>6. SourceKept(spent, without) /\ without.columns = spent.columns
    <3>1. OthersKept(spent, Destination, without)
      BY <1>1, <2>2, <2>4, WithoutColumnTables
    <3> QED
      BY <1>1, <3>1, TablesAssumption DEF SourceKept, OthersKept
  <2>7. Kept(ToInsert(without, info)) /\ SameTables(without, ToInsert(without, info))
    <3>1. without \in State
      BY <2>5 DEF Kept
    <3> QED
      BY <2>5, <3>1, RequestKeeps, RequestIsKept
  <2> HIDE DEF without
  <2> QED
    BY <2>1, <2>2, <2>6, <2>7 DEF SourceKept, SameTables
<1> QED
  BY <1>2, <1>3, <1>4

LEMMA RequestedKeeps ==
    ASSUME NEW st, Kept(st), NEW name \in Names, NEW mode
    PROVE  /\ Kept(Requested(st, name, mode))
           /\ SourceKept(st, Requested(st, name, mode))
           /\ Requested(st, name, mode).columns = st.columns
<1> DEFINE new == Requested(st, name, mode)
           info == Colinfo(st, Source, name)
           there == MovedTo(st, Source)
           seen == Noted(there, info)
           noted == MovedTo(seen, Destination)
<1>1. st \in State /\ Source \in TableObjects /\ Destination \in TableObjects
  BY DEF Kept, TableObjects
<1>2. Kept(there) /\ there \in State /\ SameTables(st, there)
  BY <1>1, MovedToIsKept, MovedToKeeps
<1> HIDE DEF there
<1>3. CASE ~ Known(st, Source, name)
  <2>1. new = Throw(there)
    BY <1>3 DEF Requested, there
  <2>2. Kept(Throw(there)) /\ SameTables(there, Throw(there))
    BY <1>2, ProgressIsKept, ProgressKeeps
  <2> QED
    BY <1>2, <2>1, <2>2 DEF SourceKept, SameTables
<1>4. CASE Known(st, Source, name)
  <2>1. info \in Info
    BY <1>1, <1>4, KnownColumn
  <2> HIDE DEF info
  <2>2. Kept(seen) /\ seen \in State /\ SameTables(there, seen)
    BY <1>2, <2>1, RequestKeeps, RequestIsKept
  <2> HIDE DEF seen
  <2>3. Kept(noted) /\ noted \in State /\ SameTables(seen, noted)
    BY <1>1, <2>2, MovedToIsKept, MovedToKeeps
  <2> HIDE DEF noted
  <2>4. new \in {ToInsert(noted, info), DeletedByName(noted, name, info), noted, Throw(noted)}
    BY <1>4 DEF Requested, noted, seen, there, info
  <2> HIDE DEF new
  <2>5. Kept(new) /\ SourceKept(noted, new) /\ new.columns = noted.columns
    <3>1. CASE new = ToInsert(noted, info)
      BY <2>1, <2>3, <3>1, RequestKeeps, RequestIsKept DEF SameTables, SourceKept
    <3>2. CASE new = DeletedByName(noted, name, info)
      BY <2>1, <2>3, <3>2, DeletedByNameKeeps
    <3>3. CASE new = noted
      BY <2>3, <3>3 DEF SourceKept
    <3>4. CASE new = Throw(noted)
      BY <2>3, <3>4, ProgressKeeps, ProgressIsKept DEF SameTables, SourceKept
    <3> QED
      BY <2>4, <3>1, <3>2, <3>3, <3>4
  <2>6. Kept(new) /\ SourceKept(st, new) /\ new.columns = st.columns
    BY <1>2, <2>2, <2>3, <2>5 DEF SameTables, SourceKept
  <2> QED
    BY <2>6 DEF new
<1> QED
  BY <1>3, <1>4

Requesting(mode, at, name) == IF at.ok THEN Requested(at, name, mode) ELSE at

Asking == INSTANCE FoldTheory WITH Op <- Requesting

LEMMA AskedIsFold ==
    ASSUME NEW st, NEW names, NEW mode
    PROVE  Asked(st, names, mode) = Asking!Fold(mode, st, names)
BY DEF Asked, Requesting, Asking!Fold, Asking!FoldLeft, FoldLeft,
       Asking!MapThenFoldSet, MapThenFoldSet, Asking!Max, Max

LEMMA AskedKeeps ==
    ASSUME NEW st, Kept(st), NEW names \in Seq(Names), NEW mode
    PROVE  /\ Kept(Asked(st, names, mode))
           /\ SourceKept(st, Asked(st, names, mode))
           /\ Asked(st, names, mode).columns = st.columns
<1> DEFINE I == {s \in State : Kept(s) /\ SourceKept(st, s) /\ s.columns = st.columns}
<1>1. st \in I
  BY DEF Kept, SourceKept
<1>2. ASSUME NEW k \in 1 .. Len(names), NEW at \in I
      PROVE  Requesting(mode, at, names[k]) \in I
  <2>1. names[k] \in Names
    BY ElementOfSeq
  <2> DEFINE new == Requested(at, names[k], mode)
  <2>2. Kept(new) /\ SourceKept(at, new) /\ new.columns = at.columns
    BY <2>1, RequestedKeeps
  <2> HIDE DEF new
  <2>3. new \in I
    BY <2>2 DEF Kept, SourceKept
  <2> QED
    BY <2>3 DEF Requesting, new
<1> HIDE DEF I
<1>3. Asking!Fold(mode, st, names) \in I
  BY <1>1, <1>2, Asking!FoldInvariant
<1> QED
  BY <1>3, AskedIsFold DEF I

-----------------------------------------------------------------------------
(***************************************************************************)
(* The changes to the destination                                          *)
(***************************************************************************)
LEMMA BothTables == Source \in TableObjects /\ Destination \in TableObjects
BY DEF TableObjects

LEMMA ColumnsInsertedKeeps ==
    ASSUME NEW st, Kept(st)
    PROVE  /\ Kept(ColumnsInserted(st))
           /\ SourceKept(st, ColumnsInserted(st))
           /\ ColumnsInserted(st).columns = st.columns
<1> DEFINE new == ColumnsInserted(st)
           at == MovedTo(st, Destination)
           spent == Spend(at)
           infos == st.insert
           with == WithColumns(spent, Destination, infos)
<1>1. st \in State /\ infos \in Seq(Info)
  BY DEF Kept, State
<1>2. Kept(at) /\ at \in State /\ SameTables(st, at)
  BY <1>1, BothTables, MovedToIsKept, MovedToKeeps
<1> HIDE DEF at
<1>3. Kept(spent) /\ spent \in State /\ SameTables(at, spent)
  BY <1>2, ProgressIsKept, ProgressKeeps
<1>4. Kept(Fault(at)) /\ SameTables(at, Fault(at))
  BY <1>2, ProgressIsKept, ProgressKeeps
<1> HIDE DEF spent, infos
<1>5. Kept(with) /\ OthersKept(spent, Destination, with)
  BY <1>1, <1>3, BothTables, WithColumnsIsKept, WithColumnsTables
<1> HIDE DEF with
<1>6. SourceKept(spent, with) /\ with.columns = spent.columns
  BY <1>5, BothTables, TablesAssumption DEF SourceKept, OthersKept
<1>7. new \in {st, Fault(at), with}
  BY DEF ColumnsInserted, with, spent, at, infos
<1> HIDE DEF new
<1>8. Kept(new) /\ SourceKept(st, new) /\ new.columns = st.columns
  <2>1. CASE new = st
    BY <2>1 DEF SourceKept
  <2>2. CASE new = Fault(at)
    BY <1>2, <1>4, <2>2 DEF SourceKept, SameTables
  <2>3. CASE new = with
    BY <1>2, <1>3, <1>5, <1>6, <2>3 DEF SourceKept, SameTables
  <2> QED
    BY <1>7, <2>1, <2>2, <2>3
<1> QED
  BY <1>8 DEF new

LEMMA RowsInsertedKeeps ==
    ASSUME NEW st, Kept(st), NEW extend, NEW last_counted \in TableObjects
    PROVE  /\ Kept(RowsInserted(st, extend, last_counted))
           /\ ~ shared => SourceKept(st, RowsInserted(st, extend, last_counted))
           /\ RowsInserted(st, extend, last_counted).columns = st.columns
           /\ RowsInserted(st, extend, last_counted).cols = st.cols
<1> DEFINE new == RowsInserted(st, extend, last_counted)
           there == MovedTo(st, Source)
           counted == MovedTo(there, Destination)
           at == MovedTo(counted, last_counted)
           spent == Spend(at)
           t == AtChdu(at, Destination)
           after == Rows(st, Destination)
           count == Rows(st, Source) - Rows(st, Destination)
           with == WithRows(spent, t, after, count)
<1>1. st \in State
  BY DEF Kept
<1>2. Kept(there) /\ there \in State /\ SameTables(st, there)
  BY <1>1, BothTables, MovedToIsKept, MovedToKeeps
<1> HIDE DEF there
<1>3. Kept(counted) /\ counted \in State /\ SameTables(there, counted)
  BY <1>2, BothTables, MovedToIsKept, MovedToKeeps
<1> HIDE DEF counted
<1>4. Kept(at) /\ at \in State /\ SameTables(counted, at)
  BY <1>3, MovedToIsKept, MovedToKeeps
<1> HIDE DEF at
<1>5. SameTables(st, counted) /\ SameTables(st, at)
  BY <1>2, <1>3, <1>4 DEF SameTables
<1>6. Kept(spent) /\ spent \in State /\ SameTables(at, spent)
  BY <1>4, ProgressIsKept, ProgressKeeps
<1>7. Kept(Fault(at)) /\ SameTables(at, Fault(at))
  BY <1>4, ProgressIsKept, ProgressKeeps
<1>8. t \in TableObjects /\ (~ shared => t = Destination)
  <2>1. at.chdu \in TableObjects
    BY <1>4 DEF State
  <2> QED
    BY <2>1, BothTables DEF AtChdu
<1> HIDE DEF spent, t
<1>9. CASE Extends(st, extend)
  <2>1. count \in Nat /\ after \in 0 .. Len(spent.data[t])
    <3>1. /\ Len(st.data[Source]) \in Nat /\ Len(st.data[Destination]) \in Nat
          /\ Len(st.data[Source]) > Len(st.data[Destination])
      BY <1>1, <1>9, BothTables, CellsOf DEF Extends, Rows
    <3>2. t \in {Source, Destination} /\ spent.data = st.data
      BY <1>5, <1>6, <1>8 DEF SameTables, TableObjects
    <3> QED
      BY <3>1, <3>2 DEF Rows
  <2> HIDE DEF after, count
  <2>2. /\ Kept(with) /\ OthersKept(spent, t, with)
        /\ with.cols[t] = spent.cols[t]
    BY <1>6, <1>8, <2>1, WithRowsIsKept, WithRowsTables
  <2> HIDE DEF with
  <2>3. new \in {st, Fault(at), with}
    BY <1>9 DEF RowsInserted, with, spent, t, at, counted, there, after, count
  <2> HIDE DEF new
  <2>4. with.columns = spent.columns /\ (~ shared => SourceKept(spent, with))
    BY <1>8, <2>2, BothTables, TablesAssumption DEF SourceKept, OthersKept
  <2>5. with.cols = spent.cols
    <3>1. with \in State
      BY <2>2 DEF Kept
    <3>2. \A s \in TableObjects : with.cols[s] = spent.cols[s]
      BY <2>2 DEF OthersKept
    <3> QED
      BY <1>6, <3>1, <3>2 DEF State
  <2>6. /\ Kept(new) /\ (~ shared => SourceKept(st, new))
        /\ new.columns = st.columns /\ new.cols = st.cols
    <3>1. CASE new = st
      BY <3>1 DEF SourceKept
    <3>2. CASE new = Fault(at)
      BY <1>5, <1>7, <3>2 DEF SourceKept, SameTables
    <3>3. CASE new = with
      BY <1>5, <1>6, <2>2, <2>4, <2>5, <3>3 DEF SourceKept, SameTables
    <3> QED
      BY <2>3, <3>1, <3>2, <3>3
  <2> QED
    BY <2>6 DEF new
<1>10. CASE ~ Extends(st, extend)
  <2>1. new \in {st, counted}
    BY <1>10 DEF RowsInserted, counted, there
  <2> HIDE DEF new
  <2>2. /\ Kept(new) /\ SourceKept(st, new)
        /\ new.columns = st.columns /\ new.cols = st.cols
    BY <1>3, <1>5, <2>1 DEF SourceKept, SameTables
  <2> QED
    BY <2>2 DEF new
<1> QED
  BY <1>9, <1>10

LEMMA RefreshedKeeps ==
    ASSUME NEW st, Kept(st)
    PROVE  /\ Kept(Refreshed(st))
           /\ Refreshed(st).cols = st.cols /\ Refreshed(st).data = st.data
           /\ Refreshed(st).columns[Source] = st.columns[Source]
           /\ Refreshed(st).ok = st.ok /\ Refreshed(st).fault = st.fault
           /\ st.ok => Refreshed(st).columns[Destination] = Descriptions(st.cols[Destination])
<1> DEFINE at == MovedTo(st, Destination)
           infos == Descriptions(st.cols[Destination])
           new == [at EXCEPT !.columns[Destination] = infos]
<1>1. st \in State /\ st.cols[Destination] \in Seq(Column)
  BY BothTables, ColumnsOf DEF Kept
<1>2. Kept(at) /\ at \in State /\ SameTables(st, at) /\ SameProgress(st, at)
  BY <1>1, BothTables, MovedToIsKept, MovedToKeeps
<1>3. infos \in Seq(Info) /\ Numbered(infos)
  BY <1>1, DescriptionsAreInfos
<1> HIDE DEF infos, at
<1>4. /\ new \in State /\ new.cols = at.cols /\ new.data = at.data /\ new.naxis2 = at.naxis2
      /\ new.ok = at.ok /\ new.fault = at.fault
      /\ new.columns = [at.columns EXCEPT ![Destination] = infos]
  BY <1>2, <1>3, BothTables DEF State
<1> HIDE DEF new
<1>5. /\ new.columns[Destination] = infos
      /\ \A t \in TableObjects : t # Destination => new.columns[t] = at.columns[t]
  BY <1>2, <1>4, BothTables DEF State
<1>6. Kept(new)
  BY <1>2, <1>3, <1>4, <1>5 DEF Kept
<1>7. Refreshed(st) = IF ~ st.ok THEN st ELSE new
  BY DEF Refreshed, new, at, infos
<1>8. /\ new.cols = st.cols /\ new.data = st.data /\ new.ok = st.ok /\ new.fault = st.fault
      /\ new.columns[Source] = st.columns[Source]
  BY <1>2, <1>4, <1>5, BothTables, TablesAssumption DEF SameTables, SameProgress
<1> QED
  BY <1>5, <1>6, <1>7, <1>8 DEF infos

LEMMA CellsCopiedKeeps ==
    ASSUME NEW st, Kept(st), NEW info \in Info
    PROVE  /\ Kept(CellsCopied(st, info))
           /\ CellsCopied(st, info).cols = st.cols
           /\ CellsCopied(st, info).data[Source] = st.data[Source]
           /\ CellsCopied(st, info).columns = st.columns
           /\ ~ st.ok => CellsCopied(st, info) = st
<1> DEFINE new == CellsCopied(st, info)
           at == MovedTo(st, Destination)
           from == AtChdu(at, Source)
           spent == Spend(at)
           m == info.colnum
           n == Colinfo(st, Destination, info.ttype).colnum
           cells == CellsWritten(spent, from, m, Destination, n)
           with == WithCells(spent, from, m, Destination, n)
<1>1. st \in State
  BY DEF Kept
<1>2. Kept(at) /\ at \in State /\ SameTables(st, at)
  BY <1>1, BothTables, MovedToIsKept, MovedToKeeps
<1>3. from \in TableObjects
  BY <1>2, BothTables DEF AtChdu, State
<1> HIDE DEF at, from
<1>4. Kept(spent) /\ spent \in State /\ SameTables(at, spent)
  BY <1>2, ProgressIsKept, ProgressKeeps
<1>5. Kept(Fault(at)) /\ SameTables(at, Fault(at))
  BY <1>2, ProgressIsKept, ProgressKeeps
<1>6. Kept(Throw(at)) /\ SameTables(at, Throw(at))
  BY <1>2, ProgressIsKept, ProgressKeeps
<1> HIDE DEF spent
<1>7. CASE ~ st.ok
  BY <1>7 DEF CellsCopied
<1>8. CASE st.ok /\ (~ Known(st, Destination, info.ttype) \/ m \notin DOMAIN st.cols[from])
  <2>1. new = Throw(at)
    BY <1>8 DEF CellsCopied, at, from
  <2> QED
    BY <1>2, <1>6, <1>8, <2>1 DEF SameTables
<1>9. CASE st.ok /\ Known(st, Destination, info.ttype) /\ m \in DOMAIN st.cols[from]
  <2>1. m \in 1 .. Len(spent.cols[from])
    BY <1>1, <1>2, <1>3, <1>4, <1>9, ColumnsOf DEF SameTables
  <2>2. n \in 1 .. Len(st.cols[Destination])
    BY <1>9, BothTables, KnownColumn
  <2> HIDE DEF n, m
  <2>3. n \in 1 .. Len(spent.cols[Destination])
    BY <1>2, <1>4, <2>2 DEF SameTables
  <2>4. Kept(with)
    BY <1>3, <1>4, <2>1, <2>3, BothTables, WithCellsIsKept
  <2>5. cells \in Seq(Seq(AnyCell))
    BY <1>3, <1>4, <2>1, <2>3, BothTables, CellsWrittenAreCells
  <2>6. with.cols = spent.cols /\ with.columns = spent.columns
        /\ with.data[Source] = spent.data[Source]
    <3> HIDE DEF cells, with
    <3>1. /\ with.cols = spent.cols /\ with.columns = spent.columns
          /\ with.data = [spent.data EXCEPT ![Destination] = cells]
      BY <1>3, <1>4, <2>5, BothTables, WithCellsKeeps DEF cells, with
    <3> QED
      BY <1>4, <3>1, BothTables, TablesAssumption DEF State
  <2>7. new \in {Fault(at), with}
    BY <1>9 DEF CellsCopied, with, spent, at, from, m, n
  <2> HIDE DEF new, with
  <2>8. CASE new = Fault(at)
    BY <1>2, <1>5, <1>9, <2>8 DEF SameTables, new
  <2>9. CASE new = with
    <3>1. /\ Kept(new) /\ new.cols = st.cols /\ new.data[Source] = st.data[Source]
          /\ new.columns = st.columns
      BY <1>2, <1>4, <2>4, <2>6, <2>9 DEF SameTables
    <3> QED
      BY <1>9, <3>1 DEF new
  <2> QED
    BY <2>7, <2>8, <2>9
<1> QED
  BY <1>7, <1>8, <1>9

CellsCopying(ctx, st, info) == CellsCopied(st, info)

CopyingCells == INSTANCE FoldTheory WITH Op <- CellsCopying

LEMMA CellsCopiedIsFold ==
    ASSUME NEW st, NEW infos
    PROVE  FoldLeft(CellsCopied, st, infos) = CopyingCells!Fold({}, st, infos)
BY DEF CellsCopying, CopyingCells!Fold, CopyingCells!FoldLeft, FoldLeft,
       CopyingCells!MapThenFoldSet, MapThenFoldSet, CopyingCells!Max, Max

\* What holds of a copy on the way from its last change of a column to its end.
LEMMA AllCellsCopiedKeeps ==
    ASSUME NEW st, Kept(st), NEW infos \in Seq(Info)
    PROVE  LET new == FoldLeft(CellsCopied, st, infos)
           IN  /\ Kept(new) /\ new.cols = st.cols /\ new.columns = st.columns
               /\ new.data[Source] = st.data[Source]
               /\ ~ st.ok => new = st
<1> DEFINE I == {s \in State : /\ Kept(s) /\ s.cols = st.cols /\ s.columns = st.columns
                               /\ s.data[Source] = st.data[Source]
                               /\ ~ st.ok => s = st}
<1>1. st \in I
  BY DEF Kept
<1>2. ASSUME NEW k \in 1 .. Len(infos), NEW s \in I
      PROVE  CellsCopying({}, s, infos[k]) \in I
  <2> DEFINE new == CellsCopied(s, infos[k])
  <2>1. infos[k] \in Info
    BY ElementOfSeq
  <2>2. /\ Kept(new) /\ new.cols = s.cols /\ new.data[Source] = s.data[Source]
        /\ new.columns = s.columns /\ (~ s.ok => new = s)
    BY <2>1, CellsCopiedKeeps
  <2> HIDE DEF new
  <2>3. new \in I
    BY <2>2 DEF Kept
  <2> QED
    BY <2>3 DEF CellsCopying, new
<1> HIDE DEF I
<1>3. CopyingCells!Fold({}, st, infos) \in I
  BY <1>1, <1>2, CopyingCells!FoldInvariant
<1>4. FoldLeft(CellsCopied, st, infos) \in I
  BY <1>3, CellsCopiedIsFold
<1> QED
  BY <1>4 DEF I

LEMMA CopiedKeeps ==
    ASSUME NEW st, Kept(st), NEW names \in Seq(Names), NEW how, NEW last_counted \in TableObjects
    PROVE  LET new == Copied(st, names, how, last_counted)
           IN  /\ Kept(new)
               /\ ~ shared => SourceKept(st, new)
               /\ new.cols[Source] = st.cols[Source]
               /\ new.ok => new.columns[Destination] = Descriptions(new.cols[Destination])
<1> DEFINE there == MovedTo(st, Source)
           first == MovedTo(there, Destination)
           asked == Asked(first, names, how.mode)
           inserted == ColumnsInserted(asked)
           extended == RowsInserted(inserted, how.extend, last_counted)
           refreshed == Refreshed(extended)
           infos == asked.source_info
           new == FoldLeft(CellsCopied, refreshed, infos)
<1>1. st \in State
  BY DEF Kept
<1>2. Kept(there) /\ there \in State /\ SameTables(st, there)
  BY <1>1, BothTables, MovedToIsKept, MovedToKeeps
<1> HIDE DEF there
<1>3. Kept(first) /\ SameTables(there, first)
  BY <1>2, BothTables, MovedToIsKept, MovedToKeeps
<1> HIDE DEF first
<1>4. Kept(asked) /\ SourceKept(first, asked)
  BY <1>3, AskedKeeps
<1>5. infos \in Seq(Info)
  BY <1>4 DEF Kept, State
<1> HIDE DEF asked, infos
<1>6. Kept(inserted) /\ SourceKept(asked, inserted)
  BY <1>4, ColumnsInsertedKeeps
<1> HIDE DEF inserted
<1>7. /\ Kept(extended) /\ (~ shared => SourceKept(inserted, extended))
      /\ extended.cols = inserted.cols
  BY <1>6, RowsInsertedKeeps
<1> HIDE DEF extended
<1>8. /\ Kept(refreshed) /\ refreshed.cols = extended.cols /\ refreshed.data = extended.data
      /\ refreshed.ok = extended.ok
      /\ extended.ok => refreshed.columns[Destination] = Descriptions(extended.cols[Destination])
  BY <1>7, RefreshedKeeps
<1> HIDE DEF refreshed
<1>9. /\ Kept(new) /\ new.cols = refreshed.cols /\ new.columns = refreshed.columns
      /\ new.data[Source] = refreshed.data[Source]
      /\ ~ refreshed.ok => new = refreshed
  BY <1>5, <1>8, AllCellsCopiedKeeps
<1>10. Copied(st, names, how, last_counted) = new
  BY DEF Copied, new, infos, refreshed, extended, inserted, asked, first, there
<1> HIDE DEF new
<1>11. ~ shared => SourceKept(st, new)
  BY <1>2, <1>3, <1>4, <1>6, <1>7, <1>8, <1>9 DEF SourceKept, SameTables
<1>12. new.ok => new.columns[Destination] = Descriptions(new.cols[Destination])
  BY <1>8, <1>9
<1>13. new.cols[Source] = st.cols[Source]
  BY <1>2, <1>3, <1>4, <1>6, <1>7, <1>8, <1>9 DEF SourceKept, SameTables
<1> QED
  BY <1>9, <1>10, <1>11, <1>12, <1>13

-----------------------------------------------------------------------------
(***************************************************************************)
(* The tables between the client's calls                                   *)
(***************************************************************************)
Inv == shared \in BOOLEAN /\ Kept(Now)

LEMMA BeforeIsKept ==
    ASSUME Kept(Now), NEW calls \in Int
    PROVE  Kept(Before(calls))
<1>1. Now \in State /\ Unlimited \in Int
  BY DEF Kept, Unlimited
<1>2. Before(calls) \in State /\ SameTables(Now, Before(calls)) /\ Before(calls).naxis2 = Now.naxis2
  BY <1>1 DEF Before, Now, State, SameTables
<1> QED
  BY <1>2 DEF Kept, SameTables

LEMMA BecomeIsKept ==
    ASSUME NEW st, Kept(st), Become(st)
    PROVE  Kept(Now)'
<1> DEFINE new == [chdu |-> st.chdu, cols |-> st.cols, data |-> st.data, naxis2 |-> st.naxis2,
                   columns |-> st.columns, ok |-> TRUE, fault |-> FALSE, calls |-> Unlimited,
                   source_info |-> <<>>, insert |-> <<>>]
<1>1. st \in State
  BY DEF Kept
<1>2. <<>> \in Seq(Info) /\ Unlimited \in Int
  BY EmptySeq DEF Unlimited
<1>3. new \in State /\ SameTables(st, new) /\ new.naxis2 = st.naxis2
  BY <1>1, <1>2 DEF State, SameTables
<1>4. Kept(new)
  <2> HIDE DEF new
  <2> QED
    BY <1>3 DEF Kept, SameTables
<1>5. Now' = new
  BY DEF Become, Now, Before, Unlimited
<1> QED
  BY <1>4, <1>5 DEF Kept

LEMMA InvImpliesTypeOK ==
    ASSUME Inv
    PROVE  TypeOK
<1>1. Now \in State /\ Now.cols = cols /\ Now.data = data /\ Now.naxis2 = naxis2
      /\ Now.columns = columns /\ Now.chdu = chdu
  BY DEF Inv, Kept, Now, Before
<1>2. ASSUME NEW t \in TableObjects
      PROVE  /\ cols[t] \in Seq(Column)
             /\ \A i \in DOMAIN data[t] : DOMAIN data[t][i] = DOMAIN cols[t]
             /\ naxis2[t] \in 0 .. Len(data[t])
             /\ \A n \in DOMAIN columns[t] : columns[t][n].colnum = n
  <2>1. Rectangular(cols[t], data[t]) /\ naxis2[t] <= Len(data[t]) /\ Numbered(columns[t])
    BY <1>1 DEF Inv, Kept
  <2>2. /\ cols[t] \in Seq(Column) /\ DOMAIN cols[t] = 1 .. Len(cols[t])
        /\ DOMAIN columns[t] = 1 .. Len(columns[t])
    BY <1>1, ColumnsOf
  <2>3. /\ DOMAIN data[t] = 1 .. Len(data[t]) /\ Len(data[t]) \in Nat
        /\ \A i \in 1 .. Len(data[t]) : DOMAIN data[t][i] = 1 .. Len(data[t][i])
    BY <1>1, CellsOf
  <2>4. naxis2[t] \in Nat
    BY <1>1 DEF State
  <2>5. \A i \in DOMAIN data[t] : DOMAIN data[t][i] = DOMAIN cols[t]
    BY <2>1, <2>2, <2>3 DEF Rectangular
  <2>6. \A n \in DOMAIN columns[t] : columns[t][n].colnum = n
    BY <2>1, <2>2 DEF Numbered
  <2> QED
    BY <2>1, <2>2, <2>3, <2>4, <2>5, <2>6
<1>3. chdu \in TableObjects
  BY <1>1 DEF State
<1> QED
  BY <1>2, <1>3 DEF Inv, TypeOK

LEMMA InitInv == Init => Inv
<1> SUFFICES ASSUME Init PROVE Inv
  OBVIOUS
<1>1. shared \in BOOLEAN
  BY SharingAssumption DEF Init
<1>2. chdu \in TableObjects
  BY DEF Init
<1>3. cols \in [TableObjects -> Seq(Column)]
  <2>1. \A t \in TableObjects : cols[t] \in InitialColumns[t]
    BY DEF Init
  <2>2. \A t \in TableObjects : cols[t] \in Seq(Column)
    BY <2>1, InitialColumnsAssumption
  <2>3. cols \in [TableObjects -> UNION {InitialColumns[t] : t \in TableObjects}]
    BY DEF Init
  <2> QED
    BY <2>2, <2>3
<1>4. data \in [TableObjects -> Seq(Seq(AnyCell))] /\ \A t \in TableObjects : data[t] = <<>>
  <2>1. <<>> \in Seq(Seq(AnyCell))
    BY EmptySeq
  <2> QED
    BY <2>1 DEF Init
<1>5. naxis2 \in [TableObjects -> Nat] /\ \A t \in TableObjects : naxis2[t] = 0
  BY DEF Init
<1>6. columns \in [TableObjects -> Seq(Info)] /\ \A t \in TableObjects : Numbered(columns[t])
  <2>1. PICK described \in 0 .. 1 :
            columns = [t \in TableObjects |->
                IF t = Source /\ Len(cols[t]) > 1
                THEN SubSeq(Descriptions(cols[t]), 1, Len(cols[t]) - described)
                ELSE Descriptions(cols[t])]
    BY DEF Init
  <2>2. ASSUME NEW t \in TableObjects
        PROVE  columns[t] \in Seq(Info) /\ Numbered(columns[t])
    <3> DEFINE infos == Descriptions(cols[t])
               n == Len(cols[t])
               some == SubSeq(infos, 1, n - described)
    <3>1. cols[t] \in Seq(Column) /\ n \in Nat
      BY <1>3, LenProperties
    <3>2. infos \in Seq(Info) /\ Len(infos) = n /\ Numbered(infos)
      BY <3>1, DescriptionsAreInfos
    <3>3. columns[t] = IF t = Source /\ n > 1 THEN some ELSE infos
      BY <2>1
    <3> HIDE DEF infos, n
    <3>4. CASE n > 1
      <4> DEFINE m == n - described
      <4>1. 1 \in 1 .. n + 1 /\ m \in 1 - 1 .. n /\ m \in Nat
        BY <3>1, <3>4
      <4> HIDE DEF m
      <4>2. some \in Seq(Info) /\ Len(some) = m /\ \A i \in 1 .. m : some[i] = infos[i]
        BY <3>1, <3>2, <4>1, SubSeqProperties DEF m
      <4>3. Numbered(some)
        BY <3>1, <3>2, <4>1, <4>2 DEF Numbered
      <4> QED
        BY <3>2, <3>3, <4>2, <4>3
    <3>5. CASE ~ (n > 1)
      BY <3>2, <3>3, <3>5
    <3> QED
      BY <3>4, <3>5
  <2>3. columns = [t \in TableObjects |-> columns[t]]
    BY <2>1
  <2> QED
    BY <2>2, <2>3
<1>7. Now \in State
  <2>1. <<>> \in Seq(Info) /\ Unlimited \in Int
    BY EmptySeq DEF Unlimited
  <2> QED
    BY <1>2, <1>3, <1>4, <1>5, <1>6, <2>1 DEF Now, Before, State
<1>8. Kept(Now)
  <2>1. /\ Now.cols = cols /\ Now.data = data /\ Now.naxis2 = naxis2 /\ Now.columns = columns
    BY DEF Now, Before
  <2>2. Len(<<>>) = 0
    OBVIOUS
  <2> QED
    BY <1>4, <1>5, <1>6, <1>7, <2>1, <2>2 DEF Kept, Rectangular
<1> QED
  BY <1>1, <1>8 DEF Inv

\* A call of copy_columns is a copy which begins with the tables as they are.
LEMMA CopySteps ==
    ASSUME Inv, NEW names \in Seq(Names), NEW how, Copy(names, how)
    PROVE  \E calls \in Int, last_counted \in TableObjects :
            LET st == Copied(Before(calls), names, how, last_counted)
            IN  /\ Kept(Before(calls))
                /\ Become(IF names = <<>> THEN Now ELSE st)
                /\ last' = [op |-> "copy", names |-> names, how |-> how,
                            ok |-> st.ok \/ names = <<>>, fault |-> st.fault]
<1>1. PICK last_counted \in IF shared THEN CountedLast ELSE {Destination},
           calls \in {Unlimited} \cup FailAfter :
            LET st == Copied(Before(calls), names, how, last_counted)
            IN  /\ Become(IF names = <<>> THEN Now ELSE st)
                /\ last' = [op |-> "copy", names |-> names, how |-> how,
                            ok |-> st.ok \/ names = <<>>, fault |-> st.fault]
  BY DEF Copy
<1>2. calls \in Int /\ last_counted \in TableObjects
  BY FailAfterAssumption, CountedAssumption, BothTables DEF Unlimited
<1>3. Kept(Before(calls))
  BY <1>2, BeforeIsKept DEF Inv
<1> QED
  BY <1>1, <1>2, <1>3

LEMMA CopyKeepsInv ==
    ASSUME Inv, NEW names \in Seq(Names), NEW how, Copy(names, how)
    PROVE  Inv'
<1>1. PICK calls \in Int, last_counted \in TableObjects :
            LET st == Copied(Before(calls), names, how, last_counted)
            IN  /\ Kept(Before(calls))
                /\ Become(IF names = <<>> THEN Now ELSE st)
                /\ last' = [op |-> "copy", names |-> names, how |-> how,
                            ok |-> st.ok \/ names = <<>>, fault |-> st.fault]
  BY CopySteps
<1> DEFINE st == Copied(Before(calls), names, how, last_counted)
           to == IF names = <<>> THEN Now ELSE st
<1>2. Kept(st)
  BY <1>1, CopiedKeeps
<1>3. Become(to)
  BY <1>1
<1> HIDE DEF st
<1>4. Kept(to)
  BY <1>2 DEF Inv
<1> HIDE DEF to
<1>5. Kept(Now)'
  BY <1>3, <1>4, BecomeIsKept
<1>6. shared' = shared
  BY <1>3 DEF Become
<1> QED
  BY <1>5, <1>6 DEF Inv

\* Of the names of its description copy_columns takes as many as there are columns.
LEMMA DescribedNames ==
    ASSUME Inv, Len(columns[Source]) >= Len(cols[Source])
    PROVE  [n \in DOMAIN cols[Source] |-> columns[Source][n].ttype] \in Seq(Names)
<1> DEFINE names == [n \in DOMAIN cols[Source] |-> columns[Source][n].ttype]
<1>1. Now \in State /\ Now.cols = cols /\ Now.columns = columns
  BY DEF Inv, Kept, Now, Before
<1>2. /\ Len(cols[Source]) \in Nat /\ DOMAIN cols[Source] = 1 .. Len(cols[Source])
      /\ Len(columns[Source]) \in Nat
      /\ \A n \in 1 .. Len(columns[Source]) : columns[Source][n] \in Info
  BY <1>1, BothTables, ColumnsOf
<1>3. \A n \in 1 .. Len(cols[Source]) : columns[Source][n].ttype \in Names
  BY <1>2 DEF Info
<1>4. names \in [1 .. Len(cols[Source]) -> Names]
  BY <1>2, <1>3
<1> HIDE DEF names
<1>5. names \in Seq(Names)
  BY <1>2, <1>4, FunctionIsSeq
<1> QED
  BY <1>5 DEF names

LEMMA WriteRowKeepsInv ==
    ASSUME Inv, NEW t \in TableObjects, WriteRow(t)
    PROVE  Inv'
<1> DEFINE at == MovedTo(Now, t)
           i == Rows(at, t) + 1
           row == [n \in DOMAIN cols[t] |-> <<t, cols[t][n].name, i>>]
           cells == Append(at.data[t], row)
           new == [at EXCEPT !.data[t] = cells]
<1>1. Now \in State /\ Now.cols = cols
  BY DEF Inv, Kept, Now, Before
<1>2. Kept(at) /\ at \in State /\ SameTables(Now, at)
  BY <1>1, MovedToIsKept, MovedToKeeps DEF Inv
<1>3. Become(new)
  BY DEF WriteRow
<1> HIDE DEF at
<1>4. at.data[t] \in Seq(Seq(AnyCell)) /\ Len(at.data[t]) \in Nat /\ i \in Nat
  BY <1>2, CellsOf DEF Rows
<1> HIDE DEF i
<1>5. row \in Seq(AnyCell) /\ Len(row) = Len(cols[t])
  <2>1. /\ Len(cols[t]) \in Nat /\ DOMAIN cols[t] = 1 .. Len(cols[t])
        /\ \A n \in 1 .. Len(cols[t]) : cols[t][n] \in Column
    BY <1>1, ColumnsOf
  <2>2. \A n \in 1 .. Len(cols[t]) : cols[t][n].name \in Names
    BY <2>1 DEF Column
  <2>3. \A n \in 1 .. Len(cols[t]) : <<t, cols[t][n].name, i>> \in AnyCell
    BY <1>4, <2>2 DEF AnyCell
  <2>4. row \in [1 .. Len(cols[t]) -> AnyCell]
    BY <2>1, <2>3
  <2> HIDE DEF row
  <2> QED
    BY <2>1, <2>4, FunctionIsSeq
<1> HIDE DEF row
<1>6. /\ cells \in Seq(Seq(AnyCell)) /\ Len(cells) = Len(at.data[t]) + 1
      /\ \A k \in 1 .. Len(at.data[t]) : cells[k] = at.data[t][k]
      /\ cells[Len(at.data[t]) + 1] = row
  BY <1>4, <1>5, AppendProperties
<1> HIDE DEF cells
<1>7. Rectangular(at.cols[t], cells)
  <2>1. Rectangular(at.cols[t], at.data[t]) /\ at.cols[t] = cols[t]
    BY <1>1, <1>2 DEF Kept, SameTables
  <2>2. ASSUME NEW k \in 1 .. Len(cells)
        PROVE  Len(cells[k]) = Len(at.cols[t])
    <3>1. CASE k \in 1 .. Len(at.data[t])
      <4>1. cells[k] = at.data[t][k] /\ Len(at.data[t][k]) = Len(at.cols[t])
        BY <1>6, <2>1, <3>1 DEF Rectangular
      <4> QED
        BY <4>1
    <3>2. CASE k = Len(at.data[t]) + 1
      BY <1>5, <1>6, <2>1, <3>2
    <3>3. k \in 1 .. Len(at.data[t]) \/ k = Len(at.data[t]) + 1
      <4> DEFINE N == Len(at.data[t])
      <4>1. N \in Nat /\ k \in 1 .. N + 1
        BY <1>4, <1>6
      <4> HIDE DEF N
      <4>2. k \in 1 .. N \/ k = N + 1
        BY <4>1
      <4> QED
        BY <4>2 DEF N
    <3> QED
      BY <3>1, <3>2, <3>3
  <2> QED
    BY <2>2 DEF Rectangular
<1>8. /\ new \in State /\ new.cols = at.cols /\ new.columns = at.columns
      /\ new.naxis2 = at.naxis2 /\ new.data = [at.data EXCEPT ![t] = cells]
  BY <1>2, <1>6 DEF State
<1> HIDE DEF new
<1>9. \A s \in TableObjects : new.data[s] = IF s = t THEN cells ELSE at.data[s]
  BY <1>2, <1>8 DEF State
<1>10. at.naxis2[t] \in Nat /\ at.naxis2[t] <= Len(at.data[t])
  BY <1>2 DEF Kept, State
<1>11. Kept(new)
  BY <1>2, <1>4, <1>6, <1>7, <1>8, <1>9, <1>10 DEF Kept
<1>12. Kept(Now)' /\ shared' = shared
  BY <1>3, <1>11, BecomeIsKept DEF Become
<1> QED
  BY <1>12 DEF Inv

LEMMA FlushKeepsInv ==
    ASSUME Inv, NEW t \in TableObjects, Flush(t)
    PROVE  Inv'
<1>1. AtChdu(Now, t) \in TableObjects
  BY DEF AtChdu, Inv, Kept, State
<1>2. Kept(Flushed(Now, t))
  BY <1>1, SyncedIsKept DEF Flushed, Inv
<1>3. Become(Flushed(Now, t))
  BY DEF Flush
<1> QED
  BY <1>2, <1>3, BecomeIsKept DEF Inv, Become

LEMMA QueryKeepsInv ==
    ASSUME Inv, NEW t \in TableObjects, Query(t)
    PROVE  Inv'
<1>1. Kept(MovedTo(Now, t)) /\ Become(MovedTo(Now, t))
  BY MovedToIsKept DEF Query, Inv
<1> QED
  BY <1>1, BecomeIsKept DEF Inv, Become

LEMMA DeleteKeepsInv ==
    ASSUME Inv, NEW t \in TableObjects, NEW name \in Names, DeleteColumnByName(t, name)
    PROVE  Inv'
<1> DEFINE at == MovedTo(Now, t)
           n == Colinfo(Now, t, name).colnum
<1>1. Now \in State /\ Kept(Now) /\ Known(Now, t, name) /\ Become(WithoutColumn(at, t, n))
  BY DEF Inv, Kept, DeleteColumnByName
<1>2. Kept(at) /\ SameTables(Now, at)
  BY <1>1, MovedToIsKept, MovedToKeeps
<1>3. n \in 1 .. Len(Now.cols[t])
  BY <1>1, KnownColumn
<1> HIDE DEF at, n
<1>4. n \in 1 .. Len(at.cols[t])
  BY <1>2, <1>3 DEF SameTables
<1>5. Kept(WithoutColumn(at, t, n))
  BY <1>2, <1>4, WithoutColumnIsKept
<1> QED
  BY <1>1, <1>5, BecomeIsKept DEF Inv, Become

LEMMA CopyAllIsCopy ==
    ASSUME Inv, NEW how, CopyAll(how)
    PROVE  \/ \E names \in Seq(Names) : Copy(names, how)
           \/ Become(MovedTo(Now, Source)) /\ last' = OtherCall
<1>1. CASE /\ Len(columns[Source]) >= Len(cols[Source])
           /\ Copy([n \in DOMAIN cols[Source] |-> columns[Source][n].ttype], how)
  BY <1>1, DescribedNames
<1>2. CASE Become(MovedTo(Now, Source)) /\ last' = OtherCall
  BY <1>2
<1> QED
  BY <1>1, <1>2 DEF CopyAll

LEMMA NextInv ==
    ASSUME Inv, [Next]_vars
    PROVE  Inv'
<1>1. ASSUME NEW t \in TableObjects, WriteRow(t)
      PROVE  Inv'
  BY <1>1, WriteRowKeepsInv
<1>2. ASSUME NEW t \in TableObjects, Flush(t)
      PROVE  Inv'
  BY <1>2, FlushKeepsInv
<1>3. ASSUME NEW t \in TableObjects, Query(t)
      PROVE  Inv'
  BY <1>3, QueryKeepsInv
<1>4. ASSUME NEW t \in TableObjects, NEW name \in Names, DeleteColumnByName(t, name)
      PROVE  Inv'
  BY <1>4, DeleteKeepsInv
<1>5. ASSUME NEW how \in Hows, NEW names \in NameLists, Copy(names, how)
      PROVE  Inv'
  BY <1>5, CopyKeepsInv, NameListsAssumption
<1>6. ASSUME NEW how \in Hows, CopyAll(how)
      PROVE  Inv'
  <2>1. CASE \E names \in Seq(Names) : Copy(names, how)
    BY <2>1, CopyKeepsInv
  <2>2. CASE Become(MovedTo(Now, Source))
    <3>1. Kept(MovedTo(Now, Source))
      BY BothTables, MovedToIsKept DEF Inv
    <3> QED
      BY <2>2, <3>1, BecomeIsKept DEF Inv, Become
  <2> QED
    BY <1>6, <2>1, <2>2, CopyAllIsCopy
<1>7. CASE UNCHANGED vars
  BY <1>7 DEF vars, Inv, Now, Before
<1> QED
  BY <1>1, <1>2, <1>3, <1>4, <1>5, <1>6, <1>7 DEF Next

LEMMA InvHolds == Spec => []Inv
<1>1. Inv /\ [Next]_vars => Inv'
  BY NextInv
<1> QED
  BY <1>1, InitInv, PTL DEF Spec

\* However copies and deletions go, with whatever CFITSIO refuses in the middle, the
\* rows of a table are as long as it has columns, its NAXIS2 counts no row it
\* does not have, and its description numbers its columns in order.
THEOREM TypeCorrect == Spec => []TypeOK
BY InvHolds, InvImpliesTypeOK, PTL

\* A step which leaves a copy behind is a call of copy_columns.
LEMMA CopyingIsCopy ==
    ASSUME Inv, Next, Copying
    PROVE  \E names \in Seq(Names), how \in Hows : Copy(names, how)
<1>1. last' # OtherCall
  BY DEF Copying, OtherCall
<1>2. PICK how \in Hows : (\E names \in NameLists : Copy(names, how)) \/ CopyAll(how)
  BY <1>1 DEF Next, WriteRow, Flush, Query, DeleteColumnByName
<1>3. CASE \E names \in NameLists : Copy(names, how)
  BY <1>3, NameListsAssumption
<1>4. CASE CopyAll(how)
  BY <1>1, <1>4, CopyAllIsCopy
<1> QED
  BY <1>2, <1>3, <1>4

LEMMA SourceStandsStep ==
    ASSUME Inv, Next, Copying, ~ shared
    PROVE  cols'[Source] = cols[Source] /\ data'[Source] = data[Source]
<1>1. PICK names \in Seq(Names), how \in Hows : Copy(names, how)
  BY CopyingIsCopy
<1>2. PICK calls \in Int, last_counted \in TableObjects :
            LET st == Copied(Before(calls), names, how, last_counted)
            IN  /\ Kept(Before(calls))
                /\ Become(IF names = <<>> THEN Now ELSE st)
                /\ last' = [op |-> "copy", names |-> names, how |-> how,
                            ok |-> st.ok \/ names = <<>>, fault |-> st.fault]
  BY <1>1, CopySteps
<1> DEFINE before == Before(calls)
           st == Copied(before, names, how, last_counted)
<1>3. before.cols = cols /\ before.data = data /\ Now.cols = cols /\ Now.data = data
  BY DEF Now, Before
<1> HIDE DEF before
<1>4. SourceKept(before, st)
  BY <1>2, CopiedKeeps DEF before
<1>5. Become(IF names = <<>> THEN Now ELSE st)
  BY <1>2 DEF before
<1> HIDE DEF st
<1> QED
  BY <1>3, <1>4, <1>5 DEF SourceKept, Become

\* However it ends, a copy to another file changes no column and no cell of its source.
THEOREM SourceUntouched == Spec => SourceStands
<1>1. Inv /\ [Next]_vars
        => [Copying /\ ~ shared => cols'[Source] = cols[Source] /\ data'[Source] = data[Source]]_vars
  BY SourceStandsStep
<1> QED
  BY <1>1, InvHolds, PTL DEF Spec, SourceStands

LEMMA DescribedStep ==
    ASSUME Inv, Next, Copying, last'.ok, last'.names # <<>>
    PROVE  Described(Destination)'
<1>1. PICK names \in Seq(Names), how \in Hows : Copy(names, how)
  BY CopyingIsCopy
<1>2. PICK calls \in Int, last_counted \in TableObjects :
            LET st == Copied(Before(calls), names, how, last_counted)
            IN  /\ Kept(Before(calls))
                /\ Become(IF names = <<>> THEN Now ELSE st)
                /\ last' = [op |-> "copy", names |-> names, how |-> how,
                            ok |-> st.ok \/ names = <<>>, fault |-> st.fault]
  BY <1>1, CopySteps
<1> DEFINE st == Copied(Before(calls), names, how, last_counted)
<1>3. st.ok => st.columns[Destination] = Descriptions(st.cols[Destination])
  BY <1>2, CopiedKeeps
<1>4. /\ Become(IF names = <<>> THEN Now ELSE st)
      /\ last'.names = names /\ last'.ok = (st.ok \/ names = <<>>)
  BY <1>2
<1> HIDE DEF st
<1>5. Become(st) /\ st.ok
  BY <1>4
<1> QED
  BY <1>3, <1>5 DEF Become, Described

\* A copy which returns has described the destination as the file has it, whichever table
\* was at the CHDU and whatever was known of it before.
THEOREM CopyDescribes == Spec => DescribedAfterCopy
<1>1. Inv /\ [Next]_vars
        => [Copying /\ last'.ok /\ last'.names # <<>> => Described(Destination)']_vars
  BY DescribedStep
<1> QED
  BY <1>1, InvHolds, PTL DEF Spec, DescribedAfterCopy

-----------------------------------------------------------------------------
(***************************************************************************)
(* What has been asked for when the requests are through                   *)
(***************************************************************************)
AllCounted(st) == \A t \in TableObjects : st.naxis2[t] = Len(st.data[t])

\* A request which is met notes what the source has, and has it inserted unless
\* there is a column to overwrite; only a replacement changes a table.
Answered(st, name, mode, new) ==
    LET info == Colinfo(st, Source, name)
        there == Found(st.cols[Destination], name)
    IN  /\ new.ok =>
            /\ Known(st, Source, name)
            /\ new.source_info = Append(st.source_info, info)
            /\ \/ new.insert = Append(st.insert, info) /\ (mode # "Replace" => ~ there)
               \/ new.insert = st.insert /\ mode = "OverWrite" /\ there
        /\ mode # "Replace" => SameTables(st, new) /\ new.fault = st.fault
        /\ AllCounted(st) => AllCounted(new)

LEMMA MovedToCounts ==
    ASSUME NEW st \in State, NEW t \in TableObjects, AllCounted(st)
    PROVE  AllCounted(MovedTo(st, t))
BY MovedToKeeps DEF AllCounted, SameTables

LEMMA WithoutColumnCounts ==
    ASSUME NEW st, Kept(st), NEW t \in TableObjects, NEW n \in 1 .. Len(st.cols[t]), AllCounted(st)
    PROVE  AllCounted(WithoutColumn(st, t, n))
<1> DEFINE new == WithoutColumn(st, t, n)
<1>1. /\ new.data[t] = CellsWithout(st.data[t], n) /\ new.naxis2[t] = Len(st.data[t])
      /\ OthersKept(st, t, new)
  BY WithoutColumnTables
<1>2. Len(CellsWithout(st.data[t], n)) = Len(st.data[t])
  BY DeletedAreCells DEF CellsWithout
<1> HIDE DEF new
<1>3. AllCounted(new)
  BY <1>1, <1>2 DEF AllCounted, OthersKept
<1> QED
  BY <1>3 DEF new

LEMMA DeletedByNameAnswers ==
    ASSUME NEW st, Kept(st), NEW name \in Names, NEW info \in Info
    PROVE  LET new == DeletedByName(st, name, info)
           IN  /\ new.ok => /\ new.source_info = st.source_info
                            /\ new.insert = Append(st.insert, info)
               /\ AllCounted(st) => AllCounted(new)
<1> DEFINE new == DeletedByName(st, name, info)
           spent == Spend(st)
           n == Colinfo(st, Destination, name).colnum
           without == WithoutColumn(spent, Destination, n)
<1>1. st \in State
  BY DEF Kept
<1>2. CASE ~ Known(st, Destination, name)
  <2>1. new = Throw(st)
    BY <1>2 DEF DeletedByName
  <2> QED
    BY <1>1, <2>1, ProgressKeeps DEF AllCounted, SameTables
<1>3. CASE Known(st, Destination, name) /\ Fails(st)
  <2>1. new = Fault(st)
    BY <1>3 DEF DeletedByName
  <2> QED
    BY <1>1, <2>1, ProgressKeeps DEF AllCounted, SameTables
<1>4. CASE Known(st, Destination, name) /\ ~ Fails(st)
  <2>1. new = ToInsert(without, info)
    BY <1>4 DEF DeletedByName
  <2>2. /\ Kept(spent) /\ spent \in State /\ SameTables(st, spent)
        /\ spent.source_info = st.source_info /\ spent.insert = st.insert
        /\ spent.naxis2 = st.naxis2
    BY <1>1, ProgressIsKept, ProgressKeeps
  <2>3. n \in 1 .. Len(st.cols[Destination])
    BY <1>4, BothTables, KnownColumn
  <2> HIDE DEF spent, n
  <2>4. n \in 1 .. Len(spent.cols[Destination])
    BY <2>2, <2>3 DEF SameTables
  <2>5. Kept(without)
    BY <2>2, <2>4, BothTables, WithoutColumnIsKept
  <2>6. SameProgress(spent, without)
    BY <2>2, <2>4, BothTables, WithoutColumnTables
  <2>7. AllCounted(spent) => AllCounted(without)
    BY <2>2, <2>4, BothTables, WithoutColumnCounts
  <2> HIDE DEF without
  <2>8. without \in State
    BY <2>5 DEF Kept
  <2>9. /\ SameTables(without, ToInsert(without, info))
        /\ ToInsert(without, info).naxis2 = without.naxis2
        /\ ToInsert(without, info).source_info = without.source_info
        /\ ToInsert(without, info).insert = Append(without.insert, info)
    BY <2>8, RequestKeeps
  <2>10. AllCounted(st) => AllCounted(spent)
    BY <2>2 DEF AllCounted, SameTables
  <2>11. AllCounted(without) => AllCounted(new)
    BY <2>1, <2>9 DEF AllCounted, SameTables
  <2> QED
    BY <2>1, <2>2, <2>6, <2>7, <2>9, <2>10, <2>11 DEF SameProgress
<1> QED
  BY <1>2, <1>3, <1>4

LEMMA RequestedAnswers ==
    ASSUME NEW st, Kept(st), NEW name \in Names, NEW mode
    PROVE  Answered(st, name, mode, Requested(st, name, mode))
<1> DEFINE new == Requested(st, name, mode)
           info == Colinfo(st, Source, name)
           there == MovedTo(st, Source)
           seen == Noted(there, info)
           noted == MovedTo(seen, Destination)
           found == Found(st.cols[Destination], name)
<1>1. st \in State
  BY DEF Kept
<1>2. Kept(there) /\ there \in State /\ SameTables(st, there) /\ SameProgress(st, there)
      /\ (AllCounted(st) => AllCounted(there))
  BY <1>1, BothTables, MovedToIsKept, MovedToKeeps, MovedToCounts
<1> HIDE DEF there
<1>3. CASE ~ Known(st, Source, name)
  <2>1. new = Throw(there)
    BY <1>3 DEF Requested, there
  <2>2. /\ SameTables(there, Throw(there)) /\ ~ Throw(there).ok
        /\ Throw(there).fault = there.fault /\ Throw(there).naxis2 = there.naxis2
    BY <1>2, ProgressKeeps
  <2> HIDE DEF new
  <2>3. ~ new.ok /\ SameTables(st, new) /\ new.fault = st.fault
    BY <1>2, <2>1, <2>2 DEF SameTables, SameProgress
  <2>4. AllCounted(there) => AllCounted(new)
    BY <2>1, <2>2 DEF AllCounted, SameTables
  <2>5. Answered(st, name, mode, new)
    BY <1>2, <2>3, <2>4 DEF Answered
  <2> QED
    BY <2>5 DEF new
<1>4. CASE Known(st, Source, name)
  <2>1. info \in Info
    BY <1>4, BothTables, KnownColumn
  <2> HIDE DEF info
  <2>2. /\ Kept(seen) /\ seen \in State /\ SameTables(there, seen)
        /\ seen.fault = there.fault /\ seen.insert = there.insert
        /\ seen.source_info = Append(there.source_info, info)
        /\ seen.naxis2 = there.naxis2
    BY <1>2, <2>1, RequestKeeps, RequestIsKept
  <2>3. AllCounted(there) => AllCounted(seen)
    BY <2>2 DEF AllCounted, SameTables
  <2> HIDE DEF seen
  <2>4. /\ Kept(noted) /\ noted \in State /\ SameTables(seen, noted) /\ SameProgress(seen, noted)
        /\ (AllCounted(seen) => AllCounted(noted))
    BY <2>2, BothTables, MovedToIsKept, MovedToKeeps, MovedToCounts
  <2> HIDE DEF noted
  <2>5. /\ SameTables(st, noted) /\ noted.fault = st.fault /\ noted.insert = st.insert
        /\ noted.source_info = Append(st.source_info, info)
        /\ AllCounted(st) => AllCounted(noted)
    BY <1>2, <2>2, <2>3, <2>4 DEF SameTables, SameProgress
  <2> HIDE DEF found
  <2>7. CASE ~ found
    <3>1. new = ToInsert(noted, info)
      BY <1>4, <2>7 DEF Requested, noted, seen, there, info, found
    <3>2. /\ SameTables(noted, ToInsert(noted, info)) /\ ToInsert(noted, info).fault = noted.fault
          /\ ToInsert(noted, info).source_info = noted.source_info
          /\ ToInsert(noted, info).insert = Append(noted.insert, info)
          /\ ToInsert(noted, info).naxis2 = noted.naxis2
      BY <2>1, <2>4, RequestKeeps
    <3> HIDE DEF new
    <3>3. /\ SameTables(st, new) /\ new.fault = st.fault
          /\ new.source_info = Append(st.source_info, info)
          /\ new.insert = Append(st.insert, info)
      BY <2>5, <3>1, <3>2 DEF SameTables
    <3>4. AllCounted(noted) => AllCounted(new)
      BY <3>1, <3>2 DEF AllCounted, SameTables
    <3>5. Answered(st, name, mode, new)
      BY <1>4, <2>5, <2>7, <3>3, <3>4 DEF Answered, found, info
    <3> QED
      BY <3>5 DEF new
  <2>8. CASE found /\ mode = "Replace"
    <3>1. new = DeletedByName(noted, name, info)
      BY <1>4, <2>8 DEF Requested, noted, seen, there, info, found
    <3>2. /\ new.ok => /\ new.source_info = noted.source_info
                       /\ new.insert = Append(noted.insert, info)
          /\ AllCounted(noted) => AllCounted(new)
      BY <2>1, <2>4, <3>1, DeletedByNameAnswers
    <3> HIDE DEF new
    <3>3. Answered(st, name, mode, new)
      BY <1>4, <2>5, <2>8, <3>2 DEF Answered, info
    <3> QED
      BY <3>3 DEF new
  <2>9. CASE found /\ mode = "OverWrite"
    <3>1. new = noted
      BY <1>4, <2>9 DEF Requested, noted, seen, there, info, found
    <3> HIDE DEF new
    <3>2. Answered(st, name, mode, new)
      BY <1>4, <2>5, <2>9, <3>1 DEF Answered, found, info
    <3> QED
      BY <3>2 DEF new
  <2>10. CASE found /\ mode # "Replace" /\ mode # "OverWrite"
    <3>1. new = Throw(noted)
      BY <1>4, <2>10 DEF Requested, noted, seen, there, info, found
    <3>2. /\ SameTables(noted, Throw(noted)) /\ ~ Throw(noted).ok
          /\ Throw(noted).fault = noted.fault /\ Throw(noted).naxis2 = noted.naxis2
      BY <2>4, ProgressKeeps
    <3> HIDE DEF new
    <3>3. ~ new.ok /\ SameTables(st, new) /\ new.fault = st.fault
      BY <2>5, <3>1, <3>2 DEF SameTables
    <3>4. AllCounted(noted) => AllCounted(new)
      BY <3>1, <3>2 DEF AllCounted, SameTables
    <3>5. Answered(st, name, mode, new)
      BY <2>5, <3>3, <3>4 DEF Answered
    <3> QED
      BY <3>5 DEF new
  <2> QED
    BY <2>7, <2>8, <2>9, <2>10
<1> QED
  BY <1>3, <1>4

\* Where the source is described as it is, its column of a name has that name.
LEMMA SourceInfo ==
    ASSUME NEW st, Kept(st), st.columns[Source] = Descriptions(st.cols[Source]),
           NEW name, Known(st, Source, name)
    PROVE  \E m \in 1 .. Len(st.cols[Source]) :
                /\ IsColnum(st.cols[Source], name, m)
                /\ Colinfo(st, Source, name) = Describe(st.cols[Source][m], m)
                /\ Colinfo(st, Source, name) \in Info
                /\ Colinfo(st, Source, name).colnum = m
                /\ Colinfo(st, Source, name).ttype = name
<1>1. PICK m \in 1 .. Len(st.columns[Source]) :
        /\ m \in 1 .. Len(st.cols[Source])
        /\ IsColnum(st.cols[Source], name, m) /\ st.cols[Source][m].name = name
        /\ Colinfo(st, Source, name) = st.columns[Source][m]
        /\ Colinfo(st, Source, name) \in Info
        /\ Colinfo(st, Source, name).colnum = m
  BY BothTables, KnownColumn
<1>2. st.cols[Source] \in Seq(Column)
  BY BothTables, ColumnsOf DEF Kept
<1>3. st.columns[Source][m] = Describe(st.cols[Source][m], m)
  BY <1>1, <1>2, DescriptionsAreInfos
<1>4. Describe(st.cols[Source][m], m).ttype = st.cols[Source][m].name
  BY DEF Describe
<1> QED
  BY <1>1, <1>3, <1>4

NotedAll(base, names, k, st) ==
    /\ Len(st.source_info) = k
    /\ \A j \in 1 .. k : /\ Known(base, Source, names[j])
                         /\ st.source_info[j] = Colinfo(base, Source, names[j])

InsertAsked(base, names, mode, k, st) ==
    \A i \in 1 .. Len(st.insert) : \E j \in 1 .. k :
        /\ st.insert[i] = Colinfo(base, Source, names[j])
        /\ mode # "Replace" => ~ Found(base.cols[Destination], names[j])

AskedIsMet(base, names, mode, k, st) ==
    \A j \in 1 .. k :
        \/ mode = "OverWrite" /\ Found(base.cols[Destination], names[j])
        \/ \E i \in 1 .. Len(st.insert) : st.insert[i] = Colinfo(base, Source, names[j])

InsertOnce(names, st) ==
    Distinct(names) => \A i, j \in 1 .. Len(st.insert) :
                            i # j => st.insert[i].ttype # st.insert[j].ttype

\* What the first k requests of a copy have come to.
AskedSoFar(base, names, mode, k, st) ==
    /\ Kept(st) /\ SourceKept(base, st) /\ st.columns = base.columns
    /\ mode # "Replace" => SameTables(base, st) /\ st.fault = base.fault
    /\ AllCounted(base) => AllCounted(st)
    /\ st.ok => /\ NotedAll(base, names, k, st) /\ InsertAsked(base, names, mode, k, st)
                /\ AskedIsMet(base, names, mode, k, st) /\ InsertOnce(names, st)

LEMMA AskedStep ==
    ASSUME NEW base, Kept(base), base.columns[Source] = Descriptions(base.cols[Source]),
           NEW names \in Seq(Names), NEW mode, NEW k \in 1 .. Len(names),
           NEW st, AskedSoFar(base, names, mode, k - 1, st), st.ok
    PROVE  AskedSoFar(base, names, mode, k, Requested(st, names[k], mode))
<1> DEFINE name == names[k]
           info == Colinfo(base, Source, name)
           new == Requested(st, name, mode)
           n == Len(st.insert)
<1>1. /\ Kept(st) /\ SourceKept(base, st) /\ st.columns = base.columns
      /\ mode # "Replace" => SameTables(base, st) /\ st.fault = base.fault
      /\ AllCounted(base) => AllCounted(st)
      /\ NotedAll(base, names, k - 1, st) /\ InsertAsked(base, names, mode, k - 1, st)
      /\ AskedIsMet(base, names, mode, k - 1, st) /\ InsertOnce(names, st)
  BY DEF AskedSoFar
<1>2. name \in Names /\ Len(names) \in Nat /\ k \in Nat
  BY ElementOfSeq, LenProperties
<1>3. Kept(new) /\ SourceKept(st, new) /\ new.columns = st.columns
  BY <1>1, <1>2, RequestedKeeps
<1>4. Answered(st, name, mode, new)
  BY <1>1, <1>2, RequestedAnswers
<1> HIDE DEF new, name
<1>5. /\ SourceKept(base, new) /\ new.columns = base.columns
      /\ mode # "Replace" => SameTables(base, new) /\ new.fault = base.fault
      /\ AllCounted(base) => AllCounted(new)
  BY <1>1, <1>3, <1>4 DEF SourceKept, SameTables, Answered
<1>6. ASSUME new.ok
      PROVE  /\ NotedAll(base, names, k, new) /\ InsertAsked(base, names, mode, k, new)
             /\ AskedIsMet(base, names, mode, k, new) /\ InsertOnce(names, new)
  <2>1. Known(base, Source, name) /\ Colinfo(st, Source, name) = info
    <3>1. Known(st, Source, name)
      BY <1>4, <1>6 DEF Answered
    <3> QED
      BY <1>1, <3>1 DEF Known, Colinfo, SourceKept
  <2>2. info \in Info /\ info.ttype = name
    BY <2>1, SourceInfo
  <2> HIDE DEF info
  <2>3. new.source_info = Append(st.source_info, info)
    BY <1>4, <1>6, <2>1 DEF Answered
  <2>4. \/ new.insert = Append(st.insert, info)
            /\ (mode # "Replace" => ~ Found(base.cols[Destination], name))
        \/ new.insert = st.insert /\ mode = "OverWrite" /\ Found(base.cols[Destination], name)
    BY <1>1, <1>4, <1>6, <2>1 DEF Answered, SameTables
  <2>5. st.source_info \in Seq(Info) /\ st.insert \in Seq(Info) /\ n \in Nat
    BY <1>1, LenProperties DEF Kept, State
  <2>6. /\ Len(new.source_info) = k
        /\ \A j \in 1 .. k - 1 : new.source_info[j] = st.source_info[j]
        /\ new.source_info[k] = info
    <3>1. Len(st.source_info) = k - 1
      BY <1>1 DEF NotedAll
    <3> QED
      BY <1>2, <2>2, <2>3, <2>5, <3>1, AppendProperties
  <2>7. NotedAll(base, names, k, new)
    <3>1. ASSUME NEW j \in 1 .. k
          PROVE  /\ Known(base, Source, names[j])
                 /\ new.source_info[j] = Colinfo(base, Source, names[j])
      <4>1. CASE j = k
        BY <2>1, <2>6, <4>1 DEF name, info
      <4>2. CASE j \in 1 .. k - 1
        BY <1>1, <2>6, <4>2 DEF NotedAll
      <4> QED
        BY <1>2, <4>1, <4>2
    <3> QED
      BY <2>6, <3>1 DEF NotedAll
  <2>8. CASE /\ new.insert = Append(st.insert, info)
             /\ mode # "Replace" => ~ Found(base.cols[Destination], name)
    <3>1. /\ Len(new.insert) = n + 1 /\ new.insert[n + 1] = info
          /\ \A i \in 1 .. n : new.insert[i] = st.insert[i]
      BY <2>2, <2>5, <2>8, AppendProperties
    <3> HIDE DEF n
    <3>2. Len(st.insert) = n
      BY DEF n
    <3>3. InsertAsked(base, names, mode, k, new)
      <4>1. ASSUME NEW i \in 1 .. n + 1
            PROVE  \E j \in 1 .. k :
                        /\ new.insert[i] = Colinfo(base, Source, names[j])
                        /\ mode # "Replace" => ~ Found(base.cols[Destination], names[j])
        <5>1. CASE i = n + 1
          BY <1>2, <2>8, <3>1, <5>1 DEF info, name
        <5>2. CASE i \in 1 .. n
          <6>1. PICK j \in 1 .. k - 1 :
                    /\ st.insert[i] = Colinfo(base, Source, names[j])
                    /\ mode # "Replace" => ~ Found(base.cols[Destination], names[j])
            BY <1>1, <3>2, <5>2 DEF InsertAsked
          <6>2. j \in 1 .. k
            BY <1>2
          <6> QED
            BY <3>1, <5>2, <6>1, <6>2
        <5> QED
          BY <2>5, <5>1, <5>2
      <4> QED
        BY <3>1, <4>1 DEF InsertAsked
    <3>4. AskedIsMet(base, names, mode, k, new)
      <4>1. ASSUME NEW j \in 1 .. k
            PROVE  \/ mode = "OverWrite" /\ Found(base.cols[Destination], names[j])
                   \/ \E i \in 1 .. n + 1 : new.insert[i] = Colinfo(base, Source, names[j])
        <5>1. CASE j = k
          <6>1. n + 1 \in 1 .. n + 1
            BY <2>5
          <6> QED
            BY <3>1, <5>1, <6>1 DEF info, name
        <5>2. CASE j \in 1 .. k - 1
          <6>1. \/ mode = "OverWrite" /\ Found(base.cols[Destination], names[j])
                \/ \E i \in 1 .. n : st.insert[i] = Colinfo(base, Source, names[j])
            BY <1>1, <3>2, <5>2 DEF AskedIsMet
          <6>2. ASSUME NEW i \in 1 .. n
                PROVE  i \in 1 .. n + 1 /\ new.insert[i] = st.insert[i]
            BY <2>5, <3>1
          <6> QED
            BY <6>1, <6>2
        <5> QED
          BY <1>2, <5>1, <5>2
      <4> QED
        BY <3>1, <4>1 DEF AskedIsMet
    <3>5. InsertOnce(names, new)
      <4> SUFFICES ASSUME Distinct(names)
                   PROVE  \A i, j \in 1 .. n + 1 :
                            i # j => new.insert[i].ttype # new.insert[j].ttype
        BY <3>1 DEF InsertOnce
      <4>1. ASSUME NEW i \in 1 .. n
            PROVE  new.insert[i].ttype # name
        <5>1. PICK j \in 1 .. k - 1 : st.insert[i] = Colinfo(base, Source, names[j])
          BY <1>1, <3>2 DEF InsertAsked
        <5>2. Known(base, Source, names[j])
          BY <1>1 DEF NotedAll
        <5>3. st.insert[i].ttype = names[j]
          BY <5>1, <5>2, SourceInfo
        <5>4. names[j] # names[k]
          <6>1. j \in DOMAIN names /\ k \in DOMAIN names /\ j # k
            BY <1>2, LenProperties
          <6> QED
            BY <6>1 DEF Distinct
        <5> QED
          BY <3>1, <5>3, <5>4 DEF name
      <4>2. ASSUME NEW i \in 1 .. n, NEW j \in 1 .. n, i # j
            PROVE  new.insert[i].ttype # new.insert[j].ttype
        <5>1. st.insert[i].ttype # st.insert[j].ttype
          BY <1>1, <3>2, <4>2 DEF InsertOnce
        <5>2. new.insert[i] = st.insert[i] /\ new.insert[j] = st.insert[j]
          BY <3>1
        <5> QED
          BY <5>1, <5>2
      <4>3. new.insert[n + 1].ttype = name
        BY <2>2, <3>1
      <4>4. \A i \in 1 .. n + 1 : i \in 1 .. n \/ i = n + 1
        BY <2>5
      <4> QED
        BY <4>1, <4>2, <4>3, <4>4
    <3> QED
      BY <2>7, <3>3, <3>4, <3>5
  <2>9. CASE /\ new.insert = st.insert /\ mode = "OverWrite"
             /\ Found(base.cols[Destination], name)
    <3>1. InsertAsked(base, names, mode, k, new)
      <4>1. \A j \in 1 .. k - 1 : j \in 1 .. k
        BY <1>2
      <4> QED
        BY <1>1, <2>9, <4>1 DEF InsertAsked
    <3>2. AskedIsMet(base, names, mode, k, new)
      <4>1. \A j \in 1 .. k : j = k \/ j \in 1 .. k - 1
        BY <1>2
      <4> QED
        BY <1>1, <2>9, <4>1 DEF AskedIsMet, name
    <3>3. InsertOnce(names, new)
      BY <1>1, <2>9 DEF InsertOnce
    <3> QED
      BY <2>7, <3>1, <3>2, <3>3
  <2> QED
    BY <2>4, <2>8, <2>9
<1>7. AskedSoFar(base, names, mode, k, new)
  BY <1>3, <1>5, <1>6 DEF AskedSoFar
<1> QED
  BY <1>7 DEF new, name

\* The state in which the first request finds the tables.
Begun(base) ==
    /\ Kept(base) /\ base.columns[Source] = Descriptions(base.cols[Source])
    /\ base.source_info = <<>> /\ base.insert = <<>>

LEMMA AllAsked ==
    ASSUME NEW base, Begun(base), NEW names \in Seq(Names), NEW mode
    PROVE  AskedSoFar(base, names, mode, Len(names), Asked(base, names, mode))
<1> DEFINE J == {p \in (0 .. Len(names)) \X State : AskedSoFar(base, names, mode, p[1], p[2])}
<1>1. Len(names) \in Nat /\ base \in State /\ Kept(base)
  BY LenProperties DEF Begun, Kept
<1>2. AskedSoFar(base, names, mode, 0, base)
  <2>1. Len(base.source_info) = 0 /\ Len(base.insert) = 0
    BY DEF Begun
  <2>2. NotedAll(base, names, 0, base)
    BY <2>1 DEF NotedAll
  <2>3. InsertAsked(base, names, mode, 0, base) /\ InsertOnce(names, base)
    BY <2>1 DEF InsertAsked, InsertOnce
  <2>4. AskedIsMet(base, names, mode, 0, base)
    BY DEF AskedIsMet
  <2> QED
    BY <1>1, <2>2, <2>3, <2>4 DEF AskedSoFar, SourceKept, SameTables
<1>3. <<0, base>> \in J
  BY <1>1, <1>2
<1>4. ASSUME NEW k \in 1 .. Len(names), NEW st, <<k - 1, st>> \in J
      PROVE  <<k, Requesting(mode, st, names[k])>> \in J
  <2> DEFINE new == Requesting(mode, st, names[k])
  <2>1. AskedSoFar(base, names, mode, k - 1, st) /\ st \in State
    BY <1>4
  <2>2. AskedSoFar(base, names, mode, k, new)
    <3>1. CASE st.ok
      <4>1. base.columns[Source] = Descriptions(base.cols[Source])
        BY DEF Begun
      <4>2. new = Requested(st, names[k], mode)
        BY <3>1 DEF Requesting
      <4> QED
        BY <1>1, <2>1, <3>1, <4>1, <4>2, AskedStep
    <3>2. CASE ~ st.ok
      <4>1. new = st
        BY <3>2 DEF Requesting
      <4> QED
        BY <2>1, <3>2, <4>1 DEF AskedSoFar
    <3> QED
      BY <3>1, <3>2
  <2> HIDE DEF new
  <2>3. new \in State
    BY <2>2 DEF AskedSoFar, Kept
  <2>4. <<k, new>> \in J
    BY <1>1, <2>2, <2>3
  <2> QED
    BY <2>4 DEF new
<1> HIDE DEF J
<1>5. <<Len(names), Asking!Fold(mode, base, names)>> \in J
  BY <1>3, <1>4, Asking!FoldInvariantAt
<1> QED
  BY <1>5, AskedIsFold DEF J

-----------------------------------------------------------------------------
(***************************************************************************)
(* How the changes to the destination may end                              *)
(***************************************************************************)
\* A step does nothing after an exception, and throws only for a failure of CFITSIO.
Outcome(st, new) ==
    /\ ~ st.ok => new = st
    /\ st.ok /\ ~ new.ok => new.fault
    /\ AllCounted(st) => AllCounted(new)

LEMMA RewrittenCounts ==
    ASSUME NEW st, NEW new, NEW t \in TableObjects, AllCounted(st), OthersKept(st, t, new),
           new.naxis2[t] = Len(new.data[t])
    PROVE  AllCounted(new)
BY DEF AllCounted, OthersKept

LEMMA ColumnsInsertedOutcome ==
    ASSUME NEW st, Kept(st)
    PROVE  /\ Outcome(st, ColumnsInserted(st))
           /\ ColumnsInserted(st).ok =>
                ColumnsInserted(st).cols[Destination] = st.cols[Destination] \o BareAll(st.insert)
<1> DEFINE new == ColumnsInserted(st)
           at == MovedTo(st, Destination)
           spent == Spend(at)
           infos == st.insert
           with == WithColumns(spent, Destination, infos)
<1>1. st \in State /\ infos \in Seq(Info) /\ st.cols[Destination] \in Seq(Column)
  BY BothTables, ColumnsOf DEF Kept, State
<1>2. CASE ~ st.ok
  <2>1. new = st
    BY <1>2 DEF ColumnsInserted
  <2> QED
    BY <1>2, <2>1 DEF Outcome
<1>3. CASE st.ok /\ infos = <<>>
  <2>1. new = st
    BY <1>3 DEF ColumnsInserted
  <2>2. BareAll(infos) = <<>>
    <3>1. BareAll(infos) \in Seq(Column) /\ Len(BareAll(infos)) = 0
      BY <1>1, <1>3, BareColumns
    <3> QED
      BY <3>1, EmptySeq
  <2>3. st.cols[Destination] \o <<>> = st.cols[Destination]
    BY <1>1, ConcatEmptySeq
  <2> QED
    BY <1>3, <2>1, <2>2, <2>3 DEF Outcome
<1>4. CASE st.ok /\ infos # <<>>
  <2>1. /\ Kept(at) /\ at \in State /\ SameTables(st, at) /\ SameProgress(st, at)
        /\ AllCounted(st) => AllCounted(at)
    BY <1>1, BothTables, MovedToIsKept, MovedToKeeps, MovedToCounts
  <2> HIDE DEF at
  <2>2. /\ Kept(spent) /\ spent \in State /\ SameTables(at, spent)
        /\ spent.naxis2 = at.naxis2 /\ spent.ok = at.ok
    BY <2>1, ProgressIsKept, ProgressKeeps
  <2>3. /\ ~ Fault(at).ok /\ Fault(at).fault /\ SameTables(at, Fault(at))
        /\ Fault(at).naxis2 = at.naxis2
    BY <2>1, ProgressKeeps
  <2>4. AllCounted(at) => AllCounted(spent) /\ AllCounted(Fault(at))
    BY <2>2, <2>3 DEF AllCounted, SameTables
  <2> HIDE DEF spent
  <2>5. /\ with.cols[Destination] = spent.cols[Destination] \o BareAll(infos)
        /\ with.data[Destination] = CellsWith(spent.data[Destination], infos)
        /\ with.naxis2[Destination] = Len(spent.data[Destination])
        /\ OthersKept(spent, Destination, with) /\ SameProgress(spent, with)
    BY <1>1, <2>2, BothTables, WithColumnsTables
  <2>6. Len(CellsWith(spent.data[Destination], infos)) = Len(spent.data[Destination])
    BY <1>1, <2>2, BothTables, AddedAreCells
  <2>7. new = IF Fails(st) THEN Fault(at) ELSE with
    BY <1>4 DEF ColumnsInserted, with, spent, at, infos
  <2> HIDE DEF with, new
  <2>8. AllCounted(spent) => AllCounted(with)
    BY <2>5, <2>6, BothTables, RewrittenCounts
  <2>9. with.ok = st.ok /\ with.cols[Destination] = st.cols[Destination] \o BareAll(infos)
    BY <2>1, <2>2, <2>5 DEF SameTables, SameProgress
  <2>10. Outcome(st, new) /\ (new.ok => new.cols[Destination] = st.cols[Destination] \o BareAll(infos))
    BY <1>4, <2>1, <2>3, <2>4, <2>7, <2>8, <2>9 DEF Outcome
  <2> QED
    BY <2>10 DEF new, infos
<1> QED
  BY <1>2, <1>3, <1>4

LEMMA RowsInsertedOutcome ==
    ASSUME NEW st, Kept(st), NEW extend, NEW last_counted \in TableObjects
    PROVE  /\ Outcome(st, RowsInserted(st, extend, last_counted))
           /\ RowsInserted(st, extend, last_counted).ok /\ extend = "ExtendTable" /\ ~ shared
                => Rows(RowsInserted(st, extend, last_counted), Destination) >= Rows(st, Source)
<1> DEFINE new == RowsInserted(st, extend, last_counted)
           there == MovedTo(st, Source)
           counted == MovedTo(there, Destination)
           at == MovedTo(counted, last_counted)
           spent == Spend(at)
           t == AtChdu(at, Destination)
           after == Rows(st, Destination)
           count == Rows(st, Source) - Rows(st, Destination)
           with == WithRows(spent, t, after, count)
<1>1. /\ st \in State
      /\ Rows(st, Source) \in Nat /\ Rows(st, Destination) \in Nat
  BY BothTables, CellsOf DEF Kept, Rows
<1>2. CASE ~ st.ok
  <2>1. new = st
    BY <1>2 DEF RowsInserted
  <2> QED
    BY <1>2, <2>1 DEF Outcome
<1>3. /\ Kept(there) /\ there \in State /\ SameTables(st, there) /\ SameProgress(st, there)
      /\ AllCounted(st) => AllCounted(there)
  BY <1>1, BothTables, MovedToIsKept, MovedToKeeps, MovedToCounts
<1> HIDE DEF there
<1>4. /\ Kept(counted) /\ counted \in State /\ SameTables(there, counted)
      /\ SameProgress(there, counted)
      /\ AllCounted(there) => AllCounted(counted)
  BY <1>3, BothTables, MovedToIsKept, MovedToKeeps, MovedToCounts
<1> HIDE DEF counted
<1>5. /\ Kept(at) /\ at \in State /\ SameTables(counted, at) /\ SameProgress(counted, at)
      /\ AllCounted(counted) => AllCounted(at)
  BY <1>4, MovedToIsKept, MovedToKeeps, MovedToCounts
<1> HIDE DEF at
<1>6. CASE st.ok /\ ~ Extends(st, extend)
  <2>1. new = counted
    BY <1>6 DEF RowsInserted, counted, there
  <2> HIDE DEF new
  <2>2. Outcome(st, new)
    BY <1>3, <1>4, <1>6, <2>1 DEF Outcome, SameProgress
  <2>3. new.data[Destination] = st.data[Destination]
    BY <1>3, <1>4, <2>1 DEF SameTables
  <2>4. extend = "ExtendTable" => Rows(new, Destination) >= Rows(st, Source)
    BY <1>1, <1>6, <2>3 DEF Extends, Rows
  <2> QED
    BY <2>2, <2>4 DEF new
<1>7. CASE st.ok /\ Extends(st, extend)
  <2>1. /\ Kept(spent) /\ spent \in State /\ SameTables(at, spent)
        /\ spent.naxis2 = at.naxis2 /\ spent.ok = at.ok
    BY <1>5, ProgressIsKept, ProgressKeeps
  <2>2. /\ ~ Fault(at).ok /\ Fault(at).fault /\ SameTables(at, Fault(at))
        /\ Fault(at).naxis2 = at.naxis2
    BY <1>5, ProgressKeeps
  <2>3. AllCounted(at) => AllCounted(spent) /\ AllCounted(Fault(at))
    BY <2>1, <2>2 DEF AllCounted, SameTables
  <2>4. t \in TableObjects /\ (~ shared => t = Destination)
    <3>1. at.chdu \in TableObjects
      BY <1>5 DEF State
    <3> QED
      BY <3>1, BothTables DEF AtChdu
  <2>5. spent.data = st.data
    BY <1>3, <1>4, <1>5, <2>1 DEF SameTables
  <2>6. count \in Nat /\ after + count = Rows(st, Source)
    BY <1>1, <1>7 DEF Extends
  <2> HIDE DEF spent, t
  <2>7. after \in 0 .. Len(spent.data[t])
    <3>1. t \in {Source, Destination}
      BY <2>4 DEF TableObjects
    <3> QED
      BY <1>1, <1>7, <2>5, <3>1 DEF Extends, Rows
  <2> HIDE DEF after, count
  <2>8. /\ with.data[t] = CellsExtended(spent, t, after, count)
        /\ with.naxis2[t] = Len(CellsExtended(spent, t, after, count))
        /\ OthersKept(spent, t, with) /\ SameProgress(spent, with)
    BY <2>1, <2>4, <2>6, <2>7, WithRowsTables
  <2>9. Len(CellsExtended(spent, t, after, count)) = Len(spent.data[t]) + count
    BY <2>1, <2>4, <2>6, <2>7, ExtendedLength
  <2>10. new = IF Fails(st) THEN Fault(at) ELSE with
    BY <1>7 DEF RowsInserted, with, spent, t, at, counted, there, after, count
  <2> HIDE DEF with, new
  <2>11. AllCounted(spent) => AllCounted(with)
    BY <2>4, <2>8, RewrittenCounts
  <2>12. with.ok = st.ok
    BY <1>3, <1>4, <1>5, <2>1, <2>8 DEF SameProgress
  <2>13. Outcome(st, new)
    BY <1>3, <1>4, <1>5, <1>7, <2>2, <2>3, <2>10, <2>11, <2>12 DEF Outcome
  <2>14. ~ shared => Rows(with, Destination) >= Rows(st, Source)
    <3> SUFFICES ASSUME ~ shared PROVE Rows(with, Destination) >= Rows(st, Source)
      OBVIOUS
    <3>1. Rows(with, Destination) = after + count
      BY <2>4, <2>5, <2>8, <2>9 DEF Rows, after
    <3> QED
      BY <1>1, <2>6, <3>1
  <2>15. new.ok /\ ~ shared => Rows(new, Destination) >= Rows(st, Source)
    BY <2>2, <2>10, <2>14
  <2> QED
    BY <2>13, <2>15 DEF new
<1> QED
  BY <1>2, <1>6, <1>7

LEMMA RefreshedOutcome ==
    ASSUME NEW st, Kept(st)
    PROVE  Outcome(st, Refreshed(st))
<1> DEFINE at == MovedTo(st, Destination)
           infos == Descriptions(st.cols[Destination])
           new == [at EXCEPT !.columns[Destination] = infos]
<1>1. st \in State
  BY DEF Kept
<1>2. /\ at \in State /\ SameTables(st, at) /\ SameProgress(st, at)
      /\ AllCounted(st) => AllCounted(at)
  BY <1>1, BothTables, MovedToKeeps, MovedToCounts
<1> HIDE DEF at, infos
<1>3. new.data = at.data /\ new.naxis2 = at.naxis2 /\ new.ok = at.ok
  BY <1>2 DEF State
<1>4. Refreshed(st) = IF ~ st.ok THEN st ELSE new
  BY DEF Refreshed, new, at, infos
<1> HIDE DEF new
<1>5. AllCounted(at) => AllCounted(new)
  BY <1>3 DEF AllCounted
<1> QED
  BY <1>2, <1>3, <1>4, <1>5 DEF Outcome, SameProgress

-----------------------------------------------------------------------------
(***************************************************************************)
(* The columns of the destination once what was missing is inserted        *)
(***************************************************************************)
LEMMA AppendedColumns ==
    ASSUME NEW cs \in Seq(Column), NEW infos \in Seq(Info)
    PROVE  LET all == cs \o BareAll(infos)
           IN  /\ all \in Seq(Column) /\ Len(all) = Len(cs) + Len(infos)
               /\ \A n \in 1 .. Len(cs) : all[n] = cs[n]
               /\ \A i \in 1 .. Len(infos) : all[Len(cs) + i] = Bare(infos[i])
<1> DEFINE added == BareAll(infos)
           all == cs \o added
<1>1. added \in Seq(Column) /\ Len(added) = Len(infos)
  BY BareColumns
<1>2. Len(cs) \in Nat /\ Len(infos) \in Nat /\ DOMAIN infos = 1 .. Len(infos)
  BY LenProperties
<1>3. \A i \in 1 .. Len(infos) : added[i] = Bare(infos[i])
  BY <1>2 DEF BareAll
<1> HIDE DEF added
<1>4. /\ all \in Seq(Column) /\ Len(all) = Len(cs) + Len(added)
      /\ \A i \in 1 .. Len(cs) + Len(added) :
            all[i] = IF i <= Len(cs) THEN cs[i] ELSE added[i - Len(cs)]
  BY <1>1, ConcatProperties
<1> HIDE DEF all
<1>5. ASSUME NEW n \in 1 .. Len(cs)
      PROVE  all[n] = cs[n]
  BY <1>1, <1>2, <1>4
<1>6. ASSUME NEW i \in 1 .. Len(infos)
      PROVE  all[Len(cs) + i] = Bare(infos[i])
  <2>1. /\ Len(cs) + i \in 1 .. Len(cs) + Len(added) /\ ~ (Len(cs) + i <= Len(cs))
        /\ (Len(cs) + i) - Len(cs) = i
    BY <1>1, <1>2
  <2>2. all[Len(cs) + i] = added[i]
    BY <1>4, <2>1
  <2> QED
    BY <1>3, <2>2
<1>7. all \in Seq(Column) /\ Len(all) = Len(cs) + Len(infos)
  BY <1>1, <1>4
<1> QED
  BY <1>5, <1>6, <1>7 DEF all, added

LEMMA FoundAfterInsert ==
    ASSUME NEW cs \in Seq(Column), Distinct(NamesOf(cs)), NEW infos \in Seq(Info),
           \A i, j \in 1 .. Len(infos) : i # j => infos[i].ttype # infos[j].ttype,
           \A i \in 1 .. Len(infos) : ~ Found(cs, infos[i].ttype),
           NEW name,
           Found(cs, name) \/ \E i \in 1 .. Len(infos) : infos[i].ttype = name
    PROVE  Found(cs \o BareAll(infos), name)
<1> DEFINE all == cs \o BareAll(infos)
           N == Len(cs)
           M == Len(infos)
<1>1. /\ Len(all) = N + M
      /\ \A n \in 1 .. N : all[n] = cs[n]
      /\ \A i \in 1 .. M : all[N + i] = Bare(infos[i])
  BY AppendedColumns
<1>2. N \in Nat /\ M \in Nat /\ DOMAIN cs = 1 .. N
  BY LenProperties
<1> HIDE DEF all, M
<1>3. \A n, m \in 1 .. N : n # m => cs[n].name # cs[m].name
  BY <1>2 DEF Distinct, NamesOf
<1>4. \A i \in 1 .. M : Bare(infos[i]).name = infos[i].ttype
  BY DEF Bare, NewColumn
<1>5. ASSUME NEW i \in 1 .. M, NEW n \in 1 .. N
      PROVE  cs[n].name # infos[i].ttype
  <2> SUFFICES ASSUME cs[n].name = infos[i].ttype PROVE FALSE
    OBVIOUS
  <2>1. IsColnum(cs, infos[i].ttype, n)
    BY <1>3 DEF IsColnum, ColumnsNamed
  <2> QED
    BY <2>1 DEF Found, M
<1> HIDE DEF N
<1>6. ASSUME NEW n \in 1 .. N + M, NEW m \in 1 .. N + M, n # m
      PROVE  all[n].name # all[m].name
  <2>1. \A k \in 1 .. N + M : k \in 1 .. N \/ (k - N \in 1 .. M /\ k = N + (k - N))
    BY <1>2
  <2>2. CASE n \in 1 .. N /\ m \in 1 .. N
    BY <1>1, <1>3, <1>6, <2>2
  <2>3. CASE n \in 1 .. N /\ m - N \in 1 .. M /\ m = N + (m - N)
    <3> DEFINE j == m - N
    <3>1. j \in 1 .. M /\ m = N + j
      BY <2>3
    <3> HIDE DEF j
    <3> QED
      BY <1>1, <1>4, <1>5, <2>3, <3>1
  <2>4. CASE n - N \in 1 .. M /\ n = N + (n - N) /\ m \in 1 .. N
    <3> DEFINE i == n - N
    <3>1. i \in 1 .. M /\ n = N + i
      BY <2>4
    <3> HIDE DEF i
    <3> QED
      BY <1>1, <1>4, <1>5, <2>4, <3>1
  <2>5. CASE /\ n - N \in 1 .. M /\ n = N + (n - N)
             /\ m - N \in 1 .. M /\ m = N + (m - N)
    <3> DEFINE i == n - N
               j == m - N
    <3>1. i \in 1 .. M /\ n = N + i /\ j \in 1 .. M /\ m = N + j
      BY <2>5
    <3> HIDE DEF i, j
    <3>2. i # j
      BY <1>6, <3>1
    <3>3. infos[i].ttype # infos[j].ttype
      BY <3>1, <3>2 DEF M
    <3>4. all[n].name = infos[i].ttype /\ all[m].name = infos[j].ttype
      BY <1>1, <1>4, <3>1
    <3> QED
      BY <3>3, <3>4
  <2> QED
    BY <2>1, <2>2, <2>3, <2>4, <2>5
<1>7. \E n \in 1 .. N + M : all[n].name = name
  <2>1. CASE Found(cs, name)
    <3>1. PICK n \in 1 .. N : IsColnum(cs, name, n)
      BY <2>1 DEF Found, N
    <3>2. cs[n].name = name /\ n \in 1 .. N + M
      BY <1>2, <3>1 DEF IsColnum, ColumnsNamed
    <3> QED
      BY <1>1, <3>1, <3>2
  <2>2. CASE \E i \in 1 .. M : infos[i].ttype = name
    <3>1. PICK i \in 1 .. M : infos[i].ttype = name
      BY <2>2
    <3>2. N + i \in 1 .. N + M
      BY <1>2
    <3> QED
      BY <1>1, <1>4, <3>1, <3>2
  <2> QED
    BY <2>1, <2>2 DEF M
<1>8. PICK n \in 1 .. N + M : all[n].name = name
  BY <1>7
<1>9. \A m \in 1 .. N + M : all[m].name = name => m = n
  BY <1>6, <1>8
<1>10. IsColnum(all, name, n)
  BY <1>1, <1>8, <1>9 DEF IsColnum, ColumnsNamed
<1>11. Found(all, name)
  BY <1>1, <1>10 DEF Found
<1> QED
  BY <1>11 DEF all

\* Where the destination is described as it is, what CFITSIO finds is known.
LEMMA FoundIsKnown ==
    ASSUME NEW st, Kept(st), NEW t \in TableObjects,
           st.columns[t] = Descriptions(st.cols[t]), NEW name, Found(st.cols[t], name)
    PROVE  Known(st, t, name)
<1>1. st.cols[t] \in Seq(Column)
  BY ColumnsOf DEF Kept
<1>2. DOMAIN st.columns[t] = 1 .. Len(st.cols[t])
  BY <1>1, DescriptionsAreInfos, LenProperties
<1> QED
  BY <1>2 DEF Known, Found

LEMMA CellsCopiedOutcome ==
    ASSUME NEW st, Kept(st), ~ shared, NEW info \in Info, st.ok,
           Known(st, Destination, info.ttype), info.colnum \in 1 .. Len(st.cols[Source])
    PROVE  CellsCopied(st, info).ok \/ CellsCopied(st, info).fault
<1> DEFINE new == CellsCopied(st, info)
           at == MovedTo(st, Destination)
           spent == Spend(at)
           m == info.colnum
           n == Colinfo(st, Destination, info.ttype).colnum
           cells == CellsWritten(spent, Source, m, Destination, n)
           with == WithCells(spent, Source, m, Destination, n)
<1>1. st \in State /\ DOMAIN st.cols[Source] = 1 .. Len(st.cols[Source])
  BY BothTables, ColumnsOf DEF Kept
<1>2. Kept(at) /\ at \in State /\ SameTables(st, at) /\ SameProgress(st, at)
  BY <1>1, BothTables, MovedToIsKept, MovedToKeeps
<1>3. AtChdu(at, Source) = Source
  BY DEF AtChdu
<1> HIDE DEF at
<1>4. Kept(spent) /\ spent \in State /\ SameTables(at, spent) /\ spent.ok = at.ok
  BY <1>2, ProgressIsKept, ProgressKeeps
<1>5. Fault(at).fault
  BY <1>2, ProgressKeeps
<1>6. new \in {Fault(at), with}
  BY <1>1, <1>3 DEF CellsCopied, with, spent, at, m, n
<1> HIDE DEF spent
<1>7. n \in 1 .. Len(spent.cols[Destination]) /\ m \in 1 .. Len(spent.cols[Source])
  <2>1. n \in 1 .. Len(st.cols[Destination])
    BY BothTables, KnownColumn
  <2> QED
    BY <1>2, <1>4, <2>1 DEF SameTables
<1> HIDE DEF n, m
<1>8. cells \in Seq(Seq(AnyCell))
  BY <1>4, <1>7, BothTables, CellsWrittenAreCells
<1>9. SameProgress(spent, with)
  BY <1>4, <1>8, BothTables, WithCellsKeeps
<1> QED
  BY <1>2, <1>4, <1>5, <1>6, <1>9 DEF SameProgress

-----------------------------------------------------------------------------
(***************************************************************************)
(* A copy which is refused                                                 *)
(***************************************************************************)
\* Cells are copied of columns which are known, so nothing but CFITSIO can fail.
LEMMA CopyingCellsGoesThrough ==
    ASSUME NEW st, Kept(st), ~ shared, st.ok, NEW infos \in Seq(Info),
           \A k \in 1 .. Len(infos) :
                Known(st, Destination, infos[k].ttype)
                    /\ infos[k].colnum \in 1 .. Len(st.cols[Source])
    PROVE  FoldLeft(CellsCopied, st, infos).ok \/ FoldLeft(CellsCopied, st, infos).fault
<1> DEFINE I == {s \in State : /\ Kept(s) /\ s.cols = st.cols /\ s.columns = st.columns
                               /\ s.ok \/ s.fault}
<1>1. st \in I
  BY DEF Kept
<1>2. ASSUME NEW k \in 1 .. Len(infos), NEW s \in I
      PROVE  CellsCopying({}, s, infos[k]) \in I
  <2> DEFINE new == CellsCopied(s, infos[k])
  <2>1. infos[k] \in Info
    BY ElementOfSeq
  <2>2. /\ Kept(new) /\ new.cols = s.cols
        /\ new.columns = s.columns /\ (~ s.ok => new = s)
    BY <2>1, CellsCopiedKeeps
  <2>3. CASE s.ok
    <3>1. /\ Known(s, Destination, infos[k].ttype)
          /\ infos[k].colnum \in 1 .. Len(s.cols[Source])
      BY DEF Known
    <3>2. new.ok \/ new.fault
      BY <2>1, <2>3, <3>1, CellsCopiedOutcome
    <3> HIDE DEF new
    <3>3. new \in I
      BY <2>2, <3>2 DEF Kept
    <3> QED
      BY <3>3 DEF CellsCopying, new
  <2>4. CASE ~ s.ok
    BY <2>2, <2>4 DEF CellsCopying
  <2> QED
    BY <2>3, <2>4
<1> HIDE DEF I
<1>3. CopyingCells!Fold({}, st, infos) \in I
  BY <1>1, <1>2, CopyingCells!FoldInvariant
<1>4. FoldLeft(CellsCopied, st, infos) \in I
  BY <1>3, CellsCopiedIsFold
<1> QED
  BY <1>4 DEF I

LEMMA ThinnedOn ==
    ASSUME NEW cs, NEW cells, NEW mid, NEW midCells, NEW later, NEW laterCells, NEW names,
           Thinned(cs, cells, mid, midCells, names),
           Thinned(mid, midCells, later, laterCells, names)
    PROVE  Thinned(cs, cells, later, laterCells, names)
<1> DEFINE A == DOMAIN cs
           B == DOMAIN mid
           C == DOMAIN later
           rows == DOMAIN cells
<1>1. PICK f \in [B -> A] :
        /\ \A m, n \in B : m < n => f[m] < f[n]
        /\ \A n \in B : mid[n] = cs[f[n]] /\ \A i \in rows : midCells[i][n] = cells[i][f[n]]
        /\ \A m \in A : cs[m].name \in names \/ \E n \in B : f[n] = m
  BY DEF Thinned
<1>2. DOMAIN midCells = rows /\ DOMAIN laterCells = rows
  BY DEF Thinned
<1>3. PICK g \in [C -> B] :
        /\ \A m, n \in C : m < n => g[m] < g[n]
        /\ \A n \in C : later[n] = mid[g[n]] /\ \A i \in rows : laterCells[i][n] = midCells[i][g[n]]
        /\ \A m \in B : mid[m].name \in names \/ \E n \in C : g[n] = m
  BY <1>2 DEF Thinned
<1> HIDE DEF A, B, C, rows
<1> DEFINE h == [n \in C |-> f[g[n]]]
<1>4. \A n \in C : g[n] \in B /\ h[n] = f[g[n]] /\ h[n] \in A
  OBVIOUS
<1>5. h \in [C -> A]
  BY <1>4
<1> HIDE DEF h
<1>6. \A m, n \in C : m < n => h[m] < h[n]
  BY <1>1, <1>3, <1>4
<1>7. \A n \in C : later[n] = cs[h[n]] /\ \A i \in rows : laterCells[i][n] = cells[i][h[n]]
  BY <1>1, <1>3, <1>4
<1>8. ASSUME NEW m \in A, cs[m].name \notin names
      PROVE  \E n \in C : h[n] = m
  <2>1. PICK l \in B : f[l] = m
    BY <1>1, <1>8
  <2>2. mid[l].name \notin names
    BY <1>1, <1>8, <2>1
  <2>3. PICK n \in C : g[n] = l
    BY <1>3, <2>2
  <2> QED
    BY <1>4, <2>1, <2>3
<1> QED
  BY <1>2, <1>5, <1>6, <1>7, <1>8 DEF Thinned, A, C, rows

LEMMA ThinnedNot ==
    ASSUME NEW cs, DOMAIN cs \subseteq Int, NEW cells, NEW names
    PROVE  Thinned(cs, cells, cs, cells, names)
<1> DEFINE D == DOMAIN cs
           at == [n \in D |-> n]
<1> HIDE DEF D
<1>1. at \in [D -> D]
  OBVIOUS
<1>2. \A n \in D : at[n] = n
  OBVIOUS
<1> HIDE DEF at
<1>3. /\ \A m, n \in D : m < n => at[m] < at[n]
      /\ \A n \in D : cs[n] = cs[at[n]] /\ \A i \in DOMAIN cells : cells[i][n] = cells[i][at[n]]
      /\ \A m \in D : cs[m].name \in names \/ \E n \in D : at[n] = m
  BY <1>2
<1> QED
  BY <1>1, <1>3 DEF Thinned, D

LEMMA ThinnedByDelete ==
    ASSUME NEW cs \in Seq(Column), NEW cells, NEW names,
           \A i \in DOMAIN cells : cells[i] \in Seq(AnyCell) /\ Len(cells[i]) = Len(cs),
           NEW k \in 1 .. Len(cs), cs[k].name \in names
    PROVE  Thinned(cs, cells, DeleteCol(cs, k), CellsWithout(cells, k), names)
<1> DEFINE left == DeleteCol(cs, k)
           later == CellsWithout(cells, k)
           at == [n \in 1 .. Len(cs) - 1 |-> IF n < k THEN n ELSE n + 1]
<1>1. Len(cs) \in Nat /\ DOMAIN cs = 1 .. Len(cs)
  BY LenProperties
<1>2. /\ left \in Seq(Column) /\ Len(left) = Len(cs) - 1
      /\ \A j \in 1 .. k - 1 : left[j] = cs[j]
      /\ \A j \in k .. Len(cs) - 1 : left[j] = cs[j + 1]
  BY RemoveAtElements DEF DeleteCol, Shrinks
<1>3. DOMAIN left = 1 .. Len(cs) - 1
  BY <1>2, LenProperties
<1>4. DOMAIN later = DOMAIN cells /\ \A i \in DOMAIN cells : later[i] = DeleteCol(cells[i], k)
  BY DEF CellsWithout
<1> HIDE DEF left, later
<1>5. ASSUME NEW i \in DOMAIN cells
      PROVE  /\ \A j \in 1 .. k - 1 : later[i][j] = cells[i][j]
             /\ \A j \in k .. Len(cs) - 1 : later[i][j] = cells[i][j + 1]
  <2> DEFINE row == cells[i]
             short == RemoveAt(row, k)
  <2> HIDE DEF row
  <2>1. row \in Seq(AnyCell) /\ Len(row) = Len(cs) /\ k \in 1 .. Len(row)
    BY DEF row
  <2>2. Shrinks(short, row, k, AnyCell)
    BY <2>1, RemoveAtElements
  <2>3. later[i] = short
    BY <1>4 DEF DeleteCol, row
  <2> HIDE DEF short
  <2> QED
    BY <2>1, <2>2, <2>3 DEF Shrinks, row
<1>6. ASSUME NEW n \in 1 .. Len(cs) - 1
      PROVE  /\ at[n] \in 1 .. Len(cs) /\ left[n] = cs[at[n]]
             /\ \A i \in DOMAIN cells : later[i][n] = cells[i][at[n]]
  <2>1. CASE n < k
    <3>1. at[n] = n /\ n \in 1 .. k - 1 /\ n \in 1 .. Len(cs)
      BY <1>1, <2>1
    <3> HIDE DEF at
    <3> QED
      BY <1>2, <1>5, <3>1
  <2>2. CASE ~ (n < k)
    <3>1. at[n] = n + 1 /\ n \in k .. Len(cs) - 1 /\ n + 1 \in 1 .. Len(cs)
      BY <1>1, <2>2
    <3> HIDE DEF at
    <3> QED
      BY <1>2, <1>5, <3>1
  <2> QED
    BY <2>1, <2>2
<1>7. at \in [1 .. Len(cs) - 1 -> 1 .. Len(cs)]
  BY <1>6
<1>8. \A m, n \in 1 .. Len(cs) - 1 : m < n => at[m] < at[n]
  OBVIOUS
<1>9. ASSUME NEW m \in 1 .. Len(cs), m # k
      PROVE  \E n \in 1 .. Len(cs) - 1 : at[n] = m
  <2>1. CASE m < k
    <3>1. m \in 1 .. Len(cs) - 1 /\ at[m] = m
      BY <1>1, <2>1
    <3> QED
      BY <3>1
  <2>2. CASE ~ (m < k)
    <3>1. m - 1 \in 1 .. Len(cs) - 1 /\ at[m - 1] = m
      BY <1>1, <1>9, <2>2
    <3> QED
      BY <3>1
  <2> QED
    BY <2>1, <2>2
<1> HIDE DEF at
<1>10. at \in [DOMAIN left -> DOMAIN cs] /\ \A m, n \in DOMAIN left : m < n => at[m] < at[n]
  BY <1>1, <1>3, <1>7, <1>8
<1>11. \A n \in DOMAIN left : /\ left[n] = cs[at[n]]
                              /\ \A i \in DOMAIN cells : later[i][n] = cells[i][at[n]]
  BY <1>3, <1>6
<1>12. \A m \in DOMAIN cs : cs[m].name \in names \/ \E n \in DOMAIN left : at[n] = m
  BY <1>1, <1>3, <1>9
<1>13. Thinned(cs, cells, left, later, names)
  BY <1>4, <1>10, <1>11, <1>12 DEF Thinned
<1> QED
  BY <1>13 DEF left, later

\* No column of a table has the name, so that CFITSIO finds none.
Lacks(cs, name) == \A n \in DOMAIN cs : cs[n].name # name

LEMMA LackedIsNotFound ==
    ASSUME NEW cs \in Seq(Column), NEW name, Lacks(cs, name)
    PROVE  ~ Found(cs, name)
<1>1. DOMAIN cs = 1 .. Len(cs)
  BY LenProperties
<1> QED
  BY <1>1 DEF Found, IsColnum, ColumnsNamed, Lacks

LEMMA NotFoundIsLacked ==
    ASSUME NEW cs \in Seq(Column), Distinct(NamesOf(cs)), NEW name, ~ Found(cs, name)
    PROVE  Lacks(cs, name)
<1>1. DOMAIN cs = 1 .. Len(cs)
  BY LenProperties
<1> SUFFICES ASSUME NEW n \in DOMAIN cs, cs[n].name = name PROVE FALSE
  BY DEF Lacks
<1>2. \A m \in DOMAIN cs : m # n => cs[m].name # name
  BY DEF Distinct, NamesOf
<1>3. ColumnsNamed(cs, name) = {n}
  BY <1>1, <1>2 DEF ColumnsNamed
<1> QED
  BY <1>1, <1>3 DEF Found, IsColnum

\* What is thinned has no names which were not there, and none twice.
LEMMA ThinnedNames ==
    ASSUME NEW cs \in Seq(Column), Distinct(NamesOf(cs)), NEW cells, NEW later \in Seq(Column),
           NEW laterCells, NEW names, Thinned(cs, cells, later, laterCells, names)
    PROVE  /\ Distinct(NamesOf(later))
           /\ \A name : Lacks(cs, name) => Lacks(later, name)
<1>1. DOMAIN cs = 1 .. Len(cs) /\ DOMAIN later = 1 .. Len(later)
      /\ Len(cs) \in Nat /\ Len(later) \in Nat
  BY LenProperties
<1>2. PICK at \in [DOMAIN later -> DOMAIN cs] :
        /\ \A m, n \in DOMAIN later : m < n => at[m] < at[n]
        /\ \A n \in DOMAIN later : later[n] = cs[at[n]]
  BY DEF Thinned
<1>3. ASSUME NEW m \in DOMAIN later, NEW n \in DOMAIN later, m # n
      PROVE  later[m].name # later[n].name
  <2>1. m < n \/ n < m
    BY <1>1, <1>3
  <2>2. at[m] \in Int /\ at[n] \in Int /\ at[m] # at[n]
    BY <1>1, <1>2, <2>1
  <2>3. at[m] \in DOMAIN cs /\ at[n] \in DOMAIN cs
    BY <1>2
  <2>4. cs[at[m]].name # cs[at[n]].name
    BY <2>2, <2>3 DEF Distinct, NamesOf
  <2> QED
    BY <1>2, <2>4
<1>4. Distinct(NamesOf(later))
  BY <1>3 DEF Distinct, NamesOf
<1> QED
  BY <1>2, <1>4 DEF Lacks

\* What the requests of a copy have done to the destination, when k of them are done.
Cleared(base, names, mode, k, st) ==
    /\ Kept(st)
    /\ Thinned(base.cols[Destination], base.data[Destination],
               st.cols[Destination], st.data[Destination], {names[j] : j \in DOMAIN names})
    /\ mode = "Replace" /\ st.ok => \A j \in 1 .. k : Lacks(st.cols[Destination], names[j])

LEMMA SameIsThinned ==
    ASSUME NEW st, Kept(st), NEW new, NEW names,
           new.cols[Destination] = st.cols[Destination], new.data[Destination] = st.data[Destination]
    PROVE  Thinned(st.cols[Destination], st.data[Destination],
                   new.cols[Destination], new.data[Destination], names)
<1>1. DOMAIN st.cols[Destination] \subseteq Int
  BY BothTables, ColumnsOf DEF Kept
<1> QED
  BY <1>1, ThinnedNot

\* Deleting the only column of a name leaves none, and takes no other.
LEMMA DeletedByNameClears ==
    ASSUME NEW st, Kept(st), Distinct(NamesOf(st.cols[Destination])),
           NEW names, NEW name \in names, NEW info \in Info
    PROVE  LET new == DeletedByName(st, name, info)
           IN  /\ Thinned(st.cols[Destination], st.data[Destination],
                          new.cols[Destination], new.data[Destination], names)
               /\ new.ok => Lacks(new.cols[Destination], name)
<1> DEFINE new == DeletedByName(st, name, info)
           spent == Spend(st)
           k == Colinfo(st, Destination, name).colnum
           without == WithoutColumn(spent, Destination, k)
           cs == st.cols[Destination]
           cells == st.data[Destination]
<1>1. st \in State
  BY DEF Kept
<1>2. CASE ~ Known(st, Destination, name) \/ Fails(st)
  <2>1. new \in {Throw(st), Fault(st)}
    BY <1>2 DEF DeletedByName
  <2> HIDE DEF new
  <2>2. new.cols = st.cols /\ new.data = st.data /\ ~ new.ok
    BY <1>1, <2>1, ProgressKeeps DEF SameTables
  <2>3. Thinned(cs, cells, new.cols[Destination], new.data[Destination], names)
    BY <2>2, SameIsThinned
  <2> QED
    BY <2>2, <2>3 DEF new
<1>3. CASE Known(st, Destination, name) /\ ~ Fails(st)
  <2>1. new = ToInsert(without, info)
    BY <1>3 DEF DeletedByName
  <2>2. /\ Kept(spent) /\ spent.cols = st.cols /\ spent.data = st.data
    BY <1>1, ProgressIsKept, ProgressKeeps DEF SameTables
  <2>3. k \in 1 .. Len(cs) /\ cs[k].name = name
    BY <1>3, BothTables, KnownColumn
  <2> HIDE DEF new, spent, k
  <2>4. /\ without.cols[Destination] = DeleteCol(cs, k)
        /\ without.data[Destination] = CellsWithout(cells, k)
        /\ without \in State
    BY <2>2, <2>3, BothTables, WithoutColumnTables, WithoutColumnIsKept DEF Kept
  <2> HIDE DEF without
  <2>5. new.cols = without.cols /\ new.data = without.data
    BY <2>1, <2>4, RequestKeeps DEF SameTables
  <2>6. /\ cs \in Seq(Column) /\ Len(cs) \in Nat /\ DOMAIN cs = 1 .. Len(cs)
        /\ DOMAIN cells = 1 .. Len(cells)
        /\ \A i \in DOMAIN cells : cells[i] \in Seq(AnyCell) /\ Len(cells[i]) = Len(cs)
    BY <1>1, BothTables, ColumnsOf, CellsOf DEF Kept, Rectangular
  <2> HIDE DEF cs, cells
  <2>7. Thinned(cs, cells, DeleteCol(cs, k), CellsWithout(cells, k), names)
    BY <2>3, <2>6, ThinnedByDelete
  <2>8. Lacks(DeleteCol(cs, k), name)
    <3> DEFINE left == RemoveAt(cs, k)
    <3>0. Shrinks(left, cs, k, Column)
      BY <2>3, <2>6, RemoveAtElements
    <3> HIDE DEF left
    <3>1. /\ left \in Seq(Column) /\ Len(left) = Len(cs) - 1
          /\ \A j \in 1 .. k - 1 : left[j] = cs[j]
          /\ \A j \in k .. Len(cs) - 1 : left[j] = cs[j + 1]
      BY <3>0 DEF Shrinks
    <3>2. DOMAIN left = 1 .. Len(cs) - 1
      BY <3>1, LenProperties
    <3>3. \A m \in 1 .. Len(cs) : m # k => cs[m].name # name
      BY <2>3, <2>6 DEF Distinct, NamesOf, cs
    <3>4. ASSUME NEW j \in 1 .. Len(cs) - 1
          PROVE  left[j].name # name
      <4>1. CASE j < k
        <5>1. j \in 1 .. k - 1 /\ j \in 1 .. Len(cs) /\ j # k
          BY <2>3, <2>6, <4>1
        <5> QED
          BY <3>1, <3>3, <5>1
      <4>2. CASE ~ (j < k)
        <5>1. j \in k .. Len(cs) - 1 /\ j + 1 \in 1 .. Len(cs) /\ j + 1 # k
          BY <2>3, <2>6, <4>2
        <5> QED
          BY <3>1, <3>3, <5>1
      <4> QED
        BY <4>1, <4>2
    <3> QED
      BY <3>2, <3>4 DEF Lacks, DeleteCol, left
  <2> QED
    BY <2>4, <2>5, <2>7, <2>8 DEF new, cs, cells
<1> QED
  BY <1>2, <1>3

\* A request deletes the column it is to replace and no other.
LEMMA RequestedClears ==
    ASSUME NEW st, Kept(st), Distinct(NamesOf(st.cols[Destination])),
           NEW names \in SUBSET Names, NEW name \in names, NEW mode
    PROVE  LET new == Requested(st, name, mode)
           IN  /\ Thinned(st.cols[Destination], st.data[Destination],
                          new.cols[Destination], new.data[Destination], names)
               /\ mode = "Replace" /\ new.ok => Lacks(new.cols[Destination], name)
<1> DEFINE new == Requested(st, name, mode)
           info == Colinfo(st, Source, name)
           there == MovedTo(st, Source)
           seen == Noted(there, info)
           noted == MovedTo(seen, Destination)
           cs == st.cols[Destination]
           cells == st.data[Destination]
<1>1. st \in State
  BY DEF Kept
<1>2. Kept(there) /\ there \in State /\ SameTables(st, there)
  BY <1>1, BothTables, MovedToIsKept, MovedToKeeps
<1> HIDE DEF there
<1>3. CASE ~ Known(st, Source, name)
  <2>1. new = Throw(there)
    BY <1>3 DEF Requested, there
  <2>2. new.cols = st.cols /\ new.data = st.data /\ ~ new.ok
    BY <1>2, <2>1, ProgressKeeps DEF SameTables
  <2> HIDE DEF new
  <2>3. Thinned(cs, cells, new.cols[Destination], new.data[Destination], names)
    BY <2>2, SameIsThinned
  <2> QED
    BY <2>2, <2>3 DEF new
<1>4. CASE Known(st, Source, name)
  <2>1. info \in Info
    BY <1>4, BothTables, KnownColumn
  <2> HIDE DEF info
  <2>2. Kept(seen) /\ seen \in State /\ SameTables(there, seen)
    BY <1>2, <2>1, RequestKeeps, RequestIsKept
  <2> HIDE DEF seen
  <2>3. Kept(noted) /\ noted \in State /\ SameTables(seen, noted)
    BY <2>2, BothTables, MovedToIsKept, MovedToKeeps
  <2> HIDE DEF noted
  <2>4. noted.cols = st.cols /\ noted.data = st.data
    BY <1>2, <2>2, <2>3 DEF SameTables
  <2>5. CASE Found(cs, name) /\ mode = "Replace"
    <3>1. new = DeletedByName(noted, name, info)
      BY <1>4, <2>5 DEF Requested, noted, seen, there, info
    <3> HIDE DEF new
    <3>2. /\ Thinned(cs, cells, new.cols[Destination], new.data[Destination], names)
          /\ new.ok => Lacks(new.cols[Destination], name)
      BY <2>1, <2>3, <2>4, <3>1, DeletedByNameClears
    <3> QED
      BY <3>2 DEF new
  <2>6. CASE ~ (Found(cs, name) /\ mode = "Replace")
    <3>1. new \in {ToInsert(noted, info), noted, Throw(noted)}
      BY <1>4, <2>6 DEF Requested, noted, seen, there, info
    <3> HIDE DEF new
    <3>2. new.cols = st.cols /\ new.data = st.data
      BY <2>1, <2>3, <2>4, <3>1, RequestKeeps, ProgressKeeps DEF SameTables
    <3>3. Thinned(cs, cells, new.cols[Destination], new.data[Destination], names)
      BY <3>2, SameIsThinned
    <3>4. ASSUME mode = "Replace"
          PROVE  Lacks(cs, name)
      <4>1. cs \in Seq(Column)
        BY <1>1, BothTables, ColumnsOf
      <4> QED
        BY <2>6, <3>4, <4>1, NotFoundIsLacked
    <3> QED
      BY <3>2, <3>3, <3>4 DEF new
  <2> QED
    BY <2>5, <2>6
<1> QED
  BY <1>3, <1>4

LEMMA AllCleared ==
    ASSUME NEW base, Kept(base), Distinct(NamesOf(base.cols[Destination])),
           NEW names \in Seq(Names), NEW mode
    PROVE  Cleared(base, names, mode, Len(names), Asked(base, names, mode))
<1> DEFINE J == {p \in (0 .. Len(names)) \X State : Cleared(base, names, mode, p[1], p[2])}
           named == {names[j] : j \in DOMAIN names}
           cs == base.cols[Destination]
           cells == base.data[Destination]
<1>1. /\ Len(names) \in Nat /\ base \in State /\ cs \in Seq(Column)
      /\ DOMAIN names = 1 .. Len(names) /\ \A j \in 1 .. Len(names) : names[j] \in Names
  BY LenProperties, ElementOfSeq, BothTables, ColumnsOf DEF Kept
<1>2. <<0, base>> \in J
  BY <1>1, SameIsThinned DEF Cleared
<1>3. ASSUME NEW k \in 1 .. Len(names), NEW st, <<k - 1, st>> \in J
      PROVE  <<k, Requesting(mode, st, names[k])>> \in J
  <2> DEFINE new == Requesting(mode, st, names[k])
             mid == st.cols[Destination]
  <2>1. /\ Kept(st) /\ Thinned(cs, cells, mid, st.data[Destination], named)
        /\ mode = "Replace" /\ st.ok => \A j \in 1 .. k - 1 : Lacks(mid, names[j])
    BY <1>3 DEF Cleared
  <2>2. mid \in Seq(Column)
    BY <2>1, BothTables, ColumnsOf DEF Kept
  <2>3. Distinct(NamesOf(mid))
    BY <1>1, <2>1, <2>2, ThinnedNames
  <2>4. Cleared(base, names, mode, k, new)
    <3>1. CASE st.ok
      <4>1. new = Requested(st, names[k], mode)
        BY <3>1 DEF Requesting
      <4>2. names[k] \in named /\ names[k] \in Names /\ named \in SUBSET Names
        BY <1>1
      <4> HIDE DEF named
      <4>3. Kept(new)
        BY <2>1, <4>1, <4>2, RequestedKeeps
      <4>4. /\ Thinned(mid, st.data[Destination],
                       new.cols[Destination], new.data[Destination], named)
            /\ mode = "Replace" /\ new.ok => Lacks(new.cols[Destination], names[k])
        BY <2>1, <2>3, <4>1, <4>2, RequestedClears
      <4> HIDE DEF new
      <4>5. new.cols[Destination] \in Seq(Column)
        BY <4>3, BothTables, ColumnsOf DEF Kept
      <4>6. Thinned(cs, cells, new.cols[Destination], new.data[Destination], named)
        BY <2>1, <4>4, ThinnedOn
      <4>7. \A name : Lacks(mid, name) => Lacks(new.cols[Destination], name)
        BY <2>2, <2>3, <4>4, <4>5, ThinnedNames
      <4>8. \A j \in 1 .. k : j = k \/ j \in 1 .. k - 1
        BY <1>1
      <4> QED
        BY <2>1, <3>1, <4>3, <4>4, <4>6, <4>7, <4>8 DEF Cleared, named
    <3>2. CASE ~ st.ok
      BY <2>1, <3>2 DEF Requesting, Cleared
    <3> QED
      BY <3>1, <3>2
  <2> HIDE DEF new
  <2>5. new \in State
    BY <2>4 DEF Cleared, Kept
  <2>6. <<k, new>> \in J
    BY <1>1, <2>4, <2>5
  <2> QED
    BY <2>6 DEF new
<1> HIDE DEF J
<1>4. <<Len(names), Asking!Fold(mode, base, names)>> \in J
  BY <1>2, <1>3, Asking!FoldInvariantAt
<1> QED
  BY <1>4, AskedIsFold DEF J

\* What a copy has done by the time at which it is refused.
RefusedAt(base, names, mode, st) ==
    /\ st.columns[Destination] = base.columns[Destination]
    /\ Thinned(base.cols[Destination], base.data[Destination],
               st.cols[Destination], st.data[Destination], {names[j] : j \in DOMAIN names})
    /\ mode # "Replace" => SameTables(base, st)

LEMMA RefusedBeforeChange ==
    ASSUME NEW base, Begun(base), ~ shared, NEW names \in Seq(Names), NEW mode,
           Distinct(names), Distinct(NamesOf(base.cols[Destination])),
           NEW extend, NEW last_counted \in TableObjects,
           NEW asked, asked = Asked(base, names, mode),
           NEW new, new = FoldLeft(CellsCopied,
                        Refreshed(RowsInserted(ColumnsInserted(asked), extend, last_counted)),
                        asked.source_info),
           ~ new.ok, ~ new.fault
    PROVE  RefusedAt(base, names, mode, new)
<1> DEFINE inserted == ColumnsInserted(asked)
           extended == RowsInserted(inserted, extend, last_counted)
           refreshed == Refreshed(extended)
           infos == asked.source_info
<1>1. AskedSoFar(base, names, mode, Len(names), asked)
  BY AllAsked
<1>2. /\ Kept(asked) /\ SourceKept(base, asked) /\ asked.columns = base.columns
      /\ mode # "Replace" => SameTables(base, asked)
  BY <1>1 DEF AskedSoFar
<1>2a. Cleared(base, names, mode, Len(names), asked)
  BY AllCleared DEF Begun
<1>3. infos \in Seq(Info) /\ asked.insert \in Seq(Info) /\ asked \in State
  BY <1>2 DEF Kept, State
<1>4. Kept(inserted) /\ Outcome(asked, inserted) /\ inserted.columns = asked.columns
      /\ SourceKept(asked, inserted)
      /\ (inserted.ok => inserted.cols[Destination]
                            = asked.cols[Destination] \o BareAll(asked.insert))
  BY <1>2, ColumnsInsertedKeeps, ColumnsInsertedOutcome
<1> HIDE DEF inserted
<1>5. Kept(extended) /\ Outcome(inserted, extended) /\ extended.columns = inserted.columns
      /\ extended.cols = inserted.cols
  BY <1>4, RowsInsertedKeeps, RowsInsertedOutcome
<1> HIDE DEF extended
<1>6. /\ Kept(refreshed) /\ Outcome(extended, refreshed)
      /\ refreshed.cols = extended.cols /\ refreshed.ok = extended.ok
      /\ extended.ok => refreshed.columns[Destination] = Descriptions(extended.cols[Destination])
  BY <1>5, RefreshedKeeps, RefreshedOutcome
<1> HIDE DEF refreshed, infos
<1>7. new = FoldLeft(CellsCopied, refreshed, infos)
  BY DEF refreshed, extended, inserted, infos
<1>8. ~ refreshed.ok => new = refreshed
  BY <1>3, <1>6, <1>7, AllCellsCopiedKeeps
<1>9. CASE ~ asked.ok
  <2>1. new = asked
    BY <1>4, <1>5, <1>6, <1>8, <1>9 DEF Outcome
  <2> QED
    BY <1>2, <1>2a, <2>1 DEF Cleared, RefusedAt
<1>10. CASE asked.ok
  <2>1. inserted.ok /\ extended.ok /\ refreshed.ok
    BY <1>4, <1>5, <1>6, <1>8, <1>10 DEF Outcome
  <2>2. /\ NotedAll(base, names, Len(names), asked)
        /\ InsertAsked(base, names, mode, Len(names), asked)
        /\ AskedIsMet(base, names, mode, Len(names), asked) /\ InsertOnce(names, asked)
    BY <1>1, <1>10 DEF AskedSoFar
  <2> DEFINE cs == asked.cols[Destination]
             ins == asked.insert
  <2>3. /\ cs \in Seq(Column) /\ base.cols[Destination] \in Seq(Column) /\ Kept(base)
        /\ base.columns[Source] = Descriptions(base.cols[Source])
    BY <1>2, BothTables, ColumnsOf DEF Begun, Kept
  <2>3a. /\ Distinct(NamesOf(cs))
         /\ mode # "Replace" => cs = base.cols[Destination]
         /\ mode = "Replace" => \A j \in 1 .. Len(names) : Lacks(cs, names[j])
    <3>1. Distinct(NamesOf(cs))
      BY <1>2a, <2>3, ThinnedNames DEF Cleared
    <3> QED
      BY <1>2, <1>2a, <1>10, <3>1 DEF Cleared, SameTables
  <2>4. refreshed.cols[Destination] = cs \o BareAll(ins)
    BY <1>4, <1>5, <1>6, <2>1
  <2>5. \A i, j \in 1 .. Len(ins) : i # j => ins[i].ttype # ins[j].ttype
    BY <2>2 DEF InsertOnce
  <2>6. ASSUME NEW i \in 1 .. Len(ins)
        PROVE  ~ Found(cs, ins[i].ttype)
    <3>1. PICK j \in 1 .. Len(names) :
            /\ ins[i] = Colinfo(base, Source, names[j])
            /\ mode # "Replace" => ~ Found(base.cols[Destination], names[j])
      BY <2>2 DEF InsertAsked
    <3>2. Known(base, Source, names[j])
      BY <2>2 DEF NotedAll
    <3>3. ins[i].ttype = names[j]
      BY <2>3, <3>1, <3>2, SourceInfo
    <3>4. ~ Found(cs, names[j])
      BY <2>3, <2>3a, <3>1, LackedIsNotFound
    <3> QED
      BY <3>3, <3>4
  <2>7. ASSUME NEW k \in 1 .. Len(infos)
        PROVE  /\ Known(refreshed, Destination, infos[k].ttype)
               /\ infos[k].colnum \in 1 .. Len(refreshed.cols[Source])
    <3> DEFINE name == names[k]
    <3>1. k \in 1 .. Len(names) /\ Known(base, Source, name)
          /\ infos[k] = Colinfo(base, Source, name)
      BY <2>2 DEF NotedAll, infos
    <3>2. PICK m \in 1 .. Len(base.cols[Source]) :
            infos[k].colnum = m /\ infos[k].ttype = name
      BY <2>3, <3>1, SourceInfo
    <3>3. refreshed.cols[Source] = base.cols[Source]
      BY <1>2, <1>4, <1>5, <1>6 DEF SourceKept
    <3>4. Found(cs, name) \/ \E i \in 1 .. Len(ins) : ins[i].ttype = name
      <4>1. \/ Found(cs, name)
            \/ \E i \in 1 .. Len(ins) : ins[i] = Colinfo(base, Source, name)
        BY <2>2, <2>3a, <3>1 DEF AskedIsMet
      <4>2. Colinfo(base, Source, name).ttype = name
        BY <3>1, <3>2
      <4> QED
        BY <4>1, <4>2
    <3>5. Found(refreshed.cols[Destination], name)
      <4> HIDE DEF cs, ins, name
      <4>1. Distinct(NamesOf(cs)) /\ ins \in Seq(Info)
        BY <1>3, <2>3a DEF ins
      <4>2. \A i \in 1 .. Len(ins) : ~ Found(cs, ins[i].ttype)
        BY <2>6
      <4>3. Found(cs \o BareAll(ins), name)
        BY <2>3, <2>5, <3>4, <4>1, <4>2, FoundAfterInsert
      <4> QED
        BY <2>4, <4>3
    <3>6. refreshed.columns[Destination] = Descriptions(refreshed.cols[Destination])
      BY <1>6, <2>1
    <3>7. Known(refreshed, Destination, name)
      BY <1>6, <3>5, <3>6, BothTables, FoundIsKnown
    <3> QED
      BY <3>2, <3>3, <3>7
  <2>8. new.ok \/ new.fault
    BY <1>3, <1>6, <1>7, <2>1, <2>7, CopyingCellsGoesThrough
  <2> QED
    BY <2>8
<1> QED
  BY <1>9, <1>10

LEMMA RefusalStep ==
    ASSUME Inv, Next, Copying, ~ last'.ok, ~ last'.fault, ~ shared, Described(Source),
           Distinct(last'.names), Distinct(NamesOf(cols[Destination]))
    PROVE  /\ UNCHANGED columns[Destination]
           /\ Thinned(cols[Destination], data[Destination],
                      cols'[Destination], data'[Destination],
                      {last'.names[k] : k \in DOMAIN last'.names})
           /\ last'.how.mode # "Replace" =>
                    UNCHANGED <<cols[Destination], data[Destination]>>
<1>1. PICK names \in Seq(Names), how \in Hows : Copy(names, how)
  BY CopyingIsCopy
<1>2. PICK calls \in Int, last_counted \in TableObjects :
            LET st == Copied(Before(calls), names, how, last_counted)
            IN  /\ Kept(Before(calls))
                /\ Become(IF names = <<>> THEN Now ELSE st)
                /\ last' = [op |-> "copy", names |-> names, how |-> how,
                            ok |-> st.ok \/ names = <<>>, fault |-> st.fault]
  BY <1>1, CopySteps
<1> DEFINE before == Before(calls)
           there == MovedTo(before, Source)
           base == MovedTo(there, Destination)
           asked == Asked(base, names, how.mode)
           st == FoldLeft(CellsCopied,
                    Refreshed(RowsInserted(ColumnsInserted(asked), how.extend, last_counted)),
                    asked.source_info)
<1>3. st = Copied(before, names, how, last_counted)
  BY DEF Copied
<1>4. /\ Become(IF names = <<>> THEN Now ELSE st)
      /\ last'.names = names /\ last'.how = how
      /\ last'.ok = (st.ok \/ names = <<>>) /\ last'.fault = st.fault
  BY <1>2, <1>3
<1>5. /\ before.cols = cols /\ before.data = data /\ before.columns = columns
      /\ before.source_info = <<>> /\ before.insert = <<>>
      /\ Kept(before) /\ before \in State
  BY <1>2 DEF Before, Kept
<1> HIDE DEF before
<1>6. Kept(there) /\ there \in State /\ SameTables(before, there) /\ SameProgress(before, there)
  BY <1>5, BothTables, MovedToIsKept, MovedToKeeps
<1> HIDE DEF there
<1>7. Kept(base) /\ SameTables(there, base) /\ SameProgress(there, base)
  BY <1>6, BothTables, MovedToIsKept, MovedToKeeps
<1> HIDE DEF base
<1>8. SameTables(before, base) /\ Begun(base)
  BY <1>5, <1>6, <1>7 DEF SameTables, SameProgress, Begun, Described
<1>9. Distinct(NamesOf(base.cols[Destination]))
  BY <1>5, <1>8 DEF SameTables
<1>10. RefusedAt(base, names, how.mode, st)
  <2> HIDE DEF asked
  <2>1. asked = Asked(base, names, how.mode)
    BY DEF asked
  <2> DEFINE new == st
  <2>2. new = FoldLeft(CellsCopied,
                Refreshed(RowsInserted(ColumnsInserted(asked), how.extend, last_counted)),
                asked.source_info)
    OBVIOUS
  <2>3. ~ new.ok /\ ~ new.fault /\ Distinct(names)
    BY <1>4
  <2> HIDE DEF new
  <2>4. RefusedAt(base, names, how.mode, new)
    BY <1>8, <1>9, <2>1, <2>2, <2>3, RefusedBeforeChange
  <2> QED
    BY <2>4 DEF new
<1> HIDE DEF st
<1>11. Become(st)
  BY <1>4
<1> QED
  BY <1>4, <1>5, <1>8, <1>10, <1>11 DEF RefusedAt, SameTables, Become

\* A copy from another file which throws although CFITSIO did all it was asked to has
\* inserted, written and described nothing; it has deleted columns it was to replace, at
\* most, and in the other modes nothing: it looks at all the names before it changes more.
THEOREM RefusedUntouched == Spec => RefusalOnlyDeletes
<1>1. Inv /\ [Next]_vars
        => [(/\ Copying /\ ~ last'.ok /\ ~ last'.fault /\ ~ shared /\ Described(Source)
             /\ Distinct(last'.names) /\ Distinct(NamesOf(cols[Destination])))
                => /\ UNCHANGED columns[Destination]
                   /\ Thinned(cols[Destination], data[Destination],
                              cols'[Destination], data'[Destination],
                              {last'.names[k] : k \in DOMAIN last'.names})
                   /\ last'.how.mode # "Replace" =>
                            UNCHANGED <<cols[Destination], data[Destination]>>]_vars
  BY RefusalStep
<1> QED
  BY <1>1, InvHolds, PTL DEF Spec, RefusalOnlyDeletes

-----------------------------------------------------------------------------
(***************************************************************************)
(* What a copy between two files brings over                               *)
(***************************************************************************)
\* A column whose description has the repeat count of its TFORM: its elements can
\* be counted in an int.
CountedColumn == {col \in Column : TformRepeat(CellExtent(col)) = col.repeat}

\* The tables begin with such columns.
CountsFit ==
    \A t \in TableObjects : \A cs \in InitialColumns[t] :
        \A n \in DOMAIN cs : Nelem(CellExtent(cs[n])) = cs[n].repeat

SourceIsCounted == cols[Source] \in Seq(CountedColumn)

LEMMA InitSource ==
    ASSUME CountsFit, Init
    PROVE  SourceIsCounted
<1>1. cols[Source] \in UNION {InitialColumns[t] : t \in TableObjects}
  BY BothTables DEF Init
<1>2. PICK t \in TableObjects : cols[Source] \in InitialColumns[t]
  BY <1>1
<1> DEFINE cs == cols[Source]
<1>3. cs \in Seq(Column)
  BY <1>2, InitialColumnsAssumption
<1>4. DOMAIN cs = 1 .. Len(cs) /\ Len(cs) \in Nat /\ \A n \in 1 .. Len(cs) : cs[n] \in Column
  BY <1>3, LenProperties, ElementOfSeq
<1>5. \A n \in 1 .. Len(cs) : Nelem(CellExtent(cs[n])) = cs[n].repeat
  BY <1>2, <1>4 DEF CountsFit
<1> HIDE DEF cs
<1>6. ASSUME NEW n \in 1 .. Len(cs)
      PROVE  cs[n] \in CountedColumn
  <2> DEFINE repeat == cs[n].repeat
             nelem == Nelem(CellExtent(cs[n]))
  <2>1. repeat \in Nat \ {0} /\ nelem = repeat
    BY <1>4, <1>5 DEF Column
  <2>2. TformRepeat(CellExtent(cs[n])) = IF nelem \in Nat \ {0, 1} THEN nelem ELSE 1
    BY DEF TformRepeat
  <2> HIDE DEF repeat, nelem
  <2>3. TformRepeat(CellExtent(cs[n])) = repeat
    BY <2>1, <2>2
  <2> QED
    BY <1>4, <2>3 DEF CountedColumn, repeat
<1>7. cs \in [1 .. Len(cs) -> CountedColumn]
  <2>1. cs = [n \in 1 .. Len(cs) |-> cs[n]]
    BY <1>3, <1>4
  <2> QED
    BY <1>6, <2>1
<1>8. cs \in Seq(CountedColumn)
  BY <1>4, <1>7, FunctionIsSeq
<1> QED
  BY <1>8 DEF SourceIsCounted, cs

\* Only the client's deletions touch the columns of the source.
LEMMA NextSource ==
    ASSUME Inv, SourceIsCounted, [Next]_vars
    PROVE  SourceIsCounted'
<1>1. Now \in State /\ Kept(Now) /\ Now.cols = cols
  BY DEF Inv, Kept, Now, Before
<1>2. ASSUME NEW t \in TableObjects, WriteRow(t)
      PROVE  SourceIsCounted'
  <2> DEFINE at == MovedTo(Now, t)
             new == [at EXCEPT !.data[t] =
                        Append(@, [n \in DOMAIN cols[t] |-> <<t, cols[t][n].name, Rows(at, t) + 1>>])]
  <2>1. Become(new)
    BY <1>2 DEF WriteRow
  <2>2. SameTables(Now, at) /\ at \in State
    BY <1>1, MovedToKeeps
  <2>3. new.cols = at.cols
    BY <2>2 DEF State
  <2> QED
    BY <1>1, <2>1, <2>2, <2>3 DEF Become, SameTables, SourceIsCounted
<1>3. ASSUME NEW t \in TableObjects, Flush(t)
      PROVE  SourceIsCounted'
  <2>1. AtChdu(Now, t) \in TableObjects
    BY <1>1 DEF AtChdu, State
  <2>2. SameTables(Now, Flushed(Now, t))
    BY <1>1, <2>1, SyncedKeeps DEF Flushed
  <2> QED
    BY <1>1, <1>3, <2>2 DEF Flush, Become, SameTables, SourceIsCounted
<1>4. ASSUME NEW t \in TableObjects, Become(MovedTo(Now, t))
      PROVE  SourceIsCounted'
  <2>1. SameTables(Now, MovedTo(Now, t))
    BY <1>1, MovedToKeeps
  <2> QED
    BY <1>1, <1>4, <2>1 DEF Become, SameTables, SourceIsCounted
<1>5. ASSUME NEW t \in TableObjects, NEW name \in Names, DeleteColumnByName(t, name)
      PROVE  SourceIsCounted'
  <2> DEFINE at == MovedTo(Now, t)
             n == Colinfo(Now, t, name).colnum
             new == WithoutColumn(at, t, n)
  <2>1. Known(Now, t, name) /\ Become(new)
    BY <1>5 DEF DeleteColumnByName
  <2>2. Kept(at) /\ SameTables(Now, at)
    BY <1>1, MovedToIsKept, MovedToKeeps
  <2>3. n \in 1 .. Len(Now.cols[t])
    BY <1>1, <2>1, KnownColumn
  <2> HIDE DEF at, n
  <2>4. n \in 1 .. Len(at.cols[t]) /\ at.cols = cols
    BY <1>1, <2>2, <2>3 DEF SameTables
  <2>5. new.cols[t] = DeleteCol(at.cols[t], n) /\ OthersKept(at, t, new)
    BY <2>2, <2>4, WithoutColumnTables
  <2> HIDE DEF new
  <2>6. CASE t = Source
    <3>1. DeleteCol(cols[Source], n) \in Seq(CountedColumn)
      BY <2>4, <2>6, RemoveAtProperties DEF DeleteCol, SourceIsCounted
    <3> QED
      BY <2>1, <2>4, <2>5, <2>6, <3>1 DEF Become, SourceIsCounted
  <2>7. CASE t # Source
    BY <2>1, <2>4, <2>5, <2>7, BothTables DEF Become, SourceIsCounted, OthersKept
  <2> QED
    BY <2>6, <2>7
<1>6. ASSUME NEW how, NEW names \in Seq(Names), Copy(names, how)
      PROVE  SourceIsCounted'
  <2>1. PICK calls \in Int, last_counted \in TableObjects :
            LET st == Copied(Before(calls), names, how, last_counted)
            IN  Kept(Before(calls)) /\ Become(IF names = <<>> THEN Now ELSE st)
    BY <1>6, CopySteps
  <2> DEFINE before == Before(calls)
             st == Copied(before, names, how, last_counted)
  <2>2. st.cols[Source] = before.cols[Source]
    BY <2>1, CopiedKeeps
  <2>3. before.cols = cols
    BY DEF Before
  <2>4. Become(IF names = <<>> THEN Now ELSE st)
    BY <2>1
  <2> HIDE DEF st, before
  <2> QED
    BY <1>1, <2>2, <2>3, <2>4 DEF Become, SourceIsCounted
<1>7. ASSUME NEW how, CopyAll(how)
      PROVE  SourceIsCounted'
  BY <1>4, <1>6, <1>7, BothTables, CopyAllIsCopy
<1>8. CASE UNCHANGED vars
  BY <1>8 DEF vars, SourceIsCounted
<1>9. ASSUME NEW t \in TableObjects, Query(t)
      PROVE  SourceIsCounted'
  BY <1>4, <1>9 DEF Query
<1> QED
  BY <1>2, <1>3, <1>5, <1>6, <1>7, <1>8, <1>9, NameListsAssumption DEF Next

\* What the cells of a column of the source are in the destination, wherever a column of
\* its name and layout takes them.
Arrived(st, info) ==
    \A n \in 1 .. Len(st.cols[Destination]) :
        /\ IsColnum(st.cols[Destination], info.ttype, n)
        /\ SameLayout(st.cols[Source][info.colnum], st.cols[Destination][n])
        => \A i \in 1 .. Len(st.data[Destination]) :
                i <= Len(st.data[Source]) =>
                    st.data[Destination][i][n] = st.data[Source][i][info.colnum]

\* The cells of all columns but those in the set are as they were.
CellsBut(st, new, ns) ==
    \A n \in 1 .. Len(st.cols[Destination]) : n \notin ns =>
        \A i \in 1 .. Len(st.data[Destination]) :
            new.data[Destination][i][n] = st.data[Destination][i][n]

LEMMA WrittenCells ==
    ASSUME NEW st, Kept(st), AllCounted(st),
           NEW m \in 1 .. Len(st.cols[Source]), NEW n \in 1 .. Len(st.cols[Destination]),
           NEW cells, cells = CellsWritten(st, Source, m, Destination, n),
           NEW i \in 1 .. Len(st.data[Destination])
    PROVE  /\ \A c \in 1 .. Len(st.cols[Destination]) : c # n => cells[i][c] = st.data[Destination][i][c]
           /\ SameLayout(st.cols[Source][m], st.cols[Destination][n]) /\ i <= Len(st.data[Source])
                => cells[i][n] = st.data[Source][i][m]
<1> DEFINE from == st.cols[Source][m]
           to == st.cols[Destination][n]
           c0 == IF SameLayout(from, to) THEN st.data[Source][i][m] ELSE Junk
           row == st.data[Destination][i]
           rows == RowsToCopy(st, Source, Destination)
<1>1. /\ row \in Seq(AnyCell) /\ Len(row) = Len(st.cols[Destination])
      /\ DOMAIN row = 1 .. Len(row)
      /\ i \in DOMAIN st.data[Destination]
      /\ Len(st.data[Source]) \in Nat /\ Len(st.data[Destination]) \in Nat
  BY BothTables, CellsOf, LenProperties DEF Kept, Rectangular
<1>2. cells[i] = IF i <= rows THEN [row EXCEPT ![n] = c0] ELSE row
  BY <1>1 DEF CellsWritten
<1>3. i <= Len(st.data[Source]) => i <= rows
  BY <1>1, BothTables DEF RowsToCopy, AllCounted
<1> HIDE DEF row, c0, rows
<1>4. \A c \in 1 .. Len(st.cols[Destination]) : c # n => cells[i][c] = row[c]
  BY <1>1, <1>2
<1>5. i <= rows => cells[i][n] = c0
  BY <1>1, <1>2
<1> QED
  BY <1>3, <1>4, <1>5 DEF row, c0

\* A column which is copied has arrived, and the others are as they were.
LEMMA CellsCopiedArrive ==
    ASSUME NEW st, Kept(st), ~ shared, AllCounted(st), NEW info \in Info,
           CellsCopied(st, info).ok
    PROVE  /\ st.ok /\ Known(st, Destination, info.ttype)
           /\ AllCounted(CellsCopied(st, info))
           /\ Len(CellsCopied(st, info).data[Destination]) = Len(st.data[Destination])
           /\ Arrived(CellsCopied(st, info), info)
           /\ \A n \in 1 .. Len(st.cols[Destination]) :
                IsColnum(st.cols[Destination], info.ttype, n)
                    => CellsBut(st, CellsCopied(st, info), {n})
<1> DEFINE new == CellsCopied(st, info)
           spent == Spend(st)
           m == info.colnum
           n == Colinfo(st, Destination, info.ttype).colnum
           cells == CellsWritten(spent, Source, m, Destination, n)
           with == WithCells(spent, Source, m, Destination, n)
<1>1. st \in State /\ DOMAIN st.cols[Source] = 1 .. Len(st.cols[Source])
  BY BothTables, ColumnsOf DEF Kept
<1>2. MovedTo(st, Destination) = st /\ AtChdu(st, Source) = Source
  BY DEF MovedTo, AtChdu
<1>3. ~ Fault(st).ok /\ ~ Throw(st).ok
  BY <1>1, ProgressKeeps
<1>4. st.ok
  BY DEF CellsCopied
<1>5. /\ Known(st, Destination, info.ttype) /\ m \in 1 .. Len(st.cols[Source])
      /\ new = with
  BY <1>1, <1>2, <1>3, <1>4 DEF CellsCopied
<1>6. /\ Kept(spent) /\ spent \in State /\ SameTables(st, spent) /\ spent.naxis2 = st.naxis2
  BY <1>1, ProgressIsKept, ProgressKeeps
<1>7. n \in 1 .. Len(st.cols[Destination]) /\ IsColnum(st.cols[Destination], info.ttype, n)
  BY <1>5, BothTables, KnownColumn
<1> HIDE DEF spent, n, m, new
<1>8. /\ m \in 1 .. Len(spent.cols[Source]) /\ n \in 1 .. Len(spent.cols[Destination])
      /\ AllCounted(spent)
  BY <1>5, <1>6, <1>7 DEF SameTables, AllCounted
<1>9. cells \in Seq(Seq(AnyCell)) /\ Len(cells) = Len(spent.data[Destination])
  BY <1>6, <1>8, BothTables, CellsWrittenAreCells
<1>10. /\ with.cols = spent.cols /\ with.naxis2 = spent.naxis2
       /\ with.data = [spent.data EXCEPT ![Destination] = cells]
  BY <1>6, <1>9, BothTables, WithCellsKeeps
<1>11. \A i \in 1 .. Len(spent.data[Destination]) :
        /\ \A c \in 1 .. Len(spent.cols[Destination]) :
                c # n => cells[i][c] = spent.data[Destination][i][c]
        /\ SameLayout(spent.cols[Source][m], spent.cols[Destination][n])
                /\ i <= Len(spent.data[Source])
             => cells[i][n] = spent.data[Source][i][m]
  BY <1>6, <1>8, WrittenCells
<1> HIDE DEF with, cells
<1>12. /\ new.data[Destination] = cells /\ new.data[Source] = st.data[Source]
       /\ new.cols = st.cols /\ new.naxis2 = st.naxis2
  BY <1>5, <1>6, <1>10, BothTables, TablesAssumption DEF State, SameTables
<1>13. Len(new.data[Destination]) = Len(st.data[Destination])
  BY <1>6, <1>9, <1>12 DEF SameTables
<1>14. AllCounted(new)
  <2>1. \A t \in TableObjects : t \in {Source, Destination}
    BY DEF TableObjects
  <2> QED
    BY <1>12, <1>13, <2>1 DEF AllCounted
<1>15. \A c \in 1 .. Len(st.cols[Destination]) :
            IsColnum(st.cols[Destination], info.ttype, c) => c = n
  BY <1>7 DEF IsColnum
<1>16. CellsBut(st, new, {n})
  BY <1>6, <1>11, <1>12 DEF CellsBut, SameTables
<1>17. Arrived(new, info)
  <2> SUFFICES ASSUME NEW i \in 1 .. Len(st.data[Destination]), i <= Len(st.data[Source]),
                      SameLayout(st.cols[Source][m], st.cols[Destination][n])
               PROVE  new.data[Destination][i][n] = st.data[Source][i][m]
    BY <1>12, <1>13, <1>15 DEF Arrived, m
  <2> QED
    BY <1>6, <1>11, <1>12 DEF SameTables
<1>18. \A c \in 1 .. Len(st.cols[Destination]) :
            IsColnum(st.cols[Destination], info.ttype, c) => CellsBut(st, new, {c})
  BY <1>15, <1>16
<1> QED
  BY <1>4, <1>5, <1>13, <1>14, <1>17, <1>18 DEF new

\* Copies of a column to one place are copies of one column.
OneSource(infos) ==
    \A j, k \in 1 .. Len(infos) :
        infos[j].ttype = infos[k].ttype => infos[j].colnum = infos[k].colnum

\* What the copies of the cells of the first k columns have come to.
ArrivedSoFar(base, infos, k, st) ==
    /\ Kept(st) /\ AllCounted(st) /\ st.cols = base.cols /\ st.columns = base.columns
    /\ st.data[Source] = base.data[Source]
    /\ Len(st.data[Destination]) = Len(base.data[Destination])
    /\ \A j \in 1 .. k : Known(st, Destination, infos[j].ttype) /\ Arrived(st, infos[j])

LEMMA ArrivedStep ==
    ASSUME NEW base, NEW infos \in Seq(Info), OneSource(infos), ~ shared,
           NEW k \in 1 .. Len(infos), NEW st, ArrivedSoFar(base, infos, k - 1, st),
           CellsCopied(st, infos[k]).ok
    PROVE  ArrivedSoFar(base, infos, k, CellsCopied(st, infos[k]))
<1> DEFINE info == infos[k]
           new == CellsCopied(st, info)
<1>1. info \in Info
  BY ElementOfSeq
<1>2. Kept(st) /\ AllCounted(st)
  BY DEF ArrivedSoFar
<1>3. /\ Kept(new) /\ new.cols = st.cols /\ new.data[Source] = st.data[Source]
      /\ new.columns = st.columns
  BY <1>1, <1>2, CellsCopiedKeeps
<1>4. /\ Known(st, Destination, info.ttype) /\ AllCounted(new)
      /\ Len(new.data[Destination]) = Len(st.data[Destination])
      /\ Arrived(new, info)
      /\ \A n \in 1 .. Len(st.cols[Destination]) :
            IsColnum(st.cols[Destination], info.ttype, n) => CellsBut(st, new, {n})
  BY <1>1, <1>2, CellsCopiedArrive
<1> HIDE DEF new
<1>5. PICK c \in 1 .. Len(st.cols[Destination]) :
            /\ IsColnum(st.cols[Destination], info.ttype, c)
            /\ st.cols[Destination][c].name = info.ttype
  BY <1>2, <1>4, BothTables, KnownColumn
<1>6. CellsBut(st, new, {c})
  BY <1>4, <1>5
<1>7. ASSUME NEW j \in 1 .. k
      PROVE  Known(new, Destination, infos[j].ttype) /\ Arrived(new, infos[j])
  <2>1. CASE j = k
    BY <1>3, <1>4, <2>1 DEF Known
  <2>2. CASE j # k
    <3>1. j \in 1 .. k - 1 /\ j \in 1 .. Len(infos)
      BY <2>2, LenProperties
    <3>2. Known(st, Destination, infos[j].ttype) /\ Arrived(st, infos[j])
      BY <3>1 DEF ArrivedSoFar
    <3>3. Known(new, Destination, infos[j].ttype)
      BY <1>3, <3>2 DEF Known
    <3>4. CASE infos[j].ttype = info.ttype
      <4>1. infos[j].colnum = info.colnum
        BY <3>1, <3>4 DEF OneSource
      <4> HIDE DEF info
      <4>2. Arrived(new, infos[j])
        BY <1>4, <3>4, <4>1 DEF Arrived
      <4> QED
        BY <3>3, <4>2
    <3>5. CASE infos[j].ttype # info.ttype
      <4>1. \A n \in 1 .. Len(st.cols[Destination]) :
                IsColnum(st.cols[Destination], infos[j].ttype, n) => n # c
        BY <1>5, <3>5 DEF IsColnum, ColumnsNamed
      <4>2. \A n \in 1 .. Len(st.cols[Destination]) :
                IsColnum(st.cols[Destination], infos[j].ttype, n) =>
                    \A i \in 1 .. Len(st.data[Destination]) :
                        new.data[Destination][i][n] = st.data[Destination][i][n]
        BY <1>6, <4>1 DEF CellsBut
      <4>3. Arrived(new, infos[j])
        BY <1>3, <1>4, <3>2, <4>2 DEF Arrived
      <4> QED
        BY <3>3, <4>3
    <3> QED
      BY <3>4, <3>5
  <2> QED
    BY <2>1, <2>2
<1>8. ArrivedSoFar(base, infos, k, new)
  BY <1>3, <1>4, <1>7 DEF ArrivedSoFar
<1> QED
  BY <1>8 DEF new

\* Cells which have all been copied without an exception have all arrived.
LEMMA AllArrived ==
    ASSUME NEW base, Kept(base), AllCounted(base), ~ shared,
           NEW infos \in Seq(Info), OneSource(infos),
           FoldLeft(CellsCopied, base, infos).ok
    PROVE  ArrivedSoFar(base, infos, Len(infos), FoldLeft(CellsCopied, base, infos))
<1> DEFINE J == {p \in (0 .. Len(infos)) \X State :
                    Kept(p[2]) /\ (p[2].ok => ArrivedSoFar(base, infos, p[1], p[2]))}
<1>1. Len(infos) \in Nat /\ base \in State
  BY LenProperties DEF Kept
<1>2. <<0, base>> \in J
  BY <1>1 DEF ArrivedSoFar
<1>3. ASSUME NEW k \in 1 .. Len(infos), NEW st, <<k - 1, st>> \in J
      PROVE  <<k, CellsCopying({}, st, infos[k])>> \in J
  <2> DEFINE new == CellsCopied(st, infos[k])
  <2>1. Kept(st) /\ (st.ok => ArrivedSoFar(base, infos, k - 1, st)) /\ infos[k] \in Info
    BY <1>3, ElementOfSeq
  <2>2. Kept(new) /\ (~ st.ok => new = st)
    BY <2>1, CellsCopiedKeeps
  <2>3. new.ok => ArrivedSoFar(base, infos, k, new)
    BY <2>1, <2>2, ArrivedStep
  <2> HIDE DEF new
  <2>4. <<k, new>> \in J
    BY <1>1, <2>2, <2>3 DEF Kept
  <2> QED
    BY <2>4 DEF new, CellsCopying
<1> HIDE DEF J
<1>4. <<Len(infos), CopyingCells!Fold({}, base, infos)>> \in J
  BY <1>2, <1>3, CopyingCells!FoldInvariantAt
<1>5. <<Len(infos), FoldLeft(CellsCopied, base, infos)>> \in J
  BY <1>4, CellsCopiedIsFold
<1> QED
  BY <1>5 DEF J

\* What a copy which goes through has done for the column of one of its names.
BroughtOver(base, mode, extend, name, m, new) ==
    \E n \in 1 .. Len(new.cols[Destination]) :
        /\ IsColnum(new.cols[Destination], name, n)
        /\ \/ mode = "OverWrite" /\ Found(base.cols[Destination], name)
           \/ SameLayout(base.cols[Source][m], new.cols[Destination][n])
        /\ SameLayout(base.cols[Source][m], new.cols[Destination][n]) =>
                \A i \in 1 .. Len(new.data[Destination]) :
                    i <= Len(base.data[Source]) =>
                        new.data[Destination][i][n] = base.data[Source][i][m]
        /\ extend = "ExtendTable" => Len(base.data[Source]) <= Len(new.data[Destination])

\* The column which CFITSIO makes of a description has the layout of the column
\* described.
LEMMA BareIsAlike ==
    ASSUME NEW col \in CountedColumn, NEW m
    PROVE  SameLayout(col, Bare(Describe(col, m)))
BY DEF CountedColumn, SameLayout, Bare, Describe, NewColumn

LEMMA BroughtOverByCopy ==
    ASSUME NEW base, Begun(base), AllCounted(base), ~ shared,
           base.cols[Source] \in Seq(CountedColumn),
           NEW names \in Seq(Names), NEW mode, NEW extend, NEW last_counted \in TableObjects,
           NEW asked, asked = Asked(base, names, mode),
           NEW new, new = FoldLeft(CellsCopied,
                        Refreshed(RowsInserted(ColumnsInserted(asked), extend, last_counted)),
                        asked.source_info),
           new.ok, NEW k \in 1 .. Len(names), NEW m \in 1 .. Len(base.cols[Source]),
           base.cols[Source][m].name = names[k]
    PROVE  BroughtOver(base, mode, extend, names[k], m, new)
<1> DEFINE inserted == ColumnsInserted(asked)
           extended == RowsInserted(inserted, extend, last_counted)
           refreshed == Refreshed(extended)
           infos == asked.source_info
           ins == asked.insert
           name == names[k]
           from == base.cols[Source][m]
           cs == asked.cols[Destination]
<1>1. AskedSoFar(base, names, mode, Len(names), asked)
  BY AllAsked
<1>2. Kept(asked) /\ SourceKept(base, asked) /\ AllCounted(asked)
  BY <1>1 DEF AskedSoFar
<1>3. infos \in Seq(Info) /\ ins \in Seq(Info) /\ cs \in Seq(Column)
  BY <1>2, BothTables, ColumnsOf DEF Kept, State
<1>4. Kept(inserted) /\ Outcome(asked, inserted) /\ SourceKept(asked, inserted)
      /\ (inserted.ok => inserted.cols[Destination] = cs \o BareAll(ins))
  BY <1>2, ColumnsInsertedKeeps, ColumnsInsertedOutcome
<1> HIDE DEF inserted
<1>5. Kept(extended) /\ Outcome(inserted, extended)
      /\ extended.cols = inserted.cols /\ SourceKept(inserted, extended)
      /\ (extended.ok /\ extend = "ExtendTable"
            => Rows(extended, Destination) >= Rows(inserted, Source))
  BY <1>4, RowsInsertedKeeps, RowsInsertedOutcome
<1> HIDE DEF extended
<1>6. /\ Kept(refreshed) /\ Outcome(extended, refreshed)
      /\ refreshed.cols = extended.cols /\ refreshed.ok = extended.ok
      /\ refreshed.data = extended.data
  BY <1>5, RefreshedKeeps, RefreshedOutcome
<1> HIDE DEF refreshed, infos, ins
<1>7. new = FoldLeft(CellsCopied, refreshed, infos)
  BY DEF refreshed, extended, inserted, infos
<1>8. refreshed.ok /\ new.cols = refreshed.cols /\ Kept(new)
  <2>1. Kept(new) /\ new.cols = refreshed.cols /\ (~ refreshed.ok => new = refreshed)
    BY <1>3, <1>6, <1>7, AllCellsCopiedKeeps
  <2> QED
    BY <2>1
<1>9. extended.ok /\ inserted.ok /\ asked.ok
  BY <1>4, <1>5, <1>6, <1>8 DEF Outcome
<1>10. /\ NotedAll(base, names, Len(names), asked)
       /\ AskedIsMet(base, names, mode, Len(names), asked)
  BY <1>1, <1>9 DEF AskedSoFar
<1>11. Kept(base) /\ base.columns[Source] = Descriptions(base.cols[Source])
  BY DEF Begun
<1>12. ASSUME NEW j \in 1 .. Len(names)
       PROVE  \E l \in 1 .. Len(base.cols[Source]) :
                /\ j \in 1 .. Len(infos) /\ IsColnum(base.cols[Source], names[j], l)
                /\ infos[j] = Colinfo(base, Source, names[j])
                /\ infos[j] = Describe(base.cols[Source][l], l)
                /\ infos[j].colnum = l /\ infos[j].ttype = names[j]
  <2>1. Known(base, Source, names[j]) /\ infos[j] = Colinfo(base, Source, names[j])
        /\ j \in 1 .. Len(infos)
    BY <1>10 DEF NotedAll, infos
  <2> QED
    BY <1>11, <2>1, SourceInfo
<1>13. Len(infos) = Len(names)
  BY <1>10 DEF NotedAll, infos
<1>14. OneSource(infos)
  <2> SUFFICES ASSUME NEW i \in 1 .. Len(infos), NEW j \in 1 .. Len(infos),
                      infos[i].ttype = infos[j].ttype
               PROVE  infos[i].colnum = infos[j].colnum
    BY DEF OneSource
  <2>1. i \in 1 .. Len(names) /\ j \in 1 .. Len(names)
    BY <1>13
  <2>2. names[i] = names[j]
    BY <1>12, <2>1
  <2>3. infos[i] = infos[j]
    BY <1>12, <2>1, <2>2
  <2> QED
    BY <2>3
<1>15. infos[k] = Describe(from, m) /\ infos[k].colnum = m /\ infos[k].ttype = name
       /\ infos[k] = Colinfo(base, Source, name)
  <2>1. PICK l \in 1 .. Len(base.cols[Source]) :
            /\ IsColnum(base.cols[Source], name, l)
            /\ infos[k] = Colinfo(base, Source, name)
            /\ infos[k] = Describe(base.cols[Source][l], l)
            /\ infos[k].colnum = l /\ infos[k].ttype = name
    BY <1>12
  <2>2. l = m
    BY <2>1 DEF IsColnum, ColumnsNamed
  <2> QED
    BY <2>1, <2>2
<1>16. AllCounted(refreshed)
  BY <1>2, <1>4, <1>5, <1>6 DEF Outcome
<1>17. ArrivedSoFar(refreshed, infos, Len(infos), new)
  BY <1>3, <1>6, <1>7, <1>14, <1>16, AllArrived
<1>18. Known(new, Destination, name) /\ Arrived(new, infos[k])
  BY <1>13, <1>15, <1>17 DEF ArrivedSoFar
<1>19. PICK n \in 1 .. Len(new.cols[Destination]) : IsColnum(new.cols[Destination], name, n)
  BY <1>8, <1>18, BothTables, KnownColumn
<1>20. new.cols[Source] = base.cols[Source] /\ new.data[Source] = base.data[Source]
  BY <1>2, <1>4, <1>5, <1>6, <1>17 DEF SourceKept, ArrivedSoFar
<1>21. SameLayout(from, new.cols[Destination][n]) =>
            \A i \in 1 .. Len(new.data[Destination]) :
                i <= Len(base.data[Source]) =>
                    new.data[Destination][i][n] = base.data[Source][i][m]
  <2> DEFINE info == infos[k]
  <2>1. Arrived(new, info) /\ info.ttype = name /\ info.colnum = m
    BY <1>15, <1>18
  <2> HIDE DEF info, name
  <2>2. IsColnum(new.cols[Destination], info.ttype, n)
    BY <1>19, <2>1
  <2>3. SameLayout(new.cols[Source][info.colnum], new.cols[Destination][n]) =>
            \A i \in 1 .. Len(new.data[Destination]) :
                i <= Len(new.data[Source]) =>
                    new.data[Destination][i][n] = new.data[Source][i][info.colnum]
    BY <2>1, <2>2 DEF Arrived
  <2> QED
    BY <1>20, <2>1, <2>3
<1>22. extend = "ExtendTable" => Len(base.data[Source]) <= Len(new.data[Destination])
  <2>1. Len(new.data[Destination]) = Len(extended.data[Destination])
    BY <1>6, <1>17 DEF ArrivedSoFar
  <2>2. Len(extended.data[Destination]) \in Nat /\ Len(inserted.data[Source]) \in Nat
    BY <1>4, <1>5, BothTables, CellsOf DEF Kept
  <2>3. inserted.data[Source] = base.data[Source]
    BY <1>2, <1>4 DEF SourceKept
  <2> QED
    BY <1>5, <1>9, <2>1, <2>2, <2>3 DEF Rows
<1>23. (mode = "OverWrite" /\ Found(base.cols[Destination], name))
            \/ SameLayout(from, new.cols[Destination][n])
  <2> SUFFICES ASSUME ~ (mode = "OverWrite" /\ Found(base.cols[Destination], name))
               PROVE  SameLayout(from, new.cols[Destination][n])
    OBVIOUS
  <2>1. PICK i \in 1 .. Len(ins) : ins[i] = Colinfo(base, Source, name)
    BY <1>10 DEF AskedIsMet, ins
  <2>2. new.cols[Destination] = cs \o BareAll(ins)
    BY <1>4, <1>5, <1>6, <1>8, <1>9
  <2>3. /\ Len(new.cols[Destination]) = Len(cs) + Len(ins)
        /\ new.cols[Destination][Len(cs) + i] = Bare(ins[i])
    <3> HIDE DEF cs
    <3> DEFINE all == cs \o BareAll(ins)
    <3>1. /\ Len(all) = Len(cs) + Len(ins)
          /\ \A j \in 1 .. Len(ins) : all[Len(cs) + j] = Bare(ins[j])
      BY <1>3, AppendedColumns
    <3> HIDE DEF all
    <3> QED
      BY <2>2, <3>1 DEF all
  <2>4. Len(cs) \in Nat /\ Len(ins) \in Nat
    BY <1>3, LenProperties
  <2>5. Len(cs) + i \in 1 .. Len(new.cols[Destination])
    BY <2>3, <2>4
  <2>6. Bare(ins[i]).name = name
    BY <1>15, <2>1 DEF Bare, NewColumn
  <2>7. Len(cs) + i = n
    BY <1>19, <2>3, <2>5, <2>6 DEF IsColnum, ColumnsNamed
  <2>8. from \in CountedColumn
    BY ElementOfSeq
  <2>9. SameLayout(from, Bare(ins[i]))
    BY <1>15, <2>1, <2>8, BareIsAlike
  <2> QED
    BY <2>3, <2>7, <2>9
<1> QED
  BY <1>19, <1>21, <1>22, <1>23 DEF BroughtOver

LEMMA CopiedStep ==
    ASSUME Inv, SourceIsCounted, Next, Copying, last'.ok, ~ shared, Described(Source), Counted
    PROVE  NamedColumnsCopied
<1>1. PICK names \in Seq(Names), how \in Hows : Copy(names, how)
  BY CopyingIsCopy
<1>2. PICK calls \in Int, last_counted \in TableObjects :
            LET st == Copied(Before(calls), names, how, last_counted)
            IN  /\ Kept(Before(calls))
                /\ Become(IF names = <<>> THEN Now ELSE st)
                /\ last' = [op |-> "copy", names |-> names, how |-> how,
                            ok |-> st.ok \/ names = <<>>, fault |-> st.fault]
  BY <1>1, CopySteps
<1> DEFINE before == Before(calls)
           there == MovedTo(before, Source)
           base == MovedTo(there, Destination)
           asked == Asked(base, names, how.mode)
           new == FoldLeft(CellsCopied,
                    Refreshed(RowsInserted(ColumnsInserted(asked), how.extend, last_counted)),
                    asked.source_info)
<1>3. new = Copied(before, names, how, last_counted)
  BY DEF Copied
<1>4. /\ Become(IF names = <<>> THEN Now ELSE new)
      /\ last'.names = names /\ last'.how = how
      /\ last'.ok = (new.ok \/ names = <<>>)
  BY <1>2, <1>3
<1>5. /\ before.cols = cols /\ before.data = data /\ before.columns = columns
      /\ before.naxis2 = naxis2
      /\ before.source_info = <<>> /\ before.insert = <<>>
      /\ Kept(before) /\ before \in State
  BY <1>2 DEF Before, Kept
<1>6. base = before
  BY DEF MovedTo
<1> HIDE DEF before, base
<1>7. Begun(base) /\ AllCounted(base) /\ base.cols[Source] \in Seq(CountedColumn)
  BY <1>5, <1>6 DEF Begun, Described, Counted, AllCounted, SourceIsCounted
<1>8. base.cols = cols /\ base.data = data
  BY <1>5, <1>6
<1>9. /\ Len(cols[Source]) \in Nat /\ DOMAIN cols[Source] = 1 .. Len(cols[Source])
      /\ Len(data[Source]) \in Nat /\ DOMAIN data[Source] = 1 .. Len(data[Source])
  BY <1>5, BothTables, ColumnsOf, CellsOf
<1> SUFFICES ASSUME NEW k \in DOMAIN names, NEW m \in DOMAIN cols[Source],
                    cols[Source][m].name = names[k]
             PROVE  \E n \in DOMAIN cols'[Destination] :
                        /\ IsColnum(cols'[Destination], names[k], n)
                        /\ CopiedAs(names[k], m, n)
  BY <1>4 DEF NamedColumnsCopied
<1>10. k \in 1 .. Len(names) /\ m \in 1 .. Len(base.cols[Source]) /\ names # <<>>
  BY <1>8, <1>9, LenProperties
<1> DEFINE mode == how.mode
           extend == how.extend
<1>11. asked = Asked(base, names, mode)
       /\ new = FoldLeft(CellsCopied,
                    Refreshed(RowsInserted(ColumnsInserted(asked), extend, last_counted)),
                    asked.source_info)
  OBVIOUS
<1>12. new = Copied(before, names, how, last_counted) /\ new.ok
  BY <1>3, <1>4, <1>10
<1>13. Kept(new)
  BY <1>5, <1>12, CopiedKeeps
<1> HIDE DEF asked, new, mode, extend
<1>14. BroughtOver(base, mode, extend, names[k], m, new)
  BY <1>7, <1>8, <1>10, <1>11, <1>12, BroughtOverByCopy
<1>15. cols' = new.cols /\ data' = new.data
  BY <1>4, <1>10 DEF Become
<1>16. PICK n \in 1 .. Len(cols'[Destination]) :
        /\ IsColnum(cols'[Destination], names[k], n)
        /\ \/ mode = "OverWrite" /\ Found(cols[Destination], names[k])
           \/ SameLayout(cols[Source][m], cols'[Destination][n])
        /\ SameLayout(cols[Source][m], cols'[Destination][n]) =>
                \A i \in 1 .. Len(data'[Destination]) :
                    i <= Len(data[Source]) => data'[Destination][i][n] = data[Source][i][m]
        /\ extend = "ExtendTable" => Len(data[Source]) <= Len(data'[Destination])
  BY <1>8, <1>14, <1>15 DEF BroughtOver
<1>17. /\ DOMAIN cols'[Destination] = 1 .. Len(cols'[Destination])
       /\ DOMAIN data'[Destination] = 1 .. Len(data'[Destination])
       /\ Len(data'[Destination]) \in Nat
  BY <1>13, <1>15, BothTables, ColumnsOf, CellsOf DEF Kept
<1>18. CopiedAs(names[k], m, n)
  <2>1. last'.how.mode = mode /\ last'.how.extend = extend
    BY <1>4 DEF mode, extend
  <2>2. SameLayout(cols[Source][m], cols'[Destination][n]) =>
            \A i \in DOMAIN data[Source] \cap DOMAIN data'[Destination] :
                data'[Destination][i][n] = data[Source][i][m]
    BY <1>9, <1>16, <1>17
  <2>3. extend = "ExtendTable" => DOMAIN data[Source] \subseteq DOMAIN data'[Destination]
    BY <1>9, <1>16, <1>17
  <2> QED
    BY <1>16, <2>1, <2>2, <2>3 DEF CopiedAs
<1> QED
  BY <1>16, <1>17, <1>18

\* After a copy between two files which returns, each of the columns it names is in the
\* destination once, with the type and the number of elements of the source's unless
\* it overwrote one, and holds the source's cells in every row both have;
\* however many columns, names and rows there are, where the elements of a
\* cell can be counted in an int.
THEOREM CopiesArrive ==
    ASSUME CountsFit
    PROVE  Spec => CopiedBetweenFiles
<1>1. Init => SourceIsCounted
  BY InitSource
<1>2. Inv /\ SourceIsCounted /\ [Next]_vars => SourceIsCounted'
  BY NextSource
<1>3. Inv /\ SourceIsCounted /\ [Next]_vars
        => [Copying /\ last'.ok /\ ~ shared /\ Described(Source) /\ Counted
                => NamedColumnsCopied]_vars
  BY CopiedStep
<1> QED
  BY <1>1, <1>2, <1>3, InvHolds, PTL DEF Spec, CopiedBetweenFiles

-----------------------------------------------------------------------------
(***************************************************************************)
(* The columns which are not named, through the changes of the destination *)
(***************************************************************************)
LEMMA OthersUntouched ==
    ASSUME NEW cs \in Seq(Column), NEW names, NEW cells, NEW later, NEW rows,
           \A n \in Others(cs, names) : \A i \in 1 .. rows : later[i][n] = cells[i][n]
    PROVE  OthersStand(cs, cells, cs, later, names, rows)
<1> DEFINE others == Others(cs, names)
           at == [n \in others |-> n]
<1> HIDE DEF others
<1>1. /\ at \in [others -> others]
      /\ \A l \in others : \E n \in others : at[n] = l
      /\ \A m, n \in others : m < n => at[m] < at[n]
      /\ \A n \in others : cs[at[n]] = cs[n] /\ \A i \in 1 .. rows : later[i][at[n]] = cells[i][n]
  BY DEF others
<1> HIDE DEF at
<1> QED
  BY <1>1 DEF OthersStand, others

LEMMA OthersStandOn ==
    ASSUME NEW cs, NEW cells, NEW mid, NEW midCells, NEW later, NEW laterCells,
           NEW names, NEW rows,
           OthersStand(cs, cells, mid, midCells, names, rows),
           OthersStand(mid, midCells, later, laterCells, names, rows)
    PROVE  OthersStand(cs, cells, later, laterCells, names, rows)
<1> DEFINE A == Others(cs, names)
           B == Others(mid, names)
           C == Others(later, names)
<1>1. PICK f \in [A -> B] :
        /\ \A l \in B : \E n \in A : f[n] = l
        /\ \A m, n \in A : m < n => f[m] < f[n]
        /\ \A n \in A : mid[f[n]] = cs[n] /\ \A i \in 1 .. rows : midCells[i][f[n]] = cells[i][n]
  BY DEF OthersStand
<1>2. PICK g \in [B -> C] :
        /\ \A l \in C : \E n \in B : g[n] = l
        /\ \A m, n \in B : m < n => g[m] < g[n]
        /\ \A n \in B : /\ later[g[n]] = mid[n]
                        /\ \A i \in 1 .. rows : laterCells[i][g[n]] = midCells[i][n]
  BY DEF OthersStand
<1> HIDE DEF A, B, C
<1> DEFINE h == [n \in A |-> g[f[n]]]
<1>3. \A n \in A : f[n] \in B /\ h[n] = g[f[n]] /\ h[n] \in C
  OBVIOUS
<1>4. h \in [A -> C]
  BY <1>3
<1> HIDE DEF h
<1>5. \A l \in C : \E n \in A : h[n] = l
  BY <1>1, <1>2, <1>3
<1>6. \A m, n \in A : m < n => h[m] < h[n]
  BY <1>1, <1>2, <1>3
<1>7. \A n \in A : later[h[n]] = cs[n] /\ \A i \in 1 .. rows : laterCells[i][h[n]] = cells[i][n]
  BY <1>1, <1>2, <1>3
<1> QED
  BY <1>4, <1>5, <1>6, <1>7 DEF OthersStand, A, C

\* The cells of a table in its first rows, each as long as the table has columns.
FullRows(cs, cells, rows) ==
    \A i \in 1 .. rows : cells[i] \in Seq(AnyCell) /\ Len(cells[i]) = Len(cs)

LEMMA OthersWithoutColumn ==
    ASSUME NEW cs \in Seq(Column), NEW names, NEW cells, NEW rows \in Nat, FullRows(cs, cells, rows),
           NEW k \in 1 .. Len(cs), cs[k].name \in names,
           NEW later, \A i \in 1 .. rows : later[i] = DeleteCol(cells[i], k)
    PROVE  OthersStand(cs, cells, DeleteCol(cs, k), later, names, rows)
<1> DEFINE left == DeleteCol(cs, k)
           A == Others(cs, names)
           B == Others(left, names)
           at == [n \in A |-> IF n < k THEN n ELSE n - 1]
<1>1. Len(cs) \in Nat /\ DOMAIN cs = 1 .. Len(cs)
  BY LenProperties
<1>2. /\ left \in Seq(Column) /\ Len(left) = Len(cs) - 1
      /\ \A j \in 1 .. k - 1 : left[j] = cs[j]
      /\ \A j \in k .. Len(cs) - 1 : left[j] = cs[j + 1]
  BY RemoveAtElements DEF DeleteCol, Shrinks
<1>3. ASSUME NEW i \in 1 .. rows
      PROVE  /\ \A j \in 1 .. k - 1 : later[i][j] = cells[i][j]
             /\ \A j \in k .. Len(cs) - 1 : later[i][j] = cells[i][j + 1]
  <2>1. cells[i] \in Seq(AnyCell) /\ Len(cells[i]) = Len(cs)
    BY DEF FullRows
  <2> DEFINE row == cells[i]
             short == RemoveAt(row, k)
  <2> HIDE DEF row
  <2>2. row \in Seq(AnyCell) /\ Len(row) = Len(cs) /\ k \in 1 .. Len(row)
    BY <2>1 DEF row
  <2>3. Shrinks(short, row, k, AnyCell)
    BY <2>2, RemoveAtElements
  <2>4. later[i] = short
    BY DEF DeleteCol, row
  <2> HIDE DEF short
  <2> QED
    BY <2>2, <2>3, <2>4 DEF Shrinks, row
<1>4. DOMAIN left = 1 .. Len(left)
  BY <1>2, LenProperties
<1> HIDE DEF left, A, B
<1>5. ASSUME NEW n \in A
      PROVE  /\ n \in 1 .. Len(cs) /\ n # k /\ cs[n].name \notin names
             /\ n < k => n \in 1 .. k - 1
             /\ ~ (n < k) => n - 1 \in k .. Len(cs) - 1 /\ (n - 1) + 1 = n
  <2>1. n \in 1 .. Len(cs) /\ n # k /\ cs[n].name \notin names
    BY <1>1 DEF A, Others
  <2> QED
    BY <1>1, <2>1
<1>6. \A n \in A : at[n] = IF n < k THEN n ELSE n - 1
  OBVIOUS
<1>7. ASSUME NEW n \in A
      PROVE  /\ at[n] \in 1 .. Len(left) /\ left[at[n]] = cs[n]
             /\ \A i \in 1 .. rows : later[i][at[n]] = cells[i][n]
  <2>1. CASE n < k
    <3>1. at[n] = n /\ n \in 1 .. k - 1
      BY <1>5, <2>1
    <3>2. n \in 1 .. Len(left)
      BY <1>1, <1>2, <3>1
    <3> HIDE DEF at
    <3>3. left[n] = cs[n]
      BY <1>2, <3>1
    <3>4. \A i \in 1 .. rows : later[i][n] = cells[i][n]
      BY <1>3, <3>1
    <3> QED
      BY <3>1, <3>2, <3>3, <3>4
  <2>2. CASE ~ (n < k)
    <3>1. at[n] = n - 1 /\ n - 1 \in k .. Len(cs) - 1 /\ (n - 1) + 1 = n
      BY <1>5, <2>2
    <3>2. n - 1 \in 1 .. Len(left)
      BY <1>1, <1>2, <3>1
    <3> HIDE DEF at
    <3>3. left[n - 1] = cs[n]
      BY <1>2, <3>1
    <3>4. \A i \in 1 .. rows : later[i][n - 1] = cells[i][n]
      BY <1>3, <3>1
    <3> QED
      BY <3>1, <3>2, <3>3, <3>4
  <2> QED
    BY <2>1, <2>2
<1>8. \A n \in A : at[n] \in B
  BY <1>4, <1>5, <1>7 DEF B, Others
<1>9. at \in [A -> B]
  BY <1>8
<1>10. \A m, n \in A : m < n => at[m] < at[n]
  <2> SUFFICES ASSUME NEW m \in A, NEW n \in A, m < n PROVE at[m] < at[n]
    OBVIOUS
  <2>1. at[m] = (IF m < k THEN m ELSE m - 1) /\ at[n] = (IF n < k THEN n ELSE n - 1)
    BY <1>6
  <2> HIDE DEF at
  <2>2. m \in Int /\ n \in Int /\ m # k /\ n # k /\ k \in Int
    BY <1>1, <1>5
  <2> QED
    BY <2>1, <2>2
<1>11. ASSUME NEW l \in B
       PROVE  \E n \in A : at[n] = l
  <2>1. l \in 1 .. Len(cs) - 1 /\ left[l].name \notin names
    BY <1>2, <1>4 DEF B, Others
  <2>2. CASE l < k
    <3>1. l \in 1 .. k - 1 /\ l \in 1 .. Len(cs)
      BY <1>1, <2>1, <2>2
    <3>2. cs[l] = left[l]
      BY <1>2, <3>1
    <3>3. l \in A
      BY <1>1, <2>1, <3>1, <3>2 DEF A, Others
    <3> QED
      BY <1>6, <2>2, <3>3
  <2>3. CASE ~ (l < k)
    <3>1. l \in k .. Len(cs) - 1 /\ l + 1 \in 1 .. Len(cs) /\ ~ (l + 1 < k) /\ (l + 1) - 1 = l
      BY <1>1, <2>1, <2>3
    <3>2. cs[l + 1] = left[l]
      BY <1>2, <3>1
    <3>3. l + 1 \in A
      BY <1>1, <2>1, <3>1, <3>2 DEF A, Others
    <3> QED
      BY <1>6, <3>1, <3>3
  <2> QED
    BY <2>2, <2>3
<1> HIDE DEF at
<1>12. OthersStand(cs, cells, left, later, names, rows)
  BY <1>7, <1>9, <1>10, <1>11 DEF OthersStand, A, B
<1> QED
  BY <1>12 DEF left

LEMMA OthersWithColumns ==
    ASSUME NEW cs \in Seq(Column), NEW names, NEW cells, NEW rows \in Nat, FullRows(cs, cells, rows),
           NEW infos \in Seq(Info), \A i \in 1 .. Len(infos) : infos[i].ttype \in names,
           NEW later, \A i \in 1 .. rows : later[i] = cells[i] \o NullRowOf(infos)
    PROVE  OthersStand(cs, cells, cs \o BareAll(infos), later, names, rows)
<1> DEFINE all == cs \o BareAll(infos)
           A == Others(cs, names)
           B == Others(all, names)
           at == [n \in A |-> n]
<1>1. Len(cs) \in Nat /\ DOMAIN cs = 1 .. Len(cs) /\ Len(infos) \in Nat
  BY LenProperties
<1>2. /\ all \in Seq(Column) /\ Len(all) = Len(cs) + Len(infos)
      /\ \A n \in 1 .. Len(cs) : all[n] = cs[n]
      /\ \A i \in 1 .. Len(infos) : all[Len(cs) + i] = Bare(infos[i])
  BY AppendedColumns
<1>3. DOMAIN all = 1 .. Len(all)
  BY <1>2, LenProperties
<1> HIDE DEF all, A, B
<1>4. ASSUME NEW n \in DOMAIN all, n \notin 1 .. Len(cs)
      PROVE  all[n].name \in names
  <2>1. n - Len(cs) \in 1 .. Len(infos) /\ n = Len(cs) + (n - Len(cs))
    BY <1>1, <1>2, <1>3, <1>4
  <2>2. all[n] = Bare(infos[n - Len(cs)])
    BY <1>2, <2>1
  <2> QED
    BY <2>1, <2>2 DEF Bare, NewColumn
<1>5. B = A
  <2>1. \A n \in 1 .. Len(cs) : n \in DOMAIN all
    BY <1>1, <1>2, <1>3
  <2> QED
    BY <1>1, <1>2, <1>4, <2>1 DEF A, B, Others
<1>6. ASSUME NEW i \in 1 .. rows, NEW n \in A
      PROVE  later[i][n] = cells[i][n]
  <2> DEFINE row == cells[i]
             nulls == NullRowOf(infos)
  <2>1. row \in Seq(AnyCell) /\ Len(row) = Len(cs)
    BY DEF FullRows
  <2>2. nulls \in Seq(AnyCell) /\ Len(nulls) = Len(infos)
    BY NullRow
  <2>3. n \in 1 .. Len(cs)
    BY <1>1 DEF A, Others
  <2>4. later[i] = row \o nulls
    OBVIOUS
  <2> HIDE DEF row, nulls
  <2>5. \A j \in 1 .. Len(row) + Len(nulls) :
            (row \o nulls)[j] = IF j <= Len(row) THEN row[j] ELSE nulls[j - Len(row)]
    BY <2>1, <2>2, ConcatProperties
  <2>6. n \in 1 .. Len(row) + Len(nulls) /\ n <= Len(row)
    BY <1>1, <2>1, <2>2, <2>3
  <2>7. (row \o nulls)[n] = row[n]
    BY <2>5, <2>6
  <2> QED
    BY <2>4, <2>7 DEF row
<1>7. \A n \in A : all[n] = cs[n]
  BY <1>1, <1>2 DEF A, Others
<1>8. /\ at \in [A -> B]
      /\ \A l \in B : \E n \in A : at[n] = l
      /\ \A m, n \in A : m < n => at[m] < at[n]
      /\ \A n \in A : /\ all[at[n]] = cs[n]
                      /\ \A i \in 1 .. rows : later[i][at[n]] = cells[i][n]
  BY <1>5, <1>6, <1>7
<1> HIDE DEF at
<1>9. OthersStand(cs, cells, all, later, names, rows)
  BY <1>8 DEF OthersStand, A, B
<1> QED
  BY <1>9 DEF all

\* From one state of a copy to a later one the destination has kept the columns which are
\* not named, and as many rows.
Stands(st, new, names, rows) ==
    /\ OthersStand(st.cols[Destination], st.data[Destination],
                   new.cols[Destination], new.data[Destination], names, rows)
    /\ rows <= Len(new.data[Destination])

LEMMA StandsOn ==
    ASSUME NEW st, NEW mid, NEW new, NEW names, NEW rows,
           Stands(st, mid, names, rows), Stands(mid, new, names, rows)
    PROVE  Stands(st, new, names, rows)
BY OthersStandOn DEF Stands

LEMMA SameStands ==
    ASSUME NEW st, Kept(st), NEW new, NEW names, NEW rows, rows <= Len(st.data[Destination]),
           new.cols[Destination] = st.cols[Destination],
           new.data[Destination] = st.data[Destination]
    PROVE  Stands(st, new, names, rows)
<1> DEFINE cs == st.cols[Destination]
           cells == st.data[Destination]
<1>1. cs \in Seq(Column)
  BY BothTables, ColumnsOf DEF Kept
<1> HIDE DEF cs, cells
<1>2. OthersStand(cs, cells, cs, cells, names, rows)
  BY <1>1, OthersUntouched
<1> QED
  BY <1>2 DEF Stands, cs, cells

LEMMA RowsAreFull ==
    ASSUME NEW st, Kept(st), NEW rows \in Nat, rows <= Len(st.data[Destination])
    PROVE  FullRows(st.cols[Destination], st.data[Destination], rows)
<1>1. st \in State /\ Rectangular(st.cols[Destination], st.data[Destination])
  BY BothTables DEF Kept
<1>2. /\ Len(st.data[Destination]) \in Nat
      /\ \A i \in 1 .. Len(st.data[Destination]) : st.data[Destination][i] \in Seq(AnyCell)
  BY <1>1, BothTables, CellsOf
<1>3. \A i \in 1 .. rows : i \in 1 .. Len(st.data[Destination])
  BY <1>2
<1> QED
  BY <1>1, <1>2, <1>3 DEF FullRows, Rectangular

LEMMA WithoutColumnStands ==
    ASSUME NEW st, Kept(st), NEW rows \in Nat, rows <= Len(st.data[Destination]),
           NEW k \in 1 .. Len(st.cols[Destination]), NEW names,
           st.cols[Destination][k].name \in names
    PROVE  Stands(st, WithoutColumn(st, Destination, k), names, rows)
<1> DEFINE new == WithoutColumn(st, Destination, k)
           cs == st.cols[Destination]
           cells == st.data[Destination]
           later == CellsWithout(cells, k)
<1>1. new.cols[Destination] = DeleteCol(cs, k) /\ new.data[Destination] = later
  BY BothTables, WithoutColumnTables
<1>2. cs \in Seq(Column) /\ DOMAIN cells = 1 .. Len(cells) /\ Len(cells) \in Nat
  BY BothTables, ColumnsOf, CellsOf DEF Kept
<1>3. Len(later) = Len(cells)
  BY BothTables, DeletedAreCells DEF CellsWithout
<1>4. FullRows(cs, cells, rows)
  BY RowsAreFull
<1>5. \A i \in 1 .. rows : later[i] = DeleteCol(cells[i], k)
  BY <1>2 DEF CellsWithout
<1> HIDE DEF new, cs, cells, later
<1>6. OthersStand(cs, cells, DeleteCol(cs, k), later, names, rows)
  BY <1>2, <1>4, <1>5, OthersWithoutColumn DEF cs
<1>7. Stands(st, new, names, rows)
  BY <1>1, <1>3, <1>6 DEF Stands, cs, cells
<1> QED
  BY <1>7 DEF new

LEMMA WithColumnsStand ==
    ASSUME NEW st, Kept(st), NEW rows \in Nat, rows <= Len(st.data[Destination]),
           NEW infos \in Seq(Info), NEW names, \A i \in 1 .. Len(infos) : infos[i].ttype \in names
    PROVE  Stands(st, WithColumns(st, Destination, infos), names, rows)
<1> DEFINE new == WithColumns(st, Destination, infos)
           cs == st.cols[Destination]
           cells == st.data[Destination]
           later == CellsWith(cells, infos)
<1>1. new.cols[Destination] = cs \o BareAll(infos) /\ new.data[Destination] = later
  BY BothTables, WithColumnsTables
<1>2. cs \in Seq(Column) /\ DOMAIN cells = 1 .. Len(cells) /\ Len(cells) \in Nat
  BY BothTables, ColumnsOf, CellsOf DEF Kept
<1>3. Len(later) = Len(cells)
  BY BothTables, AddedAreCells
<1>4. FullRows(cs, cells, rows)
  BY RowsAreFull
<1>5. \A i \in 1 .. rows : later[i] = cells[i] \o NullRowOf(infos)
  BY <1>2 DEF CellsWith
<1> HIDE DEF new, cs, cells, later
<1>6. OthersStand(cs, cells, cs \o BareAll(infos), later, names, rows)
  BY <1>2, <1>4, <1>5, OthersWithColumns
<1>7. Stands(st, new, names, rows)
  BY <1>1, <1>3, <1>6 DEF Stands, cs, cells
<1> QED
  BY <1>7 DEF new

\* Rows added behind the last one leave those before it.
LEMMA ExtendedRows ==
    ASSUME NEW st, Kept(st), NEW t \in TableObjects, NEW count \in Nat,
           NEW after, after = Len(st.data[t]), NEW i \in 1 .. after
    PROVE  CellsExtended(st, t, after, count)[i] = st.data[t][i]
<1> DEFINE old == st.data[t]
           new == [j \in 1 .. count |-> NullRowOf(st.cols[t])]
           front == SubSeq(old, 1, after)
           back == SubSeq(old, after + 1, Len(old))
           middle == front \o new
           Row == Seq(AnyCell)
<1>1. old \in Seq(Row) /\ Len(old) \in Nat /\ \A j \in 1 .. Len(old) : old[j] \in Row
  BY CellsOf DEF Kept
<1>2. new \in Seq(Row) /\ Len(new) = count
  <2>1. NullRowOf(st.cols[t]) \in Row
    BY ColumnsOf, NullRow DEF Kept
  <2>2. new \in [1 .. count -> Row]
    BY <2>1
  <2> HIDE DEF new, Row
  <2> QED
    BY <2>2, FunctionIsSeq
<1>3. after = Len(old) /\ i \in 1 .. after
  OBVIOUS
<1> HIDE DEF old, new, Row
<1>4. /\ front \in Seq(Row) /\ Len(front) = after
      /\ \A j \in 1 .. after : front[j] = old[j]
  <2>1. \A j \in 1 .. after : old[j] \in Row
    BY <1>1, <1>3
  <2>2. after \in Nat
    BY <1>1, <1>3
  <2> QED
    BY <2>1, <2>2, SubSeqProperties
<1>5. back = <<>>
  <2>1. after + 1 \in Int /\ Len(old) \in Int /\ Len(old) < after + 1
    BY <1>1, <1>3
  <2> QED
    BY <2>1, SubSeqEmpty
<1> HIDE DEF front, back
<1>6. /\ middle \in Seq(Row) /\ Len(middle) = after + count
      /\ middle[i] = front[i]
  <2>1. /\ middle \in Seq(Row) /\ Len(middle) = Len(front) + Len(new)
        /\ \A j \in 1 .. Len(front) + Len(new) :
                middle[j] = IF j <= Len(front) THEN front[j] ELSE new[j - Len(front)]
    BY <1>2, <1>4, ConcatProperties
  <2>2. i \in 1 .. Len(front) + Len(new) /\ i <= Len(front)
    BY <1>1, <1>2, <1>3, <1>4
  <2> QED
    BY <1>2, <1>4, <2>1, <2>2
<1> HIDE DEF middle
<1>7. (middle \o back)[i] = middle[i]
  BY <1>5, <1>6, ConcatEmptySeq
<1>8. (middle \o back)[i] = old[i]
  BY <1>3, <1>4, <1>6, <1>7
<1> QED
  BY <1>8 DEF CellsExtended, middle, front, back, old, new

LEMMA WithRowsStand ==
    ASSUME NEW st, Kept(st), NEW rows \in Nat, rows <= Len(st.data[Destination]),
           NEW t \in TableObjects, NEW after, after = Len(st.data[Destination]),
           after <= Len(st.data[t]), NEW count \in Nat, NEW names
    PROVE  Stands(st, WithRows(st, t, after, count), names, rows)
<1> DEFINE new == WithRows(st, t, after, count)
           cs == st.cols[Destination]
           cells == st.data[Destination]
           later == CellsExtended(st, t, after, count)
<1>1. Len(cells) \in Nat /\ Len(st.data[t]) \in Nat /\ cs \in Seq(Column)
  BY BothTables, ColumnsOf, CellsOf DEF Kept
<1>2. after \in 0 .. Len(st.data[t])
  BY <1>1
<1>3. /\ new.cols[t] = st.cols[t] /\ new.data[t] = later
      /\ OthersKept(st, t, new)
  BY <1>2, WithRowsTables
<1> HIDE DEF new, later
<1>4. CASE t # Destination
  BY <1>3, <1>4, BothTables, SameStands DEF OthersKept, new
<1>5. CASE t = Destination
  <2>1. Len(later) = Len(cells) + count
    BY <1>2, <1>5, ExtendedLength DEF later
  <2>2. \A i \in 1 .. after : later[i] = cells[i]
    BY <1>5, ExtendedRows DEF later
  <2>3. \A i \in 1 .. rows : i \in 1 .. after
    BY <1>1
  <2>4. rows <= Len(later)
    BY <1>1, <2>1
  <2> HIDE DEF cs, cells
  <2>5. OthersStand(cs, cells, cs, later, names, rows)
    BY <1>1, <2>2, <2>3, OthersUntouched
  <2>6. Stands(st, new, names, rows)
    BY <1>3, <1>5, <2>4, <2>5 DEF Stands, cs, cells
  <2> QED
    BY <2>6 DEF new
<1> QED
  BY <1>4, <1>5

\* fits_copy_col changes one column, in whichever file it looks for the other.
LEMMA WithCellsStand ==
    ASSUME NEW st, Kept(st), NEW rows \in Nat, rows <= Len(st.data[Destination]),
           NEW from \in TableObjects, NEW m \in 1 .. Len(st.cols[from]),
           NEW n \in 1 .. Len(st.cols[Destination]), NEW names,
           st.cols[Destination][n].name \in names
    PROVE  Stands(st, WithCells(st, from, m, Destination, n), names, rows)
<1> DEFINE new == WithCells(st, from, m, Destination, n)
           cs == st.cols[Destination]
           cells == st.data[Destination]
           later == CellsWritten(st, from, m, Destination, n)
<1>1. /\ st \in State /\ cs \in Seq(Column) /\ DOMAIN cs = 1 .. Len(cs)
      /\ Len(cells) \in Nat /\ DOMAIN cells = 1 .. Len(cells)
      /\ \A i \in 1 .. Len(cells) : DOMAIN cells[i] = 1 .. Len(cells[i])
  BY BothTables, ColumnsOf, CellsOf DEF Kept
<1>2. later \in Seq(Seq(AnyCell)) /\ Len(later) = Len(cells)
  BY BothTables, CellsWrittenAreCells
<1>3. new.cols = st.cols /\ new.data = [st.data EXCEPT ![Destination] = later]
  BY <1>1, <1>2, BothTables, WithCellsKeeps
<1>4. new.cols[Destination] = cs /\ new.data[Destination] = later
  BY <1>1, <1>3, BothTables DEF State
<1>5. ASSUME NEW i \in 1 .. rows, NEW c \in Others(cs, names)
      PROVE  later[i][c] = cells[i][c]
  <2> DEFINE row == cells[i]
             v == IF SameLayout(st.cols[from][m], st.cols[Destination][n])
                  THEN st.data[from][i][m] ELSE Junk
  <2>1. i \in DOMAIN cells /\ c # n
    BY <1>1 DEF Others
  <2>2. later[i] = IF i <= RowsToCopy(st, from, Destination)
                   THEN [row EXCEPT ![n] = v] ELSE row
    BY <2>1 DEF CellsWritten
  <2>3. c \in DOMAIN row
    <3>1. Len(row) = Len(cs)
      BY <1>1, <2>1, BothTables DEF Kept, Rectangular
    <3> QED
      BY <1>1, <2>1, <3>1 DEF Others
  <2> HIDE DEF row, v, later
  <2>4. [row EXCEPT ![n] = v][c] = row[c]
    BY <2>1, <2>3
  <2>5. later[i][c] = row[c]
    BY <2>2, <2>4
  <2> QED
    BY <2>5 DEF row
<1> HIDE DEF new, cs, cells, later
<1>6. OthersStand(cs, cells, cs, later, names, rows)
  BY <1>1, <1>5, OthersUntouched
<1>7. Stands(st, new, names, rows)
  BY <1>2, <1>4, <1>6 DEF Stands, cs, cells
<1> QED
  BY <1>7 DEF new

LEMMA DeletedByNameStands ==
    ASSUME NEW st, Kept(st), NEW rows \in Nat, rows <= Len(st.data[Destination]),
           NEW names, NEW name \in names, NEW info \in Info
    PROVE  Stands(st, DeletedByName(st, name, info), names, rows)
<1> DEFINE new == DeletedByName(st, name, info)
           spent == Spend(st)
           n == Colinfo(st, Destination, name).colnum
           without == WithoutColumn(spent, Destination, n)
<1>1. st \in State
  BY DEF Kept
<1>2. CASE ~ Known(st, Destination, name) \/ Fails(st)
  <2>1. new \in {Throw(st), Fault(st)}
    BY <1>2 DEF DeletedByName
  <2> HIDE DEF new
  <2>2. new.cols = st.cols /\ new.data = st.data
    BY <1>1, <2>1, ProgressKeeps DEF SameTables
  <2>3. Stands(st, new, names, rows)
    BY <2>2, SameStands
  <2> QED
    BY <2>3 DEF new
<1>3. CASE Known(st, Destination, name) /\ ~ Fails(st)
  <2>1. new = ToInsert(without, info)
    BY <1>3 DEF DeletedByName
  <2>2. Kept(spent) /\ spent.cols = st.cols /\ spent.data = st.data
    BY <1>1, ProgressIsKept, ProgressKeeps DEF SameTables
  <2>3. n \in 1 .. Len(st.cols[Destination]) /\ st.cols[Destination][n].name = name
    BY <1>3, BothTables, KnownColumn
  <2> HIDE DEF new, spent, n
  <2>4. Stands(spent, without, names, rows)
    BY <2>2, <2>3, WithoutColumnStands
  <2>5. without \in State
    BY <2>2, <2>3, BothTables, WithoutColumnIsKept DEF Kept
  <2> HIDE DEF without
  <2>6. new.cols = without.cols /\ new.data = without.data
    BY <2>1, <2>5, RequestKeeps DEF SameTables
  <2>7. Stands(st, new, names, rows)
    BY <2>2, <2>4, <2>6 DEF Stands
  <2> QED
    BY <2>7 DEF new
<1> QED
  BY <1>2, <1>3

LEMMA RequestedStands ==
    ASSUME NEW st, Kept(st), NEW rows \in Nat, rows <= Len(st.data[Destination]),
           NEW names \in SUBSET Names, NEW name \in names, NEW mode
    PROVE  Stands(st, Requested(st, name, mode), names, rows)
<1> DEFINE new == Requested(st, name, mode)
           info == Colinfo(st, Source, name)
           there == MovedTo(st, Source)
           seen == Noted(there, info)
           noted == MovedTo(seen, Destination)
<1>1. st \in State
  BY DEF Kept
<1>2. Kept(there) /\ there \in State /\ SameTables(st, there)
  BY <1>1, BothTables, MovedToIsKept, MovedToKeeps
<1> HIDE DEF there
<1>3. CASE ~ Known(st, Source, name)
  <2>1. new = Throw(there)
    BY <1>3 DEF Requested, there
  <2>2. new.cols = st.cols /\ new.data = st.data
    BY <1>2, <2>1, ProgressKeeps DEF SameTables
  <2> HIDE DEF new
  <2>3. Stands(st, new, names, rows)
    BY <2>2, SameStands
  <2> QED
    BY <2>3 DEF new
<1>4. CASE Known(st, Source, name)
  <2>1. info \in Info
    BY <1>4, BothTables, KnownColumn
  <2> HIDE DEF info
  <2>2. Kept(seen) /\ seen \in State /\ SameTables(there, seen)
    BY <1>2, <2>1, RequestKeeps, RequestIsKept
  <2> HIDE DEF seen
  <2>3. Kept(noted) /\ noted \in State /\ SameTables(seen, noted)
    BY <2>2, BothTables, MovedToIsKept, MovedToKeeps
  <2> HIDE DEF noted
  <2>4. new \in {ToInsert(noted, info), DeletedByName(noted, name, info), noted, Throw(noted)}
    BY <1>4 DEF Requested, noted, seen, there, info
  <2>5. noted.cols = st.cols /\ noted.data = st.data
    BY <1>2, <2>2, <2>3 DEF SameTables
  <2> HIDE DEF new
  <2>6. CASE new = DeletedByName(noted, name, info)
    <3>1. Stands(noted, new, names, rows)
      BY <2>1, <2>3, <2>5, <2>6, DeletedByNameStands
    <3>2. Stands(st, new, names, rows)
      BY <2>5, <3>1 DEF Stands
    <3> QED
      BY <3>2 DEF new
  <2>7. CASE new \in {ToInsert(noted, info), noted, Throw(noted)}
    <3>1. new.cols = noted.cols /\ new.data = noted.data
      BY <2>1, <2>3, <2>7, RequestKeeps, ProgressKeeps DEF SameTables
    <3>2. Stands(st, new, names, rows)
      BY <2>5, <3>1, SameStands
    <3> QED
      BY <3>2 DEF new
  <2> QED
    BY <2>4, <2>6, <2>7
<1> QED
  BY <1>3, <1>4

LEMMA AskedStands ==
    ASSUME NEW st, Kept(st), NEW rows \in Nat, rows <= Len(st.data[Destination]),
           NEW names \in Seq(Names), NEW mode, NEW named, named = {names[k] : k \in DOMAIN names}
    PROVE  Stands(st, Asked(st, names, mode), named, rows)
<1> DEFINE I == {s \in State : Kept(s) /\ Stands(st, s, named, rows)}
<1>1. st \in I
  BY SameStands DEF Kept
<1>2. DOMAIN names = 1 .. Len(names) /\ \A k \in 1 .. Len(names) : names[k] \in Names
  BY LenProperties, ElementOfSeq
<1>3. named \in SUBSET Names
  BY <1>2
<1>4. ASSUME NEW k \in 1 .. Len(names), NEW at \in I
      PROVE  Requesting(mode, at, names[k]) \in I
  <2> DEFINE new == Requested(at, names[k], mode)
  <2>1. names[k] \in Names /\ names[k] \in named
    BY <1>2
  <2>2. Kept(at) /\ Stands(st, at, named, rows) /\ rows <= Len(at.data[Destination])
    BY DEF Stands
  <2>3. Kept(new)
    BY <2>1, <2>2, RequestedKeeps
  <2>4. Stands(at, new, named, rows)
    BY <1>3, <2>1, <2>2, RequestedStands
  <2> HIDE DEF new
  <2>5. Stands(st, new, named, rows)
    BY <2>2, <2>4, StandsOn
  <2>6. new \in I
    BY <2>3, <2>5 DEF Kept
  <2> QED
    BY <2>6 DEF Requesting, new
<1> HIDE DEF I
<1>5. Asking!Fold(mode, st, names) \in I
  BY <1>1, <1>4, Asking!FoldInvariant
<1> QED
  BY <1>5, AskedIsFold DEF I

LEMMA ColumnsInsertedStand ==
    ASSUME NEW st, Kept(st), NEW rows \in Nat, rows <= Len(st.data[Destination]), NEW names,
           st.ok => \A i \in 1 .. Len(st.insert) : st.insert[i].ttype \in names
    PROVE  Stands(st, ColumnsInserted(st), names, rows)
<1> DEFINE new == ColumnsInserted(st)
           at == MovedTo(st, Destination)
           spent == Spend(at)
           infos == st.insert
           with == WithColumns(spent, Destination, infos)
<1>1. st \in State /\ infos \in Seq(Info)
  BY DEF Kept, State
<1>2. Kept(at) /\ at \in State /\ SameTables(st, at)
  BY <1>1, BothTables, MovedToIsKept, MovedToKeeps
<1> HIDE DEF at
<1>3. /\ Kept(spent) /\ spent.cols = st.cols /\ spent.data = st.data
      /\ Fault(at).cols = st.cols /\ Fault(at).data = st.data
  BY <1>2, ProgressIsKept, ProgressKeeps DEF SameTables
<1>4. \/ new \in {st, Fault(at)}
      \/ st.ok /\ new = with
  BY DEF ColumnsInserted, with, spent, at, infos
<1> HIDE DEF spent, new
<1>5. CASE new \in {st, Fault(at)}
  BY <1>3, <1>5, SameStands DEF new
<1>6. CASE st.ok /\ new = with
  <2>1. \A i \in 1 .. Len(infos) : infos[i].ttype \in names
    BY <1>6
  <2> HIDE DEF infos
  <2>2. Stands(spent, with, names, rows)
    BY <1>1, <1>3, <2>1, WithColumnsStand
  <2>3. Stands(st, new, names, rows)
    BY <1>3, <1>6, <2>2 DEF Stands
  <2> QED
    BY <2>3 DEF new
<1> QED
  BY <1>4, <1>5, <1>6

LEMMA RowsInsertedStand ==
    ASSUME NEW st, Kept(st), NEW rows \in Nat, rows <= Len(st.data[Destination]),
           NEW extend, NEW last_counted \in TableObjects, NEW names
    PROVE  Stands(st, RowsInserted(st, extend, last_counted), names, rows)
<1> DEFINE new == RowsInserted(st, extend, last_counted)
           there == MovedTo(st, Source)
           counted == MovedTo(there, Destination)
           at == MovedTo(counted, last_counted)
           spent == Spend(at)
           t == AtChdu(at, Destination)
           after == Rows(st, Destination)
           count == Rows(st, Source) - Rows(st, Destination)
           with == WithRows(spent, t, after, count)
<1>1. st \in State
  BY DEF Kept
<1>2. there \in State /\ SameTables(st, there) /\ Kept(there)
  BY <1>1, BothTables, MovedToIsKept, MovedToKeeps
<1> HIDE DEF there
<1>3. counted \in State /\ SameTables(there, counted) /\ Kept(counted)
  BY <1>2, BothTables, MovedToIsKept, MovedToKeeps
<1> HIDE DEF counted
<1>4. at \in State /\ SameTables(counted, at) /\ Kept(at)
  BY <1>3, MovedToIsKept, MovedToKeeps
<1> HIDE DEF at
<1>5. /\ counted.cols = st.cols /\ counted.data = st.data
      /\ Fault(at).cols = st.cols /\ Fault(at).data = st.data
      /\ Kept(spent) /\ spent.cols = st.cols /\ spent.data = st.data
  BY <1>2, <1>3, <1>4, ProgressKeeps, ProgressIsKept DEF SameTables
<1>6. t \in TableObjects
  BY <1>4, BothTables DEF AtChdu, State
<1>7. \/ new \in {st, counted, Fault(at)}
      \/ Extends(st, extend) /\ new = with
  BY DEF RowsInserted, with, spent, t, at, counted, there, after, count
<1> HIDE DEF new, spent, t
<1>8. CASE new \in {st, counted, Fault(at)}
  BY <1>5, <1>8, SameStands DEF new
<1>9. CASE Extends(st, extend) /\ new = with
  <2>1. /\ Len(st.data[Source]) \in Nat /\ Len(st.data[Destination]) \in Nat
        /\ Len(st.data[Source]) > Len(st.data[Destination])
    BY <1>1, <1>9, BothTables, CellsOf DEF Extends, Rows
  <2>2. count \in Nat /\ after = Len(spent.data[Destination])
    BY <1>5, <2>1 DEF Rows
  <2>3. after <= Len(spent.data[t])
    BY <1>5, <1>6, <2>1 DEF TableObjects, Rows
  <2> HIDE DEF after, count
  <2>4. Stands(spent, with, names, rows)
    BY <1>5, <1>6, <2>2, <2>3, WithRowsStand
  <2>5. Stands(st, new, names, rows)
    BY <1>5, <1>9, <2>4 DEF Stands
  <2> QED
    BY <2>5 DEF new
<1> QED
  BY <1>7, <1>8, <1>9

LEMMA CellsCopiedStand ==
    ASSUME NEW st, Kept(st), NEW rows \in Nat, rows <= Len(st.data[Destination]),
           NEW names, NEW info \in Info, st.ok => info.ttype \in names
    PROVE  Stands(st, CellsCopied(st, info), names, rows)
<1> DEFINE new == CellsCopied(st, info)
           at == MovedTo(st, Destination)
           from == AtChdu(at, Source)
           spent == Spend(at)
           m == info.colnum
           n == Colinfo(st, Destination, info.ttype).colnum
           with == WithCells(spent, from, m, Destination, n)
<1>1. st \in State
  BY DEF Kept
<1>2. Kept(at) /\ at \in State /\ SameTables(st, at)
  BY <1>1, BothTables, MovedToIsKept, MovedToKeeps
<1>3. from \in TableObjects
  BY <1>2, BothTables DEF AtChdu, State
<1> HIDE DEF at, from
<1>4. /\ Kept(spent) /\ spent.cols = st.cols /\ spent.data = st.data
      /\ Fault(at).cols = st.cols /\ Fault(at).data = st.data
      /\ Throw(at).cols = st.cols /\ Throw(at).data = st.data
  BY <1>2, ProgressIsKept, ProgressKeeps DEF SameTables
<1>5. \/ new \in {st, Throw(at), Fault(at)}
      \/ /\ st.ok /\ Known(st, Destination, info.ttype) /\ m \in DOMAIN st.cols[from]
         /\ new = with
  BY DEF CellsCopied, with, spent, at, from, m, n
<1> HIDE DEF new, spent
<1>6. CASE new \in {st, Throw(at), Fault(at)}
  BY <1>4, <1>6, SameStands DEF new
<1>7. CASE /\ st.ok /\ Known(st, Destination, info.ttype) /\ m \in DOMAIN st.cols[from]
           /\ new = with
  <2>1. m \in 1 .. Len(spent.cols[from])
    BY <1>1, <1>3, <1>4, <1>7, ColumnsOf
  <2>2. n \in 1 .. Len(spent.cols[Destination]) /\ spent.cols[Destination][n].name \in names
    BY <1>4, <1>7, BothTables, KnownColumn
  <2> HIDE DEF n, m
  <2>3. Stands(spent, with, names, rows)
    BY <1>3, <1>4, <2>1, <2>2, WithCellsStand
  <2>4. Stands(st, new, names, rows)
    BY <1>4, <1>7, <2>3 DEF Stands
  <2> QED
    BY <2>4 DEF new
<1> QED
  BY <1>5, <1>6, <1>7

LEMMA AllCellsCopiedStand ==
    ASSUME NEW st, Kept(st), NEW rows \in Nat, rows <= Len(st.data[Destination]),
           NEW names, NEW infos \in Seq(Info),
           st.ok => \A k \in 1 .. Len(infos) : infos[k].ttype \in names
    PROVE  Stands(st, FoldLeft(CellsCopied, st, infos), names, rows)
<1>1. CASE ~ st.ok
  <2>1. FoldLeft(CellsCopied, st, infos) = st
    BY <1>1, AllCellsCopiedKeeps
  <2> QED
    BY <2>1, SameStands
<1>2. CASE st.ok
  <2> DEFINE I == {s \in State : Kept(s) /\ Stands(st, s, names, rows)}
  <2>1. st \in I
    BY SameStands DEF Kept
  <2>2. ASSUME NEW k \in 1 .. Len(infos), NEW s \in I
        PROVE  CellsCopying({}, s, infos[k]) \in I
    <3> DEFINE new == CellsCopied(s, infos[k])
    <3>1. infos[k] \in Info /\ infos[k].ttype \in names
      BY <1>2, ElementOfSeq
    <3>2. Kept(s) /\ Stands(st, s, names, rows) /\ rows <= Len(s.data[Destination])
      BY DEF Stands
    <3>3. Kept(new) /\ Stands(s, new, names, rows)
      BY <3>1, <3>2, CellsCopiedKeeps, CellsCopiedStand
    <3> HIDE DEF new
    <3>4. Stands(st, new, names, rows)
      BY <3>2, <3>3, StandsOn
    <3>5. new \in I
      BY <3>3, <3>4 DEF Kept
    <3> QED
      BY <3>5 DEF CellsCopying, new
  <2> HIDE DEF I
  <2>3. CopyingCells!Fold({}, st, infos) \in I
    BY <2>1, <2>2, CopyingCells!FoldInvariant
  <2> QED
    BY <2>3, CellsCopiedIsFold DEF I
<1> QED
  BY <1>1, <1>2

\* However a copy ends, whatever it inserted and wrote went by the names it was given.
LEMMA CopiedStands ==
    ASSUME NEW base, Begun(base), NEW rows \in Nat, rows <= Len(base.data[Destination]),
           NEW names \in Seq(Names), NEW named, named = {names[k] : k \in DOMAIN names},
           NEW mode, NEW extend, NEW last_counted \in TableObjects,
           NEW asked, asked = Asked(base, names, mode)
    PROVE  Stands(base, FoldLeft(CellsCopied,
                            Refreshed(RowsInserted(ColumnsInserted(asked), extend, last_counted)),
                            asked.source_info), named, rows)
<1> DEFINE inserted == ColumnsInserted(asked)
           extended == RowsInserted(inserted, extend, last_counted)
           refreshed == Refreshed(extended)
           infos == asked.source_info
           new == FoldLeft(CellsCopied, refreshed, infos)
<1>1. AskedSoFar(base, names, mode, Len(names), asked) /\ Kept(base)
      /\ base.columns[Source] = Descriptions(base.cols[Source])
  BY AllAsked DEF Begun
<1>2. Kept(asked) /\ infos \in Seq(Info)
  BY <1>1 DEF AskedSoFar, Kept, State
<1>3. Stands(base, asked, named, rows)
  BY <1>1, AskedStands
<1>4. ASSUME asked.ok
      PROVE  /\ \A i \in 1 .. Len(asked.insert) : asked.insert[i].ttype \in named
             /\ \A k \in 1 .. Len(infos) : infos[k].ttype \in named
  <2>1. /\ NotedAll(base, names, Len(names), asked)
        /\ InsertAsked(base, names, mode, Len(names), asked)
    BY <1>1, <1>4 DEF AskedSoFar
  <2>2. DOMAIN names = 1 .. Len(names)
    BY LenProperties
  <2>3. ASSUME NEW j \in 1 .. Len(names)
        PROVE  Colinfo(base, Source, names[j]).ttype \in named
    <3>1. Known(base, Source, names[j])
      BY <2>1 DEF NotedAll
    <3>2. Colinfo(base, Source, names[j]).ttype = names[j]
      BY <1>1, <3>1, SourceInfo
    <3> QED
      BY <2>2, <3>2
  <2>4. \A i \in 1 .. Len(asked.insert) : asked.insert[i].ttype \in named
    BY <2>1, <2>3 DEF InsertAsked
  <2>5. \A k \in 1 .. Len(infos) : infos[k].ttype \in named
    BY <2>1, <2>3 DEF NotedAll
  <2> QED
    BY <2>4, <2>5
<1> HIDE DEF infos
<1>5. /\ Kept(inserted) /\ Outcome(asked, inserted)
      /\ Stands(asked, inserted, named, rows)
  <2>1. rows <= Len(asked.data[Destination])
    BY <1>3 DEF Stands
  <2> QED
    BY <1>2, <1>4, <2>1, ColumnsInsertedKeeps, ColumnsInsertedOutcome, ColumnsInsertedStand
<1> HIDE DEF inserted
<1>6. /\ Kept(extended) /\ Outcome(inserted, extended)
      /\ Stands(inserted, extended, named, rows)
  <2>1. rows <= Len(inserted.data[Destination])
    BY <1>5 DEF Stands
  <2> QED
    BY <1>5, <2>1, RowsInsertedKeeps, RowsInsertedOutcome, RowsInsertedStand
<1> HIDE DEF extended
<1>7. /\ Kept(refreshed) /\ refreshed.ok = extended.ok
      /\ refreshed.cols = extended.cols /\ refreshed.data = extended.data
  BY <1>6, RefreshedKeeps
<1> HIDE DEF refreshed
<1>8. rows <= Len(refreshed.data[Destination])
  BY <1>6, <1>7 DEF Stands
<1>9. refreshed.ok => asked.ok
  BY <1>5, <1>6, <1>7 DEF Outcome
<1>10. Stands(refreshed, new, named, rows)
  BY <1>2, <1>4, <1>7, <1>8, <1>9, AllCellsCopiedStand
<1> HIDE DEF new
<1>11. Stands(extended, new, named, rows)
  BY <1>7, <1>10 DEF Stands
<1>12. Stands(base, new, named, rows)
  BY <1>3, <1>5, <1>6, <1>11, StandsOn
<1> QED
  BY <1>12 DEF new, refreshed, extended, inserted, infos

LEMMA OthersStep ==
    ASSUME Inv, Next, Copying, Described(Source)
    PROVE  OthersStand(cols[Destination], data[Destination],
                       cols'[Destination], data'[Destination],
                       {last'.names[k] : k \in DOMAIN last'.names}, Len(data[Destination]))
<1>1. PICK names \in Seq(Names), how \in Hows : Copy(names, how)
  BY CopyingIsCopy
<1>2. PICK calls \in Int, last_counted \in TableObjects :
            LET st == Copied(Before(calls), names, how, last_counted)
            IN  /\ Kept(Before(calls))
                /\ Become(IF names = <<>> THEN Now ELSE st)
                /\ last' = [op |-> "copy", names |-> names, how |-> how,
                            ok |-> st.ok \/ names = <<>>, fault |-> st.fault]
  BY <1>1, CopySteps
<1> DEFINE before == Before(calls)
           there == MovedTo(before, Source)
           base == MovedTo(there, Destination)
           asked == Asked(base, names, how.mode)
           new == FoldLeft(CellsCopied,
                    Refreshed(RowsInserted(ColumnsInserted(asked), how.extend, last_counted)),
                    asked.source_info)
           named == {names[k] : k \in DOMAIN names}
           rows == Len(data[Destination])
<1>3. new = Copied(before, names, how, last_counted)
  BY DEF Copied
<1>4. Become(IF names = <<>> THEN Now ELSE new) /\ last'.names = names
  BY <1>2, <1>3
<1>5. /\ before.cols = cols /\ before.data = data /\ before.columns = columns
      /\ before.source_info = <<>> /\ before.insert = <<>>
      /\ Kept(before) /\ before \in State
      /\ Now.cols = cols /\ Now.data = data
  BY <1>2 DEF Before, Kept, Now
<1> HIDE DEF before
<1>6. Kept(there) /\ there \in State /\ SameTables(before, there) /\ SameProgress(before, there)
  BY <1>5, BothTables, MovedToIsKept, MovedToKeeps
<1> HIDE DEF there
<1>7. Kept(base) /\ SameTables(there, base) /\ SameProgress(there, base)
  BY <1>6, BothTables, MovedToIsKept, MovedToKeeps
<1> HIDE DEF base
<1>8. Begun(base) /\ base.cols = cols /\ base.data = data
  BY <1>5, <1>6, <1>7 DEF SameTables, SameProgress, Begun, Described
<1>9. rows \in Nat /\ rows <= Len(base.data[Destination])
  BY <1>7, <1>8, BothTables, CellsOf DEF Kept
<1>10. Stands(base, new, named, rows)
  <2> DEFINE mode == how.mode
             extend == how.extend
  <2>1. asked = Asked(base, names, mode)
    OBVIOUS
  <2> HIDE DEF asked, mode, extend, rows, named
  <2>2. named = {names[k] : k \in DOMAIN names}
    BY DEF named
  <2>3. Stands(base, FoldLeft(CellsCopied,
                            Refreshed(RowsInserted(ColumnsInserted(asked), extend, last_counted)),
                            asked.source_info), named, rows)
    BY <1>8, <1>9, <2>1, <2>2, CopiedStands
  <2> QED
    BY <2>3 DEF extend
<1> HIDE DEF new, named, rows
<1>11. CASE names # <<>>
  <2>1. cols' = new.cols /\ data' = new.data
    BY <1>4, <1>11 DEF Become
  <2>2. OthersStand(cols[Destination], data[Destination],
                    cols'[Destination], data'[Destination], named, rows)
    BY <1>8, <1>10, <2>1 DEF Stands
  <2> QED
    BY <1>4, <2>2 DEF named, rows
<1>12. CASE names = <<>>
  <2>1. cols' = cols /\ data' = data
    BY <1>4, <1>5, <1>12 DEF Become
  <2>2. Stands(base, base, named, rows)
    BY <1>7, <1>9, SameStands
  <2>3. OthersStand(cols[Destination], data[Destination],
                    cols'[Destination], data'[Destination], named, rows)
    BY <1>8, <2>1, <2>2 DEF Stands
  <2> QED
    BY <1>4, <2>3 DEF named, rows
<1> QED
  BY <1>11, <1>12

\* However a copy ends, and whether or not it is within one file, what it inserted, deleted
\* and wrote went by the names it was given: the other columns of the destination
\* are there one by one and in their order, each with its shape and, in the
\* rows that were there, its cells; where the source is described as it is.
THEOREM OthersUnchanged == Spec => OtherColumnsStand
<1>1. Inv /\ [Next]_vars
        => [Copying /\ Described(Source) =>
                OthersStand(cols[Destination], data[Destination],
                            cols'[Destination], data'[Destination],
                            {last'.names[k] : k \in DOMAIN last'.names},
                            Len(data[Destination]))]_vars
  BY OthersStep
<1> QED
  BY <1>1, InvHolds, PTL DEF Spec, OtherColumnsStand
=============================================================================
