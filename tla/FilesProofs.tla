----------------------------- MODULE FilesProofs -----------------------------
(***************************************************************************)
(* Theorems about Files, for any number of files, tables, stores and HDUs, *)
(* and whatever fails.                                                     *)
(***************************************************************************)
EXTENDS Files, Integers, SequenceTheorems, TLAPS

-----------------------------------------------------------------------------
(***************************************************************************)
(* Types                                                                   *)
(***************************************************************************)
LEMMA RemoveAtType ==
    ASSUME NEW S, NEW s \in Seq(S), NEW i \in 1 .. Len(s)
    PROVE  RemoveAt(s, i) \in Seq(S) /\ Len(RemoveAt(s, i)) = Len(s) - 1
<1> DEFINE front == SubSeq(s, 1, i - 1)
           back == SubSeq(s, i + 1, Len(s))
<1>1. Len(s) \in Nat /\ \A j \in 1 .. Len(s) : s[j] \in S
  BY ElementOfSeq, LenProperties
<1>2. front \in Seq(S) /\ Len(front) = i - 1
  <2>1. \A j \in 1 .. i - 1 : s[j] \in S
    BY <1>1
  <2> QED
    BY <1>1, <2>1, SubSeqProperties
<1>3. back \in Seq(S) /\ Len(back) = Len(s) - i
  <2>1. \A j \in i + 1 .. Len(s) : s[j] \in S
    BY <1>1
  <2> QED
    BY <1>1, <2>1, SubSeqProperties
<1>4. front \o back \in Seq(S) /\ Len(front \o back) = Len(front) + Len(back)
  BY <1>2, <1>3, ConcatProperties
<1>5. RemoveAt(s, i) = front \o back
  BY DEF RemoveAt
<1> HIDE DEF front, back
<1>6. Len(front \o back) = Len(s) - 1
  BY <1>1, <1>2, <1>3, <1>4
<1> QED
  BY <1>4, <1>5, <1>6

FileType(n) == [exists : BOOLEAN, mode : Modes, fits : 0 .. n]
TableType(n) == [fits : 0 .. n, hdu_num : Nat]

LEMMA UsableType ==
    ASSUME TypeOK, NEW f \in Handles, Usable(f)
    PROVE  /\ Len(fits) \in Nat
           /\ file[f].fits \in 1 .. Len(fits)
           /\ fits[file[f].fits] \in Fitsfile
           /\ StoreOf(f) \in Stores
           /\ HdusOf(f) \in Seq(HDU)
           /\ Len(HdusOf(f)) \in Nat
           /\ Position(f) \in Nat \ {0}
<1>1. Len(fits) \in Nat
  BY LenProperties DEF TypeOK
<1>2. file[f].fits \in 1 .. Len(fits)
  BY <1>1 DEF TypeOK, Usable
<1>3. fits[file[f].fits] \in Fitsfile
  BY <1>2, ElementOfSeq DEF TypeOK
<1>4. StoreOf(f) \in Stores /\ Position(f) \in Nat \ {0}
  BY <1>3 DEF StoreOf, Position, Fitsfile
<1>5. HdusOf(f) \in Seq(HDU)
  BY <1>4 DEF HdusOf, TypeOK
<1> QED
  BY <1>1, <1>2, <1>3, <1>4, <1>5, LenProperties

LEMMA CloseFitsType ==
    ASSUME NEW opened \in Seq(Fitsfile), NEW n \in 0 .. Len(opened)
    PROVE  CloseFits(opened, n) \in Seq(Fitsfile) /\ Len(CloseFits(opened, n)) = Len(opened)
<1>1. CASE n = 0
  BY <1>1 DEF CloseFits
<1>2. CASE n # 0
  <2>1. n \in 1 .. Len(opened)
    BY <1>2, LenProperties
  <2>2. opened[n] \in Fitsfile
    BY <2>1, ElementOfSeq
  <2>3. [opened[n] EXCEPT !.closes = @ + 1] \in Fitsfile
    <3>1. opened[n].closes + 1 \in Nat
      BY <2>2 DEF Fitsfile
    <3> QED
      BY <2>2, <3>1 DEF Fitsfile
  <2> QED
    BY <1>2, <2>1, <2>3, ExceptSeq DEF CloseFits
<1> QED
  BY <1>1, <1>2

LEMMA DestroyedType ==
    ASSUME NEW opened \in Seq(Fitsfile), NEW n \in 0 .. Len(opened), NEW threw
    PROVE  /\ Destroyed(opened, n, threw) = CloseFits(opened, n)
           /\ Destroyed(opened, n, threw) \in Seq(Fitsfile)
           /\ Len(Destroyed(opened, n, threw)) = Len(opened)
<1>1. Destroyed(opened, n, threw) = CloseFits(opened, n)
  BY DEF Destroyed, Released, CloseFits
<1> QED
  BY <1>1, CloseFitsType

LEMMA OpenedType ==
    ASSUME NEW store \in Stores, NEW hdu \in Nat \ {0}
    PROVE  Opened(store, hdu) \in Fitsfile
BY DEF Opened, Fitsfile

\* CFITSIO opens one more fitsfile.
Grown(fitsfile) ==
    /\ fits' \in Seq(Fitsfile) /\ Len(fits') = Len(fits) + 1
    /\ \A i \in 1 .. Len(fits) : fits'[i] = fits[i]
    /\ fits'[Len(fits) + 1] = fitsfile

LEMMA AppendGrows ==
    ASSUME TypeOK, NEW fitsfile \in Fitsfile, fits' = Append(fits, fitsfile)
    PROVE  Grown(fitsfile)
BY AppendProperties, LenProperties DEF TypeOK, Grown

LEMMA AbandonedGrows ==
    ASSUME TypeOK, NEW reopened \in Fitsfile, NEW threw,
           fits' = Abandoned(Append(fits, reopened), threw)
    PROVE  Grown([reopened EXCEPT !.closes = @ + 1])
<1> DEFINE opened == Append(fits, reopened)
           n == Len(opened)
<1>1. /\ opened \in Seq(Fitsfile) /\ n = Len(fits) + 1 /\ Len(fits) \in Nat
      /\ \A i \in 1 .. Len(fits) : opened[i] = fits[i]
      /\ opened[n] = reopened
  BY AppendProperties, LenProperties DEF TypeOK
<1> HIDE DEF opened
<1>2. n \in 0 .. Len(opened) /\ n # 0
  BY <1>1
<1>3. fits' = CloseFits(opened, n)
  BY <1>1, <1>2, DestroyedType DEF Abandoned, opened
<1>4. fits' \in Seq(Fitsfile) /\ Len(fits') = n
  BY <1>1, <1>2, <1>3, CloseFitsType
<1>5. fits' = [opened EXCEPT ![n].closes = @ + 1]
  BY <1>2, <1>3 DEF CloseFits
<1>6. DOMAIN opened = 1 .. Len(fits) + 1
  BY <1>1, LenProperties
<1>7. /\ \A i \in 1 .. Len(fits) : fits'[i] = fits[i]
      /\ fits'[Len(fits) + 1] = [reopened EXCEPT !.closes = @ + 1]
  BY <1>1, <1>5, <1>6
<1> QED
  BY <1>1, <1>4, <1>7 DEF Grown

\* The new fitsfile gets its owner, or none.
LEMMA GrownType ==
    ASSUME TypeOK, NEW fitsfile, Grown(fitsfile),
           \/ file' = file
           \/ \E f \in Handles, mode \in Modes : NewFile(f, mode, fitsfile)
    PROVE  /\ fits' \in Seq(Fitsfile)
           /\ file' \in [Handles -> FileType(Len(fits'))]
           /\ table \in [Tables -> TableType(Len(fits'))]
<1>1. /\ fits' \in Seq(Fitsfile)
      /\ Len(fits') = Len(fits) + 1
      /\ Len(fits) \in Nat
  BY LenProperties DEF TypeOK, Grown
<1>2. 0 .. Len(fits) \subseteq 0 .. Len(fits')
  BY <1>1
<1>3. file \in [Handles -> FileType(Len(fits'))]
  BY <1>2 DEF TypeOK, FileType
<1>4. table \in [Tables -> TableType(Len(fits'))]
  BY <1>2 DEF TypeOK, TableType
<1>5. Len(fits) + 1 \in 0 .. Len(fits')
  BY <1>1
<1>6. \A mode \in Modes :
        [exists |-> TRUE, mode |-> mode, fits |-> Len(fits) + 1] \in FileType(Len(fits'))
  BY <1>5 DEF FileType
<1>7. file' \in [Handles -> FileType(Len(fits'))]
  BY <1>3, <1>6 DEF NewFile
<1> QED
  BY <1>1, <1>4, <1>7

\* One fitsfile changes.
LEMMA ChangedType ==
    ASSUME TypeOK, NEW n \in 1 .. Len(fits), NEW fitsfile \in Fitsfile,
           fits' = [fits EXCEPT ![n] = fitsfile]
    PROVE  fits' \in Seq(Fitsfile) /\ Len(fits') = Len(fits)
BY ExceptSeq DEF TypeOK

LEMMA MoveFitsType ==
    ASSUME TypeOK, NEW f \in Handles, Usable(f), NEW hdu \in Nat \ {0}, MoveFits(f, hdu)
    PROVE  fits' \in Seq(Fitsfile) /\ Len(fits') = Len(fits)
<1> DEFINE fitsfile == [fits[file[f].fits] EXCEPT !.hdu = hdu]
<1>1. fitsfile \in Fitsfile
  BY UsableType DEF Fitsfile
<1>2. fits' = [fits EXCEPT ![file[f].fits] = fitsfile]
  BY DEF MoveFits
<1> HIDE DEF fitsfile
<1> QED
  BY <1>1, <1>2, UsableType, ChangedType

LEMMA WithAllType ==
    ASSUME NEW hdus \in Seq(HDU), NEW more \in Seq(HDU)
    PROVE  WithAll(hdus, more) \in Seq(HDU)
<1>1. NullPrimary \in HDU
  BY DEF NullPrimary, HDU
<1>2. <<NullPrimary>> \in Seq(HDU)
  BY <1>1
<1>3. (IF hdus = <<>> /\ more # <<>> /\ ~ more[1].image THEN <<NullPrimary>> ELSE hdus) \in Seq(HDU)
  BY <1>2
<1> QED
  BY <1>3, ConcatProperties DEF WithAll

LEMMA DeliverType ==
    ASSUME TypeOK, NEW f \in Handles, NEW g \in Handles, Usable(f), Usable(g),
           NEW hdus \in Seq(HDU), NEW hdu \in Nat \ {0}, Deliver(f, g, hdus, hdu)
    PROVE  /\ content' \in [Stores -> Seq(HDU)]
           /\ fits' \in Seq(Fitsfile)
           /\ Len(fits') = Len(fits)
<1> DEFINE at == IF hdus = <<>> THEN 1 ELSE Len(hdus)
           first == [fits EXCEPT ![file[g].fits].hdu = at]
<1>1. content' \in [Stores -> Seq(HDU)]
  BY UsableType DEF Deliver, TypeOK
<1>2. at \in Nat \ {0}
  BY EmptySeq, LenProperties
<1>3. fits' = [first EXCEPT ![file[f].fits].hdu = hdu]
  BY DEF Deliver
<1> HIDE DEF at
<1>4. first \in Seq(Fitsfile) /\ Len(first) = Len(fits)
  <2>1. [fits[file[g].fits] EXCEPT !.hdu = at] \in Fitsfile
    BY <1>2, UsableType DEF Fitsfile
  <2> QED
    BY <2>1, UsableType, ExceptSeq DEF TypeOK
<1>5. file[f].fits \in 1 .. Len(first)
  BY <1>4, UsableType
<1> HIDE DEF first
<1>6. [first[file[f].fits] EXCEPT !.hdu = hdu] \in Fitsfile
  <2>1. first[file[f].fits] \in Fitsfile
    BY <1>4, <1>5, ElementOfSeq
  <2> QED
    BY <2>1 DEF Fitsfile
<1>7. fits' \in Seq(Fitsfile) /\ Len(fits') = Len(first)
  BY <1>3, <1>4, <1>5, <1>6, ExceptSeq
<1> QED
  BY <1>1, <1>4, <1>7

LEMMA InitType == Init => TypeOK
<1>1. <<>> \in Seq(Fitsfile) /\ Len(<<>>) = 0
  BY EmptySeq
<1>2. NoFile \in FileType(0) /\ NoTable \in TableType(0)
  BY DEF NoFile, NoTable, FileType, TableType, Modes
<1> QED
  BY <1>1, <1>2, InitialHdusAssumption DEF Init, TypeOK, FileType, TableType

LEMMA NextType == TypeOK /\ [Next]_vars => TypeOK'
<1> SUFFICES ASSUME TypeOK, [Next]_vars PROVE TypeOK'
  OBVIOUS
<1> USE DEF FileType, TableType
<1>1. ASSUME NEW f \in Handles, NEW store \in Stores, NEW mode \in Modes, Open(f, store, mode)
      PROVE  TypeOK'
  <2>1. PICK hdu \in 1 .. Len(content[store]) : NewFile(f, mode, Opened(store, hdu))
    BY <1>1 DEF Open
  <2>2. Opened(store, hdu) \in Fitsfile
    <3>1. Len(content[store]) \in Nat
      BY LenProperties DEF TypeOK
    <3> QED
      BY <3>1, OpenedType
  <2>3. Grown(Opened(store, hdu))
    BY <2>1, <2>2, AppendGrows DEF NewFile
  <2> QED
    BY <1>1, <2>1, <2>3, GrownType DEF Open, TypeOK
<1>2. ASSUME NEW f \in Handles, NEW store \in Stores, NEW overwrite \in BOOLEAN,
             Create(f, store, overwrite)
      PROVE  TypeOK'
  <2>1. NewFile(f, "ReadWrite", Opened(store, 1)) /\ "ReadWrite" \in Modes
    BY <1>2 DEF Create, Modes
  <2>2. Grown(Opened(store, 1))
    BY <2>1, OpenedType, AppendGrows DEF NewFile
  <2>3. content' \in [Stores -> Seq(HDU)]
    <3>1. <<>> \in Seq(HDU)
      OBVIOUS
    <3> QED
      BY <1>2, <3>1 DEF Create, TypeOK
  <2> QED
    BY <1>2, <2>1, <2>2, <2>3, GrownType DEF Create, TypeOK
<1>3. ASSUME NEW f \in Handles, Close(f) \/ Destroy(f)
      PROVE  TypeOK'
  <2>1. UNCHANGED <<content, table>> /\ file[f].fits \in 0 .. Len(fits)
    BY <1>3 DEF Close, Destroy, TypeOK
  <2>2. fits' = CloseFits(fits, file[f].fits)
    BY <1>3, <2>1, DestroyedType DEF Close, Destroy, TypeOK
  <2>3. fits' \in Seq(Fitsfile) /\ Len(fits') = Len(fits)
    BY <2>1, <2>2, CloseFitsType DEF TypeOK
  <2>4. 0 \in 0 .. Len(fits)
    BY LenProperties DEF TypeOK
  <2>5. CASE Close(f)
    <3>1. file' = [file EXCEPT ![f].fits = 0]
      BY <2>5 DEF Close, Released
    <3>2. file' \in [Handles -> FileType(Len(fits))]
      BY <2>4, <3>1 DEF TypeOK
    <3> QED
      BY <2>1, <2>3, <3>2 DEF TypeOK
  <2>6. CASE Destroy(f)
    <3>1. NoFile \in FileType(Len(fits))
      BY <2>4 DEF NoFile, Modes
    <3>2. file' \in [Handles -> FileType(Len(fits))]
      BY <2>6, <3>1 DEF Destroy, TypeOK
    <3> QED
      BY <2>1, <2>3, <3>2 DEF TypeOK
  <2> QED
    BY <1>3, <2>5, <2>6
<1>4. ASSUME NEW f \in Handles, NEW g \in Handles, Reopen(f, g)
      PROVE  TypeOK'
  <2> DEFINE reopened == Opened(StoreOf(f), 1)
             moved == [reopened EXCEPT !.hdu = Position(f)]
  <2>1. reopened \in Fitsfile
    BY <1>4, UsableType, OpenedType DEF Reopen
  <2>2. moved \in Fitsfile
    BY <1>4, <2>1, UsableType DEF Reopen, Fitsfile
  <2>3. file[f].mode \in Modes
    BY DEF TypeOK
  <2> HIDE DEF reopened, moved
  <2>4. \/ NewFile(g, file[f].mode, moved)
        \/ \E threw : fits' = Abandoned(Append(fits, reopened), threw) /\ file' = file
    BY <1>4 DEF Reopen, reopened, moved
  <2>5. CASE NewFile(g, file[f].mode, moved)
    <3>1. Grown(moved)
      BY <2>2, <2>5, AppendGrows DEF NewFile
    <3> QED
      BY <1>4, <2>3, <2>5, <3>1, GrownType DEF Reopen, TypeOK
  <2>6. ASSUME NEW threw, fits' = Abandoned(Append(fits, reopened), threw), file' = file
        PROVE  TypeOK'
    <3>1. Grown([reopened EXCEPT !.closes = @ + 1])
      BY <2>1, <2>6, AbandonedGrows
    <3> QED
      BY <1>4, <2>6, <3>1, GrownType DEF Reopen, TypeOK
  <2> QED
    BY <2>4, <2>5, <2>6
<1>5. ASSUME NEW f \in Handles, Move(f)
      PROVE  TypeOK'
  <2>1. PICK hdu \in 1 .. Len(HdusOf(f)) : MoveFits(f, hdu)
    BY <1>5 DEF Move
  <2>2. hdu \in Nat \ {0} /\ Usable(f)
    BY <1>5, UsableType DEF Move
  <2> QED
    BY <1>5, <2>1, <2>2, MoveFitsType DEF Move, TypeOK
<1>6. ASSUME NEW f \in Handles, DeleteHdu(f), HduDeleted(f)
      PROVE  TypeOK'
  <2> DEFINE hdus == IF Position(f) = 1 THEN [HdusOf(f) EXCEPT ![1] = NullPrimary]
                     ELSE RemoveAt(HdusOf(f), Position(f))
  <2>1. /\ Usable(f) /\ Position(f) \in 1 .. Len(HdusOf(f))
        /\ content' = [content EXCEPT ![StoreOf(f)] = hdus]
        /\ MoveFits(f, IF Position(f) > Len(hdus) THEN Len(hdus) ELSE Position(f))
    BY <1>6 DEF DeleteHdu, HduDeleted
  <2>2. /\ hdus \in Seq(HDU)
        /\ Len(hdus) = IF Position(f) = 1 THEN Len(HdusOf(f)) ELSE Len(HdusOf(f)) - 1
    <3>1. NullPrimary \in HDU
      BY DEF NullPrimary, HDU
    <3> QED
      BY <2>1, <3>1, UsableType, ExceptSeq, RemoveAtType
  <2> HIDE DEF hdus
  <2>3. (IF Position(f) > Len(hdus) THEN Len(hdus) ELSE Position(f)) \in Nat \ {0}
    BY <2>1, <2>2, UsableType
  <2>4. content' \in [Stores -> Seq(HDU)]
    BY <2>1, <2>2 DEF TypeOK
  <2> QED
    BY <1>6, <2>1, <2>3, <2>4, MoveFitsType DEF DeleteHdu, TypeOK
<1>7. ASSUME NEW f \in Handles, NEW g \in Handles, NEW what, CopyFile(f, g, what)
      PROVE  TypeOK'
  <2> DEFINE selected == Selected(f, what)
  <2>1. /\ Usable(f) /\ Usable(g) /\ Position(f) \in 1 .. Len(HdusOf(f))
        /\ HdusOf(f) \in Seq(HDU) /\ HdusOf(g) \in Seq(HDU) /\ Len(HdusOf(f)) \in Nat
    BY <1>7, UsableType DEF CopyFile
  <2>2. \A i \in 1 .. Len(HdusOf(f)) : HdusOf(f)[i] \in HDU
    BY <2>1, ElementOfSeq
  <2>3. selected \in Seq(HDU)
    <3>1. SubSeq(HdusOf(f), 1, Position(f) - 1) \in Seq(HDU)
      <4>1. \A i \in 1 .. Position(f) - 1 : HdusOf(f)[i] \in HDU
        BY <2>1, <2>2
      <4> QED
        BY <2>1, <4>1, SubSeqProperties
    <3>2. SubSeq(HdusOf(f), Position(f) + 1, Len(HdusOf(f))) \in Seq(HDU)
      <4>1. \A i \in Position(f) + 1 .. Len(HdusOf(f)) : HdusOf(f)[i] \in HDU
        BY <2>1, <2>2
      <4> QED
        BY <2>1, <4>1, SubSeqProperties
    <3>3. <<HdusOf(f)[Position(f)]>> \in Seq(HDU) /\ <<>> \in Seq(HDU)
      BY <2>1, <2>2
    <3> QED
      BY <3>1, <3>2, <3>3, ConcatProperties DEF Selected
  <2> HIDE DEF selected
  <2>4. \A n \in Int : n <= Len(selected) => SubSeq(selected, 1, n) \in Seq(HDU)
    <3> SUFFICES ASSUME NEW n \in Int, n <= Len(selected) PROVE SubSeq(selected, 1, n) \in Seq(HDU)
      OBVIOUS
    <3>1. \A i \in 1 .. n : selected[i] \in HDU
      BY <2>3, ElementOfSeq, LenProperties
    <3> QED
      BY <3>1, SubSeqProperties
  <2>5. PICK hdus \in Seq(HDU), hdu \in Nat \ {0} : Deliver(f, g, hdus, hdu)
    <3>1. CASE Deliver(f, g, WithAll(HdusOf(g), selected), Position(f))
      BY <2>1, <2>3, <3>1, WithAllType
    <3>2. ASSUME NEW copied \in 0 .. Len(selected) - 1, NEW hdu \in 1 .. Len(HdusOf(f)),
                 Deliver(f, g, WithAll(HdusOf(g), SubSeq(selected, 1, copied)), hdu)
          PROVE  \E hdus \in Seq(HDU), n \in Nat \ {0} : Deliver(f, g, hdus, n)
      <4>1. copied \in Int /\ copied <= Len(selected) /\ hdu \in Nat \ {0}
        BY <2>1, <2>3, LenProperties
      <4> QED
        BY <2>1, <2>4, <3>2, <4>1, WithAllType
    <3> QED
      BY <1>7, <3>1, <3>2 DEF CopyFile, selected
  <2> QED
    BY <1>7, <2>1, <2>5, DeliverType DEF CopyFile, TypeOK
<1>8. ASSUME NEW f \in Handles, NEW t \in Tables, NEW hdu_num, MakeTable(f, t, hdu_num)
      PROVE  TypeOK'
  <2>1. Usable(f) /\ hdu_num \in Nat \ {0} /\ file[f].fits \in 0 .. Len(fits)
    BY <1>8, UsableType DEF MakeTable
  <2>2. table' \in [Tables -> TableType(Len(fits))]
    BY <1>8, <2>1 DEF MakeTable, TypeOK
  <2> QED
    BY <1>8, <2>1, <2>2, MoveFitsType DEF MakeTable, TypeOK
<1>9. ASSUME NEW t \in Tables, DropTable(t)
      PROVE  TypeOK'
  <2>1. NoTable \in TableType(Len(fits))
    BY LenProperties DEF NoTable, TypeOK
  <2> QED
    BY <1>9, <2>1 DEF DropTable, TypeOK
<1>10. ASSUME NEW f \in Handles, NEW g \in Handles, NEW t \in Tables, NEW u \in Tables,
              NEW data \in BOOLEAN, CopyTable(f, t, g, u, data)
       PROVE  TypeOK'
  <2> DEFINE source == HdusOf(f)[SourceHdu(f, t)]
             copy == [source EXCEPT !.data = @ /\ data]
             hdus == With(HdusOf(g), copy)
  <2>1. /\ Usable(f) /\ Usable(g) /\ SourceHdu(f, t) \in 1 .. Len(HdusOf(f))
        /\ HdusOf(f) \in Seq(HDU) /\ HdusOf(g) \in Seq(HDU) /\ Len(HdusOf(f)) \in Nat
    BY <1>10, UsableType DEF CopyTable, Owns, SourceHdu
  <2>2. source \in HDU
    BY <2>1, ElementOfSeq
  <2>3. copy \in HDU
    <3>1. (source.data /\ data) \in BOOLEAN
      OBVIOUS
    <3> QED
      BY <2>2, <3>1 DEF HDU
  <2> HIDE DEF source, copy
  <2>4. hdus \in Seq(HDU)
    <3>1. <<copy>> \in Seq(HDU)
      BY <2>3
    <3> QED
      BY <2>1, <3>1, WithAllType DEF With
  <2>5. Deliver(f, g, hdus, SourceHdu(f, t))
    BY <1>10 DEF CopyTable, source, copy
  <2>6. /\ content' \in [Stores -> Seq(HDU)]
        /\ fits' \in Seq(Fitsfile)
        /\ Len(fits') = Len(fits)
    <3>1. SourceHdu(f, t) \in Nat \ {0}
      BY <2>1
    <3> QED
      BY <2>1, <2>4, <2>5, <3>1, DeliverType
  <2>7. table' \in [Tables -> TableType(Len(fits))]
    <3>1. file[g].fits \in 0 .. Len(fits) /\ Len(hdus) \in Nat
      BY <2>1, <2>4, UsableType, LenProperties
    <3> DEFINE made == [fits |-> file[g].fits, hdu_num |-> Len(hdus)]
    <3>2. made \in TableType(Len(fits))
      BY <3>1
    <3>3. table' = [table EXCEPT ![u] = made] \/ table' = table
      BY <1>10 DEF CopyTable, source, copy
    <3> HIDE DEF made
    <3> QED
      BY <3>2, <3>3 DEF TypeOK
  <2> QED
    BY <1>10, <2>6, <2>7 DEF CopyTable, TypeOK
<1>11. ASSUME NEW f \in Handles, DeleteHdu(f), ~ HduDeleted(f)
       PROVE  TypeOK'
  BY <1>11 DEF DeleteHdu, TypeOK
<1>12. CASE UNCHANGED vars
  BY <1>12 DEF vars, TypeOK
<1> QED
  BY <1>1, <1>2, <1>3, <1>4, <1>5, <1>6, <1>7, <1>8, <1>9, <1>10, <1>11, <1>12 DEF Next

\* Type correctness: a File has no fitsfile or one which CFITSIO has opened,
\* positions count from 1, and stores hold HDUs, whatever fails.
THEOREM TypeCorrect == Spec => []TypeOK
BY InitType, NextType, PTL DEF Spec

-----------------------------------------------------------------------------
(***************************************************************************)
(* Ownership.  The two properties of closing need each other: a fitsfile   *)
(* is closed once because what a File owns is not closed yet, and none is  *)
(* leaked because only its owner closes it.                                *)
(***************************************************************************)
OwnersOK ==
    /\ \A f \in Handles : file[f].fits # 0 => file[f].exists /\ fits[file[f].fits].closes = 0
    /\ \A f, g \in Handles : file[f].fits # 0 /\ file[f].fits = file[g].fits => f = g
    /\ \A i \in DOMAIN fits : fits[i].closes = 0 => \E f \in Handles : file[f].fits = i

FitsOK == \A i \in DOMAIN fits : fits[i].closes \in {0, 1}

Ownership == OwnersOK /\ FitsOK

LEMMA GrowthOwnership ==
    ASSUME TypeOK, Ownership, NEW fitsfile, Grown(fitsfile),
           \/ /\ file' = file
              /\ fitsfile.closes = 1
           \/ \E f \in Handles, mode \in Modes :
                /\ ~ file[f].exists /\ NewFile(f, mode, fitsfile)
                /\ fitsfile.closes = 0
    PROVE  Ownership'
<1>1. /\ Len(fits) \in Nat /\ DOMAIN fits = 1 .. Len(fits)
      /\ DOMAIN fits' = 1 .. Len(fits) + 1
      /\ \A i \in 1 .. Len(fits) : fits'[i] = fits[i]
      /\ fits'[Len(fits) + 1] = fitsfile
  BY LenProperties DEF TypeOK, Grown
<1>2. \A f \in Handles : file[f].fits \in 0 .. Len(fits)
  BY DEF TypeOK
<1>3. FitsOK'
  BY <1>1 DEF Ownership, FitsOK
<1>4. CASE file' = file /\ fitsfile.closes = 1
  BY <1>1, <1>2, <1>3, <1>4 DEF Ownership, OwnersOK
<1>5. ASSUME NEW f \in Handles, NEW mode \in Modes,
             ~ file[f].exists, NewFile(f, mode, fitsfile), fitsfile.closes = 0
      PROVE  Ownership'
  <2>1. /\ file'[f].fits = Len(fits) + 1 /\ file'[f].exists
        /\ \A g \in Handles : g # f => file'[g] = file[g]
    BY <1>5 DEF NewFile, TypeOK
  <2>2. file[f].fits = 0
    BY <1>5 DEF Ownership, OwnersOK
  <2>3. \A g \in Handles :
            file'[g].fits # 0 => file'[g].exists /\ fits'[file'[g].fits].closes = 0
    BY <1>1, <1>2, <1>5, <2>1 DEF Ownership, OwnersOK
  <2>4. \A g, h \in Handles : file'[g].fits # 0 /\ file'[g].fits = file'[h].fits => g = h
    BY <1>1, <1>2, <2>1 DEF Ownership, OwnersOK
  <2>5. ASSUME NEW i \in DOMAIN fits', fits'[i].closes = 0
        PROVE  \E g \in Handles : file'[g].fits = i
    <3>1. CASE i = Len(fits) + 1
      BY <2>1, <3>1
    <3>2. CASE i # Len(fits) + 1
      <4>1. i \in DOMAIN fits /\ fits[i].closes = 0
        BY <1>1, <2>5, <3>2
      <4>2. PICK g \in Handles : file[g].fits = i
        BY <4>1 DEF Ownership, OwnersOK
      <4>3. g # f
        BY <1>1, <2>2, <4>1, <4>2
      <4> QED
        BY <2>1, <4>2, <4>3
    <3> QED
      BY <3>1, <3>2
  <2> QED
    BY <1>3, <2>3, <2>4, <2>5 DEF Ownership, OwnersOK
<1> QED
  BY <1>4, <1>5

LEMMA ClosingOwnership ==
    ASSUME TypeOK, Ownership, NEW f \in Handles, file[f].fits # 0,
           fits' = CloseFits(fits, file[f].fits),
           file'[f].fits = 0, \A g \in Handles : g # f => file'[g] = file[g]
    PROVE  Ownership'
<1> DEFINE n == file[f].fits
<1>1. n \in 1 .. Len(fits) /\ fits[n] \in Fitsfile /\ DOMAIN fits = 1 .. Len(fits)
  BY UsableType, LenProperties DEF TypeOK, Usable, Ownership, OwnersOK
<1>2. fits' = [fits EXCEPT ![n].closes = @ + 1]
  BY DEF CloseFits
<1>3. /\ DOMAIN fits' = DOMAIN fits
      /\ fits'[n].closes = fits[n].closes + 1
      /\ \A i \in DOMAIN fits : i # n => fits'[i] = fits[i]
  BY <1>1, <1>2 DEF Fitsfile
<1>4. fits[n].closes = 0
  BY DEF Ownership, OwnersOK
<1>5. fits'[n].closes = 1
  BY <1>3, <1>4
<1>6. FitsOK'
  BY <1>3, <1>5 DEF Ownership, FitsOK
<1>7. \A g \in Handles : g # f /\ file[g].fits # 0 =>
            file[g].fits # n /\ file[g].fits \in DOMAIN fits
  BY <1>1 DEF Ownership, OwnersOK, TypeOK
<1>8. \A g \in Handles :
            file'[g].fits # 0 => file'[g].exists /\ fits'[file'[g].fits].closes = 0
  BY <1>3, <1>7 DEF Ownership, OwnersOK
<1>9. \A g, h \in Handles : file'[g].fits # 0 /\ file'[g].fits = file'[h].fits => g = h
  BY DEF Ownership, OwnersOK
<1>10. ASSUME NEW i \in DOMAIN fits', fits'[i].closes = 0
       PROVE  \E g \in Handles : file'[g].fits = i
  <2>1. i # n
    BY <1>5, <1>10
  <2>2. PICK g \in Handles : file[g].fits = i
    BY <1>3, <1>10, <2>1 DEF Ownership, OwnersOK
  <2> QED
    BY <2>1, <2>2
<1> QED
  BY <1>6, <1>8, <1>9, <1>10 DEF Ownership, OwnersOK

LEMMA MovingOwnership ==
    ASSUME TypeOK, Ownership, file' = file, DOMAIN fits' = DOMAIN fits,
           \A i \in DOMAIN fits : fits'[i].closes = fits[i].closes
    PROVE  Ownership'
<1>1. FitsOK'
  BY DEF Ownership, FitsOK
<1>2. \A f \in Handles : file[f].fits # 0 => file[f].fits \in DOMAIN fits
  BY LenProperties DEF TypeOK
<1> QED
  BY <1>1, <1>2 DEF Ownership, OwnersOK

LEMMA MoveFitsOwnership ==
    ASSUME TypeOK, Ownership, NEW f \in Handles, NEW hdu, MoveFits(f, hdu), file' = file
    PROVE  Ownership'
<1>1. /\ DOMAIN fits' = DOMAIN fits
      /\ \A i \in DOMAIN fits : fits[i] \in Fitsfile
  BY ElementOfSeq, LenProperties DEF MoveFits, TypeOK
<1>2. \A i \in DOMAIN fits : fits'[i].closes = fits[i].closes
  BY <1>1 DEF MoveFits, Fitsfile
<1> QED
  BY <1>1, <1>2, MovingOwnership

LEMMA DeliverOwnership ==
    ASSUME TypeOK, Ownership, NEW f \in Handles, NEW g \in Handles, NEW hdus, NEW hdu,
           Deliver(f, g, hdus, hdu), file' = file
    PROVE  Ownership'
<1>1. /\ DOMAIN fits' = DOMAIN fits
      /\ \A i \in DOMAIN fits : fits[i] \in Fitsfile
  BY ElementOfSeq, LenProperties DEF Deliver, TypeOK
<1> DEFINE first == [fits EXCEPT ![file[g].fits].hdu = IF hdus = <<>> THEN 1 ELSE Len(hdus)]
<1>2. fits' = [first EXCEPT ![file[f].fits].hdu = hdu]
  BY DEF Deliver
<1>3. \A i \in DOMAIN fits :
        /\ first[i].closes = fits[i].closes
        /\ DOMAIN first[i] = DOMAIN fits[i]
  BY <1>1 DEF Fitsfile
<1>4. DOMAIN first = DOMAIN fits
  OBVIOUS
<1> HIDE DEF first
<1>5. \A i \in DOMAIN fits : fits'[i].closes = first[i].closes
  BY <1>2, <1>4
<1> QED
  BY <1>1, <1>3, <1>5, MovingOwnership

LEMMA NextOwnership == TypeOK /\ Ownership /\ [Next]_vars => Ownership'
<1> SUFFICES ASSUME TypeOK, Ownership, [Next]_vars PROVE Ownership'
  OBVIOUS
<1>1. ASSUME NEW f \in Handles, NEW store \in Stores, NEW mode \in Modes, Open(f, store, mode)
      PROVE  Ownership'
  <2>1. PICK hdu \in 1 .. Len(content[store]) : NewFile(f, mode, Opened(store, hdu))
    BY <1>1 DEF Open
  <2>2. Opened(store, hdu) \in Fitsfile
    <3>1. Len(content[store]) \in Nat
      BY LenProperties DEF TypeOK
    <3> QED
      BY <3>1, OpenedType
  <2>3. Grown(Opened(store, hdu)) /\ Opened(store, hdu).closes = 0 /\ ~ file[f].exists
    BY <1>1, <2>1, <2>2, AppendGrows DEF Open, NewFile, Opened
  <2> QED
    BY <2>1, <2>3, GrowthOwnership
<1>2. ASSUME NEW f \in Handles, NEW store \in Stores, NEW overwrite \in BOOLEAN,
             Create(f, store, overwrite)
      PROVE  Ownership'
  <2>1. /\ NewFile(f, "ReadWrite", Opened(store, 1)) /\ "ReadWrite" \in Modes
        /\ ~ file[f].exists /\ Opened(store, 1).closes = 0
    BY <1>2 DEF Create, Modes, Opened
  <2>2. Grown(Opened(store, 1))
    BY <2>1, OpenedType, AppendGrows DEF NewFile
  <2> QED
    BY <2>1, <2>2, GrowthOwnership
<1>3. ASSUME NEW f \in Handles, Close(f) \/ Destroy(f)
      PROVE  /\ fits' = CloseFits(fits, file[f].fits)
             /\ file'[f].fits = 0
             /\ \A g \in Handles : g # f => file'[g] = file[g]
  <2>1. CASE Close(f)
    <3>1. fits' = CloseFits(fits, file[f].fits) /\ file' = [file EXCEPT ![f].fits = 0]
      BY <2>1 DEF Close, Released
    <3> QED
      BY <3>1 DEF TypeOK
  <2>2. CASE Destroy(f)
    <3>1. file[f].fits \in 0 .. Len(fits) /\ fits \in Seq(Fitsfile)
      BY DEF TypeOK
    <3>2. fits' = CloseFits(fits, file[f].fits)
      BY <2>2, <3>1, DestroyedType DEF Destroy
    <3>3. file' = [file EXCEPT ![f] = NoFile]
      BY <2>2 DEF Destroy
    <3> QED
      BY <3>2, <3>3 DEF NoFile, TypeOK
  <2> QED
    BY <1>3, <2>1, <2>2
<1>4. ASSUME NEW f \in Handles, Close(f) \/ Destroy(f)
      PROVE  Ownership'
  <2>1. CASE file[f].fits # 0
    BY <1>3, <1>4, <2>1, ClosingOwnership
  <2>2. CASE file[f].fits = 0
    <3>1. fits' = fits
      BY <1>3, <1>4, <2>2 DEF CloseFits
    <3>2. file'[f].fits = 0 /\ \A g \in Handles : g # f => file'[g] = file[g]
      BY <1>3, <1>4
    <3>3. FitsOK'
      BY <3>1 DEF Ownership, FitsOK
    <3>4. /\ \A g \in Handles :
                file'[g].fits # 0 => file'[g].exists /\ fits'[file'[g].fits].closes = 0
          /\ \A g, h \in Handles : file'[g].fits # 0 /\ file'[g].fits = file'[h].fits => g = h
      BY <3>1, <3>2 DEF Ownership, OwnersOK
    <3>5. ASSUME NEW i \in DOMAIN fits', fits'[i].closes = 0
          PROVE  \E g \in Handles : file'[g].fits = i
      <4>1. PICK g \in Handles : file[g].fits = i
        BY <3>1, <3>5 DEF Ownership, OwnersOK
      <4>2. i # 0
        BY <3>1, <3>5, LenProperties DEF TypeOK
      <4>3. g # f
        BY <2>2, <4>1, <4>2
      <4> QED
        BY <3>2, <4>1, <4>3
    <3> QED
      BY <3>3, <3>4, <3>5 DEF Ownership, OwnersOK
  <2> QED
    BY <2>1, <2>2
<1>5. ASSUME NEW f \in Handles, NEW g \in Handles, Reopen(f, g)
      PROVE  Ownership'
  <2> DEFINE reopened == Opened(StoreOf(f), 1)
             moved == [reopened EXCEPT !.hdu = Position(f)]
  <2>1. reopened \in Fitsfile /\ reopened.closes = 0
    BY <1>5, UsableType, OpenedType DEF Reopen, Opened
  <2>2. moved \in Fitsfile /\ moved.closes = 0
    BY <1>5, <2>1, UsableType DEF Reopen, Fitsfile
  <2>3. file[f].mode \in Modes /\ ~ file[g].exists
    BY <1>5 DEF TypeOK, Reopen
  <2> HIDE DEF reopened, moved
  <2>4. \/ NewFile(g, file[f].mode, moved)
        \/ \E threw : fits' = Abandoned(Append(fits, reopened), threw) /\ file' = file
    BY <1>5 DEF Reopen, reopened, moved
  <2>5. CASE NewFile(g, file[f].mode, moved)
    <3>1. Grown(moved)
      BY <2>2, <2>5, AppendGrows DEF NewFile
    <3> QED
      BY <2>2, <2>3, <2>5, <3>1, GrowthOwnership
  <2>6. ASSUME NEW threw, fits' = Abandoned(Append(fits, reopened), threw), file' = file
        PROVE  Ownership'
    <3> DEFINE closed == [reopened EXCEPT !.closes = @ + 1]
    <3>1. Grown(closed)
      BY <2>1, <2>6, AbandonedGrows
    <3>2. closed.closes = 1
      BY <2>1 DEF Fitsfile
    <3> QED
      BY <2>6, <3>1, <3>2, GrowthOwnership
  <2> QED
    BY <2>4, <2>5, <2>6
<1>6. ASSUME NEW f \in Handles,
             \/ Move(f)
             \/ DeleteHdu(f) /\ HduDeleted(f)
             \/ \E t \in Tables, hdu_num \in 1 .. MaxHdus : MakeTable(f, t, hdu_num)
      PROVE  Ownership'
  <2>1. file' = file /\ \E hdu : MoveFits(f, hdu)
    BY <1>6 DEF Move, DeleteHdu, HduDeleted, MakeTable
  <2> QED
    BY <2>1, MoveFitsOwnership
<1>7. ASSUME NEW f \in Handles, NEW g \in Handles,
             \/ \E what \in CopyFlags : CopyFile(f, g, what)
             \/ \E t, u \in Tables, data \in BOOLEAN : CopyTable(f, t, g, u, data)
      PROVE  Ownership'
  <2>1. file' = file /\ \E hdus, hdu : Deliver(f, g, hdus, hdu)
    BY <1>7 DEF CopyFile, CopyTable
  <2> QED
    BY <2>1, DeliverOwnership
<1>8. CASE \/ UNCHANGED vars
           \/ \E t \in Tables : DropTable(t)
           \/ \E f \in Handles : DeleteHdu(f) /\ ~ HduDeleted(f)
  BY <1>8 DEF vars, DropTable, DeleteHdu, Ownership, OwnersOK, FitsOK
<1> QED
  BY <1>1, <1>2, <1>3, <1>4, <1>5, <1>6, <1>7, <1>8 DEF Next

\* The inductive invariant behind the two theorems which follow.
THEOREM OwnershipHolds == Spec => []Ownership
<1>1. Init => Ownership
  BY DEF Init, Ownership, OwnersOK, FitsOK, NoFile
<1> QED
  BY <1>1, NextOwnership, TypeCorrect, PTL DEF Spec

\* No fitsfile is leaked and none has two owners, whichever calls throw.
THEOREM FitsfilesAreOwned == Spec => []OwnedUntilClosed
<1>1. TypeOK /\ Ownership => OwnedUntilClosed
  <2> SUFFICES ASSUME TypeOK, Ownership, NEW i \in DOMAIN fits
               PROVE  LET Owners == {f \in Handles : file[f].exists /\ file[f].fits = i}
                      IN  IF fits[i].closes = 0 THEN \E f \in Handles : Owners = {f}
                          ELSE Owners = {}
    BY DEF OwnedUntilClosed
  <2>1. i # 0
    BY LenProperties DEF TypeOK
  <2>2. CASE fits[i].closes = 0
    <3>1. PICK f \in Handles : file[f].fits = i
      BY <2>2 DEF Ownership, OwnersOK
    <3>2. {g \in Handles : file[g].exists /\ file[g].fits = i} = {f}
      BY <2>1, <3>1 DEF Ownership, OwnersOK
    <3> QED
      BY <2>2, <3>2
  <2>3. CASE fits[i].closes # 0
    <3>1. {g \in Handles : file[g].exists /\ file[g].fits = i} = {}
      BY <2>1, <2>3 DEF Ownership, OwnersOK
    <3> QED
      BY <2>3, <3>1
  <2> QED
    BY <2>2, <2>3
<1> QED
  BY <1>1, OwnershipHolds, TypeCorrect, PTL

\* fits_close_file is called at most once for each fitsfile.
THEOREM FitsfilesAreClosedOnce == Spec => []ClosedOnce
<1>1. Ownership => ClosedOnce
  BY DEF Ownership, FitsOK, ClosedOnce
<1> QED
  BY <1>1, OwnershipHolds, PTL

-----------------------------------------------------------------------------
(***************************************************************************)
(* What a copy of a table is                                               *)
(***************************************************************************)
LEMMA WithPutsLast ==
    ASSUME NEW hdus \in Seq(HDU), NEW hdu \in HDU
    PROVE  With(hdus, hdu)[Len(With(hdus, hdu))] = hdu
<1> DEFINE front == IF hdus = <<>> /\ <<hdu>> # <<>> /\ ~ <<hdu>>[1].image
                    THEN <<NullPrimary>> ELSE hdus
<1>1. NullPrimary \in HDU
  BY DEF NullPrimary, HDU
<1>2. front \in Seq(HDU) /\ Len(front) \in Nat
  <2>1. <<NullPrimary>> \in Seq(HDU)
    BY <1>1
  <2>2. front \in Seq(HDU)
    BY <2>1
  <2> HIDE DEF front
  <2> QED
    BY <2>2, LenProperties
<1>3. With(hdus, hdu) = front \o <<hdu>>
  BY DEF With, WithAll
<1> HIDE DEF front
<1>4. <<hdu>> \in Seq(HDU) /\ Len(<<hdu>>) = 1 /\ <<hdu>>[1] = hdu
  OBVIOUS
<1>5. /\ Len(front \o <<hdu>>) = Len(front) + 1
      /\ (front \o <<hdu>>)[Len(front) + 1] = hdu
  BY <1>2, <1>4, ConcatProperties
<1> QED
  BY <1>3, <1>5

\* The Table which Table::copy returns is at a copy of the HDU of the table
\* it was called on, wherever the two files were positioned, also when both
\* are open on one store.
THEOREM CopiesAreOfTheOwnHdu == Spec => CopiedTableIsOwn
<1> DEFINE Own ==
        \A f, g \in Handles, t, u \in Tables, data \in BOOLEAN :
            table'[u] # table[u] /\ CopyTable(f, t, g, u, data) =>
                content'[StoreOf(g)][table'[u].hdu_num].origin
                    = HdusOf(f)[table[t].hdu_num].origin
<1>1. TypeOK => Own
  <2> SUFFICES ASSUME TypeOK, NEW f \in Handles, NEW g \in Handles,
                      NEW t \in Tables, NEW u \in Tables, NEW data \in BOOLEAN,
                      table'[u] # table[u], CopyTable(f, t, g, u, data)
               PROVE  content'[StoreOf(g)][table'[u].hdu_num].origin
                            = HdusOf(f)[table[t].hdu_num].origin
    OBVIOUS
  <2> DEFINE source == HdusOf(f)[table[t].hdu_num]
             copy == [source EXCEPT !.data = @ /\ data]
             hdus == With(HdusOf(g), copy)
  <2>1. Usable(f) /\ Usable(g) /\ table[t].hdu_num \in 1 .. Len(HdusOf(f))
    BY DEF CopyTable, Owns
  <2>2. source \in HDU
    BY <2>1, UsableType, ElementOfSeq
  <2>3. copy \in HDU /\ copy.origin = source.origin
    <3>1. (source.data /\ data) \in BOOLEAN
      OBVIOUS
    <3> QED
      BY <2>2, <3>1 DEF HDU
  <2>4. content'[StoreOf(g)] = hdus
    BY <2>1, UsableType DEF CopyTable, SourceHdu, Deliver, TypeOK
  <2>5. table'[u].hdu_num = Len(hdus)
    BY DEF CopyTable, SourceHdu, TypeOK
  <2> HIDE DEF source, copy
  <2>6. hdus[Len(hdus)] = copy
    BY <2>1, <2>3, UsableType, WithPutsLast
  <2> QED
    BY <2>3, <2>4, <2>5, <2>6 DEF source
<1> QED
  BY <1>1, TypeCorrect, PTL DEF Spec, CopiedTableIsOwn
=============================================================================
