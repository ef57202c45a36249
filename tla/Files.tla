------------------------------- MODULE Files -------------------------------
(***************************************************************************)
(* misFITS::File: who owns an open fitsfile, and what copies of HDUs from  *)
(* file to file do.                                                        *)
(*                                                                         *)
(* A File object owns the fitsfile which CFITSIO opened for it and must    *)
(* close it exactly once, in close or else on the way of the destructor.   *)
(* A file may be opened several times, by open or by reopen, and each      *)
(* fitsfile has a position (the number of its CHDU) of its own, though     *)
(* they share the HDUs.  A call runs to its end before the next, but may   *)
(* throw half-way.                                                         *)
(***************************************************************************)
EXTENDS Naturals, Sequences, SequencesExt

CONSTANTS
    Handles,       \* the File objects of the client
    Tables,        \* the Table objects of the client
    Stores,        \* the files on disk or in memory
    Origins,       \* HDUs are told apart by where they come from
    InitialHdus,   \* the HDUs each store holds to begin with
    MaxFits,       \* fitsfiles are opened up to this many
    MaxHdus,       \* a store is copied to while it has fewer HDUs than this
    Faulty         \* whether CFITSIO calls may fail for reasons of their own

\* An HDU, and whether it is more than a copied header.
HDU == [origin : Origins \cup {"null"}, image : BOOLEAN, data : BOOLEAN]

ASSUME InitialHdusAssumption == InitialHdus \in [Stores -> Seq(HDU)]
ASSUME BoundsAssumption == MaxFits \in Nat /\ MaxHdus \in Nat
ASSUME FaultyAssumption == Faulty \in BOOLEAN

VARIABLES
    file,      \* each File object: whether it exists, its mode, its fitsptr (0: null)
    fits,      \* every fitsfile CFITSIO has opened so far
    content,   \* the HDUs of each store
    table      \* each Table object: the fitsfile of its file, and hdu_num_

vars == <<file, fits, content, table>>

Modes == {"ReadOnly", "ReadWrite"}

\* closes counts the calls of fits_close_file.
Fitsfile == [store : Stores, hdu : Nat \ {0}, closes : Nat]

NoFile == [exists |-> FALSE, mode |-> "ReadOnly", fits |-> 0]
NoTable == [fits |-> 0, hdu_num |-> 0]

Usable(f) == file[f].exists /\ file[f].fits # 0
StoreOf(f) == fits[file[f].fits].store
HdusOf(f) == content[StoreOf(f)]
Position(f) == fits[file[f].fits].hdu

NullPrimary == [origin |-> "null", image |-> TRUE, data |-> FALSE]
-----------------------------------------------------------------------------
(***************************************************************************)
(* Opening, closing, destroying                                            *)
(***************************************************************************)
\* Variant with a bug: HDUs are counted from 0.
OpenedFromZero(store, hdu) == [store |-> store, hdu |-> hdu - 1, closes |-> 0]

Opened(store, hdu) == [store |-> store, hdu |-> hdu, closes |-> 0]

NewFile(f, mode, fitsfile) ==
    /\ fits' = Append(fits, fitsfile)
    /\ file' = [file EXCEPT ![f] = [exists |-> TRUE, mode |-> mode, fits |-> Len(fits) + 1]]

\* open<Entity, ReadOnly | ReadWrite>: Data, Table and Image entities go to
\* the first HDU of their kind.  An open that throws leaves no object.
Open(f, store, mode) ==
    /\ ~ file[f].exists
    /\ Len(fits) < MaxFits
    /\ content[store] # <<>>
    /\ \E hdu \in 1 .. Len(content[store]) : NewFile(f, mode, Opened(store, hdu))
    /\ UNCHANGED <<content, table>>

\* open<Entity, Create | CreateOverWrite>: without the ! of CreateOverWrite,
\* CFITSIO refuses a file that is there.
Create(f, store, overwrite) ==
    /\ ~ file[f].exists
    /\ Len(fits) < MaxFits
    /\ \A i \in DOMAIN fits : fits[i].store = store => fits[i].closes > 0
    /\ overwrite \/ content[store] = <<>>
    /\ content' = [content EXCEPT ![store] = <<>>]
    /\ NewFile(f, "ReadWrite", Opened(store, 1))
    /\ UNCHANGED table

\* fits_close_file, which is done with the fitsfile also when it fails.
CloseFits(opened, n) == IF n = 0 THEN opened ELSE [opened EXCEPT ![n].closes = @ + 1]

\* Variant with a bug: release comes after fits_close_file, which may throw.
ReleasedAfter(n, threw) == IF threw THEN n ELSE 0

\* What fitsptr, which held n, holds after close: n is released before
\* CFITSIO is called with it, so it does not matter whether that throws.
Released(n, threw) == 0

\* Closing again does nothing.
Close(f) ==
    /\ file[f].exists
    /\ fits' = CloseFits(fits, file[f].fits)
    /\ \E threw \in {FALSE, Faulty} :
            file' = [file EXCEPT ![f].fits = Released(@, threw)]
    /\ UNCHANGED <<content, table>>

\* ~File calls close, and logs what it throws; then the deleter of fitsptr
\* closes whatever that still holds.
Destroyed(opened, n, threw) == CloseFits(CloseFits(opened, n), Released(n, threw))

Destroy(f) ==
    /\ file[f].exists
    /\ \E threw \in {FALSE, Faulty} : fits' = Destroyed(fits, file[f].fits, threw)
    /\ file' = [file EXCEPT ![f] = NoFile]
    /\ UNCHANGED <<content, table>>

\* Variant with a bug: the new fitsfile is not owned when the move throws.
Leaked(opened, threw) == opened

\* The last fitsfile is that of a File which never gets to the client.
Abandoned(opened, threw) == Destroyed(opened, Len(opened), threw)

\* A fitsfile of the same store, which starts at the first HDU and is then
\* moved to where the other is.  If there is no such HDU any more the move
\* throws, and the new File is destroyed on the way out.
Reopen(f, g) ==
    /\ Usable(f)
    /\ ~ file[g].exists
    /\ Len(fits) < MaxFits
    /\ LET reopened == Opened(StoreOf(f), 1)
       IN  \/ /\ Position(f) <= Len(HdusOf(f)) \/ Position(f) = 1
              /\ NewFile(g, file[f].mode, [reopened EXCEPT !.hdu = Position(f)])
           \/ /\ (Position(f) > Len(HdusOf(f)) /\ Position(f) # 1) \/ Faulty
              /\ \E threw \in {FALSE, Faulty} : fits' = Abandoned(Append(fits, reopened), threw)
              /\ UNCHANGED file
    /\ UNCHANGED <<content, table>>
-----------------------------------------------------------------------------
(***************************************************************************)
(* Positions                                                               *)
(***************************************************************************)
MoveFits(f, hdu) == fits' = [fits EXCEPT ![file[f].fits].hdu = hdu]

\* move_to and move_by: a move that fails leaves CFITSIO where it was or at
\* the last HDU.
Move(f) ==
    /\ Usable(f)
    /\ \E hdu \in 1 .. Len(HdusOf(f)) : MoveFits(f, hdu)
    /\ UNCHANGED <<file, content, table>>

\* The primary HDU is not deleted but emptied.  Other fitsfiles of the store
\* and the tables at later HDUs do not hear of it.
HduDeleted(f) ==
    /\ Position(f) \in 1 .. Len(HdusOf(f))
    /\ LET hdus == IF Position(f) = 1
                   THEN [HdusOf(f) EXCEPT ![1] = NullPrimary]
                   ELSE RemoveAt(HdusOf(f), Position(f))
       IN  /\ content' = [content EXCEPT ![StoreOf(f)] = hdus]
           /\ MoveFits(f, IF Position(f) > Len(hdus) THEN Len(hdus) ELSE Position(f))

\* delete_hdu looks neither at the mode nor at the position: it is CFITSIO
\* which deletes nothing in a file open for reading, or where no HDU is.
DeleteHdu(f) ==
    /\ Usable(f)
    /\ \/ file[f].mode = "ReadWrite" /\ HduDeleted(f)
       \/ /\ \/ file[f].mode = "ReadOnly"
             \/ Position(f) \notin 1 .. Len(HdusOf(f))
             \/ Faulty
          /\ UNCHANGED <<content, fits>>
    /\ UNCHANGED <<file, table>>
-----------------------------------------------------------------------------
(***************************************************************************)
(* Copies                                                                  *)
(***************************************************************************)
\* fits_copy_hdu, fits_copy_header and fits_copy_file append to a file.  An
\* empty one is given a primary HDU before an extension is copied to it.
WithAll(hdus, more) ==
    (IF hdus = <<>> /\ more # <<>> /\ ~ more[1].image THEN <<NullPrimary>> ELSE hdus) \o more

With(hdus, hdu) == WithAll(hdus, <<hdu>>)

\* The HDUs which fits_copy_file copies, in the order in which it does.
Selected(f, what) ==
    LET n == Position(f)
    IN  (IF "PreviousHDUs" \in what THEN SubSeq(HdusOf(f), 1, n - 1) ELSE <<>>)
        \o (IF "CurrentHDU" \in what THEN <<HdusOf(f)[n]>> ELSE <<>>)
        \o (IF "FollowingHDUs" \in what THEN SubSeq(HdusOf(f), n + 1, Len(HdusOf(f))) ELSE <<>>)

\* The outfile gets hdus and goes to the last of them; the file copied from is at hdu.
Deliver(f, g, hdus, hdu) ==
    /\ content' = [content EXCEPT ![StoreOf(g)] = hdus]
    /\ fits' = [fits EXCEPT ![file[g].fits].hdu = IF hdus = <<>> THEN 1 ELSE Len(hdus),
                            ![file[f].fits].hdu = hdu]

Writable(g) == file[g].mode # "ReadOnly"

\* copy( outfile, what ) between different stores.  A failure in the middle
\* leaves the HDUs copied so far, and the source wherever it was by then.
CopyFile(f, g, what) ==
    /\ Usable(f) /\ Usable(g) /\ StoreOf(f) # StoreOf(g)
    /\ Writable(g)
    /\ Position(f) \in 1 .. Len(HdusOf(f))
    /\ Selected(f, what) # <<>>
    /\ Len(HdusOf(g)) + Len(Selected(f, what)) <= MaxHdus
    /\ \/ Deliver(f, g, WithAll(HdusOf(g), Selected(f, what)), Position(f))
       \/ /\ Faulty
          /\ \E copied \in 0 .. Len(Selected(f, what)) - 1, hdu \in 1 .. Len(HdusOf(f)) :
                Deliver(f, g, WithAll(HdusOf(g), SubSeq(Selected(f, what), 1, copied)), hdu)
    /\ UNCHANGED <<file, table>>

\* Table( file, hdu_num ), as far as it matters here: it goes there.
MakeTable(f, t, hdu_num) ==
    /\ table[t] = NoTable
    /\ Usable(f)
    /\ hdu_num \in 1 .. Len(HdusOf(f))
    /\ ~ HdusOf(f)[hdu_num].image
    /\ table' = [table EXCEPT ![t] = [fits |-> file[f].fits, hdu_num |-> hdu_num]]
    /\ MoveFits(f, hdu_num)
    /\ UNCHANGED <<file, content>>

DropTable(t) ==
    /\ table[t] # NoTable
    /\ table' = [table EXCEPT ![t] = NoTable]
    /\ UNCHANGED <<file, fits, content>>

Owns(f, t) == Usable(f) /\ table[t].fits = file[f].fits

\* Variant with a bug: copies the CHDU, or the last HDU if that is gone.
Chdu(f, t) == IF Position(f) > Len(HdusOf(f)) THEN Len(HdusOf(f)) ELSE Position(f)

\* set_as_chdu
SourceHdu(f, t) == table[t].hdu_num

\* Table::copy and File::add: the table's HDU, or its header alone, goes to
\* the other file and a new Table is made at that file's CHDU.  The new
\* Table may fail to be made when the copy is already there.
CopyTable(f, t, g, u, data) ==
    /\ Owns(f, t)
    /\ table[t].hdu_num \in 1 .. Len(HdusOf(f))
    /\ Usable(g) /\ file[f].fits # file[g].fits
    /\ Writable(g)
    /\ table[u] = NoTable
    /\ Len(HdusOf(g)) < MaxHdus
    /\ LET source == HdusOf(f)[SourceHdu(f, t)]
           copy == [source EXCEPT !.data = @ /\ data]
           hdus == With(HdusOf(g), copy)
       IN  /\ Deliver(f, g, hdus, SourceHdu(f, t))
           /\ \/ /\ ~ source.image
                 /\ table' = [table EXCEPT ![u] = [fits |-> file[g].fits, hdu_num |-> Len(hdus)]]
              \/ /\ source.image \/ Faulty
                 /\ UNCHANGED table
    /\ UNCHANGED file
-----------------------------------------------------------------------------
Init ==
    /\ file = [f \in Handles |-> NoFile]
    /\ fits = <<>>
    /\ content = InitialHdus
    /\ table = [t \in Tables |-> NoTable]

CopyFlags == SUBSET {"PreviousHDUs", "CurrentHDU", "FollowingHDUs"}

Next ==
    \/ \E f \in Handles :
            \/ \E store \in Stores, mode \in Modes : Open(f, store, mode)
            \/ \E store \in Stores, overwrite \in BOOLEAN : Create(f, store, overwrite)
            \/ Close(f)
            \/ Destroy(f)
            \/ Move(f)
            \/ DeleteHdu(f)
            \/ \E t \in Tables, hdu_num \in 1 .. MaxHdus : MakeTable(f, t, hdu_num)
    \/ \E f, g \in Handles :
            \/ Reopen(f, g)
            \/ \E what \in CopyFlags : CopyFile(f, g, what)
            \/ \E t, u \in Tables, data \in BOOLEAN : CopyTable(f, t, g, u, data)
    \/ \E t \in Tables : DropTable(t)

Spec == Init /\ [][Next]_vars
-----------------------------------------------------------------------------
(***************************************************************************)
(* Properties                                                              *)
(***************************************************************************)
TypeOK ==
    /\ file \in [Handles -> [exists : BOOLEAN, mode : Modes, fits : 0 .. Len(fits)]]
    /\ fits \in Seq(Fitsfile)
    /\ content \in [Stores -> Seq(HDU)]
    /\ table \in [Tables -> [fits : 0 .. Len(fits), hdu_num : Nat]]

\* Every fitsfile which has not been closed is owned by exactly one File that
\* exists, and no File owns one which has been closed: none is leaked when a
\* call throws or a File is destroyed, and none is closed by two Files.
OwnedUntilClosed ==
    \A i \in DOMAIN fits :
        LET Owners == {f \in Handles : file[f].exists /\ file[f].fits = i}
        IN  IF fits[i].closes = 0 THEN \E f \in Handles : Owners = {f} ELSE Owners = {}

\* fits_close_file is called at most once for each fitsfile, also when the
\* first call failed and the File is closed again or destroyed.
ClosedOnce == \A i \in DOMAIN fits : fits[i].closes <= 1

\* The Table which Table::copy returns is at a copy of the HDU of the table
\* it was called on, wherever the two files were positioned.
CopiedTableIsOwn ==
    [][ \A f, g \in Handles, t, u \in Tables, data \in BOOLEAN :
            table'[u] # table[u] /\ CopyTable(f, t, g, u, data) =>
                content'[StoreOf(g)][table'[u].hdu_num].origin
                    = HdusOf(f)[table[t].hdu_num].origin ]_vars
=============================================================================
