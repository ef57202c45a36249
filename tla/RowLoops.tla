------------------------------ MODULE RowLoops ------------------------------
(***************************************************************************)
(* The loops for which Rows are made: a writer fills its variables and     *)
(* calls write, again if it throws; a reader goes on calling read, which   *)
(* tells it whether there is another row.  Both are Rows of one table, and *)
(* a third Row is at work on another table of the file, so that the CHDU   *)
(* is never where it was left.                                             *)
(***************************************************************************)
EXTENDS Rows

CONSTANTS Writer, Reader, Other,   \* the three Rows
          Shared, Elsewhere        \* the tables they are for

ASSUME LoopsAssumption ==
    /\ Writer # Reader /\ Other \notin {Writer, Reader} /\ Shared # Elsewhere
    /\ Objects = {Writer, Reader, Other} /\ TableObjects = {Shared, Elsewhere}
    /\ Bases = Objects \X Names

VARIABLES
    pending,   \* whether the writer's variables wait to be written
    wrote,     \* history: the records for which write has returned
    tried,     \* history: the rows at which a write has thrown
    got        \* history: the records for which read has returned true

loopVars == <<vars, pending, wrote, tried, got>>
-----------------------------------------------------------------------------
TableOf(r) == IF r = Other THEN Elsewhere ELSE Shared

\* All columns of its table have been added to the Row, in their order.
FullRow(r) ==
    LET infos == Infos(InitialColumns[TableOf(r)])
    IN  [NewRow(TableOf(r)) EXCEPT
            !.entries = [n \in DOMAIN infos |->
                            EntryFor(infos, n, infos[n].ttype, <<r, infos[n].ttype>>)]]

\* What the client finds in the variables of a Row.
Record(r, mem) == [n \in DOMAIN row[r].entries |-> mem[row[r].entries[n].base]]

LoopsInit ==
    /\ cols = InitialColumns
    /\ data = [t \in TableObjects |-> <<>>]
    /\ chdu \in TableObjects
    /\ columns = [t \in TableObjects |-> Infos(InitialColumns[t])]
    /\ row = [r \in Objects |-> FullRow(r)]
    /\ memory = [base \in Bases |-> Junk]
    /\ last = OtherCall
    /\ pending = FALSE
    /\ wrote = <<>>
    /\ tried = {}
    /\ got = <<>>

Fill(record) ==
    /\ ~ pending
    /\ row[Writer].idx <= MaxRows
    /\ memory' = [base \in Bases |-> IF base[1] = Writer THEN record[base[2]] ELSE memory[base]]
    /\ pending' = TRUE
    /\ last' = OtherCall
    /\ UNCHANGED <<cols, data, chdu, columns, row, wrote, tried, got>>

WriterWrites(outcome) ==
    /\ pending
    /\ WriteRow(Writer, row[Writer].idx, outcome)
    /\ IF outcome = "returned"
       THEN /\ wrote' = Append(wrote, Record(Writer, memory))
            /\ pending' = FALSE
            /\ UNCHANGED tried
       ELSE /\ tried' = tried \cup {row[Writer].idx}
            /\ UNCHANGED <<wrote, pending>>
    /\ UNCHANGED got

ReaderReads(outcome) ==
    /\ ReadRow(Reader, row[Reader].idx, outcome)
    /\ got' = IF outcome = "returned" THEN Append(got, Record(Reader, memory')) ELSE got
    /\ UNCHANGED <<pending, wrote, tried>>

OtherWorks ==
    /\ \/ Read(Other)
       \/ Write(Other)
       \/ Query(Elsewhere)
    /\ UNCHANGED <<pending, wrote, tried, got>>

LoopsNext ==
    \/ \E record \in [Names -> Values] : Fill(record)
    \/ \E outcome \in Outcomes : WriterWrites(outcome)
    \/ \E outcome \in Outcomes : ReaderReads(outcome)
    \/ OtherWorks

LoopsSpec == LoopsInit /\ [][LoopsNext]_loopVars

\* The reader does not give up, and CFITSIO does not fail for ever: of reads
\* which can return a row one does, however many throw before it.
FairLoopsSpec == LoopsSpec /\ WF_loopVars(ReaderReads("returned"))
-----------------------------------------------------------------------------
(***************************************************************************)
(* Properties                                                              *)
(***************************************************************************)
\* Records for which write has returned are in the table, one in each row
\* from the first on, however often it threw in between and had to be tried
\* again: no row is skipped, and none is overwritten.
WrittenRowsStand ==
    \A k \in DOMAIN wrote : k \in DOMAIN data[Shared] /\ data[Shared][k] = wrote[k]

\* The reader gets each row once and in order, and the record it gets is the
\* one which was written, unless a write threw at that row: then the row is
\* already there and read returns it half-written.
ReadAsWritten ==
    \A k \in DOMAIN got : k \in tried \/ (k \in DOMAIN wrote /\ got[k] = wrote[k])

\* The reader gets every row which is written, also when read has told it
\* before that there are no more, or has thrown at that row.
EveryRowIsRead ==
    \A k \in 1 .. MaxRows : Len(wrote) >= k ~> Len(got) >= k
=============================================================================
