# misFITS in TLA+

A verification development for [misFITS](../src/), a C++ wrapper of CFITSIO:
TLA+ modules translated from `src/misfits`, TLC configurations which check
them on small files, and TLAPS proofs of what matters most for files of any
size.

- [1. The system](#1-the-system)
- [2. Modules, and how they correspond to the code](#2-modules-and-how-they-correspond-to-the-code)
- [3. Runs](#3-runs)
- [4. Proofs](#4-proofs)
- [5. Where the code and what is said of it differ](#5-where-the-code-and-what-is-said-of-it-differ)
- [6. What is not modelled](#6-what-is-not-modelled)
- [7. Plan](#7-plan)

To run everything: `tlc -config X.cfg M` for each row of the table of runs,
`tlapm M.tla` for `FoldTheory`, `ColumnLemmas`, `ColumnInfosProofs`, `TablesProofs`,
`CopyColumnsProofs`, `FilesProofs`, `KeywordsProofs` and `RowsProofs`.

## 1. The system

misFITS has no threads. What makes it hard is that *everything is shared
through CFITSIO*: an open file has one current HDU (CHDU), every CFITSIO
routine works on whichever that is, and every misFITS object (HDU, Table, Row,
row entry) keeps a private copy of something it once read there: a number, a
column description, an offset. Several objects work on one file without
knowing of each other, the client moves and deletes HDUs under them, a file can
be open several times, and any call may throw between two CFITSIO calls.

| Component | Source | State | Operations | What makes it correct |
|---|---|---|---|---|
| Extent | `extent.*` | the axes of a cell | construct, `nelem`, `squeeze`, `==` | same shape means same number of elements; the count fits its `int` |
| ColumnInfo | `columninfo.*` | name, type, extent, number, offset, bytes of a column | `init` from a header, `insert`, `tform` | what `insert` writes, `init` reads; offsets are those of the bytes in the file |
| HDU | `hdu.*` | `hdu_num_`, `extname_`, the file | `set_as_chdu`, `refresh`, keywords | a call works on the object's own HDU, wherever the CHDU was |
| Table | `table.*` | the HDU's, and `columns`, a description of each column | `add`, `resize`, `delete_column`, lookups, copies | descriptions are true; calls by name hit that column; TFORM and TDIM agree |
| File | `fits.*` | the owned `fitsfile`, the mode | open, create, close, reopen, move, delete and copy HDUs | each `fitsfile` has one owner until it is closed, once; a move that throws leaves nothing behind |
| Row, entries | `row*.{hpp,cc}` | entries (column number, offset, count), cursor, `auto_advance` | `add`, `read`, `write`, `idx`, `advance`, copy | cells go where their column is; no row is lost or repeated when a call throws |
| Keywords | `keyword.*`, `hdu.cc` | value, comment; iterator position and end | read, write, delete, iterate | values survive; iteration ends and visits each keyword |
| Column copies | `table.cc` | the two tables' | `copy_column(s)`, order and replace flags | the right columns, from the source, in the order asked for |
| BitSet, MemBlock | `bitset.*`, `memblock.*` | bits; nested blocks with offsets | conversion, layout | round trips; offsets do not overlap |
| Types, Exceptions, Config | `types.*`, `exception.*`, `config.hpp` | none | tables and compile-time choices | |
| CFITSIO | external | HDUs, columns, cells, CHDU | the routines misFITS calls | modelled from how `src/misfits` uses it |

How they interact: a Table *is a* HDU and holds the File's shared `fitsfile`;
a Row holds a Table and asks it to be the CHDU (`set_as_chdu`) before its
entries call CFITSIO; `Table::copy` and `File::add` write to the other File
and make a Table at its CHDU; `resize` asks `HDU::has_keyword` between two
CFITSIO calls. `PROJECT.json` lists the hazards that follow, at their lines,
each with the properties that would notice, or why none does yet.

## 2. Modules, and how they correspond to the code

```
Extents   Cfitsio (external)          Layouts (abstract)   Files      Keywords
     \     /                            ^                   |            |
   ColumnInfos ---------- Tables -------+ refines         MCFiles    MCKeywords
     |   |   \               |
     | Rows   CopyColumns  MCTables
     |   | \          |
 Cells  RowLoops MCRows |
     |   |              |
     | MCRowLoops    MCCopyColumns
MCColumnInfos

proofs:   FoldTheory (for any operator)
              | INSTANCE
          ColumnLemmas ... of ColumnInfos
              | EXTENDS
          ColumnInfosProofs, TablesProofs, CopyColumnsProofs, RowsProofs
          FilesProofs, KeywordsProofs
```

A misFITS call runs to its end before the next begins, so **a call is one
step**, with all the CFITSIO calls it makes; what varies inside it is where it
throws. Each action has one disjunct per way the call can end, and the state
left behind is what the statements before the `throw` have done.

**Extents** is `Extent` with `nelem` in the width of its `int`: the accumulation
in `extent.cc` starts with the `int` 1, so every product is converted back
(`ToInt`, `IntBits` bits).

**Cfitsio** is external: a column is its name, TFORM (type, repeat, width) and
TDIM, and the operators are the column routines of CFITSIO as `src/misfits` uses
them. A column carries its TDIM because CFITSIO renumbers indexed keywords.

**ColumnInfos** is `ColumnInfo::tform`, `insert` and `init`, the two CFITSIO
calls of `insert` told apart (`InsertedBare`, `Inserted`) since the second can
fail alone, and the two of `Table::resize` (`Lengthened`, `Resized`).

**Tables** is `Table` with the parts of `HDU` it uses. Correspondence:

| TLA+ | code |
|---|---|
| `hdus`, `chdu` | the file, and CFITSIO's current HDU in it |
| `table[t].hdu_num`, `.extname`, `.columns` | members of HDU and Table; 0 is "no object" |
| `SetAsChdu` | `HDU::set_as_chdu`, the first line of nearly every call |
| `Current`, `SetCols` | what CFITSIO reads and changes: the HDU at `chdu'`, that is, where `set_as_chdu` has taken it; CFITSIO is not told for which object |
| `RefreshThrowsEarly`, `RefreshScans` | `Table::refresh`, which can throw before or after `columns.clear()` and after any column |
| `Add`, `AddLike` | `add( name, ... )`, `add( ColumnInfo )` |
| `Resize`, `ResizeByName`, `DeleteColumn`, `DeleteColumnByName` | the overloads by number and by name, which differ in the code |
| `HasKeyword`, `SetExtname`, `RefreshHdu`, `Query` | HDU's calls, and all calls which only move the CHDU |
| `Move`, `DeleteHdu`, `Construct*`, `Destroy` | the client's calls on the File and on objects |
| `drift`, `last` | history: what may separate an object from its HDU, and the latest call; no guard reads them |

`Faults` says which CFITSIO calls may fail for reasons of their own (disk,
memory); failures the code itself brings about (no such column, read-only
file, ASCII table, unsupported type) are always there.
`ReadOnly` is looked at where the code looks at it, in `insert`; `hdus` is the
file as CFITSIO has it in memory, which `resize` changes in any mode. The runs
have the file open for writing, the proofs hold for both.

**Layouts** is the abstract specification of Tables: HDUs are sequences of
columns with name, type and shape; a call inserts, reshapes or deletes one
column, or does nothing. It has no descriptions, TFORM or TDIM. `Tables`
implements it under `layout <- LayoutOf(hdus)`.

**Files** is `File` with `Table::copy` and `File::add`. `fits` are all the
`fitsfile`s CFITSIO has opened, each with its own position; `file[f].fits` is
`fitsptr` (0 is null); `content` is what is stored. A close is in two parts, as in
the code: `CloseFits` is `fits_close_file` and `Released` what is left in `fitsptr`
by `fitsptr.release()`, which comes before it. `Destroyed` is `~File`: `close`,
whose exception is caught and logged, and then the deleter of `fitsptr` on what that
still holds. `Abandoned` is a File that is destroyed by an exception before the
client gets it. `delete_hdu` looks at neither mode nor position, and CFITSIO
refuses what it cannot do. HDUs are told apart by where they come from.

**Rows** is `Row` and its entries. An entry keeps what the code's entry keeps:
column number, number of atomic elements and, for strings, which are read and
written as bytes of the table, the byte offset and width. `Touches`, `Fits` and
`Put` say which cells of which rows an access of CFITSIO with these numbers
hits in the present layout. `name` and `seen` are history: what the entry was
asked for, and what the columns were then. The layout changes under the
Rows by the calls of the Tables, here reduced to what they do to layout and
descriptions.

`AddBlock` is the form of `add` with a MemBlock, which can throw half-way.

**Cells** is what entries make of the bytes of bit and string cells: `reverse_bits`
and the block iterators of `bitset.hpp`, and the NULs and blanks of strings. Pure
operators; a byte is the sequence of its bits, most significant first. An entry's
buffer keeps the size it got from the column, and `BitsWritten` puts into it as many
blocks as the client's BitSet has by then.

**CopyColumns** is `Table::copy_columns` in its three forms, between a source and
a destination which are in one file (`shared`) or in two. The call is a chain of
functions on the state of the tables, in the order of the code: `Asked` (the loop
over the names, which may delete), `ColumnsInserted`, `RowsInserted`,
`Refreshed`, and `CellsCopied` for each column. Each looks at `ok`, so that an
exception ends the chain with what has been done by then. `MovedTo` is
`set_as_chdu`, called wherever the code calls it: `AtChdu` says which table a
CFITSIO call then hits. `last_counted` is the argument C++ evaluates last, and
`calls` the number of changes CFITSIO makes before it fails. `naxis2` is the
NAXIS2 keyword, by which `fits_copy_col` goes, and which is behind the number of
rows until the file is flushed or the CHDU moves (`tests/cfitsio.cc` shows it).

**Keywords** is the keyword calls of HDU, and loops with `KeywordIterator`. A header
is a sequence of cards; `SetString` writes a value as one card or, above
`FLEN_VALUE`, as a long string with CONTINUE cards and a warning. An iterator
holds an HDU, a number and a count (`nkeys`); `Begin` is the start of the loop of
`dump_keywords` and `Turn` one `++it` with the comparison and `*it`. All other
actions may be calls of the loop's body. `wanted`, `seen`, `shifted` and
`shrunk` are history.

**RowLoops** puts three Rows to work: the two loops a client is meant to write,
`while ( row.read() )` and fill-then-`write`, on one table, and a third Row
elsewhere in the file.

**MC modules** give small files to these.

**FoldTheory** is what can be said of a fold over a sequence whatever is folded, and
**ColumnLemmas** what the proofs need to know of sequences of columns and of shapes.
**ColumnInfosProofs**, **TablesProofs**, **CopyColumnsProofs**, **FilesProofs**,
**KeywordsProofs** and **RowsProofs** (Rows and RowLoops) are the theorems of the
specifications.

## 3. Runs

| Run | Question | Bounds |
|---|---|---|
| `column_shapes` | does a shape survive the way into a header and back, are offsets right, do bits and strings come back from their cells? | 5 types, one of each storage class; axes of 1, 2, 3, 7, up to 3; 2 columns; `int` of 6 bits, so that 7\*7 overflows |
| `tables_sharing_an_hdu` | two Tables change one HDU: are undisturbed descriptions true, do resizes take effect, do calls by name hit the column, do TFORM and TDIM agree, is each call one step of `Layouts`? | 2 objects, 2 names, 2 columns, scalar and matrix |
| `tables_and_hdus` | what if the client moves, renames and deletes HDUs, and CFITSIO fails inside calls? | 2 objects, of which one whose call failed is the only one; files of 2 to 4 HDUs, with an ASCII table, strings and a column of unsupported type; vector and matrix |
| `files` | ownership of `fitsfile`s, copies | 2 Files, 2 Tables, 2 stores, 3 `fitsfile`s (no Tables with the third), stores of up to 3 HDUs, CFITSIO failing |
| `rows_and_layouts` | does an entry go on meaning its column while the layout changes? | 1 Row, 1 entry or a block of 2, 2 columns, bits that do not fill their bytes and strings, 1 row (2 when written past its end), CFITSIO failing |
| `row_loops` | are rows lost, skipped, repeated or overwritten, and is each read in the end? | 3 Rows of 2 entries, 2 tables, 2 values, 2 rows, CFITSIO failing at any cell |
| `copies` | what does a copy of columns leave at both ends, however it ends? | 2 tables in one file and in two; 2 names in different orders and shapes, and one which no column has; 2 rows in the source and 1 in the destination; no name, one, two, one twice; all flags; CFITSIO failing at the third change |
| `keywords` | do values survive, and loops end? | 2 HDUs with 4 cards and 1; 2 names; strings of 70 and 72 characters and a number; one loop; comments |

What they show, property by property:

- `ShapeSurvivesHeader`, `SameShapeSameCount`: columns inserted anywhere are read back with the shape asked for, unless
  `nelem` overflows its `int`, which is the only way to a column (and so a
  table) that misFITS wrote and cannot describe.
- `OffsetIsFirstByte`: offsets accumulated by `refresh` are those of the row as
  CFITSIO lays it out. A string column cut into substrings that do not fill it
  breaks this (section 5).
- `BitsAreLeftJustified`: bit *k* of a BitSet is bit *k* of the cell, unused bits of
  a byte are zero when written and ignored when read. The client may have resized the
  BitSet since it was added to the Row; then this holds of the bytes it still has blocks for,
  and the rest of the cell is what the entry's buffer had, from whichever row was
  read or written before. A BitSet which has grown beyond the buffer is outside the model.
- `StringsReadBack`: strings of a vector come back whatever their neighbours'
  lengths are, cut off at their width.
- `CacheFresh`: `columns` and `extname_` are what a refresh would make them
  for every object whose HDU no one else has changed, moved or renamed, whose
  calls have not thrown and which has not deleted a column by name. The
  history variable `drift` names the exceptions; each is needed.
- `ResizeEffective`: a `resize` which returns has given the column the
  shape asked for, though it may have returned early on the word of `columns`.
- `FailedResizeNotMasked`: a `resize` which threw half-way can be tried again;
  the description never shows the new shape before the file has it.
- `NamedColumnOnly`: however stale `columns`, a call by name changes the column of
  that name in the file, or none.
- `ChangesStayInHdu`: a call changes the HDU with the object's number only. Changes
  are made to the CHDU, so this is about every call's `set_as_chdu`; it breaks in the
  mutant `StaysOnChdu`, which leaves it out.
- `TdimConsistent`: the TDIM of a column always accounts for all of its
  elements, where CFITSIO does not fail between the two writes; so no call makes
  a table unreadable for the others.
- `ImplementsLayouts`: the refinement.
- `OwnedUntilClosed`, `ClosedOnce`: no `fitsfile` leaks, has two owners or is
  closed twice: also in `reopen` when the move throws, because CFITSIO fails or
  because another File has deleted the HDU, and when `close` throws and the
  destructor runs later.
- `CopiedTableIsOwn`: `Table::copy` returns a Table at the copy of its own HDU.
- `ReadsItsColumns`, `WritesItsColumns`: when `read` or `write` returns, each
  variable and the cell of its column agree, for entries whose column and the
  ones before it are as they were; columns after it may change. String entries
  use misFITS' offsets and the others CFITSIO's columns, and the property is
  that the two geometries agree.
- `WritesNothingElse`: a write, also one that throws half-way, touches no
  other cell, row or table.
- `WrittenRowsStand`, `ReadAsWritten`: the cursor. A row is not
  skipped when a call throws nor written again when it returns; the reader gets
  each row once, in order, as written, except a row at which a write has thrown,
  which already exists and is read half-written.
- `CopiedBetweenFiles`: a copy that returns has the columns asked for in the
  destination once, with the source's types, numbers of elements and cells, when the
  source is described as it is and rows have been flushed. Units and TDIM are not
  copied, so shapes are not the source's, and within one file cells are not (section 5).
- `OtherColumnsStand`, `SourceStands`: columns of the destination which were not
  named keep order, shape and cells, if the source is described as it is, and a source
  in another file is not touched, however the copy ends. Within one file the source may even get rows:
  `num_rows()` and `dest.num_rows()` are arguments of the call that inserts them.
- `RefusalOnlyDeletes`: a copy from another file which throws of its own accord has
  inserted, written and described nothing, since all names are looked at before the
  first insertion. With `Replace`, columns are deleted while names are looked at: then
  some of those it names may be gone, and the others stand. In the other modes nothing
  has changed. Preconditions: the source is described as it is, no name is given twice,
  and the destination has no two columns of one name; without these the loop over the
  names may find them good, and `colinfo` throw after the insertion.
- `DescribedAfterCopy`: a copy that returns has refreshed the destination.
- `ReadsWhatWasSet`: a keyword has the value it was last set to, also after
  longer and shorter values in its place, in that HDU and no other, and nothing of
  another value; in full, but for strings of 69 to 71 characters, of which only what
  fits a card is promised. `StringsReadInFull` asks for these too and does not hold (section 5).
- `LoopSeesAll`, `LoopThrowsOnlyIfShrunk`, `LoopEnds`: a loop over keywords visits
  each that was there when it began, though others are added in its body; it
  throws only if some were deleted; it ends in every case.
- `EveryRowIsRead`: liveness; a `read` that returned `false` sees rows
  which are appended later.

**Why these bounds are enough.** Objects interact in pairs, through one HDU or
one CHDU, so two of them show every interference; the third Row of `row_loops`
is there to move the CHDU between the other two. Columns interact with those
after them, so two show what a change before, at, or after an entry's column
does. Shapes matter by their number of axes after `squeeze` (0, 1, more), and
`Extents` has one of each. The constraint `Staleness` stops looking at states in
which one object is stale in two ways at once (the properties which speak
of `drift` speak of single reasons). `Bounds` in MCRows stops the growth of a
table through entries that are outdated and write past the row. `MaxEntries`
leaves out the second attempt at an `AddBlock` that threw, after which a Row has two entries for a
column; `NothingElseIsWritten` is proved for these too. In Rows a table
keeps at least one column, and its column names are unique (`fits_get_colnum`
refuses others; Tables has both cases). `MaxRows`, `MaxColumns`, `MaxFits` and
`MaxHdus` cap what could grow for ever. In `files` a third `fitsfile` is
there for what `reopen` does after a close or a deletion; `TablesOrLastFits` looks at no
Tables with it, which concern `reopen` in nothing. The VIEW `NoClosedPositions` leaves out the
position at which a `fitsfile` was closed: no action reads it. A copy takes columns one by one, so two, of which one may
fail, show what one does to the next; a third change of CFITSIO is the first to
come after another two (`FailAfter`). In `keywords` the header has room for one
long string (two cards and the warning); CFITSIO's warning has four COMMENT cards,
and `WarningComments` is 0 there, since a comment more or less in one place is what `AddText`
shows. Lengths 70 and 72 are on both sides of `FLEN_VALUE`.

Five configurations have the VIEW `NoLast`, which leaves out `last`. No action
reads it, and the properties of these runs read it only as `last'` in action
properties, which TLC checks on every step it generates, whether or not the
state it leads to is new. Symmetry is used for objects and names
where the initial files do not name columns, and never with liveness.
Deadlock is not checked: a client may stop at any time, and the bounds stop
it in the models.

**Fairness.** Safety runs assume none. `EveryRowIsRead` assumes weak fairness of
one step: a `read` of the reader which can return a row. That is a client which
goes on calling `read`, and a CFITSIO which does not fail for ever; the library
itself has no scheduler. Nothing is assumed of the writer or the third Row.
`LoopEnds` assumes weak fairness of `Turn`: the body of a `for` loop comes to its
end. It may do anything until then, also add keywords as often as there is room.

## 4. Proofs

TLC checks the properties on files of a few columns; the following hold for
every number of objects, HDUs, columns, rows and cards, all names, shapes, modes
and faults (the CONSTANTS), under the assumptions the modules name
(`InitialFilesAssumption`: a file begins with an image; `ExtentsAssumption`: the
client asks for shapes of at least one element whose count does not overflow, or
`TFORM` would lack it; and so on). Every invariant and every safety property of
the passing runs is a theorem. Some have hypotheses of their own, listed below
the tables; the runs which check these properties meet them.

**Columns and tables**

| Theorem | What it says | Along which argument |
|---|---|---|
| `ColumnInfosProofs!ShapesSurvive`, `CountsAgree`, `OffsetsAreFirstBytes`, `BitsKeepTheirPlaces`, `StringsSurvive` | `[]ShapeSurvivesHeader`, `[]SameShapeSameCount`, `[]OffsetIsFirstByte`, `[]BitsAreLeftJustified`, `[]StringsReadBack` | the inductive `IInv`: every column is `Kept` as it was asked for, wherever others are inserted; then by the arithmetic of bytes and pieces |
| `ColumnLemmas!ShapedColumnDescribed`, `ReshapedColumnDescribed` | what `ColumnInfo::init` reads of a column which `insert` or `resize` wrote is the shape asked for, of as many elements | `squeeze` keeps the product of the axes, and `TDIM` is left out only where `TFORM` says as much; used by all modules below |
| `TablesProofs!TypeCorrect` | `[]TypeOK` | one lemma per kind of change (`RefreshType`, `ChangeAndThrowType`, `DeleteHduEffect`, `ConstructOnType`) |
| `DescriptionsAreFresh` | `[]CacheFresh` | inductive with `TypeOK`: an object with an empty `drift` is at an HDU which exists, so a deletion at or before it always marks it; `ChangeAndRefreshFresh` for the object itself, `OthersFresh` for the others |
| `CallsStayInTheirHdu` | `ChangesStayInHdu` | every call is quiet, renames the CHDU, or edits the CHDU's columns (`TableCallEdits`), and where it does, the CHDU is its own, from `SetAsChdu` |
| `CallsByNameHitTheNamedColumn` | `NamedColumnOnly` | needs the invariant `ColumnIsIndex`: entry *n* of `columns` says it is column *n*, however stale it is otherwise; without it `colinfo( name ).colnum` could be any number |
| `ColumnsStayReadable` | `[]TdimConsistent` if it holds at first | the columns of all HDUs stay of one kind (`SoundColumn`) |
| `ResizesAreEffective`, `FailedResizesShow` | `ResizeEffective`, `FailedResizeNotMasked` | a `resize` which returns early trusts a description, which is fresh; one which throws half-way has not refreshed, and the old description is not of the new shape |
| `TablesImplementLayouts` | `ImplementsLayouts`: Tables refines Layouts | the types and shapes of all columns, and of all descriptions, stay among those the client asks for; every call edits one column (`EditedTo`), an edit of a column is a step of Layouts (`EditRefines`), and `AddLike` adds a shape which a description has |

**Copies, files, rows, keywords**

| Theorem | What it says | Along which argument |
|---|---|---|
| `CopyColumnsProofs!TypeCorrect` | `[]TypeOK` | `Kept`: rows are as long as there are columns, NAXIS2 is at most the rows there are, descriptions are numbered; each link of the chain keeps it, the loops by the fold theorems |
| `SourceUntouched`, `CopyDescribes` | `SourceStands`, `DescribedAfterCopy` | link by link, from `Kept` |
| `RefusedUntouched` | `RefusalOnlyDeletes` | `AskedSoFar`: what the loop over the names knows after *k* of them, so that a later link has no reason to throw; and an order-preserving map from the columns which are left to those there were (`ThinnedOn`), which each deletion thins further |
| `OthersUnchanged` | `OtherColumnsStand`, in one file or in two | `Stands`: there is an order-preserving map of the unnamed columns; the maps of successive links compose, a deletion and an insertion each have one |
| `CopiesArrive` | `CopiedBetweenFiles` | `AskedSoFar` and `ArrivedSoFar`: the columns of the first *k* names are where the loop noted them, once each, and have their cells |
| `FilesProofs!TypeCorrect` | `[]TypeOK` | |
| `FitsfilesAreOwned`, `FitsfilesAreClosedOnce` | `[]OwnedUntilClosed`, `[]ClosedOnce` | from one inductive invariant, `Ownership`: a File's `fitsptr` is null or a `fitsfile` never closed, no two Files have the same, each one not closed has an owner, and none has been closed twice; `Close`, `Destroy` and `Reopen` end the life of one each |
| `CopiesAreOfTheOwnHdu` | `CopiedTableIsOwn` | from `TypeOK` and `SourceHdu` |
| `RowsProofs!TypeCorrect` | `[]TypeOK` | `TypedOf( kind )`: columns and descriptions stay of a kind which all calls of tables keep, entries are what `MakeEntry` makes of a column of it |
| `ReadsArrive`, `WritesArrive`, `NothingElseIsWritten` | `ReadsItsColumns`, `WritesItsColumns`, `WritesNothingElse` | an entry which is intact `Touches` the cell of its column in its row and no other: string offsets are sums of the widths before, which have not changed; then entry by entry through the loop of `read` and `write`, up to the one which throws |
| `WrittenStand`, `ReadComesBack` | `[]WrittenRowsStand`, `[]ReadAsWritten` | the inductive `LoopInv`: each cursor is one past what was written, or read, and the table has the rows written, or one more, at which a write has thrown |
| `KeywordsProofs!TypeCorrect`, `KeywordsReadAsSet` | `[]TypeOK`, `[]ReadsWhatWasSet` | the inductive `HeaderInv`: in every header a card goes on in a CONTINUE card exactly if it says so, cards hold no more than fits them, keywords have one card each, and what a keyword reads as is what it was last set to, cut off where it is stored on one card; a string reads the same wherever its cards are moved (`ReadMoved`) |
| `EndedLoopSawAll`, `ThrowsOnlyIfShrunk` | `LoopSeesAll`, `LoopThrowsOnlyIfShrunk` | for headers of any length and any number of loops, from the inductive `LoopInv`: a running loop is at one of the keywords it counted, a header shorter than that is noted in `shrunk`, and what it has seen is what there is up to where it is, unless `shifted`. `RewrittenInv` keeps it when a header changes under the loops, `VisitedInv` when an iterator moves; `CallKeepsLoops`: only a turn ends a loop |

**Folds.** Much of the code loops over a list, and the models say so with the folds
of the community modules. `FoldTheory` proves what makes them usable: what the base
has and each element keeps, the fold has (`FoldInvariant`), also where it depends on
how many elements there were (`FoldInvariantAt`); with `FoldSteps` and `FoldAppend`
for the values on the way. The folded operator is a parameter of that
module, as the provers cannot instantiate a theorem with an operator parameter, and
each proof takes an `INSTANCE` of it with the operator of one loop. The induction
rests on a least counterexample, by the well-foundedness of `<` on `Nat`.

**Hypotheses.** What a theorem assumes beyond the ASSUMEs of the specification:

- `LargeInt` (ColumnInfosProofs): an int counts to more than 9, so that the columns
  found in a table have counts. `PlainCharacters`, for strings only: pairs, which stand for
  characters, are not the strings `" "` and `"NUL"`, which is so in TLA+, but the
  provers know nothing of the characters of a string.
- `ShapesCounted` (TablesProofs, RowsProofs): an int can count the elements of the
  shapes the client asks for. An `nelem` that overflows makes a column which misFITS cannot
  describe (`ShapeSurvivesHeader`), and after that all calls on the table throw.
- `TdimsWritten`: besides, CFITSIO does not fail between TFORM and TDIM. It is what
  `TdimConsistent` says itself, and a column with half a shape has no layout to refine.
- Initial columns: of a `SoundColumn` the TDIM accounts for its elements. An `UncutColumn`
  is not a string column cut into substrings (`10A5`): `resize` of one
  compares a number of strings with a number of characters, and the
  offsets after it may be wrong (section 5). A `KnownColumn` is both, and of a type and shape
  in `Types` and `Extents`, as Layouts has no others, or of an unsupported type.
- `CountsFit` (`CopiesArrive`): an int can count the elements of the initial columns.
- `HeadersWhole`: initial headers have one card for each keyword, of at most 68 characters
  without a continuation, and no keyword is called COMMENT, HISTORY, CONTINUE or LONGSTRN.

**Only model-checked.** `EveryRowIsRead` and `LoopEnds` are liveness under fairness, which the
provers at hand do not do. The four runs of section 5 end with counterexamples; there is
nothing to prove. `OffsetIsFirstByte` is in both places: it is proved of the
columns misFITS inserts, and fails for a ragged one which was found in the file.

## 5. Where the code and what is said of it differ

These have runs of their own which TLC ends with counterexamples.

1. `has_keyword_of_chdu`: `HDU::has_keyword` (`hdu.cc:60`) does not call
   `set_as_chdu`, alone of the keyword calls, and answers for the CHDU, though
   `tests/table.cc` moves the file "to make sure we've isolated the metadata".
   `Table::resize` uses it, after its own `set_as_chdu`, and is not affected.
2. `copy_in_one_file`: `Table::copy_columns` (`table.cc:374`) refreshes the
   destination, which makes its HDU the CHDU, before it hands both `fitsfile`s to
   `fits_copy_col`. Of two tables in one File these are one `fitsfile` at one
   HDU: the cells come from the destination's own columns. NEWS 0.0.7 says "copy
   columns from one HDU to another".
3. `ragged_strings`: for a string column like `10A3`, `init` (`columninfo.cc:109`)
   drops the remainder of 10 / 3, so that offsets of all later columns are one
   byte short; string entries of Rows use them.
4. `string_cut_short`: `HDU::set_keyword` (`hdu.cc:209`) writes a long string only
   above `FLEN_VALUE` (71) characters, and a card holds 68: strings of 69 to 71 lose
   their end without an exception. NEWS says string keywords "implicitly handle HEASARC
   long string convention strings". The run sets one of 70.

Met while modelling, without a run of their own:

- `Table::resize` (`table.cc:185`) tests `naxes() == 1` after `squeeze`, and a
  cell of one element has none: it gets a TDIM of (1), where NEWS 0.0.14 says no
  column of 1D cells does, and `ColumnInfo::insert` writes none. No property says that
  1D cells have no TDIM, because of this.
- `Table::delete_column( name )` (`table.cc:226`) does not refresh, as
  `delete_column( number )` does. Later columns go on being described under
  their old numbers, and a `resize` by the only user of the table may compare
  with the wrong shape and silently do nothing, against NEWS 0.0.4. `drift` has a
  reason of its own for such an object, which `CacheFresh` and `ResizeEffective` leave out.
- `KeywordIterator::operator++( int )` (`keyword.hpp:47`) adds its argument, 0 in
  `it++`: the mutant of `LoopEnds`.
- `Row::add` of a MemBlock (`row.hpp:79`) leaves the entries before the one which throws.
- `copy_columns` inserts columns by name and TFORM: TDIM and unit are not copied,
  so that a matrix arrives as a vector. `CopiedBetweenFiles` asks for the
  number of elements only.
- `Table::delete_column( name )` on the source leaves a description by which a
  later `copy_columns` copies another column under the name.
- `copy_columns` goes by NAXIS2 (`table.cc:375`): rows written through a Row just before,
  without a flush, are not copied.
- `has_column` (`table.cc:103`) is false for a name which two columns have:
  `copy_columns` with `NoDuplicates` inserts a third one and throws only afterwards.
- `Column<BitSet>::write` (`row_entry.cc:118`) goes by the size of the client's BitSet: one
  which has shrunk since it was added leaves bytes of another row in the cell, and one which has
  grown is written past the entry's buffer.

## 6. What is not modelled

- Conversions of numbers between the client's types and the column's, which are
  CFITSIO's; in Rows a cell is one value, or `Junk` when it has been read or
  written through an entry that does not fit it. BitSets on logical columns,
  where CFITSIO converts bytes to T and F.
- Memory: a vector which shrinks, or a BitSet which grows beyond the entry's buffer, after
  it was given to a Row, and the offsets of blocks within MemBlocks, which are sums of addresses.
- Use of a closed File: what CFITSIO does with a null pointer is not in this code.
- Zero-length and variable-length columns, which the code does not handle.
- Objects which make a file of their own: `HDU()`, `Table( extname )` in memory and
  the Rows which open a Table; after construction they are like the others.
- EXTVER, units and comments of keywords, which nothing decides on.
- Types, exceptions and configuration: compile-time machinery and text.

## 7. Plan

Done, in this order: `Extents`, `Cfitsio`, `ColumnInfos`; `Tables` and `Layouts`,
the core; `Files`; `Rows` and `RowLoops`; the proofs of `Tables` and `Files`;
`CopyColumns`; `Keywords`; `Cells`; the proofs of the loops of `Keywords`;
`FoldTheory` and with it the proofs of `ColumnInfos`, of the refinement and of
resizes in `Tables`, of `CopyColumns`, `Rows`, `RowLoops` and the values of `Keywords`.

To come, most important first:

1. Fewer hypotheses: `ResizesAreEffective` and the refinement with string columns which
   are cut evenly, `CopiesArrive` without `CountsFit`.
2. A resize back to the old shape after one that failed (`table.cc:168`): what
   the next refresh makes of it, as a property of Tables.
3. Two Rows made from each other in `rows_and_layouts`.
