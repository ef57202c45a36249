--------------------------- MODULE MCColumnInfos ---------------------------
(***************************************************************************)
(* Builds tables by inserting columns of every type and of many shapes at  *)
(* every position, and compares what ColumnInfo reads back from the header *)
(* with what was asked for and with what CFITSIO lays out; and what Row    *)
(* entries make of the cells of bit and string columns.                    *)
(***************************************************************************)
EXTENDS Cells, FiniteSets

CONSTANTS Types,         \* the column types to insert
          Sizes,         \* the axis sizes to build shapes from
          MaxAxes,       \* longest shape
          MaxColumns     \* columns are inserted up to this many

ASSUME TypesAssumption == Types \subseteq ColumnTypes
ASSUME SizesAssumption == Sizes \subseteq Nat \ {0}
ASSUME BoundsAssumption == {MaxAxes, MaxColumns} \subseteq Nat

VARIABLES cols,          \* the columns in the file
          asked          \* for each of them, the shape it was given

vars == <<cols, asked>>

\* Columns another program may have written: a string column cut into
\* substrings, a matrix and a scalar with a redundant TDIM.
FoundColumns ==
    {[name |-> "c", type |-> "String", repeat |-> 6, width |-> 3, tdim |-> NoTdim],
     [name |-> "c", type |-> "String", repeat |-> 4, width |-> 0, tdim |-> <<4>>],
     [name |-> "c", type |-> "Float", repeat |-> 4, width |-> 0, tdim |-> <<2, 2>>],
     [name |-> "c", type |-> "Bit", repeat |-> 9, width |-> 0, tdim |-> <<9>>]}

\* A string column whose substrings do not fill it.
Ragged ==
    [name |-> "c", type |-> "String", repeat |-> 10, width |-> 3, tdim |-> NoTdim]

Shapes == {MakeExtent(sizes) : sizes \in UNION {[1 .. n -> Sizes] : n \in 1 .. MaxAxes}}

Init ==
    \E found \in {<<>>} \cup {<<col>> : col \in FoundColumns} :
        /\ cols = found
        /\ asked = [n \in 1 .. Len(found) |-> CellExtent(found[n])]

RaggedInit ==
    /\ cols = <<Ragged>>
    /\ asked = <<CellExtent(Ragged)>>

Insert(type, extent, colnum) ==
    /\ Len(cols) < MaxColumns
    /\ ~ TdimMisses(cols, extent, colnum)
    /\ cols' = Inserted(cols, "c", type, extent, colnum)
    /\ asked' = InsertCol(asked, colnum, extent)

Next ==
    \E type \in Types, extent \in Shapes, colnum \in 1 .. Len(cols) + 2 :
        Insert(type, extent, colnum)

Spec == Init /\ [][Next]_vars

RaggedSpec == RaggedInit /\ [][Next]_vars
-----------------------------------------------------------------------------
Total(numbers) == FoldLeft(LAMBDA sum, n : sum + n, 0, numbers)

\* A column inserted by ColumnInfo::insert is read back by ColumnInfo::init
\* with the shape it was given, wherever it was inserted and whatever is
\* inserted around it, as long as the int in Extent::nelem can count its elements:
\* overflow is the only way to a column, and so a table, which cannot be described.
ShapeSurvivesHeader ==
    \A n \in 1 .. Len(cols) :
        Product(asked[n]) < 2 ^ (IntBits - 1) =>
            /\ Describable(cols[n])
            /\ SameShape(CellExtent(cols[n]), asked[n])

\* Where Table::refresh can describe a table at all, the offset it accumulates
\* is that of the column's first byte in the row as CFITSIO lays it out, which
\* is what columninfo.hpp:41 says it is.
OffsetIsFirstByte ==
    \A n \in 1 .. Len(cols) :
        (\A i \in 1 .. n - 1 : Describable(cols[i])) =>
            Offset(cols, n) = 1 + Total([i \in 1 .. n - 1 |-> StorageBytes(cols[i])])

\* Shapes which operator == takes for the same, so that Table::resize leaves
\* the column as it is, hold as many elements, also when the count is truncated.
SameShapeSameCount ==
    \A n \in 1 .. Len(cols), e \in Shapes :
        SameShape(e, asked[n]) => Nelem(e) = Nelem(asked[n])
-----------------------------------------------------------------------------
\* The columns of which cells are looked at: what becomes of a cell depends on its
\* column only, so one column is enough.
CellsOf(type) ==
    {n \in 1 .. Len(cols) :
        Len(cols) = 1 /\ StoredType(cols[n].type) = type /\ Product(asked[n]) < 2 ^ (IntBits - 1)}

\* No bit, each of them alone, or all of them.
BitPatterns(size) ==
    {[k \in 1 .. size |-> k = only] : only \in 0 .. size} \cup {[k \in 1 .. size |-> TRUE]}

\* What the buffer of an entry may hold before a write: all bits the same.
Buffers(nbytes) == {[m \in 1 .. nbytes |-> [k \in 1 .. 8 |-> set]] : set \in BOOLEAN}

\* FITS bits are left justified in the bytes, with unused bits set to zero at
\* the end (row_entry.cc:45): bit k of a BitSet is bit k of the cell whatever the
\* entry's buffer held, and reading gives the BitSet back.  The client may have
\* resized the BitSet since it was added to the Row, to what the buffer has room
\* for: then this is so for the bytes of the cell which the BitSet still has a
\* block for, and nothing is said of the others.  Bits which another program has
\* left after the cell's own are not read.
BitsAreLeftJustified ==
    \A n \in CellsOf("Bit") :
        LET nelem == Nelem(CellExtent(cols[n]))
            nbytes == CellBytes(cols[n])
            bit(bytes, k) == bytes[((k - 1) \div 8) + 1][((k - 1) % 8) + 1]
        IN  \A buffer \in Buffers(nbytes) :
                /\ \A size \in 0 .. 8 * nbytes : \A bits \in BitPatterns(size) :
                        LET bytes == BitsWritten(bits, buffer)
                            back == BitsRead(bytes, nelem)
                        IN  /\ Len(bytes) = StorageBytes(cols[n])
                            /\ \A k \in 1 .. 8 * NumBlocks(bits) :
                                    /\ bit(bytes, k) = (k <= size /\ bits[k])
                                    /\ k <= nelem => back[k] = (k <= size /\ bits[k])
                            /\ size = nelem => back = bits
                /\ LET back == BitsRead(buffer, nelem)
                   IN  Len(back) = nelem /\ \A k \in 1 .. nelem : back[k] = buffer[1][1]

\* Strings of all lengths, to one more than there is room for, next to each other.
StringPatterns(count, width) ==
    {[m \in 1 .. count |-> [k \in 1 .. (m + shift) % (width + 2) |-> <<m, k>>]] :
        shift \in 0 .. width + 1}

FirstChars(s, width) == SubSeq(s, 1, IF Len(s) < width THEN Len(s) ELSE width)

\* The strings of a vector come back as they were, as far as there is room for
\* them, whatever lengths the ones before have; a single string comes back with
\* blanks after it, and the vector sees its pieces.
StringsReadBack ==
    \A n \in CellsOf("String") :
        LET nelem == Nelem(CellExtent(cols[n]))
            width == CellExtent(cols[n])[1]
            nbytes == CellBytes(cols[n])
        IN  \A ss \in StringPatterns(nelem \div width, width) :
                LET whole == StringWritten(ss[1], nbytes)
                IN  /\ StringsRead(StringsWritten(ss, width, nbytes), width, nelem)
                            = [m \in DOMAIN ss |-> FirstChars(ss[m], width)]
                    /\ FirstChars(StringRead(whole), Len(ss[1])) = FirstChars(ss[1], nbytes)
                    /\ FoldLeft(LAMBDA s, piece : s \o piece, <<>>, StringsRead(whole, width, nelem))
                            = StringRead(whole)
=============================================================================
