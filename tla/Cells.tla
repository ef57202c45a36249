------------------------------- MODULE Cells --------------------------------
(***************************************************************************)
(* How Row entries turn the client's variables into the cells of bit and   *)
(* string columns and back.  A byte is the sequence of its bits, the most  *)
(* significant one first; a BitSet is the sequence of its bits from bit 0  *)
(* on; a string is a sequence of characters.                               *)
(***************************************************************************)
EXTENDS ColumnInfos

(***************************************************************************)
(* BitSets, which keep their bits in bytes from the least significant bit  *)
(* on, where FITS has them from the most significant one on.               *)
(***************************************************************************)
\* ( b & mask ) >> size | ( b & ~ mask ) << size
Swapped(byte, size) ==
    [k \in 1 .. 8 |-> byte[IF ((k - 1) \div size) % 2 = 0 THEN k + size ELSE k - size]]

\* Variant with a bug: the last step is missing.
reverse_pairs(byte) == Swapped(Swapped(byte, 4), 2)

reverse_bits(byte) == Swapped(Swapped(Swapped(byte, 4), 2), 1)

\* boost::dynamic_bitset: resize, num_blocks, to_block_range, from_block_range
ResizedBits(bits, size) == [k \in 1 .. size |-> k <= Len(bits) /\ bits[k]]

NumBlocks(bits) == (Len(bits) + 7) \div 8

ToBlocks(bits) ==
    [m \in 1 .. NumBlocks(bits) |-> [k \in 1 .. 8 |-> 8 * m - k + 1 <= Len(bits) /\ bits[8 * m - k + 1]]]

FromBlocks(blocks) ==
    [k \in 1 .. 8 * Len(blocks) |-> blocks[((k - 1) \div 8) + 1][8 - ((k - 1) % 8)]]

\* BitSet_output_iterator, BitSet_input_iterator
Reversed(bytes) == [m \in DOMAIN bytes |-> reverse_bits(bytes[m])]

\* Column<BitSet>::write: as many blocks as the client's BitSet has by now are put
\* into the entry's buffer, which keeps its size, and all of the buffer is written.
\* Blocks for which the buffer has no room are not part of the cell.
BitsWritten(bits, buffer) ==
    LET bytes == Reversed(ToBlocks(bits))
    IN  [m \in DOMAIN buffer |-> IF m \in DOMAIN bytes THEN bytes[m] ELSE buffer[m]]

\* Column<BitSet>::read of a bit column of so many elements.
BitsRead(bytes, nelem) == ResizedBits(FromBlocks(Reversed(bytes)), nelem)
-----------------------------------------------------------------------------
(***************************************************************************)
(* Strings                                                                 *)
(***************************************************************************)
Blank == " "
Nul == "NUL"

\* find_first_of( '\0' ), resize
UpToNul(s) ==
    IF \E k \in DOMAIN s : s[k] = Nul
    THEN SubSeq(s, 1, (CHOOSE k \in DOMAIN s : s[k] = Nul /\ Nul \notin {s[j] : j \in 1 .. k - 1}) - 1)
    ELSE s

\* Column<std::string>::write and read: one string for all of the cell.
StringWritten(s, nbytes) == [k \in 1 .. nbytes |-> IF k \in DOMAIN s THEN s[k] ELSE Blank]

StringRead(chars) == UpToNul(chars)

\* Variant with a bug: a string which is shorter than its place is not ended.
PaddedPiece(s, width) == [k \in 1 .. width |-> IF k \in DOMAIN s THEN s[k] ELSE Blank]

\* A string which is shorter than its place ends in a NUL.
Piece(s, width) ==
    [k \in 1 .. width |->
        CASE k \in DOMAIN s -> s[k]
          [] k = Len(s) + 1 -> Nul
          [] OTHER -> Blank]

\* StringColumnVector::write and read: the strings have the places of the first axis.
StringsWritten(ss, width, nbytes) ==
    [k \in 1 .. nbytes |->
        LET m == ((k - 1) \div width) + 1
        IN  IF m \in DOMAIN ss THEN Piece(ss[m], width)[((k - 1) % width) + 1] ELSE Blank]

StringsRead(chars, width, nelem) ==
    [m \in 1 .. nelem \div width |-> UpToNul(SubSeq(chars, (m - 1) * width + 1, m * width))]
=============================================================================
