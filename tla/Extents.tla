------------------------------ MODULE Extents ------------------------------
(***************************************************************************)
(* misFITS::Extent: the shape of one table cell, a sequence of axis sizes. *)
(*                                                                         *)
(* Everything here is a pure operator; ColumnInfos says how a shape is     *)
(* stored in a FITS column, and Tables keeps shapes in its column cache.   *)
(***************************************************************************)
EXTENDS Integers, Sequences, SequencesExt

CONSTANT IntBits   \* bits of a C++ int: 32 in the code, fewer in the runs

\* An int holds 1.  (The second conjunct follows from the first, but the
\* provers know nothing of powers.)
ASSUME IntBitsAssumption == IntBits \in Nat \ {0, 1} /\ 2 ^ (IntBits - 1) \in Nat \ {0, 1}

Extent == Seq(Int)

\* The conversion of a LONGLONG to int.
ToInt(x) ==
    LET half == 2 ^ (IntBits - 1)
    IN  ((x + half) % (2 * half)) - half

\* The constructor: the first axis is always kept, a later one only when it
\* is longer than 1.
MakeExtent(sizes) ==
    FoldLeft(LAMBDA kept, n : IF n > 1 THEN Append(kept, n) ELSE kept,
             <<Head(sizes)>>, Tail(sizes))

Naxes(extent) == Len(extent)

\* std::accumulate is started with the int 1, so the running product is
\* converted back to an int after each factor.
Nelem(extent) ==
    FoldLeft(LAMBDA product, n : ToInt(product * n), 1, extent)

\* Variant with a bug: squeezes out axes of length 2 as well.
SqueezeShort(extent) ==
    FoldLeft(LAMBDA kept, n : IF n > 2 THEN Append(kept, n) ELSE kept, <<>>, extent)

Squeeze(extent) ==
    FoldLeft(LAMBDA kept, n : IF n = 1 THEN kept ELSE Append(kept, n), <<>>, extent)

\* operator ==
SameShape(a, b) == Squeeze(a) = Squeeze(b)

\* What the code means by a cell of a single dimension.
IsVector(extent) == Naxes(Squeeze(extent)) = 1
=============================================================================
