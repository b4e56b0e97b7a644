--------------------------- MODULE MCJpegScanner ---------------------------
(***************************************************************************)
(* Instances of JpegScanner for TLC.  Bytes have four values: 0, the type  *)
(* 1 of a marker without a payload, the type 2 of one with a payload, and  *)
(* 3, which is both kStart and kFILL.  A window then has 16 bytes and a    *)
(* payload 15 at most.                                                     *)
(***************************************************************************)
EXTENDS JpegScanner, FiniteSets

MCFixedTypes == {1}

Zeros(n) == [i \in 1 .. n |-> 0]

\* A marker of type 2 with a payload of that size (2 of it are the size bytes).
Sized(size, fill) ==
    <<3, 2, size \div 4, size % 4>> \o [i \in 1 .. size - 2 |-> fill]

\* What an array is put together from: fill and stuffed bytes, markers, sizes
\* that are too small to be true, and payloads that look like markers.
Pieces == { <<3>>, <<3, 0>>, <<3, 1>>,
            Sized(0, 0), Sized(1, 0), Sized(3, 3), Sized(15, 0), Sized(15, 3) }

\* Bounds: the first piece starts at any of these offsets, on either side of
\* the end of the first window.
Offsets == {0, 1, 11, 12, 13, 14, 15, 16}

\* Bounds: an array ends with its last piece, or up to this many bytes earlier.
Cuts == 0 .. 4

AsArray(seq) == [i \in 0 .. Len(seq) - 1 |-> seq[i + 1]]

Whole2(n, one, two) == Zeros(n) \o one \o two

MCArrays ==
    { AsArray(SubSeq(Whole2(n, one, two), 1,
                     Len(Whole2(n, one, two)) - cut)) :
        n \in Offsets, one \in Pieces, two \in Pieces, cut \in Cuts }

MCSources(n) == {NewIStream(n, TRUE)} \cup
                (IF n > 0 THEN {NewInMemory(NewRange(0, n))} ELSE {})

MCInputs ==
    UNION { LET n == Cardinality(DOMAIN array)
            IN  {[length |-> n, data |-> array, source |-> src] :
                    src \in MCSources(n)} : array \in MCArrays }

\* Bound: up to four fill bytes before a marker with a payload.
MCFillInputs ==
    {LET array == AsArray(Zeros(1) \o [i \in 1 .. fills |-> 3] \o Sized(2, 0))
         n     == 5 + fills
     IN  [length |-> n, data |-> array, source |-> NewIStream(n, TRUE)] :
        fills \in 0 .. 4}

MCInterests == {{2}, {1, 2}}
=============================================================================
