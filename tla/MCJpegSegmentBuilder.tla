------------------------ MODULE MCJpegSegmentBuilder ------------------------
(***************************************************************************)
(* An instance of JpegSegmentBuilder for TLC, with bytes of four values:   *)
(* 0 and 3 are no types of markers, 1 has no payload and 2 has one.        *)
(***************************************************************************)
EXTENDS JpegSegmentBuilder

MCFixedTypes == {1}

MCTexts == {<<>>, <<2>>, <<1, 2>>}

\* Markers that end after the type or with an odd digit, and data without one.
MCData ==
    { Datum("kHex", bytes) : bytes \in {<<>>, <<3, 2>>, <<3, 2, 0>>, <<2, 3, 1>>} }
    \cup { [Datum("kHex", <<3, 2>>) EXCEPT !.odd = TRUE], Datum("kAscii", <<3, 2, 0, 0>>) }
=============================================================================
