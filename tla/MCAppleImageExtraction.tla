----------------------- MODULE MCAppleImageExtraction -----------------------
(***************************************************************************)
(* An instance of AppleImageExtraction for TLC.  A primary image is an SOI *)
(* with its segments in any order, then the rest with the EOI; there may   *)
(* be a byte in front of it, and bytes behind it.                          *)
(***************************************************************************)
EXTENDS AppleImageExtraction

\* A chunk, and a window of the scanner: larger than some of the ranges that are
\* transferred and smaller than others.
MCBestDataSize == 8

LengthOf == [jfif |-> 5, exif |-> 3, mpf |-> 9, other |-> 2]

\* The orders of segments that are explored.
MCOrders ==
    { <<"jfif", "exif">>, <<"exif", "jfif">>, <<"jfif", "exif", "mpf">>,
      <<"jfif", "mpf", "exif">>, <<"mpf", "jfif", "exif">>, <<"exif", "mpf", "jfif">>,
      <<"exif", "other", "jfif">>, <<"jfif", "other", "exif">>,
      <<"other", "jfif", "exif", "other", "mpf">>, <<"jfif", "mpf">>, <<"exif">> }

BeginOf(front, order, n) ==
    front + 2 + FoldLeft(LAMBDA sum, type : sum + LengthOf[type], 0,
                         SubSeq(order, 1, n - 1))

RangeOf(front, order, type) ==
    IF \E n \in 1 .. Len(order) : order[n] = type
    THEN LET n == CHOOSE k \in 1 .. Len(order) : order[k] = type
         IN  NewRange(BeginOf(front, order, n), BeginOf(front, order, n + 1))
    ELSE InvalidRange

Primary(front, order, ampf, behind) ==
    LET end == BeginOf(front, order, Len(order) + 1) + 3
    IN  [length |-> end + behind,
         image  |-> NewRange(front, end),
         jfif   |-> RangeOf(front, order, "jfif"),
         ampf   |-> ampf,
         exif   |-> RangeOf(front, order, "exif"),
         mpf    |-> RangeOf(front, order, "mpf")]

MCPrimaryFiles ==
    { Primary(0, order, ampf, 0) : order \in MCOrders, ampf \in BOOLEAN }
    \cup { Primary(front, <<"jfif", "exif">>, FALSE, behind) :
               front \in {0, 1}, behind \in {0, 2} }
    \cup { [Primary(0, <<"jfif", "exif">>, TRUE, 0) EXCEPT !.image = InvalidRange] }

MCDepthFiles ==
    { [length |-> 16, image |-> NewRange(6, 16)], [length |-> 9, image |-> NewRange(4, 8)],
      [length |-> 5, image |-> InvalidRange] }

\* Enough for everything, and for less than the primary or the depth image.
MCRooms == {100, 20, 4}
=============================================================================
