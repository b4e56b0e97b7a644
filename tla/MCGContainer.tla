---------------------------- MODULE MCGContainer ----------------------------
(***************************************************************************)
(* Instances of GContainer for TLC.                                        *)
(***************************************************************************)
EXTENDS GContainer

\* An image; one with a byte in front and behind it; one whose segment hides an EOI
\* (a thumbnail's); an SOI that is repeated; no image; a segment that breaks off.
MCInputContents ==
    { <<"SOI", "EOI">>, <<"x", "SOI", "x", "EOI", "y">>,
      <<"SOI", "APP", "EOI", "EOI", "x">>, <<"SOI", "SOI", "EOI">>,
      <<"EOI", "x">>, <<"SOI", "APP">> }

\* A file may be empty, and may be an image itself.
MCOtherContents == { <<>>, <<"x">>, <<"SOI", "EOI">> }

MCOtherFiles == { <<"a", "b">>, <<"", "a", "a">>, <<"in">> }

MCRooms   == {2, 5, 15}
MCOffsets == {0, 1, 2, 15}
MCLengths == {0, 1, 3, 15}
=============================================================================
