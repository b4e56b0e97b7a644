-------------------------- MODULE MCXmpExtraction --------------------------
(***************************************************************************)
(* An instance of XmpExtraction for TLC: values of up to three segments,   *)
(* in a file whose segments are at most one byte larger than a chunk.      *)
(***************************************************************************)
EXTENDS XmpExtraction

MCAlphabet   == {"a", "b", "c"}
MCOtherChars == {"gdepth", "gimage", Quote, "?"}

\* A chunk of the source: the header and four characters.
MCBestDataSize == HeaderLength + 4

\* Segments in which the value begins: with room for more, at the very end, with
\* another property before, as large as a segment may be, and with all of it.
MCFirst ==
    { <<"gdepth", Quote, "a">>, <<"gdepth", Quote, "a", "b">>, <<"gdepth", Quote>>,
      <<Quote, "gdepth", Quote, "b">>, <<"gdepth", Quote, "a", "b", "c">>,
      <<"gdepth", Quote, "b", Quote>>, <<"gdepth", Quote, Quote>>,
      <<"gdepth", "a", Quote>>, <<"a">> }

MCMiddle ==
    { <<>>, <<"b">>, <<"b", "c", "a">>, <<"c", "a", "b", "b">>, <<"b", Pad, Pad>>,
      <<"a", "b", "c", "a", "b">> }

MCLast ==
    { <<Quote>>, <<"b", "c", Quote>>, <<"b", Pad, Quote, "a">>, <<Pad, Pad, Quote>>,
      <<"c", Pad, Pad, Quote, Quote>>, <<"?", Quote>>, <<"c", Quote, "gimage", Quote>>,
      <<"c", "b">> }

\* Files of four segments, of which the source may have the last but not the ones before.
MCLongFiles ==
    { <<f, m, k, l>> : f \in {<<"gdepth", Quote, "a">>, <<"gdepth", Quote>>},
                       m \in {<<>>, <<"b", "c", "a">>}, k \in {<<"b">>, <<"c", "a", "b", "b">>},
                       l \in {<<Quote>>, <<"b", "c", Quote>>, <<"c", "b">>} }

MCFiles ==
    { [texts |-> texts, rest |-> rest] :
        texts \in { <<f>> : f \in MCFirst } \cup
                  { <<f, l>> : f \in MCFirst, l \in MCLast } \cup
                  { <<f, m, l>> : f \in MCFirst, m \in MCMiddle, l \in MCLast } \cup
                  MCLongFiles,
        rest \in {<<>>, <<"a", "b", Quote>>} }

MCNoPieces == {}
=============================================================================
