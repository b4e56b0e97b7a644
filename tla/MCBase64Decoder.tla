-------------------------- MODULE MCBase64Decoder --------------------------
(***************************************************************************)
(* An instance of Base64DecoderDestination for TLC: two characters of the  *)
(* alphabet, so that a lost or displaced one shows, the pad and one that   *)
(* is not base64, in transfers of up to 9 characters, the largest of which *)
(* complete a group and go on to the next.                                 *)
(***************************************************************************)
EXTENDS Base64Decoder

MCAlphabet   == {"a", "b"}
MCOtherChars == {"?"}

\* Bound: transfers of more characters repeat what those of 5 and 9 do.
MCPieces ==
    UNION {[1 .. n -> MCAlphabet \cup {Pad}] : n \in {0, 1, 2, 3}}
    \cup { <<"?">>, <<"a", "a", "b", "?", "a">> }
    \cup { <<"a", "b">> \o rest : rest \in [1 .. 3 -> MCAlphabet \cup {Pad}] }
    \cup { <<"b", "a", "b", "b", "a", "b", Pad, Pad, "a">>,
           <<"b", "a", "b", "b", "a", "b", "a", "b", "b">> }
=============================================================================
