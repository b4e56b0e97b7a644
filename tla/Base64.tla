------------------------------- MODULE Base64 -------------------------------
(***************************************************************************)
(* Base64 decoding as modp_b64_decode does it, an external library that    *)
(* src/extras/base64_decoder_data_destination.cc calls.  Four characters   *)
(* make three bytes, byte k of a group from its characters k and k + 1; so *)
(* a byte is represented by that pair.  One or two Pads at the end of a    *)
(* group stand for bytes that are not there.                               *)
(***************************************************************************)
EXTENDS Integers, SequencesExt

CONSTANTS Alphabet,     \* the 64 characters that stand for six bits
          Pad,          \* '='
          OtherChars    \* bytes that are not base64

ASSUME AlphabetAssumption ==
    /\ Pad \notin Alphabet \cup OtherChars
    /\ Alphabet \cap OtherChars = {}

Char == Alphabet \cup OtherChars \cup {Pad}

DecodedByte == Alphabet \X Alphabet

\* The pads at the end of a buffer, of which there are two at most.
PadCount(chars) ==
    IF chars = <<>> \/ Last(chars) # Pad THEN 0
    ELSE IF Len(chars) > 2 /\ chars[Len(chars) - 1] = Pad THEN 2 ELSE 1

\* What remains once the pads are taken off must be of the alphabet.
Decodable(chars) ==
    /\ Len(chars) >= 4 /\ Len(chars) % 4 = 0
    /\ \A i \in 1 .. Len(chars) - PadCount(chars) : chars[i] \in Alphabet

\* Byte i is byte k of a group, and its characters are k and k + 1 of that group.
DecodedLength(chars) == (Len(chars) \div 4) * 3 - PadCount(chars)

Decoded(chars) ==
    [i \in 1 .. DecodedLength(chars) |->
        LET first == i + (i - 1) \div 3 IN <<chars[first], chars[first + 1]>>]

\* modp_b64_decode returns an error, which counts as no bytes.
Decode(chars) == IF Decodable(chars) THEN Decoded(chars) ELSE <<>>
=============================================================================
