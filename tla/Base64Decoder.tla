--------------------------- MODULE Base64Decoder ---------------------------
(***************************************************************************)
(* Base64DecoderDataDestination of                                         *)
(* src/extras/base64_decoder_data_destination.cc: it receives base64       *)
(* characters one Transfer at a time, cut anywhere, and sends the bytes    *)
(* they stand for to the next destination.  The characters of a group of   *)
(* four that a Transfer cuts through are kept for the next one.            *)
(*                                                                         *)
(* Whoever calls Transfer stops at an error, as TransferData does.  What   *)
(* the next destination answers is handed back as it is.                   *)
(***************************************************************************)
EXTENDS Base64

CONSTANTS Pieces,       \* what one Transfer may bring: sequences of Char
          MaxLength     \* bound: the characters of a stream

ASSUME PiecesAssumption == Pieces \subseteq Seq(Char)

ASSUME MaxLengthAssumption == MaxLength \in Nat

VARIABLES
    phase,          \* "transferring" or "finished"
    received,       \* history: the characters transferred so far
    leftover,       \* leftover_bytes_
    sent,           \* history: the bytes sent to the next destination
    location,       \* next_decoded_location_
    has_error,      \* has_error_
    status,         \* what the last Transfer returned
    answers         \* history: what the next destination has returned

vars == <<phase, received, leftover, sent, location, has_error, status, answers>>

TransferStatus == {"error", "ok", "done"}

TypeOK ==
    /\ phase \in {"transferring", "finished"}
    /\ received \in Seq(Char)
    /\ leftover \in Seq(Char) /\ Len(leftover) < 4
    /\ sent \in Seq(DecodedByte)
    /\ location \in Nat
    /\ has_error \in BOOLEAN
    /\ status \in TransferStatus
    /\ answers \subseteq TransferStatus

Init ==
    /\ phase = "transferring"
    /\ received = <<>> /\ leftover = <<>>
    /\ sent = <<>> /\ location = 0
    /\ has_error = FALSE
    /\ status = "ok" /\ answers = {}

(***************************************************************************)
(* The characters stolen from the piece to complete the group that was cut *)
(* through, the group, and what is left of the piece: whole groups and the *)
(* characters to keep.                                                     *)
(***************************************************************************)
\* Mutant: as many are stolen as are left over.
StealAsMany(piece) == Min({Len(piece), Len(leftover)})

Stolen(piece) ==
    IF leftover = <<>> THEN 0 ELSE Min({Len(piece), 4 - (Len(leftover) % 4)})

Group(piece) == leftover \o SubSeq(piece, 1, Stolen(piece))

Remaining(piece) == SubSeq(piece, Stolen(piece) + 1, Len(piece))

WholeGroups(piece) ==
    SubSeq(Remaining(piece), 1, 4 * (Len(Remaining(piece)) \div 4))

\* Mutant: the last characters are forgotten.
KeepNothing(piece) == <<>>

\* Mutant: the whole groups are kept, too.
KeepAll(piece) == Remaining(piece)

NewLeftover(piece) ==
    SubSeq(Remaining(piece), Len(WholeGroups(piece)) + 1, Len(Remaining(piece)))

\* Too few bytes were decoded, counting those the pads stand for.
Fails(chars) ==
    chars # <<>> /\ Len(Decode(chars)) + PadCount(chars) # (Len(chars) \div 4) * 3

Arrives(piece) ==
    /\ phase = "transferring" /\ status # "error"
    /\ Len(received) + Len(piece) <= MaxLength
    /\ received' = received \o piece
    /\ UNCHANGED phase

\* An empty range, or one that is not in the segment.
TransferNothing(piece) ==
    /\ piece = <<>>
    /\ status' = "error"
    /\ UNCHANGED <<leftover, sent, location, has_error, answers>>

TooSmall(piece) ==
    /\ piece # <<>> /\ leftover # <<>>
    /\ Stolen(piece) = Len(piece)
    /\ Len(Group(piece)) % 4 # 0

\* The piece is too small to complete the group: it is kept.
TransferTooSmall(piece) ==
    /\ TooSmall(piece)
    /\ leftover' = Group(piece)
    /\ status' = "ok"
    /\ UNCHANGED <<sent, location, has_error, answers>>

TransferUndecodable(piece) ==
    /\ piece # <<>> /\ ~TooSmall(piece)
    /\ Fails(Group(piece)) \/ Fails(WholeGroups(piece))
    /\ has_error' = TRUE /\ status' = "error"
    /\ leftover' = <<>>
    /\ UNCHANGED <<sent, location, answers>>

TransferDecoded(piece) ==
    LET bytes == Decode(Group(piece)) \o Decode(WholeGroups(piece))
    IN  /\ piece # <<>> /\ ~TooSmall(piece)
        /\ ~Fails(Group(piece)) /\ ~Fails(WholeGroups(piece))
        /\ sent' = sent \o bytes
        /\ location' = location + Len(bytes)
        /\ leftover' = NewLeftover(piece)
        /\ status' \in TransferStatus
        /\ answers' = answers \cup {status'}
        /\ UNCHANGED has_error

TransferPiece(piece) ==
    /\ Arrives(piece)
    /\ \/ TransferNothing(piece)
       \/ TransferTooSmall(piece)
       \/ TransferUndecodable(piece)
       \/ TransferDecoded(piece)

Transfer == \E piece \in Pieces : TransferPiece(piece)

\* Mutant: a group that was never completed is no error.
IncompleteIsNoError == FALSE

Incomplete == Len(leftover) % 4 # 0

FinishTransfer ==
    /\ phase = "transferring"
    /\ phase' = "finished"
    /\ has_error' = (has_error \/ Incomplete)
    /\ UNCHANGED <<received, leftover, sent, location, status, answers>>

Next == Transfer \/ FinishTransfer

Spec == Init /\ [][Next]_vars
-----------------------------------------------------------------------------
(***************************************************************************)
(* Properties.                                                             *)
(***************************************************************************)
GroupCount == Len(received) \div 4
GroupAt(g) == SubSeq(received, 4 * g - 3, 4 * g)

\* The bytes of the complete groups, one group after the other.
BytesOfGroups == FlattenSeq([g \in 1 .. GroupCount |-> Decode(GroupAt(g))])

\* Without an error the bytes sent are those of the groups that are complete, each
\* decoded by itself, wherever the transfers cut the stream, and the characters of
\* the last, incomplete group are kept.
GroupsAreDecoded ==
    ~has_error =>
        /\ sent = BytesOfGroups
        /\ leftover = SubSeq(received, 4 * GroupCount + 1, Len(received))
        /\ location = Len(sent)
        /\ \A g \in 1 .. GroupCount : Decodable(GroupAt(g))

\* A stream that is base64, with pads in its last group only, is never rejected
\* before it ends, and at its end only if a group is incomplete.
ValidStreamIsAccepted ==
    LET valid == /\ \A g \in 1 .. GroupCount : Decodable(GroupAt(g))
                 /\ \A g \in 1 .. GroupCount - 1 : PadCount(GroupAt(g)) = 0
    IN  has_error /\ valid => phase = "finished" /\ Len(received) % 4 # 0

\* A stream that was accepted to its end was decoded to its last character.
AcceptedStreamIsComplete ==
    phase = "finished" /\ ~has_error =>
        Len(received) % 4 = 0 /\ sent = BytesOfGroups
=============================================================================
