--------------------------- MODULE DataTransfers ---------------------------
(***************************************************************************)
(* TransferData of the two DataSources, and the DataDestinations at the    *)
(* other end: OStreamRefDataDestination, which writes to a std::ostream,   *)
(* and DataRangeTrackingDestination, which passes on what it gets and      *)
(* notes the range that was covered.  A call of TransferData is not        *)
(* interrupted by anything, so it is one operation on values.              *)
(*                                                                         *)
(* A byte written is represented by whatever tells where it came from: the *)
(* content of a source gives it for every location.  An ostream has room   *)
(* for so many bytes; a write of more fails half-way, and tellp() then says*)
(* nothing of the bytes that were written.                                 *)
(***************************************************************************)
EXTENDS DataSources, SequencesExt

CONSTANT BestDataSize     \* the kBestDataSize of the callers

ASSUME BestDataSizeAssumption == BestDataSize \in Nat \ {0}

(***************************************************************************)
(* OStreamRefDataDestination.                                              *)
(***************************************************************************)
NewOStream(room) ==
    [kind |-> "ostream", written |-> <<>>, room |-> room, bytes_transferred |-> 0,
     has_error |-> FALSE]

Wrote(ostream, bytes) ==
    [ostream EXCEPT !.written = @ \o bytes,
                    !.room = @ - Len(bytes),
                    !.bytes_transferred = @ + Len(bytes)]

\* Mutant: the bytes are counted whether they were written or not.
WroteInPartCountsAll(ostream, bytes) ==
    [ostream EXCEPT !.written = @ \o SubSeq(bytes, 1, ostream.room),
                    !.room = 0,
                    !.bytes_transferred = @ + Len(bytes),
                    !.has_error = TRUE]

WroteInPart(ostream, bytes) ==
    [ostream EXCEPT !.written = @ \o SubSeq(bytes, 1, ostream.room),
                    !.room = 0,
                    !.has_error = TRUE]

\* Transfer.  An ostream that failed before takes no bytes, but answers kTransferOk.
Write(ostream, bytes) ==
    IF bytes = <<>> \/ ostream.has_error THEN [status |-> "ok", dest |-> ostream]
    ELSE IF Len(bytes) <= ostream.room
    THEN [status |-> "ok", dest |-> Wrote(ostream, bytes)]
    ELSE [status |-> "error", dest |-> WroteInPart(ostream, bytes)]

(***************************************************************************)
(* DataRangeTrackingDestination, in front of an ostream.                   *)
(***************************************************************************)
Track(ostream) ==
    [kind |-> "tracking", next |-> ostream, tracked |-> InvalidRange,
     bytes_transferred |-> 0, disjoint |-> FALSE]

\* Mutant: only the last range is noted.
LastOnly(tracked, range) == range

Extended(tracked, range) ==
    IF IsValid(tracked) THEN NewRange(tracked.begin, range.end) ELSE range

TrackTransfer(tracking, range, bytes) ==
    LET out    == Write(tracking.next, bytes)
        joined == ~IsValid(tracking.tracked) \/ tracking.tracked.end = range.begin
        counts == ~tracking.disjoint /\ joined
    IN  [status |-> out.status,
         dest |-> [tracking EXCEPT
                      !.next = out.dest,
                      !.tracked = IF counts THEN Extended(@, range) ELSE @,
                      !.bytes_transferred = @ + IF out.status # "error"
                                                THEN Length(range) ELSE 0,
                      !.disjoint = @ \/ ~joined]]

Transfer(dest, range, content) ==
    LET bytes == [n \in 1 .. Length(range) |-> content[range.begin + n - 1]]
    IN  IF dest.kind = "ostream" THEN Write(dest, bytes)
                                 ELSE TrackTransfer(dest, range, bytes)

(***************************************************************************)
(* TransferData.                                                           *)
(***************************************************************************)
Outcome(source, dest, status, transferred) ==
    [source |-> source,
     dest   |-> dest,
     result |-> IF ~transferred THEN "none"
                ELSE IF status = "error" THEN "error" ELSE "success"]

FromSegment(source, content, range, dest) ==
    LET part == Intersection(source.extent, range)
        sent == Transfer(dest, part, content)
    IN  IF IsValid(part) THEN Outcome(source, sent.dest, sent.status, TRUE)
                         ELSE Outcome(source, dest, "done", FALSE)

\* The iterations of the loop over chunks; one that is over does nothing more.
Chunks(range, size) ==
    [n \in 1 .. (Length(range) + size - 1) \div size |->
        NewRange(range.begin + (n - 1) * size,
                 Smaller(range.end, range.begin + n * size))]

ReadAndTransfer(loop, chunk, content) ==
    LET count   == Length(chunk)
        segment == Read(loop.source, chunk.begin, count)
        some    == segment # NoSegment /\ IsValid(segment)
        sent    == Transfer(loop.dest, segment, content)
        source  == [loop.source EXCEPT
                       !.good = GoodAfterRead(loop.source, chunk.begin, count)]
    IN  IF loop.over THEN loop
        ELSE IF some THEN [source |-> source, dest |-> sent.dest, status |-> sent.status,
                           transferred |-> TRUE, over |-> sent.status # "ok"]
        ELSE [loop EXCEPT !.source = source, !.over = TRUE]

\* Mutant: the bits that an earlier read left are not cleared.
KeepBits(source) == source

Clear(source) == [source EXCEPT !.good = source.open]

FromStream(source, content, range, dest) ==
    LET size   == Smaller(Length(range), BestDataSize)
        sent   == Transfer(dest, range, content)
        loop   == FoldLeft(LAMBDA l, chunk : ReadAndTransfer(l, chunk, content),
                           [source |-> Clear(source), dest |-> dest, status |-> "done",
                            transferred |-> FALSE, over |-> FALSE],
                           Chunks(range, size))
        cached == /\ source.cached # NoSegment
                  /\ Length(source.cached) >= size
                  /\ ContainsRange(source.cached, range)
    IN  IF ~IsValid(range) THEN Outcome(source, dest, "done", FALSE)
        ELSE IF cached THEN Outcome(source, sent.dest, sent.status, TRUE)
        ELSE Outcome(loop.source, loop.dest, loop.status, loop.transferred)

TransferData(source, content, range, dest) ==
    IF source.kind = "memory" THEN FromSegment(source, content, range, dest)
                              ELSE FromStream(source, content, range, dest)
=============================================================================
