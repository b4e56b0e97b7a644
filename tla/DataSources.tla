---------------------------- MODULE DataSources ----------------------------
(***************************************************************************)
(* The two DataSources of the library as values with pure operations.      *)
(*                                                                         *)
(* IStreamRefDataSource reads a std::istream.  What matters of the stream  *)
(* is whether it could be opened at all, its length, and whether its state *)
(* is goodbit: a read that returns fewer bytes than it was asked for sets  *)
(* eofbit and failbit together, seekg() on a failed stream moves nothing,  *)
(* and only clear() makes the stream good again.  The source caches the    *)
(* DataSegment it read last.                                               *)
(*                                                                         *)
(* DataSegmentDataSource wraps one DataSegment that is already in memory.  *)
(*                                                                         *)
(* A DataSegment is represented by its DataRange; its bytes are those of   *)
(* the array the range points into.                                        *)
(***************************************************************************)
EXTENDS DataRanges

CONSTANT NoSegment            \* the null shared_ptr<DataSegment>

ASSUME NoSegmentAssumption == NoSegment \notin DataRange

DataSegment == DataRange \cup {NoSegment}

(***************************************************************************)
(* extent: the locations the source has bytes for ([0, length) of a        *)
(* stream, the range of the segment in memory).  open, good and cached     *)
(* concern streams only.                                                   *)
(***************************************************************************)
DataSource == [kind   : {"istream", "memory"},
               extent : DataRange,
               open   : BOOLEAN,
               good   : BOOLEAN,
               cached : DataSegment]

NewIStream(length, open) ==
    [kind |-> "istream", extent |-> NewRange(0, length),
     open |-> open, good |-> open, cached |-> NoSegment]

NewInMemory(range) ==
    [kind |-> "memory", extent |-> range,
     open |-> TRUE, good |-> TRUE, cached |-> NoSegment]

(***************************************************************************)
(* IStreamRefDataSource::Read: seekg(begin) and, if the stream is good, a  *)
(* read of count bytes.  A read at or past the end of the stream returns   *)
(* an empty, non-null segment.                                             *)
(***************************************************************************)
CanRead(source) == source.good /\ source.open

ReadEnd(source, begin, count) ==
    Larger(begin, Smaller(begin + count, source.extent.end))

Read(source, begin, count) ==
    IF CanRead(source) THEN NewRange(begin, ReadEnd(source, begin, count))
                       ELSE NoSegment

GoodAfterRead(source, begin, count) ==
    CanRead(source) /\ ReadEnd(source, begin, count) = begin + count

\* Mutant: the stream's eof and fail bits are not cleared.
ResetWithoutClear(source) ==
    IF source.kind = "istream"
    THEN [source EXCEPT !.cached = NoSegment]
    ELSE source

\* clear(), seekg(0) (which fails if there is no file) and a dropped cache.
Reset(source) ==
    IF source.kind = "istream"
    THEN [source EXCEPT !.good = source.open, !.cached = NoSegment]
    ELSE source

HasCached(source, location) ==
    source.cached # NoSegment /\ ContainsLocation(source.cached, location)

\* The stream's GetDataSegment: the segment it returns and the source it leaves.
GetFromStream(source, begin, min_size) ==
    IF HasCached(source, begin) THEN
        [segment |-> source.cached, source |-> source]
    ELSE LET segment == Read(source, begin, min_size)
         IN  [segment |-> segment,
              source  |-> [source EXCEPT
                             !.good   = GoodAfterRead(source, begin, min_size),
                             !.cached = segment]]

\* All of the segment in memory, if any of it was asked for.
GetFromMemory(source, begin, min_size) ==
    [segment |-> IF IsValid(Intersection(NewRange(begin, begin + min_size),
                                         source.extent))
                 THEN source.extent
                 ELSE NoSegment,
     source  |-> source]

GetDataSegment(source, begin, min_size) ==
    IF source.kind = "memory" THEN GetFromMemory(source, begin, min_size)
                              ELSE GetFromStream(source, begin, min_size)
=============================================================================
