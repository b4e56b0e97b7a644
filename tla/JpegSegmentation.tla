-------------------------- MODULE JpegSegmentation --------------------------
(***************************************************************************)
(* What JpegScanner promises its JpegSegmentProcessor, as a walk over the  *)
(* array of bytes as a whole.  There are no windows here: which segments   *)
(* are found, in which order, and whether the scan ends well or with an    *)
(* error, depends on the bytes and on the processor alone.                 *)
(*                                                                         *)
(* Spec is the walk that the documentation of JpegMarker asks for.         *)
(* SpecInPairs also allows the scanner's way with fill bytes, which may    *)
(* miss a marker behind them.                                              *)
(***************************************************************************)
EXTENDS DataRanges, JpegMarkers, Sequences

CONSTANTS Interests     \* the sets of marker types a processor may ask for

VARIABLES
    data,        \* the bytes, a function on locations
    limit,       \* how many of them there are
    active,      \* whether a scan is going on
    position,    \* where the search for the next marker starts
    interesting, \* the marker types to be delivered
    done,        \* the scan is complete, or the processor has seen enough
    error,       \* the array ends where more bytes are needed
    segments     \* the segments delivered by this scan

vars == <<data, limit, active, position, interesting, done, error, segments>>

Init ==
    /\ data \in [DOMAIN data -> Byte]
    /\ limit \in Nat
    /\ 0 .. limit - 1 \subseteq DOMAIN data
    /\ active = FALSE
    /\ position = 0
    /\ interesting = {}
    /\ done = FALSE /\ error = FALSE
    /\ segments = <<>>

Has(loc) == loc < limit

IsStart(loc) == data[loc] = kStart

NoStartIn(first, last) == \A loc \in first .. last : ~IsStart(loc)

Begin ==
    /\ ~active
    /\ active' = TRUE
    /\ position' = 0
    /\ interesting' \in Interests
    /\ done' = FALSE /\ error' = FALSE
    /\ segments' = <<>>
    /\ UNCHANGED <<data, limit>>

Searching == active /\ ~done /\ ~error

\* Bytes that start no marker are passed over, any number of them at a time.
Skip ==
    /\ Searching
    /\ position' \in Nat /\ position' > position
    /\ NoStartIn(position, Smaller(position', limit) - 1)
    /\ UNCHANGED <<data, limit, active, interesting, done, error, segments>>

Stop ==
    /\ Searching
    /\ NoStartIn(position, limit - 1)
    /\ done' = TRUE
    /\ UNCHANGED <<data, limit, active, position, interesting, error, segments>>

(***************************************************************************)
(* What is at position, once that is the start of a marker.                *)
(***************************************************************************)
AtStart == Searching /\ Has(position) /\ IsStart(position)

Type == data[position + kTypeOffset]

HasType == Has(position + kTypeOffset)

NeedsSize == HasVariablePayloadSize(Type)

HasSize == NeedsSize => Has(position + kLength + 1)

Payload == IF NeedsSize
           THEN PayloadSize(data[position + kLength], data[position + kLength + 1])
           ELSE 0

End == position + kLength + Payload

Wanted == IsValidMarker(Type) /\ Type \in interesting

Deliver ==
    /\ AtStart
    /\ HasType /\ HasSize /\ Wanted
    /\ Has(End - 1)
    /\ segments' = Append(segments, NewRange(position, End))
    /\ done' \in BOOLEAN
    /\ interesting' \in Interests
    /\ position' = End
    /\ UNCHANGED <<data, limit, active, error>>

\* A stuffed zero byte, or a segment that was not asked for.
PassOver ==
    /\ AtStart
    /\ HasType /\ HasSize /\ ~Wanted
    /\ Type # kFILL
    /\ position' = End
    /\ UNCHANGED <<data, limit, active, interesting, done, error, segments>>

\* Where a valid marker starts.
MarkerAt(loc) ==
    IsStart(loc) /\ Has(loc + kTypeOffset) /\ IsValidMarker(data[loc + kTypeOffset])

(***************************************************************************)
(* "Multiple fill bytes may appear before a valid marker start: FFFFFFDA - *)
(* the leading FFFF should be ignored" (jpeg_marker.h): any number of them *)
(* is passed over at a time, but not the one that starts the marker.       *)
(***************************************************************************)
PassFills ==
    /\ AtStart
    /\ HasType /\ Type = kFILL
    /\ position' \in Nat /\ position' > position
    /\ \A loc \in position .. Smaller(position', limit) - 1 : ~MarkerAt(loc)
    /\ UNCHANGED <<data, limit, active, interesting, done, error, segments>>

\* The scanner's step instead: fill bytes are passed over in pairs, though the
\* second one of a pair may be the start of a marker.
PassFillPair ==
    /\ AtStart
    /\ HasType /\ Type = kFILL
    /\ position' = position + kLength
    /\ UNCHANGED <<data, limit, active, interesting, done, error, segments>>

Truncated ==
    /\ AtStart
    /\ HasType /\ HasSize => Wanted /\ ~Has(End - 1)
    /\ error' = TRUE
    /\ UNCHANGED <<data, limit, active, position, interesting, done, segments>>

Finish ==
    /\ active /\ (done \/ error)
    /\ active' = FALSE
    /\ UNCHANGED <<data, limit, position, interesting, done, error, segments>>

Next ==
    \/ Begin \/ Skip \/ Stop
    \/ Deliver \/ PassOver \/ PassFills \/ Truncated
    \/ Finish

NextInPairs == Next \/ PassFillPair

\* Safety only: that a scan comes to an end is stated of the scanner itself.
Spec        == Init /\ [][Next]_vars
SpecInPairs == Init /\ [][NextInPairs]_vars
=============================================================================
