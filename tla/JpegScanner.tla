---------------------------- MODULE JpegScanner ----------------------------
(***************************************************************************)
(* JpegScanner of src/jpeg/jpeg_scanner.cc: it walks over an array of      *)
(* bytes that a DataSource hands out one DataSegment (a "window") at a     *)
(* time, finds the marker segments that its JpegSegmentProcessor asked     *)
(* for, and passes them to the processor.  A marker, the size that follows *)
(* it, or the payload may run over the end of the current window; then the *)
(* scanner fetches the window after it and keeps both.                     *)
(*                                                                         *)
(* The processor is any processor: at the start and with each segment it   *)
(* may choose the marker types it is interested in, and with each segment  *)
(* it may call SetDone.  Between two runs the owner of the DataSource may  *)
(* use it, which leaves a stream with other state bits, another cached     *)
(* segment.                                                                *)
(***************************************************************************)
EXTENDS DataSources, JpegMarkers, Sequences

CONSTANTS Inputs,       \* the arrays of bytes, each with its length and a DataSource
          Interests,    \* the sets of marker types a processor may ask for
          MaxRuns       \* bound: the calls of Run that are explored

\* A stream holds the whole array; a segment in memory may hold a part of it.
HoldsArray(src, n) ==
    \/ \E open \in BOOLEAN : src = NewIStream(n, open)
    \/ \E first, limit \in 0 .. n :
          first <= limit /\ src = NewInMemory(NewRange(first, limit))

ASSUME InputsAssumption ==
    \A input \in Inputs :
        /\ input.length \in Nat
        /\ input.data \in [0 .. input.length - 1 -> Byte]
        /\ HoldsArray(input.source, input.length)

ASSUME InterestsAssumption == Interests \subseteq SUBSET Byte

ASSUME MaxRunsAssumption == MaxRuns \in Nat

VARIABLES
    data,        \* the bytes of the array
    source,      \* data_source_
    pc,          \* where in Run the scanner is
    current,     \* current_segment_
    next,        \* next_segment_
    location,    \* current_location_
    begin,       \* begin_segment_location: the marker under examination
    marker,      \* its type
    payload,     \* payload_size
    interesting, \* interesting_marker_flags_
    done,        \* done_
    error,       \* has_error_
    reported,    \* the locations of the kPrematureEndOfDataErrors of this run
    segments,    \* the JpegSegments this run has passed to the processor
    runs         \* how many calls of Run have been made

windows == <<source, current, next>>
cursor  == <<location, begin, marker, payload>>
verdict == <<done, error, reported>>
vars    == <<data, windows, pc, cursor, interesting, verdict, segments, runs>>

(***************************************************************************)
(* kMinBufferDataRequestSize: 0x10000 in the code, that is, Radix squared. *)
(* A payload is smaller than that, so a segment is at most one byte longer *)
(* than a window.                                                          *)
(***************************************************************************)
\* Mutant: a window that is a little too small.
SmallRequestSize == Radix * Radix - 1

MinBufferDataRequestSize == Radix * Radix

(***************************************************************************)
(* "idle": no Run is active.  "loop": the head of the while loop of        *)
(* FindAndProcessSegments.  "size", "extent", "process": reading the       *)
(* payload size, asking for the last byte, and passing on the segment.     *)
(* "crashed": a null current_segment_ was used.                            *)
(***************************************************************************)
InLoopBody == {"type", "size", "extent", "process"}
Locations  == {"idle", "loop", "crashed"} \cup InLoopBody
Running    == pc \in InLoopBody \cup {"loop"}

TypeOK ==
    /\ data \in [DOMAIN data -> Byte] /\ DOMAIN data \subseteq Nat
    /\ source \in DataSource
    /\ 0 .. source.extent.end - 1 \subseteq DOMAIN data
    /\ pc \in Locations
    /\ current \in DataSegment
    /\ next \in DataSegment
    /\ location \in Nat
    /\ begin \in Nat
    /\ marker \in Byte
    /\ payload \in 0 .. MinBufferDataRequestSize - 1
    /\ interesting \in SUBSET Byte
    /\ done \in BOOLEAN
    /\ error \in BOOLEAN
    /\ reported \in SUBSET Nat
    /\ segments \in Seq(DataRange)
    /\ runs \in Nat

Init ==
    /\ \E input \in Inputs : data = input.data /\ source = input.source
    /\ pc = "idle"
    /\ current = NoSegment /\ next = NoSegment
    /\ location = 0 /\ begin = 0 /\ marker = 0 /\ payload = 0
    /\ interesting = {}
    /\ done = FALSE /\ error = FALSE /\ reported = {}
    /\ segments = <<>>
    /\ runs = 0

(***************************************************************************)
(* Run, up to the loop: the source is reset and asked for the first        *)
(* window, and the processor's Start chooses what it is interested in.     *)
(* The loop uses the window without asking whether there is one.           *)
(***************************************************************************)
RunOn(src) ==
    LET got == GetDataSegment(src, 0, MinBufferDataRequestSize)
    IN  /\ pc = "idle" /\ runs < MaxRuns
        /\ current' = got.segment
        /\ source' = got.source
        /\ pc' = IF got.segment = NoSegment THEN "crashed" ELSE "loop"
        /\ location' = 0 /\ done' = FALSE /\ error' = FALSE
        /\ interesting' \in Interests
        /\ reported' = {} /\ segments' = <<>>
        /\ runs' = runs + 1
        /\ UNCHANGED <<data, next, begin, marker, payload>>

Run == RunOn(Reset(source))

\* What follows the loop: Finish is called and the windows are released.
FinishRun ==
    /\ pc = "loop" /\ (done \/ error)
    /\ pc' = "idle"
    /\ current' = NoSegment /\ next' = NoSegment
    /\ UNCHANGED <<data, source, cursor, interesting, verdict, segments, runs>>

(***************************************************************************)
(* GetNextSegment asks for the window after the current one unless it is   *)
(* there already.                                                          *)
(***************************************************************************)
GetNextSegment ==
    IF next # NoSegment
    THEN [segment |-> next, source |-> source]
    ELSE GetDataSegment(source, current.end, MinBufferDataRequestSize)

\* DataSegment::Find: the first byte of that value in the segment from start on.
FoundAt(segment, start, value, loc) ==
    /\ ContainsLocation(segment, start)
    /\ ContainsLocation(segment, loc)
    /\ data[loc] = value
    /\ \A earlier \in start .. loc - 1 : data[earlier] # value

NotFound(segment, start, value) ==
    ContainsLocation(segment, start) =>
        \A loc \in start .. segment.end - 1 : data[loc] # value

FindMarker ==
    /\ pc = "loop" /\ ~done /\ ~error
    /\ \E loc \in location .. current.end - 1 :
          FoundAt(current, location, kStart, loc) /\ begin' = loc
    /\ marker' = 0 /\ payload' = 0
    /\ pc' = "type"
    /\ UNCHANGED <<data, windows, location, interesting, verdict, segments, runs>>

\* No marker starts in this window: go on to the next one, if there is one.
NextWindow ==
    /\ pc = "loop" /\ ~done /\ ~error
    /\ NotFound(current, location, kStart)
    /\ LET got == GetNextSegment
       IN  /\ source' = got.source
           /\ next' = NoSegment
           /\ IF got.segment # NoSegment
              THEN /\ location' = Larger(location, got.segment.begin)
                   /\ current' = got.segment
                   /\ done' = done
              ELSE /\ done' = TRUE
                   /\ UNCHANGED <<location, current>>
    /\ UNCHANGED <<data, pc, begin, marker, payload, interesting, error, reported,
                   segments, runs>>

(***************************************************************************)
(* GetByte, for the bytes at a set of locations: the next window is        *)
(* fetched if one of them is not in the current window, and those in       *)
(* neither window are reported.  A byte that is missing reads as 0.        *)
(***************************************************************************)
Fetched(locations) ==
    IF \A loc \in locations : ContainsLocation(current, loc)
    THEN [segment |-> next, source |-> source]
    ELSE GetNextSegment

HasByte(following, loc) ==
    \/ ContainsLocation(current, loc)
    \/ following # NoSegment /\ ContainsLocation(following, loc)

ByteAt(following, loc) == IF HasByte(following, loc) THEN data[loc] ELSE 0

Missing(following, locations) ==
    {loc \in locations : ~HasByte(following, loc)}

GetBytes(locations) ==
    LET got     == Fetched(locations)
        missing == Missing(got.segment, locations)
    IN  /\ next' = got.segment
        /\ source' = got.source
        /\ UNCHANGED current
        /\ reported' = reported \cup missing
        /\ error' = (error \/ missing # {})

\* Mutant: the search for markers goes on inside the payload.
AdvancePastMarker(size) ==
    /\ location' = begin + kLength
    /\ pc' = "loop"

\* The end of the loop body, for a payload of that size.
Advance(size) ==
    /\ location' = begin + kLength + size
    /\ pc' = "loop"

GoOn(to) == pc' = to /\ UNCHANGED location

ReadType ==
    /\ pc = "type"
    /\ GetBytes({begin + kTypeOffset})
    /\ marker' = ByteAt(next', begin + kTypeOffset)
    /\ IF error' \/ ~IsValidMarker(marker') THEN Advance(0)
       ELSE IF HasVariablePayloadSize(marker') THEN GoOn("size")
       ELSE IF marker' \in interesting THEN GoOn("extent")
       ELSE Advance(0)
    /\ UNCHANGED <<data, begin, payload, interesting, done, segments, runs>>

\* GetPayloadSize for a marker that has one.
ReadPayloadSize ==
    LET high == begin + kLength
        low  == begin + kLength + 1
    IN  /\ pc = "size"
        /\ GetBytes({high, low})
        /\ payload' = PayloadSize(ByteAt(next', high), ByteAt(next', low))
        /\ IF marker \in interesting THEN GoOn("extent") ELSE Advance(payload')
        /\ UNCHANGED <<data, begin, marker, interesting, done, segments, runs>>

SegmentEnd == begin + kLength + payload

\* Mutant: the segment is passed on although its last byte is missing.
ReadExtentUnchecked ==
    /\ pc = "extent"
    /\ GetBytes({SegmentEnd - 1})
    /\ GoOn("process")
    /\ UNCHANGED <<data, begin, marker, payload, interesting, done, segments, runs>>

\* The last byte of an interesting segment must be there.
ReadExtent ==
    /\ pc = "extent"
    /\ GetBytes({SegmentEnd - 1})
    /\ IF error' THEN Advance(payload) ELSE GoOn("process")
    /\ UNCHANGED <<data, begin, marker, payload, interesting, done, segments, runs>>

\* The processor's Process, which may call SetDone and change its interests.
Process ==
    /\ pc = "process"
    /\ segments' = Append(segments, NewRange(begin, SegmentEnd))
    /\ done' \in BOOLEAN
    /\ interesting' \in Interests
    /\ Advance(payload)
    /\ UNCHANGED <<data, windows, begin, marker, payload, error, reported, runs>>

\* While no run is active, the owner of the source reads from it.
UseSource ==
    /\ pc = "idle"
    /\ \E loc \in DOMAIN data :
          source' = GetDataSegment(source, loc, MinBufferDataRequestSize).source
    /\ UNCHANGED <<data, current, next, pc, cursor, interesting, verdict, segments,
                   runs>>

ScannerStep ==
    \/ FinishRun \/ FindMarker \/ NextWindow
    \/ ReadType \/ ReadPayloadSize \/ ReadExtent \/ Process

Next == Run \/ ScannerStep \/ UseSource

(***************************************************************************)
(* Run is an ordinary function: once called, it takes step after step      *)
(* until it returns.  Whether it is called is up to its caller.            *)
(***************************************************************************)
Spec == Init /\ [][Next]_vars /\ WF_vars(ScannerStep)

-----------------------------------------------------------------------------
(***************************************************************************)
(* Properties.                                                             *)
(***************************************************************************)

\* A segment is passed to the processor only when all of its bytes are in the
\* current window and, where it runs over, the one that adjoins it: JpegSegment
\* looks for its bytes in these two only ("a JpegSegment will occupy at most
\* two DataSegments", jpeg_scanner.cc).
SegmentInWindows ==
    pc = "process" =>
        /\ ContainsLocation(current, begin)
        /\ SegmentEnd > current.end =>
              /\ next # NoSegment
              /\ next.begin = current.end
              /\ SegmentEnd <= next.end

\* The end of the data is reported as premature only where the data really
\* ends: two windows always suffice, wherever a segment falls and however
\* large its payload is.
PrematureEndIsReal == \A loc \in reported : loc >= source.extent.end

\* A run that has begun goes on to call Finish and returns.
RunFinishes == pc # "idle" ~> pc = "idle"

(***************************************************************************)
(* The scanner implements the walk over the whole array.  While a marker   *)
(* is being examined, and after an error, the walk is at that marker.      *)
(***************************************************************************)
Whole == INSTANCE JpegSegmentation WITH
    limit    <- source.extent.end,
    active   <- pc # "idle",
    position <- IF error \/ pc \in InLoopBody THEN begin ELSE location

\* Windows change nothing: the segments delivered, their order, the early end
\* and the error are those of a scan of the array in one piece, in a first
\* run and in a later one on a source that was used in between.  That scan
\* passes over fill bytes in pairs, as FindAndProcessSegments does.
ImplementsSegmentation == Whole!SpecInPairs

\* "Multiple fill bytes may appear before a valid marker start: FFFFFFDA - the
\* leading FFFF should be ignored" (jpeg_marker.h): the marker behind the fill
\* bytes is found, however many they are.
FillBytesAreIgnored == Whole!Spec
=============================================================================
