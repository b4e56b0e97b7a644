-------------------------- MODULE JpegScannerProofs --------------------------
(***************************************************************************)
(* Theorems about JpegScanner, for arrays of any length, any number of     *)
(* values a byte may have, and every processor.                            *)
(***************************************************************************)
EXTENDS JpegScanner, TLAPS

W == MinBufferDataRequestSize

-----------------------------------------------------------------------------
(***************************************************************************)
(* The inductive invariant.  LastWindow is the one that was fetched last:  *)
(* the source may have cached it, and if the stream is no longer good, the *)
(* data ends where it ends.                                                *)
(***************************************************************************)
LastWindow(cur, nxt) == IF nxt = NoSegment THEN cur ELSE nxt

WindowsOK(src, cur, nxt) ==
    /\ src \in DataSource
    /\ cur \in DataRange
    /\ cur.begin <= cur.end
    /\ cur.end <= src.extent.end
    /\ nxt \in DataSegment
    /\ nxt # NoSegment =>
          /\ nxt.begin = cur.end
          /\ nxt.begin <= nxt.end
          /\ nxt.end <= src.extent.end
          /\ nxt.end = cur.end + W \/ nxt.end = src.extent.end
    /\ src.kind = "istream" =>
          /\ src.cached \in {NoSegment, LastWindow(cur, nxt)}
          /\ ~CanRead(src) => LastWindow(cur, nxt).end = src.extent.end
    /\ src.kind = "memory" => cur = src.extent /\ nxt = NoSegment

\* The source's extent is never ill-formed, in or out of a run.
ExtentOK == source.extent.begin <= source.extent.end

StreamOK == source.kind = "istream" => source.extent.begin = 0

BetweenRuns == pc = "idle" => next = NoSegment

Inv ==
    /\ TypeOK
    /\ ExtentOK
    /\ StreamOK
    /\ BetweenRuns
    /\ Running => WindowsOK(source, current, next)
    /\ pc \in InLoopBody => ContainsLocation(current, begin)
    /\ SegmentInWindows
    /\ PrematureEndIsReal

-----------------------------------------------------------------------------
(***************************************************************************)
(* The sizes involved.                                                     *)
(***************************************************************************)

\* A window has room for at least four bytes, two of them a marker.
LEMMA WindowSize == W \in Nat /\ W >= 4
<1>1. \A r \in Nat : r >= 2 => r * r \in Nat /\ r * r >= 4
  <2> SUFFICES ASSUME NEW r \in Nat, r >= 2
               PROVE  r * r \in Nat /\ r * r >= 4
    OBVIOUS
  <2>1. PICK k \in Nat : r = k + 2
    BY r - 2 \in Nat, r = (r - 2) + 2
  <2>2. k * k \in Nat /\ k * k >= 0
    BY SMT
  <2>3. r * r = k * k + 4 * k + 4
    BY <2>1, SMT
  <2> QED
    BY <2>2, <2>3
<1> QED
  BY <1>1, RadixAssumption DEF W, MinBufferDataRequestSize

\* The size of a payload is always smaller than a window.
LEMMA PayloadBound ==
    ASSUME NEW high \in Byte, NEW low \in Byte
    PROVE  PayloadSize(high, low) \in 0 .. W - 1
<1>1. \A r, h \in Nat : h <= r - 1 => h * r \in Nat /\ h * r + r <= r * r
  <2> SUFFICES ASSUME NEW r \in Nat, NEW h \in Nat, h <= r - 1
               PROVE  h * r \in Nat /\ h * r + r <= r * r
    OBVIOUS
  <2>1. PICK k \in Nat : r = h + 1 + k
    BY r - 1 - h \in Nat, r = h + 1 + (r - 1 - h)
  <2>2. r * r = h * r + r + k * r
    BY <2>1, SMT
  <2>3. k * r \in Nat /\ h * r \in Nat
    BY SMT
  <2> QED
    BY <2>2, <2>3
<1>2. /\ Radix \in Nat /\ Radix * Radix \in Nat
      /\ high \in Nat /\ high <= Radix - 1
      /\ low \in Nat /\ low <= Radix - 1
  BY RadixAssumption, WindowSize DEF Byte, W, MinBufferDataRequestSize
<1>3. high * Radix \in Nat /\ high * Radix + Radix <= Radix * Radix
  BY <1>1, <1>2
<1> HIDE DEF Byte
<1> QED
  BY <1>2, <1>3 DEF PayloadSize, W, MinBufferDataRequestSize

-----------------------------------------------------------------------------
(***************************************************************************)
(* What a source returns.                                                  *)
(***************************************************************************)

\* A read on a stream: an adjoining, full or final window, or none if the
\* stream is no longer good.
LEMMA ReadWindow ==
    ASSUME NEW src \in DataSource, NEW at \in Nat,
           src.extent.begin <= src.extent.end, at <= src.extent.end
    PROVE  /\ CanRead(src) =>
                 /\ Read(src, at, W) \in DataRange
                 /\ Read(src, at, W) # NoSegment
                 /\ Read(src, at, W).begin = at
                 /\ at <= Read(src, at, W).end
                 /\ Read(src, at, W).end <= src.extent.end
                 /\ \/ Read(src, at, W).end = at + W
                    \/ Read(src, at, W).end = src.extent.end
                 /\ ~GoodAfterRead(src, at, W) =>
                       Read(src, at, W).end = src.extent.end
           /\ ~CanRead(src) => Read(src, at, W) = NoSegment
           /\ Read(src, at, W) \in DataSegment
           /\ GoodAfterRead(src, at, W) \in BOOLEAN
           /\ GoodAfterRead(src, at, W) => CanRead(src)
<1>1. W \in Nat
  BY WindowSize
<1>2. src.extent.begin \in Nat /\ src.extent.end \in Nat
  BY DEF DataSource, DataRange
<1>3. src.good \in BOOLEAN /\ src.open \in BOOLEAN
  BY DEF DataSource
<1>4. ReadEnd(src, at, W) \in Nat
  BY <1>1, <1>2 DEF ReadEnd, Larger, Smaller
<1>5. /\ at <= ReadEnd(src, at, W)
      /\ ReadEnd(src, at, W) <= src.extent.end
      /\ ReadEnd(src, at, W) = at + W \/ ReadEnd(src, at, W) = src.extent.end
  BY <1>1, <1>2 DEF ReadEnd, Larger, Smaller
<1>6. NewRange(at, ReadEnd(src, at, W)) \in DataRange
  BY <1>4 DEF NewRange, DataRange
<1>7. NewRange(at, ReadEnd(src, at, W)) # NoSegment
  BY <1>6, NoSegmentAssumption
<1>8. /\ NewRange(at, ReadEnd(src, at, W)).begin = at
      /\ NewRange(at, ReadEnd(src, at, W)).end = ReadEnd(src, at, W)
  BY DEF NewRange
<1> QED
  BY <1>3, <1>5, <1>6, <1>7, <1>8 DEF Read, CanRead, GoodAfterRead, DataSegment

\* A read anywhere.
LEMMA ReadTyped ==
    ASSUME NEW src \in DataSource, NEW at \in Nat
    PROVE  /\ Read(src, at, W) \in DataSegment
           /\ GoodAfterRead(src, at, W) \in BOOLEAN
<1>1. src.extent.end \in Nat /\ src.good \in BOOLEAN /\ src.open \in BOOLEAN
  BY DEF DataSource, DataRange
<1>2. ReadEnd(src, at, W) \in Nat
  BY <1>1, WindowSize DEF ReadEnd, Larger, Smaller
<1>3. NewRange(at, ReadEnd(src, at, W)) \in DataRange
  BY <1>2 DEF NewRange, DataRange
<1> QED
  BY <1>1, <1>3 DEF Read, CanRead, GoodAfterRead, DataSegment

\* GetNextSegment keeps the windows in order.  If it has no window to offer,
\* the current one reaches the end of the data.
LEMMA NextWindowOK ==
    ASSUME WindowsOK(source, current, next), ExtentOK
    PROVE  LET got == GetNextSegment
           IN  /\ WindowsOK(got.source, current, got.segment)
               /\ got.source.extent = source.extent
               /\ got.source.kind = source.kind
               /\ got.segment = NoSegment => current.end = source.extent.end
<1> DEFINE got == GetNextSegment
<1>1. CASE next # NoSegment
  <2>1. got.source = source /\ got.segment = next
    BY <1>1 DEF GetNextSegment
  <2> QED
    BY <1>1, <2>1
<1>2. CASE next = NoSegment /\ source.kind = "memory"
  <2>1. ~IsValid(Intersection(NewRange(current.end, current.end + W), source.extent))
    <3>1. current = source.extent /\ source.extent \in DataRange
      BY <1>2 DEF WindowsOK, DataSource
    <3>2. source.extent.begin \in Nat /\ source.extent.end \in Nat
      BY <3>1 DEF DataRange
    <3> QED
      BY <3>1, <3>2, WindowSize
         DEF IsValid, Intersection, NewRange, Larger, Smaller
  <2>2. got.source = source /\ got.segment = NoSegment
    BY <1>2, <2>1 DEF GetNextSegment, GetDataSegment, GetFromMemory, GetFromStream, W
  <2> QED
    BY <1>2, <2>2 DEF WindowsOK
<1>3. CASE next = NoSegment /\ source.kind = "istream"
  <2> DEFINE seg == Read(source, current.end, W)
  <2>1. current.end \in Nat /\ current.begin \in Nat /\ source \in DataSource
    BY DEF WindowsOK, DataRange
  <2>2. ~HasCached(source, current.end)
    BY <1>3, <2>1 DEF HasCached, WindowsOK, LastWindow, ContainsLocation
  <2>3. /\ got.segment = seg
        /\ got.source = [source EXCEPT !.good   = GoodAfterRead(source, current.end, W),
                                       !.cached = seg]
    BY <1>3, <2>2 DEF GetNextSegment, GetDataSegment, GetFromMemory, GetFromStream, W
  <2>4. /\ CanRead(source) =>
              /\ seg \in DataRange
              /\ seg # NoSegment
              /\ seg.begin = current.end
              /\ current.end <= seg.end
              /\ seg.end <= source.extent.end
              /\ seg.end = current.end + W \/ seg.end = source.extent.end
              /\ ~GoodAfterRead(source, current.end, W) => seg.end = source.extent.end
        /\ ~CanRead(source) => seg = NoSegment
        /\ seg \in DataSegment
        /\ GoodAfterRead(source, current.end, W) \in BOOLEAN
        /\ GoodAfterRead(source, current.end, W) => CanRead(source)
    BY <2>1, ReadWindow DEF WindowsOK, ExtentOK
  <2>5. /\ got.source \in DataSource
        /\ got.source.extent = source.extent
        /\ got.source.kind = source.kind
        /\ got.source.open = source.open
        /\ got.source.good = GoodAfterRead(source, current.end, W)
        /\ got.source.cached = seg
    BY <2>1, <2>3, <2>4 DEF DataSource
  <2>6. ~CanRead(source) => current.end = source.extent.end
    BY <1>3 DEF WindowsOK, LastWindow
  <2>7. ~CanRead(got.source) => LastWindow(current, seg).end = source.extent.end
    BY <2>4, <2>5, <2>6 DEF CanRead, LastWindow
  <2> HIDE DEF seg, got
  <2> QED
    BY <1>3, <2>3, <2>4, <2>5, <2>6, <2>7 DEF WindowsOK, LastWindow, got
<1> QED
  BY <1>1, <1>2, <1>3 DEF WindowsOK, DataSource

-----------------------------------------------------------------------------
(***************************************************************************)
(* What the scanner reads.                                                 *)
(***************************************************************************)

\* Bytes within a window's length of the current window: the windows stay in
\* order, what is reported as missing is beyond the end of the data, and if no
\* error is set then nothing was missing.
LEMMA GetBytesOK ==
    ASSUME TypeOK, ExtentOK, PrematureEndIsReal,
           WindowsOK(source, current, next),
           NEW locations \in SUBSET Nat,
           \A loc \in locations : current.begin <= loc /\ loc < current.end + W,
           GetBytes(locations), data' = data
    PROVE  /\ WindowsOK(source', current', next')
           /\ source'.extent = source.extent
           /\ source'.kind = source.kind
           /\ current' = current
           /\ reported' \in SUBSET Nat
           /\ error' \in BOOLEAN
           /\ PrematureEndIsReal'
           /\ error => error'
           /\ ~error' => \A loc \in locations : HasByte(next', loc)
           /\ \A loc \in locations : ~HasByte(next', loc) => loc >= source.extent.end
           /\ \A loc \in locations : ByteAt(next', loc) \in Byte
<1> DEFINE got == Fetched(locations)
<1>1. /\ WindowsOK(got.source, current, got.segment)
      /\ got.source.extent = source.extent
      /\ got.source.kind = source.kind
      /\ got.segment = NoSegment /\ Missing(got.segment, locations) # {} =>
            current.end = source.extent.end
  <2>1. CASE \A loc \in locations : ContainsLocation(current, loc)
    <3>1. got.source = source /\ got.segment = next
      BY <2>1 DEF Fetched
    <3>2. Missing(got.segment, locations) = {}
      BY <2>1 DEF Missing, HasByte
    <3> QED
      BY <3>1, <3>2
  <2>2. CASE ~\A loc \in locations : ContainsLocation(current, loc)
    <3>1. got = GetNextSegment
      BY <2>2 DEF Fetched
    <3> QED
      BY <3>1, NextWindowOK
  <2> QED
    BY <2>1, <2>2
<1>2. /\ next' = got.segment /\ source' = got.source /\ current' = current
      /\ reported' = reported \cup Missing(got.segment, locations)
      /\ error' = (error \/ Missing(got.segment, locations) # {})
  BY DEF GetBytes
<1> HIDE DEF got
<1>3. ASSUME NEW loc \in locations, ~HasByte(next', loc)
      PROVE  loc >= source.extent.end
  <2>1. loc \in Missing(got.segment, locations)
    BY <1>2, <1>3 DEF Missing
  <2>2. loc \in Nat /\ current.begin <= loc /\ loc < current.end + W
    OBVIOUS
  <2>3. /\ current.begin \in Nat /\ current.end \in Nat /\ source.extent.end \in Nat
        /\ W \in Nat
    BY WindowSize DEF WindowsOK, DataRange, DataSource
  <2>4. current.end <= loc
    BY <1>3, <2>2, <2>3 DEF HasByte, ContainsLocation
  <2>5. CASE next' = NoSegment
    BY <1>1, <1>2, <2>1, <2>4, <2>5
  <2>6. CASE next' # NoSegment
    <3>1. /\ next' \in DataRange
          /\ next'.begin = current.end
          /\ next'.end = current.end + W \/ next'.end = source.extent.end
      BY <1>1, <1>2, <2>6 DEF WindowsOK, DataSegment
    <3>2. ~(next'.begin <= loc /\ loc < next'.end)
      BY <1>3, <2>6 DEF HasByte, ContainsLocation
    <3>3. next'.end \in Nat
      BY <3>1 DEF DataRange
    <3> QED
      BY <2>2, <2>3, <2>4, <3>1, <3>2, <3>3
  <2> QED
    BY <2>5, <2>6
<1>4. ASSUME NEW loc \in locations
      PROVE  ByteAt(next', loc) \in Byte
  <2>1. CASE ~HasByte(next', loc)
    BY <2>1, RadixAssumption DEF ByteAt, Byte
  <2>2. CASE HasByte(next', loc)
    <3>1. /\ current.end \in Nat /\ source.extent.end \in Nat
          /\ current.end <= source.extent.end
      BY DEF WindowsOK, DataRange, DataSource
    <3>2. next' # NoSegment => next'.end \in Nat /\ next'.end <= source.extent.end
      BY <1>1, <1>2 DEF WindowsOK, DataRange, DataSegment
    <3>3. loc < source.extent.end
      BY <2>2, <3>1, <3>2 DEF HasByte, ContainsLocation
    <3>4. loc \in DOMAIN data
      BY <3>1, <3>3 DEF TypeOK
    <3> QED
      BY <2>2, <3>4 DEF ByteAt, TypeOK
  <2> QED
    BY <2>1, <2>2
<1>5. Missing(got.segment, locations) \subseteq locations
  BY DEF Missing
<1>6. \A loc \in Missing(got.segment, locations) : loc >= source.extent.end
  BY <1>2, <1>3 DEF Missing
<1>7. ~error' => \A loc \in locations : HasByte(next', loc)
  BY <1>2 DEF Missing
<1>8. PrematureEndIsReal'
  BY <1>1, <1>2, <1>6 DEF PrematureEndIsReal
<1>9. error' \in BOOLEAN /\ (error => error')
  BY <1>2 DEF TypeOK
<1>10. reported' \in SUBSET Nat
  BY <1>2, <1>5 DEF TypeOK
<1> QED
  BY <1>1, <1>2, <1>3, <1>4, <1>7, <1>8, <1>9, <1>10

-----------------------------------------------------------------------------
(***************************************************************************)
(* The invariant, action by action.                                        *)
(***************************************************************************)

LEMMA EmptyIsTyped == <<>> \in Seq(DataRange)
OBVIOUS

LEMMA InitInv == Init => Inv
<1> SUFFICES ASSUME Init PROVE Inv
  OBVIOUS
<1>1. PICK input \in Inputs : data = input.data /\ source = input.source
  BY DEF Init
<1>2. /\ input.length \in Nat
      /\ data \in [0 .. input.length - 1 -> Byte]
      /\ HoldsArray(source, input.length)
  BY <1>1, InputsAssumption
<1>3. /\ source \in DataSource
      /\ source.extent.end <= input.length
      /\ source.extent.begin <= source.extent.end
      /\ source.kind = "istream" => source.extent.begin = 0
  <2>1. NoSegment \in DataSegment
    BY DEF DataSegment
  <2>2. CASE \E open \in BOOLEAN : source = NewIStream(input.length, open)
    <3>1. NewRange(0, input.length) \in DataRange
      BY <1>2 DEF NewRange, DataRange
    <3> QED
      BY <1>2, <2>1, <2>2, <3>1 DEF NewIStream, NewRange, DataSource
  <2>3. CASE \E first, limit \in 0 .. input.length :
                first <= limit /\ source = NewInMemory(NewRange(first, limit))
    <3>1. PICK first, limit \in 0 .. input.length :
                first <= limit /\ source = NewInMemory(NewRange(first, limit))
      BY <2>3
    <3>2. NewRange(first, limit) \in DataRange
      BY <1>2 DEF NewRange, DataRange
    <3> QED
      BY <1>2, <2>1, <3>1, <3>2 DEF NewInMemory, NewRange, DataSource
  <2> QED
    BY <1>2, <2>2, <2>3 DEF HoldsArray
<1>4. 0 .. source.extent.end - 1 \subseteq DOMAIN data
  BY <1>2, <1>3 DEF DataSource, DataRange
<1>5. data \in [DOMAIN data -> Byte] /\ DOMAIN data \subseteq Nat
  BY <1>2
<1>6. 0 \in Byte /\ 0 \in 0 .. MinBufferDataRequestSize - 1 /\ NoSegment \in DataSegment
  BY WindowSize, RadixAssumption DEF Byte, DataSegment, W
<1>7. TypeOK
  BY <1>3, <1>4, <1>5, <1>6, EmptyIsTyped DEF Init, TypeOK, Locations
<1> QED
  BY <1>3, <1>7 DEF Init, Inv, ExtentOK, StreamOK, BetweenRuns, Running, InLoopBody,
                    SegmentInWindows, PrematureEndIsReal

\* Reset leaves a source of the same kind and extent.
LEMMA ResetOK ==
    ASSUME NEW src \in DataSource
    PROVE  /\ Reset(src) \in DataSource
           /\ Reset(src).extent = src.extent
           /\ Reset(src).kind = src.kind
           /\ src.kind = "istream" => Reset(src).cached = NoSegment
BY DEF Reset, DataSource, DataSegment

LEMMA RunInv == Inv /\ Run => Inv'
<1> SUFFICES ASSUME Inv, Run PROVE Inv'
  OBVIOUS
<1> DEFINE src == Reset(source)
           got == GetDataSegment(src, 0, W)
<1>1. source \in DataSource /\ src \in DataSource
  BY ResetOK DEF Inv, TypeOK
<1>2. src.extent = source.extent /\ src.kind = source.kind
  BY <1>1, ResetOK
<1>3. /\ pc = "idle" /\ next = NoSegment /\ next' = NoSegment
      /\ current' = got.segment /\ source' = got.source
      /\ pc' = IF got.segment = NoSegment THEN "crashed" ELSE "loop"
      /\ reported' = {}
  BY DEF Run, RunOn, Inv, BetweenRuns, W
<1>4. source.extent.end \in Nat /\ source.extent.begin \in Nat
  BY <1>1 DEF DataSource, DataRange
<1>5. /\ got.source \in DataSource
      /\ got.source.extent = source.extent
      /\ got.source.kind = source.kind
      /\ got.segment \in DataSegment
      /\ got.segment # NoSegment => WindowsOK(got.source, got.segment, NoSegment)
  <2>1. CASE src.kind = "memory"
    <3>1. got.source = src /\ got.segment \in {src.extent, NoSegment}
      BY <2>1 DEF GetDataSegment, GetFromMemory
    <3>2. src.extent \in DataRange
      BY <1>1 DEF DataSource
    <3>3. src.extent.begin <= src.extent.end
      BY <1>2 DEF Inv, ExtentOK
    <3> HIDE DEF src, got
    <3>4. NoSegment \in DataSegment /\ src.extent \in DataSegment
      BY <3>2 DEF DataSegment
    <3>5. WindowsOK(src, src.extent, NoSegment)
      BY <1>1, <2>1, <3>2, <3>3, <3>4 DEF WindowsOK, LastWindow, DataRange
    <3> QED
      BY <1>1, <1>2, <3>1, <3>4, <3>5
  <2>2. CASE src.kind = "istream"
    <3> DEFINE seg == Read(src, 0, W)
    <3>1. ~HasCached(src, 0)
      BY <1>1, <1>2, <2>2, ResetOK DEF HasCached
    <3>2. /\ got.segment = seg
          /\ got.source = [src EXCEPT !.good = GoodAfterRead(src, 0, W), !.cached = seg]
      BY <2>2, <3>1 DEF GetDataSegment, GetFromStream
    <3>3. /\ CanRead(src) =>
                /\ seg \in DataRange
                /\ seg.begin = 0
                /\ 0 <= seg.end
                /\ seg.end <= src.extent.end
                /\ ~GoodAfterRead(src, 0, W) => seg.end = src.extent.end
          /\ ~CanRead(src) => seg = NoSegment
          /\ seg \in DataSegment
          /\ GoodAfterRead(src, 0, W) \in BOOLEAN
      BY <1>1, <1>2, <1>4, ReadWindow DEF Inv, ExtentOK
    <3>4. /\ got.source \in DataSource
          /\ got.source.extent = src.extent
          /\ got.source.kind = src.kind
          /\ got.source.open = src.open
          /\ got.source.good = GoodAfterRead(src, 0, W)
          /\ got.source.cached = seg
      BY <1>1, <3>2, <3>3 DEF DataSource
    <3>5. got.segment # NoSegment /\ ~CanRead(got.source) => seg.end = src.extent.end
      BY <3>2, <3>3, <3>4 DEF CanRead
    <3> HIDE DEF seg, got, src
    <3> QED
      BY <1>2, <2>2, <3>2, <3>3, <3>4, <3>5 DEF WindowsOK, LastWindow, DataSegment
  <2> QED
    BY <1>1, <2>1, <2>2 DEF DataSource
<1> HIDE DEF src, got
<1>6. TypeOK'
  <2>1. /\ data' = data /\ begin' = begin /\ marker' = marker /\ payload' = payload
        /\ location' = 0 /\ done' = FALSE /\ error' = FALSE
        /\ interesting' \in Interests
        /\ segments' = <<>> /\ runs' = runs + 1
    BY DEF Run, RunOn
  <2>2. source' \in DataSource /\ source'.extent = source.extent
    BY <1>3, <1>5
  <2>3. interesting' \in SUBSET Byte
    BY <2>1, InterestsAssumption
  <2>4. pc' \in Locations /\ current' \in DataSegment /\ next' \in DataSegment
    BY <1>3, <1>5 DEF Locations, Inv, TypeOK
  <2>5. segments' \in Seq(DataRange) /\ runs' \in Nat /\ reported' \in SUBSET Nat
    BY <1>3, <2>1, EmptyIsTyped DEF Inv, TypeOK
  <2>6. data' = data /\ 0 .. source'.extent.end - 1 \subseteq DOMAIN data'
    BY <2>1, <2>2 DEF Inv, TypeOK
  <2> QED
    BY <2>1, <2>2, <2>3, <2>4, <2>5, <2>6 DEF Inv, TypeOK
<1>7. ExtentOK' /\ StreamOK' /\ BetweenRuns'
  BY <1>3, <1>5 DEF Inv, ExtentOK, StreamOK, BetweenRuns
<1>8. Running' => WindowsOK(source', current', next')
  BY <1>3, <1>5 DEF Running, InLoopBody
<1> QED
  BY <1>3, <1>6, <1>7, <1>8
     DEF Inv, InLoopBody, SegmentInWindows, PrematureEndIsReal

LEMMA FinishRunInv == Inv /\ FinishRun => Inv'
BY DEF Inv, FinishRun, TypeOK, ExtentOK, StreamOK, BetweenRuns, Running, InLoopBody,
       Locations, SegmentInWindows, PrematureEndIsReal, DataSegment, cursor, verdict

LEMMA FindMarkerInv == Inv /\ FindMarker => Inv'
<1> SUFFICES ASSUME Inv, FindMarker PROVE Inv'
  OBVIOUS
<1>1. PICK loc : /\ loc \in location .. current.end - 1
                 /\ FoundAt(current, location, kStart, loc)
                 /\ begin' = loc
  BY DEF FindMarker
<1>2. /\ pc = "loop" /\ pc' = "type"
      /\ marker' = 0 /\ payload' = 0
      /\ UNCHANGED <<data, source, current, next, location, interesting,
                     done, error, reported, segments, runs>>
  BY DEF FindMarker, windows, verdict
<1>3. begin' \in Nat /\ ContainsLocation(current, begin')
  BY <1>1 DEF FoundAt, Inv, TypeOK
<1>4. TypeOK'
  BY <1>2, <1>3, WindowSize, RadixAssumption
     DEF Inv, TypeOK, Locations, InLoopBody, Byte, W
<1>5. WindowsOK(source', current', next')
  BY <1>2 DEF Inv, Running
<1> QED
  BY <1>2, <1>3, <1>4, <1>5
     DEF Inv, ExtentOK, StreamOK, BetweenRuns, SegmentInWindows, PrematureEndIsReal

LEMMA NextWindowInv == Inv /\ NextWindow => Inv'
<1> SUFFICES ASSUME Inv, NextWindow PROVE Inv'
  OBVIOUS
<1> DEFINE got == GetNextSegment
<1>1. /\ WindowsOK(got.source, current, got.segment)
      /\ got.source.extent = source.extent
      /\ got.source.kind = source.kind
  BY NextWindowOK DEF Inv, NextWindow, Running
<1>2. /\ pc = "loop" /\ pc' = "loop"
      /\ source' = got.source
      /\ next' = NoSegment
      /\ got.segment # NoSegment =>
            /\ location' = Larger(location, got.segment.begin)
            /\ current' = got.segment
            /\ done' = done
      /\ got.segment = NoSegment =>
            done' = TRUE /\ location' = location /\ current' = current
      /\ UNCHANGED <<data, begin, marker, payload, interesting, error, reported,
                     segments, runs>>
  BY DEF NextWindow
<1> HIDE DEF got
<1>3. WindowsOK(source', current', next')
  BY <1>1, <1>2 DEF WindowsOK, LastWindow, DataSegment
<1>4. location' \in Nat
  BY <1>1, <1>2 DEF Inv, TypeOK, WindowsOK, Larger, DataRange, DataSegment
<1>5. TypeOK'
  BY <1>1, <1>2, <1>3, <1>4 DEF Inv, TypeOK, WindowsOK, DataSegment
<1> QED
  BY <1>1, <1>2, <1>3, <1>5
     DEF Inv, ExtentOK, StreamOK, BetweenRuns, SegmentInWindows, PrematureEndIsReal,
         InLoopBody

\* The loop body's reads are all within a window's length of the current window.
LEMMA ReadTypeInv == Inv /\ ReadType => Inv'
<1> SUFFICES ASSUME Inv, ReadType PROVE Inv'
  OBVIOUS
<1> DEFINE loc == begin + kTypeOffset
<1>1. /\ pc = "type" /\ GetBytes({loc}) /\ marker' = ByteAt(next', loc)
      /\ UNCHANGED <<data, begin, payload, interesting, done, segments, runs>>
  BY DEF ReadType
<1>2. /\ pc' \in {"loop", "size", "extent"}
      /\ location' \in {location, begin + kLength + 0}
  BY DEF ReadType, Advance, GoOn
<1>3. /\ WindowsOK(source, current, next)
      /\ ContainsLocation(current, begin)
      /\ begin \in Nat /\ location \in Nat
  BY <1>1 DEF Inv, Running, InLoopBody, TypeOK
<1>4. loc \in Nat /\ current.begin <= loc /\ loc < current.end + W
  BY <1>3, WindowSize DEF WindowsOK, DataRange, ContainsLocation, kTypeOffset
<1>5. \A l \in {loc} : current.begin <= l /\ l < current.end + W
  BY <1>4
<1> HIDE DEF loc
<1>6. /\ WindowsOK(source', current', next')
      /\ source'.extent = source.extent
      /\ source'.kind = source.kind
      /\ current' = current
      /\ reported' \in SUBSET Nat
      /\ error' \in BOOLEAN
      /\ PrematureEndIsReal'
      /\ \A l \in {loc} : ByteAt(next', l) \in Byte
  BY <1>1, <1>3, <1>4, <1>5, GetBytesOK DEF Inv
<1>7. location' \in Nat
  BY <1>2, <1>3 DEF kLength
<1>8. TypeOK'
  <2>1. data' = data /\ 0 .. source'.extent.end - 1 \subseteq DOMAIN data'
    BY <1>1, <1>6 DEF Inv, TypeOK
  <2>2. /\ source' \in DataSource /\ current' \in DataSegment
        /\ next' \in DataSegment
    BY <1>6 DEF WindowsOK, DataSegment
  <2>3. pc' \in Locations /\ marker' \in Byte
    BY <1>1, <1>2, <1>6 DEF Locations, InLoopBody
  <2> QED
    BY <1>1, <1>6, <1>7, <2>1, <2>2, <2>3 DEF Inv, TypeOK
<1> QED
  BY <1>1, <1>2, <1>3, <1>6, <1>8
     DEF Inv, ExtentOK, StreamOK, BetweenRuns, SegmentInWindows

LEMMA ReadPayloadSizeInv == Inv /\ ReadPayloadSize => Inv'
<1> SUFFICES ASSUME Inv, ReadPayloadSize PROVE Inv'
  OBVIOUS
<1> DEFINE high == begin + kLength
           low  == begin + kLength + 1
<1>1. /\ pc = "size" /\ GetBytes({high, low})
      /\ payload' = PayloadSize(ByteAt(next', high), ByteAt(next', low))
      /\ UNCHANGED <<data, begin, marker, interesting, done, segments, runs>>
  BY DEF ReadPayloadSize
<1>2. /\ pc' \in {"loop", "extent"}
      /\ location' \in {location, begin + kLength + payload'}
  BY DEF ReadPayloadSize, Advance, GoOn
<1>3. /\ WindowsOK(source, current, next)
      /\ ContainsLocation(current, begin)
      /\ begin \in Nat /\ location \in Nat
  BY <1>1 DEF Inv, Running, InLoopBody, TypeOK
<1>4. /\ high \in Nat /\ current.begin <= high /\ high < current.end + W
      /\ low \in Nat /\ current.begin <= low /\ low < current.end + W
  BY <1>3, WindowSize DEF WindowsOK, DataRange, ContainsLocation, kLength
<1>5. /\ {high, low} \in SUBSET Nat
      /\ \A l \in {high, low} : current.begin <= l /\ l < current.end + W
  BY <1>4
<1>6. high \in {high, low} /\ low \in {high, low}
  OBVIOUS
<1> HIDE DEF high, low
<1>7. /\ WindowsOK(source', current', next')
      /\ source'.extent = source.extent
      /\ source'.kind = source.kind
      /\ current' = current
      /\ reported' \in SUBSET Nat
      /\ error' \in BOOLEAN
      /\ PrematureEndIsReal'
      /\ \A l \in {high, low} : ByteAt(next', l) \in Byte
  BY <1>1, <1>3, <1>5, GetBytesOK DEF Inv
<1>8. payload' \in 0 .. W - 1
  <2>1. ByteAt(next', high) \in Byte /\ ByteAt(next', low) \in Byte
    BY <1>6, <1>7
  <2> QED
    BY <1>1, <2>1, PayloadBound
<1>9. location' \in Nat
  <2>1. payload' \in Nat
    BY <1>8, WindowSize
  <2>2. \A b, p \in Nat : b + kLength + p \in Nat
    BY DEF kLength
  <2>3. begin + kLength + payload' \in Nat
    BY <1>3, <2>1, <2>2
  <2> QED
    BY <1>2, <1>3, <2>3
<1>10. TypeOK'
  <2>1. data' = data /\ 0 .. source'.extent.end - 1 \subseteq DOMAIN data'
    BY <1>1, <1>7 DEF Inv, TypeOK
  <2>2. /\ source' \in DataSource /\ current' \in DataSegment
        /\ next' \in DataSegment
    BY <1>7 DEF WindowsOK, DataSegment
  <2>3. pc' \in Locations
    BY <1>2 DEF Locations, InLoopBody
  <2> QED
    BY <1>1, <1>7, <1>8, <1>9, <2>1, <2>2, <2>3 DEF Inv, TypeOK, W
<1> QED
  BY <1>1, <1>2, <1>3, <1>7, <1>10
     DEF Inv, ExtentOK, StreamOK, BetweenRuns, SegmentInWindows

\* The last byte of a segment: the longest one is a byte longer than a window,
\* and its first byte is in the current window.
LEMMA ReadExtentInv == Inv /\ ReadExtent => Inv'
<1> SUFFICES ASSUME Inv, ReadExtent PROVE Inv'
  OBVIOUS
<1> DEFINE last == SegmentEnd - 1
<1>1. /\ pc = "extent" /\ GetBytes({last})
      /\ UNCHANGED <<data, begin, marker, payload, interesting, done, segments, runs>>
  BY DEF ReadExtent
<1>2. /\ pc' \in {"loop", "process"}
      /\ location' \in {location, begin + kLength + payload}
      /\ pc' = "process" => ~error'
  BY DEF ReadExtent, Advance, GoOn
<1>3. /\ WindowsOK(source, current, next)
      /\ ContainsLocation(current, begin)
      /\ begin \in Nat /\ location \in Nat /\ payload \in 0 .. W - 1
  BY <1>1 DEF Inv, Running, InLoopBody, TypeOK, W
<1>4. /\ W \in Nat /\ payload \in Nat
      /\ current.begin \in Nat /\ current.end \in Nat
  BY <1>3, WindowSize DEF WindowsOK, DataRange
<1>5. /\ last \in Nat /\ current.begin <= last /\ last < current.end + W
      /\ last = begin + 1 + payload
  BY <1>3, <1>4 DEF ContainsLocation, SegmentEnd, kLength
<1>6. \A l \in {last} : current.begin <= l /\ l < current.end + W
  BY <1>5
<1>7. SegmentEnd' = SegmentEnd /\ SegmentEnd = begin + 2 + payload
  BY <1>1 DEF SegmentEnd, kLength
<1>8. SegmentEnd \in Nat /\ last = SegmentEnd - 1
  BY <1>3, <1>4, <1>7
<1> HIDE DEF last
<1>9. /\ WindowsOK(source', current', next')
      /\ source'.extent = source.extent
      /\ source'.kind = source.kind
      /\ current' = current
      /\ reported' \in SUBSET Nat
      /\ error' \in BOOLEAN
      /\ PrematureEndIsReal'
      /\ ~error' => \A l \in {last} : HasByte(next', l)
  BY <1>1, <1>3, <1>5, <1>6, GetBytesOK DEF Inv
<1>10. location' \in Nat
  BY <1>2, <1>3, <1>4 DEF kLength
<1>11. TypeOK'
  <2>1. data' = data /\ 0 .. source'.extent.end - 1 \subseteq DOMAIN data'
    BY <1>1, <1>9 DEF Inv, TypeOK
  <2>2. /\ source' \in DataSource /\ current' \in DataSegment
        /\ next' \in DataSegment
    BY <1>9 DEF WindowsOK, DataSegment
  <2>3. pc' \in Locations
    BY <1>2 DEF Locations, InLoopBody
  <2> QED
    BY <1>1, <1>9, <1>10, <2>1, <2>2, <2>3 DEF Inv, TypeOK
<1>12. SegmentInWindows'
  <2> SUFFICES ASSUME pc' = "process", SegmentEnd > current.end
               PROVE  /\ next' # NoSegment
                      /\ next'.begin = current.end
                      /\ SegmentEnd <= next'.end
    BY <1>1, <1>3, <1>7, <1>9 DEF SegmentInWindows
  <2>1. HasByte(next', last)
    BY <1>2, <1>9
  <2>2. ~ContainsLocation(current', last)
    BY <1>4, <1>5, <1>8, <1>9 DEF ContainsLocation
  <2>3. next' # NoSegment /\ last < next'.end
    BY <1>9, <2>1, <2>2 DEF HasByte, ContainsLocation
  <2>4. next'.begin = current.end /\ next'.end \in Nat
    BY <1>9, <2>3 DEF WindowsOK, DataSegment, DataRange
  <2> QED
    BY <1>8, <2>3, <2>4
<1> QED
  BY <1>1, <1>2, <1>3, <1>9, <1>11, <1>12
     DEF Inv, ExtentOK, StreamOK, BetweenRuns

LEMMA ProcessInv == Inv /\ Process => Inv'
<1> SUFFICES ASSUME Inv, Process PROVE Inv'
  OBVIOUS
<1>1. /\ pc = "process" /\ pc' = "loop"
      /\ segments' = Append(segments, NewRange(begin, SegmentEnd))
      /\ done' \in BOOLEAN /\ interesting' \in Interests
      /\ location' = begin + kLength + payload
      /\ UNCHANGED <<data, source, current, next, begin, marker, payload, error,
                     reported, runs>>
  BY DEF Process, Advance, windows
<1>2. begin \in Nat /\ payload \in Nat
  BY WindowSize DEF Inv, TypeOK, W
<1>3. location' \in Nat /\ SegmentEnd \in Nat
  BY <1>1, <1>2 DEF SegmentEnd, kLength
<1>4. segments' \in Seq(DataRange)
  <2>1. NewRange(begin, SegmentEnd) \in DataRange
    BY <1>2, <1>3 DEF NewRange, DataRange
  <2> QED
    BY <1>1, <2>1 DEF Inv, TypeOK
<1>5. TypeOK'
  BY <1>1, <1>3, <1>4, InterestsAssumption DEF Inv, TypeOK, Locations
<1>6. WindowsOK(source', current', next')
  BY <1>1 DEF Inv, Running, InLoopBody
<1> QED
  BY <1>1, <1>5, <1>6
     DEF Inv, ExtentOK, StreamOK, BetweenRuns, SegmentInWindows, PrematureEndIsReal,
         InLoopBody

\* Whatever the owner of the source reads from it, it stays the same source.
LEMMA UseSourceInv == Inv /\ UseSource => Inv'
<1> SUFFICES ASSUME Inv, UseSource PROVE Inv'
  OBVIOUS
<1>1. PICK loc \in DOMAIN data :
         source' = GetDataSegment(source, loc, MinBufferDataRequestSize).source
  BY DEF UseSource
<1>2. /\ pc = "idle" /\ pc' = "idle"
      /\ UNCHANGED <<data, current, next, location, begin, marker, payload,
                     interesting, done, error, reported, segments, runs>>
  BY DEF UseSource, cursor, verdict
<1>3. source' \in DataSource /\ source'.extent = source.extent /\ source'.kind = source.kind
  <2>1. source \in DataSource
    BY DEF Inv, TypeOK
  <2>2. CASE source' = source
    BY <2>1, <2>2
  <2>3. CASE source' # source
    <3>1. source' = [source EXCEPT !.good   = GoodAfterRead(source, loc, W),
                                   !.cached = Read(source, loc, W)]
      BY <1>1, <2>3 DEF GetDataSegment, GetFromMemory, GetFromStream, W
    <3>2. loc \in Nat
      BY DEF Inv, TypeOK
    <3>3. /\ Read(source, loc, W) \in DataSegment
          /\ GoodAfterRead(source, loc, W) \in BOOLEAN
      BY <2>1, <3>2, ReadTyped
    <3> QED
      BY <2>1, <3>1, <3>3 DEF DataSource
  <2> QED
    BY <2>2, <2>3
<1>4. TypeOK'
  BY <1>2, <1>3 DEF Inv, TypeOK
<1> QED
  BY <1>2, <1>3, <1>4
     DEF Inv, ExtentOK, StreamOK, BetweenRuns, Running, InLoopBody, SegmentInWindows,
         PrematureEndIsReal

THEOREM Invariance == Spec => []Inv
<1>1. Inv /\ [Next]_vars => Inv'
  <2> SUFFICES ASSUME Inv, [Next]_vars PROVE Inv'
    OBVIOUS
  <2>1. CASE Next
    BY <2>1, RunInv, FinishRunInv, FindMarkerInv, NextWindowInv, ReadTypeInv,
       ReadPayloadSizeInv, ReadExtentInv, ProcessInv, UseSourceInv
       DEF Next, ScannerStep
  <2>2. CASE UNCHANGED vars
    BY <2>2 DEF vars, windows, cursor, verdict, Inv, TypeOK, ExtentOK, StreamOK,
       BetweenRuns, Running, InLoopBody, SegmentInWindows, SegmentEnd,
       PrematureEndIsReal
  <2> QED
    BY <2>1, <2>2
<1> QED
  BY <1>1, InitInv, PTL DEF Spec

\* Every variable keeps its type, whatever the array and the processor.
THEOREM TypeCorrectness == Spec => []TypeOK
BY Invariance, PTL DEF Inv

\* A JpegSegment handed to the processor lies in the current window and the one
\* that adjoins it.
THEOREM SegmentsFitWindows == Spec => []SegmentInWindows
BY Invariance, PTL DEF Inv

\* A premature end of the data is never reported because of where the windows
\* happen to be.
THEOREM NoFalsePrematureEnd == Spec => []PrematureEndIsReal
BY Invariance, PTL DEF Inv

-----------------------------------------------------------------------------
(***************************************************************************)
(* JpegScanner implements JpegSegmentation, for sources that hold the      *)
(* array from its first byte on.                                           *)
(***************************************************************************)
FromFirstByte == \A input \in Inputs : input.source.extent.begin = 0

Limit == source.extent.end

(***************************************************************************)
(* What the scanner knows of the array at each point of the loop body.     *)
(***************************************************************************)
KnowsMarker ==
    /\ Whole!HasType
    /\ marker = Whole!Type
    /\ IsValidMarker(marker)

KnowsExtent ==
    /\ KnowsMarker
    /\ marker \in interesting
    /\ Whole!HasSize
    /\ payload = Whole!Payload

WalkInv ==
    /\ source.extent.begin = 0
    /\ Running => current.begin <= location \/ error
    /\ pc \in InLoopBody =>
          ~done /\ begin < Limit /\ data[begin] = kStart
    /\ pc \in {"type", "size", "process"} => ~error
    /\ pc = "type" => payload = 0
    /\ pc = "size" => KnowsMarker /\ HasVariablePayloadSize(marker)
    /\ pc \in {"extent", "process"} /\ ~error => KnowsExtent
    /\ pc = "process" => SegmentEnd - 1 < Limit

-----------------------------------------------------------------------------
\* GetBytes and the array: either an error is set, and one of the bytes is beyond
\* its end, or all of them are there and are what the scanner reads.
LEMMA GetBytesOfArray ==
    ASSUME Inv, pc \in InLoopBody, data' = data,
           NEW locations \in SUBSET Nat,
           \A loc \in locations : current.begin <= loc /\ loc < current.end + W,
           GetBytes(locations)
    PROVE  /\ source'.extent = source.extent
           /\ current' = current
           /\ error' \in BOOLEAN
           /\ error => error'
           /\ error' /\ ~error => \E loc \in locations : loc >= Limit
           /\ ~error' => \A loc \in locations :
                            loc < Limit /\ ByteAt(next', loc) = data[loc]
<1>1. /\ WindowsOK(source', current', next')
      /\ source'.extent = source.extent
      /\ current' = current
      /\ error' \in BOOLEAN
      /\ error => error'
      /\ ~error' => \A loc \in locations : HasByte(next', loc)
      /\ \A loc \in locations : ~HasByte(next', loc) => loc >= source.extent.end
  BY GetBytesOK DEF Inv, Running
<1>2. ASSUME error', ~error
      PROVE  \E loc \in locations : loc >= Limit
  <2>1. PICK loc \in locations : ~HasByte(Fetched(locations).segment, loc)
    BY <1>2 DEF GetBytes, Missing
  <2>2. next' = Fetched(locations).segment
    BY DEF GetBytes
  <2> QED
    BY <1>1, <2>1, <2>2 DEF Limit
<1>3. ASSUME ~error', NEW loc \in locations
      PROVE  loc < Limit /\ ByteAt(next', loc) = data[loc]
  <2>1. HasByte(next', loc)
    BY <1>1, <1>3
  <2>2. loc < source'.extent.end
    BY <1>1, <2>1 DEF WindowsOK, HasByte, ContainsLocation, DataRange, DataSource,
                      DataSegment
  <2> QED
    BY <1>1, <2>1, <2>2 DEF ByteAt, Limit
<1> QED
  BY <1>1, <1>2, <1>3

-----------------------------------------------------------------------------
(***************************************************************************)
(* Each action keeps what is known, and maps to a step of the walk over    *)
(* the whole array or to none.                                             *)
(***************************************************************************)

LEMMA InitWalk == FromFirstByte /\ Init => WalkInv /\ Whole!Init
<1> SUFFICES ASSUME FromFirstByte, Init PROVE WalkInv /\ Whole!Init
  OBVIOUS
<1>1. source.extent.begin = 0
  BY DEF FromFirstByte, Init
<1>2. WalkInv
  BY <1>1 DEF Init, WalkInv, Running, InLoopBody
<1>3. TypeOK
  BY InitInv DEF Inv
<1>4. source.extent.end \in Nat
  BY <1>3 DEF TypeOK, DataSource, DataRange
<1>5. Whole!Init
  BY <1>3, <1>4 DEF Init, TypeOK, Whole!Init, Whole!Byte, Byte, InLoopBody
<1> QED
  BY <1>2, <1>5

LEMMA RunWalk == Inv /\ WalkInv /\ Run => WalkInv' /\ Whole!Begin
<1> SUFFICES ASSUME Inv, WalkInv, Run PROVE WalkInv' /\ Whole!Begin
  OBVIOUS
<1>1. Inv'
  BY RunInv
<1>2. /\ pc = "idle" /\ pc' \in {"crashed", "loop"}
      /\ location' = 0 /\ done' = FALSE /\ error' = FALSE
      /\ interesting' \in Interests
      /\ segments' = <<>>
      /\ data' = data
  BY DEF Run, RunOn
<1>3. source'.extent = source.extent
  <2>1. source \in DataSource /\ Reset(source).extent = source.extent
    BY ResetOK DEF Inv, TypeOK
  <2>2. GetDataSegment(Reset(source), 0, MinBufferDataRequestSize).source.extent
          = Reset(source).extent
    <3>1. Reset(source) \in DataSource
      BY <2>1, ResetOK
    <3> QED
      BY <3>1 DEF GetDataSegment, GetFromMemory, GetFromStream, DataSource
  <2> QED
    BY <2>1, <2>2 DEF Run, RunOn
<1>4. pc' = "loop" => current'.begin <= 0
  <2> SUFFICES ASSUME pc' = "loop" PROVE current'.begin <= 0
    OBVIOUS
  <2>1. WindowsOK(source', current', next')
    BY <1>1 DEF Inv, Running
  <2>2. current'.begin <= current'.end /\ current' \in DataRange
    BY <2>1 DEF WindowsOK
  <2>3. CASE source'.kind = "memory"
    BY <1>3, <2>1, <2>3 DEF WindowsOK, WalkInv
  <2>4. CASE source'.kind = "istream"
    <3>1. source \in DataSource /\ Reset(source) \in DataSource
      BY ResetOK DEF Inv, TypeOK
    <3>2. source.kind = "istream" /\ Reset(source).kind = "istream"
          /\ Reset(source).cached = NoSegment
      <4>1. GetDataSegment(Reset(source), 0, W).source.kind = Reset(source).kind
        BY <3>1 DEF GetDataSegment, GetFromMemory, GetFromStream, DataSource
      <4>2. source'.kind = Reset(source).kind
        BY <4>1 DEF Run, RunOn, W
      <4> QED
        BY <2>4, <3>1, <4>2, ResetOK
    <3>3. current' = Read(Reset(source), 0, W)
      BY <3>2 DEF Run, RunOn, GetDataSegment, GetFromStream, HasCached, W
    <3>4. current' # NoSegment
      BY <2>2, NoSegmentAssumption
    <3> QED
      BY <3>3, <3>4 DEF Read, NewRange
  <2> QED
    BY <2>1, <2>3, <2>4 DEF WindowsOK, DataSource
<1>5. WalkInv'
  BY <1>2, <1>3, <1>4 DEF WalkInv, Running, InLoopBody
<1>6. Whole!Begin
  BY <1>2, <1>3 DEF Whole!Begin, InLoopBody
<1> QED
  BY <1>5, <1>6

LEMMA FinishRunWalk == Inv /\ WalkInv /\ FinishRun => WalkInv' /\ Whole!Finish
BY DEF WalkInv, FinishRun, Running, InLoopBody, cursor, verdict, Whole!Finish

LEMMA FindMarkerWalk ==
    Inv /\ WalkInv /\ FindMarker => WalkInv' /\ [Whole!NextInPairs]_(Whole!vars)
<1> SUFFICES ASSUME Inv, WalkInv, FindMarker
             PROVE  WalkInv' /\ [Whole!NextInPairs]_(Whole!vars)
  OBVIOUS
<1>1. PICK loc : /\ loc \in location .. current.end - 1
                 /\ FoundAt(current, location, kStart, loc)
                 /\ begin' = loc
  BY DEF FindMarker
<1>2. /\ pc = "loop" /\ pc' = "type" /\ ~done /\ ~error
      /\ marker' = 0 /\ payload' = 0
      /\ UNCHANGED <<data, source, current, next, location, interesting,
                     done, error, reported, segments, runs>>
  BY DEF FindMarker, windows, verdict
<1>3. /\ current.begin \in Nat /\ current.end \in Nat /\ Limit \in Nat
      /\ current.end <= Limit /\ location \in Nat
  BY <1>2 DEF Inv, TypeOK, Running, WindowsOK, DataRange, DataSource, Limit
<1>4. /\ loc \in Nat /\ location <= loc /\ loc < Limit /\ data[loc] = kStart
      /\ \A earlier \in location .. loc - 1 : data[earlier] # kStart
  BY <1>1, <1>3 DEF FoundAt
<1>5. WalkInv'
  BY <1>1, <1>2, <1>4 DEF WalkInv, Running, InLoopBody, Limit
<1>6. CASE loc = location
  <2>1. UNCHANGED Whole!vars
    BY <1>1, <1>2, <1>6 DEF Whole!vars, InLoopBody
  <2> QED
    BY <1>5, <2>1
<1>7. CASE loc # location
  <2>1. Smaller(loc, Limit) = loc /\ loc > location
    BY <1>3, <1>4, <1>7 DEF Smaller
  <2>2. Whole!NoStartIn(location, Smaller(loc, Limit) - 1)
    BY <1>4, <2>1 DEF Whole!NoStartIn, Whole!IsStart, Whole!kStart, kStart
  <2>3. Whole!Skip
    BY <1>1, <1>2, <1>4, <2>1, <2>2
       DEF Whole!Skip, Whole!Searching, Whole!Smaller, Smaller, InLoopBody, Limit
  <2> QED
    BY <1>5, <2>3 DEF Whole!NextInPairs, Whole!Next
<1> QED
  BY <1>6, <1>7

LEMMA NextWindowWalk ==
    Inv /\ WalkInv /\ NextWindow => WalkInv' /\ [Whole!NextInPairs]_(Whole!vars)
<1> SUFFICES ASSUME Inv, WalkInv, NextWindow
             PROVE  WalkInv' /\ [Whole!NextInPairs]_(Whole!vars)
  OBVIOUS
<1> DEFINE got == GetNextSegment
<1>1. /\ WindowsOK(got.source, current, got.segment)
      /\ got.source.extent = source.extent
      /\ got.segment = NoSegment => current.end = Limit
  BY NextWindowOK DEF Inv, NextWindow, Running, Limit
<1>2. /\ pc = "loop" /\ pc' = "loop" /\ ~done /\ ~error
      /\ NotFound(current, location, kStart)
      /\ source' = got.source
      /\ got.segment # NoSegment =>
            /\ location' = Larger(location, got.segment.begin)
            /\ current' = got.segment
            /\ done' = done
      /\ got.segment = NoSegment =>
            done' = TRUE /\ location' = location /\ current' = current
      /\ UNCHANGED <<data, begin, marker, payload, interesting, error, reported,
                     segments, runs>>
  BY DEF NextWindow
<1> HIDE DEF got
<1>3. /\ current.begin \in Nat /\ current.end \in Nat /\ Limit \in Nat
      /\ current.end <= Limit /\ location \in Nat /\ current.begin <= location
  BY <1>2 DEF Inv, TypeOK, Running, WindowsOK, DataRange, DataSource, Limit, WalkInv
<1>4. Whole!NoStartIn(location, current.end - 1)
  BY <1>2, <1>3 DEF NotFound, ContainsLocation, Whole!NoStartIn, Whole!IsStart,
                    Whole!kStart, kStart
<1>5. CASE got.segment = NoSegment
  <2>1. WalkInv'
    BY <1>1, <1>2, <1>3, <1>5 DEF WalkInv, Running, InLoopBody, Limit
  <2>2. Whole!Stop
    BY <1>1, <1>2, <1>4, <1>5
       DEF Whole!Stop, Whole!Searching, InLoopBody, Limit
  <2> QED
    BY <2>1, <2>2 DEF Whole!NextInPairs, Whole!Next
<1>6. CASE got.segment # NoSegment
  <2>1. got.segment.begin = current.end
    BY <1>1, <1>6 DEF WindowsOK
  <2>2. location' = Larger(location, current.end)
    BY <1>2, <1>6, <2>1
  <2>3. current'.begin <= location'
    BY <1>2, <1>3, <1>6, <2>1, <2>2 DEF Larger
  <2>4. WalkInv'
    BY <1>1, <1>2, <1>6, <2>3 DEF WalkInv, Running, InLoopBody, Limit
  <2>5. CASE current.end <= location
    <3>1. location' = location
      BY <1>3, <2>2, <2>5 DEF Larger
    <3>2. UNCHANGED Whole!vars
      BY <1>1, <1>2, <1>6, <3>1 DEF Whole!vars, InLoopBody
    <3> QED
      BY <2>4, <3>2
  <2>6. CASE ~(current.end <= location)
    <3>1. location' = current.end /\ location' > location /\ location' \in Nat
      BY <1>3, <2>2, <2>6 DEF Larger
    <3>2. Smaller(location', Limit) = current.end
      BY <1>3, <3>1 DEF Smaller
    <3>3. Whole!Skip
      BY <1>1, <1>2, <1>4, <1>6, <3>1, <3>2
         DEF Whole!Skip, Whole!Searching, Whole!Smaller, Smaller, InLoopBody, Limit
    <3> QED
      BY <2>4, <3>3 DEF Whole!NextInPairs, Whole!Next
  <2> QED
    BY <2>5, <2>6
<1> QED
  BY <1>5, <1>6

\* Reading the type: the array ends here, or the type is known.
LEMMA ReadTypeWalk ==
    Inv /\ WalkInv /\ ReadType => WalkInv' /\ [Whole!NextInPairs]_(Whole!vars)
<1> SUFFICES ASSUME Inv, WalkInv, ReadType
             PROVE  WalkInv' /\ [Whole!NextInPairs]_(Whole!vars)
  OBVIOUS
<1> DEFINE loc == begin + kTypeOffset
<1>1. /\ pc = "type" /\ GetBytes({loc}) /\ marker' = ByteAt(next', loc)
      /\ UNCHANGED <<data, begin, payload, interesting, done, segments, runs>>
  BY DEF ReadType
<1>2. /\ WindowsOK(source, current, next) /\ ContainsLocation(current, begin)
      /\ begin \in Nat /\ W \in Nat /\ W >= 4 /\ error \in BOOLEAN
      /\ ~error /\ ~done /\ payload = 0
      /\ begin < Limit /\ data[begin] = kStart
  BY <1>1, WindowSize DEF Inv, Running, InLoopBody, TypeOK, WalkInv
<1>3. /\ loc \in Nat /\ current.begin <= loc /\ loc < current.end + W /\ loc = begin + 1
      /\ current.begin \in Nat /\ Limit \in Nat
  BY <1>2 DEF WindowsOK, DataRange, DataSource, ContainsLocation, kTypeOffset, Limit
<1>4. \A l \in {loc} : current.begin <= l /\ l < current.end + W
  BY <1>3
<1>5. /\ source'.extent = source.extent
      /\ current' = current
      /\ error' \in BOOLEAN
      /\ error' => loc >= Limit
      /\ ~error' => loc < Limit /\ marker' = data[loc]
  <2> HIDE DEF loc
  <2> QED
    BY <1>1, <1>2, <1>3, <1>4, GetBytesOfArray DEF InLoopBody
<1>6. Whole!AtStart
  BY <1>1, <1>2 DEF Whole!AtStart, Whole!Searching, Whole!Has, Whole!IsStart,
                    Whole!kStart, kStart, InLoopBody, Limit
<1>7. (Whole!HasType <=> loc < Limit) /\ Whole!Type = data[loc]
  BY <1>1 DEF Whole!HasType, Whole!Has, Whole!Type, Whole!kTypeOffset, kTypeOffset,
              InLoopBody, Limit
<1>8. begin + kLength + 0 >= current.begin /\ begin + kLength + 0 = begin + 2
  BY <1>2, <1>3 DEF ContainsLocation, kLength
<1>9. CASE error'
  <2>1. pc' = "loop"
    BY <1>9 DEF ReadType, Advance
  <2>2. WalkInv'
    BY <1>1, <1>5, <1>9, <2>1 DEF WalkInv, Running, InLoopBody, Limit
  <2>3. ~Whole!HasType
    BY <1>3, <1>5, <1>7, <1>9
  <2>4. Whole!Truncated
    BY <1>1, <1>5, <1>6, <1>9, <2>1, <2>3 DEF Whole!Truncated, InLoopBody
  <2> QED
    BY <2>2, <2>4 DEF Whole!NextInPairs, Whole!Next
<1>10. CASE ~error'
  <2>1. marker' = Whole!Type /\ Whole!HasType /\ loc < Limit /\ marker' = data[loc]
    BY <1>5, <1>7, <1>10
  <2>2. pc' \in InLoopBody => Whole!HasType' /\ Whole!Type' = Whole!Type
    BY <1>1, <1>5, <1>7, <1>10, <2>1
       DEF Whole!HasType, Whole!Has, Whole!Type, InLoopBody, Limit
  <2>3. CASE /\ IsValidMarker(marker')
             /\ HasVariablePayloadSize(marker') \/ marker' \in interesting
    <3>1. /\ pc' = IF HasVariablePayloadSize(marker') THEN "size" ELSE "extent"
          /\ location' = location
      BY <1>10, <2>3 DEF ReadType, GoOn
    <3>2. UNCHANGED Whole!vars
      BY <1>1, <1>2, <1>5, <1>10, <3>1 DEF Whole!vars, InLoopBody
    <3>3. pc' \in InLoopBody /\ pc' \in {"size", "extent"}
      BY <3>1 DEF InLoopBody
    <3>4. KnowsMarker'
      BY <2>1, <2>2, <2>3, <3>3 DEF KnowsMarker
    <3>5. pc' = "extent" => KnowsExtent'
      <4> SUFFICES ASSUME pc' = "extent" PROVE KnowsExtent'
        OBVIOUS
      <4>1. ~HasVariablePayloadSize(marker')
        BY <3>1
      <4>2. ~Whole!NeedsSize'
        BY <2>1, <2>2, <3>3, <4>1 DEF Whole!NeedsSize, Whole!HasVariablePayloadSize,
           HasVariablePayloadSize, Whole!IsValidMarker, IsValidMarker, Whole!kZERO,
           kZERO, Whole!kFILL, kFILL
      <4>3. Whole!HasSize' /\ Whole!Payload' = 0
        BY <4>2 DEF Whole!HasSize, Whole!Payload
      <4>4. marker' \in interesting'
        BY <1>1, <2>3, <4>1
      <4> QED
        BY <1>1, <1>2, <3>4, <4>3, <4>4 DEF KnowsExtent
    <3>6. pc' = "size" => HasVariablePayloadSize(marker')
      BY <3>1
    <3>7. current'.begin <= location' \/ error'
      BY <1>1, <1>5, <3>1 DEF WalkInv, Running, InLoopBody
    <3>8. WalkInv'
      BY <1>1, <1>2, <1>5, <1>10, <3>3, <3>4, <3>5, <3>6, <3>7
         DEF WalkInv, Running, InLoopBody, Limit
    <3> QED
      BY <3>2, <3>8
  <2>4. CASE ~ /\ IsValidMarker(marker')
               /\ HasVariablePayloadSize(marker') \/ marker' \in interesting
    <3>1. pc' = "loop" /\ location' = begin + 2
      BY <1>8, <1>10, <2>4 DEF ReadType, Advance
    <3>2. WalkInv'
      BY <1>1, <1>5, <1>8, <3>1 DEF WalkInv, Running, InLoopBody, Limit
    <3>3. ~HasVariablePayloadSize(marker')
      BY <2>4 DEF HasVariablePayloadSize
    <3>4. ~Whole!NeedsSize /\ ~Whole!Wanted
      BY <2>1, <2>4, <3>3 DEF Whole!NeedsSize, Whole!Wanted, Whole!HasVariablePayloadSize,
         HasVariablePayloadSize, Whole!IsValidMarker, IsValidMarker, Whole!kZERO, kZERO,
         Whole!kFILL, kFILL
    <3>5. Whole!End = begin + 2
      BY <1>1, <1>2, <3>4 DEF Whole!End, Whole!Payload, Whole!kLength, InLoopBody
    <3>6. CASE Whole!Type = Whole!kFILL
      <4>1. Whole!PassFillPair
        BY <1>1, <1>2, <1>5, <1>6, <1>10, <2>1, <3>1, <3>6
           DEF Whole!PassFillPair, Whole!kLength, InLoopBody
      <4> QED
        BY <3>2, <4>1 DEF Whole!NextInPairs
    <3>7. CASE Whole!Type # Whole!kFILL
      <4>1. Whole!PassOver
        BY <1>1, <1>2, <1>5, <1>6, <1>10, <2>1, <3>1, <3>4, <3>5, <3>7
           DEF Whole!PassOver, Whole!HasSize, InLoopBody
      <4> QED
        BY <3>2, <4>1 DEF Whole!NextInPairs, Whole!Next
    <3> QED
      BY <3>6, <3>7
  <2> QED
    BY <2>3, <2>4
<1> QED
  BY <1>5, <1>9, <1>10

LEMMA ReadPayloadSizeWalk ==
    Inv /\ WalkInv /\ ReadPayloadSize => WalkInv' /\ [Whole!NextInPairs]_(Whole!vars)
<1> SUFFICES ASSUME Inv, WalkInv, ReadPayloadSize
             PROVE  WalkInv' /\ [Whole!NextInPairs]_(Whole!vars)
  OBVIOUS
<1> DEFINE high == begin + kLength
           low  == begin + kLength + 1
<1>1. /\ pc = "size" /\ GetBytes({high, low})
      /\ payload' = PayloadSize(ByteAt(next', high), ByteAt(next', low))
      /\ UNCHANGED <<data, begin, marker, interesting, done, segments, runs>>
  BY DEF ReadPayloadSize
<1>2. /\ WindowsOK(source, current, next) /\ ContainsLocation(current, begin)
      /\ begin \in Nat /\ W \in Nat /\ W >= 4 /\ error \in BOOLEAN
      /\ ~error /\ ~done
      /\ begin < Limit /\ data[begin] = kStart
      /\ KnowsMarker /\ HasVariablePayloadSize(marker)
  BY <1>1, WindowSize DEF Inv, Running, InLoopBody, TypeOK, WalkInv
<1>3. /\ high \in Nat /\ current.begin <= high /\ high < current.end + W
      /\ low \in Nat /\ current.begin <= low /\ low < current.end + W
      /\ high = begin + 2 /\ low = begin + 3
      /\ current.begin \in Nat /\ Limit \in Nat
  BY <1>2 DEF WindowsOK, DataRange, DataSource, ContainsLocation, kLength, Limit
<1>4. /\ {high, low} \in SUBSET Nat
      /\ \A l \in {high, low} : current.begin <= l /\ l < current.end + W
  BY <1>3
<1>5. /\ source'.extent = source.extent
      /\ current' = current
      /\ error' \in BOOLEAN
      /\ error' => low >= Limit
      /\ ~error' => /\ high < Limit /\ low < Limit
                   /\ payload' = PayloadSize(data[high], data[low])
  <2> HIDE DEF high, low
  <2>1. /\ source'.extent = source.extent
        /\ current' = current
        /\ error' \in BOOLEAN
        /\ error' => \E l \in {high, low} : l >= Limit
        /\ ~error' => \A l \in {high, low} : l < Limit /\ ByteAt(next', l) = data[l]
    BY <1>1, <1>2, <1>4, GetBytesOfArray DEF InLoopBody
  <2>2. ~error' => payload' = PayloadSize(data[high], data[low])
    BY <1>1, <2>1
  <2>3. high \in Nat /\ low \in Nat /\ Limit \in Nat /\ high <= low
    BY <1>2, <1>3
  <2>4. error' => low >= Limit
    <3> SUFFICES ASSUME error' PROVE low >= Limit
      OBVIOUS
    <3>1. high >= Limit \/ low >= Limit
      BY <2>1
    <3> QED
      BY <2>3, <3>1
  <2> QED
    BY <2>1, <2>2, <2>4
<1>6. Whole!AtStart /\ Whole!NeedsSize /\ Whole!HasType
  BY <1>1, <1>2 DEF Whole!AtStart, Whole!Searching, Whole!Has, Whole!IsStart,
     Whole!kStart, kStart, InLoopBody, Limit, KnowsMarker, Whole!NeedsSize,
     Whole!HasVariablePayloadSize, HasVariablePayloadSize, Whole!IsValidMarker,
     IsValidMarker, Whole!kZERO, kZERO, Whole!kFILL, kFILL
<1>7. /\ Whole!HasSize <=> low < Limit
      /\ Whole!Payload = PayloadSize(data[high], data[low])
  BY <1>1, <1>6 DEF Whole!HasSize, Whole!Has, Whole!Payload, Whole!PayloadSize,
     PayloadSize, Whole!kLength, kLength, InLoopBody, Limit
<1>8. payload' \in Nat
  BY ReadPayloadSizeInv, WindowSize DEF Inv, TypeOK, W
<1>9. begin + kLength + payload' >= current.begin
  BY <1>2, <1>3, <1>8 DEF ContainsLocation, kLength
<1> HIDE DEF high, low
<1>10. CASE error'
  <2>1. pc' \in {"loop", "extent"}
    BY DEF ReadPayloadSize, Advance, GoOn
  <2>2. WalkInv'
    BY <1>1, <1>2, <1>5, <1>10, <2>1 DEF WalkInv, Running, InLoopBody, Limit
  <2>3. Whole!Truncated
    BY <1>1, <1>3, <1>5, <1>6, <1>7, <1>10, <2>1 DEF Whole!Truncated, InLoopBody
  <2> QED
    BY <2>2, <2>3 DEF Whole!NextInPairs, Whole!Next
<1>11. CASE ~error' /\ marker \in interesting
  <2>1. pc' = "extent" /\ location' = location
    BY <1>11 DEF ReadPayloadSize, GoOn
  <2>2. UNCHANGED Whole!vars
    BY <1>1, <1>2, <1>5, <1>11, <2>1 DEF Whole!vars, InLoopBody
  <2>3. /\ Whole!HasType' /\ Whole!Type' = Whole!Type
        /\ Whole!HasSize' /\ Whole!Payload' = Whole!Payload
    <3>1. Whole!HasSize /\ Whole!HasType
      BY <1>5, <1>6, <1>7, <1>11
    <3> QED
      BY <2>2, <3>1 DEF Whole!vars, Whole!HasType, Whole!Has, Whole!Type,
         Whole!HasSize, Whole!NeedsSize, Whole!Payload
  <2>4. KnowsMarker'
    BY <1>1, <1>2, <2>3 DEF KnowsMarker
  <2>5. KnowsExtent'
    BY <1>1, <1>5, <1>7, <1>11, <2>3, <2>4 DEF KnowsExtent
  <2>6. current'.begin <= location' \/ error'
    BY <1>1, <1>2, <1>5, <2>1 DEF WalkInv, Running, InLoopBody
  <2>7. WalkInv'
    BY <1>1, <1>2, <1>5, <1>11, <2>1, <2>5, <2>6 DEF WalkInv, Running, InLoopBody, Limit
  <2> QED
    BY <2>2, <2>7
<1>12. CASE ~error' /\ marker \notin interesting
  <2>1. pc' = "loop" /\ location' = begin + kLength + payload'
    BY <1>12 DEF ReadPayloadSize, Advance
  <2>2. WalkInv'
    BY <1>1, <1>5, <1>9, <2>1 DEF WalkInv, Running, InLoopBody, Limit
  <2>3. ~Whole!Wanted
    BY <1>2, <1>12 DEF Whole!Wanted, KnowsMarker
  <2>4. location' = Whole!End
    BY <1>1, <1>5, <1>7, <1>12, <2>1 DEF Whole!End, Whole!kLength, kLength, InLoopBody
  <2>5. Whole!Type # Whole!kFILL
    BY <1>2 DEF KnowsMarker, IsValidMarker, Whole!kFILL, kFILL
  <2>6. Whole!PassOver
    BY <1>1, <1>2, <1>5, <1>6, <1>7, <1>12, <2>1, <2>3, <2>4, <2>5
       DEF Whole!PassOver, InLoopBody
  <2> QED
    BY <2>2, <2>6 DEF Whole!NextInPairs, Whole!Next
<1> QED
  BY <1>10, <1>11, <1>12

LEMMA ReadExtentWalk ==
    Inv /\ WalkInv /\ ReadExtent => WalkInv' /\ [Whole!NextInPairs]_(Whole!vars)
<1> SUFFICES ASSUME Inv, WalkInv, ReadExtent
             PROVE  WalkInv' /\ [Whole!NextInPairs]_(Whole!vars)
  OBVIOUS
<1> DEFINE last == SegmentEnd - 1
<1>1. /\ pc = "extent" /\ GetBytes({last})
      /\ UNCHANGED <<data, begin, marker, payload, interesting, done, segments, runs>>
  BY DEF ReadExtent
<1>2. /\ WindowsOK(source, current, next) /\ ContainsLocation(current, begin)
      /\ begin \in Nat /\ W \in Nat /\ payload \in 0 .. W - 1 /\ error \in BOOLEAN
      /\ ~done /\ begin < Limit /\ data[begin] = kStart
      /\ ~error => KnowsExtent
  BY <1>1, WindowSize DEF Inv, Running, InLoopBody, TypeOK, WalkInv, W
<1>3. /\ last \in Nat /\ current.begin <= last /\ last < current.end + W
      /\ current.begin \in Nat /\ Limit \in Nat /\ payload \in Nat
      /\ SegmentEnd = begin + 2 + payload
  BY <1>2 DEF WindowsOK, DataRange, DataSource, ContainsLocation, kLength, Limit,
              SegmentEnd
<1>4. \A l \in {last} : current.begin <= l /\ l < current.end + W
  BY <1>3
<1>5. SegmentEnd' = SegmentEnd
  BY <1>1 DEF SegmentEnd
<1>6. begin + kLength + payload >= current.begin
  BY <1>2, <1>3 DEF ContainsLocation, kLength
<1>7. /\ source'.extent = source.extent
      /\ current' = current
      /\ error' \in BOOLEAN
      /\ error => error'
      /\ error' /\ ~error => last >= Limit
      /\ ~error' => last < Limit
  <2> HIDE DEF last
  <2> QED
    BY <1>1, <1>2, <1>3, <1>4, GetBytesOfArray DEF InLoopBody
<1>8. CASE error'
  <2>1. pc' = "loop" /\ location' = begin + kLength + payload
    BY <1>8 DEF ReadExtent, Advance
  <2>2. WalkInv'
    BY <1>1, <1>7, <1>8, <2>1 DEF WalkInv, Running, InLoopBody, Limit
  <2>3. CASE error
    <3>1. UNCHANGED Whole!vars
      BY <1>1, <1>7, <1>8, <2>1, <2>3 DEF Whole!vars, InLoopBody
    <3> QED
      BY <2>2, <3>1
  <2>4. CASE ~error
    <3>1. Whole!AtStart
      BY <1>1, <1>2, <2>4 DEF Whole!AtStart, Whole!Searching, Whole!Has,
         Whole!IsStart, Whole!kStart, kStart, InLoopBody, Limit
    <3>2. Whole!Wanted
      BY <1>2, <2>4 DEF KnowsExtent, KnowsMarker, Whole!Wanted, Whole!IsValidMarker,
         IsValidMarker, Whole!kZERO, kZERO, Whole!kFILL, kFILL
    <3>3. Whole!End = SegmentEnd
      BY <1>1, <1>2, <2>4 DEF KnowsExtent, Whole!End, Whole!kLength, kLength,
         SegmentEnd, InLoopBody
    <3>4. ~Whole!Has(Whole!End - 1)
      BY <1>3, <1>7, <1>8, <2>4, <3>3 DEF Whole!Has, Limit
    <3>5. Whole!Truncated
      BY <1>1, <1>7, <1>8, <2>1, <2>4, <3>1, <3>2, <3>4 DEF Whole!Truncated, InLoopBody
    <3> QED
      BY <2>2, <3>5 DEF Whole!NextInPairs, Whole!Next
  <2> QED
    BY <2>3, <2>4
<1>9. CASE ~error'
  <2>1. pc' = "process" /\ location' = location /\ ~error
    BY <1>7, <1>9 DEF ReadExtent, GoOn
  <2>2. UNCHANGED Whole!vars
    <3>1. error' = error
      BY <1>2, <1>7, <1>9, <2>1
    <3> QED
      BY <1>1, <1>7, <2>1, <3>1 DEF Whole!vars, InLoopBody
  <2>3. KnowsExtent'
    <3>1. KnowsExtent
      BY <1>2, <2>1
    <3> QED
      BY <1>1, <2>2, <3>1 DEF KnowsExtent, KnowsMarker, Whole!vars, Whole!HasType,
         Whole!Has, Whole!Type, Whole!HasSize, Whole!NeedsSize, Whole!Payload
  <2>4. current'.begin <= location' \/ error'
    BY <1>1, <1>7, <2>1 DEF WalkInv, Running, InLoopBody
  <2>5. WalkInv'
    BY <1>1, <1>2, <1>5, <1>7, <1>9, <2>1, <2>3, <2>4
       DEF WalkInv, Running, InLoopBody, Limit
  <2> QED
    BY <2>2, <2>5
<1> QED
  BY <1>7, <1>8, <1>9

LEMMA ProcessWalk ==
    Inv /\ WalkInv /\ Process => WalkInv' /\ [Whole!NextInPairs]_(Whole!vars)
<1> SUFFICES ASSUME Inv, WalkInv, Process
             PROVE  WalkInv' /\ Whole!Deliver
  BY DEF Whole!NextInPairs, Whole!Next
<1>1. /\ pc = "process" /\ pc' = "loop"
      /\ segments' = Append(segments, NewRange(begin, SegmentEnd))
      /\ done' \in BOOLEAN /\ interesting' \in Interests
      /\ location' = begin + kLength + payload
      /\ UNCHANGED <<data, source, current, next, begin, marker, payload, error,
                     reported, runs>>
  BY DEF Process, Advance, windows
<1>2. /\ WindowsOK(source, current, next) /\ ContainsLocation(current, begin)
      /\ begin \in Nat /\ payload \in Nat /\ W \in Nat
      /\ ~error /\ ~done
      /\ begin < Limit /\ data[begin] = kStart
      /\ KnowsExtent /\ SegmentEnd - 1 < Limit
  BY <1>1, WindowSize DEF Inv, Running, InLoopBody, TypeOK, WalkInv, W
<1>3. begin + kLength + payload >= current.begin
  BY <1>2 DEF ContainsLocation, kLength, WindowsOK, DataRange
<1>4. WalkInv'
  BY <1>1, <1>3 DEF WalkInv, Running, InLoopBody
<1>5. Whole!AtStart
  BY <1>1, <1>2 DEF Whole!AtStart, Whole!Searching, Whole!Has, Whole!IsStart,
     Whole!kStart, kStart, InLoopBody, Limit
<1>6. Whole!HasType /\ Whole!HasSize /\ Whole!Wanted
  BY <1>2 DEF KnowsExtent, KnowsMarker, Whole!Wanted, Whole!IsValidMarker,
     IsValidMarker, Whole!kZERO, kZERO, Whole!kFILL, kFILL
<1>7. Whole!End = SegmentEnd
  BY <1>1, <1>2 DEF KnowsExtent, Whole!End, Whole!kLength, kLength, SegmentEnd,
     InLoopBody
<1>8. Whole!Has(Whole!End - 1)
  BY <1>2, <1>7 DEF Whole!Has, Limit
<1>9. location' = SegmentEnd
  BY <1>1 DEF SegmentEnd
<1>10. segments' = Append(segments, Whole!NewRange(begin, SegmentEnd))
  BY <1>1 DEF NewRange, Whole!NewRange
<1>11. Whole!Deliver
  BY <1>1, <1>2, <1>5, <1>6, <1>7, <1>8, <1>9, <1>10 DEF Whole!Deliver, InLoopBody
<1> QED
  BY <1>4, <1>11

LEMMA UseSourceWalk ==
    Inv /\ WalkInv /\ UseSource => WalkInv' /\ UNCHANGED Whole!vars
<1> SUFFICES ASSUME Inv, WalkInv, UseSource
             PROVE  WalkInv' /\ UNCHANGED Whole!vars
  OBVIOUS
<1>1. /\ pc = "idle" /\ pc' = "idle"
      /\ UNCHANGED <<data, location, begin, interesting, done, error, segments>>
  BY DEF UseSource, cursor, verdict
<1>2. source'.extent = source.extent
  <2>1. source \in DataSource
    BY DEF Inv, TypeOK
  <2> QED
    BY <2>1 DEF UseSource, GetDataSegment, GetFromMemory, GetFromStream, DataSource
<1> QED
  BY <1>1, <1>2 DEF WalkInv, Running, InLoopBody, Whole!vars

(***************************************************************************)
(* Which segments are delivered, in which order, and how the scan ends is  *)
(* what a walk over the whole array gives, wherever the windows fall.      *)
(***************************************************************************)
THEOREM Refinement == FromFirstByte /\ Spec => ImplementsSegmentation
<1>1. Inv /\ WalkInv /\ [Next]_vars => WalkInv' /\ [Whole!NextInPairs]_(Whole!vars)
  <2> SUFFICES ASSUME Inv, WalkInv, [Next]_vars
               PROVE  WalkInv' /\ [Whole!NextInPairs]_(Whole!vars)
    OBVIOUS
  <2>1. CASE Run
    BY <2>1, RunWalk DEF Whole!NextInPairs, Whole!Next
  <2>2. CASE FinishRun
    BY <2>2, FinishRunWalk DEF Whole!NextInPairs, Whole!Next
  <2>3. CASE UseSource
    BY <2>3, UseSourceWalk
  <2>4. CASE UNCHANGED vars
    BY <2>4 DEF vars, windows, cursor, verdict, WalkInv, Running, InLoopBody, Limit,
       KnowsMarker, KnowsExtent, SegmentEnd, Whole!vars, Whole!HasType, Whole!Has,
       Whole!Type, Whole!HasSize, Whole!NeedsSize, Whole!Payload
  <2> QED
    BY <2>1, <2>2, <2>3, <2>4, FindMarkerWalk, NextWindowWalk, ReadTypeWalk,
       ReadPayloadSizeWalk, ReadExtentWalk, ProcessWalk DEF Next, ScannerStep
<1>2. FromFirstByte /\ Init => WalkInv /\ Whole!Init
  BY InitWalk
<1> QED
  BY <1>1, <1>2, Invariance, PTL DEF Spec, ImplementsSegmentation, Whole!SpecInPairs
=============================================================================
