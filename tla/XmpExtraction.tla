--------------------------- MODULE XmpExtraction ---------------------------
(***************************************************************************)
(* JpegImageExtractor::ExtractImage for GDepth and GImage data: the        *)
(* DataSource transfers the segments listed in the JpegInfo, one after the *)
(* other, to a JpegXmpDataExtractor, which takes the header and what is    *)
(* not part of the property's value away and transfers the rest to a       *)
(* Base64DecoderDataDestination, and that to the caller's destination.     *)
(* The ranges are those a JpegXmpInfoBuilder collects from the same file.  *)
(*                                                                         *)
(* A source transfers a range in one piece, out of a larger segment, if it *)
(* has such a segment in memory (a DataSegmentDataSource always, a stream  *)
(* if its cached segment is large enough), and else in chunks.  It may end *)
(* anywhere, before a segment or in one: a file that was cut after it was  *)
(* scanned, or could not be opened, or too small a piece of memory.        *)
(***************************************************************************)
EXTENDS JpegSegments, Base64Decoder

CONSTANTS Files,          \* files: the texts of their extensions, in a sequence
          Type,           \* the xmp_info_type to extract
          BestDataSize    \* kBestDataSize: 0x10000, a byte less than the largest segment

ASSUME FilesAssumption == Files \subseteq [texts : Seq(Seq(Char)), rest : Seq(Char)]

ASSUME TypeAssumption == Type \in XmpTypes

\* A segment's size takes two bytes: with its marker it has 0x10001 bytes at most.
ASSUME BestDataSizeAssumption ==
    /\ BestDataSize \in Nat \ {0}
    /\ \A f \in Files : \A n \in 1 .. Len(f.texts) :
          HeaderLength + Len(f.texts[n]) <= BestDataSize + 1

VARIABLES
    file,        \* the extensions of the primary image, and what follows them
    contents,    \* the bytes of the file
    extensions,  \* where the extensions are
    info,        \* jpeg_info_: what the JpegXmpInfoBuilder made of the file
    truth,       \* history: the value as the file has it, if it ends
    kind,        \* the source: "istream" or "memory"
    extent,      \* the part of the file that the source has or can read
    window,      \* the part of the file that the source has in memory
    index,       \* segment_index_ of the extractor, from 1
    chunk,       \* where the next chunk of that segment begins
    failed,      \* has_errors
    result       \* "extracted" or "failed", as ExtractImage returned; "none" so far

decoder   == <<received, leftover, sent, location, has_error, status, answers>>
extractor == <<index, chunk>>
input     == <<file, contents, extensions, info, truth>>
source    == <<kind, extent, window>>
allvars   == <<input, source, extractor, failed, result, phase, decoder>>

\* A byte of a header: none is looked at.
Header == "header"

SegmentsOf(texts) ==
    [n \in 1 .. Len(texts) |-> [k \in 1 .. HeaderLength |-> Header] \o texts[n]]

LengthBefore(seqs, n) == Len(FlattenSeq(SubSeq(seqs, 1, n - 1)))

RangesOf(segments) ==
    [n \in 1 .. Len(segments) |->
        NewRange(LengthBefore(segments, n), LengthBefore(segments, n + 1))]

SymbolAt(loc) == contents[loc + 1]

InfoOf(texts, ranges) ==
    FoldLeft(LAMBDA builder, n : ProcessSegment(builder, Type, ranges[n], texts[n]),
             NewXmpInfoBuilder, [n \in 1 .. Len(texts) |-> n])

data_ranges == info.ranges

(***************************************************************************)
(* The value, read off the texts of all extensions in one: what is between *)
(* the first name=" and the next quote.                                    *)
(***************************************************************************)
ValueIn(joined) ==
    LET opened == {k \in 1 .. Len(joined) - 1 : joined[k] = Type /\ joined[k + 1] = Quote}
        closed == {k \in 1 .. Len(joined) :
                      joined[k] = Quote /\ opened # {} /\ k > Min(opened) + 1}
    IN  IF closed = {} THEN <<>> ELSE SubSeq(joined, Min(opened) + 2, Min(closed) - 1)

NamedOnce(joined) ==
    \A i, k \in 1 .. Len(joined) : joined[i] = Type /\ joined[k] = Type => i = k

\* An XML element has an attribute once: what a file with more says is left open.
TruthOf(joined) ==
    [ends  |-> IsValid(info.property_end) /\ NamedOnce(joined),
     value |-> ValueIn(joined)]

HasImage == data_ranges # <<>>

ExtractionTypeOK ==
    /\ TypeOK
    /\ extensions \in Seq(DataRange) /\ info \in XmpInfoBuilder
    /\ kind \in {"istream", "memory"}
    /\ extent \in DataRange /\ window \in DataRange
    /\ index \in 1 .. Len(data_ranges) + 1
    /\ index <= Len(data_ranges) => chunk \in data_ranges[index].begin .. data_ranges[index].end
    /\ failed \in BOOLEAN
    /\ result \in {"none", "extracted", "failed"}

FirstChunk(ranges, n) == IF n \in 1 .. Len(ranges) THEN ranges[n].begin ELSE 0

\* What a stream may have cached when the extraction begins: nothing, the whole file,
\* or one end of it.  It may have read that before the file was cut.
Windows ==
    {InvalidRange, NewRange(0, Len(contents))} \cup
    {NewRange(0, range.end) : range \in ToSet(data_ranges)} \cup
    {NewRange(range.begin, Len(contents)) : range \in ToSet(data_ranges)}

ExtractionInit ==
    /\ Init
    /\ file \in Files
    /\ contents = FlattenSeq(SegmentsOf(file.texts)) \o file.rest
    /\ extensions = RangesOf(SegmentsOf(file.texts))
    /\ info = InfoOf(file.texts, extensions)
    /\ truth = TruthOf(FlattenSeq(file.texts))
    /\ extent \in {NewRange(0, n) : n \in 0 .. Len(contents)}
    /\ \/ kind = "memory" /\ window = extent
       \/ kind = "istream" /\ window \in Windows
    /\ index = 1
    /\ chunk = FirstChunk(data_ranges, 1)
    /\ failed = FALSE
    /\ result = "none"

\* DataSegment::Find, for a byte and for a string.
FindIn(segment, start, symbol) ==
    Min({segment.end} \cup
        {loc \in start .. segment.end - 1 :
            ContainsLocation(segment, start) /\ SymbolAt(loc) = symbol})

(***************************************************************************)
(* JpegXmpDataExtractor::Transfer: where the value begins and ends in the  *)
(* range.  "Not found" is the end of the segment, but the code compares    *)
(* with the end of the range.                                              *)
(***************************************************************************)
EncodedBegin(range) == range.begin + HeaderLength

\* Mutant: the quote that opens the value is taken for a part of it.
ValueFromQuote(range, segment) ==
    IF index > 1 THEN EncodedBegin(range)
    ELSE LET name  == FindIn(segment, EncodedBegin(range), Type)
             quote == FindIn(segment, name, Quote)
         IN  IF name # range.end /\ quote # range.end THEN quote ELSE EncodedBegin(range)

ValueBegin(range, segment) ==
    IF index > 1 THEN EncodedBegin(range)
    ELSE LET name  == FindIn(segment, EncodedBegin(range), Type)
             quote == FindIn(segment, name, Quote)
         IN  IF name # range.end /\ quote # range.end
             THEN quote + 1
             ELSE EncodedBegin(range)

\* Mutant: last_segment_index_ is the number of segments.
IsPastLast == index = Len(data_ranges) + 1

IsLast == index = Len(data_ranges)

ValueEnd(range, segment) ==
    IF IsLast THEN FindIn(segment, ValueBegin(range, segment), Quote) ELSE range.end

ValueNotFound(range, segment) ==
    \/ index = 1 /\ ValueBegin(range, segment) = EncodedBegin(range)
    \/ IsLast /\ ValueEnd(range, segment) = range.end

\* The bytes that GetBuffer finds for the value; none if it is not in the segment.
ValuePiece(range, segment) ==
    LET begin == ValueBegin(range, segment)
        end   == ValueEnd(range, segment)
    IN  IF begin < end /\ ContainsLocation(segment, begin)
        THEN [k \in 1 .. end - begin |-> SymbolAt(begin + k - 1)]
        ELSE <<>>

ExtractorTransfer(range, segment) ==
    IF ValueNotFound(range, segment)
    THEN /\ status' = "error"
         /\ UNCHANGED <<phase, received, leftover, sent, location, has_error, answers>>
    ELSE \E piece \in {ValuePiece(range, segment)} : TransferPiece(piece)

Extracting == phase = "transferring" /\ index <= Len(data_ranges) /\ status # "error"

\* Mutant: the chunk begins where the segment before did.
SegmentIsOverStale ==
    /\ index' = index + 1
    /\ chunk' = FirstChunk(data_ranges, index)

\* TransferData stops at an error, and so does ExtractImage; if the destination
\* is done, TransferData stops, but ExtractImage goes on with the next segment.
SegmentIsOver ==
    /\ index' = index + 1
    /\ chunk' = FirstChunk(data_ranges, index + 1)

\* What was asked for, not what was there, decides where the next chunk begins.
AfterTransfer(range) ==
    /\ failed' = (failed \/ status' = "error")
    /\ IF range.end < data_ranges[index].end /\ status' = "ok"
       THEN chunk' = range.end /\ UNCHANGED index
       ELSE SegmentIsOver

\* What is transferred out of memory: of a stream's cache the segment or nothing.
PartInMemory ==
    IF kind = "memory" \/ ContainsRange(window, data_ranges[index])
    THEN Intersection(window, data_ranges[index])
    ELSE InvalidRange

TransferFromMemory ==
    /\ Extracting /\ IsValid(PartInMemory)
    /\ ExtractorTransfer(PartInMemory, window)
    /\ AfterTransfer(data_ranges[index])
    /\ UNCHANGED <<input, source, result>>

\* The stream reads the next chunk of the segment, or what there is of it, and
\* transfers that.  After a read that was cut short the next one fails.
ChunkRange == NewRange(chunk, Min({data_ranges[index].end, chunk + BestDataSize}))

PartRead ==
    IF kind = "memory" \/ ContainsRange(window, data_ranges[index])
    THEN InvalidRange
    ELSE Intersection(extent, ChunkRange)

TransferChunk ==
    /\ Extracting /\ IsValid(PartRead)
    /\ ExtractorTransfer(PartRead, PartRead)
    /\ AfterTransfer(ChunkRange)
    /\ UNCHANGED <<input, source, result>>

\* Mutant: no data is no error.
NoDataIsIgnored == failed

\* kTransferDataNone, if nothing of the segment was transferred.
FailsWithoutData == failed \/ chunk = data_ranges[index].begin

\* Nothing is there: ExtractImage notes the error, and goes on with the next segment.
\* After a first chunk it is no error.
NothingToTransfer ==
    /\ Extracting /\ ~IsValid(PartInMemory) /\ ~IsValid(PartRead)
    /\ failed' = FailsWithoutData
    /\ SegmentIsOver
    /\ UNCHANGED <<input, source, result, phase, decoder>>

Success == HasImage /\ ~failed

Return ==
    /\ phase = "transferring" /\ ~Extracting
    /\ FinishTransfer
    /\ result' = IF Success THEN "extracted" ELSE "failed"
    /\ UNCHANGED <<input, source, extractor, failed>>

ExtractionNext == TransferFromMemory \/ TransferChunk \/ NothingToTransfer \/ Return

ExtractionSpec == ExtractionInit /\ [][ExtractionNext]_allvars
-----------------------------------------------------------------------------
(***************************************************************************)
(* Properties.                                                             *)
(***************************************************************************)
Ends  == truth.ends
Value == truth.value

IsBase64(chars) == chars # <<>> /\ Decodable(chars)

\* A stream was cut after the source read what it has of it in memory, and that may be
\* behind the cut.  Then a segment that was read short may be followed by one out of
\* memory, and ExtractImage returns true without what was between.
CacheIsStale == 0 < window.begin /\ extent.end < window.end

\* Of a value that is terminated, the decoder receives the characters one after
\* the other from the first, none twice, none left out and nothing else, however
\* the segments lie, in whatever pieces the source transfers them and wherever it ends.
OnlyTheValueIsDecoded ==
    Ends /\ "done" \notin answers /\ ~CacheIsStale => IsPrefix(received, Value)

\* All of the value was received, and decoded but for an incomplete last group.
ValueIsDecoded ==
    /\ received = Value
    /\ sent = BytesOfGroups
    /\ leftover = SubSeq(Value, 4 * GroupCount + 1, Len(Value))

\* If ExtractImage returns true, all of the value was received and decoded, although a
\* segment that the source has only a part of is no error: then the next one is.
TrueMeansAllReceived ==
    result = "extracted" /\ Ends /\ "done" \notin answers /\ ~CacheIsStale => ValueIsDecoded

\* The source has all of the segment.
Has(n) == data_ranges[n].end <= extent.end \/ ContainsRange(window, data_ranges[n])

\* A value that is base64 is extracted if the source has it, no segment is larger than a
\* chunk or it is in memory, each segment holds some of it, and the destination takes it
\* all.
HoldsSome(n) ==
    LET text == file.texts[CHOOSE k \in 1 .. Len(extensions) :
                              extensions[k] = data_ranges[n]]
        name == FindXmpPropertyValueBegin(data_ranges[n], text,
                                          TextBegin(data_ranges[n]), Type)
        from == IF n = 1 THEN name ELSE TextBegin(data_ranges[n])
    IN  from < Find(data_ranges[n], text, from, Quote)

Ordinary ==
    /\ Ends /\ IsBase64(Value)
    /\ \A n \in 1 .. Len(data_ranges) :
          /\ HoldsSome(n) /\ Has(n)
          /\ \/ Length(data_ranges[n]) <= BestDataSize
             \/ ContainsRange(window, data_ranges[n])

OrdinaryValueIsExtracted ==
    phase = "finished" /\ Ordinary /\ answers \subseteq {"ok"} =>
        result = "extracted" /\ received = Value /\ ~has_error

\* "@return True if there is an extratable image present" (jpeg_info.h): a value
\* that is base64 can be extracted, if the source has it and the destination takes it.
ExtractableIsExtracted ==
    phase = "finished" /\ HasImage /\ Ends /\ IsBase64(Value)
        /\ (\A n \in 1 .. Len(data_ranges) : Has(n)) /\ answers \subseteq {"ok"} =>
        result = "extracted"
=============================================================================
