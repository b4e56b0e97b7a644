# Verification of image_io

TLA+ models of the image_io library, the TLC configurations that check them on small
instances, and TLAPS proofs about the scanner that walks a file, the info builder that notes
what is in it, the decoder, the transfers, the two programs that compose new files out of old
ones, and the scanners of texts with the lines their error messages show.
Paths are those of the repository; `src/src/...` are implementation files and
`src/includes/...` headers.

Contents

1. [The system](#1-the-system)
2. [What is hard, and what must hold](#2-what-is-hard-and-what-must-hold)
3. [Modules and their correspondence to the code](#3-modules-and-their-correspondence-to-the-code)
4. [What the runs show, and their bounds](#4-what-the-runs-show-and-their-bounds)
5. [What is proved](#5-what-is-proved)
6. [Disagreements between code and documentation](#6-disagreements-between-code-and-documentation)
7. [What is not modelled, and the plan](#7-what-is-not-modelled-and-the-plan)
8. [How to run it](#8-how-to-run-it)

## 1. The system

image_io finds out what is in a JPEG file, takes images out of it that are hidden in its
segments or behind its first image, and makes such files. Nothing runs concurrently: the
behaviours of interest come from state that outlives a call (the state bits of a stream,
cached segments, leftover characters, counters of an earlier image), from data that is cut
into pieces at places nobody chose, and from files and destinations that end too early.

    application
      |  Run                                     | ExtractImage
      v                                          v
    JpegScanner --GetDataSegment--> DataSource <--TransferData-- JpegImageExtractor
      |  Start/Process/Finish         ^   |                      JpegAppleDepthBuilder
      v                               |   | Transfer             gcontainer
    JpegInfoBuilder (a processor)  istream v
      |  owns                       or    DataDestination chain:
      v                             memory  JpegXmpDataExtractor -> Base64Decoder -> caller's
    JpegXmpInfoBuilder                      DataRangeTracking    -> OStreamRef
      |
      v
    JpegInfo  --- read by ---> JpegImageExtractor, JpegAppleDepthBuilder

| Component | State it keeps | Operations | Talks to |
|---|---|---|---|
| `DataRange` | begin, end | validity, containment, intersection | everything |
| `DataSource`: `IStreamRefDataSource`, `DataSegmentDataSource` | the stream with its eofbit and failbit, the segment read last; a segment in memory | `Reset`, `GetDataSegment`, `TransferData` | scanner, extractors, builders, destinations |
| `JpegScanner` | the current and the next window, location, done and error flags, interesting markers | `Run`, and for its processor `SetDone`, `UpdateInterestingMarkerFlags` | `DataSource`, `JpegSegmentProcessor` |
| `JpegSegment`, `JpegMarker` | a range over one or two windows | search for XMP properties | info builders |
| `JpegInfoBuilder` | counts of images and of hints to Apple images, the last SOI, the primary GUID, the `JpegInfo` | `Start`, `Process`, `Finish`, `SetImageLimit`, `SetCaptureSegmentBytes` | scanner, `JpegXmpInfoBuilder` |
| `JpegXmpInfoBuilder` | ranges, counts of begins and ends of a property | `ProcessSegment` | `JpegSegment` |
| `JpegXmpDataExtractor` | the segment index, errors | `Transfer` | `DataSource`, decoder |
| `Base64DecoderDataDestination` | leftover characters, next decoded location, error | `Transfer`, `FinishTransfer` | the next destination |
| `OStreamRefDataDestination`, `DataRangeTrackingDestination` | bytes written, sticky error; tracked range | `StartTransfer`, `Transfer`, `FinishTransfer` | an ostream; the next destination |
| `JpegImageExtractor` | none of its own | `ExtractGDepthImage`, `ExtractGImageImage`, Apple depth and matte | all of the above |
| `JpegAppleDepthBuilder` | what it found in two files | `Run` | two sources, two scanners, one destination |
| `gcontainer` | none; the file system is its state | `WriteImageAndFiles`, `ParseFileAfterImage`, `ParseFileAfterImageFromStream` | `file_utils`, scanner, `DataSource`, destinations, `MessageHandler` |
| `DataScanner` | the token range, `data_` (a quote, a sentinel, how much of a literal has matched) | `Scan`, `Reset`, `ResetTokenRange` | whoever reads a text, through `DataContext` |
| `DataContext`, `DataLineMap` | location and range; the lines so far and whether the last one is over | `FindDataLines`, `GetDataLine`, `GetErrorText` | `DataScanner` |
| `JpegSegmentBuilder`, `ByteBuffer`, `ByteData` | the data that make up a segment | add, replace a size, build | `JpegAppleDepthBuilder` |
| `MessageHandler`, `MessageStore`, `MessageStats` | the messages and their counts | `ReportMessage`, `ClearMessages`, `HasErrorMessages` | everyone reports; callers of `gcontainer` ask |

`PROJECT.json` lists all of them under `components`, with what is modelled of each.

## 2. What is hard, and what must hold

`PROJECT.json` lists the hazards one by one, at the line where they bite. In groups:

* *Windows.* The scanner sees a file through windows of 0x10000 bytes. A marker, its size
  bytes and its payload may lie across two of them, and a segment is up to one byte longer
  than a window. It must find what a walk over the whole file would find, call nothing
  truncated that is not, pass on no segment that reaches into a third window, and end, also
  for sizes of 0 and 1 and at a window that is empty.
* *State that survives.* A stream that was read to its end answers no further read until it
  is cleared; a cached segment makes the next user begin somewhere else. A second run, or a
  transfer after a scan, must do what a first one does.
* *Order of segments.* SOI and EOI markers may come in any order and number, and the hints
  to Apple images before or after the image they belong to. Image ranges must be images, an
  Apple image must be the first one with the hint in it and must stay that, and the limit must
  end the scan. The extensions of one XMP property are found among others.
* *Pieces.* An extracted value reaches the decoder in segments, and those in chunks. What
  is decoded must not depend on the cuts, and nothing but the value may be decoded.
* *Failure half-way.* A file that lost its end after it was scanned, an ostream that is full, a group of base64
  that breaks off: what is reported as success must be complete, and what is there must not
  be reported as failure.
* *A text in pieces.* A token, a literal that is searched for, and a line may be cut by the
  end of a piece at any character. The tokens, the lines and the place that an error message
  shows must be those of the text as a whole.
* *Files of others.* `WriteImageAndFiles` opens its input twice and looks at the size of a
  file before it reads it; somebody may cut or remove the file in between, and an ostream
  may hold bytes back until it is flushed. Nothing may be missing in silence, and what was
  written must be found again by the two numbers a caller keeps.
* *Numbers at their width.* The place of an appended file is a sum of `size_t`.
* *A composed file.* The parts of an Apple depth file are bytes of two files and two made
  segments. None may be lost or doubled for any order of the segments in the input, and the
  numbers written into the MPF segment must describe the output, not the input.

## 3. Modules and their correspondence to the code

Shared data modules:

| Module | Stands for |
|---|---|
| `DataRanges` | `DataRange`, over unbounded naturals |
| `DataSources` | the two sources as records with pure operations; of a stream, whether it is open, its length, whether its state is good, and the cached segment |
| `JpegMarkers` | which bytes are markers, and which have a payload, over bytes of `Radix` values |
| `JpegSegments` | `JpegSegment` as far as a processor looks at it: marker, identifiers, GUID, and the text of an extension as symbols |
| `Base64` | the vendored base64 library, as the decoder uses it |
| `DataTransfers` | `TransferData` of both sources and the two plain destinations |
| `DataScanner` | `Scan` for each of the seven types of scanners, as an operator on a record |
| `DataLineMap` | `FindDataLines`, `GetDataLine`, and what `DataContext::GetErrorText` shows around a location |
| `MessageHandler` | the handler with its counts and its vector of messages |

**`JpegSegmentation`** is the abstract specification of the scanner: a walk over the whole
array with no windows. A step skips to the next marker, steps over a marker, delivers a
segment, or ends the scan with or without error. Fill bytes before a marker it passes over in
any number (`PassFills`), as the documentation of `JpegMarker` asks. The scanner passes over
them in pairs (`PassFillPair`) and may so miss the marker: `SpecInPairs` allows for that step,
and is what the scanner implements; `Spec` is what a run shows it does not (section 6).

**`JpegScanner`** is `JpegScanner::Run` with one action per part of the code that can end in
a return or a change of the loop: `Run` (reset, first window, `Start`), `FindMarker`,
`NextWindow`, `ReadType`, `ReadPayloadSize`, `ReadExtent`, `Process`, `FinishRun`.
`pc` is where in the function it is, with `"crashed"` for the use of a null window. The
variables `current`, `next`, `location`, `done`, `error`, `interesting` are the members of
the class; `begin`, `marker` and `payload` are locals. `GetBytes` and `Fetched` are
`GetByte` with its prefetch of the next window. The processor is any processor: it changes
its interests and calls `SetDone` at will. `UseSource` is the owner of the source, who may
read from it between two runs. The size of a window is `Radix * Radix`, as it is in the
code with 256: the largest payload is then one less, and that relation is what matters.

**`JpegInfoBuilder`** receives one segment after another (`Start`, `Process`, `Finish`).
Which segments there are in which order is what the model explores: `family` is the sort of
file, with the kinds of segments in it, the limits a caller sets and the bound on their
number. `seen` is their history, read by the properties and, for where the next segment
begins, by `Process`. The rest of the variables are the members of the same names.
`ProcessSegment` of `JpegXmpInfoBuilder` is an operator on records in `xmp_builders`.
`HeaderLength` bytes of a segment precede its text.

**`Base64Decoder`** is the decoding destination: `Transfer` with the characters stolen to
complete a group, `FinishTransfer`, and a next destination that may answer anything.
`received`, `sent` and `answers` are histories.

**`XmpExtraction`** composes `JpegSegments`, the `JpegXmpDataExtractor` and the
`Base64Decoder` under `JpegImageExtractor::ExtractImage`. `contents` is the file, byte for
byte: one segment for each text, with a header in front of it, and what follows the last. The
ranges come from the same operators the info builder uses, applied to the same file. The
source is an istream or a memory segment (`kind`), has the file up to some byte (`extent`),
and may hold a part of it in memory (`window`): all it has, for a memory source, or what an
istream read last, which may be from a time when the file was longer. `TransferFromMemory`
and `TransferChunk` transfer what there is of a segment or of a chunk, which may be less than
was asked for; `NothingToTransfer` is a segment, or a further chunk, of which nothing is
there. The first of these is `kTransferDataNone`, which `ExtractImage` counts as an error
before it goes on with the next segment; a short read and a missing further chunk are
`kTransferDataSuccess`, and the source has ended by the next segment, if there is one.

**`JpegAppleDepthBuilder`** is its `Run`: two scans whose results are inputs (`AfterScan`
gives every state in which a scan may leave a source, and lets the file lose its last
bytes), then the transfers one by one: the bytes in front, the new JFIF segment, the bytes
between, the new MPF segment, the rest, the depth image. A byte that is written is a pair of
origin and location, so that a lost, doubled or displaced byte shows. A file without a
primary or depth image, or without a JFIF or EXIF segment, ends `Run` early, as in the code.

**`AppleImageExtraction`** composes the builder with the extraction of Apple images from
the file it made: the destination's content becomes the next source's content. It may be
cut short again, and extracted from more than once, into a destination that may be full.
The depth image's range is the second image's; that the info builder would find it there is
what `AppleImagesHoldTheirXmp` and `InfosLieInTheirImages` say of `JpegInfoBuilder`.

**`TextTokens`** is the abstract specification of the scanners: a text that is there as a
whole, and a list of tokens, each at the first place where one of that kind can end, or a
syntax error. **`TextScan`** is the program: the text arrives in pieces of any length
(`Arrive`, which also calls `FindDataLines`), `CallScan` is one call of `Scan`, `TakePart` is
a reader that takes what there is of a token and calls `ResetTokenRange`, and `NextScanner`
resets the scanner for another token or asks for another one. `TextScan` implements
`TextTokens` (`ImplementsTextTokens`): the pieces change nothing.

**`GContainer`** is `WriteImageAndFiles` with one action for each place where it can end or
where a file can change under its hands: `OpenOutput`, `ScanInput`, `TransferImage`,
`StatFile`, `AppendFile`, `FinishWrite`; then one call of `ParseFileAfterImage` or
`ParseFileAfterImageFromStream` (`Parse`), on the input or the output, with a stream that is
good or not. `files` is the file system, and `ChangeFile` is somebody else. What a scan finds
is abbreviated to `FirstImage`, by the symbols of a content. `handler` is the
`MessageHandler`. `pc = "crashed"` is the use of an input stream that is null, at
`gcontainer.cc:98`. `ReadRange` keeps what the caller's string
held for a byte that the file does not have, and has "zero" for one by which the string was
made longer: it is resized, and the stream leaves it as it is.

**`JpegSegmentBuilder`** collects data (`AddByteData`, `AddMarkerAndSize`, ...), changes a
size (`ReplaceSizePlaceholder`) and turns the data into bytes (`Build`, `SetPayloadSize`,
`Release`). A datum is the bytes its text stands for; two hex digits are one byte.

Every module that TLC runs has an `MC` module with the small sets it is given, each named
and commented there. Definitions marked "Mutant" are plausible bugs; nothing uses them, but
put in the place of the definition that follows they make a property fail, which shows that
the property depends on the code.

## 4. What the runs show, and their bounds

| Run | Distinct states | Shows |
|---|---|---|
| `jpeg_scanner` | 245,031 | `SegmentInWindows`, `PrematureEndIsReal`, `ImplementsSegmentation` (of `SpecInPairs`), `RunFinishes` over two runs of the scanner |
| `info_builder` | 6.3 million | `ImagesAreSpans`, `AppleImagesHoldTheirXmp`, `LimitEndsTheScan`, `InfosLieInTheirImages`, `AppleImagesAreFirst` for every file of up to 8 segments that matter for Apple images; `XmpRangesHoldTheValue` for every file of up to 6 with extensions |
| `base64_decoder` | 257,024 | `GroupsAreDecoded`, `ValidStreamIsAccepted`, `AcceptedStreamIsComplete` for streams of up to 9 characters in any division |
| `xmp_extraction` | 1.3 million | `OnlyTheValueIsDecoded`, `TrueMeansAllReceived`, `OrdinaryValueIsExtracted` for values over up to four segments, from sources that end anywhere |
| `apple_images` | 606,673 | `ImagesAreComplete`, `JfifIsReplaced`, `PrimaryLengthIsRight`, `FailureHasACause` of the builder, `ExtractedIsTheDepthImage`, `FailureLosesNothing` of the extraction |
| `text_scan` | 580,409 | `ImplementsTextTokens`, `NoTokenIsMissed`, `TokenRangeIsConsumedText`, `LinesAreThoseOfTheText`, `ErrorTextShowsThePlace` for every text of up to four characters in any pieces |
| `gcontainer` | 1.4 million | `WrittenIsImageAndFiles`, `WhatIsMissingIsReported`, `AppendedFilesAreFound`, `ParseIsExact` with files that change meanwhile |
| `scanner_fill_bytes`, `xmp_present`, `apple_depth_offset`, `gcontainer_stream`, `segment_size` | | one property each that the documentation claims and the code does not keep; see section 6 |

Each run also checks the type invariant of its module.

Why the bounds are enough:

* *Scanner.* With `Radix = 4` a window has 16 bytes and a payload at most 15, the code's
  relation of 0x10000 to 0xFFFF. Arrays are two pieces out of a stuffed byte, fill, markers
  with and without payload, sizes 0, 1, 3 and 15, starting at any of eight offsets around
  the end of the first window and cut by 0 to 4 bytes, so that every part of a segment falls
  on, before and behind an end of a window and of the file. `MaxRuns = 2` is what state
  surviving a run needs. The proofs remove these bounds for safety. For the counterexample of
  `scanner_fill_bytes` there are up to four fill bytes before a marker.
* *Info builder.* Eight segments hold three images with hints in, before and between them;
  the limits are 1, 2 and none. Six segments hold a primary XMP and extensions of two
  properties and of a foreign GUID in any order.
* *Text.* Four characters out of a letter, a hyphen, two quotes and a newline are cut into
  pieces everywhere; a literal of three characters may be spread over three pieces. Eight
  scanners cover every type, a literal that overlaps with itself (`--a`) among them, and two
  tokens are what a scanner needs that is used again, or another one after it.
  `ShownLimit = 1` cuts the text of an error message on both sides.
* *gcontainer.* The inputs have an image, bytes around it, a hidden end of image, a repeated
  SOI, no image, and a segment that breaks off. Two files, a file twice behind a missing
  name, and the input itself are appended. Rooms of 2, 5 and 15 bytes break off in the
  image, in a file, and not at all. `SizeModulus = 16` is more than the longest output and
  small enough for sums to wrap. One change by others and one byte held back suffice to see
  what each does to the result.
* *Segment builder.* `Radix = 4`: sizes have two digits, as in the code. The counterexample
  needs one marker.
* *Decoder.* Nine characters are two groups and one more character; pieces of 0 to 3
  characters cut a group everywhere, and pieces of 5 and 9 complete one group and go on to
  the next. Two letters suffice to see a displaced one.
* *XMP extraction.* A chunk is one byte shorter than the largest segment, as in the code
  (0x10000 to 0x10001). Values end in the first, a later or no segment. A source ends behind
  any byte of the file, and a stream has cached nothing, the whole file as it was, or one end
  of it. Four segments are what a value needs that has a middle and a cached end.
* *Apple images.* Eleven orders of JFIF, EXIF, MPF and other segments, with and without
  AMPF, with a byte in front of the image and bytes behind it. Chunks of 8 bytes are larger
  than some ranges and smaller than others. Rooms of 100, 20 and 4 bytes let everything be
  written, break off within a chunk of the primary image, and within the first transfer.
  A file loses at most one byte (`MaxCut`): the first that is missing decides. Two
  extractions are what a sticky error or a stale source needs.

Deadlock is not checked in these runs, since each model stops where the function it
describes has returned and the bound on calls is reached.

**Fairness.** Only the scanner's specification has any: `WF_vars(ScannerStep)`. `Run` is an
ordinary function, so once it is called its next step is taken; nothing makes the owner call
it, and `UseSource` and `Run` are not fair. `RunFinishes` rests on this alone. The other
specifications are safety specifications; their functions have no loop whose end is in
doubt, except over data that is finite by construction.

Conditions in properties are conditions of the code's own design, not conveniences:

* `JfifIsReplaced` and `PrimaryLengthIsRight` assume that the JFIF segment comes before the
  place of the MPF segment, which the comments of `TransferPrimaryImage` take for granted;
  `ImagesAreComplete` does not.
* `ExtractedIsTheDepthImage` assumes a destination that had not failed before: an
  `OStreamRefDataDestination` with an earlier error takes no bytes but answers
  `kTransferOk`, and the extractor then returns true. Without the condition the property
  is violated.
* `NoTokenIsMissed` leaves out literals one of whose beginnings is also an ending of a
  longer beginning: see section 6.
* `ErrorTextShowsThePlace` says nothing of the line number of a newline, and of the caret
  behind a character that cannot be printed: the same section.
* `WrittenIsImageAndFiles` and `AppendedFilesAreFound` assume that the final flush
  succeeded; nobody asks whether it did.
* `ParseIsExact` is about streams that are good and sums below `2^w`; without the second
  condition a wrapped sum gives other bytes with a true result.
* `InfosLieInTheirImages`, `AppleImagesHoldTheirXmp` and `AppleImagesAreFirst` are about
  files of complete images (`WellFormed`), in which alone it is clear what belongs to which
  image; for the last, a segment that names both ids is a hint of
  the depth image only, as in the code.
* `XmpRangesHoldTheValue` takes a property for present only if a byte follows its opening
  quote in the same segment.
* The properties of `XmpExtraction` leave out destinations that answered `kTransferDone`,
  since the code calls them again and no text says what is meant, and files in which the name
  of the attribute occurs more than once (`NamedOnce`; an XML element has an attribute once).
  `OnlyTheValueIsDecoded` and `TrueMeansAllReceived` also leave out a stream with a cached
  segment from behind the end of its file (`CacheIsStale`), with which both are violated:
  section 6. A true result allows for an incomplete last group, which is not decoded.
  `BestDataSizeAssumption` says how segments and chunks compare: a segment has at most 0x10001
  bytes, with its marker, and a chunk 0x10000.

## 5. What is proved

`JpegScannerProofs` holds machine-checked proofs about `JpegScanner` for arrays of any length and content, any `Radix` of at least 2 (256 in the
code), every source of either kind, any number of runs, and every processor.

| Theorem | States |
|---|---|
| `TypeCorrectness` | `Spec => []TypeOK` |
| `SegmentsFitWindows` | `Spec => []SegmentInWindows`: two windows hold every segment that is passed on |
| `NoFalsePrematureEnd` | `Spec => []PrematureEndIsReal`: data is reported as truncated only where it is |
| `Refinement` | `FromFirstByte /\ Spec => ImplementsSegmentation`: windows change nothing of a walk that passes fill bytes in pairs |

*Assumptions.* `RadixAssumption`, `FixedTypesAssumption`, `InputsAssumption`,
`InterestsAssumption`, `NoSegmentAssumption`; TLC evaluates each of them on the instances.
`Refinement` also assumes `FromFirstByte`: the source has the byte at location 0. A source
in memory may begin later, and the scanner then looks at bytes in front of it or uses a window
that is null (section 6).

*The invariant.* None of the properties is inductive: whether the last byte of a segment is
in the next window depends on how the windows were fetched. `Inv` adds `WindowsOK`, which
says that the next window adjoins the current one and is as large as requested, or ends
where the data ends; that what the source has cached is the window fetched last; and that a
stream which is no longer good is one whose last window ends where the data ends. The last
part carries `PrematureEndIsReal`: a read that returns nothing means that nothing is there.
`PayloadBound` (a payload is smaller than a window) and `ReadWindow` (what a read returns)
are the two facts the rest follows from; `NextWindowOK` and `GetBytesOK` lift them to the
scanner, and there is one lemma per action (`RunInv`, `FindMarkerInv`, ...).

*The refinement.* It maps the walk's limit to the end of the source's
extent, "active" to `pc # "idle"`, and the walk's position to the marker under examination
within the loop body and after an error, and to `current_location_` elsewhere. `WalkInv`
says what has been established about the array at each point of the body; each action is
shown to be one step of the walk (`RunWalk`, `ProcessWalk`, `FindMarkerWalk`, ...) or none
(`NextWindowWalk`, `UseSourceWalk`, and the others while they only read).

`JpegInfoBuilderProofs` does the same for `JpegInfoBuilder`: files
of any number of segments of any kinds, any limit, any texts of extensions.

| Theorem | States |
|---|---|
| `Invariance` | `Spec => []Inv`, the inductive invariant |
| `TypeCorrectness` | `Spec => []TypeOK`; in it, that each count of hints has one entry per image, so that the code's index `image_count_ - 1` is in range |
| `ImagesAreSpansAlways` | `Spec => []ImagesAreSpans` |
| `LimitEndsTheScanAlways` | `Spec => []LimitEndsTheScan` |
| `InfosLieInTheirImagesAlways` | `Spec => []InfosLieInTheirImages` |
| `AppleImagesHoldTheirXmpAlways` | `Spec => []AppleImagesHoldTheirXmp` |
| `AppleImagesAreFirstAlways` | `Spec => []AppleImagesAreFirst` |
| `XmpCollectedAlways` | `Spec => [](Inv /\ GuidOK /\ XmpOK)`, the invariant of the extended XMP |
| `XmpRangesHoldTheValueAlways` | `Spec => []XmpRangesHoldTheValue` |

*Assumptions.* `FamiliesAssumption` (limits are integers, texts are sequences) and
`HeaderLengthAssumption`.

*The invariant.* `ImagesAreSpans` alone says too little of the moment at which an EOI comes.
`SeenOK` says that the segments follow one another, so that all that was noted lies before
the `Position` reached; `SoiOK` that the last SOI is the last one seen, and valid as soon as
there is one; `ImagesOK` that an image noted either begins with that SOI or ends before it,
which is why the next image is disjoint from it or repeats its beginning. For the limit,
`CountOK` says that `image_count` is the number of SOIs seen, and `DoneOK` that an EOI behind
an SOI at which the limit was reached has set `done`. The code compares the limit with the
number of images begun by the EOI, not by the SOI in question; `ImageOfGrows` closes that
gap. `ArrivalFacts` says what the arrival of a segment does to the history, whatever the
segment is; there is one lemma per handler (`SOIInv`, `EOIInv`, `APP0Inv`, ...), and those
that neither begin nor end an image share `OtherInv`.

*What belongs to which image.* `InfosLieInTheirImagesAlways`,
`AppleImagesHoldTheirXmpAlways` and `AppleImagesAreFirstAlways` are about files of complete images, and rest on `Inv /\ Belongs`. `WellFormedBefore` says that such a file
was one before its last segment, so that at each segment either every image begun has ended
or just one is open: `image_count` is the number of image ranges, or one more. `Located`
says where the segment that was noted for the k-th image lies: in that image if it has ended,
behind the last SOI if it is open. From that, `InfosOK` and `CountsOK` say that every segment
info, and every hint that was counted, is located in its image; and `NoneBefore` that while
there is no Apple image, no image that has ended had a hint, the primary image having its
MPF segment. The last is what `HasAppleDepth` needs: it finds *some* image with a hint, and
the code takes the image that ends now, so that the two must be the same one. `NoneEarlier`
says that the Apple image is at or before each image with a hint that has ended. A step is shown
to keep what is located in its place (`Stays`), whatever it does.

*Where the extended XMP lies.* `Extensions` reads off the history which segments continue the
XMP of the primary image: at each of them, what counts is the last primary XMP segment before
it. `GuidOK` says that `primary_guid` is the GUID to match next, so that a segment is taken in
exactly when it becomes one more extension (`ExtensionsNext`), and other segments change
nothing (`SameBuilder`). `XmpOK` says what a builder has `Collected`. Either it has nothing,
and no extension so far opens the value. Or its ranges are those of the extensions from one to
another, the last one of all as long as the end was not found (`SpreadOver`); and in the joined
texts, from behind the name on, there is a quote if and only if `property_end` is valid, and
only in the text of the last range (`TextHolds`); the first of these extensions opens the
value, and none before it does. `FindsBegin` and `FindsEnd` say what the
search for the name and the quotes comes to, `StartsHere` and `GoesOnHere` are the two ways in
which a builder grows, and the second rests on that joining one more text leaves the others
where they are (`FlattenFacts`).

`XmpExtractionProofs` is, in its first half, about `Base64Decoder` for any alphabet, streams of
any length, any cuts, and a next destination that may answer anything; and in its second half
about `XmpExtraction`, for files of any texts and windows of any size.

| Theorem | States |
|---|---|
| `TypeCorrect` | `Spec => []TypeOK` |
| `Decoding` | `Spec => []GroupsAreDecoded`: what is sent on is the decoding of the groups of four of the whole stream, and the leftover characters are its end |
| `Acceptance` | `Spec => []ValidStreamIsAccepted` |
| `Completeness` | `Spec => []AcceptedStreamIsComplete` |
| `ExtractionTypeCorrect` | `ExtractionSpec => []ExtractionTypeOK` |
| `TheValueIsDecoded` | `ExtractionSpec => []OnlyTheValueIsDecoded` |
| `TrueIsComplete` | `ExtractionSpec => []TrueMeansAllReceived` |
| `OrdinaryIsExtracted` | `ExtractionSpec => []OrdinaryValueIsExtracted` |

*Assumptions.* `AlphabetAssumption` and `PiecesAssumption` (pieces are sequences of
characters); for the extraction also `FilesAssumption`, `TypeAssumption`, `QuoteAssumption`,
`HeaderLengthAssumption` and `BestDataSizeAssumption`; section 4 explains the last.

*The invariant of the decoder.* `NoErrorSoFar` divides what was received into whole groups, which decode and
were sent on, and the leftover characters. It is stated of the stream as one buffer
(`BytesOf`), because a step appends to that; that the bytes of a buffer are those of its
groups of four, one after the other, is a lemma of its own. A transfer takes characters from
the new piece to complete a group; the section on how a piece is cut shows that group, whole
groups and rest make up the piece in every case, `TooSmall` included. `ErrorIsFinal` says that
an error is followed by nothing, and is no fault of a valid stream.

*Where the value is.* The extractor looks at bytes of the file, the properties at the value in
the joined texts. Three groups of lemmas lead from one to the other. `LengthsBefore` and
`ExtensionsLie` say where each text lies in the file and in the joined texts. `Collected` is
what the builder has after each of its passes over the segments: nothing, or the ranges of
consecutive segments of which the first has the name and the opening quote (`Spread`), each one
before the last having no closing quote. `InfoIsCollected` carries it to the end of the
passes. `ValueIs` then says that the value is what lies between `ValueBegins` and `ValueStops`
in the joined texts.

*What the extractor sees.* A transfer is one of three kinds (`Transfers`): the whole segment,
whether as a chunk or within a larger window in memory; the first bytes of a segment, because
a chunk had no room for the last byte or because the source ends in it; and this last byte by
itself. `PieceSeen` says which part of the text is found in the first two, and `LateChunk`
that the third is an error, for there is nothing behind a header of its own. `Places` and
`Reached` then say that a piece goes on in the joined texts where the pieces before it ended.
A step that finds nothing to transfer (`WithoutData`) changes only where the extraction stands.

*The invariant of the extraction.* `ExtractionInv` has the file as it was made (`Described`),
the invariant of the decoder, what the source can be (`SourceKnown`), where the extraction
stands: at a segment or at a last byte (`Progress`), and what it comes to (`Returned`).
`ReceivedInOrder` says that what was received is always the beginning of the value, and, as
long as there is no error and nothing was missed, all of it up to the segment at hand: the
second part is what a step needs to go on, and the first is what remains true when it fails.
`NothingMissed` says that the source has all of the segment before. A short read makes it
false without an error, and then nothing more may be received: what can still be transferred
lies behind what the source has (`NoneMissed`). That is where `Fresh` is needed, a source with
no cached segment from behind its end: with one it is wrong (section 6). `AllTransferred` carries `TrueIsComplete`: if the last segment is behind without an
error, then the closing quote was seen, and all of the value has come.
`OrdinaryGoesOn` says that an ordinary value meets no error: each part of it is a prefix of
base64 text, which `ErrorIsFinal` does not allow the decoder to refuse.

`SequenceFolds` holds the lemmas about `FoldLeft` and `FlattenSeq` of the community modules
that the other proofs need: that a fold is reached by one step for each element (`FoldedTo`),
and that flattening distributes over concatenation. The provers cannot instantiate a theorem
for an operator or a predicate: so the operator is the constant `Op` of the module, and a
module that folds takes `INSTANCE SequenceFolds WITH Op <- ...`; and induction is about a set
of numbers, from the well-foundedness of `<`.

`DataTransferProofs` states what one call of `TransferData` does, for both kinds of sources,
every range, and chunks of any size:

| Theorem | States |
|---|---|
| `TransferOutcome` | if the source has a content then the destination has got exactly the bytes of the range that the source can read (`Available`), counted each once, or it is full, has an error, and the result is one |
| `TrackedOutcome` | a `DataRangeTrackingDestination` in front of the ostream changes neither the source, the result nor the ostream, and has noted the range of what was written, in one piece |
| `FailedOutcome` | an ostream that has failed before takes nothing, and the source has at most met its end |

The hypotheses of the first two are what every caller of the library has established: the
destination has not failed before (one that has takes nothing and answers `kTransferOk`, which
is the third theorem), and a source in memory does not begin behind the range. That a second
loop with the tracking destination in front does the same as one without is shown turn by
turn (`InStep`). The argument is an invariant of the loop over the chunks
(`LoopInvariant`): at each location the bytes up to there, or up to the end of the stream,
are written; after a read beyond the end the stream is not good, and the loop has met its
end too. `ChunkAt` says that the chunks follow one another from the beginning of the range to
its end.

`JpegAppleDepthBuilderProofs` builds on that: files of any lengths, segments in any order and
of any sizes, any room in the output, and sources in whatever state a scan left them.

| Theorem | States |
|---|---|
| `Invariance` | `Spec => []IInv`, the inductive invariant |
| `TypeCorrect` | `Spec => []TypeOK` |
| `Images` | `Spec => []ImagesAreComplete`: each byte that belongs in the output is there once and in order |
| `JfifReplacement` | `Spec => []JfifIsReplaced` |
| `PrimaryLength` | `Spec => []PrimaryLengthIsRight` |
| `Causes` | `Spec => []FailureHasACause` |
| `ExtractionInvariance` | `ExtractionSpec => []EInv`, the invariant of building and extracting |
| `ExtractionTypeCorrect` | `ExtractionSpec => []ExtractionTypeOK` |
| `ExtractionKeepsTheFile` | `ExtractionSpec => Spec`: whatever holds of the builder holds while images are extracted |
| `Extraction` | `ExtractionSpec => ExtractedIsTheDepthImage` |
| `NothingIsLost` | `ExtractionSpec => FailureLosesNothing` |

*Assumptions.* `FilesAssumption`, `BoundsAssumption`, `SegmentsAssumption`, and
`ImagesAssumption`: the JFIF, EXIF and MPF segments that were noted of the primary image lie
in it, between its SOI and its EOI, and apart from one another, and a depth image lies in its
file. For files that consist of images that is what `InfosLieInTheirImages` says of the info
builder. `SourcesFit` lets each source be in any state from which its content can be read.

*The invariant.* `Written` says, for each stage of `Run`, what the ostream holds: the pieces
of the two files and the made segments up to there. `NumbersAreRight` and
`FailuresHaveCauses` do the same for the numbers of the MPF segment and for failures: the
ostream has an error, or an image reaches behind the end that its file has by then, or
something was not found. `TransferOutcome` gives each step. The properties of the finished
file follow from what the last stage has written, by looking at the places of the segments in
both orders (`SegmentPlaces`).

*Extracting from the file that was made.* The last five theorems are about
`AppleImageExtraction`. `FileIsThere` says that a file that is open is one for which `Run` has
returned true, that it holds what the ostream got, cut short at its end or not, and that
extractions leave its source readable: they only move its state bits and its cached segment.
`Images` then tells which bytes are at the range of the depth image, `TransferOutcome` and
`TrackedOutcome` that these are the bytes the destination gets, and `FailedOutcome` that a
destination with an earlier error gets none.

`GContainerProofs` is about `GContainer` for any contents, any list of other files, any number
of changes by somebody else, and any room in the output.

| Theorem | States |
|---|---|
| `Invariance` | `Spec => []IInv`, the inductive invariant |
| `TypeCorrect` | `Spec => []TypeOK` |
| `OutputIsComplete` | `Spec => []WrittenIsImageAndFiles` |
| `NothingIsMissingInSilence` | `Spec => []WhatIsMissingIsReported` |
| `AppendedIsFound` | `Spec => []AppendedFilesAreFound` |
| `ParsingIsExact` | `Spec => []ParseIsExact` |

*Assumptions.* `GContainerAssumption`: the contents are sequences, and every file and the
output are shorter than `2^w` for the width `w` of `size_t`. A 64-bit build has no other
files; a 32-bit build that is given a longer one is outside of these theorems.

*The invariant.* The four properties speak of the end of a call, so that none is inductive.
`Cuts` says that what others made of an input is a beginning of what it was, shorter by at
most one byte for each change; `ImageFound`, that the image found in a file that was cut is
the first image of the whole one (`FirstImageOfCut`); `Reading`, that the size that was looked
up is one the file had; `Appended`, that what was appended of a file is a beginning of it, or
that an error is kept. `Copied` is the heart: the ostream holds the image and the parts
appended so far, each byte counted once, or it has failed and an error is kept, or it has
fewer bytes than expected because the input was cut between the scan and the transfer. The
last case is the one that is reported by the result alone. It is a disjunct with a strict
inequality on the count, which every later transfer keeps: nothing that is appended can
make up for the bytes that are missing, and so `bytes_transferred == bytes_written` at the
end tells the two cases apart.

*Finding a file again.* `FirstImageAgain` says that a content which begins with the first image
of another file has that image first, whatever follows: the scan is a fold that no longer
changes once it has an image (`ScanStays`), and up to there it sees the same symbols
(`ScansAgree`), shifted by where the image began. The place of a file is then the end of the
image plus the lengths of the files before it (`PartIsFound`), which does not wrap.

`TextScanProofs` is about `TextScan` for any texts, cut in any pieces, any scanners and
literals, any classes of characters, and any length of what an error message shows.

| Theorem | States |
|---|---|
| `ScanInvariance` | `Spec => []ScanInv`, the inductive invariant |
| `TypeCorrect` | `Spec => []TypeOK` |
| `TokenRange` | `Spec => []TokenRangeIsConsumedText` |
| `NoneMissed` | `Spec => []NoTokenIsMissed` |
| `TokensOfTheWholeText` | `Spec => ImplementsTextTokens`: the scanners implement `TextTokens`, so that pieces change nothing |
| `LinesOfTheText` | `Spec => []LinesAreThoseOfTheText` |
| `ErrorText` | `Spec => []ErrorTextShowsThePlace` |

*Assumptions.* `TextsAssumption` (texts are sequences of characters, and not empty),
`ScannersAssumption`, `ShownLimitAssumption` (`kLimit` is positive; it is 25), and those of
`DataScanner`.

*The invariant.* What was found so far says nothing of the token that is being read. `Seen`
does, for each type of scanner: what the part of the token that has come looks like, and what
the scanner knows of it. A literal or a name has fitted so far, and its scanner tells from the
length of the token range where it is; that is why these scanners must not have their range
reset in between, and why `TakePart` is only for the other two. A quoted string has its quote
in `data_` and has not seen it again. A literal that is searched for (`"through literal"`) has
in `data_` the beginning that the last characters fit, and has begun nowhere else, provided
that no two of its beginnings overlap. `IsAnswer` says what a call of `Scan` makes of that:
nothing, a token that ends where one can end in the whole text, an error where there can be
none, or again what `Seen` says, further on. There is one lemma for each type (`NameAnswer`,
`QuotedAnswer`, `ThroughAnswer`, ...), and `ScanAnswer` puts them together. The abstract
specification looks only at the whole text, so that the arrival of a piece, `TakePart`, and a
call that runs out of data are stutters of it, and a full match or an error is its step.

*Lines.* `AreLines` says that the lines follow one another, that no line has a newline in it,
that each but the last one ends before a newline, and that as many newlines lie in front of a
line as there are lines before it. From the last part follow the number of lines and that they
are in order (`InOrder`), without an induction. `LineLoopInv` says where the iterations of
`FindDataLines` stand, and `LinesFound` what they come to. `GetDataLine` then finds the line
of every character but a newline (`LineGot`, `NoLineGot`).

*Only model-checked:*

* `RunFinishes`, because liveness under fairness is beyond the prover;
* what `JpegSegmentBuilder` does to a size, which is wrong (section 6).

## 6. Disagreements between code and documentation

Each is the counterexample of one run.

| Run | What the code does | What the text says |
|---|---|---|
| `xmp_present` | an image listed in the `JpegInfo` is not extracted from a stream when a segment has the largest size, or when its last segment holds nothing but the closing quote | `jpeg_info.h:62`: `HasExtractableImage` |
| `scanner_fill_bytes` | the scanner goes on two bytes behind each 0xFF that is not a marker's, so that a marker behind an odd number of fill bytes (FFFFDA) is missed | `jpeg_marker.h:18`: multiple fill bytes may appear before a marker and should be ignored; its example has two, for which the scanner works |
| `apple_depth_offset` | the offset of the depth image in the MPF segment is counted from where that segment was in the input; if AMPF was appended to the JFIF segment before it, the offset leads 4 bytes too far | `jpeg_apple_depth_builder.h:47`: the result is a valid Apple depth file |
| `gcontainer_stream` | `ParseFileAfterImageFromStream` takes -1, the position of a stream that is not good, for its size, scans it nevertheless, and returns true for any place behind the image | `gcontainer.h`: the contents are populated only if parsing is successful |
| `segment_size` | `ReplaceSizePlaceholder` writes the size from the third hex digit on, over the type of the marker | `jpeg_segment_builder.h`: returns whether the size was set successfully |

Other disagreements were seen while modelling. The models do what the code does, and the
properties leave these cases out by a condition that section 4 names, or do not speak of
them:

* `FindAndProcessSegments` uses the first window without a test (`jpeg_scanner.cc:44`),
  although it is null for an unopened stream, an empty segment in memory, or one that begins
  behind the first window, as `data_source.h:72` documents; the model ends in
  `pc = "crashed"`;
* a segment that is read short counts as transferred. If the stream has cached the next one
  before the file was cut, `ExtractGDepthImage` returns true without the middle of the value,
  where `jpeg_image_extractor.h:41` promises an image. In `XmpExtraction`, a source with
  `CacheIsStale` is such a stream, and `TrueMeansAllReceived` without that condition is
  violated;
* a read at the exact end of a stream gives an empty segment that is not null, where
  `data_source.h:67` promises an overlap with the request; the scanner copes;
* a property whose opening quote is the last byte of a segment counts as absent, because
  the location behind it equals `GetEnd()`, which `jpeg_segment.h:121` uses for "not found";
* an EOI without an SOI of its own, behind an image, adds a range that begins where that
  image did (`jpeg_info_builder.cc:51`); `ImagesAreSpans` allows for it;
* a pad in the middle of base64 text is accepted if a transfer happens to end there
  (`base64_decoder_data_destination.cc:46`);
* a sum of the image's end, the offset and the length that wraps around passes the test of
  `ParseFileAfterImageFromStream` (`gcontainer.cc:161`), and the files behind one that
  `WriteImageAndFiles` passed over are nearer to the image than their names suggest;
* an ostream destination that has failed answers `kTransferOk` from then on, so that
  extracting to it again returns true;
* `ExtractImage` returns true although the last group of characters was incomplete, which
  the decoder notices in `FinishTransfer`, while `jpeg_image_extractor.h:41` promises an
  image;
* a literal that overlaps with itself, such as `--a`, is overlooked in `---a` if a piece
  ends inside, against the comment at `data_scanner.cc:268-270`;
* in an error text the caret is one column too far for each unprintable byte before it
  (`data_context.cc:156`), and for the location of a newline the line has no number;
* `FinishTransfer` of the ostream destination flushes and does not look at the result;
* a hex datum that is not valid is left out of a `ByteBuffer`, whose header
  (`byte_buffer.h:24-28`) promises an invalid buffer instead;
* `FindDataLines` reads an uninitialized variable for an empty range; no caller in the
  repository passes one, and the model has none;
* `WriteImageAndFiles` dereferences the stream of an input that could not be opened, after it
  has created the output (`gcontainer.cc:98`).

## 7. What is not modelled, and the plan

Left out of the modelled parts: widths of numbers except in `GContainer` and
`JpegSegmentBuilder` (elsewhere lengths are unbounded naturals; the 16-bit size of a segment
and the 32-bit numbers of the MPF segment do not wrap), ownership and lifetime of buffers,
wording of messages, null destinations, the comparison operators of the info records, and in
`JpegSegments` segments that are too short for their headers.

Not modelled at all: `JpegSegmentLister` (a processor that formats a table, covered by the
any-processor of `JpegScanner`), `MessageWriter`, `StringOutputter`, `CoutMessageWriter` and
`ValidatedNumber` (wording, formatting and parsing, without state that outlives a call).

Order of the work. Done so far:

1. `DataRanges`, `DataSources`, `JpegMarkers`, `JpegScanner` with `JpegSegmentation` as its
   abstract specification; safety proved, refinement proved, liveness checked.
2. `JpegSegments`, `JpegInfoBuilder`; types, images, limit, Apple images, segment infos and
   extended XMP proved.
3. `Base64`, `Base64Decoder`, `XmpExtraction`, which composes the parts of an extraction.
4. `DataTransfers`, `JpegAppleDepthBuilder`, `AppleImageExtraction`, which compose the making
   of a file with the reading of it.
5. `DataLineMap`, `DataScanner`, `TextScan` with `TextTokens` as its abstract specification.
6. `MessageHandler`, `GContainer`.
7. `JpegSegmentBuilder`.

8. `SequenceFolds`, `XmpExtractionProofs` (with `Base64Decoder`), `DataTransferProofs`,
   `JpegAppleDepthBuilderProofs` (with `AppleImageExtraction`), `GContainerProofs`,
   `TextScanProofs`.

Every invariant of the passing runs is proved by now, and so
are the refinements; the end of section 5 says what is not. Open: a model of
`JpegSegmentLister`, if it should ever keep more than counts.

## 8. How to run it

    tlc -config MCJpegScanner.cfg MCJpegScanner.tla
    tlapm JpegScannerProofs.tla
    tlapm JpegInfoBuilderProofs.tla
    tlapm XmpExtractionProofs.tla
    tlapm SequenceFolds.tla
    tlapm DataTransferProofs.tla
    tlapm JpegAppleDepthBuilderProofs.tla
    tlapm GContainerProofs.tla
    tlapm TextScanProofs.tla

Each run of `PROJECT.json` names its module and configuration. `MCJpegSegmentBuilder.cfg` and
the `*Fill`, `*Present`, `*Offset` and `*Stream` configurations end in a counterexample.
