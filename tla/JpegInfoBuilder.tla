-------------------------- MODULE JpegInfoBuilder --------------------------
(***************************************************************************)
(* JpegInfoBuilder of src/jpeg/jpeg_info_builder.cc: the processor that    *)
(* notes where in a file the images, the JFIF, EXIF and MPF segments, the  *)
(* Apple depth and matte images and the GDepth and GImage data are.        *)
(*                                                                         *)
(* The JpegScanner calls Start, then Process with one segment after the    *)
(* other, in the order of the file, and then Finish: when it was told that *)
(* it is done, or where the data ends, which may be anywhere.  The bytes   *)
(* of a segment are all there (SegmentInWindows of JpegScanner), so        *)
(* capturing them succeeds.  A builder serves one scan.                    *)
(***************************************************************************)
EXTENDS JpegSegments

CONSTANTS Families,       \* sorts of files: [kinds, limits, length], the kinds of their
                          \* segments, values of SetImageLimit, bound of the segments
          Captures        \* sets of types passed to SetCaptureSegmentBytes

ASSUME FamiliesAssumption ==
    \A f \in Families :
        /\ f.length \in Nat /\ f.limits \subseteq Int
        /\ \A kind \in f.kinds : kind.text \in Seq(ToSet(kind.text))

VARIABLES
    phase,            \* "new", "scanning" or "finished"
    family,           \* the sort of file that is scanned
    seen,             \* history: the segments processed, [kind, range]
    image_limit,      \* image_limit_
    captures,         \* capture_segment_bytes_types_
    done,             \* the scanner's done_
    interesting,      \* the scanner's interesting_marker_flags_
    image_count,      \* image_count_
    mpf_count,        \* image_mpf_count_
    depth_count,      \* image_xmp_apple_depth_count_
    matte_count,      \* image_xmp_apple_matte_count_
    soi,              \* most_recent_soi_marker_range_
    primary_guid,     \* primary_xmp_guid_
    xmp_builders,     \* gdepth_info_builder_, gimage_info_builder_
    jpeg_info         \* jpeg_info_

config == <<family, image_limit, captures>>
counts == <<mpf_count, depth_count, matte_count>>
xmp    == <<primary_guid, xmp_builders>>
vars   == <<phase, seen, config, done, interesting, image_count, counts, soi, xmp,
            jpeg_info>>

Kinds == UNION {f.kinds : f \in Families}

InfoTypes == {"JFIF", "Exif", "MPF"}

SegmentInfo == [image_index : Nat, range : DataRange, type : InfoTypes,
                captured : BOOLEAN]

EmptyInfo ==
    [image_ranges  |-> <<>>,
     segment_infos |-> <<>>,
     depth         |-> InvalidRange,
     matte         |-> InvalidRange,
     mimes         |-> [t \in XmpTypes |-> ""],
     xmp_ranges    |-> [t \in XmpTypes |-> <<>>]]

TypeOK ==
    /\ phase \in {"new", "scanning", "finished"}
    /\ seen \in Seq([kind : Kinds, range : DataRange])
    /\ family \in Families
    /\ image_limit \in family.limits
    /\ captures \in Captures
    /\ done \in BOOLEAN
    /\ interesting \subseteq {"SOI", "EOI", "APP0", "APP1", "APP2"}
    /\ image_count \in Nat
    /\ \A count \in {mpf_count, depth_count, matte_count} :
          count \in [1 .. image_count -> Nat]
    /\ soi \in DataRange
    /\ primary_guid \in {<<>>} \cup {kind.guid : kind \in Kinds}
    /\ xmp_builders \in [XmpTypes -> XmpInfoBuilder]
    /\ jpeg_info.image_ranges \in Seq(DataRange)
    /\ jpeg_info.segment_infos \in Seq(SegmentInfo)
    /\ jpeg_info.depth \in DataRange /\ jpeg_info.matte \in DataRange
    /\ jpeg_info.xmp_ranges \in [XmpTypes -> Seq(DataRange)]

Init ==
    /\ phase = "new" /\ seen = <<>>
    /\ family \in Families
    /\ image_limit \in family.limits
    /\ captures \in Captures
    /\ done = FALSE /\ interesting = {}
    /\ image_count = 0
    /\ mpf_count = <<>> /\ depth_count = <<>> /\ matte_count = <<>>
    /\ soi = InvalidRange
    /\ primary_guid = <<>>
    /\ xmp_builders = [t \in XmpTypes |-> NewXmpInfoBuilder]
    /\ jpeg_info = EmptyInfo

Start ==
    /\ phase = "new"
    /\ phase' = "scanning"
    /\ interesting' = {"SOI", "EOI", "APP0", "APP1", "APP2"}
    /\ UNCHANGED <<seen, config, done, image_count, counts, soi, xmp, jpeg_info>>

\* The scanner passes on the next segment of the file.
Arrives(kind, range) ==
    /\ phase = "scanning" /\ ~done
    /\ Len(seen) < family.length
    /\ kind.marker \in interesting
    /\ seen' = Append(seen, [kind |-> kind, range |-> range])
    /\ UNCHANGED <<phase, config, interesting>>

\* Mutant: no count of matte segments is added for the new image.
ProcessSOIWithoutMatte(kind, range) ==
    /\ kind.marker = "SOI"
    /\ image_count' = image_count + 1
    /\ mpf_count' = Append(mpf_count, 0)
    /\ depth_count' = Append(depth_count, 0)
    /\ soi' = range
    /\ UNCHANGED <<done, matte_count, xmp, jpeg_info>>

ProcessSOI(kind, range) ==
    /\ kind.marker = "SOI"
    /\ image_count' = image_count + 1
    /\ mpf_count' = Append(mpf_count, 0)
    /\ depth_count' = Append(depth_count, 0)
    /\ matte_count' = Append(matte_count, 0)
    /\ soi' = range
    /\ UNCHANGED <<done, xmp, jpeg_info>>

\* Mutant: the primary image need not have an MPF segment.
HasAppleImageWithoutMpf(count) ==
    \E image \in 2 .. Len(count) : count[image] > 0

\* HasAppleDepth and HasAppleMatte: the primary image has an MPF segment, and an
\* image after it an XMP segment with the id that is counted.
HasAppleImage(count) ==
    /\ image_count > 1 /\ mpf_count[1] > 0
    /\ \E image \in 2 .. Len(count) : count[image] > 0

\* Mutant: a later image takes the place of the Apple image.
ReplaceAppleImage(old, count, image) == IF HasAppleImage(count) THEN image ELSE old

AppleImage(old, count, image) ==
    IF HasAppleImage(count) /\ ~IsValid(old) THEN image ELSE old

\* Mutant: one image too many.
LimitExceeded == image_count > image_limit

LimitReached == image_count >= image_limit

\* Mutant: the image begins where the one before it ends.
ImageFromLastEnd(range) ==
    NewRange(IF jpeg_info.image_ranges = <<>> THEN soi.begin
             ELSE Last(jpeg_info.image_ranges).end,
             range.end)

\* The range from the last SOI to the EOI.
ImageUpTo(range) == NewRange(soi.begin, range.end)

ProcessEOI(kind, range) ==
    /\ kind.marker = "EOI"
    /\ LET image == ImageUpTo(range)
       IN  IF IsValid(soi)
           THEN /\ jpeg_info' = [jpeg_info EXCEPT
                       !.image_ranges = Append(@, image),
                       !.depth = AppleImage(@, depth_count, image),
                       !.matte = AppleImage(@, matte_count, image)]
                /\ done' = LimitReached
           ELSE UNCHANGED <<jpeg_info, done>>
    /\ UNCHANGED <<image_count, counts, soi, xmp>>

\* Mutant: the index of the image is counted from 1.
AddInfoFromOne(type, range) ==
    jpeg_info' = [jpeg_info EXCEPT !.segment_infos =
        Append(@, [image_index |-> image_count, range |-> range, type |-> type,
                   captured |-> type \in captures])]

AddSegmentInfo(type, range) ==
    jpeg_info' = [jpeg_info EXCEPT !.segment_infos =
        Append(@, [image_index |-> image_count - 1, range |-> range, type |-> type,
                   captured |-> type \in captures])]

ProcessAPP0(kind, range) ==
    /\ kind.marker = "APP0"
    /\ IF image_count > 0 /\ kind.starts = "JFIF"
       THEN AddSegmentInfo("JFIF", range)
       ELSE UNCHANGED jpeg_info
    /\ UNCHANGED <<done, image_count, counts, soi, xmp>>

ProcessAPP2(kind, range) ==
    /\ kind.marker = "APP2"
    /\ IF image_count > 0 /\ kind.starts = "MPF"
       THEN /\ mpf_count' = [mpf_count EXCEPT ![image_count] = @ + 1]
            /\ AddSegmentInfo("MPF", range)
       ELSE UNCHANGED <<mpf_count, jpeg_info>>
    /\ UNCHANGED <<done, image_count, depth_count, matte_count, soi, xmp>>

\* A primary XMP segment that mentions both Apple ids counts for the depth only.
ProcessPrimaryXmp(kind) ==
    /\ kind.marker = "APP1" /\ kind.starts = "xmp"
    /\ IF image_count > 1 /\ "depth" \in kind.ids
       THEN depth_count' = [depth_count EXCEPT ![image_count] = @ + 1]
       ELSE UNCHANGED depth_count
    /\ IF image_count > 1 /\ "depth" \notin kind.ids /\ "matte" \in kind.ids
       THEN matte_count' = [matte_count EXCEPT ![image_count] = @ + 1]
       ELSE UNCHANGED matte_count
    /\ IF image_count = 1 /\ kind.ids \cap XmpTypes # {}
       THEN /\ primary_guid' = kind.guid
            /\ jpeg_info' = [jpeg_info EXCEPT !.mimes = kind.mimes]
       ELSE UNCHANGED <<primary_guid, jpeg_info>>
    /\ UNCHANGED <<done, image_count, mpf_count, soi, xmp_builders>>

HasMatchingExtendedXmpGuid(guid) == primary_guid # <<>> /\ IsPrefix(primary_guid, guid)

ProcessExtendedXmp(kind, range) ==
    /\ kind.marker = "APP1" /\ kind.starts = "extendedXmp"
    /\ xmp_builders' =
          IF image_count = 1 /\ HasMatchingExtendedXmpGuid(kind.guid)
          THEN [t \in XmpTypes |->
                   ProcessSegment(xmp_builders[t], t, range, kind.text)]
          ELSE xmp_builders
    /\ UNCHANGED <<done, image_count, counts, soi, primary_guid, jpeg_info>>

ProcessOtherAPP1(kind, range) ==
    /\ kind.marker = "APP1" /\ kind.starts \notin {"xmp", "extendedXmp"}
    /\ IF image_count > 0 /\ kind.starts = "Exif"
       THEN AddSegmentInfo("Exif", range)
       ELSE UNCHANGED jpeg_info
    /\ UNCHANGED <<done, image_count, counts, soi, xmp>>

Process ==
    \E kind \in family.kinds :
        LET range == SegmentRange(kind, IF seen = <<>> THEN 0 ELSE Last(seen).range.end)
        IN  /\ Arrives(kind, range)
            /\ \/ ProcessSOI(kind, range)
               \/ ProcessEOI(kind, range)
               \/ ProcessAPP0(kind, range)
               \/ ProcessAPP2(kind, range)
               \/ ProcessPrimaryXmp(kind)
               \/ ProcessExtendedXmp(kind, range)
               \/ ProcessOtherAPP1(kind, range)

Finish ==
    /\ phase = "scanning"
    /\ phase' = "finished"
    /\ jpeg_info' = [jpeg_info EXCEPT !.xmp_ranges =
                        [t \in XmpTypes |-> xmp_builders[t].ranges]]
    /\ UNCHANGED <<seen, config, done, interesting, image_count, counts, soi, xmp>>

Next == Start \/ Process \/ Finish

Spec == Init /\ [][Next]_vars
-----------------------------------------------------------------------------
(***************************************************************************)
(* What the file holds, read off the segments processed.                   *)
(***************************************************************************)
Places(marker, upto) == {i \in 1 .. upto : seen[i].kind.marker = marker}

\* How many images have begun by the i-th segment.
ImageOf(i) == Cardinality(Places("SOI", i))

\* A file whose images follow one another: SOI and EOI alternate.
WellFormed ==
    \A i \in 1 .. Len(seen) :
        LET open == ImageOf(i) - Cardinality(Places("EOI", i))
        IN  open = IF seen[i].kind.marker = "EOI" THEN 0 ELSE 1

\* What the XMP identifiers mark in an APP1 segment only.
IsXmp(kind, id) == kind.marker = "APP1" /\ kind.starts = id

IsMpf(kind) == kind.marker = "APP2" /\ kind.starts = "MPF"

\* The segments that continue the extended XMP of the primary image: the guid to
\* match is that of the last primary XMP segment with GDepth or GImage before them.
GuidAt(i) ==
    LET primaries == {j \in 1 .. i - 1 : /\ ImageOf(j) = 1
                                         /\ IsXmp(seen[j].kind, "xmp")
                                         /\ seen[j].kind.ids \cap XmpTypes # {}}
    IN  IF primaries = {} THEN <<>> ELSE seen[Max(primaries)].kind.guid

IsExtension(i) ==
    /\ IsXmp(seen[i].kind, "extendedXmp")
    /\ ImageOf(i) = 1
    /\ GuidAt(i) # <<>> /\ IsPrefix(GuidAt(i), seen[i].kind.guid)

Extensions == {i \in 1 .. Len(seen) : IsExtension(i)}

-----------------------------------------------------------------------------
(***************************************************************************)
(* Properties.                                                             *)
(***************************************************************************)

InOrder(images) ==
    \A m, n \in 1 .. Len(images) : m < n =>
        /\ images[m].end < images[n].end
        /\ images[m].begin = images[n].begin \/ images[m].end <= images[n].begin

\* The image reaches from an SOI to an EOI, with no SOI between.
Span(image) ==
    \E i, j \in 1 .. Len(seen) :
        /\ i < j
        /\ seen[i].kind.marker = "SOI" /\ seen[j].kind.marker = "EOI"
        /\ image = NewRange(seen[i].range.begin, seen[j].range.end)
        /\ \A k \in i + 1 .. j : seen[k].kind.marker # "SOI"

\* The image ranges come in the order of their ends, each from an SOI to an EOI
\* with no SOI between, and two of them are disjoint unless an EOI was repeated.
ImagesAreSpans ==
    /\ InOrder(jpeg_info.image_ranges)
    /\ \A n \in 1 .. Len(jpeg_info.image_ranges) : Span(jpeg_info.image_ranges[n])

\* In a file of complete images, the image that is taken for the depth (or matte)
\* image holds an XMP segment that says so, and is not the primary image, which
\* holds an MPF segment.
HoldsItsXmp(image, id) ==
    IsValid(image) =>
        /\ \E n \in 2 .. Len(jpeg_info.image_ranges) :
              image = jpeg_info.image_ranges[n]
        /\ \E i \in 1 .. Len(seen) :
              seen[i].kind.starts = "xmp" /\ id \in seen[i].kind.ids
                 /\ ContainsRange(image, seen[i].range)
        /\ \E i \in 1 .. Len(seen) :
              seen[i].kind.starts = "MPF"
                 /\ ContainsRange(jpeg_info.image_ranges[1], seen[i].range)

AppleImagesHoldTheirXmp ==
    WellFormed => /\ HoldsItsXmp(jpeg_info.depth, "depth")
                  /\ HoldsItsXmp(jpeg_info.matte, "matte")

\* What is counted for an image: a segment with both ids is a hint of the depth only.
HintsAt(kind, id) ==
    IsXmp(kind, "xmp") /\ id \in kind.ids /\ (id = "matte" => "depth" \notin kind.ids)

IsFirstHinted(image, id) ==
    (\E j \in 1 .. Len(seen) : IsMpf(seen[j].kind) /\ ImageOf(j) = 1) =>
        \A i \in 1 .. Len(seen) :
            HintsAt(seen[i].kind, id) /\ ImageOf(i) \in 2 .. Len(jpeg_info.image_ranges) =>
                \E n \in 2 .. ImageOf(i) : image = jpeg_info.image_ranges[n]

\* In a file of complete images whose primary image holds an MPF segment, the depth
\* (or matte) image is never one behind another that holds the XMP segment which says
\* so: none of these is overlooked once it is complete, and none takes the place of an
\* earlier one.
AppleImagesAreFirst ==
    WellFormed => /\ IsFirstHinted(jpeg_info.depth, "depth")
                  /\ IsFirstHinted(jpeg_info.matte, "matte")

\* No segment is taken in after the first image that ends with as many images
\* begun as the limit (SetImageLimit): at most one image ends behind that SOI.
LimitEndsTheScan ==
    \A i \in 1 .. Len(seen) :
        seen[i].kind.marker = "SOI" /\ ImageOf(i) >= image_limit =>
            \A j \in i + 1 .. Len(seen) :
                seen[j].kind.marker = "EOI" => j = Len(seen)

\* In a file of complete images the index of a segment info is that of the image
\* range it lies in: JpegAppleDepthBuilder takes GetImageRanges()[0] and
\* GetSegmentInfo(0, type) for parts of the same image.
InfosLieInTheirImages ==
    WellFormed =>
        \A n \in 1 .. Len(jpeg_info.segment_infos) :
            LET info == jpeg_info.segment_infos[n]
            IN  info.image_index < Len(jpeg_info.image_ranges) =>
                   ContainsRange(jpeg_info.image_ranges[info.image_index + 1], info.range)

\* The k-th symbol of a text is the name of name=", with more of the text behind it;
\* the name does not occur before.
OpensAt(text, type, k) ==
    /\ k \in 1 .. Len(text) - 2
    /\ text[k] = type /\ text[k + 1] = Quote
    /\ \A earlier \in 1 .. k - 1 : text[earlier] # type

Opens(text, type) == \E k \in 1 .. Len(text) : OpensAt(text, type, k)

TextOf(range) ==
    seen[CHOOSE i \in 1 .. Len(seen) : seen[i].range = range].kind.text

TextsOf(ranges) == [n \in 1 .. Len(ranges) |-> TextOf(ranges[n])]

\* How much of the first text comes before the value.
ValueOffset(type, ranges) ==
    LET text == TextOf(ranges[1])
    IN  (CHOOSE k \in 1 .. Len(text) : OpensAt(text, type, k)) + 1

\* The text that the segments with these ranges hold together, from the place
\* behind name=" in the first of them.
TextAfterName(type, ranges) ==
    LET text == FlattenSeq(TextsOf(ranges))
    IN  SubSeq(text, ValueOffset(type, ranges) + 1, Len(text))

\* The ranges are those of the segments at these places, in the order of the file.
AreRangesAt(ranges, places) ==
    /\ ToSet(ranges) = {seen[i].range : i \in places}
    /\ \A m, n \in 1 .. Len(ranges) : m < n => ranges[m].end <= ranges[n].begin

\* The ranges collected for a property are those of extensions that follow one
\* another without a gap.  The first one holds name=", which no extension before it
\* does, and the value goes on through all of them: its closing quote is in the last,
\* or nowhere yet.  If none are collected then no extension opens the value.
XmpRangesHoldTheValue ==
    \A type \in XmpTypes :
        LET ranges == xmp_builders[type].ranges
        IN  IF ranges = <<>>
            THEN \A i \in Extensions : ~Opens(seen[i].kind.text, type)
            ELSE
              LET text == TextAfterName(type, ranges)
                  tail == Len(TextOf(Last(ranges)))
                  ends == {n \in 1 .. Len(text) : text[n] = Quote}
              IN  /\ Opens(TextOf(ranges[1]), type)
                  /\ \E first, last \in Extensions :
                        /\ AreRangesAt(ranges, Extensions \cap (first .. last))
                        /\ \A i \in Extensions :
                              i < first => ~Opens(seen[i].kind.text, type)
                        /\ ends = {} => \A i \in Extensions : i <= last
                  /\ \A n \in ends : n > Len(text) - tail
=============================================================================
