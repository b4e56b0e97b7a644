----------------------- MODULE JpegInfoBuilderProofs -----------------------
(***************************************************************************)
(* Theorems about JpegInfoBuilder, for files of any length and any kinds   *)
(* of segments.  There are three parts, each with an invariant of its own: *)
(* what was noted of the images (Inv), which image it belongs to           *)
(* (Belongs), and what the XMP builders collected (GuidOK and XmpOK).      *)
(***************************************************************************)
EXTENDS JpegInfoBuilder, FiniteSetTheorems, SequenceTheorems, TLAPS

-----------------------------------------------------------------------------
(***************************************************************************)
(* The inductive invariant.                                                *)
(***************************************************************************)

\* The types of jpeg_info as a whole, of which TypeOK names the fields.
Mimes == {kind.mimes : kind \in Kinds} \cup {[t \in XmpTypes |-> ""]}

Info == [image_ranges  : Seq(DataRange),
         segment_infos : Seq(SegmentInfo),
         depth         : DataRange,
         matte         : DataRange,
         mimes         : Mimes,
         xmp_ranges    : [XmpTypes -> Seq(DataRange)]]

Types == TypeOK /\ jpeg_info \in Info

\* Where the next segment begins.
Position == IF seen = <<>> THEN 0 ELSE Last(seen).range.end

\* The segments follow one another, and none is empty.
SeenOK ==
    /\ \A i \in 1 .. Len(seen) :
          /\ seen[i].range.begin < seen[i].range.end
          /\ seen[i].range.end <= Position
    /\ \A i, j \in 1 .. Len(seen) :
          i < j => seen[i].range.end <= seen[j].range.begin

\* The last SOI is the last one seen, and is valid as soon as there is one.
SoiOK ==
    /\ IsValid(soi) =>
          \E i \in 1 .. Len(seen) :
              /\ seen[i].kind.marker = "SOI" /\ soi = seen[i].range
              /\ \A k \in i + 1 .. Len(seen) : seen[k].kind.marker # "SOI"
    /\ (\E i \in 1 .. Len(seen) : seen[i].kind.marker = "SOI") => IsValid(soi)

\* No image begins between the last SOI and the last segment, or ends behind it.
ImagesOK ==
    \A n \in 1 .. Len(jpeg_info.image_ranges) :
        LET image == jpeg_info.image_ranges[n]
        IN  /\ image.end <= Position
            /\ IsValid(soi)
            /\ image.begin = soi.begin \/ image.end <= soi.begin

\* The images counted are the SOIs seen.
CountOK == image_count = ImageOf(Len(seen))

\* An EOI behind an SOI with which the limit is reached ends the scan at once.
DoneOK ==
    \A i, j \in 1 .. Len(seen) :
        /\ seen[i].kind.marker = "SOI" /\ ImageOf(i) >= image_limit
        /\ i < j /\ seen[j].kind.marker = "EOI"
        => done /\ j = Len(seen)

Inv ==
    /\ Types
    /\ SeenOK
    /\ SoiOK
    /\ ImagesOK
    /\ ImagesAreSpans
    /\ CountOK
    /\ DoneOK

-----------------------------------------------------------------------------
(***************************************************************************)
(* What the operators return.                                              *)
(***************************************************************************)
\* A segment is not empty, and begins where it is put.
LEMMA SegmentRangeType ==
    ASSUME NEW kind \in Kinds, NEW begin \in Nat
    PROVE  /\ SegmentRange(kind, begin) \in DataRange
           /\ SegmentRange(kind, begin).begin = begin
           /\ begin < SegmentRange(kind, begin).end
<1>1. Len(kind.text) \in Nat
  BY FamiliesAssumption DEF Kinds
<1>2. SegmentLength(kind) \in Nat /\ SegmentLength(kind) > 0
  BY <1>1, HeaderLengthAssumption DEF SegmentLength
<1> HIDE DEF SegmentLength
<1> QED
  BY <1>2 DEF SegmentRange, NewRange, DataRange

\* The default range is typed, and not valid.
LEMMA InvalidRangeType == InvalidRange \in DataRange /\ ~IsValid(InvalidRange)
  BY DEF InvalidRange, NewRange, DataRange, IsValid

\* JpegXmpInfoBuilder::ProcessSegment keeps the types of its members.
LEMMA ProcessSegmentType ==
    ASSUME NEW builder \in XmpInfoBuilder, NEW type, NEW range \in DataRange, NEW text
    PROVE  ProcessSegment(builder, type, range, text) \in XmpInfoBuilder
<1> DEFINE result == ProcessSegment(builder, type, range, text)
<1>1. builder.ranges \in Seq(DataRange) /\ builder.property_end \in DataRange
  BY DEF XmpInfoBuilder
<1>2. /\ result.ranges \in {builder.ranges, Append(builder.ranges, range)}
      /\ result.property_end \in {builder.property_end, range}
      /\ result = [ranges |-> result.ranges, property_end |-> result.property_end]
  BY DEF ProcessSegment
<1>3. Append(builder.ranges, range) \in Seq(DataRange)
  BY <1>1
<1> HIDE DEF result
<1>4. result \in XmpInfoBuilder
  BY <1>1, <1>2, <1>3 DEF XmpInfoBuilder
<1> QED
  BY <1>4 DEF result

\* Each segment seen has a kind and a range.
LEMMA SeenElements ==
    ASSUME TypeOK
    PROVE  /\ Len(seen) \in Nat
           /\ \A i \in 1 .. Len(seen) :
                 seen[i].kind \in Kinds /\ seen[i].range \in DataRange
<1> DEFINE S == [kind : Kinds, range : DataRange]
<1>1. seen \in Seq(S)
  BY DEF TypeOK
<1> HIDE DEF S
<1>2. Len(seen) \in Nat /\ \A i \in 1 .. Len(seen) : seen[i] \in S
  BY <1>1, LenProperties, ElementOfSeq
<1> QED
  BY <1>2 DEF S

\* The next segment begins at a location.
LEMMA PositionType ==
    ASSUME TypeOK
    PROVE  Position \in Nat
<1>1. CASE seen = <<>>
  BY <1>1 DEF Position
<1>2. CASE seen # <<>>
  <2>1. Len(seen) \in 1 .. Len(seen)
    <3>1. seen \in Seq([kind : Kinds, range : DataRange])
      BY DEF TypeOK
    <3> QED
      BY <1>2, <3>1, EmptySeq, LenProperties
  <2>2. seen[Len(seen)].range \in DataRange
    BY <2>1, SeenElements
  <2> QED
    BY <1>2, <2>2 DEF Position, Last, DataRange
<1> QED
  BY <1>1, <1>2

\* What a segment that arrives does to the history of segments.
Arrived(kind, range) ==
    /\ range \in DataRange
    /\ Position <= range.begin /\ range.begin < range.end
    /\ Len(seen) \in Nat
    /\ seen' \in Seq([kind : Kinds, range : DataRange])
    /\ Len(seen') = Len(seen) + 1
    /\ \A i \in 1 .. Len(seen) : seen'[i] = seen[i]
    /\ seen'[Len(seen) + 1] = [kind |-> kind, range |-> range]
    /\ Position' = range.end

\* Every segment that the scanner passes on arrives so.
LEMMA ArrivalFacts ==
    ASSUME TypeOK, NEW kind \in family.kinds, NEW range,
           range = SegmentRange(kind, Position), Arrives(kind, range)
    PROVE  kind \in Kinds /\ Arrived(kind, range)
<1>1. kind \in Kinds
  BY DEF TypeOK, Kinds
<1>2. Position \in Nat
  BY PositionType
<1>3. /\ range \in DataRange
      /\ Position <= range.begin /\ range.begin < range.end
  BY <1>1, <1>2, SegmentRangeType
<1> DEFINE S == [kind : Kinds, range : DataRange]
           new == [kind |-> kind, range |-> range]
<1>4. seen \in Seq(S) /\ new \in S
  BY <1>1, <1>3 DEF TypeOK
<1>5. seen' = Append(seen, new)
  BY DEF Arrives
<1> HIDE DEF S, new
<1>6. /\ seen' \in Seq(S) /\ seen' # <<>>
      /\ Len(seen) \in Nat /\ Len(seen') = Len(seen) + 1
      /\ \A i \in 1 .. Len(seen) : seen'[i] = seen[i]
      /\ seen'[Len(seen) + 1] = new
  BY <1>4, <1>5, AppendProperties
<1>7. Position' = new.range.end
  BY <1>6 DEF Position, Last
<1> QED
  BY <1>1, <1>3, <1>6, <1>7 DEF Arrived, S, new

\* SeenOK is kept by every segment that arrives.
LEMMA SeenInv ==
    ASSUME TypeOK, SeenOK, NEW kind, NEW range, Arrived(kind, range)
    PROVE  SeenOK'
<1> DEFINE n == Len(seen)
<1>1. Position \in Nat
  BY PositionType
<1>2. \A i \in 1 .. n : seen[i].range \in DataRange
  BY SeenElements
<1>3. \A i \in 1 .. n + 1 : i \in 1 .. n \/ i = n + 1
  BY DEF Arrived
<1>4. ASSUME NEW i \in 1 .. n + 1
      PROVE  seen'[i].range.begin < seen'[i].range.end /\ seen'[i].range.end <= Position'
  <2>1. CASE i \in 1 .. n
    BY <1>1, <1>2, <2>1 DEF Arrived, SeenOK, DataRange
  <2>2. CASE i = n + 1
    BY <2>2 DEF Arrived, DataRange
  <2> QED
    BY <1>3, <2>1, <2>2
<1>5. ASSUME NEW i \in 1 .. n + 1, NEW j \in 1 .. n + 1, i < j
      PROVE  seen'[i].range.end <= seen'[j].range.begin
  <2>1. i \in 1 .. n
    BY <1>5 DEF Arrived
  <2>2. CASE j \in 1 .. n
    BY <1>5, <2>1, <2>2 DEF Arrived, SeenOK
  <2>3. CASE j = n + 1
    BY <1>1, <1>2, <2>1, <2>3 DEF Arrived, SeenOK, DataRange
  <2> QED
    BY <1>3, <2>2, <2>3
<1> QED
  BY <1>4, <1>5 DEF SeenOK, Arrived

-----------------------------------------------------------------------------
(***************************************************************************)
(* Counting the images.                                                    *)
(***************************************************************************)
\* The places of a marker can be counted.
LEMMA PlacesFinite ==
    ASSUME NEW marker, NEW upto \in Nat
    PROVE  /\ IsFiniteSet(Places(marker, upto))
           /\ Cardinality(Places(marker, upto)) \in Nat
<1>1. IsFiniteSet(1 .. upto)
  BY FS_Interval
<1>2. Places(marker, upto) \subseteq 1 .. upto
  BY DEF Places
<1> QED
  BY <1>1, <1>2, FS_Subset, FS_CardinalityType

\* Later segments lie in the same image or in later ones.
LEMMA ImageOfGrows ==
    ASSUME NEW i \in Nat, NEW j \in Nat, i <= j
    PROVE  ImageOf(i) \in Nat /\ ImageOf(j) \in Nat /\ ImageOf(i) <= ImageOf(j)
<1>1. Places("SOI", i) \subseteq Places("SOI", j)
  BY DEF Places
<1> QED
  BY <1>1, PlacesFinite, FS_Subset DEF ImageOf

\* A segment adds an image if it is an SOI, and changes nothing of those before.
LEMMA ImagesCounted ==
    ASSUME NEW kind, NEW range, Arrived(kind, range), NEW n \in Nat, n = Len(seen)
    PROVE  /\ \A i \in 1 .. n : ImageOf(i)' = ImageOf(i)
           /\ kind.marker = "SOI" => ImageOf(n + 1)' = ImageOf(n) + 1
           /\ kind.marker # "SOI" => ImageOf(n + 1)' = ImageOf(n)
<1>1. \A i \in 1 .. n : seen'[i].kind = seen[i].kind
  BY DEF Arrived
<1>2. seen'[n + 1].kind = kind
  BY DEF Arrived
<1>3. \A i \in 1 .. n : ImageOf(i)' = ImageOf(i)
  <2>1. \A i \in 1 .. n : Places("SOI", i)' = Places("SOI", i)
    BY <1>1 DEF Places
  <2> QED
    BY <2>1 DEF ImageOf
<1>4. \A i \in 1 .. n + 1 : i \in 1 .. n \/ i = n + 1
  OBVIOUS
<1>5. ASSUME kind.marker = "SOI"
      PROVE  ImageOf(n + 1)' = ImageOf(n) + 1
  <2>1. Places("SOI", n + 1)' = Places("SOI", n) \cup {n + 1}
    BY <1>1, <1>2, <1>4, <1>5 DEF Places
  <2>2. n + 1 \notin Places("SOI", n)
    BY DEF Places
  <2> QED
    BY <2>1, <2>2, PlacesFinite, FS_AddElement DEF ImageOf
<1>6. ASSUME kind.marker # "SOI"
      PROVE  ImageOf(n + 1)' = ImageOf(n)
  <2>1. Places("SOI", n + 1)' = Places("SOI", n)
    BY <1>1, <1>2, <1>4, <1>6 DEF Places
  <2> QED
    BY <2>1 DEF ImageOf
<1> QED
  BY <1>3, <1>5, <1>6

-----------------------------------------------------------------------------
(***************************************************************************)
(* The images.                                                             *)
(***************************************************************************)

\* An image seen stays one, whatever comes.
LEMMA SpanStays ==
    ASSUME NEW kind, NEW range, Arrived(kind, range), NEW image, Span(image)
    PROVE  Span(image)'
<1> PICK i \in 1 .. Len(seen), j \in 1 .. Len(seen) :
        /\ i < j
        /\ seen[i].kind.marker = "SOI" /\ seen[j].kind.marker = "EOI"
        /\ image = NewRange(seen[i].range.begin, seen[j].range.end)
        /\ \A k \in i + 1 .. j : seen[k].kind.marker # "SOI"
  BY DEF Span
<1>1. i \in 1 .. Len(seen') /\ j \in 1 .. Len(seen')
  BY DEF Arrived
<1>2. seen'[i] = seen[i] /\ seen'[j] = seen[j]
  BY DEF Arrived
<1>3. \A k \in i + 1 .. j : k \in 1 .. Len(seen) /\ seen'[k] = seen[k]
  BY DEF Arrived
<1> QED
  BY <1>1, <1>2, <1>3 DEF Span

\* The image ranges are a sequence of ranges.
LEMMA ImagesTyped ==
    ASSUME Types
    PROVE  /\ jpeg_info.image_ranges \in Seq(DataRange)
           /\ Len(jpeg_info.image_ranges) \in Nat
           /\ \A n \in 1 .. Len(jpeg_info.image_ranges) :
                 jpeg_info.image_ranges[n] \in DataRange
<1> DEFINE images == jpeg_info.image_ranges
<1>1. images \in Seq(DataRange)
  BY DEF Types, Info
<1> HIDE DEF images
<1>2. Len(images) \in Nat /\ \A n \in 1 .. Len(images) : images[n] \in DataRange
  BY <1>1, LenProperties, ElementOfSeq
<1> QED
  BY <1>1, <1>2 DEF images

\* The second part.
AllSpans ==
    \A n \in 1 .. Len(jpeg_info.image_ranges) : Span(jpeg_info.image_ranges[n])

\* ImagesAreSpans, in two parts.
LEMMA SpansSplit ==
    ImagesAreSpans <=> InOrder(jpeg_info.image_ranges) /\ AllSpans
BY DEF ImagesAreSpans, AllSpans

\* ImagesAreSpans in the next state.
LEMMA SpansNext ==
    ASSUME NEW images, jpeg_info'.image_ranges = images, InOrder(images),
           \A n \in 1 .. Len(images) : Span(images[n])'
    PROVE  ImagesAreSpans'
<1>1. InOrder(jpeg_info.image_ranges)'
  BY DEF InOrder
<1>2. ASSUME NEW n \in 1 .. Len(jpeg_info'.image_ranges)
      PROVE  \E i, j \in 1 .. Len(seen') :
                /\ i < j
                /\ seen'[i].kind.marker = "SOI" /\ seen'[j].kind.marker = "EOI"
                /\ jpeg_info'.image_ranges[n]
                      = NewRange(seen'[i].range.begin, seen'[j].range.end)
                /\ \A k \in i + 1 .. j : seen'[k].kind.marker # "SOI"
  <2> PICK image : image = images[n]
    OBVIOUS
  <2>1. Span(image)'
    OBVIOUS
  <2>2. jpeg_info'.image_ranges[n] = image
    OBVIOUS
  <2> QED
    BY <2>1, <2>2 DEF Span
<1>3. AllSpans'
  BY <1>2 DEF AllSpans, Span
<1> QED
  BY <1>1, <1>3, SpansSplit, PTL

\* Nothing is said of an image limit that is reached before, since the scan goes on.
LEMMA NoLimitBefore ==
    ASSUME DoneOK, ~done
    PROVE  \A i, j \in 1 .. Len(seen) :
              ~ (/\ seen[i].kind.marker = "SOI" /\ ImageOf(i) >= image_limit
                 /\ i < j /\ seen[j].kind.marker = "EOI")
BY DEF DoneOK

\* A segment that is no EOI leaves nothing to stop at.
LEMMA NoEOI ==
    ASSUME DoneOK, ~done, NEW kind, NEW range, Arrived(kind, range),
           kind.marker # "EOI", image_limit' = image_limit
    PROVE  DoneOK'
<1>n. PICK n \in Nat : n = Len(seen)
  BY DEF Arrived
<1>1. ASSUME NEW i \in 1 .. n + 1, NEW j \in 1 .. n + 1,
             /\ seen'[i].kind.marker = "SOI" /\ ImageOf(i)' >= image_limit
             /\ i < j /\ seen'[j].kind.marker = "EOI"
      PROVE  FALSE
  <2>1. j \in 1 .. n
    <3>1. j # n + 1
      BY <1>1, <1>n DEF Arrived
    <3> QED
      BY <3>1
  <2>2. i \in 1 .. n
    BY <1>1, <2>1
  <2>3. /\ seen[i].kind.marker = "SOI" /\ ImageOf(i) >= image_limit
        /\ i < j /\ seen[j].kind.marker = "EOI"
    BY <1>1, <1>n, <2>1, <2>2, ImagesCounted DEF Arrived
  <2> QED
    BY <1>n, <2>1, <2>2, <2>3, NoLimitBefore
<1>2. Len(seen') = n + 1
  BY <1>n DEF Arrived
<1> QED
  BY <1>1, <1>2 DEF DoneOK

\* A segment that is no SOI leaves the last SOI what it was.
LEMMA NoSOI ==
    ASSUME SoiOK, NEW kind, NEW range, Arrived(kind, range), kind.marker # "SOI",
           soi' = soi
    PROVE  SoiOK'
<1>n. PICK n \in Nat : n = Len(seen)
  BY DEF Arrived
<1>2. /\ Len(seen') = n + 1 /\ seen'[n + 1].kind.marker # "SOI"
      /\ \A i \in 1 .. n : seen'[i] = seen[i]
  BY <1>n DEF Arrived
<1>3. \A i \in 1 .. n + 1 : i \in 1 .. n \/ i = n + 1
  OBVIOUS
<1>4. ASSUME IsValid(soi)
      PROVE  \E i \in 1 .. n + 1 :
                /\ seen'[i].kind.marker = "SOI" /\ soi = seen'[i].range
                /\ \A k \in i + 1 .. n + 1 : seen'[k].kind.marker # "SOI"
  <2> PICK i \in 1 .. n :
          /\ seen[i].kind.marker = "SOI" /\ soi = seen[i].range
          /\ \A k \in i + 1 .. n : seen[k].kind.marker # "SOI"
    BY <1>4, <1>n DEF SoiOK
  <2>1. \A k \in i + 1 .. n + 1 : seen'[k].kind.marker # "SOI"
    <3>1. \A k \in i + 1 .. n + 1 : (k \in i + 1 .. n /\ k \in 1 .. n) \/ k = n + 1
      OBVIOUS
    <3> QED
      BY <1>2, <3>1
  <2>2. i \in 1 .. n + 1 /\ seen'[i] = seen[i]
    BY <1>2
  <2> QED
    BY <2>1, <2>2
<1>5. ASSUME NEW i \in 1 .. n + 1, seen'[i].kind.marker = "SOI"
      PROVE  IsValid(soi)
  <2>1. i \in 1 .. n
    BY <1>2, <1>3, <1>5
  <2> QED
    BY <1>2, <1>5, <1>n, <2>1 DEF SoiOK
<1> QED
  BY <1>2, <1>4, <1>5 DEF SoiOK, IsValid

\* Images that are left alone still come before the position, and are spans.
LEMMA ImagesStay ==
    ASSUME Types, ImagesOK, ImagesAreSpans, NEW kind, NEW range,
           Arrived(kind, range), soi' = soi,
           jpeg_info'.image_ranges = jpeg_info.image_ranges
    PROVE  ImagesOK' /\ ImagesAreSpans'
<1>1. ImagesOK'
  <2>1. Position \in Nat /\ Position' \in Nat /\ Position <= Position'
    BY PositionType DEF Arrived, DataRange, Types
  <2>2. ASSUME NEW n \in 1 .. Len(jpeg_info.image_ranges)
        PROVE  jpeg_info.image_ranges[n].end <= Position'
    <3>1. jpeg_info.image_ranges[n].end \in Nat
      BY ImagesTyped DEF DataRange
    <3>2. jpeg_info.image_ranges[n].end <= Position
      BY DEF ImagesOK
    <3> QED
      BY <2>1, <3>1, <3>2
  <2> QED
    BY <2>2 DEF ImagesOK, IsValid
<1>2. ImagesAreSpans'
  <2> PICK images : images = jpeg_info.image_ranges
    OBVIOUS
  <2>1. InOrder(images) /\ \A n \in 1 .. Len(images) : Span(images[n])
    BY DEF ImagesAreSpans
  <2>2. \A n \in 1 .. Len(images) : Span(images[n])'
    BY <2>1, SpanStays
  <2> QED
    BY <2>1, <2>2, SpansNext
<1> QED
  BY <1>1, <1>2

\* An image that ends where the last segment does, and begins with the last SOI,
\* comes behind those there were.
LEMMA ImageComes ==
    ASSUME Types, ImagesOK, ImagesAreSpans, NEW kind, NEW range,
           Arrived(kind, range), soi' = soi, IsValid(soi), NEW image \in DataRange,
           image.begin = soi.begin, image.end = range.end, Span(image)',
           jpeg_info'.image_ranges = Append(jpeg_info.image_ranges, image)
    PROVE  ImagesOK' /\ ImagesAreSpans'
<1> PICK images : images = jpeg_info.image_ranges
  OBVIOUS
<1> PICK new : new = Append(images, image)
  OBVIOUS
<1>m. PICK m \in Nat : m = Len(images)
  BY ImagesTyped
<1>1. images \in Seq(DataRange) /\ \A n \in 1 .. m : images[n] \in DataRange
  BY <1>m, ImagesTyped
<1>2. /\ Len(new) = m + 1 /\ new[m + 1] = image
      /\ \A n \in 1 .. m : new[n] = images[n]
  BY <1>1, <1>m, AppendProperties
<1>3. \A n \in 1 .. m + 1 : n \in 1 .. m \/ n = m + 1
  OBVIOUS
<1>4. \A n \in 1 .. m :
         /\ images[n].begin = image.begin \/ images[n].end <= image.begin
         /\ images[n].end <= Position
  BY <1>m DEF ImagesOK
<1>5. Position \in Nat /\ Position < image.end /\ Position' = image.end
  BY PositionType DEF Arrived, DataRange, Types
<1>6. \A n \in 1 .. m : images[n].end \in Nat /\ images[n].end < image.end
  BY <1>1, <1>4, <1>5 DEF DataRange
<1>7. ImagesOK'
  <2>1. image.end \in Nat
    BY DEF DataRange
  <2>2. \A n \in 1 .. m + 1 :
           /\ new[n].end <= image.end
           /\ new[n].begin = image.begin \/ new[n].end <= image.begin
    BY <1>2, <1>3, <1>4, <1>6, <2>1
  <2> QED
    BY <1>2, <1>5, <2>2 DEF ImagesOK, IsValid
<1>8. InOrder(new)
  <2>1. ASSUME NEW i \in 1 .. m + 1, NEW j \in 1 .. m + 1, i < j
        PROVE  /\ new[i].end < new[j].end
               /\ new[i].begin = new[j].begin \/ new[i].end <= new[j].begin
    <3>1. i \in 1 .. m
      BY <2>1
    <3>2. CASE j \in 1 .. m
      <4>1. InOrder(images)
        BY DEF ImagesAreSpans, InOrder
      <4> QED
        BY <1>m, <1>2, <2>1, <3>1, <3>2, <4>1 DEF InOrder
    <3>3. CASE j = m + 1
      BY <1>2, <1>4, <1>6, <3>1, <3>3
    <3> QED
      BY <1>3, <3>2, <3>3
  <2> QED
    BY <1>2, <2>1 DEF InOrder
<1>9. ASSUME NEW n \in 1 .. m + 1
      PROVE  Span(new[n])'
  <2>1. CASE n = m + 1
    BY <1>2, <2>1
  <2>2. CASE n \in 1 .. m
    <3>1. Span(images[n])
      BY <1>m, <2>2 DEF ImagesAreSpans, Span
    <3>2. Span(images[n])'
      BY <3>1, SpanStays
    <3> QED
      BY <1>2, <2>2, <3>2
  <2> QED
    BY <1>3, <2>1, <2>2
<1>10. ImagesAreSpans'
  <2>1. \A n \in 1 .. Len(new) : Span(new[n])'
    BY <1>2, <1>9
  <2> QED
    BY <1>8, <2>1, SpansNext
<1> QED
  BY <1>7, <1>10

\* The spans of the EOI that arrives, if the last SOI is valid.
LEMMA EOIEndsSpan ==
    ASSUME Types, SoiOK, IsValid(soi), NEW range, NEW kind, kind.marker = "EOI",
           Arrived(kind, range), NEW image, image = ImageUpTo(range)
    PROVE  Span(image)'
<1>n. PICK n \in Nat : n = Len(seen)
  BY DEF Arrived
<1>1. /\ Len(seen') = n + 1 /\ seen'[n + 1].kind.marker = "EOI"
      /\ seen'[n + 1].range = range
      /\ \A i \in 1 .. n : seen'[i] = seen[i]
  BY <1>n DEF Arrived
<1> PICK i \in 1 .. n :
        /\ seen[i].kind.marker = "SOI" /\ soi = seen[i].range
        /\ \A k \in i + 1 .. n : seen[k].kind.marker # "SOI"
  BY <1>n DEF SoiOK
<1>2. \A k \in i + 1 .. n + 1 : seen'[k].kind.marker # "SOI"
  <2>1. \A k \in i + 1 .. n + 1 : (k \in i + 1 .. n /\ k \in 1 .. n) \/ k = n + 1
    OBVIOUS
  <2> QED
    BY <1>1, <2>1
<1> QED
  BY <1>1, <1>2 DEF Span, ImageUpTo

-----------------------------------------------------------------------------
(***************************************************************************)
(* The invariant, one lemma per segment.                                   *)
(***************************************************************************)

\* What the arrival itself sees to, whatever the segment is.
ConfigTypes ==
    /\ phase \in {"new", "scanning", "finished"}
    /\ seen \in Seq([kind : Kinds, range : DataRange])
    /\ family \in Families
    /\ image_limit \in family.limits
    /\ captures \in Captures
    /\ interesting \subseteq {"SOI", "EOI", "APP0", "APP1", "APP2"}

CountTypes ==
    /\ image_count \in Nat
    /\ \A count \in {mpf_count, depth_count, matte_count} :
          count \in [1 .. image_count -> Nat]

ResultTypes ==
    /\ done \in BOOLEAN
    /\ soi \in DataRange
    /\ primary_guid \in {<<>>} \cup {kind.guid : kind \in Kinds}
    /\ xmp_builders \in [XmpTypes -> XmpInfoBuilder]
    /\ jpeg_info \in Info

\* The types, in three parts.
LEMMA TypesSplit == Types <=> ConfigTypes /\ CountTypes /\ ResultTypes
<1>1. jpeg_info \in Info =>
         /\ jpeg_info.image_ranges \in Seq(DataRange)
         /\ jpeg_info.segment_infos \in Seq(SegmentInfo)
         /\ jpeg_info.depth \in DataRange /\ jpeg_info.matte \in DataRange
         /\ jpeg_info.xmp_ranges \in [XmpTypes -> Seq(DataRange)]
  BY DEF Info
<1> QED
  BY <1>1 DEF Types, TypeOK, ConfigTypes, CountTypes, ResultTypes

\* The first part is kept by every segment that arrives.
LEMMA ConfigStays ==
    ASSUME ConfigTypes, NEW kind, NEW range, Arrives(kind, range), Arrived(kind, range)
    PROVE  ConfigTypes'
BY DEF ConfigTypes, Arrives, Arrived, config

\* A new image is counted with no segments.
LEMMA AppendCount ==
    ASSUME NEW n \in Nat, NEW count \in [1 .. n -> Nat]
    PROVE  Append(count, 0) \in [1 .. n + 1 -> Nat]
<1>1. count \in Seq(Nat)
  BY SeqDef
<1>2. Len(count) = n
  BY <1>1, LenProperties
<1> PICK new : new = Append(count, 0)
  OBVIOUS
<1>3. new \in Seq(Nat) /\ Len(new) = n + 1
  BY <1>1, <1>2, AppendProperties
<1>4. new \in [1 .. n + 1 -> Nat]
  BY <1>3, LenProperties
<1> QED
  BY <1>4

\* A count of segments is increased at any image.
LEMMA CountUp ==
    ASSUME NEW n \in Nat, NEW count \in [1 .. n -> Nat], NEW i
    PROVE  [count EXCEPT ![i] = @ + 1] \in [1 .. n -> Nat]
<1>1. \A j \in 1 .. n : count[j] \in Nat /\ count[j] + 1 \in Nat
  OBVIOUS
<1> QED
  BY <1>1

\* A new segment info leaves the images alone.
LEMMA InfoAdded ==
    ASSUME ResultTypes, image_count \in Nat, image_count > 0, NEW type \in InfoTypes,
           NEW range \in DataRange, AddSegmentInfo(type, range)
    PROVE  /\ jpeg_info' \in Info
           /\ jpeg_info'.image_ranges = jpeg_info.image_ranges
           /\ jpeg_info'.depth = jpeg_info.depth
           /\ jpeg_info'.matte = jpeg_info.matte
<1> PICK info : info = [image_index |-> image_count - 1, range |-> range,
                        type |-> type, captured |-> type \in captures]
  OBVIOUS
<1>1. info \in SegmentInfo
  BY DEF SegmentInfo
<1>2. jpeg_info' = [jpeg_info EXCEPT !.segment_infos = Append(@, info)]
  BY DEF AddSegmentInfo
<1>3. jpeg_info \in Info
  BY DEF ResultTypes
<1>4. Append(jpeg_info.segment_infos, info) \in Seq(SegmentInfo)
  BY <1>1, <1>3, AppendProperties DEF Info
<1> QED
  BY <1>2, <1>3, <1>4 DEF Info

\* ProcessSOI keeps the invariant.
LEMMA SOIInv ==
    ASSUME Inv, NEW kind \in Kinds, NEW range, Arrives(kind, range),
           Arrived(kind, range), ProcessSOI(kind, range)
    PROVE  Inv'
<1>n. PICK n \in Nat : n = Len(seen)
  BY DEF Arrived
<1>1. /\ ConfigTypes /\ CountTypes /\ ResultTypes /\ TypeOK
      /\ Types /\ SeenOK /\ ImagesOK /\ ImagesAreSpans /\ CountOK /\ DoneOK
  BY TypesSplit DEF Inv, Types
<1>2. /\ Len(seen') = n + 1 /\ seen'[n + 1].kind = kind /\ seen'[n + 1].range = range
      /\ range \in DataRange /\ Position <= range.begin /\ range.begin < range.end
      /\ Position' = range.end /\ ~done /\ image_limit' = image_limit
  BY <1>n DEF Arrived, Arrives, config
<1>3. /\ kind.marker = "SOI" /\ soi' = range /\ image_count' = image_count + 1
      /\ jpeg_info' = jpeg_info
  BY DEF ProcessSOI
<1>4. ConfigTypes'
  BY <1>1, ConfigStays
<1>5. CountTypes'
  <2>1. /\ mpf_count' = Append(mpf_count, 0) /\ depth_count' = Append(depth_count, 0)
        /\ matte_count' = Append(matte_count, 0)
    BY DEF ProcessSOI
  <2>2. image_count \in Nat /\ image_count' = image_count + 1
    BY <1>1, <1>3 DEF CountTypes
  <2>3. /\ Append(mpf_count, 0) \in [1 .. image_count + 1 -> Nat]
        /\ Append(depth_count, 0) \in [1 .. image_count + 1 -> Nat]
        /\ Append(matte_count, 0) \in [1 .. image_count + 1 -> Nat]
    <3> PICK c \in Nat : c = image_count
      BY <2>2
    <3>1. /\ mpf_count \in [1 .. c -> Nat] /\ depth_count \in [1 .. c -> Nat]
          /\ matte_count \in [1 .. c -> Nat]
      BY <1>1 DEF CountTypes
    <3> QED
      BY <3>1, AppendCount
  <2>4. /\ mpf_count' \in [1 .. image_count' -> Nat]
        /\ depth_count' \in [1 .. image_count' -> Nat]
        /\ matte_count' \in [1 .. image_count' -> Nat]
    BY <2>1, <2>2, <2>3, Zenon
  <2> QED
    BY <2>2, <2>4 DEF CountTypes
<1>6. ResultTypes'
  BY <1>1, <1>2, <1>3 DEF ResultTypes, ProcessSOI, xmp
<1>7. Types'
  BY <1>4, <1>5, <1>6, TypesSplit, PTL
<1>8. SeenOK'
  BY <1>1, SeenInv
<1>9. SoiOK'
  BY <1>2, <1>3 DEF SoiOK, IsValid
<1>10. ImagesOK'
  <2>1. ASSUME NEW i \in 1 .. Len(jpeg_info.image_ranges)
        PROVE  /\ jpeg_info.image_ranges[i].end <= range.end
               /\ jpeg_info.image_ranges[i].end <= range.begin
    <3>1. jpeg_info.image_ranges[i].end <= Position
      BY <1>1 DEF ImagesOK
    <3>2. jpeg_info.image_ranges[i].end \in Nat /\ Position \in Nat
      BY <1>1, ImagesTyped, PositionType DEF DataRange
    <3> QED
      BY <1>2, <3>1, <3>2 DEF DataRange
  <2> QED
    BY <1>2, <1>3, <2>1 DEF ImagesOK, IsValid
<1>11. ImagesAreSpans'
  <2> PICK images : images = jpeg_info.image_ranges
    OBVIOUS
  <2>1. InOrder(images) /\ \A i \in 1 .. Len(images) : Span(images[i])
    BY <1>1 DEF ImagesAreSpans
  <2>2. \A i \in 1 .. Len(images) : Span(images[i])'
    BY <2>1, SpanStays
  <2>3. jpeg_info'.image_ranges = images
    BY <1>3
  <2> QED
    BY <2>1, <2>2, <2>3, SpansNext
<1>12. CountOK'
  <2>1. ImageOf(n + 1)' = ImageOf(n) + 1
    BY <1>n, <1>3, ImagesCounted
  <2> QED
    BY <1>n, <1>1, <1>2, <1>3, <2>1 DEF CountOK
<1>13. DoneOK'
  BY <1>1, <1>2, <1>3, NoEOI
<1> QED
  BY <1>7, <1>8, <1>9, <1>10, <1>11, <1>12, <1>13 DEF Inv

\* A segment that begins or ends no image leaves the images and the counts of them.
LEMMA OtherInv ==
    ASSUME Inv, NEW kind \in Kinds, NEW range, Arrives(kind, range),
           Arrived(kind, range), kind.marker \notin {"SOI", "EOI"},
           image_count' = image_count, soi' = soi,
           jpeg_info'.image_ranges = jpeg_info.image_ranges,
           CountTypes', ResultTypes'
    PROVE  Inv'
<1>n. PICK n \in Nat : n = Len(seen)
  BY DEF Arrived
<1>1. /\ ConfigTypes /\ TypeOK /\ Types /\ SeenOK /\ SoiOK /\ ImagesOK
      /\ ImagesAreSpans /\ CountOK /\ DoneOK
  BY TypesSplit DEF Inv, Types
<1>2. /\ Len(seen') = n + 1 /\ ~done /\ image_limit' = image_limit
  BY <1>n DEF Arrived, Arrives, config
<1>3. Types'
  BY <1>1, ConfigStays, TypesSplit, PTL
<1>4. SeenOK'
  BY <1>1, SeenInv
<1>5. SoiOK'
  BY <1>1, NoSOI
<1>6. ImagesOK' /\ ImagesAreSpans'
  BY <1>1, ImagesStay
<1>7. CountOK'
  <2>1. ImageOf(n + 1)' = ImageOf(n)
    BY <1>n, ImagesCounted
  <2> QED
    BY <1>n, <1>1, <1>2, <2>1 DEF CountOK
<1>8. DoneOK'
  BY <1>1, <1>2, NoEOI
<1> QED
  BY <1>3, <1>4, <1>5, <1>6, <1>7, <1>8 DEF Inv

\* ProcessEOI keeps the invariant.
LEMMA EOIInv ==
    ASSUME Inv, NEW kind \in Kinds, NEW range, Arrives(kind, range),
           Arrived(kind, range), ProcessEOI(kind, range)
    PROVE  Inv'
<1>n. PICK n \in Nat : n = Len(seen)
  BY DEF Arrived
<1>1. /\ ConfigTypes /\ CountTypes /\ ResultTypes /\ TypeOK
      /\ Types /\ SeenOK /\ SoiOK /\ ImagesOK /\ ImagesAreSpans /\ CountOK /\ DoneOK
  BY TypesSplit DEF Inv, Types
<1>2. /\ Len(seen') = n + 1 /\ \A i \in 1 .. n : seen'[i] = seen[i]
      /\ range \in DataRange /\ ~done /\ image_limit' = image_limit
  BY <1>n DEF Arrived, Arrives, config
<1>3. /\ kind.marker = "EOI" /\ soi' = soi /\ image_count' = image_count
      /\ UNCHANGED <<mpf_count, depth_count, matte_count, primary_guid, xmp_builders>>
  BY DEF ProcessEOI, counts, xmp
<1>4. ConfigTypes' /\ CountTypes'
  BY <1>1, <1>3, ConfigStays DEF CountTypes
<1>5. SeenOK' /\ SoiOK'
  BY <1>1, <1>3, SeenInv, NoSOI
<1>6. CountOK'
  <2>1. ImageOf(n + 1)' = ImageOf(n)
    BY <1>n, <1>3, ImagesCounted
  <2> QED
    BY <1>n, <1>1, <1>2, <1>3, <2>1 DEF CountOK
<1>7. CASE IsValid(soi)
  <2> PICK image : image = ImageUpTo(range)
    OBVIOUS
  <2> PICK depth, matte : /\ depth = AppleImage(jpeg_info.depth, depth_count, image)
                          /\ matte = AppleImage(jpeg_info.matte, matte_count, image)
    OBVIOUS
  <2> PICK images : images = Append(jpeg_info.image_ranges, image)
    OBVIOUS
  <2>1. /\ jpeg_info' = [jpeg_info EXCEPT !.image_ranges = images,
                                          !.depth = depth, !.matte = matte]
        /\ done' = LimitReached
    BY <1>7 DEF ProcessEOI
  <2>2. /\ image \in DataRange /\ image.begin = soi.begin /\ image.end = range.end
    BY <1>1, <1>2 DEF ResultTypes, ImageUpTo, NewRange, DataRange
  <2>3. ResultTypes'
    <3>1. jpeg_info \in Info
      BY <1>1 DEF ResultTypes
    <3>2. depth \in DataRange /\ matte \in DataRange
      BY <2>2, <3>1 DEF AppleImage, Info
    <3>3. images \in Seq(DataRange)
      BY <2>2, <3>1, AppendProperties DEF Info
    <3>4. jpeg_info' \in Info
      BY <2>1, <3>1, <3>2, <3>3 DEF Info
    <3> QED
      BY <1>1, <1>3, <2>1, <3>4 DEF ResultTypes, LimitReached
  <2>4. Types'
    BY <1>4, <2>3, TypesSplit, PTL
  <2>5. jpeg_info'.image_ranges = Append(jpeg_info.image_ranges, image)
    BY <1>1, <2>1 DEF ResultTypes, Info
  <2>6. Span(image)'
    BY <1>1, <1>3, <1>7, EOIEndsSpan
  <2>7. ImagesOK' /\ ImagesAreSpans'
    BY <1>1, <1>3, <1>7, <2>2, <2>5, <2>6, ImageComes
  <2>8. DoneOK'
    <3>1. ASSUME NEW i \in 1 .. n + 1, NEW j \in 1 .. n + 1,
                 /\ seen'[i].kind.marker = "SOI" /\ ImageOf(i)' >= image_limit
                 /\ i < j /\ seen'[j].kind.marker = "EOI"
          PROVE  done' /\ j = n + 1
      <4>1. i \in 1 .. n
        BY <3>1
      <4>2. seen[i].kind.marker = "SOI" /\ ImageOf(i) >= image_limit
        BY <1>n, <1>2, <3>1, <4>1, ImagesCounted
      <4>3. j = n + 1
        <5>1. CASE j \in 1 .. n
          BY <1>n, <1>1, <1>2, <3>1, <4>1, <4>2, <5>1, NoLimitBefore
        <5> QED
          BY <5>1
      <4>4. ImageOf(i) \in Nat /\ ImageOf(n) \in Nat /\ ImageOf(i) <= ImageOf(n)
        BY <4>1, ImageOfGrows
      <4>5. image_limit \in Int
        BY <1>1, FamiliesAssumption DEF ConfigTypes
      <4>6. LimitReached
        BY <1>n, <1>1, <4>2, <4>4, <4>5 DEF CountOK, LimitReached
      <4> QED
        BY <2>1, <4>3, <4>6
    <3> QED
      BY <1>2, <3>1 DEF DoneOK
  <2> QED
    BY <1>5, <1>6, <2>4, <2>7, <2>8 DEF Inv
<1>8. CASE ~ IsValid(soi)
  <2>1. jpeg_info' = jpeg_info /\ done' = done
    BY <1>8 DEF ProcessEOI
  <2>2. ResultTypes'
    BY <1>1, <1>3, <2>1 DEF ResultTypes
  <2>3. Types'
    BY <1>4, <2>2, TypesSplit, PTL
  <2>4. ImagesOK' /\ ImagesAreSpans'
    BY <1>1, <1>3, <2>1, ImagesStay
  <2>5. DoneOK'
    <3>1. \A i \in 1 .. n + 1 : seen'[i].kind.marker # "SOI"
      <4>1. \A i \in 1 .. n : seen[i].kind.marker # "SOI"
        BY <1>n, <1>1, <1>8 DEF SoiOK
      <4>2. seen'[n + 1].kind.marker # "SOI"
        BY <1>n, <1>3 DEF Arrived
      <4>3. \A i \in 1 .. n + 1 : i \in 1 .. n \/ i = n + 1
        OBVIOUS
      <4> QED
        BY <1>2, <4>1, <4>2, <4>3
    <3> QED
      BY <1>2, <3>1 DEF DoneOK
  <2> QED
    BY <1>5, <1>6, <2>3, <2>4, <2>5 DEF Inv
<1> QED
  BY <1>7, <1>8

\* ProcessAPP0 keeps the invariant.
LEMMA APP0Inv ==
    ASSUME Inv, NEW kind \in Kinds, NEW range, Arrives(kind, range),
           Arrived(kind, range), ProcessAPP0(kind, range)
    PROVE  Inv'
<1>1. CountTypes /\ ResultTypes /\ range \in DataRange
  BY TypesSplit DEF Inv, Arrived
<1>2. /\ kind.marker = "APP0" /\ image_count' = image_count /\ soi' = soi
      /\ UNCHANGED <<done, mpf_count, depth_count, matte_count, primary_guid,
                     xmp_builders>>
  BY DEF ProcessAPP0, counts, xmp
<1>3. jpeg_info' \in Info /\ jpeg_info'.image_ranges = jpeg_info.image_ranges
  <2>1. CASE image_count > 0 /\ kind.starts = "JFIF"
    BY <1>1, <2>1, InfoAdded DEF ProcessAPP0, CountTypes, InfoTypes
  <2>2. CASE ~ (image_count > 0 /\ kind.starts = "JFIF")
    BY <1>1, <2>2 DEF ProcessAPP0, ResultTypes
  <2> QED
    BY <2>1, <2>2
<1>4. CountTypes' /\ ResultTypes'
  BY <1>1, <1>2, <1>3 DEF CountTypes, ResultTypes
<1> QED
  BY <1>2, <1>3, <1>4, OtherInv

\* ProcessOtherAPP1 keeps the invariant.
LEMMA OtherAPP1Inv ==
    ASSUME Inv, NEW kind \in Kinds, NEW range, Arrives(kind, range),
           Arrived(kind, range), ProcessOtherAPP1(kind, range)
    PROVE  Inv'
<1>1. CountTypes /\ ResultTypes /\ range \in DataRange
  BY TypesSplit DEF Inv, Arrived
<1>2. /\ kind.marker = "APP1" /\ image_count' = image_count /\ soi' = soi
      /\ UNCHANGED <<done, mpf_count, depth_count, matte_count, primary_guid,
                     xmp_builders>>
  BY DEF ProcessOtherAPP1, counts, xmp
<1>3. jpeg_info' \in Info /\ jpeg_info'.image_ranges = jpeg_info.image_ranges
  <2>1. CASE image_count > 0 /\ kind.starts = "Exif"
    BY <1>1, <2>1, InfoAdded DEF ProcessOtherAPP1, CountTypes, InfoTypes
  <2>2. CASE ~ (image_count > 0 /\ kind.starts = "Exif")
    BY <1>1, <2>2 DEF ProcessOtherAPP1, ResultTypes
  <2> QED
    BY <2>1, <2>2
<1>4. CountTypes' /\ ResultTypes'
  BY <1>1, <1>2, <1>3 DEF CountTypes, ResultTypes
<1> QED
  BY <1>2, <1>3, <1>4, OtherInv

\* ProcessAPP2 keeps the invariant.
LEMMA APP2Inv ==
    ASSUME Inv, NEW kind \in Kinds, NEW range, Arrives(kind, range),
           Arrived(kind, range), ProcessAPP2(kind, range)
    PROVE  Inv'
<1>1. CountTypes /\ ResultTypes /\ range \in DataRange
  BY TypesSplit DEF Inv, Arrived
<1>2. /\ kind.marker = "APP2" /\ image_count' = image_count /\ soi' = soi
      /\ UNCHANGED <<done, depth_count, matte_count, primary_guid, xmp_builders>>
  BY DEF ProcessAPP2, xmp
<1>3. /\ jpeg_info' \in Info /\ jpeg_info'.image_ranges = jpeg_info.image_ranges
      /\ mpf_count' \in [1 .. image_count -> Nat]
  <2>1. CASE image_count > 0 /\ kind.starts = "MPF"
    <3>1. mpf_count' = [mpf_count EXCEPT ![image_count] = @ + 1]
      BY <2>1 DEF ProcessAPP2
    <3>2. mpf_count' \in [1 .. image_count -> Nat]
      <4> PICK n \in Nat : n = image_count
        BY <1>1 DEF CountTypes
      <4>1. mpf_count \in [1 .. n -> Nat]
        BY <1>1 DEF CountTypes
      <4> QED
        BY <3>1, <4>1, CountUp
    <3>3. AddSegmentInfo("MPF", range) /\ image_count \in Nat /\ "MPF" \in InfoTypes
      BY <1>1, <2>1 DEF ProcessAPP2, CountTypes, InfoTypes
    <3>4. jpeg_info' \in Info /\ jpeg_info'.image_ranges = jpeg_info.image_ranges
      BY <1>1, <2>1, <3>3, InfoAdded
    <3> QED
      BY <3>2, <3>4
  <2>2. CASE ~ (image_count > 0 /\ kind.starts = "MPF")
    BY <1>1, <2>2 DEF ProcessAPP2, ResultTypes, CountTypes
  <2> QED
    BY <2>1, <2>2
<1>4. CountTypes' /\ ResultTypes'
  BY <1>1, <1>2, <1>3 DEF CountTypes, ResultTypes
<1> QED
  BY <1>2, <1>3, <1>4, OtherInv

\* ProcessPrimaryXmp keeps the invariant.
LEMMA PrimaryXmpInv ==
    ASSUME Inv, NEW kind \in Kinds, NEW range, Arrives(kind, range),
           Arrived(kind, range), ProcessPrimaryXmp(kind)
    PROVE  Inv'
<1>1. CountTypes /\ ResultTypes
  BY TypesSplit DEF Inv
<1>2. /\ kind.marker = "APP1" /\ image_count' = image_count /\ soi' = soi
      /\ UNCHANGED <<done, mpf_count, xmp_builders>>
  BY DEF ProcessPrimaryXmp
<1>3. CountTypes'
  <2> PICK n \in Nat : n = image_count
    BY <1>1 DEF CountTypes
  <2>1. /\ mpf_count \in [1 .. n -> Nat] /\ depth_count \in [1 .. n -> Nat]
        /\ matte_count \in [1 .. n -> Nat]
    BY <1>1 DEF CountTypes
  <2>2. depth_count' \in {depth_count, [depth_count EXCEPT ![n] = @ + 1]}
    BY DEF ProcessPrimaryXmp
  <2>3. matte_count' \in {matte_count, [matte_count EXCEPT ![n] = @ + 1]}
    BY DEF ProcessPrimaryXmp
  <2>4. /\ [depth_count EXCEPT ![n] = @ + 1] \in [1 .. n -> Nat]
        /\ [matte_count EXCEPT ![n] = @ + 1] \in [1 .. n -> Nat]
    BY <2>1, CountUp, Zenon
  <2>5. depth_count' \in [1 .. n -> Nat] /\ matte_count' \in [1 .. n -> Nat]
    BY <2>1, <2>2, <2>3, <2>4, Zenon
  <2> QED
    BY <1>2, <2>1, <2>5 DEF CountTypes
<1>4. /\ jpeg_info' \in Info /\ jpeg_info'.image_ranges = jpeg_info.image_ranges
      /\ primary_guid' \in {primary_guid, kind.guid}
  <2>1. jpeg_info \in Info /\ kind.mimes \in Mimes
    BY <1>1 DEF ResultTypes, Mimes
  <2>2. /\ jpeg_info' \in {jpeg_info, [jpeg_info EXCEPT !.mimes = kind.mimes]}
        /\ primary_guid' \in {primary_guid, kind.guid}
    BY DEF ProcessPrimaryXmp
  <2> QED
    BY <2>1, <2>2 DEF Info
<1>5. ResultTypes'
  BY <1>1, <1>2, <1>4 DEF ResultTypes
<1> QED
  BY <1>2, <1>3, <1>4, <1>5, OtherInv

\* ProcessExtendedXmp keeps the invariant.
LEMMA ExtendedXmpInv ==
    ASSUME Inv, NEW kind \in Kinds, NEW range, Arrives(kind, range),
           Arrived(kind, range), ProcessExtendedXmp(kind, range)
    PROVE  Inv'
<1>1. CountTypes /\ ResultTypes /\ range \in DataRange
  BY TypesSplit DEF Inv, Arrived
<1>2. /\ kind.marker = "APP1" /\ image_count' = image_count /\ soi' = soi
      /\ UNCHANGED <<done, mpf_count, depth_count, matte_count, primary_guid, jpeg_info>>
  BY DEF ProcessExtendedXmp, counts
<1>3. xmp_builders' \in [XmpTypes -> XmpInfoBuilder]
  <2>1. \A t \in XmpTypes :
           ProcessSegment(xmp_builders[t], t, range, kind.text) \in XmpInfoBuilder
    <3> TAKE t \in XmpTypes
    <3> PICK builder \in XmpInfoBuilder : builder = xmp_builders[t]
      BY <1>1 DEF ResultTypes
    <3>1. ProcessSegment(builder, t, range, kind.text) \in XmpInfoBuilder
      BY <1>1, ProcessSegmentType
    <3> QED
      BY <3>1
  <2>2. \/ xmp_builders' = xmp_builders
        \/ xmp_builders' = [t \in XmpTypes |->
                               ProcessSegment(xmp_builders[t], t, range, kind.text)]
    BY DEF ProcessExtendedXmp
  <2> QED
    BY <1>1, <2>1, <2>2 DEF ResultTypes
<1>4. CountTypes' /\ ResultTypes'
  BY <1>1, <1>2, <1>3 DEF CountTypes, ResultTypes
<1> QED
  BY <1>2, <1>4, OtherInv

-----------------------------------------------------------------------------
(***************************************************************************)
(* Initially, and by a step.                                               *)
(***************************************************************************)
\* The invariant holds of a new builder.
LEMMA InitInv == Init => Inv
<1> SUFFICES ASSUME Init
             PROVE  Inv
  OBVIOUS
<1>1. seen = <<>> /\ Len(seen) = 0 /\ 1 .. Len(seen) = {}
  BY DEF Init
<1>2. /\ jpeg_info = EmptyInfo /\ soi = InvalidRange /\ image_count = 0
      /\ xmp_builders = [t \in XmpTypes |-> NewXmpInfoBuilder]
  BY DEF Init
<1>3. <<>> \in Seq(DataRange) /\ <<>> \in Seq(SegmentInfo)
      /\ <<>> \in Seq([kind : Kinds, range : DataRange])
  BY EmptySeq
<1>4. EmptyInfo \in Info
  <2>1. [t \in XmpTypes |-> ""] \in Mimes
    BY DEF Mimes
  <2>2. [t \in XmpTypes |-> <<>>] \in [XmpTypes -> Seq(DataRange)]
    BY <1>3
  <2> QED
    BY <1>3, <2>1, <2>2, InvalidRangeType DEF EmptyInfo, Info
<1>5. NewXmpInfoBuilder \in XmpInfoBuilder
  BY <1>3, InvalidRangeType DEF NewXmpInfoBuilder, XmpInfoBuilder
<1>6. Types
  <2>1. ConfigTypes
    BY <1>3 DEF Init, ConfigTypes
  <2>2. CountTypes
    <3>1. <<>> \in [1 .. 0 -> Nat]
      BY EmptySeq, LenProperties
    <3> QED
      BY <3>1 DEF Init, CountTypes
  <2>3. ResultTypes
    BY <1>2, <1>4, <1>5, InvalidRangeType DEF Init, ResultTypes
  <2> QED
    BY <2>1, <2>2, <2>3, TypesSplit
<1>7. SeenOK /\ DoneOK /\ SoiOK
  BY <1>1, <1>2, InvalidRangeType DEF SeenOK, DoneOK, SoiOK
<1>8. ImagesOK /\ ImagesAreSpans
  <2>1. jpeg_info.image_ranges = <<>>
    BY <1>2 DEF EmptyInfo
  <2>2. Len(jpeg_info.image_ranges) = 0
    BY <2>1, EmptySeq
  <2>3. \A n \in 1 .. Len(jpeg_info.image_ranges) : FALSE
    BY <2>2
  <2> QED
    BY <2>3 DEF ImagesOK, ImagesAreSpans, InOrder
<1>9. CountOK
  <2>1. Places("SOI", 0) = {}
    BY DEF Places
  <2> QED
    BY <1>1, <1>2, <2>1, FS_EmptySet DEF CountOK, ImageOf
<1> QED
  BY <1>6, <1>7, <1>8, <1>9 DEF Inv

\* What neither counts nor sees a segment leaves the invariant, types apart.
LEMMA QuietInv ==
    ASSUME Inv, Types', UNCHANGED <<seen, image_limit, done, image_count, soi>>,
           jpeg_info'.image_ranges = jpeg_info.image_ranges
    PROVE  Inv'
<1>1. Position' = Position
  BY DEF Position
<1>2. SeenOK' /\ SoiOK'
  BY <1>1 DEF Inv, SeenOK, SoiOK, IsValid
<1>3. ImagesOK'
  BY <1>1 DEF Inv, ImagesOK, IsValid
<1>4. ImagesAreSpans'
  <2> PICK images : images = jpeg_info.image_ranges
    OBVIOUS
  <2>1. InOrder(images) /\ \A n \in 1 .. Len(images) : Span(images[n])
    BY DEF Inv, ImagesAreSpans
  <2>2. \A n \in 1 .. Len(images) : Span(images[n])'
    BY <2>1 DEF Span
  <2> QED
    BY <2>1, <2>2, SpansNext
<1>5. \A i : ImageOf(i)' = ImageOf(i)
  BY DEF ImageOf, Places
<1>6. CountOK'
  BY <1>5 DEF Inv, CountOK
<1>7. DoneOK'
  BY <1>5 DEF Inv, DoneOK
<1> QED
  BY <1>2, <1>3, <1>4, <1>6, <1>7 DEF Inv

\* Start keeps the invariant.
LEMMA StartInv == Inv /\ Start => Inv'
<1> SUFFICES ASSUME Inv, Start
             PROVE  Inv'
  OBVIOUS
<1>1. ConfigTypes /\ CountTypes /\ ResultTypes
  BY TypesSplit DEF Inv
<1>2. ConfigTypes' /\ CountTypes' /\ ResultTypes'
  BY <1>1 DEF Start, ConfigTypes, CountTypes, ResultTypes, config, counts, xmp
<1>3. Types'
  BY <1>2, TypesSplit, PTL
<1> QED
  BY <1>3, QuietInv DEF Start, config

\* Finish keeps the invariant.
LEMMA FinishInv == Inv /\ Finish => Inv'
<1> SUFFICES ASSUME Inv, Finish
             PROVE  Inv'
  OBVIOUS
<1>1. ConfigTypes /\ CountTypes /\ ResultTypes
  BY TypesSplit DEF Inv
<1> PICK ranges : ranges = [t \in XmpTypes |-> xmp_builders[t].ranges]
  OBVIOUS
<1>2. ranges \in [XmpTypes -> Seq(DataRange)]
  BY <1>1 DEF ResultTypes, XmpInfoBuilder
<1>3. jpeg_info' = [jpeg_info EXCEPT !.xmp_ranges = ranges]
  BY DEF Finish
<1>4. jpeg_info' \in Info /\ jpeg_info'.image_ranges = jpeg_info.image_ranges
  BY <1>1, <1>2, <1>3 DEF ResultTypes, Info
<1>5. ConfigTypes' /\ CountTypes' /\ ResultTypes'
  BY <1>1, <1>4 DEF Finish, ConfigTypes, CountTypes, ResultTypes, config, counts, xmp
<1>6. Types'
  BY <1>5, TypesSplit, PTL
<1> QED
  BY <1>4, <1>6, QuietInv DEF Finish, config

\* A step of Process, with the segment and its range named.
ProcessOne(kind, range) ==
    \/ ProcessSOI(kind, range)
    \/ ProcessEOI(kind, range)
    \/ ProcessAPP0(kind, range)
    \/ ProcessAPP2(kind, range)
    \/ ProcessPrimaryXmp(kind)
    \/ ProcessExtendedXmp(kind, range)
    \/ ProcessOtherAPP1(kind, range)

\* Process takes one segment that has arrived to one of its handlers.
LEMMA ProcessNamed ==
    ASSUME TypeOK, Process
    PROVE  \E kind \in Kinds : \E range :
              Arrives(kind, range) /\ Arrived(kind, range) /\ ProcessOne(kind, range)
<1>1. PICK kind \in family.kinds : \E range :
          /\ range = SegmentRange(kind, Position)
          /\ Arrives(kind, range) /\ ProcessOne(kind, range)
  BY DEF Process, Position, ProcessOne
<1>2. PICK range : /\ range = SegmentRange(kind, Position)
                   /\ Arrives(kind, range) /\ ProcessOne(kind, range)
  BY <1>1
<1>3. kind \in Kinds /\ Arrived(kind, range)
  BY <1>2, ArrivalFacts
<1> QED
  BY <1>2, <1>3

\* Process keeps the invariant.
LEMMA ProcessInv == Inv /\ Process => Inv'
<1> SUFFICES ASSUME Inv, Process
             PROVE  Inv'
  OBVIOUS
<1>1. TypeOK
  BY DEF Inv, Types
<1>2. PICK kind \in Kinds : \E range :
          Arrives(kind, range) /\ Arrived(kind, range) /\ ProcessOne(kind, range)
  BY <1>1, ProcessNamed
<1>3. PICK range :
          Arrives(kind, range) /\ Arrived(kind, range) /\ ProcessOne(kind, range)
  BY <1>2
<1> QED
  BY <1>3, SOIInv, EOIInv, APP0Inv, APP2Inv, PrimaryXmpInv, ExtendedXmpInv,
     OtherAPP1Inv DEF ProcessOne

\* A stuttering step keeps the invariant.
LEMMA StutterInv == Inv /\ UNCHANGED vars => Inv'
<1> SUFFICES ASSUME Inv, UNCHANGED vars
             PROVE  Inv'
  OBVIOUS
<1>1. ConfigTypes /\ CountTypes /\ ResultTypes
  BY TypesSplit DEF Inv
<1>2. ConfigTypes' /\ CountTypes' /\ ResultTypes'
  BY <1>1 DEF vars, ConfigTypes, CountTypes, ResultTypes, config, counts, xmp
<1>3. Types'
  BY <1>2, TypesSplit, PTL
<1> QED
  BY <1>3, QuietInv DEF vars, config

\* Every step keeps the invariant.
LEMMA StepInv == Inv /\ [Next]_vars => Inv'
BY StartInv, ProcessInv, FinishInv, StutterInv DEF Next

-----------------------------------------------------------------------------
(***************************************************************************)
(* The theorems.                                                           *)
(***************************************************************************)

\* What holds of the segments seen and of what was noted of them, in every file.
THEOREM Invariance == Spec => []Inv
BY InitInv, StepInv, PTL DEF Spec

\* The types of the builder's members.  The counts of segments have one number for
\* each image, so that image_count - 1 is an index into them.
THEOREM TypeCorrectness == Spec => []TypeOK
<1>1. Inv => TypeOK
  BY DEF Inv, Types
<1> QED
  BY <1>1, Invariance, PTL

\* The ranges that GetImageRanges returns are those from an SOI to an EOI, in order.
THEOREM ImagesAreSpansAlways == Spec => []ImagesAreSpans
<1>1. Inv => ImagesAreSpans
  BY DEF Inv
<1> QED
  BY <1>1, Invariance, PTL

\* SetImageLimit: no more of the file is taken in behind the image that reaches it.
THEOREM LimitEndsTheScanAlways == Spec => []LimitEndsTheScan
<1>1. Inv => LimitEndsTheScan
  <2> SUFFICES ASSUME DoneOK
               PROVE  LimitEndsTheScan
    BY DEF Inv
  <2>1. ASSUME NEW i \in 1 .. Len(seen), seen[i].kind.marker = "SOI",
               ImageOf(i) >= image_limit, NEW j \in i + 1 .. Len(seen),
               seen[j].kind.marker = "EOI", Len(seen) \in Nat
        PROVE  j = Len(seen)
    <3>1. i < j /\ j \in 1 .. Len(seen)
      BY <2>1
    <3> QED
      BY <2>1, <3>1 DEF DoneOK
  <2> QED
    BY <2>1 DEF LimitEndsTheScan
<1> QED
  BY <1>1, Invariance, PTL

-----------------------------------------------------------------------------
(***************************************************************************)
(* The images: what is noted of a file of complete images belongs to the   *)
(* image it is noted for, the segment infos and the hints that make an     *)
(* image the Apple depth or matte image.                                   *)
(***************************************************************************)
\* How many images have ended by the i-th segment.
EndsOf(i) == Cardinality(Places("EOI", i))

\* An EOI ends an image, and nothing else does.
LEMMA EndsCounted ==
    ASSUME NEW kind, NEW range, Arrived(kind, range), NEW n \in Nat, n = Len(seen)
    PROVE  /\ EndsOf(n) \in Nat
           /\ \A i \in 1 .. n : EndsOf(i)' = EndsOf(i)
           /\ kind.marker = "EOI" => EndsOf(n + 1)' = EndsOf(n) + 1
           /\ kind.marker # "EOI" => EndsOf(n + 1)' = EndsOf(n)
<1>1. \A i \in 1 .. n : seen'[i].kind = seen[i].kind
  BY DEF Arrived
<1>2. seen'[n + 1].kind = kind
  BY DEF Arrived
<1>3. \A i \in 1 .. n : EndsOf(i)' = EndsOf(i)
  <2>1. \A i \in 1 .. n : Places("EOI", i)' = Places("EOI", i)
    BY <1>1 DEF Places
  <2> QED
    BY <2>1 DEF EndsOf
<1>4. \A i \in 1 .. n + 1 : i \in 1 .. n \/ i = n + 1
  OBVIOUS
<1>5. ASSUME kind.marker = "EOI"
      PROVE  EndsOf(n + 1)' = EndsOf(n) + 1
  <2>1. Places("EOI", n + 1)' = Places("EOI", n) \cup {n + 1}
    BY <1>1, <1>2, <1>4, <1>5 DEF Places
  <2>2. n + 1 \notin Places("EOI", n)
    BY DEF Places
  <2> QED
    BY <2>1, <2>2, PlacesFinite, FS_AddElement DEF EndsOf
<1>6. ASSUME kind.marker # "EOI"
      PROVE  EndsOf(n + 1)' = EndsOf(n)
  <2>1. Places("EOI", n + 1)' = Places("EOI", n)
    BY <1>1, <1>2, <1>4, <1>6 DEF Places
  <2> QED
    BY <2>1 DEF EndsOf
<1>7. EndsOf(n) \in Nat
  BY PlacesFinite DEF EndsOf
<1> QED
  BY <1>3, <1>5, <1>6, <1>7

\* A file of complete images was one before its last segment, and which segment may
\* come is a matter of how many images are open.
LEMMA WellFormedBefore ==
    ASSUME NEW kind, NEW range, Arrived(kind, range), NEW n \in Nat, n = Len(seen),
           WellFormed'
    PROVE  /\ WellFormed
           /\ kind.marker = "SOI" => ImageOf(n) = EndsOf(n)
           /\ kind.marker # "SOI" => ImageOf(n) = EndsOf(n) + 1
<1>1. Len(seen') = n + 1 /\ seen'[n + 1].kind = kind
      /\ \A i \in 1 .. n : seen'[i] = seen[i]
  BY DEF Arrived
<1>2. \A i \in 1 .. n + 1 :
         ImageOf(i)' - EndsOf(i)' = IF seen'[i].kind.marker = "EOI" THEN 0 ELSE 1
  BY <1>1 DEF WellFormed, EndsOf
<1>3. \A i \in 1 .. n :
         ImageOf(i) - EndsOf(i) = IF seen[i].kind.marker = "EOI" THEN 0 ELSE 1
  BY <1>1, <1>2, ImagesCounted, EndsCounted
<1>4. WellFormed
  BY <1>3 DEF WellFormed, EndsOf
<1>5. ImageOf(n + 1)' - EndsOf(n + 1)' = IF kind.marker = "EOI" THEN 0 ELSE 1
  BY <1>1, <1>2
<1>6. ImageOf(n) \in Nat /\ EndsOf(n) \in Nat
  BY ImageOfGrows, EndsCounted
<1>7. CASE kind.marker = "SOI"
  BY <1>4, <1>5, <1>6, <1>7, ImagesCounted, EndsCounted
<1>8. CASE kind.marker = "EOI"
  BY <1>4, <1>5, <1>6, <1>8, ImagesCounted, EndsCounted
<1>9. CASE kind.marker \notin {"SOI", "EOI"}
  BY <1>4, <1>5, <1>6, <1>9, ImagesCounted, EndsCounted
<1> QED
  BY <1>7, <1>8, <1>9

-----------------------------------------------------------------------------
(***************************************************************************)
(* Where a segment lies.                                                   *)
(***************************************************************************)

\* In the k-th image if it has ended, and behind the last SOI if it is open.
Located(k, range) ==
    IF k <= Len(jpeg_info.image_ranges)
    THEN ContainsRange(jpeg_info.image_ranges[k], range)
    ELSE /\ soi.begin <= range.begin
         /\ range.begin < range.end
         /\ range.end <= Position

\* A new image does not disturb those before it, all of which have ended.
LEMMA LocatedAtSOI ==
    ASSUME jpeg_info'.image_ranges = jpeg_info.image_ranges,
           NEW k, k <= Len(jpeg_info.image_ranges), NEW range, Located(k, range)
    PROVE  Located(k, range)'
BY DEF Located, ContainsRange, IsValid

\* A segment within an image does not disturb any.
LEMMA LocatedInImage ==
    ASSUME TypeOK, NEW kind, NEW arriving, Arrived(kind, arriving),
           jpeg_info'.image_ranges = jpeg_info.image_ranges, soi' = soi,
           NEW k, NEW range \in DataRange, Located(k, range)
    PROVE  Located(k, range)'
<1>1. Position \in Nat /\ Position' \in Nat /\ Position <= Position'
  BY PositionType DEF Arrived, DataRange
<1>2. CASE k <= Len(jpeg_info.image_ranges)
  BY <1>2 DEF Located, ContainsRange, IsValid
<1>3. CASE ~ (k <= Len(jpeg_info.image_ranges))
  <2>1. range.end <= Position'
    BY <1>1, <1>3 DEF Located, DataRange
  <2> QED
    BY <1>3, <2>1 DEF Located
<1> QED
  BY <1>2, <1>3

\* What lies behind the last SOI lies in the image that the EOI ends.
LEMMA LocatedAtEOI ==
    ASSUME Types, NEW kind, NEW arriving, Arrived(kind, arriving),
           NEW image \in DataRange, image.begin = soi.begin, image.end = arriving.end,
           jpeg_info'.image_ranges = Append(jpeg_info.image_ranges, image),
           NEW k \in Nat, k <= Len(jpeg_info.image_ranges) + 1, k >= 1,
           NEW range \in DataRange, Located(k, range)
    PROVE  Located(k, range)'
<1> PICK images : images = jpeg_info.image_ranges
  OBVIOUS
<1> PICK new : new = Append(images, image)
  OBVIOUS
<1>m. PICK m \in Nat : m = Len(images)
  BY ImagesTyped
<1>1. images \in Seq(DataRange)
  BY ImagesTyped
<1>2. /\ Len(new) = m + 1 /\ new[m + 1] = image
      /\ \A n \in 1 .. m : new[n] = images[n]
  BY <1>1, <1>m, AppendProperties
<1>3. CASE k \in 1 .. m
  <2>1. ContainsRange(images[k], range)
    BY <1>m, <1>3 DEF Located
  <2>2. ContainsRange(new[k], range)
    BY <1>2, <1>3, <2>1
  <2> QED
    BY <1>2, <1>3, <2>2 DEF Located, ContainsRange, IsValid
<1>4. CASE k = m + 1
  <2>1. /\ soi.begin <= range.begin /\ range.begin < range.end
        /\ range.end <= Position
    BY <1>m, <1>4 DEF Located
  <2>2. Position \in Nat /\ arriving \in DataRange /\ Position < arriving.end
    BY PositionType DEF Types, Arrived, DataRange
  <2>3. ContainsRange(image, range)
    BY <2>1, <2>2 DEF ContainsRange, IsValid, DataRange
  <2>4. ContainsRange(new[k], range)
    BY <1>2, <1>4, <2>3
  <2> QED
    BY <1>2, <1>4, <2>4 DEF Located, ContainsRange, IsValid
<1> QED
  BY <1>m, <1>3, <1>4

\* A segment that comes while an image is open lies in it.
LEMMA LocatedNow ==
    ASSUME Types, NEW kind, NEW range, Arrived(kind, range), SoiOK, SeenOK,
           IsValid(soi), soi' = soi,
           jpeg_info'.image_ranges = jpeg_info.image_ranges
    PROVE  Located(Len(jpeg_info.image_ranges) + 1, range)'
<1>1. PICK i \in 1 .. Len(seen) : soi = seen[i].range
  BY DEF SoiOK
<1>2. soi.begin < soi.end /\ soi.end <= Position
  BY <1>1 DEF SeenOK
<1>3. Position \in Nat /\ soi \in DataRange
  BY PositionType DEF Types, TypeOK
<1>4. /\ range \in DataRange /\ Position <= range.begin /\ range.begin < range.end
      /\ Position' = range.end
  BY DEF Arrived
<1>5. soi.begin <= range.begin
  BY <1>2, <1>3, <1>4 DEF DataRange
<1>6. Len(jpeg_info.image_ranges) \in Nat
  BY ImagesTyped
<1> QED
  BY <1>4, <1>5, <1>6 DEF Located, DataRange

-----------------------------------------------------------------------------
(***************************************************************************)
(* The inductive invariant.                                                *)
(***************************************************************************)

\* A segment info has the index of an image begun, and lies in it.
InfosOK ==
    \A n \in 1 .. Len(jpeg_info.segment_infos) :
        /\ jpeg_info.segment_infos[n].image_index < image_count
        /\ Located(jpeg_info.segment_infos[n].image_index + 1,
                   jpeg_info.segment_infos[n].range)

\* The primary image holds an MPF segment.
MpfSeen ==
    \E i \in 1 .. Len(seen) :
        seen[i].kind.starts = "MPF" /\ Located(1, seen[i].range)

\* The k-th image holds an XMP segment with that id.
Hint(k, id) ==
    \E i \in 1 .. Len(seen) :
        /\ seen[i].kind.starts = "xmp" /\ id \in seen[i].kind.ids
        /\ Located(k, seen[i].range)

\* What is counted has been seen.
CountsOK ==
    /\ image_count > 0 /\ mpf_count[1] > 0 => MpfSeen
    /\ \A k \in 2 .. image_count : /\ depth_count[k] > 0 => Hint(k, "depth")
                                   /\ matte_count[k] > 0 => Hint(k, "matte")

\* While there is no Apple image, no image that has ended could have become one.
NoneBefore(old, count) ==
    ~IsValid(old) /\ mpf_count[1] > 0 =>
        \A k \in 2 .. Len(jpeg_info.image_ranges) : ~ (count[k] > 0)

\* The Apple image is not one behind the first that has ended and could be it.
NoneEarlier(old, count) ==
    mpf_count[1] > 0 =>
        \A k \in 2 .. Len(jpeg_info.image_ranges) :
            count[k] > 0 => \E n \in 2 .. k : old = jpeg_info.image_ranges[n]

ApplesOK ==
    /\ NoneBefore(jpeg_info.depth, depth_count)
    /\ NoneBefore(jpeg_info.matte, matte_count)
    /\ NoneEarlier(jpeg_info.depth, depth_count)
    /\ NoneEarlier(jpeg_info.matte, matte_count)
    /\ HoldsItsXmp(jpeg_info.depth, "depth")
    /\ HoldsItsXmp(jpeg_info.matte, "matte")

\* An image range is there for every image that has ended.
EndsOK == Len(jpeg_info.image_ranges) = EndsOf(Len(seen))

Parts == EndsOK /\ InfosOK /\ CountsOK /\ ApplesOK

Belongs == WellFormed => Parts

-----------------------------------------------------------------------------
(***************************************************************************)
(* What is kept when what is located stays located.                        *)
(***************************************************************************)
Stays ==
    \A k \in 1 .. image_count, range \in DataRange : Located(k, range) => Located(k, range)'

\* An MPF segment stays in the primary image.
LEMMA MpfStays ==
    ASSUME Stays, TypeOK, image_count > 0, MpfSeen, NEW kind, NEW range,
           Arrived(kind, range)
    PROVE  MpfSeen'
<1>1. PICK i \in 1 .. Len(seen) : seen[i].kind.starts = "MPF" /\ Located(1, seen[i].range)
  BY DEF MpfSeen
<1>2. i \in 1 .. Len(seen') /\ seen'[i] = seen[i]
  BY DEF Arrived
<1>3. PICK r \in DataRange : r = seen[i].range
  BY SeenElements
<1>4. 1 \in 1 .. image_count
  BY DEF TypeOK
<1>5. Located(1, r)'
  BY <1>1, <1>3, <1>4 DEF Stays
<1> QED
  BY <1>1, <1>2, <1>3, <1>5 DEF MpfSeen, Located

\* An XMP segment stays in its image.
LEMMA HintStays ==
    ASSUME Stays, TypeOK, NEW k \in 1 .. image_count, NEW id, Hint(k, id),
           NEW kind, NEW range, Arrived(kind, range)
    PROVE  Hint(k, id)'
<1>1. PICK i \in 1 .. Len(seen) :
          /\ seen[i].kind.starts = "xmp" /\ id \in seen[i].kind.ids
          /\ Located(k, seen[i].range)
  BY DEF Hint
<1>2. i \in 1 .. Len(seen') /\ seen'[i] = seen[i]
  BY DEF Arrived
<1>3. PICK r \in DataRange : r = seen[i].range
  BY SeenElements
<1>4. Located(k, r)'
  BY <1>1, <1>3 DEF Stays
<1> QED
  BY <1>1, <1>2, <1>3, <1>4 DEF Hint, Located

\* A segment info stays in its image.
LEMMA InfoStays ==
    ASSUME Inv, Stays, NEW info \in SegmentInfo, info.image_index < image_count,
           Located(info.image_index + 1, info.range)
    PROVE  Located(info.image_index + 1, info.range)'
<1>1. info.image_index \in Nat /\ info.range \in DataRange /\ image_count \in Nat
  BY DEF SegmentInfo, Inv, Types, TypeOK
<1>2. info.image_index + 1 \in 1 .. image_count
  BY <1>1
<1>3. PICK k \in 1 .. image_count, r \in DataRange :
          k = info.image_index + 1 /\ r = info.range
  BY <1>1, <1>2
<1>4. Located(k, r)'
  BY <1>3 DEF Stays
<1> QED
  BY <1>3, <1>4

\* So do all of them.
LEMMA InfosStay ==
    ASSUME Inv, Stays, InfosOK, image_count' \in Nat, image_count <= image_count',
           NEW infos, infos = jpeg_info.segment_infos, NEW m, m = Len(infos)
    PROVE  /\ m \in Nat /\ infos \in Seq(SegmentInfo)
           /\ \A i \in 1 .. m : /\ infos[i].image_index < image_count'
                                /\ Located(infos[i].image_index + 1, infos[i].range)'
           /\ jpeg_info'.segment_infos = infos => InfosOK'
<1>1. m \in Nat /\ infos \in Seq(SegmentInfo)
  BY LenProperties DEF Inv, Types, Info
<1>2. \A i \in 1 .. m : infos[i] \in SegmentInfo
  BY <1>1, ElementOfSeq
<1>3. \A i \in 1 .. m : /\ infos[i].image_index < image_count'
                        /\ Located(infos[i].image_index + 1, infos[i].range)'
  <2> TAKE i \in 1 .. m
  <2>1. PICK info \in SegmentInfo : info = infos[i]
    BY <1>2
  <2>2. info.image_index < image_count /\ Located(info.image_index + 1, info.range)
    BY <2>1 DEF InfosOK
  <2>3. info.image_index \in Nat /\ image_count \in Nat
    BY DEF SegmentInfo, Inv, Types, TypeOK
  <2>4. Located(info.image_index + 1, info.range)'
    BY <2>2, InfoStays
  <2> QED
    BY <2>1, <2>2, <2>3, <2>4
<1> QED
  BY <1>1, <1>3 DEF InfosOK

\* And so does one that is added in its image.
LEMMA InfosGrow ==
    ASSUME Inv, Stays, InfosOK, image_count' = image_count,
           NEW info \in SegmentInfo, info.image_index < image_count,
           Located(info.image_index + 1, info.range)',
           jpeg_info'.segment_infos = Append(jpeg_info.segment_infos, info)
    PROVE  InfosOK'
<1> PICK infos : infos = jpeg_info.segment_infos
  OBVIOUS
<1> PICK new : new = jpeg_info'.segment_infos
  OBVIOUS
<1>m. PICK m : m = Len(infos)
  OBVIOUS
<1>1. image_count \in Nat
  BY DEF Inv, Types, TypeOK
<1>2. /\ m \in Nat /\ infos \in Seq(SegmentInfo)
      /\ \A i \in 1 .. m : /\ infos[i].image_index < image_count
                           /\ Located(infos[i].image_index + 1, infos[i].range)'
  BY <1>m, <1>1, InfosStay
<1>3. /\ Len(new) = m + 1 /\ new[m + 1] = info
      /\ \A i \in 1 .. m : new[i] = infos[i]
  BY <1>m, <1>2, AppendProperties
<1>4. \A i \in 1 .. m + 1 : i \in 1 .. m \/ i = m + 1
  BY <1>2
<1>5. \A i \in 1 .. m + 1 : /\ new[i].image_index < image_count
                            /\ Located(new[i].image_index + 1, new[i].range)'
  BY <1>2, <1>3, <1>4
<1> QED
  BY <1>3, <1>5 DEF InfosOK

\* What was counted stays seen, and what is counted now is seen now.
LEMMA CountsStay ==
    ASSUME Inv, Stays, CountsOK, NEW kind, NEW range, Arrived(kind, range),
           image_count' \in Nat,
           image_count' > 0 /\ mpf_count'[1] > 0 =>
               (image_count > 0 /\ mpf_count[1] > 0) \/ MpfSeen',
           \A k \in 2 .. image_count' :
               depth_count'[k] > 0 =>
                   (k <= image_count /\ depth_count[k] > 0) \/ Hint(k, "depth")',
           \A k \in 2 .. image_count' :
               matte_count'[k] > 0 =>
                   (k <= image_count /\ matte_count[k] > 0) \/ Hint(k, "matte")'
    PROVE  CountsOK'
<1>1. TypeOK /\ image_count \in Nat
  BY DEF Inv, Types, TypeOK
<1>2. image_count' > 0 /\ mpf_count'[1] > 0 => MpfSeen'
  BY <1>1, MpfStays DEF CountsOK
<1>3. ASSUME NEW k \in 2 .. image_count'
      PROVE  /\ depth_count'[k] > 0 => Hint(k, "depth")'
             /\ matte_count'[k] > 0 => Hint(k, "matte")'
  <2>1. CASE k <= image_count
    <3>1. k \in 2 .. image_count /\ k \in 1 .. image_count
      BY <1>1, <1>3, <2>1
    <3>2. /\ depth_count[k] > 0 => Hint(k, "depth")
          /\ matte_count[k] > 0 => Hint(k, "matte")
      BY <3>1 DEF CountsOK
    <3>3. /\ Hint(k, "depth") => Hint(k, "depth")'
          /\ Hint(k, "matte") => Hint(k, "matte")'
      BY <1>1, <3>1, HintStays
    <3> QED
      BY <3>2, <3>3
  <2> QED
    BY <2>1
<1> QED
  BY <1>2, <1>3 DEF CountsOK

\* An Apple image keeps what makes it one.
LEMMA HoldsStays ==
    ASSUME Inv, NEW kind, NEW range, Arrived(kind, range), NEW image, NEW id,
           HoldsItsXmp(image, id),
           NEW images, images = jpeg_info'.image_ranges, Len(images) \in Nat,
           Len(jpeg_info.image_ranges) <= Len(images),
           \A n \in 1 .. Len(jpeg_info.image_ranges) :
               images[n] = jpeg_info.image_ranges[n]
    PROVE  HoldsItsXmp(image, id)'
<1> SUFFICES ASSUME IsValid(image)
             PROVE  HoldsItsXmp(image, id)'
  BY DEF HoldsItsXmp
<1> PICK old : old = jpeg_info.image_ranges
  OBVIOUS
<1>1. Len(old) \in Nat
  BY ImagesTyped DEF Inv
<1>2. PICK n \in 2 .. Len(old) : image = old[n]
  BY DEF HoldsItsXmp
<1>3. n \in 2 .. Len(images) /\ image = images[n] /\ images[1] = old[1]
  BY <1>1, <1>2
<1>4. PICK i \in 1 .. Len(seen) :
          /\ seen[i].kind.starts = "xmp" /\ id \in seen[i].kind.ids
          /\ ContainsRange(image, seen[i].range)
  BY DEF HoldsItsXmp
<1>5. PICK j \in 1 .. Len(seen) :
          seen[j].kind.starts = "MPF" /\ ContainsRange(old[1], seen[j].range)
  BY DEF HoldsItsXmp
<1>6. /\ i \in 1 .. Len(seen') /\ seen'[i] = seen[i]
      /\ j \in 1 .. Len(seen') /\ seen'[j] = seen[j]
  BY DEF Arrived
<1> QED
  BY <1>3, <1>4, <1>5, <1>6 DEF HoldsItsXmp

\* Nor can an image that has ended become one while nothing is counted for it.
LEMMA NoneStays ==
    ASSUME Inv, jpeg_info'.image_ranges = jpeg_info.image_ranges,
           NEW old, NEW count, NEW new, NoneBefore(old, count), NoneEarlier(old, count),
           Len(jpeg_info.image_ranges) >= 2 => mpf_count'[1] = mpf_count[1],
           \A k \in 2 .. Len(jpeg_info.image_ranges) : new[k] = count[k]
    PROVE  NoneBefore(old, new)' /\ NoneEarlier(old, new)'
<1>1. Len(jpeg_info.image_ranges) \in Nat
  BY ImagesTyped DEF Inv
<1>2. NoneBefore(old, new)'
  BY <1>1 DEF NoneBefore, IsValid
<1>3. NoneEarlier(old, new)'
  BY <1>1 DEF NoneEarlier
<1> QED
  BY <1>2, <1>3

\* The images that end a step as they were keep all of that.
LEMMA ApplesStay ==
    ASSUME Inv, ApplesOK, NEW kind, NEW range, Arrived(kind, range),
           jpeg_info'.image_ranges = jpeg_info.image_ranges,
           jpeg_info'.depth = jpeg_info.depth, jpeg_info'.matte = jpeg_info.matte,
           Len(jpeg_info.image_ranges) >= 2 => mpf_count'[1] = mpf_count[1],
           \A k \in 2 .. Len(jpeg_info.image_ranges) :
               depth_count'[k] = depth_count[k] /\ matte_count'[k] = matte_count[k]
    PROVE  ApplesOK'
<1> PICK depth, matte : depth = jpeg_info.depth /\ matte = jpeg_info.matte
  OBVIOUS
<1> PICK depths, depths1 : depths = depth_count /\ depths1 = depth_count'
  OBVIOUS
<1> PICK mattes, mattes1 : mattes = matte_count /\ mattes1 = matte_count'
  OBVIOUS
<1> PICK images : images = jpeg_info.image_ranges
  OBVIOUS
<1>1. HoldsItsXmp(depth, "depth")' /\ HoldsItsXmp(matte, "matte")'
  <2>1. HoldsItsXmp(depth, "depth") /\ HoldsItsXmp(matte, "matte")
    BY DEF ApplesOK
  <2>2. /\ images = jpeg_info'.image_ranges /\ Len(images) \in Nat
        /\ Len(jpeg_info.image_ranges) <= Len(images)
        /\ \A i \in 1 .. Len(jpeg_info.image_ranges) :
              images[i] = jpeg_info.image_ranges[i]
    BY ImagesTyped DEF Inv
  <2> QED
    BY <2>1, <2>2, HoldsStays
<1>2. /\ NoneBefore(depth, depths1)' /\ NoneBefore(matte, mattes1)'
      /\ NoneEarlier(depth, depths1)' /\ NoneEarlier(matte, mattes1)'
  <2>1. /\ NoneBefore(depth, depths) /\ NoneBefore(matte, mattes)
        /\ NoneEarlier(depth, depths) /\ NoneEarlier(matte, mattes)
    BY DEF ApplesOK
  <2>2. NoneBefore(depth, depths1)' /\ NoneEarlier(depth, depths1)'
    BY <2>1, NoneStays
  <2>3. NoneBefore(matte, mattes1)' /\ NoneEarlier(matte, mattes1)'
    BY <2>1, NoneStays
  <2> QED
    BY <2>2, <2>3
<1>3. jpeg_info'.depth = depth /\ jpeg_info'.matte = matte
  OBVIOUS
<1>4. ApplesOK' <=> /\ NoneBefore(depth, depths1)' /\ NoneBefore(matte, mattes1)'
                    /\ NoneEarlier(depth, depths1)' /\ NoneEarlier(matte, mattes1)'
                    /\ HoldsItsXmp(depth, "depth")' /\ HoldsItsXmp(matte, "matte")'
  BY <1>3 DEF ApplesOK, HoldsItsXmp, NoneBefore, NoneEarlier, IsValid
<1> QED
  BY <1>1, <1>2, <1>4

-----------------------------------------------------------------------------
(***************************************************************************)
(* Each kind of segment keeps it.                                          *)
(***************************************************************************)
\* Before a segment of a file of complete images, an image is open or none is.
LEMMA BelongsBefore ==
    ASSUME Inv, Belongs, NEW kind, NEW range, Arrived(kind, range), WellFormed',
           NEW m \in Nat, m = Len(jpeg_info.image_ranges)
    PROVE  /\ Parts
           /\ kind.marker = "SOI" => image_count = m
           /\ kind.marker # "SOI" => image_count = m + 1 /\ IsValid(soi)
<1>n. PICK n \in Nat : n = Len(seen)
  BY DEF Arrived
<1>1. /\ WellFormed
      /\ kind.marker = "SOI" => ImageOf(n) = EndsOf(n)
      /\ kind.marker # "SOI" => ImageOf(n) = EndsOf(n) + 1
  BY <1>n, WellFormedBefore
<1>2. Parts
  BY <1>1 DEF Belongs
<1>3. image_count = ImageOf(n) /\ m = EndsOf(n)
  BY <1>n, <1>2 DEF Inv, CountOK, Parts, EndsOK
<1>4. ASSUME image_count = m + 1
      PROVE  IsValid(soi)
  <2>1. ImageOf(n) # 0
    BY <1>3, <1>4
  <2>2. Places("SOI", n) # {}
    BY <2>1, FS_EmptySet DEF ImageOf
  <2>3. \E i \in 1 .. Len(seen) : seen[i].kind.marker = "SOI"
    BY <1>n, <2>2 DEF Places
  <2> QED
    BY <2>3 DEF Inv, SoiOK
<1> QED
  BY <1>1, <1>2, <1>3, <1>4

\* ProcessSOI keeps it.
LEMMA SOIBelongs ==
    ASSUME Inv, Belongs, NEW kind \in Kinds, NEW range, Arrived(kind, range),
           WellFormed', ProcessSOI(kind, range)
    PROVE  Parts'
<1>n. PICK n \in Nat : n = Len(seen)
  BY DEF Arrived
<1> PICK images : images = jpeg_info.image_ranges
  OBVIOUS
<1>m. PICK m \in Nat : m = Len(images)
  BY ImagesTyped DEF Inv
<1>1. /\ kind.marker = "SOI" /\ image_count' = image_count + 1
      /\ jpeg_info' = jpeg_info
      /\ mpf_count' = Append(mpf_count, 0) /\ depth_count' = Append(depth_count, 0)
      /\ matte_count' = Append(matte_count, 0)
  BY DEF ProcessSOI
<1>2. Parts /\ image_count = m
  BY <1>m, <1>1, BelongsBefore
<1>3. EndsOK'
  <2>1. EndsOf(n + 1)' = EndsOf(n) /\ Len(seen') = n + 1
    BY <1>n, <1>1, EndsCounted DEF Arrived
  <2> QED
    BY <1>n, <1>1, <1>2, <2>1 DEF EndsOK, Parts
<1>4. Stays
  BY <1>m, <1>1, <1>2, LocatedAtSOI DEF Stays
<1>5. InfosOK'
  <2>1. image_count' \in Nat /\ image_count <= image_count'
    BY <1>1, <1>2
  <2> QED
    BY <1>1, <1>2, <1>4, <2>1, InfosStay DEF Parts
<1>6. /\ \A k \in 1 .. m : /\ mpf_count'[k] = mpf_count[k]
                           /\ depth_count'[k] = depth_count[k]
                           /\ matte_count'[k] = matte_count[k]
      /\ mpf_count'[m + 1] = 0 /\ depth_count'[m + 1] = 0 /\ matte_count'[m + 1] = 0
  <2>1. /\ mpf_count \in [1 .. m -> Nat] /\ depth_count \in [1 .. m -> Nat]
        /\ matte_count \in [1 .. m -> Nat]
    BY <1>2 DEF Inv, Types, TypeOK
  <2>2. ASSUME NEW count \in [1 .. m -> Nat]
        PROVE  /\ \A k \in 1 .. m : Append(count, 0)[k] = count[k]
               /\ Append(count, 0)[m + 1] = 0
    <3>1. count \in Seq(Nat)
      BY SeqDef
    <3>2. Len(count) = m
      BY <3>1, LenProperties
    <3> QED
      BY <3>1, <3>2, AppendProperties
  <2> QED
    BY <1>1, <2>1, <2>2
<1>7. CountsOK'
  <2>1. image_count' \in Nat /\ \A k \in 1 .. image_count' : k \in 1 .. m \/ k = m + 1
    BY <1>1, <1>2
  <2>2. image_count' > 0 /\ mpf_count'[1] > 0 => image_count > 0 /\ mpf_count[1] > 0
    BY <1>1, <1>2, <1>6
  <2>3. \A k \in 2 .. image_count' :
            depth_count'[k] > 0 => k <= image_count /\ depth_count[k] > 0
    BY <1>2, <1>6, <2>1
  <2>4. \A k \in 2 .. image_count' :
            matte_count'[k] > 0 => k <= image_count /\ matte_count[k] > 0
    BY <1>2, <1>6, <2>1
  <2> QED
    BY <1>2, <1>4, <2>1, <2>2, <2>3, <2>4, CountsStay DEF Parts
<1>8. ApplesOK'
  <2>1. /\ Len(jpeg_info.image_ranges) >= 2 => mpf_count'[1] = mpf_count[1]
        /\ \A k \in 2 .. Len(jpeg_info.image_ranges) :
              depth_count'[k] = depth_count[k] /\ matte_count'[k] = matte_count[k]
    BY <1>m, <1>6
  <2>2. /\ jpeg_info'.image_ranges = jpeg_info.image_ranges
        /\ jpeg_info'.depth = jpeg_info.depth /\ jpeg_info'.matte = jpeg_info.matte
    BY <1>1
  <2> QED
    BY <1>2, <2>1, <2>2, ApplesStay DEF Parts
<1> QED
  BY <1>3, <1>5, <1>7, <1>8 DEF Parts

\* A segment that begins or ends no image keeps it, if it is what is counted.
LEMMA OtherBelongs ==
    ASSUME Inv, Belongs, NEW kind \in Kinds, NEW range, Arrived(kind, range),
           WellFormed', kind.marker \notin {"SOI", "EOI"},
           image_count' = image_count, soi' = soi,
           jpeg_info'.image_ranges = jpeg_info.image_ranges,
           jpeg_info'.depth = jpeg_info.depth, jpeg_info'.matte = jpeg_info.matte,
           \/ jpeg_info'.segment_infos = jpeg_info.segment_infos
           \/ \E info \in SegmentInfo :
                 /\ info.image_index = image_count - 1 /\ info.range = range
                 /\ jpeg_info'.segment_infos = Append(jpeg_info.segment_infos, info),
           \/ mpf_count' = mpf_count
           \/ /\ kind.starts = "MPF"
              /\ mpf_count' = [mpf_count EXCEPT ![image_count] = @ + 1],
           \/ depth_count' = depth_count
           \/ /\ kind.starts = "xmp" /\ "depth" \in kind.ids
              /\ depth_count' = [depth_count EXCEPT ![image_count] = @ + 1],
           \/ matte_count' = matte_count
           \/ /\ kind.starts = "xmp" /\ "matte" \in kind.ids
              /\ matte_count' = [matte_count EXCEPT ![image_count] = @ + 1]
    PROVE  Parts'
<1>n. PICK n \in Nat : n = Len(seen)
  BY DEF Arrived
<1>m. PICK m \in Nat : m = Len(jpeg_info.image_ranges)
  BY ImagesTyped DEF Inv
<1>1. Parts /\ image_count = m + 1 /\ IsValid(soi)
  BY <1>m, BelongsBefore
<1>2. Stays
  <2>1. TypeOK
    BY DEF Inv, Types
  <2> QED
    BY <2>1, LocatedInImage DEF Stays
<1>3. Located(m + 1, range)'
  BY <1>m, <1>1, LocatedNow DEF Inv
<1>4. /\ n + 1 \in 1 .. Len(seen') /\ seen'[n + 1].kind = kind
      /\ seen'[n + 1].range = range
  BY <1>n DEF Arrived
<1>5. EndsOK'
  <2>1. EndsOf(n + 1)' = EndsOf(n) /\ Len(seen') = n + 1
    BY <1>n, EndsCounted DEF Arrived
  <2> QED
    BY <1>n, <1>1, <2>1 DEF EndsOK, Parts
<1>6. InfosOK'
  <2>1. CASE jpeg_info'.segment_infos = jpeg_info.segment_infos
    <3>1. image_count' \in Nat /\ image_count <= image_count' /\ InfosOK
      BY <1>1 DEF Parts
    <3> QED
      BY <1>2, <2>1, <3>1, InfosStay
  <2>2. ASSUME NEW info \in SegmentInfo,
               info.image_index = image_count - 1, info.range = range,
               jpeg_info'.segment_infos = Append(jpeg_info.segment_infos, info)
        PROVE  InfosOK'
    <3>1. info.image_index < image_count /\ info.image_index + 1 = m + 1
      BY <1>1, <2>2
    <3>2. Located(info.image_index + 1, info.range)'
      BY <1>3, <2>2, <3>1
    <3> QED
      BY <1>1, <1>2, <2>2, <3>1, <3>2, InfosGrow DEF Parts
  <2> QED
    BY <2>1, <2>2
<1>7. /\ mpf_count \in [1 .. m + 1 -> Nat] /\ depth_count \in [1 .. m + 1 -> Nat]
      /\ matte_count \in [1 .. m + 1 -> Nat]
  BY <1>1 DEF Inv, Types, TypeOK
<1>8. \A k \in 1 .. m : /\ mpf_count'[k] = mpf_count[k]
                        /\ depth_count'[k] = depth_count[k]
                        /\ matte_count'[k] = matte_count[k]
  <2>1. ASSUME NEW old \in [1 .. m + 1 -> Nat], NEW new,
               new = old \/ new = [old EXCEPT ![image_count] = @ + 1]
        PROVE  \A k \in 1 .. m : new[k] = old[k]
    BY <1>1, <2>1
  <2>2. \A k \in 1 .. m : mpf_count'[k] = mpf_count[k]
    BY <1>7, <2>1, Zenon
  <2>3. \A k \in 1 .. m : depth_count'[k] = depth_count[k]
    BY <1>7, <2>1, Zenon
  <2>4. \A k \in 1 .. m : matte_count'[k] = matte_count[k]
    BY <1>7, <2>1, Zenon
  <2> QED
    BY <2>2, <2>3, <2>4
<1>9. CountsOK'
  <2>1. mpf_count'[m + 1] > 0 => mpf_count[m + 1] > 0 \/ kind.starts = "MPF"
    BY <1>1, <1>7
  <2>2. /\ depth_count'[m + 1] > 0 => depth_count[m + 1] > 0 \/ Hint(m + 1, "depth")'
        /\ matte_count'[m + 1] > 0 => matte_count[m + 1] > 0 \/ Hint(m + 1, "matte")'
    BY <1>1, <1>3, <1>4, <1>7 DEF Hint
  <2>3. mpf_count'[1] > 0 => mpf_count[1] > 0 \/ MpfSeen'
    <3>1. CASE m = 0
      BY <1>3, <1>4, <2>1, <3>1 DEF MpfSeen
    <3>2. CASE m # 0
      BY <1>8, <3>2
    <3> QED
      BY <3>1, <3>2
  <2>4. \A k \in 2 .. image_count' : k \in 1 .. m \/ k = m + 1
    BY <1>1
  <2>5. \A k \in 2 .. image_count' :
            depth_count'[k] > 0 =>
                (k <= image_count /\ depth_count[k] > 0) \/ Hint(k, "depth")'
    BY <1>1, <1>8, <2>2, <2>4
  <2>6. \A k \in 2 .. image_count' :
            matte_count'[k] > 0 =>
                (k <= image_count /\ matte_count[k] > 0) \/ Hint(k, "matte")'
    BY <1>1, <1>8, <2>2, <2>4
  <2> QED
    BY <1>1, <1>2, <2>3, <2>5, <2>6, CountsStay DEF Parts
<1>10. ApplesOK'
  <2>1. /\ Len(jpeg_info.image_ranges) >= 2 => mpf_count'[1] = mpf_count[1]
        /\ \A k \in 2 .. Len(jpeg_info.image_ranges) :
              depth_count'[k] = depth_count[k] /\ matte_count'[k] = matte_count[k]
    BY <1>m, <1>8
  <2> QED
    BY <1>1, <2>1, ApplesStay DEF Parts
<1> QED
  BY <1>5, <1>6, <1>9, <1>10 DEF Parts

\* The image that ends becomes the Apple image only if it and the primary image hold
\* what it takes, and does become it then.
LEMMA AppleImageHolds ==
    ASSUME Inv, Stays, CountsOK, NEW kind, NEW range, Arrived(kind, range),
           NEW m \in Nat, m = Len(jpeg_info.image_ranges), image_count = m + 1,
           NEW image \in DataRange, IsValid(image),
           jpeg_info'.image_ranges = Append(jpeg_info.image_ranges, image),
           mpf_count' = mpf_count,
           NEW count \in [1 .. m + 1 -> Nat], NEW id,
           \A k \in 2 .. m + 1 : count[k] > 0 => Hint(k, id),
           NEW old, NoneBefore(old, count), NoneEarlier(old, count),
           HoldsItsXmp(old, id),
           NEW new, new = AppleImage(old, count, image)
    PROVE  NoneBefore(new, count)' /\ NoneEarlier(new, count)' /\ HoldsItsXmp(new, id)'
<1> PICK images, images1 : /\ images = jpeg_info.image_ranges
                           /\ images1 = jpeg_info'.image_ranges
  OBVIOUS
<1>1. images \in Seq(DataRange)
  BY ImagesTyped DEF Inv
<1>2. /\ Len(images1) = m + 1 /\ images1[m + 1] = image
      /\ \A k \in 1 .. m : images1[k] = images[k]
  BY <1>1, AppendProperties
<1>3. Len(count) = m + 1
  <2>1. count \in Seq(Nat)
    BY SeqDef
  <2> QED
    BY <2>1, LenProperties
<1>4. HasAppleImage(count) <=>
         m + 1 > 1 /\ mpf_count[1] > 0 /\ \E k \in 2 .. m + 1 : count[k] > 0
  BY <1>3 DEF HasAppleImage
<1>5. CASE IsValid(old)
  <2>1. new = old
    BY <1>5 DEF AppleImage
  <2>2. HoldsItsXmp(old, id)'
    BY <1>2, HoldsStays
  <2>3. \E n \in 2 .. m : old = images[n]
    BY <1>5 DEF HoldsItsXmp
  <2>4. ASSUME mpf_count[1] > 0, NEW k \in 2 .. m + 1, count[k] > 0
        PROVE  \E n \in 2 .. k : old = images1[n]
    <3>1. CASE k \in 2 .. m
      <4>1. PICK n \in 2 .. k : old = images[n]
        BY <2>4, <3>1 DEF NoneEarlier
      <4>2. n \in 1 .. m
        BY <3>1
      <4> QED
        BY <1>2, <4>1, <4>2
    <3>2. CASE k = m + 1
      <4>1. PICK n \in 2 .. m : old = images[n]
        BY <2>3
      <4>2. n \in 1 .. m /\ n \in 2 .. k
        BY <3>2
      <4> QED
        BY <1>2, <4>1, <4>2
    <3>3. k \in 2 .. m \/ k = m + 1
      OBVIOUS
    <3> QED
      BY <3>1, <3>2, <3>3
  <2>5. NoneEarlier(old, count)'
    BY <1>2, <2>4 DEF NoneEarlier
  <2> QED
    BY <1>5, <2>1, <2>2, <2>5 DEF NoneBefore, IsValid
<1>6. CASE ~ IsValid(old) /\ ~ HasAppleImage(count)
  <2>1. new = old
    BY <1>6 DEF AppleImage
  <2>2. HoldsItsXmp(new, id)'
    BY <1>6, <2>1 DEF HoldsItsXmp, IsValid
  <2>3. NoneBefore(new, count)'
    <3>1. mpf_count[1] > 0 => \A k \in 2 .. m + 1 : ~ (count[k] > 0)
      BY <1>4, <1>6
    <3> QED
      BY <1>2, <3>1 DEF NoneBefore
  <2>4. NoneEarlier(new, count)'
    <3>1. mpf_count[1] > 0 => \A k \in 2 .. m + 1 : ~ (count[k] > 0)
      BY <1>4, <1>6
    <3> QED
      BY <1>2, <3>1 DEF NoneEarlier
  <2> QED
    BY <2>2, <2>3, <2>4
<1>7. CASE ~ IsValid(old) /\ HasAppleImage(count)
  <2>1. new = image
    BY <1>7 DEF AppleImage
  <2>2. NoneBefore(new, count)'
    BY <2>1 DEF NoneBefore, IsValid
  <2>3. PICK k \in 2 .. m + 1 : count[k] > 0
    BY <1>4, <1>7
  <2>4. k = m + 1
    <3>1. \A i \in 2 .. m : ~ (count[i] > 0)
      BY <1>4, <1>7 DEF NoneBefore
    <3>2. k \in 2 .. m \/ k = m + 1
      OBVIOUS
    <3> QED
      BY <2>3, <3>1, <3>2
  <2>5. MpfSeen' /\ Hint(m + 1, id)'
    <3>1. MpfSeen /\ Hint(m + 1, id)
      BY <1>4, <1>7, <2>3, <2>4 DEF CountsOK
    <3>2. TypeOK /\ m + 1 \in 1 .. image_count /\ image_count > 0
      BY DEF Inv, Types
    <3>3. MpfSeen'
      BY <3>1, <3>2, MpfStays
    <3>4. Hint(m + 1, id)'
      BY <3>1, <3>2, HintStays
    <3> QED
      BY <3>3, <3>4
  <2>6. \E i \in 1 .. Len(seen') :
           seen'[i].kind.starts = "MPF" /\ ContainsRange(images1[1], seen'[i].range)
    BY <1>2, <2>5 DEF MpfSeen, Located, ContainsRange, IsValid
  <2>7. \E i \in 1 .. Len(seen') :
           /\ seen'[i].kind.starts = "xmp" /\ id \in seen'[i].kind.ids
           /\ ContainsRange(image, seen'[i].range)
    BY <1>2, <2>5 DEF Hint, Located, ContainsRange, IsValid
  <2>8. \E n \in 2 .. Len(images1) : image = images1[n]
    BY <1>2, <2>3, <2>4
  <2>9. HoldsItsXmp(image, id)'
    BY <2>6, <2>7, <2>8 DEF HoldsItsXmp
  <2>10. NoneEarlier(image, count)'
    <3>1. ASSUME NEW i \in 2 .. m + 1, count[i] > 0
          PROVE  \E n \in 2 .. i : image = images1[n]
      <4>1. \A j \in 2 .. m : ~ (count[j] > 0)
        BY <1>4, <1>7 DEF NoneBefore
      <4>2. i = m + 1
        BY <3>1, <4>1
      <4> QED
        BY <1>2, <4>2
    <3> QED
      BY <1>2, <3>1 DEF NoneEarlier
  <2> QED
    BY <2>1, <2>2, <2>9, <2>10
<1> QED
  BY <1>5, <1>6, <1>7

\* ProcessEOI keeps it.
LEMMA EOIBelongs ==
    ASSUME Inv, Belongs, NEW kind \in Kinds, NEW range, Arrived(kind, range),
           WellFormed', ProcessEOI(kind, range)
    PROVE  Parts'
<1>n. PICK n \in Nat : n = Len(seen)
  BY DEF Arrived
<1>m. PICK m \in Nat : m = Len(jpeg_info.image_ranges)
  BY ImagesTyped DEF Inv
<1> PICK image : image = ImageUpTo(range)
  OBVIOUS
<1> PICK depth, matte : depth = jpeg_info.depth /\ matte = jpeg_info.matte
  OBVIOUS
<1> PICK depths, mattes : depths = depth_count /\ mattes = matte_count
  OBVIOUS
<1> PICK depth1 : depth1 = AppleImage(depth, depths, image)
  OBVIOUS
<1> PICK matte1 : matte1 = AppleImage(matte, mattes, image)
  OBVIOUS
<1> PICK images1 : images1 = Append(jpeg_info.image_ranges, image)
  OBVIOUS
<1>1. /\ kind.marker = "EOI" /\ soi' = soi /\ image_count' = image_count
      /\ mpf_count' = mpf_count /\ depth_count' = depth_count
      /\ matte_count' = matte_count
  BY DEF ProcessEOI, counts
<1>2. Parts /\ image_count = m + 1 /\ IsValid(soi)
  BY <1>m, <1>1, BelongsBefore
<1>3. /\ Types /\ TypeOK /\ jpeg_info \in Info /\ soi \in DataRange
      /\ jpeg_info.image_ranges \in Seq(DataRange)
  BY DEF Inv, Types, TypeOK
<1>4. jpeg_info' = [jpeg_info EXCEPT !.image_ranges = images1,
                                     !.depth = depth1, !.matte = matte1]
  BY <1>2 DEF ProcessEOI
<1>5. /\ jpeg_info'.image_ranges = images1
      /\ jpeg_info'.segment_infos = jpeg_info.segment_infos
      /\ jpeg_info'.depth = depth1 /\ jpeg_info'.matte = matte1
  BY <1>3, <1>4 DEF Info
<1>6. /\ image \in DataRange /\ image.begin = soi.begin /\ image.end = range.end
      /\ IsValid(image)
  <2>1. PICK i \in 1 .. Len(seen) : soi = seen[i].range
    BY <1>2 DEF Inv, SoiOK
  <2>2. soi.begin < soi.end /\ soi.end <= Position
    BY <2>1 DEF Inv, SeenOK
  <2>3. Position \in Nat
    BY <1>3, PositionType
  <2>4. range \in DataRange /\ Position <= range.begin /\ range.begin < range.end
    BY DEF Arrived
  <2> QED
    BY <1>3, <2>2, <2>3, <2>4 DEF ImageUpTo, NewRange, DataRange, IsValid
<1>7. EndsOK'
  <2>1. EndsOf(n + 1)' = EndsOf(n) + 1 /\ Len(seen') = n + 1
    BY <1>n, <1>1, EndsCounted DEF Arrived
  <2>2. Len(images1) = m + 1
    BY <1>m, <1>3, <1>6, AppendProperties
  <2> QED
    BY <1>n, <1>m, <1>2, <1>5, <2>1, <2>2 DEF EndsOK, Parts
<1>8. Stays
  <2> SUFFICES ASSUME NEW k \in 1 .. image_count, NEW r \in DataRange, Located(k, r)
               PROVE  Located(k, r)'
    BY DEF Stays
  <2>1. k \in Nat /\ k >= 1 /\ k <= Len(jpeg_info.image_ranges) + 1
    BY <1>m, <1>2
  <2> QED
    BY <1>3, <1>5, <1>6, <2>1, LocatedAtEOI
<1>9. InfosOK'
  <2>1. image_count' \in Nat /\ image_count <= image_count' /\ InfosOK
    BY <1>1, <1>2 DEF Parts
  <2> QED
    BY <1>5, <1>8, <2>1, InfosStay
<1>10. CountsOK'
  <2>1. /\ image_count' \in Nat /\ CountsOK
        /\ image_count' > 0 /\ mpf_count'[1] > 0 => image_count > 0 /\ mpf_count[1] > 0
    BY <1>1, <1>2 DEF Parts
  <2>2. \A k \in 2 .. image_count' :
           depth_count'[k] > 0 => k <= image_count /\ depth_count[k] > 0
    BY <1>1, <1>2
  <2>3. \A k \in 2 .. image_count' :
           matte_count'[k] > 0 => k <= image_count /\ matte_count[k] > 0
    BY <1>1, <1>2
  <2> QED
    BY <1>8, <2>1, <2>2, <2>3, CountsStay
<1>11. ApplesOK'
  <2>1. depths \in [1 .. m + 1 -> Nat] /\ mattes \in [1 .. m + 1 -> Nat]
    BY <1>2, <1>3 DEF TypeOK
  <2>2. /\ \A k \in 2 .. m + 1 : depths[k] > 0 => Hint(k, "depth")
        /\ \A k \in 2 .. m + 1 : mattes[k] > 0 => Hint(k, "matte")
    BY <1>2 DEF Parts, CountsOK
  <2>3. /\ NoneBefore(depth, depths) /\ NoneEarlier(depth, depths)
        /\ NoneBefore(matte, mattes) /\ NoneEarlier(matte, mattes)
        /\ HoldsItsXmp(depth, "depth") /\ HoldsItsXmp(matte, "matte")
    BY <1>2 DEF Parts, ApplesOK
  <2>4. CountsOK /\ jpeg_info'.image_ranges = Append(jpeg_info.image_ranges, image)
    BY <1>2, <1>5 DEF Parts
  <2>5. /\ NoneBefore(depth1, depths)' /\ NoneEarlier(depth1, depths)'
        /\ HoldsItsXmp(depth1, "depth")'
    BY <1>m, <1>1, <1>2, <1>6, <1>8, <2>1, <2>2, <2>3, <2>4, AppleImageHolds
  <2>6. /\ NoneBefore(matte1, mattes)' /\ NoneEarlier(matte1, mattes)'
        /\ HoldsItsXmp(matte1, "matte")'
    BY <1>m, <1>1, <1>2, <1>6, <1>8, <2>1, <2>2, <2>3, <2>4, AppleImageHolds
  <2>7. depth_count' = depths /\ matte_count' = mattes
    BY <1>1
  <2> QED
    BY <1>5, <2>5, <2>6, <2>7 DEF ApplesOK, NoneBefore, NoneEarlier, HoldsItsXmp, IsValid
<1> QED
  BY <1>7, <1>9, <1>10, <1>11 DEF Parts

\* A segment info that is added is that of the segment, in the image last begun.
LEMMA InfoAddedHere ==
    ASSUME Inv, NEW type \in InfoTypes, NEW range \in DataRange, image_count > 0,
           AddSegmentInfo(type, range)
    PROVE  \E info \in SegmentInfo :
              /\ info.image_index = image_count - 1 /\ info.range = range
              /\ jpeg_info'.segment_infos = Append(jpeg_info.segment_infos, info)
<1> PICK info : info = [image_index |-> image_count - 1, range |-> range,
                        type |-> type, captured |-> type \in captures]
  OBVIOUS
<1>1. jpeg_info \in Info /\ image_count \in Nat
  BY DEF Inv, Types, TypeOK
<1>2. info \in SegmentInfo
  BY <1>1 DEF SegmentInfo
<1>3. jpeg_info' = [jpeg_info EXCEPT !.segment_infos = Append(@, info)]
  BY DEF AddSegmentInfo
<1>4. jpeg_info'.segment_infos = Append(jpeg_info.segment_infos, info)
  BY <1>1, <1>3 DEF Info
<1> QED
  BY <1>2, <1>4

\* The other handlers keep it.
LEMMA OthersBelong ==
    ASSUME Inv, Belongs, NEW kind \in Kinds, NEW range, Arrived(kind, range),
           WellFormed',
           \/ ProcessAPP0(kind, range)
           \/ ProcessAPP2(kind, range)
           \/ ProcessPrimaryXmp(kind)
           \/ ProcessExtendedXmp(kind, range)
           \/ ProcessOtherAPP1(kind, range)
    PROVE  Parts'
<1>1. /\ kind.marker \in {"APP0", "APP1", "APP2"}
      /\ image_count' = image_count /\ soi' = soi
  BY DEF ProcessAPP0, ProcessAPP2, ProcessPrimaryXmp, ProcessExtendedXmp,
         ProcessOtherAPP1
<1>2. /\ ResultTypes /\ image_count \in Nat /\ range \in DataRange /\ jpeg_info \in Info
  BY TypesSplit DEF Inv, CountTypes, ResultTypes, Arrived
<1>3. \/ \E type \in InfoTypes : image_count > 0 /\ AddSegmentInfo(type, range)
      \/ jpeg_info' \in {jpeg_info, [jpeg_info EXCEPT !.mimes = kind.mimes]}
  BY DEF ProcessAPP0, ProcessAPP2, ProcessPrimaryXmp, ProcessExtendedXmp,
         ProcessOtherAPP1, InfoTypes
<1>4. /\ jpeg_info'.image_ranges = jpeg_info.image_ranges
      /\ jpeg_info'.depth = jpeg_info.depth /\ jpeg_info'.matte = jpeg_info.matte
      /\ \/ jpeg_info'.segment_infos = jpeg_info.segment_infos
         \/ \E info \in SegmentInfo :
               /\ info.image_index = image_count - 1 /\ info.range = range
               /\ jpeg_info'.segment_infos = Append(jpeg_info.segment_infos, info)
  <2>1. CASE \E type \in InfoTypes : image_count > 0 /\ AddSegmentInfo(type, range)
    BY <1>2, <2>1, InfoAdded, InfoAddedHere
  <2>2. CASE jpeg_info' \in {jpeg_info, [jpeg_info EXCEPT !.mimes = kind.mimes]}
    BY <1>2, <2>2 DEF Info
  <2> QED
    BY <1>3, <2>1, <2>2
<1>5. \/ mpf_count' = mpf_count
      \/ /\ kind.starts = "MPF"
         /\ mpf_count' = [mpf_count EXCEPT ![image_count] = @ + 1]
  BY DEF ProcessAPP0, ProcessAPP2, ProcessPrimaryXmp, ProcessExtendedXmp,
         ProcessOtherAPP1, counts
<1>6. \/ depth_count' = depth_count
      \/ /\ kind.starts = "xmp" /\ "depth" \in kind.ids
         /\ depth_count' = [depth_count EXCEPT ![image_count] = @ + 1]
  BY DEF ProcessAPP0, ProcessAPP2, ProcessPrimaryXmp, ProcessExtendedXmp,
         ProcessOtherAPP1, counts
<1>7. \/ matte_count' = matte_count
      \/ /\ kind.starts = "xmp" /\ "matte" \in kind.ids
         /\ matte_count' = [matte_count EXCEPT ![image_count] = @ + 1]
  BY DEF ProcessAPP0, ProcessAPP2, ProcessPrimaryXmp, ProcessExtendedXmp,
         ProcessOtherAPP1, counts
<1>8. kind.marker \notin {"SOI", "EOI"}
  BY <1>1
<1> QED
  BY <1>1, <1>4, <1>5, <1>6, <1>7, <1>8, OtherBelongs

-----------------------------------------------------------------------------
(***************************************************************************)
(* Initially, and by a step.                                               *)
(***************************************************************************)

\* It holds of a new builder.
LEMMA InitBelongs == Init => Belongs
<1> SUFFICES ASSUME Init
             PROVE  Belongs
  OBVIOUS
<1>1. seen = <<>> /\ Len(seen) = 0 /\ image_count = 0
  BY DEF Init
<1>2. /\ jpeg_info.image_ranges = <<>> /\ jpeg_info.segment_infos = <<>>
      /\ jpeg_info.depth = InvalidRange /\ jpeg_info.matte = InvalidRange
  BY DEF Init, EmptyInfo
<1>3. Len(jpeg_info.image_ranges) = 0 /\ Len(jpeg_info.segment_infos) = 0
  BY <1>2
<1>4. EndsOK
  <2>1. Places("EOI", 0) = {}
    BY DEF Places
  <2> QED
    BY <1>1, <1>3, <2>1, FS_EmptySet DEF EndsOK, EndsOf
<1>5. InfosOK /\ CountsOK
  BY <1>1, <1>3 DEF InfosOK, CountsOK
<1>6. ApplesOK
  BY <1>2, <1>3, InvalidRangeType DEF ApplesOK, NoneBefore, NoneEarlier, HoldsItsXmp
<1> QED
  BY <1>4, <1>5, <1>6 DEF Belongs, Parts

\* What changes none of its parts leaves it.
LEMMA QuietBelongs ==
    ASSUME Belongs, UNCHANGED <<seen, image_count, mpf_count, depth_count, matte_count,
                                soi>>,
           jpeg_info'.image_ranges = jpeg_info.image_ranges,
           jpeg_info'.segment_infos = jpeg_info.segment_infos,
           jpeg_info'.depth = jpeg_info.depth, jpeg_info'.matte = jpeg_info.matte
    PROVE  Belongs'
<1>1. Position' = Position
  BY DEF Position
<1>3. WellFormed' => WellFormed
  BY DEF WellFormed, ImageOf, Places
<1>4. EndsOK => EndsOK'
  BY DEF EndsOK, EndsOf, Places
<1>5. InfosOK => InfosOK'
  BY <1>1 DEF InfosOK, Located, ContainsRange, IsValid
<1>6. CountsOK => CountsOK'
  BY <1>1 DEF CountsOK, MpfSeen, Hint, Located, ContainsRange, IsValid
<1>7. ApplesOK => ApplesOK'
  BY DEF ApplesOK, NoneBefore, NoneEarlier, HoldsItsXmp, ContainsRange, IsValid
<1> QED
  BY <1>3, <1>4, <1>5, <1>6, <1>7 DEF Belongs, Parts

\* Every step keeps it.
LEMMA StepBelongs == Inv /\ Belongs /\ [Next]_vars => Belongs'
<1> SUFFICES ASSUME Inv, Belongs, [Next]_vars
             PROVE  Belongs'
  OBVIOUS
<1>1. TypeOK /\ jpeg_info \in Info
  BY DEF Inv, Types
<1>2. CASE Start \/ UNCHANGED vars
  BY <1>2, QuietBelongs DEF Start, vars, counts
<1>3. CASE Finish
  <2> PICK ranges : ranges = [t \in XmpTypes |-> xmp_builders[t].ranges]
    OBVIOUS
  <2>1. jpeg_info' = [jpeg_info EXCEPT !.xmp_ranges = ranges]
    BY <1>3 DEF Finish
  <2> QED
    BY <1>1, <1>3, <2>1, QuietBelongs DEF Finish, counts, Info
<1>4. CASE Process
  <2>1. PICK kind \in Kinds : \E range :
            Arrives(kind, range) /\ Arrived(kind, range) /\ ProcessOne(kind, range)
    BY <1>1, <1>4, ProcessNamed
  <2>2. PICK range :
            Arrives(kind, range) /\ Arrived(kind, range) /\ ProcessOne(kind, range)
    BY <2>1
  <2>3. WellFormed' => Parts'
    BY <2>2, SOIBelongs, EOIBelongs, OthersBelong DEF ProcessOne
  <2> QED
    BY <2>3 DEF Belongs
<1> QED
  BY <1>2, <1>3, <1>4 DEF Next

-----------------------------------------------------------------------------
(***************************************************************************)
(* What has been seen is counted, in every file.                           *)
(***************************************************************************)
MpfKinds == {kind \in Kinds : IsMpf(kind)}

HintKinds(id) == {kind \in Kinds : HintsAt(kind, id)}

\* A segment of such a kind is counted for its image, from that image on.
CountedIn(S, from, count) ==
    \A i \in 1 .. Len(seen) :
        seen[i].kind \in S /\ ImageOf(i) >= from => count[ImageOf(i)] > 0

Counted ==
    /\ CountedIn(MpfKinds, 1, mpf_count)
    /\ CountedIn(HintKinds("depth"), 2, depth_count)
    /\ CountedIn(HintKinds("matte"), 2, matte_count)

\* It is so behind a segment, if no count is lost and the segment itself is counted.
LEMMA CountedNext ==
    ASSUME Inv, NEW kind \in Kinds, NEW range, Arrived(kind, range),
           NEW S, NEW from \in Nat, from >= 1, NEW old, CountedIn(S, from, old), NEW new,
           \A k \in 1 .. image_count : old[k] > 0 => new[k] > 0,
           kind \in S => kind.marker # "SOI",
           kind \in S /\ image_count >= from => new[image_count] > 0
    PROVE  CountedIn(S, from, new)'
<1> PICK n \in Nat : n = Len(seen) /\ Len(seen') = n + 1
  BY DEF Arrived
<1>1. image_count = ImageOf(n)
  BY DEF Inv, CountOK
<1>2. \A i \in 1 .. n : seen'[i] = seen[i] /\ ImageOf(i)' = ImageOf(i)
  BY ImagesCounted DEF Arrived
<1>3. seen'[n + 1].kind = kind
  BY DEF Arrived
<1> SUFFICES ASSUME NEW i \in 1 .. n + 1, seen'[i].kind \in S, ImageOf(i)' >= from
             PROVE  new[ImageOf(i)'] > 0
  BY DEF CountedIn
<1>4. CASE i \in 1 .. n
  <2>1. seen[i].kind \in S /\ ImageOf(i)' = ImageOf(i) /\ ImageOf(i) >= from
    BY <1>2, <1>4
  <2>2. old[ImageOf(i)] > 0
    BY <1>4, <2>1 DEF CountedIn
  <2>3. ImageOf(i) \in Nat /\ ImageOf(n) \in Nat /\ ImageOf(i) <= ImageOf(n)
    BY <1>4, ImageOfGrows
  <2>4. ImageOf(i) \in 1 .. image_count
    BY <1>1, <2>1, <2>3
  <2> QED
    BY <2>1, <2>2, <2>4
<1>5. CASE i = n + 1
  <2>1. kind \in S
    BY <1>3, <1>5
  <2>2. ImageOf(i)' = image_count
    BY <1>1, <1>5, <2>1, ImagesCounted
  <2> QED
    BY <2>1, <2>2
<1> QED
  BY <1>4, <1>5

\* A new image takes no count away.
LEMMA CountKept ==
    ASSUME NEW n \in Nat, NEW count \in [1 .. n -> Nat], NEW k \in 1 .. n, count[k] > 0
    PROVE  Append(count, 0)[k] > 0
<1>1. count \in Seq(Nat) /\ Len(count) = n
  BY SeqDef, LenProperties
<1>2. Append(count, 0)[k] = count[k]
  BY <1>1, AppendProperties
<1> QED
  BY <1>2

\* Nor does one more segment, which is counted itself.
LEMMA CountRaised ==
    ASSUME NEW n \in Nat, NEW count \in [1 .. n -> Nat], NEW i \in 1 .. n,
           NEW new, new = [count EXCEPT ![i] = @ + 1]
    PROVE  /\ \A k \in 1 .. n : count[k] > 0 => new[k] > 0
           /\ new[i] > 0
<1>1. \A k \in 1 .. n : count[k] \in Nat /\ new[k] = IF k = i THEN count[k] + 1 ELSE count[k]
  OBVIOUS
<1> QED
  BY <1>1

\* Process counts what it is given.
LEMMA ProcessCounts ==
    ASSUME Inv, Counted, NEW kind \in Kinds, NEW range, Arrived(kind, range),
           ProcessOne(kind, range)
    PROVE  Counted'
<1> PICK mpf, depth, matte :
        mpf = mpf_count' /\ depth = depth_count' /\ matte = matte_count'
  OBVIOUS
<1> PICK mpf0, depth0, matte0 :
        mpf0 = mpf_count /\ depth0 = depth_count /\ matte0 = matte_count
  OBVIOUS
<1> PICK m \in Nat : m = image_count
  BY DEF Inv, Types, TypeOK
<1>1. mpf0 \in [1 .. m -> Nat] /\ depth0 \in [1 .. m -> Nat] /\ matte0 \in [1 .. m -> Nat]
  BY DEF Inv, Types, TypeOK
<1>2. /\ CountedIn(MpfKinds, 1, mpf0)
      /\ CountedIn(HintKinds("depth"), 2, depth0)
      /\ CountedIn(HintKinds("matte"), 2, matte0)
  BY DEF Counted
<1>3. /\ kind \in MpfKinds => kind.marker = "APP2" /\ kind.starts = "MPF"
      /\ \A id : kind \in HintKinds(id) =>
                    /\ kind.marker = "APP1" /\ kind.starts = "xmp" /\ id \in kind.ids
                    /\ id = "matte" => "depth" \notin kind.ids
  BY DEF MpfKinds, HintKinds, IsMpf, HintsAt, IsXmp
<1>4. ASSUME NEW old \in [1 .. m -> Nat], NEW new, NEW S, NEW from \in {1, 2},
             CountedIn(S, from, old), kind \in S => kind.marker # "SOI",
             \/ new = old /\ ~(kind \in S /\ m >= from)
             \/ new = Append(old, 0) /\ kind.marker = "SOI"
             \/ new = [old EXCEPT ![m] = @ + 1] /\ m >= 1
      PROVE  CountedIn(S, from, new)'
  <2>1. from \in Nat /\ from >= 1
    OBVIOUS
  <2>2. CASE new = old /\ ~(kind \in S /\ m >= from)
    <3>1. \A k \in 1 .. image_count : old[k] > 0 => new[k] > 0
      BY <2>2
    <3> QED
      BY <1>4, <2>1, <2>2, <3>1, CountedNext
  <2>3. CASE new = Append(old, 0) /\ kind.marker = "SOI"
    <3>1. \A k \in 1 .. image_count : old[k] > 0 => new[k] > 0
      BY <2>3, CountKept
    <3> QED
      BY <1>4, <2>1, <2>3, <3>1, CountedNext
  <2>4. CASE new = [old EXCEPT ![m] = @ + 1] /\ m >= 1
    <3>1. m \in 1 .. m
      BY <2>4
    <3>2. (\A k \in 1 .. image_count : old[k] > 0 => new[k] > 0) /\ new[image_count] > 0
      BY <2>4, <3>1, CountRaised
    <3> QED
      BY <1>4, <2>1, <3>2, CountedNext
  <2> QED
    BY <1>4, <2>2, <2>3, <2>4
<1>5. \/ mpf = mpf0 /\ ~(kind \in MpfKinds /\ m >= 1)
      \/ mpf = Append(mpf0, 0) /\ kind.marker = "SOI"
      \/ mpf = [mpf0 EXCEPT ![m] = @ + 1] /\ m >= 1
  BY <1>3 DEF ProcessOne, ProcessSOI, ProcessEOI, ProcessAPP0, ProcessAPP2,
              ProcessPrimaryXmp, ProcessExtendedXmp, ProcessOtherAPP1, counts
<1>6. \/ depth = depth0 /\ ~(kind \in HintKinds("depth") /\ m >= 2)
      \/ depth = Append(depth0, 0) /\ kind.marker = "SOI"
      \/ depth = [depth0 EXCEPT ![m] = @ + 1] /\ m >= 1
  BY <1>3 DEF ProcessOne, ProcessSOI, ProcessEOI, ProcessAPP0, ProcessAPP2,
              ProcessPrimaryXmp, ProcessExtendedXmp, ProcessOtherAPP1, counts
<1>7. \/ matte = matte0 /\ ~(kind \in HintKinds("matte") /\ m >= 2)
      \/ matte = Append(matte0, 0) /\ kind.marker = "SOI"
      \/ matte = [matte0 EXCEPT ![m] = @ + 1] /\ m >= 1
  BY <1>3 DEF ProcessOne, ProcessSOI, ProcessEOI, ProcessAPP0, ProcessAPP2,
              ProcessPrimaryXmp, ProcessExtendedXmp, ProcessOtherAPP1, counts
<1>8. CountedIn(MpfKinds, 1, mpf)'
  BY <1>1, <1>2, <1>3, <1>4, <1>5
<1>9. CountedIn(HintKinds("depth"), 2, depth)'
  BY <1>1, <1>2, <1>3, <1>4, <1>6
<1>10. CountedIn(HintKinds("matte"), 2, matte)'
  BY <1>1, <1>2, <1>3, <1>4, <1>7
<1> QED
  BY <1>8, <1>9, <1>10 DEF Counted, CountedIn, MpfKinds, HintKinds

\* Every step keeps it so.
LEMMA StepCounts == Inv /\ Counted /\ [Next]_vars => Counted'
<1> SUFFICES ASSUME Inv, Counted, [Next]_vars
             PROVE  Counted'
  OBVIOUS
<1>1. CASE Start \/ Finish \/ UNCHANGED vars
  <2>1. /\ seen' = seen /\ mpf_count' = mpf_count /\ depth_count' = depth_count
        /\ matte_count' = matte_count
    BY <1>1 DEF Start, Finish, vars, counts
  <2>2. \A i : ImageOf(i)' = ImageOf(i)
    BY <2>1 DEF ImageOf, Places
  <2> QED
    BY <2>1, <2>2 DEF Counted, CountedIn, MpfKinds, HintKinds
<1>2. CASE Process
  <2>1. TypeOK
    BY DEF Inv, Types
  <2>2. PICK kind \in Kinds : \E range :
            Arrives(kind, range) /\ Arrived(kind, range) /\ ProcessOne(kind, range)
    BY <1>2, <2>1, ProcessNamed
  <2> QED
    BY <2>2, ProcessCounts
<1> QED
  BY <1>1, <1>2 DEF Next

-----------------------------------------------------------------------------
(***************************************************************************)
(* The theorems.                                                           *)
(***************************************************************************)

\* In a file of complete images, what is noted belongs to the image it is noted for.
THEOREM BelongsAlways == Spec => [](Inv /\ Belongs)
<1>1. Init => Inv /\ Belongs
  BY InitInv, InitBelongs
<1>2. Inv /\ Belongs /\ [Next]_vars => Inv' /\ Belongs'
  BY StepInv, StepBelongs
<1> QED
  BY <1>1, <1>2, PTL DEF Spec

\* The image_index of a segment info (AddSegmentInfo, image_count_ - 1) is that of the
\* image range which GetImageRanges returns and which the segment lies in.
THEOREM InfosLieInTheirImagesAlways == Spec => []InfosLieInTheirImages
<1>1. Inv /\ Belongs => InfosLieInTheirImages
  <2> SUFFICES ASSUME Inv, Belongs, WellFormed,
                      NEW n \in 1 .. Len(jpeg_info.segment_infos),
                      jpeg_info.segment_infos[n].image_index
                          < Len(jpeg_info.image_ranges)
               PROVE  ContainsRange(
                          jpeg_info.image_ranges[
                              jpeg_info.segment_infos[n].image_index + 1],
                          jpeg_info.segment_infos[n].range)
    BY DEF InfosLieInTheirImages
  <2>1. jpeg_info.segment_infos[n] \in SegmentInfo
    BY LenProperties, ElementOfSeq DEF Inv, Types, Info
  <2>2. PICK info \in SegmentInfo : info = jpeg_info.segment_infos[n]
    BY <2>1
  <2>3. Located(info.image_index + 1, info.range)
    BY <2>2 DEF Belongs, Parts, InfosOK
  <2>4. Len(jpeg_info.image_ranges) \in Nat /\ info.image_index \in Nat
    BY ImagesTyped DEF Inv, SegmentInfo
  <2>5. info.image_index + 1 <= Len(jpeg_info.image_ranges)
    BY <2>2, <2>4
  <2> QED
    BY <2>2, <2>3, <2>5 DEF Located
<1> QED
  BY <1>1, BelongsAlways, PTL

\* What GetAppleDepthImageRange and GetAppleMatteImageRange return is an image after
\* the primary one that holds the XMP segment which says so.
THEOREM AppleImagesHoldTheirXmpAlways == Spec => []AppleImagesHoldTheirXmp
<1>1. Inv /\ Belongs => AppleImagesHoldTheirXmp
  BY DEF Belongs, Parts, ApplesOK, AppleImagesHoldTheirXmp
<1> QED
  BY <1>1, BelongsAlways, PTL

\* An image that could be it is the one, unless one before it is.
LEMMA FirstHinted ==
    ASSUME Inv, CountedIn(MpfKinds, 1, mpf_count), NEW id,
           NEW count, CountedIn(HintKinds(id), 2, count),
           NEW image, NoneEarlier(image, count)
    PROVE  IsFirstHinted(image, id)
<1> SUFFICES ASSUME NEW j \in 1 .. Len(seen), IsMpf(seen[j].kind), ImageOf(j) = 1,
                    NEW i \in 1 .. Len(seen), HintsAt(seen[i].kind, id),
                    ImageOf(i) \in 2 .. Len(jpeg_info.image_ranges)
             PROVE  \E n \in 2 .. ImageOf(i) : image = jpeg_info.image_ranges[n]
  BY DEF IsFirstHinted
<1>1. seen[j].kind \in Kinds /\ seen[i].kind \in Kinds
  BY SeenElements DEF Inv, Types
<1>2. seen[j].kind \in MpfKinds /\ seen[i].kind \in HintKinds(id)
  BY <1>1 DEF MpfKinds, HintKinds
<1>3. mpf_count[1] > 0
  BY <1>2 DEF CountedIn
<1>4. count[ImageOf(i)] > 0
  BY <1>2 DEF CountedIn
<1> QED
  BY <1>3, <1>4 DEF NoneEarlier

\* GetAppleDepthImageRange and GetAppleMatteImageRange return no image behind another
\* that holds the XMP segment which says so, of a primary image with an MPF segment.
THEOREM AppleImagesAreFirstAlways == Spec => []AppleImagesAreFirst
<1>1. Init => Counted
  BY DEF Init, Counted, CountedIn
<1>2. Spec => []Counted
  BY <1>1, Invariance, StepCounts, PTL DEF Spec
<1>3. Inv /\ Belongs /\ Counted => AppleImagesAreFirst
  <2> SUFFICES ASSUME Inv, Counted, ApplesOK
               PROVE  /\ IsFirstHinted(jpeg_info.depth, "depth")
                      /\ IsFirstHinted(jpeg_info.matte, "matte")
    BY DEF Belongs, Parts, AppleImagesAreFirst
  <2> QED
    BY FirstHinted DEF ApplesOK, Counted
<1> QED
  BY <1>2, <1>3, BelongsAlways, PTL

-----------------------------------------------------------------------------
(***************************************************************************)
(* Searching a text.                                                       *)
(***************************************************************************)
\* Nothing is folded here; of SequenceFolds the facts about FlattenSeq are used.
NoStep(context, x, y) == x

Facts == INSTANCE SequenceFolds WITH Op <- NoStep

\* Texts that are joined, and one more.
LEMMA FlattenFacts ==
    ASSUME NEW S
    PROVE  /\ \A s \in Seq(Seq(S)) : FlattenSeq(s) \in Seq(S)
           /\ \A s \in Seq(Seq(S)), t \in Seq(S) :
                 FlattenSeq(Append(s, t)) = FlattenSeq(s) \o t
           /\ FlattenSeq(<<>>) = <<>>
<1>1. \A seqs : FlattenSeq(seqs) = Facts!FlattenSeq(seqs)
  BY DEF FlattenSeq, Facts!FlattenSeq
<1>2. FlattenSeq(<<>>) = <<>>
  BY <1>1, Facts!FlattenNone
<1>3. ASSUME NEW s \in Seq(Seq(S))
      PROVE  FlattenSeq(s) \in Seq(S)
  BY <1>1, Facts!FlattenType
<1>4. ASSUME NEW s \in Seq(Seq(S)), NEW t \in Seq(S)
      PROVE  FlattenSeq(Append(s, t)) = FlattenSeq(s) \o t
  BY <1>1, Facts!FlattenNext
<1> QED
  BY <1>2, <1>3, <1>4

\* The smallest of some numbers.
LEMMA MinOfNumbers ==
    ASSUME NEW U, U \subseteq Nat, U # {}
    PROVE  Min(U) \in U /\ \A y \in U : Min(U) <= y
<1> PICK T : T = {n \in Nat : \A m \in 0 .. n : m \notin U}
  OBVIOUS
<1>1. \E x \in U : \A y \in U : x <= y
  <2> SUFFICES ASSUME \A x \in U : \E y \in U : ~(x <= y)
               PROVE  FALSE
    OBVIOUS
  <2>1. 0 \in T
    <3> SUFFICES ASSUME NEW m \in 0 .. 0, m \in U
                 PROVE  FALSE
      OBVIOUS
    <3>1. m = 0
      OBVIOUS
    <3>2. PICK y \in U : ~(m <= y)
      OBVIOUS
    <3> QED
      BY <3>1, <3>2
  <2>2. ASSUME NEW n \in Nat, n \in T
        PROVE  n + 1 \in T
    <3> SUFFICES ASSUME NEW m \in 0 .. n + 1, m \in U
                 PROVE  FALSE
      OBVIOUS
    <3>1. PICK y \in U : ~(m <= y)
      OBVIOUS
    <3>2. y \in 0 .. n
      BY <3>1
    <3> QED
      BY <2>2, <3>2
  <2>3. \A n \in Nat : n \in T
    BY <2>1, <2>2, Facts!NatSetInduction
  <2>4. PICK x \in U : x \in Nat
    OBVIOUS
  <2>5. x \in 0 .. x /\ x \in T
    BY <2>3, <2>4
  <2> QED
    BY <2>4, <2>5
<1>2. PICK x \in U : \A y \in U : x <= y
  BY <1>1
<1>3. \A z \in U : (\A y \in U : z <= y) => z = x
  BY <1>2
<1> QED
  BY <1>2, <1>3 DEF Min

\* The segment is a header, and the text behind it.
Fills(range, text) ==
    /\ range \in DataRange /\ TextBegin(range) \in Nat
    /\ range.end = TextBegin(range) + Len(text)

\* x is the location of the first such symbol from the a-th of the text on.
FoundAt(range, text, a, symbol, x) ==
    \E p \in a .. Len(text) : /\ x + 1 = TextBegin(range) + p /\ text[p] = symbol
                              /\ \A r \in a .. p - 1 : text[r] # symbol

Absent(text, a, symbol) == \A r \in a .. Len(text) : text[r] # symbol

\* What Find finds.
LEMMA FindIs ==
    ASSUME NEW S, NEW text \in Seq(S), NEW range, Fills(range, text), NEW symbol,
           NEW a \in Nat, 1 <= a, NEW start \in Nat, start + 1 = TextBegin(range) + a,
           NEW x, x = Find(range, text, start, symbol)
    PROVE  /\ x \in Nat
           /\ \/ x = range.end /\ Absent(text, a, symbol)
              \/ x # range.end /\ FoundAt(range, text, a, symbol, x)
<1>b. PICK tb \in Nat : tb = TextBegin(range)
  BY DEF Fills
<1>l. PICK len \in Nat : len = Len(text) /\ range.end = tb + len
  BY <1>b, LenProperties DEF Fills
<1>t. PICK T : T = {loc \in start .. (tb + len) - 1 : text[loc - tb + 1] = symbol}
  OBVIOUS
<1>u. PICK U : U = {tb + len} \cup T
  OBVIOUS
<1>1. x = Min(U)
  BY <1>b, <1>l, <1>t, <1>u DEF Find
<1>2. \A loc \in T : loc \in Nat /\ start <= loc /\ loc < tb + len
                     /\ text[loc - tb + 1] = symbol
  BY <1>t
<1>3. U \subseteq Nat /\ U # {}
  BY <1>2, <1>u
<1>4. x \in U /\ x \in Nat /\ \A y \in U : x <= y
  BY <1>1, <1>3, MinOfNumbers
<1>5. ASSUME NEW r \in a .. len, text[r] = symbol
      PROVE  \E loc \in T : loc + 1 = tb + r
  <2>1. PICK loc \in Nat : loc + 1 = tb + r
    <3>1. (tb + r) - 1 \in Nat /\ ((tb + r) - 1) + 1 = tb + r
      OBVIOUS
    <3> QED
      BY <3>1
  <2>2. loc - tb + 1 = r /\ loc \in start .. (tb + len) - 1
    <3>1. start + 1 = tb + a
      BY <1>b
    <3>2. r \in Nat /\ a <= r /\ r <= len
      BY <1>l
    <3>3. start <= loc /\ loc <= (tb + len) - 1 /\ loc - tb + 1 = r
      BY ONLY <2>1, <3>1, <3>2, a \in Nat, start \in Nat, tb \in Nat, len \in Nat
    <3> QED
      BY <2>1, <3>3
  <2> QED
    BY <1>t, <1>5, <2>1, <2>2
<1>6. CASE x = tb + len
  <2>1. \A loc \in T : FALSE
    BY <1>2, <1>4, <1>6, <1>u
  <2>2. Absent(text, a, symbol)
    BY <1>l, <1>5, <2>1 DEF Absent
  <2> QED
    BY <1>4, <1>6, <1>l, <2>2
<1>7. CASE x \in T
  <2>1. start <= x /\ x < tb + len /\ text[x - tb + 1] = symbol
    BY <1>2, <1>7
  <2>2. PICK p \in a .. len : p = x - tb + 1 /\ x + 1 = tb + p
    <3>1. start + 1 = tb + a
      BY <1>b
    <3>2. x \in Nat /\ start <= x /\ x < tb + len
      BY <1>4, <2>1
    <3>3. x - tb + 1 \in a .. len /\ x + 1 = tb + (x - tb + 1)
      BY ONLY <3>1, <3>2, a \in Nat, start \in Nat, tb \in Nat, len \in Nat
    <3> QED
      BY <3>3
  <2>3. ASSUME NEW r \in a .. p - 1
        PROVE  text[r] # symbol
    <3> SUFFICES ASSUME text[r] = symbol
                 PROVE  FALSE
      OBVIOUS
    <3>1. r \in a .. len /\ r < p
      BY <1>l, <2>2
    <3>2. PICK loc \in T : loc + 1 = tb + r
      BY <1>5, <3>1
    <3>3. x <= loc /\ loc \in Nat
      BY <1>2, <1>4, <1>u
    <3> QED
      BY <1>b, <1>l, <1>4, <2>2, <3>1, <3>2, <3>3
  <2>4. FoundAt(range, text, a, symbol, x)
    BY <1>b, <1>l, <2>1, <2>2, <2>3 DEF FoundAt
  <2> QED
    BY <1>4, <1>l, <2>1, <2>4
<1> QED
  BY <1>4, <1>6, <1>7, <1>u

\* A quote from the a-th symbol on.
Closes(text, a) == \E r \in a .. Len(text) : text[r] = Quote

\* The end of the value is found if there is one.
LEMMA FindsEnd ==
    ASSUME NEW S, NEW text \in Seq(S), NEW range, Fills(range, text),
           NEW a \in Nat, 1 <= a, NEW start \in Nat, start + 1 = TextBegin(range) + a
    PROVE  FindXmpPropertyValueEnd(range, text, start) # range.end <=> Closes(text, a)
<1> PICK x : x = FindXmpPropertyValueEnd(range, text, start)
  OBVIOUS
<1>1. x = Find(range, text, start, Quote)
  BY DEF FindXmpPropertyValueEnd
<1>2. \/ x = range.end /\ Absent(text, a, Quote)
      \/ x # range.end /\ FoundAt(range, text, a, Quote, x)
  BY <1>1, FindIs
<1>3. Absent(text, a, Quote) => ~Closes(text, a)
  BY DEF Absent, Closes
<1>4. FoundAt(range, text, a, Quote, x) => Closes(text, a)
  BY DEF FoundAt, Closes
<1> QED
  BY <1>2, <1>3, <1>4

\* There is no second place where a text opens the value.
LEMMA OpensOnce ==
    ASSUME NEW text, NEW type, NEW k \in Nat, NEW j \in Nat,
           OpensAt(text, type, k), OpensAt(text, type, j)
    PROVE  j = k
<1>1. /\ k \in 1 .. Len(text) - 2 /\ text[k] = type
      /\ \A earlier \in 1 .. k - 1 : text[earlier] # type
  BY DEF OpensAt
<1>2. /\ j \in 1 .. Len(text) - 2 /\ text[j] = type
      /\ \A earlier \in 1 .. j - 1 : text[earlier] # type
  BY DEF OpensAt
<1>3. 1 <= k /\ 1 <= j
  BY <1>1, <1>2
<1>4. ~(j < k) /\ ~(k < j)
  BY <1>1, <1>2, <1>3
<1> QED
  BY <1>4

\* The value begins behind the quote of the name, if the text opens it.
LEMMA FindsBegin ==
    ASSUME NEW S, NEW text \in Seq(S), NEW range, Fills(range, text), NEW type,
           NEW x, x = FindXmpPropertyValueBegin(range, text, TextBegin(range), type)
    PROVE  /\ x # range.end =>
                 /\ x \in Nat
                 /\ \E k \in 1 .. Len(text) :
                       OpensAt(text, type, k) /\ x + 1 = TextBegin(range) + (k + 2)
           /\ x = range.end => ~Opens(text, type)
<1>b. PICK tb \in Nat : tb = TextBegin(range)
  BY DEF Fills
<1>l. PICK len \in Nat : len = Len(text) /\ range.end = tb + len
  BY <1>b, LenProperties DEF Fills
<1>p. PICK name : name = Find(range, text, tb, type)
  OBVIOUS
<1>q. PICK quote : quote = Find(range, text, name + 1, Quote)
  OBVIOUS
<1>1. x = IF name + 1 < range.end /\ quote = name + 1 THEN (name + 1) + 1 ELSE range.end
  BY <1>b, <1>p, <1>q DEF FindXmpPropertyValueBegin
<1>2. /\ name \in Nat
      /\ \/ name = range.end /\ Absent(text, 1, type)
         \/ name # range.end /\ FoundAt(range, text, 1, type, name)
  <2>1. 1 \in Nat /\ 1 <= 1 /\ tb + 1 = TextBegin(range) + 1
    BY <1>b
  <2> QED
    BY <1>b, <1>p, <2>1, FindIs
<1>3. CASE name = range.end /\ Absent(text, 1, type)
  <2>1. x = range.end
    BY <1>1, <1>2, <1>l, <1>3
  <2>2. ~Opens(text, type)
    <3> SUFFICES ASSUME NEW k \in 1 .. Len(text) - 2, text[k] = type
                 PROVE  FALSE
      BY DEF Opens, OpensAt
    <3>1. k \in 1 .. Len(text)
      BY <1>l
    <3> QED
      BY <1>3, <3>1 DEF Absent
  <2> QED
    BY <2>1, <2>2
<1>4. CASE name # range.end /\ FoundAt(range, text, 1, type, name)
  <2>1. PICK p \in 1 .. len : /\ name + 1 = tb + p /\ text[p] = type
                              /\ \A r \in 1 .. p - 1 : text[r] # type
    BY <1>b, <1>l, <1>4 DEF FoundAt
  <2>2. name + 1 \in Nat /\ (name + 1) + 1 = tb + (p + 1) /\ p + 1 \in Nat /\ 1 <= p + 1
    BY <1>2, <2>1
  <2>3. /\ quote \in Nat
        /\ \/ quote = range.end /\ Absent(text, p + 1, Quote)
           \/ quote # range.end /\ FoundAt(range, text, p + 1, Quote, quote)
    BY <1>b, <1>q, <2>2, FindIs
  <2>4. ASSUME x # range.end
        PROVE  /\ x \in Nat
               /\ \E k \in 1 .. Len(text) :
                     OpensAt(text, type, k) /\ x + 1 = TextBegin(range) + (k + 2)
    <3>1. x = (name + 1) + 1 /\ name + 1 < range.end /\ quote = name + 1
      BY <1>1, <2>4
    <3>2. x + 1 = tb + (p + 2)
      BY <1>2, <2>1, <3>1
    <3>3. p \in 1 .. len - 2
      BY <1>2, <1>l, <2>1, <2>4, <3>1
    <3>4. PICK s \in p + 1 .. len : quote + 1 = tb + s /\ text[s] = Quote
      BY <1>b, <1>l, <2>3, <3>1 DEF FoundAt
    <3>5. s = p + 1
      BY <1>2, <2>1, <3>1, <3>4
    <3>6. OpensAt(text, type, p)
      BY <1>l, <2>1, <3>3, <3>4, <3>5 DEF OpensAt
    <3>7. x \in Nat
      BY <1>2, <3>1
    <3> QED
      BY <1>b, <1>l, <2>1, <3>2, <3>6, <3>7
  <2>5. ASSUME x = range.end, Opens(text, type)
        PROVE  FALSE
    <3>1. PICK k \in 1 .. Len(text) - 2 :
             /\ text[k] = type /\ text[k + 1] = Quote
             /\ \A earlier \in 1 .. k - 1 : text[earlier] # type
      BY <2>5 DEF Opens, OpensAt
    <3>2. k = p
      <4>1. ~(k < p)
        <5>1. k < p => k \in 1 .. p - 1
          BY <1>l, <2>1, <3>1
        <5> QED
          BY <2>1, <3>1, <5>1
      <4>2. ~(p < k)
        <5>1. p < k => p \in 1 .. k - 1
          BY <1>l, <2>1, <3>1
        <5> QED
          BY <2>1, <3>1, <5>1
      <4> QED
        BY <1>l, <2>1, <3>1, <4>1, <4>2
    <3>3. p + 1 \in p + 1 .. Len(text) /\ p + 2 <= len /\ text[p + 1] = Quote
      BY <1>l, <2>1, <3>1, <3>2
    <3>4. ~Absent(text, p + 1, Quote)
      BY <3>3 DEF Absent
    <3>5. PICK s \in p + 1 .. len : /\ quote + 1 = tb + s
                                    /\ \A r \in p + 1 .. s - 1 : text[r] # Quote
      BY <1>b, <1>l, <2>3, <3>4 DEF FoundAt
    <3>6. s = p + 1
      <4>1. p + 1 < s => p + 1 \in p + 1 .. s - 1
        BY <2>1, <3>5
      <4> QED
        BY <2>1, <3>3, <3>5, <4>1
    <3>7. quote = name + 1
      BY <1>2, <2>1, <2>3, <3>5, <3>6
    <3>8. name + 1 < range.end /\ (name + 1) + 1 # range.end
      BY <1>2, <1>l, <2>1, <3>3
    <3> QED
      BY <1>1, <2>5, <3>7, <3>8
  <2> QED
    BY <2>4, <2>5
<1> QED
  BY <1>2, <1>3, <1>4
-----------------------------------------------------------------------------
(***************************************************************************)
(* Which segments continue the extended XMP of the primary image.          *)
(***************************************************************************)
PrimariesBefore(i) ==
    {j \in 1 .. i - 1 : /\ ImageOf(j) = 1
                        /\ IsXmp(seen[j].kind, "xmp")
                        /\ seen[j].kind.ids \cap XmpTypes # {}}

IsPrimary(kind) ==
    /\ IsXmp(kind, "xmp") /\ kind.ids \cap XmpTypes # {}
    /\ image_count = 1

\* The GUID to match is that of the last of them.
LEMMA GuidAtIs ==
    \A i : GuidAt(i) = IF PrimariesBefore(i) = {} THEN <<>>
                       ELSE seen[Max(PrimariesBefore(i))].kind.guid
BY DEF GuidAt, PrimariesBefore

\* The largest of some numbers.
LEMMA MaxIs ==
    ASSUME NEW n \in Nat, NEW s, s \subseteq 1 .. n, s # {}
    PROVE  Max(s) \in s /\ \A y \in s : Max(s) >= y
<1>1. \A t : Max(t) = Facts!Max(t)
  BY DEF Max, Facts!Max
<1> QED
  BY <1>1, Facts!MaxOfNumbers

\* No segment with XMP begins an image.
LEMMA XmpBeginsNoImage ==
    ASSUME Inv, NEW kind, NEW id, IsXmp(kind, id),
           NEW range, Arrived(kind, range), NEW n \in Nat, n = Len(seen)
    PROVE  ImageOf(n + 1)' = image_count
<1>1. kind.marker # "SOI"
  BY DEF IsXmp
<1>2. ImageOf(n + 1)' = ImageOf(n)
  BY <1>1, ImagesCounted
<1> QED
  BY <1>2 DEF Inv, CountOK

\* A segment that arrives changes nothing of the segments before it.
LEMMA PrimariesNext ==
    ASSUME Inv, NEW kind \in Kinds, NEW range, Arrived(kind, range),
           NEW n \in Nat, n = Len(seen)
    PROVE  /\ \A i \in 1 .. n + 1 : PrimariesBefore(i)' = PrimariesBefore(i)
           /\ PrimariesBefore(n + 2)'
                 = PrimariesBefore(n + 1) \cup (IF IsPrimary(kind) THEN {n + 1} ELSE {})
<1>1. \A i \in 1 .. n : ImageOf(i)' = ImageOf(i) /\ seen'[i] = seen[i]
  BY ImagesCounted DEF Arrived
<1>2. seen'[n + 1].kind = kind
  BY DEF Arrived
<1>3. IsXmp(kind, "xmp") => ImageOf(n + 1)' = image_count
  BY XmpBeginsNoImage
<1>4. ASSUME NEW i \in 1 .. n + 1
      PROVE  PrimariesBefore(i)' = PrimariesBefore(i)
  <2>1. \A j \in 1 .. i - 1 : j \in 1 .. n
    OBVIOUS
  <2> QED
    BY <1>1, <2>1 DEF PrimariesBefore
<1>5. (n + 2) - 1 = n + 1 /\ (n + 1) - 1 = n
  OBVIOUS
<1>6. ASSUME NEW j
      PROVE  j \in PrimariesBefore(n + 2)'
                <=> \/ j \in PrimariesBefore(n + 1)
                    \/ j = n + 1 /\ IsPrimary(kind)
  <2>1. j \in PrimariesBefore(n + 2)'
           <=> /\ j \in 1 .. n + 1 /\ ImageOf(j)' = 1
               /\ IsXmp(seen'[j].kind, "xmp") /\ seen'[j].kind.ids \cap XmpTypes # {}
    BY <1>5 DEF PrimariesBefore
  <2>2. j \in PrimariesBefore(n + 1)
           <=> /\ j \in 1 .. n /\ ImageOf(j) = 1
               /\ IsXmp(seen[j].kind, "xmp") /\ seen[j].kind.ids \cap XmpTypes # {}
    BY <1>5 DEF PrimariesBefore
  <2>3. CASE j \in 1 .. n
    <3>1. j \in 1 .. n + 1 /\ j # n + 1
      BY <2>3
    <3> QED
      BY <1>1, <2>1, <2>2, <2>3, <3>1
  <2>4. CASE j = n + 1
    <3>1. j \in 1 .. n + 1 /\ j \notin 1 .. n
      BY <2>4
    <3> QED
      BY <1>2, <1>3, <2>1, <2>2, <2>4, <3>1 DEF IsPrimary
  <2>5. CASE j \notin 1 .. n + 1
    <3>1. j \notin 1 .. n /\ j # n + 1
      BY <2>5
    <3> QED
      BY <2>1, <2>2, <2>5, <3>1
  <2> QED
    BY <2>3, <2>4, <2>5
<1> QED
  BY <1>4, <1>6

\* A segment changes the GUID to match only if it is such an XMP segment.
LEMMA GuidsNext ==
    ASSUME Inv, NEW kind \in Kinds, NEW range, Arrived(kind, range),
           NEW n \in Nat, n = Len(seen)
    PROVE  /\ \A i \in 1 .. n + 1 : GuidAt(i)' = GuidAt(i)
           /\ IsPrimary(kind) => GuidAt(n + 2)' = kind.guid
           /\ ~IsPrimary(kind) => GuidAt(n + 2)' = GuidAt(n + 1)
<1>1. \A i \in 1 .. n : seen'[i] = seen[i]
  BY DEF Arrived
<1>2. seen'[n + 1].kind = kind
  BY DEF Arrived
<1>g. \A i : GuidAt(i)' = IF PrimariesBefore(i)' = {} THEN <<>>
                          ELSE seen'[Max(PrimariesBefore(i)')].kind.guid
  BY DEF GuidAt, PrimariesBefore
<1>m. ASSUME NEW i \in 1 .. n + 1, PrimariesBefore(i) # {}
      PROVE  seen'[Max(PrimariesBefore(i))] = seen[Max(PrimariesBefore(i))]
  <2>1. PrimariesBefore(i) \subseteq 1 .. n
    BY DEF PrimariesBefore
  <2>2. Max(PrimariesBefore(i)) \in 1 .. n
    BY <1>m, <2>1, MaxIs
  <2> QED
    BY <1>1, <2>2
<1>3. ASSUME NEW i \in 1 .. n + 1
      PROVE  GuidAt(i)' = GuidAt(i)
  <2>1. PrimariesBefore(i)' = PrimariesBefore(i)
    BY PrimariesNext
  <2> QED
    BY <1>g, <1>m, <2>1, GuidAtIs
<1>4. ASSUME IsPrimary(kind)
      PROVE  GuidAt(n + 2)' = kind.guid
  <2> PICK s : s = PrimariesBefore(n + 1) \cup {n + 1}
    OBVIOUS
  <2>1. PrimariesBefore(n + 2)' = s
    BY <1>4, PrimariesNext
  <2>2. PrimariesBefore(n + 1) \subseteq 1 .. n
    BY DEF PrimariesBefore
  <2>3. s \subseteq 1 .. n + 1 /\ s # {} /\ n + 1 \in s /\ n + 1 \in Nat
    BY <2>2
  <2>4. Max(s) \in s /\ Max(s) >= n + 1
    BY <2>3, MaxIs
  <2>5. Max(s) = n + 1
    BY <2>3, <2>4
  <2> QED
    BY <1>2, <1>g, <2>1, <2>3, <2>5
<1>5. ASSUME ~IsPrimary(kind)
      PROVE  GuidAt(n + 2)' = GuidAt(n + 1)
  <2>1. PrimariesBefore(n + 2)' = PrimariesBefore(n + 1)
    <3>1. PrimariesBefore(n + 2)'
             = PrimariesBefore(n + 1) \cup (IF IsPrimary(kind) THEN {n + 1} ELSE {})
      BY PrimariesNext
    <3> QED
      BY <1>5, <3>1
  <2>2. n + 1 \in 1 .. n + 1
    OBVIOUS
  <2> QED
    BY <1>g, <1>m, <2>1, <2>2, GuidAtIs
<1> QED
  BY <1>3, <1>4, <1>5

\* The GUID that is kept is that of the last primary XMP segment with GDepth or GImage.
GuidOK == primary_guid = GuidAt(Len(seen) + 1)

\* ProcessExtendedXmp takes in the segments that are extensions.
IsTakenIn(kind) ==
    /\ IsXmp(kind, "extendedXmp") /\ image_count = 1
    /\ HasMatchingExtendedXmpGuid(kind.guid)

\* Every segment keeps it so.
LEMMA GuidInv ==
    ASSUME Inv, GuidOK, NEW kind \in Kinds, NEW range, Arrived(kind, range),
           ProcessOne(kind, range)
    PROVE  GuidOK'
<1> PICK n \in Nat : n = Len(seen) /\ Len(seen') = n + 1 /\ (n + 1) + 1 = n + 2
  BY DEF Arrived
<1>1. GuidOK' <=> primary_guid' = GuidAt(n + 2)'
  <2>1. \A i : GuidAt(i)' = GuidAt(i)'
    OBVIOUS
  <2>2. Len(seen') + 1 = n + 2
    OBVIOUS
  <2> QED
    BY <2>2 DEF GuidOK
<1>3. CASE IsPrimary(kind)
  <2>1. ProcessPrimaryXmp(kind)
    BY <1>3 DEF IsPrimary, IsXmp, ProcessOne, ProcessSOI, ProcessEOI, ProcessAPP0,
                      ProcessAPP2, ProcessExtendedXmp, ProcessOtherAPP1
  <2>2. primary_guid' = kind.guid
    BY <1>3, <2>1 DEF IsPrimary, ProcessPrimaryXmp
  <2> QED
    BY <1>1, <1>3, <2>2, GuidsNext
<1>4. CASE ~IsPrimary(kind)
  <2>1. primary_guid' = primary_guid
    BY <1>4 DEF IsPrimary, IsXmp, ProcessOne, ProcessSOI, ProcessEOI, ProcessAPP0, ProcessAPP2,
                ProcessPrimaryXmp, ProcessExtendedXmp, ProcessOtherAPP1, xmp
  <2> QED
    BY <1>1, <1>4, <2>1, GuidsNext DEF GuidOK
<1> QED
  BY <1>3, <1>4

\* The segment that is taken in is one more extension.
LEMMA ExtensionsNext ==
    ASSUME Inv, GuidOK, NEW kind \in Kinds, NEW range, Arrived(kind, range),
           NEW n \in Nat, n = Len(seen)
    PROVE  /\ Extensions \subseteq 1 .. n
           /\ IsTakenIn(kind) => Extensions' = Extensions \cup {n + 1}
           /\ ~IsTakenIn(kind) => Extensions' = Extensions
<1>1. \A i \in 1 .. n : ImageOf(i)' = ImageOf(i) /\ seen'[i] = seen[i]
  BY ImagesCounted DEF Arrived
<1>2. seen'[n + 1].kind = kind /\ Len(seen') = n + 1
  BY DEF Arrived
<1>3. ASSUME NEW i \in 1 .. n
      PROVE  IsExtension(i)' <=> IsExtension(i)
  <2>1. i \in 1 .. n + 1
    OBVIOUS
  <2>2. GuidAt(i)' = GuidAt(i)
    BY <2>1, GuidsNext
  <2> QED
    BY <1>1, <2>2 DEF IsExtension
<1>4. IsExtension(n + 1)' <=> IsTakenIn(kind)
  <2>1. n + 1 \in 1 .. n + 1
    OBVIOUS
  <2>2. GuidAt(n + 1)' = primary_guid
    BY <2>1, GuidsNext DEF GuidOK
  <2>3. IsXmp(kind, "extendedXmp") => ImageOf(n + 1)' = image_count
    BY XmpBeginsNoImage
  <2> QED
    BY <1>2, <2>2, <2>3 DEF IsExtension, IsTakenIn, HasMatchingExtendedXmpGuid
<1>5. Extensions \subseteq 1 .. n
  BY DEF Extensions
<1>6. \A i : i \in Extensions' <=> i \in 1 .. n + 1 /\ IsExtension(i)'
  BY <1>2 DEF Extensions
<1>7. \A i : i \in 1 .. n + 1 <=> i \in 1 .. n \/ i = n + 1
  OBVIOUS
<1>8. \A i : i \in Extensions' <=> i \in Extensions \/ (i = n + 1 /\ IsTakenIn(kind))
  <2>1. \A i : i \in Extensions <=> i \in 1 .. n /\ IsExtension(i)
    BY DEF Extensions
  <2> TAKE i
  <2>2. CASE i \in 1 .. n
    <3>1. i # n + 1
      BY <2>2
    <3> QED
      <4>1. IsExtension(i)' <=> IsExtension(i)
        BY <1>3, <2>2
      <4>2. i \in Extensions' <=> IsExtension(i)'
        BY <1>6, <1>7, <2>2
      <4>3. i \in Extensions <=> IsExtension(i)
        BY <2>1, <2>2
      <4> QED
        BY <3>1, <4>1, <4>2, <4>3
  <2>3. CASE i = n + 1
    <3>1. i \notin 1 .. n
      BY <2>3
    <3> QED
      BY <1>4, <1>6, <1>7, <2>1, <2>3, <3>1
  <2>4. CASE i \notin 1 .. n /\ i # n + 1
    BY <1>6, <1>7, <2>1, <2>4
  <2> QED
    BY <2>2, <2>3, <2>4
<1>9. IsTakenIn(kind) => Extensions' = Extensions \cup {n + 1}
  BY <1>8
<1>10. ASSUME ~IsTakenIn(kind)
       PROVE  Extensions' = Extensions
  <2>1. \A i : i \in Extensions' <=> i \in Extensions
    BY <1>8, <1>10
  <2>2. Extensions' \subseteq Extensions /\ Extensions \subseteq Extensions'
    BY <2>1
  <2> QED
    BY <2>2
<1> QED
  BY <1>5, <1>9, <1>10
-----------------------------------------------------------------------------
(***************************************************************************)
(* What the XMP builders have collected: the texts of the segments whose   *)
(* ranges they keep.                                                       *)
(***************************************************************************)
Symbols == UNION {ToSet(kind.text) : kind \in Kinds}

\* A text is a sequence of them.
LEMMA TextType ==
    ASSUME NEW kind \in Kinds
    PROVE  kind.text \in Seq(Symbols)
<1>1. kind.text \in Seq(ToSet(kind.text))
  BY FamiliesAssumption DEF Kinds
<1>2. ToSet(kind.text) \subseteq Symbols
  BY DEF Symbols
<1> QED
  BY <1>1, <1>2, SeqMonotonic

\* A range is that of one segment only.
TextsFound ==
    \A i \in 1 .. Len(seen) : /\ TextOf(seen[i].range) = seen[i].kind.text
                              /\ seen[i].kind.text \in Seq(Symbols)

\* So no two segments have the same range.
LEMMA TextsAreFound == Inv => TextsFound
<1> SUFFICES ASSUME Inv, NEW i \in 1 .. Len(seen)
             PROVE  /\ TextOf(seen[i].range) = seen[i].kind.text
                    /\ seen[i].kind.text \in Seq(Symbols)
  BY DEF TextsFound
<1>0. Len(seen) \in Nat /\ \A j \in 1 .. Len(seen) :
                              seen[j].kind \in Kinds /\ seen[j].range \in DataRange
  BY SeenElements DEF Inv, Types
<1>1. ASSUME NEW j \in 1 .. Len(seen), seen[j].range = seen[i].range
      PROVE  j = i
  <2>1. /\ seen[i].range.begin \in Nat /\ seen[i].range.end \in Nat
        /\ seen[i].range.begin < seen[i].range.end
    BY <1>0 DEF Inv, SeenOK, DataRange
  <2>2. ~(i < j) /\ ~(j < i)
    BY <1>1, <2>1 DEF Inv, SeenOK
  <2> QED
    BY <1>0, <2>2
<1>2. TextOf(seen[i].range) = seen[i].kind.text
  BY <1>1 DEF TextOf
<1> QED
  BY <1>0, <1>2, TextType

\* Behind the a-th symbol there is a quote only if the value has ended, and then only
\* among the last ones.
TextHolds(text, a, tail, ended) ==
    /\ a \in 1 .. Len(text)
    /\ ended <=> Closes(text, a)
    /\ \A r \in a .. Len(text) - tail : text[r] # Quote

NothingOpened(type) == \A i \in Extensions : ~Opens(seen[i].kind.text, type)

\* The value is spread over the extensions from the first to the last, and none before
\* them opens it.
SpreadOver(type, builder, first, last) ==
    /\ AreRangesAt(builder.ranges, Extensions \cap (first .. last))
    /\ \A i \in Extensions : i < first => ~Opens(seen[i].kind.text, type)
    /\ ~IsValid(builder.property_end) => \A i \in Extensions : i <= last

Collected(type, builder) ==
    /\ builder \in XmpInfoBuilder
    /\ builder.ranges = <<>> => ~IsValid(builder.property_end) /\ NothingOpened(type)
    /\ builder.ranges # <<>> =>
          /\ Opens(TextOf(builder.ranges[1]), type)
          /\ \E first, last \in Extensions : SpreadOver(type, builder, first, last)
          /\ TextHolds(FlattenSeq(TextsOf(builder.ranges)),
                       ValueOffset(type, builder.ranges) + 1,
                       Len(TextOf(Last(builder.ranges))),
                       IsValid(builder.property_end))

XmpOK ==
    \A type \in XmpTypes : \A builder :
        builder = xmp_builders[type] => Collected(type, builder)

\* The ranges collected are those of segments that were seen.
LEMMA CollectedSeen ==
    ASSUME Inv, NEW type, NEW builder, Collected(type, builder), builder.ranges # <<>>,
           NEW k \in 1 .. Len(builder.ranges)
    PROVE  \E i \in 1 .. Len(seen) : builder.ranges[k] = seen[i].range
<1>1. PICK first, last \in Extensions : SpreadOver(type, builder, first, last)
  BY DEF Collected
<1>2. ToSet(builder.ranges) = {seen[i].range : i \in Extensions \cap (first .. last)}
  BY <1>1 DEF SpreadOver, AreRangesAt
<1>3. builder.ranges \in Seq(DataRange)
  BY DEF Collected, XmpInfoBuilder
<1>4. builder.ranges[k] \in ToSet(builder.ranges)
  BY <1>3, LenProperties DEF ToSet
<1>5. Extensions \subseteq 1 .. Len(seen)
  BY DEF Extensions
<1> QED
  BY <1>2, <1>4, <1>5

\* Their texts stay the same when a segment arrives.
SameTexts(type, ranges) ==
    /\ TextsOf(ranges)' = TextsOf(ranges)
    /\ TextsOf(ranges) \in Seq(Seq(Symbols)) /\ Len(TextsOf(ranges)) = Len(ranges)
    /\ ValueOffset(type, ranges)' = ValueOffset(type, ranges)
    /\ TextOf(ranges[1])' = TextOf(ranges[1])
    /\ TextOf(Last(ranges))' = TextOf(Last(ranges))

\* The texts of the segments collected are those seen before.
LEMMA TextsStay ==
    ASSUME Inv, Inv', NEW kind \in Kinds, NEW range, Arrived(kind, range),
           NEW type, NEW builder, Collected(type, builder), builder.ranges # <<>>
    PROVE  SameTexts(type, builder.ranges)
<1> PICK ranges \in Seq(DataRange) : ranges = builder.ranges
  BY DEF Collected, XmpInfoBuilder
<1> PICK len \in Nat : len = Len(ranges)
  BY LenProperties
<1>1. TextsFound /\ TextsFound'
  BY TextsAreFound, PTL
<1>2. ASSUME NEW k \in 1 .. len
      PROVE  TextOf(ranges[k])' = TextOf(ranges[k]) /\ TextOf(ranges[k]) \in Seq(Symbols)
  <2>1. PICK i \in 1 .. Len(seen) : ranges[k] = seen[i].range
    BY CollectedSeen
  <2>2. seen'[i] = seen[i] /\ i \in 1 .. Len(seen')
    BY DEF Arrived
  <2>3. TextOf(seen[i].range) = seen[i].kind.text /\ seen[i].kind.text \in Seq(Symbols)
    BY <1>1 DEF TextsFound
  <2> PICK r : r = seen[i].range
    OBVIOUS
  <2>4. TextOf(r)' = seen'[i].kind.text
    BY <1>1, <2>2 DEF TextsFound
  <2> QED
    BY <2>1, <2>2, <2>3, <2>4
<1>3. TextsOf(ranges) = [k \in 1 .. len |-> TextOf(ranges[k])]
  BY DEF TextsOf
<1>4. TextsOf(ranges)' = [k \in 1 .. len |-> TextOf(ranges[k])']
  BY DEF TextsOf
<1>5. TextsOf(ranges)' = TextsOf(ranges)
  BY <1>2, <1>3, <1>4
<1>6. TextsOf(ranges) \in Seq(Seq(Symbols)) /\ Len(TextsOf(ranges)) = len
  <2>1. TextsOf(ranges) \in [1 .. len -> Seq(Symbols)]
    BY <1>2, <1>3
  <2>2. TextsOf(ranges) \in Seq(Seq(Symbols))
    BY <2>1, SeqDef
  <2> QED
    BY <2>1, <2>2, LenProperties
<1>7. 1 \in 1 .. len /\ len \in 1 .. len
  BY EmptySeq
<1>8. TextOf(ranges[1])' = TextOf(ranges[1]) /\ TextOf(ranges[len])' = TextOf(ranges[len])
  BY <1>2, <1>7
<1>9. ValueOffset(type, ranges)' = ValueOffset(type, ranges)
  BY <1>8 DEF ValueOffset, OpensAt
<1>10. TextOf(Last(ranges))' = TextOf(Last(ranges))
  BY <1>8 DEF Last
<1> QED
  BY <1>5, <1>6, <1>8, <1>9, <1>10 DEF SameTexts

\* A segment that arrives, and is taken in by builders or not.
LEMMA SameBuilder ==
    ASSUME Inv, Inv', GuidOK, NEW kind \in Kinds, NEW range, Arrived(kind, range),
           NEW type, NEW builder, Collected(type, builder),
           IsTakenIn(kind) => IF builder.ranges = <<>> THEN ~Opens(kind.text, type)
                              ELSE IsValid(builder.property_end)
    PROVE  Collected(type, builder)'
<1> PICK n \in Nat : n = Len(seen)
  BY DEF Arrived
<1>1. /\ Extensions \subseteq 1 .. n
      /\ \/ Extensions' = Extensions
         \/ /\ Extensions' = Extensions \cup {n + 1}
            /\ IF builder.ranges = <<>> THEN ~Opens(kind.text, type)
               ELSE IsValid(builder.property_end)
  BY ExtensionsNext
<1>2. \A i \in 1 .. n : seen'[i] = seen[i]
  BY DEF Arrived
<1>3. seen'[n + 1].kind = kind
  BY DEF Arrived
<1>4. builder \in XmpInfoBuilder
  BY DEF Collected
<1>5. ASSUME builder.ranges = <<>>
      PROVE  ~IsValid(builder.property_end) /\ NothingOpened(type)'
  <2>1. ~IsValid(builder.property_end) /\ NothingOpened(type)
    BY <1>5 DEF Collected
  <2>2. \A i \in Extensions' :
           (i \in Extensions /\ seen'[i] = seen[i]) \/ (i = n + 1 /\ ~Opens(kind.text, type))
    BY <1>1, <1>2, <1>5
  <2>3. \A i \in Extensions' : ~Opens(seen'[i].kind.text, type)
    BY <1>3, <2>1, <2>2 DEF NothingOpened
  <2> QED
    BY <2>1, <2>3 DEF NothingOpened, Opens, OpensAt
<1>6. ASSUME builder.ranges # <<>>
      PROVE  /\ Opens(TextOf(builder.ranges[1]), type)'
             /\ \E first, last \in Extensions' : SpreadOver(type, builder, first, last)'
             /\ TextHolds(FlattenSeq(TextsOf(builder.ranges)),
                          ValueOffset(type, builder.ranges) + 1,
                          Len(TextOf(Last(builder.ranges))),
                          IsValid(builder.property_end))'
  <2>1. PICK first, last \in Extensions : SpreadOver(type, builder, first, last)
    BY <1>6 DEF Collected
  <2>2. PICK places : places = Extensions \cap (first .. last)
    OBVIOUS
  <2>3. Extensions' \cap (first .. last) = places /\ first \in Extensions' /\ last \in Extensions'
    <3>1. first \in 1 .. n /\ last \in 1 .. n
      BY <1>1
    <3>2. n + 1 \notin first .. last
      BY <3>1
    <3> QED
      BY <1>1, <2>2, <3>2
  <2>4. {seen'[i].range : i \in places} = {seen[i].range : i \in places}
    BY <1>1, <1>2, <2>2
  <2>5. AreRangesAt(builder.ranges, places)'
    BY <2>1, <2>2, <2>4 DEF SpreadOver, AreRangesAt
  <2>6. ~IsValid(builder.property_end) => \A i \in Extensions' : i <= last
    BY <1>1, <1>6, <2>1 DEF SpreadOver
  <2>7. SpreadOver(type, builder, first, last)'
    <3>1. \A i \in Extensions : i < first => ~Opens(seen[i].kind.text, type)
      BY <2>1 DEF SpreadOver
    <3>2. \A i \in Extensions' : i < first => i \in Extensions /\ seen'[i] = seen[i]
      <4>1. first \in 1 .. n /\ ~(n + 1 < first)
        BY <1>1
      <4> QED
        BY <1>1, <1>2, <4>1
    <3>3. \A i \in Extensions' : i < first => ~Opens(seen'[i].kind.text, type)
      BY <3>1, <3>2
    <3> QED
      BY <2>3, <2>5, <2>6, <3>3 DEF SpreadOver, AreRangesAt, Opens, OpensAt
  <2>8. SameTexts(type, builder.ranges)
    BY <1>6, TextsStay
  <2>9. TextHolds(FlattenSeq(TextsOf(builder.ranges)),
                  ValueOffset(type, builder.ranges) + 1,
                  Len(TextOf(Last(builder.ranges))),
                  IsValid(builder.property_end))
    BY <1>6 DEF Collected
  <2>10. TextHolds(FlattenSeq(TextsOf(builder.ranges)),
                   ValueOffset(type, builder.ranges) + 1,
                   Len(TextOf(Last(builder.ranges))),
                   IsValid(builder.property_end))'
    BY <2>8, <2>9 DEF SameTexts, TextHolds, Closes
  <2>11. Opens(TextOf(builder.ranges[1]), type)'
    <3>1. Opens(TextOf(builder.ranges[1]), type)
      BY <1>6 DEF Collected
    <3> QED
      BY <2>8, <3>1 DEF SameTexts, Opens, OpensAt
  <2> QED
    BY <2>3, <2>7, <2>10, <2>11
<1> QED
  BY <1>4, <1>5, <1>6 DEF Collected

\* An extension begins where the header does and is filled by the text.
Comes(kind, range) ==
    /\ Arrived(kind, range) /\ Fills(range, kind.text)
    /\ IsValid(range) /\ IsTakenIn(kind)

\* A builder that has found nothing so far takes in the segment that opens the value.
LEMMA StartsHere ==
    ASSUME Inv, Inv', GuidOK, NEW kind \in Kinds, NEW range, Comes(kind, range),
           NEW type, NothingOpened(type),
           NEW after \in XmpInfoBuilder, after.ranges = <<range>>,
           NEW x, x = FindXmpPropertyValueBegin(range, kind.text, TextBegin(range), type),
           x # range.end,
           IsValid(after.property_end)
              <=> FindXmpPropertyValueEnd(range, kind.text, x) # range.end
    PROVE  Collected(type, after)'
<1> PICK n \in Nat : n = Len(seen)
  BY DEF Comes, Arrived
<1>1. Extensions \subseteq 1 .. n /\ Extensions' = Extensions \cup {n + 1}
  BY ExtensionsNext DEF Comes
<1>2. seen'[n + 1].kind = kind /\ seen'[n + 1].range = range /\ n + 1 \in 1 .. Len(seen')
  BY DEF Comes, Arrived
<1>3. TextOf(range)' = kind.text /\ kind.text \in Seq(Symbols)
  <2>1. TextsFound'
    BY TextsAreFound, PTL
  <2>2. TextOf(range)' = kind.text
    BY <1>2, <2>1 DEF TextsFound
  <2> QED
    BY <2>2, TextType
<1>t. PICK text \in Seq(Symbols) : text = kind.text
  BY <1>3
<1>4. x \in Nat /\ \E k \in 1 .. Len(text) :
                      OpensAt(text, type, k) /\ x + 1 = TextBegin(range) + (k + 2)
  BY <1>t, FindsBegin DEF Comes
<1>k. PICK k \in 1 .. Len(text) :
          OpensAt(text, type, k) /\ x + 1 = TextBegin(range) + (k + 2)
  BY <1>4
<1>5. PICK a \in 1 .. Len(text) : a = k + 2 /\ x + 1 = TextBegin(range) + a
  <2>1. Len(text) \in Nat /\ k \in 1 .. Len(text) - 2
    BY <1>k, LenProperties DEF OpensAt
  <2>2. k + 2 \in 1 .. Len(text)
    BY <2>1
  <2> QED
    BY <1>k, <2>2
<1>l. Len(text) \in Nat /\ a \in Nat /\ 1 <= a
  BY LenProperties
<1>6. IsValid(after.property_end) <=> Closes(text, a)
  BY <1>t, <1>4, <1>5, <1>l, FindsEnd DEF Comes
<1> PICK ranges : ranges = <<range>>
  OBVIOUS
<1>r. ranges = <<range>> /\ Len(ranges) = 1 /\ ranges[1] = range /\ ranges # <<>>
  OBVIOUS
<1>7. SpreadOver(type, after, n + 1, n + 1)'
  <2>1. Extensions' \cap (n + 1 .. n + 1) = {n + 1}
    <3>1. \A i : i \in n + 1 .. n + 1 <=> i = n + 1
      OBVIOUS
    <3> QED
      BY <1>1, <3>1
  <2>2. ToSet(ranges) = {range}
    BY <1>r DEF ToSet
  <2>3. {seen'[i].range : i \in {n + 1}} = {range}
    BY <1>2
  <2>4. \A i, j \in 1 .. Len(ranges) : ~(i < j)
    BY <1>r
  <2>5. AreRangesAt(ranges, {n + 1})'
    BY <2>2, <2>3, <2>4 DEF AreRangesAt
  <2>6. \A i \in Extensions' : i <= n + 1
    <3>1. \A i : i \in 1 .. n \/ i = n + 1 => i <= n + 1
      OBVIOUS
    <3> QED
      BY <1>1, <3>1
  <2>7. \A i \in Extensions' : i < n + 1 => ~Opens(seen'[i].kind.text, type)
    <3>1. \A i \in Extensions' : i < n + 1 => i \in Extensions /\ seen'[i] = seen[i]
      BY <1>1 DEF Comes, Arrived
    <3> QED
      BY <3>1 DEF NothingOpened
  <2> QED
    BY <1>r, <2>1, <2>5, <2>6, <2>7 DEF SpreadOver, AreRangesAt, Opens, OpensAt
<1>8. TextsOf(ranges)' = <<text>>
  <2>1. TextsOf(ranges)' = [i \in 1 .. 1 |-> TextOf(ranges[i])']
    BY <1>r DEF TextsOf
  <2>2. \A i \in 1 .. 1 : TextOf(ranges[i])' = text
    BY <1>3, <1>t, <1>r
  <2>3. TextsOf(ranges)' = [i \in 1 .. 1 |-> text]
    BY <2>1, <2>2
  <2> QED
    BY <2>3
<1>9. FlattenSeq(TextsOf(ranges))' = text
  <2>1. <<text>> = Append(<<>>, text)
    OBVIOUS
  <2>2. <<>> \in Seq(Seq(Symbols))
    BY EmptySeq
  <2>3. FlattenSeq(Append(<<>>, text)) = FlattenSeq(<<>>) \o text
    BY <2>2, FlattenFacts
  <2>4. FlattenSeq(<<>>) = <<>> /\ <<>> \o text = text
    BY FlattenFacts, ConcatEmptySeq
  <2> QED
    BY <1>8, <2>1, <2>3, <2>4
<1>10. ValueOffset(type, ranges)' + 1 = a
  <2>1. ValueOffset(type, ranges)' =
            (CHOOSE j \in 1 .. Len(text) : OpensAt(text, type, j)) + 1
    BY <1>3, <1>t, <1>r DEF ValueOffset, OpensAt
  <2>2. PICK c : c = CHOOSE j \in 1 .. Len(text) : OpensAt(text, type, j)
    OBVIOUS
  <2>3. c \in 1 .. Len(text) /\ OpensAt(text, type, c)
    BY <1>k, <2>2
  <2>4. c = k
    <3>1. c \in Nat /\ k \in Nat
      BY <2>3
    <3> QED
      BY <1>k, <2>3, <3>1, OpensOnce
  <2>5. k \in Nat /\ (k + 1) + 1 = k + 2
    BY <1>k
  <2> QED
    BY <1>5, <2>1, <2>2, <2>4, <2>5
<1>11. Len(TextOf(Last(ranges)))' = Len(text)
  <2>1. Last(ranges) = range
    BY <1>r DEF Last
  <2> QED
    BY <1>3, <1>t, <2>1
<1>12. TextHolds(text, a, Len(text), IsValid(after.property_end))
  <2>1. a .. Len(text) - Len(text) = {}
    BY <1>l
  <2> QED
    BY <1>6, <2>1 DEF TextHolds
<1>13. TextHolds(FlattenSeq(TextsOf(ranges)), ValueOffset(type, ranges) + 1,
                 Len(TextOf(Last(ranges))), IsValid(after.property_end))'
  BY <1>9, <1>10, <1>11, <1>12 DEF TextHolds, Closes
<1>14. n + 1 \in Extensions' /\ after.ranges = ranges /\ ranges # <<>>
  BY <1>1, <1>r
<1>15. Opens(TextOf(ranges[1]), type)'
  <2>1. Opens(text, type)
    BY <1>k DEF Opens
  <2> QED
    BY <1>3, <1>t, <1>r, <2>1 DEF Opens, OpensAt
<1> QED
  BY <1>7, <1>13, <1>14, <1>15 DEF Collected, Opens, OpensAt

\* A builder that has begun takes in the extension behind the last one.
LEMMA GoesOnHere ==
    ASSUME Inv, Inv', GuidOK, NEW kind \in Kinds, NEW range, Comes(kind, range),
           NEW type, NEW builder, Collected(type, builder), builder.ranges # <<>>,
           ~IsValid(builder.property_end),
           NEW after \in XmpInfoBuilder, after.ranges = Append(builder.ranges, range),
           IsValid(after.property_end)
              <=> FindXmpPropertyValueEnd(range, kind.text, TextBegin(range)) # range.end
    PROVE  Collected(type, after)'
<1> PICK n \in Nat : n = Len(seen)
  BY DEF Comes, Arrived
<1>1. Extensions \subseteq 1 .. n /\ Extensions' = Extensions \cup {n + 1}
  BY ExtensionsNext DEF Comes
<1>2. /\ seen'[n + 1].kind = kind /\ seen'[n + 1].range = range /\ n + 1 \in 1 .. Len(seen')
      /\ \A i \in 1 .. n : seen'[i] = seen[i]
  BY DEF Comes, Arrived
<1>t. PICK text \in Seq(Symbols) : text = kind.text
  BY TextType
<1>3. TextOf(range)' = text
  <2>1. TextsFound'
    BY TextsAreFound, PTL
  <2> QED
    BY <1>2, <1>t, <2>1 DEF TextsFound
<1>o. PICK old \in Seq(DataRange) : old = builder.ranges
  BY DEF Collected, XmpInfoBuilder
<1>r. PICK ranges \in Seq(DataRange) : ranges = after.ranges
  BY DEF XmpInfoBuilder
<1>l. PICK len \in Nat : len = Len(old) /\ len >= 1
  <2>1. Len(old) \in Nat /\ (Len(old) = 0 => old = <<>>)
    BY EmptySeq, LenProperties
  <2>2. Len(old) # 0
    BY <1>o, <2>1
  <2>3. Len(old) >= 1
    BY <2>1, <2>2
  <2> QED
    BY <2>1, <2>3
<1>4. /\ ranges # <<>> /\ Len(ranges) = len + 1 /\ ranges[len + 1] = range
      /\ \A k \in 1 .. len : ranges[k] = old[k]
  BY <1>o, <1>r, <1>l, AppendProperties DEF Comes, Fills
<1>5. SameTexts(type, old)
  BY <1>o, TextsStay DEF Comes
<1>6. PICK joined \in Seq(Symbols) : joined = FlattenSeq(TextsOf(old))
  BY <1>5, FlattenFacts DEF SameTexts
<1>7. PICK a \in Nat : a = ValueOffset(type, old) + 1 /\ a \in 1 .. Len(joined)
                       /\ \A r \in a .. Len(joined) : joined[r] # Quote
  <2>1. TextHolds(joined, ValueOffset(type, old) + 1, Len(TextOf(Last(old))),
                  IsValid(builder.property_end))
    BY <1>o, <1>6 DEF Collected
  <2>2. ~Closes(joined, ValueOffset(type, old) + 1)
    BY <2>1 DEF TextHolds
  <2>3. ValueOffset(type, old) + 1 \in 1 .. Len(joined)
    BY <2>1 DEF TextHolds
  <2> QED
    BY <2>2, <2>3 DEF Closes
<1>8. FlattenSeq(TextsOf(ranges))' = joined \o text
  <2>1. TextsOf(ranges)' = [k \in 1 .. len + 1 |-> TextOf(ranges[k])']
    BY <1>4 DEF TextsOf
  <2>2. TextsOf(old)' = [k \in 1 .. len |-> TextOf(old[k])']
    BY <1>l DEF TextsOf
  <2>3. PICK texts \in Seq(Seq(Symbols)) : texts = TextsOf(old) /\ Len(texts) = len
    BY <1>5, <1>l DEF SameTexts
  <2>4. \A k \in 1 .. len : TextOf(ranges[k])' = texts[k]
    <3>1. texts = [k \in 1 .. len |-> TextOf(old[k])']
      BY <1>5, <2>2, <2>3 DEF SameTexts
    <3> QED
      BY <1>4, <3>1
  <2>5. TextOf(ranges[len + 1])' = text
    BY <1>3, <1>4
  <2>6. /\ Append(texts, text) \in Seq(Seq(Symbols)) /\ Len(Append(texts, text)) = len + 1
        /\ \A k \in 1 .. len : Append(texts, text)[k] = texts[k]
        /\ Append(texts, text)[len + 1] = text
    BY <2>3, AppendProperties
  <2>7. \A k \in 1 .. len + 1 : TextOf(ranges[k])' = Append(texts, text)[k]
    <3> TAKE k \in 1 .. len + 1
    <3>1. CASE k = len + 1
      BY <2>5, <2>6, <3>1
    <3>2. CASE k # len + 1
      <4>1. k \in 1 .. len
        BY <3>2
      <4> QED
        BY <2>4, <2>6, <4>1
    <3> QED
      BY <3>1, <3>2
  <2>8. Append(texts, text) = [k \in 1 .. len + 1 |-> Append(texts, text)[k]]
    BY <2>6, LenProperties
  <2>9. TextsOf(ranges)' = Append(texts, text)
    BY <2>1, <2>7, <2>8
  <2>10. FlattenSeq(Append(texts, text)) = FlattenSeq(texts) \o text
    BY FlattenFacts
  <2> QED
    BY <1>6, <2>3, <2>9, <2>10
<1>9. ValueOffset(type, ranges)' = ValueOffset(type, old)
  <2>1. ranges[1] = old[1]
    BY <1>l, <1>4
  <2>2. ValueOffset(type, ranges)' = ValueOffset(type, old)'
    BY <2>1 DEF ValueOffset, OpensAt
  <2> QED
    BY <1>5, <2>2 DEF SameTexts
<1>10. TextOf(Last(ranges))' = text
  BY <1>3, <1>4 DEF Last
<1>11. IsValid(after.property_end) <=> Closes(text, 1)
  <2>1. 1 \in Nat /\ 1 <= 1 /\ TextBegin(range) + 1 = TextBegin(range) + 1
        /\ TextBegin(range) \in Nat /\ Fills(range, text)
    BY <1>t DEF Comes, Fills
  <2> QED
    BY <1>t, <2>1, FindsEnd
<1>12. TextHolds(joined \o text, a, Len(text), IsValid(after.property_end))
  <2> PICK all \in Seq(Symbols) : all = joined \o text
    BY ConcatProperties
  <2> PICK jl \in Nat : jl = Len(joined)
    BY LenProperties
  <2> PICK tl \in Nat : tl = Len(text)
    BY LenProperties
  <2>1. Len(all) = jl + tl
    BY ConcatProperties
  <2>2. \A r \in 1 .. jl + tl : all[r] = IF r <= jl THEN joined[r] ELSE text[r - jl]
    BY ConcatProperties
  <2>3. a \in 1 .. jl + tl
    BY <1>7
  <2>4. ASSUME NEW r \in a .. jl
        PROVE  all[r] # Quote
    <3>1. r \in 1 .. jl + tl /\ r <= jl /\ r \in a .. Len(joined)
      BY <2>3
    <3> QED
      BY <1>7, <2>2, <3>1
  <2>5. Closes(all, a) => Closes(text, 1)
    <3> SUFFICES ASSUME NEW r \in a .. jl + tl, all[r] = Quote
                 PROVE  \E p \in 1 .. tl : text[p] = Quote
      BY <2>1 DEF Closes
    <3>1. ~(r <= jl)
      BY <2>3, <2>4
    <3>2. r - jl \in 1 .. tl /\ r \in 1 .. jl + tl
      BY <2>3, <3>1
    <3> QED
      BY <2>2, <3>1, <3>2
  <2>6. Closes(text, 1) => Closes(all, a)
    <3> SUFFICES ASSUME NEW p \in 1 .. tl, text[p] = Quote
                 PROVE  \E r \in a .. jl + tl : all[r] = Quote
      BY <2>1 DEF Closes
    <3>1. /\ jl + p \in 1 .. jl + tl /\ ~(jl + p <= jl) /\ (jl + p) - jl = p
          /\ jl + p \in a .. jl + tl
      BY <1>7
    <3>2. all[jl + p] = text[p]
      BY <2>2, <3>1
    <3> QED
      BY <3>1, <3>2
  <2>7. Len(all) - Len(text) = jl
    BY <2>1
  <2> QED
    BY <1>11, <2>1, <2>3, <2>4, <2>5, <2>6, <2>7 DEF TextHolds
<1>13. TextHolds(FlattenSeq(TextsOf(ranges)), ValueOffset(type, ranges) + 1,
                 Len(TextOf(Last(ranges))), IsValid(after.property_end))'
  <2>1. ValueOffset(type, ranges)' + 1 = a
    BY <1>7, <1>9
  <2>2. Len(TextOf(Last(ranges)))' = Len(text)
    BY <1>10
  <2> QED
    BY <1>8, <1>12, <2>1, <2>2 DEF TextHolds, Closes
<1>14. PICK first, last \in Extensions : SpreadOver(type, builder, first, last)
  BY DEF Collected
<1>15. SpreadOver(type, after, first, n + 1)'
  <2>1. PICK places : places = Extensions \cap (first .. last)
    OBVIOUS
  <2>2. /\ ToSet(old) = {seen[i].range : i \in places}
        /\ \A m, k \in 1 .. len : m < k => old[m].end <= old[k].begin
        /\ \A i \in Extensions : i <= last
    BY <1>o, <1>l, <1>14, <2>1 DEF SpreadOver, AreRangesAt
  <2>3. first \in 1 .. n /\ places \subseteq 1 .. n
    BY <1>1, <2>1
  <2>4. Extensions' \cap (first .. n + 1) = places \cup {n + 1}
    <3>1. ASSUME NEW i \in Extensions
          PROVE  i \in first .. n + 1 <=> i \in first .. last
      <4>1. i \in 1 .. n /\ last \in 1 .. n /\ i <= last
        BY <1>1, <2>2
      <4> QED
        BY <2>3, <4>1
    <3>2. n + 1 \in first .. n + 1
      BY <2>3
    <3> QED
      BY <1>1, <2>1, <3>1, <3>2
  <2>5. ToSet(ranges) = ToSet(old) \cup {range}
    <3>1. ToSet(ranges) = {ranges[k] : k \in 1 .. len + 1}
      BY <1>4, LenProperties DEF ToSet
    <3>2. ToSet(old) = {old[k] : k \in 1 .. len}
      BY <1>l, LenProperties DEF ToSet
    <3>3. \A k : k \in 1 .. len + 1 <=> k \in 1 .. len \/ k = len + 1
      OBVIOUS
    <3> QED
      BY <1>4, <3>1, <3>2, <3>3
  <2>6. ToSet(ranges) = {seen'[i].range : i \in places \cup {n + 1}}
    <3>1. {seen'[i].range : i \in places} = {seen[i].range : i \in places}
      BY <1>2, <2>3
    <3>2. {seen'[i].range : i \in places \cup {n + 1}}
             = {seen'[i].range : i \in places} \cup {seen'[n + 1].range}
      OBVIOUS
    <3> QED
      BY <1>2, <2>2, <2>5, <3>1, <3>2
  <2>7. ASSUME NEW m \in 1 .. len + 1, NEW k \in 1 .. len + 1, m < k
        PROVE  ranges[m].end <= ranges[k].begin
    <3>1. m \in 1 .. len
      BY <2>7
    <3>2. CASE k \in 1 .. len
      BY <1>4, <2>2, <2>7, <3>1, <3>2
    <3>3. CASE k = len + 1
      <4>1. PICK i \in 1 .. n : ranges[m] = seen[i].range
        BY <1>o, <1>l, <1>4, <3>1, CollectedSeen
      <4>2. /\ seen[i].range.end <= Position /\ Position <= range.begin
            /\ seen[i].range \in DataRange /\ range \in DataRange /\ Position \in Nat
        BY SeenElements, PositionType DEF Inv, Types, SeenOK, Comes, Arrived
      <4> QED
        BY <1>4, <3>3, <4>1, <4>2 DEF DataRange
    <3> QED
      BY <3>2, <3>3
  <2>8. AreRangesAt(ranges, places \cup {n + 1})'
    BY <1>4, <2>6, <2>7 DEF AreRangesAt
  <2>9. \A i \in Extensions' : i <= n + 1
    BY <1>1
  <2>10. \A i \in Extensions' : i < first => ~Opens(seen'[i].kind.text, type)
    <3>1. \A i \in Extensions : i < first => ~Opens(seen[i].kind.text, type)
      BY <1>14 DEF SpreadOver
    <3>2. \A i \in Extensions' : i < first => i \in Extensions /\ seen'[i] = seen[i]
      BY <1>1, <1>2, <2>3
    <3> QED
      BY <3>1, <3>2
  <2> QED
    BY <1>r, <2>4, <2>8, <2>9, <2>10 DEF SpreadOver, AreRangesAt, Opens, OpensAt
<1>16. first \in Extensions' /\ n + 1 \in Extensions'
  BY <1>1
<1>17. Opens(TextOf(ranges[1]), type)'
  <2>1. Opens(TextOf(old[1]), type)
    BY <1>o DEF Collected
  <2>2. ranges[1] = old[1]
    BY <1>l, <1>4
  <2> QED
    BY <1>5, <2>1, <2>2 DEF SameTexts, Opens, OpensAt
<1> QED
  BY <1>r, <1>4, <1>13, <1>15, <1>16, <1>17 DEF Collected, Opens, OpensAt

\* ProcessSegment, whatever the builder has collected.
LEMMA TakesIn ==
    ASSUME Inv, Inv', GuidOK, NEW kind \in Kinds, NEW range, Comes(kind, range),
           NEW type, NEW builder, Collected(type, builder),
           NEW after, after = ProcessSegment(builder, type, range, kind.text)
    PROVE  Collected(type, after)'
<1> PICK begin : begin = FindXmpPropertyValueBegin(range, kind.text, TextBegin(range), type)
  OBVIOUS
<1> PICK end : end = FindXmpPropertyValueEnd(range, kind.text, TextBegin(range))
  OBVIOUS
<1> PICK close : close = FindXmpPropertyValueEnd(range, kind.text, begin)
  OBVIOUS
<1>1. builder \in XmpInfoBuilder /\ range \in DataRange /\ IsValid(range)
      /\ Arrived(kind, range) /\ Fills(range, kind.text)
  BY DEF Collected, Comes, Fills
<1>2. after \in XmpInfoBuilder
  BY <1>1, ProcessSegmentType
<1>3. CASE builder.ranges = <<>>
  <2>1. ~IsValid(builder.property_end)
    BY <1>3 DEF Collected
  <2>2. CASE begin = range.end
    <3>1. after.ranges = builder.ranges /\ after.property_end = builder.property_end
      BY <1>3, <2>2 DEF ProcessSegment
    <3>2. after = builder
      BY <1>1, <1>2, <3>1 DEF XmpInfoBuilder
    <3>3. ~Opens(kind.text, type)
      <4>1. kind.text \in Seq(Symbols)
        BY TextType
      <4> QED
        BY <1>1, <2>2, <4>1, FindsBegin
    <3> QED
      BY <1>1, <1>3, <3>2, <3>3, SameBuilder
  <2>3. CASE begin # range.end
    <3>1. /\ after.ranges = Append(builder.ranges, range)
          /\ after.property_end = IF close # range.end THEN range ELSE builder.property_end
      BY <1>3, <2>3 DEF ProcessSegment
    <3>2. after.ranges = <<range>>
      BY <1>3, <3>1
    <3>3. IsValid(after.property_end) <=> close # range.end
      BY <1>1, <2>1, <3>1
    <3>4. NothingOpened(type)
      BY <1>3 DEF Collected
    <3> QED
      BY <1>2, <2>3, <3>2, <3>3, <3>4, StartsHere
  <2> QED
    BY <2>2, <2>3
<1>4. CASE builder.ranges # <<>>
  <2>1. CASE IsValid(builder.property_end)
    <3>1. after.ranges = builder.ranges /\ after.property_end = builder.property_end
      BY <1>4, <2>1 DEF ProcessSegment
    <3>2. after = builder
      BY <1>1, <1>2, <3>1 DEF XmpInfoBuilder
    <3> QED
      BY <1>1, <1>4, <2>1, <3>2, SameBuilder
  <2>2. CASE ~IsValid(builder.property_end)
    <3>1. /\ after.ranges = Append(builder.ranges, range)
          /\ after.property_end = IF end # range.end THEN range ELSE builder.property_end
      BY <1>4, <2>2 DEF ProcessSegment
    <3>2. IsValid(after.property_end) <=> end # range.end
      BY <1>1, <2>2, <3>1
    <3> QED
      BY <1>2, <1>4, <2>2, <3>1, <3>2, GoesOnHere
  <2> QED
    BY <2>1, <2>2
<1> QED
  BY <1>3, <1>4

\* An extended XMP segment is as long as its header and its text.
LEMMA TextFills ==
    ASSUME TypeOK, NEW kind \in Kinds, IsXmp(kind, "extendedXmp"),
           NEW range \in DataRange, range = SegmentRange(kind, Position)
    PROVE  Fills(range, kind.text)
<1>1. kind.marker = "APP1"
  BY DEF IsXmp
<1>2. PICK begin \in Nat : begin = Position
  BY PositionType
<1>3. PICK len \in Nat : len = Len(kind.text)
  BY TextType, LenProperties
<1>4. range.begin = begin /\ range.end = begin + (HeaderLength + len)
  BY <1>1, <1>2, <1>3 DEF SegmentRange, SegmentLength, IsDelimiter, NewRange
<1>5. TextBegin(range) = begin + HeaderLength
  BY <1>4 DEF TextBegin
<1>6. begin + HeaderLength \in Nat
      /\ begin + (HeaderLength + len) = (begin + HeaderLength) + len
  BY HeaderLengthAssumption
<1> QED
  BY <1>3, <1>4, <1>5, <1>6 DEF Fills

\* Process keeps what was collected right, whichever segment comes.
LEMMA ProcessXmp == Inv /\ Inv' /\ GuidOK /\ XmpOK /\ Process => GuidOK' /\ XmpOK'
<1> SUFFICES ASSUME Inv, Inv', GuidOK, XmpOK, Process
             PROVE  GuidOK' /\ XmpOK'
  OBVIOUS
<1>1. TypeOK
  BY DEF Inv, Types
<1>2. PICK kind \in family.kinds : \E range :
          /\ range = SegmentRange(kind, Position)
          /\ Arrives(kind, range) /\ ProcessOne(kind, range)
  BY DEF Process, Position, ProcessOne
<1>3. PICK range : /\ range = SegmentRange(kind, Position)
                   /\ Arrives(kind, range) /\ ProcessOne(kind, range)
  BY <1>2
<1>4. kind \in Kinds /\ Arrived(kind, range) /\ range \in DataRange /\ IsValid(range)
  <2>1. kind \in Kinds /\ Arrived(kind, range)
    BY <1>1, <1>3, ArrivalFacts
  <2> QED
    BY <2>1 DEF Arrived, IsValid
<1>5. GuidOK'
  BY <1>3, <1>4, GuidInv
<1>6. ASSUME NEW type \in XmpTypes, NEW after, after = xmp_builders'[type]
      PROVE  Collected(type, after)'
  <2>1. PICK builder : builder = xmp_builders[type]
    OBVIOUS
  <2>2. Collected(type, builder)
    BY <2>1 DEF XmpOK
  <2>3. CASE IsTakenIn(kind)
    <3>1. IsXmp(kind, "extendedXmp")
      BY <2>3 DEF IsTakenIn
    <3>2. ProcessExtendedXmp(kind, range)
      BY <1>3, <3>1 DEF IsXmp, ProcessOne, ProcessSOI, ProcessEOI, ProcessAPP0, ProcessAPP2,
                        ProcessPrimaryXmp, ProcessOtherAPP1
    <3>3. xmp_builders' = [t \in XmpTypes |->
                              ProcessSegment(xmp_builders[t], t, range, kind.text)]
      BY <2>3, <3>2 DEF IsTakenIn, ProcessExtendedXmp
    <3>4. after = ProcessSegment(builder, type, range, kind.text)
      BY <1>6, <2>1, <3>3
    <3>5. Comes(kind, range)
      BY <1>1, <1>3, <1>4, <2>3, <3>1, TextFills DEF Comes
    <3> QED
      BY <1>4, <2>2, <3>4, <3>5, TakesIn
  <2>4. CASE ~IsTakenIn(kind)
    <3>1. xmp_builders' = xmp_builders
      BY <1>3, <2>4 DEF IsTakenIn, IsXmp, ProcessOne, ProcessSOI, ProcessEOI, ProcessAPP0,
                        ProcessAPP2, ProcessPrimaryXmp, ProcessExtendedXmp,
                        ProcessOtherAPP1, xmp
    <3>2. after = builder
      BY <1>6, <2>1, <3>1
    <3> QED
      BY <1>4, <2>2, <2>4, <3>2, SameBuilder
  <2> QED
    BY <2>3, <2>4
<1>7. XmpOK'
  BY <1>6 DEF XmpOK
<1> QED
  BY <1>5, <1>7

\* Start and Finish, and a stuttering step, take no segment in.
LEMMA QuietXmp ==
    ASSUME GuidOK, XmpOK, seen' = seen, primary_guid' = primary_guid,
           xmp_builders' = xmp_builders
    PROVE  GuidOK' /\ XmpOK'
<1>1. \A i : ImageOf(i)' = ImageOf(i)
  BY DEF ImageOf, Places
<1>2. \A i : PrimariesBefore(i)' = PrimariesBefore(i)
  BY <1>1 DEF PrimariesBefore
<1>3. \A i : GuidAt(i)' = GuidAt(i)
  <2>1. \A i : GuidAt(i)' = IF PrimariesBefore(i)' = {} THEN <<>>
                            ELSE seen'[Max(PrimariesBefore(i)')].kind.guid
    BY DEF GuidAt, PrimariesBefore
  <2> QED
    BY <1>2, <2>1, GuidAtIs
<1>4. \A i : IsExtension(i)' <=> IsExtension(i)
  BY <1>1, <1>3 DEF IsExtension
<1>5. Extensions' = Extensions
  BY <1>4 DEF Extensions
<1>6. GuidOK'
  BY <1>3 DEF GuidOK
<1>7. \A range : TextOf(range)' = TextOf(range)
  BY DEF TextOf
<1>8. \A ranges : TextsOf(ranges)' = TextsOf(ranges)
  BY <1>7 DEF TextsOf
<1>9. \A type, ranges : ValueOffset(type, ranges)' = ValueOffset(type, ranges)
  BY <1>7 DEF ValueOffset, OpensAt
<1>10. ASSUME NEW type \in XmpTypes, NEW builder, builder = xmp_builders[type]
       PROVE  Collected(type, builder)'
  <2>1. Collected(type, builder)
    BY <1>10 DEF XmpOK
  <2>2. NothingOpened(type)' <=> NothingOpened(type)
    BY <1>5 DEF NothingOpened, Opens, OpensAt
  <2>3. \A first, last : SpreadOver(type, builder, first, last)'
                            <=> SpreadOver(type, builder, first, last)
    BY <1>5 DEF SpreadOver, AreRangesAt, Opens, OpensAt
  <2>4. Opens(TextOf(builder.ranges[1]), type)' <=> Opens(TextOf(builder.ranges[1]), type)
    BY <1>7 DEF Opens, OpensAt
  <2> QED
    BY <1>5, <1>7, <1>8, <1>9, <2>1, <2>2, <2>3, <2>4 DEF Collected, TextHolds, Closes
<1>11. XmpOK'
  BY <1>10 DEF XmpOK
<1> QED
  BY <1>6, <1>11

\* A new builder has collected nothing.
LEMMA InitXmp == Init => GuidOK /\ XmpOK
<1> SUFFICES ASSUME Init
             PROVE  GuidOK /\ XmpOK
  OBVIOUS
<1>1. Len(seen) = 0 /\ primary_guid = <<>>
      /\ xmp_builders = [t \in XmpTypes |-> NewXmpInfoBuilder]
  BY DEF Init
<1>2. Extensions = {}
  BY <1>1 DEF Extensions
<1>3. GuidOK
  <2>1. PrimariesBefore(1) = {} /\ Len(seen) + 1 = 1
    BY <1>1 DEF PrimariesBefore
  <2> QED
    BY <1>1, <2>1, GuidAtIs DEF GuidOK
<1>4. ASSUME NEW type \in XmpTypes, NEW builder, builder = xmp_builders[type]
      PROVE  Collected(type, builder)
  <2>1. builder = NewXmpInfoBuilder
    BY <1>1, <1>4
  <2>2. builder \in XmpInfoBuilder
    <3>1. <<>> \in Seq(DataRange)
      BY EmptySeq
    <3> QED
      BY <2>1, <3>1, InvalidRangeType DEF NewXmpInfoBuilder, XmpInfoBuilder
  <2>3. builder.ranges = <<>> /\ ~IsValid(builder.property_end)
    BY <2>1 DEF NewXmpInfoBuilder, InvalidRange, NewRange, IsValid
  <2>4. NothingOpened(type)
    BY <1>2 DEF NothingOpened
  <2> QED
    BY <2>2, <2>3, <2>4 DEF Collected
<1> QED
  BY <1>3, <1>4 DEF XmpOK

\* The texts of the segments that a builder has collected.
LEMMA TextsTyped ==
    ASSUME Inv, NEW type, NEW builder, Collected(type, builder), builder.ranges # <<>>
    PROVE  /\ TextsOf(builder.ranges) \in Seq(Seq(Symbols))
           /\ Len(TextOf(Last(builder.ranges))) \in Nat
<1> PICK ranges \in Seq(DataRange) : ranges = builder.ranges
  BY DEF Collected, XmpInfoBuilder
<1> PICK len \in Nat : len = Len(ranges)
  BY LenProperties
<1>1. TextsFound
  BY TextsAreFound
<1>2. ASSUME NEW k \in 1 .. len
      PROVE  TextOf(ranges[k]) \in Seq(Symbols)
  <2>1. PICK i \in 1 .. Len(seen) : ranges[k] = seen[i].range
    BY CollectedSeen
  <2> QED
    BY <1>1, <2>1 DEF TextsFound
<1>3. TextsOf(ranges) \in [1 .. len -> Seq(Symbols)]
  BY <1>2 DEF TextsOf
<1>4. TextsOf(ranges) \in Seq(Seq(Symbols))
  BY <1>3, SeqDef
<1>5. len \in 1 .. len
  BY EmptySeq
<1>6. Len(TextOf(ranges[len])) \in Nat
  BY <1>2, <1>5, LenProperties
<1> QED
  BY <1>4, <1>6 DEF Last

\* A sequence from its a-th element on.
LEMMA FromThere ==
    ASSUME NEW S, NEW s \in Seq(S), NEW len \in Nat, len = Len(s),
           NEW a \in Nat, a \in 1 .. len, NEW t, t = SubSeq(s, a, len)
    PROVE  /\ Len(t) = (len - a) + 1
           /\ \A n \in 1 .. (len - a) + 1 : t[n] = s[(a + n) - 1]
<1>1. a <= len + 1
  OBVIOUS
<1>2. /\ Len(SubSeq(s, a, len)) = (len - a) + 1
      /\ \A n \in 1 .. (len - a) + 1 : SubSeq(s, a, len)[n] = s[(a + n) - 1]
  BY <1>1, SubSeqProperties
<1> QED
  BY <1>2

-----------------------------------------------------------------------------
(***************************************************************************)
(* The theorems.                                                           *)
(***************************************************************************)
\* The GUID that is matched is that of the last primary XMP segment with GDepth or
\* GImage, and the builders have collected the extensions that hold their values.
THEOREM XmpCollectedAlways == Spec => [](Inv /\ GuidOK /\ XmpOK)
<1>1. Init => Inv /\ GuidOK /\ XmpOK
  BY InitInv, InitXmp
<1>2. Inv /\ GuidOK /\ XmpOK /\ [Next]_vars => Inv' /\ GuidOK' /\ XmpOK'
  <2> SUFFICES ASSUME Inv, GuidOK, XmpOK, [Next]_vars
               PROVE  Inv' /\ GuidOK' /\ XmpOK'
    OBVIOUS
  <2>1. Inv'
    BY StepInv
  <2>2. CASE Process
    BY <2>1, <2>2, ProcessXmp
  <2>3. CASE Start \/ Finish \/ UNCHANGED vars
    <3>1. seen' = seen /\ primary_guid' = primary_guid /\ xmp_builders' = xmp_builders
      BY <2>3 DEF Start, Finish, vars, xmp
    <3> QED
      BY <2>1, <3>1, QuietXmp
  <2> QED
    BY <2>2, <2>3 DEF Next
<1> QED
  BY <1>1, <1>2, PTL DEF Spec

\* The ranges that are reported for GDepth and GImage are those of segments which
\* follow one another, the first of which holds name=" and is the first that does, and
\* no segment behind the closing quote is among them.
THEOREM XmpRangesHoldTheValueAlways == Spec => []XmpRangesHoldTheValue
<1>1. Inv /\ XmpOK => XmpRangesHoldTheValue
  <2> SUFFICES ASSUME Inv, XmpOK, NEW type \in XmpTypes, NEW builder,
                      builder = xmp_builders[type]
               PROVE  LET ranges == builder.ranges
                      IN  IF ranges = <<>>
                          THEN \A i \in Extensions : ~Opens(seen[i].kind.text, type)
                          ELSE
                            LET text == TextAfterName(type, ranges)
                                tail == Len(TextOf(Last(ranges)))
                                ends == {n \in 1 .. Len(text) : text[n] = Quote}
                            IN  /\ Opens(TextOf(ranges[1]), type)
                                /\ \E first, last \in Extensions :
                                      /\ AreRangesAt(ranges, Extensions \cap (first .. last))
                                      /\ \A i \in Extensions :
                                            i < first => ~Opens(seen[i].kind.text, type)
                                      /\ ends = {} => \A i \in Extensions : i <= last
                                /\ \A n \in ends : n > Len(text) - tail
    BY DEF XmpRangesHoldTheValue
  <2>1. Collected(type, builder)
    BY DEF XmpOK
  <2>2. CASE builder.ranges = <<>>
    BY <2>1, <2>2 DEF Collected, NothingOpened
  <2>3. CASE builder.ranges # <<>>
    <3> PICK ranges \in Seq(DataRange) : ranges = builder.ranges
      BY <2>1 DEF Collected, XmpInfoBuilder
    <3>1. PICK first, last \in Extensions : SpreadOver(type, builder, first, last)
      BY <2>1, <2>3 DEF Collected
    <3>2. TextHolds(FlattenSeq(TextsOf(ranges)), ValueOffset(type, ranges) + 1,
                    Len(TextOf(Last(ranges))), IsValid(builder.property_end))
      BY <2>1, <2>3 DEF Collected
    <3>3. PICK joined \in Seq(Symbols) : joined = FlattenSeq(TextsOf(ranges))
      BY <2>1, <2>3, TextsTyped, FlattenFacts
    <3>4. PICK len \in Nat : len = Len(joined)
      BY LenProperties
    <3>5. PICK a \in Nat : a = ValueOffset(type, ranges) + 1 /\ a \in 1 .. len
      BY <3>2, <3>3, <3>4 DEF TextHolds
    <3>6. PICK text : text = SubSeq(joined, a, len)
      OBVIOUS
    <3>7. text = TextAfterName(type, ranges)
      BY <3>3, <3>4, <3>5, <3>6 DEF TextAfterName
    <3>8. /\ Len(text) = (len - a) + 1
          /\ \A n \in 1 .. (len - a) + 1 : text[n] = joined[(a + n) - 1]
      BY <3>4, <3>5, <3>6, FromThere
    <3>9. PICK tail \in Nat : tail = Len(TextOf(Last(ranges)))
      BY <2>1, <2>3, TextsTyped
    <3>10. PICK ends : ends = {n \in 1 .. Len(text) : text[n] = Quote}
      OBVIOUS
    <3>11. ends = {} => \A i \in Extensions : i <= last
      <4> SUFFICES ASSUME ends = {}
                   PROVE  ~IsValid(builder.property_end)
        BY <3>1 DEF SpreadOver
      <4> SUFFICES ASSUME NEW r \in a .. len, joined[r] = Quote
                   PROVE  FALSE
        BY <3>2, <3>3, <3>4, <3>5 DEF TextHolds, Closes
      <4>1. (r - a) + 1 \in 1 .. (len - a) + 1 /\ (a + ((r - a) + 1)) - 1 = r
        BY <3>5
      <4>2. text[(r - a) + 1] = Quote
        BY <3>8, <4>1
      <4> QED
        BY <3>8, <3>10, <4>1, <4>2
    <3>12. ASSUME NEW n \in ends
           PROVE  n > Len(text) - tail
      <4>1. n \in 1 .. (len - a) + 1 /\ text[n] = Quote /\ n \in Nat
        BY <3>5, <3>8, <3>10
      <4>2. PICK r \in a .. len : r = (a + n) - 1
        BY <3>5, <4>1
      <4>3. joined[r] = Quote
        BY <3>8, <4>1, <4>2
      <4>4. r \notin a .. len - tail
        BY <3>2, <3>3, <3>4, <3>5, <3>9, <4>3 DEF TextHolds
      <4>5. r > len - tail
        BY <3>5, <4>2, <4>4
      <4> QED
        BY <3>5, <3>8, <4>1, <4>2, <4>5
    <3>13. Opens(TextOf(ranges[1]), type)
      BY <2>1, <2>3 DEF Collected
    <3> QED
      BY <2>3, <3>1, <3>7, <3>9, <3>10, <3>11, <3>12, <3>13 DEF SpreadOver
  <2> QED
    BY <2>2, <2>3
<1> QED
  BY <1>1, XmpCollectedAlways, PTL
=============================================================================
