-------------------- MODULE JpegAppleDepthBuilderProofs --------------------
(***************************************************************************)
(* Proofs about JpegAppleDepthBuilder and AppleImageExtraction, for all    *)
(* files whose segments lie in their image, whatever the scans leave in the*)
(* sources, however much room there is and whatever the size of a chunk is.*)
(*                                                                         *)
(* The inductive invariant says, for each stage, exactly what has been     *)
(* written so far; and of a run that failed, that it had a cause.          *)
(***************************************************************************)
EXTENDS AppleImageExtraction, DataTransferProofs

FileBytes == {"primary", "depth", "jfif", "mpf"} \X Nat

-----------------------------------------------------------------------------
(***************************************************************************)
(* What has been written after each of the transfers.                      *)
(***************************************************************************)
AfterFirst  == Bytes("primary", NewRange(0, FirstEnd))
AfterJfif   == AfterFirst \o Bytes("jfif", NewRange(0, Length(primary.jfif) + jfif_delta))
AfterSecond == AfterJfif \o Bytes("primary", SecondRange)
AfterMpf    == AfterSecond \o Bytes("mpf", NewRange(0, MpfSegmentLength))
AfterThird  == AfterMpf \o Bytes("primary", ThirdRange)
AfterImage  == AfterThird \o Bytes("depth", depth.image)

Holds(bytes) == ~dest.has_error /\ dest.written = bytes

Numbers == [primary_length |-> PrimaryImageLength,
            depth_length   |-> Length(depth.image),
            depth_offset   |-> PrimaryImageLength - MpfPlace.begin - MpfHeaderLength]

(***************************************************************************)
(* The inductive invariant.                                                *)
(***************************************************************************)
FilesAreGiven == primary \in PrimaryFiles /\ depth \in DepthFiles

IsSourceOf(source, origin, length) ==
    /\ source.open
    /\ \A range \in DataRange :
          HasContent(FileBytes, length, Content(origin, length), source, range)

SourcesFit ==
    /\ sources = [origin \in {"primary", "depth"} |-> sources[origin]]
    /\ IsSourceOf(sources["primary"], "primary", primary.length)
    /\ IsSourceOf(sources["depth"], "depth", depth.length)

Transferring == {"first", "jfif", "second", "mpf", "third", "image", "finish"}

DataIsThere ==
    /\ stage \in {"depth", "failed"} \cup Transferring => HasPrimaryData
    /\ stage \in {"failed"} \cup Transferring => IsValid(depth.image)
    /\ built = "true" => HasPrimaryData /\ IsValid(depth.image)

Written ==
    /\ stage \in {"primary", "depth", "first"} => Holds(<<>>)
    /\ stage = "jfif"   => Holds(AfterFirst)
    /\ stage = "second" => Holds(AfterJfif)
    /\ stage = "mpf"    => Holds(AfterSecond)
    /\ stage = "third"  => Holds(AfterMpf)
    /\ stage = "image"  => Holds(AfterThird)
    /\ stage = "finish" \/ built = "true" => Holds(AfterImage)

NumbersAreRight ==
    stage \in {"third", "image", "finish"} \/ built = "true" => mpf = Numbers

Cause ==
    \/ ~HasPrimaryData \/ ~IsValid(depth.image)
    \/ dest.has_error
    \/ primary.image.end > sources["primary"].extent.end
    \/ depth.image.end > sources["depth"].extent.end

FailuresHaveCauses == stage = "failed" \/ built = "false" => Cause

Types ==
    /\ dest \in OStreams(FileBytes)
    /\ stage \in Stages
    /\ jfif_delta \in {0, AmpfLength}
    /\ mpf \in [primary_length : Nat, depth_length : Nat, depth_offset : Int]
    /\ built \in {"none", "true", "false"}
    /\ built # "none" => stage = "returned"

IInv ==
    /\ FilesAreGiven /\ Types /\ SourcesFit /\ DataIsThere
    /\ Written /\ NumbersAreRight /\ FailuresHaveCauses

-----------------------------------------------------------------------------
(***************************************************************************)
(* The files and the sources.                                              *)
(***************************************************************************)
LEMMA SegmentPlaces ==
    ASSUME FilesAreGiven, HasPrimaryData, IsValid(depth.image)
    PROVE  \E ib, ie, jb, je, mb, me, length \in Nat :
              /\ primary.length = length
              /\ primary.image = NewRange(ib, ie) /\ ie <= length
              /\ primary.jfif = NewRange(jb, je)
              /\ MpfPlace = NewRange(mb, me)
              /\ ib < jb /\ jb < je /\ je < ie
              /\ ib < mb /\ mb <= me /\ me < ie
              /\ je <= mb \/ me <= jb
<1>1. /\ primary \in PrimaryFile /\ SegmentsLieInImage(primary)
      /\ IsValid(primary.image) /\ IsValid(primary.jfif) /\ IsValid(primary.exif)
  BY FilesAssumption, ImagesAssumption DEF FilesAreGiven, HasPrimaryData
<1>2. /\ primary.length \in Nat /\ primary.image \in DataRange
      /\ primary.jfif \in DataRange /\ primary.exif \in DataRange
      /\ primary.mpf \in DataRange
  BY <1>1 DEF PrimaryFile
<1>3. /\ primary.image.end <= primary.length
      /\ \A type \in {"jfif", "exif", "mpf"} : IsValid(primary[type]) =>
            primary.image.begin < primary[type].begin
              /\ primary[type].end < primary.image.end
      /\ \A one, other \in {"jfif", "exif", "mpf"} :
            IsValid(primary[one]) /\ IsValid(primary[other]) =>
               one = other \/ primary[one].end <= primary[other].begin
                           \/ primary[other].end <= primary[one].begin
  BY <1>1, Zenon DEF SegmentsLieInImage
<1>4. /\ primary.image.begin < primary.jfif.begin /\ primary.jfif.end < primary.image.end
      /\ primary.image.begin < primary.exif.begin /\ primary.exif.end < primary.image.end
      /\ \/ primary.jfif.end <= primary.exif.begin
         \/ primary.exif.end <= primary.jfif.begin
  BY <1>1, <1>3
<1>5. IsValid(primary.mpf) =>
         /\ primary.image.begin < primary.mpf.begin /\ primary.mpf.end < primary.image.end
         /\ \/ primary.jfif.end <= primary.mpf.begin
            \/ primary.mpf.end <= primary.jfif.begin
  BY <1>1, <1>3
<1>6. PICK ib \in Nat, ie \in Nat : primary.image = NewRange(ib, ie)
  BY <1>2 DEF DataRange, NewRange
<1>7. PICK jb \in Nat, je \in Nat : primary.jfif = NewRange(jb, je)
  BY <1>2 DEF DataRange, NewRange
<1>8. PICK xb \in Nat, xe \in Nat : primary.exif = NewRange(xb, xe)
  BY <1>2 DEF DataRange, NewRange
<1>9. PICK nb \in Nat, ne \in Nat : primary.mpf = NewRange(nb, ne)
  BY <1>2 DEF DataRange, NewRange
<1>10. jb < je /\ xb < xe /\ ib < jb /\ je < ie /\ ib < xb /\ xe < ie
       /\ (je <= xb \/ xe <= jb) /\ ie <= primary.length
  BY <1>1, <1>3, <1>4, <1>6, <1>7, <1>8 DEF IsValid, NewRange
<1>11. CASE IsValid(primary.mpf)
  <2>1. MpfPlace = NewRange(nb, ne)
    BY <1>9, <1>11 DEF MpfPlace
  <2>2. nb < ne /\ ib < nb /\ ne < ie /\ (je <= nb \/ ne <= jb)
    BY <1>5, <1>6, <1>7, <1>9, <1>11 DEF IsValid, NewRange
  <2> QED
    BY <1>2, <1>6, <1>7, <1>10, <2>1, <2>2
<1>12. CASE ~IsValid(primary.mpf)
  <2>1. MpfPlace = NewRange(xe, xe)
    BY <1>8, <1>12 DEF MpfPlace, NewRange
  <2>2. ib < xe /\ (je <= xe \/ xe <= jb)
    BY <1>10
  <2> QED
    BY <1>2, <1>6, <1>7, <1>10, <2>1, <2>2
<1> QED
  BY <1>11, <1>12

LEMMA ContentIsContents ==
    ASSUME NEW origin \in {"primary", "depth", "jfif", "mpf"}, NEW length \in Nat
    PROVE  Content(origin, length) \in Contents(length, FileBytes)
  BY DEF Content, Contents, FileBytes

LEMMA ScannedIsSource ==
    ASSUME NEW origin \in {"primary", "depth"}, NEW length \in Nat,
           NEW source \in AfterScan(length)
    PROVE  IsSourceOf(source, origin, length)
<1>1. Content(origin, length) \in Contents(length, FileBytes)
  BY ContentIsContents
<1>2. /\ source \in DataSource /\ source.open /\ source.extent.end <= length
      /\ source.cached # NoSegment => source.cached.end <= length
      /\ source.kind = "memory" => source.cached = NoSegment
      /\ source.extent.begin = 0
  <2>1. CASE source = NewInMemory(NewRange(0, length))
    BY <2>1 DEF NewInMemory, NewRange, DataSource, DataRange, DataSegment
  <2>2. CASE source # NewInMemory(NewRange(0, length))
    <3>1. PICK cut \in 0 .. Smaller(MaxCut, length), good \in BOOLEAN,
               cached \in Windows(length) \cup {NoSegment} :
             source = [kind |-> "istream", extent |-> NewRange(0, length - cut),
                       open |-> TRUE, good |-> good, cached |-> cached]
      BY <2>2 DEF AfterScan
    <3>2. PICK left \in Nat : left = length - cut /\ left <= length
      BY BoundsAssumption DEF Smaller
    <3>3. source = [kind |-> "istream", extent |-> NewRange(0, left), open |-> TRUE,
                    good |-> good, cached |-> cached]
      BY <3>1, <3>2
    <3>4. cached # NoSegment => cached \in DataRange /\ cached.end <= length
      <4> SUFFICES ASSUME cached \in Windows(length)
                   PROVE  cached \in DataRange /\ cached.end <= length
        OBVIOUS
      <4>1. PICK k \in 0 .. (length - 1) \div BestDataSize :
               cached = NewRange(k * BestDataSize,
                                 Smaller(length, (k + 1) * BestDataSize))
        BY DEF Windows
      <4>2. k \in Nat /\ BestDataSize \in Nat
        BY BestDataSizeAssumption
      <4>3. k * BestDataSize \in Nat /\ (k + 1) * BestDataSize \in Nat
        BY <4>2
      <4> QED
        BY <4>1, <4>3 DEF NewRange, DataRange, Smaller
    <3>5. NewRange(0, left) \in DataRange /\ cached \in DataSegment
      BY <3>2, <3>4 DEF DataRange, NewRange, DataSegment
    <3> QED
      BY <3>2, <3>3, <3>4, <3>5 DEF DataSource, NewRange
  <2> QED
    BY <2>1, <2>2
<1>3. ASSUME NEW range \in DataRange
      PROVE  HasContent(FileBytes, length, Content(origin, length), source, range)
  BY <1>1, <1>2 DEF HasContent, DataRange
<1> QED
  BY <1>2, <1>3 DEF IsSourceOf

LEMMA MemoryIsSource ==
    ASSUME NEW origin \in {"jfif", "mpf"}, NEW length \in Nat
    PROVE  IsSourceOf(NewInMemory(NewRange(0, length)), origin, length)
<1>1. Content(origin, length) \in Contents(length, FileBytes)
  BY ContentIsContents
<1>2. PICK source : source = NewInMemory(NewRange(0, length))
  OBVIOUS
<1>3. /\ source \in DataSource /\ source.open /\ source.extent.end <= length
      /\ source.cached = NoSegment /\ source.extent.begin = 0
  BY <1>2 DEF NewInMemory, NewRange, DataSource, DataRange, DataSegment
<1>4. ASSUME NEW range \in DataRange
      PROVE  HasContent(FileBytes, length, Content(origin, length), source, range)
  BY <1>1, <1>3 DEF HasContent, DataRange
<1> QED
  BY <1>2, <1>3, <1>4 DEF IsSourceOf

\* A piece of a content, in the words of the model.
LEMMA PieceIsBytes ==
    ASSUME NEW origin, NEW length \in Nat, NEW begin \in Nat, NEW end \in Nat,
           begin <= end, end <= length
    PROVE  Piece(Content(origin, length), begin, end) = Bytes(origin, NewRange(begin, end))
<1>1. Length(NewRange(begin, end)) = end - begin
  BY DEF Length, IsValid, NewRange
<1>2. ASSUME NEW n \in 1 .. end - begin
      PROVE  Content(origin, length)[begin + n - 1] = <<origin, begin + n - 1>>
  BY DEF Content
<1>3. NewRange(begin, end).begin = begin
  BY DEF NewRange
<1> QED
  BY <1>1, <1>2, <1>3 DEF Piece, Bytes

-----------------------------------------------------------------------------
(***************************************************************************)
(* The steps that transfer something.                                      *)
(***************************************************************************)
\* What a transfer makes of the destination: it is complete and the builder goes on,
\* or it fails and something is wrong with the destination or too short.
Goes(origin, begin, end, extent, after) ==
    /\ dest' \in OStreams(FileBytes)
    /\ \/ /\ stage' = after /\ ~dest'.has_error
          /\ dest'.written = dest.written \o Bytes(origin, NewRange(begin, end))
       \/ stage' = "failed" /\ (dest'.has_error \/ extent.end < end)

SourceKept(source, next) == next = [source EXCEPT !.good = next.good] /\ next.good \in BOOLEAN

LEMMA ShortSources ==
    ASSUME NEW origin, NEW length, NEW source, IsSourceOf(source, origin, length),
           NEW begin \in Nat, NEW end \in Nat, begin < end
    PROVE  \E upto \in Nat :
              /\ upto = Available(source, NewRange(begin, end)) /\ upto <= end
              /\ upto < end => source.extent.end < end
<1>1. PICK range : range = NewRange(begin, end)
  OBVIOUS
<1>2. range \in DataRange /\ range.begin = begin /\ range.end = end
  BY <1>1 DEF NewRange, DataRange
<1>3. source.open /\ source \in DataSource
  BY <1>2 DEF IsSourceOf, HasContent
<1>4. PICK x \in Nat : x = source.extent.end
  BY <1>3 DEF DataSource, DataRange
<1>5. ReadsUpTo(source, begin, end) = Larger(begin, Smaller(end, x))
  BY <1>3, <1>4 DEF ReadsUpTo
<1>6. \/ Available(source, range) = end
      \/ Available(source, range) = Larger(begin, Smaller(end, x))
  BY <1>2, <1>5 DEF Available
<1>7. PICK upto \in Nat : upto = Available(source, range)
  BY <1>6 DEF Larger, Smaller
<1> QED
  BY <1>1, <1>4, <1>6, <1>7 DEF Larger, Smaller

LEMMA GoesOn ==
    ASSUME NEW origin \in {"primary", "depth", "jfif", "mpf"}, NEW length \in Nat,
           NEW source, IsSourceOf(source, origin, length),
           NEW begin \in Nat, NEW end \in Nat, begin < end, end <= length,
           dest \in OStreams(FileBytes), ~dest.has_error,
           NEW outcome,
           outcome = TransferData(source, Content(origin, length),
                                  NewRange(begin, end), dest),
           NEW after, GoOn(outcome, NewRange(begin, end), after)
    PROVE  /\ Goes(origin, begin, end, source.extent, after)
           /\ SourceKept(source, outcome.source)
<1>1. PICK range : range = NewRange(begin, end)
  OBVIOUS
<1>2. range \in DataRange /\ range.begin = begin /\ range.end = end
  BY <1>1 DEF NewRange, DataRange
<1>3. HasContent(FileBytes, length, Content(origin, length), source, range)
  BY <1>2 DEF IsSourceOf
<1>4. PICK upto \in Nat :
         /\ upto = Available(source, range) /\ upto <= end
         /\ upto < end => source.extent.end < end
  BY <1>1, ShortSources, Zenon
<1>5. Transferred(FileBytes, Content(origin, length), begin, upto, source, dest, outcome)
  <2>1. Transferred(FileBytes, Content(origin, length), range.begin,
                    Available(source, range), source, dest,
                    TransferData(source, Content(origin, length), range, dest))
    BY <1>3, TransferOutcome, Zenon
  <2> QED
    BY <1>1, <1>2, <1>4, <2>1, Zenon
<1>6. SourceKept(source, outcome.source)
  BY <1>5, Zenon DEF Transferred, SourceKept
<1>7. /\ dest' = outcome.dest /\ dest' \in OStreams(FileBytes)
      /\ stage' = IF IsComplete(outcome, range) THEN after ELSE "failed"
      /\ outcome.dest.has_error <=> outcome.result = "error"
      /\ ~outcome.dest.has_error =>
          /\ begin <= upto
          /\ outcome.dest = Wrote(dest, Piece(Content(origin, length), begin, upto))
          /\ (outcome.result = "success" <=> upto > begin)
  BY <1>1, <1>5, Zenon DEF GoOn, Transferred
<1>8. CASE outcome.dest.has_error
  <2>1. outcome.result # "success"
    BY <1>7, <1>8
  <2>2. stage' = "failed"
    BY <1>7, <2>1 DEF IsComplete
  <2> QED
    BY <1>6, <1>7, <1>8, <2>2, Zenon DEF Goes
<1>9. CASE ~outcome.dest.has_error
  <2>1. begin <= upto /\ (outcome.result = "success" <=> upto > begin)
    BY <1>7, <1>9
  <2>2. PICK piece \in Seq(FileBytes) :
           piece = Piece(Content(origin, length), begin, upto) /\ Len(piece) = upto - begin
    <3>1. Content(origin, length) \in Contents(length, FileBytes)
      BY <1>3, Zenon DEF HasContent
    <3>2. upto \in 0 .. length /\ begin \in 0 .. upto
      BY <1>4, <2>1
    <3>3. /\ Piece(Content(origin, length), begin, upto) \in Seq(FileBytes)
          /\ Len(Piece(Content(origin, length), begin, upto)) = upto - begin
      BY <3>1, <3>2, PieceType, Zenon
    <3> QED
      BY <3>3, Zenon
  <2>3. PICK w \in Seq(FileBytes), r \in Nat, b \in Nat, e \in BOOLEAN :
           /\ dest = AnOStream(w, r, b, e)
           /\ dest.written = w /\ dest.bytes_transferred = b
    BY OStreamRecord
  <2>4. dest' = AnOStream(w \o piece, r - Len(piece), b + Len(piece), e)
    <3>1. Wrote(AnOStream(w, r, b, e), piece)
             = AnOStream(w \o piece, r - Len(piece), b + Len(piece), e)
      BY WroteRecord
    <3> QED
      BY <1>7, <1>9, <2>2, <2>3, <3>1
  <2>5. dest'.written = w \o piece /\ dest'.bytes_transferred = b + (upto - begin)
    BY <2>2, <2>4 DEF AnOStream
  <2>6. Length(range) = end - begin
    BY <1>2 DEF Length, IsValid
  <2>7. dest'.bytes_transferred - dest.bytes_transferred = upto - begin
    BY <2>3, <2>5
  <2>8. IsComplete(outcome, range) <=> upto = end
    BY <1>4, <1>7, <2>1, <2>6, <2>7 DEF IsComplete
  <2>9. CASE upto = end
    <3>1. piece = Bytes(origin, NewRange(begin, end))
      BY <2>2, <2>9, PieceIsBytes
    <3>2. stage' = after
      BY <1>7, <2>8, <2>9
    <3>3. dest'.written = dest.written \o Bytes(origin, NewRange(begin, end))
      BY <2>3, <2>5, <3>1
    <3> QED
      BY <1>6, <1>7, <1>9, <3>2, <3>3, Zenon DEF Goes
  <2>10. CASE upto # end
    <3>1. upto < end /\ stage' = "failed"
      BY <1>4, <1>7, <2>8, <2>10
    <3> QED
      BY <1>4, <1>6, <1>7, <3>1, Zenon DEF Goes
  <2> QED
    BY <2>9, <2>10
<1> QED
  BY <1>8, <1>9

\* A source keeps its bytes when it is read.
LEMMA KeptSource ==
    ASSUME NEW origin, NEW length, NEW source, IsSourceOf(source, origin, length),
           NEW next, SourceKept(source, next)
    PROVE  IsSourceOf(next, origin, length) /\ next.extent = source.extent
<1>1. /\ source \in DataSource /\ source.open
  <2>1. InvalidRange \in DataRange
    BY DEF InvalidRange, NewRange, DataRange
  <2> QED
    BY <2>1, Zenon DEF IsSourceOf, HasContent
<1>2. /\ next \in DataSource /\ next.extent = source.extent /\ next.open = source.open
      /\ next.cached = source.cached /\ next.kind = source.kind
  BY <1>1 DEF SourceKept, DataSource
<1>3. next.open
  BY <1>1, <1>2
<1>4. ASSUME NEW range \in DataRange
      PROVE  HasContent(FileBytes, length, Content(origin, length), next, range)
  <2>1. HasContent(FileBytes, length, Content(origin, length), source, range)
    BY Zenon DEF IsSourceOf
  <2> QED
    BY <1>2, <2>1 DEF HasContent
<1> QED
  BY <1>2, <1>3, <1>4, Zenon DEF IsSourceOf

\* The steps change neither the files nor where the segments of them are.
LEMMA PlacesKept ==
    ASSUME UNCHANGED files
    PROVE  /\ HasPrimaryData' = HasPrimaryData /\ FirstEnd' = FirstEnd
           /\ MpfPlace' = MpfPlace /\ SecondRange' = SecondRange
           /\ ThirdRange' = ThirdRange
<1>1. primary' = primary /\ depth' = depth
  BY DEF files
<1>2. MpfPlace' = MpfPlace /\ HasPrimaryData' = HasPrimaryData
  BY <1>1 DEF MpfPlace, HasPrimaryData
<1>3. FirstEnd' = FirstEnd
  BY <1>1, <1>2 DEF FirstEnd
<1> QED
  BY <1>1, <1>2, <1>3 DEF SecondRange, ThirdRange

LEMMA WrittenKept ==
    ASSUME UNCHANGED files
    PROVE  /\ AfterFirst' = AfterFirst
           /\ jfif_delta' = jfif_delta =>
                /\ AfterJfif' = AfterJfif /\ AfterSecond' = AfterSecond
                /\ AfterMpf' = AfterMpf /\ AfterThird' = AfterThird
                /\ AfterImage' = AfterImage /\ Numbers' = Numbers
<1>1. primary' = primary /\ depth' = depth
  BY DEF files
<1>2. /\ FirstEnd' = FirstEnd /\ MpfPlace' = MpfPlace
      /\ SecondRange' = SecondRange /\ ThirdRange' = ThirdRange
  BY PlacesKept
<1>3. AfterFirst' = AfterFirst
  BY <1>2 DEF AfterFirst
<1>4. ASSUME jfif_delta' = jfif_delta
      PROVE  /\ AfterJfif' = AfterJfif /\ PrimaryImageLength' = PrimaryImageLength
  BY <1>1, <1>2, <1>3, <1>4 DEF AfterJfif, PrimaryImageLength
<1>5. ASSUME jfif_delta' = jfif_delta
      PROVE  AfterSecond' = AfterSecond /\ Numbers' = Numbers
  BY <1>1, <1>2, <1>4, <1>5 DEF AfterSecond, Numbers
<1>6. ASSUME jfif_delta' = jfif_delta
      PROVE  AfterMpf' = AfterMpf
  BY <1>5, <1>6 DEF AfterMpf
<1>7. ASSUME jfif_delta' = jfif_delta
      PROVE  AfterThird' = AfterThird
  BY <1>2, <1>6, <1>7 DEF AfterThird
<1>8. ASSUME jfif_delta' = jfif_delta
      PROVE  AfterImage' = AfterImage
  BY <1>1, <1>7, <1>8 DEF AfterImage
<1> QED
  BY <1>3, <1>4, <1>5, <1>6, <1>7, <1>8

\* What is left to show of a step that transfers something.
Moved(after) ==
    /\ UNCHANGED <<files, built>>
    /\ dest' \in OStreams(FileBytes)
    /\ jfif_delta' \in {0, AmpfLength}
    /\ mpf' \in [primary_length : Nat, depth_length : Nat, depth_offset : Int]
    /\ SourcesFit'
    /\ \/ stage' = after /\ Written' /\ NumbersAreRight'
       \/ stage' = "failed" /\ Cause'

LEMMA MovedKeeps ==
    ASSUME IInv, stage \in Transferring, NEW after \in Transferring, Moved(after)
    PROVE  IInv'
<1>1. primary' = primary /\ depth' = depth /\ built' = built
  BY DEF Moved, files
<1>2. built = "none"
  <2>1. stage # "returned"
    BY DEF Transferring
  <2> QED
    BY <2>1, Zenon DEF IInv, Types
<1>3. stage' \in Transferring \/ stage' = "failed"
  BY Zenon DEF Moved
<1>4. built' = "none"
  BY <1>1, <1>2
<1>5. FilesAreGiven'
  BY <1>1 DEF IInv, FilesAreGiven
<1>6. Types'
  <2>1. stage' \in Stages
    BY <1>3 DEF Transferring, Stages
  <2> QED
    BY <1>4, <2>1 DEF Moved, Types
<1>7. HasPrimaryData' /\ IsValid(depth.image)'
  <2>1. HasPrimaryData /\ IsValid(depth.image)
    BY Zenon DEF IInv, DataIsThere
  <2>2. HasPrimaryData' = HasPrimaryData
    BY PlacesKept DEF Moved
  <2> QED
    BY <1>1, <2>1, <2>2
<1>8. DataIsThere'
  BY <1>7, Zenon DEF DataIsThere
<1>9. Written' /\ NumbersAreRight'
  <2>1. ASSUME stage' = "failed"
        PROVE  Written' /\ NumbersAreRight'
    BY <1>4, <2>1 DEF Written, NumbersAreRight
  <2> QED
    BY <2>1, Zenon DEF Moved
<1>10. FailuresHaveCauses'
  <2>1. CASE stage' = "failed"
    <3>1. stage' # after
      BY <2>1 DEF Transferring
    <3> QED
      BY <3>1, Zenon DEF Moved, FailuresHaveCauses
  <2>2. CASE stage' # "failed"
    BY <1>4, <2>2 DEF FailuresHaveCauses
  <2> QED
    BY <2>1, <2>2
<1>11. SourcesFit'
  BY DEF Moved
<1> QED
  BY <1>5, <1>6, <1>8, <1>9, <1>10, <1>11, Zenon DEF IInv

\* A transfer from one of the files.
LEMMA FileTransfer ==
    ASSUME IInv, stage \in Transferring, UNCHANGED files,
           NEW origin \in {"primary", "depth"}, NEW length \in Nat,
           length = (IF origin = "primary" THEN primary.length ELSE depth.length),
           NEW begin \in Nat, NEW end \in Nat, begin < end, end <= length,
           ~dest.has_error, NEW after,
           TransferFile(origin, length, NewRange(begin, end), after)
    PROVE  /\ Goes(origin, begin, end, sources[origin].extent, after)
           /\ SourcesFit'
           /\ \A o \in {"primary", "depth"} : sources'[o].extent = sources[o].extent
<1>1. primary' = primary /\ depth' = depth
  BY DEF files
<1>2. PICK outcome :
         /\ outcome = TransferData(sources[origin], Content(origin, length),
                                   NewRange(begin, end), dest)
         /\ GoOn(outcome, NewRange(begin, end), after)
         /\ sources' = [sources EXCEPT ![origin] = outcome.source]
  BY Zenon DEF TransferFile
<1>3. dest \in OStreams(FileBytes) /\ SourcesFit
  BY Zenon DEF IInv, Types
<1>3a. IsSourceOf(sources[origin], origin, length)
  BY <1>3 DEF SourcesFit
<1>4. /\ Goes(origin, begin, end, sources[origin].extent, after)
      /\ SourceKept(sources[origin], outcome.source)
  BY <1>2, <1>3, <1>3a, GoesOn
<1>5. /\ IsSourceOf(outcome.source, origin, length)
      /\ outcome.source.extent = sources[origin].extent
  BY <1>3a, <1>4, KeptSource
<1>6. /\ sources = [o \in {"primary", "depth"} |-> sources[o]]
      /\ IsSourceOf(sources["primary"], "primary", primary.length)
      /\ IsSourceOf(sources["depth"], "depth", depth.length)
  BY <1>3, Zenon DEF SourcesFit
<1>7. /\ sources' = [o \in {"primary", "depth"} |-> sources'[o]]
      /\ sources'[origin] = outcome.source
      /\ \A o \in {"primary", "depth"} : o # origin => sources'[o] = sources[o]
  BY <1>2, <1>6
<1>8. \A o \in {"primary", "depth"} : sources'[o].extent = sources[o].extent
  BY <1>5, <1>7
<1>9. /\ IsSourceOf(sources'["primary"], "primary", primary.length)
      /\ IsSourceOf(sources'["depth"], "depth", depth.length)
  BY <1>5, <1>6, <1>7
<1>10. SourcesFit'
  BY <1>1, <1>7, <1>9 DEF SourcesFit
<1> QED
  BY <1>4, <1>8, <1>10

\* A piece without bytes changes nothing.
LEMMA NoBytes ==
    ASSUME NEW origin, NEW range \in DataRange, ~IsValid(range)
    PROVE  \A w \in Seq(FileBytes) : w \o Bytes(origin, range) = w
<1>1. Bytes(origin, range) = <<>>
  BY DEF Bytes, Length
<1> QED
  BY <1>1, ConcatEmptySeq

LEMMA BytesType ==
    ASSUME NEW origin \in {"primary", "depth", "jfif", "mpf"}, NEW range \in DataRange
    PROVE  Bytes(origin, range) \in Seq(FileBytes) /\ Len(Bytes(origin, range)) = Length(range)
<1>1. PICK begin \in Nat : begin = range.begin
  BY DEF DataRange
<1>2. PICK m \in Nat : m = Length(range)
  BY DEF Length, IsValid, DataRange
<1>3. \A n \in 1 .. m : <<origin, begin + n - 1>> \in FileBytes
  BY DEF FileBytes
<1>4. [n \in 1 .. m |-> <<origin, begin + n - 1>>] \in Seq(FileBytes)
  BY <1>3, IsASeq
<1>5. Len([n \in 1 .. m |-> <<origin, begin + n - 1>>]) = m
  BY <1>4, LenProperties
<1> QED
  BY <1>1, <1>2, <1>4, <1>5 DEF Bytes

IsFileStep(origin, length, begin, end, last, after) ==
    /\ stage \in Transferring /\ UNCHANGED <<files, jfif_delta, mpf, built>>
    /\ origin \in {"primary", "depth"} /\ after \in Transferring
    /\ length = (IF origin = "primary" THEN primary.length ELSE depth.length)
    /\ last = (IF origin = "primary" THEN primary.image.end ELSE depth.image.end)
    /\ length \in Nat /\ begin \in Nat /\ end \in Nat /\ last \in Nat
    /\ begin < end /\ end <= length /\ end <= last
    /\ ~dest.has_error
    /\ after \in {"third", "image", "finish"} => stage \in {"third", "image"}
    /\ TransferFile(origin, length, NewRange(begin, end), after)
    /\ (stage' = after /\ ~dest'.has_error
           /\ dest'.written = dest.written \o Bytes(origin, NewRange(begin, end)))
          => Written'

IsNewStep(origin, length, after) ==
    /\ stage \in Transferring /\ UNCHANGED <<files, built>>
    /\ jfif_delta' \in {0, AmpfLength}
    /\ mpf' \in [primary_length : Nat, depth_length : Nat, depth_offset : Int]
    /\ origin \in {"jfif", "mpf"} /\ after \in Transferring
    /\ length \in Nat /\ length > 0
    /\ ~dest.has_error
    /\ TransferNew(origin, length, after)
    /\ (stage' = after /\ ~dest'.has_error
           /\ dest'.written = dest.written \o Bytes(origin, NewRange(0, length)))
          => Written' /\ NumbersAreRight'

\* The steps that transfer bytes of a file, if what they write is what the next stage
\* says.
LEMMA FileStep ==
    ASSUME IInv, NEW origin, NEW length, NEW begin, NEW end, NEW last, NEW after,
           IsFileStep(origin, length, begin, end, last, after)
    PROVE  IInv'
<1>0. /\ stage \in Transferring /\ UNCHANGED <<files, jfif_delta, mpf, built>>
      /\ origin \in {"primary", "depth"} /\ after \in Transferring
      /\ length = (IF origin = "primary" THEN primary.length ELSE depth.length)
      /\ last = (IF origin = "primary" THEN primary.image.end ELSE depth.image.end)
      /\ length \in Nat /\ begin \in Nat /\ end \in Nat /\ last \in Nat
      /\ begin < end /\ end <= length /\ end <= last
      /\ ~dest.has_error
      /\ after \in {"third", "image", "finish"} => stage \in {"third", "image"}
      /\ TransferFile(origin, length, NewRange(begin, end), after)
      /\ (stage' = after /\ ~dest'.has_error
             /\ dest'.written = dest.written \o Bytes(origin, NewRange(begin, end)))
            => Written'
  BY Zenon DEF IsFileStep
<1>1. /\ UNCHANGED files /\ jfif_delta' = jfif_delta /\ mpf' = mpf /\ built' = built
      /\ primary' = primary /\ depth' = depth
  BY <1>0 DEF files
<1>2. /\ Goes(origin, begin, end, sources[origin].extent, after)
      /\ SourcesFit'
      /\ \A o \in {"primary", "depth"} : sources'[o].extent = sources[o].extent
  BY <1>0, <1>1, FileTransfer
<1>3. /\ dest' \in OStreams(FileBytes)
      /\ jfif_delta' \in {0, AmpfLength}
      /\ mpf' \in [primary_length : Nat, depth_length : Nat, depth_offset : Int]
  BY <1>0, <1>1, <1>2 DEF IInv, Types, Goes
<1>4. CASE stage' = after /\ ~dest'.has_error
             /\ dest'.written = dest.written \o Bytes(origin, NewRange(begin, end))
  <2>1. Written'
    BY <1>0, <1>4
  <2>2. NumbersAreRight'
    <3>1. built' = "none"
      BY <1>0, <1>1 DEF IInv, Types, Transferring
    <3>2. Numbers' = Numbers
      BY <1>0, <1>1, WrittenKept
    <3> QED
      BY <1>0, <1>1, <1>4, <3>1, <3>2 DEF NumbersAreRight, IInv
  <2>3. Moved(after)
    BY <1>0, <1>1, <1>2, <1>3, <1>4, <2>1, <2>2, Zenon DEF Moved, files
  <2> QED
    BY <1>0, <2>3, MovedKeeps
<1>5. CASE stage' = "failed" /\ (dest'.has_error \/ sources[origin].extent.end < end)
  <2>1. Cause'
    <3>1. CASE dest'.has_error
      BY <1>0, <3>1, Zenon DEF Cause
    <3>2. CASE sources[origin].extent.end < end
      <4>1. sources[origin] \in DataSource
        <5>1. InvalidRange \in DataRange
          BY <1>0 DEF InvalidRange, NewRange, DataRange
        <5> QED
          BY <1>0, <5>1 DEF IInv, SourcesFit, IsSourceOf, HasContent
      <4>2. PICK x \in Nat : x = sources[origin].extent.end
        BY <1>0, <4>1 DEF DataSource, DataRange
      <4>3. sources'[origin].extent.end = x
        BY <1>0, <1>2, <4>2
      <4>4. last > x
        BY <1>0, <3>2, <4>2
      <4>5. CASE origin = "primary"
        <5>1. primary'.image.end > sources'["primary"].extent.end
          BY <1>0, <1>1, <4>3, <4>4, <4>5
        <5> QED
          BY <1>0, <5>1, Zenon DEF Cause
      <4>6. CASE origin = "depth"
        <5>1. depth'.image.end > sources'["depth"].extent.end
          BY <1>0, <1>1, <4>3, <4>4, <4>6
        <5> QED
          BY <1>0, <5>1, Zenon DEF Cause
      <4> QED
        BY <1>0, <4>5, <4>6
    <3> QED
      BY <1>0, <1>5, <3>1, <3>2
  <2>2. Moved(after)
    BY <1>0, <1>1, <1>2, <1>3, <1>5, <2>1, Zenon DEF Moved, files
  <2> QED
    BY <1>0, <2>2, MovedKeeps
<1> QED
  BY <1>0, <1>2, <1>4, <1>5, Zenon DEF Goes

\* The steps that transfer a segment that is made.
LEMMA NewStep ==
    ASSUME IInv, NEW origin, NEW length, NEW after, IsNewStep(origin, length, after)
    PROVE  IInv'
<1>0. /\ stage \in Transferring /\ UNCHANGED <<files, built>>
      /\ jfif_delta' \in {0, AmpfLength}
      /\ mpf' \in [primary_length : Nat, depth_length : Nat, depth_offset : Int]
      /\ origin \in {"jfif", "mpf"} /\ after \in Transferring
      /\ length \in Nat /\ length > 0
      /\ ~dest.has_error
      /\ TransferNew(origin, length, after)
      /\ (stage' = after /\ ~dest'.has_error
             /\ dest'.written = dest.written \o Bytes(origin, NewRange(0, length)))
            => Written' /\ NumbersAreRight'
  BY Zenon DEF IsNewStep
<1>1. PICK source : source = NewInMemory(NewRange(0, length))
  OBVIOUS
<1>2. IsSourceOf(source, origin, length) /\ source.extent.end = length
  BY <1>0, <1>1, MemoryIsSource DEF NewInMemory, NewRange
<1>3. PICK outcome :
         outcome = TransferData(source, Content(origin, length), NewRange(0, length), dest)
  OBVIOUS
<1>4. GoOn(outcome, NewRange(0, length), after) /\ sources' = sources
  BY <1>0, <1>1, <1>3 DEF TransferNew
<1>5. Goes(origin, 0, length, source.extent, after)
  <2>1. dest \in OStreams(FileBytes)
    BY Zenon DEF IInv, Types
  <2>2. 0 \in Nat /\ 0 < length /\ length <= length
    BY <1>0
  <2>3. GoOn(outcome, NewRange(0, length), after)
    BY <1>0, <1>4
  <2> QED
    BY <1>0, <1>2, <1>3, <2>1, <2>2, <2>3, GoesOn
<1>6. SourcesFit'
  BY <1>0, <1>4 DEF IInv, SourcesFit, files
<1>7. dest' \in OStreams(FileBytes)
  BY <1>0, <1>5 DEF Goes
<1>8. CASE stage' = after /\ ~dest'.has_error
             /\ dest'.written = dest.written \o Bytes(origin, NewRange(0, length))
  <2>1. Moved(after)
    BY <1>0, <1>6, <1>7, <1>8, Zenon DEF Moved, files
  <2> QED
    BY <1>0, <2>1, MovedKeeps
<1>9. CASE stage' = "failed" /\ (dest'.has_error \/ source.extent.end < length)
  <2>1. dest'.has_error
    BY <1>0, <1>2, <1>9
  <2>2. Cause'
    BY <1>0, <2>1, Zenon DEF Cause
  <2>3. Moved(after)
    BY <1>0, <1>6, <1>7, <1>9, <2>2, Zenon DEF Moved, files
  <2> QED
    BY <1>0, <2>3, MovedKeeps
<1> QED
  BY <1>0, <1>5, <1>8, <1>9, Zenon DEF Goes

-----------------------------------------------------------------------------
(***************************************************************************)
(* One step for each action.                                               *)
(***************************************************************************)
\* The places once more, for the steps that transfer something.
LEMMA PlacesThen ==
    ASSUME IInv, stage \in Transferring
    PROVE  /\ HasPrimaryData /\ IsValid(depth.image) /\ built = "none"
           /\ \E ib, ie, jb, je, mb, me, length \in Nat :
                /\ primary.length = length
                /\ primary.image = NewRange(ib, ie) /\ ie <= length
                /\ primary.jfif = NewRange(jb, je)
                /\ MpfPlace = NewRange(mb, me)
                /\ ib < jb /\ jb < je /\ je < ie
                /\ ib < mb /\ mb <= me /\ me < ie
                /\ je <= mb \/ me <= jb
<1>1. FilesAreGiven /\ HasPrimaryData /\ IsValid(depth.image)
  BY Zenon DEF IInv, DataIsThere
<1>2. stage # "returned"
  BY DEF Transferring
<1>3. built = "none"
  BY <1>2, Zenon DEF IInv, Types
<1> QED
  BY <1>1, <1>3, SegmentPlaces, Zenon

LEMMA FirstStep ==
    ASSUME IInv, TransferFirst
    PROVE  IInv'
<1>1. /\ stage = "first" /\ UNCHANGED files /\ jfif_delta' = jfif_delta
      /\ mpf' = mpf /\ built' = built
      /\ TransferFile("primary", primary.length, NewRange(0, FirstEnd), "jfif")
  BY DEF TransferFirst
<1>2. stage \in Transferring /\ "jfif" \in Transferring
  BY <1>1 DEF Transferring
<1>3. PICK ib, ie, jb, je, mb, me, length \in Nat :
         /\ primary.length = length
         /\ primary.image = NewRange(ib, ie) /\ ie <= length
         /\ primary.jfif = NewRange(jb, je)
         /\ MpfPlace = NewRange(mb, me)
         /\ ib < jb /\ jb < je /\ je < ie
         /\ ib < mb /\ mb <= me /\ me < ie
         /\ je <= mb \/ me <= jb
  BY <1>2, PlacesThen, Zenon
<1>4. PICK end \in Nat : end = FirstEnd /\ 0 < end /\ end <= ie /\ end <= length
  BY <1>3 DEF FirstEnd, Smaller, NewRange
<1>5. ~dest.has_error /\ dest.written = <<>> /\ built = "none"
  BY <1>1, <1>2, PlacesThen DEF IInv, Written, Holds
<1>6. ASSUME stage' = "jfif", ~dest'.has_error,
             dest'.written = dest.written \o Bytes("primary", NewRange(0, end))
      PROVE  Written'
  <2>1. NewRange(0, end) \in DataRange
    BY DEF NewRange, DataRange
  <2>2. Bytes("primary", NewRange(0, end)) \in Seq(FileBytes)
    BY <2>1, BytesType
  <2>3. <<>> \o Bytes("primary", NewRange(0, end)) = Bytes("primary", NewRange(0, end))
    BY <2>2, ConcatEmptySeq
  <2>4. dest'.written = AfterFirst
    BY <1>4, <1>5, <1>6, <2>3 DEF AfterFirst
  <2>5. AfterFirst' = AfterFirst
    BY <1>1, WrittenKept
  <2> QED
    BY <1>1, <1>5, <1>6, <2>4, <2>5 DEF Written, Holds
<1>7. primary.image.end = ie
  BY <1>3 DEF NewRange
<1>8. TransferFile("primary", length, NewRange(0, end), "jfif")
  BY <1>1, <1>3, <1>4
<1>9. /\ length = (IF "primary" = "primary" THEN primary.length ELSE depth.length)
      /\ ie = (IF "primary" = "primary" THEN primary.image.end ELSE depth.image.end)
      /\ "jfif" \in {"third", "image", "finish"} => stage \in {"third", "image"}
  BY <1>3, <1>7
<1>10. UNCHANGED <<files, jfif_delta, mpf, built>>
  BY <1>1
<1>11. IsFileStep("primary", length, 0, end, ie, "jfif")
  BY <1>2, <1>3, <1>4, <1>5, <1>6, <1>8, <1>9, <1>10 DEF IsFileStep
<1> QED
  BY <1>11, FileStep

LEMMA JfifStep ==
    ASSUME IInv, TransferNewJfifSegment
    PROVE  IInv'
<1>1. /\ stage = "jfif" /\ UNCHANGED files /\ mpf' = mpf /\ built' = built
      /\ jfif_delta' = (IF primary.ampf THEN 0 ELSE AmpfLength)
      /\ TransferNew("jfif", Length(primary.jfif) + jfif_delta', "second")
  BY DEF TransferNewJfifSegment
<1>2. stage \in Transferring /\ "second" \in Transferring
  BY <1>1 DEF Transferring
<1>3. PICK ib, ie, jb, je, mb, me, length \in Nat :
         /\ primary.length = length
         /\ primary.image = NewRange(ib, ie) /\ ie <= length
         /\ primary.jfif = NewRange(jb, je)
         /\ MpfPlace = NewRange(mb, me)
         /\ ib < jb /\ jb < je /\ je < ie
         /\ ib < mb /\ mb <= me /\ me < ie
         /\ je <= mb \/ me <= jb
  BY <1>2, PlacesThen, Zenon
<1>4. PICK delta \in Nat : delta = jfif_delta' /\ delta \in {0, AmpfLength}
  BY <1>1, SegmentsAssumption
<1>5. PICK size \in Nat : size = Length(primary.jfif) + jfif_delta' /\ size > 0
  <2>1. Length(primary.jfif) = je - jb
    BY <1>3 DEF Length, IsValid, NewRange
  <2> QED
    BY <1>3, <1>4, <2>1
<1>6. ~dest.has_error /\ dest.written = AfterFirst /\ built = "none"
  BY <1>1, <1>2, PlacesThen DEF IInv, Written, Holds
<1>7. ASSUME stage' = "second", ~dest'.has_error,
             dest'.written = dest.written \o Bytes("jfif", NewRange(0, size))
      PROVE  Written' /\ NumbersAreRight'
  <2>1. AfterFirst' = AfterFirst /\ primary' = primary
    BY <1>1, WrittenKept DEF files
  <2>2. AfterJfif' = AfterFirst' \o Bytes("jfif", NewRange(0, Length(primary'.jfif)
                                                                  + jfif_delta'))
    BY DEF AfterJfif
  <2>3. dest'.written = AfterJfif'
    BY <1>5, <1>6, <1>7, <2>1, <2>2
  <2> QED
    BY <1>1, <1>6, <1>7, <2>3 DEF Written, Holds, NumbersAreRight
<1>8. mpf' \in [primary_length : Nat, depth_length : Nat, depth_offset : Int]
  BY <1>1 DEF IInv, Types
<1>9. TransferNew("jfif", size, "second")
  BY <1>1, <1>5
<1>10. UNCHANGED <<files, built>> /\ jfif_delta' \in {0, AmpfLength}
  BY <1>1, <1>4
<1> QED
  <2>1. IsNewStep("jfif", size, "second")
    BY <1>2, <1>5, <1>6, <1>7, <1>8, <1>9, <1>10 DEF IsNewStep
  <2> QED
    BY <2>1, NewStep

\* Where the second piece begins: not behind the EOI.
LEMMA SecondPlace ==
    ASSUME NEW jb \in Nat, NEW je \in Nat, NEW mb \in Nat, NEW me \in Nat, jb < je,
           primary.jfif = NewRange(jb, je), MpfPlace = NewRange(mb, me)
    PROVE  \E begin \in Nat :
              /\ SecondRange = NewRange(begin, mb)
              /\ begin = (IF jb <= mb THEN je ELSE mb)
<1>1. /\ primary.jfif.begin = jb /\ primary.jfif.end = je
      /\ MpfPlace.begin = mb
  BY DEF NewRange
<1>2. FirstEnd = (IF mb < jb THEN mb ELSE jb)
  BY <1>1 DEF FirstEnd, Smaller
<1>3. PICK begin : begin = Smaller(IF FirstEnd = jb THEN je ELSE FirstEnd, je)
  OBVIOUS
<1>4. begin = (IF jb <= mb THEN je ELSE mb)
  BY <1>2, <1>3 DEF Smaller
<1>5. SecondRange = NewRange(begin, mb)
  BY <1>1, <1>3 DEF SecondRange
<1> QED
  BY <1>4, <1>5

LEMMA SecondStep ==
    ASSUME IInv, TransferSecond
    PROVE  IInv'
<1>1. /\ stage = "second" /\ UNCHANGED files /\ jfif_delta' = jfif_delta
      /\ mpf' = mpf /\ built' = built
      /\ IF IsValid(SecondRange)
         THEN TransferFile("primary", primary.length, SecondRange, "mpf")
         ELSE stage' = "mpf" /\ UNCHANGED <<sources, dest>>
  BY DEF TransferSecond
<1>2. stage \in Transferring /\ "mpf" \in Transferring
  BY <1>1 DEF Transferring
<1>3. PICK ib, ie, jb, je, mb, me, length \in Nat :
         /\ primary.length = length
         /\ primary.image = NewRange(ib, ie) /\ ie <= length
         /\ primary.jfif = NewRange(jb, je)
         /\ MpfPlace = NewRange(mb, me)
         /\ ib < jb /\ jb < je /\ je < ie
         /\ ib < mb /\ mb <= me /\ me < ie
         /\ je <= mb \/ me <= jb
  BY <1>2, PlacesThen, Zenon
<1>4. PICK begin \in Nat : SecondRange = NewRange(begin, mb)
  BY <1>3, SecondPlace
<1>5. ~dest.has_error /\ dest.written = AfterJfif /\ built = "none"
  BY <1>1, <1>2, PlacesThen DEF IInv, Written, Holds
<1>6. AfterSecond' = AfterSecond
  BY <1>1, WrittenKept
<1>7. ASSUME stage' = "mpf", ~dest'.has_error, dest'.written = AfterSecond
      PROVE  Written'
  BY <1>1, <1>5, <1>6, <1>7 DEF Written, Holds
<1>8. CASE begin < mb
  <2>1. IsValid(SecondRange)
    BY <1>4, <1>8 DEF IsValid, NewRange
  <2>2. TransferFile("primary", length, NewRange(begin, mb), "mpf")
    BY <1>1, <1>3, <1>4, <2>1
  <2>3. ASSUME stage' = "mpf", ~dest'.has_error,
               dest'.written = dest.written \o Bytes("primary", NewRange(begin, mb))
        PROVE  Written'
    <3>1. dest'.written = AfterSecond
      BY <1>4, <1>5, <2>3 DEF AfterSecond
    <3> QED
      BY <1>7, <2>3, <3>1
  <2>4. /\ length = (IF "primary" = "primary" THEN primary.length ELSE depth.length)
        /\ ie = (IF "primary" = "primary" THEN primary.image.end ELSE depth.image.end)
        /\ "mpf" \in {"third", "image", "finish"} => stage \in {"third", "image"}
    BY <1>3 DEF NewRange
  <2>5. UNCHANGED <<files, jfif_delta, mpf, built>> /\ mb <= length /\ mb <= ie
    BY <1>1, <1>3
  <2>6. IsFileStep("primary", length, begin, mb, ie, "mpf")
    BY <1>2, <1>3, <1>4, <1>5, <1>8, <2>2, <2>3, <2>4, <2>5 DEF IsFileStep
  <2> QED
    BY <2>6, FileStep
<1>9. CASE ~(begin < mb)
  <2>1. ~IsValid(SecondRange)
    BY <1>4, <1>9 DEF IsValid, NewRange
  <2>2. stage' = "mpf" /\ sources' = sources /\ dest' = dest
    BY <1>1, <2>1
  <2>3. SecondRange \in DataRange
    BY <1>4 DEF NewRange, DataRange
  <2>4. dest.written \in Seq(FileBytes)
    BY DEF IInv, Types, OStreams
  <2>5. AfterSecond = dest.written
    BY <1>5, <2>1, <2>3, <2>4, NoBytes DEF AfterSecond
  <2>6. Written'
    BY <1>5, <1>7, <2>2, <2>5
  <2>7. NumbersAreRight'
    BY <1>1, <1>5, <2>2 DEF NumbersAreRight
  <2>8. SourcesFit'
    BY <1>1, <2>2 DEF IInv, SourcesFit, files
  <2>9. /\ dest' \in OStreams(FileBytes) /\ jfif_delta' \in {0, AmpfLength}
        /\ mpf' \in [primary_length : Nat, depth_length : Nat, depth_offset : Int]
    BY <1>1, <2>2 DEF IInv, Types
  <2>10. UNCHANGED <<files, built>>
    BY <1>1
  <2>11. Moved("mpf")
    BY <2>2, <2>6, <2>7, <2>8, <2>9, <2>10, Zenon DEF Moved
  <2> QED
    BY <1>2, <2>11, MovedKeeps
<1> QED
  BY <1>8, <1>9

LEMMA MpfStep ==
    ASSUME IInv, TransferNewMpfSegment
    PROVE  IInv'
<1>1. /\ stage = "mpf" /\ UNCHANGED files /\ jfif_delta' = jfif_delta
      /\ built' = built /\ mpf' = Numbers
      /\ TransferNew("mpf", MpfSegmentLength, "third")
  BY DEF TransferNewMpfSegment, Numbers
<1>2. stage \in Transferring /\ "third" \in Transferring
  BY <1>1 DEF Transferring
<1>3. PICK ib, ie, jb, je, mb, me, length \in Nat :
         /\ primary.length = length
         /\ primary.image = NewRange(ib, ie) /\ ie <= length
         /\ primary.jfif = NewRange(jb, je)
         /\ MpfPlace = NewRange(mb, me)
         /\ ib < jb /\ jb < je /\ je < ie
         /\ ib < mb /\ mb <= me /\ me < ie
         /\ je <= mb \/ me <= jb
  BY <1>2, PlacesThen, Zenon
<1>4. PICK delta \in Nat : delta = jfif_delta /\ delta \in {0, AmpfLength}
  BY SegmentsAssumption DEF IInv, Types
<1>5. ~dest.has_error /\ dest.written = AfterSecond /\ built = "none"
  BY <1>1, <1>2, PlacesThen DEF IInv, Written, Holds
<1>6. /\ AfterMpf' = AfterMpf /\ Numbers' = Numbers
  BY <1>1, WrittenKept
<1>7. ASSUME stage' = "third", ~dest'.has_error,
             dest'.written = dest.written \o Bytes("mpf", NewRange(0, MpfSegmentLength))
      PROVE  Written' /\ NumbersAreRight'
  <2>1. dest'.written = AfterMpf
    BY <1>5, <1>7 DEF AfterMpf
  <2> QED
    BY <1>1, <1>5, <1>6, <1>7, <2>1 DEF Written, Holds, NumbersAreRight
<1>8. MpfSegmentLength \in Nat /\ MpfSegmentLength > 0
  BY SegmentsAssumption DEF MpfHeaderLength
<1>9. mpf' \in [primary_length : Nat, depth_length : Nat, depth_offset : Int]
  <2>1. Length(primary.image) = ie - ib /\ Length(MpfPlace) = me - mb
    BY <1>3 DEF Length, IsValid, NewRange
  <2>2. PICK size \in Nat : size = PrimaryImageLength
    BY <1>3, <1>4, <1>8, <2>1 DEF PrimaryImageLength
  <2>3. PICK offset \in Int : offset = PrimaryImageLength - MpfPlace.begin - MpfHeaderLength
    BY <1>3, <2>2 DEF NewRange, MpfHeaderLength
  <2>4. PICK d \in Nat : d = Length(depth.image)
    BY FilesAssumption DEF IInv, FilesAreGiven, DepthFile, DataRange, Length, IsValid
  <2> QED
    BY <1>1, <2>2, <2>3, <2>4 DEF Numbers
<1>10. jfif_delta' \in {0, AmpfLength} /\ UNCHANGED <<files, built>>
  BY <1>1, <1>4
<1>11. IsNewStep("mpf", MpfSegmentLength, "third")
  BY <1>1, <1>2, <1>5, <1>7, <1>8, <1>9, <1>10 DEF IsNewStep
<1> QED
  BY <1>11, NewStep

LEMMA ThirdStep ==
    ASSUME IInv, TransferThird
    PROVE  IInv'
<1>1. /\ stage = "third" /\ UNCHANGED files /\ jfif_delta' = jfif_delta
      /\ mpf' = mpf /\ built' = built
      /\ IF IsValid(ThirdRange)
         THEN TransferFile("primary", primary.length, ThirdRange, "image")
         ELSE stage' = "failed" /\ UNCHANGED <<sources, dest>>
  BY DEF TransferThird
<1>2. stage \in Transferring /\ "image" \in Transferring
  BY <1>1 DEF Transferring
<1>3. PICK ib, ie, jb, je, mb, me, length \in Nat :
         /\ primary.length = length
         /\ primary.image = NewRange(ib, ie) /\ ie <= length
         /\ primary.jfif = NewRange(jb, je)
         /\ MpfPlace = NewRange(mb, me)
         /\ ib < jb /\ jb < je /\ je < ie
         /\ ib < mb /\ mb <= me /\ me < ie
         /\ je <= mb \/ me <= jb
  BY <1>2, PlacesThen, Zenon
<1>4. ThirdRange = NewRange(me, ie) /\ IsValid(ThirdRange)
  BY <1>3 DEF ThirdRange, NewRange, IsValid
<1>5. ~dest.has_error /\ dest.written = AfterMpf /\ built = "none"
  BY <1>1, <1>2, PlacesThen DEF IInv, Written, Holds
<1>6. AfterThird' = AfterThird
  BY <1>1, WrittenKept
<1>7. TransferFile("primary", length, NewRange(me, ie), "image")
  BY <1>1, <1>3, <1>4
<1>8. ASSUME stage' = "image", ~dest'.has_error,
             dest'.written = dest.written \o Bytes("primary", NewRange(me, ie))
      PROVE  Written'
  <2>1. dest'.written = AfterThird
    BY <1>4, <1>5, <1>8 DEF AfterThird
  <2> QED
    BY <1>1, <1>5, <1>6, <1>8, <2>1 DEF Written, Holds
<1>9. /\ length = (IF "primary" = "primary" THEN primary.length ELSE depth.length)
      /\ ie = (IF "primary" = "primary" THEN primary.image.end ELSE depth.image.end)
      /\ "image" \in {"third", "image", "finish"} => stage \in {"third", "image"}
  BY <1>1, <1>3 DEF NewRange
<1>10. UNCHANGED <<files, jfif_delta, mpf, built>> /\ ie <= ie
  BY <1>1, <1>3
<1>11. IsFileStep("primary", length, me, ie, ie, "image")
  BY <1>2, <1>3, <1>5, <1>7, <1>8, <1>9, <1>10 DEF IsFileStep
<1> QED
  BY <1>11, FileStep

LEMMA ImageStep ==
    ASSUME IInv, TransferDepthImage
    PROVE  IInv'
<1>1. /\ stage = "image" /\ UNCHANGED files /\ jfif_delta' = jfif_delta
      /\ mpf' = mpf /\ built' = built
      /\ TransferFile("depth", depth.length, depth.image, "finish")
  BY DEF TransferDepthImage
<1>2. stage \in Transferring /\ "finish" \in Transferring
  BY <1>1 DEF Transferring
<1>3. PICK begin, end, length \in Nat :
         /\ depth.image = NewRange(begin, end) /\ depth.length = length
         /\ begin < end /\ end <= length
  <2>1. depth \in DepthFile /\ depth.image.end <= depth.length /\ IsValid(depth.image)
    BY <1>2, PlacesThen, FilesAssumption, ImagesAssumption DEF IInv, FilesAreGiven
  <2>2. depth.image \in DataRange /\ depth.length \in Nat
    BY <2>1 DEF DepthFile
  <2>3. PICK begin \in Nat, end \in Nat : depth.image = NewRange(begin, end)
    BY <2>2 DEF DataRange, NewRange
  <2> QED
    BY <2>1, <2>2, <2>3 DEF IsValid, NewRange
<1>4. ~dest.has_error /\ dest.written = AfterThird /\ built = "none"
  BY <1>1, <1>2, PlacesThen DEF IInv, Written, Holds
<1>5. AfterImage' = AfterImage
  BY <1>1, WrittenKept
<1>6. TransferFile("depth", length, NewRange(begin, end), "finish")
  BY <1>1, <1>3
<1>7. ASSUME stage' = "finish", ~dest'.has_error,
             dest'.written = dest.written \o Bytes("depth", NewRange(begin, end))
      PROVE  Written'
  <2>1. dest'.written = AfterImage
    BY <1>3, <1>4, <1>7 DEF AfterImage
  <2> QED
    BY <1>1, <1>4, <1>5, <1>7, <2>1 DEF Written, Holds
<1>8. /\ length = (IF "depth" = "primary" THEN primary.length ELSE depth.length)
      /\ end = (IF "depth" = "primary" THEN primary.image.end ELSE depth.image.end)
      /\ "finish" \in {"third", "image", "finish"} => stage \in {"third", "image"}
  BY <1>1, <1>3 DEF NewRange
<1>9. UNCHANGED <<files, jfif_delta, mpf, built>> /\ end <= end
  BY <1>1, <1>3
<1>10. IsFileStep("depth", length, begin, end, end, "finish")
  BY <1>2, <1>3, <1>4, <1>6, <1>7, <1>8, <1>9 DEF IsFileStep
<1> QED
  BY <1>10, FileStep

LEMMA PrimaryDataStep ==
    ASSUME IInv, GetPrimaryImageData
    PROVE  IInv'
<1>1. PICK source \in AfterScan(primary.length) :
         sources' = [sources EXCEPT !["primary"] = source]
  BY Zenon DEF GetPrimaryImageData
<1>2. /\ stage = "primary" /\ UNCHANGED files /\ primary' = primary /\ depth' = depth
      /\ dest' = dest /\ jfif_delta' = jfif_delta /\ mpf' = mpf
      /\ \/ HasPrimaryData /\ stage' = "depth" /\ built' = built
         \/ ~HasPrimaryData /\ stage' = "returned" /\ built' = "false"
  BY DEF GetPrimaryImageData, GiveUp, files
<1>3. primary.length \in Nat
  BY FilesAssumption DEF IInv, FilesAreGiven, PrimaryFile
<1>4. IsSourceOf(source, "primary", primary.length)
  BY <1>3, ScannedIsSource
<1>5. SourcesFit'
  <2>1. /\ sources = [origin \in {"primary", "depth"} |-> sources[origin]]
        /\ IsSourceOf(sources["depth"], "depth", depth.length)
    BY Zenon DEF IInv, SourcesFit
  <2>2. /\ sources' = [origin \in {"primary", "depth"} |-> sources'[origin]]
        /\ sources'["primary"] = source /\ sources'["depth"] = sources["depth"]
    BY <1>1, <2>1
  <2> QED
    BY <1>2, <1>4, <2>1, <2>2 DEF SourcesFit
<1>6. built = "none" /\ Holds(<<>>)
  BY <1>2 DEF IInv, Types, Written
<1>7. HasPrimaryData' = HasPrimaryData
  BY <1>2, PlacesKept
<1>8. FilesAreGiven' /\ Types'
  BY <1>2, <1>6 DEF IInv, FilesAreGiven, Types, Stages
<1>9. DataIsThere'
  BY <1>2, <1>6, <1>7 DEF DataIsThere, Transferring
<1>10. Written'
  BY <1>2, <1>6 DEF Written, Holds
<1>11. NumbersAreRight'
  BY <1>2, <1>6 DEF NumbersAreRight
<1>12. FailuresHaveCauses'
  BY <1>2, <1>6, <1>7 DEF FailuresHaveCauses, Cause
<1> QED
  BY <1>5, <1>8, <1>9, <1>10, <1>11, <1>12, Zenon DEF IInv

LEMMA DepthDataStep ==
    ASSUME IInv, GetDepthImageData
    PROVE  IInv'
<1>1. PICK source \in AfterScan(depth.length) :
         sources' = [sources EXCEPT !["depth"] = source]
  BY Zenon DEF GetDepthImageData
<1>2. /\ stage = "depth" /\ UNCHANGED files /\ primary' = primary /\ depth' = depth
      /\ dest' = dest /\ jfif_delta' = jfif_delta /\ mpf' = mpf
      /\ \/ IsValid(depth.image) /\ stage' = "first" /\ built' = built
         \/ ~IsValid(depth.image) /\ stage' = "returned" /\ built' = "false"
  BY DEF GetDepthImageData, GiveUp, files
<1>3. depth.length \in Nat
  BY FilesAssumption DEF IInv, FilesAreGiven, DepthFile
<1>4. IsSourceOf(source, "depth", depth.length)
  BY <1>3, ScannedIsSource
<1>5. SourcesFit'
  <2>1. /\ sources = [origin \in {"primary", "depth"} |-> sources[origin]]
        /\ IsSourceOf(sources["primary"], "primary", primary.length)
    BY Zenon DEF IInv, SourcesFit
  <2>2. /\ sources' = [origin \in {"primary", "depth"} |-> sources'[origin]]
        /\ sources'["depth"] = source /\ sources'["primary"] = sources["primary"]
    BY <1>1, <2>1
  <2> QED
    BY <1>2, <1>4, <2>1, <2>2 DEF SourcesFit
<1>6. built = "none" /\ Holds(<<>>) /\ HasPrimaryData
  BY <1>2 DEF IInv, Types, Written, DataIsThere
<1>7. HasPrimaryData' = HasPrimaryData
  BY <1>2, PlacesKept
<1>8. FilesAreGiven' /\ Types'
  BY <1>2, <1>6 DEF IInv, FilesAreGiven, Types, Stages
<1>9. DataIsThere'
  BY <1>2, <1>6, <1>7 DEF DataIsThere, Transferring
<1>10. Written'
  BY <1>2, <1>6 DEF Written, Holds
<1>11. NumbersAreRight'
  BY <1>2, <1>6 DEF NumbersAreRight
<1>12. FailuresHaveCauses'
  BY <1>2, <1>6, <1>7 DEF FailuresHaveCauses, Cause
<1> QED
  BY <1>5, <1>8, <1>9, <1>10, <1>11, <1>12, Zenon DEF IInv

\* The steps after which nothing else has changed.
LEMMA RestKept ==
    ASSUME IInv, UNCHANGED <<files, sources, dest, jfif_delta, mpf>>
    PROVE  /\ FilesAreGiven' /\ SourcesFit'
           /\ HasPrimaryData' = HasPrimaryData /\ depth' = depth
           /\ Cause' = Cause /\ dest' = dest /\ mpf' = mpf /\ jfif_delta' = jfif_delta
           /\ AfterFirst' = AfterFirst /\ AfterJfif' = AfterJfif
           /\ AfterSecond' = AfterSecond /\ AfterMpf' = AfterMpf
           /\ AfterThird' = AfterThird /\ AfterImage' = AfterImage /\ Numbers' = Numbers
<1>1. /\ UNCHANGED files /\ primary' = primary /\ depth' = depth /\ sources' = sources
      /\ dest' = dest /\ mpf' = mpf /\ jfif_delta' = jfif_delta
  BY DEF files
<1>2. HasPrimaryData' = HasPrimaryData
  BY <1>1, PlacesKept
<1>3. Cause' = Cause
  BY <1>1, <1>2 DEF Cause
<1>4. FilesAreGiven' /\ SourcesFit'
  BY <1>1 DEF IInv, FilesAreGiven, SourcesFit
<1> QED
  BY <1>1, <1>2, <1>3, <1>4, WrittenKept

LEMMA ReturnStep ==
    ASSUME IInv, Return
    PROVE  IInv'
<1>1. /\ UNCHANGED <<files, sources, dest, jfif_delta, mpf>> /\ stage' = "returned"
      /\ \/ stage = "finish" /\ built' = "true"
         \/ stage = "failed" /\ built' = "false"
  BY DEF Return
<1>2. /\ HasPrimaryData' = HasPrimaryData /\ depth' = depth /\ Cause' = Cause
      /\ dest' = dest /\ mpf' = mpf /\ jfif_delta' = jfif_delta
      /\ AfterImage' = AfterImage /\ Numbers' = Numbers
      /\ FilesAreGiven' /\ SourcesFit'
  BY <1>1, RestKept
<1>3. Types'
  BY <1>1, <1>2 DEF IInv, Types, Stages
<1>4. DataIsThere'
  BY <1>1, <1>2 DEF IInv, DataIsThere, Transferring
<1>5. Written'
  BY <1>1, <1>2 DEF IInv, Written, Holds
<1>6. NumbersAreRight'
  BY <1>1, <1>2 DEF IInv, NumbersAreRight
<1>7. FailuresHaveCauses'
  BY <1>1, <1>2 DEF IInv, FailuresHaveCauses
<1> QED
  BY <1>2, <1>3, <1>4, <1>5, <1>6, <1>7, Zenon DEF IInv

LEMMA StutterStep ==
    ASSUME IInv, UNCHANGED vars
    PROVE  IInv'
<1>1. UNCHANGED <<files, sources, dest, jfif_delta, mpf>> /\ stage' = stage /\ built' = built
  BY DEF vars
<1>2. /\ HasPrimaryData' = HasPrimaryData /\ depth' = depth /\ Cause' = Cause
      /\ dest' = dest /\ mpf' = mpf /\ jfif_delta' = jfif_delta
      /\ AfterFirst' = AfterFirst /\ AfterJfif' = AfterJfif
      /\ AfterSecond' = AfterSecond /\ AfterMpf' = AfterMpf
      /\ AfterThird' = AfterThird /\ AfterImage' = AfterImage /\ Numbers' = Numbers
      /\ FilesAreGiven' /\ SourcesFit'
  BY <1>1, RestKept
<1>3. Types'
  BY <1>1, <1>2 DEF IInv, Types
<1>4. DataIsThere'
  BY <1>1, <1>2 DEF IInv, DataIsThere
<1>5. Written'
  BY <1>1, <1>2 DEF IInv, Written, Holds
<1>6. NumbersAreRight' /\ FailuresHaveCauses'
  BY <1>1, <1>2 DEF IInv, NumbersAreRight, FailuresHaveCauses
<1> QED
  BY <1>2, <1>3, <1>4, <1>5, <1>6, Zenon DEF IInv

LEMMA InitHolds == Init => IInv
<1> SUFFICES ASSUME Init
             PROVE  IInv
  OBVIOUS
<1>1. PICK room \in Rooms : dest = NewOStream(room)
  BY Zenon DEF Init
<1>2. /\ primary \in PrimaryFiles /\ depth \in DepthFiles /\ stage = "primary"
      /\ sources = [primary |-> NewIStream(primary.length, TRUE),
                    depth   |-> NewIStream(depth.length, TRUE)]
      /\ jfif_delta = 0 /\ mpf = NoNumbers /\ built = "none"
  BY Zenon DEF Init
<1>3. primary.length \in Nat /\ depth.length \in Nat
  BY <1>2, FilesAssumption DEF PrimaryFile, DepthFile
<1>4. room \in Nat
  BY BoundsAssumption
<1>5. /\ dest \in OStreams(FileBytes) /\ Holds(<<>>)
  <2>1. NewOStream(room) = AnOStream(<<>>, room, 0, FALSE)
    BY DEF NewOStream, AnOStream
  <2>2. <<>> \in Seq(FileBytes) /\ Len(<<>>) = 0
    BY EmptySeq
  <2>3. AnOStream(<<>>, room, 0, FALSE) \in OStreams(FileBytes)
    BY <1>4, <2>2 DEF OStreams, AnOStream
  <2> QED
    BY <1>1, <2>1, <2>3 DEF Holds, AnOStream
<1>6. Types
  BY <1>2, <1>5 DEF Types, Stages, NoNumbers
<1>7. ASSUME NEW origin \in {"primary", "depth"}, NEW length \in Nat
      PROVE  IsSourceOf(NewIStream(length, TRUE), origin, length)
  <2>1. Content(origin, length) \in Contents(length, FileBytes)
    BY ContentIsContents
  <2>2. PICK source : source = NewIStream(length, TRUE)
    OBVIOUS
  <2>3. /\ source \in DataSource /\ source.open /\ source.extent.end <= length
        /\ source.cached = NoSegment /\ source.kind = "istream"
    BY <2>2 DEF NewIStream, NewRange, DataSource, DataRange, DataSegment
  <2>4. ASSUME NEW range \in DataRange
        PROVE  HasContent(FileBytes, length, Content(origin, length), source, range)
    BY <2>1, <2>3 DEF HasContent, DataRange
  <2> QED
    BY <2>2, <2>3, <2>4 DEF IsSourceOf
<1>8. SourcesFit
  <2>1. /\ sources = [origin \in {"primary", "depth"} |-> sources[origin]]
        /\ sources["primary"] = NewIStream(primary.length, TRUE)
        /\ sources["depth"] = NewIStream(depth.length, TRUE)
    BY <1>2
  <2> QED
    BY <1>3, <1>7, <2>1 DEF SourcesFit
<1>9. /\ DataIsThere /\ Written /\ NumbersAreRight /\ FailuresHaveCauses
  BY <1>2, <1>5 DEF DataIsThere, Written, NumbersAreRight, FailuresHaveCauses, Transferring
<1> QED
  BY <1>2, <1>6, <1>8, <1>9 DEF IInv, FilesAreGiven

-----------------------------------------------------------------------------
(***************************************************************************)
(* Bytes without some of them.                                             *)
(***************************************************************************)
IsKept(f, bytes, leaving, n) ==
    f = [k \in 0 .. n |->
            IF k = 0 THEN <<>>
            ELSE IF bytes[k] \in leaving THEN f[k - 1] ELSE Append(f[k - 1], bytes[k])]

LEMMA KeptExists ==
    \A bytes, leaving : \A n \in Nat : \E f : IsKept(f, bytes, leaving, n)
<1> SUFFICES ASSUME NEW bytes, NEW leaving
             PROVE  \A n \in Nat : \E f : IsKept(f, bytes, leaving, n)
  OBVIOUS
<1> PICK T : T = {n \in Nat : \E f : IsKept(f, bytes, leaving, n)}
  OBVIOUS
<1>1. 0 \in T
  <2> PICK f : f = [k \in 0 .. 0 |-> <<>>]
    OBVIOUS
  <2>1. \A k : k \in 0 .. 0 => k = 0
    OBVIOUS
  <2>2. IsKept(f, bytes, leaving, 0)
    BY <2>1 DEF IsKept
  <2> QED
    BY <2>2
<1>2. ASSUME NEW n \in Nat, n \in T
      PROVE  n + 1 \in T
  <2>1. PICK f : IsKept(f, bytes, leaving, n)
    BY <1>2
  <2>2. PICK g : g = [k \in 0 .. n + 1 |->
                        IF k = 0 THEN <<>>
                        ELSE IF bytes[k] \in leaving THEN f[k - 1]
                                                     ELSE Append(f[k - 1], bytes[k])]
    OBVIOUS
  <2>3. ASSUME NEW k \in 0 .. n
        PROVE  g[k] = f[k]
    <3>1. k \in 0 .. n + 1
      OBVIOUS
    <3>2. g[k] = IF k = 0 THEN <<>>
                 ELSE IF bytes[k] \in leaving THEN f[k - 1]
                                              ELSE Append(f[k - 1], bytes[k])
      BY <2>2, <3>1
    <3>3. f[k] = IF k = 0 THEN <<>>
                 ELSE IF bytes[k] \in leaving THEN f[k - 1]
                                              ELSE Append(f[k - 1], bytes[k])
      BY <2>1 DEF IsKept
    <3> QED
      BY <3>2, <3>3
  <2>4. \A k \in 0 .. n + 1 : k # 0 => g[k - 1] = f[k - 1]
    BY <2>3
  <2>5. IsKept(g, bytes, leaving, n + 1)
    BY <2>2, <2>4 DEF IsKept
  <2> QED
    BY <2>5
<1>3. \A n \in Nat : n \in T
  BY <1>1, <1>2, Loop!NatSetInduction
<1> QED
  BY <1>3

LEMMA KeptAgree ==
    \A f, g, s, t, leaving : \A n, m \in Nat :
        /\ IsKept(f, s, leaving, n) /\ IsKept(g, t, leaving, m) /\ n <= m
        /\ \A i \in 1 .. n : t[i] = s[i]
        => g[n] = f[n]
<1> SUFFICES ASSUME NEW f, NEW g, NEW s, NEW t, NEW leaving,
                    NEW n \in Nat, NEW m \in Nat,
                    IsKept(f, s, leaving, n), IsKept(g, t, leaving, m), n <= m,
                    \A i \in 1 .. n : t[i] = s[i]
             PROVE  g[n] = f[n]
  OBVIOUS
<1>f. \A k \in 0 .. n : f[k] = IF k = 0 THEN <<>>
                               ELSE IF s[k] \in leaving THEN f[k - 1]
                                                        ELSE Append(f[k - 1], s[k])
  BY DEF IsKept
<1>g. \A k \in 0 .. m : g[k] = IF k = 0 THEN <<>>
                               ELSE IF t[k] \in leaving THEN g[k - 1]
                                                        ELSE Append(g[k - 1], t[k])
  BY DEF IsKept
<1> PICK T : T = {k \in Nat : k <= n => g[k] = f[k]}
  OBVIOUS
<1>1. 0 \in T
  <2>1. 0 \in 0 .. n /\ 0 \in 0 .. m
    OBVIOUS
  <2>2. f[0] = <<>> /\ g[0] = <<>>
    BY <1>f, <1>g, <2>1
  <2> QED
    BY <2>2
<1>2. ASSUME NEW k \in Nat, k \in T
      PROVE  k + 1 \in T
  <2> SUFFICES ASSUME k + 1 <= n
               PROVE  g[k + 1] = f[k + 1]
    OBVIOUS
  <2>i. PICK i \in 1 .. n : i = k + 1
    OBVIOUS
  <2>1. i # 0 /\ i - 1 = k /\ i \in 0 .. n /\ i \in 0 .. m /\ k <= n
    BY <2>i
  <2>2. g[k] = f[k]
    BY <1>2, <2>1
  <2>3. f[i] = IF s[i] \in leaving THEN f[i - 1] ELSE Append(f[i - 1], s[i])
    BY <1>f, <2>1
  <2>4. g[i] = IF t[i] \in leaving THEN g[i - 1] ELSE Append(g[i - 1], t[i])
    BY <1>g, <2>1
  <2>5. t[i] = s[i]
    OBVIOUS
  <2>6. g[i] = f[i]
    BY <2>1, <2>2, <2>3, <2>4, <2>5
  <2> QED
    BY <2>6, <2>i
<1>3. n \in T
  BY <1>1, <1>2, Loop!NatSetInduction
<1> QED
  BY <1>3

LEMMA WithoutIsKept ==
    \A S, leaving : \A bytes \in Seq(S) :
        \E f : IsKept(f, bytes, leaving, Len(bytes)) /\ Without(bytes, leaving) = f[Len(bytes)]
<1> SUFFICES ASSUME NEW S, NEW leaving, NEW bytes \in Seq(S)
             PROVE  \E f : /\ IsKept(f, bytes, leaving, Len(bytes))
                           /\ Without(bytes, leaving) = f[Len(bytes)]
  OBVIOUS
<1>1. Len(bytes) \in Nat
  BY LenProperties
<1>2. \E f : f = [k \in 0 .. Len(bytes) |->
                     IF k = 0 THEN <<>>
                     ELSE IF bytes[k] \in leaving THEN f[k - 1]
                                                  ELSE Append(f[k - 1], bytes[k])]
  <2>1. PICK f : IsKept(f, bytes, leaving, Len(bytes))
    BY <1>1, KeptExists
  <2> QED
    BY <2>1 DEF IsKept
<1> PICK f : f = CHOOSE h : h = [k \in 0 .. Len(bytes) |->
                     IF k = 0 THEN <<>>
                     ELSE IF bytes[k] \in leaving THEN h[k - 1]
                                                  ELSE Append(h[k - 1], bytes[k])]
  OBVIOUS
<1>3. f = [k \in 0 .. Len(bytes) |->
                     IF k = 0 THEN <<>>
                     ELSE IF bytes[k] \in leaving THEN f[k - 1]
                                                  ELSE Append(f[k - 1], bytes[k])]
  BY <1>2
<1>4. Without(bytes, leaving) = f[Len(bytes)]
  BY DEF Without
<1>5. IsKept(f, bytes, leaving, Len(bytes))
  BY <1>3 DEF IsKept
<1> QED
  BY <1>4, <1>5

LEMMA WithoutNothing == \A leaving : Without(<<>>, leaving) = <<>>
<1> SUFFICES ASSUME NEW leaving
             PROVE  Without(<<>>, leaving) = <<>>
  OBVIOUS
<1>1. <<>> \in Seq({}) /\ Len(<<>>) = 0
  BY EmptySeq
<1>2. PICK f : IsKept(f, <<>>, leaving, 0) /\ Without(<<>>, leaving) = f[0]
  <2>1. PICK f : /\ IsKept(f, <<>>, leaving, Len(<<>>))
                 /\ Without(<<>>, leaving) = f[Len(<<>>)]
    BY <1>1, WithoutIsKept
  <2> QED
    BY <1>1, <2>1, Zenon
<1>3. 0 \in 0 .. 0
  OBVIOUS
<1>4. f[0] = <<>>
  BY <1>2, <1>3 DEF IsKept
<1> QED
  BY <1>2, <1>4

\* One more byte.
LEMMA WithoutNext ==
    \A S, leaving : \A bytes \in Seq(S), byte \in S :
        Without(Append(bytes, byte), leaving)
            = IF byte \in leaving THEN Without(bytes, leaving)
                                  ELSE Append(Without(bytes, leaving), byte)
<1> SUFFICES ASSUME NEW S, NEW leaving, NEW bytes \in Seq(S), NEW byte \in S
             PROVE  Without(Append(bytes, byte), leaving)
                       = IF byte \in leaving THEN Without(bytes, leaving)
                                             ELSE Append(Without(bytes, leaving), byte)
  OBVIOUS
<1>t. PICK t : t = Append(bytes, byte)
  OBVIOUS
<1>n. PICK n \in Nat : n = Len(bytes)
  BY LenProperties
<1>m. PICK m \in Nat : m = n + 1
  OBVIOUS
<1>1. /\ t \in Seq(S) /\ Len(t) = m /\ t[m] = byte
      /\ \A i \in 1 .. n : t[i] = bytes[i]
  BY <1>t, <1>n, <1>m
<1>2. PICK g : IsKept(g, t, leaving, m) /\ Without(t, leaving) = g[m]
  <2>1. PICK g : IsKept(g, t, leaving, Len(t)) /\ Without(t, leaving) = g[Len(t)]
    BY <1>1, WithoutIsKept
  <2> QED
    BY <1>1, <2>1, Zenon
<1>3. PICK f : IsKept(f, bytes, leaving, n) /\ Without(bytes, leaving) = f[n]
  <2>1. PICK f : IsKept(f, bytes, leaving, Len(bytes))
                   /\ Without(bytes, leaving) = f[Len(bytes)]
    BY WithoutIsKept
  <2> QED
    BY <1>n, <2>1, Zenon
<1>4. g[n] = f[n]
  BY <1>1, <1>2, <1>3, <1>m, KeptAgree
<1>5. m \in 0 .. m /\ m # 0 /\ m - 1 = n
  BY <1>m
<1>6. g[m] = IF t[m] \in leaving THEN g[m - 1] ELSE Append(g[m - 1], t[m])
  BY <1>2, <1>5 DEF IsKept
<1> QED
  BY <1>1, <1>2, <1>3, <1>4, <1>5, <1>6, <1>t

LEMMA WithoutType ==
    \A S, leaving : \A bytes \in Seq(S) : Without(bytes, leaving) \in Seq(S)
<1> SUFFICES ASSUME NEW S, NEW leaving
             PROVE  \A bytes \in Seq(S) : Without(bytes, leaving) \in Seq(S)
  OBVIOUS
<1> PICK T : T = {bytes \in Seq(S) : Without(bytes, leaving) \in Seq(S)}
  OBVIOUS
<1>1. <<>> \in T
  BY WithoutNothing, EmptySeq
<1>2. ASSUME NEW bytes \in Seq(S), NEW byte \in S, bytes \in T
      PROVE  Append(bytes, byte) \in T
  BY <1>2, WithoutNext, AppendProperties
<1> QED
  BY <1>1, <1>2, Loop!SeqSetInduction

\* Of bytes behind others.
LEMMA WithoutConcat ==
    \A S, leaving : \A s, t \in Seq(S) :
        Without(s \o t, leaving) = Without(s, leaving) \o Without(t, leaving)
<1> SUFFICES ASSUME NEW S, NEW leaving, NEW s \in Seq(S)
             PROVE  \A t \in Seq(S) :
                       Without(s \o t, leaving) = Without(s, leaving) \o Without(t, leaving)
  OBVIOUS
<1> PICK T : T = {t \in Seq(S) :
                    Without(s \o t, leaving) = Without(s, leaving) \o Without(t, leaving)}
  OBVIOUS
<1>1. <<>> \in T
  BY WithoutNothing, WithoutType, ConcatEmptySeq, EmptySeq
<1>2. ASSUME NEW t \in Seq(S), NEW e \in S, t \in T
      PROVE  Append(t, e) \in T
  <2>1. s \o Append(t, e) = Append(s \o t, e) /\ s \o t \in Seq(S)
    BY AppendIsConcat, ConcatAssociative, ConcatProperties
  <2>2. PICK a \in Seq(S) : a = Without(s, leaving)
    BY WithoutType
  <2>3. PICK b \in Seq(S) : b = Without(t, leaving)
    BY WithoutType
  <2>4. PICK ab \in Seq(S) : ab = a \o b /\ Without(s \o t, leaving) = ab
    BY <1>2, <2>2, <2>3, ConcatProperties
  <2>5. Without(Append(s \o t, e), leaving) = IF e \in leaving THEN ab ELSE Append(ab, e)
    <3>1. PICK st \in Seq(S) : st = s \o t
      BY <2>1
    <3>2. Without(Append(st, e), leaving)
             = IF e \in leaving THEN Without(st, leaving)
                                ELSE Append(Without(st, leaving), e)
      BY WithoutNext
    <3> QED
      BY <2>4, <3>1, <3>2
  <2>6. Without(Append(t, e), leaving) = IF e \in leaving THEN b ELSE Append(b, e)
    BY <2>3, WithoutNext
  <2>7. Append(ab, e) = a \o Append(b, e)
    <3>1. Append(b, e) = b \o <<e>> /\ <<e>> \in Seq(S) /\ Append(ab, e) = ab \o <<e>>
      BY AppendIsConcat
    <3>2. (a \o b) \o <<e>> = a \o (b \o <<e>>)
      BY <3>1, ConcatAssociative
    <3> QED
      BY <2>4, <3>1, <3>2
  <2>8. Append(t, e) \in Seq(S)
    BY AppendProperties
  <2> QED
    BY <2>1, <2>2, <2>4, <2>5, <2>6, <2>7, <2>8
<1> QED
  BY <1>1, <1>2, Loop!SeqSetInduction

\* Bytes that all leave, or all stay.
LEMMA WithoutAll ==
    \A S, leaving : S \subseteq leaving =>
        \A bytes \in Seq(S) : Without(bytes, leaving) = <<>>
<1> SUFFICES ASSUME NEW S, NEW leaving, S \subseteq leaving
             PROVE  \A bytes \in Seq(S) : Without(bytes, leaving) = <<>>
  OBVIOUS
<1> PICK T : T = {bytes \in Seq(S) : Without(bytes, leaving) = <<>>}
  OBVIOUS
<1>1. <<>> \in T
  BY WithoutNothing, EmptySeq
<1>2. ASSUME NEW bytes \in Seq(S), NEW byte \in S, bytes \in T
      PROVE  Append(bytes, byte) \in T
  BY <1>2, WithoutNext, AppendProperties
<1> QED
  BY <1>1, <1>2, Loop!SeqSetInduction

LEMMA WithoutNone ==
    \A S, leaving : (\A e \in S : e \notin leaving) =>
        \A bytes \in Seq(S) : Without(bytes, leaving) = bytes
<1> SUFFICES ASSUME NEW S, NEW leaving, \A e \in S : e \notin leaving
             PROVE  \A bytes \in Seq(S) : Without(bytes, leaving) = bytes
  OBVIOUS
<1> PICK T : T = {bytes \in Seq(S) : Without(bytes, leaving) = bytes}
  OBVIOUS
<1>1. <<>> \in T
  BY WithoutNothing, EmptySeq
<1>2. ASSUME NEW bytes \in Seq(S), NEW byte \in S, bytes \in T
      PROVE  Append(bytes, byte) \in T
  BY <1>2, WithoutNext, AppendProperties
<1>3. \A bytes \in Seq(S) : bytes \in T
  BY <1>1, <1>2, Loop!SeqSetInduction
<1> QED
  BY <1>3

-----------------------------------------------------------------------------
(***************************************************************************)
(* What the files are made of when all has been written.                   *)
(***************************************************************************)
\* The bytes that come from somewhere else, and the first byte of an origin.
NotFrom(origin) == {byte \in FileBytes : Origin(byte) # origin}

IsFirst(bytes, origin, k) ==
    /\ bytes \in Seq(FileBytes) /\ k \in Nat /\ k < Len(bytes)
    /\ Origin(bytes[k + 1]) = origin
    /\ \A n \in 1 .. k : Origin(bytes[n]) # origin

LEMMA FirstMade ==
    ASSUME NEW origin \in {"primary", "depth", "jfif", "mpf"},
           NEW front \in Seq(NotFrom(origin)), NEW range \in DataRange, IsValid(range)
    PROVE  IsFirst(front \o Bytes(origin, range), origin, Len(front))
<1>1. PICK b \in Seq(FileBytes) : b = Bytes(origin, range) /\ Len(b) = Length(range)
  BY BytesType
<1>2. PICK k \in Nat, m \in Nat : k = Len(front) /\ m = Len(b) /\ m > 0
  <2>1. range.end - range.begin \in Nat /\ range.end - range.begin > 0
    BY DEF IsValid, DataRange
  <2> QED
    BY <1>1, <2>1, LenProperties DEF Length
<1>3. b[1] = <<origin, range.begin>>
  <2>1. PICK begin \in Nat : begin = range.begin
    BY DEF DataRange
  <2>2. 1 \in 1 .. Length(range) /\ begin + 1 - 1 = begin
    BY <1>1, <1>2
  <2> QED
    BY <1>1, <2>1, <2>2 DEF Bytes
<1>4. Origin(b[1]) = origin
  BY <1>3 DEF Origin
<1>5. front \in Seq(FileBytes)
  BY DEF NotFrom
<1>6. PICK w \in Seq(FileBytes) : w = front \o b /\ Len(w) = k + m
  BY <1>1, <1>2, <1>5, ConcatProperties
<1>7. w[k + 1] = b[1]
  BY <1>1, <1>2, <1>5, <1>6, ConcatProperties
<1>8. ASSUME NEW n \in 1 .. k
      PROVE  Origin(w[n]) # origin
  <2>1. w[n] = front[n]
    BY <1>1, <1>2, <1>5, <1>6, ConcatProperties
  <2>2. front[n] \in NotFrom(origin)
    BY <1>2, ElementOfSeq
  <2> QED
    BY <2>1, <2>2 DEF NotFrom
<1>9. k < Len(w)
  BY <1>2, <1>6
<1>10. IsFirst(w, origin, k)
  BY <1>4, <1>7, <1>8, <1>9 DEF IsFirst
<1> QED
  BY <1>1, <1>2, <1>6, <1>10

LEMMA FirstKept ==
    ASSUME NEW origin, NEW k, NEW bytes, IsFirst(bytes, origin, k), NEW more \in Seq(FileBytes)
    PROVE  IsFirst(bytes \o more, origin, k)
<1>1. /\ bytes \in Seq(FileBytes) /\ k \in Nat /\ k < Len(bytes)
      /\ Origin(bytes[k + 1]) = origin
      /\ \A n \in 1 .. k : Origin(bytes[n]) # origin
  BY DEF IsFirst
<1>2. PICK l \in Nat, m \in Nat : l = Len(bytes) /\ m = Len(more)
  BY <1>1, LenProperties
<1>3. PICK w \in Seq(FileBytes) : w = bytes \o more /\ Len(w) = l + m
  BY <1>1, <1>2, ConcatProperties
<1>4. ASSUME NEW n \in 1 .. l
      PROVE  w[n] = bytes[n]
  BY <1>1, <1>2, <1>3, ConcatProperties
<1>5. k < Len(w) /\ k + 1 \in 1 .. l /\ \A n \in 1 .. k : n \in 1 .. l
  BY <1>1, <1>2, <1>3
<1>6. IsFirst(w, origin, k)
  BY <1>1, <1>4, <1>5 DEF IsFirst
<1> QED
  BY <1>3, <1>6

LEMMA FirstFound ==
    ASSUME NEW origin, NEW k, IsFirst(dest.written, origin, k)
    PROVE  FirstOf(origin) = k
<1>1. PICK s : s = {n \in 1 .. Len(dest.written) : Origin(dest.written[n]) = origin}
  OBVIOUS
<1>2. k \in Nat /\ Len(dest.written) \in Nat
  BY LenProperties DEF IsFirst
<1>3. k + 1 \in s
  BY <1>1, <1>2 DEF IsFirst
<1>4. \A n \in s : n \in Nat /\ k + 1 <= n
  <2> TAKE n \in s
  <2>1. n \in 1 .. Len(dest.written) /\ Origin(dest.written[n]) = origin
    BY <1>1
  <2>2. n \notin 1 .. k
    BY <2>1 DEF IsFirst
  <2> QED
    BY <1>2, <2>1, <2>2
<1>5. Min(s) = k + 1
  BY <1>2, <1>3, <1>4 DEF Min
<1>6. FirstOf(origin) = Min(s) - 1
  BY <1>1 DEF FirstOf
<1> QED
  BY <1>2, <1>5, <1>6

\* Bytes of one origin are not from another one.
LEMMA BytesFrom ==
    ASSUME NEW origin \in {"primary", "depth", "jfif", "mpf"}, NEW range \in DataRange,
           NEW other, other # origin
    PROVE  Bytes(origin, range) \in Seq(NotFrom(other))
<1>1. PICK begin \in Nat : begin = range.begin
  BY DEF DataRange
<1>2. PICK m \in Nat : m = Length(range)
  BY DEF Length, IsValid, DataRange
<1>3. \A n \in 1 .. m : <<origin, begin + n - 1>> \in NotFrom(other)
  BY DEF FileBytes, NotFrom, Origin
<1>4. [n \in 1 .. m |-> <<origin, begin + n - 1>>] \in Seq(NotFrom(other))
  BY <1>3, IsASeq
<1> QED
  BY <1>1, <1>2, <1>4 DEF Bytes

\* Bytes of the primary image are outside of a range, or in it.
Outside(range) == {byte \in FileBytes : byte \notin {"primary"} \X Places(range)}

LEMMA BytesOutside ==
    ASSUME NEW origin \in {"primary", "depth", "jfif", "mpf"}, NEW range \in DataRange,
           NEW other \in DataRange,
           \/ origin # "primary" \/ ~IsValid(other)
           \/ range.end <= other.begin \/ other.end <= range.begin
    PROVE  Bytes(origin, range) \in Seq(Outside(other))
<1>1. PICK begin \in Nat, end \in Nat : begin = range.begin /\ end = range.end
  BY DEF DataRange
<1>2. PICK b \in Nat, e \in Nat : b = other.begin /\ e = other.end
  BY DEF DataRange
<1>3. PICK m \in Nat : m = Length(range) /\ (m > 0 => begin + m = end)
  BY <1>1 DEF Length, IsValid
<1>4. ASSUME NEW n \in 1 .. m
      PROVE  <<origin, begin + n - 1>> \in Outside(other)
  <2>1. begin + n - 1 \in Nat /\ begin <= begin + n - 1 /\ begin + n - 1 < end
    BY <1>3
  <2>2. origin # "primary" \/ begin + n - 1 \notin b .. e - 1
    BY <1>1, <1>2, <2>1 DEF IsValid
  <2> QED
    BY <1>2, <2>1, <2>2 DEF Outside, Places, FileBytes
<1>5. [n \in 1 .. m |-> <<origin, begin + n - 1>>] \in Seq(Outside(other))
  BY <1>4, IsASeq
<1> QED
  BY <1>1, <1>3, <1>5 DEF Bytes

LEMMA BytesInside ==
    ASSUME NEW range \in DataRange, NEW other \in DataRange,
           other.begin <= range.begin, range.end <= other.end
    PROVE  Bytes("primary", range) \in Seq({"primary"} \X Places(other))
<1>1. PICK begin \in Nat, end \in Nat : begin = range.begin /\ end = range.end
  BY DEF DataRange
<1>2. PICK b \in Nat, e \in Nat : b = other.begin /\ e = other.end
  BY DEF DataRange
<1>3. PICK m \in Nat : m = Length(range) /\ (m > 0 => begin + m = end)
  BY <1>1 DEF Length, IsValid
<1>4. ASSUME NEW n \in 1 .. m
      PROVE  <<"primary", begin + n - 1>> \in {"primary"} \X Places(other)
  <2>1. begin + n - 1 \in b .. e - 1
    BY <1>1, <1>2, <1>3
  <2> QED
    BY <1>2, <2>1 DEF Places
<1>5. [n \in 1 .. m |-> <<"primary", begin + n - 1>>] \in Seq({"primary"} \X Places(other))
  BY <1>4, IsASeq
<1> QED
  BY <1>1, <1>3, <1>5 DEF Bytes

\* The end of a run that succeeds.
LEMMA AtTheEnd ==
    ASSUME IInv, built = "true"
    PROVE  /\ HasPrimaryData /\ IsValid(depth.image) /\ depth.image \in DataRange
           /\ dest.written = AfterImage /\ mpf = Numbers
           /\ jfif_delta \in Nat /\ MpfSegmentLength \in Nat /\ MpfSegmentLength > 0
           /\ \E ib, ie, jb, je, mb, me, length \in Nat :
                /\ primary.length = length
                /\ primary.image = NewRange(ib, ie) /\ ie <= length
                /\ primary.jfif = NewRange(jb, je)
                /\ MpfPlace = NewRange(mb, me)
                /\ ib < jb /\ jb < je /\ je < ie
                /\ ib < mb /\ mb <= me /\ me < ie
                /\ je <= mb \/ me <= jb
<1>1. FilesAreGiven /\ HasPrimaryData /\ IsValid(depth.image)
  BY Zenon DEF IInv, DataIsThere
<1>2. depth.image \in DataRange
  BY <1>1, FilesAssumption DEF FilesAreGiven, DepthFile
<1>3. dest.written = AfterImage /\ mpf = Numbers
  BY Zenon DEF IInv, Written, Holds, NumbersAreRight
<1>4. jfif_delta \in Nat /\ MpfSegmentLength \in Nat /\ MpfSegmentLength > 0
  BY SegmentsAssumption DEF IInv, Types, MpfHeaderLength
<1> QED
  BY <1>1, <1>2, <1>3, <1>4, SegmentPlaces, Zenon

\* The new JFIF segment is where the old one was, which is gone (JfifIsReplaced).
LEMMA JfifThere ==
    ASSUME IInv
    PROVE  JfifIsReplaced
<1> SUFFICES ASSUME built = "true", JfifFirst
             PROVE  /\ \A n \in 1 .. Len(dest.written) : dest.written[n] \notin OldJfif
                    /\ FirstOf("jfif") = primary.jfif.begin
  BY DEF JfifIsReplaced
<1>1. /\ depth.image \in DataRange /\ dest.written = AfterImage
      /\ jfif_delta \in Nat /\ MpfSegmentLength \in Nat
  BY AtTheEnd
<1>2. PICK ib, ie, jb, je, mb, me, length \in Nat :
        /\ primary.length = length
        /\ primary.image = NewRange(ib, ie) /\ ie <= length
        /\ primary.jfif = NewRange(jb, je)
        /\ MpfPlace = NewRange(mb, me)
        /\ ib < jb /\ jb < je /\ je < ie
        /\ ib < mb /\ mb <= me /\ me < ie
        /\ je <= mb \/ me <= jb
  BY AtTheEnd, Zenon
<1>3. je <= mb
  BY <1>2 DEF JfifFirst, NewRange
<1>4. FirstEnd = jb /\ SecondRange = NewRange(je, mb) /\ ThirdRange = NewRange(me, ie)
  <2>1. FirstEnd = jb /\ ThirdRange = NewRange(me, ie)
    BY <1>2, <1>3 DEF FirstEnd, ThirdRange, Smaller, NewRange
  <2>2. SecondRange = NewRange(je, mb)
    BY <1>2, <1>3, SecondPlace
  <2> QED
    BY <2>1, <2>2
<1>5. PICK size \in Nat : size = Length(primary.jfif) + jfif_delta /\ size > 0
  <2>1. Length(primary.jfif) = je - jb
    BY <1>2 DEF Length, IsValid, NewRange
  <2> QED
    BY <1>1, <1>2, <2>1
<1>6. /\ NewRange(0, jb) \in DataRange /\ NewRange(0, size) \in DataRange
      /\ NewRange(je, mb) \in DataRange /\ NewRange(0, MpfSegmentLength) \in DataRange
      /\ NewRange(me, ie) \in DataRange /\ primary.jfif \in DataRange
      /\ NewRange(0, jb).end <= primary.jfif.begin
      /\ primary.jfif.end <= NewRange(je, mb).begin
      /\ primary.jfif.end <= NewRange(me, ie).begin
  BY <1>1, <1>2, <1>3, <1>5 DEF NewRange, DataRange
<1>7. PICK a : a = Bytes("primary", NewRange(0, jb))
  OBVIOUS
<1>8. PICK j : j = Bytes("jfif", NewRange(0, size))
  OBVIOUS
<1>9. PICK s : s = Bytes("primary", NewRange(je, mb))
  OBVIOUS
<1>10. PICK m : m = Bytes("mpf", NewRange(0, MpfSegmentLength))
  OBVIOUS
<1>11. PICK t : t = Bytes("primary", NewRange(me, ie))
  OBVIOUS
<1>12. PICK d : d = Bytes("depth", depth.image)
  OBVIOUS
<1>13. dest.written = ((((a \o j) \o s) \o m) \o t) \o d
  BY <1>1, <1>4, <1>5, <1>7, <1>8, <1>9, <1>10, <1>11, <1>12
     DEF AfterImage, AfterThird, AfterMpf, AfterSecond, AfterJfif, AfterFirst
<1>14. \A n \in 1 .. Len(dest.written) : dest.written[n] \notin OldJfif
  <2>1. PICK Q : Q = Outside(primary.jfif)
    OBVIOUS
  <2>2. a \in Seq(Q) /\ s \in Seq(Q) /\ t \in Seq(Q)
    BY <1>6, <1>7, <1>9, <1>11, <2>1, BytesOutside
  <2>3. j \in Seq(Q) /\ m \in Seq(Q) /\ d \in Seq(Q)
    BY <1>1, <1>6, <1>8, <1>10, <1>12, <2>1, BytesOutside
  <2>4. dest.written \in Seq(Q)
    <3>1. \A x, y \in Seq(Q) : x \o y \in Seq(Q)
      BY ConcatProperties
    <3>2. (a \o j) \o s \in Seq(Q)
      BY <2>2, <2>3, <3>1
    <3>3. (((a \o j) \o s) \o m) \o t \in Seq(Q)
      BY <2>2, <2>3, <3>1, <3>2
    <3> QED
      BY <1>13, <2>3, <3>1, <3>3
  <2>5. \A n \in 1 .. Len(dest.written) : dest.written[n] \in Q
    BY <2>4, ElementOfSeq
  <2> QED
    BY <2>1, <2>5 DEF Outside, OldJfif
<1>15. FirstOf("jfif") = jb
  <2>1. a \in Seq(NotFrom("jfif")) /\ Len(a) = jb
    <3>1. Bytes("primary", NewRange(0, jb)) \in Seq(NotFrom("jfif"))
      BY <1>6, BytesFrom
    <3>2. Len(Bytes("primary", NewRange(0, jb))) = Length(NewRange(0, jb))
      BY <1>6, BytesType
    <3>3. Length(NewRange(0, jb)) = jb
      BY DEF Length, IsValid, NewRange
    <3> QED
      BY <1>7, <3>1, <3>2, <3>3
  <2>2. IsFirst(a \o j, "jfif", jb)
    <3>1. IsValid(NewRange(0, size))
      BY <1>5 DEF IsValid, NewRange
    <3>2. IsFirst(a \o Bytes("jfif", NewRange(0, size)), "jfif", Len(a))
      BY <1>6, <2>1, <3>1, FirstMade
    <3> QED
      BY <1>8, <2>1, <3>2
  <2>3. /\ s \in Seq(FileBytes) /\ m \in Seq(FileBytes)
        /\ t \in Seq(FileBytes) /\ d \in Seq(FileBytes)
    BY <1>1, <1>6, <1>9, <1>10, <1>11, <1>12, BytesType
  <2>4. IsFirst((a \o j) \o s, "jfif", jb)
    BY <2>2, <2>3, FirstKept
  <2>5. IsFirst(((a \o j) \o s) \o m, "jfif", jb)
    BY <2>3, <2>4, FirstKept
  <2>6. IsFirst((((a \o j) \o s) \o m) \o t, "jfif", jb)
    BY <2>3, <2>5, FirstKept
  <2>7. IsFirst(((((a \o j) \o s) \o m) \o t) \o d, "jfif", jb)
    BY <2>3, <2>6, FirstKept
  <2> QED
    BY <1>13, <2>7, FirstFound
<1> QED
  BY <1>2, <1>14, <1>15 DEF NewRange

\* The MPF segment gives the length of all in front of the depth image
\* (PrimaryLengthIsRight).
LEMMA LengthThere ==
    ASSUME IInv
    PROVE  PrimaryLengthIsRight
<1> SUFFICES ASSUME built = "true", JfifFirst, primary.image.begin = 0
             PROVE  FirstOf("depth") = mpf.primary_length
  BY DEF PrimaryLengthIsRight
<1>1. /\ depth.image \in DataRange /\ IsValid(depth.image) /\ dest.written = AfterImage
      /\ mpf = Numbers /\ jfif_delta \in Nat /\ MpfSegmentLength \in Nat
  BY AtTheEnd
<1>2. PICK ib, ie, jb, je, mb, me, length \in Nat :
        /\ primary.length = length
        /\ primary.image = NewRange(ib, ie) /\ ie <= length
        /\ primary.jfif = NewRange(jb, je)
        /\ MpfPlace = NewRange(mb, me)
        /\ ib < jb /\ jb < je /\ je < ie
        /\ ib < mb /\ mb <= me /\ me < ie
        /\ je <= mb \/ me <= jb
  BY AtTheEnd, Zenon
<1>3. je <= mb /\ ib = 0
  BY <1>2 DEF JfifFirst, NewRange
<1>4. FirstEnd = jb /\ SecondRange = NewRange(je, mb) /\ ThirdRange = NewRange(me, ie)
  <2>1. FirstEnd = jb /\ ThirdRange = NewRange(me, ie)
    BY <1>2, <1>3 DEF FirstEnd, ThirdRange, Smaller, NewRange
  <2>2. SecondRange = NewRange(je, mb)
    BY <1>2, <1>3, SecondPlace
  <2> QED
    BY <2>1, <2>2
<1>5. PICK delta \in Nat, k \in Nat : delta = jfif_delta /\ k = MpfSegmentLength
  BY <1>1
<1>6. /\ Length(primary.jfif) = je - jb /\ Length(primary.image) = ie
      /\ Length(MpfPlace) = me - mb
  BY <1>2, <1>3 DEF Length, IsValid, NewRange
<1>7. PICK size \in Nat : size = je - jb + delta
  BY <1>2
<1>8. mpf.primary_length = ie + delta - (me - mb) + k
  BY <1>1, <1>5, <1>6 DEF Numbers, PrimaryImageLength
<1>9. ASSUME NEW origin \in {"primary", "jfif", "mpf"}, NEW begin \in Nat, NEW end \in Nat,
             begin <= end
      PROVE  /\ Bytes(origin, NewRange(begin, end)) \in Seq(NotFrom("depth"))
             /\ Len(Bytes(origin, NewRange(begin, end))) = end - begin
  <2>1. NewRange(begin, end) \in DataRange
    BY DEF NewRange, DataRange
  <2>2. Length(NewRange(begin, end)) = end - begin
    BY <1>9 DEF Length, IsValid, NewRange
  <2>3. Len(Bytes(origin, NewRange(begin, end))) = Length(NewRange(begin, end))
    BY <2>1, BytesType
  <2>4. Bytes(origin, NewRange(begin, end)) \in Seq(NotFrom("depth"))
    BY <2>1, BytesFrom
  <2> QED
    BY <2>2, <2>3, <2>4
<1>9a. 0 \in Nat /\ 0 <= jb /\ 0 <= size /\ 0 <= k /\ je <= mb /\ me <= ie
  BY <1>2, <1>3
<1>10. PICK a \in Seq(NotFrom("depth")) :
          a = Bytes("primary", NewRange(0, jb)) /\ Len(a) = jb - 0
  <2>1. /\ Bytes("primary", NewRange(0, jb)) \in Seq(NotFrom("depth"))
        /\ Len(Bytes("primary", NewRange(0, jb))) = jb - 0
    BY <1>9, <1>9a, Zenon
  <2> QED
    BY <2>1, Zenon
<1>11. PICK j \in Seq(NotFrom("depth")) :
          j = Bytes("jfif", NewRange(0, size)) /\ Len(j) = size - 0
  <2>1. /\ Bytes("jfif", NewRange(0, size)) \in Seq(NotFrom("depth"))
        /\ Len(Bytes("jfif", NewRange(0, size))) = size - 0
    BY <1>9, <1>9a, Zenon
  <2> QED
    BY <2>1, Zenon
<1>12. PICK s \in Seq(NotFrom("depth")) :
          s = Bytes("primary", NewRange(je, mb)) /\ Len(s) = mb - je
  <2>1. /\ Bytes("primary", NewRange(je, mb)) \in Seq(NotFrom("depth"))
        /\ Len(Bytes("primary", NewRange(je, mb))) = mb - je
    BY <1>9, <1>9a, Zenon
  <2> QED
    BY <2>1, Zenon
<1>13. PICK m \in Seq(NotFrom("depth")) :
          m = Bytes("mpf", NewRange(0, k)) /\ Len(m) = k - 0
  <2>1. /\ Bytes("mpf", NewRange(0, k)) \in Seq(NotFrom("depth"))
        /\ Len(Bytes("mpf", NewRange(0, k))) = k - 0
    BY <1>9, <1>9a, Zenon
  <2> QED
    BY <2>1, Zenon
<1>14. PICK t \in Seq(NotFrom("depth")) :
          t = Bytes("primary", NewRange(me, ie)) /\ Len(t) = ie - me
  <2>1. /\ Bytes("primary", NewRange(me, ie)) \in Seq(NotFrom("depth"))
        /\ Len(Bytes("primary", NewRange(me, ie))) = ie - me
    BY <1>9, <1>9a, Zenon
  <2> QED
    BY <2>1, Zenon
<1>15. PICK aj \in Seq(NotFrom("depth")) :
          aj = a \o j /\ Len(aj) = Len(a) + Len(j)
  <2>1. a \o j \in Seq(NotFrom("depth")) /\ Len(a \o j) = Len(a) + Len(j)
    BY ConcatProperties
  <2> QED
    BY <2>1, Zenon
<1>16. PICK ajs \in Seq(NotFrom("depth")) :
          ajs = aj \o s /\ Len(ajs) = Len(aj) + Len(s)
  <2>1. aj \o s \in Seq(NotFrom("depth")) /\ Len(aj \o s) = Len(aj) + Len(s)
    BY ConcatProperties
  <2> QED
    BY <2>1, Zenon
<1>17. PICK ajsm \in Seq(NotFrom("depth")) :
          ajsm = ajs \o m /\ Len(ajsm) = Len(ajs) + Len(m)
  <2>1. ajs \o m \in Seq(NotFrom("depth")) /\ Len(ajs \o m) = Len(ajs) + Len(m)
    BY ConcatProperties
  <2> QED
    BY <2>1, Zenon
<1>18. PICK front \in Seq(NotFrom("depth")) :
          front = ajsm \o t /\ Len(front) = Len(ajsm) + Len(t)
  <2>1. ajsm \o t \in Seq(NotFrom("depth")) /\ Len(ajsm \o t) = Len(ajsm) + Len(t)
    BY ConcatProperties
  <2> QED
    BY <2>1, Zenon
<1>19. dest.written = front \o Bytes("depth", depth.image)
  <2>1. aj = AfterJfif
    BY <1>4, <1>5, <1>6, <1>7, <1>10, <1>11, <1>15 DEF AfterJfif, AfterFirst
  <2>2. ajs = AfterSecond
    BY <1>4, <1>12, <1>16, <2>1 DEF AfterSecond
  <2>3. ajsm = AfterMpf
    BY <1>5, <1>13, <1>17, <2>2 DEF AfterMpf
  <2>4. front = AfterThird
    BY <1>4, <1>14, <1>18, <2>3 DEF AfterThird
  <2> QED
    BY <1>1, <2>4 DEF AfterImage
<1>20. IsFirst(dest.written, "depth", Len(front))
  BY <1>1, <1>19, FirstMade
<1>21. FirstOf("depth") = Len(front)
  BY <1>20, FirstFound
<1>22. Len(front) = ie + delta - (me - mb) + k
  <2>1. Len(front) = (((jb - 0 + (size - 0)) + (mb - je)) + (k - 0)) + (ie - me)
    BY <1>10, <1>11, <1>12, <1>13, <1>14, <1>15, <1>16, <1>17, <1>18
  <2> QED
    BY <1>7, <2>1
<1> QED
  BY <1>8, <1>21, <1>22

-----------------------------------------------------------------------------
(***************************************************************************)
(* The images are complete: leaving out the new segments and the old JFIF  *)
(* segment in what was written, and the old JFIF and MPF segments in the   *)
(* primary image, gives the same pieces, for either order of the segments. *)
(***************************************************************************)
\* Two ranges one behind the other.
LEMMA BytesJoin ==
    ASSUME NEW origin \in {"primary", "depth", "jfif", "mpf"},
           NEW begin \in Nat, NEW mid \in Nat, NEW end \in Nat, begin <= mid, mid <= end
    PROVE  Bytes(origin, NewRange(begin, mid)) \o Bytes(origin, NewRange(mid, end))
              = Bytes(origin, NewRange(begin, end))
<1>1. Content(origin, end) \in Contents(end, FileBytes)
  BY ContentIsContents
<1>2. AreInOrder(FileBytes, end, Content(origin, end), begin, mid, end)
  BY <1>1 DEF AreInOrder
<1>3. Piece(Content(origin, end), begin, mid) \o Piece(Content(origin, end), mid, end)
         = Piece(Content(origin, end), begin, end)
  <2>1. Join(FileBytes, Content(origin, end), begin, mid, end)
    BY <1>2, PiecesInOrder, Zenon
  <2> QED
    BY <2>1, Zenon DEF Join
<1>4. begin <= end /\ end <= end
  OBVIOUS
<1>5. Piece(Content(origin, end), begin, mid) = Bytes(origin, NewRange(begin, mid))
  BY PieceIsBytes
<1>6. Piece(Content(origin, end), mid, end) = Bytes(origin, NewRange(mid, end))
  BY PieceIsBytes
<1>7. Piece(Content(origin, end), begin, end) = Bytes(origin, NewRange(begin, end))
  BY <1>4, PieceIsBytes
<1> QED
  BY <1>3, <1>5, <1>6, <1>7, Zenon

AreSteps(begin, mid, end) ==
    begin \in Nat /\ mid \in Nat /\ end \in Nat /\ begin <= mid /\ mid <= end

PrimaryMeets(begin, mid, end) ==
    Bytes("primary", NewRange(begin, mid)) \o Bytes("primary", NewRange(mid, end))
       = Bytes("primary", NewRange(begin, end))

LEMMA PrimaryJoin ==
    \A begin, mid, end : AreSteps(begin, mid, end) => PrimaryMeets(begin, mid, end)
<1> SUFFICES ASSUME NEW begin, NEW mid, NEW end, AreSteps(begin, mid, end)
             PROVE  PrimaryMeets(begin, mid, end)
  OBVIOUS
<1>1. begin \in Nat /\ mid \in Nat /\ end \in Nat /\ begin <= mid /\ mid <= end
  BY DEF AreSteps
<1>2. "primary" \in {"primary", "depth", "jfif", "mpf"}
  OBVIOUS
<1> QED
  BY <1>1, <1>2, BytesJoin, Zenon DEF PrimaryMeets

LEMMA BytesOfOrigin ==
    ASSUME NEW origin, NEW range \in DataRange
    PROVE  Bytes(origin, range) \in Seq({origin} \X Nat)
<1>1. PICK begin \in Nat : begin = range.begin
  BY DEF DataRange
<1>2. PICK m \in Nat : m = Length(range)
  BY DEF Length, IsValid, DataRange
<1>3. \A n \in 1 .. m : <<origin, begin + n - 1>> \in {origin} \X Nat
  OBVIOUS
<1>4. [n \in 1 .. m |-> <<origin, begin + n - 1>>] \in Seq({origin} \X Nat)
  BY <1>3, IsASeq
<1> QED
  BY <1>1, <1>2, <1>4 DEF Bytes

\* Bytes without two kinds of them.
Twice(bytes, one, other) == Without(Without(bytes, one), other)

LEMMA TwiceConcat ==
    ASSUME NEW one, NEW other, NEW s \in Seq(FileBytes), NEW t \in Seq(FileBytes)
    PROVE  Twice(s \o t, one, other) = Twice(s, one, other) \o Twice(t, one, other)
<1>1. Without(s \o t, one) = Without(s, one) \o Without(t, one)
  BY WithoutConcat, Zenon
<1>2. Without(s, one) \in Seq(FileBytes) /\ Without(t, one) \in Seq(FileBytes)
  BY WithoutType, Zenon
<1>3. Without(Without(s, one) \o Without(t, one), other)
         = Without(Without(s, one), other) \o Without(Without(t, one), other)
  BY <1>2, WithoutConcat, Zenon
<1> QED
  BY <1>1, <1>3, Zenon DEF Twice

LEMMA TwiceType ==
    ASSUME NEW one, NEW other, NEW s \in Seq(FileBytes)
    PROVE  Twice(s, one, other) \in Seq(FileBytes)
<1>1. Without(s, one) \in Seq(FileBytes)
  BY WithoutType, Zenon
<1> QED
  BY <1>1, WithoutType, Zenon DEF Twice

LEMMA TwiceStays ==
    ASSUME NEW one, NEW other, NEW S, NEW R, NEW s \in Seq(S), s \in Seq(R),
           \A e \in S : e \notin one, \A e \in R : e \notin other
    PROVE  Twice(s, one, other) = s
<1>1. Without(s, one) = s
  BY WithoutNone, Zenon
<1>2. Without(s, other) = s
  BY WithoutNone, Zenon
<1> QED
  BY <1>1, <1>2, Zenon DEF Twice

LEMMA TwiceLeaves ==
    ASSUME NEW one, NEW other, NEW S, NEW s \in Seq(S),
           \/ S \subseteq one
           \/ s \in Seq(other) /\ \A e \in S : e \notin one
    PROVE  Twice(s, one, other) = <<>>
<1>1. CASE S \subseteq one
  <2>1. Without(s, one) = <<>>
    BY <1>1, WithoutAll, Zenon
  <2> QED
    BY <2>1, WithoutNothing, Zenon DEF Twice
<1>2. CASE s \in Seq(other) /\ \A e \in S : e \notin one
  <2>1. Without(s, one) = s
    BY <1>2, WithoutNone, Zenon
  <2>2. other \subseteq other
    OBVIOUS
  <2>3. Without(s, other) = <<>>
    BY <1>2, <2>2, WithoutAll, Zenon
  <2> QED
    BY <2>1, <2>3, Zenon DEF Twice
<1> QED
  BY <1>1, <1>2

\* Sequences one behind the other: what is true of any.
LEMMA Nothing ==
    \A s \in Seq(FileBytes) : s \o <<>> = s /\ <<>> \o s = s
  BY ConcatEmptySeq

AreBytes(a, j, s, m, t, d) ==
    /\ a \in Seq(FileBytes) /\ j \in Seq(FileBytes) /\ s \in Seq(FileBytes)
    /\ m \in Seq(FileBytes) /\ t \in Seq(FileBytes) /\ d \in Seq(FileBytes)

AreTakenOut(one, other, a, j, s, m, t, d) ==
    /\ Twice((((a \o j) \o s) \o m) \o t, one, other)
          = (((Twice(a, one, other) \o Twice(j, one, other)) \o Twice(s, one, other))
                \o Twice(m, one, other)) \o Twice(t, one, other)
    /\ Twice(((((a \o j) \o s) \o m) \o t) \o d, one, other)
          = ((((Twice(a, one, other) \o Twice(j, one, other)) \o Twice(s, one, other))
                \o Twice(m, one, other)) \o Twice(t, one, other))
                \o Twice(d, one, other)

LEMMA SixTwice ==
    \A one, other, a, j, s, m, t, d :
        AreBytes(a, j, s, m, t, d) => AreTakenOut(one, other, a, j, s, m, t, d)
<1> SUFFICES ASSUME NEW one, NEW other, NEW a, NEW j, NEW s, NEW m, NEW t, NEW d,
                    AreBytes(a, j, s, m, t, d)
             PROVE  AreTakenOut(one, other, a, j, s, m, t, d)
  OBVIOUS
<1>0. /\ a \in Seq(FileBytes) /\ j \in Seq(FileBytes) /\ s \in Seq(FileBytes)
      /\ m \in Seq(FileBytes) /\ t \in Seq(FileBytes) /\ d \in Seq(FileBytes)
  BY Zenon DEF AreBytes
<1>1. PICK aj \in Seq(FileBytes) : aj = a \o j
  BY <1>0, ConcatProperties
<1>2. PICK ajs \in Seq(FileBytes) : ajs = aj \o s
  BY <1>0, ConcatProperties
<1>3. PICK ajsm \in Seq(FileBytes) : ajsm = ajs \o m
  BY <1>0, ConcatProperties
<1>4. PICK all \in Seq(FileBytes) : all = ajsm \o t
  BY <1>0, ConcatProperties
<1>5. Twice(aj, one, other) = Twice(a, one, other) \o Twice(j, one, other)
  BY <1>0, <1>1, TwiceConcat
<1>6. Twice(ajs, one, other) = Twice(aj, one, other) \o Twice(s, one, other)
  BY <1>0, <1>2, TwiceConcat
<1>7. Twice(ajsm, one, other) = Twice(ajs, one, other) \o Twice(m, one, other)
  BY <1>0, <1>3, TwiceConcat
<1>8. Twice(all, one, other) = Twice(ajsm, one, other) \o Twice(t, one, other)
  BY <1>0, <1>4, TwiceConcat
<1>9. Twice(all \o d, one, other) = Twice(all, one, other) \o Twice(d, one, other)
  BY <1>0, TwiceConcat
<1> QED
  BY <1>1, <1>2, <1>3, <1>4, <1>5, <1>6, <1>7, <1>8, <1>9, Zenon DEF AreTakenOut

\* The bytes of the old MPF segment, if there is one, are those at its place.
LEMMA OldMpfPlace ==
    ASSUME NEW mb \in Nat, NEW me \in Nat, mb <= me, MpfPlace = NewRange(mb, me),
           primary.mpf \in DataRange
    PROVE  /\ Bytes("primary", NewRange(mb, me)) \in Seq(OldMpf)
           /\ \A begin, end \in Nat : end <= mb \/ me <= begin =>
                 Bytes("primary", NewRange(begin, end)) \in Seq(Outside(primary.mpf))
<1>1. CASE IsValid(primary.mpf)
  <2>1. primary.mpf = NewRange(mb, me)
    BY <1>1 DEF MpfPlace
  <2>2. primary.mpf.begin = mb /\ primary.mpf.end = me
    BY <2>1 DEF NewRange
  <2>3. Bytes("primary", NewRange(mb, me)) \in Seq(OldMpf)
    <3>1. Bytes("primary", primary.mpf) \in Seq({"primary"} \X Places(primary.mpf))
      BY <2>2, BytesInside
    <3> QED
      BY <2>1, <3>1 DEF OldMpf
  <2>4. ASSUME NEW begin \in Nat, NEW end \in Nat, end <= mb \/ me <= begin
        PROVE  Bytes("primary", NewRange(begin, end)) \in Seq(Outside(primary.mpf))
    <3>1. NewRange(begin, end) \in DataRange
      BY DEF NewRange, DataRange
    <3>2. NewRange(begin, end).begin = begin /\ NewRange(begin, end).end = end
      BY DEF NewRange
    <3> QED
      BY <2>2, <2>4, <3>1, <3>2, BytesOutside
  <2> QED
    BY <2>3, <2>4
<1>2. CASE ~IsValid(primary.mpf)
  <2>1. mb = me
    BY <1>2 DEF MpfPlace, NewRange
  <2>2. Bytes("primary", NewRange(mb, me)) = <<>>
    BY <2>1 DEF Bytes, Length, IsValid, NewRange
  <2>3. <<>> \in Seq(OldMpf)
    BY EmptySeq
  <2>4. ASSUME NEW begin \in Nat, NEW end \in Nat
        PROVE  Bytes("primary", NewRange(begin, end)) \in Seq(Outside(primary.mpf))
    <3>1. NewRange(begin, end) \in DataRange
      BY DEF NewRange, DataRange
    <3> QED
      BY <1>2, <3>1, BytesOutside
  <2> QED
    BY <2>2, <2>3, <2>4
<1> QED
  BY <1>1, <1>2

\* What becomes of a piece of the primary image if the new segments and the old JFIF
\* segment are left out, or the old JFIF and MPF segments.
Made == From({"jfif", "mpf"})

LEMMA OldPiece ==
    ASSUME NEW begin \in Nat, NEW end \in Nat,
           NEW jb \in Nat, NEW je \in Nat, primary.jfif = NewRange(jb, je),
           end <= jb \/ je <= begin
    PROVE  /\ Twice(Bytes("primary", NewRange(begin, end)), Made, OldJfif)
                 = Bytes("primary", NewRange(begin, end))
           /\ Bytes("primary", NewRange(begin, end)) \in Seq(FileBytes)
           /\ Bytes("primary", NewRange(begin, end)) \in Seq(Outside(primary.jfif))
<1>1. NewRange(begin, end) \in DataRange /\ primary.jfif \in DataRange
  BY DEF NewRange, DataRange
<1>2. NewRange(begin, end).begin = begin /\ NewRange(begin, end).end = end
      /\ primary.jfif.begin = jb /\ primary.jfif.end = je
  BY DEF NewRange
<1>3. Bytes("primary", NewRange(begin, end)) \in Seq(Outside(primary.jfif))
  BY <1>1, <1>2, BytesOutside
<1>4. Bytes("primary", NewRange(begin, end)) \in Seq({"primary"} \X Nat)
  BY <1>1, BytesOfOrigin
<1>5. \A e \in {"primary"} \X Nat : e \notin Made
  BY DEF Made, From
<1>6. \A e \in Outside(primary.jfif) : e \notin OldJfif
  BY DEF Outside, OldJfif
<1>7. Twice(Bytes("primary", NewRange(begin, end)), Made, OldJfif)
         = Bytes("primary", NewRange(begin, end))
  BY <1>3, <1>4, <1>5, <1>6, TwiceStays
<1> QED
  BY <1>1, <1>3, <1>7, BytesType

LEMMA KeptPiece ==
    ASSUME NEW piece, piece \in Seq(Outside(primary.jfif)), piece \in Seq(Outside(primary.mpf))
    PROVE  Twice(piece, OldJfif, OldMpf) = piece
<1>1. \A e \in Outside(primary.jfif) : e \notin OldJfif
  BY DEF Outside, OldJfif
<1>2. \A e \in Outside(primary.mpf) : e \notin OldMpf
  BY DEF Outside, OldMpf
<1> QED
  BY <1>1, <1>2, TwiceStays

LEMMA OldJfifPiece ==
    ASSUME primary.jfif \in DataRange
    PROVE  /\ Bytes("primary", primary.jfif) \in Seq(OldJfif)
           /\ Bytes("primary", primary.jfif) \in Seq(FileBytes)
           /\ Twice(Bytes("primary", primary.jfif), OldJfif, OldMpf) = <<>>
           /\ Twice(Bytes("primary", primary.jfif), Made, OldJfif) = <<>>
<1>1. primary.jfif.begin <= primary.jfif.begin /\ primary.jfif.end <= primary.jfif.end
  BY DEF DataRange
<1>2. Bytes("primary", primary.jfif) \in Seq(OldJfif)
  BY <1>1, BytesInside DEF OldJfif
<1>3. Bytes("primary", primary.jfif) \in Seq({"primary"} \X Nat)
  BY BytesOfOrigin
<1>4. \A e \in {"primary"} \X Nat : e \notin Made
  BY DEF Made, From
<1>5. Twice(Bytes("primary", primary.jfif), OldJfif, OldMpf) = <<>>
  BY <1>2, TwiceLeaves
<1>6. Twice(Bytes("primary", primary.jfif), Made, OldJfif) = <<>>
  BY <1>2, <1>3, <1>4, TwiceLeaves
<1>7. Bytes("primary", primary.jfif) \in Seq(FileBytes)
  BY BytesType
<1> QED
  BY <1>2, <1>5, <1>6, <1>7

LEMMA MadePiece ==
    ASSUME NEW origin \in {"jfif", "mpf"}, NEW range \in DataRange
    PROVE  /\ Twice(Bytes(origin, range), Made, OldJfif) = <<>>
           /\ Bytes(origin, range) \in Seq(FileBytes)
<1>1. Bytes(origin, range) \in Seq({origin} \X Nat)
  BY BytesOfOrigin
<1>2. {origin} \X Nat \subseteq Made
  BY DEF Made, From
<1> QED
  BY <1>1, <1>2, TwiceLeaves, BytesType

LEMMA DepthPiece ==
    ASSUME NEW range \in DataRange
    PROVE  /\ Twice(Bytes("depth", range), Made, OldJfif) = Bytes("depth", range)
           /\ Bytes("depth", range) \in Seq(FileBytes)
<1>1. Bytes("depth", range) \in Seq({"depth"} \X Nat)
  BY BytesOfOrigin
<1>2. \A e \in {"depth"} \X Nat : e \notin Made /\ e \notin OldJfif
  BY DEF Made, From, OldJfif
<1> QED
  BY <1>1, <1>2, TwiceStays, BytesType

\* The pieces of which the file consists.
LEMMA SixPieces ==
    ASSUME IInv, built = "true"
    PROVE  \E size \in Nat :
              /\ size > 0 /\ MpfSegmentLength \in Nat /\ MpfSegmentLength > 0
              /\ dest.written =
                   ((((Bytes("primary", NewRange(0, FirstEnd))
                         \o Bytes("jfif", NewRange(0, size)))
                         \o Bytes("primary", SecondRange))
                         \o Bytes("mpf", NewRange(0, MpfSegmentLength)))
                         \o Bytes("primary", ThirdRange))
                         \o Bytes("depth", depth.image)
<1>1. /\ dest.written = AfterImage /\ jfif_delta \in Nat
      /\ MpfSegmentLength \in Nat /\ MpfSegmentLength > 0
  BY AtTheEnd
<1>2. PICK ib, ie, jb, je, mb, me, length \in Nat :
        /\ primary.length = length
        /\ primary.image = NewRange(ib, ie) /\ ie <= length
        /\ primary.jfif = NewRange(jb, je)
        /\ MpfPlace = NewRange(mb, me)
        /\ ib < jb /\ jb < je /\ je < ie
        /\ ib < mb /\ mb <= me /\ me < ie
        /\ je <= mb \/ me <= jb
  BY AtTheEnd, Zenon
<1>3. PICK size \in Nat : size = Length(primary.jfif) + jfif_delta /\ size > 0
  <2>1. Length(primary.jfif) = je - jb
    BY <1>2 DEF Length, IsValid, NewRange
  <2> QED
    BY <1>1, <1>2, <2>1
<1>4. /\ AfterImage = AfterThird \o Bytes("depth", depth.image)
      /\ AfterThird = AfterMpf \o Bytes("primary", ThirdRange)
      /\ AfterMpf = AfterSecond \o Bytes("mpf", NewRange(0, MpfSegmentLength))
      /\ AfterSecond = AfterJfif \o Bytes("primary", SecondRange)
      /\ AfterJfif = AfterFirst \o Bytes("jfif", NewRange(0, size))
      /\ AfterFirst = Bytes("primary", NewRange(0, FirstEnd))
  BY <1>3 DEF AfterImage, AfterThird, AfterMpf, AfterSecond, AfterJfif, AfterFirst
<1> QED
  BY <1>1, <1>3, <1>4, Zenon

\* The images are complete: the first part of ImagesAreComplete.
LEMMA ImagesThere ==
    ASSUME IInv, built = "true"
    PROVE  Twice(dest.written, Made, OldJfif)
              = Twice(Bytes("primary", NewRange(0, primary.image.end)), OldJfif, OldMpf)
                   \o Bytes("depth", depth.image)
<1>1. PICK size \in Nat :
         /\ MpfSegmentLength \in Nat
         /\ dest.written =
              ((((Bytes("primary", NewRange(0, FirstEnd)) \o Bytes("jfif", NewRange(0, size)))
                    \o Bytes("primary", SecondRange))
                    \o Bytes("mpf", NewRange(0, MpfSegmentLength)))
                    \o Bytes("primary", ThirdRange))
                    \o Bytes("depth", depth.image)
  BY SixPieces, Zenon
<1>2. PICK ib, ie, jb, je, mb, me, length \in Nat :
        /\ primary.length = length
        /\ primary.image = NewRange(ib, ie) /\ ie <= length
        /\ primary.jfif = NewRange(jb, je)
        /\ MpfPlace = NewRange(mb, me)
        /\ ib < jb /\ jb < je /\ je < ie
        /\ ib < mb /\ mb <= me /\ me < ie
        /\ je <= mb \/ me <= jb
  BY AtTheEnd, Zenon
<1>3. depth.image \in DataRange
  BY AtTheEnd
<1>4. primary.mpf \in DataRange /\ primary.jfif \in DataRange
  BY FilesAssumption DEF IInv, FilesAreGiven, PrimaryFile
<1>5. ThirdRange = NewRange(me, ie) /\ primary.image.end = ie
  BY <1>2 DEF ThirdRange, NewRange
<1>6. PICK j : /\ j = Bytes("jfif", NewRange(0, size)) /\ j \in Seq(FileBytes)
               /\ Twice(j, Made, OldJfif) = <<>>
  <2>1. NewRange(0, size) \in DataRange
    BY DEF NewRange, DataRange
  <2> QED
    BY <2>1, MadePiece
<1>7. PICK m : /\ m = Bytes("mpf", NewRange(0, MpfSegmentLength)) /\ m \in Seq(FileBytes)
               /\ Twice(m, Made, OldJfif) = <<>>
  <2>1. NewRange(0, MpfSegmentLength) \in DataRange
    BY <1>1 DEF NewRange, DataRange
  <2> QED
    BY <2>1, MadePiece
<1>8. PICK d : /\ d = Bytes("depth", depth.image) /\ d \in Seq(FileBytes)
               /\ Twice(d, Made, OldJfif) = d
  BY <1>3, DepthPiece
<1>9. PICK o : /\ o = Bytes("primary", NewRange(jb, je)) /\ o \in Seq(FileBytes)
               /\ Twice(o, OldJfif, OldMpf) = <<>> /\ Twice(o, Made, OldJfif) = <<>>
  BY <1>2, <1>4, OldJfifPiece
<1>10. PICK x : /\ x = Bytes("primary", NewRange(mb, me)) /\ x \in Seq(FileBytes)
                /\ Twice(x, OldJfif, OldMpf) = <<>>
  <2>1. PICK x : x = Bytes("primary", NewRange(mb, me))
    OBVIOUS
  <2>2. x \in Seq(OldMpf)
    BY <1>2, <1>4, <2>1, OldMpfPlace
  <2>3. x \in Seq(FileBytes) /\ x \in Seq(Outside(primary.jfif))
    BY <1>2, <2>1, OldPiece
  <2>4. \A e \in Outside(primary.jfif) : e \notin OldJfif
    BY DEF Outside, OldJfif
  <2>5. Twice(x, OldJfif, OldMpf) = <<>>
    BY <2>2, <2>3, <2>4, TwiceLeaves
  <2> QED
    BY <2>1, <2>3, <2>5
<1>11. ASSUME NEW begin \in Nat, NEW end \in Nat, end <= jb \/ je <= begin,
              end <= mb \/ me <= begin
       PROVE  LET piece == Bytes("primary", NewRange(begin, end))
              IN  /\ piece \in Seq(FileBytes)
                  /\ Twice(piece, Made, OldJfif) = piece
                  /\ Twice(piece, OldJfif, OldMpf) = piece
  <2>1. PICK piece : piece = Bytes("primary", NewRange(begin, end))
    OBVIOUS
  <2>2. /\ piece \in Seq(FileBytes) /\ piece \in Seq(Outside(primary.jfif))
        /\ Twice(piece, Made, OldJfif) = piece
    BY <1>2, <1>11, <2>1, OldPiece
  <2>3. piece \in Seq(Outside(primary.mpf))
    BY <1>2, <1>4, <1>11, <2>1, OldMpfPlace
  <2>4. Twice(piece, OldJfif, OldMpf) = piece
    BY <2>2, <2>3, KeptPiece
  <2> QED
    BY <2>1, <2>2, <2>4
<1>12. CASE je <= mb
  <2>1. FirstEnd = jb /\ SecondRange = NewRange(je, mb)
    <3>1. FirstEnd = jb
      BY <1>2, <1>12 DEF FirstEnd, Smaller, NewRange
    <3>2. SecondRange = NewRange(je, mb)
      BY <1>2, <1>12, SecondPlace
    <3> QED
      BY <3>1, <3>2
  <2>2. PICK a : /\ a = Bytes("primary", NewRange(0, jb)) /\ a \in Seq(FileBytes)
                 /\ Twice(a, Made, OldJfif) = a /\ Twice(a, OldJfif, OldMpf) = a
    <3>1. 0 \in Nat /\ jb <= jb /\ jb <= mb
      BY <1>2, <1>12
    <3> QED
      BY <1>11, <3>1, Zenon
  <2>3. PICK s : /\ s = Bytes("primary", NewRange(je, mb)) /\ s \in Seq(FileBytes)
                 /\ Twice(s, Made, OldJfif) = s /\ Twice(s, OldJfif, OldMpf) = s
    <3>1. je <= je /\ mb <= mb
      OBVIOUS
    <3> QED
      BY <1>11, <3>1, Zenon
  <2>4. PICK t : /\ t = Bytes("primary", NewRange(me, ie)) /\ t \in Seq(FileBytes)
                 /\ Twice(t, Made, OldJfif) = t /\ Twice(t, OldJfif, OldMpf) = t
    <3>1. je <= me /\ me <= me
      BY <1>2, <1>12
    <3> QED
      BY <1>11, <3>1, Zenon
  <2>5. dest.written = ((((a \o j) \o s) \o m) \o t) \o d
    BY <1>1, <1>5, <1>6, <1>7, <1>8, <2>1, <2>2, <2>3, <2>4, Zenon
  <2>6. Twice(dest.written, Made, OldJfif) = ((((a \o <<>>) \o s) \o <<>>) \o t) \o d
    <3>1. AreBytes(a, j, s, m, t, d)
      BY <1>6, <1>7, <1>8, <2>2, <2>3, <2>4, Zenon DEF AreBytes
    <3>2. AreTakenOut(Made, OldJfif, a, j, s, m, t, d)
      BY <3>1, SixTwice, Zenon
    <3>3. Twice(((((a \o j) \o s) \o m) \o t) \o d, Made, OldJfif)
             = ((((Twice(a, Made, OldJfif) \o Twice(j, Made, OldJfif))
                     \o Twice(s, Made, OldJfif)) \o Twice(m, Made, OldJfif))
                     \o Twice(t, Made, OldJfif)) \o Twice(d, Made, OldJfif)
      BY <3>2, Zenon DEF AreTakenOut
    <3> QED
      BY <1>6, <1>7, <1>8, <2>2, <2>3, <2>4, <2>5, <3>3, Zenon
  <2>7. Bytes("primary", NewRange(0, ie)) = (((a \o o) \o s) \o x) \o t
    <3>1. 0 \in Nat /\ 0 <= jb /\ jb <= je /\ 0 <= je /\ je <= mb /\ 0 <= mb /\ mb <= me
          /\ 0 <= me /\ me <= ie
      BY <1>2, <1>12
    <3>2. a \o o = Bytes("primary", NewRange(0, je))
      <4>1. Bytes("primary", NewRange(0, jb)) \o Bytes("primary", NewRange(jb, je))
               = Bytes("primary", NewRange(0, je))
        <5>1. AreSteps(0, jb, je)
          BY <3>1 DEF AreSteps
        <5> QED
          BY <5>1, PrimaryJoin, Zenon DEF PrimaryMeets
      <4> QED
        BY <1>9, <2>2, <3>1, <4>1, Zenon
    <3>3. (a \o o) \o s = Bytes("primary", NewRange(0, mb))
      <4>1. Bytes("primary", NewRange(0, je)) \o Bytes("primary", NewRange(je, mb))
               = Bytes("primary", NewRange(0, mb))
        <5>1. AreSteps(0, je, mb)
          BY <3>1 DEF AreSteps
        <5> QED
          BY <5>1, PrimaryJoin, Zenon DEF PrimaryMeets
      <4> QED
        BY <2>3, <3>1, <3>2, <4>1, Zenon
    <3>4. ((a \o o) \o s) \o x = Bytes("primary", NewRange(0, me))
      <4>1. Bytes("primary", NewRange(0, mb)) \o Bytes("primary", NewRange(mb, me))
               = Bytes("primary", NewRange(0, me))
        <5>1. AreSteps(0, mb, me)
          BY <3>1 DEF AreSteps
        <5> QED
          BY <5>1, PrimaryJoin, Zenon DEF PrimaryMeets
      <4> QED
        BY <1>10, <3>1, <3>3, <4>1, Zenon
    <3> QED
      <4>1. Bytes("primary", NewRange(0, me)) \o Bytes("primary", NewRange(me, ie))
               = Bytes("primary", NewRange(0, ie))
        <5>1. AreSteps(0, me, ie)
          BY <3>1 DEF AreSteps
        <5> QED
          BY <5>1, PrimaryJoin, Zenon DEF PrimaryMeets
      <4> QED
        BY <2>4, <3>1, <3>4, <4>1, Zenon
  <2>8. Twice(Bytes("primary", NewRange(0, ie)), OldJfif, OldMpf)
           = (((a \o <<>>) \o s) \o <<>>) \o t
    <3>1. AreBytes(a, o, s, x, t, d)
      BY <1>8, <1>9, <1>10, <2>2, <2>3, <2>4, Zenon DEF AreBytes
    <3>2. AreTakenOut(OldJfif, OldMpf, a, o, s, x, t, d)
      BY <3>1, SixTwice, Zenon
    <3>3. Twice((((a \o o) \o s) \o x) \o t, OldJfif, OldMpf)
             = (((Twice(a, OldJfif, OldMpf) \o Twice(o, OldJfif, OldMpf))
                    \o Twice(s, OldJfif, OldMpf)) \o Twice(x, OldJfif, OldMpf))
                    \o Twice(t, OldJfif, OldMpf)
      BY <3>2, Zenon DEF AreTakenOut
    <3> QED
      BY <1>9, <1>10, <2>2, <2>3, <2>4, <2>7, <3>3, Zenon
  <2> QED
    BY <1>5, <1>8, <2>6, <2>8, Zenon
<1>13. CASE me <= jb
  <2>1. FirstEnd = mb
    BY <1>2, <1>13 DEF FirstEnd, Smaller, NewRange
  <2>2. Bytes("primary", SecondRange) = <<>>
    <3>1. PICK begin \in Nat : /\ SecondRange = NewRange(begin, mb)
                               /\ begin = (IF jb <= mb THEN je ELSE mb)
      BY <1>2, SecondPlace
    <3>2. mb <= begin
      BY <1>2, <1>13, <3>1
    <3> QED
      BY <3>1, <3>2 DEF Bytes, Length, IsValid, NewRange
  <2>3. PICK a : /\ a = Bytes("primary", NewRange(0, mb)) /\ a \in Seq(FileBytes)
                 /\ Twice(a, Made, OldJfif) = a /\ Twice(a, OldJfif, OldMpf) = a
    <3>1. 0 \in Nat /\ mb <= mb /\ mb <= jb
      BY <1>2, <1>13
    <3> QED
      BY <1>11, <3>1, Zenon
  <2>4. PICK u : /\ u = Bytes("primary", NewRange(me, jb)) /\ u \in Seq(FileBytes)
                 /\ Twice(u, Made, OldJfif) = u /\ Twice(u, OldJfif, OldMpf) = u
    <3>1. jb <= jb /\ me <= me
      OBVIOUS
    <3> QED
      BY <1>11, <3>1, Zenon
  <2>5. PICK v : /\ v = Bytes("primary", NewRange(je, ie)) /\ v \in Seq(FileBytes)
                 /\ Twice(v, Made, OldJfif) = v /\ Twice(v, OldJfif, OldMpf) = v
    <3>1. je <= je /\ me <= je
      BY <1>2, <1>13
    <3> QED
      BY <1>11, <3>1, Zenon
  <2>6. PICK uo \in Seq(FileBytes) : uo = u \o o
    BY <1>9, <2>4, ConcatProperties
  <2>7. PICK t \in Seq(FileBytes) : t = uo \o v
    BY <2>5, <2>6, ConcatProperties
  <2>8. t = Bytes("primary", NewRange(me, ie))
    <3>1. me <= jb /\ jb <= je /\ me <= je /\ je <= ie
      BY <1>2, <1>13
    <3>2. uo = Bytes("primary", NewRange(me, je))
      <4>1. Bytes("primary", NewRange(me, jb)) \o Bytes("primary", NewRange(jb, je))
               = Bytes("primary", NewRange(me, je))
        <5>1. AreSteps(me, jb, je)
          BY <3>1 DEF AreSteps
        <5> QED
          BY <5>1, PrimaryJoin, Zenon DEF PrimaryMeets
      <4> QED
        BY <1>9, <2>4, <2>6, <3>1, <4>1, Zenon
    <3> QED
      <4>1. Bytes("primary", NewRange(me, je)) \o Bytes("primary", NewRange(je, ie))
               = Bytes("primary", NewRange(me, ie))
        <5>1. AreSteps(me, je, ie)
          BY <3>1 DEF AreSteps
        <5> QED
          BY <5>1, PrimaryJoin, Zenon DEF PrimaryMeets
      <4> QED
        BY <2>5, <2>7, <3>1, <3>2, <4>1, Zenon
  <2>9. Twice(t, Made, OldJfif) = (u \o <<>>) \o v
    <3>1. Twice(uo, Made, OldJfif) = Twice(u, Made, OldJfif) \o Twice(o, Made, OldJfif)
      <4>1. Twice(u \o o, Made, OldJfif) = Twice(u, Made, OldJfif) \o Twice(o, Made, OldJfif)
        <5>1. u \in Seq(FileBytes) /\ o \in Seq(FileBytes)
          BY <1>9, <2>4
        <5> QED
          BY <5>1, TwiceConcat, Zenon
      <4> QED
        BY <2>6, <4>1, Zenon
    <3>2. Twice(t, Made, OldJfif) = Twice(uo, Made, OldJfif) \o Twice(v, Made, OldJfif)
      <4>1. Twice(uo \o v, Made, OldJfif) = Twice(uo, Made, OldJfif) \o Twice(v, Made, OldJfif)
        <5>1. uo \in Seq(FileBytes) /\ v \in Seq(FileBytes)
          BY <2>5, <2>6
        <5> QED
          BY <5>1, TwiceConcat, Zenon
      <4> QED
        BY <2>7, <4>1, Zenon
    <3> QED
      BY <1>9, <2>4, <2>5, <3>1, <3>2, Zenon
  <2>10. <<>> \in Seq(FileBytes) /\ Twice(<<>>, Made, OldJfif) = <<>>
    BY EmptySeq, WithoutNothing, Zenon DEF Twice
  <2>11. dest.written = ((((a \o j) \o <<>>) \o m) \o t) \o d
    BY <1>1, <1>5, <1>6, <1>7, <1>8, <2>1, <2>2, <2>3, <2>8, Zenon
  <2>12. Twice(dest.written, Made, OldJfif)
            = ((((a \o <<>>) \o <<>>) \o <<>>) \o ((u \o <<>>) \o v)) \o d
    <3>1. AreBytes(a, j, <<>>, m, t, d)
      BY <1>6, <1>7, <1>8, <2>3, <2>7, <2>10, Zenon DEF AreBytes
    <3>2. AreTakenOut(Made, OldJfif, a, j, <<>>, m, t, d)
      BY <3>1, SixTwice, Zenon
    <3>3. Twice(((((a \o j) \o <<>>) \o m) \o t) \o d, Made, OldJfif)
             = ((((Twice(a, Made, OldJfif) \o Twice(j, Made, OldJfif))
                     \o Twice(<<>>, Made, OldJfif)) \o Twice(m, Made, OldJfif))
                     \o Twice(t, Made, OldJfif)) \o Twice(d, Made, OldJfif)
      BY <3>2, Zenon DEF AreTakenOut
    <3> QED
      BY <1>6, <1>7, <1>8, <2>3, <2>9, <2>10, <2>11, <3>3, Zenon
  <2>13. Bytes("primary", NewRange(0, ie)) = (((a \o x) \o u) \o o) \o v
    <3>1. 0 \in Nat /\ 0 <= mb /\ mb <= me /\ 0 <= me /\ me <= jb /\ 0 <= jb /\ jb <= je
          /\ 0 <= je /\ je <= ie
      BY <1>2, <1>13
    <3>2. a \o x = Bytes("primary", NewRange(0, me))
      <4>1. Bytes("primary", NewRange(0, mb)) \o Bytes("primary", NewRange(mb, me))
               = Bytes("primary", NewRange(0, me))
        <5>1. AreSteps(0, mb, me)
          BY <3>1 DEF AreSteps
        <5> QED
          BY <5>1, PrimaryJoin, Zenon DEF PrimaryMeets
      <4> QED
        BY <1>10, <2>3, <3>1, <4>1, Zenon
    <3>3. (a \o x) \o u = Bytes("primary", NewRange(0, jb))
      <4>1. Bytes("primary", NewRange(0, me)) \o Bytes("primary", NewRange(me, jb))
               = Bytes("primary", NewRange(0, jb))
        <5>1. AreSteps(0, me, jb)
          BY <3>1 DEF AreSteps
        <5> QED
          BY <5>1, PrimaryJoin, Zenon DEF PrimaryMeets
      <4> QED
        BY <2>4, <3>1, <3>2, <4>1, Zenon
    <3>4. ((a \o x) \o u) \o o = Bytes("primary", NewRange(0, je))
      <4>1. Bytes("primary", NewRange(0, jb)) \o Bytes("primary", NewRange(jb, je))
               = Bytes("primary", NewRange(0, je))
        <5>1. AreSteps(0, jb, je)
          BY <3>1 DEF AreSteps
        <5> QED
          BY <5>1, PrimaryJoin, Zenon DEF PrimaryMeets
      <4> QED
        BY <1>9, <3>1, <3>3, <4>1, Zenon
    <3> QED
      <4>1. Bytes("primary", NewRange(0, je)) \o Bytes("primary", NewRange(je, ie))
               = Bytes("primary", NewRange(0, ie))
        <5>1. AreSteps(0, je, ie)
          BY <3>1 DEF AreSteps
        <5> QED
          BY <5>1, PrimaryJoin, Zenon DEF PrimaryMeets
      <4> QED
        BY <2>5, <3>1, <3>4, <4>1, Zenon
  <2>14. Twice(Bytes("primary", NewRange(0, ie)), OldJfif, OldMpf)
            = (((a \o <<>>) \o u) \o <<>>) \o v
    <3>1. AreBytes(a, x, u, o, v, d)
      BY <1>8, <1>9, <1>10, <2>3, <2>4, <2>5, Zenon DEF AreBytes
    <3>2. AreTakenOut(OldJfif, OldMpf, a, x, u, o, v, d)
      BY <3>1, SixTwice, Zenon
    <3>3. Twice((((a \o x) \o u) \o o) \o v, OldJfif, OldMpf)
             = (((Twice(a, OldJfif, OldMpf) \o Twice(x, OldJfif, OldMpf))
                    \o Twice(u, OldJfif, OldMpf)) \o Twice(o, OldJfif, OldMpf))
                    \o Twice(v, OldJfif, OldMpf)
      BY <3>2, Zenon DEF AreTakenOut
    <3> QED
      BY <1>9, <1>10, <2>3, <2>4, <2>5, <2>13, <3>3, Zenon
  <2>15. (((a \o <<>>) \o <<>>) \o <<>>) \o ((u \o <<>>) \o v)
            = (((a \o <<>>) \o u) \o <<>>) \o v
    <3>1. PICK au \in Seq(FileBytes) : au = a \o u
      BY <2>3, <2>4, ConcatProperties
    <3>2. a \o <<>> = a /\ u \o <<>> = u /\ au \o <<>> = au
      BY <2>3, <2>4, Nothing
    <3>3. (a \o u) \o v = a \o (u \o v)
      <4>1. a \in Seq(FileBytes) /\ u \in Seq(FileBytes) /\ v \in Seq(FileBytes)
        BY <2>3, <2>4, <2>5
      <4> QED
        BY <4>1, ConcatAssociative
    <3> QED
      BY <3>1, <3>2, <3>3, Zenon
  <2> QED
    BY <1>5, <1>8, <2>12, <2>14, <2>15, Zenon
<1> QED
  BY <1>2, <1>12, <1>13

\* What is left of the pieces of the file, and how long they are.
IsLeftOver(leaving, a, j, s, m, t, d) ==
    /\ Without(((((a \o j) \o s) \o m) \o t) \o d, leaving)
          = ((((Without(a, leaving) \o Without(j, leaving)) \o Without(s, leaving))
                \o Without(m, leaving)) \o Without(t, leaving)) \o Without(d, leaving)
    /\ Len(j) <= Len(((((a \o j) \o s) \o m) \o t) \o d)
    /\ Len(m) <= Len(((((a \o j) \o s) \o m) \o t) \o d)

LEMMA Longer ==
    ASSUME NEW s \in Seq(FileBytes), NEW t \in Seq(FileBytes)
    PROVE  s \o t \in Seq(FileBytes) /\ Len(s) <= Len(s \o t) /\ Len(t) <= Len(s \o t)
<1>1. s \o t \in Seq(FileBytes) /\ Len(s \o t) = Len(s) + Len(t)
  BY ConcatProperties
<1>2. Len(s) \in Nat /\ Len(t) \in Nat
  BY LenProperties
<1> QED
  BY <1>1, <1>2

LEMMA SixWithout ==
    \A leaving, a, j, s, m, t, d :
        AreBytes(a, j, s, m, t, d) => IsLeftOver(leaving, a, j, s, m, t, d)
<1> SUFFICES ASSUME NEW leaving, NEW a, NEW j, NEW s, NEW m, NEW t, NEW d,
                    AreBytes(a, j, s, m, t, d)
             PROVE  IsLeftOver(leaving, a, j, s, m, t, d)
  OBVIOUS
<1>0. /\ a \in Seq(FileBytes) /\ j \in Seq(FileBytes) /\ s \in Seq(FileBytes)
      /\ m \in Seq(FileBytes) /\ t \in Seq(FileBytes) /\ d \in Seq(FileBytes)
  BY Zenon DEF AreBytes
<1>1. PICK aj \in Seq(FileBytes) : aj = a \o j /\ Len(j) <= Len(aj)
  BY <1>0, Longer
<1>2. PICK ajs \in Seq(FileBytes) : ajs = aj \o s /\ Len(aj) <= Len(ajs)
  BY <1>0, Longer
<1>3. PICK ajsm \in Seq(FileBytes) :
         ajsm = ajs \o m /\ Len(ajs) <= Len(ajsm) /\ Len(m) <= Len(ajsm)
  BY <1>0, Longer
<1>4. PICK all \in Seq(FileBytes) : all = ajsm \o t /\ Len(ajsm) <= Len(all)
  BY <1>0, Longer
<1>5. PICK alld \in Seq(FileBytes) : alld = all \o d /\ Len(all) <= Len(alld)
  BY <1>0, Longer
<1>6. Without(aj, leaving) = Without(a, leaving) \o Without(j, leaving)
  BY <1>0, <1>1, WithoutConcat
<1>7. Without(ajs, leaving) = Without(aj, leaving) \o Without(s, leaving)
  BY <1>0, <1>2, WithoutConcat
<1>8. Without(ajsm, leaving) = Without(ajs, leaving) \o Without(m, leaving)
  BY <1>0, <1>3, WithoutConcat
<1>9. Without(all, leaving) = Without(ajsm, leaving) \o Without(t, leaving)
  BY <1>0, <1>4, WithoutConcat
<1>10. Without(alld, leaving) = Without(all, leaving) \o Without(d, leaving)
  BY <1>0, <1>5, WithoutConcat
<1>11. Len(j) <= Len(alld) /\ Len(m) <= Len(alld)
  <2>1. Len(j) \in Nat /\ Len(m) \in Nat
    BY <1>0, LenProperties
  <2>2. /\ Len(aj) \in Nat /\ Len(ajs) \in Nat /\ Len(ajsm) \in Nat /\ Len(all) \in Nat
        /\ Len(alld) \in Nat
    BY LenProperties
  <2> QED
    BY <2>1, <2>2, <1>1, <1>2, <1>3, <1>4, <1>5
<1> QED
  BY <1>1, <1>2, <1>3, <1>4, <1>5, <1>6, <1>7, <1>8, <1>9, <1>10, <1>11, Zenon
     DEF IsLeftOver

\* A piece is left out as a whole, or stays as a whole.
Others(origin) == From({"primary", "depth", "jfif", "mpf"} \ {origin})

LEMMA PieceLeaves ==
    ASSUME NEW origin \in {"primary", "depth", "jfif", "mpf"},
           NEW one \in {"primary", "depth", "jfif", "mpf"}, NEW range \in DataRange
    PROVE  /\ Bytes(one, range) \in Seq(FileBytes)
           /\ one = origin => Without(Bytes(one, range), Others(origin)) = Bytes(one, range)
           /\ one # origin => Without(Bytes(one, range), Others(origin)) = <<>>
<1>1. Bytes(one, range) \in Seq({one} \X Nat)
  BY BytesOfOrigin
<1>2. CASE one = origin
  <2>1. \A e \in {one} \X Nat : e \notin Others(origin)
    BY <1>2 DEF Others, From
  <2> QED
    BY <1>1, <1>2, <2>1, WithoutNone, BytesType
<1>3. CASE one # origin
  <2>1. {one} \X Nat \subseteq Others(origin)
    BY <1>3 DEF Others, From
  <2> QED
    BY <1>1, <1>3, <2>1, WithoutAll, BytesType
<1> QED
  BY <1>2, <1>3

\* There is one new segment of each type: the second part of ImagesAreComplete.
LEMMA SegmentsThere ==
    ASSUME IInv, built = "true", NEW origin \in {"jfif", "mpf"}
    PROVE  \E n \in 1 .. Len(dest.written) :
              Without(dest.written, Others(origin)) = Bytes(origin, NewRange(0, n))
<1>1. PICK size \in Nat :
         /\ size > 0 /\ MpfSegmentLength \in Nat /\ MpfSegmentLength > 0
         /\ dest.written =
              ((((Bytes("primary", NewRange(0, FirstEnd)) \o Bytes("jfif", NewRange(0, size)))
                    \o Bytes("primary", SecondRange))
                    \o Bytes("mpf", NewRange(0, MpfSegmentLength)))
                    \o Bytes("primary", ThirdRange))
                    \o Bytes("depth", depth.image)
  BY SixPieces, Zenon
<1>2. /\ NewRange(0, FirstEnd) \in DataRange /\ NewRange(0, size) \in DataRange
      /\ SecondRange \in DataRange /\ NewRange(0, MpfSegmentLength) \in DataRange
      /\ ThirdRange \in DataRange /\ depth.image \in DataRange
  <2>1. PICK ib, ie, jb, je, mb, me, length \in Nat :
          /\ primary.length = length
          /\ primary.image = NewRange(ib, ie) /\ ie <= length
          /\ primary.jfif = NewRange(jb, je)
          /\ MpfPlace = NewRange(mb, me)
          /\ ib < jb /\ jb < je /\ je < ie
          /\ ib < mb /\ mb <= me /\ me < ie
          /\ je <= mb \/ me <= jb
    BY AtTheEnd, Zenon
  <2>2. FirstEnd \in Nat
    BY <2>1 DEF FirstEnd, Smaller, NewRange
  <2>3. PICK begin \in Nat : SecondRange = NewRange(begin, mb)
    BY <2>1, SecondPlace
  <2>4. ThirdRange = NewRange(me, ie)
    BY <2>1 DEF ThirdRange, NewRange
  <2>5. depth.image \in DataRange
    BY AtTheEnd
  <2> QED
    BY <1>1, <2>2, <2>3, <2>4, <2>5 DEF NewRange, DataRange
<1>0. /\ "primary" # origin /\ "depth" # origin
      /\ \A one, range : one \in {"primary", "depth", "jfif", "mpf"} /\ range \in DataRange =>
            /\ Bytes(one, range) \in Seq(FileBytes)
            /\ one = origin => Without(Bytes(one, range), Others(origin)) = Bytes(one, range)
            /\ one # origin => Without(Bytes(one, range), Others(origin)) = <<>>
  BY PieceLeaves
<1>3. PICK a : /\ a = Bytes("primary", NewRange(0, FirstEnd)) /\ a \in Seq(FileBytes)
               /\ Without(a, Others(origin)) = <<>>
  BY <1>0, <1>2
<1>4. PICK j : /\ j = Bytes("jfif", NewRange(0, size)) /\ j \in Seq(FileBytes)
               /\ Without(j, Others(origin)) = IF origin = "jfif" THEN j ELSE <<>>
  BY <1>0, <1>2
<1>5. PICK s : /\ s = Bytes("primary", SecondRange) /\ s \in Seq(FileBytes)
               /\ Without(s, Others(origin)) = <<>>
  BY <1>0, <1>2
<1>6. PICK m : /\ m = Bytes("mpf", NewRange(0, MpfSegmentLength)) /\ m \in Seq(FileBytes)
               /\ Without(m, Others(origin)) = IF origin = "mpf" THEN m ELSE <<>>
  BY <1>0, <1>2
<1>7. PICK t : /\ t = Bytes("primary", ThirdRange) /\ t \in Seq(FileBytes)
               /\ Without(t, Others(origin)) = <<>>
  BY <1>0, <1>2
<1>8. PICK d : /\ d = Bytes("depth", depth.image) /\ d \in Seq(FileBytes)
               /\ Without(d, Others(origin)) = <<>>
  BY <1>0, <1>2
<1>9. dest.written = ((((a \o j) \o s) \o m) \o t) \o d
  BY <1>1, <1>3, <1>4, <1>5, <1>6, <1>7, <1>8, Zenon
<1>10. IsLeftOver(Others(origin), a, j, s, m, t, d)
  <2>1. AreBytes(a, j, s, m, t, d)
    BY <1>3, <1>4, <1>5, <1>6, <1>7, <1>8, Zenon DEF AreBytes
  <2> QED
    BY <2>1, SixWithout, Zenon
<1>11. /\ Without(dest.written, Others(origin))
             = ((((Without(a, Others(origin)) \o Without(j, Others(origin)))
                    \o Without(s, Others(origin))) \o Without(m, Others(origin)))
                    \o Without(t, Others(origin))) \o Without(d, Others(origin))
       /\ Len(j) <= Len(dest.written) /\ Len(m) <= Len(dest.written)
  BY <1>9, <1>10, Zenon DEF IsLeftOver
<1>12. <<>> \in Seq(FileBytes) /\ <<>> \o <<>> = <<>>
  BY EmptySeq, ConcatEmptySeq
<1>13. Len(dest.written) \in Nat
  <2>1. dest.written \in Seq(FileBytes)
    BY <1>3, <1>4, <1>5, <1>6, <1>7, <1>8, <1>9, ConcatProperties
  <2> QED
    BY <2>1, LenProperties
<1>14. CASE origin = "jfif"
  <2>1. Without(dest.written, Others(origin))
           = ((((<<>> \o j) \o <<>>) \o <<>>) \o <<>>) \o <<>>
    <3>1. Without(j, Others(origin)) = j /\ Without(m, Others(origin)) = <<>>
      BY <1>4, <1>6, <1>14
    <3> QED
      BY <3>1, <1>3, <1>5, <1>7, <1>8, <1>11, Zenon
  <2>2. <<>> \o j = j /\ j \o <<>> = j
    BY <1>4, Nothing
  <2>3. Without(dest.written, Others(origin)) = Bytes(origin, NewRange(0, size))
    BY <1>4, <1>14, <2>1, <2>2, Zenon
  <2>4. Len(j) = size
    <3>1. Length(NewRange(0, size)) = size
      BY <1>1 DEF Length, IsValid, NewRange
    <3> QED
      BY <1>2, <1>4, <3>1, BytesType
  <2>5. size \in 1 .. Len(dest.written)
    BY <1>1, <1>11, <1>13, <2>4
  <2> QED
    BY <2>3, <2>5
<1>15. CASE origin = "mpf"
  <2>1. Without(dest.written, Others(origin))
           = ((((<<>> \o <<>>) \o <<>>) \o m) \o <<>>) \o <<>>
    <3>1. Without(j, Others(origin)) = <<>> /\ Without(m, Others(origin)) = m
      BY <1>4, <1>6, <1>15
    <3> QED
      BY <3>1, <1>3, <1>5, <1>7, <1>8, <1>11, Zenon
  <2>2. <<>> \o m = m /\ m \o <<>> = m
    BY <1>6, Nothing
  <2>3. Without(dest.written, Others(origin)) = Bytes(origin, NewRange(0, MpfSegmentLength))
    BY <1>6, <1>12, <1>15, <2>1, <2>2, Zenon
  <2>4. Len(m) = MpfSegmentLength
    <3>1. Length(NewRange(0, MpfSegmentLength)) = MpfSegmentLength
      BY <1>1 DEF Length, IsValid, NewRange
    <3> QED
      BY <1>2, <1>6, <3>1, BytesType
  <2>5. MpfSegmentLength \in 1 .. Len(dest.written)
    BY <1>1, <1>11, <1>13, <2>4
  <2> QED
    BY <2>3, <2>5
<1> QED
  BY <1>14, <1>15

-----------------------------------------------------------------------------
(***************************************************************************)
(* The theorems.                                                           *)
(***************************************************************************)
LEMMA NextHolds ==
    ASSUME IInv, [Next]_vars
    PROVE  IInv'
<1>1. CASE GetPrimaryImageData
  BY <1>1, PrimaryDataStep
<1>2. CASE GetDepthImageData
  BY <1>2, DepthDataStep
<1>3. CASE TransferFirst
  BY <1>3, FirstStep
<1>4. CASE TransferNewJfifSegment
  BY <1>4, JfifStep
<1>5. CASE TransferSecond
  BY <1>5, SecondStep
<1>6. CASE TransferNewMpfSegment
  BY <1>6, MpfStep
<1>7. CASE TransferThird
  BY <1>7, ThirdStep
<1>8. CASE TransferDepthImage
  BY <1>8, ImageStep
<1>9. CASE Return
  BY <1>9, ReturnStep
<1>10. CASE UNCHANGED vars
  BY <1>10, StutterStep
<1> QED
  BY <1>1, <1>2, <1>3, <1>4, <1>5, <1>6, <1>7, <1>8, <1>9, <1>10 DEF Next

LEMMA TypesThere ==
    ASSUME IInv
    PROVE  TypeOK
<1>1. primary \in PrimaryFile /\ depth \in DepthFile
  BY FilesAssumption DEF IInv, FilesAreGiven
<1>2. sources \in [{"primary", "depth"} -> DataSource]
  <2>1. InvalidRange \in DataRange
    BY DEF InvalidRange, NewRange, DataRange
  <2>2. sources["primary"] \in DataSource /\ sources["depth"] \in DataSource
    BY <2>1 DEF IInv, SourcesFit, IsSourceOf, HasContent
  <2>3. sources = [origin \in {"primary", "depth"} |-> sources[origin]]
    BY DEF IInv, SourcesFit
  <2> QED
    BY <2>2, <2>3
<1>3. /\ dest.written \in Seq({"primary", "depth", "jfif", "mpf"} \X Nat)
      /\ dest.bytes_transferred <= Len(dest.written)
      /\ dest.room \in Nat /\ dest.has_error \in BOOLEAN
  BY DEF IInv, Types, OStreams, FileBytes
<1> QED
  BY <1>1, <1>2, <1>3 DEF IInv, Types, TypeOK

\* The inductive invariant: at every stage of Run, what has been written is what the
\* stage says, and a run that failed has a cause.
THEOREM Invariance == Spec => []IInv
<1>1. Init => IInv
  BY InitHolds
<1>2. IInv /\ [Next]_vars => IInv'
  BY NextHolds
<1> QED
  BY <1>1, <1>2, PTL DEF Spec

\* The types of the builder's variables (TypeOK).
THEOREM TypeCorrect == Spec => []TypeOK
<1>1. IInv => TypeOK
  BY TypesThere
<1> QED
  BY <1>1, Invariance, PTL

\* Run fails only if something is missing in the files or could not be written, for
\* every state in which the scans may leave the sources (FailureHasACause).
THEOREM Causes == Spec => []FailureHasACause
<1>1. IInv => FailureHasACause
  BY Zenon DEF IInv, FailuresHaveCauses, Cause, FailureHasACause
<1> QED
  BY <1>1, Invariance, PTL

\* The images are in the file, each byte once and in order, and one new segment of each
\* type (ImagesAreComplete): for every order of the segments, and whether there was an
\* MPF segment or not.
THEOREM Images == Spec => []ImagesAreComplete
<1>1. IInv => ImagesAreComplete
  <2> SUFFICES ASSUME IInv, built = "true"
               PROVE  /\ Twice(dest.written, Made, OldJfif)
                            = Twice(Bytes("primary", NewRange(0, primary.image.end)),
                                    OldJfif, OldMpf) \o Bytes("depth", depth.image)
                      /\ \A origin \in {"jfif", "mpf"} :
                            \E n \in 1 .. Len(dest.written) :
                               Without(dest.written, Others(origin))
                                  = Bytes(origin, NewRange(0, n))
    BY Zenon DEF ImagesAreComplete, Twice, Made, Others
  <2> QED
    BY ImagesThere, SegmentsThere
<1> QED
  BY <1>1, Invariance, PTL

\* Where the JFIF segment comes first, the new one is at its place, and nothing of the
\* old one is in the file (JfifIsReplaced).
THEOREM JfifReplacement == Spec => []JfifIsReplaced
<1>1. IInv => JfifIsReplaced
  BY JfifThere
<1> QED
  BY <1>1, Invariance, PTL

\* The length in the MPF segment is that of what comes before the depth image
\* (PrimaryLengthIsRight).
THEOREM PrimaryLength == Spec => []PrimaryLengthIsRight
<1>1. IInv => PrimaryLengthIsRight
  BY LengthThere
<1> QED
  BY <1>1, Invariance, PTL
-----------------------------------------------------------------------------
(***************************************************************************)
(* AppleImageExtraction: what is extracted from the file that was made,    *)
(* whatever the scan leaves in the source, wherever the file is cut, and   *)
(* for any destination.                                                    *)
(*                                                                         *)
(* The inductive invariant is that of the builder, and that the file that  *)
(* is open holds what the builder has written.                             *)
(***************************************************************************)
IsFile(source) ==
    /\ source.open
    /\ \A range \in DataRange :
          HasContent(FileBytes, Len(dest.written), FileContent, source, range)

FileIsThere ==
    /\ IsOpen => built = "true" /\ IsFile(file)
    /\ ~IsOpen => file = NewIStream(0, FALSE)

ExtractionTypes ==
    /\ target \in OStreams(FileBytes)
    /\ asked \in 0 .. MaxExtractions
    /\ extracted \in {"none", "true", "false"}

EInv == IInv /\ FileIsThere /\ ExtractionTypes

LEMMA NewOStreamType == ASSUME NEW S, NEW room \in Nat PROVE NewOStream(room) \in OStreams(S)
<1>1. <<>> \in Seq(S) /\ Len(<<>>) = 0
  OBVIOUS
<1> QED
  BY <1>1 DEF NewOStream, OStreams

LEMMA ExtractionInitHolds == ExtractionInit => EInv
<1> SUFFICES ASSUME ExtractionInit
             PROVE  EInv
  OBVIOUS
<1>1. IInv
  BY InitHolds DEF ExtractionInit
<1>2. file = NewIStream(0, FALSE) /\ file.kind = "istream" /\ file.open = FALSE
  BY DEF ExtractionInit, NewIStream
<1>3. FileIsThere
  BY <1>2, Zenon DEF FileIsThere, IsOpen
<1>4. target \in OStreams(FileBytes)
  BY NewOStreamType DEF ExtractionInit
<1>5. ExtractionTypes
  BY <1>4, MaxExtractionsAssumption DEF ExtractionInit, ExtractionTypes
<1> QED
  BY <1>1, <1>3, <1>5 DEF EInv

-----------------------------------------------------------------------------
(***************************************************************************)
(* The file.                                                               *)
(***************************************************************************)
LEMMA FileContentType ==
    ASSUME IInv
    PROVE  /\ Len(dest.written) \in Nat /\ dest.written \in Seq(FileBytes)
           /\ FileContent \in Contents(Len(dest.written), FileBytes)
<1>1. dest.written \in Seq(FileBytes)
  BY DEF IInv, Types, OStreams
<1>2. PICK n \in Nat : n = Len(dest.written)
  BY <1>1, LenProperties
<1>3. ASSUME NEW place \in 0 .. n - 1
      PROVE  dest.written[place + 1] \in FileBytes
  <2>1. place + 1 \in 1 .. Len(dest.written)
    BY <1>2
  <2> QED
    BY <1>1, <2>1, ElementOfSeq
<1> QED
  BY <1>1, <1>2, <1>3 DEF FileContent, Contents

\* A source that was scanned holds what the builder has written.
LEMMA ScannedFile ==
    ASSUME IInv, NEW source \in AfterScan(Len(dest.written))
    PROVE  IsFile(source)
<1>1. /\ Len(dest.written) \in Nat
      /\ FileContent \in Contents(Len(dest.written), FileBytes)
  BY FileContentType
<1>2. IsSourceOf(source, "primary", Len(dest.written))
  BY <1>1, ScannedIsSource
<1>3. ASSUME NEW range \in DataRange
      PROVE  HasContent(FileBytes, Len(dest.written), FileContent, source, range)
  <2>1. HasContent(FileBytes, Len(dest.written), Content("primary", Len(dest.written)),
                   source, range)
    BY <1>2, Zenon DEF IsSourceOf
  <2> QED
    BY <1>1, <2>1, Zenon DEF HasContent
<1> QED
  BY <1>2, <1>3, Zenon DEF IsSourceOf, IsFile

\* A file that was read is the same file.
LEMMA FileRead ==
    ASSUME NEW source, IsFile(source), NEW next, IsReadFrom(source, next)
    PROVE  /\ IsFile(next) /\ next.extent = source.extent
           /\ (next.kind = "memory" \/ next.open)
<1>1. source \in DataSource /\ source.open
  <2>1. InvalidRange \in DataRange
    BY DEF InvalidRange, NewRange, DataRange
  <2> QED
    BY <2>1, Zenon DEF IsFile, HasContent
<1>2. /\ next \in DataSource /\ next.extent = source.extent /\ next.open = source.open
      /\ next.cached = source.cached /\ next.kind = source.kind
  BY <1>1 DEF IsReadFrom, DataSource
<1>3. ASSUME NEW range \in DataRange
      PROVE  HasContent(FileBytes, Len(dest.written), FileContent, next, range)
  <2>1. HasContent(FileBytes, Len(dest.written), FileContent, source, range)
    BY Zenon DEF IsFile
  <2> QED
    BY <1>2, <2>1 DEF HasContent
<1> QED
  BY <1>1, <1>2, <1>3 DEF IsFile

-----------------------------------------------------------------------------
(***************************************************************************)
(* Where the depth image is in the file.                                   *)
(***************************************************************************)
LEMMA FrontThere ==
    ASSUME IInv, built = "true"
    PROVE  AfterThird \in Seq(NotFrom("depth"))
<1>1. jfif_delta \in Nat /\ MpfSegmentLength \in Nat
  BY AtTheEnd
<1>2. PICK ib, ie, jb, je, mb, me, length \in Nat :
        /\ primary.length = length
        /\ primary.image = NewRange(ib, ie) /\ ie <= length
        /\ primary.jfif = NewRange(jb, je)
        /\ MpfPlace = NewRange(mb, me)
        /\ ib < jb /\ jb < je /\ je < ie
        /\ ib < mb /\ mb <= me /\ me < ie
        /\ je <= mb \/ me <= jb
  BY AtTheEnd, Zenon
<1>3. PICK first \in Nat : first = FirstEnd
  BY <1>2 DEF FirstEnd, Smaller, NewRange
<1>4. PICK size \in Nat : size = Length(primary.jfif) + jfif_delta
  <2>1. Length(primary.jfif) = je - jb
    BY <1>2 DEF Length, IsValid, NewRange
  <2> QED
    BY <1>1, <1>2, <2>1
<1>5. PICK second \in Nat : SecondRange = NewRange(second, mb)
  BY <1>2, SecondPlace
<1>6. ThirdRange = NewRange(me, ie)
  BY <1>2 DEF ThirdRange, NewRange
<1>7. \A origin \in {"primary", "jfif", "mpf"} : \A begin, end \in Nat :
         Bytes(origin, NewRange(begin, end)) \in Seq(NotFrom("depth"))
  <2> TAKE origin \in {"primary", "jfif", "mpf"}
  <2> TAKE begin, end \in Nat
  <2>1. NewRange(begin, end) \in DataRange
    BY DEF NewRange, DataRange
  <2> QED
    BY <2>1, BytesFrom
<1>8. AfterFirst \in Seq(NotFrom("depth"))
  BY <1>3, <1>7 DEF AfterFirst
<1>9. AfterJfif \in Seq(NotFrom("depth"))
  <2>1. Bytes("jfif", NewRange(0, size)) \in Seq(NotFrom("depth"))
    BY <1>7
  <2> QED
    BY <1>4, <1>8, <2>1, ConcatProperties DEF AfterJfif
<1>10. AfterSecond \in Seq(NotFrom("depth"))
  <2>1. Bytes("primary", SecondRange) \in Seq(NotFrom("depth"))
    BY <1>5, <1>7
  <2> QED
    BY <1>9, <2>1, ConcatProperties DEF AfterSecond
<1>11. AfterMpf \in Seq(NotFrom("depth"))
  <2>1. Bytes("mpf", NewRange(0, MpfSegmentLength)) \in Seq(NotFrom("depth"))
    BY <1>1, <1>7
  <2> QED
    BY <1>10, <2>1, ConcatProperties DEF AfterMpf
<1>12. AfterThird \in Seq(NotFrom("depth"))
  <2>1. Bytes("primary", ThirdRange) \in Seq(NotFrom("depth"))
    BY <1>6, <1>7
  <2> QED
    BY <1>11, <2>1, ConcatProperties DEF AfterThird
<1> QED
  BY <1>12

\* The range of the second image is that of the depth image, up to the end of the file.
LEMMA DepthThere ==
    ASSUME IInv, built = "true"
    PROVE  \E begin, end \in Nat :
              /\ ImageRange("depth") = NewRange(begin, end) /\ begin < end
              /\ Piece(FileContent, begin, end) = Bytes("depth", depth.image)
<1>1. /\ depth.image \in DataRange /\ IsValid(depth.image)
      /\ dest.written = AfterThird \o Bytes("depth", depth.image)
  BY AtTheEnd DEF AfterImage
<1>2. PICK front \in Seq(NotFrom("depth")) : front = AfterThird
  BY FrontThere
<1>3. PICK image \in Seq(FileBytes), m \in Nat :
        /\ image = Bytes("depth", depth.image) /\ m = Length(depth.image) /\ m > 0
        /\ Len(image) = m
  <2>1. depth.image.end - depth.image.begin \in Nat
        /\ depth.image.end - depth.image.begin > 0
    BY <1>1 DEF IsValid, DataRange
  <2>2. Length(depth.image) \in Nat /\ Length(depth.image) > 0
    BY <1>1, <2>1 DEF Length
  <2>3. /\ Bytes("depth", depth.image) \in Seq(FileBytes)
        /\ Len(Bytes("depth", depth.image)) = Length(depth.image)
    BY <1>1, BytesType
  <2> QED
    BY <2>2, <2>3, Zenon
<1>4. PICK k \in Nat : k = Len(front)
  BY <1>2, LenProperties
<1>5. IsFirst(dest.written, "depth", k)
  BY <1>1, <1>2, <1>4, FirstMade
<1>6. FirstOf("depth") = k
  BY <1>5, FirstFound
<1>7. ImageRange("depth") = NewRange(k, k + m)
  BY <1>3, <1>6 DEF ImageRange
<1>8. front \in Seq(FileBytes)
  BY <1>2 DEF NotFrom
<1>9. /\ dest.written \in Seq(FileBytes) /\ Len(dest.written) = k + m
      /\ \A n \in 1 .. m : dest.written[k + n] = image[n]
  BY <1>1, <1>2, <1>3, <1>4, <1>8, ConcatProperties
<1>10. \A n \in 1 .. m : FileContent[k + n - 1] = image[n]
  <2> TAKE n \in 1 .. m
  <2>1. k + n - 1 \in 0 .. Len(dest.written) - 1 /\ k + n - 1 + 1 = k + n
    BY <1>9
  <2> QED
    BY <1>9, <2>1 DEF FileContent
<1>11. Piece(FileContent, k, k + m) = image
  <2>1. k + m - k = m
    OBVIOUS
  <2>2. Piece(FileContent, k, k + m) = [n \in 1 .. m |-> FileContent[k + n - 1]]
    BY <2>1 DEF Piece
  <2>3. image = [n \in 1 .. m |-> image[n]]
    BY <1>3
  <2> QED
    BY <1>10, <2>2, <2>3
<1>12. k + m \in Nat /\ k < k + m
  BY <1>3
<1> QED
  BY <1>3, <1>7, <1>11, <1>12

-----------------------------------------------------------------------------
(***************************************************************************)
(* The transfer of an image.                                               *)
(***************************************************************************)
\* What is transferred of a range if the destination has not failed before.
IsExtracted(range, outcome) ==
    \E upto \in Nat :
        /\ upto = Available(file, range) /\ range.begin <= upto
        /\ outcome.dest.disjoint = FALSE
        /\ outcome.dest.tracked = Covered(range.begin, upto)
        /\ outcome.dest.next.written
              = target.written \o Piece(FileContent, range.begin, upto)
        /\ outcome.result = "success" <=> upto > range.begin

LEMMA ImageTransfer ==
    ASSUME EInv, IsOpen, NEW range \in DataRange, IsValid(range), NEW outcome,
           outcome = TransferData(file, FileContent, range, Track(target))
    PROVE  /\ IsReadFrom(file, outcome.source)
           /\ outcome.dest.next \in OStreams(FileBytes)
           /\ target.has_error => outcome.dest.next = target
           /\ ~target.has_error => \/ /\ outcome.dest.next.has_error
                                      /\ outcome.result # "success"
                                   \/ IsExtracted(range, outcome)
<1>1. /\ HasContent(FileBytes, Len(dest.written), FileContent, file, range)
      /\ file \in DataSource /\ file.open
  BY Zenon DEF EInv, FileIsThere, IsFile, HasContent
<1>2. target \in OStreams(FileBytes)
  BY DEF EInv, ExtractionTypes
<1>3. CASE target.has_error
  <2>1. target.kind = "ostream"
    BY <1>2 DEF OStreams
  <2>2. IsReadFrom(file, outcome.source) /\ IsInFront(outcome.dest, target)
    BY <1>1, <1>3, <2>1, FailedOutcome, Zenon
  <2>3. outcome.dest.next = target
    BY <2>2 DEF IsInFront, Tracking
  <2> QED
    BY <1>2, <1>3, <2>2, <2>3
<1>4. CASE ~target.has_error
  <2>1. PICK plain : plain = TransferData(file, FileContent, range, target)
    OBVIOUS
  <2>2. Transferred(FileBytes, FileContent, range.begin, Available(file, range), file,
                    target, plain)
    BY <1>1, <1>2, <1>4, <2>1, TransferOutcome, Zenon
  <2>3. /\ outcome.source = plain.source /\ outcome.result = plain.result
        /\ Tracks(outcome.dest, plain.dest, range.begin, Available(file, range))
    <3>1. LET one == TransferData(file, FileContent, range, target)
              tracked == TransferData(file, FileContent, range, Track(target))
          IN  /\ tracked.source = one.source /\ tracked.result = one.result
              /\ Tracks(tracked.dest, one.dest, range.begin, Available(file, range))
      BY <1>1, <1>2, <1>4, TrackedOutcome, Zenon
    <3> QED
      BY <2>1, <3>1, Zenon
  <2>4. PICK t, b, d :
          /\ outcome.dest = Tracking(plain.dest, t, b, d)
          /\ ~plain.dest.has_error =>
                d = FALSE /\ t = Covered(range.begin, Available(file, range))
    BY <2>3, Zenon DEF Tracks
  <2>5. /\ outcome.dest.next = plain.dest /\ outcome.dest.tracked = t
        /\ outcome.dest.disjoint = d
    BY <2>4 DEF Tracking
  <2>6. IsReadFrom(file, outcome.source) /\ outcome.dest.next \in OStreams(FileBytes)
    BY <2>2, <2>3, <2>5, Zenon DEF Transferred, IsReadFrom
  <2>7. CASE plain.dest.has_error
    <3>1. plain.result = "error"
      BY <2>2, <2>7, Zenon DEF Transferred
    <3>2. outcome.dest.next.has_error /\ outcome.result # "success"
      BY <2>3, <2>5, <2>7, <3>1
    <3> QED
      BY <1>4, <2>6, <3>2
  <2>8. CASE ~plain.dest.has_error
    <3>1. PICK upto \in Nat : upto = Available(file, range)
      <4>1. PICK x \in Nat : x = file.extent.end
        BY <1>1 DEF DataSource, DataRange
      <4>2. range.begin \in Nat /\ range.end \in Nat
        BY DEF DataRange
      <4>3. Available(file, range) \in Nat
        BY <1>1, <4>1, <4>2 DEF Available, ReadsUpTo, Larger, Smaller
      <4> QED
        BY <4>3
    <3>2. /\ range.begin <= upto
          /\ plain.dest = Wrote(target, Piece(FileContent, range.begin, upto))
          /\ plain.result = "success" <=> upto > range.begin
      BY <2>2, <2>8, <3>1, Zenon DEF Transferred
    <3>3. plain.dest.written = target.written \o Piece(FileContent, range.begin, upto)
      BY <1>2, <3>2 DEF Wrote, OStreams
    <3>4. d = FALSE /\ t = Covered(range.begin, upto)
      BY <2>4, <2>8, <3>1, Zenon
    <3>5. IsExtracted(range, outcome)
      BY <2>3, <2>5, <3>1, <3>2, <3>3, <3>4, Zenon DEF IsExtracted
    <3> QED
      BY <1>4, <2>6, <3>5
  <2> QED
    BY <2>7, <2>8
<1> QED
  BY <1>3, <1>4
-----------------------------------------------------------------------------
(***************************************************************************)
(* The steps.                                                              *)
(***************************************************************************)
LEMMA FileKept ==
    ASSUME UNCHANGED dest, IsFile(file')
    PROVE  IsFile(file)'
<1>1. FileContent' = FileContent /\ dest' = dest
  BY DEF FileContent
<1> QED
  BY <1>1, Zenon DEF IsFile

LEMMA AfterReturn ==
    ASSUME IInv, built = "true"
    PROVE  ~Next
<1>1. stage = "returned"
  BY DEF IInv, Types
<1> QED
  BY <1>1 DEF Next, GetPrimaryImageData, GetDepthImageData, TransferFirst,
              TransferNewJfifSegment, TransferSecond, TransferNewMpfSegment,
              TransferThird, TransferDepthImage, Return

LEMMA BuildStep ==
    ASSUME EInv, Build
    PROVE  EInv'
<1>1. Next /\ file' = file /\ target' = target /\ asked' = asked /\ extracted' = extracted
  BY DEF Build, extraction
<1>2. ~IsOpen
  BY <1>1, AfterReturn DEF EInv, FileIsThere
<1>3. IInv'
  BY <1>1, NextHolds DEF EInv
<1>4. FileIsThere'
  <2>1. IsOpen' = IsOpen
    BY <1>1 DEF IsOpen
  <2> QED
    BY <1>1, <1>2, <2>1, Zenon DEF EInv, FileIsThere
<1>5. ExtractionTypes'
  BY <1>1 DEF EInv, ExtractionTypes
<1> QED
  BY <1>3, <1>4, <1>5 DEF EInv

LEMMA ScanStep ==
    ASSUME EInv, Scan
    PROVE  EInv'
<1>1. /\ built = "true" /\ file' \in AfterScan(Len(dest.written))
      /\ UNCHANGED vars /\ asked' = asked /\ extracted' = extracted
      /\ \E room \in Rooms : target' = NewOStream(room)
  BY DEF Scan
<1>2. IInv'
  BY <1>1, NextHolds DEF EInv
<1>3. dest' = dest /\ built' = built
  BY <1>1 DEF vars
<1>4. IsFile(file')
  BY <1>1, ScannedFile DEF EInv
<1>5. IsFile(file)'
  BY <1>3, <1>4, FileKept
<1>6. FileIsThere'
  <2>1. IsOpen'
    BY <1>4 DEF IsFile, IsOpen
  <2> QED
    BY <1>1, <1>3, <1>5, <2>1 DEF FileIsThere
<1>7. target' \in OStreams(FileBytes)
  BY <1>1, NewOStreamType, BoundsAssumption
<1>8. ExtractionTypes'
  BY <1>1, <1>7 DEF EInv, ExtractionTypes
<1> QED
  BY <1>2, <1>6, <1>8 DEF EInv

\* What ExtractImage does if there is such an image, and if there is none.
LEMMA ExtractCases ==
    ASSUME EInv, NEW image \in {"depth", "matte"}, Extract(image)
    PROVE  /\ IsOpen /\ asked < MaxExtractions /\ asked' = asked + 1 /\ UNCHANGED vars
           /\ \/ image = "matte" /\ extracted' = "false" /\ UNCHANGED <<file, target>>
              \/ \E begin, end \in Nat :
                    /\ image = "depth" /\ begin < end
                    /\ ImageRange("depth") = NewRange(begin, end)
                    /\ Piece(FileContent, begin, end) = Bytes("depth", depth.image)
                    /\ \E outcome :
                          /\ outcome = TransferData(file, FileContent,
                                                    NewRange(begin, end), Track(target))
                          /\ target' = outcome.dest.next /\ file' = outcome.source
                          /\ extracted' = IF Succeeded(outcome, NewRange(begin, end))
                                          THEN "true" ELSE "false"
<1>1. /\ IsOpen /\ asked < MaxExtractions /\ asked' = asked + 1 /\ UNCHANGED vars
      /\ IF IsValid(ImageRange(image))
         THEN \E outcome :
                /\ outcome = TransferData(file, FileContent, ImageRange(image), Track(target))
                /\ target' = outcome.dest.next /\ file' = outcome.source
                /\ extracted' = IF Succeeded(outcome, ImageRange(image))
                                THEN "true" ELSE "false"
         ELSE extracted' = "false" /\ UNCHANGED <<file, target>>
  BY Zenon DEF Extract
<1>2. CASE image = "matte"
  <2>1. ~IsValid(ImageRange(image))
    BY <1>2 DEF ImageRange, InvalidRange, NewRange, IsValid
  <2> QED
    BY <1>1, <1>2, <2>1
<1>3. CASE image = "depth"
  <2>1. IInv /\ built = "true"
    BY <1>1 DEF EInv, FileIsThere
  <2>2. \E begin, end \in Nat :
           /\ ImageRange("depth") = NewRange(begin, end) /\ begin < end
           /\ Piece(FileContent, begin, end) = Bytes("depth", depth.image)
    BY <2>1, DepthThere, Zenon
  <2>3. PICK begin \in Nat, end \in Nat :
           /\ ImageRange("depth") = NewRange(begin, end) /\ begin < end
           /\ Piece(FileContent, begin, end) = Bytes("depth", depth.image)
    BY <2>2, Zenon
  <2>4. IsValid(ImageRange(image)) /\ ImageRange(image) = NewRange(begin, end)
    BY <1>3, <2>3 DEF IsValid, NewRange
  <2> QED
    BY <1>1, <1>3, <2>3, <2>4, Zenon
<1> QED
  BY <1>2, <1>3

LEMMA ExtractStep ==
    ASSUME EInv, NEW image \in {"depth", "matte"}, Extract(image)
    PROVE  EInv'
<1>1. /\ IsOpen /\ asked < MaxExtractions /\ asked' = asked + 1 /\ UNCHANGED vars
      /\ extracted' \in {"true", "false"}
  BY Zenon, ExtractCases
<1>2. IInv' /\ dest' = dest /\ built' = built
  <2>1. UNCHANGED vars
    BY <1>1
  <2> QED
    BY <2>1, NextHolds DEF EInv, vars
<1>3. built = "true" /\ IsFile(file) /\ target \in OStreams(FileBytes)
  BY <1>1 DEF EInv, FileIsThere, ExtractionTypes
<1>4. /\ IsFile(file') /\ (file'.kind = "memory" \/ file'.open)
      /\ target' \in OStreams(FileBytes)
  <2>1. CASE UNCHANGED <<file, target>>
    BY <1>1, <1>3, <2>1 DEF IsOpen
  <2>2. ASSUME NEW begin \in Nat, NEW end \in Nat, begin < end,
               NEW outcome,
               outcome = TransferData(file, FileContent, NewRange(begin, end), Track(target)),
               target' = outcome.dest.next, file' = outcome.source
        PROVE  /\ IsFile(file') /\ (file'.kind = "memory" \/ file'.open)
               /\ target' \in OStreams(FileBytes)
    <3>1. NewRange(begin, end) \in DataRange /\ IsValid(NewRange(begin, end))
      BY <2>2 DEF NewRange, DataRange, IsValid
    <3>2. IsReadFrom(file, outcome.source) /\ outcome.dest.next \in OStreams(FileBytes)
      BY <1>1, <2>2, <3>1, ImageTransfer, Zenon
    <3>3. IsFile(outcome.source) /\ (outcome.source.kind = "memory" \/ outcome.source.open)
      BY <1>3, <3>2, FileRead, Zenon
    <3> QED
      BY <2>2, <3>2, <3>3, Zenon
  <2>3. \/ UNCHANGED <<file, target>>
        \/ \E begin, end \in Nat : \E outcome :
              /\ begin < end
              /\ outcome = TransferData(file, FileContent, NewRange(begin, end), Track(target))
              /\ target' = outcome.dest.next /\ file' = outcome.source
    BY ExtractCases, Zenon
  <2> QED
    BY <2>1, <2>2, <2>3, Zenon
<1>5. IsFile(file)' /\ IsOpen'
  BY <1>2, <1>4, FileKept DEF IsOpen
<1>6. FileIsThere'
  BY <1>2, <1>3, <1>5 DEF FileIsThere
<1>7. ExtractionTypes'
  <2>1. asked \in 0 .. MaxExtractions
    BY DEF EInv, ExtractionTypes
  <2>2. asked' \in 0 .. MaxExtractions
    BY <1>1, <2>1, MaxExtractionsAssumption
  <2> QED
    BY <1>1, <1>4, <2>2 DEF ExtractionTypes
<1> QED
  BY <1>2, <1>6, <1>7 DEF EInv

LEMMA ExtractionHolds ==
    ASSUME EInv, [ExtractionNext]_allvars
    PROVE  EInv'
<1>1. CASE Build
  BY <1>1, BuildStep
<1>2. CASE Scan
  BY <1>2, ScanStep
<1>3. CASE \E image \in {"depth", "matte"} : Extract(image)
  BY <1>3, ExtractStep
<1>4. CASE UNCHANGED allvars
  <2>1. UNCHANGED vars /\ file' = file /\ target' = target /\ asked' = asked
        /\ extracted' = extracted
    BY <1>4 DEF allvars, extraction
  <2>2. IInv'
    BY <2>1, NextHolds DEF EInv
  <2>3. dest' = dest /\ built' = built
    BY <2>1 DEF vars
  <2>4. IsOpen' = IsOpen
    BY <2>1 DEF IsOpen
  <2>5. FileIsThere'
    BY <2>1, <2>3, <2>4, FileKept DEF EInv, FileIsThere
  <2>6. ExtractionTypes'
    BY <2>1 DEF EInv, ExtractionTypes
  <2> QED
    BY <2>2, <2>5, <2>6 DEF EInv
<1> QED
  BY <1>1, <1>2, <1>3, <1>4 DEF ExtractionNext
-----------------------------------------------------------------------------
(***************************************************************************)
(* The theorems.                                                           *)
(***************************************************************************)
\* The inductive invariant: an open file is one that Run has returned true for, and it
\* holds the bytes that were written, whatever was extracted from it so far.
THEOREM ExtractionInvariance == ExtractionSpec => []EInv
<1>1. ExtractionInit => EInv
  BY ExtractionInitHolds
<1>2. EInv /\ [ExtractionNext]_allvars => EInv'
  BY ExtractionHolds
<1> QED
  BY <1>1, <1>2, PTL DEF ExtractionSpec

\* The types of the variables of the extraction and the builder (ExtractionTypeOK).
THEOREM ExtractionTypeCorrect == ExtractionSpec => []ExtractionTypeOK
<1>1. EInv => ExtractionTypeOK
  <2> SUFFICES ASSUME EInv
               PROVE  ExtractionTypeOK
    OBVIOUS
  <2>1. TypeOK
    BY TypesThere DEF EInv
  <2>2. file \in DataSource
    <3>1. CASE IsOpen
      <4>1. InvalidRange \in DataRange
        BY DEF InvalidRange, NewRange, DataRange
      <4> QED
        BY <3>1, <4>1, Zenon DEF EInv, FileIsThere, IsFile, HasContent
    <3>2. CASE ~IsOpen
      <4>1. file = NewIStream(0, FALSE)
        BY <3>2 DEF EInv, FileIsThere
      <4> QED
        BY <4>1 DEF NewIStream, NewRange, DataSource, DataRange, DataSegment
    <3> QED
      BY <3>1, <3>2
  <2>3. /\ target.written \in Seq({"primary", "depth", "jfif", "mpf"} \X Nat)
        /\ target.bytes_transferred <= Len(target.written)
    BY DEF EInv, ExtractionTypes, OStreams, FileBytes
  <2> QED
    BY <2>1, <2>2, <2>3 DEF EInv, ExtractionTypes, ExtractionTypeOK
<1> QED
  BY <1>1, ExtractionInvariance, PTL

\* What holds of the file holds while images are extracted from it, for the extraction
\* changes nothing of it: the properties of the builder are those of ExtractionSpec too.
THEOREM ExtractionKeepsTheFile == ExtractionSpec => Spec
<1>1. ExtractionInit => Init
  BY DEF ExtractionInit
<1>2. [ExtractionNext]_allvars => [Next]_vars
  <2> SUFFICES ASSUME [ExtractionNext]_allvars
               PROVE  [Next]_vars
    OBVIOUS
  <2>1. CASE Build
    BY <2>1 DEF Build
  <2>2. CASE Scan
    BY <2>2 DEF Scan
  <2>3. CASE \E image \in {"depth", "matte"} : Extract(image)
    BY <2>3, Zenon DEF Extract
  <2>4. CASE UNCHANGED allvars
    BY <2>4 DEF allvars
  <2> QED
    BY <2>1, <2>2, <2>3, <2>4 DEF ExtractionNext
<1> QED
  BY <1>1, <1>2, PTL DEF ExtractionSpec, Spec

\* An image that ExtractImage says it has extracted is, byte by byte, the depth image of
\* the file it was made from (ExtractedIsTheDepthImage): for every scan, every file that
\* was cut, every size of the chunks, and whatever was extracted before.
THEOREM Extraction == ExtractionSpec => ExtractedIsTheDepthImage
<1>1. ASSUME EInv, [ExtractionNext]_allvars,
             asked' # asked, extracted' = "true", ~target.has_error
      PROVE  target'.written = target.written \o Bytes("depth", depth.image)
  <2>1. ~Build /\ ~Scan /\ ~UNCHANGED allvars
    BY <1>1 DEF Build, Scan, extraction, allvars
  <2>2. PICK image \in {"depth", "matte"} : Extract(image)
    BY <1>1, <2>1 DEF ExtractionNext
  <2>3. IsOpen
    BY <2>2, Zenon DEF Extract
  <2>4. \E begin, end, outcome :
           /\ begin \in Nat /\ end \in Nat /\ begin < end
           /\ Piece(FileContent, begin, end) = Bytes("depth", depth.image)
           /\ outcome = TransferData(file, FileContent, NewRange(begin, end), Track(target))
           /\ target' = outcome.dest.next
           /\ Succeeded(outcome, NewRange(begin, end))
    <3>1. "false" # "true"
      OBVIOUS
    <3> QED
      BY <1>1, <2>2, <3>1, ExtractCases, Zenon
  <2>5. PICK begin, end, outcome :
           /\ begin \in Nat /\ end \in Nat /\ begin < end
           /\ Piece(FileContent, begin, end) = Bytes("depth", depth.image)
           /\ outcome = TransferData(file, FileContent, NewRange(begin, end), Track(target))
           /\ target' = outcome.dest.next
           /\ Succeeded(outcome, NewRange(begin, end))
    BY <2>4, Zenon
  <2>6. PICK range : range = NewRange(begin, end)
    OBVIOUS
  <2>7. range \in DataRange /\ IsValid(range) /\ range.begin = begin /\ range.end = end
    BY <2>5, <2>6 DEF NewRange, DataRange, IsValid
  <2>8. outcome.result = "success" /\ outcome.dest.tracked = range
    BY <2>5, <2>6, Zenon DEF Succeeded
  <2>9. IsExtracted(range, outcome)
    BY <1>1, <2>3, <2>5, <2>6, <2>7, <2>8, ImageTransfer, Zenon
  <2>10. PICK upto \in Nat :
            /\ range = Covered(begin, upto)
            /\ target'.written = target.written \o Piece(FileContent, begin, upto)
            /\ upto > begin
    BY <2>5, <2>7, <2>8, <2>9, Zenon DEF IsExtracted
  <2>11. upto = end
    BY <2>7, <2>10 DEF Covered, NewRange
  <2> QED
    BY <2>5, <2>10, <2>11
<1>2. EInv /\ [ExtractionNext]_allvars =>
         [asked' # asked /\ extracted' = "true" /\ ~target.has_error =>
             target'.written = target.written \o Bytes("depth", depth.image)]_allvars
  BY <1>1
<1> QED
  BY <1>2, ExtractionInvariance, PTL DEF ExtractionSpec, ExtractedIsTheDepthImage

\* The depth image is not extracted only if the file ends before it does or the
\* destination has failed (FailureLosesNothing), whatever was extracted before.
THEOREM NothingIsLost == ExtractionSpec => FailureLosesNothing
<1>1. ASSUME EInv, Extract("depth"), extracted' = "false"
      PROVE  target'.has_error \/ ImageRange("depth").end > file.extent.end
  <2>1. IsOpen
    BY <1>1, Zenon DEF Extract
  <2>2. \E begin, end, outcome :
           /\ begin \in Nat /\ end \in Nat /\ begin < end /\ ImageRange("depth") = NewRange(begin, end)
           /\ outcome = TransferData(file, FileContent, NewRange(begin, end), Track(target))
           /\ target' = outcome.dest.next
           /\ ~Succeeded(outcome, NewRange(begin, end))
    <3>1. "false" # "true" /\ "depth" # "matte" /\ "depth" \in {"depth", "matte"}
      OBVIOUS
    <3> QED
      BY <1>1, <3>1, ExtractCases, Zenon
  <2>3. PICK begin, end, outcome :
           /\ begin \in Nat /\ end \in Nat /\ begin < end /\ ImageRange("depth") = NewRange(begin, end)
           /\ outcome = TransferData(file, FileContent, NewRange(begin, end), Track(target))
           /\ target' = outcome.dest.next
           /\ ~Succeeded(outcome, NewRange(begin, end))
    BY <2>2, Zenon
  <2>4. PICK range : range = NewRange(begin, end)
    OBVIOUS
  <2>5. range \in DataRange /\ IsValid(range) /\ range.begin = begin /\ range.end = end
    BY <2>3, <2>4 DEF NewRange, DataRange, IsValid
  <2>6. CASE target.has_error
    BY <1>1, <2>1, <2>3, <2>4, <2>5, <2>6, ImageTransfer, Zenon
  <2>7. CASE ~target.has_error /\ ~target'.has_error
    <3>1. IsExtracted(range, outcome)
      BY <1>1, <2>1, <2>3, <2>4, <2>5, <2>7, ImageTransfer, Zenon
    <3>2. PICK upto \in Nat :
            /\ upto = Available(file, range) /\ begin <= upto
            /\ outcome.dest.disjoint = FALSE
            /\ outcome.dest.tracked = Covered(begin, upto)
            /\ outcome.result = "success" <=> upto > begin
      BY <2>5, <3>1, Zenon DEF IsExtracted
    <3>3. upto # end
      <4> SUFFICES ASSUME upto = end
                   PROVE  FALSE
        OBVIOUS
      <4>1. outcome.result = "success" /\ outcome.dest.tracked = range
        BY <2>3, <2>4, <3>2 DEF Covered
      <4>2. Succeeded(outcome, NewRange(begin, end))
        BY <2>4, <3>2, <4>1 DEF Succeeded
      <4> QED
        BY <2>3, <4>2
    <3>4. HasContent(FileBytes, Len(dest.written), FileContent, file, range)
          /\ file \in DataSource /\ file.open
      BY <1>1, <2>1, <2>5, Zenon DEF EInv, FileIsThere, IsFile, HasContent
    <3>5. PICK x \in Nat : x = file.extent.end
      BY <3>4 DEF DataSource, DataRange
    <3>6. upto = end \/ upto = Larger(begin, Smaller(end, x))
      BY <2>5, <3>2, <3>4, <3>5 DEF Available, ReadsUpTo
    <3>7. x < end
      BY <2>3, <3>3, <3>6 DEF Larger, Smaller
    <3> QED
      BY <2>3, <2>4, <2>5, <3>5, <3>7
  <2> QED
    BY <2>6, <2>7
<1>2. EInv /\ [ExtractionNext]_allvars =>
         [Extract("depth") /\ extracted' = "false" =>
             target'.has_error \/ ImageRange("depth").end > file.extent.end]_allvars
  BY <1>1
<1> QED
  BY <1>2, ExtractionInvariance, PTL DEF ExtractionSpec, FailureLosesNothing
=============================================================================
