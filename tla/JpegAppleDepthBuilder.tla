----------------------- MODULE JpegAppleDepthBuilder -----------------------
(***************************************************************************)
(* JpegAppleDepthBuilder of src/jpeg/jpeg_apple_depth_builder.cc: it takes *)
(* the first image of one file, changes its JFIF segment and puts a new    *)
(* MPF segment into it, and the depth image of another file, and sends     *)
(* both to a destination, as one Apple depth file.                         *)
(*                                                                         *)
(* The two files are scanned first, by a JpegScanner with a                *)
(* JpegInfoBuilder; what these find is given here (InfosLieInTheirImages   *)
(* and AppleImagesHoldTheirXmp of JpegInfoBuilder say what it is worth).   *)
(* A scan leaves the source with some segment cached, and the file may be  *)
(* cut short before its bytes are transferred.                             *)
(*                                                                         *)
(* A byte written is <<origin, location>>: the origin is one of the files, *)
(* or one of the segments that are made, "jfif" and "mpf".                 *)
(***************************************************************************)
EXTENDS DataTransfers

CONSTANTS
    PrimaryFiles,     \* the files with a primary image, and what is found in them
    DepthFiles,       \* the files with a depth image, likewise
    MaxCut,           \* bound: how many bytes a file may lose after its scan
    Rooms,            \* the room there is for the bytes written
    MpfSegmentLength, \* kMpfSegmentLength
    AmpfLength        \* kAmpfLength

\* jfif, exif and mpf are the first segments of these types in the first image;
\* one that is invalid does not exist.
PrimaryFile == [length : Nat, image : DataRange, jfif : DataRange, ampf : BOOLEAN,
                exif : DataRange, mpf : DataRange]

DepthFile == [length : Nat, image : DataRange]

\* From a marker to the place that offsets in an MPF segment are counted from: the
\* marker, the size and the identifier.
MpfHeaderLength == 8

ASSUME FilesAssumption == PrimaryFiles \subseteq PrimaryFile /\ DepthFiles \subseteq DepthFile
\* The segments of one image lie in it, between the SOI and the EOI, and apart from
\* one another: what InfosLieInTheirImages says of files that consist of images.
SegmentsLieInImage(file) ==
    LET segments == {type \in {"jfif", "exif", "mpf"} : IsValid(file[type])}
    IN  /\ file.image.end <= file.length
        /\ \A type \in segments :
              file.image.begin < file[type].begin /\ file[type].end < file.image.end
        /\ \A one, other \in segments :
              one = other \/ file[one].end <= file[other].begin
                          \/ file[other].end <= file[one].begin

ASSUME ImagesAssumption ==
    /\ \A file \in PrimaryFiles : IsValid(file.image) => SegmentsLieInImage(file)
    /\ \A file \in DepthFiles : file.image.end <= file.length

ASSUME BoundsAssumption == MaxCut \in Nat /\ Rooms \subseteq Nat
ASSUME SegmentsAssumption == /\ MpfSegmentLength \in Nat /\ MpfSegmentLength > MpfHeaderLength
                             /\ AmpfLength \in Nat \ {0}

VARIABLES
    primary,      \* the file with the primary image
    depth,        \* the file with the depth image
    sources,      \* primary_image_data_source_, depth_image_data_source_
    dest,         \* data_destination_
    stage,        \* how far Run is
    jfif_delta,   \* jfif_length_delta
    mpf,          \* the numbers in the MPF segment that is made
    built         \* "true" or "false", as Run returned; "none" so far

files == <<primary, depth>>
vars  == <<files, sources, dest, stage, jfif_delta, mpf, built>>

Stages == {"primary", "depth", "first", "jfif", "second", "mpf", "third", "image",
           "finish", "failed", "returned"}

TypeOK ==
    /\ primary \in PrimaryFile /\ depth \in DepthFile
    /\ sources \in [{"primary", "depth"} -> DataSource]
    /\ dest.written \in Seq({"primary", "depth", "jfif", "mpf"} \X Nat)
    /\ dest.bytes_transferred <= Len(dest.written)
    /\ dest.room \in Nat /\ dest.has_error \in BOOLEAN
    /\ stage \in Stages
    /\ jfif_delta \in {0, AmpfLength}
    /\ mpf \in [primary_length : Nat, depth_length : Nat, depth_offset : Int]
    /\ built \in {"none", "true", "false"}

NoNumbers == [primary_length |-> 0, depth_length |-> 0, depth_offset |-> 0]

Init ==
    /\ primary \in PrimaryFiles
    /\ depth \in DepthFiles
    /\ sources = [primary |-> NewIStream(primary.length, TRUE),
                  depth   |-> NewIStream(depth.length, TRUE)]
    /\ \E room \in Rooms : dest = NewOStream(room)
    /\ stage = "primary"
    /\ jfif_delta = 0
    /\ mpf = NoNumbers
    /\ built = "none"

(***************************************************************************)
(* A source after a scan of a file of n bytes, of which some may be lost.  *)
(***************************************************************************)
Windows(n) ==
    {NewRange(k * BestDataSize, Smaller(n, (k + 1) * BestDataSize)) :
        k \in 0 .. (n - 1) \div BestDataSize}

AfterScan(n) ==
    {[kind |-> "istream", extent |-> NewRange(0, n - cut), open |-> TRUE,
      good |-> good, cached |-> cached] :
        cut \in 0 .. Smaller(MaxCut, n), good \in BOOLEAN,
        cached \in Windows(n) \cup {NoSegment}}
    \cup {NewInMemory(NewRange(0, n))}

\* Run returns before the transfer begins.
GiveUp == stage' = "returned" /\ built' = "false"

HasPrimaryData == IsValid(primary.image) /\ IsValid(primary.jfif) /\ IsValid(primary.exif)

GetPrimaryImageData ==
    /\ stage = "primary"
    /\ \E source \in AfterScan(primary.length) :
          sources' = [sources EXCEPT !["primary"] = source]
    /\ IF HasPrimaryData THEN stage' = "depth" /\ UNCHANGED built ELSE GiveUp
    /\ UNCHANGED <<files, dest, jfif_delta, mpf>>

GetDepthImageData ==
    /\ stage = "depth"
    /\ \E source \in AfterScan(depth.length) :
          sources' = [sources EXCEPT !["depth"] = source]
    /\ IF IsValid(depth.image) THEN stage' = "first" /\ UNCHANGED built ELSE GiveUp
    /\ UNCHANGED <<files, dest, jfif_delta, mpf>>

\* primary_image_mpf_segment_range_: of the segment to be replaced, or empty.
MpfPlace == IF IsValid(primary.mpf) THEN primary.mpf
                                    ELSE NewRange(primary.exif.end, primary.exif.end)

(***************************************************************************)
(* TransferData of the builder: it counts the bytes.                       *)
(***************************************************************************)
Content(origin, length) == [place \in 0 .. length - 1 |-> <<origin, place>>]

\* Mutant: the result of TransferData is taken for granted.
AnyResult(outcome, range) == outcome.result = "success"

IsComplete(outcome, range) ==
    /\ outcome.result = "success"
    /\ outcome.dest.bytes_transferred - dest.bytes_transferred = Length(range)

GoOn(outcome, range, after) ==
    /\ dest' = outcome.dest
    /\ stage' = IF IsComplete(outcome, range) THEN after ELSE "failed"

TransferFile(origin, length, range, after) ==
    \E outcome \in {TransferData(sources[origin], Content(origin, length), range, dest)} :
        /\ GoOn(outcome, range, after)
        /\ sources' = [sources EXCEPT ![origin] = outcome.source]

TransferNew(origin, length, after) ==
    LET range == NewRange(0, length)
    IN  /\ GoOn(TransferData(NewInMemory(range), Content(origin, length), range, dest),
                range, after)
        /\ UNCHANGED sources

(***************************************************************************)
(* TransferPrimaryImage, and what it calls.                                *)
(***************************************************************************)
FirstEnd == Smaller(primary.jfif.begin, MpfPlace.begin)

TransferFirst ==
    /\ stage = "first"
    /\ TransferFile("primary", primary.length, NewRange(0, FirstEnd), "jfif")
    /\ UNCHANGED <<files, jfif_delta, mpf, built>>

TransferNewJfifSegment ==
    /\ stage = "jfif"
    /\ jfif_delta' = IF primary.ampf THEN 0 ELSE AmpfLength
    /\ TransferNew("jfif", Length(primary.jfif) + jfif_delta', "second")
    /\ UNCHANGED <<files, mpf, built>>

\* Mutant: the old JFIF segment is not left out.
SecondFromFirstEnd == NewRange(FirstEnd, MpfPlace.begin)

\* first_end has moved behind the JFIF segment if that was where it pointed.
SecondRange ==
    LET moved == IF FirstEnd = primary.jfif.begin THEN primary.jfif.end ELSE FirstEnd
    IN  NewRange(Smaller(moved, primary.jfif.end), MpfPlace.begin)

TransferSecond ==
    /\ stage = "second"
    /\ IF IsValid(SecondRange)
       THEN TransferFile("primary", primary.length, SecondRange, "mpf")
       ELSE stage' = "mpf" /\ UNCHANGED <<sources, dest>>
    /\ UNCHANGED <<files, jfif_delta, mpf, built>>

\* Mutant: the bytes added to the JFIF segment are not counted.
LengthWithoutDelta == Length(primary.image) - Length(MpfPlace) + MpfSegmentLength

PrimaryImageLength ==
    Length(primary.image) + jfif_delta - Length(MpfPlace) + MpfSegmentLength

TransferNewMpfSegment ==
    /\ stage = "mpf"
    /\ mpf' = [primary_length |-> PrimaryImageLength,
               depth_length   |-> Length(depth.image),
               depth_offset   |-> PrimaryImageLength - MpfPlace.begin - MpfHeaderLength]
    /\ TransferNew("mpf", MpfSegmentLength, "third")
    /\ UNCHANGED <<files, jfif_delta, built>>

ThirdRange == NewRange(MpfPlace.end, primary.image.end)

TransferThird ==
    /\ stage = "third"
    /\ IF IsValid(ThirdRange)
       THEN TransferFile("primary", primary.length, ThirdRange, "image")
       ELSE stage' = "failed" /\ UNCHANGED <<sources, dest>>
    /\ UNCHANGED <<files, jfif_delta, mpf, built>>

TransferDepthImage ==
    /\ stage = "image"
    /\ TransferFile("depth", depth.length, depth.image, "finish")
    /\ UNCHANGED <<files, jfif_delta, mpf, built>>

\* FinishTransfer, after success and failure alike.
Return ==
    /\ stage \in {"finish", "failed"}
    /\ stage' = "returned"
    /\ built' = IF stage = "finish" THEN "true" ELSE "false"
    /\ UNCHANGED <<files, sources, dest, jfif_delta, mpf>>

Next ==
    \/ GetPrimaryImageData \/ GetDepthImageData
    \/ TransferFirst \/ TransferNewJfifSegment \/ TransferSecond
    \/ TransferNewMpfSegment \/ TransferThird \/ TransferDepthImage
    \/ Return

Spec == Init /\ [][Next]_vars
-----------------------------------------------------------------------------
(***************************************************************************)
(* Properties.                                                             *)
(***************************************************************************)
Bytes(origin, range) == [n \in 1 .. Length(range) |-> <<origin, range.begin + n - 1>>]

Origin(byte) == byte[1]

\* Bytes by where they come from: the segments that are made, and those of the primary
\* image that they are made for.
From(origins)  == origins \X Nat
Places(range)  == range.begin .. range.end - 1
OldJfif        == {"primary"} \X Places(primary.jfif)
OldMpf         == {"primary"} \X Places(primary.mpf)

Without(bytes, leaving) ==
    LET kept[n \in 0 .. Len(bytes)] ==
            IF n = 0 THEN <<>>
            ELSE IF bytes[n] \in leaving THEN kept[n - 1]
                                         ELSE Append(kept[n - 1], bytes[n])
    IN  kept[Len(bytes)]

\* The place of the first byte of that origin in what was written, from 0.
FirstOf(origin) ==
    Min({n \in 1 .. Len(dest.written) : Origin(dest.written[n]) = origin}) - 1

\* The order of segments that the code is written for: the JFIF segment comes
\* before the MPF segment, or the end of the EXIF segment.
JfifFirst == primary.jfif.end <= MpfPlace.begin

\* If Run returns true, the bytes of the primary image up to its end and those of the
\* depth image are in the file, each once and in their order, but for the JFIF and MPF
\* segments; and there is one new segment of each of these types.  This is so for any
\* order of the segments.
ImagesAreComplete ==
    built = "true" =>
        /\ Without(Without(dest.written, From({"jfif", "mpf"})), OldJfif) =
              Without(Without(Bytes("primary", NewRange(0, primary.image.end)), OldJfif),
                      OldMpf)
                 \o Bytes("depth", depth.image)
        /\ \A origin \in {"jfif", "mpf"} :
              \E n \in 1 .. Len(dest.written) :
                 Without(dest.written, From({"primary", "depth", "jfif", "mpf"} \ {origin})) =
                    Bytes(origin, NewRange(0, n))

\* "so that the original jfif segment does not get copied to the output destination"
\* (TransferPrimaryImage): the new segment is where the old one was.
JfifIsReplaced ==
    built = "true" /\ JfifFirst =>
        /\ \A n \in 1 .. Len(dest.written) : dest.written[n] \notin OldJfif
        /\ FirstOf("jfif") = primary.jfif.begin

\* The length that the MPF segment gives for the primary image is the number of bytes
\* in front of the depth image, if the file begins with the primary image.
PrimaryLengthIsRight ==
    built = "true" /\ JfifFirst /\ primary.image.begin = 0 =>
        FirstOf("depth") = mpf.primary_length

\* Run fails only if something is missing in the files or could not be written: the
\* state in which the scans leave the sources does not matter.
FailureHasACause ==
    built = "false" =>
        \/ ~HasPrimaryData \/ ~IsValid(depth.image)
        \/ dest.has_error
        \/ primary.image.end > sources["primary"].extent.end
        \/ depth.image.end > sources["depth"].extent.end

\* "adding and transforming the jpeg segments it needs to make the resulting data
\* destination a valid Apple depth file" (jpeg_apple_depth_builder.h): the offset in
\* the MPF segment leads to the depth image.
OffsetLeadsToDepthImage ==
    built = "true" /\ JfifFirst /\ primary.image.begin = 0 =>
        FirstOf("mpf") + MpfHeaderLength + mpf.depth_offset = FirstOf("depth")
=============================================================================
