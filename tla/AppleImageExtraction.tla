------------------------ MODULE AppleImageExtraction ------------------------
(***************************************************************************)
(* The extraction of Apple depth and matte images by the JpegImageExtractor*)
(* of src/jpeg/jpeg_image_extractor.cc, from the file that a               *)
(* JpegAppleDepthBuilder has made.  Where the depth image is in it is what *)
(* a JpegInfoBuilder finds there (see JpegInfoBuilder): the range of the   *)
(* second image, from its SOI to its EOI.  The file may be cut short after *)
(* it was scanned, and the destination may be used for one image after     *)
(* another, whether or not it has failed.                                  *)
(***************************************************************************)
EXTENDS JpegAppleDepthBuilder

CONSTANT MaxExtractions     \* bound: the images that are asked for

ASSUME MaxExtractionsAssumption == MaxExtractions \in Nat

VARIABLES
    file,        \* data_source_: the file that was made
    target,      \* the image_destination
    asked,       \* how many images have been asked for
    extracted    \* the result for the last one: "true", "false", or "none" so far

extraction == <<file, target, asked, extracted>>
allvars    == <<vars, extraction>>

ExtractionTypeOK ==
    /\ TypeOK
    /\ file \in DataSource
    /\ target.written \in Seq({"primary", "depth", "jfif", "mpf"} \X Nat)
    /\ target.bytes_transferred <= Len(target.written)
    /\ asked \in 0 .. MaxExtractions
    /\ extracted \in {"none", "true", "false"}

ExtractionInit ==
    /\ Init
    /\ file = NewIStream(0, FALSE)
    /\ target = NewOStream(0)
    /\ asked = 0
    /\ extracted = "none"

Build == Next /\ UNCHANGED extraction

IsOpen == file.kind = "memory" \/ file.open

\* The file is scanned and handed to an extractor.
Scan ==
    /\ built = "true" /\ ~IsOpen
    /\ file' \in AfterScan(Len(dest.written))
    /\ \E room \in Rooms : target' = NewOStream(room)
    /\ UNCHANGED <<vars, asked, extracted>>

FileContent == [place \in 0 .. Len(dest.written) - 1 |-> dest.written[place + 1]]

\* GetAppleDepthImageRange and GetAppleMatteImageRange of the JpegInfo.
ImageRange(image) ==
    IF image = "depth"
    THEN NewRange(FirstOf("depth"), FirstOf("depth") + Length(depth.image))
    ELSE InvalidRange

\* Mutant: it is enough that something was transferred.
SomethingTransferred(outcome, range) == outcome.result = "success"

\* has_errors of ExtractImage is not set.
Succeeded(outcome, range) ==
    /\ outcome.result = "success"
    /\ ~outcome.dest.disjoint
    /\ outcome.dest.tracked = range

\* ExtractImage; nothing is transferred if there is no such image.
Extract(image) ==
    LET range == ImageRange(image)
    IN  /\ IsOpen /\ asked < MaxExtractions
        /\ asked' = asked + 1
        /\ \E outcome \in {TransferData(file, FileContent, range, Track(target))} :
              IF IsValid(range)
              THEN /\ target' = outcome.dest.next
                   /\ file' = outcome.source
                   /\ extracted' = IF Succeeded(outcome, range) THEN "true" ELSE "false"
              ELSE extracted' = "false" /\ UNCHANGED <<file, target>>
        /\ UNCHANGED vars

ExtractionNext == Build \/ Scan \/ \E image \in {"depth", "matte"} : Extract(image)

ExtractionSpec == ExtractionInit /\ [][ExtractionNext]_allvars
-----------------------------------------------------------------------------
(***************************************************************************)
(* Properties.                                                             *)
(***************************************************************************)

\* An image that is extracted from the file that was made is, byte by byte, the depth
\* image of the file it was made from, if the destination had not failed before.
ExtractedIsTheDepthImage ==
    [][asked' # asked /\ extracted' = "true" /\ ~target.has_error =>
          target'.written = target.written \o Bytes("depth", depth.image)]_allvars

\* The depth image is not extracted only if a part of it is missing in the file or
\* could not be written, whatever was extracted before.
FailureLosesNothing ==
    [][Extract("depth") /\ extracted' = "false" =>
          target'.has_error \/ ImageRange("depth").end > file.extent.end]_allvars
=============================================================================
