----------------------------- MODULE GContainer -----------------------------
(***************************************************************************)
(* src/gcontainer/gcontainer.cc: WriteImageAndFiles copies the first image *)
(* of a JPEG file to a new file and appends other files, and               *)
(* ParseFileAfterImage and ParseFileAfterImageFromStream read one of them  *)
(* back.  Files are opened and read with src/utils/file_utils.cc.          *)
(*                                                                         *)
(* The content of a file is a sequence of symbols: SOI, EOI, other bytes,  *)
(* and "APP", the header of a segment that hides the symbol behind it.     *)
(* What the JpegScanner and the JpegInfoBuilder find in it is their own    *)
(* modules' matter; here it is the first image, or an error if a segment   *)
(* breaks off.  Files may be cut or removed by others while a file is being*)
(* written.                                                                *)
(***************************************************************************)
EXTENDS DataTransfers, MessageHandler

CONSTANTS InputContents,    \* contents of the input file
          OtherContents,    \* contents of the other files
          OtherFiles,       \* lists of names of other files; "" is no file
          Absent,           \* in the place of a content: there is no such file
          Rooms,            \* how many bytes the output may take
          MaxHeldBack,      \* bound: the bytes an ostream holds back until it is flushed
          MaxChanges,       \* bound: the files that are changed while writing
          SizeModulus,      \* 2^w for the width w of size_t
          Offsets, Lengths  \* what is asked for when a file is parsed

Inputs == {"in", "a", "b"}
Names  == Inputs \cup {"out"}

\* What the contents consist of.
Symbols ==
    UNION {{content[n] : n \in 1 .. Len(content)} : content \in InputContents \cup OtherContents}

\* The size of every file is less than 2^w, and so is what is written.
ASSUME GContainerAssumption ==
    /\ InputContents \cup OtherContents \subseteq Seq(Symbols)
    /\ Absent \notin Seq(Symbols)
    /\ OtherFiles \subseteq Seq(Inputs \cup {""})
    /\ MaxHeldBack \in Nat /\ MaxChanges \in Nat /\ SizeModulus \in Nat
    /\ \A content \in InputContents \cup OtherContents : Len(content) < SizeModulus
    /\ Rooms \subseteq 0 .. SizeModulus - 1
    /\ Offsets \cup Lengths \subseteq 0 .. SizeModulus - 1

VARIABLES
    files,          \* the file system: name -> content
    original,       \* history: what it was at first
    output,         \* output_file_name
    others,         \* other_files
    pc,             \* where WriteImageAndFiles is, or "done", or "crashed"
    handler,        \* message_handler
    image,          \* image_range
    dest,           \* output_destination
    size,           \* buffer_size of ReadEntireFile
    expected,       \* bytes_transferred
    appended,       \* history: for each of the others what was appended
    written,        \* what WriteImageAndFiles returned
    held_back,      \* whether the last flush failed
    changes,        \* how often a file was changed
    parse           \* the last call of ParseFileAfterImageFromStream

names  == <<output, others, original>>
writer == <<handler, image, dest, size, expected, appended, written, held_back>>
vars   == <<files, names, pc, writer, changes, parse>>

NoParse == [called |-> FALSE]

TypeOK ==
    /\ DOMAIN files = Names
    /\ \A name \in Names : files[name] # Absent => IsFiniteSet(DOMAIN files[name])
    /\ output \in {"in", "out"} /\ others \in OtherFiles
    /\ pc \in {"output", "scan", "image", "files", "read", "done", "crashed"}
    /\ handler.stats \in [MessageTypes -> Nat]
    /\ handler.messages \in Seq(MessageTypes)
    /\ image \in DataRange
    /\ dest.bytes_transferred <= Len(dest.written)
    /\ size \in Nat /\ expected \in Nat
    /\ Len(appended) <= Len(others)
    /\ written \in BOOLEAN /\ held_back \in BOOLEAN
    /\ changes \in 0 .. MaxChanges

Init ==
    /\ \E input \in InputContents : \E a, b \in OtherContents \cup {Absent} :
          files = [name \in Names |-> CASE name = "in" -> input
                                        [] name = "a"  -> a
                                        [] name = "b"  -> b
                                        [] OTHER       -> Absent]
    /\ original = files
    /\ output \in {"in", "out"} /\ others \in OtherFiles
    /\ pc = "output"
    /\ handler = NewMessageHandler
    /\ image = InvalidRange
    /\ dest = NewOStream(0)
    /\ size = 0 /\ expected = 0
    /\ appended = <<>>
    /\ written = FALSE /\ held_back = FALSE
    /\ changes = 0
    /\ parse = NoParse

Bytes(content) == [l \in 0 .. Len(content) - 1 |-> content[l + 1]]

\* The scan with a limit of one image: it is over with the first EOI behind an SOI.
ScanSymbol(scan, symbol, l) ==
    IF IsValid(scan.image) THEN scan
    ELSE IF scan.inside THEN [scan EXCEPT !.inside = FALSE]
    ELSE CASE symbol = "APP" -> [scan EXCEPT !.inside = TRUE]
           [] symbol = "SOI" -> [scan EXCEPT !.soi = NewRange(l, l + 1)]
           [] symbol = "EOI" /\ IsValid(scan.soi) ->
                 [scan EXCEPT !.image = NewRange(scan.soi.begin, l + 1)]
           [] OTHER -> scan

ScanContent(content) ==
    FoldLeft(LAMBDA scan, n : ScanSymbol(scan, content[n], n - 1),
             [soi |-> InvalidRange, inside |-> FALSE, image |-> InvalidRange],
             [n \in 1 .. Len(content) |-> n])

\* ExtractFirstImageInJpeg: a scan that breaks off within a segment is an error.
FirstImage(content) ==
    LET scan == ScanContent(content)
    IN  IF scan.inside THEN InvalidRange ELSE scan.image

\* OpenOutputFile, which makes the file an empty one.
OpenOutput ==
    /\ pc = "output"
    /\ \/ /\ handler' = ReportMessage(handler, "error")
          /\ pc' = "done"
          /\ UNCHANGED <<files, dest>>
       \/ /\ files' = [files EXCEPT ![output] = <<>>]
          /\ \E room \in Rooms : dest' = NewOStream(room)
          /\ pc' = "scan"
          /\ UNCHANGED handler
    /\ UNCHANGED <<names, image, size, expected, appended, written, held_back, changes,
                   parse>>

\* The stream of an input that cannot be opened is used all the same.
ScanInput ==
    /\ pc = "scan"
    /\ IF files["in"] = Absent
       THEN pc' = "crashed" /\ UNCHANGED <<handler, image>>
       ELSE /\ image' = FirstImage(files["in"])
            /\ pc' = IF IsValid(image') THEN "image" ELSE "done"
            /\ handler' = IF IsValid(image') THEN ClearMessages(handler)
                          ELSE ReportMessage(ClearMessages(handler), "error")
    /\ UNCHANGED <<files, names, dest, size, expected, appended, written, held_back,
                   changes, parse>>

\* What a failed write reports.
HandlerAfter(outcome) ==
    IF outcome.result = "error" THEN ReportMessage(handler, "error") ELSE handler

\* The input is opened again.
TransferImage ==
    /\ pc = "image"
    /\ IF files["in"] = Absent
       THEN pc' = "crashed" /\ UNCHANGED <<handler, dest, expected>>
       ELSE /\ \E outcome \in {TransferData(NewIStream(Len(files["in"]), TRUE),
                                            Bytes(files["in"]), image, dest)} :
                  /\ dest' = outcome.dest
                  /\ handler' = HandlerAfter(outcome)
            /\ expected' = Length(image)
            /\ pc' = "files"
    /\ UNCHANGED <<files, names, image, size, appended, written, held_back, changes,
                   parse>>

NextFile == others[Len(appended) + 1]

SkipFile == appended' = Append(appended, <<>>) /\ pc' = "files"

\* A file without a name is passed over; of another the size is looked up first.
StatFile ==
    /\ pc = "files" /\ Len(appended) < Len(others)
    /\ \/ NextFile = "" /\ SkipFile /\ UNCHANGED <<handler, size>>
       \/ /\ NextFile # "" /\ files[NextFile] = Absent
          /\ handler' = ReportMessage(handler, "error")
          /\ SkipFile
          /\ UNCHANGED size
       \/ /\ NextFile # "" /\ files[NextFile] # Absent
          /\ size' = Len(files[NextFile])
          /\ pc' = "read"
          /\ UNCHANGED <<handler, appended>>
    /\ UNCHANGED <<files, names, image, dest, expected, written, held_back, changes,
                   parse>>

\* The read gets as many bytes as the file had.
ReadsAll(content) == Len(content) >= size

\* Mutant: the lengths of files that follow one another are not added up.
ExpectLast(length) == expected' = length

Expect(length) == expected' = expected + length

\* The rest of ReadEntireFile, and the transfer of what was read.
AppendFile ==
    /\ pc = "read"
    /\ LET content == files[NextFile]
           part    == SubSeq(content, 1, size)
       IN  \/ /\ content = Absent
              /\ handler' = ReportMessage(ReportMessage(handler, "error"), "error")
              /\ SkipFile
              /\ UNCHANGED <<dest, expected>>
           \/ /\ content # Absent /\ ~ReadsAll(content)
              /\ handler' = ReportMessage(handler, "error")
              /\ SkipFile
              /\ UNCHANGED <<dest, expected>>
           \/ /\ content # Absent /\ ReadsAll(content)
              /\ \E outcome \in {TransferData(NewInMemory(NewRange(0, size)),
                                              Bytes(part), NewRange(0, size), dest)} :
                    /\ dest' = outcome.dest
                    /\ handler' = HandlerAfter(outcome)
              /\ Expect(size)
              /\ appended' = Append(appended, part)
              /\ pc' = "files"
    /\ UNCHANGED <<files, names, image, size, written, held_back, changes, parse>>

\* Mutant: a destination that has an error is as good as another.
WroteItAllOrFailed == dest.has_error \/ dest.bytes_transferred = expected

WroteItAll == dest.bytes_transferred = expected /\ ~dest.has_error

\* FinishTransfer flushes the ostream; nobody asks whether that succeeded.
FinishWrite ==
    /\ pc = "files" /\ Len(appended) = Len(others)
    /\ written' = WroteItAll
    /\ \E lost \in 0 .. Smaller(MaxHeldBack, Len(dest.written)) :
          /\ files' = [files EXCEPT ![output] =
                          SubSeq(dest.written, 1, Len(dest.written) - lost)]
          /\ held_back' = (lost > 0)
    /\ pc' = "done"
    /\ UNCHANGED <<names, handler, image, dest, size, expected, appended, changes, parse>>

\* Somebody else removes a file, or cuts off its end.
ChangeFile(name) ==
    /\ pc \notin {"done", "crashed"} /\ changes < MaxChanges
    /\ name # output \/ pc = "output"
    /\ files[name] # Absent
    /\ \E content \in {Absent} \cup {SubSeq(files[name], 1, Len(files[name]) - 1)} :
          files' = [files EXCEPT ![name] = content]
    /\ changes' = changes + 1
    /\ UNCHANGED <<names, pc, writer, parse>>

\* The size of a stream that is not good, from tellg() = -1.
StreamSize(content, good) == IF good THEN Len(content) ELSE SizeModulus - 1

\* Mutant: the offset is counted from the beginning of the file.
FileStartInFile(content, start_offset) == start_offset % SizeModulus

FileStart(content, start_offset) ==
    (FirstImage(content).end + start_offset) % SizeModulus

\* Mutant: only the beginning of the file is looked at.
BeginsInStream(content, good, range) == StreamSize(content, good) >= range.begin

EndsInStream(content, good, range) == StreamSize(content, good) >= range.end

\* What is read from a range into out, which is resized before: what it held is kept, and
\* what is added is zeros.
ReadRange(content, range, out) ==
    [n \in 1 .. Length(range) |->
        CASE range.begin + n <= Len(content) -> content[range.begin + n]
          [] range.begin + n > Len(content) /\ n <= Len(out) -> out[n]
          [] OTHER -> "zero"]

\* ParseFileAfterImageFromStream; out holds what it held if the result is FALSE.
ParseFromStream(content, good, start_offset, length, out) ==
    LET start  == FileStart(content, start_offset)
        range  == NewRange(start, (start + length) % SizeModulus)
        result == /\ length # 0
                  /\ IsValid(FirstImage(content))
                  /\ EndsInStream(content, good, range)
    IN  [result |-> result,
         out |-> IF result THEN ReadRange(content, range, out) ELSE out]

\* ParseFileAfterImage opens the file itself: its stream is good, if there is one.
Parse(name, good, start_offset, length) ==
    /\ pc = "done" /\ ~parse.called
    /\ \E out \in {IF files[name] = Absent THEN [result |-> FALSE, out |-> <<"old">>]
                   ELSE ParseFromStream(files[name], good, start_offset, length,
                                        <<"old">>)} :
          parse' = [called |-> TRUE, name |-> name, good |-> good,
                    start_offset |-> start_offset, length |-> length,
                    result |-> out.result, out |-> out.out]
    /\ UNCHANGED <<files, names, pc, writer, changes>>

Next ==
    \/ OpenOutput \/ ScanInput \/ TransferImage \/ StatFile \/ AppendFile \/ FinishWrite
    \/ \E name \in Inputs : ChangeFile(name)
    \/ \E name \in {"in", "out"}, good \in BOOLEAN,
          start_offset \in Offsets, length \in Lengths :
             Parse(name, good, start_offset, length)

Spec == Init /\ [][Next]_vars
-----------------------------------------------------------------------------
(***************************************************************************)
(* Properties.                                                             *)
(***************************************************************************)

ImageBytes(content) ==
    SubSeq(content, FirstImage(content).begin + 1, FirstImage(content).end)

\* What a true result promises, of an ostream that held nothing back: the output is
\* the first image of the input and then the other files, of which one is left out
\* only if it is missing or was cut while it was read.
WrittenIsImageAndFiles ==
    pc = "done" /\ written /\ ~held_back =>
        /\ files[output] = ImageBytes(original["in"]) \o FlattenSeq(appended)
        /\ \A n \in 1 .. Len(others) :
              IF others[n] = "" \/ original[others[n]] = Absent THEN appended[n] = <<>>
              ELSE /\ IsPrefix(appended[n], original[others[n]])
                   /\ changes = 0 => appended[n] = original[others[n]]

\* Nothing is left out in silence: if the call fails or a file is skipped then an
\* error has been reported and is kept, unless somebody cut the input meanwhile.
WhatIsMissingIsReported ==
    pc = "done" =>
        /\ Len(handler.messages) = handler.stats["error"]
        /\ \/ HasErrorMessages(handler)
           \/ files["in"] # original["in"] /\ changes > 0
           \/ /\ written
              /\ \A n \in 1 .. Len(others) :
                    \/ others[n] = ""
                    \/ /\ original[others[n]] # Absent
                       /\ \/ appended[n] # <<>>
                          \/ Len(original[others[n]]) <= changes

\* Every file that was appended is found again at its place behind the image, in the
\* image alone and whatever it contains itself.
AppendedFilesAreFound ==
    pc = "done" /\ written /\ ~held_back =>
        \A n \in 1 .. Len(others) :
            LET offset == Len(FlattenSeq(SubSeq(appended, 1, n - 1)))
            IN  appended[n] # <<>> =>
                  ParseFromStream(files[output], TRUE, offset, Len(appended[n]), <<>>)
                     = [result |-> TRUE, out |-> appended[n]]

\* The bytes asked for, behind the image of a file.
IsThere(content, start_offset, length) ==
    /\ content # Absent
    /\ IsValid(FirstImage(content))
    /\ FirstImage(content).end + start_offset + length <= Len(content)

Requested(content, start_offset, length) ==
    LET begin == FirstImage(content).end + start_offset
    IN  SubSeq(content, begin + 1, begin + length)

\* Parsing gives the bytes asked for, exactly if they are there, and touches the
\* string in no other case: for a stream that is good, and numbers whose sum is less
\* than 2^w.
ParseIsExact ==
    parse.called /\ parse.good =>
        LET content == files[parse.name]
            there   == IsThere(content, parse.start_offset, parse.length)
        IN  /\ there /\ parse.length > 0 =>
                  /\ parse.result
                  /\ parse.out = Requested(content, parse.start_offset, parse.length)
            /\ parse.result /\ ~there =>
                  FirstImage(content).end + parse.start_offset + parse.length
                     >= SizeModulus
            /\ ~parse.result => parse.out = <<"old">>

\* "out_file_contents is populated with the requsted contents only if parsing is
\* successful" (gcontainer.h), whatever has been done with the stream before.
SuccessMeansRequested ==
    parse.called /\ parse.result =>
        LET content == files[parse.name]
        IN  FirstImage(content).end + parse.start_offset + parse.length < SizeModulus =>
               /\ IsThere(content, parse.start_offset, parse.length)
               /\ parse.out = Requested(content, parse.start_offset, parse.length)
=============================================================================
