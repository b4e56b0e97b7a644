---------------------------- MODULE JpegSegments ----------------------------
(***************************************************************************)
(* JpegSegment of src/jpeg/jpeg_segment.cc, as a JpegInfoBuilder looks at  *)
(* it: the marker, what the payload starts with, and, in APP1/XMP          *)
(* segments, the identifiers and property values that are looked for.      *)
(*                                                                         *)
(* The text of an extended XMP segment is a sequence of symbols.  The      *)
(* symbol "gdepth" stands for GDepth:Data= and "gimage" for GImage:Data=   *)
(* (with the white space the code skips); Quote is '"', and the other      *)
(* symbols are characters of property values.  The text follows a header   *)
(* of HeaderLength bytes: the marker, the size, the identifier, the GUID   *)
(* and two numbers.  Segments too short for a header are left out.         *)
(***************************************************************************)
EXTENDS DataRanges, SequencesExt

CONSTANTS HeaderLength,   \* kLength + kVariablePayloadDataOffset + kXmpExtendedHeaderSize
          Quote           \* the byte '"'

ASSUME HeaderLengthAssumption == HeaderLength \in Nat /\ HeaderLength >= 4

\* JpegXmpInfo::Type; also the symbols of the names of their data properties.
XmpTypes == {"gdepth", "gimage"}

ASSUME QuoteAssumption == Quote \notin XmpTypes

(***************************************************************************)
(* A kind of segment, the segment apart from where it is.  ids are the     *)
(* namespaces the payload mentions; guid is the value of its property      *)
(* xmpNote:HasExtendedXMP, or the GUID in its header; mimes the values of  *)
(* its Mime properties.  What a segment does not have is empty.            *)
(***************************************************************************)
Plain(marker, starts) ==
    [marker |-> marker, starts |-> starts, ids |-> {}, guid |-> <<>>,
     mimes |-> [t \in XmpTypes |-> ""], text |-> <<>>]

PrimaryXmp(ids, guid, mimes) ==
    [Plain("APP1", "xmp") EXCEPT !.ids = ids, !.guid = guid, !.mimes = mimes]

ExtendedXmp(guid, text) ==
    [Plain("APP1", "extendedXmp") EXCEPT !.guid = guid, !.text = text]

IsDelimiter(kind) == kind.marker \in {"SOI", "EOI"}

\* A segment without a text is as long as a header: its size is of no consequence.
SegmentLength(kind) == IF IsDelimiter(kind) THEN 2 ELSE HeaderLength + Len(kind.text)

SegmentRange(kind, begin) == NewRange(begin, begin + SegmentLength(kind))

TextBegin(range) == range.begin + HeaderLength

\* Find: the location of the next such symbol, or the segment's end.
Find(range, text, start, symbol) ==
    Min({range.end} \cup
        {loc \in start .. range.end - 1 : text[loc - TextBegin(range) + 1] = symbol})

\* The location behind the quote, which is the segment's end, too, if the quote is the
\* last byte of the segment.
FindXmpPropertyValueBegin(range, text, start, name) ==
    LET property == Find(range, text, start, name)
        quote    == property + 1
    IN  IF quote < range.end /\ Find(range, text, quote, Quote) = quote
        THEN quote + 1
        ELSE range.end

FindXmpPropertyValueEnd(range, text, start) == Find(range, text, start, Quote)

(***************************************************************************)
(* JpegXmpInfoBuilder: the ranges of the segments a property's value is    *)
(* spread over, and that of the segment it ends in, once it is known.      *)
(***************************************************************************)
XmpInfoBuilder == [ranges : Seq(DataRange), property_end : DataRange]

NewXmpInfoBuilder == [ranges |-> <<>>, property_end |-> InvalidRange]

\* Mutant: the end of the value is not looked for in the segment it begins in.
ProcessSegmentMissesEnd(builder, type, range, text) ==
    LET begin  == FindXmpPropertyValueBegin(range, text, TextBegin(range), type)
        starts == builder.ranges = <<>> /\ begin # range.end
        inside == builder.ranges # <<>> /\ ~IsValid(builder.property_end)
        end    == FindXmpPropertyValueEnd(range, text, TextBegin(range))
    IN  [ranges |-> IF starts \/ inside THEN Append(builder.ranges, range)
                                        ELSE builder.ranges,
         property_end |-> IF inside /\ end # range.end THEN range
                                                       ELSE builder.property_end]

ProcessSegment(builder, type, range, text) ==
    LET begin  == FindXmpPropertyValueBegin(range, text, TextBegin(range), type)
        starts == builder.ranges = <<>> /\ begin # range.end
        inside == builder.ranges # <<>> /\ ~IsValid(builder.property_end)
        end    == FindXmpPropertyValueEnd(range, text,
                                          IF starts THEN begin ELSE TextBegin(range))
    IN  [ranges |-> IF starts \/ inside THEN Append(builder.ranges, range)
                                        ELSE builder.ranges,
         property_end |-> IF (starts \/ inside) /\ end # range.end
                          THEN range
                          ELSE builder.property_end]
=============================================================================
