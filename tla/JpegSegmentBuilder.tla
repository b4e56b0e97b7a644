------------------------- MODULE JpegSegmentBuilder -------------------------
(***************************************************************************)
(* JpegSegmentBuilder, ByteData and ByteBuffer: the data of a segment are  *)
(* collected one by one and turned into bytes at the end.                  *)
(*                                                                         *)
(* A datum is the bytes that its text stands for.  Two hex digits are one  *)
(* byte, so positions 2 and 4 in the digits are the second and the third   *)
(* byte; an "odd" datum has one more digit behind them and is not valid.   *)
(* The texts of XMP and RDF are opaque sequences of bytes.                 *)
(***************************************************************************)
EXTENDS JpegMarkers, SequencesExt

CONSTANTS Data,         \* what AddByteData is called with
          Texts,        \* the prefixes, suffixes, names and values of XMP
          GuidSize,     \* kXmpGuidSize
          MaxData       \* bound: the data of a segment

VARIABLES
    byte_data,      \* byte_data_
    buffer,         \* the bytes of a ByteBuffer
    added,          \* history: the markers that were added, as <<index, type>>
    replaced        \* history: what the last ReplaceSizePlaceholder was asked for and
                    \* answered, [index, size, result]; no index before the first one

vars == <<byte_data, buffer, added, replaced>>

Types == {"kHex", "kAscii", "kAscii0"}

Datum(type, bytes) == [type |-> type, bytes |-> bytes, odd |-> FALSE]

IsValidDatum(datum) == datum.type = "kHex" => ~datum.odd

\* The value as text, with the null that ends a kAscii0 datum; nothing of an invalid one.
BytesOf(datum) ==
    IF ~IsValidDatum(datum) THEN <<>>
    ELSE datum.bytes \o IF datum.type = "kAscii0" THEN <<kZERO>> ELSE <<>>

High(size) == (size \div Radix) % Radix
Low(size)  == size % Radix

TypeOK ==
    /\ \A n \in 1 .. Len(byte_data) :
          /\ byte_data[n].type \in Types
          /\ byte_data[n].bytes \in Seq(Byte)
          /\ byte_data[n].odd \in BOOLEAN
    /\ buffer \in Seq(Byte)
    /\ added \subseteq (0 .. Len(byte_data) - 1) \X Byte

Init ==
    /\ byte_data = <<>> /\ buffer = <<>>
    /\ added = {}
    /\ replaced = [index |-> -1, size |-> 0, result |-> FALSE]

Add(data) ==
    /\ Len(byte_data) + Len(data) <= MaxData
    /\ byte_data' = byte_data \o data
    /\ UNCHANGED <<buffer, replaced>>

AddByteData ==
    \E datum \in Data : Add(<<datum>>) /\ UNCHANGED added

AddMarker(type, size) ==
    /\ Add(<<Datum("kHex", <<kStart, type>> \o
             IF HasVariablePayloadSize(type) THEN <<High(size), Low(size)>> ELSE <<>>)>>)
    /\ added' = added \cup {<<Len(byte_data), type>>}

AddMarkerAndSize == \E type \in Byte, size \in 0 .. Radix * Radix : AddMarker(type, size)

AddMarkerAndSizePlaceholder == \E type \in Byte : AddMarker(type, 0)

\* AddXmpMetaPrefix and the other functions that add one text, or several.
AddText ==
    \E text \in Texts : Add(<<Datum("kAscii", text)>>) /\ UNCHANGED added

\* The guid is cut or filled up to its size; '0' stands for any byte of a text.
AddExtendedXmpHeader ==
    \E id, guid \in Texts :
        LET zeros == [n \in 1 .. GuidSize |-> 1]
        IN  /\ Add(<<Datum("kAscii0", id),
                     Datum("kAscii", SubSeq(guid \o zeros, 1, GuidSize)),
                     Datum("kAscii", zeros)>>)
            /\ UNCHANGED added

CanReplace(index, size) ==
    /\ index < Len(byte_data)
    /\ size >= 2 /\ size <= Radix * Radix - 1
    /\ LET datum == byte_data[index + 1]
       IN  /\ datum.type = "kHex"
           /\ Len(datum.bytes) >= 2
           /\ datum.bytes[1] = kStart
           /\ HasVariablePayloadSize(datum.bytes[2])

\* The size goes to the digits 2 to 5; a digit that was left over behind the marker
\* is overwritten, too.
WithSize(datum, size) ==
    [datum EXCEPT
        !.bytes = <<@[1], High(size), Low(size)>> \o SubSeq(@, 4, Len(@)),
        !.odd   = @ /\ Len(datum.bytes) > 2]

ReplaceSizePlaceholder ==
    \E index \in 0 .. Len(byte_data), size \in 0 .. Radix * Radix :
        /\ replaced' = [index |-> index, size |-> size, result |-> CanReplace(index, size)]
        /\ IF CanReplace(index, size)
           THEN byte_data' = [byte_data EXCEPT ![index + 1] = WithSize(@, size)]
           ELSE UNCHANGED byte_data
        /\ UNCHANGED <<buffer, added>>

\* The constructor of ByteBuffer.  A datum that is not valid counts no bytes and is
\* left out, so that writing a datum never fails.
Build ==
    /\ buffer' = FlattenSeq([n \in 1 .. Len(byte_data) |-> BytesOf(byte_data[n])])
    /\ UNCHANGED <<byte_data, added, replaced>>

SetBigEndianValue(location, value) ==
    IF location + 1 >= Len(buffer) THEN UNCHANGED buffer
    ELSE buffer' = [buffer EXCEPT ![location + 1] = High(value), ![location + 2] = Low(value)]

\* The size of the buffer is first cut down to 16 bits, and then compared with itself.
SetPayloadSize ==
    LET size == Len(buffer) % (Radix * Radix)
    IN  /\ IF size = Len(buffer) /\ size >= 4 THEN SetBigEndianValue(2, size - 2)
           ELSE UNCHANGED buffer
        /\ UNCHANGED <<byte_data, added, replaced>>

\* Release: the buffer's owner takes the bytes.
Release ==
    /\ buffer' = <<>>
    /\ UNCHANGED <<byte_data, added, replaced>>

Next ==
    \/ AddByteData \/ AddMarkerAndSize \/ AddMarkerAndSizePlaceholder
    \/ AddText \/ AddExtendedXmpHeader
    \/ ReplaceSizePlaceholder
    \/ Build \/ SetPayloadSize \/ Release

Spec == Init /\ [][Next]_vars
-----------------------------------------------------------------------------
(***************************************************************************)
(* Properties.                                                             *)
(***************************************************************************)

\* If ReplaceSizePlaceholder returned true for a marker that was added by the
\* builder, then the datum holds that marker still, with the size behind it: "@return
\* Whether the size was set successfully" (jpeg_segment_builder.h).
SizeIsSet ==
    replaced.result =>
        \A type \in Byte :
            <<replaced.index, type>> \in added =>
                SubSeq(byte_data[replaced.index + 1].bytes, 1, 4)
                    = <<kStart, type, High(replaced.size), Low(replaced.size)>>
=============================================================================
