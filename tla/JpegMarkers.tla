---------------------------- MODULE JpegMarkers ----------------------------
(***************************************************************************)
(* JpegMarker of includes/image_io/jpeg/jpeg_marker.h.  A byte is a        *)
(* number below Radix: 256 in the code, smaller in the checked instances.  *)
(* A marker is the byte kStart, the largest one, followed by its type.     *)
(***************************************************************************)
EXTENDS Integers

CONSTANTS Radix,        \* how many values a byte has (256)
          FixedTypes    \* the valid types without a payload: 01, D0-D7, SOI, EOI

ASSUME RadixAssumption == Radix \in Nat /\ Radix >= 2

Byte == 0 .. Radix - 1

kStart == Radix - 1
kFILL  == Radix - 1
kZERO  == 0

kLength     == 2        \* bytes of a marker
kTypeOffset == 1        \* where in the marker its type is

ASSUME FixedTypesAssumption == FixedTypes \subseteq Byte \ {kZERO, kFILL}

\* FF00 is a stuffed zero byte and FFFF a fill byte: neither is a marker.
IsValidMarker(type) == type \notin {kZERO, kFILL}

HasVariablePayloadSize(type) == IsValidMarker(type) /\ type \notin FixedTypes

\* Mutant: the size is taken not to include its own two bytes.
PayloadSizeWithMarker(high, low) == high * Radix + low + 2

\* The big-endian size that follows the type of a marker with a payload.
PayloadSize(high, low) == high * Radix + low
=============================================================================
