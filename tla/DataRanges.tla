----------------------------- MODULE DataRanges -----------------------------
(***************************************************************************)
(* DataRange of includes/image_io/base/data_range.h: a half-open range of  *)
(* locations [begin, end) in a larger array of bytes.  A range is never    *)
(* rejected when it is built; an ill-formed or empty one is "invalid".     *)
(* Locations are naturals: size_t is taken to be wide enough.              *)
(***************************************************************************)
EXTENDS Integers

DataRange == [begin : Nat, end : Nat]

NewRange(begin, end) == [begin |-> begin, end |-> end]

\* The default constructor's range.
InvalidRange == NewRange(0, 0)

IsValid(range) == range.begin < range.end

Length(range) == IF IsValid(range) THEN range.end - range.begin ELSE 0

ContainsLocation(range, location) == location >= range.begin /\ location < range.end

ContainsRange(range, other) ==
    /\ IsValid(range) /\ IsValid(other)
    /\ other.begin >= range.begin
    /\ other.end <= range.end

Larger(a, b) == IF a < b THEN b ELSE a

Smaller(a, b) == IF b < a THEN b ELSE a

Intersection(range, other) ==
    NewRange(Larger(other.begin, range.begin), Smaller(other.end, range.end))
=============================================================================
