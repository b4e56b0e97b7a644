---------------------------- MODULE DataLineMap ----------------------------
(***************************************************************************)
(* DataLineMap of src/base/data_line_map.cc, which notes the lines of a    *)
(* text that comes in pieces, and what DataContext of                      *)
(* src/base/data_context.cc shows of a text around a location in its error *)
(* messages.  A text is a sequence of characters; the character at         *)
(* location l is text[l + 1].                                              *)
(*                                                                         *)
(* FindDataLines is called with a range that is not empty: for an empty    *)
(* one the code reads a line_end that was never set.                       *)
(***************************************************************************)
EXTENDS DataRanges, SequencesExt

CONSTANTS Newline,      \* the character that ends a line
          Printable,    \* the characters isprint() accepts
          ShownLimit    \* kLimit of DataContext

ASSUME ShownLimitAssumption == ShownLimit \in Nat \ {0}

\* The location of a character in a range, or the range's end (DataSegment::Find).
Find(text, range, char) ==
    Min({range.end} \cup {l \in range.begin .. range.end - 1 : text[l + 1] = char})

\* lines: data_lines_; incomplete: last_line_incomplete_.
EmptyLineMap == [lines |-> <<>>, incomplete |-> FALSE]

NoLine == [number |-> 0, range |-> InvalidRange]

\* What an iteration does with [line_begin, line_end): the last line goes on, or a line
\* is added.
AddPart(map, part, range) ==
    LET last == Len(map.lines)
    IN  IF map.incomplete /\ last > 0
        THEN [lines      |-> [map.lines EXCEPT ![last].range.end = part.end],
              incomplete |-> part.end >= range.end]
        ELSE [map EXCEPT !.lines =
                 Append(@, [number |-> last + 1, range |-> part])]

\* The members with line_begin and line_end; an iteration that is over does nothing more.
NextLine(loop, text, range) ==
    LET end == Find(text, NewRange(loop.begin, range.end), Newline)
    IN  IF loop.begin >= range.end THEN loop
        ELSE [map   |-> AddPart(loop.map, NewRange(loop.begin, end), range),
              begin |-> end + 1,
              end   |-> end]

\* The iterations: no more than there are characters.
ScanLines(map, text, range) ==
    FoldLeft(LAMBDA loop, n : NextLine(loop, text, range),
             [map |-> map, begin |-> range.begin, end |-> range.begin],
             [n \in 1 .. Length(range) |-> n])

\* Mutant: a piece that does not end in a newline leaves the flag as it is.
FindDataLinesWithoutFlag(map, text, range) == ScanLines(map, text, range).map

FindDataLines(map, text, range) ==
    LET loop == ScanLines(map, text, range)
    IN  [loop.map EXCEPT !.incomplete = (loop.end = range.end)]

\* Mutant: upper_bound in place of lower_bound, with the rest unchanged.
GetDataLineByUpperBound(map, location) ==
    LET lines  == map.lines
        behind == {n \in 1 .. Len(lines) : lines[n].range.begin > location}
        line   == IF behind = {} THEN Len(lines) ELSE Min(behind)
    IN  IF lines # <<>> /\ ContainsLocation(lines[line].range, location)
        THEN lines[line]
        ELSE NoLine

\* The line a location is in; a newline, and so an empty line, is in none.
GetDataLine(map, location) ==
    LET lines    == map.lines
        not_less == {n \in 1 .. Len(lines) : lines[n].range.begin >= location}
        first    == Min(not_less)
        line     == IF not_less = {} THEN Len(lines)
                    ELSE IF first > 1 /\ location < lines[first - 1].range.end
                    THEN first - 1
                    ELSE first
    IN  IF lines # <<>> /\ ContainsLocation(lines[line].range, location)
        THEN lines[line]
        ELSE NoLine
-----------------------------------------------------------------------------
(***************************************************************************)
(* GetErrorText of DataContext, without its words.  The characters of the  *)
(* piece that belong to the line are "clipped"; up to ShownLimit of them   *)
(* on either side of the location are "shown".  The caret is put that many *)
(* columns behind the label of the line.                                   *)
(***************************************************************************)
ClippedRange(range, line) ==
    IF IsValid(line.range) THEN Intersection(range, line.range) ELSE range

ShownRange(location, clipped) ==
    LET begin == IF clipped.begin + ShownLimit < location
                 THEN location - ShownLimit
                 ELSE clipped.begin
    IN  NewRange(begin, Smaller(begin + 2 * ShownLimit, clipped.end))

\* "..." in front, and \xHH for a character that cannot be printed.
Caret(text, location, clipped, shown) ==
    LET dots   == IF shown.begin # clipped.begin THEN 3 ELSE 0
        hidden == {l \in shown.begin .. location - 1 : text[l + 1] \notin Printable}
    IN  location - shown.begin + dots + 4 * Cardinality(hidden)

\* For a location in the range; for any other there is nothing to show.
GetErrorText(map, text, location, range) ==
    LET line    == GetDataLine(map, location)
        clipped == ClippedRange(range, line)
        shown   == ShownRange(location, clipped)
    IN  [number  |-> line.number, clipped |-> clipped, shown |-> shown,
         caret   |-> Caret(text, location, clipped, shown)]
=============================================================================
