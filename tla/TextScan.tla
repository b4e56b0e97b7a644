------------------------------ MODULE TextScan ------------------------------
(***************************************************************************)
(* A text that comes in pieces, read with DataScanners: for every piece    *)
(* the DataLineMap is brought up to date and a DataContext is set up; then *)
(* Scan is called, the context's location is moved by what was consumed,   *)
(* and after a full match the next scanner is asked for.  A scanner that   *)
(* ran out of data is called again with the next piece.  The reader of the *)
(* text is not part of the library: it asks for any scanner, and may call  *)
(* Scan once too often.                                                    *)
(***************************************************************************)
EXTENDS DataLineMap, DataScanner

CONSTANTS Chars,          \* the characters
          Scanners,       \* the scanners asked for, as [type, literal]
          Texts,          \* the texts
          MaxTokens       \* bound: the tokens that are asked for

ASSUME TextsAssumption == Texts \subseteq Seq(Chars) \ {<<>>}

ASSUME ScannersAssumption ==
    Scanners \subseteq [type : ScannerTypes, literal : Seq(Chars \cup {AnyName})]

VARIABLES text,        \* the whole text
          range,       \* the piece that is there, in the DataContext's range_
          line_map,    \* the DataLineMap
          location,    \* the DataContext's location_
          scanner,     \* the scanner
          since,       \* history: where its token range was last begun
          result,      \* the type of the last DataMatchResult, or "none"
          tokens       \* history: the tokens found

vars == <<text, range, line_map, location, scanner, since, result, tokens>>

Results == {"none", "out of data", "full", "syntax error", "internal error"}

TypeOK ==
    /\ text \in Texts
    /\ range \in DataRange
    /\ line_map.lines \in Seq([number : Nat, range : DataRange])
    /\ line_map.incomplete \in BOOLEAN
    /\ location \in Nat /\ since \in Nat
    /\ [type |-> scanner.type, literal |-> scanner.literal] \in Scanners
    /\ scanner.token_range \in DataRange
    /\ result \in Results
    /\ tokens \in Seq([scanner : Scanners, begin : Nat, end : Nat])

FirstScanner(s) == NewScanner(s.type, s.literal)

Init ==
    /\ text \in Texts
    /\ range = InvalidRange
    /\ line_map = EmptyLineMap
    /\ location = 0 /\ since = 0
    /\ \E s \in Scanners : scanner = FirstScanner(s)
    /\ result = "none"
    /\ tokens = <<>>

\* The next piece, when the one before it has been used up.
Arrive ==
    /\ location = range.end
    /\ result # "syntax error"
    /\ \E end \in range.end + 1 .. Len(text) :
          /\ range' = NewRange(range.end, end)
          /\ line_map' = FindDataLines(line_map, text, NewRange(range.end, end))
    /\ UNCHANGED <<text, location, scanner, since, result, tokens>>

Wanted == [type |-> scanner.type, literal |-> scanner.literal]

Start == IF tokens = <<>> THEN 0 ELSE Last(tokens).end

\* Nothing is scanned behind the end of the piece, which is an internal error.
CallScan ==
    /\ result \notin {"full", "syntax error"}
    /\ LET match == Scan(scanner, text, location, range)
       IN  /\ scanner' = match.scanner
           /\ result' = match.type
           /\ location' = location + match.consumed
           /\ tokens' = IF match.type = "full"
                        THEN Append(tokens, [scanner |-> Wanted, begin |-> Start,
                                             end |-> match.scanner.token_range.end])
                        ELSE tokens
    /\ UNCHANGED <<text, range, line_map, since>>

\* The reader takes the part of the token that is there.  The scanners of literals,
\* names and whitespace tell from its length what is still to come.
TakePart ==
    /\ result = "out of data"
    /\ scanner.type \in {"quoted string", "through literal"}
    /\ IsValid(scanner.token_range)
    /\ scanner' = ResetTokenRange(scanner)
    /\ since' = location
    /\ UNCHANGED <<text, range, line_map, location, result, tokens>>

\* The scanner in use is reset and used again, or another is asked for.
NextScanner ==
    /\ result = "full"
    /\ Len(tokens) < MaxTokens
    /\ scanner' \in {Reset(scanner)} \cup {FirstScanner(s) : s \in Scanners}
    /\ since' = location
    /\ result' = "none"
    /\ UNCHANGED <<text, range, line_map, location, tokens>>

Next == Arrive \/ CallScan \/ TakePart \/ NextScanner

Spec == Init /\ [][Next]_vars
-----------------------------------------------------------------------------
(***************************************************************************)
(* Properties.                                                             *)
(***************************************************************************)

\* Pieces change nothing: the tokens are those of the whole text, and what is a
\* syntax error in pieces is one in the whole.
Whole == INSTANCE TextTokens WITH failed <- (result = "syntax error")

ImplementsTextTokens == Whole!Spec

\* A token that is in the text is found by the time the text has been read.  A literal
\* whose beginnings overlap may be overlooked if it is cut in two.
NoTokenIsMissed ==
    location = Len(text) /\ result = "out of data" =>
        \/ Whole!TokenEnds(Start, Wanted) = {}
        \/ scanner.type = "through literal" /\ ~Whole!NoOverlap(scanner.literal)

\* The token range is what was consumed since it was begun, without a gap.
TokenRangeIsConsumedText ==
    IsValid(scanner.token_range) => scanner.token_range = NewRange(since, location)

\* The lines are those of the text that has come so far, wherever it was cut: each
\* ends before a newline, or at the end of that text.
LinesAreThoseOfTheText ==
    LET ends   == {l \in 0 .. range.end - 1 : text[l + 1] = Newline}
        lines  == line_map.lines
        Begin(n) == IF n = 1 THEN 0 ELSE lines[n - 1].range.end + 1
    IN  /\ \A n \in 1 .. Len(lines) :
              /\ lines[n].number = n
              /\ lines[n].range = NewRange(Begin(n), lines[n].range.end)
              /\ lines[n].range.end \in ends \cup {range.end}
              /\ \A l \in ends : l < Begin(n) \/ lines[n].range.end <= l
        /\ Len(lines) = Cardinality(ends) + IF line_map.incomplete THEN 1 ELSE 0
        /\ line_map.incomplete => Last(lines).range.end = range.end

\* An error message shows the place it is about: the location is among what is shown,
\* that is all of one line and has the line's number, unless the location is that of
\* a newline; and the caret is under it if nothing in front of it takes more room than
\* one column.
ErrorTextShowsThePlace ==
    \A l \in range.begin .. range.end - 1 :
        LET shown  == GetErrorText(line_map, text, l, range).shown
            number == GetErrorText(line_map, text, l, range).number
            caret  == GetErrorText(line_map, text, l, range).caret
            before == {k \in 0 .. l - 1 : text[k + 1] = Newline}
            cut    == /\ shown.begin > range.begin
                      /\ text[shown.begin] # Newline \/ text[l + 1] = Newline
        IN  /\ ContainsLocation(shown, l) /\ ContainsRange(range, shown)
            /\ Length(shown) <= 2 * ShownLimit
            /\ text[l + 1] # Newline =>
                  /\ number = Cardinality(before) + 1
                  /\ \A k \in shown.begin .. shown.end - 1 : text[k + 1] # Newline
            /\ (\A k \in shown.begin .. l - 1 : text[k + 1] \in Printable) =>
                  caret = l - shown.begin + IF cut THEN 3 ELSE 0
=============================================================================
