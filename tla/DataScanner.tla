---------------------------- MODULE DataScanner ----------------------------
(***************************************************************************)
(* DataScanner of src/base/data_scanner.cc: a scanner for one kind of      *)
(* token, as a record with pure operations.  Scan gets the characters that *)
(* are left of the current piece of the text and says how many it consumed *)
(* and whether the token is there in full; a token that is not continues   *)
(* in the next piece.                                                      *)
(*                                                                         *)
(* data_ is what a scanner remembers besides the token range: the opening  *)
(* quote or kDone, the sentinel, or how much of the literal was matched.   *)
(* Here it is a sequence of characters, <<>> for 0.  The number of calls   *)
(* of Scan is left out: it is reported, and never used.                    *)
(***************************************************************************)
EXTENDS DataRanges, SequencesExt

CONSTANTS FirstNameChars,    \* IsFirstNameChar
          NameChars,         \* kOptionalChars
          Quotes,            \* kSquote and kDquote
          WhitespaceChars,   \* kWhitespaceChars
          AnyName            \* '~' among the sentinels

ASSUME CharsAssumption ==
    /\ FirstNameChars \subseteq NameChars
    /\ NameChars \cap WhitespaceChars = {}
    /\ Quotes \cap (NameChars \cup WhitespaceChars) = {}

ScannerTypes == {"literal", "name", "quoted string", "sentinel", "through literal",
                 "whitespace", "optional whitespace"}

\* A newly created scanner, which is also what Reset makes of one.
NewScanner(type, literal) ==
    [type |-> type, literal |-> literal, token_range |-> InvalidRange, data |-> <<>>]

\* Mutant: the literal is lost.
ResetWithoutLiteral(scanner) == NewScanner(scanner.type, <<>>)

Reset(scanner) == NewScanner(scanner.type, scanner.literal)

ResetTokenRange(scanner) == [scanner EXCEPT !.token_range = InvalidRange]

\* The kDone of ScanQuotedString: '.'.
Done == <<".">>

ExtendToken(scanner, delta) == [scanner EXCEPT !.token_range.end = @ + delta]

Match(type, consumed, scanner) ==
    [type |-> type, consumed |-> consumed, scanner |-> scanner]

SyntaxError(scanner)   == Match("syntax error", 0, scanner)
InternalError(scanner) == Match("internal error", 0, scanner)

Behind(seq, n) == SubSeq(seq, n + 1, Len(seq))

\* How many characters at the beginning are in a set (memspn).
Span(bytes, set) ==
    Min({Len(bytes)} \cup {n \in 0 .. Len(bytes) - 1 : bytes[n + 1] \notin set})

\* strncmp over as much as there is of both.
Agree(literal, bytes) == IsPrefix(literal, bytes) \/ IsPrefix(bytes, literal)

ScanLiteral(scanner, bytes) ==
    LET needed == Behind(scanner.literal, Length(scanner.token_range))
        count  == Smaller(Len(needed), Len(bytes))
    IN  IF needed = <<>> THEN InternalError(scanner)
        ELSE IF Agree(needed, bytes)
        THEN Match(IF count = Len(needed) THEN "full" ELSE "out of data",
                   count, ExtendToken(scanner, count))
        ELSE SyntaxError(scanner)

\* Mutant: the name is over at the end of a piece.
ScanNameInPiece(scanner, bytes) ==
    LET first    == IF Length(scanner.token_range) = 0 THEN 1 ELSE 0
        consumed == first + Span(Behind(bytes, first), NameChars)
    IN  IF first = 1 /\ bytes[1] \notin FirstNameChars THEN SyntaxError(scanner)
        ELSE Match("full", consumed, ExtendToken(scanner, consumed))

ScanName(scanner, bytes) ==
    LET first    == IF Length(scanner.token_range) = 0 THEN 1 ELSE 0
        consumed == first + Span(Behind(bytes, first), NameChars)
    IN  IF first = 1 /\ bytes[1] \notin FirstNameChars THEN SyntaxError(scanner)
        ELSE Match(IF consumed = 0 \/ consumed < Len(bytes) THEN "full"
                   ELSE "out of data",
                   consumed, ExtendToken(scanner, consumed))

ScanQuotedString(scanner, bytes) ==
    LET start  == scanner.data = <<>>
        opened == IF start THEN 1 ELSE 0
        quote  == IF start THEN bytes[1] ELSE scanner.data[1]
        inside == {n \in opened + 1 .. Len(bytes) : bytes[n] = quote}
    IN  IF IF start THEN Length(scanner.token_range) # 0 ELSE quote \notin Quotes
        THEN InternalError(scanner)
        ELSE IF quote \notin Quotes THEN SyntaxError(scanner)
        ELSE IF inside = {}
        THEN Match("out of data", Len(bytes),
                   [ExtendToken(scanner, Len(bytes)) EXCEPT !.data = <<quote>>])
        ELSE Match("full", Min(inside),
                   [ExtendToken(scanner, Min(inside)) EXCEPT !.data = Done])

ScanSentinel(scanner, bytes) ==
    LET sentinels == scanner.literal
        matching  == {n \in 1 .. Len(sentinels) :
                         \/ bytes[1] = sentinels[n]
                         \/ sentinels[n] = AnyName /\ bytes[1] \in FirstNameChars}
    IN  IF scanner.data # <<>> THEN InternalError(scanner)
        ELSE IF matching = {} THEN SyntaxError(scanner)
        ELSE Match("full", 1, [ExtendToken(scanner, 1) EXCEPT
                                  !.data = <<sentinels[Min(matching)]>>])

\* The literal's first "length" characters are matched, "consumed" bytes from here.
Matched(scanner, length, consumed) ==
    Match(IF length = Len(scanner.literal) THEN "full" ELSE "out of data", consumed,
          [ExtendToken(scanner, consumed) EXCEPT
              !.data = SubSeq(scanner.literal, 1, length)])

\* Mutant: after a false alarm the rest of the piece is not searched.
ScanThroughFirstChar(scanner, bytes) ==
    LET literal == scanner.literal
        known   == Len(scanner.data)
        needed  == Behind(literal, known)
        count   == Smaller(Len(needed), Len(bytes))
        before  == {n \in 0 .. Len(bytes) - 1 : bytes[n + 1] = literal[1]}
        length  == Smaller(Len(literal), Len(bytes) - Min(before))
    IN  IF needed = <<>> THEN InternalError(scanner)
        ELSE IF known > 0 /\ Agree(needed, bytes)
        THEN Matched(scanner, known + count, count)
        ELSE IF before # {} /\ Agree(literal, Behind(bytes, Min(before)))
        THEN Matched(scanner, length, Min(before) + length)
        ELSE Matched(scanner, 0, Len(bytes))

\* The loop goes from one first character of the literal to the next, until what
\* follows agrees with the literal as far as the piece goes.  A match begun in an
\* earlier piece is continued first; if it fails, the search begins in this piece.
ScanThroughLiteral(scanner, bytes) ==
    LET literal == scanner.literal
        known   == Len(scanner.data)
        needed  == Behind(literal, known)
        count   == Smaller(Len(needed), Len(bytes))
        before  == {n \in 0 .. Len(bytes) - 1 : Agree(literal, Behind(bytes, n))}
        length  == Smaller(Len(literal), Len(bytes) - Min(before))
    IN  IF needed = <<>> THEN InternalError(scanner)
        ELSE IF known > 0 /\ Agree(needed, bytes)
        THEN Matched(scanner, known + count, count)
        ELSE IF before # {} THEN Matched(scanner, length, Min(before) + length)
        ELSE Matched(scanner, 0, Len(bytes))

ScanWhitespace(scanner, bytes) ==
    LET consumed == Span(bytes, WhitespaceChars)
    IN  IF consumed = 0 /\ Length(scanner.token_range) = 0
           /\ scanner.type = "whitespace"
        THEN SyntaxError(scanner)
        ELSE Match(IF consumed < Len(bytes) THEN "full" ELSE "out of data",
                   consumed, ExtendToken(scanner, consumed))

ScanBytes(scanner, bytes) ==
    CASE scanner.type = "literal"         -> ScanLiteral(scanner, bytes)
      [] scanner.type = "name"            -> ScanName(scanner, bytes)
      [] scanner.type = "quoted string"   -> ScanQuotedString(scanner, bytes)
      [] scanner.type = "sentinel"        -> ScanSentinel(scanner, bytes)
      [] scanner.type = "through literal" -> ScanThroughLiteral(scanner, bytes)
      [] OTHER                            -> ScanWhitespace(scanner, bytes)

\* Mutant: the token begins again with every piece.
ScanFromHere(scanner, text, location, range) ==
    IF ContainsLocation(range, location)
    THEN ScanBytes([scanner EXCEPT !.token_range = NewRange(location, location)],
                   SubSeq(text, location + 1, range.end))
    ELSE InternalError(scanner)

\* Scan in a context of a location and a range; the range is that of a piece.
Scan(scanner, text, location, range) ==
    LET begun == IF IsValid(scanner.token_range) THEN scanner
                 ELSE [scanner EXCEPT !.token_range = NewRange(location, location)]
    IN  IF ContainsLocation(range, location)
        THEN ScanBytes(begun, SubSeq(text, location + 1, range.end))
        ELSE InternalError(scanner)
=============================================================================
