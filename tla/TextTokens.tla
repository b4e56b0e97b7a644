----------------------------- MODULE TextTokens -----------------------------
(***************************************************************************)
(* What the scanners of data_scanner.h promise: the tokens of a text that  *)
(* is there as a whole.  One token follows the other; which kind is asked  *)
(* for next is up to whoever reads the text.                               *)
(*                                                                         *)
(* A name or whitespace is a token only if something else follows it:      *)
(* until then it might go on.                                              *)
(***************************************************************************)
EXTENDS Integers, Sequences

CONSTANTS FirstNameChars, NameChars, Quotes, WhitespaceChars, AnyName,
          Scanners      \* the scanners asked for, as [type, literal]

VARIABLES text,         \* the text, which does not change
          tokens,       \* the tokens found, as [scanner, begin, end]
          failed        \* something else was there than asked for

vars == <<text, tokens, failed>>

Start == IF tokens = <<>> THEN 0 ELSE tokens[Len(tokens)].end

CharAt(l) == text[l + 1]

Holds(l, literal) ==
    l + Len(literal) <= Len(text) /\ SubSeq(text, l + 1, l + Len(literal)) = literal

\* The end of the characters of a set that begin at l, if there is one.
EndsOfSpan(l, set) ==
    {e \in l .. Len(text) - 1 : /\ CharAt(e) \notin set
                                /\ \A k \in l .. e - 1 : CharAt(k) \in set}

\* No beginning of the literal ends as it begins, except the whole.  For such a
\* literal a failed match holds no beginning of another.
NoOverlap(literal) ==
    \A n \in 1 .. Len(literal) - 1 : \A k \in 1 .. n - 1 :
        SubSeq(literal, 1, k) # SubSeq(literal, n - k + 1, n)

\* Where a literal ends that begins at l or later: the first one, except that one
\* may be overlooked that overlaps with a beginning of itself.
EndsThrough(l, literal) ==
    {e \in l + Len(literal) .. Len(text) :
        /\ Holds(e - Len(literal), literal)
        /\ NoOverlap(literal) => \A k \in l .. e - Len(literal) - 1 : ~Holds(k, literal)}

MatchesSentinel(char, sentinels) ==
    \E n \in 1 .. Len(sentinels) :
        char = sentinels[n] \/ (sentinels[n] = AnyName /\ char \in FirstNameChars)

\* Where the token ends that begins at l.  It is empty if there is no such token.
TokenEnds(l, scanner) ==
    IF l >= Len(text) THEN {}
    ELSE CASE scanner.type = "literal" ->
                {e \in {l + Len(scanner.literal)} : Holds(l, scanner.literal)}
           [] scanner.type = "name" /\ CharAt(l) \in FirstNameChars ->
                EndsOfSpan(l + 1, NameChars)
           [] scanner.type = "quoted string" /\ CharAt(l) \in Quotes ->
                {e + 1 : e \in {k \in l + 1 .. Len(text) - 1 :
                                   /\ CharAt(k) = CharAt(l)
                                   /\ \A i \in l + 1 .. k - 1 : CharAt(i) # CharAt(l)}}
           [] scanner.type = "sentinel" ->
                {e \in {l + 1} : MatchesSentinel(CharAt(l), scanner.literal)}
           [] scanner.type = "through literal" -> EndsThrough(l, scanner.literal)
           [] scanner.type = "whitespace" /\ CharAt(l) \in WhitespaceChars ->
                EndsOfSpan(l, WhitespaceChars)
           [] scanner.type = "optional whitespace" -> EndsOfSpan(l, WhitespaceChars)
           [] OTHER -> {}

\* Whether the text at l can be no token, whatever follows.
Excluded(l, scanner) ==
    /\ l < Len(text)
    /\ CASE scanner.type = "literal" ->
               \E n \in 1 .. Len(scanner.literal) :
                   l + n <= Len(text) /\ text[l + n] # scanner.literal[n]
         [] scanner.type = "name" -> CharAt(l) \notin FirstNameChars
         [] scanner.type = "quoted string" -> CharAt(l) \notin Quotes
         [] scanner.type = "sentinel" -> ~MatchesSentinel(CharAt(l), scanner.literal)
         [] scanner.type = "whitespace" -> CharAt(l) \notin WhitespaceChars
         [] OTHER -> FALSE

Init == tokens = <<>> /\ failed = FALSE

FindToken(scanner) ==
    /\ ~failed
    /\ \E end \in TokenEnds(Start, scanner) :
          tokens' = Append(tokens, [scanner |-> scanner, begin |-> Start, end |-> end])
    /\ UNCHANGED <<text, failed>>

Fail(scanner) ==
    /\ ~failed
    /\ Excluded(Start, scanner)
    /\ failed' = TRUE
    /\ UNCHANGED <<text, tokens>>

Next == \E scanner \in Scanners : FindToken(scanner) \/ Fail(scanner)

Spec == Init /\ [][Next]_vars
=============================================================================
