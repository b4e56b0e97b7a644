--------------------------- MODULE TextScanProofs ---------------------------
(***************************************************************************)
(* Proofs about TextScan, for all texts, cut in any pieces, any scanners   *)
(* and any classes of characters: the tokens found are those of the text   *)
(* as a whole (TextTokens), the lines noted are its lines, and an error    *)
(* message shows the place it is about.                                    *)
(*                                                                         *)
(* The inductive invariant says what a scanner knows of the part of its    *)
(* token that has come so far.                                             *)
(***************************************************************************)
EXTENDS TextScan, SequenceTheorems, FiniteSetTheorems, WellFoundedInduction, TLAPS

-----------------------------------------------------------------------------
(***************************************************************************)
(* Numbers and characters.                                                 *)
(***************************************************************************)
LEMMA SmallestOf ==
    \A S \in SUBSET Nat : S # {} => Min(S) \in S /\ \A y \in S : Min(S) <= y
<1> SUFFICES ASSUME NEW S \in SUBSET Nat, S # {}
             PROVE  Min(S) \in S /\ \A y \in S : Min(S) <= y
  OBVIOUS
<1>0. PICK R : R = OpToRel(<, Nat)
  OBVIOUS
<1>1. IsWellFoundedOn(R, Nat)
  BY <1>0, NatLessThanWellFounded
<1>2. PICK x \in S : \A y \in S : <<y, x>> \notin R
  BY <1>1, WFMin
<1>3. \A y \in S : x <= y
  <2> TAKE y \in S
  <2>1. <<y, x>> \notin R
    BY <1>2
  <2>2. ~(y < x)
    BY <1>0, <2>1 DEF OpToRel
  <2> QED
    BY <2>2
<1> QED
  BY <1>3 DEF Min

\* The smallest number of a set that has the bound in it, and otherwise smaller ones.
LEMMA SmallestUpTo ==
    ASSUME NEW bound \in Nat, NEW S \in SUBSET Nat, \A y \in S : y < bound
    PROVE  \E m \in Nat :
              /\ m = Min({bound} \cup S) /\ m <= bound
              /\ m < bound => m \in S
              /\ \A y \in S : m <= y
              /\ S # {} => m < bound
<1>1. {bound} \cup S \in SUBSET Nat /\ {bound} \cup S # {}
  OBVIOUS
<1>2. PICK m : m = Min({bound} \cup S)
  OBVIOUS
<1>3. m \in {bound} \cup S /\ \A y \in {bound} \cup S : m <= y
  BY <1>1, <1>2, SmallestOf
<1>4. m \in Nat /\ m <= bound /\ (m < bound => m \in S) /\ \A y \in S : m <= y
  BY <1>3
<1>5. ASSUME NEW y \in S
      PROVE  m < bound
  <2>1. m <= y /\ y < bound /\ y \in Nat
    BY <1>4
  <2> QED
    BY <1>4, <2>1
<1> QED
  BY <1>2, <1>4, <1>5

LEMMA SpanIs ==
    ASSUME NEW bytes \in Seq(Chars), NEW set
    PROVE  /\ Span(bytes, set) \in 0 .. Len(bytes)
           /\ \A k \in 1 .. Span(bytes, set) : bytes[k] \in set
           /\ Span(bytes, set) < Len(bytes) => bytes[Span(bytes, set) + 1] \notin set
<1>1. PICK n \in Nat : n = Len(bytes)
  BY LenProperties
<1>2. PICK S : S = {k \in 0 .. n - 1 : bytes[k + 1] \notin set}
  OBVIOUS
<1>3. S \in SUBSET Nat /\ \A y \in S : y < n
  BY <1>2
<1>4. PICK m \in Nat : /\ m = Min({n} \cup S) /\ m <= n /\ (m < n => m \in S)
                      /\ \A y \in S : m <= y
  BY <1>3, SmallestUpTo
<1>5. Span(bytes, set) = m
  BY <1>1, <1>2, <1>4 DEF Span
<1>6. ASSUME NEW k \in 1 .. m
      PROVE  bytes[k] \in set
  <2>1. k - 1 \in 0 .. n - 1 /\ k - 1 < m /\ (k - 1) + 1 = k
    BY <1>4
  <2>2. k - 1 \notin S
    <3> SUFFICES ASSUME k - 1 \in S
                 PROVE  FALSE
      OBVIOUS
    <3>1. m <= k - 1
      BY <1>4
    <3> QED
      BY <1>4, <2>1, <3>1
  <2> QED
    BY <1>2, <2>1, <2>2
<1> QED
  BY <1>1, <1>2, <1>4, <1>5, <1>6

\* What is left of a piece of the text.
LEMMA RestOfPiece ==
    ASSUME text \in Seq(Chars), NEW at \in Nat, NEW upto \in Nat, at < upto, upto <= Len(text)
    PROVE  LET bytes == SubSeq(text, at + 1, upto)
           IN  /\ bytes \in Seq(Chars) /\ Len(bytes) = upto - at
               /\ \A k \in 1 .. upto - at : bytes[k] = text[at + k]
<1>1. at + 1 \in 1 .. Len(text) /\ upto \in 1 .. Len(text) /\ Len(text) \in Nat
  BY LenProperties
<1>2. /\ SubSeq(text, at + 1, upto) \in Seq(Chars)
      /\ Len(SubSeq(text, at + 1, upto)) = upto - at
      /\ \A k \in 1 .. upto - at : SubSeq(text, at + 1, upto)[k] = text[at + k]
  BY <1>1, SubSeqProperties
<1> QED
  BY <1>2

\* The end of a sequence, and the agreement of two, character by character.
LEMMA BehindIs ==
    ASSUME NEW S, NEW seq \in Seq(S), NEW n \in Nat, n <= Len(seq)
    PROVE  /\ Behind(seq, n) \in Seq(S) /\ Len(Behind(seq, n)) = Len(seq) - n
           /\ \A k \in 1 .. Len(seq) - n : Behind(seq, n)[k] = seq[n + k]
<1>1. PICK m \in Nat : m = Len(seq)
  BY LenProperties
<1>2. CASE n = m
  <2>1. Behind(seq, n) = <<>>
    BY <1>1, <1>2, SubSeqProperties DEF Behind
  <2> QED
    BY <1>1, <1>2, <2>1
<1>3. CASE n < m
  <2>1. n + 1 \in 1 .. m /\ m \in 1 .. m /\ n + 1 <= m + 1
    BY <1>3
  <2> QED
    BY <1>1, <2>1, SubSeqProperties DEF Behind
<1> QED
  BY <1>1, <1>2, <1>3

LEMMA AgreeIs ==
    ASSUME NEW S, NEW s \in Seq(S), NEW t \in Seq(S)
    PROVE  Agree(s, t) <=> \A k \in 1 .. Smaller(Len(s), Len(t)) : s[k] = t[k]
<1>1. PICK m \in Nat, n \in Nat : m = Len(s) /\ n = Len(t)
  BY LenProperties
<1>2. \A k \in 0 .. m : /\ SubSeq(s, 1, k) \in Seq(S) /\ Len(SubSeq(s, 1, k)) = k
                        /\ \A i \in 1 .. k : SubSeq(s, 1, k)[i] = s[i]
  BY <1>1, SubSeqProperties
<1>3. \A k \in 0 .. n : /\ SubSeq(t, 1, k) \in Seq(S) /\ Len(SubSeq(t, 1, k)) = k
                        /\ \A i \in 1 .. k : SubSeq(t, 1, k)[i] = t[i]
  BY <1>1, SubSeqProperties
<1>4. ASSUME NEW k \in Nat, k <= m, k <= n
      PROVE  SubSeq(s, 1, k) = SubSeq(t, 1, k) <=> \A i \in 1 .. k : s[i] = t[i]
  <2>0. k \in 0 .. m /\ k \in 0 .. n
    BY <1>4
  <2>1. PICK a \in Seq(S), b \in Seq(S) :
           a = SubSeq(s, 1, k) /\ b = SubSeq(t, 1, k) /\ Len(a) = k /\ Len(b) = k
    BY <1>2, <1>3, <2>0
  <2>2. \A i \in 1 .. k : a[i] = s[i] /\ b[i] = t[i]
    BY <1>2, <1>3, <1>4, <2>1
  <2>3. a = b <=> \A i \in 1 .. k : a[i] = b[i]
    BY <2>1, SeqEqual
  <2> QED
    BY <2>1, <2>2, <2>3
<1>5. CASE m <= n
  <2>1. Smaller(Len(s), Len(t)) = m /\ IsPrefix(s, t) <=> \A i \in 1 .. m : s[i] = t[i]
    BY <1>1, <1>4, <1>5 DEF IsPrefix, Smaller
  <2>2. IsPrefix(t, s) => \A i \in 1 .. m : s[i] = t[i]
    BY <1>1, <1>4, <1>5 DEF IsPrefix
  <2>3. Smaller(Len(s), Len(t)) = m
    BY <1>1, <1>5 DEF Smaller
  <2> QED
    BY <2>1, <2>2, <2>3 DEF Agree
<1>6. CASE n < m
  <2>1. Smaller(Len(s), Len(t)) = n /\ ~IsPrefix(s, t)
    BY <1>1, <1>6 DEF Smaller, IsPrefix
  <2>2. IsPrefix(t, s) <=> \A i \in 1 .. n : s[i] = t[i]
    BY <1>1, <1>4, <1>6 DEF IsPrefix
  <2> QED
    BY <2>1, <2>2 DEF Agree
<1> QED
  BY <1>1, <1>5, <1>6
-----------------------------------------------------------------------------
(***************************************************************************)
(* What a scanner knows of the text from the start of its token up to      *)
(* where it is.                                                            *)
(***************************************************************************)
Symbols == Chars \cup {AnyName}

AScanner(type, literal, token_range, data) ==
    [type |-> type, literal |-> literal, token_range |-> token_range, data |-> data]

\* The text at l is the literal, as far as it goes.
Fits(literal, l, upto) ==
    \A i \in 1 .. Smaller(Len(literal), upto - l) : text[l + i] = literal[i]

SeenLiteral(literal, start, at) ==
    /\ at = start \/ at - start < Len(literal)
    /\ \A i \in 1 .. at - start : text[start + i] = literal[i]

SeenName(start, at) ==
    at > start => /\ text[start + 1] \in FirstNameChars
                  /\ \A k \in start + 2 .. at : text[k] \in NameChars

SeenQuoted(data, start, at) ==
    \/ data = <<>> /\ at = start
    \/ \E quote \in Quotes : /\ data = <<quote>>
                             /\ at > start /\ text[start + 1] = quote
                             /\ \A k \in start + 2 .. at : text[k] # quote

SeenSpace(start, at) == \A k \in start + 1 .. at : text[k] \in WhitespaceChars

\* The last characters may be the beginning of the literal; if no two beginnings of it
\* overlap, it begins nowhere before.
SeenThrough(literal, data, start, at) ==
    \E known \in Nat :
        /\ known < Len(literal) \/ known = 0
        /\ data = SubSeq(literal, 1, known)
        /\ start <= at - known
        /\ \A i \in 1 .. known : text[at - known + i] = literal[i]
        /\ Whole!NoOverlap(literal) =>
              \A k \in start .. at - 1 : k # at - known => ~Fits(literal, k, at)

Seen(type, literal, data, start, at) ==
    /\ type = "literal"         => SeenLiteral(literal, start, at)
    /\ type = "name"            => SeenName(start, at)
    /\ type = "quoted string"   => SeenQuoted(data, start, at)
    /\ type = "sentinel"        => at = start
    /\ type = "through literal" => SeenThrough(literal, data, start, at)
    /\ type \in {"whitespace", "optional whitespace"} => SeenSpace(start, at)

HasLiteral(type, literal) == type \in {"literal", "through literal"} => literal # <<>>

\* The scanners that tell from the token range how far they are.
IsWhole(type) == type \notin {"quoted string", "through literal"}

\* What is left of the piece, behind at.
IsPiece(bytes, at, left) ==
    /\ text \in Seq(Chars) /\ at \in Nat /\ left \in Nat
    /\ left > 0 /\ at + left <= Len(text)
    /\ bytes \in Seq(Chars) /\ Len(bytes) = left
    /\ \A k \in 1 .. left : bytes[k] = text[at + k]

\* A call of ScanBytes.
IsCall(s, type, literal, data, from, start, at, left, bytes) ==
    /\ IsPiece(bytes, at, left)
    /\ literal \in Seq(Symbols)
    /\ from \in Nat /\ start \in Nat /\ from <= at /\ start <= at
    /\ IsWhole(type) => from = start
    /\ s = AScanner(type, literal, NewRange(from, at), data)
    /\ Seen(type, literal, data, start, at)

\* The types of a DataMatchResult.
OutOfData == "out of data"
Wrong     == "syntax error"
Misused   == "internal error"

\* What such a call comes to.
IsAnswer(match, type, literal, data, from, start, at, left) ==
    \E n \in 0 .. left : \E new :
        /\ match.consumed = n
        /\ match.scanner = AScanner(type, literal, NewRange(from, at + n), new)
        /\ \/ /\ match.type = "full"
              /\ at + n \in Whole!TokenEnds(start, [type |-> type, literal |-> literal])
           \/ /\ match.type = Wrong /\ n = 0
              /\ Whole!Excluded(start, [type |-> type, literal |-> literal])
           \/ /\ match.type = OutOfData
              /\ Seen(type, literal, new, start, at + n) /\ HasLiteral(type, literal)
           \/ match.type = Misused /\ n = 0 /\ new = data

LEMMA LengthOf ==
    ASSUME NEW from \in Nat, NEW at \in Nat, from <= at
    PROVE  Length(NewRange(from, at)) = at - from
BY DEF Length, IsValid, NewRange

LEMMA Extends ==
    ASSUME NEW type, NEW literal, NEW data, NEW from, NEW at, NEW n
    PROVE  ExtendToken(AScanner(type, literal, NewRange(from, at), data), n)
              = AScanner(type, literal, NewRange(from, at + n), data)
BY DEF ExtendToken, AScanner, NewRange

LEMMA Refuses ==
    ASSUME NEW s, NEW type, NEW literal, NEW data, NEW from, NEW start, NEW at \in Nat,
           NEW left \in Nat, s = AScanner(type, literal, NewRange(from, at), data)
    PROVE  /\ IsAnswer(InternalError(s), type, literal, data, from, start, at, left)
           /\ Whole!Excluded(start, [type |-> type, literal |-> literal]) =>
                 IsAnswer(SyntaxError(s), type, literal, data, from, start, at, left)
<1>1. 0 \in 0 .. left /\ at + 0 = at
  OBVIOUS
<1>2. IsAnswer(InternalError(s), type, literal, data, from, start, at, left)
  BY <1>1 DEF IsAnswer, InternalError, Match, Misused
<1>3. ASSUME Whole!Excluded(start, [type |-> type, literal |-> literal])
      PROVE  IsAnswer(SyntaxError(s), type, literal, data, from, start, at, left)
  BY <1>1, <1>3 DEF IsAnswer, SyntaxError, Match, Wrong
<1> QED
  BY <1>2, <1>3

LEMMA HoldsIs ==
    ASSUME text \in Seq(Chars), NEW literal \in Seq(Symbols), NEW l \in Nat
    PROVE  Whole!Holds(l, literal) <=>
              /\ l + Len(literal) <= Len(text)
              /\ \A i \in 1 .. Len(literal) : text[l + i] = literal[i]
<1>1. PICK m \in Nat : m = Len(literal)
  BY LenProperties
<1>2. Len(text) \in Nat /\ \A i \in 1 .. Len(text) : text[i] \in Symbols
  BY LenProperties, ElementOfSeq DEF Symbols
<1>3. ASSUME l + m <= Len(text)
      PROVE  SubSeq(text, l + 1, l + m) = literal <=>
                \A i \in 1 .. m : text[l + i] = literal[i]
  <2>1. \A i \in l + 1 .. l + m : text[i] \in Symbols
    BY <1>2, <1>3
  <2>2. PICK part \in Seq(Symbols) : part = SubSeq(text, l + 1, l + m) /\ Len(part) = m
    <3>1. /\ SubSeq(text, l + 1, l + m) \in Seq(Symbols)
          /\ Len(SubSeq(text, l + 1, l + m)) = m
      BY <2>1, SubSeqProperties
    <3> QED
      BY <3>1
  <2>3. \A i \in 1 .. m : part[i] = text[l + i]
    BY <2>1, <2>2, SubSeqProperties
  <2>4. part = literal <=> \A i \in 1 .. m : part[i] = literal[i]
    BY <1>1, <2>2, SeqEqual
  <2> QED
    BY <2>2, <2>3, <2>4
<1> QED
  BY <1>1, <1>3 DEF Whole!Holds

\* The ends of tokens and what is excluded, type by type.
LEMMA EndsOf ==
    ASSUME NEW l \in Nat, l < Len(text), text \in Seq(Chars), NEW literal, NEW e
    PROVE  /\ e \in Whole!TokenEnds(l, [type |-> "literal", literal |-> literal])
                 <=> e = l + Len(literal) /\ Whole!Holds(l, literal)
           /\ e \in Whole!TokenEnds(l, [type |-> "name", literal |-> literal])
                 <=> text[l + 1] \in FirstNameChars /\ e \in Whole!EndsOfSpan(l + 1, NameChars)
           /\ e \in Whole!TokenEnds(l, [type |-> "quoted string", literal |-> literal])
                 <=> /\ text[l + 1] \in Quotes
                     /\ \E k \in l + 1 .. Len(text) - 1 :
                           /\ e = k + 1 /\ text[k + 1] = text[l + 1]
                           /\ \A i \in l + 1 .. k - 1 : text[i + 1] # text[l + 1]
           /\ e \in Whole!TokenEnds(l, [type |-> "sentinel", literal |-> literal])
                 <=> e = l + 1 /\ Whole!MatchesSentinel(text[l + 1], literal)
           /\ e \in Whole!TokenEnds(l, [type |-> "through literal", literal |-> literal])
                 <=> e \in Whole!EndsThrough(l, literal)
           /\ e \in Whole!TokenEnds(l, [type |-> "whitespace", literal |-> literal])
                 <=> /\ text[l + 1] \in WhitespaceChars
                     /\ e \in Whole!EndsOfSpan(l, WhitespaceChars)
           /\ e \in Whole!TokenEnds(l, [type |-> "optional whitespace", literal |-> literal])
                 <=> e \in Whole!EndsOfSpan(l, WhitespaceChars)
<1>1. ~(l >= Len(text))
  BY LenProperties
<1>2. PICK c : c = text[l + 1] /\ Whole!CharAt(l) = c
  BY DEF Whole!CharAt
<1>3. e \in Whole!TokenEnds(l, [type |-> "literal", literal |-> literal])
         <=> e = l + Len(literal) /\ Whole!Holds(l, literal)
  BY <1>1, <1>2 DEF Whole!TokenEnds
<1>4. e \in Whole!TokenEnds(l, [type |-> "name", literal |-> literal])
         <=> text[l + 1] \in FirstNameChars /\ e \in Whole!EndsOfSpan(l + 1, NameChars)
  BY <1>1, <1>2 DEF Whole!TokenEnds
<1>5. e \in Whole!TokenEnds(l, [type |-> "quoted string", literal |-> literal])
         <=> /\ text[l + 1] \in Quotes
             /\ \E k \in l + 1 .. Len(text) - 1 :
                   /\ e = k + 1 /\ text[k + 1] = text[l + 1]
                   /\ \A i \in l + 1 .. k - 1 : text[i + 1] # text[l + 1]
  BY <1>1, <1>2 DEF Whole!TokenEnds, Whole!CharAt
<1>6. e \in Whole!TokenEnds(l, [type |-> "sentinel", literal |-> literal])
         <=> e = l + 1 /\ Whole!MatchesSentinel(text[l + 1], literal)
  BY <1>1, <1>2 DEF Whole!TokenEnds
<1>7. e \in Whole!TokenEnds(l, [type |-> "through literal", literal |-> literal])
         <=> e \in Whole!EndsThrough(l, literal)
  BY <1>1, <1>2 DEF Whole!TokenEnds
<1>8. e \in Whole!TokenEnds(l, [type |-> "whitespace", literal |-> literal])
         <=> /\ text[l + 1] \in WhitespaceChars
             /\ e \in Whole!EndsOfSpan(l, WhitespaceChars)
  BY <1>1, <1>2 DEF Whole!TokenEnds
<1>9. e \in Whole!TokenEnds(l, [type |-> "optional whitespace", literal |-> literal])
         <=> e \in Whole!EndsOfSpan(l, WhitespaceChars)
  BY <1>1, <1>2 DEF Whole!TokenEnds
<1> QED
  BY <1>3, <1>4, <1>5, <1>6, <1>7, <1>8, <1>9, Zenon

-----------------------------------------------------------------------------
(***************************************************************************)
(* The scanners, one after the other.                                      *)
(***************************************************************************)
LEMMA FullAnswer ==
    ASSUME NEW type, NEW literal, NEW data, NEW from, NEW start, NEW at, NEW left, NEW new,
           NEW n \in 0 .. left,
           at + n \in Whole!TokenEnds(start, [type |-> type, literal |-> literal])
    PROVE  IsAnswer(Match("full", n, AScanner(type, literal, NewRange(from, at + n), new)),
                    type, literal, data, from, start, at, left)
BY DEF IsAnswer, Match

LEMMA PartAnswer ==
    ASSUME NEW type, NEW literal, NEW data, NEW from, NEW start, NEW at, NEW left, NEW new,
           NEW n \in 0 .. left,
           Seen(type, literal, new, start, at + n), HasLiteral(type, literal)
    PROVE  IsAnswer(Match("out of data", n,
                          AScanner(type, literal, NewRange(from, at + n), new)),
                    type, literal, data, from, start, at, left)
BY DEF IsAnswer, Match, OutOfData
\* The rest of a sequence behind its first characters.
IsRest(rest, S, seq, n, left) ==
    /\ rest \in Seq(S) /\ Len(rest) = left
    /\ \A k \in 1 .. left : rest[k] = seq[n + k]

LEMMA RestIs ==
    ASSUME NEW S, NEW seq, NEW n, seq \in Seq(S), n \in 0 .. Len(seq)
    PROVE  IsRest(Behind(seq, n), S, seq, n, Len(seq) - n)
<1>1. n \in Nat /\ n <= Len(seq)
  OBVIOUS
<1> QED
  BY <1>1, BehindIs DEF IsRest

\* The characters of the set behind the first ones go on up to n.
HasSpan(n, at, left, first, set) ==
    /\ n \in Nat /\ first <= n /\ n <= left
    /\ \A k \in at + first + 1 .. at + n : text[k] \in set
    /\ n < left => text[at + n + 1] \notin set

LEMMA SpanFrom ==
    ASSUME NEW bytes, NEW at, NEW left, NEW first, NEW set,
           IsPiece(bytes, at, left), first \in 0 .. left
    PROVE  HasSpan(first + Span(Behind(bytes, first), set), at, left, first, set)
<1>1. /\ at \in Nat /\ left \in Nat /\ first \in Nat /\ first <= left
      /\ bytes \in Seq(Chars) /\ Len(bytes) = left
      /\ \A k \in 1 .. left : bytes[k] = text[at + k]
  BY DEF IsPiece
<1>2. IsRest(Behind(bytes, first), Chars, bytes, first, Len(bytes) - first)
  <2>1. first \in 0 .. Len(bytes)
    BY <1>1
  <2> QED
    BY <1>1, <2>1, RestIs
<1>3. PICK rest : rest = Behind(bytes, first)
  OBVIOUS
<1>4. /\ rest \in Seq(Chars) /\ Len(rest) = left - first
      /\ \A k \in 1 .. left - first : rest[k] = bytes[first + k]
  BY <1>1, <1>2, <1>3 DEF IsRest
<1>5. /\ Span(rest, set) \in 0 .. Len(rest)
      /\ \A k \in 1 .. Span(rest, set) : rest[k] \in set
      /\ Span(rest, set) < Len(rest) => rest[Span(rest, set) + 1] \notin set
  BY <1>4, SpanIs
<1>6. PICK span : span = Span(rest, set)
  OBVIOUS
<1>7. /\ span \in Nat /\ span <= left - first
      /\ \A k \in 1 .. span : rest[k] \in set
      /\ span < left - first => rest[span + 1] \notin set
  BY <1>1, <1>4, <1>5, <1>6
<1>8. PICK n \in Nat : n = first + span
  BY <1>1, <1>7
<1>9. first <= n /\ n <= left
  BY <1>1, <1>7, <1>8
<1>10. ASSUME NEW k \in at + first + 1 .. at + n
       PROVE  text[k] \in set
  <2>1. PICK i \in Nat : k = at + first + i /\ 1 <= i /\ i <= span
    <3>1. k - (at + first) \in Nat /\ k = at + first + (k - (at + first))
          /\ 1 <= k - (at + first) /\ k - (at + first) <= span
      BY <1>1, <1>7, <1>8
    <3> QED
      BY <3>1
  <2>2. i \in 1 .. span /\ i \in 1 .. left - first /\ first + i \in 1 .. left
        /\ at + (first + i) = k
    BY <1>1, <1>7, <2>1
  <2>3. rest[i] \in set /\ rest[i] = bytes[first + i]
        /\ bytes[first + i] = text[at + (first + i)]
    BY <1>1, <1>4, <1>7, <2>2
  <2> QED
    BY <2>2, <2>3
<1>11. ASSUME n < left
       PROVE  text[at + n + 1] \notin set
  <2>1. span + 1 \in 1 .. left - first /\ first + (span + 1) \in 1 .. left
        /\ at + (first + (span + 1)) = at + n + 1 /\ span < left - first
    BY <1>1, <1>7, <1>8, <1>11
  <2>2. rest[span + 1] \notin set /\ rest[span + 1] = bytes[first + (span + 1)]
        /\ bytes[first + (span + 1)] = text[at + (first + (span + 1))]
    BY <1>1, <1>4, <1>7, <2>1
  <2> QED
    BY <2>1, <2>2
<1>12. first + Span(Behind(bytes, first), set) = n
  BY <1>3, <1>6, <1>8
<1>13. HasSpan(n, at, left, first, set)
  BY <1>9, <1>10, <1>11 DEF HasSpan
<1> QED
  BY <1>12, <1>13

LEMMA SpanEnds ==
    ASSUME NEW l, NEW e, NEW set, e \in l .. Len(text) - 1, text[e + 1] \notin set,
           \A k \in l .. e - 1 : text[k + 1] \in set
    PROVE  e \in Whole!EndsOfSpan(l, set)
BY DEF Whole!EndsOfSpan, Whole!CharAt

LEMMA NameAnswer ==
    ASSUME NEW s, NEW literal, NEW data, NEW from, NEW start, NEW at, NEW left, NEW bytes,
           IsCall(s, "name", literal, data, from, start, at, left, bytes)
    PROVE  IsAnswer(ScanName(s, bytes), "name", literal, data, from, start, at, left)
<1>1. /\ IsPiece(bytes, at, left) /\ SeenName(start, at)
      /\ from = start /\ start \in Nat /\ start <= at
      /\ s = AScanner("name", literal, NewRange(start, at), data)
  BY DEF IsCall, Seen, IsWhole
<1>2. /\ at \in Nat /\ left \in Nat /\ left > 0 /\ at + left <= Len(text)
      /\ text \in Seq(Chars) /\ Len(bytes) = left
      /\ \A k \in 1 .. left : bytes[k] = text[at + k]
  BY <1>1 DEF IsPiece
<1>3. PICK first \in {0, 1} : first = IF at = start THEN 1 ELSE 0
  OBVIOUS
<1>4. first \in 0 .. left
  BY <1>2
<1>5. first = IF Length(s.token_range) = 0 THEN 1 ELSE 0
  <2>1. Length(s.token_range) = at - start
    BY <1>1, <1>2, LengthOf DEF AScanner
  <2> QED
    BY <1>1, <1>2, <1>3, <2>1
<1>6. PICK n : n = first + Span(Behind(bytes, first), NameChars)
  OBVIOUS
<1>7. HasSpan(n, at, left, first, NameChars)
  BY <1>1, <1>4, <1>6, SpanFrom
<1>8. /\ n \in Nat /\ first <= n /\ n <= left
      /\ \A k \in at + first + 1 .. at + n : text[k] \in NameChars
      /\ n < left => text[at + n + 1] \notin NameChars
  BY <1>7 DEF HasSpan
<1>9. PICK match : match = ScanName(s, bytes)
  OBVIOUS
<1>10. match = IF first = 1 /\ bytes[1] \notin FirstNameChars THEN SyntaxError(s)
               ELSE Match(IF n = 0 \/ n < left THEN "full" ELSE "out of data", n,
                          ExtendToken(s, n))
  <2>1. match = IF first = 1 /\ bytes[1] \notin FirstNameChars THEN SyntaxError(s)
                ELSE Match(IF n = 0 \/ n < Len(bytes) THEN "full" ELSE "out of data", n,
                           ExtendToken(s, n))
    BY <1>5, <1>6, <1>9 DEF ScanName
  <2> QED
    BY <1>2, <2>1
<1>11. bytes[1] = text[at + 1] /\ start < Len(text)
  <2>1. 1 \in 1 .. left /\ Len(text) \in Nat
    BY <1>2, LenProperties
  <2> QED
    BY <1>1, <1>2, <2>1
<1>12. CASE first = 1 /\ bytes[1] \notin FirstNameChars
  <2>1. text[start + 1] \notin FirstNameChars
    BY <1>3, <1>11, <1>12
  <2>2. Whole!Excluded(start, [type |-> "name", literal |-> literal])
    BY <1>11, <2>1 DEF Whole!Excluded, Whole!CharAt
  <2>3. match = SyntaxError(s)
    BY <1>10, <1>12
  <2>4. Whole!Excluded(start, [type |-> "name", literal |-> literal]) =>
           IsAnswer(SyntaxError(s), "name", literal, data, from, start, at, left)
    BY <1>1, <1>2, Refuses
  <2> QED
    BY <1>9, <2>2, <2>3, <2>4, Zenon
<1>13. CASE ~(first = 1 /\ bytes[1] \notin FirstNameChars)
  <2>1. match = Match(IF n = 0 \/ n < left THEN "full" ELSE "out of data", n,
                      AScanner("name", literal, NewRange(from, at + n), data))
    <3>1. ExtendToken(s, n) = AScanner("name", literal, NewRange(from, at + n), data)
      BY <1>1, Extends
    <3> QED
      BY <1>10, <1>13, <3>1
  <2>2. text[start + 1] \in FirstNameChars
    <3>1. CASE at = start
      BY <1>3, <1>11, <1>13, <3>1
    <3>2. CASE at # start
      BY <1>1, <1>2, <3>2 DEF SeenName
    <3> QED
      BY <3>1, <3>2
  <2>3. at + n >= start + 1 /\ \A k \in start + 2 .. at + n : text[k] \in NameChars
    <3>1. CASE at = start
      <4>1. at + first + 1 = start + 2 /\ n >= 1
        BY <1>1, <1>3, <1>8, <3>1
      <4> QED
        BY <1>1, <1>8, <3>1, <4>1
    <3>2. CASE at # start
      <4>1. at + first + 1 = at + 1 /\ at > start
        BY <1>1, <1>2, <1>3, <3>2
      <4>2. \A k \in start + 2 .. at : text[k] \in NameChars
        BY <1>1, <4>1 DEF SeenName
      <4>3. \A k \in start + 2 .. at + n : k \in start + 2 .. at \/ k \in at + 1 .. at + n
        BY <1>1, <1>2, <1>8
      <4> QED
        BY <1>1, <1>2, <1>8, <4>1, <4>2, <4>3
    <3> QED
      BY <3>1, <3>2
  <2>4. n \in 0 .. left
    BY <1>2, <1>8
  <2>5. CASE n = 0 \/ n < left
    <3>1. n < left
      BY <1>2, <2>5
    <3>2. at + n \in start + 1 .. Len(text) - 1
      BY <1>1, <1>2, <1>8, <2>3, <3>1, LenProperties
    <3>3. \A k \in start + 1 .. at + n - 1 : text[k + 1] \in NameChars
      <4> TAKE k \in start + 1 .. at + n - 1
      <4>1. k + 1 \in start + 2 .. at + n
        BY <1>1, <1>2, <1>8
      <4> QED
        BY <2>3, <4>1
    <3>4. at + n \in Whole!EndsOfSpan(start + 1, NameChars)
      <4>1. text[(at + n) + 1] \notin NameChars
        BY <1>8, <3>1
      <4>2. \A k \in start + 1 .. (at + n) - 1 : text[k + 1] \in NameChars
        BY <1>2, <1>8, <3>3
      <4> QED
        BY <3>2, <4>1, <4>2, SpanEnds, Zenon
    <3>5. at + n \in Whole!TokenEnds(start, [type |-> "name", literal |-> literal])
      BY <1>1, <1>2, <1>11, <2>2, <3>4, EndsOf
    <3>6. match = Match("full", n, AScanner("name", literal, NewRange(from, at + n), data))
      BY <2>1, <2>5
    <3> QED
      BY <1>9, <2>4, <3>5, <3>6, FullAnswer
  <2>6. CASE ~(n = 0 \/ n < left)
    <3>1. SeenName(start, at + n)
      BY <2>2, <2>3 DEF SeenName
    <3>2. Seen("name", literal, data, start, at + n) /\ HasLiteral("name", literal)
      BY <3>1 DEF Seen, HasLiteral
    <3>3. match = Match("out of data", n,
                        AScanner("name", literal, NewRange(from, at + n), data))
      BY <2>1, <2>6
    <3> QED
      BY <1>9, <2>4, <3>2, <3>3, PartAnswer
  <2> QED
    BY <2>5, <2>6
<1> QED
  BY <1>12, <1>13

LEMMA LiteralAnswer ==
    ASSUME NEW s, NEW literal, NEW data, NEW from, NEW start, NEW at, NEW left, NEW bytes,
           IsCall(s, "literal", literal, data, from, start, at, left, bytes)
    PROVE  IsAnswer(ScanLiteral(s, bytes), "literal", literal, data, from, start, at, left)
<1>1. /\ IsPiece(bytes, at, left) /\ SeenLiteral(literal, start, at)
      /\ literal \in Seq(Symbols) /\ from = start /\ start \in Nat /\ start <= at
      /\ s = AScanner("literal", literal, NewRange(start, at), data)
  BY DEF IsCall, Seen, IsWhole
<1>2. /\ at \in Nat /\ left \in Nat /\ left > 0 /\ at + left <= Len(text)
      /\ text \in Seq(Chars) /\ bytes \in Seq(Chars) /\ Len(bytes) = left
      /\ \A k \in 1 .. left : bytes[k] = text[at + k]
  BY <1>1 DEF IsPiece
<1>3. PICK m \in Nat : m = Len(literal)
  BY <1>1, LenProperties
<1>4. PICK known \in Nat : known = at - start /\ at = start + known
  BY <1>1, <1>2
<1>5. known <= m /\ \A i \in 1 .. known : text[start + i] = literal[i]
  BY <1>1, <1>2, <1>3, <1>4 DEF SeenLiteral
<1>6. s.literal = literal /\ Length(s.token_range) = known
  BY <1>1, <1>2, <1>4, LengthOf DEF AScanner
<1>7. PICK needed : needed = Behind(literal, known)
  OBVIOUS
<1>8. IsRest(needed, Symbols, literal, known, m - known)
  <2>1. known \in 0 .. Len(literal)
    BY <1>3, <1>5
  <2> QED
    BY <1>1, <1>3, <1>7, <2>1, RestIs
<1>9. /\ needed \in Seq(Symbols) /\ Len(needed) = m - known
      /\ \A k \in 1 .. m - known : needed[k] = literal[known + k]
  BY <1>8 DEF IsRest
<1>10. PICK count \in Nat : /\ count = Smaller(m - known, left)
                            /\ count <= left /\ count <= m - known
                            /\ count = left \/ count = m - known
  BY <1>2, <1>3, <1>5 DEF Smaller
<1>11. PICK match : match = ScanLiteral(s, bytes)
  OBVIOUS
<1>12. match = IF needed = <<>> THEN InternalError(s)
               ELSE IF Agree(needed, bytes)
               THEN Match(IF count = m - known THEN "full" ELSE "out of data",
                          count, ExtendToken(s, count))
               ELSE SyntaxError(s)
  <2>1. count = Smaller(Len(needed), Len(bytes)) /\ Len(needed) = m - known
    BY <1>2, <1>9, <1>10
  <2> QED
    BY <1>6, <1>7, <1>11, <2>1, Zenon DEF ScanLiteral
<1>13. Agree(needed, bytes) <=> \A k \in 1 .. count : text[at + k] = literal[known + k]
  <2>1. bytes \in Seq(Symbols)
    BY <1>2 DEF Symbols
  <2>2. Agree(needed, bytes) <=> \A k \in 1 .. Smaller(Len(needed), Len(bytes)) :
                                    needed[k] = bytes[k]
    BY <1>9, <2>1, AgreeIs
  <2>3. \A k \in 1 .. count : needed[k] = literal[known + k] /\ bytes[k] = text[at + k]
    BY <1>2, <1>9, <1>10
  <2>4. Smaller(Len(needed), Len(bytes)) = count
    BY <1>2, <1>9, <1>10
  <2> QED
    BY <2>2, <2>3, <2>4
<1>14. CASE needed = <<>>
  <2>1. match = InternalError(s)
    BY <1>12, <1>14
  <2> QED
    BY <1>1, <1>2, <1>11, <2>1, Refuses
<1>15. CASE needed # <<>> /\ ~Agree(needed, bytes)
  <2>1. PICK k \in 1 .. count : text[at + k] # literal[known + k]
    BY <1>13, <1>15
  <2>2. known + k \in 1 .. m /\ start + (known + k) = at + k /\ start + (known + k) <= Len(text)
    BY <1>1, <1>2, <1>4, <1>10, <2>1, LenProperties
  <2>3. start < Len(text)
    BY <1>1, <1>2, LenProperties
  <2>4. Whole!Excluded(start, [type |-> "literal", literal |-> literal])
    BY <1>3, <2>1, <2>2, <2>3 DEF Whole!Excluded
  <2>5. match = SyntaxError(s)
    BY <1>12, <1>15
  <2>6. Whole!Excluded(start, [type |-> "literal", literal |-> literal]) =>
           IsAnswer(SyntaxError(s), "literal", literal, data, from, start, at, left)
    BY <1>1, <1>2, Refuses
  <2> QED
    BY <1>11, <2>4, <2>5, <2>6, Zenon
<1>16. CASE needed # <<>> /\ Agree(needed, bytes)
  <2>1. match = Match(IF count = m - known THEN "full" ELSE "out of data", count,
                      AScanner("literal", literal, NewRange(from, at + count), data))
    <3>1. ExtendToken(s, count)
             = AScanner("literal", literal, NewRange(from, at + count), data)
      BY <1>1, Extends
    <3> QED
      BY <1>12, <1>16, <3>1
  <2>2. \A i \in 1 .. known + count : text[start + i] = literal[i]
    <3> TAKE i \in 1 .. known + count
    <3>1. CASE i <= known
      BY <1>4, <1>5, <3>1
    <3>2. CASE i > known
      <4>1. i - known \in 1 .. count /\ known + (i - known) = i /\ at + (i - known) = start + i
        BY <1>1, <1>4, <3>2
      <4>2. text[at + (i - known)] = literal[known + (i - known)]
        BY <1>13, <1>16, <4>1
      <4> QED
        BY <4>1, <4>2
    <3> QED
      BY <1>4, <3>1, <3>2
  <2>3. count \in 0 .. left
    BY <1>2, <1>10
  <2>4. CASE count = m - known
    <3>1. at + count = start + m /\ known + count = m
      <4>1. start \in Nat /\ known <= m
        BY <1>1, <1>5
      <4> QED
        BY <1>3, <1>4, <2>4, <4>1
    <3>2. start + m <= Len(text) /\ start < Len(text)
      BY <1>1, <1>2, <1>10, <3>1, LenProperties
    <3>3. Whole!Holds(start, literal)
      BY <1>1, <1>2, <1>3, <2>2, <3>1, <3>2, HoldsIs
    <3>4. at + count \in Whole!TokenEnds(start, [type |-> "literal", literal |-> literal])
      BY <1>1, <1>2, <1>3, <3>1, <3>2, <3>3, EndsOf
    <3>5. match = Match("full", count,
                        AScanner("literal", literal, NewRange(from, at + count), data))
      BY <2>1, <2>4
    <3> QED
      BY <1>11, <2>3, <3>4, <3>5, FullAnswer
  <2>5. CASE count # m - known
    <3>1. (at + count) - start = known + count /\ known + count < m
      <4>1. start \in Nat /\ known <= m
        BY <1>1, <1>5
      <4>2. count <= m - known
        BY <1>10
      <4> QED
        BY <1>3, <1>4, <2>5, <4>1, <4>2
    <3>2. SeenLiteral(literal, start, at + count)
      BY <1>3, <2>2, <3>1 DEF SeenLiteral
    <3>3. literal # <<>>
      BY <1>3, <3>1, <1>4
    <3>4. Seen("literal", literal, data, start, at + count) /\ HasLiteral("literal", literal)
      BY <3>2, <3>3 DEF Seen, HasLiteral
    <3>5. match = Match("out of data", count,
                        AScanner("literal", literal, NewRange(from, at + count), data))
      BY <2>1, <2>5
    <3> QED
      BY <1>11, <2>3, <3>4, <3>5, PartAnswer
  <2> QED
    BY <2>4, <2>5
<1> QED
  BY <1>14, <1>15, <1>16

LEMMA SentinelAnswer ==
    ASSUME NEW s, NEW literal, NEW data, NEW from, NEW start, NEW at, NEW left, NEW bytes,
           IsCall(s, "sentinel", literal, data, from, start, at, left, bytes)
    PROVE  IsAnswer(ScanSentinel(s, bytes), "sentinel", literal, data, from, start, at, left)
<1>1. /\ IsPiece(bytes, at, left) /\ start = at
      /\ s = AScanner("sentinel", literal, NewRange(from, at), data)
  BY DEF IsCall, Seen
<1>2. /\ at \in Nat /\ left \in Nat /\ left > 0 /\ at + left <= Len(text)
      /\ text \in Seq(Chars) /\ \A k \in 1 .. left : bytes[k] = text[at + k]
  BY <1>1 DEF IsPiece
<1>3. PICK c : c = bytes[1]
  OBVIOUS
<1>4. text[at + 1] = c /\ at < Len(text)
  <2>1. 1 \in 1 .. left /\ Len(text) \in Nat
    BY <1>2, LenProperties
  <2> QED
    BY <1>2, <1>3, <2>1
<1>5. PICK matching : matching = {n \in 1 .. Len(literal) :
                                     \/ c = literal[n]
                                     \/ literal[n] = AnyName /\ c \in FirstNameChars}
  OBVIOUS
<1>6. matching = {} <=> ~Whole!MatchesSentinel(c, literal)
  BY <1>5 DEF Whole!MatchesSentinel
<1>7. PICK match : match = ScanSentinel(s, bytes)
  OBVIOUS
<1>8. match = IF data # <<>> THEN InternalError(s)
              ELSE IF matching = {} THEN SyntaxError(s)
              ELSE Match("full", 1, [ExtendToken(s, 1) EXCEPT
                                        !.data = <<literal[Min(matching)]>>])
  <2>1. s.literal = literal /\ s.data = data
    BY <1>1 DEF AScanner
  <2> QED
    BY <1>3, <1>5, <1>7, <2>1 DEF ScanSentinel
<1>9. CASE data # <<>>
  <2>1. match = InternalError(s)
    BY <1>8, <1>9
  <2> QED
    BY <1>1, <1>2, <1>7, <2>1, Refuses
<1>10. CASE data = <<>> /\ matching = {}
  <2>1. match = SyntaxError(s)
    BY <1>8, <1>10
  <2>2. Whole!Excluded(start, [type |-> "sentinel", literal |-> literal])
    BY <1>1, <1>4, <1>6, <1>10 DEF Whole!Excluded, Whole!CharAt
  <2>3. Whole!Excluded(start, [type |-> "sentinel", literal |-> literal]) =>
           IsAnswer(SyntaxError(s), "sentinel", literal, data, from, start, at, left)
    BY <1>1, <1>2, Refuses
  <2> QED
    BY <1>7, <2>1, <2>2, <2>3, Zenon
<1>11. CASE data = <<>> /\ matching # {}
  <2>1. PICK new : new = <<literal[Min(matching)]>>
    OBVIOUS
  <2>2. [ExtendToken(s, 1) EXCEPT !.data = new]
           = AScanner("sentinel", literal, NewRange(from, at + 1), new)
    <3>1. ExtendToken(s, 1) = AScanner("sentinel", literal, NewRange(from, at + 1), data)
      BY <1>1, Extends
    <3> QED
      BY <3>1 DEF AScanner
  <2>3. match = Match("full", 1, AScanner("sentinel", literal, NewRange(from, at + 1), new))
    BY <1>8, <1>11, <2>1, <2>2
  <2>4. at + 1 \in Whole!TokenEnds(start, [type |-> "sentinel", literal |-> literal])
    <3>1. Whole!MatchesSentinel(text[start + 1], literal) /\ start < Len(text)
          /\ start \in Nat /\ at + 1 = start + 1
      BY <1>1, <1>2, <1>4, <1>6, <1>11
    <3> QED
      BY <1>2, <3>1, EndsOf
  <2>5. 1 \in 0 .. left
    BY <1>2
  <2> QED
    BY <1>7, <2>3, <2>4, <2>5, FullAnswer
<1> QED
  BY <1>9, <1>10, <1>11

LEMMA RestOfAll ==
    ASSUME NEW bytes \in Seq(Chars)
    PROVE  Behind(bytes, 0) = bytes
<1>1. 0 \in 0 .. Len(bytes)
  BY LenProperties
<1>2. IsRest(Behind(bytes, 0), Chars, bytes, 0, Len(bytes) - 0)
  BY <1>1, RestIs
<1>3. Len(bytes) \in Nat
  BY LenProperties
<1>4. /\ Behind(bytes, 0) \in Seq(Chars) /\ Len(Behind(bytes, 0)) = Len(bytes)
      /\ \A k \in 1 .. Len(bytes) : Behind(bytes, 0)[k] = bytes[k]
  BY <1>2, <1>3 DEF IsRest
<1> QED
  BY <1>4, SeqEqual

\* Whitespace that must be there, and whitespace that may be.
IsSpace(type) == type \in {"whitespace", "optional whitespace"}

LEMMA SpaceAnswer ==
    ASSUME NEW s, NEW type, NEW literal, NEW data, NEW from, NEW start, NEW at, NEW left,
           NEW bytes, IsSpace(type),
           IsCall(s, type, literal, data, from, start, at, left, bytes)
    PROVE  IsAnswer(ScanWhitespace(s, bytes), type, literal, data, from, start, at, left)
<1>1. /\ IsPiece(bytes, at, left) /\ SeenSpace(start, at)
      /\ from = start /\ start \in Nat /\ start <= at
      /\ s = AScanner(type, literal, NewRange(start, at), data)
  BY DEF IsCall, Seen, IsWhole, IsSpace
<1>2. /\ at \in Nat /\ left \in Nat /\ left > 0 /\ at + left <= Len(text)
      /\ text \in Seq(Chars) /\ bytes \in Seq(Chars) /\ Len(bytes) = left
      /\ \A k \in 1 .. left : bytes[k] = text[at + k]
  BY <1>1 DEF IsPiece
<1>3. PICK n : n = Span(bytes, WhitespaceChars)
  OBVIOUS
<1>4. HasSpan(n, at, left, 0, WhitespaceChars)
  <2>1. HasSpan(0 + Span(Behind(bytes, 0), WhitespaceChars), at, left, 0, WhitespaceChars)
    <3>1. 0 \in 0 .. left
      BY <1>2
    <3> QED
      BY <1>1, <3>1, SpanFrom
  <2>2. Behind(bytes, 0) = bytes
    BY <1>2, RestOfAll
  <2>3. Span(bytes, WhitespaceChars) \in 0 .. Len(bytes)
    BY <1>2, SpanIs
  <2>4. 0 + Span(Behind(bytes, 0), WhitespaceChars) = n
    BY <1>2, <1>3, <2>2, <2>3
  <2> QED
    BY <2>1, <2>4
<1>5. /\ n \in Nat /\ n <= left
      /\ \A k \in at + 0 + 1 .. at + n : text[k] \in WhitespaceChars
      /\ n < left => text[at + n + 1] \notin WhitespaceChars
  BY <1>4 DEF HasSpan
<1>6. PICK match : match = ScanWhitespace(s, bytes)
  OBVIOUS
<1>7. match = IF n = 0 /\ at = start /\ type = "whitespace" THEN SyntaxError(s)
              ELSE Match(IF n < left THEN "full" ELSE "out of data", n, ExtendToken(s, n))
  <2>1. Length(s.token_range) = at - start /\ s.type = type
    BY <1>1, <1>2, LengthOf DEF AScanner
  <2>2. Length(s.token_range) = 0 <=> at = start
    BY <1>1, <1>2, <2>1
  <2>3. match = IF n = 0 /\ Length(s.token_range) = 0 /\ s.type = "whitespace"
                THEN SyntaxError(s)
                ELSE Match(IF n < Len(bytes) THEN "full" ELSE "out of data", n,
                           ExtendToken(s, n))
    BY <1>3, <1>6 DEF ScanWhitespace
  <2> QED
    BY <1>2, <2>1, <2>2, <2>3
<1>8. \A k \in start + 1 .. at + n : text[k] \in WhitespaceChars
  <2>1. at + 0 + 1 = at + 1
    BY <1>2
  <2>2. \A k \in start + 1 .. at + n : k \in start + 1 .. at \/ k \in at + 1 .. at + n
    BY <1>1, <1>2, <1>5
  <2> QED
    BY <1>1, <1>5, <2>1, <2>2 DEF SeenSpace
<1>9. start < Len(text)
  BY <1>1, <1>2, LenProperties
<1>10. CASE n = 0 /\ at = start /\ type = "whitespace"
  <2>1. match = SyntaxError(s)
    BY <1>7, <1>10
  <2>2. text[start + 1] \notin WhitespaceChars
    <3>1. n < left /\ at + n + 1 = start + 1
      BY <1>1, <1>2, <1>10
    <3> QED
      BY <1>5, <3>1
  <2>3. Whole!Excluded(start, [type |-> type, literal |-> literal])
    BY <1>9, <1>10, <2>2 DEF Whole!Excluded, Whole!CharAt
  <2>4. Whole!Excluded(start, [type |-> type, literal |-> literal]) =>
           IsAnswer(SyntaxError(s), type, literal, data, from, start, at, left)
    BY <1>1, <1>2, Refuses
  <2> QED
    BY <1>6, <2>1, <2>3, <2>4, Zenon
<1>11. CASE ~(n = 0 /\ at = start /\ type = "whitespace")
  <2>1. match = Match(IF n < left THEN "full" ELSE "out of data", n,
                      AScanner(type, literal, NewRange(from, at + n), data))
    <3>1. ExtendToken(s, n) = AScanner(type, literal, NewRange(from, at + n), data)
      BY <1>1, Extends
    <3> QED
      BY <1>7, <1>11, <3>1
  <2>2. n \in 0 .. left
    BY <1>2, <1>5
  <2>3. CASE n < left
    <3>1. at + n \in start .. Len(text) - 1
      BY <1>1, <1>2, <1>5, <2>3, LenProperties
    <3>2. \A k \in start .. (at + n) - 1 : text[k + 1] \in WhitespaceChars
      <4> TAKE k \in start .. (at + n) - 1
      <4>1. k + 1 \in start + 1 .. at + n
        BY <1>1, <1>2, <1>5
      <4> QED
        BY <1>8, <4>1
    <3>3. at + n \in Whole!EndsOfSpan(start, WhitespaceChars)
      <4>1. text[(at + n) + 1] \notin WhitespaceChars
        BY <1>5, <2>3
      <4> QED
        BY <3>1, <3>2, <4>1, SpanEnds, Zenon
    <3>4. type = "whitespace" => text[start + 1] \in WhitespaceChars
      <4> SUFFICES ASSUME type = "whitespace"
                   PROVE  text[start + 1] \in WhitespaceChars
        OBVIOUS
      <4>1. start + 1 \in start + 1 .. at + n
        BY <1>1, <1>2, <1>5, <1>11
      <4> QED
        BY <1>8, <4>1
    <3>5. at + n \in Whole!TokenEnds(start, [type |-> type, literal |-> literal])
      <4>1. CASE type = "whitespace"
        BY <1>1, <1>2, <1>9, <3>3, <3>4, <4>1, EndsOf
      <4>2. CASE type = "optional whitespace"
        BY <1>1, <1>2, <1>9, <3>3, <4>2, EndsOf
      <4> QED
        BY <4>1, <4>2 DEF IsSpace
    <3>6. match = Match("full", n, AScanner(type, literal, NewRange(from, at + n), data))
      BY <2>1, <2>3
    <3> QED
      BY <1>6, <2>2, <3>5, <3>6, FullAnswer
  <2>4. CASE ~(n < left)
    <3>1. SeenSpace(start, at + n)
      BY <1>8 DEF SeenSpace
    <3>2. Seen(type, literal, data, start, at + n) /\ HasLiteral(type, literal)
      BY <3>1 DEF Seen, HasLiteral, IsSpace
    <3>3. match = Match("out of data", n,
                        AScanner(type, literal, NewRange(from, at + n), data))
      BY <2>1, <2>4
    <3> QED
      BY <1>6, <2>2, <3>2, <3>3, PartAnswer
  <2> QED
    BY <2>3, <2>4
<1> QED
  BY <1>10, <1>11

LEMMA Remembers ==
    ASSUME NEW type, NEW literal, NEW token_range, NEW data, NEW new
    PROVE  [AScanner(type, literal, token_range, data) EXCEPT !.data = new]
              = AScanner(type, literal, token_range, new)
BY DEF AScanner

IsQuoted(type) == type = "quoted string"

LEMMA QuotedAnswer ==
    ASSUME NEW s, NEW type, NEW literal, NEW data, NEW from, NEW start, NEW at, NEW left,
           NEW bytes, IsQuoted(type),
           IsCall(s, type, literal, data, from, start, at, left, bytes)
    PROVE  IsAnswer(ScanQuotedString(s, bytes), type, literal, data, from, start,
                    at, left)
<1>1. /\ IsPiece(bytes, at, left) /\ SeenQuoted(data, start, at)
      /\ start \in Nat /\ start <= at
      /\ s = AScanner(type, literal, NewRange(from, at), data)
  BY DEF IsCall, Seen, IsQuoted
<1>2. /\ at \in Nat /\ left \in Nat /\ left > 0 /\ at + left <= Len(text)
      /\ text \in Seq(Chars) /\ Len(bytes) = left
      /\ \A k \in 1 .. left : bytes[k] = text[at + k]
  BY <1>1 DEF IsPiece
<1>3. PICK opened \in {0, 1} : opened = IF data = <<>> THEN 1 ELSE 0
  OBVIOUS
<1>4. PICK quote : quote = IF data = <<>> THEN bytes[1] ELSE data[1]
  OBVIOUS
<1>5. PICK inside : inside = {n \in opened + 1 .. left : bytes[n] = quote}
  OBVIOUS
<1>6. PICK match : match = ScanQuotedString(s, bytes)
  OBVIOUS
<1>7. match = IF IF data = <<>> THEN Length(s.token_range) # 0 ELSE quote \notin Quotes
              THEN InternalError(s)
              ELSE IF quote \notin Quotes THEN SyntaxError(s)
              ELSE IF inside = {}
              THEN Match("out of data", left,
                         [ExtendToken(s, left) EXCEPT !.data = <<quote>>])
              ELSE Match("full", Min(inside),
                         [ExtendToken(s, Min(inside)) EXCEPT !.data = Done])
  <2>1. s.data = data
    BY <1>1 DEF AScanner
  <2> QED
    BY <1>2, <1>3, <1>4, <1>5, <1>6, <2>1 DEF ScanQuotedString
<1>8. start < Len(text)
  BY <1>1, <1>2, LenProperties
<1>9. /\ data = <<>> => at = start /\ quote = text[start + 1] /\ opened = 1
      /\ data # <<>> => /\ quote \in Quotes /\ at > start /\ opened = 0
                        /\ quote = text[start + 1]
                        /\ \A k \in start + 2 .. at : text[k] # quote
  <2>1. CASE data = <<>> /\ at = start
    <3>1. 1 \in 1 .. left
      BY <1>2
    <3> QED
      BY <1>2, <1>3, <1>4, <2>1, <3>1
  <2>2. CASE \E q \in Quotes : /\ data = <<q>> /\ at > start /\ text[start + 1] = q
                               /\ \A k \in start + 2 .. at : text[k] # q
    <3>1. PICK q \in Quotes : /\ data = <<q>> /\ at > start /\ text[start + 1] = q
                              /\ \A k \in start + 2 .. at : text[k] # q
      BY <2>2
    <3>2. data # <<>> /\ data[1] = q
      BY <3>1
    <3> QED
      BY <1>3, <1>4, <3>1, <3>2
  <2> QED
    BY <1>1, <2>1, <2>2 DEF SeenQuoted
<1>10. CASE IF data = <<>> THEN Length(s.token_range) # 0 ELSE quote \notin Quotes
  <2>1. match = InternalError(s)
    BY <1>7, <1>10
  <2> QED
    BY <1>1, <1>2, <1>6, <2>1, Refuses
<1>11. CASE /\ ~(IF data = <<>> THEN Length(s.token_range) # 0 ELSE quote \notin Quotes)
            /\ quote \notin Quotes
  <2>1. match = SyntaxError(s)
    BY <1>7, <1>11
  <2>2. text[start + 1] \notin Quotes
    BY <1>9, <1>11
  <2>3. Whole!Excluded(start, [type |-> type, literal |-> literal])
    BY <1>8, <2>2 DEF Whole!Excluded, Whole!CharAt, IsQuoted
  <2>4. Whole!Excluded(start, [type |-> type, literal |-> literal]) =>
           IsAnswer(SyntaxError(s), type, literal, data, from, start, at, left)
    BY <1>1, <1>2, Refuses
  <2> QED
    BY <1>6, <2>1, <2>3, <2>4, Zenon
\* The characters behind the opening quote up to the n-th of the piece.
<1>12. ASSUME NEW n \in Nat, n <= left, \A i \in opened + 1 .. n : bytes[i] # quote,
              NEW k \in start + 2 .. at + n
       PROVE  text[k] # quote
  <2>1. CASE k <= at
    <3>1. data # <<>> /\ k \in start + 2 .. at
      BY <1>1, <1>2, <1>9, <2>1
    <3> QED
      BY <1>9, <3>1
  <2>2. CASE k > at
    <3>1. k - at \in opened + 1 .. n /\ k - at \in 1 .. left /\ at + (k - at) = k
      BY <1>1, <1>2, <1>9, <1>12, <2>2
    <3>2. bytes[k - at] # quote /\ bytes[k - at] = text[at + (k - at)]
      BY <1>2, <1>12, <3>1
    <3> QED
      BY <3>1, <3>2
  <2> QED
    BY <1>1, <1>2, <2>1, <2>2
<1>13. CASE /\ ~(IF data = <<>> THEN Length(s.token_range) # 0 ELSE quote \notin Quotes)
            /\ quote \in Quotes /\ inside = {}
  <2>1. match = Match("out of data", left,
                      AScanner(type, literal, NewRange(from, at + left), <<quote>>))
    <3>1. match = Match("out of data", left, [ExtendToken(s, left) EXCEPT !.data = <<quote>>])
      BY <1>7, <1>13
    <3>2. ExtendToken(s, left)
             = AScanner(type, literal, NewRange(from, at + left), data)
      BY <1>1, Extends
    <3>3. [ExtendToken(s, left) EXCEPT !.data = <<quote>>]
             = AScanner(type, literal, NewRange(from, at + left), <<quote>>)
      BY <3>2, Remembers
    <3> QED
      BY <3>1, <3>3, Zenon
  <2>2. \A i \in opened + 1 .. left : bytes[i] # quote
    BY <1>5, <1>13
  <2>3. \A k \in start + 2 .. at + left : text[k] # quote
    <3>1. left \in Nat /\ left <= left
      BY <1>2
    <3> QED
      BY <1>12, <2>2, <3>1
  <2>4. at + left > start /\ text[start + 1] = quote
    BY <1>1, <1>2, <1>9
  <2>5. SeenQuoted(<<quote>>, start, at + left)
    BY <1>13, <2>3, <2>4 DEF SeenQuoted
  <2>6. /\ Seen(type, literal, <<quote>>, start, at + left)
        /\ HasLiteral(type, literal)
    BY <2>5 DEF Seen, HasLiteral, IsQuoted
  <2>7. left \in 0 .. left
    BY <1>2
  <2> QED
    BY <1>6, <2>1, <2>6, <2>7, PartAnswer
<1>14. CASE /\ ~(IF data = <<>> THEN Length(s.token_range) # 0 ELSE quote \notin Quotes)
            /\ quote \in Quotes /\ inside # {}
  <2>1. PICK n : n = Min(inside)
    OBVIOUS
  <2>2. n \in inside /\ \A i \in inside : n <= i
    <3>1. inside \in SUBSET Nat
      BY <1>3, <1>5
    <3> QED
      BY <1>14, <2>1, <3>1, SmallestOf
  <2>3. n \in opened + 1 .. left /\ bytes[n] = quote
    BY <1>5, <2>2
  <2>4. n \in Nat /\ n > 0 /\ n > opened /\ n <= left /\ n \in 1 .. left
    BY <1>2, <1>3, <2>3
  <2>5. \A i \in opened + 1 .. n - 1 : bytes[i] # quote
    <3> SUFFICES ASSUME NEW i \in opened + 1 .. n - 1, bytes[i] = quote
                 PROVE  FALSE
      OBVIOUS
    <3>1. i \in inside
      BY <1>2, <1>3, <1>5, <2>4
    <3>2. n <= i
      BY <2>2, <3>1
    <3> QED
      BY <1>3, <2>4, <3>2
  <2>6. \A k \in start + 2 .. at + (n - 1) : text[k] # quote
    <3>1. n - 1 \in Nat /\ n - 1 <= left
      BY <1>2, <2>4
    <3> QED
      BY <1>12, <2>5, <3>1
  <2>7. match = Match("full", n,
                      AScanner(type, literal, NewRange(from, at + n), Done))
    <3>1. match = Match("full", n, [ExtendToken(s, n) EXCEPT !.data = Done])
      BY <1>7, <1>14, <2>1
    <3>2. ExtendToken(s, n) = AScanner(type, literal, NewRange(from, at + n), data)
      BY <1>1, Extends
    <3> QED
      BY <3>1, <3>2, Remembers
  <2>8. PICK k \in Nat : k = at + (n - 1)
    BY <1>2, <2>4
  <2>9. /\ k \in start + 1 .. Len(text) - 1 /\ at + n = k + 1
        /\ text[k + 1] = text[start + 1]
    <3>1. at + n = k + 1 /\ k >= start + 1 /\ k <= Len(text) - 1 /\ Len(text) \in Nat
      BY <1>1, <1>2, <1>9, <2>4, <2>8, LenProperties
    <3>2. text[k + 1] = quote
      BY <1>2, <2>3, <2>4, <3>1
    <3> QED
      BY <1>1, <1>9, <3>1, <3>2
  <2>10. \A i \in start + 1 .. k - 1 : text[i + 1] # text[start + 1]
    <3> TAKE i \in start + 1 .. k - 1
    <3>1. i + 1 \in start + 2 .. at + (n - 1)
      BY <1>1, <2>8
    <3> QED
      BY <1>9, <2>6, <3>1
  <2>11. at + n \in Whole!TokenEnds(start, [type |-> type, literal |-> literal])
    <3>1. text[start + 1] \in Quotes
      BY <1>9, <1>14
    <3>2. \E j \in start + 1 .. Len(text) - 1 :
             /\ at + n = j + 1 /\ text[j + 1] = text[start + 1]
             /\ \A i \in start + 1 .. j - 1 : text[i + 1] # text[start + 1]
      BY <2>9, <2>10
    <3> QED
      BY <1>1, <1>2, <1>8, <3>1, <3>2, EndsOf DEF IsQuoted
  <2>12. n \in 0 .. left
    BY <1>2, <2>4
  <2> QED
    BY <1>6, <2>7, <2>11, <2>12, FullAnswer
<1> QED
  BY <1>10, <1>11, <1>13, <1>14

IsThrough(type) == type = "through literal"

NotBefore(literal, start, b, upto) ==
    Whole!NoOverlap(literal) => \A k \in start .. b - 1 : ~Fits(literal, k, upto)

\* Text that does not fit the literal will not when more of it comes.
LEMMA MisfitStays ==
    ASSUME NEW literal \in Seq(Symbols), NEW l \in Nat, NEW upto \in Nat, NEW more \in Nat,
           l <= upto, upto <= more, Fits(literal, l, more)
    PROVE  Fits(literal, l, upto)
<1>1. PICK m \in Nat : m = Len(literal)
  BY LenProperties
<1>2. \A i \in 1 .. Smaller(m, more - l) : text[l + i] = literal[i]
  BY <1>1 DEF Fits
<1>3. Smaller(m, upto - l) <= Smaller(m, more - l)
      /\ Smaller(m, upto - l) \in Nat /\ Smaller(m, more - l) \in Nat
  BY DEF Smaller
<1>4. \A i \in 1 .. Smaller(m, upto - l) : text[l + i] = literal[i]
  BY <1>2, <1>3
<1> QED
  BY <1>1, <1>4 DEF Fits

LEMMA HeldFits ==
    ASSUME text \in Seq(Chars), NEW literal \in Seq(Symbols), NEW l \in Nat, NEW upto \in Nat,
           l <= upto, upto <= Len(text)
    PROVE  /\ Whole!Holds(l, literal) => Fits(literal, l, upto)
           /\ Fits(literal, l, upto) /\ l + Len(literal) <= upto => Whole!Holds(l, literal)
<1>1. PICK m \in Nat : m = Len(literal)
  BY LenProperties
<1>2. PICK n \in Nat : n = Smaller(m, upto - l) /\ n <= m /\ (l + m <= upto => n = m)
  BY <1>1 DEF Smaller
<1>3. Fits(literal, l, upto) <=> \A i \in 1 .. n : text[l + i] = literal[i]
  BY <1>1, <1>2 DEF Fits
<1>4. Whole!Holds(l, literal) <=> /\ l + m <= Len(text)
                                  /\ \A i \in 1 .. m : text[l + i] = literal[i]
  BY <1>1, HoldsIs
<1>5. (\A i \in 1 .. m : text[l + i] = literal[i]) =>
         \A i \in 1 .. n : text[l + i] = literal[i]
  BY <1>2
<1>6. Len(text) \in Nat
  BY LenProperties
<1>7. l + m <= upto => l + m <= Len(text)
  BY <1>1, <1>6
<1> QED
  BY <1>1, <1>2, <1>3, <1>4, <1>5, <1>7

\* Behind the beginning of a literal without overlaps, no other begins before its end.
LEMMA NoneInside ==
    ASSUME NEW literal \in Seq(Symbols), NEW b \in Nat, NEW n \in Nat, n < Len(literal),
           Fits(literal, b, b + n), Whole!NoOverlap(literal),
           NEW k \in Nat, b < k, k < b + n
    PROVE  ~Fits(literal, k, b + n)
<1> SUFFICES ASSUME Fits(literal, k, b + n)
             PROVE  FALSE
  OBVIOUS
<1>1. PICK m \in Nat : m = Len(literal)
  BY LenProperties
<1>2. PICK d \in Nat, j \in Nat : k = b + d /\ d >= 1 /\ j = n - d /\ j >= 1 /\ j <= n - 1
  <2>1. k - b \in Nat /\ n - (k - b) \in Nat /\ k = b + (k - b) /\ k - b >= 1
        /\ n - (k - b) >= 1 /\ n - (k - b) <= n - 1
    OBVIOUS
  <2> QED
    BY <2>1
<1>3. Smaller(m, (b + n) - b) = n /\ Smaller(m, (b + n) - k) = j
  BY <1>1, <1>2 DEF Smaller
<1>4. \A i \in 1 .. n : text[b + i] = literal[i]
  BY <1>1, <1>3 DEF Fits
<1>5. \A i \in 1 .. j : text[k + i] = literal[i]
  BY <1>1, <1>3 DEF Fits
<1>6. \A i \in 1 .. j : literal[i] = literal[(n - j) + i]
  <2> TAKE i \in 1 .. j
  <2>1. d + i \in 1 .. n /\ k + i = b + (d + i) /\ (n - j) + i = d + i
    BY <1>2
  <2> QED
    BY <1>4, <1>5, <2>1
<1>7. n \in 1 .. m - 1 /\ j \in 1 .. n - 1
  BY <1>1, <1>2
<1>8. SubSeq(literal, 1, j) # SubSeq(literal, n - j + 1, n)
  BY <1>1, <1>7 DEF Whole!NoOverlap
<1>9. PICK x : x = SubSeq(literal, 1, j)
  OBVIOUS
<1>10. PICK y : y = SubSeq(literal, n - j + 1, n)
  OBVIOUS
<1>11. x \in Seq(Symbols) /\ Len(x) = j /\ \A i \in 1 .. j : x[i] = literal[i]
  <2>1. 1 \in 1 .. Len(literal) /\ j \in 1 .. Len(literal)
    BY <1>1, <1>2, <1>7
  <2> QED
    BY <1>2, <1>9, <2>1, SubSeqProperties
<1>12. y \in Seq(Symbols) /\ Len(y) = j /\ \A i \in 1 .. j : y[i] = literal[(n - j) + i]
  <2>1. PICK f \in Nat : f = n - j + 1 /\ f >= 1 /\ f <= n
    BY <1>2, <1>7
  <2>2. f \in 1 .. Len(literal) /\ n \in 1 .. Len(literal)
    BY <1>1, <1>2, <1>7, <2>1
  <2>3. /\ SubSeq(literal, f, n) \in Seq(Symbols) /\ Len(SubSeq(literal, f, n)) = n - f + 1
        /\ \A i \in 1 .. n - f + 1 : SubSeq(literal, f, n)[i] = literal[f + i - 1]
    BY <2>1, <2>2, SubSeqProperties
  <2>4. n - f + 1 = j
    BY <1>2, <1>7, <2>1
  <2>5. \A i \in 1 .. j : f + i - 1 = (n - j) + i
    BY <1>2, <1>7, <2>1
  <2> QED
    BY <1>10, <2>1, <2>3, <2>4, <2>5
<1>13. x = y
  BY <1>6, <1>11, <1>12, SeqEqual
<1> QED
  BY <1>8, <1>9, <1>10, <1>13

LEMMA ThroughEnds ==
    ASSUME NEW type, IsThrough(type), text \in Seq(Chars), NEW literal \in Seq(Symbols),
           NEW start \in Nat, NEW b \in Nat, NEW upto \in Nat, start < Len(text),
           start <= b, b + Len(literal) <= upto, upto <= Len(text),
           Fits(literal, b, upto), NotBefore(literal, start, b, upto)
    PROVE  b + Len(literal) \in Whole!TokenEnds(start, [type |-> type, literal |-> literal])
<1>1. PICK m \in Nat, size \in Nat : m = Len(literal) /\ size = Len(text)
  BY LenProperties
<1>2. PICK e \in Nat : e = b + m
  BY <1>1
<1>3. e \in start + m .. size /\ e - m = b /\ b <= upto
  BY <1>1, <1>2
<1>4. Whole!Holds(b, literal)
  BY <1>1, <1>3, HeldFits
<1>5. ASSUME Whole!NoOverlap(literal), NEW k \in start .. b - 1
      PROVE  ~Whole!Holds(k, literal)
  <2>1. ~Fits(literal, k, upto)
    BY <1>5 DEF NotBefore
  <2>2. k \in Nat /\ k <= upto
    BY <1>3
  <2> QED
    BY <2>1, <2>2, HeldFits
<1>6. e \in Whole!EndsThrough(start, literal)
  <2>1. Whole!NoOverlap(literal) => \A k \in start .. (e - m) - 1 : ~Whole!Holds(k, literal)
    BY <1>3, <1>5
  <2>2. Whole!Holds(e - m, literal)
    BY <1>3, <1>4
  <2>3. /\ e \in start + Len(literal) .. Len(text) /\ Whole!Holds(e - Len(literal), literal)
        /\ Whole!NoOverlap(literal) =>
              \A k \in start .. (e - Len(literal)) - 1 : ~Whole!Holds(k, literal)
    BY <1>1, <1>3, <2>1, <2>2
  <2> QED
    BY <2>3 DEF Whole!EndsThrough
<1>7. b + Len(literal) = e
  BY <1>1, <1>2
<1> QED
  BY <1>6, <1>7, EndsOf DEF IsThrough

LEMMA ThroughSeen ==
    ASSUME NEW literal \in Seq(Symbols), NEW start \in Nat, NEW b \in Nat, NEW upto \in Nat,
           start <= b, b <= upto, upto < b + Len(literal),
           Fits(literal, b, upto), NotBefore(literal, start, b, upto)
    PROVE  SeenThrough(literal, SubSeq(literal, 1, upto - b), start, upto)
<1>1. PICK m \in Nat : m = Len(literal)
  BY LenProperties
<1>2. PICK n \in Nat : n = upto - b /\ upto = b + n /\ upto - n = b
  OBVIOUS
<1>3. n < m
  BY <1>1, <1>2
<1>4. Smaller(m, upto - b) = n
  BY <1>1, <1>2, <1>3 DEF Smaller
<1>5. \A i \in 1 .. n : text[b + i] = literal[i]
  BY <1>1, <1>4 DEF Fits
<1>6. ASSUME Whole!NoOverlap(literal), NEW k \in start .. upto - 1, k # b
      PROVE  ~Fits(literal, k, upto)
  <2>0. k \in Nat
    OBVIOUS
  <2>1. CASE k < b
    <3>1. k \in start .. b - 1
      BY <2>1
    <3> QED
      BY <1>6, <3>1 DEF NotBefore
  <2>2. CASE b < k
    <3>1. n < Len(literal) /\ Fits(literal, b, b + n) /\ k < b + n
      BY <1>1, <1>2, <1>3
    <3>2. ~Fits(literal, k, b + n)
      BY <1>6, <2>0, <2>2, <3>1, NoneInside
    <3> QED
      BY <1>2, <3>2
  <2> QED
    BY <1>6, <2>0, <2>1, <2>2
<1>7. /\ n < Len(literal) /\ SubSeq(literal, 1, upto - b) = SubSeq(literal, 1, n)
      /\ start <= upto - n
      /\ \A i \in 1 .. n : text[upto - n + i] = literal[i]
      /\ Whole!NoOverlap(literal) =>
            \A k \in start .. upto - 1 : k # upto - n => ~Fits(literal, k, upto)
  BY <1>1, <1>2, <1>3, <1>5, <1>6
<1> QED
  BY <1>7 DEF SeenThrough

\* The literal's beginning, or all of it, was found at b.
LEMMA ThroughMatched ==
    ASSUME NEW s, NEW type, NEW literal, NEW data, NEW from, NEW start, NEW at, NEW left,
           NEW bytes, IsThrough(type),
           IsCall(s, type, literal, data, from, start, at, left, bytes),
           literal # <<>>, NEW b \in start .. at + left, NEW length \in Nat, NEW count \in Nat,
           length = Smaller(Len(literal), at + left - b), at + count = b + length,
           Fits(literal, b, at + left), NotBefore(literal, start, b, at + left)
    PROVE  IsAnswer(Matched(s, length, count), type, literal, data, from, start, at, left)
<1>1. /\ IsPiece(bytes, at, left) /\ literal \in Seq(Symbols) /\ start \in Nat /\ start <= at
      /\ s = AScanner(type, literal, NewRange(from, at), data)
  BY DEF IsCall
<1>2. /\ at \in Nat /\ left \in Nat /\ left > 0 /\ at + left <= Len(text)
      /\ text \in Seq(Chars)
  BY <1>1 DEF IsPiece
<1>3. PICK m \in Nat, upto \in Nat : m = Len(literal) /\ upto = at + left /\ m > 0
  <2>1. Len(literal) \in Nat /\ Len(literal) # 0
    BY <1>1, LenProperties
  <2>2. at + left \in Nat
    BY <1>2
  <2> QED
    BY <2>1, <2>2
<1>4. PICK new : new = SubSeq(literal, 1, length)
  OBVIOUS
<1>5. Matched(s, length, count)
         = Match(IF length = m THEN "full" ELSE "out of data", count,
                 AScanner(type, literal, NewRange(from, at + count), new))
  <2>1. ExtendToken(s, count) = AScanner(type, literal, NewRange(from, at + count), data)
    BY <1>1, Extends
  <2>2. [ExtendToken(s, count) EXCEPT !.data = new]
           = AScanner(type, literal, NewRange(from, at + count), new)
    BY <2>1, Remembers
  <2>3. s.literal = literal
    BY <1>1 DEF AScanner
  <2> QED
    BY <1>3, <1>4, <2>2, <2>3, Zenon DEF Matched
<1>6. b \in Nat /\ start <= b /\ b <= upto /\ length <= m
      /\ (length = m => b + m <= upto) /\ (length # m => length = upto - b)
  BY <1>1, <1>2, <1>3 DEF Smaller
<1>7. count \in 0 .. left /\ start < Len(text) /\ upto <= Len(text)
  BY <1>1, <1>2, <1>3, <1>6, LenProperties
<1>8. Fits(literal, b, upto) /\ NotBefore(literal, start, b, upto)
  BY <1>3
<1>9. CASE length = m
  <2>1. b + Len(literal) \in Whole!TokenEnds(start, [type |-> type, literal |-> literal])
    <3>1. b + Len(literal) <= upto
      BY <1>3, <1>6, <1>9
    <3> QED
      BY <1>1, <1>2, <1>3, <1>6, <1>7, <1>8, <3>1, ThroughEnds
  <2>2. at + count = b + Len(literal)
    BY <1>3, <1>9
  <2>3. at + count \in Whole!TokenEnds(start, [type |-> type, literal |-> literal])
    BY <2>1, <2>2
  <2>4. Matched(s, length, count)
           = Match("full", count, AScanner(type, literal, NewRange(from, at + count), new))
    BY <1>5, <1>9
  <2> QED
    BY <1>7, <2>3, <2>4, FullAnswer
<1>10. CASE length # m
  <2>1. upto < b + Len(literal) /\ upto - b = length /\ at + count = upto
    BY <1>3, <1>6, <1>10
  <2>2. SeenThrough(literal, SubSeq(literal, 1, upto - b), start, upto)
    BY <1>1, <1>3, <1>6, <1>8, <2>1, ThroughSeen
  <2>3. SeenThrough(literal, new, start, at + count)
    BY <1>4, <2>1, <2>2
  <2>4. Seen(type, literal, new, start, at + count) /\ HasLiteral(type, literal)
    BY <2>3 DEF Seen, HasLiteral, IsThrough
  <2>5. Matched(s, length, count)
           = Match("out of data", count,
                   AScanner(type, literal, NewRange(from, at + count), new))
    BY <1>5, <1>10
  <2> QED
    BY <1>7, <2>4, <2>5, PartAnswer
<1> QED
  BY <1>9, <1>10

\* The comparison with the rest of the piece.
LEMMA AgreesHere ==
    ASSUME NEW bytes, NEW at, NEW left, NEW literal \in Seq(Symbols), NEW n,
           IsPiece(bytes, at, left), n \in 0 .. left
    PROVE  Agree(literal, Behind(bytes, n)) <=> Fits(literal, at + n, at + left)
<1>1. /\ at \in Nat /\ left \in Nat /\ bytes \in Seq(Symbols) /\ Len(bytes) = left
      /\ \A k \in 1 .. left : bytes[k] = text[at + k]
  BY DEF IsPiece, Symbols
<1>2. PICK rest : rest = Behind(bytes, n)
  OBVIOUS
<1>3. IsRest(rest, Symbols, bytes, n, left - n)
  <2>1. n \in 0 .. Len(bytes)
    BY <1>1
  <2> QED
    BY <1>1, <1>2, <2>1, RestIs
<1>4. /\ rest \in Seq(Symbols) /\ Len(rest) = left - n
      /\ \A k \in 1 .. left - n : rest[k] = bytes[n + k]
  BY <1>3 DEF IsRest
<1>5. PICK m \in Nat : m = Len(literal)
  BY LenProperties
<1>6. PICK c \in Nat : c = Smaller(m, left - n) /\ c <= left - n
  BY <1>1, <1>5 DEF Smaller
<1>7. Agree(literal, rest) <=> \A k \in 1 .. c : literal[k] = rest[k]
  <2>1. Agree(literal, rest) <=> \A k \in 1 .. Smaller(Len(literal), Len(rest)) :
                                    literal[k] = rest[k]
    BY <1>4, AgreeIs
  <2> QED
    BY <1>4, <1>5, <1>6, <2>1
<1>8. \A k \in 1 .. c : rest[k] = text[(at + n) + k]
  <2> TAKE k \in 1 .. c
  <2>1. k \in 1 .. left - n /\ n + k \in 1 .. left /\ at + (n + k) = (at + n) + k
    BY <1>1, <1>6
  <2> QED
    BY <1>1, <1>4, <2>1
<1>9. (at + left) - (at + n) = left - n
  BY <1>1
<1>10. Fits(literal, at + n, at + left) <=> \A k \in 1 .. c : text[(at + n) + k] = literal[k]
  BY <1>5, <1>6, <1>9 DEF Fits
<1> QED
  BY <1>2, <1>7, <1>8, <1>10

\* The comparison of what is still needed of a literal found in an earlier piece.
LEMMA AgreesOn ==
    ASSUME NEW bytes, NEW at, NEW left, NEW literal \in Seq(Symbols), NEW known \in Nat,
           NEW b \in Nat, IsPiece(bytes, at, left), known < Len(literal), at = b + known,
           \A i \in 1 .. known : text[b + i] = literal[i]
    PROVE  Agree(Behind(literal, known), bytes) <=> Fits(literal, b, at + left)
<1>1. /\ at \in Nat /\ left \in Nat /\ bytes \in Seq(Symbols) /\ Len(bytes) = left
      /\ \A k \in 1 .. left : bytes[k] = text[at + k]
  BY DEF IsPiece, Symbols
<1>2. PICK needed : needed = Behind(literal, known)
  OBVIOUS
<1>3. PICK m \in Nat : m = Len(literal)
  BY LenProperties
<1>4. IsRest(needed, Symbols, literal, known, m - known)
  <2>1. known \in 0 .. Len(literal)
    BY <1>3
  <2> QED
    BY <1>2, <1>3, <2>1, RestIs
<1>5. /\ needed \in Seq(Symbols) /\ Len(needed) = m - known
      /\ \A k \in 1 .. m - known : needed[k] = literal[known + k]
  BY <1>4 DEF IsRest
<1>6. PICK c \in Nat : c = Smaller(m - known, left) /\ c <= left /\ c <= m - known
  <2>1. m - known \in Nat
    BY <1>3
  <2>2. /\ Smaller(m - known, left) \in Nat
        /\ Smaller(m - known, left) <= left /\ Smaller(m - known, left) <= m - known
    BY <1>1, <2>1 DEF Smaller
  <2> QED
    BY <2>2
<1>7. Agree(needed, bytes) <=> \A k \in 1 .. c : needed[k] = bytes[k]
  <2>1. needed \in Seq(Symbols) /\ bytes \in Seq(Symbols)
    BY <1>1, <1>5
  <2>2. Agree(needed, bytes) <=> \A k \in 1 .. Smaller(Len(needed), Len(bytes)) :
                                    needed[k] = bytes[k]
    BY <2>1, AgreeIs, Zenon
  <2> QED
    BY <1>1, <1>5, <1>6, <2>2
<1>8. \A k \in 1 .. c : needed[k] = literal[known + k] /\ bytes[k] = text[b + (known + k)]
  <2> TAKE k \in 1 .. c
  <2>1. k \in 1 .. left /\ k \in 1 .. m - known /\ at + k = b + (known + k)
    BY <1>1, <1>6
  <2> QED
    BY <1>1, <1>5, <2>1
<1>9. Smaller(m, (at + left) - b) = known + c
  BY <1>1, <1>3, <1>6 DEF Smaller
<1>10. Fits(literal, b, at + left) <=> \A i \in 1 .. known + c : text[b + i] = literal[i]
  BY <1>3, <1>9 DEF Fits
<1>11. (\A i \in 1 .. known + c : text[b + i] = literal[i]) <=>
          \A k \in 1 .. c : text[b + (known + k)] = literal[known + k]
  <2>1. ASSUME \A i \in 1 .. known + c : text[b + i] = literal[i], NEW k \in 1 .. c
        PROVE  text[b + (known + k)] = literal[known + k]
    <3>1. known + k \in 1 .. known + c
      OBVIOUS
    <3> QED
      BY <2>1, <3>1
  <2>2. ASSUME \A k \in 1 .. c : text[b + (known + k)] = literal[known + k],
               NEW i \in 1 .. known + c
        PROVE  text[b + i] = literal[i]
    <3>1. CASE i <= known
      BY <3>1
    <3>2. CASE i > known
      <4>1. i - known \in 1 .. c /\ known + (i - known) = i
        BY <3>2
      <4> QED
        BY <2>2, <4>1
    <3> QED
      BY <3>1, <3>2
  <2> QED
    BY <2>1, <2>2
<1> QED
  BY <1>2, <1>7, <1>8, <1>10, <1>11

LEMMA ThroughAnswer ==
    ASSUME NEW s, NEW type, NEW literal, NEW data, NEW from, NEW start, NEW at, NEW left,
           NEW bytes, IsThrough(type),
           IsCall(s, type, literal, data, from, start, at, left, bytes)
    PROVE  IsAnswer(ScanThroughLiteral(s, bytes), type, literal, data, from, start, at, left)
<1>1. /\ IsPiece(bytes, at, left) /\ SeenThrough(literal, data, start, at)
      /\ literal \in Seq(Symbols) /\ start \in Nat /\ start <= at
      /\ s = AScanner(type, literal, NewRange(from, at), data)
  BY DEF IsCall, Seen, IsThrough
<1>2. /\ at \in Nat /\ left \in Nat /\ left > 0 /\ at + left <= Len(text) /\ Len(bytes) = left
      /\ text \in Seq(Chars)
  BY <1>1 DEF IsPiece
<1>3. PICK m \in Nat : m = Len(literal)
  BY <1>1, LenProperties
<1>4. PICK known \in Nat :
         /\ known < m \/ known = 0
         /\ data = SubSeq(literal, 1, known)
         /\ start <= at - known
         /\ \A i \in 1 .. known : text[at - known + i] = literal[i]
         /\ Whole!NoOverlap(literal) =>
               \A k \in start .. at - 1 : k # at - known => ~Fits(literal, k, at)
  BY <1>1, <1>3 DEF SeenThrough
<1>5. Len(data) = known
  <2>1. \A i \in 1 .. known : literal[i] \in Symbols
    BY <1>1, <1>3, <1>4, ElementOfSeq
  <2>2. Len(SubSeq(literal, 1, known)) = IF 1 <= known THEN known - 1 + 1 ELSE 0
    BY <2>1, SubSeqProperties
  <2> QED
    BY <1>4, <2>2
<1>6. PICK b \in Nat : b = at - known /\ at = b + known /\ start <= b
  BY <1>1, <1>2, <1>4
<1>7. \A i \in 1 .. known : text[b + i] = literal[i]
  BY <1>4, <1>6
<1>8. PICK upto \in Nat : upto = at + left /\ at < upto
  BY <1>2
<1>9. ASSUME Whole!NoOverlap(literal), NEW k \in start .. at - 1, k # b
      PROVE  ~Fits(literal, k, upto)
  <2>1. ~Fits(literal, k, at)
    BY <1>4, <1>6, <1>9
  <2>2. k \in Nat /\ k <= at /\ at <= upto
    BY <1>1, <1>2, <1>8
  <2> QED
    BY <1>1, <1>2, <2>1, <2>2, MisfitStays
<1>10. PICK needed : needed = Behind(literal, known)
  OBVIOUS
<1>11. PICK count : count = Smaller(Len(needed), left)
  OBVIOUS
<1>12. PICK before : before = {n \in 0 .. left - 1 : Agree(literal, Behind(bytes, n))}
  OBVIOUS
<1>13. PICK match : match = ScanThroughLiteral(s, bytes)
  OBVIOUS
<1>14. match = IF needed = <<>> THEN InternalError(s)
               ELSE IF known > 0 /\ Agree(needed, bytes)
               THEN Matched(s, known + count, count)
               ELSE IF before # {}
               THEN Matched(s, Smaller(m, left - Min(before)),
                            Min(before) + Smaller(m, left - Min(before)))
               ELSE Matched(s, 0, left)
  <2>1. s.literal = literal /\ Len(s.data) = known
    BY <1>1, <1>5 DEF AScanner
  <2> QED
    BY <1>2, <1>3, <1>10, <1>11, <1>12, <1>13, <2>1, Zenon DEF ScanThroughLiteral
<1>15. CASE needed = <<>>
  <2>1. match = InternalError(s)
    BY <1>14, <1>15
  <2> QED
    BY <1>1, <1>2, <1>13, <2>1, Refuses
<1>16. CASE needed # <<>>
  <2>1. known <= m
    BY <1>3, <1>4
  <2>2. IsRest(needed, Symbols, literal, known, m - known)
    <3>1. known \in 0 .. Len(literal)
      BY <1>3, <2>1
    <3> QED
      BY <1>1, <1>3, <1>10, <3>1, RestIs
  <2>3. needed \in Seq(Symbols) /\ Len(needed) = m - known
    BY <2>2 DEF IsRest
  <2>4. known < m /\ literal # <<>>
    <3>1. Len(needed) # 0
      BY <1>16, <2>3
    <3>2. known < m
      BY <1>3, <2>1, <2>3, <3>1
    <3> QED
      BY <1>3, <3>2
  <2>5. Agree(needed, bytes) <=> Fits(literal, b, upto)
    <3>1. known < Len(literal)
      BY <1>3, <2>4
    <3>2. Agree(Behind(literal, known), bytes) <=> Fits(literal, b, at + left)
      BY <1>1, <1>6, <1>7, <3>1, AgreesOn
    <3> QED
      BY <1>8, <1>10, <3>2
  <2>6. CASE known > 0 /\ Agree(needed, bytes)
    <3>1. count \in Nat /\ known + count = Smaller(m, upto - b)
      BY <1>2, <1>3, <1>6, <1>8, <1>11, <2>3, <2>4 DEF Smaller
    <3>2. NotBefore(literal, start, b, upto)
      <4>1. ASSUME Whole!NoOverlap(literal), NEW k \in start .. b - 1
            PROVE  ~Fits(literal, k, upto)
        <5>1. k \in start .. at - 1 /\ k # b
          BY <1>1, <1>6
        <5> QED
          BY <1>9, <4>1, <5>1
      <4> QED
        BY <4>1 DEF NotBefore
    <3>3. b \in start .. at + left /\ at + count = b + (known + count)
      BY <1>1, <1>2, <1>6, <3>1
    <3>4. match = Matched(s, known + count, count)
      BY <1>14, <1>16, <2>6
    <3>5. known + count \in Nat /\ known + count = Smaller(Len(literal), at + left - b)
      BY <1>2, <1>3, <1>6, <1>8, <3>1
    <3>6. Fits(literal, b, at + left) /\ NotBefore(literal, start, b, at + left)
      BY <1>8, <2>5, <2>6, <3>2
    <3> QED
      BY <1>13, <2>4, <3>1, <3>3, <3>4, <3>5, <3>6, ThroughMatched
  <2>7. ASSUME ~(known > 0 /\ Agree(needed, bytes)), Whole!NoOverlap(literal),
               NEW k \in start .. at - 1
        PROVE  ~Fits(literal, k, upto)
    <3>1. CASE k # b
      BY <1>9, <2>7, <3>1
    <3>2. CASE k = b
      <4>1. known > 0
        BY <1>1, <1>2, <1>6, <3>2
      <4> QED
        BY <2>5, <2>7, <3>2, <4>1
    <3> QED
      BY <3>1, <3>2
  <2>8. \A n \in 0 .. left - 1 : n \in before <=> Fits(literal, at + n, upto)
    <3> TAKE n \in 0 .. left - 1
    <3>1. n \in 0 .. left
      BY <1>2
    <3>2. Agree(literal, Behind(bytes, n)) <=> Fits(literal, at + n, at + left)
      BY <1>1, <3>1, AgreesHere
    <3> QED
      BY <1>8, <1>12, <3>2
  \* Up to here the literal begins nowhere.
  <2>9. ASSUME ~(known > 0 /\ Agree(needed, bytes)), NEW q \in 0 .. left,
               \A n \in 0 .. q - 1 : n \notin before
        PROVE  NotBefore(literal, start, at + q, at + left)
    <3>1. ASSUME Whole!NoOverlap(literal), NEW k \in start .. (at + q) - 1
          PROVE  ~Fits(literal, k, upto)
      <4>1. CASE k < at
        <5>1. k \in start .. at - 1
          BY <1>1, <1>2, <4>1
        <5> QED
          BY <2>7, <2>9, <3>1, <5>1
      <4>2. CASE k >= at
        <5>1. PICK n \in Nat : n = k - at /\ at + n = k
          BY <1>1, <1>2, <4>2
        <5>2. n \in 0 .. left - 1 /\ n \in 0 .. q - 1
          BY <1>1, <1>2, <5>1
        <5>3. n \notin before
          BY <2>9, <5>2
        <5> QED
          BY <2>8, <5>1, <5>2, <5>3
      <4> QED
        BY <1>1, <1>2, <4>1, <4>2
    <3> QED
      BY <1>8, <3>1 DEF NotBefore
  <2>10. CASE ~(known > 0 /\ Agree(needed, bytes)) /\ before # {}
    <3>1. PICK q : q = Min(before)
      OBVIOUS
    <3>2. q \in before /\ \A n \in before : q <= n
      <4>1. before \in SUBSET Nat
        BY <1>2, <1>12
      <4> QED
        BY <2>10, <3>1, <4>1, SmallestOf
    <3>3. q \in 0 .. left - 1
      BY <1>12, <3>2
    <3>4. PICK length \in Nat : length = Smaller(m, left - q) /\ length <= left - q
      <4>1. PICK r \in Nat : r = left - q
        BY <1>2, <3>3
      <4> QED
        BY <1>3, <4>1 DEF Smaller
    <3>5. match = Matched(s, length, q + length)
      BY <1>14, <1>16, <2>10, <3>1, <3>4
    <3>6. Fits(literal, at + q, at + left)
      BY <1>8, <2>8, <3>2, <3>3
    <3>7. \A n \in 0 .. q - 1 : n \notin before
      <4> SUFFICES ASSUME NEW n \in 0 .. q - 1, n \in before
                   PROVE  FALSE
        OBVIOUS
      <4>1. q <= n
        BY <3>2
      <4> QED
        BY <3>3, <4>1
    <3>8. NotBefore(literal, start, at + q, at + left)
      <4>1. q \in 0 .. left
        BY <1>2, <3>3
      <4> QED
        BY <2>9, <2>10, <3>7, <4>1
    <3>9. /\ at + q \in start .. at + left /\ q + length \in Nat
          /\ length = Smaller(Len(literal), at + left - (at + q))
          /\ at + (q + length) = (at + q) + length
      <4>1. at + left - (at + q) = left - q
        BY <1>2, <3>3
      <4> QED
        BY <1>1, <1>2, <1>3, <3>3, <3>4, <4>1
    <3> QED
      BY <1>13, <2>4, <3>4, <3>5, <3>6, <3>8, <3>9, ThroughMatched
  <2>11. CASE ~(known > 0 /\ Agree(needed, bytes)) /\ before = {}
    <3>1. match = Matched(s, 0, left)
      BY <1>14, <1>16, <2>11
    <3>2. NotBefore(literal, start, at + left, at + left)
      <4>1. left \in 0 .. left /\ \A n \in 0 .. left - 1 : n \notin before
        BY <1>2, <2>11
      <4> QED
        BY <2>9, <2>11, <4>1
    <3>3. Smaller(m, (at + left) - (at + left)) = 0
      BY <1>2, <1>3 DEF Smaller
    <3>4. Fits(literal, at + left, at + left)
      BY <1>3, <3>3 DEF Fits
    <3>5. at + left \in start .. at + left /\ 0 \in Nat /\ at + left = (at + left) + 0
      BY <1>1, <1>2
    <3>6. 0 = Smaller(Len(literal), (at + left) - (at + left))
      BY <1>3, <3>3
    <3> QED
      BY <1>2, <1>13, <2>4, <3>1, <3>2, <3>4, <3>5, <3>6, ThroughMatched
  <2> QED
    BY <2>6, <2>10, <2>11
<1> QED
  BY <1>15, <1>16

LEMMA ScanAnswer ==
    ASSUME NEW s, NEW type \in ScannerTypes, NEW literal, NEW data, NEW from, NEW start, NEW at,
           NEW left, NEW bytes, IsCall(s, type, literal, data, from, start, at, left, bytes)
    PROVE  IsAnswer(ScanBytes(s, bytes), type, literal, data, from, start, at, left)
<1>1. s.type = type
  BY DEF IsCall, AScanner
<1>2. \/ type = "literal" \/ type = "name" \/ IsQuoted(type) \/ type = "sentinel"
      \/ IsThrough(type) \/ IsSpace(type)
  BY Zenon DEF ScannerTypes, IsQuoted, IsThrough, IsSpace
<1>3. CASE type = "literal"
  <2>1. ScanBytes(s, bytes) = ScanLiteral(s, bytes)
    BY <1>1, <1>3 DEF ScanBytes
  <2> QED
    BY <1>3, <2>1, LiteralAnswer
<1>4. CASE type = "name"
  <2>1. ScanBytes(s, bytes) = ScanName(s, bytes)
    BY <1>1, <1>4 DEF ScanBytes
  <2> QED
    BY <1>4, <2>1, NameAnswer
<1>5. CASE IsQuoted(type)
  <2>1. ScanBytes(s, bytes) = ScanQuotedString(s, bytes)
    BY <1>1, <1>5 DEF ScanBytes, IsQuoted
  <2> QED
    BY <1>5, <2>1, QuotedAnswer
<1>6. CASE type = "sentinel"
  <2>1. ScanBytes(s, bytes) = ScanSentinel(s, bytes)
    BY <1>1, <1>6 DEF ScanBytes
  <2> QED
    BY <1>6, <2>1, SentinelAnswer
<1>7. CASE IsThrough(type)
  <2>1. ScanBytes(s, bytes) = ScanThroughLiteral(s, bytes)
    BY <1>1, <1>7 DEF ScanBytes, IsThrough
  <2> QED
    BY <1>7, <2>1, ThroughAnswer
<1>8. CASE IsSpace(type)
  <2>1. ScanBytes(s, bytes) = ScanWhitespace(s, bytes)
    BY <1>1, <1>8 DEF ScanBytes, IsSpace
  <2> QED
    BY <1>8, <2>1, SpaceAnswer
<1> QED
  BY <1>2, <1>3, <1>4, <1>5, <1>6, <1>7, <1>8

-----------------------------------------------------------------------------
(***************************************************************************)
(* The invariant of the scanning.                                          *)
(***************************************************************************)
Found   == result = "full"
Waiting == result = OutOfData
Failed  == result = Wrong

Token == [scanner : Scanners, begin : Nat, end : Nat]

PlaceInv ==
    /\ text \in Texts
    /\ range \in DataRange /\ location \in Nat
    /\ range.begin <= location /\ location <= range.end /\ range.end <= Len(text)

HasRange(token_range, from, at) ==
    /\ token_range \in DataRange
    /\ IF IsValid(token_range) THEN token_range = NewRange(from, at) ELSE from = at

ScannerInv ==
    /\ since \in Nat /\ since <= location
    /\ HasRange(scanner.token_range, since, location)
    /\ scanner = AScanner(scanner.type, scanner.literal, scanner.token_range, scanner.data)
    /\ Wanted \in Scanners

Progress ==
    /\ Start <= location
    /\ IsWhole(scanner.type) => since = Start
    /\ Seen(scanner.type, scanner.literal, scanner.data, Start, location)

ResultInv ==
    /\ result \in Results
    /\ tokens \in Seq(Token)
    /\ Found => Start = location
    /\ ~Found /\ ~Failed => Progress
    /\ Waiting => HasLiteral(scanner.type, scanner.literal)

ScanInv == PlaceInv /\ ScannerInv /\ ResultInv

LEMMA NewStart ==
    ASSUME tokens \in Seq(Token)
    PROVE  /\ Start \in Nat
           /\ Whole!Start = Start
           /\ \A token \in Token : \A more : more = Append(tokens, token) =>
                 /\ more \in Seq(Token) /\ more # <<>> /\ Last(more) = token
<1>1. ASSUME tokens = <<>>
      PROVE  Start \in Nat /\ Whole!Start = Start
  <2>1. Start = 0 /\ Whole!Start = 0
    BY <1>1 DEF Start, Whole!Start
  <2> QED
    BY <2>1
<1>2. ASSUME tokens # <<>>
      PROVE  Start \in Nat /\ Whole!Start = Start
  <2>1. Len(tokens) \in Nat /\ Len(tokens) # 0
    BY <1>2, LenProperties
  <2>2. tokens[Len(tokens)] \in Token
    BY <2>1, ElementOfSeq
  <2>3. tokens[Len(tokens)].end \in Nat
    BY <2>2 DEF Token
  <2> QED
    BY <1>2, <2>3, Zenon DEF Start, Whole!Start, Last
<1>3. ASSUME NEW token \in Token, NEW more, more = Append(tokens, token)
      PROVE  more \in Seq(Token) /\ more # <<>> /\ Last(more) = token
  <2>1. /\ more \in Seq(Token) /\ Len(more) = Len(tokens) + 1 /\ more[Len(tokens) + 1] = token
    BY <1>3, AppendProperties
  <2>2. Len(tokens) \in Nat
    BY LenProperties
  <2> QED
    BY <2>1, <2>2 DEF Last
<1>4. Start \in Nat /\ Whole!Start = Start
  BY <1>1, <1>2
<1> QED
  BY <1>3, <1>4

\* Nothing seen of a token that begins here.
LEMMA NothingSeen ==
    ASSUME NEW type, NEW literal \in Seq(Symbols), NEW at \in Nat
    PROVE  Seen(type, literal, <<>>, at, at)
<1>1. SeenLiteral(literal, at, at)
  BY DEF SeenLiteral
<1>2. SeenName(at, at) /\ SeenSpace(at, at)
  BY DEF SeenName, SeenSpace
<1>3. SeenQuoted(<<>>, at, at)
  BY DEF SeenQuoted
<1>4. SeenThrough(literal, <<>>, at, at)
  <2>1. SubSeq(literal, 1, 0) = <<>>
    BY SubSeqEmpty
  <2>2. /\ 0 \in Nat /\ at <= at - 0
        /\ \A i \in 1 .. 0 : text[at - 0 + i] = literal[i]
        /\ \A k \in at .. at - 1 : k # at - 0 => ~Fits(literal, k, at)
    OBVIOUS
  <2> QED
    BY <2>1, <2>2 DEF SeenThrough
<1> QED
  BY <1>1, <1>2, <1>3, <1>4, Zenon DEF Seen

LEMMA ScannersAre ==
    \A s \in Scanners : /\ s.type \in ScannerTypes /\ s.literal \in Seq(Symbols)
                        /\ s = [type |-> s.type, literal |-> s.literal]
BY ScannersAssumption DEF Symbols

\* What a call of Scan comes to.
Outcome(n, new, token_range) ==
    /\ location' = location + n
    /\ scanner' = AScanner(scanner.type, scanner.literal, token_range, new)
    /\ HasRange(token_range, since, location + n)
    /\ \/ /\ result' = "full" /\ location + n \in Whole!TokenEnds(Start, Wanted)
          /\ tokens' = Append(tokens, [scanner |-> Wanted, begin |-> Start,
                                       end |-> location + n])
       \/ /\ result' = Wrong /\ Whole!Excluded(Start, Wanted)
          /\ tokens' = tokens
       \/ /\ result' = OutOfData /\ HasLiteral(scanner.type, scanner.literal)
          /\ Seen(scanner.type, scanner.literal, new, Start, location + n)
          /\ tokens' = tokens
       \/ /\ result' = Misused /\ n = 0 /\ new = scanner.data
          /\ tokens' = tokens

LEMMA CallIs ==
    ASSUME ScanInv, ~Found, ~Failed, ContainsLocation(range, location)
    PROVE  IsCall(AScanner(scanner.type, scanner.literal, NewRange(since, location),
                           scanner.data),
                  scanner.type, scanner.literal, scanner.data, since, Start, location,
                  range.end - location, SubSeq(text, location + 1, range.end))
<1>1. PICK at, upto, bytes : /\ at = location /\ upto = range.end
                            /\ bytes = SubSeq(text, location + 1, range.end)
  OBVIOUS
<1>2. /\ at \in Nat /\ upto \in Nat /\ upto <= Len(text) /\ text \in Seq(Chars)
  BY <1>1, TextsAssumption DEF ScanInv, PlaceInv, DataRange
<1>3. at < upto
  BY <1>1 DEF ContainsLocation
<1>4. /\ bytes \in Seq(Chars) /\ Len(bytes) = upto - at
      /\ \A k \in 1 .. upto - at : bytes[k] = text[at + k]
  BY <1>1, <1>2, <1>3, RestOfPiece
<1>5. PICK left \in Nat : left = upto - at /\ left > 0 /\ at + left = upto
  BY <1>2, <1>3
<1>6. IsPiece(bytes, at, left)
  BY <1>2, <1>4, <1>5 DEF IsPiece
<1>7. Wanted \in Scanners /\ scanner.literal = Wanted.literal /\ since \in Nat
      /\ since <= location
  BY DEF ScanInv, ScannerInv, Wanted
<1>8. scanner.literal \in Seq(Symbols)
  BY <1>7, ScannersAre
<1>9. Start \in Nat
  BY NewStart DEF ScanInv, ResultInv
<1>10. Progress
  BY DEF ScanInv, ResultInv
<1>11. IsCall(AScanner(scanner.type, scanner.literal, NewRange(since, at), scanner.data),
              scanner.type, scanner.literal, scanner.data, since, Start, at, left, bytes)
  BY <1>1, <1>6, <1>7, <1>8, <1>9, <1>10 DEF IsCall, Progress
<1> QED
  BY <1>1, <1>5, <1>11

LEMMA ScanComesTo ==
    ASSUME ScanInv, CallScan
    PROVE  \E n \in Nat : \E new, token_range :
              location + n <= range.end /\ Outcome(n, new, token_range)
<1>1. PICK match : match = Scan(scanner, text, location, range)
  OBVIOUS
<1>2. /\ ~Found /\ ~Failed
      /\ scanner' = match.scanner /\ result' = match.type
      /\ location' = location + match.consumed
      /\ tokens' = IF match.type = "full"
                   THEN Append(tokens, [scanner |-> Wanted, begin |-> Start,
                                        end |-> match.scanner.token_range.end])
                   ELSE tokens
  BY <1>1, Zenon DEF CallScan, Found, Failed, Wrong
<1>3. /\ location \in Nat /\ range \in DataRange /\ location <= range.end
      /\ since \in Nat /\ since <= location
      /\ HasRange(scanner.token_range, since, location)
      /\ scanner = AScanner(scanner.type, scanner.literal, scanner.token_range, scanner.data)
      /\ Wanted = [type |-> scanner.type, literal |-> scanner.literal]
      /\ Wanted \in Scanners
  BY DEF ScanInv, PlaceInv, ScannerInv, Wanted
<1>4. Misused # "full"
  BY Zenon DEF Misused
<1>5. OutOfData # "full"
  BY Zenon DEF OutOfData
<1>6. Wrong # "full"
  BY Zenon DEF Wrong
<1>7. CASE ~ContainsLocation(range, location)
  <2>1. match = InternalError(scanner)
    BY <1>1, <1>7 DEF Scan
  <2>2. match.type = Misused /\ match.consumed = 0 /\ match.scanner = scanner
    BY <2>1, Zenon DEF InternalError, Match, Misused
  <2>3. tokens' = tokens /\ location + 0 = location /\ location' = location
    BY <1>2, <1>3, <1>4, <2>2
  <2>4. Outcome(0, scanner.data, scanner.token_range)
    BY <1>2, <1>3, <2>2, <2>3 DEF Outcome
  <2> QED
    BY <1>3, <2>3, <2>4
<1>8. CASE ContainsLocation(range, location)
  <2>1. PICK s : s = AScanner(scanner.type, scanner.literal, NewRange(since, location),
                              scanner.data)
    OBVIOUS
  <2>2. match = ScanBytes(s, SubSeq(text, location + 1, range.end))
    <3>1. CASE IsValid(scanner.token_range)
      <4>1. s = scanner
        BY <1>3, <2>1, <3>1 DEF HasRange
      <4> QED
        BY <1>1, <1>8, <3>1, <4>1 DEF Scan
    <3>2. CASE ~IsValid(scanner.token_range)
      <4>1. since = location
        BY <1>3, <3>2 DEF HasRange
      <4>2. s = [scanner EXCEPT !.token_range = NewRange(location, location)]
        BY <1>3, <2>1, <4>1 DEF AScanner
      <4> QED
        BY <1>1, <1>8, <3>2, <4>2 DEF Scan
    <3> QED
      BY <3>1, <3>2
  <2>3. scanner.type \in ScannerTypes
    BY <1>3, ScannersAre
  <2>4. PICK left \in Nat : left = range.end - location
    BY <1>3 DEF DataRange
  <2>5. IsAnswer(match, scanner.type, scanner.literal, scanner.data, since, Start, location,
                 left)
    BY <1>2, <1>8, <2>1, <2>2, <2>3, <2>4, CallIs, ScanAnswer
  <2>6. PICK n \in 0 .. left : \E new :
        /\ match.consumed = n
        /\ match.scanner = AScanner(scanner.type, scanner.literal,
                                    NewRange(since, location + n), new)
        /\ \/ match.type = "full" /\ location + n \in Whole!TokenEnds(Start, Wanted)
           \/ match.type = Wrong /\ n = 0 /\ Whole!Excluded(Start, Wanted)
           \/ /\ match.type = OutOfData /\ HasLiteral(scanner.type, scanner.literal)
              /\ Seen(scanner.type, scanner.literal, new, Start, location + n)
           \/ match.type = Misused /\ n = 0 /\ new = scanner.data
    BY <1>3, <2>5, Zenon DEF IsAnswer
  <2>7. PICK new :
        /\ match.consumed = n
        /\ match.scanner = AScanner(scanner.type, scanner.literal,
                                    NewRange(since, location + n), new)
        /\ \/ match.type = "full" /\ location + n \in Whole!TokenEnds(Start, Wanted)
           \/ match.type = Wrong /\ n = 0 /\ Whole!Excluded(Start, Wanted)
           \/ /\ match.type = OutOfData /\ HasLiteral(scanner.type, scanner.literal)
              /\ Seen(scanner.type, scanner.literal, new, Start, location + n)
           \/ match.type = Misused /\ n = 0 /\ new = scanner.data
    BY <2>6
  <2>8. PICK r : r = NewRange(since, location + n)
    OBVIOUS
  <2>9. n \in Nat /\ location + n <= range.end /\ location + n \in Nat
    BY <1>3, <2>4 DEF DataRange
  <2>10. r.end = location + n /\ match.scanner.token_range = r
    BY <2>7, <2>8 DEF AScanner, NewRange
  <2>11. HasRange(r, since, location + n)
    BY <1>3, <2>8, <2>9 DEF HasRange, NewRange, IsValid, DataRange
  <2>12. /\ scanner' = AScanner(scanner.type, scanner.literal, r, new)
         /\ location' = location + n
         /\ tokens' = IF result' = "full"
                      THEN Append(tokens, [scanner |-> Wanted, begin |-> Start,
                                           end |-> location + n])
                      ELSE tokens
    BY <1>2, <2>7, <2>8, <2>10
  <2>13. Outcome(n, new, r)
    <3>1. CASE match.type = "full" /\ location + n \in Whole!TokenEnds(Start, Wanted)
      BY <1>2, <2>11, <2>12, <3>1, Zenon DEF Outcome
    <3>2. CASE match.type = Wrong /\ n = 0 /\ Whole!Excluded(Start, Wanted)
      BY <1>2, <1>6, <2>11, <2>12, <3>2, Zenon DEF Outcome
    <3>3. CASE /\ match.type = OutOfData /\ HasLiteral(scanner.type, scanner.literal)
               /\ Seen(scanner.type, scanner.literal, new, Start, location + n)
      BY <1>2, <1>5, <2>11, <2>12, <3>3, Zenon DEF Outcome
    <3>4. CASE match.type = Misused /\ n = 0 /\ new = scanner.data
      BY <1>2, <1>4, <2>11, <2>12, <3>4, Zenon DEF Outcome
    <3> QED
      BY <2>7, <3>1, <3>2, <3>3, <3>4
  <2> QED
    BY <2>9, <2>13
<1> QED
  BY <1>7, <1>8

LEMMA SeenSame ==
    ASSUME text' = text, NEW type, NEW literal, NEW data, NEW start, NEW at
    PROVE  Seen(type, literal, data, start, at)' <=> Seen(type, literal, data, start, at)
BY DEF Seen, SeenLiteral, SeenName, SeenQuoted, SeenSpace, SeenThrough, Fits, Whole!NoOverlap

\* A new scanner, where nothing of its token has come.
LEMMA FirstScannerIs ==
    ASSUME NEW w \in Scanners
    PROVE  /\ FirstScanner(w) = AScanner(w.type, w.literal, InvalidRange, <<>>)
           /\ InvalidRange \in DataRange /\ ~IsValid(InvalidRange)
BY DEF FirstScanner, NewScanner, AScanner, InvalidRange, NewRange, DataRange, IsValid

LEMMA AScannerIs ==
    ASSUME NEW s, NEW type, NEW literal, NEW token_range, NEW data,
           s = AScanner(type, literal, token_range, data)
    PROVE  /\ s.type = type /\ s.literal = literal /\ s.token_range = token_range
           /\ s.data = data
           /\ s = AScanner(s.type, s.literal, s.token_range, s.data)
BY DEF AScanner

LEMMA ResultsAre ==
    /\ "none" \in Results /\ "full" \in Results /\ OutOfData \in Results
    /\ Wrong \in Results /\ Misused \in Results
    /\ OutOfData # "full" /\ OutOfData # Wrong /\ Wrong # "full"
    /\ Misused # "full" /\ Misused # Wrong /\ Misused # OutOfData
    /\ "none" # OutOfData /\ "none" # Wrong
<1>1. /\ "none" \in Results /\ "full" \in Results /\ OutOfData \in Results
      /\ Wrong \in Results /\ Misused \in Results
  BY Zenon DEF Results, OutOfData, Wrong, Misused
<1>2. OutOfData # "full"
  BY Zenon DEF OutOfData
<1>3. OutOfData # Wrong
  BY Zenon DEF OutOfData, Wrong
<1>4. Wrong # "full"
  BY Zenon DEF Wrong
<1>5. Misused # "full"
  BY Zenon DEF Misused
<1>6. Misused # Wrong
  BY Zenon DEF Misused, Wrong
<1>7. Misused # OutOfData
  BY Zenon DEF Misused, OutOfData
<1>8. "none" # OutOfData
  BY Zenon DEF OutOfData
<1>9. "none" # Wrong
  BY Zenon DEF Wrong
<1> QED
  BY <1>1, <1>2, <1>3, <1>4, <1>5, <1>6, <1>7, <1>8, <1>9, Zenon

LEMMA ScanInitially == Init => ScanInv
<1> SUFFICES ASSUME Init
             PROVE  ScanInv
  OBVIOUS
<1>1. PICK w \in Scanners : scanner = FirstScanner(w)
  BY DEF Init
<1>2. /\ text \in Texts /\ range = InvalidRange /\ location = 0 /\ since = 0
      /\ result = "none" /\ tokens = <<>>
  BY DEF Init
<1>3. scanner = AScanner(w.type, w.literal, InvalidRange, <<>>)
  BY <1>1, FirstScannerIs
<1>4. /\ scanner.type = w.type /\ scanner.literal = w.literal
      /\ scanner.token_range = InvalidRange /\ scanner.data = <<>>
      /\ scanner = AScanner(scanner.type, scanner.literal, scanner.token_range, scanner.data)
  BY <1>3, AScannerIs
<1>5. PlaceInv
  <2>1. text \in Seq(Chars)
    BY <1>2, TextsAssumption
  <2>2. Len(text) \in Nat
    BY <2>1, LenProperties
  <2> QED
    BY <1>2, <2>2 DEF PlaceInv, InvalidRange, NewRange, DataRange
<1>6. ScannerInv
  <2>1. Wanted = w
    BY <1>4, ScannersAre DEF Wanted
  <2>2. HasRange(InvalidRange, since, location)
    BY <1>2, FirstScannerIs DEF HasRange
  <2> QED
    BY <1>2, <1>4, <2>1, <2>2 DEF ScannerInv
<1>7. Start = 0
  BY <1>2 DEF Start
<1>8. Progress
  <2>1. w.literal \in Seq(Symbols)
    BY ScannersAre
  <2>2. Seen(w.type, w.literal, <<>>, 0, 0)
    BY <2>1, NothingSeen
  <2> QED
    BY <1>2, <1>4, <1>7, <2>2 DEF Progress
<1>9. ResultInv
  <2>1. ~Found /\ ~Waiting
    BY <1>2, ResultsAre DEF Found, Waiting
  <2>2. result \in Results /\ tokens \in Seq(Token)
    BY <1>2, ResultsAre, EmptySeq
  <2> QED
    BY <1>8, <2>1, <2>2 DEF ResultInv
<1> QED
  BY <1>5, <1>6, <1>9 DEF ScanInv

LEMMA ScanOnCall == ScanInv /\ CallScan => ScanInv'
<1> SUFFICES ASSUME ScanInv, CallScan
             PROVE  ScanInv'
  OBVIOUS
<1>1. \E n \in Nat : \E new, token_range :
         location + n <= range.end /\ Outcome(n, new, token_range)
  BY ScanComesTo, Zenon
<1>2. PICK n \in Nat : \E new, token_range :
         location + n <= range.end /\ Outcome(n, new, token_range)
  BY <1>1, Zenon
<1>3. PICK new, token_range : location + n <= range.end /\ Outcome(n, new, token_range)
  BY <1>2, Zenon
<1>4. UNCHANGED <<text, range, line_map, since>>
  BY DEF CallScan
<1>5. /\ location' = location + n
      /\ scanner' = AScanner(scanner.type, scanner.literal, token_range, new)
      /\ HasRange(token_range, since, location')
  BY <1>3 DEF Outcome
<1>6. /\ scanner'.type = scanner.type /\ scanner'.literal = scanner.literal
      /\ scanner'.token_range = token_range /\ scanner'.data = new
      /\ scanner' = AScanner(scanner'.type, scanner'.literal, scanner'.token_range,
                             scanner'.data)
  BY <1>5, AScannerIs
<1>7. /\ text \in Texts /\ range \in DataRange /\ location \in Nat
      /\ range.begin <= location /\ location <= range.end /\ range.end <= Len(text)
      /\ since \in Nat /\ since <= location /\ Wanted \in Scanners
      /\ tokens \in Seq(Token) /\ Start \in Nat
  BY NewStart DEF ScanInv, PlaceInv, ScannerInv, ResultInv
<1>8. Progress
  <2>1. ~Found /\ ~Failed
    BY Zenon DEF CallScan, Found, Failed, Wrong
  <2> QED
    BY <2>1 DEF ScanInv, ResultInv
<1>9. location' \in Nat /\ location <= location' /\ location' <= range.end
  BY <1>3, <1>5, <1>7
<1>10. PlaceInv'
  BY <1>4, <1>7, <1>9 DEF PlaceInv, DataRange
<1>11. ScannerInv'
  <2>1. Wanted' = Wanted
    BY <1>6 DEF Wanted
  <2>2. since' <= location' /\ HasRange(scanner.token_range, since, location)'
    BY <1>4, <1>5, <1>6, <1>7, <1>9 DEF HasRange
  <2> QED
    BY <1>4, <1>6, <1>7, <2>1, <2>2 DEF ScannerInv
\* Where no token was found.
<1>12. ASSUME tokens' = tokens
       PROVE  Start' = Start
  BY <1>12 DEF Start
<1>13. ASSUME tokens' = tokens, Seen(scanner.type, scanner.literal, new, Start, location')
       PROVE  Progress'
  <2>1. Start' = Start
    BY <1>12, <1>13
  <2>2. PICK type, literal, start, at :
           /\ type = scanner.type /\ literal = scanner.literal
           /\ start = Start /\ at = location'
    OBVIOUS
  <2>3. Seen(type, literal, new, start, at)
    BY <1>13, <2>2
  <2>4. Seen(type, literal, new, start, at)'
    BY <1>4, <2>3, SeenSame
  <2>5. Seen(scanner.type, scanner.literal, scanner.data, Start, location)'
    BY <1>6, <2>1, <2>2, <2>4
  <2>6. Start' <= location' /\ (IsWhole(scanner.type)' => since' = Start')
    <3>1. Start <= location /\ (IsWhole(scanner.type) => since = Start)
      BY <1>8 DEF Progress
    <3>2. IsWhole(scanner.type)' <=> IsWhole(scanner.type)
      BY <1>6 DEF IsWhole
    <3> QED
      BY <1>4, <1>7, <1>9, <2>1, <3>1, <3>2
  <2> QED
    BY <2>5, <2>6 DEF Progress
<1>14. ResultInv'
  <2>1. CASE /\ result' = "full"
             /\ tokens' = Append(tokens, [scanner |-> Wanted, begin |-> Start,
                                          end |-> location + n])
    <3>1. PICK token \in Token : /\ token = [scanner |-> Wanted, begin |-> Start,
                                             end |-> location + n]
                                 /\ token.end = location'
      <4>1. location' \in Nat /\ location' = location + n
        BY <1>5, <1>9
      <4>2. /\ [scanner |-> Wanted, begin |-> Start, end |-> location + n] \in Token
            /\ [scanner |-> Wanted, begin |-> Start, end |-> location + n].end = location'
        BY <1>7, <4>1 DEF Token
      <4> QED
        BY <4>2
    <3>2. tokens' \in Seq(Token) /\ tokens' # <<>> /\ Last(tokens') = token
      BY <1>7, <2>1, <3>1, NewStart
    <3>3. Start' = location'
      BY <3>1, <3>2 DEF Start
    <3>4. Found' /\ ~Waiting' /\ result' \in Results
      BY <2>1, ResultsAre DEF Found, Waiting
    <3> QED
      BY <3>2, <3>3, <3>4 DEF ResultInv
  <2>2. CASE result' = Wrong /\ tokens' = tokens
    <3>1. ~Found' /\ Failed' /\ ~Waiting' /\ result' \in Results
      BY <2>2, ResultsAre DEF Found, Failed, Waiting
    <3> QED
      BY <1>7, <2>2, <3>1 DEF ResultInv
  <2>3. CASE /\ result' = OutOfData /\ HasLiteral(scanner.type, scanner.literal)
             /\ Seen(scanner.type, scanner.literal, new, Start, location + n)
             /\ tokens' = tokens
    <3>1. ~Found' /\ ~Failed' /\ result' \in Results
      BY <2>3, ResultsAre DEF Found, Failed
    <3>2. Progress'
      BY <1>5, <1>13, <2>3
    <3>3. HasLiteral(scanner.type, scanner.literal)'
      BY <1>6, <2>3 DEF HasLiteral
    <3> QED
      BY <1>7, <2>3, <3>1, <3>2, <3>3 DEF ResultInv
  <2>4. CASE result' = Misused /\ n = 0 /\ new = scanner.data /\ tokens' = tokens
    <3>1. ~Found' /\ ~Failed' /\ ~Waiting' /\ result' \in Results
      BY <2>4, ResultsAre DEF Found, Failed, Waiting
    <3>2. location' = location
      BY <1>5, <1>7, <2>4
    <3>3. Progress'
      BY <1>8, <1>13, <2>4, <3>2 DEF Progress
    <3> QED
      BY <1>7, <2>4, <3>1, <3>3 DEF ResultInv
  <2> QED
    BY <1>3, <2>1, <2>2, <2>3, <2>4 DEF Outcome
<1> QED
  BY <1>10, <1>11, <1>14 DEF ScanInv

LEMMA InvalidIs == InvalidRange \in DataRange /\ ~IsValid(InvalidRange)
BY DEF InvalidRange, NewRange, DataRange, IsValid

LEMMA RestStays ==
    ASSUME ResultInv, UNCHANGED <<text, location, scanner, since, result, tokens>>
    PROVE  ResultInv'
<1>1. Start' = Start
  BY DEF Start
<1>2. ASSUME Progress
      PROVE  Progress'
  <2>1. PICK type, literal, data, start, at :
           /\ type = scanner.type /\ literal = scanner.literal /\ data = scanner.data
           /\ start = Start /\ at = location
    OBVIOUS
  <2>2. Seen(type, literal, data, start, at)
    BY <1>2, <2>1 DEF Progress
  <2>3. Seen(type, literal, data, start, at)'
    BY <2>2, SeenSame
  <2>4. Seen(scanner.type, scanner.literal, scanner.data, Start, location)'
    BY <1>1, <2>1, <2>3
  <2> QED
    BY <1>1, <1>2, <2>4 DEF Progress, IsWhole
<1>3. (Found' <=> Found) /\ (Failed' <=> Failed) /\ (Waiting' <=> Waiting)
      /\ (HasLiteral(scanner.type, scanner.literal)' <=>
             HasLiteral(scanner.type, scanner.literal))
  BY DEF Found, Failed, Waiting, HasLiteral
<1> QED
  BY <1>1, <1>2, <1>3 DEF ResultInv

LEMMA ScanOnArrival == ScanInv /\ Arrive => ScanInv'
<1> SUFFICES ASSUME ScanInv, Arrive
             PROVE  ScanInv'
  OBVIOUS
<1>1. PICK end \in range.end + 1 .. Len(text) : range' = NewRange(range.end, end)
  BY DEF Arrive
<1>2. location = range.end /\ UNCHANGED <<text, location, scanner, since, result, tokens>>
  BY DEF Arrive
<1>3. /\ text \in Texts /\ range \in DataRange /\ location \in Nat
      /\ range.end \in Nat /\ Len(text) \in Nat
  BY TextsAssumption, LenProperties DEF ScanInv, PlaceInv, DataRange
<1>4. PlaceInv'
  <2>1. end \in Nat /\ range.end <= end /\ end <= Len(text)
    BY <1>3
  <2>2. range' \in DataRange /\ range'.begin = range.end /\ range'.end = end
    BY <1>1, <1>3, <2>1 DEF DataRange, NewRange
  <2> QED
    BY <1>2, <1>3, <2>1, <2>2 DEF PlaceInv
<1>5. ScannerInv'
  BY <1>2 DEF ScanInv, ScannerInv, HasRange, Wanted
<1>6. ResultInv'
  BY <1>2, RestStays DEF ScanInv
<1> QED
  BY <1>4, <1>5, <1>6 DEF ScanInv

LEMMA ScanOnTakePart == ScanInv /\ TakePart => ScanInv'
<1> SUFFICES ASSUME ScanInv, TakePart
             PROVE  ScanInv'
  OBVIOUS
<1>1. /\ Waiting /\ ~IsWhole(scanner.type)
      /\ scanner' = [scanner EXCEPT !.token_range = InvalidRange] /\ since' = location
      /\ UNCHANGED <<text, range, line_map, location, result, tokens>>
  BY Zenon DEF TakePart, ResetTokenRange, Waiting, IsWhole, OutOfData
<1>2. PICK r : r = scanner.token_range
  OBVIOUS
<1>3. scanner = AScanner(scanner.type, scanner.literal, r, scanner.data)
  BY <1>2 DEF ScanInv, ScannerInv
<1>4. scanner' = AScanner(scanner.type, scanner.literal, InvalidRange, scanner.data)
  <2>1. [AScanner(scanner.type, scanner.literal, r, scanner.data)
            EXCEPT !.token_range = InvalidRange]
           = AScanner(scanner.type, scanner.literal, InvalidRange, scanner.data)
    BY DEF AScanner
  <2> QED
    BY <1>1, <1>3, <2>1
<1>5. /\ scanner'.type = scanner.type /\ scanner'.literal = scanner.literal
      /\ scanner'.token_range = InvalidRange /\ scanner'.data = scanner.data
      /\ scanner' = AScanner(scanner'.type, scanner'.literal, scanner'.token_range,
                             scanner'.data)
  BY <1>4, AScannerIs
<1>6. PlaceInv'
  BY <1>1 DEF ScanInv, PlaceInv
<1>7. ScannerInv'
  <2>1. Wanted' = Wanted
    BY <1>5 DEF Wanted
  <2>2. HasRange(scanner.token_range, since, location)'
    BY <1>1, <1>5, FirstScannerIs, InvalidIs DEF HasRange
  <2>3. location \in Nat /\ Wanted \in Scanners
    BY DEF ScanInv, PlaceInv, ScannerInv
  <2> QED
    BY <1>1, <1>5, <2>1, <2>2, <2>3 DEF ScannerInv
<1>8. ResultInv'
  <2>1. /\ result \in Results /\ tokens \in Seq(Token) /\ (Found => Start = location)
        /\ HasLiteral(scanner.type, scanner.literal)
        /\ (~Found /\ ~Failed => Progress)
    BY <1>1 DEF ScanInv, ResultInv
  <2>2. ~Found /\ ~Failed
    BY <1>1, ResultsAre DEF Waiting, Found, Failed
  <2>3. Progress'
    <3>1. Start' = Start
      BY <1>1 DEF Start
    <3>2. PICK type, literal, data, start, at :
             /\ type = scanner.type /\ literal = scanner.literal /\ data = scanner.data
             /\ start = Start /\ at = location
      OBVIOUS
    <3>3. Seen(type, literal, data, start, at)
      BY <2>1, <2>2, <3>2 DEF Progress
    <3>4. Seen(type, literal, data, start, at)'
      BY <1>1, <3>3, SeenSame
    <3>5. Seen(scanner.type, scanner.literal, scanner.data, Start, location)'
      BY <1>1, <1>5, <3>1, <3>2, <3>4
    <3>6. Start' <= location' /\ ~IsWhole(scanner.type)'
      BY <1>1, <1>5, <2>1, <2>2, <3>1 DEF Progress, IsWhole
    <3> QED
      BY <3>5, <3>6 DEF Progress
  <2>4. (Found' <=> Found) /\ HasLiteral(scanner.type, scanner.literal)'
    BY <1>1, <1>5, <2>1 DEF Found, HasLiteral
  <2> QED
    BY <1>1, <2>1, <2>2, <2>3, <2>4 DEF ResultInv
<1> QED
  BY <1>6, <1>7, <1>8 DEF ScanInv

LEMMA ScanOnNextScanner == ScanInv /\ NextScanner => ScanInv'
<1> SUFFICES ASSUME ScanInv, NextScanner
             PROVE  ScanInv'
  OBVIOUS
<1>1. /\ Found /\ since' = location /\ result' = "none"
      /\ UNCHANGED <<text, range, line_map, location, tokens>>
  BY DEF NextScanner, Found
<1>2. PICK w \in Scanners : scanner' = FirstScanner(w)
  <2>1. Wanted \in Scanners /\ Reset(scanner) = FirstScanner(Wanted)
    BY DEF ScanInv, ScannerInv, Reset, FirstScanner, Wanted
  <2>2. scanner' \in {Reset(scanner)} \cup {FirstScanner(s) : s \in Scanners}
    BY DEF NextScanner
  <2> QED
    BY <2>1, <2>2
<1>3. scanner' = AScanner(w.type, w.literal, InvalidRange, <<>>)
  BY <1>2, FirstScannerIs
<1>4. /\ scanner'.type = w.type /\ scanner'.literal = w.literal
      /\ scanner'.token_range = InvalidRange /\ scanner'.data = <<>>
      /\ scanner' = AScanner(scanner'.type, scanner'.literal, scanner'.token_range,
                             scanner'.data)
  BY <1>3, AScannerIs
<1>5. /\ location \in Nat /\ tokens \in Seq(Token) /\ Start = location
  BY <1>1 DEF ScanInv, PlaceInv, ResultInv
<1>6. PlaceInv'
  BY <1>1 DEF ScanInv, PlaceInv
<1>7. ScannerInv'
  <2>1. Wanted' = w
    BY <1>4, ScannersAre DEF Wanted
  <2>2. HasRange(scanner.token_range, since, location)'
    BY <1>1, <1>4, InvalidIs DEF HasRange
  <2> QED
    BY <1>1, <1>4, <1>5, <2>1, <2>2 DEF ScannerInv
<1>8. Start' = location'
  BY <1>1, <1>5 DEF Start
<1>9. Progress'
  <2>1. w.literal \in Seq(Symbols)
    BY ScannersAre
  <2>2. PICK type, literal, at : type = w.type /\ literal = w.literal /\ at = location
    OBVIOUS
  <2>3. Seen(type, literal, <<>>, at, at)
    BY <1>5, <2>1, <2>2, NothingSeen
  <2>4. Seen(type, literal, <<>>, at, at)'
    BY <1>1, <2>3, SeenSame
  <2>5. Seen(scanner.type, scanner.literal, scanner.data, Start, location)'
    BY <1>1, <1>4, <1>8, <2>2, <2>4
  <2> QED
    BY <1>1, <1>5, <1>8, <2>5 DEF Progress
<1>10. ResultInv'
  <2>1. ~Found' /\ ~Waiting' /\ result' \in Results
    BY <1>1, ResultsAre DEF Found, Waiting
  <2> QED
    BY <1>1, <1>5, <1>9, <2>1 DEF ResultInv
<1> QED
  BY <1>6, <1>7, <1>10 DEF ScanInv

LEMMA ScanOnStep == ScanInv /\ [Next]_vars => ScanInv'
<1> SUFFICES ASSUME ScanInv, [Next]_vars
             PROVE  ScanInv'
  OBVIOUS
<1>1. CASE Arrive
  BY <1>1, ScanOnArrival
<1>2. CASE CallScan
  BY <1>2, ScanOnCall
<1>3. CASE TakePart
  BY <1>3, ScanOnTakePart
<1>4. CASE NextScanner
  BY <1>4, ScanOnNextScanner
<1>5. CASE UNCHANGED vars
  <2>1. UNCHANGED <<text, range, location, scanner, since, result, tokens>>
    BY <1>5 DEF vars
  <2>2. ResultInv'
    BY <2>1, RestStays DEF ScanInv
  <2>3. PlaceInv' /\ ScannerInv'
    BY <2>1 DEF ScanInv, PlaceInv, ScannerInv, HasRange, Wanted
  <2> QED
    BY <2>2, <2>3 DEF ScanInv
<1> QED
  BY <1>1, <1>2, <1>3, <1>4, <1>5 DEF Next

\* The invariant of the scanning: what has been seen of the token that is asked for.
THEOREM ScanInvariance == Spec => []ScanInv
<1>1. Init => ScanInv
  BY ScanInitially
<1>2. ScanInv /\ [Next]_vars => ScanInv'
  BY ScanOnStep
<1> QED
  BY <1>1, <1>2, PTL DEF Spec

\* The token range is what was consumed since it was begun, without a gap.
THEOREM TokenRange == Spec => []TokenRangeIsConsumedText
<1>1. ScanInv => TokenRangeIsConsumedText
  BY DEF ScanInv, ScannerInv, HasRange, TokenRangeIsConsumedText
<1> QED
  BY <1>1, ScanInvariance, PTL

\* At the end of the text, what was seen shows that there is no token.
LEMMA NothingMissed ==
    ASSUME NEW type \in ScannerTypes, NEW literal \in Seq(Symbols), NEW data, NEW start \in Nat,
           NEW size \in Nat, size = Len(text), text \in Seq(Chars), start < size,
           Seen(type, literal, data, start, size), HasLiteral(type, literal),
           ~(IsThrough(type) /\ ~Whole!NoOverlap(literal)),
           NEW e, e \in Whole!TokenEnds(start, [type |-> type, literal |-> literal])
    PROVE  FALSE
<1>1. PICK m \in Nat : m = Len(literal)
  BY LenProperties
<1>2. ASSUME NEW l \in Nat, start <= l, NEW set, e \in Whole!EndsOfSpan(l, set)
      PROVE  e \in Nat /\ e + 1 \in l + 1 .. size /\ text[e + 1] \notin set
  BY <1>2 DEF Whole!EndsOfSpan, Whole!CharAt
<1>3. CASE type = "literal"
  <2>1. e = start + m /\ Whole!Holds(start, literal)
    <3>1. start < Len(text)
      OBVIOUS
    <3>2. e \in Whole!TokenEnds(start, [type |-> "literal", literal |-> literal])
      BY <1>3
    <3>3. e = start + Len(literal) /\ Whole!Holds(start, literal)
      BY <3>1, <3>2, EndsOf, Zenon
    <3> QED
      BY <1>1, <3>3
  <2>2. start + m <= size
    BY <1>1, <2>1, HoldsIs
  <2>3. size = start \/ size - start < m
    BY <1>1, <1>3 DEF Seen, SeenLiteral
  <2> QED
    BY <2>2, <2>3
<1>4. CASE type = "name"
  <2>1. e \in Whole!EndsOfSpan(start + 1, NameChars)
    BY <1>4, EndsOf
  <2>2. e + 1 \in start + 2 .. size /\ text[e + 1] \notin NameChars
    <3>1. start + 1 \in Nat /\ start <= start + 1
      OBVIOUS
    <3>2. e \in Nat /\ e + 1 \in (start + 1) + 1 .. size /\ text[e + 1] \notin NameChars
      BY <1>2, <2>1, <3>1
    <3> QED
      BY <3>2
  <2>3. SeenName(start, size)
    BY <1>4 DEF Seen
  <2> QED
    BY <2>2, <2>3 DEF SeenName
<1>5. CASE IsQuoted(type)
  <2>1. \E k \in start + 1 .. size - 1 : text[k + 1] = text[start + 1]
    BY <1>5, EndsOf DEF IsQuoted
  <2>2. PICK k \in start + 1 .. size - 1 : text[k + 1] = text[start + 1]
    BY <2>1
  <2>3. SeenQuoted(data, start, size)
    BY <1>5, Zenon DEF Seen, IsQuoted
  <2>4. PICK quote \in Quotes : /\ text[start + 1] = quote
                                /\ \A i \in start + 2 .. size : text[i] # quote
    BY <2>3 DEF SeenQuoted
  <2>5. k + 1 \in start + 2 .. size
    BY <2>2
  <2> QED
    BY <2>2, <2>4, <2>5
<1>6. CASE type = "sentinel"
  BY <1>6 DEF Seen
<1>7. CASE IsThrough(type)
  <2>1. e \in Whole!EndsThrough(start, literal)
    BY <1>7, EndsOf DEF IsThrough
  <2>2. SeenThrough(literal, data, start, size)
    BY <1>7, Zenon DEF Seen, IsThrough
  <2>3. m > 0
    <3>1. literal # <<>>
      BY <1>7, Zenon DEF HasLiteral, IsThrough
    <3> QED
      BY <1>1, <3>1
  <2>4. e \in start + m .. size /\ Whole!Holds(e - m, literal)
    BY <1>1, <2>1 DEF Whole!EndsThrough
  <2>5. PICK k \in Nat : k = e - m /\ start <= k /\ k + m <= size /\ k < size /\ e = k + m
    <3>1. e - m \in Nat /\ start <= e - m /\ (e - m) + m <= size /\ e - m < size
          /\ e = (e - m) + m
      BY <2>3, <2>4
    <3> QED
      BY <3>1
  <2>6. Fits(literal, k, size)
    BY <2>4, <2>5, HeldFits
  <2>7. PICK known \in Nat :
           /\ known < m \/ known = 0
           /\ \A i \in start .. size - 1 : i # size - known => ~Fits(literal, i, size)
    BY <1>1, <1>7, <2>2 DEF SeenThrough
  <2>8. k = size - known
    BY <2>5, <2>6, <2>7
  <2> QED
    BY <2>3, <2>5, <2>7, <2>8
<1>8. CASE IsSpace(type)
  <2>1. e \in Whole!EndsOfSpan(start, WhitespaceChars)
    <3>1. type = "whitespace" => e \in Whole!EndsOfSpan(start, WhitespaceChars)
      BY EndsOf
    <3>2. IsSpace(type) /\ type # "whitespace" =>
             e \in Whole!EndsOfSpan(start, WhitespaceChars)
      BY EndsOf DEF IsSpace
    <3> QED
      BY <1>8, <3>1, <3>2
  <2>2. e + 1 \in start + 1 .. size /\ text[e + 1] \notin WhitespaceChars
    BY <1>2, <2>1
  <2>3. SeenSpace(start, size)
    BY <1>8, Zenon DEF Seen, IsSpace
  <2> QED
    BY <2>2, <2>3 DEF SeenSpace
<1>9. \/ type = "literal" \/ type = "name" \/ IsQuoted(type) \/ type = "sentinel"
      \/ IsThrough(type) \/ IsSpace(type)
  BY Zenon DEF ScannerTypes, IsQuoted, IsThrough, IsSpace
<1> QED
  BY <1>3, <1>4, <1>5, <1>6, <1>7, <1>8, <1>9

\* A token that is in the text is found by the time the text has been read, but for
\* a literal with overlapping beginnings.
THEOREM NoneMissed == Spec => []NoTokenIsMissed
<1>1. ASSUME ScanInv
      PROVE  NoTokenIsMissed
  <2> SUFFICES ASSUME location = Len(text), Waiting,
                      ~(IsThrough(scanner.type) /\ ~Whole!NoOverlap(scanner.literal)),
                      NEW e, e \in Whole!TokenEnds(Start, Wanted)
               PROVE  FALSE
    BY Zenon DEF NoTokenIsMissed, Waiting, OutOfData, IsThrough
  <2>1. Progress /\ HasLiteral(scanner.type, scanner.literal) /\ Start \in Nat
        /\ location \in Nat /\ Wanted \in Scanners /\ text \in Seq(Chars)
    BY <1>1, ResultsAre, NewStart, TextsAssumption
       DEF ScanInv, PlaceInv, ScannerInv, ResultInv, Waiting, Found, Failed
  <2>2. scanner.type \in ScannerTypes /\ scanner.literal \in Seq(Symbols)
        /\ Wanted = [type |-> scanner.type, literal |-> scanner.literal]
    BY <2>1, ScannersAre DEF Wanted
  <2>3. Start <= location /\ Seen(scanner.type, scanner.literal, scanner.data, Start, location)
    BY <2>1 DEF Progress
  <2>4. Start < Len(text)
    <3>1. Start # location
      <4> SUFFICES ASSUME Start = location
                   PROVE  FALSE
        OBVIOUS
      <4>1. Start >= Len(text)
        BY <2>1
      <4> QED
        BY <4>1, Zenon DEF Whole!TokenEnds
    <3> QED
      BY <2>1, <2>3, <3>1
  <2> QED
    BY <2>1, <2>2, <2>3, <2>4, NothingMissed
<1> QED
  BY <1>1, ScanInvariance, PTL

-----------------------------------------------------------------------------
(***************************************************************************)
(* The tokens are those of the text as a whole.                            *)
(***************************************************************************)

\* Whole's failed, and its tuple of variables.
LEMMA WholeVars ==
    /\ Whole!vars = <<text, tokens, result = "syntax error">>
    /\ Failed <=> (result = "syntax error")
BY Zenon DEF Whole!vars, Failed, Wrong

\* A step that finds no token and is not refused changes nothing there.
LEMMA WholeStutters ==
    ASSUME text' = text, tokens' = tokens, ~Failed, ~Failed'
    PROVE  UNCHANGED Whole!vars
<1>1. (result = "syntax error") = FALSE
  BY WholeVars, Zenon
<1>2. (result' = "syntax error") = FALSE
  BY Zenon DEF Failed, Wrong
<1> QED
  BY <1>1, <1>2, Zenon DEF Whole!vars

LEMMA WholeInitially == Init => Whole!Init
<1> SUFFICES ASSUME Init
             PROVE  Whole!Init
  OBVIOUS
<1>1. tokens = <<>> /\ result = "none"
  BY DEF Init
<1>2. (result = "syntax error") = FALSE
  BY <1>1, Zenon
<1> QED
  BY <1>1, <1>2, Zenon DEF Whole!Init

LEMMA WholeOnCall ==
    ASSUME ScanInv, CallScan
    PROVE  [Whole!Next]_(Whole!vars)
<1>1. \E n \in Nat : \E new, token_range :
         location + n <= range.end /\ Outcome(n, new, token_range)
  BY ScanComesTo, Zenon
<1>2. PICK n \in Nat : \E new, token_range :
         location + n <= range.end /\ Outcome(n, new, token_range)
  BY <1>1, Zenon
<1>3. PICK new, token_range : Outcome(n, new, token_range)
  BY <1>2, Zenon
<1>4. text' = text
  BY DEF CallScan
<1>5. ~Failed
  BY Zenon DEF CallScan, Failed, Wrong
<1>6. (result = "syntax error") = FALSE
  BY <1>5, Zenon DEF Failed, Wrong
<1>7. Wanted \in Scanners /\ Whole!Start = Start
  BY NewStart DEF ScanInv, ScannerInv, ResultInv
<1>8. CASE /\ result' = "full" /\ location + n \in Whole!TokenEnds(Start, Wanted)
           /\ tokens' = Append(tokens, [scanner |-> Wanted, begin |-> Start,
                                        end |-> location + n])
  <2>1. (result' = "syntax error") = FALSE
    BY <1>8, Zenon
  <2>2. Whole!FindToken(Wanted)
    BY <1>4, <1>6, <1>7, <1>8, <2>1, Zenon DEF Whole!FindToken
  <2> QED
    BY <1>7, <2>2, Zenon DEF Whole!Next
<1>9. CASE result' = Wrong /\ Whole!Excluded(Start, Wanted) /\ tokens' = tokens
  <2>1. (result' = "syntax error") = TRUE
    BY <1>9, Zenon DEF Wrong
  <2>2. Whole!Fail(Wanted)
    BY <1>4, <1>6, <1>7, <1>9, <2>1, Zenon DEF Whole!Fail
  <2> QED
    BY <1>7, <2>2, Zenon DEF Whole!Next
<1>10. CASE result' = OutOfData /\ tokens' = tokens
  <2>1. ~Failed'
    BY <1>10, ResultsAre DEF Failed
  <2> QED
    BY <1>4, <1>5, <1>10, <2>1, WholeStutters, Zenon
<1>11. CASE result' = Misused /\ tokens' = tokens
  <2>1. ~Failed'
    BY <1>11, ResultsAre DEF Failed
  <2> QED
    BY <1>4, <1>5, <1>11, <2>1, WholeStutters, Zenon
<1> QED
  BY <1>3, <1>8, <1>9, <1>10, <1>11, Zenon DEF Outcome

LEMMA WholeOnStep == ScanInv /\ [Next]_vars => [Whole!Next]_(Whole!vars)
<1> SUFFICES ASSUME ScanInv, [Next]_vars
             PROVE  [Whole!Next]_(Whole!vars)
  OBVIOUS
<1>1. CASE Arrive
  <2>1. UNCHANGED <<text, tokens, result>>
    BY <1>1 DEF Arrive
  <2> QED
    BY <2>1, Zenon DEF Whole!vars
<1>2. CASE CallScan
  BY <1>2, WholeOnCall
<1>3. CASE TakePart
  <2>1. UNCHANGED <<text, tokens, result>>
    BY <1>3, Zenon DEF TakePart
  <2> QED
    BY <2>1, Zenon DEF Whole!vars
<1>4. CASE NextScanner
  <2>1. text' = text /\ tokens' = tokens
    BY <1>4 DEF NextScanner
  <2>2. ~Failed /\ ~Failed'
    BY <1>4, ResultsAre DEF NextScanner, Failed
  <2> QED
    BY <2>1, <2>2, WholeStutters, Zenon
<1>5. CASE UNCHANGED vars
  <2>1. UNCHANGED <<text, tokens, result>>
    BY <1>5 DEF vars
  <2> QED
    BY <2>1, Zenon DEF Whole!vars
<1> QED
  BY <1>1, <1>2, <1>3, <1>4, <1>5 DEF Next

\* Pieces change nothing: the tokens are those of the whole text, and what is a
\* syntax error in pieces is one in the whole.
THEOREM TokensOfTheWholeText == Spec => ImplementsTextTokens
<1>1. Init => Whole!Init
  BY WholeInitially
<1>2. ScanInv /\ [Next]_vars => [Whole!Next]_(Whole!vars)
  BY WholeOnStep
<1> QED
  BY <1>1, <1>2, ScanInvariance, PTL DEF Spec, Whole!Spec, ImplementsTextTokens

-----------------------------------------------------------------------------
(***************************************************************************)
(* The lines of a text, up to a location.                                  *)
(***************************************************************************)
Newlines(whole, upto) == {l \in 0 .. upto - 1 : whole[l + 1] = Newline}

Line == [number : Nat, range : DataRange]

BeginOf(lines, k) == IF k = 1 THEN 0 ELSE lines[k - 1].range.end + 1

NoNewline(whole, begin, end) == \A l \in begin .. end - 1 : whole[l + 1] # Newline

IsLine(whole, lines, k) ==
    /\ lines[k].number = k /\ lines[k].range.begin = BeginOf(lines, k)
    /\ BeginOf(lines, k) <= lines[k].range.end
    /\ NoNewline(whole, BeginOf(lines, k), lines[k].range.end)
    /\ Cardinality(Newlines(whole, BeginOf(lines, k))) = k - 1

Ended(whole, lines, k, upto) ==
    lines[k].range.end < upto /\ whole[lines[k].range.end + 1] = Newline

\* All the lines; the last one has no newline if it is incomplete.
AreLines(whole, lines, incomplete, upto) ==
    /\ lines \in Seq(Line)
    /\ \A k \in 1 .. Len(lines) : IsLine(whole, lines, k)
    /\ \A k \in 1 .. Len(lines) - 1 : Ended(whole, lines, k, upto)
    /\ incomplete => Len(lines) > 0 /\ lines[Len(lines)].range.end = upto
    /\ ~incomplete => /\ BeginOf(lines, Len(lines) + 1) = upto
                      /\ Len(lines) > 0 => Ended(whole, lines, Len(lines), upto)

LEMMA CountNewlines ==
    ASSUME NEW whole, NEW b \in Nat
    PROVE  /\ IsFiniteSet(Newlines(whole, b)) /\ Cardinality(Newlines(whole, b)) \in Nat
           /\ Cardinality(Newlines(whole, 0)) = 0
<1>1. IsFiniteSet(0 .. b - 1)
  BY FS_Interval
<1>2. Newlines(whole, b) \subseteq 0 .. b - 1
  BY DEF Newlines
<1>3. IsFiniteSet(Newlines(whole, b))
  BY <1>1, <1>2, FS_Subset
<1>4. Cardinality(Newlines(whole, b)) \in Nat
  BY <1>3, FS_CardinalityType
<1>5. Newlines(whole, 0) = {}
  BY DEF Newlines
<1> QED
  BY <1>3, <1>4, <1>5, FS_EmptySet

LEMMA CountOnLine ==
    ASSUME NEW whole, NEW b \in Nat, NEW e \in Nat, b <= e, NoNewline(whole, b, e)
    PROVE  /\ Newlines(whole, e) = Newlines(whole, b)
           /\ whole[e + 1] = Newline =>
                 Cardinality(Newlines(whole, e + 1)) = Cardinality(Newlines(whole, b)) + 1
<1>1. Newlines(whole, e) = Newlines(whole, b)
  BY DEF Newlines, NoNewline
<1>2. ASSUME whole[e + 1] = Newline
      PROVE  Newlines(whole, e + 1) = Newlines(whole, e) \cup {e}
  BY <1>2 DEF Newlines
<1>3. e \notin Newlines(whole, e)
  BY DEF Newlines
<1>4. Cardinality(Newlines(whole, e) \cup {e}) = Cardinality(Newlines(whole, e)) + 1
  BY <1>3, CountNewlines, FS_AddElement
<1> QED
  BY <1>1, <1>2, <1>4

LEMMA LineFacts ==
    ASSUME NEW lines \in Seq(Line), NEW k \in 1 .. Len(lines)
    PROVE  /\ lines[k] \in Line /\ lines[k].number \in Nat /\ lines[k].range \in DataRange
           /\ lines[k].range.begin \in Nat /\ lines[k].range.end \in Nat
<1>1. lines[k] \in Line
  BY ElementOfSeq
<1>2. lines[k].number \in Nat /\ lines[k].range \in DataRange
  BY <1>1 DEF Line
<1> QED
  BY <1>1, <1>2 DEF DataRange

\* How many newlines there are.
LEMMA CountLines ==
    ASSUME NEW whole, NEW lines, NEW incomplete \in BOOLEAN, NEW upto \in Nat,
           AreLines(whole, lines, incomplete, upto)
    PROVE  Len(lines) = Cardinality(Newlines(whole, upto)) + IF incomplete THEN 1 ELSE 0
<1>1. lines \in Seq(Line)
  BY DEF AreLines
<1>2. PICK n \in Nat : n = Len(lines)
  BY <1>1, LenProperties
<1>3. CASE n = 0
  <2>1. ~incomplete /\ BeginOf(lines, 1) = upto
    BY <1>2, <1>3 DEF AreLines
  <2>2. upto = 0
    BY <2>1 DEF BeginOf
  <2> QED
    BY <1>2, <1>3, <2>1, <2>2, CountNewlines
<1>4. CASE n > 0
  <2>1. n \in 1 .. Len(lines)
    BY <1>2, <1>4
  <2>2. PICK b \in Nat, e \in Nat : b = lines[n].range.begin /\ e = lines[n].range.end
    BY <1>1, <2>1, LineFacts
  <2>3. /\ BeginOf(lines, n) = b /\ b <= e
        /\ NoNewline(whole, b, e) /\ Cardinality(Newlines(whole, b)) = n - 1
    BY <1>2, <2>1, <2>2 DEF AreLines, IsLine
  <2>4. b \in Nat /\ e \in Nat
    BY <2>2
  <2>5. CASE incomplete
    <3>1. e = upto
      BY <1>2, <2>2, <2>5 DEF AreLines
    <3>2. Cardinality(Newlines(whole, upto)) = n - 1
      BY <2>2, <2>3, <2>4, <3>1, CountOnLine
    <3> QED
      BY <1>2, <1>4, <2>5, <3>2
  <2>6. CASE ~incomplete
    <3>1. BeginOf(lines, n + 1) = upto /\ whole[e + 1] = Newline
      BY <1>2, <1>4, <2>2, <2>6 DEF AreLines, Ended
    <3>2. upto = e + 1
      BY <1>4, <2>2, <3>1 DEF BeginOf
    <3>3. Cardinality(Newlines(whole, e + 1)) = Cardinality(Newlines(whole, b)) + 1
      BY <2>2, <2>3, <2>4, <3>1, CountOnLine
    <3> QED
      BY <1>2, <1>4, <2>3, <2>6, <3>2, <3>3
  <2> QED
    BY <2>5, <2>6
<1> QED
  BY <1>3, <1>4

-----------------------------------------------------------------------------
(***************************************************************************)
(* An iteration of FindDataLines: a line that begins at b, or has begun    *)
(* before it, has no newline up to e.                                      *)
(***************************************************************************)
Goes(whole, lines, e) ==
    /\ AreLines(whole, lines, TRUE, e)
    /\ whole[e + 1] = Newline => AreLines(whole, lines, FALSE, e + 1)

\* The lines there were stay what they are, and one whose end is e comes last.
LEMMA LastLine ==
    ASSUME NEW whole, NEW lines \in Seq(Line), NEW n \in Nat, Len(lines) = n, n > 0,
           NEW e \in Nat,
           \A k \in 1 .. n : IsLine(whole, lines, k),
           \A k \in 1 .. n - 1 : Ended(whole, lines, k, e),
           lines[n].range.end = e
    PROVE  Goes(whole, lines, e)
<1>1. AreLines(whole, lines, TRUE, e)
  BY DEF AreLines
<1>2. ASSUME whole[e + 1] = Newline
      PROVE  AreLines(whole, lines, FALSE, e + 1)
  <2>1. Ended(whole, lines, n, e + 1)
    BY <1>2 DEF Ended
  <2>2. BeginOf(lines, n + 1) = e + 1
    BY DEF BeginOf
  <2>3. ASSUME NEW k \in 1 .. n - 1
        PROVE  Ended(whole, lines, k, e + 1)
    <3>1. lines[k].range.end \in Nat
      BY LineFacts
    <3> QED
      BY <3>1 DEF Ended
  <2> QED
    BY <2>1, <2>2, <2>3 DEF AreLines
<1> QED
  BY <1>1, <1>2 DEF Goes

LEMMA LineAppended ==
    ASSUME NEW whole, NEW lines, NEW b \in Nat, NEW e \in Nat, b <= e,
           AreLines(whole, lines, FALSE, b), NoNewline(whole, b, e)
    PROVE  Goes(whole, Append(lines, [number |-> Len(lines) + 1, range |-> NewRange(b, e)]), e)
<1>1. lines \in Seq(Line) /\ BeginOf(lines, Len(lines) + 1) = b
  BY DEF AreLines
<1>2. PICK n \in Nat : n = Len(lines)
  BY <1>1, LenProperties
<1>3. PICK line : line = [number |-> Len(lines) + 1, range |-> NewRange(b, e)]
  OBVIOUS
<1>4. line \in Line /\ line.number = n + 1 /\ line.range.begin = b /\ line.range.end = e
  BY <1>2, <1>3 DEF Line, NewRange, DataRange
<1>5. PICK new : new = Append(lines, line)
  OBVIOUS
<1>6. /\ new \in Seq(Line) /\ Len(new) = n + 1 /\ new[n + 1] = line
      /\ \A k \in 1 .. n : new[k] = lines[k]
  BY <1>1, <1>2, <1>4, <1>5, AppendProperties
<1>7. ASSUME NEW k \in 1 .. n + 1
      PROVE  BeginOf(new, k) = BeginOf(lines, k)
  BY <1>2, <1>6 DEF BeginOf
<1>8. ASSUME NEW k \in 1 .. n
      PROVE  IsLine(whole, new, k) /\ Ended(whole, new, k, e)
  <2>1. IsLine(whole, new, k)
    BY <1>2, <1>6, <1>7 DEF AreLines, IsLine
  <2>2. Ended(whole, lines, k, b)
    BY <1>2 DEF AreLines
  <2>3. lines[k].range.end \in Nat
    BY <1>1, <1>2, LineFacts
  <2> QED
    BY <1>6, <2>1, <2>2, <2>3 DEF Ended
<1>9. Cardinality(Newlines(whole, b)) = n
  <2>1. Len(lines) = Cardinality(Newlines(whole, b)) + IF FALSE THEN 1 ELSE 0
    BY CountLines
  <2>2. Cardinality(Newlines(whole, b)) \in Nat
    BY CountNewlines
  <2> QED
    BY <1>2, <2>1, <2>2
<1>10. IsLine(whole, new, n + 1)
  <2>1. n + 1 \in 1 .. n + 1 /\ (n + 1) - 1 = n
    OBVIOUS
  <2>2. BeginOf(new, n + 1) = b
    BY <1>1, <1>2, <1>7, <2>1
  <2> QED
    BY <1>4, <1>6, <1>9, <2>1, <2>2 DEF IsLine
<1>11. Goes(whole, new, e)
  <2>1. PICK m \in Nat : m = n + 1
    OBVIOUS
  <2>2. Len(new) = m /\ m > 0 /\ new[m].range.end = e
    BY <1>4, <1>6, <2>1
  <2>3. \A k \in 1 .. m : IsLine(whole, new, k)
    BY <1>8, <1>10, <2>1
  <2>4. \A k \in 1 .. m - 1 : Ended(whole, new, k, e)
    BY <1>8, <2>1
  <2> QED
    BY <1>6, <2>2, <2>3, <2>4, LastLine
<1> QED
  BY <1>3, <1>5, <1>11

LEMMA LineExtended ==
    ASSUME NEW whole, NEW lines, NEW b \in Nat, NEW e \in Nat, b <= e,
           AreLines(whole, lines, TRUE, b), NoNewline(whole, b, e)
    PROVE  Goes(whole, [lines EXCEPT ![Len(lines)].range.end = e], e)
<1>1. lines \in Seq(Line) /\ Len(lines) > 0 /\ lines[Len(lines)].range.end = b
  BY DEF AreLines
<1>2. PICK n \in Nat : n = Len(lines)
  BY <1>1, LenProperties
<1>3. PICK new : new = [lines EXCEPT ![n].range.end = e]
  OBVIOUS
<1>4. lines = [k \in 1 .. n |-> lines[k]] /\ \A k \in 1 .. n : lines[k] \in Line
  BY <1>1, <1>2, LineFacts, LenProperties
<1>5. PICK line : line = [lines[n] EXCEPT !.range.end = e]
  OBVIOUS
<1>6. n \in 1 .. n
  BY <1>1, <1>2
<1>7. /\ line \in Line /\ line.number = lines[n].number
      /\ line.range.begin = lines[n].range.begin /\ line.range.end = e
  BY <1>4, <1>5, <1>6 DEF Line, DataRange
<1>8. new = [k \in 1 .. n |-> IF k = n THEN line ELSE lines[k]]
  BY <1>3, <1>4, <1>5, <1>6
<1>9. new \in Seq(Line) /\ Len(new) = n
  BY <1>4, <1>7, <1>8, SeqDef, LenProperties
<1>10. new[n] = line /\ \A k \in 1 .. n - 1 : new[k] = lines[k]
  BY <1>6, <1>8
<1>11. ASSUME NEW k \in 1 .. n
       PROVE  BeginOf(new, k) = BeginOf(lines, k)
  BY <1>10 DEF BeginOf
<1>12. ASSUME NEW k \in 1 .. n - 1
       PROVE  IsLine(whole, new, k) /\ Ended(whole, new, k, e)
  <2>1. IsLine(whole, new, k)
    BY <1>2, <1>10, <1>11 DEF AreLines, IsLine
  <2>2. Ended(whole, lines, k, b)
    BY <1>2 DEF AreLines
  <2>3. lines[k].range.end \in Nat
    BY <1>1, <1>2, LineFacts
  <2> QED
    BY <1>10, <2>1, <2>2, <2>3 DEF Ended
<1>13. IsLine(whole, new, n)
  <2>1. PICK begin \in Nat : begin = lines[n].range.begin
    BY <1>1, <1>2, <1>6, LineFacts
  <2>2. /\ lines[n].number = n /\ BeginOf(lines, n) = begin /\ begin <= b
        /\ NoNewline(whole, begin, b) /\ Cardinality(Newlines(whole, begin)) = n - 1
    BY <1>1, <1>2, <1>6, <2>1 DEF AreLines, IsLine
  <2>3. NoNewline(whole, begin, e)
    BY <2>2 DEF NoNewline
  <2>4. BeginOf(new, n) = begin
    BY <1>6, <1>11, <2>2
  <2> QED
    BY <1>7, <1>10, <2>1, <2>2, <2>3, <2>4 DEF IsLine
<1>14. Goes(whole, new, e)
  <2>1. \A k \in 1 .. n : IsLine(whole, new, k)
    BY <1>12, <1>13
  <2> QED
    BY <1>1, <1>2, <1>7, <1>9, <1>10, <1>12, <2>1, LastLine
<1> QED
  BY <1>2, <1>3, <1>14

LEMMA FindIs ==
    ASSUME NEW whole, NEW b \in Nat, NEW last \in Nat, b <= last
    PROVE  \E e \in Nat :
              /\ e = Find(whole, NewRange(b, last), Newline) /\ b <= e /\ e <= last
              /\ NoNewline(whole, b, e)
              /\ e < last => whole[e + 1] = Newline
<1> DEFINE S == {l \in b .. last - 1 : whole[l + 1] = Newline}
<1>1. S \in SUBSET Nat /\ \A y \in S : y < last
  OBVIOUS
<1>2. PICK e \in Nat : /\ e = Min({last} \cup S) /\ e <= last
                       /\ e < last => e \in S
                       /\ \A y \in S : e <= y
                       /\ S # {} => e < last
  BY <1>1, SmallestUpTo
<1>3. e = Find(whole, NewRange(b, last), Newline)
  BY <1>2 DEF Find, NewRange
<1>4. NoNewline(whole, b, e)
  BY <1>2 DEF NoNewline
<1>5. b <= e
  BY <1>2
<1> QED
  BY <1>2, <1>3, <1>4, <1>5

LineMap(lines, incomplete) == [lines |-> lines, incomplete |-> incomplete]

LEMMA AddPartGoes ==
    ASSUME NEW whole, NEW old, NEW flag \in BOOLEAN,
           NEW b \in Nat, NEW e \in Nat, NEW from \in Nat, NEW last \in Nat,
           b <= e, e <= last, NoNewline(whole, b, e), AreLines(whole, old, flag, b)
    PROVE  \E lines : \E incomplete \in BOOLEAN :
              /\ AddPart(LineMap(old, flag), NewRange(b, e), NewRange(from, last))
                    = LineMap(lines, incomplete)
              /\ Goes(whole, lines, e)
              /\ e < last => ~incomplete
<1>0. PICK map : map = [lines |-> old, incomplete |-> flag]
  OBVIOUS
<1>1. CASE flag
  <2>1. AreLines(whole, old, TRUE, b)
    BY <1>1
  <2>2. Len(old) > 0
    BY <2>1 DEF AreLines
  <2>3. PICK lines : lines = [old EXCEPT ![Len(old)].range.end = e]
    OBVIOUS
  <2>4. Goes(whole, lines, e)
    BY <2>1, <2>3, LineExtended
  <2>5. PICK incomplete \in BOOLEAN : incomplete <=> (e >= last)
    <3>1. CASE e >= last
      BY <3>1
    <3>2. CASE ~(e >= last)
      BY <3>2
    <3> QED
      BY <3>1, <3>2
  <2>6. AddPart(map, NewRange(b, e), NewRange(from, last))
           = [lines |-> lines, incomplete |-> e >= last]
    BY <1>0, <1>1, <2>2, <2>3 DEF AddPart, NewRange
  <2>7. e < last => ~incomplete
    BY <2>5
  <2> QED
    BY <1>0, <2>4, <2>5, <2>6, <2>7 DEF LineMap
<1>2. CASE ~flag
  <2>1. AreLines(whole, old, FALSE, b)
    BY <1>2
  <2>2. PICK lines : lines = Append(old, [number |-> Len(old) + 1,
                                          range |-> NewRange(b, e)])
    OBVIOUS
  <2>3. Goes(whole, lines, e)
    BY <2>1, <2>2, LineAppended
  <2>4. map.lines = old /\ map.incomplete = FALSE
    BY <1>0, <1>2
  <2>5. AddPart(map, NewRange(b, e), NewRange(from, last)) = [map EXCEPT !.lines = lines]
    BY <2>2, <2>4 DEF AddPart
  <2>6. [map EXCEPT !.lines = lines] = [lines |-> lines, incomplete |-> flag]
    BY <1>0
  <2> QED
    BY <1>0, <1>2, <2>3, <2>5, <2>6 DEF LineMap
<1> QED
  BY <1>1, <1>2

\* Where the iterations of a piece stand.
LineLoopState(map, begin, end) == [map |-> map, begin |-> begin, end |-> end]

UpToLine(whole, from, last, lines, flag, begin, end) ==
    /\ begin <= last
    /\ AreLines(whole, lines, flag, begin)
    /\ begin = from \/ (end + 1 = begin /\ ~flag)

UpToLast(whole, last, lines, begin, end) ==
    begin = last + 1 /\ end = last /\ AreLines(whole, lines, TRUE, last)

LineLoopInv(whole, from, last, lines, flag, begin, end) ==
    /\ from <= begin
    /\ UpToLine(whole, from, last, lines, flag, begin, end)
          \/ UpToLast(whole, last, lines, begin, end)

IsTurn(whole, from, last, b, next) ==
    \E lines : \E flag \in BOOLEAN : \E e \in Nat :
        /\ next = LineLoopState(LineMap(lines, flag), e + 1, e)
        /\ LineLoopInv(whole, from, last, lines, flag, e + 1, e)
        /\ e >= b

LEMMA LineLoopStep ==
    ASSUME NEW whole, NEW from \in Nat, NEW last \in Nat,
           NEW old, NEW was \in BOOLEAN, NEW b \in Nat, NEW at \in Nat,
           LineLoopInv(whole, from, last, old, was, b, at), b < last
    PROVE  IsTurn(whole, from, last, b,
                  NextLine(LineLoopState(LineMap(old, was), b, at), whole, NewRange(from, last)))
<1>1. from <= b /\ AreLines(whole, old, was, b)
  <2>1. ~UpToLast(whole, last, old, b, at)
    <3>1. ~(b = last + 1)
      OBVIOUS
    <3> QED
      BY <3>1, Zenon DEF UpToLast
  <2>2. from <= b /\ UpToLine(whole, from, last, old, was, b, at)
    BY <2>1 DEF LineLoopInv
  <2> QED
    BY <2>2, Zenon DEF UpToLine
<1>2. PICK e \in Nat : /\ e = Find(whole, NewRange(b, last), Newline) /\ b <= e /\ e <= last
                       /\ NoNewline(whole, b, e)
                       /\ e < last => whole[e + 1] = Newline
  <2>1. b <= last
    OBVIOUS
  <2> QED
    BY <2>1, FindIs
<1>3. PICK lines : \E flag \in BOOLEAN :
              /\ AddPart(LineMap(old, was), NewRange(b, e), NewRange(from, last))
                    = LineMap(lines, flag)
              /\ Goes(whole, lines, e)
              /\ e < last => ~flag
  BY <1>1, <1>2, AddPartGoes
<1>4. PICK flag \in BOOLEAN :
              /\ AddPart(LineMap(old, was), NewRange(b, e), NewRange(from, last))
                    = LineMap(lines, flag)
              /\ Goes(whole, lines, e)
              /\ e < last => ~flag
  BY <1>3
<1>5. PICK map : map = LineMap(old, was)
  OBVIOUS
<1>6. PICK loop : loop = LineLoopState(map, b, at)
  OBVIOUS
<1>7. loop.map = map /\ loop.begin = b
  BY <1>6 DEF LineLoopState
<1>8. NextLine(loop, whole, NewRange(from, last))
         = [map   |-> AddPart(map, NewRange(b, e), NewRange(from, last)),
            begin |-> e + 1, end |-> e]
  BY <1>2, <1>7 DEF NextLine, NewRange
<1>9. NextLine(LineLoopState(LineMap(old, was), b, at), whole, NewRange(from, last))
         = LineLoopState(LineMap(lines, flag), e + 1, e)
  BY <1>4, <1>5, <1>6, <1>8 DEF LineLoopState
<1>10. LineLoopInv(whole, from, last, lines, flag, e + 1, e)
  <2>1. CASE e < last
    <3>1. AreLines(whole, lines, FALSE, e + 1) /\ flag = FALSE
      BY <1>2, <1>4, <2>1 DEF Goes
    <3>2. e + 1 <= last /\ from <= e + 1
      BY <1>1, <1>2, <2>1
    <3>3. UpToLine(whole, from, last, lines, flag, e + 1, e)
      BY <3>1, <3>2, Zenon DEF UpToLine
    <3> QED
      BY <3>2, <3>3, Zenon DEF LineLoopInv
  <2>2. CASE e = last
    <3>1. AreLines(whole, lines, TRUE, last)
      BY <1>4, <2>2 DEF Goes
    <3>2. from <= e + 1
      BY <1>1, <1>2
    <3>3. UpToLast(whole, last, lines, e + 1, e)
      BY <2>2, <3>1, Zenon DEF UpToLast
    <3> QED
      BY <3>2, <3>3, Zenon DEF LineLoopInv
  <2> QED
    BY <1>2, <2>1, <2>2
<1> QED
  BY <1>2, <1>9, <1>10, Zenon DEF IsTurn

-----------------------------------------------------------------------------
(***************************************************************************)
(* The iterations.                                                         *)
(***************************************************************************)
LineContext(whole, piece) == [text |-> whole, range |-> piece]

LineStep(context, loop, n) == NextLine(loop, context.text, context.range)
LineLoop == INSTANCE SequenceFolds WITH Op <- LineStep

Turns(count) == [n \in 1 .. count |-> n]

LEMMA LineLoopIsFold ==
    \A whole, piece, base, seq :
        FoldLeft(LAMBDA loop, n : NextLine(loop, whole, piece), base, seq)
           = LineLoop!Folded(LineContext(whole, piece), base, seq)
<1> TAKE whole, piece, base, seq
<1>1. LineContext(whole, piece).text = whole /\ LineContext(whole, piece).range = piece
  BY DEF LineContext
<1> QED
  BY <1>1 DEF LineLoop!Folded, LineStep, FoldLeft, MapThenFoldSet, LineLoop!FoldLeft,
              LineLoop!MapThenFoldSet, Max, LineLoop!Max

AreTurns(whole, piece, context, base, seq) ==
    /\ LineLoop!FoldedTo(context, base, seq, 0) = base
    /\ \A n \in 0 .. Len(seq) - 1 :
          LineLoop!FoldedTo(context, base, seq, n + 1) =
             NextLine(LineLoop!FoldedTo(context, base, seq, n), whole, piece)
    /\ LineLoop!FoldedTo(context, base, seq, Len(seq)) = LineLoop!Folded(context, base, seq)

LEMMA LineLoopIterates ==
    \A whole, piece, context, base : context = LineContext(whole, piece) =>
        \A seq \in Seq(Nat) : AreTurns(whole, piece, context, base, seq)
<1> TAKE whole, piece, context, base
<1>0. HAVE context = LineContext(whole, piece)
<1> TAKE seq \in Seq(Nat)
<1>1. LineLoop!FoldedTo(context, base, seq, 0) = base
  BY LineLoop!FoldedNone
<1>2. context.text = whole /\ context.range = piece
  BY <1>0 DEF LineContext
<1>3. \A n \in 0 .. Len(seq) - 1 :
         LineLoop!FoldedTo(context, base, seq, n + 1) =
            NextLine(LineLoop!FoldedTo(context, base, seq, n), whole, piece)
  BY <1>2, LineLoop!FoldedNext DEF LineStep
<1>4. LineLoop!FoldedTo(context, base, seq, Len(seq)) = LineLoop!Folded(context, base, seq)
  BY LineLoop!FoldedAll
<1> QED
  BY <1>1, <1>3, <1>4 DEF AreTurns

\* The iterations as a function of how many there were.
IsLineRun(f, whole, piece, base, count) ==
    /\ f[0] = base
    /\ \A n \in Nat : n < count => f[n + 1] = NextLine(f[n], whole, piece)
    /\ f[count] = FoldLeft(LAMBDA loop, n : NextLine(loop, whole, piece), base, Turns(count))

LEMMA LineLoopRuns ==
    ASSUME NEW whole, NEW piece, NEW base, NEW count \in Nat
    PROVE  \E f : IsLineRun(f, whole, piece, base, count)
<1>1. PICK turns : turns = Turns(count)
  OBVIOUS
<1>2. turns \in Seq(Nat) /\ Len(turns) = count
  BY <1>1, SeqDef, LenProperties DEF Turns
<1>3. PICK context : context = LineContext(whole, piece)
  OBVIOUS
<1>4. PICK f : f = [n \in Nat |-> LineLoop!FoldedTo(context, base, turns, n)]
  OBVIOUS
<1>5. \A n \in Nat : f[n] = LineLoop!FoldedTo(context, base, turns, n)
  BY <1>4
<1>6. /\ LineLoop!FoldedTo(context, base, turns, 0) = base
      /\ \A n \in 0 .. Len(turns) - 1 :
            LineLoop!FoldedTo(context, base, turns, n + 1) =
               NextLine(LineLoop!FoldedTo(context, base, turns, n), whole, piece)
      /\ LineLoop!FoldedTo(context, base, turns, Len(turns))
            = LineLoop!Folded(context, base, turns)
  <2>1. AreTurns(whole, piece, context, base, turns)
    BY ONLY <1>2, <1>3, LineLoopIterates, Zenon
  <2> QED
    BY ONLY <2>1, Zenon DEF AreTurns
<1>7. f[0] = base
  BY <1>5, <1>6
<1>8. ASSUME NEW n \in Nat, n < count
      PROVE  f[n + 1] = NextLine(f[n], whole, piece)
  <2>1. n \in 0 .. Len(turns) - 1
    BY <1>2, <1>8
  <2>2. n + 1 \in Nat
    OBVIOUS
  <2> QED
    BY <1>5, <1>6, <2>1, <2>2
<1>9. f[count] = LineLoop!Folded(context, base, turns)
  BY <1>2, <1>5, <1>6
<1>10. f[count] = FoldLeft(LAMBDA loop, n : NextLine(loop, whole, piece), base, turns)
  BY <1>3, <1>9, LineLoopIsFold
<1> QED
  BY <1>1, <1>7, <1>8, <1>10 DEF IsLineRun

LineLoopReached(whole, from, last, n, loop) ==
    \E lines : \E flag \in BOOLEAN : \E b \in Nat : \E e \in Nat :
        /\ loop = LineLoopState(LineMap(lines, flag), b, e)
        /\ LineLoopInv(whole, from, last, lines, flag, b, e)
        /\ b >= from + n \/ b >= last

LEMMA LineLoopOver ==
    ASSUME NEW whole, NEW from \in Nat, NEW last \in Nat, NEW map, NEW b \in Nat, NEW e,
           b >= last
    PROVE  NextLine(LineLoopState(map, b, e), whole, NewRange(from, last))
              = LineLoopState(map, b, e)
<1>1. PICK loop : loop = LineLoopState(map, b, e)
  OBVIOUS
<1>2. loop.begin = b
  BY <1>1 DEF LineLoopState
<1> QED
  BY <1>1, <1>2 DEF NextLine, NewRange

LEMMA LineLoopOnTurn ==
    ASSUME NEW whole, NEW from \in Nat, NEW last \in Nat, NEW n \in Nat, NEW loop,
           LineLoopReached(whole, from, last, n, loop)
    PROVE  LineLoopReached(whole, from, last, n + 1,
                           NextLine(loop, whole, NewRange(from, last)))
<1>1. PICK old : \E flag \in BOOLEAN : \E b \in Nat : \E e \in Nat :
        /\ loop = LineLoopState(LineMap(old, flag), b, e)
        /\ LineLoopInv(whole, from, last, old, flag, b, e)
        /\ b >= from + n \/ b >= last
  BY Zenon DEF LineLoopReached
<1>2. PICK was \in BOOLEAN, b \in Nat, e \in Nat :
        /\ loop = LineLoopState(LineMap(old, was), b, e)
        /\ LineLoopInv(whole, from, last, old, was, b, e)
        /\ b >= from + n \/ b >= last
  BY <1>1, Zenon
<1>3. CASE b >= last
  <2>1. NextLine(loop, whole, NewRange(from, last)) = loop
    BY <1>2, <1>3, LineLoopOver
  <2> QED
    BY <1>2, <1>3, <2>1, Zenon DEF LineLoopReached
<1>4. CASE ~(b >= last)
  <2>1. b < last /\ b >= from + n
    BY <1>2, <1>4
  <2>2. IsTurn(whole, from, last, b,
               NextLine(LineLoopState(LineMap(old, was), b, e), whole, NewRange(from, last)))
    BY <1>2, <2>1, LineLoopStep
  <2>i. PICK lines : \E flag \in BOOLEAN : \E at \in Nat :
              /\ NextLine(LineLoopState(LineMap(old, was), b, e), whole, NewRange(from, last))
                    = LineLoopState(LineMap(lines, flag), at + 1, at)
              /\ LineLoopInv(whole, from, last, lines, flag, at + 1, at)
              /\ at >= b
    BY <2>2, Zenon DEF IsTurn
  <2>3. PICK flag \in BOOLEAN, at \in Nat :
              /\ NextLine(LineLoopState(LineMap(old, was), b, e), whole, NewRange(from, last))
                    = LineLoopState(LineMap(lines, flag), at + 1, at)
              /\ LineLoopInv(whole, from, last, lines, flag, at + 1, at)
              /\ at >= b
    BY <2>i, Zenon
  <2>4. at + 1 \in Nat /\ at + 1 >= from + (n + 1)
    BY <2>1, <2>3
  <2>5. NextLine(loop, whole, NewRange(from, last))
           = LineLoopState(LineMap(lines, flag), at + 1, at)
    BY <1>2, <2>3, Zenon
  <2> QED
    BY <2>3, <2>4, <2>5, Zenon DEF LineLoopReached
<1> QED
  BY <1>3, <1>4

HasLines(map, whole, upto) ==
    \E lines : \E flag \in BOOLEAN :
        map = LineMap(lines, flag) /\ AreLines(whole, lines, flag, upto)

\* Whatever the pieces are, FindDataLines has the lines of the text up to their end.
LEMMA LinesFound ==
    ASSUME NEW whole, NEW lines, NEW flag \in BOOLEAN, NEW from \in Nat, NEW last \in Nat,
           from < last, AreLines(whole, lines, flag, from)
    PROVE  HasLines(FindDataLines(LineMap(lines, flag), whole, NewRange(from, last)),
                    whole, last)
<1>1. PICK piece : piece = NewRange(from, last)
  OBVIOUS
<1>2. PICK count \in Nat : count = last - from /\ Length(piece) = count
  BY <1>1 DEF NewRange, Length, IsValid
<1>3. PICK map : map = LineMap(lines, flag)
  OBVIOUS
<1>i. PICK f : IsLineRun(f, whole, piece, LineLoopState(map, from, from), count)
  BY LineLoopRuns
<1>4. /\ f[0] = LineLoopState(map, from, from)
      /\ \A n \in Nat : n < count => f[n + 1] = NextLine(f[n], whole, piece)
  BY <1>i DEF IsLineRun
<1>5. f[count] = ScanLines(map, whole, piece)
  BY <1>i, <1>1, <1>2 DEF IsLineRun, ScanLines, LineLoopState, Turns, NewRange
<1>6. PICK T : T = {n \in Nat : n <= count => LineLoopReached(whole, from, last, n, f[n])}
  OBVIOUS
<1>7. 0 \in T
  <2>1. from <= from /\ from <= last /\ from >= from + 0
    OBVIOUS
  <2>2. UpToLine(whole, from, last, lines, flag, from, from)
    BY <2>1, Zenon DEF UpToLine
  <2>3. LineLoopInv(whole, from, last, lines, flag, from, from)
    BY <2>1, <2>2, Zenon DEF LineLoopInv
  <2>4. LineLoopReached(whole, from, last, 0, f[0])
    BY <1>3, <1>4, <2>1, <2>3, Zenon DEF LineLoopReached
  <2> QED
    BY <1>6, <2>4
<1>8. ASSUME NEW n \in Nat, n \in T
      PROVE  n + 1 \in T
  <2>1. ASSUME n + 1 <= count
        PROVE  LineLoopReached(whole, from, last, n + 1, f[n + 1])
    <3>1. n < count /\ n <= count
      BY <2>1
    <3>2. LineLoopReached(whole, from, last, n, f[n])
      BY <1>6, <1>8, <3>1
    <3>3. f[n + 1] = NextLine(f[n], whole, piece)
      BY <1>4, <3>1
    <3> QED
      BY <1>1, <3>2, <3>3, LineLoopOnTurn, Zenon
  <2> QED
    BY <1>6, <2>1
<1>9. count \in T
  BY <1>7, <1>8, LineLoop!NatSetInduction
<1>10. LineLoopReached(whole, from, last, count, f[count])
  BY <1>6, <1>9
<1>11. PICK new : \E now \in BOOLEAN : \E b \in Nat : \E e \in Nat :
        /\ f[count] = LineLoopState(LineMap(new, now), b, e)
        /\ LineLoopInv(whole, from, last, new, now, b, e)
        /\ b >= from + count \/ b >= last
  BY <1>10, Zenon DEF LineLoopReached
<1>12. PICK now \in BOOLEAN, b \in Nat, e \in Nat :
        /\ f[count] = LineLoopState(LineMap(new, now), b, e)
        /\ LineLoopInv(whole, from, last, new, now, b, e)
        /\ b >= from + count \/ b >= last
  BY <1>11, Zenon
<1>13. b >= last
  BY <1>2, <1>12
<1>14. PICK loop : loop = f[count]
  OBVIOUS
<1>15. loop.map = LineMap(new, now) /\ loop.end = e
  BY <1>12, <1>14 DEF LineLoopState
<1>16. FindDataLines(map, whole, piece)
          = [LineMap(new, now) EXCEPT !.incomplete = (e = last)]
  BY <1>1, <1>5, <1>14, <1>15 DEF FindDataLines, NewRange
<1>17. [LineMap(new, now) EXCEPT !.incomplete = (e = last)] = LineMap(new, e = last)
  BY DEF LineMap
<1>18. PICK done \in BOOLEAN : done = (e = last)
  OBVIOUS
<1>19. AreLines(whole, new, done, last)
  <2>1. CASE UpToLine(whole, from, last, new, now, b, e)
    <3>1. b <= last /\ AreLines(whole, new, now, b) /\ (b = from \/ (e + 1 = b /\ ~now))
      BY <2>1, Zenon DEF UpToLine
    <3>2. b = last
      BY <1>13, <3>1
    <3>3. e + 1 = last /\ ~now
      BY <3>1, <3>2
    <3>4. e # last
      BY <3>3
    <3>5. now = FALSE /\ done = FALSE
      BY <1>18, <3>3, <3>4
    <3> QED
      BY <3>1, <3>2, <3>5, Zenon
  <2>2. CASE UpToLast(whole, last, new, b, e)
    <3>1. e = last /\ AreLines(whole, new, TRUE, last)
      BY <2>2, Zenon DEF UpToLast
    <3> QED
      BY <1>18, <3>1, Zenon
  <2> QED
    BY <1>12, <2>1, <2>2, Zenon DEF LineLoopInv
<1> QED
  BY <1>1, <1>3, <1>16, <1>17, <1>18, <1>19, Zenon DEF HasLines

-----------------------------------------------------------------------------
(***************************************************************************)
(* The lines that are noted.                                               *)
(***************************************************************************)
LinesInv ==
    /\ line_map = LineMap(line_map.lines, line_map.incomplete)
    /\ line_map.incomplete \in BOOLEAN
    /\ AreLines(text, line_map.lines, line_map.incomplete, range.end)

LEMMA LinesInitially == Init => LinesInv
<1> SUFFICES ASSUME Init
             PROVE  LinesInv
  OBVIOUS
<1>1. line_map = LineMap(<<>>, FALSE) /\ range.end = 0
  BY DEF Init, EmptyLineMap, LineMap, InvalidRange, NewRange
<1>2. line_map.lines = <<>> /\ line_map.incomplete = FALSE
  BY <1>1 DEF LineMap
<1>3. Len(<<>>) = 0 /\ <<>> \in Seq(Line)
  BY EmptySeq
<1>4. BeginOf(<<>>, Len(<<>>) + 1) = 0
  BY <1>3 DEF BeginOf
<1>5. AreLines(text, <<>>, FALSE, 0)
  BY <1>3, <1>4 DEF AreLines
<1> QED
  BY <1>1, <1>2, <1>5, Zenon DEF LinesInv

LEMMA LinesOnArrival == ScanInv /\ LinesInv /\ Arrive => LinesInv'
<1> SUFFICES ASSUME ScanInv, LinesInv, Arrive
             PROVE  LinesInv'
  OBVIOUS
<1>1. PICK end \in range.end + 1 .. Len(text) :
         /\ range' = NewRange(range.end, end)
         /\ line_map' = FindDataLines(line_map, text, NewRange(range.end, end))
  BY DEF Arrive
<1>2. text' = text /\ text \in Texts /\ range.end \in Nat /\ Len(text) \in Nat
  BY TextsAssumption, LenProperties DEF ScanInv, PlaceInv, DataRange, Arrive
<1>3. end \in Nat /\ range.end < end
  BY <1>2
<1>4. PICK lines, from : lines = line_map.lines /\ from = range.end
  OBVIOUS
<1>5. PICK flag \in BOOLEAN : flag = line_map.incomplete
  BY Zenon DEF LinesInv
<1>6. line_map = LineMap(lines, flag) /\ AreLines(text, lines, flag, from)
  BY <1>4, <1>5, Zenon DEF LinesInv
<1>7. from \in Nat /\ from < end
  BY <1>2, <1>3, <1>4
<1>i. HasLines(FindDataLines(LineMap(lines, flag), text, NewRange(from, end)), text, end)
  BY <1>3, <1>6, <1>7, LinesFound
<1>8. PICK new : \E now \in BOOLEAN :
         /\ FindDataLines(LineMap(lines, flag), text, NewRange(from, end))
               = LineMap(new, now)
         /\ AreLines(text, new, now, end)
  BY <1>i, Zenon DEF HasLines
<1>9. PICK now \in BOOLEAN :
         /\ FindDataLines(LineMap(lines, flag), text, NewRange(from, end))
               = LineMap(new, now)
         /\ AreLines(text, new, now, end)
  BY <1>8, Zenon
<1>10. line_map' = LineMap(new, now)
  BY <1>1, <1>4, <1>6, <1>9, Zenon
<1>11. LineMap(new, now).lines = new /\ LineMap(new, now).incomplete = now
  BY DEF LineMap
<1>12. range'.end = end
  BY <1>1 DEF NewRange
<1> QED
  BY <1>2, <1>9, <1>10, <1>11, <1>12, Zenon DEF LinesInv

LEMMA LinesOnStep == ScanInv /\ LinesInv /\ [Next]_vars => LinesInv'
<1> SUFFICES ASSUME ScanInv, LinesInv, [Next]_vars
             PROVE  LinesInv'
  OBVIOUS
<1>1. CASE Arrive
  BY <1>1, LinesOnArrival
<1>2. CASE ~Arrive
  <2>1. UNCHANGED <<text, range, line_map>>
    BY <1>2, Zenon DEF Next, CallScan, TakePart, NextScanner, vars
  <2> QED
    BY <2>1, Zenon DEF LinesInv
<1> QED
  BY <1>1, <1>2

\* The lines that are noted are lines of the text.
LEMMA LinesInvariance == Spec => []LinesInv
<1>1. Init => LinesInv
  BY LinesInitially
<1>2. ScanInv /\ LinesInv /\ [Next]_vars => LinesInv'
  BY LinesOnStep
<1> QED
  BY <1>1, <1>2, ScanInvariance, PTL DEF Spec

\* The lines are those of the text that has come so far, wherever it was cut: each
\* ends before a newline, or at the end of that text.
THEOREM LinesOfTheText == Spec => []LinesAreThoseOfTheText
<1>1. ScanInv /\ LinesInv => LinesAreThoseOfTheText
  <2> SUFFICES ASSUME ScanInv, LinesInv
               PROVE  LinesAreThoseOfTheText
    OBVIOUS
  <2>1. PICK lines : lines = line_map.lines
    OBVIOUS
  <2>2. PICK flag \in BOOLEAN : flag = line_map.incomplete
    BY Zenon DEF LinesInv
  <2>3. AreLines(text, lines, flag, range.end)
    BY <2>1, <2>2, Zenon DEF LinesInv
  <2>4. range.end \in Nat
    BY DEF ScanInv, PlaceInv, DataRange
  <2>5. PICK upto \in Nat : upto = range.end
    BY <2>4
  <2>6. lines \in Seq(Line) /\ AreLines(text, lines, flag, upto)
    BY <2>3, <2>5 DEF AreLines
  <2>7. PICK size \in Nat : size = Len(lines)
    BY <2>6, LenProperties
  <2>8. ASSUME NEW n \in 1 .. size
        PROVE  /\ lines[n].number = n
               /\ lines[n].range = NewRange(BeginOf(lines, n), lines[n].range.end)
               /\ lines[n].range.end \in Newlines(text, upto) \cup {upto}
               /\ \A l \in Newlines(text, upto) :
                     l < BeginOf(lines, n) \/ lines[n].range.end <= l
    <3>1. /\ lines[n].range \in DataRange
          /\ lines[n].range.begin \in Nat /\ lines[n].range.end \in Nat
      BY <2>6, <2>7, LineFacts
    <3>2. IsLine(text, lines, n)
      BY <2>6, <2>7 DEF AreLines
    <3>3. lines[n].range = NewRange(BeginOf(lines, n), lines[n].range.end)
      BY <3>1, <3>2 DEF IsLine, DataRange, NewRange
    <3>4. lines[n].range.end \in Newlines(text, upto) \cup {upto}
      <4>1. ASSUME Ended(text, lines, n, upto)
            PROVE  lines[n].range.end \in Newlines(text, upto)
        BY <3>1, <4>1 DEF Ended, Newlines
      <4>2. CASE n < size
        <5>1. n \in 1 .. Len(lines) - 1
          BY <2>7, <4>2
        <5> QED
          BY <2>6, <4>1, <5>1 DEF AreLines
      <4>3. CASE n = size
        <5>1. Len(lines) > 0 /\ n = Len(lines)
          BY <2>7, <4>3
        <5>2. CASE flag
          BY <2>6, <5>1, <5>2 DEF AreLines
        <5>3. CASE ~flag
          BY <2>6, <4>1, <5>1, <5>3 DEF AreLines
        <5> QED
          BY <5>2, <5>3
      <4> QED
        BY <4>2, <4>3
    <3>5. PICK b \in Nat, e \in Nat : b = BeginOf(lines, n) /\ e = lines[n].range.end
      BY <3>1, <3>2 DEF IsLine
    <3>6. NoNewline(text, b, e)
      BY <3>2, <3>5 DEF IsLine
    <3>7. \A l \in Newlines(text, upto) : l < b \/ e <= l
      BY <3>6 DEF NoNewline, Newlines
    <3> QED
      BY <3>2, <3>3, <3>4, <3>5, <3>7 DEF IsLine
  <2>9. Len(lines) = Cardinality(Newlines(text, upto)) + IF flag THEN 1 ELSE 0
    BY <2>6, CountLines
  <2>10. flag => Last(lines).range.end = upto
    BY <2>6 DEF AreLines, Last
  <2> QED
    BY <2>1, <2>2, <2>5, <2>7, <2>8, <2>9, <2>10
       DEF LinesAreThoseOfTheText, Newlines, BeginOf
<1> QED
  BY <1>1, ScanInvariance, LinesInvariance, PTL

\* The variables have the types they are declared with.
THEOREM TypeCorrect == Spec => []TypeOK
<1>1. ScanInv /\ LinesInv => TypeOK
  <2> SUFFICES ASSUME ScanInv, LinesInv
               PROVE  TypeOK
    OBVIOUS
  <2>1. line_map.lines \in Seq([number : Nat, range : DataRange])
    BY DEF LinesInv, AreLines, Line
  <2>2. line_map.incomplete \in BOOLEAN
    BY DEF LinesInv
  <2>3. text \in Texts /\ range \in DataRange /\ location \in Nat
    BY DEF ScanInv, PlaceInv
  <2>4. /\ since \in Nat /\ scanner.token_range \in DataRange
        /\ [type |-> scanner.type, literal |-> scanner.literal] \in Scanners
    BY DEF ScanInv, ScannerInv, HasRange, Wanted
  <2>5. result \in Results /\ tokens \in Seq([scanner : Scanners, begin : Nat, end : Nat])
    BY DEF ScanInv, ResultInv, Token
  <2> QED
    BY <2>1, <2>2, <2>3, <2>4, <2>5 DEF TypeOK
<1> QED
  BY <1>1, ScanInvariance, LinesInvariance, PTL

-----------------------------------------------------------------------------
(***************************************************************************)
(* The line of a location.                                                 *)
(***************************************************************************)

\* The lines are in order: there are fewer newlines in front of one than of a later one.
LEMMA InOrder ==
    ASSUME NEW whole, NEW lines \in Seq(Line), NEW n \in 1 .. Len(lines),
           NEW m \in 1 .. Len(lines), n < m,
           IsLine(whole, lines, n), IsLine(whole, lines, m)
    PROVE  lines[n].range.begin < lines[m].range.begin
<1>1. PICK b \in Nat, c \in Nat : b = lines[n].range.begin /\ c = lines[m].range.begin
  BY LineFacts
<1>2. Cardinality(Newlines(whole, b)) = n - 1 /\ Cardinality(Newlines(whole, c)) = m - 1
  BY <1>1 DEF IsLine
<1>3. SUFFICES ASSUME c <= b
               PROVE  FALSE
  BY <1>1
<1>4. Newlines(whole, c) \subseteq Newlines(whole, b)
  BY <1>3 DEF Newlines
<1>5. Cardinality(Newlines(whole, c)) <= Cardinality(Newlines(whole, b))
  BY <1>4, CountNewlines, FS_Subset
<1>6. n \in Nat /\ m \in Nat
  BY LenProperties
<1> QED
  BY <1>2, <1>5, <1>6

\* Every character but a newline is on a line.
OnLine(lines, k, l) ==
    k \in 1 .. Len(lines) /\ lines[k].range.begin <= l /\ l < lines[k].range.end

LEMMA SomeLine ==
    ASSUME NEW whole, NEW lines, NEW incomplete \in BOOLEAN, NEW upto \in Nat,
           AreLines(whole, lines, incomplete, upto),
           NEW l \in Nat, l < upto, whole[l + 1] # Newline
    PROVE  \E k \in Nat : OnLine(lines, k, l)
<1>1. lines \in Seq(Line)
  BY DEF AreLines
<1>2. PICK size \in Nat : size = Len(lines)
  BY <1>1, LenProperties
<1>3. \A k \in 1 .. size : lines[k].range.begin \in Nat /\ lines[k].range.end \in Nat
  BY <1>1, <1>2, LineFacts
<1>4. \A k \in 1 .. size : IsLine(whole, lines, k)
  BY <1>2 DEF AreLines
<1>5. size > 0 /\ lines[size].range.end >= l
  <2>1. CASE incomplete
    <3>1. size > 0 /\ lines[size].range.end = upto
      BY <1>2, <2>1 DEF AreLines
    <3> QED
      BY <3>1
  <2>2. CASE ~incomplete
    <3>1. BeginOf(lines, size + 1) = upto
      BY <1>2, <2>2 DEF AreLines
    <3>2. size # 0
      BY <3>1 DEF BeginOf
    <3>3. size \in 1 .. size /\ size + 1 # 1 /\ (size + 1) - 1 = size
      BY <3>2
    <3>4. lines[size].range.end + 1 = upto
      BY <3>1, <3>3 DEF BeginOf
    <3>5. lines[size].range.end \in Nat
      BY <1>3, <3>3
    <3> QED
      BY <3>2, <3>4, <3>5
  <2> QED
    BY <2>1, <2>2
<1>6. PICK S : S = {k \in 1 .. size : lines[k].range.end >= l}
  OBVIOUS
<1>7. S \in SUBSET Nat /\ S # {}
  BY <1>5, <1>6
<1>8. PICK k : k = Min(S)
  OBVIOUS
<1>9. k \in S /\ \A y \in S : k <= y
  BY <1>7, <1>8, SmallestOf
<1>10. k \in Nat /\ k \in 1 .. size /\ lines[k].range.end >= l
  BY <1>6, <1>9
<1>11. lines[k].range.begin <= l
  <2>1. lines[k].range.begin = BeginOf(lines, k)
    BY <1>4, <1>10 DEF IsLine
  <2>2. CASE k = 1
    BY <2>1, <2>2 DEF BeginOf
  <2>3. CASE k # 1
    <3>1. k - 1 \in 1 .. size /\ k - 1 < k
      BY <1>10, <2>3
    <3>2. k - 1 \notin S
      BY <1>9, <1>10, <3>1
    <3>3. lines[k - 1].range.end \in Nat /\ ~(lines[k - 1].range.end >= l)
      BY <1>3, <1>6, <3>1, <3>2
    <3>4. BeginOf(lines, k) = lines[k - 1].range.end + 1
      BY <2>3 DEF BeginOf
    <3> QED
      BY <2>1, <3>3, <3>4
  <2> QED
    BY <2>2, <2>3
<1>12. lines[k].range.end # l
  <2>1. ASSUME Ended(whole, lines, k, upto)
        PROVE  lines[k].range.end # l
    BY <2>1 DEF Ended
  <2>2. CASE k < size
    <3>1. k \in 1 .. Len(lines) - 1
      BY <1>2, <1>10, <2>2
    <3> QED
      BY <2>1, <3>1 DEF AreLines
  <2>3. CASE k = size
    <3>1. Len(lines) > 0 /\ k = Len(lines)
      BY <1>2, <1>5, <2>3
    <3>2. CASE incomplete
      <4>1. lines[k].range.end = upto
        BY <3>1, <3>2 DEF AreLines
      <4> QED
        BY <4>1
    <3>3. CASE ~incomplete
      BY <2>1, <3>1, <3>3 DEF AreLines
    <3> QED
      BY <3>2, <3>3
  <2> QED
    BY <1>10, <2>2, <2>3
<1>13. l < lines[k].range.end
  BY <1>3, <1>10, <1>12
<1> QED
  BY <1>2, <1>10, <1>11, <1>13 DEF OnLine

\* GetDataLine finds it.
LEMMA LineGot ==
    ASSUME NEW whole, NEW lines, NEW flag \in BOOLEAN, NEW upto \in Nat,
           AreLines(whole, lines, flag, upto), NEW map, map.lines = lines,
           NEW l \in Nat, NEW k \in Nat, OnLine(lines, k, l)
    PROVE  GetDataLine(map, l) = lines[k]
<1>1. lines \in Seq(Line)
  BY DEF AreLines
<1>2. PICK size \in Nat : size = Len(lines)
  BY <1>1, LenProperties
<1>3. \A n \in 1 .. size : lines[n].range.begin \in Nat /\ lines[n].range.end \in Nat
  BY <1>1, <1>2, LineFacts
<1>4. \A n \in 1 .. size : IsLine(whole, lines, n)
  BY <1>2 DEF AreLines
<1>5. k \in 1 .. size /\ lines[k].range.begin <= l /\ l < lines[k].range.end
  BY <1>2 DEF OnLine
<1>6. \A n, m \in 1 .. size : n < m => lines[n].range.begin < lines[m].range.begin
  BY <1>1, <1>2, <1>4, InOrder
<1>7. ASSUME NEW n \in 1 .. size, n + 1 \in 1 .. size
      PROVE  lines[n + 1].range.begin = lines[n].range.end + 1
  <2>1. n + 1 # 1 /\ (n + 1) - 1 = n
    OBVIOUS
  <2> QED
    BY <1>4, <1>7, <2>1 DEF IsLine, BeginOf
<1>8. PICK S : S = {n \in 1 .. size : lines[n].range.begin >= l}
  OBVIOUS
<1>9. PICK first : first = Min(S)
  OBVIOUS
<1>10. PICK line : line = IF S = {} THEN size
                          ELSE IF first > 1 /\ l < lines[first - 1].range.end
                          THEN first - 1
                          ELSE first
  OBVIOUS
<1>11. line = k
  <2>1. CASE S = {}
    <3>1. ~(k + 1 \in 1 .. size)
      <4>1. SUFFICES ASSUME k + 1 \in 1 .. size
                     PROVE  FALSE
        OBVIOUS
      <4>2. lines[k + 1].range.begin = lines[k].range.end + 1
        BY <1>5, <1>7, <4>1
      <4>3. lines[k + 1].range.begin >= l
        BY <1>3, <1>5, <4>2
      <4> QED
        BY <1>8, <2>1, <4>1, <4>3
    <3>2. k = size
      BY <1>5, <3>1
    <3> QED
      BY <1>10, <2>1, <3>2
  <2>2. CASE S # {}
    <3>1. S \in SUBSET Nat
      BY <1>8
    <3>2. first \in S /\ \A y \in S : first <= y
      BY <1>9, <2>2, <3>1, SmallestOf
    <3>3. first \in 1 .. size /\ lines[first].range.begin >= l
      BY <1>8, <3>2
    <3>4. CASE lines[k].range.begin = l
      <4>1. k \in S
        BY <1>3, <1>5, <1>8, <3>4
      <4>2. first <= k /\ ~(first < k)
        BY <1>3, <1>5, <1>6, <3>2, <3>3, <3>4, <4>1
      <4>3. first = k
        BY <3>3, <4>2
      <4>4. first > 1 => ~(l < lines[first - 1].range.end)
        <5>1. SUFFICES ASSUME first > 1
                       PROVE  ~(l < lines[first - 1].range.end)
          OBVIOUS
        <5>2. PICK n \in Nat : n = first - 1 /\ n \in 1 .. size /\ n + 1 = first
          BY <3>3, <5>1
        <5>3. lines[n + 1].range.begin = lines[n].range.end + 1
          BY <1>7, <3>3, <5>2
        <5> QED
          BY <1>3, <3>4, <4>3, <5>2, <5>3
      <4> QED
        BY <1>10, <2>2, <4>3, <4>4
    <3>5. CASE lines[k].range.begin # l
      <4>1. lines[k].range.begin < l
        BY <1>3, <1>5, <3>5
      <4>2. ~(first < k) /\ first # k
        BY <1>3, <1>5, <1>6, <3>3, <4>1
      <4>3. k < first /\ k + 1 \in 1 .. size /\ first \in Nat
        BY <1>5, <3>3, <4>2
      <4>4. k + 1 \in S
        <5>1. lines[k + 1].range.begin = lines[k].range.end + 1
          BY <1>5, <1>7, <4>3
        <5>2. lines[k + 1].range.begin >= l
          BY <1>3, <1>5, <5>1
        <5> QED
          BY <1>8, <4>3, <5>2
      <4>5. first = k + 1 /\ first > 1 /\ first - 1 = k
        <5>1. first <= k + 1
          BY <3>2, <4>4
        <5> QED
          BY <1>5, <4>3, <5>1
      <4> QED
        BY <1>5, <1>10, <2>2, <4>5
    <3> QED
      BY <3>4, <3>5
  <2> QED
    BY <2>1, <2>2
<1>12. lines # <<>>
  BY <1>2, <1>5, EmptySeq
<1>13. ContainsLocation(lines[k].range, l)
  BY <1>5 DEF ContainsLocation
<1> QED
  BY <1>2, <1>8, <1>9, <1>10, <1>11, <1>12, <1>13 DEF GetDataLine

\* A newline is on no line.
LEMMA NoLineGot ==
    ASSUME NEW whole, NEW lines, NEW flag \in BOOLEAN, NEW upto \in Nat,
           AreLines(whole, lines, flag, upto), NEW map, map.lines = lines,
           NEW l \in Nat, whole[l + 1] = Newline
    PROVE  GetDataLine(map, l) = NoLine
<1>1. lines \in Seq(Line)
  BY DEF AreLines
<1>2. PICK size \in Nat : size = Len(lines)
  BY <1>1, LenProperties
<1>3. CASE lines = <<>>
  BY <1>3 DEF GetDataLine
<1>4. CASE lines # <<>>
  <2>1. size > 0
    BY <1>1, <1>2, <1>4, EmptySeq
  <2>2. PICK S : S = {n \in 1 .. size : lines[n].range.begin >= l}
    OBVIOUS
  <2>3. PICK first : first = Min(S)
    OBVIOUS
  <2>4. PICK line : line = IF S = {} THEN size
                           ELSE IF first > 1 /\ l < lines[first - 1].range.end
                           THEN first - 1
                           ELSE first
    OBVIOUS
  <2>5. line \in 1 .. size
    <3>1. S \in SUBSET Nat
      BY <2>2
    <3>2. S # {} => first \in 1 .. size
      BY <2>2, <2>3, <3>1, SmallestOf
    <3> QED
      BY <2>1, <2>4, <3>2
  <2>6. ~ContainsLocation(lines[line].range, l)
    <3>1. PICK b \in Nat, e \in Nat : b = lines[line].range.begin /\ e = lines[line].range.end
      BY <1>1, <1>2, <2>5, LineFacts
    <3>2. NoNewline(whole, b, e)
      BY <1>2, <2>5, <3>1 DEF AreLines, IsLine
    <3>3. ~(b <= l /\ l < e)
      BY <3>2 DEF NoNewline
    <3> QED
      BY <3>1, <3>3 DEF ContainsLocation
  <2> QED
    BY <1>2, <1>4, <2>2, <2>3, <2>4, <2>6 DEF GetDataLine
<1> QED
  BY <1>3, <1>4

-----------------------------------------------------------------------------
(***************************************************************************)
(* What an error message shows.                                            *)
(***************************************************************************)
LEMMA ShownIs ==
    ASSUME NEW b \in Nat, NEW e \in Nat, NEW l \in Nat, b <= l, l < e
    PROVE  \E from \in Nat, to \in Nat :
              /\ ShownRange(l, NewRange(b, e)) = NewRange(from, to)
              /\ b <= from /\ from <= l /\ l < to /\ to <= e
              /\ Length(NewRange(from, to)) <= 2 * ShownLimit
<1>1. PICK limit \in Nat : limit = ShownLimit /\ limit > 0
  BY ShownLimitAssumption
<1>2. PICK from \in Nat : from = IF b + limit < l THEN l - limit ELSE b
  <2>1. CASE b + limit < l
    <3>1. l - limit \in Nat
      BY <2>1
    <3> QED
      BY <2>1, <3>1
  <2>2. CASE ~(b + limit < l)
    BY <2>2
  <2> QED
    BY <2>1, <2>2
<1>3. PICK to \in Nat : to = Smaller(from + 2 * limit, e)
  BY DEF Smaller
<1>4. b <= from /\ from <= l
  BY <1>1, <1>2
<1>5. l < from + 2 * limit
  BY <1>1, <1>2
<1>6. to <= e /\ l < to /\ to <= from + 2 * limit
  BY <1>3, <1>5 DEF Smaller
<1>7. ShownRange(l, NewRange(b, e)) = NewRange(from, to)
  BY <1>1, <1>2, <1>3 DEF ShownRange, NewRange
<1>8. Length(NewRange(from, to)) <= 2 * ShownLimit
  BY <1>1, <1>4, <1>6 DEF Length, IsValid, NewRange
<1> QED
  BY <1>4, <1>6, <1>7, <1>8

\* The caret, if nothing in front of it is hidden.
LEMMA CaretIs ==
    ASSUME NEW whole, NEW l \in Nat, NEW clipped, NEW from \in Nat, NEW to \in Nat,
           \A k \in from .. l - 1 : whole[k + 1] \in Printable
    PROVE  Caret(whole, l, clipped, NewRange(from, to))
              = (l - from) + IF from # clipped.begin THEN 3 ELSE 0
<1>1. {k \in from .. l - 1 : whole[k + 1] \notin Printable} = {}
  OBVIOUS
<1>2. Cardinality({}) = 0
  BY FS_EmptySet
<1>3. NewRange(from, to).begin = from
  BY DEF NewRange
<1>4. PICK dots \in Nat : dots = IF from # clipped.begin THEN 3 ELSE 0
  OBVIOUS
<1>5. Caret(whole, l, clipped, NewRange(from, to)) = l - from + dots + 4 * 0
  BY <1>1, <1>2, <1>3, <1>4, Zenon DEF Caret
<1> QED
  BY <1>4, <1>5

\* For a character that is on a line.
IsClipped(clipped, b, e, first, last, l) ==
    \E from \in Nat, to \in Nat :
        /\ clipped = NewRange(from, to)
        /\ from = Larger(b, first) /\ first <= from /\ b <= from /\ from <= l
        /\ l < to /\ to <= last /\ to <= e

LEMMA ClippedToLine ==
    ASSUME NEW b \in Nat, NEW e \in Nat, NEW first \in Nat, NEW last \in Nat, NEW line,
           line.range = NewRange(b, e), NEW l \in Nat,
           b <= l, l < e, first <= l, l < last
    PROVE  IsClipped(ClippedRange(NewRange(first, last), line), b, e, first, last, l)
<1>1. PICK from \in Nat, to \in Nat : from = Larger(b, first) /\ to = Smaller(e, last)
  BY DEF Larger, Smaller
<1>2. first <= from /\ b <= from /\ from <= l /\ l < to /\ to <= last /\ to <= e
  BY <1>1 DEF Larger, Smaller
<1>3. IsValid(line.range)
  <2>1. PICK piece : piece = line.range
    OBVIOUS
  <2>2. piece.begin = b /\ piece.end = e
    BY <2>1 DEF NewRange
  <2>3. b < e
    OBVIOUS
  <2> QED
    BY <2>1, <2>2, <2>3 DEF IsValid
<1>4. ClippedRange(NewRange(first, last), line) = NewRange(from, to)
  BY <1>1, <1>3 DEF ClippedRange, Intersection, NewRange
<1> QED
  BY <1>1, <1>2, <1>4, Zenon DEF IsClipped

LEMMA ClippedToNone ==
    ASSUME NEW piece
    PROVE  ClippedRange(piece, NoLine) = piece
BY DEF ClippedRange, NoLine, InvalidRange, IsValid, NewRange

\* What the error text is made of.
LEMMA ErrorTextIs ==
    ASSUME NEW map, NEW whole, NEW l, NEW piece, NEW line, NEW clipped, NEW shown,
           line = GetDataLine(map, l), clipped = ClippedRange(piece, line),
           shown = ShownRange(l, clipped)
    PROVE  /\ GetErrorText(map, whole, l, piece).number = line.number
           /\ GetErrorText(map, whole, l, piece).shown = shown
           /\ GetErrorText(map, whole, l, piece).caret = Caret(whole, l, clipped, shown)
BY DEF GetErrorText

\* For the location of a newline, the whole piece is there to be shown.
LEMMA NewlineShown ==
    ASSUME NEW whole, NEW lines, NEW flag \in BOOLEAN, NEW map, map.lines = lines,
           NEW first \in Nat, NEW last \in Nat, AreLines(whole, lines, flag, last),
           NEW l \in Nat, first <= l, l < last, whole[l + 1] = Newline
    PROVE  \E from \in Nat, to \in Nat :
              /\ GetErrorText(map, whole, l, NewRange(first, last)).shown = NewRange(from, to)
              /\ first <= from /\ from <= l /\ l < to /\ to <= last
              /\ Length(NewRange(from, to)) <= 2 * ShownLimit
              /\ (\A k \in from .. l - 1 : whole[k + 1] \in Printable) =>
                    GetErrorText(map, whole, l, NewRange(first, last)).caret
                       = (l - from) + IF from > first THEN 3 ELSE 0
<1>1. GetDataLine(map, l) = NoLine
  BY NoLineGot
<1>2. PICK clipped : clipped = NewRange(first, last)
  OBVIOUS
<1>3. clipped = ClippedRange(NewRange(first, last), NoLine) /\ clipped.begin = first
  BY <1>2, ClippedToNone DEF NewRange
<1>4. PICK from \in Nat, to \in Nat :
         /\ ShownRange(l, NewRange(first, last)) = NewRange(from, to)
         /\ first <= from /\ from <= l /\ l < to /\ to <= last
         /\ Length(NewRange(from, to)) <= 2 * ShownLimit
  BY ShownIs
<1>5. PICK shown : shown = NewRange(from, to)
  OBVIOUS
<1>6. /\ GetErrorText(map, whole, l, NewRange(first, last)).shown = shown
      /\ GetErrorText(map, whole, l, NewRange(first, last)).caret
            = Caret(whole, l, clipped, shown)
  <2>1. PICK piece : piece = NewRange(first, last)
    OBVIOUS
  <2>2. NoLine = GetDataLine(map, l) /\ clipped = ClippedRange(piece, NoLine)
    BY <1>1, <1>3, <2>1
  <2>3. shown = ShownRange(l, clipped)
    BY <1>2, <1>4, <1>5
  <2> QED
    BY <2>1, <2>2, <2>3, ErrorTextIs
<1>7. ASSUME \A k \in from .. l - 1 : whole[k + 1] \in Printable
      PROVE  Caret(whole, l, clipped, shown) = (l - from) + IF from > first THEN 3 ELSE 0
  <2>1. Caret(whole, l, clipped, shown) = (l - from) + IF from # clipped.begin THEN 3 ELSE 0
    BY <1>5, <1>7, CaretIs
  <2>2. from # clipped.begin <=> from > first
    BY <1>3, <1>4
  <2> QED
    BY <2>1, <2>2
<1> QED
  BY <1>4, <1>5, <1>6, <1>7

\* For any other, the part of its line that is in the piece.
LEMMA LineShown ==
    ASSUME NEW whole, NEW lines, NEW flag \in BOOLEAN, NEW map, map.lines = lines,
           NEW first \in Nat, NEW last \in Nat, AreLines(whole, lines, flag, last),
           NEW l \in Nat, first <= l, l < last, whole[l + 1] # Newline
    PROVE  \E from \in Nat, to \in Nat :
              /\ GetErrorText(map, whole, l, NewRange(first, last)).shown = NewRange(from, to)
              /\ GetErrorText(map, whole, l, NewRange(first, last)).number
                    = Cardinality(Newlines(whole, l)) + 1
              /\ first <= from /\ from <= l /\ l < to /\ to <= last
              /\ Length(NewRange(from, to)) <= 2 * ShownLimit
              /\ NoNewline(whole, from, to)
              /\ (\A k \in from .. l - 1 : whole[k + 1] \in Printable) =>
                    GetErrorText(map, whole, l, NewRange(first, last)).caret
                       = (l - from) + IF from > first /\ whole[from] # Newline THEN 3 ELSE 0
<1>1. lines \in Seq(Line)
  BY DEF AreLines
<1>2. PICK n \in Nat : OnLine(lines, n, l)
  BY SomeLine
<1>3. n \in 1 .. Len(lines) /\ lines[n].range.begin <= l /\ l < lines[n].range.end
  BY <1>2 DEF OnLine
<1>4. PICK line : line = lines[n]
  OBVIOUS
<1>5. line = GetDataLine(map, l)
  BY <1>2, <1>4, LineGot
<1>6. PICK b \in Nat, e \in Nat : b = line.range.begin /\ e = line.range.end
  BY <1>1, <1>3, <1>4, LineFacts
<1>7. line.range = NewRange(b, e)
  <2>1. line.range \in DataRange
    BY <1>1, <1>3, <1>4, LineFacts
  <2> QED
    BY <1>6, <2>1 DEF DataRange, NewRange
<1>8. IsLine(whole, lines, n)
  BY <1>3 DEF AreLines
<1>9. /\ line.number = n /\ b = BeginOf(lines, n) /\ b <= l /\ l < e
      /\ NoNewline(whole, b, e) /\ Cardinality(Newlines(whole, b)) = n - 1
  BY <1>3, <1>4, <1>6, <1>8 DEF IsLine
<1>10. line.number = Cardinality(Newlines(whole, l)) + 1
  <2>1. NoNewline(whole, b, l)
    BY <1>9 DEF NoNewline
  <2>2. Newlines(whole, l) = Newlines(whole, b)
    BY <1>9, <2>1, CountOnLine
  <2> QED
    BY <1>9, <2>2
<1>11. PICK begin \in Nat, end \in Nat :
          /\ ClippedRange(NewRange(first, last), line) = NewRange(begin, end)
          /\ begin = Larger(b, first) /\ first <= begin /\ b <= begin /\ begin <= l
          /\ l < end /\ end <= last /\ end <= e
  <2>1. IsClipped(ClippedRange(NewRange(first, last), line), b, e, first, last, l)
    BY <1>7, <1>9, ClippedToLine
  <2> QED
    BY <2>1 DEF IsClipped
<1>12. PICK from \in Nat, to \in Nat :
          /\ ShownRange(l, NewRange(begin, end)) = NewRange(from, to)
          /\ begin <= from /\ from <= l /\ l < to /\ to <= end
          /\ Length(NewRange(from, to)) <= 2 * ShownLimit
  BY <1>11, ShownIs
<1>13. PICK clipped, shown : clipped = NewRange(begin, end) /\ shown = NewRange(from, to)
  OBVIOUS
<1>14. /\ GetErrorText(map, whole, l, NewRange(first, last)).number = line.number
       /\ GetErrorText(map, whole, l, NewRange(first, last)).shown = shown
       /\ GetErrorText(map, whole, l, NewRange(first, last)).caret
             = Caret(whole, l, clipped, shown)
  <2>1. PICK piece : piece = NewRange(first, last)
    OBVIOUS
  <2>2. clipped = ClippedRange(piece, line) /\ shown = ShownRange(l, clipped)
    BY <1>11, <1>12, <1>13, <2>1
  <2> QED
    BY <1>5, <2>1, <2>2, ErrorTextIs
<1>15. first <= from /\ to <= last /\ b <= from /\ to <= e
  BY <1>11, <1>12
<1>16. NoNewline(whole, from, to)
  BY <1>9, <1>15 DEF NoNewline
<1>17. from # begin <=> from > first /\ whole[from] # Newline
  <2>1. CASE from # begin
    <3>1. PICK k \in Nat : k = from - 1 /\ k + 1 = from /\ b <= k /\ k < e
      <4>1. from > begin
        BY <1>12, <2>1
      <4>2. from - 1 \in Nat
        BY <4>1
      <4> QED
        BY <1>11, <1>12, <4>1, <4>2
    <3>2. whole[k + 1] # Newline
      BY <1>9, <3>1 DEF NoNewline
    <3>3. from > first
      BY <1>11, <1>12, <2>1
    <3> QED
      BY <2>1, <3>1, <3>2, <3>3
  <2>2. CASE from = begin /\ from > first
    <3>1. from = b /\ b > 0
      BY <1>11, <2>2 DEF Larger
    <3>2. n # 1
      BY <1>9, <3>1 DEF BeginOf
    <3>3. PICK m \in Nat : m = n - 1 /\ m \in 1 .. Len(lines) - 1
      BY <1>3, <3>2
    <3>4. Ended(whole, lines, m, last)
      BY <3>3 DEF AreLines
    <3>5. b = lines[m].range.end + 1
      BY <1>9, <3>2, <3>3 DEF BeginOf
    <3>6. whole[b] = Newline
      BY <3>4, <3>5 DEF Ended
    <3> QED
      BY <2>2, <3>1, <3>6
  <2>3. CASE from = begin /\ ~(from > first)
    BY <2>3
  <2> QED
    BY <2>1, <2>2, <2>3
<1>18. ASSUME \A k \in from .. l - 1 : whole[k + 1] \in Printable
       PROVE  Caret(whole, l, clipped, shown)
                 = (l - from) + IF from > first /\ whole[from] # Newline THEN 3 ELSE 0
  <2>1. Caret(whole, l, clipped, shown) = (l - from) + IF from # clipped.begin THEN 3 ELSE 0
    BY <1>13, <1>18, CaretIs
  <2>2. clipped.begin = begin
    BY <1>13 DEF NewRange
  <2> QED
    BY <1>17, <2>1, <2>2
<1> QED
  BY <1>10, <1>12, <1>13, <1>14, <1>15, <1>16, <1>18

\* An error message shows the place it is about.
THEOREM ErrorText == Spec => []ErrorTextShowsThePlace
<1>1. ScanInv /\ LinesInv => ErrorTextShowsThePlace
  <2> SUFFICES ASSUME ScanInv, LinesInv, NEW l \in range.begin .. range.end - 1
               PROVE  LET shown  == GetErrorText(line_map, text, l, range).shown
                          number == GetErrorText(line_map, text, l, range).number
                          caret  == GetErrorText(line_map, text, l, range).caret
                          before == {k \in 0 .. l - 1 : text[k + 1] = Newline}
                          cut    == /\ shown.begin > range.begin
                                    /\ text[shown.begin] # Newline \/ text[l + 1] = Newline
                      IN  /\ ContainsLocation(shown, l) /\ ContainsRange(range, shown)
                          /\ Length(shown) <= 2 * ShownLimit
                          /\ text[l + 1] # Newline =>
                                /\ number = Cardinality(before) + 1
                                /\ \A k \in shown.begin .. shown.end - 1 :
                                      text[k + 1] # Newline
                          /\ (\A k \in shown.begin .. l - 1 : text[k + 1] \in Printable) =>
                                caret = l - shown.begin + IF cut THEN 3 ELSE 0
    BY DEF ErrorTextShowsThePlace
  <2>1. PICK lines, map : lines = line_map.lines /\ map = line_map
    OBVIOUS
  <2>2. PICK flag \in BOOLEAN : flag = line_map.incomplete
    BY Zenon DEF LinesInv
  <2>3. range \in DataRange
    BY DEF ScanInv, PlaceInv
  <2>4. PICK first \in Nat, last \in Nat : range = NewRange(first, last)
    BY <2>3 DEF DataRange, NewRange
  <2>5. range.begin = first /\ range.end = last
    BY <2>4 DEF NewRange
  <2>6. AreLines(text, lines, flag, last) /\ map.lines = lines
    BY <2>1, <2>2, <2>5, Zenon DEF LinesInv
  <2>7. l \in Nat /\ first <= l /\ l < last
    BY <2>5
  <2>8. PICK message : message = GetErrorText(line_map, text, l, range)
    OBVIOUS
  <2>9. message = GetErrorText(map, text, l, NewRange(first, last))
    BY <2>1, <2>4, <2>8
  <2>10. \E from \in Nat, to \in Nat :
            /\ message.shown = NewRange(from, to)
            /\ first <= from /\ from <= l /\ l < to /\ to <= last
            /\ Length(NewRange(from, to)) <= 2 * ShownLimit
            /\ text[l + 1] # Newline =>
                  /\ message.number = Cardinality(Newlines(text, l)) + 1
                  /\ NoNewline(text, from, to)
            /\ (\A k \in from .. l - 1 : text[k + 1] \in Printable) =>
                  message.caret = (l - from) +
                     IF from > first /\ (text[from] # Newline \/ text[l + 1] = Newline)
                     THEN 3 ELSE 0
    <3>1. CASE text[l + 1] = Newline
      BY <2>6, <2>7, <2>9, <3>1, NewlineShown
    <3>2. CASE text[l + 1] # Newline
      BY <2>6, <2>7, <2>9, <3>2, LineShown
    <3> QED
      BY <3>1, <3>2
  <2>11. PICK from \in Nat, to \in Nat :
            /\ message.shown = NewRange(from, to)
            /\ first <= from /\ from <= l /\ l < to /\ to <= last
            /\ Length(NewRange(from, to)) <= 2 * ShownLimit
            /\ text[l + 1] # Newline =>
                  /\ message.number = Cardinality(Newlines(text, l)) + 1
                  /\ NoNewline(text, from, to)
            /\ (\A k \in from .. l - 1 : text[k + 1] \in Printable) =>
                  message.caret = (l - from) +
                     IF from > first /\ (text[from] # Newline \/ text[l + 1] = Newline)
                     THEN 3 ELSE 0
    BY <2>10
  <2>12. message.shown.begin = from /\ message.shown.end = to
    BY <2>11 DEF NewRange
  <2>13. ContainsLocation(message.shown, l) /\ ContainsRange(range, message.shown)
    BY <2>5, <2>7, <2>11, <2>12 DEF ContainsLocation, ContainsRange, IsValid
  <2> QED
    BY <2>5, <2>8, <2>11, <2>12, <2>13 DEF Newlines, NoNewline
<1> QED
  BY <1>1, ScanInvariance, LinesInvariance, PTL
=============================================================================
