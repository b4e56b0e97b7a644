------------------------ MODULE XmpExtractionProofs ------------------------
(***************************************************************************)
(* Theorems about Base64Decoder, for any alphabet, any pieces, and streams *)
(* of any length, and about XmpExtraction, which transfers to the decoder, *)
(* for any files.                                                          *)
(***************************************************************************)
EXTENDS XmpExtraction, SequenceTheorems, TLAPS

\* Nothing is folded here; of SequenceFolds the facts about FlattenSeq are used.
NoStep(context, x, y) == x

Facts == INSTANCE SequenceFolds WITH Op <- NoStep

LEMMA SameFlattenSeq == \A seqs : FlattenSeq(seqs) = Facts!FlattenSeq(seqs)
  BY DEF FlattenSeq, Facts!FlattenSeq

LEMMA FlattenFacts ==
    ASSUME NEW S
    PROVE  /\ FlattenSeq(<<>>) = <<>>
           /\ \A s \in Seq(Seq(S)) : FlattenSeq(s) \in Seq(S)
           /\ \A s \in Seq(Seq(S)), t \in Seq(S) :
                 FlattenSeq(Append(s, t)) = FlattenSeq(s) \o t
           /\ \A s, t \in Seq(Seq(S)) :
                 FlattenSeq(s \o t) = FlattenSeq(s) \o FlattenSeq(t)
<1>1. FlattenSeq(<<>>) = <<>>
  BY SameFlattenSeq, Facts!FlattenNone
<1>2. ASSUME NEW s \in Seq(Seq(S))
      PROVE  FlattenSeq(s) \in Seq(S)
  BY SameFlattenSeq, Facts!FlattenType
<1>3. ASSUME NEW s \in Seq(Seq(S)), NEW t \in Seq(S)
      PROVE  FlattenSeq(Append(s, t)) = FlattenSeq(s) \o t
  BY SameFlattenSeq, Facts!FlattenNext
<1>4. ASSUME NEW s \in Seq(Seq(S)), NEW t \in Seq(Seq(S))
      PROVE  FlattenSeq(s \o t) = FlattenSeq(s) \o FlattenSeq(t)
  BY SameFlattenSeq, Facts!FlattenConcat
<1> QED
  BY <1>1, <1>2, <1>3, <1>4

LEMMA MinOfTwo ==
    ASSUME NEW a \in Int, NEW b \in Int
    PROVE  Min({a, b}) = IF a <= b THEN a ELSE b
  BY DEF Min
-----------------------------------------------------------------------------
(***************************************************************************)
(* Decoding of one buffer.                                                 *)
(***************************************************************************)

LEMMA PadCounts ==
    ASSUME NEW chars \in Seq(Char)
    PROVE  /\ PadCount(chars) \in 0 .. 2
           /\ PadCount(chars) <= Len(chars)
  BY LenProperties, EmptySeq DEF PadCount

\* A buffer has no pads at its end if its last character is of the alphabet.
LEMMA NoPads ==
    ASSUME NEW chars \in Seq(Char),
           Len(chars) > 0, chars[Len(chars)] \in Alphabet
    PROVE  PadCount(chars) = 0
  BY AlphabetAssumption DEF PadCount, Last

LEMMA DecodeType ==
    ASSUME NEW chars \in Seq(Char)
    PROVE  /\ Decode(chars) \in Seq(DecodedByte)
           /\ Decodable(chars) => Len(Decode(chars)) = DecodedLength(chars)
           /\ Decodable(chars) => DecodedLength(chars) \in Nat
<1>1. CASE ~Decodable(chars)
  BY <1>1, EmptySeq DEF Decode
<1>2. CASE Decodable(chars)
  <2>p. PICK p \in 0 .. 2 : p = PadCount(chars)
    BY PadCounts
  <2>n. PICK n \in Nat : n = Len(chars) \div 4 /\ Len(chars) = 4 * n /\ n >= 1
    <3>1. Len(chars) \in Nat /\ Len(chars) >= 4 /\ Len(chars) % 4 = 0
      BY <1>2, LenProperties DEF Decodable
    <3> QED
      BY <3>1
  <2>l. DecodedLength(chars) = n * 3 - p
    BY <2>p, <2>n DEF DecodedLength
  <2>1. ASSUME NEW i \in 1 .. n * 3 - p
        PROVE  /\ chars[i + (i - 1) \div 3] \in Alphabet
               /\ chars[(i + (i - 1) \div 3) + 1] \in Alphabet
    <3>1. /\ i + (i - 1) \div 3 \in 1 .. 4 * n - p
          /\ (i + (i - 1) \div 3) + 1 \in 1 .. 4 * n - p
      OBVIOUS
    <3>2. \A j \in 1 .. 4 * n - p : chars[j] \in Alphabet
      BY <1>2, <2>p, <2>n DEF Decodable
    <3> QED
      BY <3>1, <3>2
  <2>2. Decode(chars) = [i \in 1 .. n * 3 - p |->
                           <<chars[i + (i - 1) \div 3], chars[(i + (i - 1) \div 3) + 1]>>]
    BY <1>2, <2>l DEF Decode, Decoded
  <2>3. n * 3 - p \in Nat
    BY <2>n
  <2>4. Decode(chars) \in [1 .. n * 3 - p -> DecodedByte]
    BY <2>1, <2>2 DEF DecodedByte
  <2>5. Decode(chars) \in Seq(DecodedByte) /\ Len(Decode(chars)) = n * 3 - p
    BY <2>2, <2>3, <2>4
  <2> QED
    BY <2>l, <2>3, <2>5
<1> QED
  BY <1>1, <1>2

\* What the decoder takes for a failure is one.
LEMMA FailsMeans ==
    ASSUME NEW chars \in Seq(Char), Len(chars) % 4 = 0
    PROVE  Fails(chars) <=> chars # <<>> /\ ~Decodable(chars)
<1>1. CASE Decodable(chars)
  <2>1. Len(Decode(chars)) = (Len(chars) \div 4) * 3 - PadCount(chars)
    BY <1>1, DecodeType DEF DecodedLength
  <2>2. PadCount(chars) \in Int /\ (Len(chars) \div 4) * 3 \in Int
    BY PadCounts, LenProperties
  <2>3. Len(Decode(chars)) + PadCount(chars) = (Len(chars) \div 4) * 3
    BY <2>1, <2>2
  <2> QED
    BY <1>1, <2>3 DEF Fails
<1>2. CASE ~Decodable(chars)
  <2>1. Len(Decode(chars)) = 0
    BY <1>2, EmptySeq DEF Decode
  <2>2. chars # <<>> => Len(chars) >= 4 /\ (Len(chars) \div 4) * 3 >= 3
    BY EmptySeq
  <2>3. chars # <<>> => Len(Decode(chars)) + PadCount(chars) # (Len(chars) \div 4) * 3
    BY <2>1, <2>2, PadCounts, LenProperties
  <2> QED
    BY <1>2, <2>3 DEF Fails
<1> QED
  BY <1>1, <1>2
-----------------------------------------------------------------------------
(***************************************************************************)
(* A buffer of whole groups is decodable if its groups are, and only the   *)
(* last of them has pads; its bytes are then those of its groups.          *)
(***************************************************************************)
GroupsIn(chars) == Len(chars) \div 4

GroupOf(chars, g) == SubSeq(chars, 4 * g - 3, 4 * g)

BytesPerGroup(chars) == [g \in 1 .. GroupsIn(chars) |-> Decode(GroupOf(chars, g))]

BytesOf(chars) == FlattenSeq(BytesPerGroup(chars))

AllDecodable(chars) == \A g \in 1 .. GroupsIn(chars) : Decodable(GroupOf(chars, g))

PadsOnlyLast(chars) ==
    \A g \in 1 .. GroupsIn(chars) - 1 : PadCount(GroupOf(chars, g)) = 0

LEMMA GroupType ==
    ASSUME NEW chars \in Seq(Char), NEW g \in 1 .. GroupsIn(chars)
    PROVE  /\ GroupOf(chars, g) \in Seq(Char)
           /\ Len(GroupOf(chars, g)) = 4
           /\ \A i \in 1 .. 4 : GroupOf(chars, g)[i] = chars[4 * g - 4 + i]
<1>1. Len(chars) \in Nat /\ g \in Int /\ 1 <= g /\ 4 * g <= Len(chars)
  BY LenProperties DEF GroupsIn
<1>2. PICK m \in Int : m = 4 * g - 3 /\ m >= 1 /\ 4 * g = m + 3
  BY <1>1
<1>3. \A i \in m .. m + 3 : chars[i] \in Char
  BY <1>1, <1>2, ElementOfSeq
<1>4. /\ SubSeq(chars, m, m + 3) \in Seq(Char)
      /\ Len(SubSeq(chars, m, m + 3)) = 4
      /\ \A i \in 1 .. 4 : SubSeq(chars, m, m + 3)[i] = chars[m + i - 1]
  BY <1>3, SubSeqProperties
<1>5. \A i \in 1 .. 4 : m + i - 1 = 4 * g - 4 + i
  BY <1>2
<1> QED
  BY <1>2, <1>4, <1>5 DEF GroupOf

LEMMA BytesType ==
    ASSUME NEW chars \in Seq(Char)
    PROVE  /\ BytesPerGroup(chars) \in Seq(Seq(DecodedByte))
           /\ Len(BytesPerGroup(chars)) = GroupsIn(chars)
           /\ BytesOf(chars) \in Seq(DecodedByte)
<1>1. GroupsIn(chars) \in Nat
  BY LenProperties DEF GroupsIn
<1>2. \A g \in 1 .. GroupsIn(chars) : Decode(GroupOf(chars, g)) \in Seq(DecodedByte)
  BY GroupType, DecodeType
<1>3. /\ BytesPerGroup(chars) \in Seq(Seq(DecodedByte))
      /\ Len(BytesPerGroup(chars)) = GroupsIn(chars)
  BY <1>1, <1>2 DEF BytesPerGroup
<1> QED
  BY <1>3, FlattenFacts DEF BytesOf

\* The groups of whole groups and what follows them.
LEMMA GroupsOfConcat ==
    ASSUME NEW a \in Seq(Char), NEW b \in Seq(Char), Len(a) % 4 = 0
    PROVE  /\ GroupsIn(a) \in Nat /\ GroupsIn(b) \in Nat
           /\ GroupsIn(a \o b) = GroupsIn(a) + GroupsIn(b)
           /\ \A g \in 1 .. GroupsIn(a) : GroupOf(a \o b, g) = GroupOf(a, g)
           /\ \A g \in 1 .. GroupsIn(b) : GroupOf(a \o b, GroupsIn(a) + g) = GroupOf(b, g)
<1>c. PICK c : c = a \o b
  OBVIOUS
<1>1. /\ c \in Seq(Char) /\ Len(c) = Len(a) + Len(b)
      /\ \A i \in 1 .. Len(c) : c[i] = IF i <= Len(a) THEN a[i] ELSE b[i - Len(a)]
  BY <1>c, ConcatProperties
<1>2. PICK m \in Nat : m = GroupsIn(a) /\ Len(a) = 4 * m
  BY LenProperties DEF GroupsIn
<1>3. PICK n \in Nat : n = GroupsIn(b) /\ 4 * n <= Len(b) /\ Len(b) \in Nat
  BY LenProperties DEF GroupsIn
<1>4. GroupsIn(c) = m + n
  <2>1. PICK l \in Nat : l = Len(b)
    BY <1>3
  <2>2. n = l \div 4
    BY <1>3, <2>1 DEF GroupsIn
  <2>3. (4 * m + l) \div 4 = m + (l \div 4)
    OBVIOUS
  <2>4. Len(c) = 4 * m + l
    BY <1>1, <1>2, <2>1
  <2> QED
    BY <2>2, <2>3, <2>4 DEF GroupsIn
<1>5. ASSUME NEW g \in 1 .. m
      PROVE  GroupOf(c, g) = GroupOf(a, g)
  <2>1. g \in 1 .. m + n
    OBVIOUS
  <2>2. \A i \in 1 .. 4 : c[4 * g - 4 + i] = a[4 * g - 4 + i]
    BY <1>1, <1>2, <1>3
  <2>3. /\ GroupOf(c, g) \in Seq(Char) /\ Len(GroupOf(c, g)) = 4
        /\ \A i \in 1 .. 4 : GroupOf(c, g)[i] = c[4 * g - 4 + i]
    BY <1>1, <1>4, <2>1, GroupType
  <2>4. /\ GroupOf(a, g) \in Seq(Char) /\ Len(GroupOf(a, g)) = 4
        /\ \A i \in 1 .. 4 : GroupOf(a, g)[i] = a[4 * g - 4 + i]
    BY <1>2, GroupType
  <2>5. \A i \in 1 .. 4 : GroupOf(c, g)[i] = GroupOf(a, g)[i]
    BY <2>2, <2>3, <2>4
  <2> QED
    BY <2>3, <2>4, <2>5, SeqEqual
<1>6. ASSUME NEW g \in 1 .. n
      PROVE  GroupOf(c, m + g) = GroupOf(b, g)
  <2>1. PICK h \in 1 .. m + n : h = m + g
    <3>1. m + g \in 1 .. m + n
      OBVIOUS
    <3> QED
      BY <3>1
  <2>2. ASSUME NEW i \in 1 .. 4
        PROVE  c[4 * h - 4 + i] = b[4 * g - 4 + i]
    <3>1. PICK j \in Int : j = 4 * h - 4 + i
      OBVIOUS
    <3>2. j - 4 * m = 4 * g - 4 + i /\ j > 4 * m /\ j <= 4 * m + 4 * n
      BY <2>1, <3>1
    <3>3. j \in 1 .. Len(c) /\ ~(j <= Len(a))
      <4>1. Len(c) = Len(a) + Len(b)
        BY <1>1
      <4> QED
        BY <1>2, <1>3, <3>2, <4>1, SMTT(60)
    <3>4. c[j] = b[j - 4 * m]
      BY <1>1, <1>2, <3>3
    <3> QED
      BY <3>1, <3>2, <3>4
  <2>3. /\ GroupOf(c, h) \in Seq(Char) /\ Len(GroupOf(c, h)) = 4
        /\ \A i \in 1 .. 4 : GroupOf(c, h)[i] = c[4 * h - 4 + i]
    BY <1>1, <1>4, <2>1, GroupType
  <2>4. /\ GroupOf(b, g) \in Seq(Char) /\ Len(GroupOf(b, g)) = 4
        /\ \A i \in 1 .. 4 : GroupOf(b, g)[i] = b[4 * g - 4 + i]
    BY <1>3, GroupType
  <2>5. \A i \in 1 .. 4 : GroupOf(c, h)[i] = GroupOf(b, g)[i]
    BY <2>2, <2>3, <2>4
  <2> QED
    BY <2>1, <2>3, <2>4, <2>5, SeqEqual
<1> QED
  BY <1>c, <1>2, <1>3, <1>4, <1>5, <1>6

LEMMA BytesOfConcat ==
    ASSUME NEW a \in Seq(Char), NEW b \in Seq(Char), Len(a) % 4 = 0
    PROVE  BytesOf(a \o b) = BytesOf(a) \o BytesOf(b)
<1>c. PICK c \in Seq(Char) : c = a \o b
  BY ConcatProperties
<1>1. /\ GroupsIn(a) \in Nat /\ GroupsIn(b) \in Nat
      /\ GroupsIn(c) = GroupsIn(a) + GroupsIn(b)
      /\ \A g \in 1 .. GroupsIn(a) : GroupOf(c, g) = GroupOf(a, g)
      /\ \A g \in 1 .. GroupsIn(b) : GroupOf(c, GroupsIn(a) + g) = GroupOf(b, g)
  BY <1>c, GroupsOfConcat
<1>2. BytesPerGroup(c) = BytesPerGroup(a) \o BytesPerGroup(b)
  <2>1. /\ BytesPerGroup(a) \in Seq(Seq(DecodedByte)) /\ Len(BytesPerGroup(a)) = GroupsIn(a)
        /\ BytesPerGroup(b) \in Seq(Seq(DecodedByte)) /\ Len(BytesPerGroup(b)) = GroupsIn(b)
        /\ BytesPerGroup(c) \in Seq(Seq(DecodedByte)) /\ Len(BytesPerGroup(c)) = GroupsIn(c)
    BY BytesType
  <2>2. PICK d : d = BytesPerGroup(a) \o BytesPerGroup(b)
    OBVIOUS
  <2>3. /\ d \in Seq(Seq(DecodedByte)) /\ Len(d) = GroupsIn(c)
        /\ \A g \in 1 .. GroupsIn(c) :
              d[g] = IF g <= GroupsIn(a) THEN BytesPerGroup(a)[g]
                     ELSE BytesPerGroup(b)[g - GroupsIn(a)]
    <3>1. Len(BytesPerGroup(a)) + Len(BytesPerGroup(b)) = GroupsIn(c)
      BY <1>1, <2>1
    <3>2. /\ d \in Seq(Seq(DecodedByte))
          /\ Len(d) = Len(BytesPerGroup(a)) + Len(BytesPerGroup(b))
          /\ \A g \in 1 .. Len(BytesPerGroup(a)) + Len(BytesPerGroup(b)) :
                d[g] = IF g <= Len(BytesPerGroup(a)) THEN BytesPerGroup(a)[g]
                       ELSE BytesPerGroup(b)[g - Len(BytesPerGroup(a))]
      BY <2>1, <2>2, ConcatProperties
    <3> QED
      BY <2>1, <3>1, <3>2
  <2>4. ASSUME NEW g \in 1 .. GroupsIn(c)
        PROVE  BytesPerGroup(c)[g] = d[g]
    <3>1. CASE g <= GroupsIn(a)
      <4>1. g \in 1 .. GroupsIn(a)
        BY <1>1, <3>1
      <4> QED
        BY <1>1, <2>3, <3>1, <4>1 DEF BytesPerGroup
    <3>2. CASE ~(g <= GroupsIn(a))
      <4>1. PICK h \in 1 .. GroupsIn(b) : h = g - GroupsIn(a) /\ g = GroupsIn(a) + h
        <5>1. /\ g - GroupsIn(a) \in 1 .. GroupsIn(b)
              /\ g = GroupsIn(a) + (g - GroupsIn(a))
          BY <1>1, <3>2
        <5> QED
          BY <5>1
      <4> QED
        BY <1>1, <2>3, <3>2, <4>1 DEF BytesPerGroup
    <3> QED
      BY <3>1, <3>2
  <2> QED
    BY <1>1, <2>1, <2>2, <2>3, <2>4, SeqEqual
<1> QED
  BY <1>c, <1>2, BytesType, FlattenFacts DEF BytesOf

LEMMA DecodableConcat ==
    ASSUME NEW a \in Seq(Char), NEW b \in Seq(Char), Len(a) % 4 = 0
    PROVE  AllDecodable(a \o b) <=> AllDecodable(a) /\ AllDecodable(b)
<1>c. PICK c \in Seq(Char) : c = a \o b
  BY ConcatProperties
<1>1. /\ GroupsIn(a) \in Nat /\ GroupsIn(b) \in Nat
      /\ GroupsIn(c) = GroupsIn(a) + GroupsIn(b)
      /\ \A g \in 1 .. GroupsIn(a) : GroupOf(c, g) = GroupOf(a, g)
      /\ \A g \in 1 .. GroupsIn(b) : GroupOf(c, GroupsIn(a) + g) = GroupOf(b, g)
  BY <1>c, GroupsOfConcat
<1>2. ASSUME AllDecodable(a), AllDecodable(b), NEW g \in 1 .. GroupsIn(c)
      PROVE  Decodable(GroupOf(c, g))
  <2>1. CASE g \in 1 .. GroupsIn(a)
    BY <1>1, <1>2, <2>1 DEF AllDecodable
  <2>2. CASE g \notin 1 .. GroupsIn(a)
    <3>1. PICK h \in 1 .. GroupsIn(b) : g = GroupsIn(a) + h
      <4>1. /\ g - GroupsIn(a) \in 1 .. GroupsIn(b)
            /\ g = GroupsIn(a) + (g - GroupsIn(a))
        BY <1>1, <2>2
      <4> QED
        BY <4>1
    <3> QED
      BY <1>1, <1>2, <3>1 DEF AllDecodable
  <2> QED
    BY <2>1, <2>2
<1>3. ASSUME AllDecodable(c)
      PROVE  AllDecodable(a) /\ AllDecodable(b)
  <2>1. \A g \in 1 .. GroupsIn(a) : g \in 1 .. GroupsIn(c)
    BY <1>1
  <2>2. \A g \in 1 .. GroupsIn(b) : GroupsIn(a) + g \in 1 .. GroupsIn(c)
    BY <1>1
  <2> QED
    BY <1>1, <1>3, <2>1, <2>2 DEF AllDecodable
<1> QED
  BY <1>c, <1>2, <1>3 DEF AllDecodable

\* Whole groups and one more: the last character of the whole is that of the group.
LEMMA DecodeOneMore ==
    ASSUME NEW a \in Seq(Char), NEW b \in Seq(Char),
           Len(a) % 4 = 0, Len(a) > 0, Len(b) = 4
    PROVE  /\ PadCount(a \o b) = PadCount(b)
           /\ Decodable(a \o b) <=>
                 Decodable(a) /\ PadCount(a) = 0 /\ Decodable(b)
           /\ Decodable(a \o b) => Decode(a \o b) = Decode(a) \o Decode(b)
<1>c. PICK c : c = a \o b
  OBVIOUS
<1>n. PICK n \in Nat : n = Len(a) \div 4 /\ Len(a) = 4 * n /\ n >= 1
  BY LenProperties
<1>1. /\ c \in Seq(Char) /\ Len(c) = 4 * n + 4
      /\ \A i \in 1 .. 4 * n + 4 : c[i] = IF i <= 4 * n THEN a[i] ELSE b[i - 4 * n]
  <2>1. /\ c \in Seq(Char) /\ Len(c) = Len(a) + Len(b)
        /\ \A i \in 1 .. Len(a) + Len(b) :
              c[i] = IF i <= Len(a) THEN a[i] ELSE b[i - Len(a)]
    BY <1>c, ConcatProperties
  <2> QED
    BY <1>n, <2>1
<1>2. \A i \in 1 .. 4 * n : c[i] = a[i]
  BY <1>1
<1>3. \A i \in 1 .. 4 : c[4 * n + i] = b[i]
  <2>1. ASSUME NEW i \in 1 .. 4
        PROVE  /\ 4 * n + i \in 1 .. 4 * n + 4 /\ ~(4 * n + i <= 4 * n)
               /\ (4 * n + i) - 4 * n = i
    OBVIOUS
  <2> QED
    BY <1>1, <2>1
<1>4. PadCount(c) = PadCount(b)
  <2>1. c # <<>> /\ b # <<>> /\ Len(c) > 2
    <3>1. Len(c) > 2 /\ Len(b) > 2
      BY <1>1
    <3>2. ~(Len(<<>>) > 2)
      BY EmptySeq
    <3> QED
      BY <3>1, <3>2
  <2>2. Last(c) = b[4] /\ Last(b) = b[4]
    BY <1>1, <1>3 DEF Last
  <2>3. c[Len(c) - 1] = b[3] /\ b[Len(b) - 1] = b[3]
    <3>1. (4 * n + 4) - 1 = 4 * n + 3 /\ 4 - 1 = 3
      OBVIOUS
    <3> QED
      BY <1>1, <1>3, <3>1
  <2> QED
    BY <2>1, <2>2, <2>3 DEF PadCount
<1>p. PICK p \in 0 .. 2 : p = PadCount(b)
  BY PadCounts
<1>q. PICK q \in 0 .. 2 : q = PadCount(a)
  BY PadCounts
<1>5. Decodable(c) <=> \A i \in 1 .. 4 * n + 4 - p : c[i] \in Alphabet
  BY <1>1, <1>4, <1>p DEF Decodable
<1>6. Decodable(a) <=> \A i \in 1 .. 4 * n - q : a[i] \in Alphabet
  BY <1>n, <1>q DEF Decodable
<1>7. Decodable(b) <=> \A i \in 1 .. 4 - p : b[i] \in Alphabet
  BY <1>p DEF Decodable
<1>8. ASSUME Decodable(c)
      PROVE  Decodable(a) /\ q = 0 /\ Decodable(b)
  <2>1. \A i \in 1 .. 4 * n : a[i] \in Alphabet
    BY <1>2, <1>5, <1>8
  <2>2. q = 0
    <3>1. a[Len(a)] \in Alphabet /\ Len(a) > 0
      BY <1>n, <2>1
    <3> QED
      BY <1>q, <3>1, NoPads
  <2>3. \A i \in 1 .. 4 - p : b[i] \in Alphabet
    <3>1. ASSUME NEW i \in 1 .. 4 - p
          PROVE  4 * n + i \in 1 .. 4 * n + 4 - p /\ i \in 1 .. 4
      OBVIOUS
    <3> QED
      BY <1>3, <1>5, <1>8, <3>1
  <2> QED
    BY <1>6, <1>7, <2>1, <2>2, <2>3
<1>9. ASSUME Decodable(a), q = 0, Decodable(b)
      PROVE  Decodable(c)
  <2>1. ASSUME NEW i \in 1 .. 4 * n + 4 - p
        PROVE  c[i] \in Alphabet
    <3>1. CASE i <= 4 * n
      <4>1. i \in 1 .. 4 * n /\ i \in 1 .. 4 * n - q
        BY <1>9, <3>1
      <4> QED
        BY <1>2, <1>6, <1>9, <4>1
    <3>2. CASE ~(i <= 4 * n)
      <4>1. PICK j \in 1 .. 4 - p : i = 4 * n + j
        <5>1. i - 4 * n \in 1 .. 4 - p /\ i = 4 * n + (i - 4 * n)
          BY <3>2
        <5> QED
          BY <5>1
      <4>2. j \in 1 .. 4
        OBVIOUS
      <4> QED
        BY <1>3, <1>7, <1>9, <4>1, <4>2
    <3> QED
      BY <3>1, <3>2
  <2> QED
    BY <1>5, <2>1
<1>10. ASSUME Decodable(c)
       PROVE  Decode(c) = Decode(a) \o Decode(b)
  <2>0. Decodable(a) /\ q = 0 /\ Decodable(b)
    BY <1>8, <1>10
  <2>1. DecodedLength(a) = 3 * n
    BY <1>n, <1>q, <2>0 DEF DecodedLength
  <2>2. DecodedLength(b) = 3 - p
    BY <1>p DEF DecodedLength
  <2>3. DecodedLength(c) = 3 * n + 3 - p
    <3>1. (4 * n + 4) \div 4 = n + 1
      OBVIOUS
    <3> QED
      BY <1>1, <1>4, <1>p, <3>1 DEF DecodedLength
  <2>4. Decode(a) = [i \in 1 .. 3 * n |->
                       <<a[i + (i - 1) \div 3], a[(i + (i - 1) \div 3) + 1]>>]
    BY <2>0, <2>1 DEF Decode, Decoded
  <2>5. Decode(b) = [i \in 1 .. 3 - p |->
                       <<b[i + (i - 1) \div 3], b[(i + (i - 1) \div 3) + 1]>>]
    BY <2>0, <2>2 DEF Decode, Decoded
  <2>6. Decode(c) = [i \in 1 .. 3 * n + 3 - p |->
                       <<c[i + (i - 1) \div 3], c[(i + (i - 1) \div 3) + 1]>>]
    BY <1>10, <2>3 DEF Decode, Decoded
  <2>7. /\ Decode(a) \in Seq(DecodedByte) /\ Len(Decode(a)) = 3 * n
        /\ Decode(b) \in Seq(DecodedByte) /\ Len(Decode(b)) = 3 - p
        /\ Decode(c) \in Seq(DecodedByte) /\ Len(Decode(c)) = 3 * n + 3 - p
    BY <1>1, <1>10, <2>0, <2>1, <2>2, <2>3, DecodeType
  <2>8. PICK d : d = Decode(a) \o Decode(b)
    OBVIOUS
  <2>9. /\ d \in Seq(DecodedByte) /\ Len(d) = 3 * n + 3 - p
        /\ \A i \in 1 .. 3 * n + 3 - p :
              d[i] = IF i <= 3 * n THEN Decode(a)[i] ELSE Decode(b)[i - 3 * n]
    <3>1. 3 * n + (3 - p) = 3 * n + 3 - p
      OBVIOUS
    <3>2. /\ d \in Seq(DecodedByte) /\ Len(d) = Len(Decode(a)) + Len(Decode(b))
          /\ \A i \in 1 .. Len(Decode(a)) + Len(Decode(b)) :
                d[i] = IF i <= Len(Decode(a)) THEN Decode(a)[i]
                       ELSE Decode(b)[i - Len(Decode(a))]
      BY <2>7, <2>8, ConcatProperties
    <3> QED
      BY <2>7, <3>1, <3>2
  <2>10. ASSUME NEW i \in 1 .. 3 * n + 3 - p
         PROVE  Decode(c)[i] = d[i]
    <3>f. PICK f \in Int : f = i + (i - 1) \div 3
      OBVIOUS
    <3>1. Decode(c)[i] = <<c[f], c[f + 1]>>
      BY <2>6, <3>f
    <3>2. CASE i <= 3 * n
      <4>1. i \in 1 .. 3 * n /\ f \in 1 .. 4 * n /\ f + 1 \in 1 .. 4 * n
        BY <3>f, <3>2
      <4>2. Decode(a)[i] = <<a[f], a[f + 1]>>
        BY <2>4, <3>f, <4>1
      <4> QED
        BY <1>2, <2>9, <3>1, <3>2, <4>1, <4>2
    <3>3. CASE ~(i <= 3 * n)
      <4>j. PICK j \in 1 .. 3 - p : j = i - 3 * n /\ i = 3 * n + j
        <5>1. i - 3 * n \in 1 .. 3 - p /\ i = 3 * n + (i - 3 * n)
          BY <3>3
        <5> QED
          BY <5>1
      <4>g. PICK g \in Int : g = j + (j - 1) \div 3
        OBVIOUS
      <4>1. g \in 1 .. 4 /\ g + 1 \in 1 .. 4
        BY <4>g
      <4>2. f = 4 * n + g /\ f + 1 = 4 * n + (g + 1)
        <5>1. (3 * n + j - 1) \div 3 = n + (j - 1) \div 3
          OBVIOUS
        <5> QED
          BY <3>f, <4>j, <4>g, <5>1
      <4>3. Decode(b)[j] = <<b[g], b[g + 1]>>
        BY <2>5, <4>g
      <4>4. c[f] = b[g] /\ c[f + 1] = b[g + 1]
        BY <1>3, <4>1, <4>2
      <4>5. d[i] = Decode(b)[j]
        BY <2>9, <3>3, <4>j
      <4> QED
        BY <3>1, <4>3, <4>4, <4>5
    <3> QED
      BY <3>2, <3>3
  <2>11. Len(Decode(c)) = Len(d)
    BY <2>7, <2>9
  <2> QED
    BY <2>7, <2>8, <2>9, <2>10, <2>11, SeqEqual
<1> QED
  BY <1>c, <1>4, <1>8, <1>9, <1>10, <1>q

\* A buffer of whole groups is decodable if its groups are and only the last has
\* pads, and it is decoded group by group.
LEMMA WholeGroupsDecode ==
    ASSUME NEW chars \in Seq(Char), Len(chars) % 4 = 0, chars # <<>>
    PROVE  /\ Decodable(chars) <=> AllDecodable(chars) /\ PadsOnlyLast(chars)
           /\ Decodable(chars) => Decode(chars) = BytesOf(chars)
<1> DEFINE Good(c) == /\ Decodable(c) <=> AllDecodable(c) /\ PadsOnlyLast(c)
                      /\ Decodable(c) => Decode(c) = BytesOf(c)
                      /\ PadCount(c) = PadCount(GroupOf(c, GroupsIn(c)))
<1>T. PICK T : T = {n \in Nat : \A c \in Seq(Char) : Len(c) = 4 * n + 4 => Good(c)}
  OBVIOUS
<1>1. \A c \in Seq(Char) : Len(c) = 4 =>
         /\ GroupsIn(c) = 1 /\ GroupOf(c, 1) = c
         /\ BytesOf(c) = Decode(c)
  <2> SUFFICES ASSUME NEW c \in Seq(Char), Len(c) = 4
               PROVE  /\ GroupsIn(c) = 1 /\ GroupOf(c, 1) = c
                      /\ BytesOf(c) = Decode(c)
    OBVIOUS
  <2>1. GroupsIn(c) = 1 /\ 4 * 1 - 3 = 1 /\ 4 * 1 = 4
    BY DEF GroupsIn
  <2>2. GroupOf(c, 1) = c
    BY <2>1, SubSeqFull DEF GroupOf
  <2>3. BytesPerGroup(c) = [g \in 1 .. 1 |-> Decode(GroupOf(c, g))]
    BY <2>1 DEF BytesPerGroup
  <2>4. BytesPerGroup(c) = Append(<<>>, Decode(c))
    <3>1. Decode(c) \in Seq(DecodedByte)
      BY DecodeType
    <3>2. BytesPerGroup(c) \in Seq(Seq(DecodedByte)) /\ Len(BytesPerGroup(c)) = 1
      BY <2>1, BytesType
    <3>3. BytesPerGroup(c)[1] = Decode(c)
      BY <2>2, <2>3
    <3>4. /\ Append(<<>>, Decode(c)) \in Seq(Seq(DecodedByte))
          /\ Len(Append(<<>>, Decode(c))) = 1
          /\ Append(<<>>, Decode(c))[1] = Decode(c)
      BY <3>1
    <3> QED
      BY <3>2, <3>3, <3>4, SeqEqual
  <2>5. FlattenSeq(Append(<<>>, Decode(c))) = <<>> \o Decode(c)
    <3>1. Decode(c) \in Seq(DecodedByte) /\ <<>> \in Seq(Seq(DecodedByte))
      BY DecodeType, EmptySeq
    <3> QED
      BY <3>1, FlattenFacts
  <2>6. <<>> \o Decode(c) = Decode(c)
    BY DecodeType, ConcatEmptySeq
  <2> QED
    BY <2>1, <2>2, <2>4, <2>5, <2>6 DEF BytesOf
<1>2. 0 \in T
  <2> SUFFICES ASSUME NEW c \in Seq(Char), Len(c) = 4
               PROVE  Good(c)
    BY <1>T
  <2>1. GroupsIn(c) = 1 /\ GroupOf(c, 1) = c /\ BytesOf(c) = Decode(c)
    BY <1>1
  <2>2. PadsOnlyLast(c)
    BY <2>1 DEF PadsOnlyLast
  <2>3. AllDecodable(c) <=> Decodable(c)
    BY <2>1 DEF AllDecodable
  <2> QED
    BY <2>1, <2>2, <2>3
<1>3. ASSUME NEW n \in Nat, n \in T
      PROVE  n + 1 \in T
  <2> SUFFICES ASSUME NEW c \in Seq(Char), Len(c) = 4 * (n + 1) + 4
               PROVE  Good(c)
    BY <1>T
  <2>l. PICK l \in Nat : l = 4 * n + 4 /\ Len(c) = l + 4
    OBVIOUS
  <2>a. PICK a : a = SubSeq(c, 1, l)
    OBVIOUS
  <2>b. PICK b : b = SubSeq(c, l + 1, l + 4)
    OBVIOUS
  <2>1. a \in Seq(Char) /\ Len(a) = l /\ Len(a) % 4 = 0 /\ Len(a) > 0
    BY <2>l, <2>a
  <2>2. b \in Seq(Char) /\ Len(b) = 4
    <3>1. \A i \in l + 1 .. l + 4 : c[i] \in Char
      BY <2>l, ElementOfSeq
    <3>2. /\ SubSeq(c, l + 1, l + 4) \in Seq(Char)
          /\ Len(SubSeq(c, l + 1, l + 4))
                = IF l + 1 <= l + 4 THEN (l + 4) - (l + 1) + 1 ELSE 0
      <4>1. l + 1 \in Int /\ l + 4 \in Int
        BY <2>l
      <4> QED
        BY <3>1, <4>1, SubSeqProperties
    <3> QED
      BY <2>l, <2>b, <3>2
  <2>3. c = a \o b
    <3>1. SubSeq(c, 1, l + 4) = SubSeq(c, 1, l) \o SubSeq(c, l + 1, l + 4)
      <4>1. 1 \in 1 .. Len(c) + 1 /\ l \in 1 - 1 .. Len(c) /\ l + 4 \in l .. Len(c)
        BY <2>l
      <4> QED
        BY <4>1, ConcatAdjacentSubSeq
    <3>2. SubSeq(c, 1, l + 4) = c
      BY <2>l, SubSeqFull
    <3> QED
      BY <2>a, <2>b, <3>1, <3>2
  <2>4. Good(a)
    BY <1>3, <1>T, <2>l, <2>1
  <2>5. /\ PadCount(c) = PadCount(b)
        /\ Decodable(c) <=> Decodable(a) /\ PadCount(a) = 0 /\ Decodable(b)
        /\ Decodable(c) => Decode(c) = Decode(a) \o Decode(b)
    BY <2>1, <2>2, <2>3, DecodeOneMore
  <2>6. GroupsIn(b) = 1 /\ GroupOf(b, 1) = b /\ BytesOf(b) = Decode(b)
    BY <1>1, <2>2
  <2>7. /\ GroupsIn(a) = n + 1
        /\ GroupsIn(c) = n + 2
        /\ \A g \in 1 .. n + 1 : GroupOf(c, g) = GroupOf(a, g)
        /\ GroupOf(c, n + 2) = b
    <3>1. GroupsIn(a) = n + 1
      BY <2>l, <2>1 DEF GroupsIn
    <3>2. /\ GroupsIn(c) = GroupsIn(a) + GroupsIn(b)
          /\ \A g \in 1 .. GroupsIn(a) : GroupOf(c, g) = GroupOf(a, g)
          /\ \A g \in 1 .. GroupsIn(b) : GroupOf(c, GroupsIn(a) + g) = GroupOf(b, g)
      BY <2>1, <2>2, <2>3, GroupsOfConcat
    <3>3. n + 1 + 1 = n + 2 /\ 1 \in 1 .. 1
      OBVIOUS
    <3> QED
      BY <2>6, <3>1, <3>2, <3>3
  <2>8. AllDecodable(c) <=> AllDecodable(a) /\ Decodable(b)
    <3>1. AllDecodable(b) <=> Decodable(b)
      BY <2>6 DEF AllDecodable
    <3> QED
      BY <2>1, <2>2, <2>3, <3>1, DecodableConcat
  <2>9. PadsOnlyLast(c) <=> PadsOnlyLast(a) /\ PadCount(a) = 0
    <3>1. PadCount(a) = PadCount(GroupOf(a, n + 1))
      BY <2>4, <2>7
    <3>2. PadsOnlyLast(c) <=> \A g \in 1 .. n + 1 : PadCount(GroupOf(a, g)) = 0
      <4>1. (n + 2) - 1 = n + 1
        OBVIOUS
      <4> QED
        BY <2>7, <4>1 DEF PadsOnlyLast
    <3>3. PadsOnlyLast(a) <=> \A g \in 1 .. n : PadCount(GroupOf(a, g)) = 0
      <4>1. (n + 1) - 1 = n
        OBVIOUS
      <4> QED
        BY <2>7, <4>1 DEF PadsOnlyLast
    <3>4. \A g \in 1 .. n + 1 : g \in 1 .. n \/ g = n + 1
      OBVIOUS
    <3>5. n + 1 \in 1 .. n + 1 /\ \A g \in 1 .. n : g \in 1 .. n + 1
      OBVIOUS
    <3> QED
      BY <3>1, <3>2, <3>3, <3>4, <3>5
  <2>10. BytesOf(c) = BytesOf(a) \o BytesOf(b)
    BY <2>1, <2>2, <2>3, BytesOfConcat
  <2> QED
    BY <2>4, <2>5, <2>6, <2>7, <2>8, <2>9, <2>10
<1>4. \A n \in Nat : n \in T
  BY <1>2, <1>3, Facts!NatSetInduction
<1>5. PICK n \in Nat : Len(chars) = 4 * n + 4
  <2>1. PICK l \in Nat : l = Len(chars) /\ l # 0 /\ l % 4 = 0
    BY EmptySeq, LenProperties
  <2>2. /\ (l \div 4) - 1 \in Nat
        /\ l = 4 * ((l \div 4) - 1) + 4
    BY <2>1
  <2> QED
    BY <2>1, <2>2
<1> QED
  BY <1>4, <1>5, <1>T

LEMMA PadsConcat ==
    ASSUME NEW a \in Seq(Char), NEW b \in Seq(Char), Len(a) % 4 = 0,
           PadsOnlyLast(a \o b)
    PROVE  PadsOnlyLast(a) /\ PadsOnlyLast(b)
<1>c. PICK c \in Seq(Char) : c = a \o b
  BY ConcatProperties
<1>1. /\ GroupsIn(a) \in Nat /\ GroupsIn(b) \in Nat
      /\ GroupsIn(c) = GroupsIn(a) + GroupsIn(b)
      /\ \A g \in 1 .. GroupsIn(a) : GroupOf(c, g) = GroupOf(a, g)
      /\ \A g \in 1 .. GroupsIn(b) : GroupOf(c, GroupsIn(a) + g) = GroupOf(b, g)
  BY <1>c, GroupsOfConcat
<1>2. \A g \in 1 .. GroupsIn(c) - 1 : PadCount(GroupOf(c, g)) = 0
  BY <1>c DEF PadsOnlyLast
<1>3. ASSUME NEW g \in 1 .. GroupsIn(a) - 1
      PROVE  PadCount(GroupOf(a, g)) = 0
  <2>1. g \in 1 .. GroupsIn(a) /\ g \in 1 .. GroupsIn(c) - 1
    BY <1>1
  <2> QED
    BY <1>1, <1>2, <2>1
<1>4. ASSUME NEW g \in 1 .. GroupsIn(b) - 1
      PROVE  PadCount(GroupOf(b, g)) = 0
  <2>1. g \in 1 .. GroupsIn(b) /\ GroupsIn(a) + g \in 1 .. GroupsIn(c) - 1
    BY <1>1
  <2> QED
    BY <1>1, <1>2, <2>1
<1> QED
  BY <1>3, <1>4 DEF PadsOnlyLast

LEMMA NothingDecodes ==
    /\ GroupsIn(<<>>) = 0 /\ BytesOf(<<>>) = <<>> /\ Decode(<<>>) = <<>>
    /\ AllDecodable(<<>>)
<1>1. GroupsIn(<<>>) = 0
  BY DEF GroupsIn
<1>2. BytesPerGroup(<<>>) = <<>>
  <2>1. /\ BytesPerGroup(<<>>) \in Seq(Seq(DecodedByte))
        /\ Len(BytesPerGroup(<<>>)) = 0
    BY <1>1, BytesType, EmptySeq
  <2> QED
    BY <2>1, EmptySeq
<1>3. Decode(<<>>) = <<>>
  BY DEF Decode, Decodable
<1> QED
  BY <1>1, <1>2, <1>3, FlattenFacts DEF BytesOf, AllDecodable

\* What the decoder accepts is decoded group by group, and what it takes for a
\* failure is no valid base64.
LEMMA BufferDecodes ==
    ASSUME NEW chars \in Seq(Char), Len(chars) % 4 = 0, ~Fails(chars)
    PROVE  Decode(chars) = BytesOf(chars) /\ AllDecodable(chars)
<1>1. CASE chars = <<>>
  BY <1>1, NothingDecodes
<1>2. CASE chars # <<>>
  <2>1. Decodable(chars)
    BY <1>2, FailsMeans
  <2> QED
    BY <1>2, <2>1, WholeGroupsDecode
<1> QED
  BY <1>1, <1>2

LEMMA BufferFails ==
    ASSUME NEW chars \in Seq(Char), Len(chars) % 4 = 0, Fails(chars)
    PROVE  ~(AllDecodable(chars) /\ PadsOnlyLast(chars))
  BY FailsMeans, WholeGroupsDecode
-----------------------------------------------------------------------------
(***************************************************************************)
(* How a piece is cut: the group it completes, whole groups, and the rest. *)
(***************************************************************************)
LEMMA StolenIs ==
    ASSUME leftover \in Seq(Char), Len(leftover) < 4, NEW piece \in Seq(Char)
    PROVE  /\ Len(leftover) \in 0 .. 3 /\ Len(piece) \in Nat
           /\ leftover = <<>> <=> Len(leftover) = 0
           /\ Stolen(piece) = IF Len(leftover) = 0 THEN 0
                              ELSE IF Len(piece) <= 4 - Len(leftover) THEN Len(piece)
                              ELSE 4 - Len(leftover)
<1>1. Len(leftover) \in 0 .. 3 /\ Len(piece) \in Nat
  <2>1. Len(leftover) \in Nat /\ Len(piece) \in Nat
    BY LenProperties
  <2>2. PICK l \in Nat : l = Len(leftover) /\ l < 4
    BY <2>1, Zenon
  <2>3. l \in 0 .. 3
    BY <2>2
  <2> QED
    BY <2>1, <2>2, <2>3, Zenon
<1>2. leftover = <<>> <=> Len(leftover) = 0
  BY <1>1, EmptySeq
<1>3. Len(leftover) % 4 = Len(leftover)
  BY <1>1
<1>4. Min({Len(piece), 4 - Len(leftover)})
         = IF Len(piece) <= 4 - Len(leftover) THEN Len(piece) ELSE 4 - Len(leftover)
  BY <1>1, MinOfTwo
<1> QED
  BY <1>1, <1>2, <1>3, <1>4 DEF Stolen

LEMMA CutOfPiece ==
    ASSUME leftover \in Seq(Char), Len(leftover) < 4,
           NEW piece \in Seq(Char), piece # <<>>, ~TooSmall(piece)
    PROVE  /\ Group(piece) \in Seq(Char) /\ Len(Group(piece)) % 4 = 0
           /\ WholeGroups(piece) \in Seq(Char) /\ Len(WholeGroups(piece)) % 4 = 0
           /\ NewLeftover(piece) \in Seq(Char) /\ Len(NewLeftover(piece)) < 4
           /\ leftover \o piece
                 = Group(piece) \o (WholeGroups(piece) \o NewLeftover(piece))
<1>r. PICK r \in 0 .. 3 : r = Len(leftover)
  BY StolenIs
<1>p. PICK p \in Nat : p = Len(piece) /\ p >= 1
  BY StolenIs, EmptySeq
<1>s. PICK s \in 0 .. p : /\ s = Stolen(piece)
                          /\ s = IF r = 0 THEN 0 ELSE IF p <= 4 - r THEN p ELSE 4 - r
  BY <1>r, <1>p, StolenIs
<1>h. PICK head : head = SubSeq(piece, 1, s)
  OBVIOUS
<1>m. PICK rem : rem = SubSeq(piece, s + 1, p)
  OBVIOUS
<1>1. head \in Seq(Char) /\ Len(head) = s
  BY <1>p, <1>h
<1>2. rem \in Seq(Char) /\ Len(rem) = p - s
  <2>1. \A i \in s + 1 .. p : piece[i] \in Char
    BY <1>p, ElementOfSeq
  <2>2. /\ SubSeq(piece, s + 1, p) \in Seq(Char)
        /\ Len(SubSeq(piece, s + 1, p)) = IF s + 1 <= p THEN p - (s + 1) + 1 ELSE 0
    <3>1. s + 1 \in Int /\ p \in Int
      OBVIOUS
    <3> QED
      BY <2>1, <3>1, SubSeqProperties
  <2> QED
    BY <1>m, <2>2
<1>3. piece = head \o rem
  <2>1. SubSeq(piece, 1, s) \o SubSeq(piece, s + 1, p) = SubSeq(piece, 1, p)
    <3>1. 1 \in 1 .. Len(piece) + 1 /\ s \in 1 - 1 .. Len(piece) /\ p \in s .. Len(piece)
      BY <1>p
    <3> QED
      BY <3>1, ConcatAdjacentSubSeq
  <2> QED
    BY <1>p, <1>h, <1>m, <2>1, SubSeqFull
<1>4. Group(piece) = leftover \o head
  BY <1>s, <1>h DEF Group
<1>5. Group(piece) \in Seq(Char) /\ Len(Group(piece)) = r + s
  BY <1>r, <1>1, <1>4, ConcatProperties
<1>6. r + s = 0 \/ r + s = 4
  <2>1. CASE r = 0
    BY <1>s, <2>1
  <2>2. CASE r # 0 /\ s # p
    BY <1>s, <2>2
  <2>3. CASE r # 0 /\ s = p
    <3>1. leftover # <<>>
      BY <1>r, <2>3, StolenIs
    <3>2. (r + s) % 4 = 0
      BY <1>p, <1>s, <1>5, <2>3, <3>1 DEF TooSmall
    <3>3. r + s \in 1 .. 4
      BY <1>p, <1>s, <2>3
    <3> QED
      BY <3>2, <3>3
  <2> QED
    BY <2>1, <2>2, <2>3
<1>7. Remaining(piece) = rem
  BY <1>p, <1>s, <1>m DEF Remaining
<1>n. PICK n \in Nat : n = p - s
  OBVIOUS
<1>q. PICK q \in 0 .. n : q = 4 * (n \div 4) /\ n - q < 4 /\ q % 4 = 0
  OBVIOUS
<1>8. /\ WholeGroups(piece) = SubSeq(rem, 1, q)
      /\ WholeGroups(piece) \in Seq(Char) /\ Len(WholeGroups(piece)) = q
  <2>1. WholeGroups(piece) = SubSeq(rem, 1, q)
    BY <1>2, <1>7, <1>n, <1>q DEF WholeGroups
  <2>2. SubSeq(rem, 1, q) \in Seq(Char) /\ Len(SubSeq(rem, 1, q)) = q
    BY <1>2, <1>n
  <2> QED
    BY <2>1, <2>2
<1>9. NewLeftover(piece) = SubSeq(rem, q + 1, n)
  BY <1>2, <1>7, <1>8, <1>n DEF NewLeftover
<1>10. NewLeftover(piece) \in Seq(Char) /\ Len(NewLeftover(piece)) = n - q
  <2>1. \A i \in q + 1 .. n : rem[i] \in Char
    BY <1>2, <1>n, ElementOfSeq
  <2>2. /\ SubSeq(rem, q + 1, n) \in Seq(Char)
        /\ Len(SubSeq(rem, q + 1, n)) = IF q + 1 <= n THEN n - (q + 1) + 1 ELSE 0
    <3>1. q + 1 \in Int /\ n \in Int
      OBVIOUS
    <3> QED
      BY <2>1, <3>1, SubSeqProperties
  <2> QED
    BY <1>9, <2>2
<1>11. rem = WholeGroups(piece) \o NewLeftover(piece)
  <2>1. SubSeq(rem, 1, q) \o SubSeq(rem, q + 1, n) = SubSeq(rem, 1, n)
    <3>1. 1 \in 1 .. Len(rem) + 1 /\ q \in 1 - 1 .. Len(rem) /\ n \in q .. Len(rem)
      BY <1>2, <1>n
    <3> QED
      BY <1>2, <3>1, ConcatAdjacentSubSeq
  <2> QED
    BY <1>2, <1>8, <1>9, <1>n, <2>1, SubSeqFull
<1>12. leftover \o piece = (leftover \o head) \o rem
  BY <1>1, <1>2, <1>3, ConcatAssociative
<1>13. Len(Group(piece)) % 4 = 0
  BY <1>5, <1>6
<1>14. Len(WholeGroups(piece)) % 4 = 0 /\ Len(NewLeftover(piece)) < 4
  BY <1>8, <1>10, <1>q
<1> QED
  BY <1>4, <1>5, <1>8, <1>10, <1>11, <1>12, <1>13, <1>14

LEMMA KeptPiece ==
    ASSUME leftover \in Seq(Char), Len(leftover) < 4,
           NEW piece \in Seq(Char), TooSmall(piece)
    PROVE  /\ Group(piece) = leftover \o piece
           /\ Group(piece) \in Seq(Char) /\ Len(Group(piece)) < 4
<1>1. Stolen(piece) = Len(piece) /\ leftover # <<>> /\ Len(Group(piece)) % 4 # 0
  BY DEF TooSmall
<1>2. Group(piece) = leftover \o piece
  BY <1>1, SubSeqFull DEF Group
<1>3. Group(piece) \in Seq(Char) /\ Len(Group(piece)) = Len(leftover) + Len(piece)
  BY <1>2, ConcatProperties
<1>4. Len(leftover) + Len(piece) <= 4
  BY <1>1, StolenIs
<1> QED
  BY <1>1, <1>2, <1>3, <1>4, StolenIs
-----------------------------------------------------------------------------
(***************************************************************************)
(* The inductive invariant.  While there is no error the characters        *)
(* received are whole groups, which are decoded, and the leftover; and an  *)
(* error is final, and no fault of a valid stream that goes on.            *)
(***************************************************************************)
Taken(rec, left) == SubSeq(rec, 1, Len(rec) - Len(left))

\* Concatenation, under a name of its own where the provers need not look into it.
Cat(a, b) == a \o b

DecodedSoFar(rec, left, bytes) ==
    LET whole == Taken(rec, left)
    IN  /\ Len(whole) % 4 = 0
        /\ rec = Cat(whole, left)
        /\ AllDecodable(whole)
        /\ bytes = BytesOf(whole)

NoErrorSoFar ==
    ~has_error => DecodedSoFar(received, leftover, sent) /\ location = Len(sent)

Valid(chars) == AllDecodable(chars) /\ PadsOnlyLast(chars)

ErrorIsFinal ==
    has_error =>
        /\ status = "error" \/ phase = "finished"
        /\ Valid(received) => phase = "finished" /\ Len(received) % 4 # 0

FinishedIsComplete == phase = "finished" /\ ~has_error => ~Incomplete

IInv == TypeOK /\ NoErrorSoFar /\ ErrorIsFinal /\ FinishedIsComplete

LEMMA CatFacts ==
    \A S : /\ \A a, b \in Seq(S) : Cat(a, b) \in Seq(S)
           /\ \A a, b, c \in Seq(S) : Cat(Cat(a, b), c) = Cat(a, Cat(b, c))
  BY ConcatProperties, ConcatAssociative DEF Cat

LEMMA Regrouped ==
    ASSUME NEW S, NEW a \in Seq(S), NEW left \in Seq(S), NEW piece \in Seq(S),
           NEW group \in Seq(S), NEW groups \in Seq(S), NEW rest \in Seq(S),
           Cat(left, piece) = Cat(group, Cat(groups, rest))
    PROVE  Cat(Cat(a, left), piece) = Cat(Cat(a, Cat(group, groups)), rest)
<1>1. Cat(Cat(a, left), piece) = Cat(a, Cat(left, piece))
  BY CatFacts
<1>2. Cat(Cat(group, groups), rest) = Cat(group, Cat(groups, rest))
  BY CatFacts
<1>3. PICK two \in Seq(S) : two = Cat(group, groups)
  BY CatFacts
<1>4. Cat(Cat(a, two), rest) = Cat(a, Cat(two, rest))
  BY CatFacts
<1> QED
  BY <1>1, <1>2, <1>3, <1>4

LEMMA DecodedSoFarIs ==
    ASSUME NEW whole \in Seq(Char), NEW left \in Seq(Char),
           Len(whole) % 4 = 0, AllDecodable(whole)
    PROVE  DecodedSoFar(Cat(whole, left), left, BytesOf(whole))
<1>r. PICK r : r = whole \o left
  OBVIOUS
<1>1. /\ r \in Seq(Char) /\ Len(r) = Len(whole) + Len(left)
      /\ Len(whole) \in Nat /\ Len(left) \in Nat
      /\ \A i \in 1 .. Len(whole) + Len(left) :
            r[i] = IF i <= Len(whole) THEN whole[i] ELSE left[i - Len(whole)]
  BY <1>r, ConcatProperties, LenProperties
<1>2. Taken(r, left) = whole
  <2>n. PICK n \in Nat : n = Len(whole) /\ n = Len(r) - Len(left) /\ n <= Len(r)
    BY <1>1
  <2>1. /\ SubSeq(r, 1, n) \in Seq(Char) /\ Len(SubSeq(r, 1, n)) = n
        /\ \A i \in 1 .. n : SubSeq(r, 1, n)[i] = r[i]
    BY <1>1, <2>n
  <2>2. \A i \in 1 .. n : r[i] = whole[i]
    BY <1>1, <2>n
  <2>3. SubSeq(r, 1, n) = whole
    BY <2>n, <2>1, <2>2, SeqEqual
  <2> QED
    BY <2>n, <2>3 DEF Taken
<1> QED
  BY <1>r, <1>2 DEF DecodedSoFar, Cat

\* A sequence of which so much is decoded begins with whole groups.
LEMMA TakenType ==
    \A rec, left \in Seq(Char) : \A bytes : DecodedSoFar(rec, left, bytes) =>
        \E whole \in Seq(Char) :
           /\ Len(whole) % 4 = 0 /\ rec = Cat(whole, left)
           /\ AllDecodable(whole) /\ bytes = BytesOf(whole)
<1> SUFFICES ASSUME NEW rec \in Seq(Char), NEW left \in Seq(Char), NEW bytes,
                    DecodedSoFar(rec, left, bytes)
             PROVE  Taken(rec, left) \in Seq(Char)
  BY Zenon DEF DecodedSoFar
<1>1. PICK n \in Int : n = Len(rec) - Len(left) /\ n <= Len(rec)
  BY LenProperties
<1>2. \A i \in 1 .. n : rec[i] \in Char
  BY <1>1, ElementOfSeq, LenProperties
<1>3. SubSeq(rec, 1, n) \in Seq(Char)
  BY <1>2, SubSeqProperties
<1> QED
  BY <1>1, <1>3 DEF Taken

LEMMA WholeConcat ==
    \A a, b \in Seq(Char) : Len(a) % 4 = 0 /\ Len(b) % 4 = 0 =>
        /\ Cat(a, b) \in Seq(Char) /\ Len(Cat(a, b)) % 4 = 0
        /\ BytesOf(Cat(a, b)) = Cat(BytesOf(a), BytesOf(b))
        /\ AllDecodable(Cat(a, b)) <=> AllDecodable(a) /\ AllDecodable(b)
        /\ Valid(Cat(a, b)) => Valid(a) /\ Valid(b)
<1> SUFFICES ASSUME NEW a \in Seq(Char), NEW b \in Seq(Char),
                    Len(a) % 4 = 0, Len(b) % 4 = 0
             PROVE  /\ Cat(a, b) \in Seq(Char) /\ Len(Cat(a, b)) % 4 = 0
                    /\ BytesOf(Cat(a, b)) = Cat(BytesOf(a), BytesOf(b))
                    /\ AllDecodable(Cat(a, b)) <=> AllDecodable(a) /\ AllDecodable(b)
                    /\ Valid(Cat(a, b)) => Valid(a) /\ Valid(b)
  BY Zenon
<1>1. a \o b \in Seq(Char) /\ Len(a \o b) = Len(a) + Len(b)
  BY ConcatProperties
<1>2. PICK m \in Nat : m = Len(a)
  BY LenProperties, Zenon
<1>3. PICK n \in Nat : n = Len(b)
  BY LenProperties, Zenon
<1>4. Len(a \o b) % 4 = 0
  BY <1>1, <1>2, <1>3
<1> QED
  BY <1>1, <1>4, BytesOfConcat, DecodableConcat, PadsConcat, Zenon DEF Valid, Cat

\* How the characters left over and a piece are cut into a group, more groups, and
\* the rest.
CutInto(left, piece, group, groups, rest) ==
    /\ Cat(left, piece) = Cat(group, Cat(groups, rest))
    /\ Len(group) % 4 = 0 /\ Len(groups) % 4 = 0

\* What has been decoded with one more piece, and what a failure means.
LEMMA DecodedNext ==
    ASSUME NEW rec \in Seq(Char), NEW left \in Seq(Char), NEW bytes,
           DecodedSoFar(rec, left, bytes),
           NEW piece \in Seq(Char), NEW group \in Seq(Char), NEW groups \in Seq(Char),
           NEW rest \in Seq(Char), CutInto(left, piece, group, groups, rest)
    PROVE  /\ ~Fails(group) /\ ~Fails(groups) =>
                 DecodedSoFar(Cat(rec, piece), rest,
                              Cat(bytes, Cat(Decode(group), Decode(groups))))
           /\ Fails(group) \/ Fails(groups) => ~Valid(Cat(rec, piece))
<1>1. PICK whole \in Seq(Char) :
              /\ Len(whole) % 4 = 0 /\ rec = Cat(whole, left)
              /\ AllDecodable(whole) /\ bytes = BytesOf(whole)
  BY TakenType
<1>c. /\ Cat(left, piece) = Cat(group, Cat(groups, rest))
      /\ Len(group) % 4 = 0 /\ Len(groups) % 4 = 0
  BY Zenon DEF CutInto
<1>g. PICK two \in Seq(Char) : two = Cat(group, groups) /\ Len(two) % 4 = 0
  BY <1>c, WholeConcat, Zenon
<1>w. PICK now \in Seq(Char) : now = Cat(whole, two) /\ Len(now) % 4 = 0
  BY <1>1, <1>g, WholeConcat, Zenon
<1>2. Cat(rec, piece) = Cat(now, rest)
  BY <1>1, <1>c, <1>g, <1>w, Regrouped
<1>3. ASSUME ~Fails(group), ~Fails(groups)
      PROVE  DecodedSoFar(Cat(rec, piece), rest,
                          Cat(bytes, Cat(Decode(group), Decode(groups))))
  <2>1. /\ Decode(group) = BytesOf(group) /\ AllDecodable(group)
        /\ Decode(groups) = BytesOf(groups) /\ AllDecodable(groups)
    BY <1>3, <1>c, BufferDecodes, Zenon
  <2>2. BytesOf(two) = Cat(Decode(group), Decode(groups)) /\ AllDecodable(two)
    BY <1>c, <1>g, <2>1, WholeConcat
  <2>3. BytesOf(now) = Cat(bytes, BytesOf(two)) /\ AllDecodable(now)
    BY <1>1, <1>g, <1>w, <2>2, WholeConcat, Zenon
  <2>4. DecodedSoFar(Cat(now, rest), rest, BytesOf(now))
    BY <1>w, <2>3, DecodedSoFarIs, Zenon
  <2> QED
    BY <1>2, <2>2, <2>3, <2>4, Zenon
<1>4. ASSUME Valid(Cat(rec, piece))
      PROVE  ~Fails(group) /\ ~Fails(groups)
  <2>1. Valid(now)
    BY <1>2, <1>4, <1>w, DecodableConcat, PadsConcat, Zenon DEF Valid, Cat
  <2>2. Valid(two)
    BY <1>1, <1>g, <1>w, <2>1, WholeConcat, Zenon
  <2>3. Valid(group) /\ Valid(groups)
    BY <1>c, <1>g, <2>2, WholeConcat, Zenon
  <2> QED
    BY <1>c, <2>3, BufferFails, Zenon DEF Valid
<1> QED
  BY <1>3, <1>4, Zenon
-----------------------------------------------------------------------------
(***************************************************************************)
(* The initial state and the steps.                                        *)
(***************************************************************************)
LEMMA InitIInv == Init => IInv
<1> SUFFICES ASSUME Init
             PROVE  IInv
  OBVIOUS
<1>1. TypeOK
  <2>1. Len(leftover) = 0 /\ 0 < 4
    BY EmptySeq DEF Init
  <2> QED
    BY <2>1, EmptySeq DEF Init, TypeOK, TransferStatus
<1>2. DecodedSoFar(received, leftover, sent)
  <2>1. Cat(<<>>, <<>>) = <<>>
    BY DEF Cat
  <2>2. <<>> \in Seq(Char) /\ Len(<<>>) % 4 = 0
    BY EmptySeq
  <2>3. DecodedSoFar(Cat(<<>>, <<>>), <<>>, BytesOf(<<>>))
    BY <2>2, DecodedSoFarIs, NothingDecodes
  <2> QED
    BY <2>1, <2>3, NothingDecodes DEF Init
<1>3. location = Len(sent)
  BY EmptySeq DEF Init
<1> QED
  BY <1>1, <1>2, <1>3 DEF Init, IInv, NoErrorSoFar, ErrorIsFinal, FinishedIsComplete

\* A piece arrives only before an error, so all that was received is decoded.
LEMMA Arriving ==
    ASSUME IInv, NEW piece \in Seq(Char), Arrives(piece)
    PROVE  /\ piece \in Seq(Char) /\ received \in Seq(Char) /\ leftover \in Seq(Char)
           /\ Len(leftover) < 4
           /\ received' = Cat(received, piece) /\ received' \in Seq(Char)
           /\ ~has_error /\ phase = "transferring" /\ phase' = "transferring"
           /\ DecodedSoFar(received, leftover, sent) /\ location = Len(sent)
<1>1. piece \in Seq(Char) /\ received \in Seq(Char)
  BY DEF IInv, TypeOK
<1>2. received' = Cat(received, piece) /\ received' \in Seq(Char)
  BY <1>1, ConcatProperties DEF Arrives, Cat
<1>3. ~has_error
  BY DEF IInv, ErrorIsFinal, Arrives
<1> QED
  BY <1>1, <1>2, <1>3 DEF IInv, TypeOK, NoErrorSoFar, Arrives

LEMMA NothingStep ==
    ASSUME IInv, NEW piece \in Seq(Char), Arrives(piece), TransferNothing(piece)
    PROVE  IInv'
<1>1. received' = received
  BY Arriving, ConcatEmptySeq DEF TransferNothing, Cat
<1>2. UNCHANGED <<phase, received, leftover, sent, location, has_error, answers>>
  BY <1>1 DEF Arrives, TransferNothing
<1>3. TypeOK'
  BY <1>2 DEF IInv, TypeOK, TransferNothing, TransferStatus
<1>4. NoErrorSoFar' /\ ErrorIsFinal' /\ FinishedIsComplete'
  BY <1>2, Arriving DEF IInv, NoErrorSoFar, ErrorIsFinal, FinishedIsComplete
<1> QED
  BY <1>3, <1>4 DEF IInv

LEMMA TooSmallStep ==
    ASSUME IInv, NEW piece \in Seq(Char), Arrives(piece), TransferTooSmall(piece)
    PROVE  IInv'
<1>0. /\ piece \in Seq(Char) /\ leftover \in Seq(Char) /\ Len(leftover) < 4
      /\ received' = Cat(received, piece) /\ received' \in Seq(Char)
      /\ ~has_error /\ phase' = "transferring"
      /\ DecodedSoFar(received, leftover, sent) /\ location = Len(sent)
      /\ received \in Seq(Char)
  BY Arriving
<1>1. /\ leftover' = Cat(leftover, piece)
      /\ leftover' \in Seq(Char) /\ Len(leftover') < 4
  BY <1>0, KeptPiece DEF TransferTooSmall, Cat
<1>2. UNCHANGED <<sent, location, has_error, answers>> /\ status' = "ok"
  BY DEF TransferTooSmall
<1>3. DecodedSoFar(received', leftover', sent')
  <2>1. PICK whole \in Seq(Char) :
           /\ Len(whole) % 4 = 0 /\ received = Cat(whole, leftover)
           /\ AllDecodable(whole) /\ sent = BytesOf(whole)
    BY <1>0, TakenType
  <2>2. received' = Cat(whole, leftover')
    BY <1>0, <1>1, <2>1, CatFacts
  <2>3. DecodedSoFar(Cat(whole, leftover'), leftover', BytesOf(whole))
    BY <1>1, <2>1, DecodedSoFarIs
  <2> QED
    BY <1>2, <2>1, <2>2, <2>3
<1>4. TypeOK'
  BY <1>0, <1>1, <1>2 DEF IInv, TypeOK, TransferStatus
<1>5. NoErrorSoFar' /\ ErrorIsFinal' /\ FinishedIsComplete'
  BY <1>0, <1>2, <1>3 DEF NoErrorSoFar, ErrorIsFinal, FinishedIsComplete
<1> QED
  BY <1>4, <1>5 DEF IInv

\* What DecodedNext says of the piece that arrives.
LEMMA PieceDecodes ==
    ASSUME IInv, NEW piece \in Seq(Char), Arrives(piece), piece # <<>>, ~TooSmall(piece)
    PROVE  /\ Group(piece) \in Seq(Char) /\ WholeGroups(piece) \in Seq(Char)
           /\ NewLeftover(piece) \in Seq(Char) /\ Len(NewLeftover(piece)) < 4
           /\ ~Fails(Group(piece)) /\ ~Fails(WholeGroups(piece)) =>
                 DecodedSoFar(received', NewLeftover(piece),
                    Cat(sent, Cat(Decode(Group(piece)), Decode(WholeGroups(piece)))))
           /\ Fails(Group(piece)) \/ Fails(WholeGroups(piece)) => ~Valid(received')
<1>0. /\ piece \in Seq(Char) /\ leftover \in Seq(Char) /\ Len(leftover) < 4
      /\ received' = Cat(received, piece)
      /\ DecodedSoFar(received, leftover, sent)
      /\ received \in Seq(Char)
  BY Arriving
<1>1. /\ Group(piece) \in Seq(Char) /\ WholeGroups(piece) \in Seq(Char)
      /\ NewLeftover(piece) \in Seq(Char) /\ Len(NewLeftover(piece)) < 4
      /\ CutInto(leftover, piece, Group(piece), WholeGroups(piece), NewLeftover(piece))
  BY <1>0, CutOfPiece DEF CutInto, Cat
<1> PICK group \in Seq(Char) : group = Group(piece)
  BY <1>1
<1> PICK groups \in Seq(Char) : groups = WholeGroups(piece)
  BY <1>1
<1> PICK rest \in Seq(Char) : rest = NewLeftover(piece)
  BY <1>1
<1>2. CutInto(leftover, piece, group, groups, rest)
  BY <1>1
<1>3. /\ ~Fails(group) /\ ~Fails(groups) =>
            DecodedSoFar(Cat(received, piece), rest,
                         Cat(sent, Cat(Decode(group), Decode(groups))))
      /\ Fails(group) \/ Fails(groups) => ~Valid(Cat(received, piece))
  BY <1>0, <1>2, DecodedNext
<1> QED
  BY <1>0, <1>1, <1>3

LEMMA UndecodableStep ==
    ASSUME IInv, NEW piece \in Seq(Char), Arrives(piece), TransferUndecodable(piece)
    PROVE  IInv'
<1>0. received' \in Seq(Char) /\ phase' = "transferring"
  BY Arriving
<1>1. ~Valid(received')
  BY PieceDecodes DEF TransferUndecodable
<1>2. /\ has_error' = TRUE /\ status' = "error" /\ leftover' = <<>>
      /\ UNCHANGED <<sent, location, answers>>
  BY DEF TransferUndecodable
<1>3. TypeOK'
  <2>1. leftover' \in Seq(Char) /\ Len(leftover') < 4
    BY <1>2, EmptySeq
  <2> QED
    BY <1>0, <1>2, <2>1 DEF IInv, TypeOK, TransferStatus
<1> QED
  BY <1>0, <1>1, <1>2, <1>3 DEF IInv, NoErrorSoFar, ErrorIsFinal, FinishedIsComplete, Valid

LEMMA DecodedStep ==
    ASSUME IInv, NEW piece \in Seq(Char), Arrives(piece), TransferDecoded(piece)
    PROVE  IInv'
<1>0. /\ received' \in Seq(Char) /\ phase' = "transferring"
      /\ ~has_error /\ location = Len(sent)
  BY Arriving
<1> PICK bytes : bytes = Cat(Decode(Group(piece)), Decode(WholeGroups(piece)))
  OBVIOUS
<1>1. /\ sent' = Cat(sent, bytes) /\ location' = location + Len(bytes)
      /\ leftover' = NewLeftover(piece)
      /\ status' \in TransferStatus /\ answers' = answers \cup {status'}
      /\ has_error' = has_error
  BY DEF TransferDecoded, Cat
<1>2. /\ Group(piece) \in Seq(Char) /\ WholeGroups(piece) \in Seq(Char)
      /\ leftover' \in Seq(Char) /\ Len(leftover') < 4
      /\ DecodedSoFar(received', leftover', sent')
  BY <1>1, PieceDecodes DEF TransferDecoded
<1>3. bytes \in Seq(DecodedByte)
  BY <1>2, DecodeType, CatFacts
<1>4. /\ sent' \in Seq(DecodedByte) /\ location' \in Nat
      /\ location' = Len(sent')
  <2>1. sent \in Seq(DecodedByte) /\ location \in Nat
    BY DEF IInv, TypeOK
  <2>2. /\ Cat(sent, bytes) \in Seq(DecodedByte)
        /\ Len(Cat(sent, bytes)) = Len(sent) + Len(bytes)
    BY <1>3, <2>1, ConcatProperties DEF Cat
  <2>3. Len(bytes) \in Nat
    BY <1>3, LenProperties
  <2> QED
    BY <1>0, <1>1, <2>1, <2>2, <2>3
<1>5. TypeOK'
  BY <1>0, <1>1, <1>2, <1>4 DEF IInv, TypeOK
<1>6. NoErrorSoFar' /\ ErrorIsFinal' /\ FinishedIsComplete'
  BY <1>0, <1>1, <1>2, <1>4 DEF NoErrorSoFar, ErrorIsFinal, FinishedIsComplete
<1> QED
  BY <1>5, <1>6 DEF IInv

\* What is left over is incomplete exactly if the stream is.
LEMMA IncompleteStream ==
    ASSUME NEW rec \in Seq(Char), NEW left \in Seq(Char), NEW bytes,
           DecodedSoFar(rec, left, bytes)
    PROVE  Len(rec) % 4 = Len(left) % 4
<1>1. PICK whole \in Seq(Char) : Len(whole) % 4 = 0 /\ rec = Cat(whole, left)
  BY TakenType
<1>2. Len(rec) = Len(whole) + Len(left)
  BY <1>1, ConcatProperties DEF Cat
<1>3. PICK l \in Nat : l = Len(left)
  BY LenProperties, Zenon
<1>4. PICK w \in Nat : w = Len(whole)
  BY LenProperties, Zenon
<1>5. w % 4 = 0
  BY <1>1, <1>4
<1>6. (w + l) % 4 = l % 4
  BY <1>5
<1> QED
  BY <1>2, <1>3, <1>4, <1>6

LEMMA FinishStep ==
    ASSUME IInv, FinishTransfer
    PROVE  IInv'
<1>1. /\ phase' = "finished" /\ has_error' = (has_error \/ Incomplete)
      /\ UNCHANGED <<received, leftover, sent, location, status, answers>>
      /\ phase = "transferring"
  BY DEF FinishTransfer
<1>2. TypeOK'
  BY <1>1 DEF IInv, TypeOK, Incomplete
<1>3. NoErrorSoFar'
  BY <1>1 DEF IInv, NoErrorSoFar
<1>4. ErrorIsFinal'
  <2> SUFFICES ASSUME has_error', Valid(received')
               PROVE  Len(received) % 4 # 0
    BY <1>1 DEF ErrorIsFinal
  <2>1. ~has_error
    BY <1>1 DEF IInv, ErrorIsFinal
  <2>2. Incomplete /\ DecodedSoFar(received, leftover, sent)
    BY <1>1, <2>1 DEF IInv, NoErrorSoFar
  <2> QED
    BY <2>2, IncompleteStream DEF IInv, TypeOK, Incomplete
<1>5. FinishedIsComplete'
  BY <1>1 DEF FinishedIsComplete, Incomplete
<1> QED
  BY <1>2, <1>3, <1>4, <1>5 DEF IInv

LEMMA NextIInv == IInv /\ [Next]_vars => IInv'
<1> SUFFICES ASSUME IInv, [Next]_vars
             PROVE  IInv'
  OBVIOUS
<1>1. ASSUME NEW piece \in Pieces, TransferPiece(piece)
      PROVE  IInv'
  BY <1>1, PiecesAssumption, NothingStep, TooSmallStep, UndecodableStep, DecodedStep
     DEF TransferPiece
<1>2. CASE FinishTransfer
  BY <1>2, FinishStep
<1>3. CASE UNCHANGED vars
  BY <1>3 DEF vars, IInv, TypeOK, NoErrorSoFar, ErrorIsFinal, FinishedIsComplete, Incomplete
<1> QED
  BY <1>1, <1>2, <1>3 DEF Next, Transfer

LEMMA Invariance == Spec => []IInv
<1> QED
  BY InitIInv, NextIInv, PTL DEF Spec
-----------------------------------------------------------------------------
(***************************************************************************)
(* The theorems.                                                           *)
(***************************************************************************)

\* Every variable of the decoder has its type: fewer than four characters are ever
\* kept, and what was sent are decoded bytes.
THEOREM TypeCorrect == Spec => []TypeOK
<1>1. IInv => TypeOK
  BY DEF IInv
<1> QED
  BY <1>1, Invariance, PTL

LEMMA GroupsOfReceived ==
    ASSUME received \in Seq(Char), NEW left \in Seq(Char), NEW bytes,
           Len(left) < 4, DecodedSoFar(received, left, bytes)
    PROVE  /\ bytes = BytesOfGroups /\ AllDecodable(received)
           /\ left = SubSeq(received, 4 * GroupCount + 1, Len(received))
<1>1. PICK whole \in Seq(Char) :
         /\ Len(whole) % 4 = 0 /\ received = Cat(whole, left)
         /\ AllDecodable(whole) /\ bytes = BytesOf(whole)
  BY TakenType
<1>l. PICK l \in Nat : l = Len(left) /\ l < 4
  <2>1. Len(left) \in Nat
    BY LenProperties
  <2> QED
    BY <2>1, Zenon
<1>m. PICK m \in Nat : Len(whole) = 4 * m /\ m = GroupsIn(whole)
  BY <1>1, LenProperties DEF GroupsIn
<1>2. GroupsIn(left) = 0
  <2>1. l \div 4 = 0
    BY <1>l
  <2> QED
    BY <1>l, <2>1 DEF GroupsIn
<1>3. AllDecodable(left) /\ BytesOf(left) = <<>>
  <2>1. AllDecodable(left)
    BY <1>2 DEF AllDecodable
  <2>2. BytesPerGroup(left) = <<>>
    BY <1>2, BytesType, EmptySeq
  <2> QED
    BY <2>1, <2>2, FlattenFacts DEF BytesOf
<1>4. AllDecodable(received)
  BY <1>1, <1>3, DecodableConcat DEF Cat
<1>5. BytesOf(received) = bytes
  <2>1. BytesOf(received) = BytesOf(whole) \o <<>>
    BY <1>1, <1>3, BytesOfConcat DEF Cat
  <2>2. BytesOf(whole) \o <<>> = BytesOf(whole)
    BY BytesType, ConcatEmptySeq
  <2> QED
    BY <1>1, <2>1, <2>2
<1>6. BytesOf(received) = BytesOfGroups
  BY DEF BytesOf, BytesPerGroup, BytesOfGroups, GroupsIn, GroupCount, GroupOf, GroupAt
<1>7. Len(received) = 4 * m + l
  BY <1>1, <1>l, <1>m, ConcatProperties DEF Cat
<1>8. GroupCount = m
  <2>1. (4 * m + l) \div 4 = m
    BY <1>l
  <2> QED
    BY <1>7, <2>1 DEF GroupCount
<1>9. left = SubSeq(received, 4 * m + 1, 4 * m + l)
  <2>n. PICK n \in Nat : n = 4 * m
    OBVIOUS
  <2>1. \A i \in n + 1 .. n + l : received[i] \in Char
    BY <1>7, <2>n, ElementOfSeq
  <2>2. /\ SubSeq(received, n + 1, n + l) \in Seq(Char)
        /\ Len(SubSeq(received, n + 1, n + l))
               = IF n + 1 <= n + l THEN (n + l) - (n + 1) + 1 ELSE 0
        /\ \A i \in 1 .. (n + l) - (n + 1) + 1 :
              SubSeq(received, n + 1, n + l)[i] = received[(n + 1) + i - 1]
    <3>1. n + 1 \in Int /\ n + l \in Int
      OBVIOUS
    <3> QED
      BY <2>1, <3>1, SubSeqProperties
  <2>3. Len(SubSeq(received, n + 1, n + l)) = l
    BY <2>2
  <2>4. ASSUME NEW i \in 1 .. l
        PROVE  SubSeq(received, n + 1, n + l)[i] = left[i]
    <3>1. /\ i \in 1 .. (n + l) - (n + 1) + 1 /\ (n + 1) + i - 1 = n + i
          /\ n + i \in 1 .. n + l /\ ~(n + i <= n) /\ (n + i) - n = i
      OBVIOUS
    <3>2. \A j \in 1 .. n + l : received[j] = IF j <= n THEN whole[j] ELSE left[j - n]
      <4>1. \A j \in 1 .. Len(whole) + Len(left) :
               received[j] = IF j <= Len(whole) THEN whole[j] ELSE left[j - Len(whole)]
        BY <1>1, ConcatProperties DEF Cat
      <4> QED
        BY <1>l, <1>m, <2>n, <4>1
    <3> QED
      BY <2>2, <3>1, <3>2
  <2> QED
    BY <1>l, <2>n, <2>2, <2>3, <2>4, SeqEqual
<1> QED
  BY <1>4, <1>5, <1>6, <1>7, <1>8, <1>9

\* Wherever the transfers cut the stream, the bytes sent are those of its complete
\* groups, and the characters kept are those of the incomplete one.
THEOREM Decoding == Spec => []GroupsAreDecoded
<1>1. IInv => GroupsAreDecoded
  <2> SUFFICES ASSUME IInv, ~has_error
               PROVE  /\ sent = BytesOfGroups
                      /\ leftover = SubSeq(received, 4 * GroupCount + 1, Len(received))
                      /\ location = Len(sent)
                      /\ \A g \in 1 .. GroupCount : Decodable(GroupAt(g))
    BY DEF GroupsAreDecoded
  <2>1. /\ received \in Seq(Char) /\ leftover \in Seq(Char) /\ Len(leftover) < 4
        /\ DecodedSoFar(received, leftover, sent) /\ location = Len(sent)
    BY DEF IInv, TypeOK, NoErrorSoFar
  <2>2. /\ sent = BytesOfGroups /\ AllDecodable(received)
        /\ leftover = SubSeq(received, 4 * GroupCount + 1, Len(received))
    BY <2>1, GroupsOfReceived
  <2> QED
    BY <2>1, <2>2 DEF AllDecodable, GroupsIn, GroupCount, GroupOf, GroupAt
<1> QED
  BY <1>1, Invariance, PTL

\* Valid base64 is never rejected before it ends, and at its end only if a group is
\* incomplete.
THEOREM Acceptance == Spec => []ValidStreamIsAccepted
<1>1. IInv => ValidStreamIsAccepted
  BY DEF IInv, ErrorIsFinal, Valid, ValidStreamIsAccepted, AllDecodable, PadsOnlyLast,
         GroupsIn, GroupCount, GroupOf, GroupAt
<1> QED
  BY <1>1, Invariance, PTL

\* A stream that was accepted to its end was decoded to its last character.
THEOREM Completeness == Spec => []AcceptedStreamIsComplete
<1>1. IInv => AcceptedStreamIsComplete
  <2> SUFFICES ASSUME IInv, phase = "finished", ~has_error
               PROVE  Len(received) % 4 = 0 /\ sent = BytesOfGroups
    BY DEF AcceptedStreamIsComplete
  <2>1. /\ received \in Seq(Char) /\ leftover \in Seq(Char) /\ Len(leftover) < 4
        /\ DecodedSoFar(received, leftover, sent) /\ Len(leftover) % 4 = 0
    BY DEF IInv, TypeOK, NoErrorSoFar, FinishedIsComplete, Incomplete
  <2>2. sent = BytesOfGroups
    BY <2>1, GroupsOfReceived
  <2>3. Len(received) % 4 = Len(leftover) % 4
    BY <2>1, IncompleteStream
  <2> QED
    BY <2>1, <2>2, <2>3
<1> QED
  BY <1>1, Invariance, PTL
-----------------------------------------------------------------------------
(***************************************************************************)
(* Sequences that are flattened: where each of them is in the whole.       *)
(***************************************************************************)
LEMMA SubSeqFacts ==
    ASSUME NEW S, NEW s \in Seq(S), NEW a \in Nat, NEW b \in Nat,
           1 <= a, b <= Len(s)
    PROVE  /\ SubSeq(s, a, b) \in Seq(S)
           /\ Len(SubSeq(s, a, b)) = IF a <= b THEN b - a + 1 ELSE 0
           /\ \A i \in 1 .. b - a + 1 : SubSeq(s, a, b)[i] = s[a + i - 1]
<1>1. \A i \in a .. b : s[i] \in S
  BY ElementOfSeq, LenProperties
<1> QED
  BY <1>1, SubSeqProperties

\* The place of s[e] in the sequence all of s is flattened to.
IsAt(s, e, flat) ==
    /\ LengthBefore(s, e) \in Nat /\ LengthBefore(s, e + 1) \in Nat
    /\ LengthBefore(s, e + 1) = LengthBefore(s, e) + Len(s[e])
    /\ LengthBefore(s, e + 1) <= Len(flat)
    /\ \A i \in 1 .. Len(s[e]) : flat[LengthBefore(s, e) + i] = s[e][i]

LEMMA LengthsBefore ==
    ASSUME NEW S, NEW s \in Seq(Seq(S))
    PROVE  /\ FlattenSeq(s) \in Seq(S)
           /\ LengthBefore(s, 1) = 0
           /\ LengthBefore(s, Len(s) + 1) = Len(FlattenSeq(s))
           /\ \A e \in 1 .. Len(s) : IsAt(s, e, FlattenSeq(s))
<1>n. PICK n \in Nat : n = Len(s)
  BY LenProperties
<1>1. FlattenSeq(s) \in Seq(S)
  BY FlattenFacts
<1>2. LengthBefore(s, 1) = 0
  <2>1. SubSeq(s, 1, 1 - 1) = <<>>
    BY EmptySeq
  <2> QED
    BY <2>1, FlattenFacts, EmptySeq DEF LengthBefore
<1>3. LengthBefore(s, n + 1) = Len(FlattenSeq(s))
  <2>1. SubSeq(s, 1, (n + 1) - 1) = s
    BY <1>n, SubSeqFull
  <2> QED
    BY <2>1 DEF LengthBefore
<1>4. ASSUME NEW e \in 1 .. n
      PROVE  IsAt(s, e, FlattenSeq(s))
  <2>b. PICK before : before = SubSeq(s, 1, e - 1)
    OBVIOUS
  <2>a. PICK after : after = SubSeq(s, e + 1, n)
    OBVIOUS
  <2>u. PICK upto : upto = SubSeq(s, 1, e)
    OBVIOUS
  <2>1. before \in Seq(Seq(S)) /\ after \in Seq(Seq(S)) /\ upto \in Seq(Seq(S))
    <3>1. e - 1 \in Nat /\ e + 1 \in Nat /\ e \in Nat /\ e - 1 <= n /\ 1 <= e + 1
      BY <1>n
    <3> QED
      BY <1>n, <2>b, <2>a, <2>u, <3>1, SubSeqFacts
  <2>2. s[e] \in Seq(S)
    BY <1>n, ElementOfSeq
  <2>3. upto = Append(before, s[e])
    <3>1. /\ Len(before) = e - 1 /\ \A i \in 1 .. e - 1 : before[i] = s[i]
          /\ Len(upto) = e /\ \A i \in 1 .. e : upto[i] = s[i]
      BY <1>n, <2>b, <2>u
    <3>p. PICK p : p = Append(before, s[e])
      OBVIOUS
    <3>2. /\ p \in Seq(Seq(S)) /\ Len(p) = e /\ p[e] = s[e]
          /\ \A i \in 1 .. e - 1 : p[i] = before[i]
      BY <2>1, <2>2, <3>1, <3>p, AppendProperties
    <3>3. \A i \in 1 .. e : p[i] = upto[i]
      <4>1. \A i \in 1 .. e : i = e \/ i \in 1 .. e - 1
        OBVIOUS
      <4> QED
        BY <3>1, <3>2, <4>1
    <3> QED
      BY <2>1, <3>1, <3>2, <3>3, <3>p, SeqEqual
  <2>4. s = upto \o after
    <3>1. SubSeq(s, 1, e) \o SubSeq(s, e + 1, n) = SubSeq(s, 1, n)
      <4>1. 1 \in 1 .. Len(s) + 1 /\ e \in 1 - 1 .. Len(s) /\ n \in e .. Len(s)
        BY <1>n
      <4> QED
        BY <4>1, ConcatAdjacentSubSeq
    <3> QED
      BY <1>n, <2>a, <2>u, <3>1, SubSeqFull
  <2> PICK fb \in Seq(S) : fb = FlattenSeq(before)
    BY <2>1, FlattenFacts
  <2> PICK fa \in Seq(S) : fa = FlattenSeq(after)
    BY <2>1, FlattenFacts
  <2> PICK fu \in Seq(S) : fu = FlattenSeq(upto)
    BY <2>1, FlattenFacts
  <2> PICK t \in Seq(S) : t = s[e]
    BY <2>2
  <2>5. fu = fb \o t
    BY <2>1, <2>2, <2>3, FlattenFacts
  <2> PICK flat \in Seq(S) : flat = FlattenSeq(s)
    BY <1>1
  <2>6. flat = fu \o fa
    BY <2>1, <2>4, FlattenFacts
  <2>7. Len(fb) \in Nat /\ Len(t) \in Nat /\ Len(fu) \in Nat /\ Len(fa) \in Nat
    BY LenProperties
  <2>8. /\ Len(fu) = Len(fb) + Len(t) /\ Len(flat) = Len(fu) + Len(fa)
        /\ \A i \in 1 .. Len(fb) + Len(t) :
              fu[i] = IF i <= Len(fb) THEN fb[i] ELSE t[i - Len(fb)]
        /\ \A i \in 1 .. Len(fu) + Len(fa) :
              flat[i] = IF i <= Len(fu) THEN fu[i] ELSE fa[i - Len(fu)]
    BY <2>5, <2>6, ConcatProperties
  <2>9. LengthBefore(s, e) = Len(fb) /\ LengthBefore(s, e + 1) = Len(fu)
    <3>1. (e + 1) - 1 = e
      OBVIOUS
    <3> QED
      BY <2>b, <2>u, <3>1, Zenon DEF LengthBefore
  <2>10. ASSUME NEW i \in 1 .. Len(t)
         PROVE  flat[Len(fb) + i] = t[i]
    <3>1. /\ Len(fb) + i \in 1 .. Len(fb) + Len(t) /\ ~(Len(fb) + i <= Len(fb))
          /\ (Len(fb) + i) - Len(fb) = i
          /\ Len(fb) + i \in 1 .. Len(fu) + Len(fa) /\ Len(fb) + i <= Len(fu)
      BY <2>7, <2>8
    <3> QED
      BY <2>8, <3>1
  <2>11. Len(fu) <= Len(flat)
    BY <2>7, <2>8
  <2> QED
    BY <2>7, <2>8, <2>9, <2>10, <2>11 DEF IsAt
<1> QED
  BY <1>n, <1>1, <1>2, <1>3, <1>4

GrownTo(b, f) == \A e \in 1 .. f : b[e] \in Nat /\ b[f] \in Nat /\ b[e] <= b[f]

\* What comes later begins later.
LEMMA LengthsGrow ==
    ASSUME NEW S, NEW s \in Seq(Seq(S))
    PROVE  \A f \in 1 .. Len(s) + 1 : \A e \in 1 .. f :
              /\ LengthBefore(s, e) \in Nat /\ LengthBefore(s, f) \in Nat
              /\ LengthBefore(s, e) <= LengthBefore(s, f)
<1>n. PICK n \in Nat : n = Len(s)
  BY LenProperties
<1>0. LengthBefore(s, 1) = 0 /\ \A e \in 1 .. n : IsAt(s, e, FlattenSeq(s))
  BY <1>n, LengthsBefore
<1> PICK b : b = [e \in Nat |-> LengthBefore(s, e)]
  OBVIOUS
<1>1. \A e \in Nat : b[e] = LengthBefore(s, e)
  OBVIOUS
<1>2. ASSUME NEW e \in 1 .. n
      PROVE  b[e] \in Nat /\ b[e + 1] \in Nat /\ b[e] <= b[e + 1]
  <2>1. IsAt(s, e, FlattenSeq(s)) /\ Len(s[e]) \in Nat
    BY <1>n, <1>0, ElementOfSeq, LenProperties
  <2>2. b[e] = LengthBefore(s, e) /\ b[e + 1] = LengthBefore(s, e + 1)
    BY <1>1
  <2>3. PICK l \in Nat : l = Len(s[e])
    BY <2>1
  <2> QED
    BY <2>1, <2>2, <2>3 DEF IsAt
<1> PICK T : T = {f \in Nat : f <= n => GrownTo(b, f + 1)}
  OBVIOUS
<1>3. 0 \in T
  <2>1. b[0 + 1] = 0 /\ \A e \in 1 .. 0 + 1 : e = 0 + 1
    BY <1>0, <1>1
  <2> QED
    BY <2>1 DEF GrownTo
<1>4. ASSUME NEW f \in Nat, f \in T
      PROVE  f + 1 \in T
  <2> SUFFICES ASSUME f + 1 <= n
               PROVE  GrownTo(b, (f + 1) + 1)
    OBVIOUS
  <2> PICK g \in 1 .. n : g = f + 1
    OBVIOUS
  <2>1. b[g] \in Nat /\ b[g + 1] \in Nat /\ b[g] <= b[g + 1]
    BY <1>2
  <2>2. \A d \in 1 .. g : b[d] \in Nat /\ b[d] <= b[g]
    <3>1. GrownTo(b, g)
      BY <1>4
    <3> QED
      BY <3>1, Zenon DEF GrownTo
  <2>3. \A d \in 1 .. g + 1 : d \in 1 .. g \/ d = g + 1
    OBVIOUS
  <2>4. \A d \in 1 .. g + 1 : b[d] \in Nat /\ b[d] <= b[g + 1]
    <3> SUFFICES ASSUME NEW d \in 1 .. g + 1
                 PROVE  b[d] \in Nat /\ b[d] <= b[g + 1]
      OBVIOUS
    <3>1. CASE d = g + 1
      BY <2>1, <3>1
    <3>2. CASE d \in 1 .. g
      <4>1. PICK x \in Nat : x = b[d] /\ x <= b[g]
        BY <2>2, <3>2
      <4>2. PICK y \in Nat : y = b[g] /\ y <= b[g + 1]
        BY <2>1
      <4>3. PICK z \in Nat : z = b[g + 1]
        BY <2>1
      <4> QED
        BY <4>1, <4>2, <4>3
    <3> QED
      BY <2>3, <3>1, <3>2
  <2> QED
    BY <2>1, <2>4, Zenon DEF GrownTo
<1>5. \A f \in Nat : f \in T
  BY <1>3, <1>4, Facts!NatSetInduction
<1> SUFFICES ASSUME NEW f \in 1 .. n + 1, NEW e \in 1 .. f
             PROVE  /\ LengthBefore(s, e) \in Nat /\ LengthBefore(s, f) \in Nat
                    /\ LengthBefore(s, e) <= LengthBefore(s, f)
  BY <1>n
<1>6. PICK g \in Nat : g <= n /\ g + 1 = f
  <2>1. f - 1 \in Nat /\ f - 1 <= n /\ (f - 1) + 1 = f
    OBVIOUS
  <2> QED
    BY <2>1
<1>7. GrownTo(b, f)
  BY <1>5, <1>6
<1>8. b[e] \in Nat /\ b[f] \in Nat /\ b[e] <= b[f]
  BY <1>7 DEF GrownTo
<1> QED
  BY <1>1, <1>8

Between(b, n, p) == \E e \in 1 .. n : b[e] < p /\ p <= b[e + 1]

\* Each place of the whole is in one of the sequences.
LEMMA PlaceOf ==
    ASSUME NEW S, NEW s \in Seq(Seq(S)), NEW p \in 1 .. Len(FlattenSeq(s))
    PROVE  \E e \in 1 .. Len(s) : \E i \in 1 .. Len(s[e]) : p = LengthBefore(s, e) + i
<1>n. PICK n \in Nat : n = Len(s)
  BY LenProperties
<1>0. /\ LengthBefore(s, 1) = 0 /\ LengthBefore(s, n + 1) = Len(FlattenSeq(s))
      /\ \A e \in 1 .. n : IsAt(s, e, FlattenSeq(s))
      /\ FlattenSeq(s) \in Seq(S)
  BY <1>n, LengthsBefore
<1> PICK b : b = [e \in Nat |-> LengthBefore(s, e)]
  OBVIOUS
<1>1. \A e \in Nat : b[e] = LengthBefore(s, e)
  OBVIOUS
<1> PICK T : T = {f \in Nat : f <= n /\ p <= b[f + 1] => Between(b, n, p)}
  OBVIOUS
<1>2. p \in Nat /\ p >= 1
  BY <1>0, LenProperties
<1>3. 0 \in T
  <2>1. b[0 + 1] = 0
    BY <1>0, <1>1
  <2> QED
    BY <1>2, <2>1
<1>4. ASSUME NEW f \in Nat, f \in T
      PROVE  f + 1 \in T
  <2> SUFFICES ASSUME f + 1 <= n, p <= b[(f + 1) + 1]
               PROVE  Between(b, n, p)
    OBVIOUS
  <2> PICK g \in 1 .. n : g = f + 1
    OBVIOUS
  <2>1. CASE p <= b[g]
    BY <1>4, <2>1
  <2>2. CASE ~(p <= b[g])
    <3>1. b[g] \in Nat
      <4>1. LengthBefore(s, g) \in Nat
        BY <1>0 DEF IsAt
      <4> QED
        BY <1>1, <4>1
    <3>2. b[g] < p
      BY <1>2, <2>2, <3>1
    <3> QED
      BY <3>2 DEF Between
  <2> QED
    BY <2>1, <2>2
<1>5. \A f \in Nat : f \in T
  BY <1>3, <1>4, Facts!NatSetInduction
<1>6. PICK e \in 1 .. n : b[e] < p /\ p <= b[e + 1]
  <2>1. p <= b[n + 1]
    <3>1. b[n + 1] = LengthBefore(s, n + 1)
      BY <1>1
    <3>2. Len(FlattenSeq(s)) \in Nat
      BY <1>0, LenProperties
    <3> QED
      BY <1>0, <3>1, <3>2
  <2>2. Between(b, n, p)
    BY <1>5, <2>1
  <2> QED
    BY <2>2 DEF Between
<1>7. PICK x \in Nat : x = b[e] /\ x = LengthBefore(s, e)
  <2>1. LengthBefore(s, e) \in Nat
    BY <1>0 DEF IsAt
  <2>2. b[e] = LengthBefore(s, e)
    BY <1>1
  <2> QED
    BY <2>1, <2>2
<1>8. PICK l \in Nat : l = Len(s[e]) /\ b[e + 1] = x + l
  <2>1. Len(s[e]) \in Nat
    BY <1>n, ElementOfSeq, LenProperties
  <2>2. LengthBefore(s, e + 1) = LengthBefore(s, e) + Len(s[e])
    BY <1>0 DEF IsAt
  <2>3. b[e + 1] = LengthBefore(s, e + 1)
    BY <1>1
  <2> QED
    BY <1>7, <2>1, <2>2, <2>3
<1>9. p - x \in 1 .. l /\ p = x + (p - x)
  BY <1>2, <1>6, <1>7, <1>8
<1> QED
  BY <1>n, <1>7, <1>8, <1>9
-----------------------------------------------------------------------------
(***************************************************************************)
(* Searching: the first place of a symbol.                                 *)
(***************************************************************************)
LEMMA LeastNumber ==
    ASSUME NEW U, U \subseteq Nat, U # {}
    PROVE  \E x \in U : \A y \in U : x <= y
<1> SUFFICES ASSUME \A x \in U : \E y \in U : ~(x <= y)
             PROVE  FALSE
  OBVIOUS
<1> PICK T : T = {n \in Nat : \A m \in 0 .. n : m \notin U}
  OBVIOUS
<1>1. 0 \in T
  <2> SUFFICES ASSUME NEW m \in 0 .. 0, m \in U
               PROVE  FALSE
    OBVIOUS
  <2>1. m = 0
    OBVIOUS
  <2>2. PICK y \in U : ~(m <= y)
    OBVIOUS
  <2> QED
    BY <2>1, <2>2
<1>2. ASSUME NEW n \in Nat, n \in T
      PROVE  n + 1 \in T
  <2> SUFFICES ASSUME NEW m \in 0 .. n + 1, m \in U
               PROVE  FALSE
    OBVIOUS
  <2>1. PICK y \in U : ~(m <= y)
    OBVIOUS
  <2>2. y \in 0 .. n
    BY <2>1
  <2> QED
    BY <1>2, <2>2
<1>3. \A n \in Nat : n \in T
  BY <1>1, <1>2, Facts!NatSetInduction
<1>4. PICK x \in U : x \in Nat
  OBVIOUS
<1>5. x \in 0 .. x /\ x \in T
  BY <1>3, <1>4
<1> QED
  BY <1>4, <1>5

\* p is the first place of the symbol in the text from a on.
FirstFrom(text, a, symbol, p) ==
    text[p] = symbol /\ \A r \in a .. p - 1 : text[r] # symbol

Absent(text, a, len, symbol) == \A r \in a .. len : text[r] # symbol

\* What a search finds, if the text begins at the location tb.
Finds(text, a, len, symbol, tb, x) ==
    \/ Absent(text, a, len, symbol) /\ x = tb + len
    \/ \E p \in a .. len : FirstFrom(text, a, symbol, p) /\ x + 1 = tb + p

LEMMA Searching ==
    ASSUME NEW text, NEW symbol, NEW tb \in Nat, NEW len \in Nat, NEW a \in Nat, 1 <= a,
           NEW T, T = {loc \in (tb + a) - 1 .. (tb + len) - 1 :
                          text[loc - tb + 1] = symbol}
    PROVE  Finds(text, a, len, symbol, tb, Min({tb + len} \cup T))
<1>u. PICK U : U = {tb + len} \cup T
  OBVIOUS
<1>t. \A loc \in T : /\ loc \in Nat /\ tb + a <= loc + 1 /\ loc < tb + len
                     /\ text[loc - tb + 1] = symbol
  OBVIOUS
<1>1. U \subseteq Nat /\ U # {}
  BY <1>u, <1>t
<1>2. PICK x \in U : \A y \in U : x <= y
  BY <1>1, LeastNumber
<1>3. Min(U) = x
  <2>1. \A y \in U : (\A z \in U : y <= z) => y = x
    BY <1>1, <1>2
  <2> QED
    BY <1>2, <2>1 DEF Min
<1>4. CASE x = tb + len
  <2> SUFFICES ASSUME NEW r \in a .. len, text[r] = symbol
               PROVE  FALSE
    BY <1>u, <1>3, <1>4 DEF Finds, Absent
  <2>1. PICK loc \in Nat : loc + 1 = tb + r /\ loc - tb + 1 = r /\ loc < tb + len
    <3>1. /\ (tb + r) - 1 \in Nat /\ ((tb + r) - 1) + 1 = tb + r
          /\ ((tb + r) - 1) - tb + 1 = r /\ (tb + r) - 1 < tb + len
      OBVIOUS
    <3> QED
      BY <3>1
  <2>2. loc \in (tb + a) - 1 .. (tb + len) - 1
    BY <2>1
  <2>3. loc \in U
    BY <1>u, <2>1, <2>2
  <2> QED
    BY <1>2, <1>4, <2>1, <2>3
<1>5. CASE x \in T
  <2>1. /\ x \in Nat /\ tb + a <= x + 1 /\ x < tb + len
        /\ text[x - tb + 1] = symbol
    BY <1>t, <1>5
  <2>2. PICK p \in a .. len : p = x - tb + 1 /\ x + 1 = tb + p
    <3>1. x - tb + 1 \in a .. len /\ x + 1 = tb + (x - tb + 1)
      BY <2>1
    <3> QED
      BY <3>1
  <2>3. ASSUME NEW r \in a .. p - 1
        PROVE  text[r] # symbol
    <3>1. PICK loc \in Nat : loc + 1 = tb + r /\ loc - tb + 1 = r /\ loc < x
      <4>1. /\ (tb + r) - 1 \in Nat /\ ((tb + r) - 1) + 1 = tb + r
            /\ ((tb + r) - 1) - tb + 1 = r /\ (tb + r) - 1 < x
        BY <2>1, <2>2
      <4> QED
        BY <4>1
    <3>2. loc \in (tb + a) - 1 .. (tb + len) - 1
      BY <2>1, <3>1
    <3>3. text[r] = symbol => loc \in U
      BY <1>u, <3>1, <3>2
    <3> QED
      BY <1>2, <2>1, <3>1, <3>3
  <2>4. FirstFrom(text, a, symbol, p)
    BY <2>1, <2>2, <2>3 DEF FirstFrom
  <2> QED
    BY <1>u, <1>3, <2>2, <2>4 DEF Finds
<1> QED
  BY <1>u, <1>4, <1>5

\* A search in the bytes of the file.
LEMMA FindInIs ==
    ASSUME NEW segment \in DataRange, NEW start \in Nat, NEW symbol
    PROVE  /\ ContainsLocation(segment, start) =>
                 Finds(contents, start + 1, segment.end, symbol, 0,
                       FindIn(segment, start, symbol))
           /\ ~ContainsLocation(segment, start) =>
                 FindIn(segment, start, symbol) = segment.end
<1>1. segment.end \in Nat
  BY DEF DataRange
<1>2. CASE ContainsLocation(segment, start)
  <2>t. PICK T : T = {loc \in start .. segment.end - 1 : SymbolAt(loc) = symbol}
    OBVIOUS
  <2>1. FindIn(segment, start, symbol) = Min({segment.end} \cup T)
    BY <1>2, <2>t DEF FindIn
  <2>2. T = {loc \in (0 + (start + 1)) - 1 .. (0 + segment.end) - 1 :
                contents[loc - 0 + 1] = symbol}
    <3>1. (0 + (start + 1)) - 1 = start /\ (0 + segment.end) - 1 = segment.end - 1
      BY <1>1
    <3>2. \A loc \in start .. segment.end - 1 : loc - 0 + 1 = loc + 1
      BY <1>1
    <3> QED
      BY <2>t, <3>1, <3>2 DEF SymbolAt
  <2>3. Finds(contents, start + 1, segment.end, symbol, 0, Min({0 + segment.end} \cup T))
    <3>1. start + 1 \in Nat /\ 1 <= start + 1 /\ 0 \in Nat
      OBVIOUS
    <3> QED
      BY <1>1, <2>2, <3>1, Searching
  <2>4. 0 + segment.end = segment.end
    BY <1>1
  <2> QED
    BY <1>2, <2>1, <2>3, <2>4
<1>3. CASE ~ContainsLocation(segment, start)
  <2>1. FindIn(segment, start, symbol) = Min({segment.end})
    BY <1>3 DEF FindIn
  <2>2. Min({segment.end}) = segment.end
    BY <1>1 DEF Min
  <2> QED
    BY <1>3, <2>1, <2>2
<1> QED
  BY <1>2, <1>3

\* A search in a segment's text.
LEMMA FindIs ==
    ASSUME NEW range \in DataRange, NEW S, NEW text \in Seq(S), NEW symbol,
           TextBegin(range) \in Nat, range.end = TextBegin(range) + Len(text),
           NEW a \in Nat, 1 <= a, NEW start \in Nat, start + 1 = TextBegin(range) + a
    PROVE  Finds(text, a, Len(text), symbol, TextBegin(range),
                 Find(range, text, start, symbol))
<1>b. PICK tb \in Nat : tb = TextBegin(range)
  OBVIOUS
<1>l. PICK len \in Nat : len = Len(text)
  BY LenProperties
<1>t. PICK T : T = {loc \in start .. range.end - 1 : text[loc - tb + 1] = symbol}
  OBVIOUS
<1>1. T = {loc \in (tb + a) - 1 .. (tb + len) - 1 : text[loc - tb + 1] = symbol}
  <2>1. (tb + a) - 1 = start /\ (tb + len) - 1 = range.end - 1
    BY <1>b, <1>l
  <2> QED
    BY <1>t, <2>1
<1>2. Finds(text, a, len, symbol, tb, Min({tb + len} \cup T))
  BY <1>1, Searching
<1>3. Find(range, text, start, symbol) = Min({range.end} \cup T)
  BY <1>b, <1>t DEF Find
<1> QED
  BY <1>b, <1>l, <1>2, <1>3
-----------------------------------------------------------------------------
(***************************************************************************)
(* What a JpegXmpInfoBuilder makes of the extensions.                      *)
(***************************************************************************)
\* The text of a segment fills it, behind the header.
Fills(range, text) ==
    /\ range \in DataRange /\ range.begin < range.end
    /\ TextBegin(range) \in Nat /\ range.begin <= TextBegin(range)
    /\ range.end = TextBegin(range) + Len(text)

\* The value begins behind the k-th symbol of the text, the name, and a quote.
OpensAt(text, k) ==
    /\ k \in 1 .. Len(text) - 2
    /\ FirstFrom(text, 1, Type, k) /\ text[k + 1] = Quote

GoesOn(text, from) == Absent(text, from, Len(text), Quote)

ClosesAt(text, from, q) == q \in from .. Len(text) /\ FirstFrom(text, from, Quote, q)

\* Where the value is in text e, if it begins in text n.
ValueFrom(n, k, e) == IF e = n THEN k + 2 ELSE 1

LEMMA FindsOpening ==
    ASSUME NEW S, NEW text \in Seq(S), NEW range, Fills(range, text),
           FindXmpPropertyValueBegin(range, text, TextBegin(range), Type) # range.end
    PROVE  \E k \in Nat, start \in Nat :
              /\ OpensAt(text, k)
              /\ start = FindXmpPropertyValueBegin(range, text, TextBegin(range), Type)
              /\ start + 1 = TextBegin(range) + (k + 2)
<1>b. PICK tb \in Nat : tb = TextBegin(range)
  BY DEF Fills
<1>l. PICK len \in Nat : len = Len(text) /\ range.end = tb + len
  BY <1>b, LenProperties DEF Fills
<1>r. range \in DataRange
  BY DEF Fills
<1>p. PICK property : property = Find(range, text, tb, Type)
  OBVIOUS
<1>y. PICK y : y = Find(range, text, property + 1, Quote)
  OBVIOUS
<1>x. PICK x : x = FindXmpPropertyValueBegin(range, text, tb, Type)
  OBVIOUS
<1>1. x = IF property + 1 < range.end /\ y = property + 1
          THEN (property + 1) + 1 ELSE range.end
  BY <1>p, <1>y, <1>x DEF FindXmpPropertyValueBegin
<1>2. Finds(text, 1, len, Type, tb, property)
  <2>1. 1 \in Nat /\ 1 <= 1 /\ tb + 1 = tb + 1
    OBVIOUS
  <2> QED
    BY <1>b, <1>l, <1>r, <1>p, <2>1, FindIs
<1>3. property + 1 < range.end /\ y = property + 1 /\ x = (property + 1) + 1 /\ x # range.end
  BY <1>b, <1>x, <1>1
<1>4. PICK k \in 1 .. len : FirstFrom(text, 1, Type, k) /\ property + 1 = tb + k
  <2>1. property # tb + len
    BY <1>l, <1>3
  <2> QED
    BY <1>2, <2>1 DEF Finds
<1>5. k + 2 <= len
  BY <1>l, <1>3, <1>4
<1>6. Finds(text, k + 1, len, Quote, tb, y)
  <2>1. /\ k + 1 \in Nat /\ 1 <= k + 1
        /\ property + 1 \in Nat /\ (property + 1) + 1 = tb + (k + 1)
    BY <1>4
  <2> QED
    BY <1>b, <1>l, <1>r, <1>y, <2>1, FindIs
<1>7. text[k + 1] = Quote
  <2>1. y # tb + len
    BY <1>l, <1>3
  <2>2. PICK p \in k + 1 .. len : FirstFrom(text, k + 1, Quote, p) /\ y + 1 = tb + p
    BY <1>6, <2>1 DEF Finds
  <2>3. p = k + 1
    BY <1>3, <1>4, <2>2
  <2> QED
    BY <2>2, <2>3 DEF FirstFrom
<1>8. OpensAt(text, k)
  BY <1>l, <1>4, <1>5, <1>7 DEF OpensAt
<1>9. x \in Nat /\ x + 1 = tb + (k + 2)
  BY <1>3, <1>4
<1> QED
  BY <1>b, <1>x, <1>8, <1>9

LEMMA FindsEnd ==
    ASSUME NEW S, NEW text \in Seq(S), NEW range, Fills(range, text),
           NEW a \in Nat, 1 <= a, NEW start \in Nat, start + 1 = TextBegin(range) + a
    PROVE  /\ FindXmpPropertyValueEnd(range, text, start) # range.end =>
                 \E q \in Nat : /\ ClosesAt(text, a, q)
                                /\ FindXmpPropertyValueEnd(range, text, start) + 1
                                      = TextBegin(range) + q
           /\ FindXmpPropertyValueEnd(range, text, start) = range.end => GoesOn(text, a)
<1>b. PICK tb \in Nat : tb = TextBegin(range)
  BY DEF Fills
<1>l. PICK len \in Nat : len = Len(text) /\ range.end = tb + len
  BY <1>b, LenProperties DEF Fills
<1>r. range \in DataRange
  BY DEF Fills
<1>x. PICK x : x = FindXmpPropertyValueEnd(range, text, start)
  OBVIOUS
<1>1. Finds(text, a, len, Quote, tb, x)
  BY <1>b, <1>l, <1>r, <1>x, FindIs DEF FindXmpPropertyValueEnd
<1>2. CASE Absent(text, a, len, Quote) /\ x = tb + len
  BY <1>b, <1>l, <1>x, <1>2 DEF GoesOn
<1>3. CASE \E p \in a .. len : FirstFrom(text, a, Quote, p) /\ x + 1 = tb + p
  <2>1. PICK p \in a .. len : FirstFrom(text, a, Quote, p) /\ x + 1 = tb + p
    BY <1>3
  <2>2. x # tb + len
    BY <2>1
  <2>3. ClosesAt(text, a, p) /\ p \in Nat
    BY <1>l, <2>1 DEF ClosesAt
  <2> QED
    BY <1>b, <1>l, <1>x, <2>1, <2>2, <2>3
<1> QED
  BY <1>1, <1>2, <1>3 DEF Finds

\* The value lies in the texts n to m and ends in the last of them, or is not over
\* with the j-th.
Spread(texts, exts, builder, j, n, m, k, q) ==
    /\ n \in 1 .. m /\ m \in 1 .. j /\ OpensAt(texts[n], k)
    /\ builder.ranges = [i \in 1 .. (m - n) + 1 |-> exts[(n + i) - 1]]
    /\ \A e \in n .. m - 1 : GoesOn(texts[e], ValueFrom(n, k, e))
    /\ IsValid(builder.property_end) => ClosesAt(texts[m], ValueFrom(n, k, m), q)
    /\ ~IsValid(builder.property_end) => m = j /\ GoesOn(texts[m], ValueFrom(n, k, m))

Collected(texts, exts, builder, j) ==
    /\ builder \in XmpInfoBuilder
    /\ \/ builder.ranges = <<>> /\ ~IsValid(builder.property_end)
       \/ \E n, m, k, q \in Nat : Spread(texts, exts, builder, j, n, m, k, q)

LEMMA ProcessSegmentType ==
    ASSUME NEW builder \in XmpInfoBuilder, NEW type, NEW range \in DataRange, NEW text
    PROVE  ProcessSegment(builder, type, range, text) \in XmpInfoBuilder
<1> DEFINE after == ProcessSegment(builder, type, range, text)
<1>1. builder.ranges \in Seq(DataRange) /\ builder.property_end \in DataRange
  BY DEF XmpInfoBuilder
<1>2. /\ after.ranges \in {builder.ranges, Append(builder.ranges, range)}
      /\ after.property_end \in {builder.property_end, range}
      /\ after = [ranges |-> after.ranges, property_end |-> after.property_end]
  BY DEF ProcessSegment
<1>3. Append(builder.ranges, range) \in Seq(DataRange)
  BY <1>1
<1> HIDE DEF after
<1>4. after \in XmpInfoBuilder
  BY <1>1, <1>2, <1>3 DEF XmpInfoBuilder
<1> QED
  BY <1>4 DEF after

\* Which of its branches ProcessSegment takes.
Begin(range, text) == FindXmpPropertyValueBegin(range, text, TextBegin(range), Type)

Ending(range, text, start, old) ==
    IF FindXmpPropertyValueEnd(range, text, start) # range.end THEN range ELSE old

LEMMA ProcessSegmentCases ==
    ASSUME NEW builder, NEW range, NEW text, NEW after,
           after = ProcessSegment(builder, Type, range, text)
    PROVE  /\ builder.ranges = <<>> /\ Begin(range, text) = range.end =>
                 after.ranges = <<>> /\ after.property_end = builder.property_end
           /\ builder.ranges = <<>> /\ Begin(range, text) # range.end =>
                 /\ after.ranges = Append(<<>>, range)
                 /\ after.property_end = Ending(range, text, Begin(range, text),
                                                builder.property_end)
           /\ builder.ranges # <<>> /\ IsValid(builder.property_end) =>
                 /\ after.ranges = builder.ranges
                 /\ after.property_end = builder.property_end
           /\ builder.ranges # <<>> /\ ~IsValid(builder.property_end) =>
                 /\ after.ranges = Append(builder.ranges, range)
                 /\ after.property_end = Ending(range, text, TextBegin(range),
                                                builder.property_end)
  BY DEF ProcessSegment, Begin, Ending

LEMMA NothingCollected ==
    ASSUME NEW texts, NEW exts, NEW j, NEW builder, Collected(texts, exts, builder, j),
           builder.ranges = <<>>
    PROVE  ~IsValid(builder.property_end)
<1> SUFFICES ASSUME NEW n \in Nat, NEW m \in Nat, NEW k \in Nat, NEW q \in Nat,
                    Spread(texts, exts, builder, j, n, m, k, q)
             PROVE  FALSE
  BY DEF Collected
<1>1. PICK d \in Nat : d = (m - n) + 1 /\ d >= 1
  BY DEF Spread
<1>2. builder.ranges = [i \in 1 .. d |-> exts[(n + i) - 1]]
  BY <1>1 DEF Spread
<1>3. DOMAIN builder.ranges = 1 .. d
  BY <1>2
<1>4. 1 \in 1 .. d /\ 1 \notin DOMAIN <<>>
  BY <1>1
<1> QED
  BY <1>3, <1>4

LEMMA CollectedNext ==
    ASSUME NEW S, NEW texts \in Seq(Seq(S)), NEW exts, NEW j \in Nat, j + 1 <= Len(texts),
           NEW builder, Collected(texts, exts, builder, j),
           Fills(exts[j + 1], texts[j + 1]),
           NEW after, after = ProcessSegment(builder, Type, exts[j + 1], texts[j + 1])
    PROVE  Collected(texts, exts, after, j + 1)
<1>e. PICK e \in Nat : e = j + 1
  OBVIOUS
<1>t. PICK text \in Seq(S) : text = texts[e]
  <2>1. e \in 1 .. Len(texts)
    BY <1>e, LenProperties
  <2> QED
    BY <2>1, ElementOfSeq
<1>r. PICK range \in DataRange : range = exts[e] /\ Fills(range, text)
  BY <1>e, <1>t DEF Fills
<1>0. after \in XmpInfoBuilder /\ builder \in XmpInfoBuilder
  BY <1>e, <1>t, <1>r, ProcessSegmentType DEF Collected
<1>v. IsValid(range)
  BY <1>r DEF Fills, IsValid
<1>a. after = ProcessSegment(builder, Type, range, text)
  BY <1>e, <1>t, <1>r
<1>b. PICK tb \in Nat : tb = TextBegin(range)
  BY <1>r DEF Fills
<1>1. CASE builder.ranges = <<>> /\ Begin(range, text) = range.end
  <2>1. after.ranges = <<>> /\ after.property_end = builder.property_end
    BY <1>a, <1>1, ProcessSegmentCases
  <2>2. ~IsValid(builder.property_end)
    BY <1>1, NothingCollected
  <2> QED
    BY <1>0, <2>1, <2>2 DEF Collected
<1>2. CASE builder.ranges = <<>> /\ Begin(range, text) # range.end
  <2>1. /\ after.ranges = Append(<<>>, range)
        /\ after.property_end = Ending(range, text, Begin(range, text), builder.property_end)
    BY <1>a, <1>2, ProcessSegmentCases
  <2>2. PICK k \in Nat, start \in Nat :
           OpensAt(text, k) /\ start = Begin(range, text) /\ start + 1 = tb + (k + 2)
    <3>1. \E k \in Nat, start \in Nat :
              /\ OpensAt(text, k)
              /\ start = FindXmpPropertyValueBegin(range, text, TextBegin(range), Type)
              /\ start + 1 = TextBegin(range) + (k + 2)
      BY <1>r, <1>2, FindsOpening DEF Begin
    <3> QED
      BY <1>b, <3>1 DEF Begin
  <2>3. e \in 1 .. e /\ (e - e) + 1 = 1 /\ e .. e - 1 = {}
    BY <1>e
  <2>4. after.ranges = [i \in 1 .. 1 |-> exts[(e + i) - 1]]
    <3>1. Append(<<>>, range) = [i \in 1 .. 1 |-> range]
      <4>1. /\ Append(<<>>, range) \in Seq(DataRange) /\ Len(Append(<<>>, range)) = 1
            /\ Append(<<>>, range)[1] = range
        BY EmptySeq, AppendProperties
      <4>2. DOMAIN Append(<<>>, range) = 1 .. 1
        BY <4>1, LenProperties
      <4> QED
        BY <4>1, <4>2
    <3>2. \A i \in 1 .. 1 : exts[(e + i) - 1] = range
      <4>1. \A i \in 1 .. 1 : (e + i) - 1 = e
        BY <1>e
      <4> QED
        BY <1>r, <4>1
    <3> QED
      BY <2>1, <3>1, <3>2
  <2>5. ValueFrom(e, k, e) = k + 2 /\ k + 2 \in Nat /\ 1 <= k + 2
    BY DEF ValueFrom
  <2>6. CASE FindXmpPropertyValueEnd(range, text, start) # range.end
    <3>1. PICK q \in Nat : ClosesAt(text, k + 2, q)
      BY <1>b, <1>r, <2>2, <2>5, <2>6, FindsEnd
    <3>2. IsValid(after.property_end)
      BY <1>v, <2>1, <2>2, <2>6 DEF Ending
    <3>3. Spread(texts, exts, after, e, e, e, k, q)
      BY <1>t, <2>2, <2>3, <2>4, <2>5, <3>1, <3>2 DEF Spread
    <3> QED
      BY <1>0, <1>e, <3>3 DEF Collected
  <2>7. CASE FindXmpPropertyValueEnd(range, text, start) = range.end
    <3>1. GoesOn(text, k + 2)
      BY <1>b, <1>r, <2>2, <2>5, <2>7, FindsEnd
    <3>2. after.property_end = builder.property_end
      BY <2>1, <2>2, <2>7 DEF Ending
    <3>3. ~IsValid(builder.property_end)
      BY <1>2, NothingCollected
    <3>4. Spread(texts, exts, after, e, e, e, k, 0)
      BY <1>t, <2>2, <2>3, <2>4, <2>5, <3>1, <3>2, <3>3 DEF Spread
    <3>5. 0 \in Nat
      OBVIOUS
    <3> QED
      BY <1>0, <1>e, <3>4, <3>5 DEF Collected
  <2> QED
    BY <2>6, <2>7
<1>s. ASSUME builder.ranges # <<>>
      PROVE  \E n, m, k, q \in Nat : Spread(texts, exts, builder, j, n, m, k, q)
  BY <1>s DEF Collected
<1>3. CASE builder.ranges # <<>> /\ IsValid(builder.property_end)
  <2>1. after.ranges = builder.ranges /\ after.property_end = builder.property_end
    BY <1>a, <1>3, ProcessSegmentCases
  <2>2. PICK n, m, k, q \in Nat : Spread(texts, exts, builder, j, n, m, k, q)
    BY <1>3, <1>s
  <2>3. \A i \in 1 .. j : i \in 1 .. e
    BY <1>e
  <2>4. Spread(texts, exts, after, e, n, m, k, q)
    BY <1>3, <2>1, <2>2, <2>3 DEF Spread
  <2> QED
    BY <1>0, <1>e, <2>4 DEF Collected
<1>4. CASE builder.ranges # <<>> /\ ~IsValid(builder.property_end)
  <2>1. /\ after.ranges = Append(builder.ranges, range)
        /\ after.property_end = Ending(range, text, tb, builder.property_end)
    BY <1>a, <1>b, <1>4, ProcessSegmentCases
  <2>2. PICK n, m, k, q \in Nat : Spread(texts, exts, builder, j, n, m, k, q)
    BY <1>4, <1>s
  <2>3. /\ m = j /\ n \in 1 .. j /\ j >= 1 /\ OpensAt(texts[n], k)
        /\ GoesOn(texts[j], ValueFrom(n, k, j))
        /\ \A i \in n .. j - 1 : GoesOn(texts[i], ValueFrom(n, k, i))
        /\ builder.ranges = [i \in 1 .. (j - n) + 1 |-> exts[(n + i) - 1]]
    BY <1>4, <2>2 DEF Spread
  <2>4. \A i \in n .. e - 1 : GoesOn(texts[i], ValueFrom(n, k, i))
    <3>1. \A i \in n .. e - 1 : i = j \/ i \in n .. j - 1
      BY <1>e
    <3> QED
      BY <2>3, <3>1
  <2>5. after.ranges = [i \in 1 .. (e - n) + 1 |-> exts[(n + i) - 1]]
    <3>1. PICK d \in Nat : d = (j - n) + 1 /\ d + 1 = (e - n) + 1 /\ (n + (d + 1)) - 1 = e
      BY <1>e, <2>3
    <3>2. builder.ranges = [i \in 1 .. d |-> exts[(n + i) - 1]]
      BY <2>3, <3>1
    <3>3. builder.ranges \in Seq(DataRange)
      BY <1>0 DEF XmpInfoBuilder
    <3>4. Len(builder.ranges) = d
      BY <3>2, <3>3, LenProperties
    <3>5. /\ after.ranges \in Seq(DataRange) /\ Len(after.ranges) = d + 1
          /\ \A i \in 1 .. d : after.ranges[i] = builder.ranges[i]
          /\ after.ranges[d + 1] = range
      BY <2>1, <3>3, <3>4, AppendProperties
    <3>6. ASSUME NEW i \in 1 .. d + 1
          PROVE  after.ranges[i] = exts[(n + i) - 1]
      <4>1. CASE i = d + 1
        BY <1>r, <3>1, <3>5, <4>1
      <4>2. CASE i \in 1 .. d
        BY <3>2, <3>5, <4>2
      <4> QED
        BY <4>1, <4>2
    <3>7. after.ranges = [i \in 1 .. d + 1 |-> after.ranges[i]]
      BY <3>5, LenProperties
    <3> QED
      BY <3>1, <3>6, <3>7
  <2>6. ValueFrom(n, k, e) = 1 /\ n \in 1 .. e /\ e \in 1 .. e /\ e = (e - 1) + 1
    BY <1>e, <2>3 DEF ValueFrom
  <2>7. 1 \in Nat /\ 1 <= 1 /\ tb + 1 = tb + 1
    OBVIOUS
  <2>8. CASE FindXmpPropertyValueEnd(range, text, tb) # range.end
    <3>1. PICK p \in Nat : ClosesAt(text, 1, p)
      BY <1>b, <1>r, <2>7, <2>8, FindsEnd
    <3>2. IsValid(after.property_end)
      BY <1>v, <2>1, <2>8 DEF Ending
    <3>3. Spread(texts, exts, after, e, n, e, k, p)
      BY <1>t, <2>3, <2>4, <2>5, <2>6, <3>1, <3>2 DEF Spread
    <3> QED
      BY <1>0, <1>e, <3>3 DEF Collected
  <2>9. CASE FindXmpPropertyValueEnd(range, text, tb) = range.end
    <3>1. GoesOn(text, 1)
      BY <1>b, <1>r, <2>7, <2>9, FindsEnd
    <3>2. ~IsValid(after.property_end)
      BY <1>4, <2>1, <2>9 DEF Ending
    <3>3. Spread(texts, exts, after, e, n, e, k, 0)
      BY <1>t, <2>3, <2>4, <2>5, <2>6, <3>1, <3>2 DEF Spread
    <3>4. 0 \in Nat
      OBVIOUS
    <3> QED
      BY <1>0, <1>e, <3>3, <3>4 DEF Collected
  <2> QED
    BY <2>8, <2>9
<1> QED
  BY <1>1, <1>2, <1>3, <1>4
-----------------------------------------------------------------------------
(***************************************************************************)
(* The builder's passes over the extensions, one after the other.          *)
(***************************************************************************)
BuilderContext(texts, ranges) == [texts |-> texts, ranges |-> ranges]

BuilderStep(context, builder, n) ==
    ProcessSegment(builder, Type, context.ranges[n], context.texts[n])

Building == INSTANCE SequenceFolds WITH Op <- BuilderStep

LEMMA BuildingIsFold ==
    \A texts, ranges, base, seq :
        FoldLeft(LAMBDA builder, n : ProcessSegment(builder, Type, ranges[n], texts[n]),
                 base, seq)
           = Building!Folded(BuilderContext(texts, ranges), base, seq)
<1> TAKE texts, ranges, base, seq
<1>1. /\ BuilderContext(texts, ranges).texts = texts
      /\ BuilderContext(texts, ranges).ranges = ranges
  BY DEF BuilderContext
<1> QED
  BY <1>1 DEF Building!Folded, BuilderStep, FoldLeft, MapThenFoldSet, Building!FoldLeft,
              Building!MapThenFoldSet, Max, Building!Max

AreBuilt(texts, ranges, context, base, seq) ==
    /\ Building!FoldedTo(context, base, seq, 0) = base
    /\ \A n \in 0 .. Len(seq) - 1 :
          Building!FoldedTo(context, base, seq, n + 1) =
             ProcessSegment(Building!FoldedTo(context, base, seq, n), Type,
                            ranges[seq[n + 1]], texts[seq[n + 1]])
    /\ Building!FoldedTo(context, base, seq, Len(seq)) = Building!Folded(context, base, seq)

LEMMA BuildingPasses ==
    \A texts, ranges, context, base : context = BuilderContext(texts, ranges) =>
        \A seq \in Seq(Nat) : AreBuilt(texts, ranges, context, base, seq)
<1> TAKE texts, ranges, context, base
<1>0. HAVE context = BuilderContext(texts, ranges)
<1> TAKE seq \in Seq(Nat)
<1>1. Building!FoldedTo(context, base, seq, 0) = base
  BY Building!FoldedNone
<1>2. context.texts = texts /\ context.ranges = ranges
  BY <1>0 DEF BuilderContext
<1>3. \A n \in 0 .. Len(seq) - 1 :
         Building!FoldedTo(context, base, seq, n + 1) =
            ProcessSegment(Building!FoldedTo(context, base, seq, n), Type,
                           ranges[seq[n + 1]], texts[seq[n + 1]])
  BY <1>2, Building!FoldedNext DEF BuilderStep
<1>4. Building!FoldedTo(context, base, seq, Len(seq)) = Building!Folded(context, base, seq)
  BY Building!FoldedAll
<1> QED
  BY <1>1, <1>3, <1>4 DEF AreBuilt

\* The builder as a function of how many extensions it has processed.
IsBuilding(f, texts, ranges) ==
    /\ f[0] = NewXmpInfoBuilder
    /\ \A n \in Nat : n < Len(texts) =>
          f[n + 1] = ProcessSegment(f[n], Type, ranges[n + 1], texts[n + 1])
    /\ f[Len(texts)] = InfoOf(texts, ranges)

LEMMA BuildingIs ==
    ASSUME NEW S, NEW texts \in Seq(S), NEW ranges
    PROVE  \E f : IsBuilding(f, texts, ranges)
<1>c. PICK count \in Nat : count = Len(texts)
  BY LenProperties
<1>1. PICK seq : seq = [n \in 1 .. count |-> n]
  OBVIOUS
<1>2. seq \in Seq(Nat) /\ Len(seq) = count /\ \A n \in 1 .. count : seq[n] = n
  BY <1>1, SeqDef, LenProperties
<1>3. PICK context : context = BuilderContext(texts, ranges)
  OBVIOUS
<1>b. PICK base : base = NewXmpInfoBuilder
  OBVIOUS
<1>4. PICK f : f = [n \in Nat |-> Building!FoldedTo(context, base, seq, n)]
  OBVIOUS
<1>5. \A n \in Nat : f[n] = Building!FoldedTo(context, base, seq, n)
  BY <1>4
<1>6. /\ Building!FoldedTo(context, base, seq, 0) = base
      /\ \A n \in 0 .. Len(seq) - 1 :
            Building!FoldedTo(context, base, seq, n + 1) =
               ProcessSegment(Building!FoldedTo(context, base, seq, n), Type,
                              ranges[seq[n + 1]], texts[seq[n + 1]])
      /\ Building!FoldedTo(context, base, seq, Len(seq))
            = Building!Folded(context, base, seq)
  <2>1. AreBuilt(texts, ranges, context, base, seq)
    BY ONLY <1>2, <1>3, BuildingPasses, Zenon
  <2> QED
    BY ONLY <2>1, Zenon DEF AreBuilt
<1>7. f[0] = base
  BY <1>5, <1>6
<1>8. ASSUME NEW n \in Nat, n < count
      PROVE  f[n + 1] = ProcessSegment(f[n], Type, ranges[n + 1], texts[n + 1])
  <2>1. n \in 0 .. Len(seq) - 1 /\ n + 1 \in 1 .. count
    BY <1>2, <1>8
  <2>2. n + 1 \in Nat /\ seq[n + 1] = n + 1
    BY <1>2, <2>1
  <2> QED
    BY <1>5, <1>6, <2>1, <2>2
<1>9. f[count] = Building!Folded(context, base, seq)
  BY <1>2, <1>5, <1>6
<1>10. f[count] = InfoOf(texts, ranges)
  <2>1. FoldLeft(LAMBDA builder, n : ProcessSegment(builder, Type, ranges[n], texts[n]),
                 base, seq) = Building!Folded(context, base, seq)
    BY <1>3, BuildingIsFold
  <2>2. InfoOf(texts, ranges)
           = FoldLeft(LAMBDA builder, n : ProcessSegment(builder, Type, ranges[n], texts[n]),
                      base, seq)
    BY <1>c, <1>1, <1>b DEF InfoOf
  <2> QED
    BY <1>9, <2>1, <2>2, Zenon
<1> QED
  BY <1>c, <1>b, <1>7, <1>8, <1>10 DEF IsBuilding

LEMMA InfoIsCollected ==
    ASSUME NEW S, NEW texts \in Seq(Seq(S)), NEW ranges,
           \A e \in 1 .. Len(texts) : Fills(ranges[e], texts[e])
    PROVE  Collected(texts, ranges, InfoOf(texts, ranges), Len(texts))
<1>c. PICK count \in Nat : count = Len(texts)
  BY LenProperties
<1>1. PICK f : IsBuilding(f, texts, ranges)
  BY BuildingIs
<1> PICK T : T = {n \in Nat : n <= count => Collected(texts, ranges, f[n], n)}
  OBVIOUS
<1>2. 0 \in T
  <2>1. f[0] = NewXmpInfoBuilder
    BY <1>1 DEF IsBuilding
  <2>2. NewXmpInfoBuilder \in XmpInfoBuilder
    BY EmptySeq DEF NewXmpInfoBuilder, XmpInfoBuilder, InvalidRange, NewRange, DataRange
  <2>3. NewXmpInfoBuilder.ranges = <<>> /\ ~IsValid(NewXmpInfoBuilder.property_end)
    BY DEF NewXmpInfoBuilder, InvalidRange, NewRange, IsValid
  <2> QED
    BY <2>1, <2>2, <2>3 DEF Collected
<1>3. ASSUME NEW n \in Nat, n \in T
      PROVE  n + 1 \in T
  <2> SUFFICES ASSUME n + 1 <= count
               PROVE  Collected(texts, ranges, f[n + 1], n + 1)
    OBVIOUS
  <2>1. Collected(texts, ranges, f[n], n)
    BY <1>3
  <2>2. f[n + 1] = ProcessSegment(f[n], Type, ranges[n + 1], texts[n + 1])
    BY <1>1, <1>c DEF IsBuilding
  <2>3. Fills(ranges[n + 1], texts[n + 1]) /\ n + 1 <= Len(texts)
    BY <1>c
  <2> QED
    BY <2>1, <2>2, <2>3, CollectedNext
<1>4. \A n \in Nat : n \in T
  BY <1>2, <1>3, Facts!NatSetInduction
<1>5. f[count] = InfoOf(texts, ranges)
  BY <1>1, <1>c DEF IsBuilding
<1> QED
  BY <1>c, <1>4, <1>5
-----------------------------------------------------------------------------
(***************************************************************************)
(* Where the extensions are in the file.                                   *)
(***************************************************************************)
\* What Init says of the file, and no step changes.
Described ==
    /\ file \in Files
    /\ contents = FlattenSeq(SegmentsOf(file.texts)) \o file.rest
    /\ extensions = RangesOf(SegmentsOf(file.texts))
    /\ info = InfoOf(file.texts, extensions)
    /\ truth = TruthOf(FlattenSeq(file.texts))

\* The text is in the file where the range says, and the header before.
LiesAt(range, text) ==
    /\ Fills(range, text) /\ range.end <= Len(contents)
    /\ \A i \in 1 .. Len(text) : contents[TextBegin(range) + i] = text[i]

FileSymbols == Char \cup {Header}

LEMMA TextsType ==
    ASSUME Described
    PROVE  file.texts \in Seq(Seq(Char)) /\ file.rest \in Seq(Char)
  BY FilesAssumption DEF Described

LEMMA WiderSeq ==
    ASSUME NEW text \in Seq(Char)
    PROVE  text \in Seq(FileSymbols)
<1>l. PICK len \in Nat : len = Len(text)
  BY LenProperties
<1>1. text \in [1 .. len -> Char]
  BY <1>l, LenProperties, ElementOfSeq
<1>2. text \in [1 .. len -> FileSymbols]
  BY <1>1 DEF FileSymbols
<1> QED
  BY <1>2

LEMMA SegmentIs ==
    ASSUME NEW text \in Seq(Char), NEW segment,
           segment = [k \in 1 .. HeaderLength |-> Header] \o text
    PROVE  /\ segment \in Seq(FileSymbols)
           /\ Len(segment) = HeaderLength + Len(text)
           /\ \A i \in 1 .. Len(text) : segment[HeaderLength + i] = text[i]
<1>h. PICK h \in Nat : h = HeaderLength
  BY HeaderLengthAssumption
<1>s. PICK head : head = [k \in 1 .. h |-> Header]
  OBVIOUS
<1>l. PICK len \in Nat : len = Len(text)
  BY LenProperties
<1>1. head \in Seq(FileSymbols) /\ Len(head) = h
  <2>1. head \in [1 .. h -> FileSymbols]
    BY <1>s DEF FileSymbols
  <2> QED
    BY <2>1
<1>2. text \in Seq(FileSymbols)
  BY WiderSeq
<1>3. /\ segment \in Seq(FileSymbols) /\ Len(segment) = h + len
      /\ \A i \in 1 .. h + len : segment[i] = IF i <= h THEN head[i] ELSE text[i - h]
  BY <1>h, <1>s, <1>l, <1>1, <1>2, ConcatProperties
<1>4. ASSUME NEW i \in 1 .. len
      PROVE  segment[h + i] = text[i]
  <2>1. h + i \in 1 .. h + len /\ ~(h + i <= h) /\ (h + i) - h = i
    OBVIOUS
  <2> QED
    BY <1>3, <2>1
<1> QED
  BY <1>h, <1>l, <1>3, <1>4

LEMMA SegmentsType ==
    ASSUME Described
    PROVE  /\ SegmentsOf(file.texts) \in Seq(Seq(FileSymbols))
           /\ Len(SegmentsOf(file.texts)) = Len(file.texts)
           /\ Len(extensions) = Len(file.texts)
           /\ \A e \in 1 .. Len(file.texts) :
                 SegmentsOf(file.texts)[e]
                    = [k \in 1 .. HeaderLength |-> Header] \o file.texts[e]
<1>t. PICK texts \in Seq(Seq(Char)) : texts = file.texts
  BY TextsType
<1>n. PICK n \in Nat : n = Len(texts)
  BY LenProperties
<1>s. PICK segments : segments = SegmentsOf(texts)
  OBVIOUS
<1>1. \A e \in 1 .. n : segments[e] = [k \in 1 .. HeaderLength |-> Header] \o texts[e]
  BY <1>n, <1>s DEF SegmentsOf
<1>2. \A e \in 1 .. n : segments[e] \in Seq(FileSymbols)
  BY <1>1, <1>n, ElementOfSeq, SegmentIs
<1>3. segments = [e \in 1 .. n |-> segments[e]]
  BY <1>n, <1>s DEF SegmentsOf
<1>4. segments \in Seq(Seq(FileSymbols)) /\ Len(segments) = n
  BY <1>2, <1>3
<1>5. Len(extensions) = n
  <2>1. extensions = [e \in 1 .. n |-> extensions[e]]
    BY <1>t, <1>s, <1>4 DEF Described, RangesOf
  <2> QED
    BY <2>1
<1> QED
  BY <1>t, <1>n, <1>s, <1>1, <1>4, <1>5

LEMMA ExtensionsLie ==
    ASSUME Described
    PROVE  /\ contents \in Seq(FileSymbols)
           /\ \A e \in 1 .. Len(file.texts) : LiesAt(extensions[e], file.texts[e])
           /\ \A e \in 1 .. Len(file.texts) : e = Len(file.texts) =>
                 \A p \in TextBegin(extensions[e]) + 1 .. Len(contents) : contents[p] \in Char
<1>t. PICK texts \in Seq(Seq(Char)) : texts = file.texts
  BY TextsType
<1>r. PICK rest \in Seq(Char) : rest = file.rest
  BY TextsType
<1>n. PICK n \in Nat : n = Len(texts)
  BY LenProperties
<1>h. PICK h \in Nat : h = HeaderLength /\ h >= 4
  BY HeaderLengthAssumption
<1>s. PICK segments \in Seq(Seq(FileSymbols)) :
         segments = SegmentsOf(texts) /\ Len(segments) = n
  BY <1>t, <1>n, SegmentsType
<1>f. PICK flat \in Seq(FileSymbols) : flat = FlattenSeq(segments)
  BY LengthsBefore
<1>l. PICK l \in Nat : l = Len(flat)
  BY LenProperties
<1>1. rest \in Seq(FileSymbols)
  BY WiderSeq
<1>2. /\ contents \in Seq(FileSymbols)
      /\ Len(contents) = l + Len(rest) /\ Len(rest) \in Nat
      /\ \A i \in 1 .. l + Len(rest) : contents[i] = IF i <= l THEN flat[i] ELSE rest[i - l]
  <2>1. contents = flat \o rest
    BY <1>t, <1>r, <1>s, <1>f DEF Described
  <2> QED
    BY <1>l, <1>1, <2>1, ConcatProperties, LenProperties
<1>3. ASSUME NEW e \in 1 .. n
      PROVE  /\ LiesAt(extensions[e], texts[e])
             /\ TextBegin(extensions[e]) + Len(texts[e]) = LengthBefore(segments, e + 1)
  <2>t. PICK text \in Seq(Char) : text = texts[e]
    BY <1>n, ElementOfSeq
  <2>l. PICK len \in Nat : len = Len(text)
    BY LenProperties
  <2>s. PICK segment \in Seq(FileSymbols) :
           /\ segment = segments[e] /\ Len(segment) = h + len
           /\ \A i \in 1 .. len : segment[h + i] = text[i]
    <3>1. segments[e] = [k \in 1 .. HeaderLength |-> Header] \o text
      BY <1>t, <1>n, <1>s, <2>t, SegmentsType
    <3>2. segments[e] \in Seq(FileSymbols)
      BY <1>s, ElementOfSeq
    <3> QED
      BY <1>h, <2>l, <3>1, <3>2, SegmentIs
  <2>1. IsAt(segments, e, flat)
    BY <1>s, <1>f, LengthsBefore
  <2>b. PICK begin \in Nat : begin = LengthBefore(segments, e)
    BY <2>1 DEF IsAt
  <2>2. /\ LengthBefore(segments, e + 1) = begin + (h + len)
        /\ begin + (h + len) <= l
        /\ \A i \in 1 .. h + len : flat[begin + i] = segment[i]
    BY <1>l, <2>1, <2>b, <2>s DEF IsAt
  <2>e. PICK end \in Nat : end = begin + (h + len)
    OBVIOUS
  <2>r. PICK range \in DataRange :
           range = extensions[e] /\ range.begin = begin /\ range.end = end
    <3>1. extensions[e] = NewRange(LengthBefore(segments, e), LengthBefore(segments, e + 1))
      BY <1>t, <1>s DEF Described, RangesOf
    <3>2. extensions[e] = NewRange(begin, end)
      BY <2>b, <2>e, <2>2, <3>1
    <3>3. /\ NewRange(begin, end) \in DataRange
          /\ NewRange(begin, end).begin = begin /\ NewRange(begin, end).end = end
      BY <2>b, <2>e DEF NewRange, DataRange
    <3> QED
      BY <3>2, <3>3
  <2>3. TextBegin(range) = begin + h
    BY <1>h, <2>r DEF TextBegin
  <2>4. Fills(range, text)
    <3>1. begin < end /\ begin + h \in Nat /\ begin <= begin + h /\ end = (begin + h) + len
      BY <1>h, <2>e
    <3> QED
      BY <2>l, <2>r, <2>3, <3>1 DEF Fills
  <2>5. range.end <= Len(contents)
    BY <1>2, <2>e, <2>r, <2>2
  <2>6. ASSUME NEW i \in 1 .. len
        PROVE  contents[(begin + h) + i] = text[i]
    <3>1. h + i \in 1 .. h + len /\ begin + (h + i) = (begin + h) + i
      OBVIOUS
    <3>2. (begin + h) + i \in 1 .. l + Len(rest) /\ (begin + h) + i <= l
      BY <1>2, <2>2
    <3>3. contents[(begin + h) + i] = flat[(begin + h) + i]
      BY <1>2, <3>2
    <3>4. flat[begin + (h + i)] = segment[h + i]
      BY <2>2, <3>1
    <3> QED
      BY <2>s, <3>1, <3>3, <3>4
  <2>7. LiesAt(range, text)
    BY <2>l, <2>3, <2>4, <2>5, <2>6 DEF LiesAt
  <2> QED
    <3>1. (begin + h) + len = begin + (h + len)
      OBVIOUS
    <3> QED
      BY <2>t, <2>l, <2>r, <2>2, <2>3, <2>7, <3>1
<1>4. ASSUME NEW e \in 1 .. n, e = n, NEW p \in TextBegin(extensions[e]) + 1 .. Len(contents)
      PROVE  contents[p] \in Char
  <2>t. PICK text \in Seq(Char) : text = texts[e]
    BY <1>n, ElementOfSeq
  <2>l. PICK len \in Nat : len = Len(text)
    BY LenProperties
  <2>b. PICK tb \in Nat : tb = TextBegin(extensions[e])
    BY <1>3 DEF LiesAt, Fills
  <2>1. tb + len = l
    <3>1. LengthBefore(segments, n + 1) = l
      BY <1>s, <1>f, <1>l, LengthsBefore
    <3> QED
      BY <1>3, <1>4, <2>t, <2>l, <2>b, <3>1
  <2>2. CASE p <= l
    <3>1. PICK i \in 1 .. len : p = tb + i
      <4>1. p - tb \in 1 .. len /\ p = tb + (p - tb)
        BY <1>2, <2>b, <2>1, <2>2
      <4> QED
        BY <4>1
    <3>2. contents[tb + i] = text[i]
      BY <1>3, <2>t, <2>l, <2>b DEF LiesAt
    <3>3. text[i] \in Char
      BY <2>l, ElementOfSeq
    <3> QED
      BY <3>1, <3>2, <3>3
  <2>3. CASE ~(p <= l)
    <3>1. p \in 1 .. l + Len(rest) /\ p - l \in 1 .. Len(rest)
      BY <1>2, <2>b, <2>1, <2>3
    <3>2. contents[p] = rest[p - l]
      BY <1>2, <2>3, <3>1
    <3> QED
      BY <3>1, <3>2, ElementOfSeq
  <2> QED
    BY <2>2, <2>3
<1> QED
  BY <1>t, <1>n, <1>2, <1>3, <1>4

LEMMA InfoKnown ==
    ASSUME Described
    PROVE  Collected(file.texts, extensions, info, Len(file.texts))
<1>1. \A e \in 1 .. Len(file.texts) : Fills(extensions[e], file.texts[e])
  BY ExtensionsLie DEF LiesAt
<1> QED
  BY <1>1, TextsType, InfoIsCollected DEF Described
-----------------------------------------------------------------------------
(***************************************************************************)
(* The value in the texts of all extensions.                               *)
(***************************************************************************)
Joined == FlattenSeq(file.texts)

\* The value begins in text n, behind the k-th symbol and a quote; its segments are
\* those up to the m-th, and in that the closing quote is the q-th symbol.
Layout(n, m, k, q) == Spread(file.texts, extensions, info, Len(file.texts), n, m, k, q)

ValueBegins(n, k) == LengthBefore(file.texts, n) + (k + 2)

ValueStops(m, q) == LengthBefore(file.texts, m) + q

LEMMA PartOfText ==
    ASSUME NEW s \in Seq(Seq(Char)), NEW e \in 1 .. Len(s),
           NEW a \in Nat, NEW z \in Nat, 1 <= a, z <= Len(s[e])
    PROVE  /\ LengthBefore(s, e) \in Nat
           /\ LengthBefore(s, e) + z <= Len(FlattenSeq(s))
           /\ SubSeq(s[e], a, z)
                 = SubSeq(FlattenSeq(s), LengthBefore(s, e) + a, LengthBefore(s, e) + z)
<1>t. PICK t \in Seq(Char) : t = s[e]
  BY ElementOfSeq
<1>f. PICK f \in Seq(Char) : f = FlattenSeq(s)
  BY LengthsBefore
<1>1. IsAt(s, e, f)
  BY <1>f, LengthsBefore
<1>b. PICK b \in Nat : b = LengthBefore(s, e)
  BY <1>1 DEF IsAt
<1>l. PICK l \in Nat : l = Len(t) /\ z <= l
  BY <1>t, LenProperties
<1>m. PICK m \in Nat : m = Len(f)
  BY LenProperties
<1>2. b + l <= m /\ \A i \in 1 .. l : f[b + i] = t[i]
  BY <1>1, <1>t, <1>b, <1>l, <1>m DEF IsAt
<1>3. /\ SubSeq(t, a, z) \in Seq(Char)
      /\ Len(SubSeq(t, a, z)) = IF a <= z THEN z - a + 1 ELSE 0
      /\ \A i \in 1 .. z - a + 1 : SubSeq(t, a, z)[i] = t[a + i - 1]
  BY <1>l, SubSeqFacts
<1>x. PICK x \in Nat : x = b + a
  OBVIOUS
<1>y. PICK y \in Nat : y = b + z
  OBVIOUS
<1>4. /\ SubSeq(f, x, y) \in Seq(Char)
      /\ Len(SubSeq(f, x, y)) = IF x <= y THEN y - x + 1 ELSE 0
      /\ \A i \in 1 .. y - x + 1 : SubSeq(f, x, y)[i] = f[x + i - 1]
  <2>1. 1 <= x /\ y <= Len(f)
    BY <1>l, <1>m, <1>x, <1>y, <1>2
  <2> QED
    BY <2>1, SubSeqFacts
<1>5. Len(SubSeq(f, x, y)) = Len(SubSeq(t, a, z))
  BY <1>x, <1>y, <1>3, <1>4
<1>6. ASSUME NEW i \in 1 .. Len(SubSeq(t, a, z))
      PROVE  SubSeq(t, a, z)[i] = SubSeq(f, x, y)[i]
  <2>1. i \in 1 .. z - a + 1 /\ i \in 1 .. y - x + 1
    BY <1>x, <1>y, <1>3
  <2>2. PICK j \in 1 .. l : j = a + i - 1 /\ b + j = x + i - 1
    <3>1. a + i - 1 \in 1 .. l /\ b + (a + i - 1) = x + i - 1
      BY <1>l, <1>x, <2>1
    <3> QED
      BY <3>1
  <2>3. SubSeq(t, a, z)[i] = t[j]
    BY <1>3, <2>1, <2>2
  <2>4. SubSeq(f, x, y)[i] = f[b + j]
    BY <1>4, <2>1, <2>2
  <2> QED
    BY <1>2, <2>3, <2>4
<1>7. SubSeq(t, a, z) = SubSeq(f, x, y)
  BY <1>3, <1>4, <1>5, <1>6, SeqEqual
<1>8. b + z <= m
  BY <1>l, <1>2
<1> QED
  BY <1>t, <1>f, <1>b, <1>m, <1>x, <1>y, <1>7, <1>8

\* A name at o, the quote behind it, and the next quote at c.
Encloses(joined, o, c) ==
    /\ o \in Nat /\ o >= 1 /\ o + 1 < c /\ c <= Len(joined)
    /\ joined[o] = Type /\ joined[o + 1] = Quote /\ joined[c] = Quote
    /\ \A x \in o + 2 .. c - 1 : joined[x] # Quote

LEMMA NoQuoteBetween ==
    ASSUME NEW S, NEW texts \in Seq(Seq(S)), NEW exts, NEW builder,
           NEW n \in Nat, NEW m \in Nat, NEW k \in Nat, NEW q \in Nat,
           Spread(texts, exts, builder, Len(texts), n, m, k, q),
           IsValid(builder.property_end),
           NEW o, o = LengthBefore(texts, n) + k,
           NEW c, c = LengthBefore(texts, m) + q
    PROVE  Encloses(FlattenSeq(texts), o, c)
<1>l. PICK l \in Nat : l = Len(texts)
  BY LenProperties
<1>f. PICK f \in Seq(S) : f = FlattenSeq(texts)
  BY LengthsBefore
<1>m. PICK len \in Nat : len = Len(f)
  BY LenProperties
<1>1. /\ n \in 1 .. m /\ m \in 1 .. l /\ OpensAt(texts[n], k)
      /\ ClosesAt(texts[m], ValueFrom(n, k, m), q)
      /\ \A e \in n .. m - 1 : GoesOn(texts[e], ValueFrom(n, k, e))
  BY <1>l DEF Spread
<1>b. PICK b : b = [e \in Nat |-> LengthBefore(texts, e)]
  OBVIOUS
<1>s. PICK s : s = [e \in Nat |-> Len(texts[e])]
  OBVIOUS
<1>2. \A e \in 1 .. l : /\ b[e] \in Nat /\ s[e] \in Nat /\ s[e] = Len(texts[e])
                        /\ b[e + 1] = b[e] + s[e] /\ b[e + 1] <= len
                        /\ \A i \in 1 .. s[e] : f[b[e] + i] = texts[e][i]
  <2> SUFFICES ASSUME NEW e \in 1 .. l
               PROVE  /\ b[e] \in Nat /\ s[e] \in Nat /\ s[e] = Len(texts[e])
                      /\ b[e + 1] = b[e] + s[e] /\ b[e + 1] <= len
                      /\ \A i \in 1 .. s[e] : f[b[e] + i] = texts[e][i]
    OBVIOUS
  <2>1. IsAt(texts, e, f)
    BY <1>l, <1>f, LengthsBefore
  <2>2. s[e] = Len(texts[e]) /\ Len(texts[e]) \in Nat
    BY <1>l, <1>s, ElementOfSeq, LenProperties
  <2>3. b[e] = LengthBefore(texts, e) /\ b[e + 1] = LengthBefore(texts, e + 1)
    BY <1>b
  <2> QED
    BY <1>m, <2>1, <2>2, <2>3 DEF IsAt
<1>3. \A e \in 1 .. l + 1 : \A d \in 1 .. e : b[d] <= b[e] /\ b[d] \in Nat /\ b[e] \in Nat
  <2> SUFFICES ASSUME NEW e \in 1 .. l + 1, NEW d \in 1 .. e
               PROVE  b[d] <= b[e] /\ b[d] \in Nat /\ b[e] \in Nat
    OBVIOUS
  <2>1. b[d] = LengthBefore(texts, d) /\ b[e] = LengthBefore(texts, e)
    BY <1>b
  <2> QED
    BY <1>l, <2>1, LengthsGrow
<1>n. n \in 1 .. l /\ o = b[n] + k /\ c = b[m] + q
  BY <1>1, <1>b
<1>4. k \in 1 .. s[n] - 2 /\ texts[n][k] = Type /\ texts[n][k + 1] = Quote
  BY <1>1, <1>2, <1>n DEF OpensAt, FirstFrom
<1>5. /\ q >= ValueFrom(n, k, m) /\ q >= 1 /\ q <= s[m] /\ texts[m][q] = Quote
      /\ \A r \in ValueFrom(n, k, m) .. q - 1 : texts[m][r] # Quote
  <2>1. ValueFrom(n, k, m) \in Nat /\ ValueFrom(n, k, m) >= 1
    BY DEF ValueFrom
  <2> QED
    BY <1>1, <1>2, <2>1 DEF ClosesAt, FirstFrom
<1>6. o \in Nat /\ o >= 1 /\ f[o] = Type /\ f[o + 1] = Quote
  <2>b. PICK bn \in Nat : bn = b[n]
    BY <1>2, <1>n
  <2>s. PICK sn \in Nat : sn = s[n]
    BY <1>2, <1>n
  <2>0. k \in 1 .. sn - 2
    BY <1>4, <2>s, Zenon
  <2>1. k \in 1 .. sn /\ k + 1 \in 1 .. sn /\ bn + (k + 1) = (bn + k) + 1
    BY <2>0
  <2>2. \A i \in 1 .. sn : f[bn + i] = texts[n][i]
    BY <1>2, <1>n, <2>b, <2>s
  <2>3. f[bn + k] = Type /\ f[bn + (k + 1)] = Quote
    BY <1>4, <2>1, <2>2
  <2>4. o = bn + k
    BY <1>n, <2>b
  <2>5. o \in Nat /\ o >= 1 /\ o + 1 = bn + (k + 1)
    BY <2>b, <2>1, <2>4
  <2>6. f[o] = Type /\ f[o + 1] = Quote
    BY <2>3, <2>4, <2>5, Zenon
  <2> QED
    BY <2>5, <2>6
<1>7. f[c] = Quote /\ c <= len /\ c \in Nat
  <2>1. q \in 1 .. s[m] /\ b[m] \in Nat /\ s[m] \in Nat
    BY <1>1, <1>2, <1>5
  <2>2. f[b[m] + q] = texts[m][q] /\ b[m] + s[m] <= len
    BY <1>1, <1>2, <2>1
  <2>3. f[c] = Quote
    BY <1>5, <1>n, <2>2, Zenon
  <2>b. PICK bm \in Nat : bm = b[m]
    BY <2>1
  <2>s. PICK sm \in Nat : sm = s[m]
    BY <2>1
  <2>4. q <= sm /\ bm + sm <= len /\ c = bm + q
    BY <1>n, <2>1, <2>2, <2>b, <2>s
  <2>5. c \in Nat /\ c <= len
    BY <1>m, <2>b, <2>s, <2>4
  <2> QED
    BY <2>3, <2>5
<1>8. o + 1 < c
  <2>1. CASE n = m
    BY <1>2, <1>5, <1>n, <2>1 DEF ValueFrom
  <2>2. CASE n # m
    <3>1. n + 1 \in 1 .. m /\ m \in 1 .. l + 1
      BY <1>1, <2>2
    <3>2. b[n + 1] <= b[m] /\ b[n + 1] = b[n] + s[n] /\ b[n] \in Nat /\ s[n] \in Nat
          /\ b[m] \in Nat
      BY <1>2, <1>3, <1>n, <3>1
    <3> QED
      BY <1>4, <1>5, <1>n, <3>2
  <2> QED
    BY <2>1, <2>2
<1>9. ASSUME NEW x \in o + 2 .. c - 1
      PROVE  f[x] # Quote
  <2>1. x \in 1 .. Len(FlattenSeq(texts))
    BY <1>f, <1>m, <1>6, <1>7
  <2>2. PICK e \in 1 .. l : \E i \in 1 .. s[e] : x = b[e] + i
    <3>1. PICK e \in 1 .. Len(texts) :
             \E i \in 1 .. Len(texts[e]) : x = LengthBefore(texts, e) + i
      BY <2>1, PlaceOf
    <3> QED
      BY <1>l, <1>b, <1>s, <3>1
  <2>3. PICK i \in 1 .. s[e] : x = b[e] + i
    BY <2>2
  <2>4. b[e] \in Nat /\ s[e] \in Nat /\ f[x] = texts[e][i] /\ b[e + 1] = b[e] + s[e]
    BY <1>2, <2>3
  <2>j. PICK j \in Nat : j = i /\ 1 <= j /\ j <= s[e]
    BY <2>3, <2>4
  <2>y. PICK y \in Nat : y = x /\ o + 2 <= y /\ y < c
    BY <1>6, <1>7
  <2>5. e <= m
    <3> SUFFICES ASSUME ~(e <= m)
                 PROVE  FALSE
      OBVIOUS
    <3>1. m + 1 \in 1 .. e /\ e \in 1 .. l + 1
      BY <1>1
    <3>2. b[m + 1] <= b[e] /\ b[m + 1] = b[m] + s[m] /\ b[m] \in Nat /\ s[m] \in Nat
      BY <1>1, <1>2, <1>3, <3>1
    <3>3. PICK x1 \in Nat : x1 = b[m]
      BY <3>2
    <3>4. PICK x2 \in Nat : x2 = s[m]
      BY <3>2
    <3>5. PICK x3 \in Nat : x3 = b[e]
      BY <2>4
    <3>6. x1 + x2 <= x3 /\ q <= x2
      BY <1>5, <3>2, <3>3, <3>4, <3>5
    <3>7. c = x1 + q
      BY <1>n, <3>3
    <3>8. y = x3 + j
      BY <2>3, <2>j, <2>y, <3>5
    <3>9. y < x1 + q
      BY <2>y, <3>7
    <3>10. x1 + q <= x3
      <4>1. x1 \in Nat /\ x2 \in Nat /\ x3 \in Nat /\ q \in Nat
        BY <3>3, <3>4, <3>5
      <4> QED
        BY ONLY <3>6, <4>1
    <3>11. x3 < y
      BY <2>j, <2>y, <3>5, <3>8
    <3> QED
      BY <2>y, <3>3, <3>5, <3>9, <3>10, <3>11
  <2>6. n <= e
    <3> SUFFICES ASSUME ~(n <= e)
                 PROVE  FALSE
      OBVIOUS
    <3>1. e + 1 \in 1 .. n /\ n \in 1 .. l + 1
      BY <1>n
    <3>2. b[e + 1] <= b[n] /\ b[n] \in Nat
      BY <1>3, <3>1
    <3>3. PICK x1 \in Nat : x1 = b[n]
      BY <3>2
    <3>4. PICK x2 \in Nat : x2 = s[e]
      BY <2>4
    <3>5. PICK x3 \in Nat : x3 = b[e]
      BY <2>4
    <3>6. x3 + x2 <= x1 /\ j <= x2
      BY <2>4, <2>j, <3>2, <3>3, <3>4, <3>5
    <3>7. o = x1 + k
      BY <1>n, <3>3
    <3>8. y = x3 + j
      BY <2>3, <2>j, <2>y, <3>5
    <3>9. x1 + k < y
      BY <1>6, <2>y, <3>7
    <3>10. y <= x1
      <4>1. x1 \in Nat /\ x2 \in Nat /\ x3 \in Nat /\ j \in Nat /\ y \in Nat
        BY <2>j, <2>y, <3>3, <3>4, <3>5
      <4> QED
        BY ONLY <3>6, <3>8, <4>1
    <3>11. y <= x1 + k
      BY <2>y, <3>3, <3>10
    <3> QED
      BY <2>y, <3>3, <3>9, <3>11
  <2>7. i >= ValueFrom(n, k, e)
    <3>1. CASE e = n
      BY <1>n, <2>3, <2>4, <3>1 DEF ValueFrom
    <3>2. CASE e # n
      BY <2>4, <3>2 DEF ValueFrom
    <3> QED
      BY <3>1, <3>2
  <2>8. ValueFrom(n, k, e) \in Nat
    BY DEF ValueFrom
  <2>9. CASE e = m
    <3>1. i <= q - 1
      BY <1>n, <2>3, <2>4, <2>9
    <3> QED
      BY <1>5, <2>4, <2>7, <2>8, <2>9, <3>1
  <2>10. CASE e # m
    <3>1. e \in n .. m - 1
      BY <2>5, <2>6, <2>10
    <3>2. \A r \in ValueFrom(n, k, e) .. s[e] : texts[e][r] # Quote
      BY <1>1, <1>2, <3>1 DEF GoesOn, Absent
    <3> QED
      BY <2>4, <2>7, <2>8, <3>2
  <2> QED
    BY <2>9, <2>10
<1> QED
  BY <1>f, <1>m, <1>6, <1>7, <1>8, <1>9 DEF Encloses

LEMMA SpreadPlaces ==
    ASSUME NEW texts, NEW exts, NEW builder, NEW j, NEW n, NEW m, NEW k, NEW q,
           Spread(texts, exts, builder, j, n, m, k, q)
    PROVE  n \in 1 .. m /\ m \in 1 .. j
<1> QED
  BY DEF Spread

LEMMA ValueInIs ==
    ASSUME NEW S, NEW joined \in Seq(S), NEW o \in Nat, NEW c \in Nat,
           o >= 1, o + 1 < c, c <= Len(joined),
           joined[o] = Type, joined[o + 1] = Quote, joined[c] = Quote,
           \A x \in o + 2 .. c - 1 : joined[x] # Quote,
           NamedOnce(joined)
    PROVE  ValueIn(joined) = SubSeq(joined, o + 2, c - 1)
<1>l. PICK len \in Nat : len = Len(joined)
  BY LenProperties
<1>o. PICK opened :
         opened = {k \in 1 .. Len(joined) - 1 : joined[k] = Type /\ joined[k + 1] = Quote}
  OBVIOUS
<1>1. opened = {o}
  <2>1. o \in 1 .. len - 1
    BY <1>l
  <2>2. \A k \in opened : k = o
    BY <1>l, <1>o, <2>1 DEF NamedOnce
  <2> QED
    BY <1>l, <1>o, <2>1, <2>2
<1>2. Min(opened) = o
  BY <1>1 DEF Min
<1>c. PICK closed :
         closed = {k \in 1 .. Len(joined) :
                      joined[k] = Quote /\ opened # {} /\ k > Min(opened) + 1}
  OBVIOUS
<1>3. c \in closed
  BY <1>l, <1>c, <1>1, <1>2
<1>4. \A k \in closed : k \in Nat /\ c <= k
  BY <1>l, <1>c, <1>2
<1>5. Min(closed) = c
  <2>1. \A k \in closed : (\A j \in closed : k <= j) => k = c
    BY <1>3, <1>4
  <2> QED
    BY <1>3, <1>4, <2>1 DEF Min
<1> QED
  BY <1>o, <1>c, <1>2, <1>3, <1>5 DEF ValueIn

LEMMA ValueIs ==
    ASSUME Described, Ends, NEW n \in Nat, NEW m \in Nat, NEW k \in Nat, NEW q \in Nat,
           Layout(n, m, k, q)
    PROVE  /\ Joined \in Seq(Char)
           /\ ValueBegins(n, k) \in Nat /\ ValueStops(m, q) \in Nat
           /\ 1 <= ValueBegins(n, k) /\ ValueBegins(n, k) <= ValueStops(m, q)
           /\ ValueStops(m, q) <= Len(Joined)
           /\ Value = SubSeq(Joined, ValueBegins(n, k), ValueStops(m, q) - 1)
<1>t. PICK texts \in Seq(Seq(Char)) : texts = file.texts
  BY TextsType
<1>j. PICK joined \in Seq(Char) : joined = FlattenSeq(texts) /\ joined = Joined
  BY <1>t, LengthsBefore DEF Joined
<1>1. IsValid(info.property_end) /\ NamedOnce(joined) /\ Value = ValueIn(joined)
  BY <1>t, <1>j DEF Described, Ends, Value, TruthOf
<1>2. Spread(texts, extensions, info, Len(texts), n, m, k, q)
  BY <1>t DEF Layout
<1>o. PICK o : o = LengthBefore(texts, n) + k
  OBVIOUS
<1>c. PICK c : c = LengthBefore(texts, m) + q
  OBVIOUS
<1>3. /\ o \in Nat /\ o >= 1 /\ o + 1 < c /\ c <= Len(joined)
      /\ joined[o] = Type /\ joined[o + 1] = Quote /\ joined[c] = Quote
      /\ \A x \in o + 2 .. c - 1 : joined[x] # Quote
  <2>b. PICK builder : builder = info
    OBVIOUS
  <2>1. Spread(texts, extensions, builder, Len(texts), n, m, k, q)
        /\ IsValid(builder.property_end)
    BY <1>1, <1>2, <2>b
  <2>2. Encloses(FlattenSeq(texts), o, c)
    BY <1>o, <1>c, <2>1, NoQuoteBetween
  <2> QED
    BY <1>j, <2>2 DEF Encloses
<1>4. n \in 1 .. m /\ m \in 1 .. Len(texts) /\ Len(texts) \in Nat
  <2>1. Len(texts) \in Nat
    BY LenProperties
  <2> QED
    BY <1>2, <2>1, SpreadPlaces
<1>5. LengthBefore(texts, n) \in Nat /\ LengthBefore(texts, m) \in Nat
  <2>0. n \in 1 .. Len(texts) /\ m \in 1 .. Len(texts)
    BY <1>4
  <2>1. IsAt(texts, n, joined) /\ IsAt(texts, m, joined)
    BY <1>j, <2>0, LengthsBefore
  <2> QED
    BY <2>1 DEF IsAt
<1>6. /\ ValueStops(m, q) = c /\ c \in Nat
      /\ ValueBegins(n, k) = o + 2
  BY <1>t, <1>o, <1>c, <1>5 DEF ValueStops, ValueBegins
<1>7. ValueIn(joined) = SubSeq(joined, o + 2, c - 1)
  BY <1>1, <1>3, <1>6, ValueInIs
<1> QED
  BY <1>j, <1>1, <1>3, <1>6, <1>7
-----------------------------------------------------------------------------
(***************************************************************************)
(* What the extractor finds in a segment that it is transferred.           *)
(***************************************************************************)
LEMMA FirstOnce ==
    ASSUME NEW text, NEW a \in Nat, NEW symbol, NEW p \in Nat, NEW r \in Nat, a <= p, a <= r,
           FirstFrom(text, a, symbol, p), FirstFrom(text, a, symbol, r)
    PROVE  p = r
<1>1. ~(p < r)
  <2>1. p < r => p \in a .. r - 1
    OBVIOUS
  <2> QED
    BY <2>1 DEF FirstFrom
<1>2. ~(r < p)
  <2>1. r < p => r \in a .. p - 1
    OBVIOUS
  <2> QED
    BY <2>1 DEF FirstFrom
<1> QED
  BY <1>1, <1>2

LEMMA FindInType ==
    ASSUME NEW segment \in DataRange, NEW start \in Nat, NEW symbol
    PROVE  FindIn(segment, start, symbol) \in Nat /\ FindIn(segment, start, symbol) <= segment.end
<1>e. PICK end \in Nat : end = segment.end
  BY DEF DataRange
<1>t. PICK T : T = {end} \cup
                   {loc \in start .. end - 1 :
                       ContainsLocation(segment, start) /\ SymbolAt(loc) = symbol}
  OBVIOUS
<1>1. T \subseteq Nat /\ end \in T
  BY <1>t
<1>2. PICK x \in T : \A y \in T : x <= y
  BY <1>1, LeastNumber
<1>3. Min(T) \in T /\ \A y \in T : Min(T) <= y
  BY <1>2 DEF Min
<1>4. FindIn(segment, start, symbol) = Min(T)
  BY <1>e, <1>t DEF FindIn
<1> QED
  BY <1>e, <1>1, <1>3, <1>4

\* What is transferred begins with a listed segment, and ends with it or so many bytes
\* before; and it is looked at in a larger segment of the file.
Sees(range, segment, seg, short) ==
    /\ range \in DataRange /\ segment \in DataRange
    /\ short \in Nat
    /\ range.begin = seg.begin /\ range.end + short = seg.end
    /\ segment.begin <= range.begin /\ range.end <= segment.end
    /\ segment.end <= Len(contents)
    /\ short # 0 => segment.end = range.end

\* The text, of that length, is at tb in the file; the range ends at re, and the segment
\* at se.
Seen(range, segment, text, tb, len, re, se) ==
    /\ tb \in Nat /\ len \in Nat /\ re \in Nat /\ se \in Nat
    /\ tb = EncodedBegin(range) /\ len = Len(text)
    /\ segment \in DataRange /\ segment.begin <= tb
    /\ re = range.end /\ se = segment.end
    /\ re <= se /\ re <= tb + len
    /\ (re # tb + len => se = re)
    /\ se <= Len(contents)
    /\ \A i \in 1 .. len : contents[tb + i] = text[i]

LEMMA SeenText ==
    ASSUME NEW S, NEW text \in Seq(S), NEW seg, LiesAt(seg, text),
           NEW range, NEW segment, NEW short, Sees(range, segment, seg, short)
    PROVE  \E tb, len, re, se \in Nat :
              /\ Seen(range, segment, text, tb, len, re, se)
              /\ tb = TextBegin(seg) /\ (short = 0 <=> re = tb + len)
<1>l. PICK len \in Nat : len = Len(text)
  BY LenProperties
<1>t. PICK tb \in Nat : tb = TextBegin(seg)
  BY DEF LiesAt, Fills
<1>1. seg.begin \in Nat /\ seg.begin <= tb /\ seg.end = tb + len
      /\ \A i \in 1 .. len : contents[tb + i] = text[i]
  BY <1>l, <1>t DEF LiesAt, Fills, DataRange
<1>2. tb = EncodedBegin(range)
  BY <1>t DEF Sees, EncodedBegin, TextBegin
<1>b. PICK b \in Nat : b = segment.begin
  BY DEF Sees, DataRange
<1>e. PICK se \in Nat : se = segment.end
  BY DEF Sees, DataRange
<1>r. PICK re \in Nat : re = range.end
  BY DEF Sees, DataRange
<1>4. b <= tb
  BY <1>1, <1>b DEF Sees
<1>5. short \in Nat /\ re + short = tb + len /\ re <= se /\ (short # 0 => se = re)
      /\ se <= Len(contents) /\ segment \in DataRange
  BY <1>1, <1>e, <1>r DEF Sees
<1>6. Seen(range, segment, text, tb, len, re, se)
  BY <1>l, <1>1, <1>2, <1>b, <1>e, <1>r, <1>4, <1>5 DEF Seen
<1>7. short = 0 <=> re = tb + len
  BY <1>5
<1> QED
  BY <1>t, <1>6, <1>7

LEMMA FoundIn ==
    ASSUME NEW range, NEW segment, NEW text, NEW tb, NEW len, NEW re, NEW se,
           Seen(range, segment, text, tb, len, re, se),
           NEW a \in Nat, a >= 1, NEW p \in Nat, a <= p, p <= len, tb + p <= se, NEW symbol,
           FirstFrom(text, a, symbol, p),
           NEW start \in Nat, start + 1 = tb + a
    PROVE  FindIn(segment, start, symbol) \in Nat /\ FindIn(segment, start, symbol) + 1 = tb + p
<1>0. tb \in Nat /\ len \in Nat /\ re \in Nat /\ se \in Nat
  BY DEF Seen
<1> USE <1>0
<1>1. \A i \in 1 .. len : contents[tb + i] = text[i]
  BY DEF Seen
<1>b. PICK begin \in Nat : begin = segment.begin /\ begin <= tb
  BY DEF Seen, DataRange
<1>e. se = segment.end /\ segment \in DataRange
  BY DEF Seen
<1>2. ContainsLocation(segment, start)
  BY <1>e, <1>b DEF ContainsLocation
<1>x. PICK x : x = FindIn(segment, start, symbol)
  OBVIOUS
<1>3. Finds(contents, start + 1, se, symbol, 0, x)
  BY <1>2, <1>e, <1>x, FindInIs
<1>f. PICK f \in Nat : f = start + 1
  OBVIOUS
<1>p. PICK y \in Nat : y = tb + p
  OBVIOUS
<1>4. FirstFrom(contents, f, symbol, y)
  <2>1. contents[y] = symbol
    BY <1>1, <1>p DEF FirstFrom
  <2>2. ASSUME NEW r \in f .. y - 1
        PROVE  contents[r] # symbol
    <3>1. PICK i \in 1 .. len : r = tb + i /\ i \in a .. p - 1
      <4>1. r - tb \in 1 .. len /\ r = tb + (r - tb) /\ r - tb \in a .. p - 1
        BY <1>f, <1>p
      <4> QED
        BY <4>1
    <3> QED
      BY <1>1, <3>1 DEF FirstFrom
  <2> QED
    BY <2>1, <2>2 DEF FirstFrom
<1>5. y \in f .. se
  BY <1>f, <1>p
<1>6. PICK z \in f .. se : FirstFrom(contents, f, symbol, z) /\ x + 1 = 0 + z
  <2>1. ~Absent(contents, f, se, symbol)
    BY <1>4, <1>5 DEF Absent, FirstFrom
  <2> QED
    BY <1>3, <1>f, <2>1 DEF Finds
<1>7. z = y
  BY <1>4, <1>5, <1>6, FirstOnce
<1>8. x \in Nat
  BY <1>x, <1>e, FindInType
<1> QED
  BY <1>5, <1>6, <1>7, <1>8, <1>p, <1>x

\* What lies behind the end of the range is not found.
LEMMA NotSeen ==
    ASSUME NEW range, NEW segment, NEW text, NEW tb, NEW len, NEW re, NEW se,
           Seen(range, segment, text, tb, len, re, se),
           NEW a \in Nat, a >= 1, NEW p \in Nat, p <= len, ~(tb + p <= re), NEW symbol,
           FirstFrom(text, a, symbol, p),
           NEW start \in Nat, start + 1 = tb + a
    PROVE  FindIn(segment, start, symbol) = range.end
<1>0. tb \in Nat /\ len \in Nat /\ re \in Nat /\ se \in Nat
  BY DEF Seen
<1> USE <1>0
<1>1. /\ segment \in DataRange /\ re = range.end /\ se = segment.end /\ re <= tb + len
      /\ (re # tb + len => se = re)
      /\ \A i \in 1 .. len : contents[tb + i] = text[i]
  BY DEF Seen
<1>2. se = re
  BY <1>1
<1>3. CASE ~ContainsLocation(segment, start)
  BY <1>1, <1>2, <1>3, FindInIs
<1>4. CASE ContainsLocation(segment, start)
  <2>x. PICK x \in Nat : x = FindIn(segment, start, symbol)
    BY <1>1, FindInType
  <2>f. PICK f \in Nat : f = start + 1
    OBVIOUS
  <2>1. Finds(contents, f, se, symbol, 0, x)
    BY <1>1, <1>4, <2>x, <2>f, FindInIs
  <2>2. ASSUME NEW r \in f .. se
        PROVE  contents[r] # symbol
    <3>1. PICK i \in 1 .. len : r = tb + i /\ i \in a .. p - 1
      <4>1. r - tb \in 1 .. len /\ r = tb + (r - tb) /\ r - tb \in a .. p - 1
        BY <1>2, <2>f
      <4> QED
        BY <4>1
    <3> QED
      BY <1>1, <3>1 DEF FirstFrom
  <2>3. x = 0 + se
    BY <2>1, <2>2 DEF Finds, FirstFrom
  <2> QED
    BY <1>1, <1>2, <2>x, <2>3
<1> QED
  BY <1>3, <1>4

\* In the first segment the value begins behind the name and a quote, if these are seen.
LEMMA BeginSeen ==
    ASSUME NEW range, NEW segment, NEW text, NEW tb, NEW len, NEW re, NEW se,
           Seen(range, segment, text, tb, len, re, se),
           NEW k \in Nat, OpensAt(text, k), index = 1
    PROVE  /\ tb + (k + 1) <= re => ValueBegin(range, segment) = tb + (k + 1)
           /\ ~(tb + (k + 1) <= re) => ValueBegin(range, segment) = EncodedBegin(range)
<1>0. tb \in Nat /\ len \in Nat /\ re \in Nat /\ se \in Nat
  BY DEF Seen
<1> USE <1>0
<1>1. /\ tb = EncodedBegin(range) /\ len = Len(text)
      /\ re = range.end /\ re <= se
  BY DEF Seen
<1>2. /\ k >= 1 /\ k + 2 <= len /\ FirstFrom(text, 1, Type, k) /\ text[k + 1] = Quote
      /\ text[k] = Type
  BY <1>1 DEF OpensAt, FirstFrom
<1>3. FirstFrom(text, k, Quote, k + 1)
  <2>1. \A r \in k .. (k + 1) - 1 : r = k
    BY <1>2
  <2>2. Type # Quote
    BY TypeAssumption, QuoteAssumption
  <2> QED
    BY <1>2, <2>1, <2>2 DEF FirstFrom
<1>p. PICK p \in Nat : p = k + 1 /\ k <= p /\ p <= len
  BY <1>2
<1>n. PICK name : name = FindIn(segment, tb, Type)
  OBVIOUS
<1>4. CASE ~(tb + k <= re)
  <2>1. 1 \in Nat /\ 1 >= 1 /\ k <= len /\ tb + 1 = tb + 1
    BY <1>2
  <2>2. name = range.end
    BY <1>2, <1>4, <1>n, <2>1, NotSeen
  <2>3. ValueBegin(range, segment) = EncodedBegin(range)
    BY <1>1, <1>n, <2>2 DEF ValueBegin
  <2> QED
    BY <1>4, <2>3
<1>5. CASE tb + k <= re
  <2>1. 1 \in Nat /\ 1 >= 1 /\ 1 <= k /\ k <= len /\ tb + k <= se /\ tb + 1 = tb + 1
    BY <1>1, <1>2, <1>5
  <2>2. name \in Nat /\ name + 1 = tb + k
    BY <1>2, <1>n, <2>1, FoundIn
  <2>3. CASE tb + p <= re
    <3>1. tb + p <= se
      BY <1>1, <2>3
    <3>2. FindIn(segment, name, Quote) \in Nat /\ FindIn(segment, name, Quote) + 1 = tb + p
      BY <1>2, <1>3, <1>p, <2>2, <3>1, FoundIn
    <3>q. PICK quote \in Nat : quote = FindIn(segment, name, Quote) /\ quote = tb + k
      BY <1>p, <3>2
    <3>3. name # re /\ quote # re /\ quote + 1 = tb + (k + 1)
      BY <1>p, <2>2, <2>3, <3>q
    <3> QED
      BY <1>1, <1>n, <1>p, <2>3, <3>q, <3>3 DEF ValueBegin
  <2>4. CASE ~(tb + p <= re)
    <3>1. FindIn(segment, name, Quote) = range.end
      BY <1>2, <1>3, <1>p, <2>2, <2>4, NotSeen
    <3>2. ValueBegin(range, segment) = EncodedBegin(range)
      BY <1>1, <1>n, <3>1 DEF ValueBegin
    <3> QED
      BY <1>p, <2>4, <3>2
  <2> QED
    BY <2>3, <2>4
<1> QED
  BY <1>4, <1>5

\* What is transferred begins, or ends, with so many symbols of the text.
BeginsAt(range, segment, tb, a) ==
    /\ a \in Nat /\ a >= 1
    /\ ValueBegin(range, segment) \in Nat /\ ValueBegin(range, segment) + 1 = tb + a

EndsAt(range, segment, tb, z) == z \in Nat /\ ValueEnd(range, segment) = tb + z

\* In the last segment the value ends before the quote, if that is seen.
LEMMA EndSeen ==
    ASSUME NEW range, NEW segment, NEW text, NEW tb, NEW len, NEW re, NEW se,
           Seen(range, segment, text, tb, len, re, se),
           NEW a \in Nat, BeginsAt(range, segment, tb, a),
           NEW q \in Nat, ClosesAt(text, a, q), IsLast
    PROVE  /\ tb + q <= re => EndsAt(range, segment, tb, q - 1)
           /\ ~(tb + q <= re) => ValueEnd(range, segment) = range.end
<1>0. /\ tb \in Nat /\ len \in Nat /\ re \in Nat /\ se \in Nat /\ a \in Nat /\ a >= 1
      /\ len = Len(text)
  BY DEF Seen, BeginsAt
<1> USE <1>0
<1>1. /\ len = Len(text) /\ segment \in DataRange
      /\ re = range.end /\ se = segment.end /\ re <= se
  BY DEF Seen
<1>2. q >= a /\ q <= len /\ FirstFrom(text, a, Quote, q)
  BY <1>1 DEF ClosesAt
<1>s. PICK start \in Nat : start = ValueBegin(range, segment) /\ start + 1 = tb + a
  BY DEF BeginsAt
<1>e. ValueEnd(range, segment) = FindIn(segment, start, Quote)
  BY <1>s DEF ValueEnd
<1>3. CASE tb + q <= re
  <2>1. tb + q <= se
    BY <1>1, <1>3
  <2>2. PICK at \in Nat : at = FindIn(segment, start, Quote) /\ at + 1 = tb + q
    <3>1. /\ FindIn(segment, start, Quote) \in Nat
          /\ FindIn(segment, start, Quote) + 1 = tb + q
      <4>1. a <= q /\ q <= len /\ FirstFrom(text, a, Quote, q) /\ start + 1 = tb + a
        BY <1>2, <1>s
      <4>2. \A p \in Nat, st \in Nat :
               a <= p /\ p <= len /\ tb + p <= se /\ FirstFrom(text, a, Quote, p)
                  /\ st + 1 = tb + a =>
               FindIn(segment, st, Quote) \in Nat /\ FindIn(segment, st, Quote) + 1 = tb + p
        BY FoundIn
      <4> QED
        BY <2>1, <4>1, <4>2
    <3> QED
      BY <3>1
  <2>3. q - 1 \in Nat /\ at = tb + (q - 1)
    BY <1>2, <2>2
  <2> QED
    BY <1>3, <1>e, <2>2, <2>3 DEF EndsAt
<1>4. CASE ~(tb + q <= re)
  <2>1. FindIn(segment, start, Quote) = range.end
    BY <1>2, <1>s, <1>4, NotSeen
  <2> QED
    BY <1>4, <1>e, <2>1
<1> QED
  BY <1>3, <1>4

\* The bytes of the value in a segment are symbols of its text.
LEMMA PieceIs ==
    ASSUME NEW range, NEW segment, NEW text \in Seq(Char), NEW tb, NEW len, NEW re, NEW se,
           Seen(range, segment, text, tb, len, re, se),
           NEW a, BeginsAt(range, segment, tb, a),
           NEW z, EndsAt(range, segment, tb, z), z <= len, tb + z <= se
    PROVE  /\ ValuePiece(range, segment) = SubSeq(text, a, z)
           /\ ValuePiece(range, segment) \in Seq(Char)
<1>0. /\ tb \in Nat /\ len \in Nat /\ re \in Nat /\ se \in Nat /\ a \in Nat /\ a >= 1
      /\ z \in Nat
  BY DEF Seen, BeginsAt, EndsAt
<1> USE <1>0
<1>s. PICK begin \in Nat : begin = ValueBegin(range, segment)
  BY DEF BeginsAt
<1>v. begin + 1 = tb + a
  BY <1>s DEF BeginsAt
<1>1. /\ len = Len(text) /\ se = segment.end
      /\ \A i \in 1 .. len : contents[tb + i] = text[i]
  BY DEF Seen
<1>b. PICK sb \in Nat : sb = segment.begin /\ sb <= tb
  BY DEF Seen, DataRange
<1>e. PICK end \in Nat : end = tb + z /\ end = ValueEnd(range, segment)
  BY DEF EndsAt
<1>2. /\ SubSeq(text, a, z) \in Seq(Char)
      /\ Len(SubSeq(text, a, z)) = IF a <= z THEN z - a + 1 ELSE 0
      /\ \A i \in 1 .. z - a + 1 : SubSeq(text, a, z)[i] = text[a + i - 1]
  BY <1>1, SubSeqFacts
<1>3. CASE ~(a <= z)
  <2>1. ~(begin < end)
    BY <1>3, <1>v, <1>e
  <2>2. ValuePiece(range, segment) = <<>>
    BY <1>s, <1>e, <2>1 DEF ValuePiece
  <2>3. SubSeq(text, a, z) = <<>>
    BY <1>2, <1>3, EmptySeq
  <2> QED
    BY <1>2, <2>2, <2>3
<1>4. CASE a <= z
  <2>1. begin < end /\ ContainsLocation(segment, begin)
    BY <1>v, <1>1, <1>4, <1>b, <1>e DEF ContainsLocation
  <2>n. PICK n \in Nat : n = z - a + 1 /\ n = end - begin
    <3>1. z - a + 1 \in Nat /\ z - a + 1 = end - begin
      BY <1>v, <1>4, <1>e
    <3> QED
      BY <3>1
  <2>2. ValuePiece(range, segment) = [i \in 1 .. n |-> SymbolAt(begin + i - 1)]
    BY <1>s, <1>e, <2>1, <2>n DEF ValuePiece
  <2>3. ASSUME NEW i \in 1 .. n
        PROVE  SymbolAt(begin + i - 1) = SubSeq(text, a, z)[i]
    <3>1. PICK j \in 1 .. len : j = a + i - 1 /\ (begin + i - 1) + 1 = tb + j
      <4>1. a + i - 1 \in 1 .. len /\ (begin + i - 1) + 1 = tb + (a + i - 1)
        BY <1>v, <1>4, <2>n
      <4> QED
        BY <4>1
    <3> QED
      BY <1>1, <1>2, <2>n, <3>1 DEF SymbolAt
  <2>p. PICK piece : piece = [i \in 1 .. n |-> SymbolAt(begin + i - 1)]
    OBVIOUS
  <2>4. piece \in Seq(Char) /\ Len(piece) = n /\ \A i \in 1 .. n : piece[i] = SubSeq(text, a, z)[i]
    <3>1. \A i \in 1 .. n : SubSeq(text, a, z)[i] \in Char
      BY <1>2, <1>4, <2>n, ElementOfSeq
    <3>2. piece \in [1 .. n -> Char]
      BY <2>p, <2>3, <3>1
    <3>3. piece \in Seq(Char) /\ Len(piece) = n
      BY <3>2
    <3>4. \A i \in 1 .. n : piece[i] = SymbolAt(begin + i - 1)
      BY <2>p
    <3> QED
      BY <2>3, <3>3, <3>4
  <2>5. piece = SubSeq(text, a, z)
    BY <1>2, <1>4, <2>n, <2>4, SeqEqual
  <2> QED
    BY <1>2, <2>2, <2>p, <2>5
<1> QED
  BY <1>2, <1>3, <1>4

\* Without a closing quote a piece may have what follows the last extension.
LEMMA PieceOfChars ==
    ASSUME NEW range, NEW segment, NEW tb \in Nat, NEW se \in Nat, se = segment.end,
           se <= Len(contents), Len(contents) \in Nat,
           \A p \in tb + 1 .. Len(contents) : contents[p] \in Char,
           NEW begin \in Nat, begin = ValueBegin(range, segment), tb <= begin,
           NEW end \in Nat, end = ValueEnd(range, segment), end <= se
    PROVE  ValuePiece(range, segment) \in Seq(Char)
<1>1. CASE begin < end /\ ContainsLocation(segment, begin)
  <2>n. PICK n \in Nat : n = end - begin
    <3>1. end - begin \in Nat
      BY <1>1
    <3> QED
      BY <3>1
  <2>1. ValuePiece(range, segment) = [i \in 1 .. n |-> SymbolAt(begin + i - 1)]
    BY <1>1, <2>n DEF ValuePiece
  <2>2. ASSUME NEW i \in 1 .. n
        PROVE  SymbolAt(begin + i - 1) \in Char
    <3>1. (begin + i - 1) + 1 \in tb + 1 .. Len(contents)
      BY <2>n
    <3> QED
      BY <3>1 DEF SymbolAt
  <2>3. [i \in 1 .. n |-> SymbolAt(begin + i - 1)] \in [1 .. n -> Char]
    BY <2>2
  <2> QED
    BY <2>1, <2>3
<1>2. CASE ~(begin < end /\ ContainsLocation(segment, begin))
  <2>1. ValuePiece(range, segment) = <<>>
    BY <1>2 DEF ValuePiece
  <2> QED
    BY <2>1, EmptySeq
<1> QED
  BY <1>1, <1>2
-----------------------------------------------------------------------------
(***************************************************************************)
(* The pieces of the value that are transferred.                           *)
(***************************************************************************)
LEMMA RangesAre ==
    ASSUME Described, NEW n \in Nat, NEW m \in Nat, NEW k \in Nat, NEW q \in Nat,
           Layout(n, m, k, q)
    PROVE  /\ n \in 1 .. m /\ m \in 1 .. Len(file.texts)
           /\ Len(data_ranges) = (m - n) + 1
           /\ \A i \in 1 .. (m - n) + 1 : data_ranges[i] = extensions[(n + i) - 1]
<1>1. n \in 1 .. m /\ m \in 1 .. Len(file.texts)
  BY SpreadPlaces DEF Layout
<1>d. PICK d \in Nat : d = (m - n) + 1
  BY <1>1
<1>2. data_ranges = [i \in 1 .. d |-> extensions[(n + i) - 1]]
  BY <1>d DEF Layout, Spread, data_ranges
<1>3. Len([i \in 1 .. d |-> extensions[(n + i) - 1]]) = d
  OBVIOUS
<1>4. \A i \in 1 .. d : [j \in 1 .. d |-> extensions[(n + j) - 1]][i] = extensions[(n + i) - 1]
  OBVIOUS
<1> QED
  BY <1>1, <1>d, <1>2, <1>3, <1>4

\* The segment at index is that of text e.
IsAtText(n, m, e) ==
    /\ e + 1 = n + index /\ e \in n .. m /\ e \in 1 .. Len(file.texts)
    /\ data_ranges[index] = extensions[e]
    /\ (index = 1 <=> e = n) /\ (IsLast <=> e = m)
    /\ (index + 1 \in 1 .. Len(data_ranges) <=> e # m)

\* Where the text of the segment at index is, and what is known of it.
LEMMA TextAt ==
    ASSUME Described, NEW n \in Nat, NEW m \in Nat, NEW k \in Nat, NEW q \in Nat,
           Layout(n, m, k, q), index \in 1 .. Len(data_ranges)
    PROVE  \E e \in Nat : IsAtText(n, m, e)
<1>1. /\ n \in 1 .. m /\ m \in 1 .. Len(file.texts)
      /\ Len(data_ranges) = (m - n) + 1
      /\ \A i \in 1 .. (m - n) + 1 : data_ranges[i] = extensions[(n + i) - 1]
  BY RangesAre
<1>i. PICK i \in Nat : i = index /\ i \in 1 .. (m - n) + 1
  BY <1>1
<1>e. PICK e \in Nat : e = (n + i) - 1
  <2>1. (n + i) - 1 \in Nat
    BY <1>i
  <2> QED
    BY <2>1
<1>t. PICK t \in Nat : t = Len(file.texts)
  <2>1. file.texts \in Seq(Seq(Char))
    BY TextsType
  <2> QED
    BY <2>1, LenProperties
<1>2. e \in n .. m /\ e \in 1 .. t /\ e + 1 = n + i
  BY <1>1, <1>i, <1>e, <1>t
<1>3. data_ranges[i] = extensions[e]
  BY <1>1, <1>i, <1>e
<1>4. i = 1 <=> e = n
  BY <1>i, <1>e
<1>5. (i = (m - n) + 1 <=> e = m) /\ (i + 1 \in 1 .. (m - n) + 1 <=> e # m)
  BY <1>1, <1>i, <1>e
<1> QED
  BY <1>1, <1>i, <1>t, <1>2, <1>3, <1>4, <1>5 DEF IsAtText, IsLast

\* Where the value stops in text e.
StopsIn(m, q, e) == IF e = m THEN q - 1 ELSE Len(file.texts[e])

\* Of text e the piece is what belongs to the value, up to the x-th symbol.
IsPiece(piece, n, k, e, x) == piece = SubSeq(file.texts[e], ValueFrom(n, k, e), x)

\* A transfer of the segment at index, that of text e, at tb in the file.
Transferring(n, m, k, q, e, range, segment, tb, len, re, se) ==
    /\ n \in Nat /\ m \in Nat /\ k \in Nat /\ q \in Nat /\ Layout(n, m, k, q)
    /\ e \in Nat /\ IsAtText(n, m, e) /\ index \in Nat /\ index >= 1
    /\ Seen(range, segment, file.texts[e], tb, len, re, se)

LEMMA ValueBeginIs ==
    ASSUME NEW n, NEW m, NEW k, NEW q, NEW e, NEW range, NEW segment,
           NEW tb, NEW len, NEW re, NEW se,
           Transferring(n, m, k, q, e, range, segment, tb, len, re, se),
           ~ValueNotFound(range, segment) \/ re = tb + len
    PROVE  /\ BeginsAt(range, segment, tb, ValueFrom(n, k, e))
           /\ index = 1 => ValueBegin(range, segment) # EncodedBegin(range)
<1>n. n \in Nat /\ m \in Nat /\ k \in Nat /\ q \in Nat /\ e \in Nat
  BY DEF Transferring
<1> PICK text : text = file.texts[e]
  OBVIOUS
<1>s. Seen(range, segment, text, tb, len, re, se)
  BY DEF Transferring
<1>0. tb = EncodedBegin(range) /\ tb \in Nat
  BY <1>s DEF Seen
<1>e. (index = 1 <=> e = n) /\ index \in Nat /\ index >= 1
  BY DEF Transferring, IsAtText
<1>1. CASE index = 1
  <2>1. OpensAt(text, k) /\ k >= 1
    <3>1. OpensAt(file.texts[n], k)
      BY DEF Transferring, Layout, Spread
    <3> QED
      BY <1>1, <1>e, <3>1 DEF OpensAt
  <2>2. ValueBegin(range, segment) = tb + (k + 1)
    <3>1. CASE tb + (k + 1) <= re
      BY <1>n, <1>s, <1>1, <2>1, <3>1, BeginSeen
    <3>2. CASE ~(tb + (k + 1) <= re)
      <4>1. ValueNotFound(range, segment)
        BY <1>n, <1>s, <1>1, <2>1, <3>2, BeginSeen DEF ValueNotFound
      <4>2. re # tb + len
        <5>1. k + 2 <= len /\ len \in Nat /\ re \in Nat
          BY <1>s, <2>1 DEF Seen, OpensAt
        <5> QED
          BY <1>n, <1>0, <3>2, <5>1
      <4> QED
        BY <4>1, <4>2
    <3> QED
      BY <3>1, <3>2
  <2>3. ValueFrom(n, k, e) = k + 2
    BY <1>1, <1>e DEF ValueFrom
  <2> QED
    BY <1>n, <1>0, <2>1, <2>2, <2>3 DEF BeginsAt
<1>2. CASE index # 1
  <2>1. ValueFrom(n, k, e) = 1
    BY <1>2, <1>e DEF ValueFrom
  <2>2. ValueBegin(range, segment) = tb
    <3>1. index > 1
      BY <1>e, <1>2
    <3> QED
      BY <1>0, <3>1 DEF ValueBegin
  <2> QED
    BY <1>0, <1>2, <2>1, <2>2 DEF BeginsAt
<1> QED
  BY <1>1, <1>2

\* What the value's piece is, of a segment that is all seen, or not.
IsPieceUpTo(range, segment, n, m, k, q, e, whole) ==
    \E x \in Nat :
       /\ IsPiece(ValuePiece(range, segment), n, k, e, x)
       /\ ValueFrom(n, k, e) <= x + 1 /\ x <= StopsIn(m, q, e)
       /\ whole => x = StopsIn(m, q, e)

LEMMA PieceBeforeLast ==
    ASSUME NEW n, NEW m, NEW k, NEW q, NEW e, NEW range, NEW segment,
           NEW tb, NEW len, NEW re, NEW se,
           Transferring(n, m, k, q, e, range, segment, tb, len, re, se),
           file.texts[e] \in Seq(Char), e # m,
           ~ValueNotFound(range, segment) \/ re = tb + len
    PROVE  /\ ~ValueNotFound(range, segment)
           /\ ValuePiece(range, segment) \in Seq(Char)
           /\ IsPieceUpTo(range, segment, n, m, k, q, e, re = tb + len)
<1>t. PICK text \in Seq(Char) : text = file.texts[e]
  OBVIOUS
<1>s. Seen(range, segment, text, tb, len, re, se)
  BY <1>t DEF Transferring
<1>0. tb \in Nat /\ len \in Nat /\ re \in Nat /\ se \in Nat
  BY <1>s DEF Seen
<1> USE <1>0
<1>3. /\ len = Len(text)
      /\ re = range.end /\ se = segment.end /\ re <= se /\ re <= tb + len
  BY <1>s DEF Seen
<1>b. /\ BeginsAt(range, segment, tb, ValueFrom(n, k, e))
      /\ index = 1 => ValueBegin(range, segment) # EncodedBegin(range)
  BY ValueBeginIs
<1>a. PICK a \in Nat : a = ValueFrom(n, k, e) /\ a >= 1
  BY <1>b DEF BeginsAt
<1>1. ~IsLast
  BY DEF Transferring, IsAtText
<1>2. ValueEnd(range, segment) = re
  BY <1>3, <1>1 DEF ValueEnd
<1>4. ~ValueNotFound(range, segment)
  BY <1>b, <1>1 DEF ValueNotFound
<1>f. a <= len + 1
  <2>1. e = n => OpensAt(text, k)
    BY <1>t DEF Transferring, Layout, Spread
  <2>2. e = n => a = k + 2 /\ k + 2 <= len
    BY <1>3, <1>a, <2>1 DEF OpensAt, ValueFrom
  <2>3. e # n => a = 1
    BY <1>a DEF ValueFrom
  <2> QED
    BY <2>2, <2>3
<1>5. StopsIn(m, q, e) = len
  BY <1>t, <1>3 DEF StopsIn
<1>6. CASE tb + a <= re + 1
  <2>z. PICK z \in Nat : re = tb + z /\ z <= len /\ a <= z + 1
    <3>1. re - tb \in Nat /\ re = tb + (re - tb) /\ re - tb <= len /\ a <= (re - tb) + 1
      BY <1>a, <1>3, <1>6
    <3> QED
      BY <3>1
  <2>1. EndsAt(range, segment, tb, z) /\ tb + z <= se
    BY <1>2, <1>3, <2>z DEF EndsAt
  <2>2. /\ ValuePiece(range, segment) = SubSeq(text, a, z)
        /\ ValuePiece(range, segment) \in Seq(Char)
    <3>1. BeginsAt(range, segment, tb, a)
      BY <1>a, <1>b
    <3>2. /\ text \in Seq(Char) /\ Seen(range, segment, text, tb, len, re, se)
          /\ EndsAt(range, segment, tb, z) /\ z <= len /\ tb + z <= se
      BY <1>t, <1>s, <2>z, <2>1
    <3> QED
      BY ONLY <3>1, <3>2, PieceIs
  <2>3. re = tb + len => z = len
    BY <2>z
  <2>4. IsPiece(ValuePiece(range, segment), n, k, e, z)
    BY <1>t, <1>a, <2>2 DEF IsPiece
  <2> QED
    BY <1>4, <1>5, <1>a, <2>z, <2>2, <2>3, <2>4 DEF IsPieceUpTo
<1>7. CASE ~(tb + a <= re + 1)
  <2>x. PICK x \in Nat : x = a - 1 /\ x <= len /\ a <= x + 1
    <3>1. a - 1 \in Nat /\ a - 1 <= len /\ a <= (a - 1) + 1
      BY <1>a, <1>f
    <3> QED
      BY <3>1
  <2>b. PICK begin \in Nat : begin = ValueBegin(range, segment) /\ begin + 1 = tb + a
    BY <1>a, <1>b DEF BeginsAt
  <2>1. ~(begin < re) /\ re # tb + len
    BY <1>7, <1>a, <1>f, <2>b
  <2>2. ValuePiece(range, segment) = <<>>
    BY <1>2, <2>1, <2>b DEF ValuePiece
  <2>3. SubSeq(text, a, x) = <<>>
    <3>1. /\ SubSeq(text, a, x) \in Seq(Char)
          /\ Len(SubSeq(text, a, x)) = IF a <= x THEN x - a + 1 ELSE 0
      BY <1>a, <1>3, <2>x, SubSeqFacts
    <3>2. ~(a <= x)
      BY <1>a, <2>x
    <3> QED
      BY <3>1, <3>2, EmptySeq
  <2>4. IsPiece(ValuePiece(range, segment), n, k, e, x)
    BY <1>t, <1>a, <2>2, <2>3, Zenon DEF IsPiece
  <2>5. <<>> \in Seq(Char)
    BY EmptySeq
  <2> QED
    BY <1>4, <1>5, <1>a, <2>x, <2>1, <2>2, <2>4, <2>5 DEF IsPieceUpTo
<1> QED
  BY <1>6, <1>7

LEMMA LastPiece ==
    ASSUME NEW n, NEW m, NEW k, NEW q, NEW e, NEW range, NEW segment,
           NEW tb, NEW len, NEW re, NEW se,
           Transferring(n, m, k, q, e, range, segment, tb, len, re, se),
           file.texts[e] \in Seq(Char), e = m, IsValid(info.property_end),
           ~ValueNotFound(range, segment) \/ re = tb + len
    PROVE  /\ ~ValueNotFound(range, segment)
           /\ ValuePiece(range, segment) \in Seq(Char)
           /\ IsPieceUpTo(range, segment, n, m, k, q, e, TRUE)
<1>t. PICK text \in Seq(Char) : text = file.texts[e]
  OBVIOUS
<1>s. Seen(range, segment, text, tb, len, re, se)
  BY <1>t DEF Transferring
<1>0. /\ tb \in Nat /\ len \in Nat /\ re \in Nat /\ se \in Nat /\ n \in Nat /\ m \in Nat
      /\ k \in Nat /\ q \in Nat
  BY <1>s DEF Seen, Transferring
<1> USE <1>0
<1>3. /\ len = Len(text)
      /\ re = range.end /\ se = segment.end /\ re <= se /\ re <= tb + len
  BY <1>s DEF Seen
<1>b. /\ BeginsAt(range, segment, tb, ValueFrom(n, k, e))
      /\ index = 1 => ValueBegin(range, segment) # EncodedBegin(range)
  BY ValueBeginIs
<1>a. PICK a \in Nat : a = ValueFrom(n, k, e) /\ a >= 1
  BY <1>b DEF BeginsAt
<1>1. IsLast
  BY DEF Transferring, IsAtText
<1>2. ClosesAt(text, a, q)
  BY <1>t, <1>a DEF Transferring, Layout, Spread
<1>4. StopsIn(m, q, e) = q - 1 /\ q >= a /\ q <= len
  BY <1>3, <1>2, <1>a DEF StopsIn, ClosesAt
<1>5. /\ tb + q <= re => EndsAt(range, segment, tb, q - 1)
      /\ ~(tb + q <= re) => ValueEnd(range, segment) = range.end
  BY <1>s, <1>a, <1>b, <1>1, <1>2, EndSeen
<1>6. CASE tb + q <= re
  <2>z. PICK z \in Nat : z = q - 1 /\ z <= len /\ tb + z < re
    <3>1. q - 1 \in Nat /\ q - 1 <= len /\ tb + (q - 1) < re
      BY <1>a, <1>4, <1>6
    <3> QED
      BY <3>1
  <2>1. EndsAt(range, segment, tb, z)
    BY <1>5, <1>6, <2>z
  <2>2. ~ValueNotFound(range, segment)
    <3>1. ValueEnd(range, segment) # range.end
      BY <1>3, <2>z, <2>1 DEF EndsAt
    <3> QED
      BY <1>b, <3>1 DEF ValueNotFound
  <2>3. tb + z <= se
    BY <1>3, <2>z
  <2>4. /\ ValuePiece(range, segment) = SubSeq(text, a, z)
        /\ ValuePiece(range, segment) \in Seq(Char)
    <3>1. BeginsAt(range, segment, tb, a)
      BY <1>a, <1>b
    <3>2. /\ text \in Seq(Char) /\ Seen(range, segment, text, tb, len, re, se)
          /\ EndsAt(range, segment, tb, z) /\ z <= len /\ tb + z <= se
      BY <1>t, <1>s, <2>z, <2>1, <2>3
    <3> QED
      BY ONLY <3>1, <3>2, PieceIs
  <2>5. IsPiece(ValuePiece(range, segment), n, k, e, z)
    BY <1>t, <1>a, <2>4 DEF IsPiece
  <2>6. z <= StopsIn(m, q, e) /\ z = StopsIn(m, q, e) /\ ValueFrom(n, k, e) <= z + 1
    BY <1>4, <1>a, <2>z
  <2> QED
    BY <2>2, <2>4, <2>5, <2>6 DEF IsPieceUpTo
<1>7. CASE ~(tb + q <= re)
  <2>1. ValueNotFound(range, segment)
    BY <1>1, <1>5, <1>7 DEF ValueNotFound
  <2>2. re # tb + len
    BY <1>3, <1>4, <1>7
  <2> QED
    BY <2>1, <2>2
<1> QED
  BY <1>6, <1>7

\* A value that does not end may go on behind the last extension.
LEMMA EndlessPiece ==
    ASSUME Described, NEW n, NEW m, NEW k, NEW q, NEW e, NEW range, NEW segment,
           NEW tb, NEW len, NEW re, NEW se,
           Transferring(n, m, k, q, e, range, segment, tb, len, re, se),
           tb = TextBegin(extensions[e]), e = m, ~IsValid(info.property_end),
           ~ValueNotFound(range, segment)
    PROVE  ValuePiece(range, segment) \in Seq(Char)
<1>s. Seen(range, segment, file.texts[e], tb, len, re, se)
  BY DEF Transferring
<1>0. /\ tb \in Nat /\ se \in Nat /\ se = segment.end /\ se <= Len(contents)
      /\ segment \in DataRange
  BY <1>s DEF Seen
<1> USE <1>0
<1>1. e = Len(file.texts) /\ e \in 1 .. Len(file.texts) /\ IsLast
  BY DEF Transferring, Layout, Spread, IsAtText
<1>2. \A p \in tb + 1 .. Len(contents) : contents[p] \in Char
  BY <1>1, ExtensionsLie
<1>b. PICK begin \in Nat : begin = ValueBegin(range, segment) /\ tb <= begin
  <2>1. BeginsAt(range, segment, tb, ValueFrom(n, k, e))
    BY ValueBeginIs
  <2>2. PICK a \in Nat : a >= 1 /\ BeginsAt(range, segment, tb, a)
    BY <2>1 DEF BeginsAt
  <2> QED
    BY <2>2 DEF BeginsAt
<1>3. PICK end \in Nat : end = ValueEnd(range, segment) /\ end <= se
  <2>1. FindIn(segment, begin, Quote) \in Nat /\ FindIn(segment, begin, Quote) <= se
    BY FindInType
  <2> QED
    BY <1>b, <1>1, <2>1 DEF ValueEnd
<1>4. Len(contents) \in Nat
  BY ExtensionsLie, LenProperties
<1> QED
  BY <1>b, <1>2, <1>3, <1>4, PieceOfChars

LEMMA PieceSeen ==
    ASSUME Described, NEW n \in Nat, NEW m \in Nat, NEW k \in Nat, NEW q \in Nat,
           Layout(n, m, k, q), index \in 1 .. Len(data_ranges),
           NEW e \in Nat, IsAtText(n, m, e),
           NEW range, NEW segment, NEW short, Sees(range, segment, extensions[e], short)
    PROVE  /\ ~ValueNotFound(range, segment) => ValuePiece(range, segment) \in Seq(Char)
           /\ IsValid(info.property_end) /\ ~ValueNotFound(range, segment) =>
                 IsPieceUpTo(range, segment, n, m, k, q, e, short = 0 \/ e = m)
           /\ IsValid(info.property_end) /\ short = 0 => ~ValueNotFound(range, segment)
<1>e. e \in 1 .. Len(file.texts)
  BY DEF IsAtText
<1>t. PICK text \in Seq(Char) : text = file.texts[e]
  <2>1. PICK texts \in Seq(Seq(Char)) : texts = file.texts
    BY TextsType
  <2> QED
    BY <1>e, <2>1, ElementOfSeq
<1>1. LiesAt(extensions[e], text)
  BY <1>t, <1>e, ExtensionsLie
<1>2. PICK tb, len, re, se \in Nat :
         /\ Seen(range, segment, text, tb, len, re, se)
         /\ tb = TextBegin(extensions[e]) /\ (short = 0 <=> re = tb + len)
  BY <1>1, SeenText
<1>3. Transferring(n, m, k, q, e, range, segment, tb, len, re, se)
  <2>1. index \in Nat /\ index >= 1
    <3>1. Len(data_ranges) = (m - n) + 1 /\ n \in 1 .. m
      BY RangesAre
    <3> QED
      BY <3>1
  <2> QED
    BY <1>t, <1>2, <2>1 DEF Transferring
<1>4. (re = tb + len) = (short = 0)
  BY <1>2
<1>5. CASE ValueNotFound(range, segment) /\ short # 0
  BY <1>5
<1>6. CASE (~ValueNotFound(range, segment) \/ re = tb + len) /\ e # m
  <2>1. /\ ~ValueNotFound(range, segment)
        /\ ValuePiece(range, segment) \in Seq(Char)
        /\ IsPieceUpTo(range, segment, n, m, k, q, e, re = tb + len)
    BY <1>t, <1>3, <1>6, PieceBeforeLast
  <2> QED
    BY <1>4, <1>6, <2>1 DEF IsPieceUpTo
<1>7. CASE /\ ~ValueNotFound(range, segment) \/ re = tb + len
           /\ e = m /\ IsValid(info.property_end)
  <2>1. /\ ~ValueNotFound(range, segment)
        /\ ValuePiece(range, segment) \in Seq(Char)
        /\ IsPieceUpTo(range, segment, n, m, k, q, e, TRUE)
    BY <1>t, <1>3, <1>7, LastPiece
  <2> QED
    BY <1>7, <2>1 DEF IsPieceUpTo
<1>8. CASE e = m /\ ~IsValid(info.property_end)
  BY <1>2, <1>3, <1>8, EndlessPiece
<1> QED
  BY <1>4, <1>5, <1>6, <1>7, <1>8
-----------------------------------------------------------------------------
(***************************************************************************)
(* What has been received is a part of the value.                          *)
(***************************************************************************)
LEMMA Spliced ==
    ASSUME NEW S, NEW s \in Seq(S), NEW a \in Nat, NEW u \in Nat, NEW y \in Nat,
           1 <= a, a <= u + 1, u <= y, y <= Len(s)
    PROVE  SubSeq(s, a, u) \o SubSeq(s, u + 1, y) = SubSeq(s, a, y)
<1>b. PICK b \in Nat : b = u + 1 /\ 1 <= b
  OBVIOUS
<1>l. PICK m \in Nat : m = b - a
  <2>1. b - a \in Nat
    BY <1>b
  <2> QED
    BY <2>1
<1>r. PICK o \in Nat : o = y - u
  <2>1. y - u \in Nat
    OBVIOUS
  <2> QED
    BY <2>1
<1>n. PICK len \in Nat : len = Len(s) /\ y <= len /\ u <= len
  BY LenProperties
<1>x. PICK front \in Seq(S) : front = SubSeq(s, a, u)
  BY <1>n, SubSeqFacts
<1>y. PICK back \in Seq(S) : back = SubSeq(s, b, y)
  <2>1. SubSeq(s, b, y) \in Seq(S)
    BY <1>b, <1>n, SubSeqFacts
  <2> QED
    BY <2>1
<1>z. PICK all \in Seq(S) : all = SubSeq(s, a, y)
  BY <1>n, SubSeqFacts
<1>1. Len(front) = m /\ \A i \in 1 .. m : front[i] = s[a + i - 1]
  <2>1. /\ Len(front) = IF a <= u THEN u - a + 1 ELSE 0
        /\ \A i \in 1 .. u - a + 1 : front[i] = s[a + i - 1]
    BY <1>x, <1>n, SubSeqFacts
  <2>2. u - a + 1 = m
    BY <1>b, <1>l
  <2> QED
    BY <2>1, <2>2
<1>2. Len(back) = o /\ \A i \in 1 .. o : back[i] = s[b + i - 1]
  <2>1. /\ Len(back) = IF b <= y THEN y - b + 1 ELSE 0
        /\ \A i \in 1 .. y - b + 1 : back[i] = s[b + i - 1]
    BY <1>b, <1>y, <1>n, SubSeqFacts
  <2>2. y - b + 1 = o
    BY <1>b, <1>r
  <2> QED
    BY <1>b, <1>r, <2>1, <2>2
<1>3. Len(all) = m + o /\ \A i \in 1 .. m + o : all[i] = s[a + i - 1]
  <2>1. /\ Len(all) = IF a <= y THEN y - a + 1 ELSE 0
        /\ \A i \in 1 .. y - a + 1 : all[i] = s[a + i - 1]
    BY <1>z, <1>n, SubSeqFacts
  <2>2. y - a + 1 = m + o
    BY <1>b, <1>l, <1>r
  <2> QED
    BY <1>b, <1>l, <1>r, <2>1, <2>2
<1>4. /\ front \o back \in Seq(S) /\ Len(front \o back) = m + o
      /\ \A i \in 1 .. m + o :
            (front \o back)[i] = IF i <= m THEN front[i] ELSE back[i - m]
  BY <1>1, <1>2, ConcatProperties
<1>5. ASSUME NEW i \in 1 .. m + o
      PROVE  (front \o back)[i] = all[i]
  <2>1. CASE i <= m
    <3>1. i \in 1 .. m
      BY <2>1
    <3>2. (front \o back)[i] = front[i]
      BY <1>4, <2>1
    <3> QED
      BY <1>1, <1>3, <3>1, <3>2
  <2>2. CASE ~(i <= m)
    <3>1. PICK j \in 1 .. o : j = i - m /\ b + j - 1 = a + i - 1
      <4>1. i - m \in 1 .. o /\ b + (i - m) - 1 = a + i - 1
        BY <1>l, <2>2
      <4> QED
        BY <4>1
    <3> QED
      BY <1>2, <1>3, <1>4, <2>2, <3>1
  <2> QED
    BY <2>1, <2>2
<1>6. front \o back = all
  BY <1>3, <1>4, <1>5, SeqEqual
<1> QED
  BY <1>b, <1>x, <1>y, <1>z, <1>6

\* Where one part ends earlier than another it is a prefix of that.
LEMMA PartIsPrefix ==
    ASSUME NEW S, NEW s \in Seq(S), NEW a \in Nat, NEW x \in Nat, NEW y \in Nat,
           1 <= a, x <= y, y <= Len(s)
    PROVE  /\ SubSeq(s, a, x) \in Seq(S) /\ SubSeq(s, a, y) \in Seq(S)
           /\ Len(SubSeq(s, a, x)) <= Len(SubSeq(s, a, y))
           /\ \A i \in 1 .. Len(SubSeq(s, a, x)) : SubSeq(s, a, x)[i] = SubSeq(s, a, y)[i]
           /\ IsPrefix(SubSeq(s, a, x), SubSeq(s, a, y))
<1>n. PICK len \in Nat : len = Len(s) /\ y <= len /\ x <= len
  BY LenProperties
<1>x. PICK p \in Seq(S) : p = SubSeq(s, a, x)
  BY <1>n, SubSeqFacts
<1>y. PICK v \in Seq(S) : v = SubSeq(s, a, y)
  BY <1>n, SubSeqFacts
<1>1. /\ Len(p) = IF a <= x THEN x - a + 1 ELSE 0
      /\ \A i \in 1 .. x - a + 1 : p[i] = s[a + i - 1]
  BY <1>x, <1>n, SubSeqFacts
<1>2. /\ Len(v) = IF a <= y THEN y - a + 1 ELSE 0
      /\ \A i \in 1 .. y - a + 1 : v[i] = s[a + i - 1]
  BY <1>y, <1>n, SubSeqFacts
<1>l. PICK l \in Nat : l = Len(p)
  BY LenProperties
<1>m. PICK m \in Nat : m = Len(v)
  BY LenProperties
<1>3. l <= m /\ \A i \in 1 .. l : p[i] = v[i]
  <2>1. l <= m
    BY <1>1, <1>2, <1>l, <1>m
  <2>2. \A i \in 1 .. l : i \in 1 .. x - a + 1 /\ i \in 1 .. y - a + 1
    BY <1>1, <1>l
  <2> QED
    BY <1>1, <1>2, <2>1, <2>2
<1>4. SubSeq(p, 1, l) = SubSeq(v, 1, l)
  <2>1. /\ SubSeq(p, 1, l) \in Seq(S) /\ Len(SubSeq(p, 1, l)) = l
        /\ \A i \in 1 .. l : SubSeq(p, 1, l)[i] = p[i]
    <3>1. /\ SubSeq(p, 1, l) \in Seq(S)
          /\ Len(SubSeq(p, 1, l)) = IF 1 <= l THEN l - 1 + 1 ELSE 0
          /\ \A i \in 1 .. l - 1 + 1 : SubSeq(p, 1, l)[i] = p[1 + i - 1]
      BY <1>l, SubSeqFacts
    <3>2. l - 1 + 1 = l /\ \A i \in 1 .. l : 1 + i - 1 = i
      OBVIOUS
    <3> QED
      BY <3>1, <3>2
  <2>2. /\ SubSeq(v, 1, l) \in Seq(S) /\ Len(SubSeq(v, 1, l)) = l
        /\ \A i \in 1 .. l : SubSeq(v, 1, l)[i] = v[i]
    <3>1. /\ SubSeq(v, 1, l) \in Seq(S)
          /\ Len(SubSeq(v, 1, l)) = IF 1 <= l THEN l - 1 + 1 ELSE 0
          /\ \A i \in 1 .. l - 1 + 1 : SubSeq(v, 1, l)[i] = v[1 + i - 1]
      BY <1>3, <1>m, SubSeqFacts
    <3>2. l - 1 + 1 = l /\ \A i \in 1 .. l : 1 + i - 1 = i
      OBVIOUS
    <3> QED
      BY <3>1, <3>2
  <2> QED
    BY <1>3, <2>1, <2>2, SeqEqual
<1>5. IsPrefix(p, v)
  BY <1>l, <1>m, <1>3, <1>4 DEF IsPrefix
<1> QED
  BY <1>x, <1>y, <1>l, <1>m, <1>3, <1>5

\* What a valid stream begins with is valid.
LEMMA ValidPrefix ==
    ASSUME NEW v \in Seq(Char), NEW p \in Seq(Char), Len(p) <= Len(v),
           \A i \in 1 .. Len(p) : p[i] = v[i], Valid(v)
    PROVE  Valid(p)
<1>l. PICK l \in Nat : l = Len(p)
  BY LenProperties
<1>m. PICK m \in Nat : m = Len(v)
  BY LenProperties
<1>g. PICK g \in Nat : g = GroupsIn(p) /\ 4 * g <= l
  BY <1>l DEF GroupsIn
<1>h. PICK h \in Nat : h = GroupsIn(v) /\ g <= h
  BY <1>l, <1>m, <1>g DEF GroupsIn
<1>1. ASSUME NEW j \in 1 .. g
      PROVE  GroupOf(p, j) = GroupOf(v, j)
  <2>1. /\ GroupOf(p, j) \in Seq(Char) /\ Len(GroupOf(p, j)) = 4
        /\ \A i \in 1 .. 4 : GroupOf(p, j)[i] = p[4 * j - 4 + i]
    BY <1>g, GroupType
  <2>2. /\ GroupOf(v, j) \in Seq(Char) /\ Len(GroupOf(v, j)) = 4
        /\ \A i \in 1 .. 4 : GroupOf(v, j)[i] = v[4 * j - 4 + i]
    <3>1. j \in 1 .. h
      BY <1>h
    <3> QED
      BY <1>h, <3>1, GroupType
  <2>3. \A i \in 1 .. 4 : 4 * j - 4 + i \in 1 .. l
    BY <1>g
  <2>4. \A i \in 1 .. 4 : GroupOf(p, j)[i] = GroupOf(v, j)[i]
    BY <1>l, <2>1, <2>2, <2>3
  <2> QED
    BY <2>1, <2>2, <2>4, SeqEqual
<1>2. /\ \A j \in 1 .. h : Decodable(GroupOf(v, j))
      /\ \A j \in 1 .. h - 1 : PadCount(GroupOf(v, j)) = 0
  BY <1>h DEF Valid, AllDecodable, PadsOnlyLast
<1>3. \A j \in 1 .. g : Decodable(GroupOf(p, j))
  <2>1. \A j \in 1 .. g : j \in 1 .. h
    BY <1>h
  <2> QED
    BY <1>1, <1>2, <2>1
<1>4. \A j \in 1 .. g - 1 : PadCount(GroupOf(p, j)) = 0
  <2>1. \A j \in 1 .. g - 1 : j \in 1 .. h - 1 /\ j \in 1 .. g
    BY <1>h
  <2> QED
    BY <1>1, <1>2, <2>1
<1> QED
  BY <1>g, <1>3, <1>4 DEF Valid, AllDecodable, PadsOnlyLast
-----------------------------------------------------------------------------
(***************************************************************************)
(* How far in the value a piece goes.                                      *)
(***************************************************************************)
\* The place in all texts before that of the value's first symbol in text e.
UptoText(n, k, e) == (LengthBefore(file.texts, e) + ValueFrom(n, k, e)) - 1

ReceivedTo(rec, n, k, x) == rec = SubSeq(Joined, ValueBegins(n, k), x)

SamePart(e, a, x, u, y) ==
    SubSeq(file.texts[e], a, x) = SubSeq(Joined, u + 1, y)

\* A piece of the value in text e goes from a place in all texts to y.
GoesTo(n, m, k, q, e, x, y) ==
    /\ y \in Nat /\ UptoText(n, k, e) \in Nat
    /\ ValueBegins(n, k) \in Nat /\ ValueStops(m, q) \in Nat
    /\ 1 <= ValueBegins(n, k) /\ ValueBegins(n, k) <= UptoText(n, k, e) + 1
    /\ UptoText(n, k, e) <= y /\ y < ValueStops(m, q) /\ ValueStops(m, q) <= Len(Joined)
    /\ x = StopsIn(m, q, e) =>
          y = IF e = m THEN ValueStops(m, q) - 1 ELSE UptoText(n, k, e + 1)
    /\ SamePart(e, ValueFrom(n, k, e), x, UptoText(n, k, e), y)

\* The symbols of text e from a to x, and where they are in all texts.
PartAt(e, a, x, b, u, y) ==
    /\ e \in 1 .. Len(file.texts) /\ a \in Nat /\ x \in Nat
    /\ 1 <= a /\ x <= Len(file.texts[e])
    /\ b \in Nat /\ u \in Nat /\ y \in Nat
    /\ b = LengthBefore(file.texts, e) /\ u + 1 = b + a /\ y = b + x

LEMMA PartOfJoined ==
    ASSUME Described, NEW e, NEW a, NEW x, NEW b, NEW u, NEW y, PartAt(e, a, x, b, u, y)
    PROVE  SamePart(e, a, x, u, y)
<1>t. PICK texts \in Seq(Seq(Char)) : texts = file.texts
  BY TextsType
<1>1. /\ e \in 1 .. Len(texts) /\ a \in Nat /\ x \in Nat
      /\ 1 <= a /\ x <= Len(texts[e])
  BY <1>t DEF PartAt
<1>3. LengthBefore(texts, e) + a = u + 1 /\ LengthBefore(texts, e) + x = y
  BY <1>t DEF PartAt
<1>2. SubSeq(texts[e], a, x)
         = SubSeq(FlattenSeq(texts), LengthBefore(texts, e) + a, LengthBefore(texts, e) + x)
  BY <1>1, PartOfText
<1> QED
  BY <1>t, <1>2, <1>3, Zenon DEF Joined, SamePart

LEMMA Places ==
    ASSUME Described, Ends, NEW n \in Nat, NEW m \in Nat, NEW k \in Nat, NEW q \in Nat,
           Layout(n, m, k, q), NEW e \in Nat, e \in n .. m,
           NEW x \in Nat, ValueFrom(n, k, e) <= x + 1, x <= StopsIn(m, q, e)
    PROVE  \E y : GoesTo(n, m, k, q, e, x, y)
<1>t. PICK texts \in Seq(Seq(Char)) : texts = file.texts
  BY TextsType
<1>j. PICK joined \in Seq(Char) : joined = Joined /\ joined = FlattenSeq(texts)
  BY <1>t, LengthsBefore DEF Joined
<1>l. PICK l \in Nat : l = Len(texts)
  BY LenProperties
<1>o. PICK o \in Nat : o = Len(joined)
  BY LenProperties
<1>1. n \in 1 .. m /\ m \in 1 .. l /\ e \in 1 .. l
  <2>1. n \in 1 .. m /\ m \in 1 .. l
    BY <1>t, <1>l, RangesAre
  <2> QED
    BY <1>l, <2>1
<1>v. PICK v \in Nat : v = ValueBegins(n, k) /\ 1 <= v
  BY ValueIs
<1>s. PICK stop \in Nat : stop = ValueStops(m, q) /\ stop <= o
  BY <1>j, <1>o, ValueIs
<1>a. PICK a \in Nat : a = ValueFrom(n, k, e) /\ 1 <= a /\ a <= x + 1
  BY DEF ValueFrom
<1>2. IsAt(texts, e, joined) /\ IsAt(texts, n, joined) /\ IsAt(texts, m, joined)
  BY <1>j, <1>l, <1>1, LengthsBefore
<1>b. PICK b \in Nat : b = LengthBefore(texts, e)
  BY <1>2 DEF IsAt
<1>c. PICK c \in Nat : c = Len(texts[e])
  BY <1>1, <1>l, ElementOfSeq, LenProperties
<1>bn. PICK bn \in Nat : bn = LengthBefore(texts, n) /\ v = bn + (k + 2)
  BY <1>2, <1>t, <1>v DEF IsAt, ValueBegins
<1>bm. PICK bm \in Nat : bm = LengthBefore(texts, m) /\ stop = bm + q
  BY <1>2, <1>t, <1>s DEF IsAt, ValueStops
<1>cn. PICK cn \in Nat : cn = Len(texts[n])
  BY <1>1, <1>l, ElementOfSeq, LenProperties
<1>3. k + 2 <= cn
  <2>1. OpensAt(texts[n], k)
    BY <1>t DEF Layout, Spread
  <2> QED
    BY <1>cn, <2>1 DEF OpensAt
<1>4. q >= 1 /\ (e = m => x <= q - 1 /\ q <= c) /\ (e # m => x <= c)
  <2>1. ClosesAt(texts[m], ValueFrom(n, k, m), q)
    <3>1. IsValid(info.property_end)
      BY DEF Described, Ends, TruthOf
    <3> QED
      BY <1>t, <3>1 DEF Layout, Spread
  <2>2. ValueFrom(n, k, m) \in Nat /\ ValueFrom(n, k, m) >= 1
    BY DEF ValueFrom
  <2>3. e = m => q <= c
    BY <1>c, <2>1, <2>2 DEF ClosesAt
  <2>4. q >= 1
    BY <2>1, <2>2 DEF ClosesAt
  <2> QED
    BY <1>t, <1>c, <2>3, <2>4 DEF StopsIn
<1>5. x <= c
  BY <1>4
<1>u. PICK u \in Nat : u = UptoText(n, k, e) /\ u + 1 = b + a
  <2>1. UptoText(n, k, e) = (b + a) - 1
    BY <1>t, <1>a, <1>b DEF UptoText
  <2>2. (b + a) - 1 \in Nat /\ ((b + a) - 1) + 1 = b + a
    BY <1>a
  <2> QED
    BY <2>1, <2>2
<1>y. PICK y \in Nat : y = b + x
  OBVIOUS
<1>6. v <= u + 1
  <2>1. CASE e = n
    <3>1. a = k + 2
      BY <1>a, <2>1 DEF ValueFrom
    <3> QED
      BY <1>b, <1>bn, <1>u, <2>1, <3>1
  <2>2. CASE e # n
    <3>1. n + 1 \in 1 .. e /\ e \in 1 .. l + 1
      BY <1>1, <2>2
    <3>2. LengthBefore(texts, n + 1) <= b
      BY <1>l, <1>b, <3>1, LengthsGrow
    <3>3. LengthBefore(texts, n + 1) = bn + cn
      BY <1>2, <1>bn, <1>cn DEF IsAt
    <3>4. bn + cn <= b
      BY <3>2, <3>3
    <3>5. v <= bn + cn
      BY <1>3, <1>bn, <1>cn
    <3>6. b <= u
      BY <1>a, <1>b, <1>u
    <3> QED
      BY <3>4, <3>5, <3>6
  <2> QED
    BY <2>1, <2>2
<1>7. u <= y
  BY <1>a, <1>u, <1>y
<1>8. y < stop
  <2>1. CASE e = m
    BY <1>4, <1>b, <1>bm, <1>y, <2>1
  <2>2. CASE e # m
    <3>1. e + 1 \in 1 .. m /\ m \in 1 .. l + 1
      BY <1>1, <2>2
    <3>2. LengthBefore(texts, e + 1) <= bm
      BY <1>l, <1>bm, <3>1, LengthsGrow
    <3>3. LengthBefore(texts, e + 1) = b + c
      BY <1>2, <1>b, <1>c DEF IsAt
    <3> QED
      BY <1>4, <1>bm, <1>y, <2>2, <3>2, <3>3
  <2> QED
    BY <2>1, <2>2
<1>9. x = StopsIn(m, q, e) => y = IF e = m THEN stop - 1 ELSE UptoText(n, k, e + 1)
  <2> SUFFICES ASSUME x = StopsIn(m, q, e)
               PROVE  y = IF e = m THEN stop - 1 ELSE UptoText(n, k, e + 1)
    OBVIOUS
  <2>1. CASE e = m
    <3>1. x = q - 1
      BY <2>1 DEF StopsIn
    <3>2. b = bm
      BY <1>b, <1>bm, <2>1
    <3>3. y = stop - 1
      BY <1>bm, <1>y, <1>4, <3>1, <3>2
    <3> QED
      BY <2>1, <3>3
  <2>2. CASE e # m
    <3>1. x = c
      BY <1>t, <1>c, <2>2 DEF StopsIn
    <3>2. LengthBefore(texts, e + 1) = b + c
      BY <1>2, <1>b, <1>c DEF IsAt
    <3>3. ValueFrom(n, k, e + 1) = 1
      <4>1. e + 1 # n
        OBVIOUS
      <4> QED
        BY <4>1 DEF ValueFrom
    <3>4. UptoText(n, k, e + 1) = b + c
      BY <1>t, <3>2, <3>3 DEF UptoText
    <3> QED
      BY <1>y, <2>2, <3>1, <3>4
  <2> QED
    BY <2>1, <2>2
<1>10. SamePart(e, ValueFrom(n, k, e), x, UptoText(n, k, e), y)
  <2>1. PartAt(e, a, x, b, u, y)
    BY <1>t, <1>1, <1>l, <1>c, <1>5, <1>a, <1>b, <1>u, <1>y DEF PartAt
  <2>2. SamePart(e, a, x, u, y)
    BY <2>1, PartOfJoined
  <2> QED
    BY <1>a, <1>u, <2>2
<1> QED
  BY <1>t, <1>j, <1>o, <1>v, <1>s, <1>a, <1>u, <1>6, <1>7, <1>8, <1>9, <1>10 DEF GoesTo

\* With a piece the part of the value that has been received goes on.
LEMMA Reached ==
    ASSUME Described, NEW n \in Nat, NEW m \in Nat, NEW k \in Nat, NEW q \in Nat,
           NEW e, NEW x, NEW y, GoesTo(n, m, k, q, e, x, y),
           ReceivedTo(received, n, k, UptoText(n, k, e)),
           NEW piece, IsPiece(piece, n, k, e, x)
    PROVE  ReceivedTo(received \o piece, n, k, y)
<1>j. PICK joined \in Seq(Char) : joined = Joined
  BY TextsType, LengthsBefore DEF Joined
<1>v. PICK v \in Nat : v = ValueBegins(n, k) /\ 1 <= v
  BY DEF GoesTo
<1>u. PICK u \in Nat : u = UptoText(n, k, e) /\ v <= u + 1
  BY <1>v DEF GoesTo
<1>s. PICK s \in Nat : s = ValueStops(m, q) /\ s <= Len(joined)
  BY <1>j DEF GoesTo
<1>y. PICK z \in Nat : z = y
  BY DEF GoesTo
<1>1. u <= z /\ z < s
  BY <1>u, <1>s, <1>y DEF GoesTo
<1>2. z <= Len(joined)
  BY <1>1, <1>s, LenProperties
<1>3. SubSeq(joined, v, u) \o SubSeq(joined, u + 1, z) = SubSeq(joined, v, z)
  <2>1. /\ joined \in Seq(Char) /\ v \in Nat /\ u \in Nat /\ z \in Nat
        /\ 1 <= v /\ v <= u + 1 /\ u <= z /\ z <= Len(joined)
    BY <1>v, <1>u, <1>1, <1>2
  <2> QED
    BY ONLY <2>1, Spliced
<1>4. piece = SubSeq(joined, u + 1, z)
  <2>1. piece = SubSeq(file.texts[e], ValueFrom(n, k, e), x)
    BY Zenon DEF IsPiece
  <2>2. SamePart(e, ValueFrom(n, k, e), x, UptoText(n, k, e), y)
    BY DEF GoesTo
  <2> QED
    BY <1>j, <1>u, <1>y, <2>1, <2>2, Zenon DEF SamePart
<1>5. received = SubSeq(joined, v, u)
  BY <1>j, <1>u, <1>v DEF ReceivedTo
<1> QED
  BY <1>j, <1>v, <1>y, <1>3, <1>4, <1>5 DEF ReceivedTo
-----------------------------------------------------------------------------
(***************************************************************************)
(* One transfer of the extractor.                                          *)
(***************************************************************************)
\* The text that lies at a range is known from the file.
LEMMA SameText ==
    ASSUME NEW S, NEW text \in Seq(S), NEW other \in Seq(S), NEW range,
           LiesAt(range, text), LiesAt(range, other)
    PROVE  other = text
<1>l. PICK l \in Nat : l = Len(text)
  BY LenProperties
<1>o. PICK o \in Nat : o = Len(other)
  BY LenProperties
<1>t. PICK tb \in Nat : tb = TextBegin(range)
  BY DEF LiesAt, Fills
<1>1. l = o
  <2>1. range.end = tb + l /\ range.end = tb + o
    BY <1>l, <1>o, <1>t DEF LiesAt, Fills
  <2> QED
    BY <2>1
<1>2. \A i \in 1 .. l : text[i] = contents[tb + i] /\ other[i] = contents[tb + i]
  BY <1>l, <1>o, <1>t, <1>1 DEF LiesAt
<1> QED
  BY <1>l, <1>o, <1>1, <1>2, SeqEqual

\* Behind the last symbol there is nothing to be found.
LEMMA NothingBehind ==
    ASSUME NEW S, NEW text \in Seq(S), NEW range, Fills(range, text), NEW symbol
    PROVE  Find(range, text, range.end, symbol) = range.end
<1>l. PICK l \in Nat : l = Len(text)
  BY LenProperties
<1>t. PICK tb \in Nat : tb = TextBegin(range)
  BY DEF Fills
<1>e. PICK e \in Nat : e = range.end /\ e = tb + l
  BY <1>l, <1>t DEF Fills
<1>1. Finds(text, l + 1, Len(text), symbol, TextBegin(range),
            Find(range, text, e, symbol))
  <2>1. /\ range \in DataRange /\ TextBegin(range) \in Nat
        /\ range.end = TextBegin(range) + Len(text)
        /\ l + 1 \in Nat /\ 1 <= l + 1 /\ e + 1 = TextBegin(range) + (l + 1)
    BY <1>l, <1>t, <1>e DEF Fills
  <2> QED
    BY <2>1, FindIs
<1> QED
  BY <1>l, <1>t, <1>e, <1>1 DEF Finds

LEMMA FindType ==
    ASSUME NEW text, NEW range, Fills(range, text), NEW start \in Nat, NEW symbol
    PROVE  Find(range, text, start, symbol) \in Nat
<1>e. PICK end \in Nat : end = range.end
  BY DEF Fills, DataRange
<1>u. PICK U : U = {end} \cup {loc \in start .. end - 1 :
                                 text[loc - TextBegin(range) + 1] = symbol}
  OBVIOUS
<1>1. U \subseteq Nat /\ U # {}
  BY <1>u
<1>2. PICK x \in U : \A y \in U : x <= y
  BY <1>1, LeastNumber
<1>3. Min(U) \in U
  BY <1>2 DEF Min
<1> QED
  BY <1>e, <1>u, <1>1, <1>3 DEF Find

\* In the first segment the builder looks for the value where it begins.
LEMMA BeginFound ==
    ASSUME NEW S, NEW text \in Seq(S), NEW range, Fills(range, text),
           NEW k \in Nat, OpensAt(text, k),
           Begin(range, text) < Find(range, text, Begin(range, text), Quote)
    PROVE  Begin(range, text) \in Nat /\ Begin(range, text) + 1 = TextBegin(range) + (k + 2)
<1>1. Begin(range, text) # range.end
  <2> SUFFICES ASSUME Begin(range, text) = range.end
               PROVE  FALSE
    OBVIOUS
  <2>1. range.end < range.end
    BY NothingBehind
  <2>2. range.end \in Nat
    BY DEF Fills, DataRange
  <2> QED
    BY <2>1, <2>2
<1>2. PICK j \in Nat, start \in Nat :
         /\ OpensAt(text, j) /\ start = Begin(range, text)
         /\ start + 1 = TextBegin(range) + (j + 2)
  BY <1>1, FindsOpening DEF Begin
<1>3. j = k
  <2>1. j >= 1 /\ k >= 1 /\ FirstFrom(text, 1, Type, j) /\ FirstFrom(text, 1, Type, k)
    BY <1>2 DEF OpensAt
  <2> QED
    BY <1>2, <2>1, FirstOnce
<1> QED
  BY <1>2, <1>3

LEMMA SearchBegins ==
    ASSUME Described, NEW n \in Nat, NEW m \in Nat, NEW k \in Nat, NEW q \in Nat,
           Layout(n, m, k, q), index \in 1 .. Len(data_ranges),
           NEW e \in Nat, IsAtText(n, m, e), HoldsSome(index)
    PROVE  LET range == extensions[e]
               text  == file.texts[e]
               start == IF index = 1 THEN Begin(range, text) ELSE TextBegin(range)
           IN  start < Find(range, text, start, Quote)
<1>t. PICK texts \in Seq(Seq(Char)) : texts = file.texts
  BY TextsType
<1>1. e \in 1 .. Len(texts) /\ data_ranges[index] = extensions[e]
  BY <1>t DEF IsAtText
<1>2. Len(extensions) = Len(texts) /\ \A i \in 1 .. Len(texts) : LiesAt(extensions[i], texts[i])
  BY <1>t, SegmentsType, ExtensionsLie
<1>r. PICK range : range = extensions[e] /\ range = data_ranges[index]
  BY <1>1
<1>d. PICK d : d = CHOOSE i \in 1 .. Len(extensions) : extensions[i] = data_ranges[index]
  OBVIOUS
<1>3. d \in 1 .. Len(texts) /\ extensions[d] = range
  <2>1. \E i \in 1 .. Len(extensions) : extensions[i] = data_ranges[index]
    BY <1>1, <1>2
  <2>2. d \in 1 .. Len(extensions) /\ extensions[d] = data_ranges[index]
    BY <1>d, <2>1
  <2> QED
    BY <1>2, <1>r, <2>2
<1>4. texts[d] = texts[e]
  <2>1. LiesAt(range, texts[d]) /\ LiesAt(range, texts[e])
    BY <1>1, <1>2, <1>3, <1>r
  <2>2. texts[d] \in Seq(Char) /\ texts[e] \in Seq(Char)
    BY <1>1, <1>3, ElementOfSeq
  <2> QED
    BY <2>1, <2>2, SameText
<1>5. file.texts[CHOOSE i \in 1 .. Len(extensions) : extensions[i] = data_ranges[index]]
         = texts[e]
  BY <1>t, <1>d, <1>4
<1> QED
  BY <1>t, <1>r, <1>5, Zenon DEF HoldsSome, Begin

\* What the searches say: there is something of the value in the segment.
LEMMA HoldsSomeIs ==
    ASSUME Described, NEW n \in Nat, NEW m \in Nat, NEW k \in Nat, NEW q \in Nat,
           Layout(n, m, k, q), index \in 1 .. Len(data_ranges),
           NEW e \in Nat, IsAtText(n, m, e), HoldsSome(index), IsValid(info.property_end)
    PROVE  ValueFrom(n, k, e) <= StopsIn(m, q, e)
<1>t. PICK texts \in Seq(Seq(Char)) : texts = file.texts
  BY TextsType
<1>1. e \in 1 .. Len(texts) /\ e \in n .. m /\ (index = 1 <=> e = n)
  BY <1>t DEF IsAtText
<1>x. PICK text \in Seq(Char) : text = file.texts[e]
  BY <1>t, <1>1, ElementOfSeq
<1>r. PICK range : range = extensions[e]
  OBVIOUS
<1>2. Fills(range, text)
  BY <1>t, <1>1, <1>x, <1>r, ExtensionsLie DEF LiesAt
<1>b. PICK tb \in Nat : tb = TextBegin(range)
  BY <1>2 DEF Fills
<1>l. PICK l \in Nat : l = Len(text)
  BY LenProperties
<1>e. PICK end \in Nat : end = range.end /\ end = tb + l
  BY <1>2, <1>b, <1>l DEF Fills
<1>a. PICK a \in Nat : a = ValueFrom(n, k, e) /\ a >= 1
  BY DEF ValueFrom
<1>3. \E start \in Nat : /\ start + 1 = tb + a
                         /\ start < Find(range, text, start, Quote)
  <2>1. CASE index = 1
    <3>1. Begin(range, text) < Find(range, text, Begin(range, text), Quote)
      BY <1>x, <1>r, <2>1, SearchBegins
    <3>2. OpensAt(text, k)
      BY <1>1, <1>x, <2>1 DEF Layout, Spread
    <3>3. Begin(range, text) \in Nat /\ Begin(range, text) + 1 = TextBegin(range) + (k + 2)
      BY <1>2, <3>1, <3>2, BeginFound
    <3>4. a = k + 2
      BY <1>1, <1>a, <2>1 DEF ValueFrom
    <3> QED
      BY <1>b, <3>1, <3>3, <3>4
  <2>2. CASE index # 1
    <3>1. tb < Find(range, text, tb, Quote)
      BY <1>x, <1>r, <1>b, <2>2, SearchBegins
    <3>2. a = 1
      BY <1>1, <1>a, <2>2 DEF ValueFrom
    <3> QED
      BY <3>1, <3>2
  <2> QED
    BY <2>1, <2>2
<1>s. PICK start \in Nat : start + 1 = tb + a /\ start < Find(range, text, start, Quote)
  BY <1>3
<1>f. PICK found : found = Find(range, text, start, Quote)
  OBVIOUS
<1>4. /\ found # end => \E p \in Nat : ClosesAt(text, a, p) /\ found + 1 = tb + p
      /\ found = end => GoesOn(text, a)
  <2>1. start + 1 = TextBegin(range) + a /\ 1 <= a
    BY <1>a, <1>b, <1>s
  <2>2. found = FindXmpPropertyValueEnd(range, text, start)
    BY <1>f DEF FindXmpPropertyValueEnd
  <2>3. /\ FindXmpPropertyValueEnd(range, text, start) # range.end =>
              \E p \in Nat : /\ ClosesAt(text, a, p)
                             /\ FindXmpPropertyValueEnd(range, text, start) + 1
                                   = TextBegin(range) + p
        /\ FindXmpPropertyValueEnd(range, text, start) = range.end => GoesOn(text, a)
    <3>1. text \in Seq(Char) /\ Fills(range, text) /\ a \in Nat /\ start \in Nat
      BY <1>2, <1>x, <1>a, <1>s
    <3> QED
      BY ONLY <2>1, <3>1, FindsEnd
  <2> QED
    BY <1>b, <1>e, <2>2, <2>3
<1>5. CASE e = m
  <2>1. ClosesAt(text, a, q)
    BY <1>a, <1>x, <1>5 DEF Layout, Spread
  <2>2. q \in a .. l /\ text[q] = Quote /\ FirstFrom(text, a, Quote, q)
    BY <1>l, <2>1 DEF ClosesAt, FirstFrom
  <2>3. found # end
    BY <1>4, <1>l, <2>2 DEF GoesOn, Absent
  <2>4. PICK p \in Nat : ClosesAt(text, a, p) /\ found + 1 = tb + p
    BY <1>4, <2>3
  <2>5. p \in a .. l /\ FirstFrom(text, a, Quote, p)
    BY <1>l, <2>4 DEF ClosesAt
  <2>6. p = q
    BY <1>a, <2>2, <2>5, FirstOnce
  <2>7. start < found /\ found \in Nat
    <3>1. found = FindXmpPropertyValueEnd(range, text, start)
      BY <1>f DEF FindXmpPropertyValueEnd
    <3>2. found = (tb + p) - 1
      <4>1. found \in Nat
        BY <1>2, <1>f, FindType
      <4> QED
        BY <2>4, <2>5, <4>1, <1>a
    <3> QED
      BY <1>a, <1>f, <1>s, <2>5, <3>2
  <2>8. a <= q - 1
    BY <1>a, <1>s, <2>2, <2>4, <2>6, <2>7
  <2> QED
    BY <1>a, <1>5, <2>8 DEF StopsIn
<1>6. CASE e # m
  <2>1. GoesOn(text, a)
    <3>1. e \in n .. m - 1
      BY <1>1, <1>6
    <3> QED
      BY <1>a, <1>x, <3>1 DEF Layout, Spread
  <2>2. found = end
    <3> SUFFICES ASSUME found # end
                 PROVE  FALSE
      OBVIOUS
    <3>1. PICK p \in Nat : ClosesAt(text, a, p)
      BY <1>4
    <3> QED
      BY <1>a, <1>l, <2>1, <3>1 DEF ClosesAt, FirstFrom, GoesOn, Absent
  <2>3. a <= l
    BY <1>a, <1>e, <1>f, <1>s, <2>2
  <2> QED
    BY <1>a, <1>l, <1>x, <1>6, <2>3 DEF StopsIn
<1> QED
  BY <1>5, <1>6

\* Of a chunk that begins behind where the value may begin, nothing is transferred.
LEMMA LateChunk ==
    ASSUME NEW range \in DataRange, range.end <= EncodedBegin(range),
           index \in Nat, index >= 1
    PROVE  ValueNotFound(range, range) \/ ValuePiece(range, range) = <<>>
<1>b. PICK b \in Nat : b = EncodedBegin(range)
  BY HeaderLengthAssumption DEF EncodedBegin, DataRange
<1>e. PICK e \in Nat : e = range.end /\ e <= b
  BY <1>b DEF DataRange
<1>1. ~ContainsLocation(range, b)
  BY <1>b, <1>e DEF ContainsLocation
<1>2. ValueBegin(range, range) = b
  <2>1. FindIn(range, b, Type) = e
    BY <1>1, <1>e, FindInIs
  <2> QED
    BY <1>b, <1>e, <2>1 DEF ValueBegin
<1>3. ValuePiece(range, range) = <<>>
  BY <1>1, <1>2 DEF ValuePiece
<1> QED
  BY <1>3

\* The piece was not transferred, or the decoder has received it.
Refused == UNCHANGED <<received, has_error, answers>> /\ status' = "error"

Took(piece) ==
    /\ received' = received \o piece /\ ~has_error
    /\ status' \in {"ok", "error"} \cup answers'
    /\ piece = <<>> => status' = "error"
    /\ piece # <<>> /\ Valid(received') => status' # "error" \/ "error" \in answers'

LEMMA PieceStep ==
    ASSUME IInv, NEW piece \in Seq(Char), TransferPiece(piece)
    PROVE  IInv' /\ phase' = phase /\ answers \subseteq answers' /\ Took(piece)
<1>1. /\ Arrives(piece) /\ received \in Seq(Char) /\ ~has_error /\ phase' = phase
      /\ received' = received \o piece
  <2>1. Arrives(piece)
    BY DEF TransferPiece
  <2>2. ~has_error /\ phase' = phase /\ received \in Seq(Char)
    BY <2>1, Arriving
  <2> QED
    BY <2>1, <2>2 DEF Arrives
<1>2. CASE TransferNothing(piece)
  <2>1. IInv'
    BY <1>1, <1>2, NothingStep
  <2>2. answers' = answers /\ status' = "error" /\ piece = <<>>
    BY <1>2 DEF TransferNothing
  <2> QED
    BY <1>1, <2>1, <2>2, Zenon DEF Took
<1>3. CASE TransferTooSmall(piece)
  <2>1. IInv'
    BY <1>1, <1>3, TooSmallStep
  <2>2. answers' = answers /\ status' = "ok" /\ piece # <<>>
    BY <1>3 DEF TransferTooSmall, TooSmall
  <2> QED
    BY <1>1, <2>1, <2>2 DEF Took
<1>4. CASE TransferUndecodable(piece)
  <2>1. IInv'
    BY <1>1, <1>4, UndecodableStep
  <2>2. /\ answers' = answers /\ status' = "error" /\ piece # <<>> /\ ~TooSmall(piece)
        /\ Fails(Group(piece)) \/ Fails(WholeGroups(piece))
    BY <1>4 DEF TransferUndecodable
  <2>3. ~Valid(received')
    BY <1>1, <2>2, PieceDecodes
  <2> QED
    BY <1>1, <2>1, <2>2, <2>3, Zenon DEF Took
<1>5. CASE TransferDecoded(piece)
  <2>1. IInv'
    BY <1>1, <1>5, DecodedStep
  <2>2. answers' = answers \cup {status'} /\ piece # <<>>
    BY <1>5 DEF TransferDecoded
  <2> QED
    BY <1>1, <2>1, <2>2 DEF Took
<1> QED
  BY <1>2, <1>3, <1>4, <1>5 DEF TransferPiece

LEMMA ExtractorStep ==
    ASSUME IInv, NEW range, NEW segment, ExtractorTransfer(range, segment),
           ValueNotFound(range, segment) \/ ValuePiece(range, segment) \in Seq(Char)
    PROVE  /\ IInv' /\ phase' = phase /\ answers \subseteq answers'
           /\ \/ ValueNotFound(range, segment) /\ Refused
              \/ ~ValueNotFound(range, segment) /\ Took(ValuePiece(range, segment))
<1>1. CASE ValueNotFound(range, segment)
  <2>1. /\ status' = "error"
        /\ UNCHANGED <<phase, received, leftover, sent, location, has_error, answers>>
    BY <1>1 DEF ExtractorTransfer
  <2>2. TypeOK'
    BY <2>1 DEF IInv, TypeOK, TransferStatus
  <2>3. NoErrorSoFar' /\ ErrorIsFinal' /\ FinishedIsComplete'
    BY <2>1 DEF IInv, NoErrorSoFar, ErrorIsFinal, FinishedIsComplete, Incomplete
  <2>4. IInv' /\ Refused /\ phase' = phase /\ answers \subseteq answers'
    BY <2>1, <2>2, <2>3 DEF IInv, Refused
  <2> QED
    BY <1>1, <2>4
<1>2. CASE ~ValueNotFound(range, segment)
  <2>1. TransferPiece(ValuePiece(range, segment))
    BY <1>2 DEF ExtractorTransfer
  <2>2. /\ IInv' /\ phase' = phase /\ answers \subseteq answers'
        /\ Took(ValuePiece(range, segment))
    BY <1>2, <2>1, PieceStep
  <2> QED
    BY <1>2, <2>2
<1> QED
  BY <1>1, <1>2
-----------------------------------------------------------------------------
(***************************************************************************)
(* The inductive invariant.                                                *)
(***************************************************************************)
\* What the source can read is a part of the file from its begin; what it has in memory is
\* a part of the file, and all of what it has if it is a piece of memory.
SourceKnown ==
    /\ kind \in {"istream", "memory"}
    /\ \E n \in Nat : extent = NewRange(0, n)
    /\ window \in DataRange /\ window.end <= Len(contents)
    /\ kind = "memory" => window = extent

\* No chunk of the segment at index has been transferred.
AtASegment == index <= Len(data_ranges) => chunk = data_ranges[index].begin

\* The stream has read a chunk of the segment at index, and only its last byte is left.
AtALastByte ==
    /\ kind = "istream" /\ ~ContainsRange(window, data_ranges[index])
    /\ chunk = data_ranges[index].begin + BestDataSize
    /\ chunk < data_ranges[index].end

Progress ==
    /\ index \in 1 .. Len(data_ranges) + 1
    /\ AtASegment \/ AtALastByte
    /\ failed \in BOOLEAN
    /\ status = "error" => failed

Returned ==
    /\ phase = "transferring" => result = "none"
    /\ phase = "finished" =>
          /\ failed \/ index = Len(data_ranges) + 1
          /\ result = IF Success THEN "extracted" ELSE "failed"
          /\ ~failed => DecodedSoFar(received, leftover, sent)

\* The listed segments: each holds one of the texts, and is a byte larger than a chunk
\* at most.
LEMMA ListedRange ==
    ASSUME Described, index \in 1 .. Len(data_ranges)
    PROVE  /\ \E n, m, k, q, e \in Nat : Layout(n, m, k, q) /\ IsAtText(n, m, e)
           /\ data_ranges[index] \in DataRange
           /\ data_ranges[index].begin < data_ranges[index].end
           /\ data_ranges[index].end <= Len(contents)
           /\ data_ranges[index].end <= data_ranges[index].begin + (BestDataSize + 1)
<1>t. PICK texts \in Seq(Seq(Char)) : texts = file.texts
  BY TextsType
<1>1. PICK n \in Nat, m \in Nat, k \in Nat, q \in Nat : Layout(n, m, k, q)
  <2>1. data_ranges # <<>>
    OBVIOUS
  <2> QED
    BY <2>1, InfoKnown DEF Collected, Layout, data_ranges
<1>2. PICK e \in Nat : IsAtText(n, m, e)
  BY <1>1, TextAt
<1>3. e \in 1 .. Len(texts) /\ data_ranges[index] = extensions[e]
  BY <1>t, <1>2 DEF IsAtText
<1>x. PICK text \in Seq(Char) : text = texts[e]
  BY <1>3, ElementOfSeq
<1>r. PICK range : range = data_ranges[index]
  OBVIOUS
<1>4. LiesAt(range, text)
  BY <1>t, <1>3, <1>x, <1>r, ExtensionsLie
<1>l. PICK l \in Nat : l = Len(text)
  BY LenProperties
<1>5. HeaderLength + l <= BestDataSize + 1
  <2>1. file \in Files /\ e \in 1 .. Len(file.texts) /\ l = Len(file.texts[e])
    BY <1>t, <1>3, <1>x, <1>l DEF Described
  <2> QED
    BY <2>1, BestDataSizeAssumption
<1>6. range \in DataRange /\ range.begin < range.end /\ range.end <= Len(contents)
  BY <1>4 DEF LiesAt, Fills
<1>7. range.end = range.begin + (HeaderLength + l)
  <2>1. range.end = (range.begin + HeaderLength) + l
    BY <1>4, <1>l DEF LiesAt, Fills, TextBegin
  <2> QED
    BY <2>1, <1>6, HeaderLengthAssumption DEF DataRange
<1>8. range.end <= range.begin + (BestDataSize + 1)
  BY <1>5, <1>6, <1>7, HeaderLengthAssumption, BestDataSizeAssumption DEF DataRange
<1> QED
  BY <1>1, <1>2, <1>r, <1>6, <1>8

(***************************************************************************)
(* What is transferred: a segment, the first bytes of a segment, or the    *)
(* last byte.                                                              *)
(***************************************************************************)
Whole(range, segment) == AtASegment /\ Sees(range, segment, data_ranges[index], 0)

\* Only a segment that is larger than a chunk, and not in memory, is divided.
Divides ==
    /\ Length(data_ranges[index]) > BestDataSize
    /\ ~ContainsRange(window, data_ranges[index])

Short(range, segment) ==
    /\ AtASegment
    /\ \E short \in Nat \ {0} : Sees(range, segment, data_ranges[index], short)

LastByte(range, segment) ==
    /\ segment = range /\ range \in DataRange /\ range.end <= EncodedBegin(range)
    /\ ~AtASegment

\* The source has what is transferred.
IsThere(range) ==
    /\ range.begin < range.end
    /\ range.end <= extent.end \/ ContainsRange(window, data_ranges[index])

\* The extractor goes on with the last byte, or with the next segment.
GoesOnInSegment == index' = index /\ AtALastByte' /\ ~AtASegment'

GoesToNext == index' = index + 1 /\ AtASegment'

Transfers(range, segment) ==
    /\ Extracting /\ ExtractorTransfer(range, segment) /\ IsThere(range)
    /\ failed' = (failed \/ status' = "error")
    /\ UNCHANGED <<file, contents, extensions, info, truth, kind, extent, window, result>>
    /\ \/ Whole(range, segment) /\ GoesToNext
       \/ /\ Short(range, segment) /\ (Divides \/ ~Has(index))
          /\ \/ GoesOnInSegment /\ status' = "ok"
             \/ GoesToNext /\ (status' = "ok" => ~Has(index))
       \/ LastByte(range, segment) /\ GoesToNext

\* Behind a segment there is the next one.
LEMMA NextIsASegment ==
    ASSUME Described, index \in 1 .. Len(data_ranges), SegmentIsOver, UNCHANGED info
    PROVE  GoesToNext
<1>l. PICK l \in Nat : l = Len(data_ranges)
  <2>1. data_ranges \in Seq(DataRange)
    BY InfoKnown DEF Collected, XmpInfoBuilder, data_ranges
  <2> QED
    BY <2>1, LenProperties
<1>1. index' = index + 1 /\ chunk' = FirstChunk(data_ranges, index + 1)
  BY DEF SegmentIsOver
<1>2. data_ranges' = data_ranges
  BY DEF data_ranges
<1>3. index + 1 <= l => index + 1 \in 1 .. l
  BY <1>l
<1> QED
  BY <1>l, <1>1, <1>2, <1>3 DEF GoesToNext, AtASegment, FirstChunk

\* The segment at index, and what it has to do with the source.
SegmentAt(seg, b, e, n) ==
    /\ index \in 1 .. Len(data_ranges)
    /\ seg = data_ranges[index] /\ seg \in DataRange
    /\ b \in Nat /\ e \in Nat /\ b = seg.begin /\ e = seg.end
    /\ b < e /\ e <= b + (BestDataSize + 1) /\ e <= Len(contents)
    /\ n \in Nat /\ extent = NewRange(0, n)

LEMMA SegmentKnown ==
    ASSUME Described, SourceKnown, Progress, Extracting
    PROVE  \E seg, b, e, n : SegmentAt(seg, b, e, n)
<1>1. index \in 1 .. Len(data_ranges)
  BY DEF Extracting, Progress
<1>s. PICK seg \in DataRange : seg = data_ranges[index]
  BY <1>1, ListedRange
<1>b. PICK b \in Nat : b = seg.begin
  BY DEF DataRange
<1>e. PICK e \in Nat : e = seg.end
  BY DEF DataRange
<1>n. PICK n \in Nat : extent = NewRange(0, n)
  BY DEF SourceKnown
<1>2. b < e /\ e <= b + (BestDataSize + 1) /\ e <= Len(contents)
  BY <1>1, <1>s, <1>b, <1>e, ListedRange
<1>3. SegmentAt(seg, b, e, n)
  BY <1>1, <1>s, <1>b, <1>e, <1>n, <1>2 DEF SegmentAt
<1> QED
  BY <1>3

LEMMA FromMemory ==
    ASSUME Described, SourceKnown, Progress, TransferFromMemory
    PROVE  \E range, segment : Transfers(range, segment)
<1>r. PICK range : range = PartInMemory
  OBVIOUS
<1>1. /\ Extracting /\ IsValid(range)
      /\ ExtractorTransfer(range, window) /\ AfterTransfer(data_ranges[index])
      /\ UNCHANGED <<input, source, result>>
  BY <1>r DEF TransferFromMemory
<1>2. PICK seg, b, e, n : SegmentAt(seg, b, e, n)
  BY <1>1, SegmentKnown
<1>3. /\ index \in 1 .. Len(data_ranges)
      /\ seg = data_ranges[index] /\ seg \in DataRange
      /\ b \in Nat /\ e \in Nat /\ n \in Nat /\ b = seg.begin /\ e = seg.end
      /\ b < e /\ extent.end = n /\ extent.begin = 0
  BY <1>2 DEF SegmentAt, NewRange
<1> USE <1>3
<1>4. UNCHANGED <<file, contents, extensions, info, truth, kind, extent, window, result>>
  BY <1>1 DEF input, source
<1>5. failed' = (failed \/ status' = "error") /\ SegmentIsOver
  BY <1>1 DEF AfterTransfer
<1>6. GoesToNext
  BY <1>4, <1>5, NextIsASegment
<1>7. kind = "memory" \/ ContainsRange(window, seg)
  BY <1>1, <1>r DEF PartInMemory, IsValid, InvalidRange, NewRange
<1>8. AtASegment
  <2>1. AtALastByte => FALSE
    BY <1>7 DEF AtALastByte, SourceKnown
  <2> QED
    BY <2>1 DEF Progress
<1>w. PICK wb \in Nat, we \in Nat : wb = window.begin /\ we = window.end /\ we <= Len(contents)
  BY DEF SourceKnown, DataRange
<1>9. range = NewRange(IF b < wb THEN wb ELSE b, IF e < we THEN e ELSE we)
  <2>1. range = Intersection(window, seg)
    BY <1>r, <1>7 DEF PartInMemory
  <2>2. Larger(b, wb) = IF b < wb THEN wb ELSE b
    BY DEF Larger
  <2>3. Smaller(e, we) = IF e < we THEN e ELSE we
    <3>1. Smaller(e, we) = IF we < e THEN we ELSE e
      BY DEF Smaller
    <3> QED
      BY <3>1
  <2> QED
    BY <1>w, <2>1, <2>2, <2>3 DEF Intersection
<1>10. CASE ContainsRange(window, seg)
  <2>1. wb <= b /\ e <= we
    BY <1>w, <1>10 DEF ContainsRange
  <2>2. range = NewRange(b, e)
    <3>1. (IF b < wb THEN wb ELSE b) = b /\ (IF e < we THEN e ELSE we) = e
      BY <2>1
    <3> QED
      BY <1>9, <3>1
  <2>3. range \in DataRange /\ range.begin = b /\ range.end = e
    BY <2>2 DEF NewRange, DataRange
  <2>4. Sees(range, window, data_ranges[index], 0)
    BY <1>w, <2>1, <2>3 DEF Sees, SourceKnown
  <2>5. IsThere(range) /\ Whole(range, window)
    BY <1>8, <1>10, <2>3, <2>4 DEF IsThere, Whole
  <2> QED
    BY <1>1, <1>4, <1>5, <1>6, <2>5 DEF Transfers
<1>11. CASE ~ContainsRange(window, seg)
  <2>1. wb = 0 /\ we = n
    BY <1>7, <1>11, <1>w DEF SourceKnown
  <2>2. range = NewRange(b, IF e < n THEN e ELSE n)
    <3>1. (IF b < wb THEN wb ELSE b) = b
      BY <2>1
    <3> QED
      BY <1>9, <2>1, <3>1
  <2>3. b < n /\ ~(e <= n)
    <3>1. b < IF e < n THEN e ELSE n
      BY <1>1, <2>2 DEF IsValid, NewRange
    <3>2. b < n
      BY <3>1
    <3>3. ~(e <= n)
      BY <1>11, <1>w, <2>1, <3>2 DEF ContainsRange, IsValid
    <3> QED
      BY <3>2, <3>3
  <2>4. range = NewRange(b, n)
    BY <2>2, <2>3
  <2>5. range \in DataRange /\ range.begin = b /\ range.end = n
    BY <2>4 DEF NewRange, DataRange
  <2>d. PICK short \in Nat \ {0} : n + short = e
    <3>1. e - n \in Nat \ {0} /\ n + (e - n) = e
      BY <2>3
    <3> QED
      BY <3>1
  <2>6. Sees(range, window, data_ranges[index], short)
    BY <1>w, <2>1, <2>3, <2>5, <2>d DEF Sees, SourceKnown
  <2>7. IsThere(range) /\ Short(range, window)
    BY <1>8, <2>3, <2>5, <2>6 DEF IsThere, Short
  <2>8. ~Has(index)
    BY <1>11, <2>3 DEF Has
  <2> QED
    BY <1>1, <1>4, <1>5, <1>6, <2>7, <2>8 DEF Transfers
<1> QED
  BY <1>10, <1>11

LEMMA InAChunk ==
    ASSUME Described, SourceKnown, Progress, TransferChunk
    PROVE  \E range, segment : Transfers(range, segment)
<1>r. PICK range : range = PartRead
  OBVIOUS
<1>1. /\ Extracting /\ IsValid(range)
      /\ ExtractorTransfer(range, range) /\ AfterTransfer(ChunkRange)
      /\ UNCHANGED <<input, source, result>>
  BY <1>r DEF TransferChunk
<1>2. PICK seg, b, e, n : SegmentAt(seg, b, e, n)
  BY <1>1, SegmentKnown
<1>3. /\ index \in 1 .. Len(data_ranges)
      /\ seg = data_ranges[index] /\ seg \in DataRange
      /\ b \in Nat /\ e \in Nat /\ n \in Nat /\ b = seg.begin /\ e = seg.end
      /\ b < e /\ e <= b + (BestDataSize + 1) /\ e <= Len(contents)
      /\ extent.end = n /\ extent.begin = 0
  BY <1>2 DEF SegmentAt, NewRange
<1>n. BestDataSize \in Nat /\ BestDataSize >= 1
  BY BestDataSizeAssumption
<1>o. Len(contents) \in Nat
  BY ExtensionsLie, LenProperties
<1> USE <1>3, <1>n, <1>o
<1>4. UNCHANGED <<file, contents, extensions, info, truth, kind, extent, window, result>>
  BY <1>1 DEF input, source
<1>5. failed' = (failed \/ status' = "error")
  BY <1>1 DEF AfterTransfer
<1>6. kind = "istream" /\ ~ContainsRange(window, seg) /\ range = Intersection(extent, ChunkRange)
  <2>1. kind # "memory" /\ ~ContainsRange(window, seg) /\ range = Intersection(extent, ChunkRange)
    BY <1>1, <1>r DEF PartRead, IsValid, InvalidRange, NewRange
  <2> QED
    BY <2>1 DEF SourceKnown
<1>7. SegmentIsOver => GoesToNext
  BY <1>4, NextIsASegment
\* What is read of a chunk from c to d: all of it, or what there is.
<1>8. ASSUME NEW c \in Nat, NEW d \in Nat, c = chunk, c < d, d <= e,
             d = Min({e, chunk + BestDataSize})
      PROVE  \E x \in Nat : /\ ChunkRange = NewRange(c, d) /\ range = NewRange(c, x)
                            /\ c < x /\ x <= d /\ x <= n /\ (x # d => x = n)
  <2>1. ChunkRange = NewRange(c, d)
    BY <1>8 DEF ChunkRange
  <2>2. Larger(c, 0) = c
    BY DEF Larger
  <2>3. Smaller(d, n) = IF n < d THEN n ELSE d
    BY DEF Smaller
  <2>4. range = NewRange(c, IF n < d THEN n ELSE d)
    BY <1>6, <2>1, <2>2, <2>3 DEF Intersection, NewRange
  <2>5. c < IF n < d THEN n ELSE d
    BY <1>1, <2>4 DEF IsValid, NewRange
  <2>x. PICK x \in Nat : x = IF n < d THEN n ELSE d
    OBVIOUS
  <2>6. c < x /\ x <= d /\ x <= n /\ (x # d => x = n)
    BY <2>5, <2>x
  <2> QED
    BY <2>1, <2>4, <2>x, <2>6
<1>9. CASE AtASegment
  <2>1. chunk = b
    BY <1>9 DEF AtASegment, Extracting
  <2>d. PICK d \in Nat : /\ d = Min({e, chunk + BestDataSize}) /\ b < d /\ d <= e
                         /\ d # e => d = b + BestDataSize
    <3>m. PICK d \in Nat : d = IF e <= b + BestDataSize THEN e ELSE b + BestDataSize
      OBVIOUS
    <3>1. Min({e, b + BestDataSize}) = d
      BY <3>m, MinOfTwo
    <3>2. b < d /\ d <= e /\ (d # e => d = b + BestDataSize)
      BY <3>m
    <3> QED
      BY <2>1, <3>1, <3>2
  <2>x. PICK x \in Nat : /\ ChunkRange = NewRange(b, d) /\ range = NewRange(b, x)
                         /\ b < x /\ x <= d /\ x <= n /\ (x # d => x = n)
    <3>1. b = chunk /\ b < d /\ d <= e /\ d = Min({e, chunk + BestDataSize})
      BY <2>1, <2>d
    <3> QED
      BY <1>8, <2>d, <3>1, Zenon
  <2>2. range \in DataRange /\ range.begin = b /\ range.end = x /\ ChunkRange.end = d
    BY <2>x DEF NewRange, DataRange
  <2>s. PICK short \in Nat : x + short = e
    <3>1. e - x \in Nat /\ x + (e - x) = e
      BY <2>d, <2>x
    <3> QED
      BY <3>1
  <2>3. Sees(range, range, data_ranges[index], short)
    <3>1. x <= Len(contents)
      BY <2>d, <2>x
    <3> QED
      BY <2>2, <2>s, <3>1 DEF Sees
  <2>4. IsThere(range)
    BY <2>2, <2>x DEF IsThere
  <2>5. CASE short = 0
    <3>1. Whole(range, range) /\ d = e
      BY <1>9, <2>3, <2>5, <2>d, <2>s, <2>x DEF Whole
    <3>2. SegmentIsOver
      BY <1>1, <2>2, <3>1 DEF AfterTransfer
    <3> QED
      BY <1>1, <1>4, <1>5, <1>7, <2>4, <3>1, <3>2 DEF Transfers
  <2>6. CASE short # 0 /\ d = e
    <3>1. Short(range, range)
      BY <1>9, <2>3, <2>6 DEF Short
    <3>2. ~Has(index)
      <4>1. ~(e <= n)
        BY <2>6, <2>s, <2>x
      <4> QED
        BY <1>6, <4>1 DEF Has
    <3>3. SegmentIsOver
      BY <1>1, <2>2, <2>6 DEF AfterTransfer
    <3> QED
      BY <1>1, <1>4, <1>5, <1>7, <2>4, <3>1, <3>2, <3>3 DEF Transfers
  <2>7. CASE short # 0 /\ d # e
    <3>1. Short(range, range)
      BY <1>9, <2>3, <2>7 DEF Short
    <3>2. d = b + BestDataSize /\ d < e
      BY <2>d, <2>7
    <3>3. Divides
      <4>1. Length(seg) = e - b
        BY DEF Length, IsValid
      <4> QED
        BY <1>6, <3>2, <4>1 DEF Divides
    <3>4. CASE status' = "ok"
      <4>1. chunk' = d /\ index' = index
        BY <1>1, <2>2, <3>2, <3>4 DEF AfterTransfer
      <4>2. data_ranges' = data_ranges
        BY <1>4 DEF data_ranges
      <4>3. AtALastByte'
        BY <1>4, <1>6, <3>2, <4>1, <4>2 DEF AtALastByte
      <4>4. ~AtASegment'
        <5>1. index' <= Len(data_ranges')
          BY <1>1, <4>1, <4>2 DEF Extracting
        <5>2. chunk' # data_ranges'[index'].begin
          BY <3>2, <4>1, <4>2
        <5> QED
          BY <5>1, <5>2 DEF AtASegment
      <4> QED
        BY <1>1, <1>4, <1>5, <2>4, <3>1, <3>3, <3>4, <4>1, <4>3, <4>4
           DEF Transfers, GoesOnInSegment
    <3>5. CASE status' # "ok"
      <4>1. SegmentIsOver
        BY <1>1, <3>5 DEF AfterTransfer
      <4> QED
        BY <1>1, <1>4, <1>5, <1>7, <2>4, <3>1, <3>3, <3>5, <4>1 DEF Transfers
    <3> QED
      BY <3>4, <3>5
  <2> QED
    BY <2>5, <2>6, <2>7
<1>10. CASE ~AtASegment
  <2>1. chunk = b + BestDataSize /\ chunk < e
    BY <1>10 DEF Progress, AtALastByte
  <2>2. e = (b + BestDataSize) + 1
    <3>s. PICK s \in Nat : s = BestDataSize
      OBVIOUS
    <3>1. b + s < e /\ e <= b + (s + 1)
      BY <2>1, <3>s
    <3>2. e = (b + s) + 1
      BY <3>s, <3>1
    <3> QED
      BY <3>s, <3>2
  <2>3. Min({e, chunk + BestDataSize}) = e
    BY <2>1, <2>2 DEF Min
  <2>c. PICK c \in Nat : c = chunk /\ c = b + BestDataSize
    BY <2>1
  <2>x. PICK x \in Nat : /\ ChunkRange = NewRange(c, e) /\ range = NewRange(c, x)
                         /\ c < x /\ x <= e /\ x <= n
    BY <1>8, <2>1, <2>3, <2>c
  <2>4. x = e
    BY <2>2, <2>c, <2>x
  <2>5. range.begin = c /\ range.end = e /\ range \in DataRange /\ ChunkRange.end = e
    BY <2>x, <2>4 DEF NewRange, DataRange
  <2>6. range.end <= EncodedBegin(range)
    BY <2>2, <2>c, <2>5, HeaderLengthAssumption DEF EncodedBegin
  <2>7. LastByte(range, range) /\ IsThere(range)
    BY <1>10, <2>x, <2>4, <2>5, <2>6 DEF LastByte, IsThere
  <2>8. SegmentIsOver
    BY <1>1, <2>5 DEF AfterTransfer
  <2> QED
    BY <1>1, <1>4, <1>5, <1>7, <2>7, <2>8 DEF Transfers
<1> QED
  BY <1>9, <1>10

\* Where nothing is to be transferred the source has not all of the segment.
Passes ==
    /\ index \in 1 .. Len(data_ranges) /\ ~Has(index) /\ GoesToNext
    /\ failed' = (failed \/ AtASegment)
    /\ phase = "transferring" /\ status # "error"
    /\ UNCHANGED <<file, contents, extensions, info, truth, kind, extent, window, result>>
    /\ UNCHANGED <<phase, received, leftover, sent, location, has_error, status, answers>>

LEMMA WithoutData ==
    ASSUME Described, SourceKnown, Progress, NothingToTransfer
    PROVE  Passes
<1>1. /\ Extracting /\ ~IsValid(PartInMemory) /\ ~IsValid(PartRead)
      /\ failed' = FailsWithoutData /\ SegmentIsOver
      /\ UNCHANGED <<input, source, result, phase, decoder>>
  BY DEF NothingToTransfer
<1>2. PICK seg, b, e, n : SegmentAt(seg, b, e, n)
  BY <1>1, SegmentKnown
<1>3. /\ index \in 1 .. Len(data_ranges)
      /\ seg = data_ranges[index] /\ seg \in DataRange
      /\ b \in Nat /\ e \in Nat /\ n \in Nat /\ b = seg.begin /\ e = seg.end
      /\ b < e /\ extent.end = n /\ extent.begin = 0
  BY <1>2 DEF SegmentAt, NewRange
<1>n. BestDataSize \in Nat /\ BestDataSize >= 1
  BY BestDataSizeAssumption
<1> USE <1>3, <1>n
<1>4. /\ UNCHANGED <<file, contents, extensions, info, truth, kind, extent, window, result>>
      /\ UNCHANGED <<phase, received, leftover, sent, location, has_error, status, answers>>
  BY <1>1 DEF input, source, decoder
<1>5. GoesToNext
  BY <1>1, <1>4, NextIsASegment
<1>w. PICK wb \in Nat, we \in Nat : wb = window.begin /\ we = window.end
  BY DEF SourceKnown, DataRange
<1>6. ~ContainsRange(window, seg)
  <2> SUFFICES ASSUME ContainsRange(window, seg)
               PROVE  FALSE
    OBVIOUS
  <2>1. wb <= b /\ e <= we
    BY <1>w DEF ContainsRange
  <2>2. PartInMemory = NewRange(Larger(b, wb), Smaller(e, we))
    BY <1>w DEF PartInMemory, Intersection
  <2>3. Larger(b, wb) = b /\ Smaller(e, we) = e
    BY <2>1 DEF Larger, Smaller
  <2> QED
    BY <1>1, <2>2, <2>3 DEF IsValid, NewRange
<1>7. ~(e <= n)
  <2>1. CASE kind = "memory"
    <3>1. wb = 0 /\ we = n
      BY <1>w, <2>1 DEF SourceKnown
    <3>2. PartInMemory = NewRange(Larger(b, wb), Smaller(e, we))
      BY <1>w, <2>1 DEF PartInMemory, Intersection
    <3>3. Larger(b, wb) = b
      BY <3>1 DEF Larger
    <3>4. e <= n => Smaller(e, we) = e
      BY <3>1 DEF Smaller
    <3> QED
      BY <1>1, <3>2, <3>3, <3>4 DEF IsValid, NewRange
  <2>2. CASE kind # "memory"
    <3>c. PICK c \in Nat : c = chunk /\ c < e
      BY <1>1 DEF Progress, AtASegment, AtALastByte, Extracting
    <3>d. PICK d \in Nat : d = Min({e, chunk + BestDataSize}) /\ c < d /\ d <= e
      <4>1. Min({e, c + BestDataSize}) = IF e <= c + BestDataSize THEN e ELSE c + BestDataSize
        BY DEF Min
      <4> QED
        BY <3>c, <4>1
    <3>1. PartRead = NewRange(Larger(c, 0), Smaller(d, n))
      BY <1>6, <2>2, <3>c, <3>d DEF PartRead, Intersection, ChunkRange, NewRange
    <3>2. Larger(c, 0) = c
      BY DEF Larger
    <3>3. e <= n => Smaller(d, n) = d
      BY <3>d DEF Smaller
    <3> QED
      BY <1>1, <3>1, <3>2, <3>3, <3>d DEF IsValid, NewRange
  <2> QED
    BY <2>1, <2>2
<1>8. ~Has(index)
  BY <1>6, <1>7 DEF Has
<1>9. failed' = (failed \/ AtASegment)
  <2>1. AtASegment <=> chunk = b
    BY <1>1 DEF AtASegment, Extracting
  <2> QED
    BY <1>1, <2>1 DEF FailsWithoutData
<1> QED
  BY <1>1, <1>4, <1>5, <1>8, <1>9 DEF Passes, Extracting
-----------------------------------------------------------------------------
(***************************************************************************)
(* What a transfer brings forward.                                         *)
(***************************************************************************)
LEMMA Advances ==
    ASSUME Progress, NEW range, NEW segment, Transfers(range, segment)
    PROVE  /\ index \in 1 .. Len(data_ranges) /\ phase = "transferring" /\ status # "error"
           /\ UNCHANGED <<file, contents, extensions, info, truth, kind, extent, window, result>>
           /\ failed' = (failed \/ status' = "error")
           /\ GoesOnInSegment \/ GoesToNext
  BY DEF Progress, Transfers, Extracting

\* What the extractor's progress is known by, kept where it goes on.
LEMMA ProgressStep ==
    ASSUME Described, SourceKnown, Progress, Returned,
           index \in 1 .. Len(data_ranges), phase = "transferring", phase' = phase,
           UNCHANGED <<file, contents, extensions, info, truth, kind, extent, window, result>>,
           failed' \in BOOLEAN, status' = "error" => failed', GoesOnInSegment \/ GoesToNext
    PROVE  Described' /\ SourceKnown' /\ Progress' /\ Returned'
<1>1. index' \in 1 .. Len(data_ranges) + 1 /\ (AtASegment' \/ AtALastByte')
  <2>l. PICK l \in Nat : l = Len(data_ranges)
    <3>1. data_ranges \in Seq(DataRange)
      BY InfoKnown DEF Collected, XmpInfoBuilder, data_ranges
    <3> QED
      BY <3>1, LenProperties
  <2>1. (index' = index /\ AtALastByte') \/ (index' = index + 1 /\ AtASegment')
    BY DEF GoesOnInSegment, GoesToNext
  <2> QED
    BY <2>l, <2>1
<1>2. Described' /\ SourceKnown'
  BY DEF Described, SourceKnown, TruthOf, data_ranges
<1>3. Progress'
  BY <1>1 DEF Progress, data_ranges
<1>4. Returned'
  BY DEF Returned
<1> QED
  BY <1>2, <1>3, <1>4

\* The piece is made of characters, so the decoder keeps its invariant.
LEMMA DecoderStep ==
    ASSUME Described, IInv, Progress, NEW range, NEW segment, Transfers(range, segment)
    PROVE  /\ IInv' /\ phase' = phase /\ answers \subseteq answers'
           /\ \/ ValueNotFound(range, segment) /\ Refused
              \/ ~ValueNotFound(range, segment) /\ Took(ValuePiece(range, segment))
<1>1. index \in 1 .. Len(data_ranges)
  BY Advances
<1>2. PICK n, m, k, q, e \in Nat : Layout(n, m, k, q) /\ IsAtText(n, m, e)
  BY <1>1, ListedRange
<1>3. data_ranges[index] = extensions[e]
  BY <1>2 DEF IsAtText
<1>4. ValueNotFound(range, segment) \/ ValuePiece(range, segment) \in Seq(Char)
  <2>1. CASE LastByte(range, segment)
    <3>1. ValueNotFound(range, range) \/ ValuePiece(range, range) = <<>>
      BY <1>1, <2>1, LateChunk DEF LastByte
    <3> QED
      BY <2>1, <3>1, EmptySeq DEF LastByte
  <2>2. CASE ~LastByte(range, segment)
    <3>1. PICK short \in Nat : Sees(range, segment, extensions[e], short)
      BY <1>3, <2>2 DEF Transfers, Whole, Short
    <3> QED
      BY <1>1, <1>2, <3>1, PieceSeen
  <2> QED
    BY <2>1, <2>2
<1>5. ExtractorTransfer(range, segment)
  BY DEF Transfers
<1> QED
  BY <1>4, <1>5, ExtractorStep
-----------------------------------------------------------------------------
(***************************************************************************)
(* What has been received of a value that ends.                            *)
(***************************************************************************)
\* Up to where the value has been received when the extractor is at a segment.
UptoNow(n, k, m, q) ==
    IF index <= Len(data_ranges) THEN UptoText(n, k, (n + index) - 1)
    ELSE ValueStops(m, q) - 1

\* A part of the value, from its begin.
SomeReceived(n, m, k, q) ==
    \E x \in Nat : /\ ValueBegins(n, k) <= x + 1 /\ x < ValueStops(m, q)
                   /\ ReceivedTo(received, n, k, x)

\* The source has all of the segment before.
NothingMissed == index = 1 \/ Has(index - 1)

\* What a stream has in memory is what it can read, or what it can not is not needed.
Fresh == ~CacheIsStale \/ \A i \in 1 .. Len(data_ranges) : Has(i)

\* All that is to be transferred has been, but for a last byte.
AllTransferred ==
    \/ index = Len(data_ranges) + 1 /\ ~failed
    \/ IsLast /\ ~AtASegment /\ status # "error"

InOrder(n, m, k, q) ==
    /\ SomeReceived(n, m, k, q)
    /\ index \in 1 .. Len(data_ranges) /\ AtASegment /\ NothingMissed /\ status # "error" =>
          ReceivedTo(received, n, k, UptoNow(n, k, m, q))
    /\ AllTransferred => ReceivedTo(received, n, k, ValueStops(m, q) - 1)

ReceivedInOrder ==
    \A n, m, k, q \in Nat :
       Layout(n, m, k, q) /\ Ends /\ "done" \notin answers /\ Fresh => InOrder(n, m, k, q)

\* At a segment, and with no error, all that is before its text has been received.
LEMMA ReceivedSoFar ==
    ASSUME NEW n \in Nat, NEW m \in Nat, NEW k \in Nat, NEW q \in Nat, NEW e \in Nat,
           IsAtText(n, m, e), InOrder(n, m, k, q), status # "error", AtASegment, NothingMissed,
           index \in 1 .. Len(data_ranges)
    PROVE  ReceivedTo(received, n, k, UptoText(n, k, e))
<1>1. ReceivedTo(received, n, k, UptoNow(n, k, m, q))
  BY DEF InOrder
<1>i. PICK i \in Nat : i = index
  OBVIOUS
<1>2. (n + i) - 1 = e
  BY <1>i DEF IsAtText
<1>3. UptoNow(n, k, m, q) = UptoText(n, k, (n + index) - 1)
  BY DEF UptoNow
<1> QED
  BY <1>1, <1>i, <1>2, <1>3, Zenon

\* The segments adjoin.
LEMMA Adjacent ==
    ASSUME Described, index \in 1 .. Len(data_ranges), index # 1
    PROVE  /\ index - 1 \in 1 .. Len(data_ranges)
           /\ data_ranges[index - 1] \in DataRange
           /\ IsValid(data_ranges[index - 1])
           /\ data_ranges[index - 1].end = data_ranges[index].begin
<1>1. PICK n, m, k, q, e \in Nat : Layout(n, m, k, q) /\ IsAtText(n, m, e)
  BY ListedRange
<1>t. PICK texts \in Seq(Seq(Char)) : texts = file.texts
  BY TextsType
<1>l. PICK l \in Nat : l = Len(texts)
  BY LenProperties
<1>2. /\ n \in 1 .. m /\ m \in 1 .. l
      /\ Len(data_ranges) = (m - n) + 1
      /\ \A i \in 1 .. (m - n) + 1 : data_ranges[i] = extensions[(n + i) - 1]
  BY <1>1, <1>t, <1>l, RangesAre
<1>3. e + 1 = n + index /\ data_ranges[index] = extensions[e] /\ e \in 1 .. l
  BY <1>1, <1>t, <1>l DEF IsAtText
<1>i. PICK i \in Nat : i = index - 1 /\ i \in 1 .. (m - n) + 1 /\ i + 1 = index
  <2>1. index \in 1 .. (m - n) + 1
    BY <1>2
  <2>2. index - 1 \in Nat /\ index - 1 \in 1 .. (m - n) + 1 /\ (index - 1) + 1 = index
    BY <1>2, <2>1
  <2> QED
    BY <2>2
<1>p. PICK p \in Nat : p = (n + i) - 1 /\ p + 1 = e /\ p \in 1 .. l
  <2>1. (n + i) - 1 \in Nat /\ ((n + i) - 1) + 1 = e /\ (n + i) - 1 \in 1 .. l
    BY <1>2, <1>3, <1>i
  <2> QED
    BY <2>1
<1>4. data_ranges[i] = extensions[p]
  BY <1>2, <1>i, <1>p
<1>s. PICK segments : segments = SegmentsOf(file.texts)
  OBVIOUS
<1>5. Len(segments) = l
  BY <1>t, <1>l, <1>s, SegmentsType
<1>6. extensions = [j \in 1 .. l |->
                       NewRange(LengthBefore(segments, j), LengthBefore(segments, j + 1))]
  BY <1>s, <1>5 DEF Described, RangesOf
<1>7. extensions[p].end = extensions[e].begin
  BY <1>3, <1>p, <1>6 DEF NewRange
<1>8. extensions[p] \in DataRange /\ IsValid(extensions[p])
  <2>1. LiesAt(extensions[p], texts[p])
    BY <1>t, <1>l, <1>p, ExtensionsLie
  <2> QED
    BY <2>1 DEF LiesAt, Fills, IsValid
<1> QED
  BY <1>2, <1>3, <1>4, <1>i, <1>7, <1>8

\* What can be transferred lies behind what the source has.
LEMMA NoneMissed ==
    ASSUME Described, SourceKnown, Progress, Fresh, AtASegment,
           NEW range, NEW segment, Transfers(range, segment)
    PROVE  NothingMissed
<1>1. index \in 1 .. Len(data_ranges)
  BY DEF Transfers, Extracting, Progress
<1> SUFFICES ASSUME index # 1
             PROVE  Has(index - 1)
  BY DEF NothingMissed
<1>i. PICK i : i = index - 1
  OBVIOUS
<1>2. /\ i \in 1 .. Len(data_ranges) /\ data_ranges[i] \in DataRange /\ IsValid(data_ranges[i])
      /\ data_ranges[i].end = data_ranges[index].begin
  BY <1>1, <1>i, Adjacent
<1>p. PICK p \in Nat, b \in Nat :
         p = data_ranges[i].begin /\ b = data_ranges[i].end /\ p < b
  BY <1>2 DEF DataRange, IsValid
<1>n. PICK n \in Nat : n = extent.end
  BY DEF SourceKnown, NewRange
<1>w. PICK wb \in Nat, we \in Nat : wb = window.begin /\ we = window.end
  BY DEF SourceKnown, DataRange
<1>3. b <= n => Has(i)
  BY <1>p, <1>n DEF Has
<1>4. IsThere(range)
  BY DEF Transfers
<1>5. range.begin = b /\ range.end \in Nat
  <2>1. \E short \in Nat : Sees(range, segment, data_ranges[index], short)
    BY DEF Transfers, Whole, Short, LastByte
  <2> QED
    BY <1>2, <1>p, <2>1 DEF Sees, DataRange
<1>6. CASE range.end <= extent.end
  <2>1. b <= n
    BY <1>4, <1>5, <1>6, <1>p, <1>n DEF IsThere
  <2> QED
    BY <1>3, <1>i, <2>1
<1>7. CASE ContainsRange(window, data_ranges[index])
  <2>1. wb <= b /\ b < we
    <3>1. /\ wb < we /\ data_ranges[index].begin = b
          /\ b >= wb /\ data_ranges[index].begin < data_ranges[index].end
          /\ data_ranges[index].end <= we
      BY <1>2, <1>7, <1>p, <1>w DEF ContainsRange, IsValid
    <3>2. data_ranges[index].end \in Nat
      BY <1>1, ListedRange DEF DataRange
    <3> QED
      BY <1>p, <1>w, <3>1, <3>2
  <2>2. CASE wb = 0
    <3>1. 0 < we /\ p >= 0 /\ b <= we
      BY <1>p, <1>w, <2>1
    <3>2. ContainsRange(window, data_ranges[i])
      BY <1>2, <1>p, <1>w, <2>2, <3>1 DEF ContainsRange, IsValid
    <3> QED
      BY <1>i, <3>2 DEF Has
  <2>3. CASE wb # 0 /\ CacheIsStale
    BY <1>2, <1>i, <2>3 DEF Fresh
  <2>4. CASE wb # 0 /\ ~CacheIsStale
    <3>1. ~(n < we)
      BY <1>n, <1>w, <2>4 DEF CacheIsStale
    <3>2. b <= n
      BY <1>n, <1>p, <1>w, <2>1, <3>1
    <3> QED
      BY <1>3, <1>i, <3>2
  <2> QED
    BY <2>2, <2>3, <2>4
<1> QED
  BY <1>4, <1>6, <1>7 DEF IsThere

\* Nothing has been added.
LEMMA SameReceived ==
    ASSUME UNCHANGED <<file, info, truth, extensions>>, received' = received,
           NEW n, NEW m, NEW k, NEW q, InOrder(n, m, k, q)
    PROVE  SomeReceived(n, m, k, q)'
  BY DEF InOrder, SomeReceived, ValueBegins, ValueStops, ReceivedTo, Joined

\* A piece has been added: up to the x-th symbol of the text e, that is the y-th of all.
LEMMA PieceReceived ==
    ASSUME Described, Ends, status # "error", AtASegment, NothingMissed,
           index \in 1 .. Len(data_ranges),
           NEW n \in Nat, NEW m \in Nat, NEW k \in Nat, NEW q \in Nat, NEW e \in Nat,
           Layout(n, m, k, q), IsAtText(n, m, e), InOrder(n, m, k, q),
           NEW range, NEW segment, NEW whole,
           IsPieceUpTo(range, segment, n, m, k, q, e, whole)
    PROVE  \E x, y \in Nat :
              /\ GoesTo(n, m, k, q, e, x, y) /\ (whole => x = StopsIn(m, q, e))
              /\ IsPiece(ValuePiece(range, segment), n, k, e, x)
              /\ ReceivedTo(received \o ValuePiece(range, segment), n, k, y)
<1>1. PICK x \in Nat :
         /\ IsPiece(ValuePiece(range, segment), n, k, e, x)
         /\ ValueFrom(n, k, e) <= x + 1 /\ x <= StopsIn(m, q, e)
         /\ whole => x = StopsIn(m, q, e)
  BY DEF IsPieceUpTo
<1>2. PICK y : GoesTo(n, m, k, q, e, x, y)
  <2>1. e \in n .. m
    BY DEF IsAtText
  <2> QED
    BY <1>1, <2>1, Places
<1>3. ReceivedTo(received, n, k, UptoText(n, k, e))
  BY ReceivedSoFar
<1>4. ReceivedTo(received \o ValuePiece(range, segment), n, k, y)
  BY <1>1, <1>2, <1>3, Reached
<1>5. y \in Nat
  BY <1>2 DEF GoesTo
<1> QED
  BY <1>1, <1>2, <1>4, <1>5

\* Then the value has been received that far.
LEMMA MoreReceived ==
    ASSUME UNCHANGED <<file, info, truth, extensions>>,
           NEW n \in Nat, NEW m \in Nat, NEW k \in Nat, NEW q \in Nat, NEW e \in Nat,
           NEW x \in Nat, NEW y \in Nat, GoesTo(n, m, k, q, e, x, y),
           ReceivedTo(received', n, k, y)
    PROVE  SomeReceived(n, m, k, q)'
<1>v. PICK v \in Nat : v = ValueBegins(n, k)
  BY DEF GoesTo
<1>u. PICK u \in Nat : u = UptoText(n, k, e)
  BY DEF GoesTo
<1>s. PICK s \in Nat : s = ValueStops(m, q)
  BY DEF GoesTo
<1>1. v <= u + 1 /\ u <= y /\ y < s
  BY <1>v, <1>u, <1>s DEF GoesTo
<1>2. v <= y + 1
  BY <1>1
<1>3. ValueBegins(n, k)' = v /\ ValueStops(m, q)' = s
  BY <1>v, <1>s DEF ValueBegins, ValueStops
<1>4. ReceivedTo(received, n, k, y)'
  BY DEF ReceivedTo, Joined, ValueBegins
<1> QED
  BY <1>1, <1>2, <1>3, <1>4 DEF SomeReceived

\* With a whole segment the value is received up to the next.
LEMMA NextSegment ==
    ASSUME Described, UNCHANGED <<file, info, truth, extensions>>,
           index \in 1 .. Len(data_ranges), index' = index + 1,
           NEW n \in Nat, NEW m \in Nat, NEW k \in Nat, NEW q \in Nat, NEW e \in Nat,
           IsAtText(n, m, e),
           NEW x \in Nat, NEW y \in Nat, GoesTo(n, m, k, q, e, x, y), x = StopsIn(m, q, e)
    PROVE  UptoNow(n, k, m, q)' = y
<1>i. PICK i \in Nat : i = index /\ i >= 1
  OBVIOUS
<1>l. PICK l \in Nat : l = Len(data_ranges)
  <2>1. data_ranges \in Seq(DataRange)
    BY InfoKnown DEF Collected, XmpInfoBuilder, data_ranges
  <2> QED
    BY <2>1, LenProperties
<1>1. y = IF e = m THEN ValueStops(m, q) - 1 ELSE UptoText(n, k, e + 1)
  BY DEF GoesTo
<1>2. e + 1 = n + i /\ (i + 1 <= l <=> e # m)
  <2>1. i + 1 \in 1 .. l <=> i + 1 <= l
    BY <1>i
  <2> QED
    BY <1>i, <1>l, <2>1 DEF IsAtText
<1>3. data_ranges' = data_ranges /\ ValueStops(m, q)' = ValueStops(m, q)
  BY DEF data_ranges, ValueStops
<1>4. (n + (i + 1)) - 1 = e + 1
  BY <1>2
<1>5. CASE e = m
  <2>1. ~(index' <= Len(data_ranges'))
    BY <1>i, <1>l, <1>2, <1>3, <1>5
  <2> QED
    BY <1>1, <1>3, <1>5, <2>1 DEF UptoNow
<1>6. CASE e # m
  <2>1. index' <= Len(data_ranges')
    BY <1>i, <1>l, <1>2, <1>3, <1>6
  <2>2. UptoNow(n, k, m, q)' = UptoText(n, k, (n + index) - 1)'
    BY <2>1 DEF UptoNow
  <2>3. (n + index') - 1 = e + 1
    BY <1>i, <1>4
  <2>4. UptoText(n, k, (n + index) - 1)' = UptoText(n, k, e + 1)
    BY <2>3 DEF UptoText
  <2> QED
    BY <1>1, <1>6, <2>2, <2>4
<1> QED
  BY <1>5, <1>6

\* What is transferred of a value that ends is the next part of it, and in the last segment
\* all of it.
LEMMA PieceTransferred ==
    ASSUME Described, Ends, SourceKnown, Progress, Fresh,
           NEW range, NEW segment, Transfers(range, segment),
           NEW n \in Nat, NEW m \in Nat, NEW k \in Nat, NEW q \in Nat, NEW e \in Nat,
           Layout(n, m, k, q), IsAtText(n, m, e), InOrder(n, m, k, q),
           ~ValueNotFound(range, segment), AtASegment
    PROVE  \E x, y \in Nat :
              /\ GoesTo(n, m, k, q, e, x, y)
              /\ (Whole(range, segment) \/ e = m => x = StopsIn(m, q, e))
              /\ IsPiece(ValuePiece(range, segment), n, k, e, x)
              /\ ReceivedTo(received \o ValuePiece(range, segment), n, k, y)
<1>1. index \in 1 .. Len(data_ranges) /\ status # "error" /\ NothingMissed
  BY Advances, NoneMissed
<1>2. data_ranges[index] = extensions[e]
  BY DEF IsAtText
<1>3. IsValid(info.property_end)
  BY DEF Described, Ends, TruthOf
<1>4. PICK short \in Nat :
         /\ Sees(range, segment, extensions[e], short)
         /\ Whole(range, segment) => short = 0
  <2>1. CASE Whole(range, segment)
    BY <1>2, <2>1 DEF Whole
  <2>2. CASE ~Whole(range, segment)
    <3>1. Short(range, segment)
      BY <2>2 DEF Transfers, LastByte
    <3> QED
      BY <1>2, <2>2, <3>1 DEF Short
  <2> QED
    BY <2>1, <2>2
<1>w. PICK whole : whole = (short = 0 \/ e = m)
  OBVIOUS
<1>5. IsPieceUpTo(range, segment, n, m, k, q, e, whole)
  BY <1>1, <1>3, <1>4, <1>w, PieceSeen
<1>6. PICK x, y \in Nat :
         /\ GoesTo(n, m, k, q, e, x, y) /\ (whole => x = StopsIn(m, q, e))
         /\ IsPiece(ValuePiece(range, segment), n, k, e, x)
         /\ ReceivedTo(received \o ValuePiece(range, segment), n, k, y)
  BY <1>1, <1>5, PieceReceived
<1> QED
  BY <1>4, <1>w, <1>6

\* Nothing of the value is in a last byte, and that is an error.
LEMMA NothingLate ==
    ASSUME Described, IInv, Progress, ~AtASegment,
           NEW range, NEW segment, Transfers(range, segment)
    PROVE  received' = received /\ status' = "error"
<1>1. index \in 1 .. Len(data_ranges)
  BY Advances
<1>2. LastByte(range, segment)
  BY DEF Transfers, Whole, Short
<1>3. \/ ValueNotFound(range, segment) /\ Refused
      \/ ~ValueNotFound(range, segment) /\ Took(ValuePiece(range, segment))
  BY DecoderStep
<1>4. CASE ValueNotFound(range, segment)
  BY <1>3, <1>4 DEF Refused
<1>5. CASE ~ValueNotFound(range, segment)
  <2>1. ValuePiece(range, segment) = <<>>
    BY <1>1, <1>2, <1>5, LateChunk DEF LastByte
  <2>2. status' = "error" /\ received' = received \o <<>>
    BY <1>3, <1>5, <2>1 DEF Took
  <2>3. received \in Seq(Char)
    BY DEF IInv, TypeOK
  <2> QED
    BY <2>2, <2>3, ConcatEmptySeq
<1> QED
  BY <1>4, <1>5

\* A segment of which the source has only a part is missed.
LEMMA Misses ==
    ASSUME UNCHANGED <<info, extent, window>>, ~Has(index),
           index \in 1 .. Len(data_ranges), index' = index + 1
    PROVE  ~NothingMissed'
<1>1. data_ranges' = data_ranges
  BY DEF data_ranges
<1>i. PICK i : i = index
  OBVIOUS
<1>2. index' # 1 /\ index' - 1 = i
  BY <1>i
<1>3. ~Has(i)'
  BY <1>1, <1>i DEF Has
<1>4. NothingMissed' <=> (index' = 1 \/ Has(index - 1)')
  BY DEF NothingMissed
<1>5. Has(index - 1)' <=> Has(i)'
  BY <1>2 DEF Has
<1> QED
  BY <1>2, <1>3, <1>4, <1>5

LEMMA InOrderStep ==
    ASSUME Described, Described', Ends, IInv, SourceKnown, Progress, Fresh,
           NEW range, NEW segment, Transfers(range, segment), "done" \notin answers',
           NEW n \in Nat, NEW m \in Nat, NEW k \in Nat, NEW q \in Nat,
           Layout(n, m, k, q), InOrder(n, m, k, q)
    PROVE  InOrder(n, m, k, q)'
<1>1. /\ index \in 1 .. Len(data_ranges) /\ status # "error"
      /\ UNCHANGED <<file, contents, extensions, info, truth, kind, extent, window, result>>
      /\ failed' = (failed \/ status' = "error")
      /\ GoesOnInSegment \/ GoesToNext
  BY Advances
<1>2. \/ ValueNotFound(range, segment) /\ Refused
      \/ ~ValueNotFound(range, segment) /\ Took(ValuePiece(range, segment))
  BY DecoderStep
<1>3. CASE received' = received /\ status' = "error"
  <2>1. failed' = TRUE
    BY <1>1, <1>3
  <2>2. SomeReceived(n, m, k, q)'
    BY <1>1, <1>3, SameReceived
  <2> QED
    BY <1>3, <2>1, <2>2 DEF InOrder, AllTransferred
<1>4. CASE ~(received' = received /\ status' = "error")
  <2>1. ~ValueNotFound(range, segment) /\ Took(ValuePiece(range, segment))
    BY <1>2, <1>4 DEF Refused
  <2>2. received' = received \o ValuePiece(range, segment)
    BY <2>1, Zenon DEF Took
  <2>3. AtASegment
    BY <1>4, NothingLate
  <2>4. PICK e \in Nat : IsAtText(n, m, e)
    BY <1>1, TextAt
  <2>5. PICK x \in Nat, y \in Nat :
           /\ GoesTo(n, m, k, q, e, x, y)
           /\ (Whole(range, segment) \/ e = m => x = StopsIn(m, q, e))
           /\ ReceivedTo(received \o ValuePiece(range, segment), n, k, y)
    BY <2>1, <2>3, <2>4, PieceTransferred
  <2>6. ReceivedTo(received', n, k, y)
    BY <2>2, <2>5, Zenon
  <2>7. SomeReceived(n, m, k, q)'
    BY <1>1, <2>4, <2>5, <2>6, MoreReceived
  <2>8. ASSUME status' # "error"
        PROVE  status' = "ok"
    <3>1. status' \in {"ok", "error"} \cup answers' /\ answers' \subseteq TransferStatus
      BY <2>1, DecoderStep DEF Took, IInv, TypeOK
    <3> QED
      BY <2>8, <3>1 DEF TransferStatus
  <2>9. ReceivedTo(received, n, k, y)'
    BY <1>1, <2>6 DEF ReceivedTo, Joined, ValueBegins
  <2>10. ASSUME (index \in 1 .. Len(data_ranges))', AtASegment', NothingMissed',
                status' # "error"
         PROVE  ReceivedTo(received, n, k, UptoNow(n, k, m, q))'
    <3>1. status' = "ok"
      BY <2>8, <2>10
    <3>2. GoesToNext
      BY <1>1, <2>10 DEF GoesOnInSegment
    <3>3. Whole(range, segment)
      <4>1. Has(index)
        BY <1>1, <2>10, <3>2, Misses DEF GoesToNext
      <4> QED
        BY <2>3, <2>10, <3>1, <4>1 DEF Transfers, LastByte, GoesOnInSegment
    <3>4. UptoNow(n, k, m, q)' = y
      <4>1. x = StopsIn(m, q, e)
        BY <2>5, <3>3
      <4> QED
        BY <1>1, <2>4, <2>5, <3>2, <4>1, NextSegment DEF GoesToNext
    <3> QED
      BY <2>9, <3>4 DEF ReceivedTo
  <2>11. ASSUME AllTransferred'
         PROVE  ReceivedTo(received, n, k, ValueStops(m, q) - 1)'
    <3>l. PICK l \in Nat : l = Len(data_ranges) /\ l = Len(data_ranges')
      <4>1. data_ranges \in Seq(DataRange) /\ data_ranges' = data_ranges
        BY <1>1, InfoKnown DEF Collected, XmpInfoBuilder, data_ranges
      <4> QED
        BY <4>1, LenProperties
    <3>1. index = l
      <4>1. CASE GoesOnInSegment
        <5>1. index # l + 1 /\ index' = index
          BY <1>1, <3>l, <4>1 DEF GoesOnInSegment
        <5> QED
          BY <2>11, <3>l, <5>1 DEF AllTransferred, IsLast
      <4>2. CASE GoesToNext
        <5>1. index' = index + 1 /\ index' = l + 1
          BY <2>11, <3>l, <4>2 DEF AllTransferred, GoesToNext
        <5> QED
          BY <1>1, <3>l, <5>1
      <4> QED
        BY <1>1, <4>1, <4>2
    <3>2. e = m
      BY <2>4, <3>l, <3>1 DEF IsAtText, IsLast
    <3>3. y = ValueStops(m, q) - 1
      BY <2>5, <3>2 DEF GoesTo
    <3>4. (ValueStops(m, q) - 1)' = y
      BY <1>1, <3>3 DEF ValueStops
    <3> QED
      BY <2>9, <3>4 DEF ReceivedTo
  <2> QED
    BY <2>7, <2>10, <2>11 DEF InOrder
<1> QED
  BY <1>3, <1>4

\* Where there is nothing to transfer, the source has not all of the segment.
LEMMA InOrderPass ==
    ASSUME Described, Progress, Passes,
           NEW n \in Nat, NEW m \in Nat, NEW k \in Nat, NEW q \in Nat, InOrder(n, m, k, q)
    PROVE  InOrder(n, m, k, q)'
<1>1. /\ index \in 1 .. Len(data_ranges) /\ ~Has(index) /\ index' = index + 1 /\ AtASegment'
      /\ failed' = (failed \/ AtASegment) /\ status # "error" /\ received' = received
      /\ UNCHANGED <<file, contents, extensions, info, truth, kind, extent, window, result>>
  BY DEF Passes, GoesToNext
<1>2. SomeReceived(n, m, k, q)'
  BY <1>1, SameReceived
<1>3. ~NothingMissed'
  BY <1>1, Misses
<1>4. ASSUME AllTransferred'
      PROVE  ReceivedTo(received, n, k, ValueStops(m, q) - 1)'
  <2>l. PICK l \in Nat : l = Len(data_ranges) /\ l = Len(data_ranges')
    <3>1. data_ranges \in Seq(DataRange) /\ data_ranges' = data_ranges
      BY <1>1, InfoKnown DEF Collected, XmpInfoBuilder, data_ranges
    <3> QED
      BY <3>1, LenProperties
  <2>1. index' = l + 1 /\ ~failed'
    BY <1>1, <1>4, <2>l DEF AllTransferred
  <2>2. ~AtASegment /\ index = l
    <3>1. ~AtASegment
      BY <1>1, <2>1
    <3>i. PICK i \in Nat : i = index
      BY <1>1, <2>l
    <3>2. i + 1 = l + 1
      BY <1>1, <2>1, <3>i
    <3>3. i = l
      BY <2>l, <3>i, <3>2
    <3> QED
      BY <3>1, <3>i, <3>3
  <2>3. AllTransferred
    BY <1>1, <2>l, <2>2 DEF AllTransferred, IsLast
  <2>4. ReceivedTo(received, n, k, ValueStops(m, q) - 1)
    BY <2>3 DEF InOrder
  <2> QED
    BY <1>1, <2>4 DEF ReceivedTo, Joined, ValueBegins, ValueStops
<1> QED
  BY <1>2, <1>3, <1>4 DEF InOrder

LEMMA SameFreshness ==
    ASSUME UNCHANGED <<info, extent, window>>
    PROVE  Fresh' <=> Fresh
<1>1. data_ranges' = data_ranges
  BY DEF data_ranges
<1> QED
  BY <1>1 DEF Fresh, CacheIsStale, Has

LEMMA ReceivedStep ==
    ASSUME Described, Described', IInv, SourceKnown, Progress, ReceivedInOrder,
           NEW range, NEW segment, Transfers(range, segment)
    PROVE  ReceivedInOrder'
<1>1. /\ UNCHANGED <<file, contents, extensions, info, truth, kind, extent, window, result>>
      /\ answers \subseteq answers'
  BY Advances, DecoderStep
<1>2. ASSUME NEW n \in Nat, NEW m \in Nat, NEW k \in Nat, NEW q \in Nat,
             Layout(n, m, k, q)', Ends', "done" \notin answers', Fresh'
      PROVE  InOrder(n, m, k, q)'
  <2>1. Layout(n, m, k, q) /\ Ends /\ "done" \notin answers
    BY <1>1, <1>2 DEF Layout, Ends
  <2>2. Fresh
    BY <1>1, <1>2, SameFreshness
  <2>3. InOrder(n, m, k, q)
    BY <2>1, <2>2 DEF ReceivedInOrder
  <2> QED
    BY <1>2, <2>1, <2>2, <2>3, InOrderStep
<1> QED
  BY <1>2 DEF ReceivedInOrder

LEMMA ReceivedPass ==
    ASSUME Described, Progress, ReceivedInOrder, Passes
    PROVE  ReceivedInOrder'
<1>1. /\ UNCHANGED <<file, contents, extensions, info, truth, kind, extent, window, result>>
      /\ answers' = answers
  BY DEF Passes
<1>2. ASSUME NEW n \in Nat, NEW m \in Nat, NEW k \in Nat, NEW q \in Nat,
             Layout(n, m, k, q)', Ends', "done" \notin answers', Fresh'
      PROVE  InOrder(n, m, k, q)'
  <2>1. Layout(n, m, k, q) /\ Ends /\ "done" \notin answers
    BY <1>1, <1>2 DEF Layout, Ends
  <2>2. Fresh
    BY <1>1, <1>2, SameFreshness
  <2>3. InOrder(n, m, k, q)
    BY <2>1, <2>2 DEF ReceivedInOrder
  <2> QED
    BY <2>3, InOrderPass
<1> QED
  BY <1>2 DEF ReceivedInOrder
-----------------------------------------------------------------------------
(***************************************************************************)
(* A value that is base64, and in every segment, is never refused.         *)
(***************************************************************************)
OrdinaryGoesOn == Ordinary /\ answers \subseteq {"ok"} => ~failed /\ AtASegment

LEMMA Base64IsValid ==
    ASSUME NEW chars \in Seq(Char), IsBase64(chars)
    PROVE  Valid(chars) /\ Len(chars) % 4 = 0
<1>1. Decodable(chars) /\ Len(chars) % 4 = 0 /\ chars # <<>>
  BY DEF IsBase64, Decodable
<1>2. AllDecodable(chars) /\ PadsOnlyLast(chars)
  BY <1>1, WholeGroupsDecode
<1> QED
  BY <1>1, <1>2 DEF Valid

\* Of such a value all that is received is valid.
LEMMA ReceivedIsValid ==
    ASSUME Described, Ends, IsBase64(Value), NEW n \in Nat, NEW m \in Nat, NEW k \in Nat,
           NEW q \in Nat, Layout(n, m, k, q), NEW y \in Nat, y < ValueStops(m, q),
           NEW rec, ReceivedTo(rec, n, k, y)
    PROVE  Valid(rec)
<1>1. /\ Joined \in Seq(Char) /\ ValueBegins(n, k) \in Nat /\ ValueStops(m, q) \in Nat
      /\ 1 <= ValueBegins(n, k) /\ ValueStops(m, q) <= Len(Joined)
      /\ Value = SubSeq(Joined, ValueBegins(n, k), ValueStops(m, q) - 1)
  BY ValueIs
<1>j. PICK joined \in Seq(Char) : joined = Joined
  BY <1>1
<1>o. PICK o \in Nat : o = Len(joined)
  BY LenProperties
<1>b. PICK b \in Nat : b = ValueBegins(n, k) /\ 1 <= b
  BY <1>1
<1>s. PICK s \in Nat : s = ValueStops(m, q) - 1 /\ y <= s /\ s <= o
  <2>1. PICK t \in Nat : t = ValueStops(m, q) /\ t <= o /\ y < t
    BY <1>1, <1>j, <1>o
  <2>2. t - 1 \in Nat /\ y <= t - 1 /\ t - 1 <= o
    BY <2>1
  <2> QED
    BY <2>1, <2>2
<1>v. PICK v : v = SubSeq(joined, b, s) /\ v = Value
  BY <1>1, <1>j, <1>b, <1>s, Zenon
<1>r. PICK r : r = SubSeq(joined, b, y) /\ r = rec
  BY <1>j, <1>b, Zenon DEF ReceivedTo
<1>2. /\ r \in Seq(Char) /\ v \in Seq(Char) /\ Len(r) <= Len(v)
      /\ \A i \in 1 .. Len(r) : r[i] = v[i]
  <2>1. /\ SubSeq(joined, b, y) \in Seq(Char) /\ SubSeq(joined, b, s) \in Seq(Char)
        /\ Len(SubSeq(joined, b, y)) <= Len(SubSeq(joined, b, s))
        /\ \A i \in 1 .. Len(SubSeq(joined, b, y)) :
              SubSeq(joined, b, y)[i] = SubSeq(joined, b, s)[i]
    BY <1>o, <1>b, <1>s, PartIsPrefix
  <2> QED
    BY <1>v, <1>r, <2>1, Zenon
<1>3. Valid(v)
  BY <1>v, <1>2, Base64IsValid
<1>4. Valid(r)
  BY <1>2, <1>3, ValidPrefix
<1> QED
  BY <1>r, <1>4

\* There is something in the piece if there is something of the value in the segment.
LEMMA PieceHolds ==
    ASSUME Described, NEW n \in Nat, NEW k \in Nat, NEW e \in 1 .. Len(file.texts),
           NEW x \in Nat, ValueFrom(n, k, e) <= x, x <= Len(file.texts[e]),
           NEW piece, IsPiece(piece, n, k, e, x)
    PROVE  piece # <<>>
<1>x. PICK text \in Seq(Char) : text = file.texts[e]
  BY TextsType, ElementOfSeq
<1>a. PICK a \in Nat : a = ValueFrom(n, k, e) /\ 1 <= a /\ a <= x
  BY DEF ValueFrom
<1>1. piece = SubSeq(text, a, x)
  BY <1>x, <1>a, Zenon DEF IsPiece
<1>2. Len(SubSeq(text, a, x)) = x - a + 1
  BY <1>x, <1>a, SubSeqFacts
<1>3. Len(piece) >= 1
  BY <1>a, <1>1, <1>2
<1> QED
  BY <1>3

LEMMA OrdinaryIsFresh == Ordinary => Fresh
  BY DEF Ordinary, Fresh

LEMMA OrdinaryTransfer ==
    ASSUME Described, IInv, SourceKnown, Progress, ReceivedInOrder, OrdinaryGoesOn,
           NEW range, NEW segment, Transfers(range, segment),
           Ordinary, answers' \subseteq {"ok"}
    PROVE  status' = "ok" /\ GoesToNext
<1>1. index \in 1 .. Len(data_ranges) /\ answers \subseteq answers' /\ answers \subseteq {"ok"}
  BY Advances, DecoderStep
<1>2. ~failed /\ AtASegment /\ Fresh
  BY <1>1, OrdinaryIsFresh DEF OrdinaryGoesOn
<1>3. Ends /\ IsBase64(Value) /\ HoldsSome(index) /\ Has(index)
  BY <1>1 DEF Ordinary
<1>4. Whole(range, segment) /\ GoesToNext
  <2>1. ~Divides
    <3>1. /\ data_ranges[index] \in DataRange /\ BestDataSize \in Nat
      BY <1>1, ListedRange, BestDataSizeAssumption
    <3>2. Length(data_ranges[index]) \in Nat
      BY <3>1 DEF Length, IsValid, DataRange
    <3>3. \/ Length(data_ranges[index]) <= BestDataSize
          \/ ContainsRange(window, data_ranges[index])
      BY <1>1 DEF Ordinary
    <3> QED
      BY <3>1, <3>2, <3>3 DEF Divides
  <2> QED
    BY <1>2, <1>3, <2>1 DEF Transfers, LastByte
<1>5. PICK n, m, k, q, e \in Nat : Layout(n, m, k, q) /\ IsAtText(n, m, e)
  BY <1>1, ListedRange
<1>6. InOrder(n, m, k, q)
  BY <1>1, <1>2, <1>3, <1>5 DEF ReceivedInOrder
<1>7. IsValid(info.property_end)
  BY <1>3 DEF Described, Ends, TruthOf
<1>8. ~ValueNotFound(range, segment) /\ Took(ValuePiece(range, segment))
  <2>1. Sees(range, segment, extensions[e], 0)
    BY <1>4, <1>5 DEF Whole, IsAtText
  <2>2. ~ValueNotFound(range, segment)
    BY <1>1, <1>5, <1>7, <2>1, PieceSeen
  <2> QED
    BY <2>2, DecoderStep
<1>9. PICK x \in Nat, y \in Nat :
         /\ GoesTo(n, m, k, q, e, x, y) /\ x = StopsIn(m, q, e)
         /\ IsPiece(ValuePiece(range, segment), n, k, e, x)
         /\ ReceivedTo(received \o ValuePiece(range, segment), n, k, y)
  BY <1>2, <1>3, <1>4, <1>5, <1>6, <1>8, PieceTransferred
<1>10. ValuePiece(range, segment) # <<>>
  <2>1. ValueFrom(n, k, e) <= x
    BY <1>1, <1>3, <1>5, <1>7, <1>9, HoldsSomeIs
  <2>2. e \in 1 .. Len(file.texts)
    BY <1>5 DEF IsAtText
  <2>3. x <= Len(file.texts[e])
    <3>t. PICK text \in Seq(Char) : text = file.texts[e]
      BY <2>2, TextsType, ElementOfSeq
    <3>l. PICK l \in Nat : l = Len(text)
      BY LenProperties
    <3>1. CASE e = m
      <4>1. ClosesAt(text, ValueFrom(n, k, m), q)
        BY <1>5, <1>7, <3>t, <3>1 DEF Layout, Spread
      <4>2. q <= l
        BY <3>l, <4>1 DEF ClosesAt, ValueFrom
      <4> QED
        BY <1>9, <3>t, <3>l, <3>1, <4>2 DEF StopsIn
    <3>2. CASE e # m
      BY <1>9, <3>t, <3>l, <3>2 DEF StopsIn
    <3> QED
      BY <3>1, <3>2
  <2> QED
    BY <1>5, <1>9, <2>1, <2>2, <2>3, PieceHolds
<1>11. Valid(received')
  <2>1. received' = received \o ValuePiece(range, segment)
    BY <1>8, Zenon DEF Took
  <2>2. ReceivedTo(received', n, k, y)
    BY <1>9, <2>1, Zenon
  <2>3. y < ValueStops(m, q)
    BY <1>9 DEF GoesTo
  <2> QED
    BY <1>3, <1>5, <1>9, <2>2, <2>3, ReceivedIsValid
<1>12. status' = "ok"
  BY <1>8, <1>10, <1>11 DEF Took
<1> QED
  BY <1>4, <1>12

LEMMA SameOrdinary ==
    ASSUME UNCHANGED <<file, extensions, info, truth, extent, window>>, Ordinary'
    PROVE  Ordinary
<1>1. data_ranges' = data_ranges
  BY DEF data_ranges
<1>2. \A n \in 1 .. Len(data_ranges) : HoldsSome(n)' => HoldsSome(n)
  BY <1>1 DEF HoldsSome
<1>3. \A n \in 1 .. Len(data_ranges) : Has(n)' => Has(n)
  BY <1>1 DEF Has
<1>4. Ends' = Ends /\ Value' = Value
  BY DEF Ends, Value
<1> QED
  BY <1>1, <1>2, <1>3, <1>4 DEF Ordinary, IsBase64

LEMMA OrdinaryStep ==
    ASSUME Described, IInv, SourceKnown, Progress, ReceivedInOrder, OrdinaryGoesOn,
           NEW range, NEW segment, Transfers(range, segment)
    PROVE  OrdinaryGoesOn'
<1> SUFFICES ASSUME Ordinary', answers' \subseteq {"ok"}
             PROVE  ~failed' /\ AtASegment'
  BY DEF OrdinaryGoesOn
<1>1. /\ UNCHANGED <<file, contents, extensions, info, truth, kind, extent, window, result>>
      /\ failed' = (failed \/ status' = "error")
  BY Advances
<1>2. Ordinary
  BY <1>1, SameOrdinary
<1>3. status' = "ok" /\ GoesToNext
  BY <1>2, OrdinaryTransfer
<1>4. ~failed
  BY <1>2, DecoderStep DEF OrdinaryGoesOn
<1> QED
  BY <1>1, <1>3, <1>4 DEF GoesToNext

LEMMA OrdinaryPass ==
    ASSUME Passes
    PROVE  OrdinaryGoesOn'
<1>1. /\ index \in 1 .. Len(data_ranges) /\ ~Has(index)
      /\ UNCHANGED <<file, contents, extensions, info, truth, kind, extent, window, result>>
  BY DEF Passes
<1>2. ~Ordinary
  BY <1>1 DEF Ordinary
<1>3. Ordinary' => Ordinary
  BY <1>1, SameOrdinary
<1> QED
  BY <1>2, <1>3 DEF OrdinaryGoesOn

ExtractionInv ==
    /\ Described /\ IInv /\ SourceKnown /\ Progress /\ Returned
    /\ ReceivedInOrder /\ OrdinaryGoesOn

LEMMA ListedRanges ==
    ASSUME Described
    PROVE  /\ data_ranges \in Seq(DataRange) /\ Len(data_ranges) \in Nat
           /\ \A range \in ToSet(data_ranges) :
                 range.begin \in Nat /\ range.end \in Nat /\ range.end <= Len(contents)
<1>1. data_ranges \in Seq(DataRange) /\ Len(data_ranges) \in Nat
  BY InfoKnown, LenProperties DEF Collected, XmpInfoBuilder, data_ranges
<1>l. PICK l \in Nat : l = Len(data_ranges)
  BY <1>1
<1>2. ASSUME NEW i \in 1 .. l
      PROVE  /\ data_ranges[i].begin \in Nat /\ data_ranges[i].end \in Nat
             /\ data_ranges[i].end <= Len(contents)
  <2>1. PICK n, m, k, q \in Nat : Layout(n, m, k, q)
    <3>1. data_ranges # <<>>
      BY <1>l
    <3> QED
      BY <3>1, InfoKnown DEF Collected, Layout, data_ranges
  <2>2. /\ n \in 1 .. m /\ m \in 1 .. Len(file.texts) /\ l = (m - n) + 1
        /\ data_ranges[i] = extensions[(n + i) - 1]
    BY <1>l, <2>1, RangesAre
  <2>t. PICK texts \in Seq(Seq(Char)) : texts = file.texts
    BY TextsType
  <2>3. (n + i) - 1 \in 1 .. Len(texts)
    BY <2>2, <2>t, LenProperties
  <2>4. LiesAt(data_ranges[i], texts[(n + i) - 1])
    BY <2>2, <2>3, <2>t, ExtensionsLie
  <2> QED
    BY <2>4 DEF LiesAt, Fills, DataRange
<1>3. ToSet(data_ranges) = {data_ranges[i] : i \in 1 .. l}
  BY <1>1, <1>l, LenProperties DEF ToSet
<1> QED
  BY <1>1, <1>2, <1>3

LEMMA ExtractionInitInv ==
    ASSUME ExtractionInit
    PROVE  ExtractionInv
<1>1. Described
  BY DEF ExtractionInit, Described
<1>2. IInv
  BY InitIInv DEF ExtractionInit
<1>l. PICK l \in Nat : l = Len(data_ranges)
  BY <1>1, ListedRanges
<1>3. index = 1 /\ chunk = FirstChunk(data_ranges, 1) /\ ~failed /\ failed \in BOOLEAN
      /\ result = "none" /\ phase = "transferring" /\ status = "ok" /\ received = <<>>
  BY DEF ExtractionInit, Init
<1>o. PICK size \in Nat : size = Len(contents)
  BY <1>1, ExtensionsLie, LenProperties
<1>n. PICK cut \in Nat : cut <= size /\ extent = NewRange(0, cut)
  <2>1. PICK k \in 0 .. Len(contents) : extent = NewRange(0, k)
    BY DEF ExtractionInit
  <2> QED
    BY <1>o, <2>1
<1>4. SourceKnown
  <2>1. kind \in {"istream", "memory"}
    BY DEF ExtractionInit
  <2>2. extent \in DataRange /\ extent.end <= size
    BY <1>n DEF NewRange, DataRange
  <2>3. CASE kind = "memory"
    <3>1. window = extent
      BY <2>3 DEF ExtractionInit
    <3> QED
      BY <1>n, <1>o, <2>1, <2>2, <3>1 DEF SourceKnown
  <2>4. CASE kind # "memory"
    <3>1. window \in Windows
      BY <2>4 DEF ExtractionInit
    <3>2. \A range \in ToSet(data_ranges) :
             range.begin \in Nat /\ range.end \in Nat /\ range.end <= size
      BY <1>1, <1>o, ListedRanges
    <3>3. window \in DataRange /\ window.end <= size
      BY <1>o, <3>1, <3>2 DEF Windows, NewRange, InvalidRange, DataRange
    <3> QED
      BY <1>n, <1>o, <2>1, <2>4, <3>3 DEF SourceKnown
  <2> QED
    BY <2>3, <2>4
<1>5. AtASegment
  <2>1. 1 <= l => 1 \in 1 .. l
    BY <1>l
  <2> QED
    BY <1>3, <1>l, <2>1 DEF AtASegment, FirstChunk
<1>6. Progress
  BY <1>3, <1>5, <1>l DEF Progress
<1>7. Returned
  BY <1>3 DEF Returned
<1>8. ASSUME NEW n \in Nat, NEW m \in Nat, NEW k \in Nat, NEW q \in Nat,
             Layout(n, m, k, q), Ends
      PROVE  InOrder(n, m, k, q)
  <2>0. 1 <= l /\ 1 \in 1 .. l
    <3>1. l = (m - n) + 1 /\ n \in 1 .. m
      BY <1>1, <1>8, <1>l, RangesAre
    <3> QED
      BY <3>1
  <2>1. PICK b \in Nat : b = ValueBegins(n, k) /\ 1 <= b /\ b <= ValueStops(m, q)
    BY <1>1, <1>8, ValueIs
  <2>2. b - 1 \in Nat /\ b <= (b - 1) + 1 /\ b - 1 < ValueStops(m, q)
    <3>1. ValueStops(m, q) \in Nat
      BY <1>1, <1>8, ValueIs
    <3> QED
      BY <2>1, <3>1
  <2>3. ReceivedTo(received, n, k, b - 1)
    <3>1. SubSeq(Joined, b, b - 1) = <<>>
      <4>1. PICK joined \in Seq(Char) : joined = Joined
        BY <1>1, <1>8, ValueIs
      <4>2. Len(joined) \in Nat /\ b - 1 <= Len(joined)
        <5>1. PICK o \in Nat : o = Len(joined)
          BY LenProperties
        <5>2. ValueStops(m, q) \in Nat /\ ValueStops(m, q) <= o
          BY <1>1, <1>8, <4>1, <5>1, ValueIs
        <5> QED
          BY <2>1, <5>1, <5>2
      <4>3. Len(SubSeq(joined, b, b - 1)) = 0
        BY <2>1, <2>2, <4>2, SubSeqFacts
      <4>4. SubSeq(joined, b, b - 1) \in Seq(Char)
        BY <2>1, <2>2, <4>2, SubSeqFacts
      <4>5. SubSeq(joined, b, b - 1) = <<>>
        BY <4>3, <4>4, EmptySeq
      <4> QED
        BY <4>1, <4>5, Zenon
    <3> QED
      BY <1>3, <2>1, <3>1, Zenon DEF ReceivedTo
  <2>4. UptoNow(n, k, m, q) = b - 1
    <3>1. PICK e \in Nat : IsAtText(n, m, e) /\ 1 <= l
      <4>1. 1 <= l
        BY <1>1, <1>8, <1>l, RangesAre
      <4>2. index \in 1 .. Len(data_ranges)
        BY <1>3, <1>l, <4>1
      <4> QED
        BY <1>1, <1>8, <4>1, <4>2, TextAt
    <3>2. (n + 1) - 1 = n
      OBVIOUS
    <3>3. UptoNow(n, k, m, q) = UptoText(n, k, n)
      BY <1>3, <1>l, <3>1, <3>2 DEF UptoNow
    <3>4. UptoText(n, k, n) = (LengthBefore(file.texts, n) + (k + 2)) - 1
      BY DEF UptoText, ValueFrom
    <3> QED
      BY <2>1, <3>3, <3>4 DEF ValueBegins
  <2>5. ~AllTransferred
    <3>1. index # l + 1
      BY <1>3, <2>0
    <3> QED
      BY <1>5, <1>l, <3>1 DEF AllTransferred
  <2> QED
    BY <2>1, <2>2, <2>3, <2>4, <2>5 DEF InOrder, SomeReceived
<1>9. ReceivedInOrder
  BY <1>8 DEF ReceivedInOrder
<1>10. OrdinaryGoesOn
  BY <1>3, <1>5 DEF OrdinaryGoesOn
<1> QED
  BY <1>1, <1>2, <1>4, <1>6, <1>7, <1>9, <1>10 DEF ExtractionInv

LEMMA TransferKeepsInv ==
    ASSUME ExtractionInv, NEW range, NEW segment, Transfers(range, segment)
    PROVE  ExtractionInv'
<1>0. /\ Described /\ IInv /\ SourceKnown /\ Progress /\ Returned
      /\ ReceivedInOrder /\ OrdinaryGoesOn
  BY DEF ExtractionInv
<1>1. IInv' /\ phase' = phase
  BY <1>0, DecoderStep
<1>2. /\ index \in 1 .. Len(data_ranges) /\ phase = "transferring" /\ status # "error"
      /\ UNCHANGED <<file, contents, extensions, info, truth, kind, extent, window, result>>
      /\ failed' = (failed \/ status' = "error")
      /\ GoesOnInSegment \/ GoesToNext
  BY <1>0, Advances
<1>3. failed' \in BOOLEAN /\ (status' = "error" => failed')
  BY <1>0, <1>2 DEF Progress
<1>4. Described' /\ SourceKnown' /\ Progress' /\ Returned'
  BY <1>0, <1>1, <1>2, <1>3, ProgressStep
<1>5. ReceivedInOrder'
  BY <1>0, <1>4, ReceivedStep
<1>6. OrdinaryGoesOn'
  BY <1>0, OrdinaryStep
<1> QED
  BY <1>1, <1>4, <1>5, <1>6 DEF ExtractionInv

LEMMA PassKeepsInv ==
    ASSUME ExtractionInv, Passes
    PROVE  ExtractionInv'
<1>0. /\ Described /\ IInv /\ SourceKnown /\ Progress /\ Returned
      /\ ReceivedInOrder /\ OrdinaryGoesOn
  BY DEF ExtractionInv
<1>1. /\ index \in 1 .. Len(data_ranges) /\ phase = "transferring" /\ status # "error"
      /\ UNCHANGED <<file, contents, extensions, info, truth, kind, extent, window, result>>
      /\ UNCHANGED <<phase, received, leftover, sent, location, has_error, status, answers>>
      /\ failed' = (failed \/ AtASegment) /\ GoesToNext
  BY DEF Passes
<1>2. IInv'
  BY <1>0, <1>1 DEF IInv, TypeOK, NoErrorSoFar, ErrorIsFinal, FinishedIsComplete, Incomplete
<1>3. failed' \in BOOLEAN /\ status' # "error"
  BY <1>0, <1>1 DEF Progress, AtASegment
<1>4. Described' /\ SourceKnown' /\ Progress' /\ Returned'
  BY <1>0, <1>1, <1>3, ProgressStep
<1>5. ReceivedInOrder'
  BY <1>0, ReceivedPass
<1>6. OrdinaryGoesOn'
  BY OrdinaryPass
<1> QED
  BY <1>2, <1>4, <1>5, <1>6 DEF ExtractionInv

\* What neither the end of the extraction nor a stuttering step changes.
LEMMA NothingMoves ==
    ASSUME ExtractionInv,
           UNCHANGED <<input, source, extractor, failed, received, answers, status>>
    PROVE  /\ Described' /\ SourceKnown' /\ Progress' /\ ReceivedInOrder' /\ OrdinaryGoesOn'
           /\ data_ranges' = data_ranges /\ (Success' <=> Success)
<1>1. /\ UNCHANGED <<file, contents, extensions, info, truth, kind, extent, window>>
      /\ UNCHANGED <<index, chunk, failed, received, answers, status>>
  BY DEF input, source, extractor
<1>2. Described' /\ SourceKnown'
  BY <1>1 DEF ExtractionInv, Described, SourceKnown, TruthOf, data_ranges
<1>3. Progress'
  BY <1>1 DEF ExtractionInv, Progress, AtASegment, AtALastByte, data_ranges
<1>4. ReceivedInOrder'
  <2>1. Fresh' <=> Fresh
    BY <1>1, SameFreshness
  <2>2. NothingMissed' <=> NothingMissed
    BY <1>1 DEF NothingMissed, Has, data_ranges
  <2>3. AllTransferred' <=> AllTransferred
    BY <1>1 DEF AllTransferred, IsLast, AtASegment, data_ranges
  <2> QED
    BY <1>1, <2>1, <2>2, <2>3
       DEF ExtractionInv, ReceivedInOrder, InOrder, SomeReceived, ReceivedTo, AtASegment,
           UptoNow, UptoText, ValueBegins, ValueStops, Joined, Layout, Ends, data_ranges
<1>5. OrdinaryGoesOn'
  BY <1>1 DEF ExtractionInv, OrdinaryGoesOn, AtASegment, Ordinary, Ends, Value, HoldsSome,
     Has, data_ranges
<1>6. data_ranges' = data_ranges /\ (Success' <=> Success)
  BY <1>1 DEF Success, HasImage, data_ranges
<1> QED
  BY <1>2, <1>3, <1>4, <1>5, <1>6

LEMMA ReturnKeepsInv ==
    ASSUME ExtractionInv, Return
    PROVE  ExtractionInv'
<1>1. /\ phase = "transferring" /\ ~Extracting /\ FinishTransfer
      /\ result' = IF Success THEN "extracted" ELSE "failed"
      /\ UNCHANGED <<input, source, extractor, failed>>
  BY DEF Return
<1>2. /\ UNCHANGED <<received, leftover, sent, answers, status>> /\ phase' = "finished"
  BY <1>1 DEF FinishTransfer
<1>3. /\ Described' /\ SourceKnown' /\ Progress' /\ ReceivedInOrder' /\ OrdinaryGoesOn'
      /\ data_ranges' = data_ranges /\ (Success' <=> Success)
  BY <1>1, <1>2, NothingMoves
<1>4. IInv'
  BY <1>1, FinishStep DEF ExtractionInv
<1>5. Returned'
  <2>1. failed' \/ index' = Len(data_ranges') + 1
    <3>1. failed \/ index = Len(data_ranges) + 1
      <4>1. Len(data_ranges) \in Nat /\ index \in 1 .. Len(data_ranges) + 1
        BY ListedRanges DEF ExtractionInv, Progress
      <4>2. failed \/ ~(index <= Len(data_ranges))
        BY <1>1 DEF ExtractionInv, Progress, Extracting
      <4> QED
        BY <4>1, <4>2
    <3> QED
      BY <1>1, <1>3, <3>1 DEF extractor
  <2>2. ~failed => DecodedSoFar(received, leftover, sent)
    <3>1. ~failed => ~has_error
      BY <1>1 DEF ExtractionInv, Progress, IInv, ErrorIsFinal
    <3> QED
      BY <3>1 DEF ExtractionInv, IInv, NoErrorSoFar
  <2>3. failed' = failed /\ (~failed => DecodedSoFar(received', leftover', sent'))
    BY <1>1, <1>2, <2>2
  <2> QED
    BY <1>1, <1>2, <1>3, <2>1, <2>3 DEF Returned
<1> QED
  BY <1>3, <1>4, <1>5 DEF ExtractionInv

LEMMA ExtractionNextInv == ExtractionInv /\ [ExtractionNext]_allvars => ExtractionInv'
<1> SUFFICES ASSUME ExtractionInv, [ExtractionNext]_allvars
             PROVE  ExtractionInv'
  OBVIOUS
<1>1. CASE TransferFromMemory
  BY <1>1, FromMemory, TransferKeepsInv DEF ExtractionInv
<1>2. CASE TransferChunk
  BY <1>2, InAChunk, TransferKeepsInv DEF ExtractionInv
<1>3. CASE NothingToTransfer
  BY <1>3, WithoutData, PassKeepsInv DEF ExtractionInv
<1>4. CASE Return
  BY <1>4, ReturnKeepsInv
<1>5. CASE UNCHANGED allvars
  <2>1. /\ UNCHANGED <<input, source, extractor, failed, received, answers, status>>
        /\ UNCHANGED <<phase, result, leftover, sent, location, has_error>>
    BY <1>5 DEF allvars, decoder
  <2>2. /\ Described' /\ SourceKnown' /\ Progress' /\ ReceivedInOrder' /\ OrdinaryGoesOn'
        /\ data_ranges' = data_ranges /\ (Success' <=> Success)
    BY <2>1, NothingMoves
  <2>3. IInv'
    BY <2>1 DEF ExtractionInv, IInv, TypeOK, NoErrorSoFar, ErrorIsFinal, FinishedIsComplete,
       Incomplete
  <2>4. Returned'
    BY <2>1, <2>2 DEF ExtractionInv, Returned, extractor
  <2> QED
    BY <2>2, <2>3, <2>4 DEF ExtractionInv
<1> QED
  BY <1>1, <1>2, <1>3, <1>4, <1>5 DEF ExtractionNext

LEMMA ExtractionInvariance == ExtractionSpec => []ExtractionInv
<1>1. ExtractionInit => ExtractionInv
  BY ExtractionInitInv
<1> QED
  BY <1>1, ExtractionNextInv, PTL DEF ExtractionSpec
-----------------------------------------------------------------------------
(***************************************************************************)
(* The theorems.                                                           *)
(***************************************************************************)
\* Every variable of the extraction has its type: the extractor is at a listed segment or
\* behind the last, and the next chunk begins within that segment.
THEOREM ExtractionTypeCorrect == ExtractionSpec => []ExtractionTypeOK
<1>1. ASSUME ExtractionInv
      PROVE  ExtractionTypeOK
  <2>0. Described /\ IInv /\ SourceKnown /\ Progress /\ Returned
    BY <1>1 DEF ExtractionInv
  <2>1. TypeOK
    BY <2>0 DEF IInv
  <2>2. extensions \in Seq(DataRange)
    <3>1. PICK l \in Nat : l = Len(file.texts)
      <4>1. PICK texts \in Seq(Seq(Char)) : texts = file.texts
        BY <2>0, TextsType
      <4> QED
        BY <4>1, LenProperties
    <3>2. Len(SegmentsOf(file.texts)) = l
      BY <2>0, <3>1, SegmentsType
    <3>3. extensions = [e \in 1 .. l |-> extensions[e]]
      BY <2>0, <3>2 DEF Described, RangesOf
    <3>4. \A e \in 1 .. l : extensions[e] \in DataRange
      BY <2>0, <3>1, ExtensionsLie DEF LiesAt, Fills
    <3> QED
      BY <3>3, <3>4
  <2>3. info \in XmpInfoBuilder
    BY <2>0, InfoKnown DEF Collected
  <2>4. kind \in {"istream", "memory"} /\ extent \in DataRange /\ window \in DataRange
    BY <2>0 DEF SourceKnown, NewRange, DataRange
  <2>5. index \in 1 .. Len(data_ranges) + 1 /\ failed \in BOOLEAN
    BY <2>0 DEF Progress
  <2>6. ASSUME index <= Len(data_ranges)
        PROVE  chunk \in data_ranges[index].begin .. data_ranges[index].end
    <3>1. index \in 1 .. Len(data_ranges)
      BY <2>0, <2>5, <2>6, ListedRanges
    <3>2. PICK seg \in DataRange : seg = data_ranges[index] /\ seg.begin < seg.end
      BY <2>0, <3>1, ListedRange
    <3>3. seg.begin \in Nat /\ seg.end \in Nat /\ BestDataSize \in Nat
      BY BestDataSizeAssumption DEF DataRange
    <3>4. chunk = seg.begin \/ (chunk = seg.begin + BestDataSize /\ chunk < seg.end)
      BY <2>0, <2>6, <3>2 DEF Progress, AtASegment, AtALastByte
    <3> QED
      BY <3>2, <3>3, <3>4
  <2>7. result \in {"none", "extracted", "failed"}
    BY <2>0 DEF Returned, IInv, TypeOK
  <2> QED
    BY <2>1, <2>2, <2>3, <2>4, <2>5, <2>6, <2>7 DEF ExtractionTypeOK
<1> QED
  BY <1>1, ExtractionInvariance, PTL

\* Where the value of a file with a value that ends is.
LEMMA EndsSomewhere ==
    ASSUME ExtractionInv, Ends, "done" \notin answers, Fresh
    PROVE  \E n, m, k, q \in Nat : Layout(n, m, k, q) /\ InOrder(n, m, k, q) /\ HasImage
<1>1. IsValid(info.property_end)
  BY DEF ExtractionInv, Described, Ends, TruthOf
<1>2. data_ranges # <<>>
  BY <1>1, InfoKnown, NothingCollected DEF ExtractionInv, data_ranges
<1>3. PICK n, m, k, q \in Nat : Layout(n, m, k, q)
  BY <1>2, InfoKnown DEF ExtractionInv, Collected, Layout, data_ranges
<1>4. InOrder(n, m, k, q)
  BY <1>3 DEF ExtractionInv, ReceivedInOrder
<1> QED
  BY <1>2, <1>3, <1>4 DEF HasImage

\* What the decoder receives of a value that ends is a prefix of it, however the segments
\* lie, in whatever pieces the source transfers them, and wherever it ends, unless what it
\* has in memory lies behind that.
THEOREM TheValueIsDecoded == ExtractionSpec => []OnlyTheValueIsDecoded
<1>1. ASSUME ExtractionInv, Ends, "done" \notin answers, Fresh
      PROVE  IsPrefix(received, Value)
  <2>1. PICK n, m, k, q \in Nat : Layout(n, m, k, q) /\ InOrder(n, m, k, q)
    BY <1>1, EndsSomewhere
  <2>2. /\ ValueBegins(n, k) \in Nat /\ ValueStops(m, q) \in Nat
        /\ 1 <= ValueBegins(n, k) /\ ValueStops(m, q) <= Len(Joined)
        /\ Value = SubSeq(Joined, ValueBegins(n, k), ValueStops(m, q) - 1)
    BY <1>1, <2>1, ValueIs DEF ExtractionInv
  <2>3. PICK x \in Nat : x < ValueStops(m, q) /\ ReceivedTo(received, n, k, x)
    BY <2>1 DEF InOrder, SomeReceived
  <2>j. PICK joined \in Seq(Char) : joined = Joined
    BY <1>1, <2>1, ValueIs DEF ExtractionInv
  <2>o. PICK o \in Nat : o = Len(joined)
    BY LenProperties
  <2>b. PICK b \in Nat : b = ValueBegins(n, k) /\ 1 <= b
    BY <2>2
  <2>s. PICK s \in Nat : s = ValueStops(m, q) - 1 /\ x <= s /\ s <= o
    <3>1. PICK t \in Nat : t = ValueStops(m, q) /\ t <= o /\ x < t
      BY <2>2, <2>3, <2>j, <2>o
    <3>2. t - 1 \in Nat /\ x <= t - 1 /\ t - 1 <= o
      BY <3>1
    <3> QED
      BY <3>1, <3>2
  <2>4. IsPrefix(SubSeq(joined, b, x), SubSeq(joined, b, s))
    BY <2>o, <2>b, <2>s, PartIsPrefix
  <2>5. received = SubSeq(joined, b, x) /\ Value = SubSeq(joined, b, s)
    BY <2>2, <2>3, <2>j, <2>b, <2>s, Zenon DEF ReceivedTo
  <2> QED
    BY <2>4, <2>5, Zenon
<1>2. ExtractionInv => OnlyTheValueIsDecoded
  BY <1>1 DEF OnlyTheValueIsDecoded, Fresh
<1> QED
  BY <1>2, ExtractionInvariance, PTL

\* Behind the last segment, and with no error, the value has been received.
LEMMA AllReceived ==
    ASSUME ExtractionInv, Ends, "done" \notin answers, Fresh, ~failed,
           index = Len(data_ranges) + 1
    PROVE  received = Value
<1>1. PICK n, m, k, q \in Nat : Layout(n, m, k, q) /\ InOrder(n, m, k, q)
  BY EndsSomewhere
<1>4. ReceivedTo(received, n, k, ValueStops(m, q) - 1)
  BY <1>1 DEF InOrder, AllTransferred
<1>5. Value = SubSeq(Joined, ValueBegins(n, k), ValueStops(m, q) - 1)
  BY <1>1, ValueIs DEF ExtractionInv
<1> QED
  BY <1>4, <1>5, Zenon DEF ReceivedTo

\* If ExtractImage returns true, the source may have ended where it will: every character
\* of the value has been received, and all but those of an incomplete last group have been
\* decoded, unless what the source has in memory lies behind its end.
THEOREM TrueIsComplete == ExtractionSpec => []TrueMeansAllReceived
<1>1. ASSUME ExtractionInv, result = "extracted", Ends, "done" \notin answers, Fresh
      PROVE  ValueIsDecoded
  <2>1. phase = "finished"
    BY <1>1 DEF ExtractionInv, Returned, IInv, TypeOK
  <2>2. ~failed /\ index = Len(data_ranges) + 1 /\ DecodedSoFar(received, leftover, sent)
    BY <1>1, <2>1 DEF ExtractionInv, Returned, Success
  <2>3. received = Value
    BY <1>1, <2>2, AllReceived
  <2>4. received \in Seq(Char) /\ leftover \in Seq(Char) /\ Len(leftover) < 4
    BY <1>1 DEF ExtractionInv, IInv, TypeOK
  <2>5. /\ sent = BytesOfGroups
        /\ leftover = SubSeq(received, 4 * GroupCount + 1, Len(received))
    BY <2>2, <2>4, GroupsOfReceived
  <2> QED
    BY <2>3, <2>5, Zenon DEF ValueIsDecoded
<1>2. ExtractionInv => TrueMeansAllReceived
  BY <1>1 DEF TrueMeansAllReceived, Fresh
<1> QED
  BY <1>2, ExtractionInvariance, PTL

\* A base64 value with some of it in each segment is extracted whole, if the source has all
\* of the segments, transfers them in one piece each, and the destination takes what it is
\* given.
THEOREM OrdinaryIsExtracted == ExtractionSpec => []OrdinaryValueIsExtracted
<1>1. ASSUME ExtractionInv, phase = "finished", Ordinary, answers \subseteq {"ok"}
      PROVE  result = "extracted" /\ received = Value /\ ~has_error
  <2>1. ~failed
    BY <1>1 DEF ExtractionInv, OrdinaryGoesOn
  <2>2. index = Len(data_ranges) + 1 /\ result = IF Success THEN "extracted" ELSE "failed"
    BY <1>1, <2>1 DEF ExtractionInv, Returned
  <2>3. Ends /\ IsBase64(Value) /\ "done" \notin answers /\ Fresh
    BY <1>1, OrdinaryIsFresh DEF Ordinary
  <2>4. HasImage
    BY <1>1, <2>3, EndsSomewhere
  <2>5. received = Value
    BY <1>1, <2>1, <2>2, <2>3, AllReceived
  <2>6. Valid(received) /\ Len(received) % 4 = 0
    <3>1. received \in Seq(Char)
      BY <1>1 DEF ExtractionInv, IInv, TypeOK
    <3> QED
      BY <2>3, <2>5, <3>1, Base64IsValid
  <2>7. ~has_error
    BY <1>1, <2>6 DEF ExtractionInv, IInv, ErrorIsFinal
  <2> QED
    BY <2>1, <2>2, <2>4, <2>5, <2>7 DEF Success
<1>2. ExtractionInv => OrdinaryValueIsExtracted
  BY <1>1 DEF OrdinaryValueIsExtracted
<1> QED
  BY <1>2, ExtractionInvariance, PTL
=============================================================================
