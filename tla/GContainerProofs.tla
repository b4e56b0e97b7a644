-------------------------- MODULE GContainerProofs --------------------------
(***************************************************************************)
(* Proofs about GContainer, for files of any content and length, any list  *)
(* of other files, any changes by others, and however much room there is.  *)
(***************************************************************************)
EXTENDS GContainer, DataTransferProofs, FiniteSetTheorems

-----------------------------------------------------------------------------
(***************************************************************************)
(* The scan: its state after each of the symbols.                          *)
(***************************************************************************)
ScanStep(content, scan, n) == ScanSymbol(scan, content[n], n - 1)
Scan == INSTANCE SequenceFolds WITH Op <- ScanStep

AScan(soi, inside, found) == [soi |-> soi, inside |-> inside, image |-> found]

NoScan == AScan(InvalidRange, FALSE, InvalidRange)

IsScan(scan, content) ==
    /\ scan[0] = NoScan
    /\ \A n \in Nat : n < Len(content) =>
          scan[n + 1] = ScanSymbol(scan[n], content[n + 1], n)
    /\ ScanContent(content) = scan[Len(content)]

LEMMA ScanIsFold ==
    \A content, seq :
        FoldLeft(LAMBDA scan, n : ScanSymbol(scan, content[n], n - 1), NoScan, seq)
           = Scan!Folded(content, NoScan, seq)
  BY DEF Scan!Folded, ScanStep, FoldLeft, MapThenFoldSet, Scan!FoldLeft,
         Scan!MapThenFoldSet, Max, Scan!Max

LEMMA ScanExists ==
    \A content \in Seq(Symbols) : \E scan : IsScan(scan, content)
<1> SUFFICES ASSUME NEW content \in Seq(Symbols)
             PROVE  \E scan : IsScan(scan, content)
  OBVIOUS
<1>1. PICK length \in Nat : length = Len(content)
  BY LenProperties
<1>2. PICK seq : seq = [n \in 1 .. length |-> n]
  OBVIOUS
<1>3. seq \in Seq(Nat) /\ Len(seq) = length /\ \A n \in 1 .. length : seq[n] = n
  BY <1>2
<1>4. PICK scan : scan = [n \in Nat |-> Scan!FoldedTo(content, NoScan, seq, n)]
  OBVIOUS
<1>5. \A n \in Nat : scan[n] = Scan!FoldedTo(content, NoScan, seq, n)
  BY <1>4
<1>6. scan[0] = NoScan
  BY <1>3, <1>5, Scan!FoldedNone
<1>7. ASSUME NEW n \in Nat, n < length
      PROVE  scan[n + 1] = ScanSymbol(scan[n], content[n + 1], n)
  <2>1. n \in 0 .. Len(seq) - 1 /\ n + 1 \in Nat /\ seq[n + 1] = n + 1 /\ (n + 1) - 1 = n
    BY <1>3, <1>7
  <2>2. Scan!FoldedTo(content, NoScan, seq, n + 1)
           = ScanStep(content, Scan!FoldedTo(content, NoScan, seq, n), seq[n + 1])
    BY <1>3, <2>1, Scan!FoldedNext, Zenon
  <2>3. /\ scan[n] = Scan!FoldedTo(content, NoScan, seq, n)
        /\ scan[n + 1] = Scan!FoldedTo(content, NoScan, seq, n + 1)
    BY <1>5, <2>1
  <2>4. ScanStep(content, scan[n], n + 1) = ScanSymbol(scan[n], content[n + 1], n)
    BY <2>1, Zenon DEF ScanStep
  <2> QED
    BY <2>1, <2>2, <2>3, <2>4, Zenon
<1>8. ScanContent(content) = scan[length]
  <2>1. ScanContent(content) = Scan!Folded(content, NoScan, seq)
    BY <1>1, <1>2, ScanIsFold, Zenon DEF ScanContent, NoScan, AScan
  <2>2. Scan!Folded(content, NoScan, seq) = Scan!FoldedTo(content, NoScan, seq, length)
    BY <1>3, Scan!FoldedAll, Zenon
  <2> QED
    BY <1>5, <2>1, <2>2
<1> QED
  BY <1>1, <1>6, <1>7, <1>8, Zenon DEF IsScan

\* One step of a scan, by cases.
ScanGoesOn(next, soi, inside, found, symbol, l) ==
    /\ IsValid(found) => next = AScan(soi, inside, found)
    /\ ~IsValid(found) /\ inside => next = AScan(soi, FALSE, found)
    /\ ~IsValid(found) /\ ~inside =>
          /\ symbol = "APP" => next = AScan(soi, TRUE, found)
          /\ symbol = "SOI" => next = AScan(NewRange(l, l + 1), inside, found)
          /\ symbol = "EOI" /\ IsValid(soi) =>
                next = AScan(soi, inside, NewRange(soi.begin, l + 1))
          /\ symbol # "APP" /\ symbol # "SOI" /\ ~(symbol = "EOI" /\ IsValid(soi)) =>
                next = AScan(soi, inside, found)

LEMMA ScanCases ==
    \A soi, inside, found, symbol, l : inside \in BOOLEAN =>
        ScanGoesOn(ScanSymbol(AScan(soi, inside, found), symbol, l),
                   soi, inside, found, symbol, l)
<1> SUFFICES ASSUME NEW soi, NEW inside \in BOOLEAN, NEW found, NEW symbol, NEW l
             PROVE  ScanGoesOn(ScanSymbol(AScan(soi, inside, found), symbol, l),
                               soi, inside, found, symbol, l)
  OBVIOUS
<1>1. PICK scan : scan = AScan(soi, inside, found)
  OBVIOUS
<1>2. scan.soi = soi /\ scan.inside = inside /\ scan.image = found
  BY <1>1 DEF AScan
<1>3. \A x : /\ [scan EXCEPT !.inside = x] = AScan(soi, x, found)
             /\ [scan EXCEPT !.soi = x] = AScan(x, inside, found)
             /\ [scan EXCEPT !.image = x] = AScan(soi, inside, x)
  BY <1>1 DEF AScan
<1>4. [scan EXCEPT !.inside = FALSE] = AScan(soi, FALSE, found)
      /\ [scan EXCEPT !.inside = TRUE] = AScan(soi, TRUE, found)
  BY <1>3, Zenon
<1> QED
  BY <1>1, <1>2, <1>3, <1>4 DEF ScanSymbol, ScanGoesOn

\* What a state of the scan says of the symbols so far: where the last SOI was, and
\* which image was found first.
SoiAt(scan, content, b, n) ==
    /\ content[b + 1] = "SOI"
    /\ \A k \in b + 1 .. n : scan[k].soi = NewRange(b, b + 1)
    /\ ~scan[b + 1].inside

NoneUpTo(scan, n) == \A k \in 0 .. n : scan[k].image = InvalidRange

Found(scan, content, b, e) ==
    /\ b \in Nat /\ e \in Nat /\ b + 1 < e
    /\ content[e] = "EOI"
    /\ SoiAt(scan, content, b, e - 1)
    /\ ~scan[e - 1].inside
    /\ NoneUpTo(scan, e - 1)

LastSoi(scan, content, n, soi) ==
    \/ soi = InvalidRange
    \/ \E b \in Nat : b < n /\ soi = NewRange(b, b + 1) /\ SoiAt(scan, content, b, n)

ImageSoFar(scan, content, n, inside, found) ==
    \/ found = InvalidRange /\ NoneUpTo(scan, n)
    \/ /\ ~inside
       /\ \E b, e \in Nat : /\ e <= n /\ found = NewRange(b, e)
                            /\ Found(scan, content, b, e)

Sound(scan, content, n) ==
    \E soi, found : \E inside \in BOOLEAN :
       /\ scan[n] = AScan(soi, inside, found)
       /\ LastSoi(scan, content, n, soi)
       /\ ImageSoFar(scan, content, n, inside, found)

LEMMA SoundStep ==
    ASSUME NEW scan, NEW content, NEW n \in Nat, Sound(scan, content, n),
           scan[n + 1] = ScanSymbol(scan[n], content[n + 1], n)
    PROVE  Sound(scan, content, n + 1)
<1>1. PICK soi, found, inside :
         /\ inside \in BOOLEAN
         /\ scan[n] = AScan(soi, inside, found)
         /\ LastSoi(scan, content, n, soi)
         /\ ImageSoFar(scan, content, n, inside, found)
  BY DEF Sound
<1>s. ScanGoesOn(scan[n + 1], soi, inside, found, content[n + 1], n)
  <2>1. scan[n + 1] = ScanSymbol(AScan(soi, inside, found), content[n + 1], n)
    BY <1>1
  <2>2. ScanGoesOn(ScanSymbol(AScan(soi, inside, found), content[n + 1], n),
                   soi, inside, found, content[n + 1], n)
    BY <1>1, ScanCases
  <2> QED
    BY <2>1, <2>2, Zenon
<1>2. /\ scan[n].soi = soi /\ scan[n].inside = inside /\ scan[n].image = found
  BY <1>1 DEF AScan
<1>3. \A s, i, f : scan[n + 1] = AScan(s, i, f) =>
          scan[n + 1].soi = s /\ scan[n + 1].inside = i /\ scan[n + 1].image = f
  BY DEF AScan
<1>t. \A s, f : \A i \in BOOLEAN :
          /\ scan[n + 1] = AScan(s, i, f)
          /\ LastSoi(scan, content, n + 1, s)
          /\ ImageSoFar(scan, content, n + 1, i, f)
          => Sound(scan, content, n + 1)
  BY Zenon DEF Sound
<1>i. inside \in BOOLEAN
  BY <1>1
<1>4. ASSUME scan[n + 1].soi = soi
      PROVE  LastSoi(scan, content, n + 1, soi)
  <2>1. CASE soi = InvalidRange
    BY <2>1 DEF LastSoi
  <2>2. CASE soi # InvalidRange
    <3>1. PICK b \in Nat : b < n /\ soi = NewRange(b, b + 1) /\ SoiAt(scan, content, b, n)
      BY <1>1, <2>2 DEF LastSoi
    <3>2. \A k \in b + 1 .. n + 1 : k \in b + 1 .. n \/ k = n + 1
      OBVIOUS
    <3>3. SoiAt(scan, content, b, n + 1)
      BY <1>4, <3>1, <3>2 DEF SoiAt
    <3> QED
      BY <3>1, <3>3 DEF LastSoi
  <2> QED
    BY <2>1, <2>2
<1>5. ASSUME found = InvalidRange, scan[n + 1].image = found
      PROVE  ImageSoFar(scan, content, n + 1, scan[n + 1].inside, found)
  <2>1. NoneUpTo(scan, n)
    <3>1. ASSUME NEW b \in Nat, NEW e \in Nat, found = NewRange(b, e), b + 1 < e
          PROVE  FALSE
      BY <1>5, <3>1 DEF InvalidRange, NewRange
    <3> QED
      BY <1>1, <3>1 DEF ImageSoFar, Found
  <2>2. \A k \in 0 .. n + 1 : k \in 0 .. n \/ k = n + 1
    OBVIOUS
  <2>3. NoneUpTo(scan, n + 1)
    BY <1>5, <2>1, <2>2 DEF NoneUpTo
  <2> QED
    BY <1>5, <2>3 DEF ImageSoFar
<1>6. CASE IsValid(found)
  <2>1. scan[n + 1] = AScan(soi, inside, found)
    BY <1>s, <1>6 DEF ScanGoesOn
  <2>2. found # InvalidRange
    BY <1>6 DEF IsValid, InvalidRange, NewRange
  <2>3. PICK b \in Nat, e \in Nat : /\ ~inside /\ e <= n /\ found = NewRange(b, e)
                                    /\ Found(scan, content, b, e)
    BY <1>1, <2>2 DEF ImageSoFar
  <2>4. ImageSoFar(scan, content, n + 1, inside, found)
    <3>1. e <= n + 1
      BY <2>3
    <3> QED
      BY <2>3, <3>1 DEF ImageSoFar
  <2>5. LastSoi(scan, content, n + 1, soi)
    BY <1>3, <1>4, <2>1
  <2> QED
    BY <1>i, <1>t, <2>1, <2>4, <2>5, Zenon
<1>7. CASE ~IsValid(found)
  <2>1. found = InvalidRange
    <3>1. ASSUME NEW b \in Nat, NEW e \in Nat, found = NewRange(b, e), b + 1 < e
          PROVE  FALSE
      BY <1>7, <3>1 DEF IsValid, NewRange
    <3> QED
      BY <1>1, <3>1 DEF ImageSoFar, Found
  <2>2. ASSUME NEW i \in BOOLEAN, scan[n + 1] = AScan(soi, i, found)
        PROVE  Sound(scan, content, n + 1)
    <3>1. /\ scan[n + 1].soi = soi /\ scan[n + 1].inside = i /\ scan[n + 1].image = found
      BY <1>3, <2>2, Zenon
    <3>2. LastSoi(scan, content, n + 1, soi) /\ ImageSoFar(scan, content, n + 1, i, found)
      BY <1>4, <1>5, <2>1, <3>1
    <3> QED
      BY <1>t, <2>2, <3>2, Zenon
  <2>3. CASE inside
    <3>1. scan[n + 1] = AScan(soi, FALSE, found)
      BY <1>s, <1>7, <2>3 DEF ScanGoesOn
    <3> QED
      BY <2>2, <3>1, Zenon
  <2>4. CASE ~inside /\ content[n + 1] = "SOI"
    <3>0. inside = FALSE
      BY <2>4
    <3>1. scan[n + 1] = AScan(NewRange(n, n + 1), inside, found)
      BY <1>s, <1>7, <2>4 DEF ScanGoesOn
    <3>2. /\ scan[n + 1].soi = NewRange(n, n + 1) /\ scan[n + 1].inside = FALSE
          /\ scan[n + 1].image = found
      BY <1>3, <3>0, <3>1, Zenon
    <3>3. \A k \in n + 1 .. n + 1 : k = n + 1
      OBVIOUS
    <3>4. SoiAt(scan, content, n, n + 1)
      BY <2>4, <3>2, <3>3 DEF SoiAt
    <3>5. LastSoi(scan, content, n + 1, NewRange(n, n + 1))
      <4>1. n < n + 1
        OBVIOUS
      <4> QED
        BY <3>4, <4>1 DEF LastSoi
    <3>6. ImageSoFar(scan, content, n + 1, inside, found)
      BY <1>5, <2>1, <3>0, <3>2
    <3> QED
      BY <1>i, <1>t, <3>1, <3>5, <3>6, Zenon
  <2>5. CASE ~inside /\ content[n + 1] = "EOI" /\ IsValid(soi)
    <3>1. PICK b \in Nat : b < n /\ soi = NewRange(b, b + 1) /\ SoiAt(scan, content, b, n)
      <4>1. soi # InvalidRange
        BY <2>5 DEF IsValid, InvalidRange, NewRange
      <4> QED
        BY <1>1, <4>1 DEF LastSoi
    <3>2. scan[n + 1] = AScan(soi, inside, NewRange(b, n + 1))
      <4>1. soi.begin = b
        BY <3>1 DEF NewRange
      <4>2. scan[n + 1] = AScan(soi, inside, NewRange(soi.begin, n + 1))
        BY <1>s, <1>7, <2>5 DEF ScanGoesOn
      <4> QED
        BY <4>1, <4>2, Zenon
    <3>3. NoneUpTo(scan, n)
      <4>1. ASSUME NEW c \in Nat, NEW e \in Nat, found = NewRange(c, e), c + 1 < e
            PROVE  FALSE
        BY <1>7, <4>1 DEF IsValid, NewRange
      <4> QED
        BY <1>1, <4>1 DEF ImageSoFar, Found
    <3>4. Found(scan, content, b, n + 1)
      <4>1. (n + 1) - 1 = n /\ b + 1 < n + 1
        BY <3>1
      <4> QED
        BY <1>2, <2>5, <3>1, <3>3, <4>1 DEF Found
    <3>5. ImageSoFar(scan, content, n + 1, inside, NewRange(b, n + 1))
      BY <2>5, <3>4 DEF ImageSoFar
    <3>6. LastSoi(scan, content, n + 1, soi)
      BY <1>3, <1>4, <3>2
    <3> QED
      BY <1>i, <1>t, <3>2, <3>5, <3>6, Zenon
  <2>6. CASE ~inside /\ content[n + 1] = "APP"
    <3>1. scan[n + 1] = AScan(soi, TRUE, found)
      BY <1>s, <1>7, <2>6 DEF ScanGoesOn
    <3> QED
      BY <2>2, <3>1, Zenon
  <2>7. CASE /\ ~inside /\ content[n + 1] # "SOI" /\ content[n + 1] # "APP"
             /\ ~(content[n + 1] = "EOI" /\ IsValid(soi))
    <3>1. scan[n + 1] = AScan(soi, inside, found)
      BY <1>s, <1>7, <2>7 DEF ScanGoesOn
    <3> QED
      BY <1>i, <2>2, <3>1, Zenon
  <2> QED
    BY <2>3, <2>4, <2>5, <2>6, <2>7
<1> QED
  BY <1>6, <1>7

LEMMA ScansAreSound ==
    ASSUME NEW scan, NEW content \in Seq(Symbols), IsScan(scan, content),
           NEW n \in Nat, n <= Len(content)
    PROVE  Sound(scan, content, n)
<1>1. PICK length \in Nat : length = Len(content)
  BY LenProperties
<1> PICK T : T = {i \in Nat : i <= length => Sound(scan, content, i)}
  OBVIOUS
<1>2. 0 \in T
  <2>1. scan[0] = AScan(InvalidRange, FALSE, InvalidRange)
    BY DEF IsScan, NoScan
  <2>2. \A k \in 0 .. 0 : k = 0
    OBVIOUS
  <2>3. scan[0].image = InvalidRange
    BY <2>1 DEF AScan
  <2>4. NoneUpTo(scan, 0)
    BY <2>2, <2>3 DEF NoneUpTo
  <2>5. Sound(scan, content, 0)
    BY <2>1, <2>4 DEF Sound, LastSoi, ImageSoFar
  <2> QED
    BY <2>5
<1>3. ASSUME NEW i \in Nat, i \in T
      PROVE  i + 1 \in T
  <2>1. CASE i < length
    <3>1. Sound(scan, content, i)
      BY <1>3, <2>1
    <3>2. scan[i + 1] = ScanSymbol(scan[i], content[i + 1], i)
      BY <1>1, <2>1 DEF IsScan
    <3> QED
      BY <3>1, <3>2, SoundStep
  <2>2. CASE ~(i < length)
    BY <2>2
  <2> QED
    BY <2>1, <2>2
<1>4. \A i \in Nat : i \in T
  BY <1>2, <1>3, Scan!NatSetInduction
<1> QED
  BY <1>1, <1>4

\* The first image, if there is one: where the scan found it.
LEMMA FirstImageIsFound ==
    ASSUME NEW scan, NEW content \in Seq(Symbols), IsScan(scan, content)
    PROVE  \/ FirstImage(content) = InvalidRange
           \/ \E b, e \in Nat : /\ e <= Len(content) /\ FirstImage(content) = NewRange(b, e)
                                /\ Found(scan, content, b, e)
<1>1. Len(content) \in Nat /\ Len(content) <= Len(content)
  BY LenProperties
<1>2. PICK soi, found, inside :
         /\ inside \in BOOLEAN
         /\ scan[Len(content)] = AScan(soi, inside, found)
         /\ ImageSoFar(scan, content, Len(content), inside, found)
  BY <1>1, ScansAreSound DEF Sound
<1>3. FirstImage(content) = IF inside THEN InvalidRange ELSE found
  <2>1. ScanContent(content) = AScan(soi, inside, found)
    BY <1>2 DEF IsScan
  <2> QED
    BY <2>1 DEF FirstImage, AScan
<1> QED
  BY <1>2, <1>3 DEF ImageSoFar

\* Once there is an image the scan is over.
LEMMA ScanStays ==
    ASSUME NEW scan, NEW content \in Seq(Symbols), IsScan(scan, content),
           NEW soi, NEW inside \in BOOLEAN, NEW found, IsValid(found),
           NEW m \in Nat, scan[m] = AScan(soi, inside, found)
    PROVE  \A n \in Nat : m <= n /\ n <= Len(content) => scan[n] = AScan(soi, inside, found)
<1>1. PICK length \in Nat : length = Len(content)
  BY LenProperties
<1> PICK T : T = {n \in Nat : m <= n /\ n <= length => scan[n] = AScan(soi, inside, found)}
  OBVIOUS
<1>2. 0 \in T
  <2>1. m <= 0 => m = 0
    OBVIOUS
  <2> QED
    BY <2>1
<1>3. ASSUME NEW n \in Nat, n \in T
      PROVE  n + 1 \in T
  <2>1. CASE m <= n /\ n < length
    <3>1. scan[n] = AScan(soi, inside, found)
      BY <1>3, <2>1
    <3>2. scan[n + 1] = ScanSymbol(AScan(soi, inside, found), content[n + 1], n)
      BY <1>1, <2>1, <3>1 DEF IsScan
    <3>3. ScanGoesOn(scan[n + 1], soi, inside, found, content[n + 1], n)
      BY <3>2, ScanCases
    <3>4. scan[n + 1] = AScan(soi, inside, found)
      BY <3>3 DEF ScanGoesOn
    <3> QED
      BY <3>4
  <2>2. CASE ~(m <= n /\ n < length)
    <3>1. m <= n + 1 /\ n + 1 <= length => m = n + 1
      BY <2>2
    <3> QED
      BY <3>1
  <2> QED
    BY <2>1, <2>2
<1>4. \A n \in Nat : n \in T
  BY <1>2, <1>3, Scan!NatSetInduction
<1> QED
  BY <1>1, <1>4

\* Contents that begin alike are scanned alike.
LEMMA ScansAgree ==
    ASSUME NEW scan, NEW content \in Seq(Symbols), IsScan(scan, content),
           NEW other, NEW cut \in Seq(Symbols), IsScan(other, cut), Len(cut) <= Len(content),
           \A k \in 1 .. Len(cut) : cut[k] = content[k]
    PROVE  \A n \in Nat : n <= Len(cut) => scan[n] = other[n]
<1>1. PICK length \in Nat : length = Len(cut) /\ length <= Len(content)
  BY LenProperties
<1>c. Len(content) \in Nat
  BY LenProperties
<1> PICK T : T = {n \in Nat : n <= length => scan[n] = other[n]}
  OBVIOUS
<1>2. 0 \in T
  BY DEF IsScan
<1>3. ASSUME NEW n \in Nat, n \in T
      PROVE  n + 1 \in T
  <2>1. CASE n < length
    <3>1. scan[n] = other[n] /\ n + 1 \in 1 .. length /\ n < Len(content)
      BY <1>1, <1>3, <1>c, <2>1
    <3>2. /\ scan[n + 1] = ScanSymbol(scan[n], content[n + 1], n)
          /\ other[n + 1] = ScanSymbol(other[n], cut[n + 1], n)
      BY <1>1, <2>1, <3>1 DEF IsScan
    <3> QED
      BY <1>1, <3>1, <3>2
  <2>2. CASE ~(n < length)
    <3>1. ~(n + 1 <= length)
      BY <2>2
    <3> QED
      BY <3>1
  <2> QED
    BY <2>1, <2>2
<1>4. \A n \in Nat : n \in T
  BY <1>2, <1>3, Scan!NatSetInduction
<1> QED
  BY <1>1, <1>4

\* A content whose end was cut off.
IsPart(cut, content) ==
    /\ Len(cut) <= Len(content)
    /\ \A k \in 1 .. Len(cut) : cut[k] = content[k]

\* What the scan finds in a file that was cut it finds in the whole file as well.
LEMMA FirstImageOfCut ==
    ASSUME NEW content \in Seq(Symbols), NEW cut \in Seq(Symbols), IsPart(cut, content),
           IsValid(FirstImage(cut))
    PROVE  FirstImage(content) = FirstImage(cut)
<1>1. PICK scan : IsScan(scan, content)
  BY ScanExists
<1>2. PICK other : IsScan(other, cut)
  BY ScanExists
<1>3. PICK m \in Nat, n \in Nat : m = Len(cut) /\ n = Len(content) /\ m <= n
  BY LenProperties DEF IsPart
<1>4. PICK soi, found, inside :
         /\ inside \in BOOLEAN
         /\ other[m] = AScan(soi, inside, found)
  <2>1. Sound(other, cut, m)
    BY <1>2, <1>3, ScansAreSound
  <2> QED
    BY <2>1 DEF Sound
<1>5. ScanContent(cut) = AScan(soi, inside, found)
  BY <1>2, <1>3, <1>4 DEF IsScan
<1>6. IsValid(found)
  BY <1>5 DEF FirstImage, AScan, IsValid, InvalidRange, NewRange
<1>7. scan[m] = AScan(soi, inside, found)
  <2>1. \A k \in Nat : k <= Len(cut) => scan[k] = other[k]
    <3>1. Len(cut) <= Len(content) /\ \A k \in 1 .. Len(cut) : cut[k] = content[k]
      BY DEF IsPart
    <3> QED
      BY <1>1, <1>2, <3>1, ScansAgree
  <2> QED
    BY <1>3, <1>4, <2>1
<1>8. scan[n] = AScan(soi, inside, found)
  <2>1. \A k \in Nat : m <= k /\ k <= Len(content) => scan[k] = AScan(soi, inside, found)
    BY <1>1, <1>4, <1>6, <1>7, ScanStays
  <2> QED
    BY <1>3, <2>1
<1>9. ScanContent(content) = ScanContent(cut)
  BY <1>1, <1>3, <1>5, <1>8 DEF IsScan
<1> QED
  BY <1>9 DEF FirstImage

\* A content that begins with the first image of another one has that image first.
LEMMA FirstImageAgain ==
    ASSUME NEW content \in Seq(Symbols), NEW b \in Nat, NEW e \in Nat, b < e,
           FirstImage(content) = NewRange(b, e),
           NEW copy \in Seq(Symbols), e - b <= Len(copy),
           \A k \in 1 .. e - b : copy[k] = content[b + k]
    PROVE  FirstImage(copy) = NewRange(0, e - b)
<1>1. PICK scan : IsScan(scan, content)
  BY ScanExists
<1>2. PICK other : IsScan(other, copy)
  BY ScanExists
<1>3. Found(scan, content, b, e) /\ e <= Len(content) /\ Len(content) \in Nat
  <2>1. PICK c \in Nat, f \in Nat : /\ f <= Len(content) /\ NewRange(b, e) = NewRange(c, f)
                                    /\ Found(scan, content, c, f)
    <3>1. FirstImage(content) # InvalidRange
      BY DEF InvalidRange, NewRange
    <3> QED
      BY <1>1, <3>1, FirstImageIsFound
  <2>2. b = c /\ e = f
    BY <2>1 DEF NewRange
  <2> QED
    BY <2>1, <2>2, LenProperties
<1>4. /\ b + 1 < e
      /\ content[e] = "EOI" /\ content[b + 1] = "SOI"
      /\ ~scan[e - 1].inside /\ ~scan[b + 1].inside
      /\ \A k \in b + 1 .. e - 1 : scan[k].soi = NewRange(b, b + 1)
      /\ \A k \in 0 .. e - 1 : scan[k].image = InvalidRange
  BY <1>3 DEF Found, SoiAt, NoneUpTo
<1>5. PICK length \in Nat : /\ length = e - b /\ length <= Len(copy) /\ 1 < length
                            /\ b + length = e /\ length \in 1 .. e - b
  <2>1. PICK l \in Nat : l = e - b /\ b + l = e
    OBVIOUS
  <2>2. 1 < l /\ l <= Len(copy)
    BY <1>4, <2>1
  <2>3. l \in 1 .. l
    BY <2>2
  <2> QED
    BY <2>1, <2>2, <2>3
<1>l. Len(copy) \in Nat
  BY LenProperties
<1>n. ~IsValid(InvalidRange)
  BY DEF IsValid, InvalidRange, NewRange
<1> PICK T : T = {n \in Nat : n + 1 < length =>
                     \E inside \in BOOLEAN :
                        /\ scan[b + (n + 1)] = AScan(NewRange(b, b + 1), inside, InvalidRange)
                        /\ other[n + 1] = AScan(NewRange(0, 1), inside, InvalidRange)}
  OBVIOUS
<1>p. \A n \in Nat : n <= Len(content) =>
         \E soi, found : \E inside \in BOOLEAN : scan[n] = AScan(soi, inside, found)
  <2> TAKE n \in Nat
  <2> HAVE n <= Len(content)
  <2>1. Sound(scan, content, n)
    BY <1>1, ScansAreSound
  <2> QED
    BY <2>1 DEF Sound
<1>f. PICK no \in BOOLEAN : no = FALSE
  OBVIOUS
<1>g. no \in BOOLEAN
  OBVIOUS
<1>r. ASSUME NEW k \in b + 1 .. e - 1
      PROVE  \E inside \in BOOLEAN :
                scan[k] = AScan(NewRange(b, b + 1), inside, InvalidRange)
  <2>1. PICK soi, found, inside : inside \in BOOLEAN /\ scan[k] = AScan(soi, inside, found)
    <3>1. k \in Nat /\ k <= Len(content)
      BY <1>3
    <3> QED
      BY <1>p, <3>1
  <2>2. scan[k].soi = NewRange(b, b + 1) /\ scan[k].image = InvalidRange
    BY <1>4
  <2>3. soi = NewRange(b, b + 1) /\ found = InvalidRange
    BY <2>1, <2>2 DEF AScan
  <2> QED
    BY <2>1, <2>3
<1>6. 0 \in T
  <2>1. scan[b + 1] = AScan(NewRange(b, b + 1), no, InvalidRange)
    <3>1. b + 1 \in b + 1 .. e - 1
      BY <1>4
    <3>2. PICK inside \in BOOLEAN :
             scan[b + 1] = AScan(NewRange(b, b + 1), inside, InvalidRange)
      BY <1>r, <3>1
    <3>3. inside = scan[b + 1].inside
      BY <3>2 DEF AScan
    <3> QED
      BY <1>4, <1>f, <3>2, <3>3
  <2>2. other[1] = AScan(NewRange(0, 1), no, InvalidRange)
    <3>1. copy[1] = "SOI"
      <4>1. 1 \in 1 .. e - b
        BY <1>4
      <4> QED
        BY <1>4, <4>1
    <3>2. other[0] = AScan(InvalidRange, no, InvalidRange)
      BY <1>2, <1>f DEF IsScan, NoScan
    <3>3. other[0 + 1] = ScanSymbol(other[0], copy[0 + 1], 0)
      BY <1>2, <1>5, <1>l DEF IsScan
    <3>4. other[1] = ScanSymbol(AScan(InvalidRange, no, InvalidRange), "SOI", 0)
      <4>1. 0 + 1 = 1
        OBVIOUS
      <4> QED
        BY <3>1, <3>2, <3>3, <4>1, Zenon
    <3>5. ScanGoesOn(other[1], InvalidRange, no, InvalidRange, "SOI", 0)
      BY <1>g, <3>4, ScanCases
    <3>6. other[1] = AScan(NewRange(0, 0 + 1), no, InvalidRange)
      BY <1>f, <1>n, <3>5 DEF ScanGoesOn
    <3> QED
      BY <3>6
  <2>3. b + (0 + 1) = b + 1 /\ 0 + 1 = 1
    OBVIOUS
  <2> QED
    BY <2>1, <2>2, <2>3
<1>7. ASSUME NEW n \in Nat, n \in T, (n + 1) + 1 < length
      PROVE  n + 1 \in T
  <2>1. PICK inside \in BOOLEAN :
           /\ scan[b + (n + 1)] = AScan(NewRange(b, b + 1), inside, InvalidRange)
           /\ other[n + 1] = AScan(NewRange(0, 1), inside, InvalidRange)
    BY <1>5, <1>7
  <2>2. PICK l \in Nat, m \in Nat :
           /\ l = n + 1 /\ m = b + l
           /\ l < Len(copy) /\ m < Len(content) /\ m + 1 \in b + 1 .. e - 1 /\ b < m
           /\ l + 1 \in 1 .. e - b /\ b + (l + 1) = m + 1
    BY <1>3, <1>5, <1>7, <1>l
  <2>3. copy[l + 1] = content[m + 1]
    BY <2>2
  <2>4. PICK next \in BOOLEAN :
           scan[m + 1] = AScan(NewRange(b, b + 1), next, InvalidRange)
    BY <1>r, <2>2
  <2>5. ScanGoesOn(scan[m + 1], NewRange(b, b + 1), inside, InvalidRange, content[m + 1], m)
    <3>1. scan[m + 1] = ScanSymbol(AScan(NewRange(b, b + 1), inside, InvalidRange),
                                   content[m + 1], m)
      BY <1>1, <2>1, <2>2 DEF IsScan
    <3>2. ScanGoesOn(ScanSymbol(AScan(NewRange(b, b + 1), inside, InvalidRange),
                                content[m + 1], m),
                     NewRange(b, b + 1), inside, InvalidRange, content[m + 1], m)
      BY ScanCases
    <3> QED
      BY <3>1, <3>2, Zenon
  <2>6. ScanGoesOn(other[l + 1], NewRange(0, 1), inside, InvalidRange, content[m + 1], l)
    <3>1. other[l + 1] = ScanSymbol(AScan(NewRange(0, 1), inside, InvalidRange),
                                    content[m + 1], l)
      BY <1>2, <2>1, <2>2, <2>3 DEF IsScan
    <3>2. ScanGoesOn(ScanSymbol(AScan(NewRange(0, 1), inside, InvalidRange),
                                content[m + 1], l),
                     NewRange(0, 1), inside, InvalidRange, content[m + 1], l)
      BY ScanCases
    <3> QED
      BY <3>1, <3>2, Zenon
  <2>7. \A s, i, f : scan[m + 1] = AScan(s, i, f) =>
            s = NewRange(b, b + 1) /\ i = next /\ f = InvalidRange
    BY <2>4 DEF AScan
  <2>8. other[l + 1] = AScan(NewRange(0, 1), next, InvalidRange)
    <3>1. IsValid(NewRange(0, 1)) /\ IsValid(NewRange(b, b + 1))
      BY DEF IsValid, NewRange
    <3>2. CASE inside
      <4>1. /\ scan[m + 1] = AScan(NewRange(b, b + 1), no, InvalidRange)
            /\ other[l + 1] = AScan(NewRange(0, 1), no, InvalidRange)
        BY <1>f, <1>n, <2>5, <2>6, <3>2 DEF ScanGoesOn
      <4> QED
        BY <2>7, <4>1, Zenon
    <3>3. CASE ~inside /\ content[m + 1] = "APP"
      <4>1. /\ scan[m + 1] = AScan(NewRange(b, b + 1), TRUE, InvalidRange)
            /\ other[l + 1] = AScan(NewRange(0, 1), TRUE, InvalidRange)
        BY <1>n, <2>5, <2>6, <3>3 DEF ScanGoesOn
      <4>2. next = TRUE
        BY <2>4, <4>1 DEF AScan
      <4> QED
        BY <4>1, <4>2
    <3>4. ~(~inside /\ content[m + 1] = "SOI")
      <4> SUFFICES ASSUME ~inside, content[m + 1] = "SOI"
                   PROVE  FALSE
        OBVIOUS
      <4>1. scan[m + 1] = AScan(NewRange(m, m + 1), inside, InvalidRange)
        BY <1>n, <2>5 DEF ScanGoesOn
      <4>2. NewRange(m, m + 1) = NewRange(b, b + 1)
        BY <2>7, <4>1, Zenon
      <4> QED
        BY <2>2, <4>2 DEF NewRange
    <3>5. ~(~inside /\ content[m + 1] = "EOI")
      <4> SUFFICES ASSUME ~inside, content[m + 1] = "EOI"
                   PROVE  FALSE
        OBVIOUS
      <4>1. scan[m + 1] = AScan(NewRange(b, b + 1), inside,
                                NewRange(NewRange(b, b + 1).begin, m + 1))
        BY <1>n, <2>5, <3>1 DEF ScanGoesOn
      <4>2. NewRange(NewRange(b, b + 1).begin, m + 1) = InvalidRange
        BY <2>4, <4>1 DEF AScan
      <4> QED
        BY <2>2, <4>2 DEF NewRange, InvalidRange
    <3>6. CASE /\ ~inside /\ content[m + 1] # "SOI" /\ content[m + 1] # "APP"
               /\ content[m + 1] # "EOI"
      <4>1. /\ scan[m + 1] = AScan(NewRange(b, b + 1), inside, InvalidRange)
            /\ other[l + 1] = AScan(NewRange(0, 1), inside, InvalidRange)
        BY <1>n, <2>5, <2>6, <3>6 DEF ScanGoesOn
      <4> QED
        BY <2>7, <4>1, Zenon
    <3> QED
      BY <3>2, <3>3, <3>4, <3>5, <3>6
  <2> QED
    BY <2>2, <2>4, <2>8
<1>8. ASSUME NEW n \in Nat, n \in T
      PROVE  n + 1 \in T
  <2>1. CASE (n + 1) + 1 < length
    BY <1>7, <1>8, <2>1
  <2>2. CASE ~((n + 1) + 1 < length)
    BY <2>2
  <2> QED
    BY <2>1, <2>2
<1>9. \A n \in Nat : n \in T
  BY <1>6, <1>8, Scan!NatSetInduction
<1>10. other[length] = AScan(NewRange(0, 1), no, NewRange(0, length))
  <2>1. PICK n \in Nat : n + 2 = length /\ n + 1 < length
    BY <1>5
  <2>2. PICK inside \in BOOLEAN :
           /\ scan[b + (n + 1)] = AScan(NewRange(b, b + 1), inside, InvalidRange)
           /\ other[n + 1] = AScan(NewRange(0, 1), inside, InvalidRange)
    BY <1>9, <2>1
  <2>3. b + (n + 1) = e - 1 /\ (n + 1) + 1 = length /\ n + 1 < Len(copy)
    BY <1>5, <1>l, <2>1
  <2>4. inside = no
    <3>1. inside = scan[e - 1].inside
      <4>1. scan[e - 1] = AScan(NewRange(b, b + 1), inside, InvalidRange)
        BY <2>2, <2>3
      <4> QED
        BY <4>1 DEF AScan
    <3> QED
      BY <1>4, <1>f, <3>1
  <2>5. copy[length] = "EOI"
    BY <1>4, <1>5
  <2>6. other[length] = ScanSymbol(AScan(NewRange(0, 1), no, InvalidRange), "EOI", n + 1)
    <3>1. other[(n + 1) + 1] = ScanSymbol(other[n + 1], copy[(n + 1) + 1], n + 1)
      BY <1>2, <2>3 DEF IsScan
    <3> QED
      BY <2>2, <2>3, <2>4, <2>5, <3>1, Zenon
  <2>7. ScanGoesOn(other[length], NewRange(0, 1), no, InvalidRange, "EOI", n + 1)
    <3>1. ScanGoesOn(ScanSymbol(AScan(NewRange(0, 1), no, InvalidRange), "EOI", n + 1),
                     NewRange(0, 1), no, InvalidRange, "EOI", n + 1)
      BY <1>g, ScanCases
    <3> QED
      BY <2>6, <3>1, Zenon
  <2>8. IsValid(NewRange(0, 1)) /\ NewRange(0, 1).begin = 0
    BY DEF IsValid, NewRange
  <2>9. other[length] = AScan(NewRange(0, 1), no,
                              NewRange(NewRange(0, 1).begin, (n + 1) + 1))
    BY <1>f, <1>n, <2>7, <2>8 DEF ScanGoesOn
  <2>10. NewRange(NewRange(0, 1).begin, (n + 1) + 1) = NewRange(0, length)
    BY <2>3, <2>8, Zenon
  <2> QED
    BY <2>9, <2>10
<1>11. other[Len(copy)] = AScan(NewRange(0, 1), no, NewRange(0, length))
  <2>1. IsValid(NewRange(0, length))
    BY <1>5 DEF IsValid, NewRange
  <2>2. \A n \in Nat : length <= n /\ n <= Len(copy) =>
            other[n] = AScan(NewRange(0, 1), no, NewRange(0, length))
    BY <1>2, <1>5, <1>10, <1>g, <2>1, ScanStays
  <2>3. length <= Len(copy) /\ Len(copy) <= Len(copy)
    BY <1>5, <1>l
  <2> QED
    BY <1>l, <2>2, <2>3, Zenon
<1>12. ScanContent(copy) = AScan(NewRange(0, 1), no, NewRange(0, length))
  BY <1>2, <1>11 DEF IsScan
<1> QED
  BY <1>5, <1>12, <1>f DEF FirstImage, AScan

-----------------------------------------------------------------------------
(***************************************************************************)
(* Parsing.                                                                *)
(***************************************************************************)
LEMMA ModulusType == SizeModulus \in Nat
  BY Zenon, GContainerAssumption

LEMMA NothingWraps ==
    ASSUME NEW x \in Nat, x < SizeModulus
    PROVE  x % SizeModulus = x
<1>1. \A m \in Nat : x < m => x % m = x
  OBVIOUS
<1> QED
  BY <1>1, ModulusType

\* The first image lies in the file.
LEMMA FirstImageType ==
    ASSUME NEW content \in Seq(Symbols)
    PROVE  /\ FirstImage(content) \in DataRange
           /\ FirstImage(content).end <= Len(content)
           /\ \/ FirstImage(content) = InvalidRange
              \/ IsValid(FirstImage(content))
<1>1. PICK scan : IsScan(scan, content)
  BY ScanExists
<1>2. Len(content) \in Nat
  BY LenProperties
<1>3. CASE FirstImage(content) = InvalidRange
  BY <1>2, <1>3 DEF InvalidRange, NewRange, DataRange
<1>4. CASE FirstImage(content) # InvalidRange
  <2>1. PICK b \in Nat, e \in Nat :
           /\ e <= Len(content) /\ FirstImage(content) = NewRange(b, e) /\ b + 1 < e
    BY <1>1, <1>4, FirstImageIsFound DEF Found
  <2> QED
    BY <2>1 DEF NewRange, DataRange, IsValid
<1> QED
  BY <1>3, <1>4

\* What a call gives for a file: exactly the bytes asked for.
IsExact(content, start_offset, length, out, parsed) ==
    /\ IsThere(content, start_offset, length) /\ length > 0 =>
          /\ parsed.result
          /\ parsed.out = Requested(content, start_offset, length)
    /\ parsed.result /\ ~IsThere(content, start_offset, length) =>
          FirstImage(content).end + start_offset + length >= SizeModulus
    /\ ~parsed.result => parsed.out = out

LEMMA ParsedExactly ==
    ASSUME NEW content \in Seq(Symbols), Len(content) < SizeModulus,
           NEW start_offset \in Nat, NEW length \in Nat, NEW out
    PROVE  IsExact(content, start_offset, length, out,
                   ParseFromStream(content, TRUE, start_offset, length, out))
<1>1. PICK size_in \in Nat : size_in = Len(content) /\ size_in < SizeModulus
  BY LenProperties
<1>2. PICK end \in Nat : end = FirstImage(content).end /\ end <= size_in
  BY <1>1, FirstImageType DEF DataRange
<1>3. PICK start : start = FileStart(content, start_offset)
  OBVIOUS
<1>4. PICK range : range = NewRange(start, (start + length) % SizeModulus)
  OBVIOUS
<1>5. PICK parsed : parsed = ParseFromStream(content, TRUE, start_offset, length, out)
  OBVIOUS
<1>6. /\ parsed.result <=> /\ length # 0
                           /\ IsValid(FirstImage(content))
                           /\ size_in >= range.end
      /\ parsed.result => parsed.out = ReadRange(content, range, out)
      /\ ~parsed.result => parsed.out = out
  BY <1>1, <1>3, <1>4, <1>5 DEF ParseFromStream, EndsInStream, StreamSize
<1>7. content # Absent
  BY GContainerAssumption
<1>8. ASSUME end + start_offset + length < SizeModulus
      PROVE  range = NewRange(end + start_offset, end + start_offset + length)
  <2>1. PICK a \in Nat, z \in Nat :
           a = end + start_offset /\ z = a + length /\ a < SizeModulus /\ z < SizeModulus
    BY <1>8, ModulusType
  <2>2. start = a
    BY <1>2, <1>3, <2>1, NothingWraps DEF FileStart
  <2>3. (start + length) % SizeModulus = z
    BY <2>1, <2>2, NothingWraps
  <2> QED
    BY <1>4, <2>1, <2>2, <2>3
<1>9. ASSUME IsThere(content, start_offset, length), length > 0
      PROVE  parsed.result /\ parsed.out = Requested(content, start_offset, length)
  <2>1. /\ IsValid(FirstImage(content)) /\ end + start_offset + length <= size_in
        /\ end + start_offset + length < SizeModulus
    BY <1>1, <1>2, <1>9, ModulusType DEF IsThere
  <2>2. PICK a \in Nat : a = end + start_offset /\ a + length <= size_in
    BY <2>1
  <2>3. range = NewRange(a, a + length)
    BY <1>8, <2>1, <2>2
  <2>4. /\ range.begin = a /\ range.end = a + length
        /\ Length(range) = length
    BY <1>9, <2>3 DEF NewRange, Length, IsValid
  <2>5. parsed.result
    BY <1>6, <1>9, <2>1, <2>2, <2>4
  <2>6. ReadRange(content, range, out) = [n \in 1 .. length |-> content[a + n]]
    <3>1. \A n \in 1 .. length : a + n <= Len(content)
      BY <1>1, <2>2
    <3> QED
      BY <2>4, <3>1 DEF ReadRange
  <2>7. Requested(content, start_offset, length) = [n \in 1 .. length |-> content[a + n]]
    <3>1. Requested(content, start_offset, length) = SubSeq(content, a + 1, a + length)
      BY <1>2, <2>2 DEF Requested
    <3>2. PICK r : r = SubSeq(content, a + 1, a + length)
      OBVIOUS
    <3>3. /\ r = [n \in 1 .. Len(r) |-> r[n]] /\ Len(r) = length
          /\ \A n \in 1 .. length : r[n] = content[a + n]
      <4>1. \A i \in a + 1 .. a + length : content[i] \in Symbols
        BY <1>1, <2>2, ElementOfSeq
      <4>2. /\ r \in Seq(Symbols)
            /\ Len(r) = (IF a + 1 <= a + length THEN (a + length) - (a + 1) + 1 ELSE 0)
            /\ \A i \in 1 .. (a + length) - (a + 1) + 1 : r[i] = content[(a + 1) + i - 1]
        BY <3>2, <4>1, SubSeqProperties
      <4>3. Len(r) = length /\ \A n \in 1 .. length : r[n] = content[a + n]
        <5>1. a + 1 <= a + length /\ (a + length) - (a + 1) + 1 = length
          BY <1>9
        <5>2. \A n \in 1 .. length : (a + 1) + n - 1 = a + n
          OBVIOUS
        <5> QED
          BY <4>2, <5>1, <5>2
      <4>4. r = [n \in 1 .. Len(r) |-> r[n]]
        BY <4>2, LenProperties
      <4> QED
        BY <4>3, <4>4
    <3> QED
      BY <3>1, <3>2, <3>3
  <2> QED
    BY <1>6, <2>5, <2>6, <2>7
<1>10. ASSUME parsed.result, ~IsThere(content, start_offset, length)
       PROVE  end + start_offset + length >= SizeModulus
  <2> SUFFICES ASSUME end + start_offset + length < SizeModulus
               PROVE  FALSE
    BY ModulusType
  <2>1. range.end = end + start_offset + length
    BY <1>8 DEF NewRange
  <2> QED
    BY <1>1, <1>2, <1>6, <1>7, <1>10, <2>1 DEF IsThere
<1>11. IsExact(content, start_offset, length, out, parsed)
  BY <1>2, <1>6, <1>9, <1>10 DEF IsExact
<1> QED
  BY <1>5, <1>11

-----------------------------------------------------------------------------
(***************************************************************************)
(* The inductive invariant.                                                *)
(***************************************************************************)
Files == {content \in Seq(Symbols) : Len(content) < SizeModulus}

Types ==
    /\ files \in [Names -> Files \cup {Absent}]
    /\ original \in [Names -> Files \cup {Absent}] /\ original["in"] \in Files
    /\ output \in {"in", "out"} /\ others \in Seq(Inputs \cup {""}) /\ others \in OtherFiles
    /\ pc \in {"output", "scan", "image", "files", "read", "done", "crashed"}
    /\ image \in DataRange
    /\ dest \in OStreams(Symbols) /\ Len(dest.written) + dest.room < SizeModulus
    /\ size \in Nat /\ expected \in Nat
    /\ appended \in Seq(Seq(Symbols)) /\ Len(appended) <= Len(others)
    /\ written \in BOOLEAN /\ held_back \in BOOLEAN
    /\ changes \in 0 .. MaxChanges

\* Only errors are reported, and all messages are kept.
AreErrors(reports) ==
    /\ reports.stats \in [MessageTypes -> Nat]
    /\ reports.messages \in Seq(MessageTypes)
    /\ Len(reports.messages) = reports.stats["error"]

Messages == AreErrors(handler)

\* What others can make of a file with so many changes.
CutFrom(content, whole, n) ==
    /\ content # Absent => /\ whole # Absent
                           /\ IsPart(content, whole)
                           /\ Len(whole) <= Len(content) + n
    /\ n = 0 => content = whole

Cuts ==
    \A name \in Inputs : name # output \/ pc = "output" =>
        CutFrom(files[name], original[name], changes)

Empty(ostream) ==
    ostream.written = <<>> /\ ostream.bytes_transferred = 0 /\ ~ostream.has_error

Started ==
    /\ pc \in {"output", "scan", "image"} => Empty(dest) /\ appended = <<>>
    /\ pc = "scan" /\ output = "in" => files["in"] = <<>>
    /\ pc # "done" => ~written

ImageFound ==
    pc \in {"image", "files", "read"} =>
        /\ output = "out"
        /\ IsValid(image) /\ image = FirstImage(original["in"])

IsShort(content, whole) == content = Absent \/ Len(content) < Len(whole)

\* What is in the ostream, or why it is not.
Copied ==
    pc \in {"files", "read"} =>
        /\ expected = Length(image) + Len(FlattenSeq(appended))
        /\ dest.has_error => HasErrorMessages(handler)
        /\ ~dest.has_error =>
              \/ /\ dest.bytes_transferred = expected
                 /\ dest.written = ImageBytes(original["in"]) \o FlattenSeq(appended)
              \/ /\ dest.bytes_transferred < expected
                 /\ IsShort(files["in"], original["in"])

\* What was appended of a file.
IsAppended(part, name, whole, n) ==
    IF name = "" \/ whole = Absent THEN part = <<>>
    ELSE IsPrefix(part, whole) /\ (n = 0 => part = whole)

\* A file that is not there has left an error behind, or was cut to nothing.
IsAccountedFor(part, name, whole, n) ==
    name = "" \/ (whole # Absent /\ (part # <<>> \/ Len(whole) <= n))

Whole(name) == IF name = "" THEN Absent ELSE original[name]

Appended ==
    pc \in {"files", "read"} =>
        \A n \in 1 .. Len(appended) :
           /\ IsAppended(appended[n], others[n], Whole(others[n]), changes)
           /\ \/ HasErrorMessages(handler)
              \/ IsAccountedFor(appended[n], others[n], Whole(others[n]), changes)

\* The size of the file to be read is the one it had, or still has.
Reading ==
    pc = "read" =>
        /\ Len(appended) < Len(others) /\ NextFile # ""
        /\ original[NextFile] # Absent
        /\ size <= Len(original[NextFile]) /\ Len(original[NextFile]) <= size + changes
        /\ files[NextFile] # Absent => Len(files[NextFile]) <= size

Finished == WrittenIsImageAndFiles /\ WhatIsMissingIsReported /\ AppendedFilesAreFound

Parsed ==
    /\ parse = NoParse \/ (parse.called /\ pc = "done")
    /\ ParseIsExact

IInv ==
    /\ Types /\ Messages
    /\ Cuts /\ Started /\ ImageFound /\ Copied /\ Appended /\ Reading
    /\ Finished /\ Parsed

-----------------------------------------------------------------------------
(***************************************************************************)
(* What is sent to the output.                                             *)
(***************************************************************************)
LEMMA SameFlattenSeq == \A seqs : FlattenSeq(seqs) = Scan!FlattenSeq(seqs)
  BY DEF FlattenSeq, Scan!FlattenSeq

LEMMA Flattened ==
    ASSUME NEW S
    PROVE  /\ FlattenSeq(<<>>) = <<>>
           /\ \A s \in Seq(Seq(S)) : FlattenSeq(s) \in Seq(S)
           /\ \A s \in Seq(Seq(S)), t \in Seq(S) :
                 FlattenSeq(Append(s, t)) = FlattenSeq(s) \o t
           /\ \A s, t \in Seq(Seq(S)) :
                 FlattenSeq(s \o t) = FlattenSeq(s) \o FlattenSeq(t)
<1>1. FlattenSeq(<<>>) = <<>>
  BY SameFlattenSeq, Scan!FlattenNone
<1>2. ASSUME NEW s \in Seq(Seq(S))
      PROVE  FlattenSeq(s) \in Seq(S)
  BY SameFlattenSeq, Scan!FlattenType
<1>3. ASSUME NEW s \in Seq(Seq(S)), NEW t \in Seq(S)
      PROVE  FlattenSeq(Append(s, t)) = FlattenSeq(s) \o t
  BY SameFlattenSeq, Scan!FlattenNext
<1>4. ASSUME NEW s \in Seq(Seq(S)), NEW t \in Seq(Seq(S))
      PROVE  FlattenSeq(s \o t) = FlattenSeq(s) \o FlattenSeq(t)
  BY SameFlattenSeq, Scan!FlattenConcat
<1> QED
  BY <1>1, <1>2, <1>3, <1>4

\* SubSeq of a sequence, with the places counted from the first.
LEMMA PartOfSeq ==
    ASSUME NEW S, NEW seq \in Seq(S), NEW b \in Nat, NEW e \in Nat, b <= e, e <= Len(seq)
    PROVE  /\ SubSeq(seq, b + 1, e) \in Seq(S)
           /\ Len(SubSeq(seq, b + 1, e)) = e - b
           /\ \A k \in 1 .. e - b : SubSeq(seq, b + 1, e)[k] = seq[b + k]
<1>1. \A i \in b + 1 .. e : seq[i] \in S
  BY LenProperties, ElementOfSeq
<1>2. /\ SubSeq(seq, b + 1, e) \in Seq(S)
      /\ Len(SubSeq(seq, b + 1, e)) = (IF b + 1 <= e THEN e - (b + 1) + 1 ELSE 0)
      /\ \A k \in 1 .. e - (b + 1) + 1 : SubSeq(seq, b + 1, e)[k] = seq[(b + 1) + k - 1]
  BY <1>1, SubSeqProperties
<1>3. PICK l \in Nat : l = e - b
  OBVIOUS
<1>4. /\ (IF b + 1 <= e THEN e - (b + 1) + 1 ELSE 0) = l
      /\ e - (b + 1) + 1 = l
      /\ \A k \in 1 .. l : (b + 1) + k - 1 = b + k
  BY <1>3
<1> QED
  BY <1>2, <1>3, <1>4

LEMMA BytesArePieces ==
    ASSUME NEW S, NEW seq \in Seq(S), NEW b \in Nat, NEW e \in Nat, b <= e, e <= Len(seq)
    PROVE  /\ Bytes(seq) \in Contents(Len(seq), S)
           /\ Piece(Bytes(seq), b, e) = SubSeq(seq, b + 1, e)
<1>1. PICK length \in Nat : length = Len(seq)
  BY LenProperties
<1>2. Bytes(seq) \in Contents(Len(seq), S)
  <2>1. \A l \in 0 .. length - 1 : seq[l + 1] \in S
    BY <1>1, ElementOfSeq
  <2> QED
    BY <1>1, <2>1 DEF Bytes, Contents
<1>3. PICK m \in Nat : m = e - b
  OBVIOUS
<1>4. PICK s : s = SubSeq(seq, b + 1, e)
  OBVIOUS
<1>5. s \in Seq(S) /\ Len(s) = m /\ \A k \in 1 .. m : s[k] = seq[b + k]
  BY <1>3, <1>4, PartOfSeq
<1>6. s = [k \in 1 .. m |-> seq[b + k]]
  <2>1. s = [k \in 1 .. Len(s) |-> s[k]]
    BY <1>5, LenProperties
  <2> QED
    BY <1>5, <2>1
<1>7. Piece(Bytes(seq), b, e) = [k \in 1 .. m |-> seq[b + k]]
  <2>1. ASSUME NEW k \in 1 .. m
        PROVE  Bytes(seq)[b + k - 1] = seq[b + k]
    <3>1. PICK l \in 0 .. Len(seq) - 1 : l = b + k - 1 /\ l + 1 = b + k
      BY <1>1, <1>3
    <3> QED
      BY <3>1 DEF Bytes
  <2> QED
    BY <1>3, <2>1 DEF Piece
<1> QED
  BY <1>2, <1>4, <1>6, <1>7

\* What comes of the transfer of some bytes: they are written, or the ostream has failed,
\* of which an error tells.
IsSent(ostream, bytes, outcome) ==
    /\ outcome.dest \in OStreams(Symbols)
    /\ Len(outcome.dest.written) + outcome.dest.room < SizeModulus
    /\ outcome.dest.has_error <=> ostream.has_error \/ outcome.result = "error"
    /\ ~outcome.dest.has_error =>
          /\ outcome.dest.written = ostream.written \o bytes
          /\ outcome.dest.bytes_transferred = ostream.bytes_transferred + Len(bytes)

LEMMA TransferredIsSent ==
    ASSUME NEW end \in Nat, NEW content \in Contents(end, Symbols),
           NEW b \in Nat, NEW upto \in Nat, b <= upto, upto <= end \/ upto = b,
           NEW source, NEW outcome,
           NEW ostream \in OStreams(Symbols), ~ostream.has_error,
           Len(ostream.written) + ostream.room < SizeModulus,
           Transferred(Symbols, content, b, upto, source, ostream, outcome)
    PROVE  IsSent(ostream, Piece(content, b, upto), outcome)
<1>1. PICK w \in Nat, r \in Nat, t \in Nat :
         w = Len(ostream.written) /\ r = ostream.room /\ t = ostream.bytes_transferred
  <2>1. ostream.written \in Seq(Symbols) /\ ostream.room \in Nat
        /\ ostream.bytes_transferred \in Nat
    BY DEF OStreams
  <2> QED
    BY <2>1, LenProperties
<1>2. /\ outcome.dest \in OStreams(Symbols)
      /\ outcome.dest.has_error <=> outcome.result = "error"
  BY DEF Transferred
<1>3. CASE outcome.dest.has_error
  <2>1. IsFull(ostream, outcome.dest)
    BY <1>3 DEF Transferred
  <2>2. Len(outcome.dest.written) + outcome.dest.room < SizeModulus
    BY <1>1, <2>1 DEF IsFull
  <2> QED
    BY <1>2, <1>3, <2>2 DEF IsSent
<1>4. CASE ~outcome.dest.has_error
  <2>1. PICK p : p = Piece(content, b, upto)
    OBVIOUS
  <2>2. p \in Seq(Symbols) /\ Len(p) = upto - b
    <3>1. CASE upto <= end
      <4>1. upto \in 0 .. end /\ b \in 0 .. upto
        BY <3>1
      <4> QED
        BY <2>1, <4>1, PieceType
    <3>2. CASE upto = b
      <4>1. p = <<>> /\ upto - b = 0
        BY <2>1, <3>2, EmptyPiece
      <4> QED
        BY <4>1, EmptySeq
    <3> QED
      BY <3>1, <3>2
  <2>3. outcome.dest = Wrote(ostream, p) /\ upto - b <= ostream.room
    BY <1>4, <2>1 DEF Transferred
  <2>4. /\ outcome.dest.written = ostream.written \o p
        /\ outcome.dest.room = ostream.room - Len(p)
        /\ outcome.dest.bytes_transferred = ostream.bytes_transferred + Len(p)
    BY <2>2, <2>3, WroteType
  <2>5. Len(outcome.dest.written) = w + Len(p)
    <3>1. ostream.written \in Seq(Symbols)
      BY DEF OStreams
    <3> QED
      BY <1>1, <2>2, <2>4, <3>1, ConcatProperties
  <2>6. Len(outcome.dest.written) + outcome.dest.room < SizeModulus
    <3>1. PICK l \in Nat : l = Len(p)
      BY <2>2
    <3>2. (w + l) + (r - l) = w + r
      OBVIOUS
    <3> QED
      BY <1>1, <2>4, <2>5, <3>1, <3>2
  <2> QED
    BY <1>2, <1>4, <2>1, <2>4, <2>6 DEF IsSent
<1> QED
  BY <1>3, <1>4

\* Some bytes that are in memory.
LEMMA PartIsSent ==
    ASSUME NEW part \in Seq(Symbols), NEW ostream \in OStreams(Symbols),
           Len(ostream.written) + ostream.room < SizeModulus
    PROVE  IsSent(ostream, part,
                  TransferData(NewInMemory(NewRange(0, Len(part))), Bytes(part),
                               NewRange(0, Len(part)), ostream))
<1>1. PICK length \in Nat : length = Len(part)
  BY LenProperties
<1>2. PICK source : source = NewInMemory(NewRange(0, length))
  OBVIOUS
<1>3. PICK range : range = NewRange(0, length)
  OBVIOUS
<1>4. PICK outcome : outcome = TransferData(source, Bytes(part), range, ostream)
  OBVIOUS
<1>5. /\ source.kind = "memory" /\ source.extent = range /\ source.open
      /\ source.cached = NoSegment
      /\ range.begin = 0 /\ range.end = length
      /\ source \in DataSource /\ range \in DataRange
  BY <1>2, <1>3 DEF NewInMemory, NewRange, DataSource, DataRange, DataSegment
<1>6. Bytes(part) \in Contents(length, Symbols) /\ Piece(Bytes(part), 0, length) = part
  <2>0. 0 \in Nat /\ 0 <= length /\ length <= Len(part)
    BY <1>1
  <2>1. /\ Bytes(part) \in Contents(length, Symbols)
        /\ Piece(Bytes(part), 0, length) = SubSeq(part, 0 + 1, length)
    BY <1>1, <2>0, BytesArePieces, Zenon
  <2>2. SubSeq(part, 1, length) = part
    <3>1. PICK s : s = SubSeq(part, 0 + 1, length)
      OBVIOUS
    <3>2. s \in Seq(Symbols) /\ Len(s) = length /\ \A k \in 1 .. length : s[k] = part[k]
      <4>1. /\ s \in Seq(Symbols) /\ Len(s) = length - 0
            /\ \A k \in 1 .. length - 0 : s[k] = part[0 + k]
        BY <1>1, <3>1, PartOfSeq
      <4> QED
        BY <4>1
    <3>3. s = part
      BY <1>1, <3>2, SeqEqual
    <3> QED
      BY <3>1, <3>3
  <2> QED
    BY <2>1, <2>2
<1>7. CASE ~ostream.has_error
  <2>1. HasContent(Symbols, length, Bytes(part), source, range)
    BY <1>5, <1>6 DEF HasContent
  <2>2. Available(source, range) = length
    BY <1>5 DEF Available, ReadsUpTo, Larger, Smaller
  <2>3. Transferred(Symbols, Bytes(part), range.begin, Available(source, range), source,
                    ostream, outcome)
    BY <1>4, <1>7, <2>1, TransferOutcome, Zenon
  <2>4. Transferred(Symbols, Bytes(part), 0, length, source, ostream, outcome)
    BY <1>5, <2>2, <2>3
  <2>5. 0 <= length /\ length <= length
    OBVIOUS
  <2>6. IsSent(ostream, Piece(Bytes(part), 0, length), outcome)
    BY <1>6, <1>7, <2>4, <2>5, TransferredIsSent
  <2> QED
    BY <1>1, <1>2, <1>3, <1>4, <1>6, <2>6
<1>8. CASE ostream.has_error
  <2>1. PICK shared : shared = Intersection(range, range)
    OBVIOUS
  <2>2. PICK b \in Nat, e \in Nat : shared = NewRange(b, e)
    BY <1>5, <2>1 DEF Intersection, Larger, Smaller
  <2>3. Transfer(ostream, shared, Bytes(part)) = [status |-> "ok", dest |-> ostream]
    BY <1>8, <2>2, TransferIsWrite, WriteAfterError
  <2>4. outcome.dest = ostream /\ outcome.result # "error"
    <3>1. outcome = FromSegment(source, Bytes(part), range, ostream)
      BY <1>4, <1>5 DEF TransferData
    <3>2. \/ outcome = Outcome(source, ostream, "ok", TRUE)
          \/ outcome = Outcome(source, ostream, "done", FALSE)
      <4>1. PICK sent : sent = Transfer(ostream, shared, Bytes(part))
        OBVIOUS
      <4>2. sent.dest = ostream /\ sent.status = "ok"
        BY <2>3, <4>1
      <4>3. shared = Intersection(source.extent, range)
        BY <1>5, <2>1
      <4>4. outcome = IF IsValid(shared)
                      THEN Outcome(source, sent.dest, sent.status, TRUE)
                      ELSE Outcome(source, ostream, "done", FALSE)
        BY <3>1, <4>1, <4>3, Zenon DEF FromSegment
      <4> QED
        BY <4>2, <4>4
    <3> QED
      BY <3>2 DEF Outcome
  <2>5. IsSent(ostream, part, outcome)
    BY <1>8, <2>4 DEF IsSent
  <2> QED
    BY <1>1, <1>2, <1>3, <1>4, <2>5
<1> QED
  BY <1>7, <1>8

\* The image, from a file that may have been cut.
IsImageSent(content, whole, b, e, outcome) ==
    /\ outcome.dest \in OStreams(Symbols)
    /\ Len(outcome.dest.written) + outcome.dest.room < SizeModulus
    /\ outcome.dest.has_error <=> outcome.result = "error"
    /\ ~outcome.dest.has_error =>
          \/ /\ outcome.dest.written = SubSeq(whole, b + 1, e)
             /\ outcome.dest.bytes_transferred = e - b
          \/ /\ Len(content) < Len(whole)
             /\ outcome.dest.bytes_transferred < e - b

LEMMA ImageIsSent ==
    ASSUME NEW content \in Seq(Symbols), NEW whole \in Seq(Symbols), IsPart(content, whole),
           NEW b \in Nat, NEW e \in Nat, b < e, e <= Len(whole),
           NEW ostream \in OStreams(Symbols), Empty(ostream),
           Len(ostream.written) + ostream.room < SizeModulus
    PROVE  IsImageSent(content, whole, b, e,
                       TransferData(NewIStream(Len(content), TRUE), Bytes(content),
                                    NewRange(b, e), ostream))
<1>1. PICK length \in Nat : length = Len(content) /\ length <= Len(whole)
  BY LenProperties DEF IsPart
<1>l. Len(whole) \in Nat
  BY LenProperties
<1>2. PICK source : source = NewIStream(length, TRUE)
  OBVIOUS
<1>3. PICK range : range = NewRange(b, e)
  OBVIOUS
<1>4. PICK outcome : outcome = TransferData(source, Bytes(content), range, ostream)
  OBVIOUS
<1>5. /\ source.kind = "istream" /\ source.extent = NewRange(0, length) /\ source.open
      /\ source.extent.end = length
      /\ source.cached = NoSegment
      /\ range.begin = b /\ range.end = e
      /\ source \in DataSource /\ range \in DataRange
  BY <1>2, <1>3 DEF NewIStream, NewRange, DataSource, DataRange, DataSegment
<1>6. Bytes(content) \in Contents(length, Symbols)
  <2>1. 0 <= length /\ length <= Len(content)
    BY <1>1
  <2> QED
    BY <1>1, <2>1, BytesArePieces, Zenon
<1>7. PICK upto \in Nat :
         upto = Larger(b, Smaller(e, length)) /\ b <= upto /\ (upto <= length \/ upto = b)
  BY DEF Larger, Smaller
<1>e. /\ ~ostream.has_error /\ ostream.written = <<>> /\ ostream.bytes_transferred = 0
  BY DEF Empty
<1>8. IsSent(ostream, Piece(Bytes(content), b, upto), outcome)
  <2>1. HasContent(Symbols, length, Bytes(content), source, range)
    BY <1>5, <1>6 DEF HasContent
  <2>2. Available(source, range) = upto
    BY <1>5, <1>7 DEF Available, ReadsUpTo
  <2>3. Transferred(Symbols, Bytes(content), range.begin, Available(source, range), source,
                    ostream, outcome)
    BY <1>4, <1>e, <2>1, TransferOutcome, Zenon
  <2>4. Transferred(Symbols, Bytes(content), b, upto, source, ostream, outcome)
    BY <1>5, <2>2, <2>3
  <2> QED
    BY <1>6, <1>7, <1>e, <2>4, TransferredIsSent
<1>9. /\ outcome.dest \in OStreams(Symbols)
      /\ Len(outcome.dest.written) + outcome.dest.room < SizeModulus
      /\ outcome.dest.has_error <=> outcome.result = "error"
  BY <1>8, <1>e DEF IsSent
<1>10. CASE outcome.dest.has_error
  <2>1. IsImageSent(content, whole, b, e, outcome)
    BY <1>9, <1>10 DEF IsImageSent
  <2> QED
    BY <1>1, <1>2, <1>3, <1>4, <2>1
<1>11. CASE ~outcome.dest.has_error
  <2>1. PICK p : p = Piece(Bytes(content), b, upto)
    OBVIOUS
  <2>2. /\ outcome.dest.written = <<>> \o p
        /\ outcome.dest.bytes_transferred = 0 + Len(p)
    BY <1>8, <1>11, <1>e, <2>1 DEF IsSent
  <2>3. CASE e <= length
    <3>1. upto = e
      BY <1>7, <2>3 DEF Larger, Smaller
    <3>2. PICK s : s = SubSeq(content, b + 1, e)
      OBVIOUS
    <3>3. PICK t : t = SubSeq(whole, b + 1, e)
      OBVIOUS
    <3>4. b <= e /\ e <= Len(content)
      BY <1>1, <2>3
    <3>5. s \in Seq(Symbols) /\ Len(s) = e - b /\ \A k \in 1 .. e - b : s[k] = content[b + k]
      BY <3>2, <3>4, PartOfSeq
    <3>6. t \in Seq(Symbols) /\ Len(t) = e - b /\ \A k \in 1 .. e - b : t[k] = whole[b + k]
      BY <3>3, <3>4, PartOfSeq
    <3>7. \A k \in 1 .. e - b : content[b + k] = whole[b + k]
      <4>1. ASSUME NEW k \in 1 .. e - b
            PROVE  b + k \in 1 .. length
        BY <2>3
      <4> QED
        BY <1>1, <4>1 DEF IsPart
    <3>8. s = t
      <4>1. \A k \in 1 .. Len(s) : s[k] = t[k]
        BY <3>5, <3>6, <3>7
      <4> QED
        BY <3>5, <3>6, <4>1, SeqEqual
    <3>9. p = s
      BY <2>1, <3>1, <3>2, <3>4, BytesArePieces
    <3>10. outcome.dest.written = s /\ outcome.dest.bytes_transferred = e - b
      <4>1. <<>> \o s = s
        BY <3>5, ConcatEmptySeq
      <4>2. 0 + Len(s) = e - b
        BY <3>5
      <4> QED
        BY <2>2, <3>9, <4>1, <4>2
    <3>11. IsImageSent(content, whole, b, e, outcome)
      BY <1>9, <3>3, <3>8, <3>10 DEF IsImageSent
    <3> QED
      BY <1>1, <1>2, <1>3, <1>4, <3>11
  <2>4. CASE ~(e <= length)
    <3>1. upto < e
      BY <1>7, <2>4 DEF Larger, Smaller
    <3>2. Len(p) = upto - b
      <4>1. CASE upto <= length
        <5>1. upto \in 0 .. length /\ b \in 0 .. upto
          BY <1>7, <4>1
        <5> QED
          BY <1>6, <2>1, <5>1, PieceType
      <4>2. CASE upto = b
        BY <2>1, <4>2, EmptyPiece, EmptySeq
      <4> QED
        BY <1>7, <4>1, <4>2
    <3>3. outcome.dest.bytes_transferred < e - b
      <4>1. PICK l \in Nat : l = upto - b /\ l < e - b
        BY <1>7, <3>1
      <4> QED
        BY <2>2, <3>2, <4>1
    <3>4. Len(content) < Len(whole)
      BY <1>1, <1>l, <2>4
    <3>5. IsImageSent(content, whole, b, e, outcome)
      BY <1>9, <3>3, <3>4 DEF IsImageSent
    <3> QED
      BY <1>1, <1>2, <1>3, <1>4, <3>5
  <2> QED
    BY <2>3, <2>4
<1> QED
  BY <1>10, <1>11

\* The place of a sequence between two others.
LEMMA Between ==
    ASSUME NEW S, NEW a \in Seq(S), NEW p \in Seq(S), NEW z \in Seq(S)
    PROVE  /\ (a \o p) \o z \in Seq(S)
           /\ Len((a \o p) \o z) = Len(a) + Len(p) + Len(z)
           /\ \A k \in 1 .. Len(p) : ((a \o p) \o z)[Len(a) + k] = p[k]
           /\ \A k \in 1 .. Len(a) : ((a \o p) \o z)[k] = a[k]
<1>1. PICK l \in Nat, m \in Nat, n \in Nat : l = Len(a) /\ m = Len(p) /\ n = Len(z)
  BY LenProperties
<1>2. PICK q : q = a \o p
  OBVIOUS
<1>3. /\ q \in Seq(S) /\ Len(q) = l + m
      /\ \A i \in 1 .. l + m : q[i] = IF i <= l THEN a[i] ELSE p[i - l]
  BY <1>1, <1>2, ConcatProperties
<1>4. PICK d : d = q \o z
  OBVIOUS
<1>5. /\ d \in Seq(S) /\ Len(d) = (l + m) + n
      /\ \A i \in 1 .. (l + m) + n : d[i] = IF i <= l + m THEN q[i] ELSE z[i - (l + m)]
  BY <1>1, <1>3, <1>4, ConcatProperties
<1>6. ASSUME NEW k \in 1 .. m
      PROVE  d[l + k] = p[k]
  <2>1. l + k \in 1 .. l + m /\ l + k \in 1 .. (l + m) + n /\ l + k <= l + m /\ ~(l + k <= l)
        /\ (l + k) - l = k
    OBVIOUS
  <2> QED
    BY <1>3, <1>5, <2>1
<1>7. ASSUME NEW k \in 1 .. l
      PROVE  d[k] = a[k]
  <2>1. k \in 1 .. l + m /\ k \in 1 .. (l + m) + n /\ k <= l + m /\ k <= l
    OBVIOUS
  <2> QED
    BY <1>3, <1>5, <2>1
<1> QED
  BY <1>1, <1>2, <1>4, <1>5, <1>6, <1>7

\* One of some parts, and those before it and behind it.
LEMMA PartsBeforeAndBehind ==
    ASSUME NEW S, NEW parts \in Seq(Seq(S)), NEW n \in 1 .. Len(parts)
    PROVE  /\ SubSeq(parts, 1, n - 1) \in Seq(Seq(S))
           /\ \E behind \in Seq(Seq(S)) :
                 parts = Append(SubSeq(parts, 1, n - 1), parts[n]) \o behind
<1>1. PICK length \in Nat : length = Len(parts)
  BY LenProperties
<1>2. PICK m \in Nat : n = m + 1 /\ m + 1 <= length /\ n - 1 = m /\ m <= length
  BY <1>1
<1>r. PICK rest \in Nat : rest = length - n /\ (m + 1) + rest = length
  <2>1. length - (m + 1) \in Nat /\ (m + 1) + (length - (m + 1)) = length
    BY <1>1, <1>2
  <2> QED
    BY <1>2, <2>1
<1>3. PICK a : a = SubSeq(parts, 0 + 1, m)
  OBVIOUS
<1>4. /\ a \in Seq(Seq(S)) /\ Len(a) = m
      /\ \A k \in 1 .. m : a[k] = parts[k]
  <2>1. 0 <= m /\ m <= Len(parts) /\ m - 0 = m /\ \A k \in 1 .. m : 0 + k = k
    BY <1>1, <1>2
  <2>2. /\ a \in Seq(Seq(S)) /\ Len(a) = m - 0
        /\ \A k \in 1 .. m - 0 : a[k] = parts[0 + k]
    BY <1>3, <2>1, PartOfSeq
  <2> QED
    BY <2>1, <2>2
<1>5. PICK z : z = SubSeq(parts, n + 1, length)
  OBVIOUS
<1>6. /\ z \in Seq(Seq(S)) /\ Len(z) = rest
      /\ \A k \in 1 .. rest : z[k] = parts[n + k]
  <2>1. n \in Nat /\ n <= length /\ length <= Len(parts)
    BY <1>1, <1>2
  <2>2. /\ z \in Seq(Seq(S)) /\ Len(z) = length - n
        /\ \A k \in 1 .. length - n : z[k] = parts[n + k]
    BY <1>1, <1>5, <2>1, PartOfSeq
  <2> QED
    BY <1>r, <2>2
<1>7. PICK p \in Seq(S) : p = parts[n]
  BY ElementOfSeq
<1>8. PICK q : q = Append(a, p)
  OBVIOUS
<1>9. /\ q \in Seq(Seq(S)) /\ Len(q) = m + 1
      /\ \A k \in 1 .. m : q[k] = parts[k]
      /\ q[m + 1] = parts[n]
  BY <1>4, <1>7, <1>8, AppendProperties
<1>10. parts = q \o z
  <2>1. /\ q \o z \in Seq(Seq(S)) /\ Len(q \o z) = (m + 1) + rest
        /\ \A i \in 1 .. (m + 1) + rest :
              (q \o z)[i] = IF i <= m + 1 THEN q[i] ELSE z[i - (m + 1)]
    <3>1. /\ q \o z \in Seq(Seq(S)) /\ Len(q \o z) = Len(q) + Len(z)
          /\ \A i \in 1 .. Len(q) + Len(z) :
                (q \o z)[i] = IF i <= Len(q) THEN q[i] ELSE z[i - Len(q)]
      BY <1>6, <1>9, ConcatProperties, Zenon
    <3> QED
      BY <1>6, <1>9, <3>1, Zenon
  <2>2. (m + 1) + rest = length
    BY <1>r
  <2>3. ASSUME NEW i \in 1 .. length
        PROVE  parts[i] = (q \o z)[i]
    <3>1. CASE i <= m
      BY <1>9, <2>1, <2>2, <3>1
    <3>2. CASE i = m + 1
      BY <1>2, <1>9, <2>1, <2>2, <3>2
    <3>3. CASE i > m + 1
      <4>1. PICK k \in 1 .. rest : k = i - (m + 1) /\ n + k = i
        BY <1>2, <1>r, <3>3
      <4>2. (q \o z)[i] = z[k]
        BY <2>1, <2>2, <3>3, <4>1
      <4> QED
        BY <1>6, <4>1, <4>2
    <3>4. i <= m \/ i = m + 1 \/ i > m + 1
      OBVIOUS
    <3> QED
      BY <3>1, <3>2, <3>3, <3>4, Zenon
  <2> QED
    BY <1>1, <2>1, <2>2, <2>3, SeqEqual
<1>11. a = SubSeq(parts, 1, n - 1)
  <2>1. 0 + 1 = 1
    OBVIOUS
  <2> QED
    BY <1>2, <1>3, <2>1
<1> QED
  BY <1>4, <1>6, <1>7, <1>8, <1>10, <1>11

\* A content with a part in it, behind an image and what comes before the part.
HasPart(content, image_bytes, before, part, behind) ==
    /\ content \in Seq(Symbols) /\ image_bytes \in Seq(Symbols)
    /\ before \in Seq(Symbols) /\ part \in Seq(Symbols) /\ behind \in Seq(Symbols)
    /\ Len(content) = Len(image_bytes) + Len(before) + Len(part) + Len(behind)
    /\ \A k \in 1 .. Len(image_bytes) : content[k] = image_bytes[k]
    /\ \A k \in 1 .. Len(part) : content[(Len(image_bytes) + Len(before)) + k] = part[k]

LEMMA SymbolsJoin ==
    \A s, t \in Seq(Symbols) :
        /\ s \o t \in Seq(Symbols) /\ Len(s \o t) = Len(s) + Len(t)
        /\ \A k \in 1 .. Len(s) : (s \o t)[k] = s[k]
        /\ \A u \in Seq(Symbols) : (s \o t) \o u = s \o (t \o u)
<1> TAKE s, t \in Seq(Symbols)
<1>1. PICK m \in Nat, n \in Nat : m = Len(s) /\ n = Len(t)
  BY LenProperties
<1>2. /\ s \o t \in Seq(Symbols) /\ Len(s \o t) = m + n
      /\ \A k \in 1 .. m + n : (s \o t)[k] = IF k <= m THEN s[k] ELSE t[k - m]
  BY <1>1, ConcatProperties
<1>3. \A k \in 1 .. m : (s \o t)[k] = s[k]
  BY <1>2
<1>4. \A u \in Seq(Symbols) : (s \o t) \o u = s \o (t \o u)
  BY ConcatAssociative
<1> QED
  BY <1>1, <1>2, <1>3, <1>4

LEMMA PartInside ==
    ASSUME NEW i \in Seq(Symbols), NEW a \in Seq(Symbols), NEW p \in Seq(Symbols),
           NEW z \in Seq(Symbols)
    PROVE  HasPart(i \o ((a \o p) \o z), i, a, p, z)
<1>1. PICK h \in Seq(Symbols) : /\ h = i \o a /\ Len(h) = Len(i) + Len(a)
                               /\ \A k \in 1 .. Len(i) : h[k] = i[k]
  BY SymbolsJoin
<1>2. i \o ((a \o p) \o z) = (h \o p) \o z
  <2>1. PICK ap \in Seq(Symbols) : ap = a \o p
    BY SymbolsJoin
  <2>2. (i \o ap) \o z = i \o (ap \o z)
    BY <2>1, SymbolsJoin
  <2>3. (i \o a) \o p = i \o (a \o p)
    BY SymbolsJoin
  <2> QED
    BY <1>1, <2>1, <2>2, <2>3
<1>3. PICK content : content = (h \o p) \o z
  OBVIOUS
<1>4. /\ content \in Seq(Symbols)
      /\ Len(content) = Len(h) + Len(p) + Len(z)
      /\ \A k \in 1 .. Len(p) : content[Len(h) + k] = p[k]
      /\ \A k \in 1 .. Len(h) : content[k] = h[k]
  BY <1>1, <1>3, Between
<1>5. \A k \in 1 .. Len(i) : k \in 1 .. Len(h)
  BY <1>1, LenProperties
<1>6. HasPart(content, i, a, p, z)
  BY <1>1, <1>4, <1>5 DEF HasPart
<1> QED
  BY <1>2, <1>3, <1>6

\* The bytes of the first image of a file.
IsImageOf(i, whole, b, e) ==
    /\ whole \in Seq(Symbols) /\ i \in Seq(Symbols)
    /\ b \in Nat /\ e \in Nat /\ b < e
    /\ FirstImage(whole) = NewRange(b, e)
    /\ Len(i) = e - b /\ \A k \in 1 .. e - b : i[k] = whole[b + k]

\* The part is what a call for its bytes gives.
Finds(content, before, part) ==
    ParseFromStream(content, TRUE, Len(before), Len(part), <<>>)
       = [result |-> TRUE, out |-> part]

LEMMA PartIsFound ==
    \A whole, b, e, i, before, p, behind, content :
        /\ IsImageOf(i, whole, b, e)
        /\ HasPart(content, i, before, p, behind)
        /\ Len(content) < SizeModulus /\ p # <<>>
        => Finds(content, before, p)
<1> TAKE whole, b, e, i, before, p, behind, content
<1> HAVE /\ IsImageOf(i, whole, b, e)
         /\ HasPart(content, i, before, p, behind)
         /\ Len(content) < SizeModulus /\ p # <<>>
<1>i. /\ whole \in Seq(Symbols) /\ i \in Seq(Symbols)
      /\ b \in Nat /\ e \in Nat /\ b < e
      /\ FirstImage(whole) = NewRange(b, e)
      /\ Len(i) = e - b /\ \A k \in 1 .. e - b : i[k] = whole[b + k]
  BY Zenon DEF IsImageOf
<1>b. before \in Seq(Symbols) /\ p \in Seq(Symbols) /\ behind \in Seq(Symbols)
  BY Zenon DEF HasPart
<1>1. PICK l \in Nat, j \in Nat, m \in Nat, r \in Nat :
         /\ l = e - b /\ j = Len(before) /\ m = Len(p) /\ r = Len(behind)
         /\ Len(i) = l /\ 0 < l /\ 0 < m
  <2>1. PICK l \in Nat : l = e - b /\ 0 < l
    BY <1>i
  <2>2. PICK j \in Nat, m \in Nat, r \in Nat :
           j = Len(before) /\ m = Len(p) /\ r = Len(behind)
    BY <1>b, LenProperties
  <2>3. 0 < m
    BY <1>b, <2>2, EmptySeq
  <2> QED
    BY <1>i, <2>1, <2>2, <2>3
<1>2. /\ content \in Seq(Symbols) /\ Len(content) = l + j + m + r
      /\ \A k \in 1 .. l : content[k] = i[k]
      /\ \A k \in 1 .. m : content[(l + j) + k] = p[k]
  BY <1>1 DEF HasPart
<1>3. FirstImage(content) = NewRange(0, l)
  <2>1. \A k \in 1 .. e - b : content[k] = whole[b + k]
    BY <1>1, <1>2, <1>i
  <2>2. e - b <= Len(content) /\ content \in Seq(Symbols)
    BY <1>1, <1>2
  <2>3. FirstImage(content) = NewRange(0, e - b)
    BY <1>i, <2>1, <2>2, FirstImageAgain
  <2> QED
    BY <1>1, <2>3
<1>4. FirstImage(content).end = l /\ IsValid(FirstImage(content))
  BY <1>1, <1>3 DEF NewRange, IsValid
<1>5. IsThere(content, j, m)
  <2>1. content # Absent
    BY <1>2, GContainerAssumption, Zenon
  <2>2. l + j + m <= Len(content)
    BY <1>2
  <2> QED
    BY <1>4, <2>1, <2>2 DEF IsThere
<1>6. PICK parsed : parsed = ParseFromStream(content, TRUE, j, m, <<>>)
  OBVIOUS
<1>7. IsExact(content, j, m, <<>>, parsed)
  BY <1>2, <1>6, ParsedExactly
<1>8. parsed.result /\ parsed.out = Requested(content, j, m)
  BY <1>1, <1>5, <1>7 DEF IsExact
<1>9. Requested(content, j, m) = p
  <2>1. PICK from \in Nat, to \in Nat :
           from = l + j /\ to = from + m /\ from <= to /\ to <= Len(content) /\ to - from = m
    BY <1>2
  <2>2. PICK s : s = SubSeq(content, from + 1, to)
    OBVIOUS
  <2>3. /\ s \in Seq(Symbols) /\ Len(s) = to - from
        /\ \A k \in 1 .. to - from : s[k] = content[from + k]
    BY <1>2, <2>1, <2>2, PartOfSeq
  <2>4. \A k \in 1 .. Len(s) : s[k] = p[k]
    BY <1>2, <2>1, <2>3
  <2>5. s = p
    BY <1>1, <1>b, <2>1, <2>3, <2>4, SeqEqual
  <2>6. Requested(content, j, m) = SubSeq(content, from + 1, to)
    BY <1>4, <2>1 DEF Requested
  <2> QED
    BY <2>2, <2>5, <2>6
<1>10. parsed = [result |-> parsed.result, out |-> parsed.out]
  BY <1>6 DEF ParseFromStream
<1>11. parsed.result = TRUE
  BY <1>6, <1>8 DEF ParseFromStream
<1> QED
  BY <1>1, <1>6, <1>8, <1>9, <1>10, <1>11 DEF Finds

\* Each part is found again behind the image.
IsFoundAgain(content, parts, n) ==
    parts[n] # <<>> => Finds(content, FlattenSeq(SubSeq(parts, 1, n - 1)), parts[n])

LEMMA PartsAreFoundAgain ==
    ASSUME NEW whole \in Seq(Symbols), IsValid(FirstImage(whole)),
           NEW parts \in Seq(Seq(Symbols)), NEW content,
           content = ImageBytes(whole) \o FlattenSeq(parts), Len(content) < SizeModulus,
           NEW n \in 1 .. Len(parts)
    PROVE  IsFoundAgain(content, parts, n)
<1>1. PICK b \in Nat, e \in Nat :
         FirstImage(whole) = NewRange(b, e) /\ b < e /\ e <= Len(whole)
  <2>1. FirstImage(whole) \in DataRange /\ FirstImage(whole).end <= Len(whole)
    BY FirstImageType
  <2>2. FirstImage(whole) = NewRange(FirstImage(whole).begin, FirstImage(whole).end)
    BY <2>1 DEF DataRange, NewRange
  <2> QED
    BY <2>1, <2>2 DEF DataRange, IsValid
<1>2. PICK i : i = SubSeq(whole, b + 1, e)
  OBVIOUS
<1>3. /\ i \in Seq(Symbols) /\ Len(i) = e - b
      /\ \A k \in 1 .. e - b : i[k] = whole[b + k]
  <2>1. b <= e /\ e <= Len(whole)
    BY <1>1
  <2>2. /\ SubSeq(whole, b + 1, e) \in Seq(Symbols)
        /\ Len(SubSeq(whole, b + 1, e)) = e - b
        /\ \A k \in 1 .. e - b : SubSeq(whole, b + 1, e)[k] = whole[b + k]
    BY <2>1, PartOfSeq, Zenon
  <2> QED
    BY <1>2, <2>2, Zenon
<1>4. ImageBytes(whole) = i
  <2>1. FirstImage(whole).begin = b /\ FirstImage(whole).end = e
    BY <1>1 DEF NewRange
  <2> QED
    BY <1>2, <2>1 DEF ImageBytes
<1>5. PICK a \in Seq(Seq(Symbols)) : a = SubSeq(parts, 1, n - 1)
  BY PartsBeforeAndBehind
<1>6. PICK p \in Seq(Symbols) : p = parts[n]
  BY ElementOfSeq
<1>7. PICK z \in Seq(Seq(Symbols)) : parts = Append(a, p) \o z
  <2>1. \E behind \in Seq(Seq(Symbols)) :
           parts = Append(SubSeq(parts, 1, n - 1), parts[n]) \o behind
    BY PartsBeforeAndBehind
  <2> QED
    BY <1>5, <1>6, <2>1, Zenon
<1>8. PICK fa \in Seq(Symbols), fz \in Seq(Symbols) : fa = FlattenSeq(a) /\ fz = FlattenSeq(z)
  BY Flattened
<1>9. FlattenSeq(parts) = (fa \o p) \o fz
  <2>1. Append(a, p) \in Seq(Seq(Symbols))
    BY AppendProperties
  <2>2. FlattenSeq(Append(a, p) \o z) = FlattenSeq(Append(a, p)) \o fz
    BY <1>8, <2>1, Flattened
  <2>3. FlattenSeq(Append(a, p)) = fa \o p
    BY <1>8, Flattened
  <2> QED
    BY <1>7, <2>2, <2>3
<1>10. HasPart(content, i, fa, p, fz)
  <2>1. HasPart(i \o ((fa \o p) \o fz), i, fa, p, fz)
    BY <1>3, <1>6, <1>8, PartInside
  <2> QED
    BY <1>4, <1>9, <2>1
<1>11. ASSUME p # <<>>
       PROVE  Finds(content, fa, p)
  <2>1. IsImageOf(i, whole, b, e)
    BY <1>1, <1>3 DEF IsImageOf
  <2> QED
    BY <1>10, <1>11, <2>1, PartIsFound, Zenon
<1> QED
  BY <1>5, <1>6, <1>8, <1>11, Zenon DEF IsFoundAgain

-----------------------------------------------------------------------------
(***************************************************************************)
(* Steps of the parts of the invariant.                                    *)
(***************************************************************************)
LEMMA NamesOfFiles == Inputs \subseteq Names /\ "in" \in Inputs /\ "out" \in Names
                      /\ Absent \notin Files /\ "out" \notin Inputs
  BY GContainerAssumption DEF Names, Inputs, Files

LEMMA NoFileIsEmpty == (\E content \in Files : TRUE) => <<>> \in Files
  BY ModulusType, LenProperties, EmptySeq DEF Files

\* A file is removed, or loses its last byte.
LEMMA CutOnce ==
    ASSUME NEW content \in Files, NEW whole \in Files \cup {Absent}, NEW n \in Nat,
           CutFrom(content, whole, n),
           NEW next \in {Absent} \cup {SubSeq(content, 1, Len(content) - 1)}
    PROVE  /\ next \in Files \cup {Absent}
           /\ CutFrom(next, whole, n + 1)
           /\ next # Absent => Len(next) <= Len(content)
<1>1. CASE next = Absent
  BY <1>1 DEF CutFrom
<1>2. CASE next # Absent
  <2>1. next = SubSeq(content, 1, Len(content) - 1) /\ content \in Seq(Symbols)
        /\ Len(content) < SizeModulus
    BY <1>2 DEF Files
  <2>2. PICK length \in Nat : length = Len(content) /\ length < SizeModulus
    BY <2>1, LenProperties
  <2>3. content # Absent /\ whole # Absent /\ whole \in Seq(Symbols)
        /\ Len(content) <= Len(whole) /\ Len(whole) <= Len(content) + n
        /\ \A k \in 1 .. Len(content) : content[k] = whole[k]
    <3>1. content # Absent
      BY NamesOfFiles
    <3> QED
      BY <3>1 DEF CutFrom, IsPart, Files
  <2>4. PICK w \in Nat : w = Len(whole)
    BY <2>3, LenProperties
  <2>5. CASE length = 0
    <3>1. next = <<>>
      BY <2>1, <2>2, <2>5, SubSeqEmpty
    <3>2. next \in Seq(Symbols) /\ Len(next) = 0
      BY <3>1, EmptySeq
    <3> QED
      BY <2>2, <2>3, <2>4, <2>5, <3>2 DEF Files, CutFrom, IsPart
  <2>6. CASE length # 0
    <3>1. PICK m \in Nat : m + 1 = length /\ m = Len(content) - 1
      BY <2>2, <2>6
    <3>2. 0 <= m /\ m <= Len(content) /\ m - 0 = m /\ 0 + 1 = 1 /\ \A k \in 1 .. m : 0 + k = k
      BY <2>2, <3>1
    <3>3. /\ SubSeq(content, 0 + 1, m) \in Seq(Symbols)
          /\ Len(SubSeq(content, 0 + 1, m)) = m - 0
          /\ \A k \in 1 .. m - 0 : SubSeq(content, 0 + 1, m)[k] = content[0 + k]
      BY <2>1, <3>2, PartOfSeq
    <3>4. next = SubSeq(content, 0 + 1, m)
      BY <2>1, <3>1
    <3>5. next \in Seq(Symbols) /\ Len(next) = m /\ \A k \in 1 .. m : next[k] = content[k]
      BY <3>2, <3>3, <3>4
    <3>6. next \in Files /\ Len(next) <= Len(content)
      BY <2>2, <3>1, <3>5, ModulusType DEF Files
    <3>7. IsPart(next, whole)
      BY <2>2, <2>3, <2>4, <3>1, <3>5 DEF IsPart
    <3>8. Len(whole) <= Len(next) + (n + 1)
      BY <2>2, <2>3, <2>4, <3>1, <3>5
    <3> QED
      BY <2>3, <3>6, <3>7, <3>8 DEF CutFrom
  <2> QED
    BY <2>5, <2>6
<1> QED
  BY <1>1, <1>2

LEMMA CutLonger ==
    ASSUME NEW content \in Files \cup {Absent}, NEW whole \in Files \cup {Absent},
           NEW n \in Nat, CutFrom(content, whole, n)
    PROVE  CutFrom(content, whole, n + 1)
<1>1. content # Absent => Len(whole) \in Nat /\ Len(content) \in Nat
  BY LenProperties DEF Files, CutFrom
<1> QED
  BY <1>1 DEF CutFrom

LEMMA Reported ==
    \A h : AreErrors(h) => /\ AreErrors(ReportMessage(h, "error"))
                           /\ HasErrorMessages(ReportMessage(h, "error"))
<1> TAKE h
<1> HAVE AreErrors(h)
<1>r. PICK reported : reported = ReportMessage(h, "error")
  OBVIOUS
<1>1. "error" \in MessageTypes
  BY DEF MessageTypes
<1>2. PICK stats \in [MessageTypes -> Nat] : stats = h.stats
  BY DEF AreErrors
<1>3. PICK messages \in Seq(MessageTypes) : messages = h.messages /\ Len(messages) = stats["error"]
  BY <1>2 DEF AreErrors
<1>4. /\ reported.stats = [stats EXCEPT !["error"] = @ + 1]
      /\ reported.messages = Append(messages, "error")
  BY <1>2, <1>3, <1>r DEF ReportMessage
<1>5. PICK n \in Nat : n = stats["error"]
  BY <1>1, <1>2
<1>6. reported.stats \in [MessageTypes -> Nat] /\ reported.stats["error"] = n + 1
  <2>1. PICK after : after = [stats EXCEPT !["error"] = n + 1]
    OBVIOUS
  <2>2. after \in [MessageTypes -> Nat] /\ after["error"] = n + 1
    BY <1>1, <1>2, <2>1
  <2>3. reported.stats = after
    BY <1>2, <1>4, <1>5, <2>1
  <2> QED
    BY <2>2, <2>3, Zenon
<1>7. reported.messages \in Seq(MessageTypes) /\ Len(reported.messages) = n + 1
  <2>1. PICK e \in MessageTypes : e = "error"
    BY <1>1
  <2>2. Append(messages, e) \in Seq(MessageTypes) /\ Len(Append(messages, e)) = Len(messages) + 1
    BY <1>3, <2>1, AppendProperties, Zenon
  <2>3. Len(messages) = n
    BY <1>3, <1>5
  <2> QED
    BY <1>4, <2>1, <2>2, <2>3
<1> QED
  BY <1>6, <1>7, <1>r DEF AreErrors, HasErrorMessages

\* The messages of the last call are forgotten.
LEMMA Cleared == AreErrors(ClearMessages(handler))
  BY EmptySeq DEF AreErrors, ClearMessages, MessageTypes

\* As long as the copy goes on there is nothing to say of its result.
LEMMA NotFinished ==
    ASSUME Parsed, pc # "done", pc' # "done", parse' = parse
    PROVE  Finished' /\ Parsed'
<1>1. parse = NoParse /\ ~parse.called
  BY DEF Parsed, NoParse
<1>2. Parsed'
  BY <1>1 DEF Parsed, ParseIsExact
<1>3. Finished'
  BY DEF Finished, WrittenIsImageAndFiles, WhatIsMissingIsReported, AppendedFilesAreFound
<1> QED
  BY <1>2, <1>3

\* The copy ends with an error.
LEMMA Failed ==
    ASSUME Parsed, pc # "done", parse' = parse, Messages', HasErrorMessages(handler)', ~written'
    PROVE  Finished' /\ Parsed'
<1>1. parse = NoParse /\ ~parse.called
  BY DEF Parsed, NoParse
<1>2. Parsed'
  BY <1>1 DEF Parsed, ParseIsExact
<1>3. Finished'
  BY DEF Finished, WrittenIsImageAndFiles, WhatIsMissingIsReported, AppendedFilesAreFound,
         Messages, AreErrors
<1> QED
  BY <1>2, <1>3

\* What holds of the parts appended holds with one more.
LEMMA OneMoreAppended ==
    ASSUME Types, Appended, pc \in {"files", "read"}, Len(appended) < Len(others),
           NEW part \in Seq(Symbols), appended' = Append(appended, part),
           others' = others, original' = original, changes' = changes,
           IsAppended(part, NextFile, Whole(NextFile), changes),
           \/ HasErrorMessages(handler)'
           \/ IsAccountedFor(part, NextFile, Whole(NextFile), changes),
           HasErrorMessages(handler) => HasErrorMessages(handler)'
    PROVE  /\ appended' \in Seq(Seq(Symbols)) /\ Len(appended') <= Len(others)
           /\ FlattenSeq(appended') = FlattenSeq(appended) \o part
           /\ Appended'
<1>1. PICK length \in Nat : length = Len(appended) /\ length < Len(others)
  BY LenProperties DEF Types
<1>2. Len(others) \in Nat
  BY LenProperties DEF Types
<1>3. appended \in Seq(Seq(Symbols))
  BY DEF Types
<1>4. /\ appended' \in Seq(Seq(Symbols)) /\ Len(appended') = length + 1
      /\ \A n \in 1 .. length : appended'[n] = appended[n]
      /\ appended'[length + 1] = part
  BY <1>1, <1>3, AppendProperties
<1>5. FlattenSeq(appended') = FlattenSeq(appended) \o part
  BY <1>3, Flattened
<1>6. ASSUME NEW n \in 1 .. length + 1
      PROVE  /\ IsAppended(appended'[n], others[n], Whole(others[n]), changes)
             /\ \/ HasErrorMessages(handler)'
                \/ IsAccountedFor(appended'[n], others[n], Whole(others[n]), changes)
  <2>1. CASE n = length + 1
    <3>1. NextFile = others[n] /\ appended'[n] = part
      BY <1>1, <1>4, <2>1 DEF NextFile
    <3> QED
      BY <3>1
  <2>2. CASE n # length + 1
    <3>1. n \in 1 .. Len(appended) /\ appended'[n] = appended[n]
      BY <1>1, <1>4, <2>2
    <3>2. /\ IsAppended(appended[n], others[n], Whole(others[n]), changes)
          /\ \/ HasErrorMessages(handler)
             \/ IsAccountedFor(appended[n], others[n], Whole(others[n]), changes)
      BY <3>1 DEF Appended
    <3> QED
      BY <3>1, <3>2
  <2> QED
    BY <2>1, <2>2
<1>7. Appended'
  BY <1>4, <1>6 DEF Appended, Whole
<1>8. Len(appended') <= Len(others)
  BY <1>1, <1>2, <1>4
<1> QED
  BY <1>4, <1>5, <1>7, <1>8

\* Nothing is appended.
LEMMA NothingAppended ==
    ASSUME Types, FlattenSeq(appended)' = FlattenSeq(appended) \o <<>>
    PROVE  FlattenSeq(appended)' = FlattenSeq(appended)
<1>1. FlattenSeq(appended) \in Seq(Symbols)
  BY Flattened DEF Types
<1> QED
  BY <1>1, ConcatEmptySeq

-----------------------------------------------------------------------------
(***************************************************************************)
(* The initial states, and every action, keep the invariant.               *)
(***************************************************************************)
LEMMA InitIsSound == Init => IInv
<1> SUFFICES ASSUME Init
             PROVE  IInv
  OBVIOUS
<1>1. PICK input \in InputContents, a \in OtherContents \cup {Absent},
           b \in OtherContents \cup {Absent} :
         files = [name \in Names |-> CASE name = "in" -> input
                                       [] name = "a"  -> a
                                       [] name = "b"  -> b
                                       [] OTHER       -> Absent]
  BY DEF Init
<1>2. \A content \in InputContents \cup OtherContents : content \in Files
  <2>1. InputContents \cup OtherContents \subseteq Seq(Symbols)
        /\ \A content \in InputContents \cup OtherContents : Len(content) < SizeModulus
    BY GContainerAssumption, Zenon
  <2> QED
    BY <2>1 DEF Files
<1>3. /\ files = original /\ DOMAIN files = Names
      /\ files["in"] = input /\ files["a"] = a /\ files["b"] = b /\ files["out"] = Absent
  BY <1>1 DEF Init, Names, Inputs
<1>4. input \in Files /\ a \in Files \cup {Absent} /\ b \in Files \cup {Absent}
  BY <1>2
<1>5. files \in [Names -> Files \cup {Absent}] /\ files["in"] \in Files
  <2>1. \A name \in Names : files[name] \in Files \cup {Absent}
    BY <1>3, <1>4 DEF Names, Inputs
  <2>2. files = [name \in Names |-> files[name]]
    BY <1>1
  <2> QED
    BY <1>3, <1>4, <2>1, <2>2
<1>6. /\ output \in {"in", "out"} /\ others \in OtherFiles /\ pc = "output"
      /\ handler = NewMessageHandler /\ image = InvalidRange /\ dest = NewOStream(0)
      /\ size = 0 /\ expected = 0 /\ appended = <<>>
      /\ written = FALSE /\ held_back = FALSE /\ changes = 0 /\ parse = NoParse
  BY DEF Init
<1>7. dest \in OStreams(Symbols) /\ Empty(dest) /\ Len(dest.written) + dest.room = 0
  BY <1>6, EmptySeq DEF NewOStream, OStreams, Empty
<1>8. SizeModulus > 0
  BY <1>4, ModulusType, LenProperties DEF Files
<1>9. Types
  <2>1. others \in Seq(Inputs \cup {""})
    BY <1>6, GContainerAssumption, Zenon
  <2>2. image \in DataRange
    BY <1>6 DEF InvalidRange, NewRange, DataRange
  <2>3. appended \in Seq(Seq(Symbols)) /\ Len(appended) <= Len(others)
    <3>1. <<>> \in Seq(Seq(Symbols)) /\ Len(<<>>) = 0
      BY EmptySeq
    <3>2. Len(others) \in Nat
      BY <2>1, LenProperties
    <3> QED
      BY <1>6, <3>1, <3>2
  <2>4. MaxChanges \in Nat
    BY GContainerAssumption, Zenon
  <2>5. 0 \in 0 .. MaxChanges
    BY <2>4
  <2>6. Len(dest.written) + dest.room < SizeModulus
    BY <1>7, <1>8
  <2> QED
    BY <1>3, <1>5, <1>6, <1>7, <2>1, <2>2, <2>3, <2>5, <2>6 DEF Types
<1>10. Messages
  BY <1>6, EmptySeq DEF Messages, AreErrors, NewMessageHandler, MessageTypes
<1>11. Cuts
  <2>1. ASSUME NEW name \in Inputs
        PROVE  CutFrom(files[name], files[name], 0)
    <3>1. files[name] \in Files \cup {Absent}
      BY <1>5, NamesOfFiles
    <3>2. files[name] # Absent => Len(files[name]) \in Nat
      BY <3>1, LenProperties DEF Files
    <3> QED
      BY <3>2 DEF CutFrom, IsPart
  <2> QED
    BY <1>3, <1>6, <2>1 DEF Cuts
<1>12. Started
  BY <1>6, <1>7 DEF Started
<1>13. ImageFound /\ Copied /\ Appended /\ Reading
  BY <1>6 DEF ImageFound, Copied, Appended, Reading
<1>14. Finished
  BY <1>6 DEF Finished, WrittenIsImageAndFiles, WhatIsMissingIsReported,
              AppendedFilesAreFound
<1>15. Parsed
  BY <1>6 DEF Parsed, ParseIsExact, NoParse
<1> QED
  BY <1>9, <1>10, <1>11, <1>12, <1>13, <1>14, <1>15 DEF IInv

LEMMA OpenOutputIsSound == IInv /\ OpenOutput => IInv'
<1> SUFFICES ASSUME IInv, OpenOutput
             PROVE  IInv'
  OBVIOUS
<1>i. /\ Types /\ Messages /\ Cuts /\ Started /\ ImageFound /\ Copied /\ Appended
      /\ Reading /\ Finished /\ Parsed
  BY DEF IInv
<1>u. /\ pc = "output"
      /\ UNCHANGED <<output, others, original, image, size, expected, appended, written,
                     held_back, changes, parse>>
  BY DEF OpenOutput, names
<1>s. Empty(dest) /\ appended = <<>> /\ ~written
  BY <1>i, <1>u DEF Started
<1>1. CASE /\ handler' = ReportMessage(handler, "error") /\ pc' = "done"
           /\ UNCHANGED <<files, dest>>
  <2>1. Messages' /\ HasErrorMessages(handler)'
    <3>1. AreErrors(handler') /\ HasErrorMessages(handler')
      BY <1>1, <1>i, Reported DEF Messages
    <3> QED
      BY <3>1 DEF Messages
  <2>2. Types'
    BY <1>1, <1>i, <1>u DEF Types
  <2>3. Cuts'
    BY <1>1, <1>i, <1>u DEF Cuts
  <2>4. Started' /\ ImageFound' /\ Copied' /\ Appended' /\ Reading'
    BY <1>1 DEF Started, ImageFound, Copied, Appended, Reading
  <2>5. Finished' /\ Parsed'
    BY <1>1, <1>i, <1>s, <1>u, <2>1, Failed
  <2> QED
    BY <2>1, <2>2, <2>3, <2>4, <2>5 DEF IInv
<1>2. CASE /\ files' = [files EXCEPT ![output] = <<>>]
           /\ \E room \in Rooms : dest' = NewOStream(room)
           /\ pc' = "scan" /\ UNCHANGED handler
  <2>1. PICK room \in Nat : dest' = NewOStream(room) /\ room < SizeModulus
    <3>1. Rooms \subseteq 0 .. SizeModulus - 1
      BY GContainerAssumption, Zenon
    <3> QED
      BY <1>2, <3>1, ModulusType
  <2>2. dest' \in OStreams(Symbols) /\ Empty(dest') /\ Len(dest'.written) + dest'.room = room
    BY <2>1, EmptySeq DEF NewOStream, OStreams, Empty
  <2>3. <<>> \in Files
    BY <1>i, NoFileIsEmpty DEF Types
  <2>4. /\ files' \in [Names -> Files \cup {Absent}]
        /\ files'[output] = <<>> /\ \A name \in Names : name # output => files'[name] = files[name]
    <3>1. output \in Names /\ files \in [Names -> Files \cup {Absent}]
      BY <1>i DEF Types, Names, Inputs
    <3> QED
      BY <1>2, <2>3, <3>1
  <2>5. Types'
    <3>1. Len(dest'.written) + dest'.room < SizeModulus
      BY <2>1, <2>2
    <3> QED
      BY <1>2, <1>i, <1>u, <2>2, <2>4, <3>1 DEF Types
  <2>6. Messages'
    BY <1>2, <1>i DEF Messages
  <2>7. Cuts'
    <3>1. ASSUME NEW name \in Inputs, name # output
          PROVE  CutFrom(files'[name], original[name], changes)
      BY <1>i, <1>u, <2>4, <3>1, NamesOfFiles DEF Cuts
    <3> QED
      BY <1>2, <1>u, <3>1 DEF Cuts
  <2>8. Started'
    BY <1>2, <1>s, <1>u, <2>2, <2>4 DEF Started
  <2>9. ImageFound' /\ Copied' /\ Appended' /\ Reading'
    BY <1>2 DEF ImageFound, Copied, Appended, Reading
  <2>10. Finished' /\ Parsed'
    BY <1>2, <1>i, <1>u, NotFinished
  <2> QED
    BY <2>5, <2>6, <2>7, <2>8, <2>9, <2>10 DEF IInv
<1> QED
  BY <1>1, <1>2 DEF OpenOutput

LEMMA ScanInputIsSound == IInv /\ ScanInput => IInv'
<1> SUFFICES ASSUME IInv, ScanInput
             PROVE  IInv'
  OBVIOUS
<1>i. /\ Types /\ Messages /\ Cuts /\ Started /\ ImageFound /\ Copied /\ Appended
      /\ Reading /\ Finished /\ Parsed
  BY DEF IInv
<1>u. /\ pc = "scan"
      /\ UNCHANGED <<files, output, others, original, dest, size, expected, appended,
                     written, held_back, changes, parse>>
  BY DEF ScanInput, names
<1>s. Empty(dest) /\ appended = <<>> /\ ~written
  BY <1>i, <1>u DEF Started
<1>c. Cuts'
  BY <1>i, <1>u DEF Cuts, ScanInput
<1>1. CASE files["in"] = Absent
  <2>1. pc' = "crashed" /\ handler' = handler /\ image' = image
    BY <1>1 DEF ScanInput
  <2>2. Types' /\ Messages'
    BY <1>i, <1>u, <2>1 DEF Types, Messages
  <2>3. Started' /\ ImageFound' /\ Copied' /\ Appended' /\ Reading'
    BY <1>s, <1>u, <2>1 DEF Started, ImageFound, Copied, Appended, Reading
  <2>4. Finished' /\ Parsed'
    BY <1>i, <1>u, <2>1, NotFinished
  <2> QED
    BY <1>c, <2>2, <2>3, <2>4 DEF IInv
<1>2. CASE files["in"] # Absent
  <2>1. PICK found : found = FirstImage(files["in"])
    OBVIOUS
  <2>2. /\ image' = found
        /\ pc' = IF IsValid(found) THEN "image" ELSE "done"
        /\ handler' = IF IsValid(found) THEN ClearMessages(handler)
                      ELSE ReportMessage(ClearMessages(handler), "error")
    BY <1>2, <2>1 DEF ScanInput
  <2>3. files["in"] \in Seq(Symbols)
    <3>1. files["in"] \in Files \cup {Absent}
      BY <1>i DEF Types, Names, Inputs
    <3> QED
      BY <1>2, <3>1 DEF Files
  <2>4. found \in DataRange /\ found.end <= Len(files["in"])
    BY <2>1, <2>3, FirstImageType
  <2>5. PICK cleared : cleared = ClearMessages(handler)
    OBVIOUS
  <2>6. AreErrors(cleared)
    BY <2>5, Cleared
  <2>7. CASE IsValid(found)
    <3>1. pc' = "image" /\ handler' = cleared
      BY <2>2, <2>5, <2>7
    <3>2. Types'
      BY <1>i, <1>u, <2>2, <2>4, <3>1 DEF Types
    <3>3. Messages'
      BY <2>6, <3>1 DEF Messages
    <3>4. Started'
      BY <1>s, <1>u, <3>1 DEF Started
    <3>5. output = "out"
      <4>1. ASSUME output = "in"
            PROVE  FALSE
        <5>1. files["in"] = <<>>
          BY <1>i, <1>u, <4>1 DEF Started
        <5>2. found.end <= 0
          BY <2>4, <5>1, EmptySeq
        <5> QED
          BY <2>4, <2>7, <5>2 DEF DataRange, IsValid
      <4> QED
        BY <1>i, <4>1 DEF Types
    <3>6. found = FirstImage(original["in"])
      <4>1. CutFrom(files["in"], original["in"], changes)
        BY <1>i, <3>5 DEF Cuts, Inputs
      <4>2. IsPart(files["in"], original["in"])
        BY <1>2, <4>1 DEF CutFrom
      <4>3. original["in"] \in Seq(Symbols)
        BY <1>i DEF Types, Files
      <4>4. IsValid(FirstImage(files["in"]))
        BY <2>1, <2>7
      <4>5. FirstImage(original["in"]) = FirstImage(files["in"])
        BY <2>3, <4>2, <4>3, <4>4, FirstImageOfCut
      <4> QED
        BY <2>1, <4>5
    <3>7. ImageFound'
      BY <1>u, <2>2, <2>7, <3>5, <3>6 DEF ImageFound
    <3>8. Copied' /\ Appended' /\ Reading'
      BY <3>1 DEF Copied, Appended, Reading
    <3>9. Finished' /\ Parsed'
      BY <1>i, <1>u, <3>1, NotFinished
    <3> QED
      BY <1>c, <3>2, <3>3, <3>4, <3>7, <3>8, <3>9 DEF IInv
  <2>8. CASE ~IsValid(found)
    <3>1. pc' = "done" /\ handler' = ReportMessage(cleared, "error")
      BY <2>2, <2>5, <2>8
    <3>2. Types'
      BY <1>i, <1>u, <2>2, <2>4, <3>1 DEF Types
    <3>3. Messages' /\ HasErrorMessages(handler)'
      <4>1. AreErrors(handler') /\ HasErrorMessages(handler')
        BY <2>6, <3>1, Reported
      <4> QED
        BY <4>1 DEF Messages
    <3>4. Started' /\ ImageFound' /\ Copied' /\ Appended' /\ Reading'
      BY <3>1 DEF Started, ImageFound, Copied, Appended, Reading
    <3>5. Finished' /\ Parsed'
      BY <1>i, <1>s, <1>u, <3>3, Failed
    <3> QED
      BY <1>c, <3>2, <3>3, <3>4, <3>5 DEF IInv
  <2> QED
    BY <2>7, <2>8
<1> QED
  BY <1>1, <1>2

\* What a failed transfer reports is an error, and the reports before it are kept.
LEMMA HandledOutcome ==
    \A outcome : Messages =>
        /\ AreErrors(HandlerAfter(outcome))
        /\ HasErrorMessages(handler) => HasErrorMessages(HandlerAfter(outcome))
        /\ outcome.result = "error" => HasErrorMessages(HandlerAfter(outcome))
  BY Reported DEF HandlerAfter, Messages

LEMMA TransferImageIsSound == IInv /\ TransferImage => IInv'
<1> SUFFICES ASSUME IInv, TransferImage
             PROVE  IInv'
  OBVIOUS
<1>i. /\ Types /\ Messages /\ Cuts /\ Started /\ ImageFound /\ Copied /\ Appended
      /\ Reading /\ Finished /\ Parsed
  BY DEF IInv
<1>u. /\ pc = "image"
      /\ UNCHANGED <<files, output, others, original, image, size, appended,
                     written, held_back, changes, parse>>
  BY DEF TransferImage, names
<1>s. Empty(dest) /\ appended = <<>> /\ ~written
  BY <1>i, <1>u DEF Started
<1>f. output = "out" /\ IsValid(image) /\ image = FirstImage(original["in"])
  BY <1>i, <1>u DEF ImageFound
<1>c. Cuts'
  BY <1>i, <1>u DEF Cuts, TransferImage
<1>1. CASE files["in"] = Absent
  <2>1. pc' = "crashed" /\ handler' = handler /\ dest' = dest /\ expected' = expected
    BY <1>1 DEF TransferImage
  <2>2. Types' /\ Messages'
    BY <1>i, <1>u, <2>1 DEF Types, Messages
  <2>3. Started' /\ ImageFound' /\ Copied' /\ Appended' /\ Reading'
    BY <1>s, <1>u, <2>1 DEF Started, ImageFound, Copied, Appended, Reading
  <2>4. Finished' /\ Parsed'
    BY <1>i, <1>u, <2>1, NotFinished
  <2> QED
    BY <1>c, <2>2, <2>3, <2>4 DEF IInv
<1>2. CASE files["in"] # Absent
  <2>1. PICK outcome : outcome = TransferData(NewIStream(Len(files["in"]), TRUE),
                                              Bytes(files["in"]), image, dest)
    OBVIOUS
  <2>2. /\ dest' = outcome.dest /\ handler' = HandlerAfter(outcome)
        /\ expected' = Length(image) /\ pc' = "files"
    BY <1>2, <2>1, Zenon DEF TransferImage
  <2>3. files["in"] \in Seq(Symbols) /\ original["in"] \in Seq(Symbols)
    <3>1. files["in"] \in Files \cup {Absent} /\ original["in"] \in Files
      BY <1>i DEF Types, Names, Inputs
    <3> QED
      BY <1>2, <3>1 DEF Files
  <2>4. IsPart(files["in"], original["in"])
    <3>1. CutFrom(files["in"], original["in"], changes)
      BY <1>f, <1>i DEF Cuts, Inputs
    <3> QED
      BY <1>2, <3>1 DEF CutFrom
  <2>5. PICK b \in Nat, e \in Nat :
           image = NewRange(b, e) /\ b < e /\ e <= Len(original["in"])
    <3>1. image \in DataRange /\ image.end <= Len(original["in"])
      BY <1>f, <2>3, FirstImageType
    <3>2. image = NewRange(image.begin, image.end)
      BY <3>1 DEF DataRange, NewRange
    <3> QED
      BY <1>f, <3>1, <3>2 DEF DataRange, IsValid
  <2>6. IsImageSent(files["in"], original["in"], b, e, outcome)
    <3>1. dest \in OStreams(Symbols) /\ Len(dest.written) + dest.room < SizeModulus
      BY <1>i DEF Types
    <3>2. IsImageSent(files["in"], original["in"], b, e,
                      TransferData(NewIStream(Len(files["in"]), TRUE), Bytes(files["in"]),
                                   NewRange(b, e), dest))
      BY <1>s, <2>3, <2>4, <2>5, <3>1, ImageIsSent
    <3> QED
      BY <2>1, <2>5, <3>2
  <2>7. Length(image) = e - b /\ e - b \in Nat
    BY <2>5 DEF Length, IsValid, NewRange
  <2>8. Types'
    BY <1>i, <1>u, <2>2, <2>6, <2>7 DEF Types, IsImageSent
  <2>9. Messages' /\ (dest'.has_error => HasErrorMessages(handler)')
    <3>1. AreErrors(handler')
      BY <1>i, <2>2, HandledOutcome
    <3>2. dest'.has_error => HasErrorMessages(handler')
      BY <1>i, <2>2, <2>6, HandledOutcome DEF IsImageSent
    <3> QED
      BY <3>1, <3>2 DEF Messages
  <2>10. Started' /\ ImageFound'
    BY <1>f, <1>s, <1>u, <2>2 DEF Started, ImageFound
  <2>11. Copied'
    <3>1. FlattenSeq(appended') = <<>> /\ Len(<<>>) = 0
      BY <1>s, <1>u, Flattened, EmptySeq
    <3>2. expected' = Length(image) + Len(FlattenSeq(appended'))
      BY <2>2, <2>7, <3>1
    <3>3. ImageBytes(original["in"]) = SubSeq(original["in"], b + 1, e)
      BY <1>f, <2>5 DEF ImageBytes, NewRange
    <3>4. ImageBytes(original["in"]) \o FlattenSeq(appended') = SubSeq(original["in"], b + 1, e)
      <4>1. b <= e
        BY <2>5
      <4>2. SubSeq(original["in"], b + 1, e) \in Seq(Symbols)
        BY <2>3, <2>5, <4>1, PartOfSeq
      <4> QED
        BY <3>1, <3>3, <4>2, ConcatEmptySeq
    <3>5. ASSUME ~dest'.has_error
          PROVE  \/ /\ dest'.bytes_transferred = expected'
                    /\ dest'.written = ImageBytes(original["in"]) \o FlattenSeq(appended')
                 \/ /\ dest'.bytes_transferred < expected'
                    /\ IsShort(files["in"], original["in"])
      BY <2>2, <2>6, <2>7, <3>4, <3>5 DEF IsImageSent, IsShort
    <3> QED
      BY <1>u, <2>9, <3>2, <3>5 DEF Copied
  <2>12. Appended'
    BY <1>s, <1>u, EmptySeq DEF Appended
  <2>13. Reading'
    BY <2>2 DEF Reading
  <2>14. Finished' /\ Parsed'
    BY <1>i, <1>u, <2>2, NotFinished
  <2> QED
    BY <1>c, <2>8, <2>9, <2>10, <2>11, <2>12, <2>13, <2>14 DEF IInv
<1> QED
  BY <1>1, <1>2

\* The name of the next file, and the file.
LEMMA NextFileType ==
    ASSUME Types, Len(appended) < Len(others)
    PROVE  /\ NextFile \in Inputs \cup {""}
           /\ NextFile # "" => /\ NextFile \in Inputs
                               /\ Whole(NextFile) = original[NextFile]
                               /\ files[NextFile] \in Files \cup {Absent}
                               /\ original[NextFile] \in Files \cup {Absent}
<1>1. others \in Seq(Inputs \cup {""}) /\ Len(appended) \in Nat /\ Len(others) \in Nat
  <2>1. others \in Seq(Inputs \cup {""}) /\ appended \in Seq(Seq(Symbols))
    BY DEF Types
  <2> QED
    BY <2>1, LenProperties
<1>2. NextFile \in Inputs \cup {""}
  <2>1. PICK m \in Nat : m = Len(appended)
    BY <1>1
  <2>2. PICK l \in Nat : l = Len(others)
    BY <1>1
  <2>3. m < l
    BY <2>1, <2>2
  <2>4. m + 1 \in 1 .. Len(others)
    BY <2>2, <2>3
  <2> QED
    BY <1>1, <2>1, <2>4, ElementOfSeq DEF NextFile
<1>3. ASSUME NextFile # ""
      PROVE  /\ NextFile \in Inputs
             /\ Whole(NextFile) = original[NextFile]
             /\ files[NextFile] \in Files \cup {Absent}
             /\ original[NextFile] \in Files \cup {Absent}
  <2>1. NextFile \in Inputs
    BY <1>2, <1>3
  <2>2. NextFile \in Names
    BY <2>1, NamesOfFiles
  <2> QED
    BY <1>3, <2>1, <2>2 DEF Types, Whole
<1> QED
  BY <1>2, <1>3

LEMMA EmptyIsPrefix == ASSUME NEW s \in Seq(Symbols) PROVE IsPrefix(<<>>, s)
<1>1. \A t : SubSeq(t, 1, 0) = <<>>
  BY SubSeqEmpty
<1>2. Len(<<>>) = 0
  BY EmptySeq
<1>3. Len(s) \in Nat
  BY LenProperties
<1>4. PICK e : e = <<>> /\ Len(e) = 0 /\ SubSeq(e, 1, 0) = e /\ SubSeq(s, 1, 0) = e
  BY <1>1, <1>2
<1>5. Len(e) <= Len(s) /\ SubSeq(e, 1, Len(e)) = SubSeq(s, 1, Len(e))
  BY <1>3, <1>4
<1> QED
  BY <1>4, <1>5, Zenon DEF IsPrefix

\* A file is passed over, because it has no name or after an error.
LEMMA SkipIsSound ==
    ASSUME IInv, pc \in {"files", "read"}, Len(appended) < Len(others), SkipFile,
           UNCHANGED <<files, output, others, original, image, dest, expected, written,
                       held_back, changes, parse>>,
           size' \in Nat,
           AreErrors(handler'), HasErrorMessages(handler) => HasErrorMessages(handler'),
           \/ NextFile = ""
           \/ /\ HasErrorMessages(handler')
              /\ changes = 0 => original[NextFile] = Absent
    PROVE  IInv'
<1>i. /\ Types /\ Messages /\ Cuts /\ Started /\ ImageFound /\ Copied /\ Appended
      /\ Reading /\ Finished /\ Parsed
  BY DEF IInv
<1>1. appended' = Append(appended, <<>>) /\ pc' = "files"
  BY DEF SkipFile
<1>2. <<>> \in Seq(Symbols)
  BY EmptySeq
<1>3. IsAppended(<<>>, NextFile, Whole(NextFile), changes)
  <2>1. CASE NextFile = "" \/ Whole(NextFile) = Absent
    BY <2>1 DEF IsAppended
  <2>2. CASE NextFile # "" /\ Whole(NextFile) # Absent
    <3>1. Whole(NextFile) = original[NextFile] /\ original[NextFile] \in Seq(Symbols)
      BY <1>i, <2>2, NextFileType DEF Files
    <3>2. changes # 0
      BY <2>2, <3>1
    <3>3. IsPrefix(<<>>, original[NextFile])
      BY <3>1, EmptyIsPrefix
    <3> QED
      BY <2>2, <3>1, <3>2, <3>3 DEF IsAppended
  <2> QED
    BY <2>1, <2>2
<1>4. \/ HasErrorMessages(handler)'
      \/ IsAccountedFor(<<>>, NextFile, Whole(NextFile), changes)
  BY DEF IsAccountedFor
<1>5. /\ appended' \in Seq(Seq(Symbols)) /\ Len(appended') <= Len(others)
      /\ FlattenSeq(appended') = FlattenSeq(appended) \o <<>>
      /\ Appended'
  BY <1>1, <1>2, <1>3, <1>4, <1>i, OneMoreAppended
<1>6. FlattenSeq(appended') = FlattenSeq(appended)
  BY <1>5, <1>i, NothingAppended
<1>7. Types'
  BY <1>1, <1>5, <1>i DEF Types
<1>8. Messages'
  BY DEF Messages, AreErrors
<1>9. Cuts'
  BY <1>1, <1>i DEF Cuts
<1>10. Started'
  BY <1>1, <1>i DEF Started
<1>11. ImageFound'
  BY <1>1, <1>i DEF ImageFound
<1>12. Copied'
  BY <1>1, <1>6, <1>i DEF Copied
<1>13. Reading'
  BY <1>1 DEF Reading
<1>14. Finished' /\ Parsed'
  BY <1>1, <1>i, NotFinished
<1> QED
  BY <1>5, <1>7, <1>8, <1>9, <1>10, <1>11, <1>12, <1>13, <1>14 DEF IInv

LEMMA StatFileIsSound == IInv /\ StatFile => IInv'
<1> SUFFICES ASSUME IInv, StatFile
             PROVE  IInv'
  OBVIOUS
<1>i. /\ Types /\ Messages /\ Cuts /\ Started /\ ImageFound /\ Copied /\ Appended
      /\ Reading /\ Finished /\ Parsed
  BY DEF IInv
<1>u. /\ pc = "files" /\ Len(appended) < Len(others)
      /\ UNCHANGED <<files, output, others, original, image, dest, expected, written,
                     held_back, changes, parse>>
  BY DEF StatFile, names
<1>n. size \in Nat
  BY <1>i DEF Types
<1>f. output = "out"
  BY <1>i, <1>u DEF ImageFound
<1>c. NextFile # "" => CutFrom(files[NextFile], original[NextFile], changes)
  BY <1>f, <1>i, <1>u, NextFileType, NamesOfFiles DEF Cuts
<1>1. CASE NextFile = "" /\ SkipFile /\ UNCHANGED <<handler, size>>
  <2>1. AreErrors(handler')
    BY <1>1, <1>i DEF Messages
  <2> QED
    BY <1>1, <1>n, <1>u, <2>1, SkipIsSound
<1>2. CASE /\ NextFile # "" /\ files[NextFile] = Absent
           /\ handler' = ReportMessage(handler, "error")
           /\ SkipFile /\ UNCHANGED size
  <2>1. AreErrors(handler') /\ HasErrorMessages(handler')
    BY <1>2, <1>i, Reported DEF Messages
  <2>2. changes = 0 => original[NextFile] = Absent
    BY <1>2, <1>c DEF CutFrom
  <2> QED
    BY <1>2, <1>n, <1>u, <2>1, <2>2, SkipIsSound
<1>3. CASE /\ NextFile # "" /\ files[NextFile] # Absent
           /\ size' = Len(files[NextFile]) /\ pc' = "read"
           /\ UNCHANGED <<handler, appended>>
  <2>1. /\ original[NextFile] # Absent
        /\ IsPart(files[NextFile], original[NextFile])
        /\ Len(original[NextFile]) <= Len(files[NextFile]) + changes
    BY <1>3, <1>c DEF CutFrom
  <2>2. Len(files[NextFile]) \in Nat
    BY <1>3, <1>i, <1>u, NextFileType, LenProperties DEF Files
  <2>3. Types'
    BY <1>3, <1>i, <1>u, <2>2 DEF Types
  <2>4. Messages' /\ Cuts'
    BY <1>3, <1>i, <1>u DEF Messages, Cuts
  <2>5. Started'
    BY <1>3, <1>i, <1>u DEF Started
  <2>6. ImageFound' /\ Copied'
    BY <1>3, <1>i, <1>u DEF ImageFound, Copied
  <2>7. Appended'
    BY <1>3, <1>i, <1>u DEF Appended, Whole
  <2>8. Reading'
    <3>1. NextFile' = NextFile
      BY <1>3, <1>u DEF NextFile
    <3>2. PICK n \in Nat : n = Len(files[NextFile]) /\ n = size'
      BY <1>3, <2>2
    <3>3. n <= Len(original[NextFile])
      BY <2>1, <3>2 DEF IsPart
    <3>4. size' <= Len(original[NextFile]) /\ Len(original[NextFile]) <= size' + changes
          /\ Len(files[NextFile]) <= size'
      BY <2>1, <3>2, <3>3
    <3> QED
      BY <1>3, <1>u, <2>1, <3>1, <3>4 DEF Reading
  <2>9. Finished' /\ Parsed'
    BY <1>3, <1>i, <1>u, NotFinished
  <2> QED
    BY <2>3, <2>4, <2>5, <2>6, <2>7, <2>8, <2>9 DEF IInv
<1> QED
  BY <1>1, <1>2, <1>3 DEF StatFile

LEMMA FrontOfSeq ==
    ASSUME NEW S, NEW seq \in Seq(S), NEW e \in Nat, e <= Len(seq)
    PROVE  /\ SubSeq(seq, 1, e) \in Seq(S)
           /\ Len(SubSeq(seq, 1, e)) = e
           /\ \A k \in 1 .. e : SubSeq(seq, 1, e)[k] = seq[k]
<1>1. 0 <= e /\ e - 0 = e /\ 0 + 1 = 1 /\ \A k \in 1 .. e : 0 + k = k
  OBVIOUS
<1>2. /\ SubSeq(seq, 0 + 1, e) \in Seq(S)
      /\ Len(SubSeq(seq, 0 + 1, e)) = e - 0
      /\ \A k \in 1 .. e - 0 : SubSeq(seq, 0 + 1, e)[k] = seq[0 + k]
  BY <1>1, PartOfSeq
<1>3. PICK part : part = SubSeq(seq, 1, e)
  OBVIOUS
<1>4. SubSeq(seq, 0 + 1, e) = part
  BY <1>1, <1>3, Zenon
<1>5. part \in Seq(S) /\ Len(part) = e
  BY <1>1, <1>2, <1>4, Zenon
<1>6. \A k \in 1 .. e : part[k] = seq[k]
  BY <1>1, <1>2, <1>4
<1> QED
  BY <1>3, <1>5, <1>6

\* A content whose end was cut off is a prefix.
LEMMA PartIsPrefix ==
    ASSUME NEW part \in Seq(Symbols), NEW whole \in Seq(Symbols), IsPart(part, whole)
    PROVE  /\ IsPrefix(part, whole)
           /\ Len(whole) <= Len(part) => part = whole
<1>1. PICK m \in Nat, l \in Nat : m = Len(part) /\ l = Len(whole) /\ m <= l
  BY LenProperties DEF IsPart
<1>2. \A k \in 1 .. m : part[k] = whole[k]
  BY <1>1 DEF IsPart
<1>m. m <= Len(part) /\ m <= Len(whole) /\ m \in Nat
  BY <1>1
<1>3. PICK p \in Seq(Symbols) :
         /\ p = SubSeq(part, 1, m) /\ Len(p) = m
         /\ \A k \in 1 .. m : p[k] = part[k]
  <2>1. /\ SubSeq(part, 1, m) \in Seq(Symbols) /\ Len(SubSeq(part, 1, m)) = m
        /\ \A k \in 1 .. m : SubSeq(part, 1, m)[k] = part[k]
    BY <1>m, FrontOfSeq
  <2> QED
    BY <2>1, Zenon
<1>4. PICK q \in Seq(Symbols) :
         /\ q = SubSeq(whole, 1, m) /\ Len(q) = m
         /\ \A k \in 1 .. m : q[k] = whole[k]
  <2>1. /\ SubSeq(whole, 1, m) \in Seq(Symbols) /\ Len(SubSeq(whole, 1, m)) = m
        /\ \A k \in 1 .. m : SubSeq(whole, 1, m)[k] = whole[k]
    BY <1>m, FrontOfSeq
  <2> QED
    BY <2>1, Zenon
<1>6. p = q
  BY <1>2, <1>3, <1>4, SeqEqual
<1>7. IsPrefix(part, whole)
  BY <1>1, <1>3, <1>4, <1>6 DEF IsPrefix
<1>8. ASSUME Len(whole) <= Len(part)
      PROVE  part = whole
  <2>1. Len(part) = Len(whole) /\ \A k \in 1 .. Len(part) : part[k] = whole[k]
    BY <1>1, <1>2, <1>8
  <2> QED
    BY <2>1, SeqEqual
<1> QED
  BY <1>7, <1>8

\* What there is to be read of a file, of which the length was asked for before.
IsToRead(content, whole, length, n) ==
    /\ whole \in Seq(Symbols) /\ whole # Absent /\ length \in Nat /\ n \in Nat
    /\ length <= Len(whole) /\ Len(whole) <= length + n
    /\ content = Absent => n # 0
    /\ content # Absent => /\ content \in Seq(Symbols)
                           /\ IsPart(content, whole)
                           /\ n = 0 => content = whole

\* A read that fails: somebody has changed the file.
LEMMA NotRead ==
    ASSUME NEW content, NEW whole, NEW length, NEW n, IsToRead(content, whole, length, n),
           content = Absent \/ ~(Len(content) >= length)
    PROVE  n # 0
<1>1. ASSUME content # Absent, n = 0
      PROVE  FALSE
  <2>1. content = whole /\ length <= Len(whole) /\ length \in Nat /\ whole \in Seq(Symbols)
    BY <1>1 DEF IsToRead
  <2>2. Len(whole) \in Nat
    BY <2>1, LenProperties
  <2> QED
    BY <1>1, <2>1, <2>2
<1> QED
  BY <1>1 DEF IsToRead

\* What was read of a file.
IsRead(part, whole, length, n) ==
    /\ part \in Seq(Symbols) /\ Len(part) = length
    /\ IsPrefix(part, whole)
    /\ n = 0 => part = whole
    /\ part = <<>> => Len(whole) <= n

LEMMA PartIsRead ==
    ASSUME NEW content, NEW whole, NEW length, NEW n, IsToRead(content, whole, length, n),
           content # Absent, Len(content) >= length
    PROVE  IsRead(SubSeq(content, 1, length), whole, length, n)
<1>1. /\ whole \in Seq(Symbols) /\ length \in Nat /\ n \in Nat
      /\ content \in Seq(Symbols) /\ IsPart(content, whole)
  BY DEF IsToRead
<1>2. PICK l \in Nat, w \in Nat : l = Len(content) /\ w = Len(whole)
  BY <1>1, LenProperties
<1>3. length <= l /\ length <= w /\ w <= length + n
  BY <1>1, <1>2 DEF IsToRead
<1>5. PICK part \in Seq(Symbols) :
         /\ part = SubSeq(content, 1, length) /\ Len(part) = length
         /\ \A k \in 1 .. length : part[k] = content[k]
  <2>1. length <= Len(content)
    BY <1>1, <1>2, <1>3
  <2>2. /\ SubSeq(content, 1, length) \in Seq(Symbols)
        /\ Len(SubSeq(content, 1, length)) = length
        /\ \A k \in 1 .. length : SubSeq(content, 1, length)[k] = content[k]
    BY <1>1, <2>1, FrontOfSeq
  <2> QED
    BY <2>2, Zenon
<1>6. \A k \in 1 .. l : content[k] = whole[k]
  BY <1>1, <1>2 DEF IsPart
<1>7. IsPart(part, whole)
  BY <1>1, <1>2, <1>3, <1>5, <1>6 DEF IsPart
<1>8. IsPrefix(part, whole) /\ (Len(whole) <= Len(part) => part = whole)
  BY <1>1, <1>5, <1>7, PartIsPrefix
<1>9. n = 0 => Len(whole) <= Len(part)
  BY <1>1, <1>2, <1>3, <1>5
<1>10. part = <<>> => Len(whole) <= n
  <2>1. part = <<>> => length = 0
    BY <1>5, EmptySeq
  <2> QED
    BY <1>1, <1>2, <1>3, <2>1
<1> QED
  BY <1>5, <1>8, <1>9, <1>10 DEF IsRead

LEMMA ChangesType == changes \in 0 .. MaxChanges => changes \in Nat
<1>1. MaxChanges \in Nat
  BY GContainerAssumption, Zenon
<1> QED
  BY <1>1

LEMMA FileToRead ==
    ASSUME IInv, pc = "read"
    PROVE  /\ Len(appended) < Len(others) /\ NextFile # ""
           /\ Whole(NextFile) = original[NextFile] /\ original[NextFile] # Absent
           /\ IsToRead(files[NextFile], original[NextFile], size, changes)
<1>1. Types /\ Cuts /\ ImageFound /\ Reading
  BY DEF IInv
<1>2. /\ Len(appended) < Len(others) /\ NextFile # "" /\ original[NextFile] # Absent
      /\ size <= Len(original[NextFile]) /\ Len(original[NextFile]) <= size + changes
  BY <1>1 DEF Reading
<1>3. output = "out"
  BY <1>1 DEF ImageFound
<1>4. /\ NextFile \in Inputs /\ Whole(NextFile) = original[NextFile]
      /\ files[NextFile] \in Files \cup {Absent}
      /\ original[NextFile] \in Files \cup {Absent}
  BY <1>1, <1>2, NextFileType
<1>5. CutFrom(files[NextFile], original[NextFile], changes)
  <2>1. NextFile # output
    BY <1>3, <1>4, NamesOfFiles
  <2> QED
    BY <1>1, <1>4, <2>1 DEF Cuts
<1>6. size \in Nat /\ changes \in Nat
  BY <1>1, ChangesType DEF Types
<1>7. original[NextFile] \in Seq(Symbols)
  BY <1>2, <1>4 DEF Files
<1>8. files[NextFile] # Absent => files[NextFile] \in Seq(Symbols)
  BY <1>4 DEF Files
<1>9. /\ files[NextFile] = Absent => changes # 0
      /\ files[NextFile] # Absent =>
            /\ IsPart(files[NextFile], original[NextFile])
            /\ changes = 0 => files[NextFile] = original[NextFile]
  BY <1>2, <1>5, Zenon DEF CutFrom
<1>10. IsToRead(files[NextFile], original[NextFile], size, changes)
  BY <1>2, <1>6, <1>7, <1>8, <1>9, Zenon DEF IsToRead
<1> QED
  BY <1>2, <1>4, <1>10

LEMMA ImageBytesType ==
    ASSUME Types, ImageFound, pc \in {"image", "files", "read"}
    PROVE  /\ ImageBytes(original["in"]) \in Seq(Symbols)
           /\ Length(image) \in Nat
           /\ Len(ImageBytes(original["in"])) = Length(image)
<1>1. original["in"] \in Seq(Symbols)
  BY DEF Types, Files
<1>2. IsValid(image) /\ image = FirstImage(original["in"])
  BY DEF ImageFound
<1>3. PICK b \in Nat, e \in Nat : /\ b = FirstImage(original["in"]).begin
                                  /\ e = FirstImage(original["in"]).end
                                  /\ b < e /\ e <= Len(original["in"])
  BY <1>1, <1>2, FirstImageType DEF DataRange, IsValid
<1>4. PICK m \in Nat : m = e - b
  BY <1>3
<1>5. Length(image) = m
  BY <1>2, <1>3, <1>4 DEF Length, IsValid
<1>6. b <= e
  BY <1>3
<1>7. /\ SubSeq(original["in"], b + 1, e) \in Seq(Symbols)
      /\ Len(SubSeq(original["in"], b + 1, e)) = e - b
  BY <1>1, <1>3, <1>6, PartOfSeq
<1> QED
  BY <1>3, <1>4, <1>5, <1>7 DEF ImageBytes

MoreCopied(i, f, p, d, e, o) ==
    /\ d.written = i \o f /\ d.bytes_transferred = e =>
          /\ o.dest.written = i \o (f \o p)
          /\ o.dest.bytes_transferred = e + Len(p)
    /\ d.bytes_transferred < e => o.dest.bytes_transferred < e + Len(p)

LEMMA MoreIsCopied ==
    \A i, f, p, d, e, o :
        /\ i \in Seq(Symbols) /\ f \in Seq(Symbols) /\ p \in Seq(Symbols)
        /\ d \in OStreams(Symbols) /\ e \in Nat
        /\ IsSent(d, p, o) /\ ~o.dest.has_error
        => MoreCopied(i, f, p, d, e, o)
<1> TAKE i, f, p, d, e, o
<1> HAVE /\ i \in Seq(Symbols) /\ f \in Seq(Symbols) /\ p \in Seq(Symbols)
         /\ d \in OStreams(Symbols) /\ e \in Nat
         /\ IsSent(d, p, o) /\ ~o.dest.has_error
<1>1. /\ o.dest.written = d.written \o p
      /\ o.dest.bytes_transferred = d.bytes_transferred + Len(p)
  BY DEF IsSent
<1>2. PICK m \in Nat : m = Len(p)
  BY LenProperties
<1>3. PICK b \in Nat : b = d.bytes_transferred
  BY DEF OStreams
<1>4. (i \o f) \o p = i \o (f \o p)
  BY SymbolsJoin
<1>5. ASSUME d.written = i \o f /\ d.bytes_transferred = e
      PROVE  /\ o.dest.written = i \o (f \o p)
             /\ o.dest.bytes_transferred = e + Len(p)
  BY <1>1, <1>4, <1>5, Zenon
<1>6. ASSUME d.bytes_transferred < e
      PROVE  o.dest.bytes_transferred < e + Len(p)
  <2>1. o.dest.bytes_transferred = b + m /\ b < e
    BY <1>1, <1>2, <1>3, <1>6
  <2> QED
    BY <1>2, <2>1
<1> QED
  BY <1>5, <1>6 DEF MoreCopied

LEMMA AppendFileIsSound == IInv /\ AppendFile => IInv'
<1> SUFFICES ASSUME IInv, AppendFile
             PROVE  IInv'
  OBVIOUS
<1>i. /\ Types /\ Messages /\ Cuts /\ Started /\ ImageFound /\ Copied /\ Appended
      /\ Reading /\ Finished /\ Parsed
  BY DEF IInv
<1>u. /\ pc = "read"
      /\ UNCHANGED <<files, output, others, original, image, size, written,
                     held_back, changes, parse>>
  BY DEF AppendFile, names
<1>r. /\ Len(appended) < Len(others) /\ NextFile # ""
      /\ Whole(NextFile) = original[NextFile] /\ original[NextFile] # Absent
      /\ IsToRead(files[NextFile], original[NextFile], size, changes)
  BY <1>u, FileToRead
<1>s. size \in Nat
  BY <1>i DEF Types
<1>n. size' \in Nat
  BY <1>s, <1>u
<1>1. CASE /\ files[NextFile] = Absent
           /\ handler' = ReportMessage(ReportMessage(handler, "error"), "error")
           /\ SkipFile
           /\ UNCHANGED <<dest, expected>>
  <2>1. PICK once : once = ReportMessage(handler, "error") /\ AreErrors(once)
    BY <1>i, Reported DEF Messages
  <2>2. AreErrors(handler') /\ HasErrorMessages(handler')
    BY <1>1, <2>1, Reported
  <2>3. changes # 0
    BY <1>1, <1>r, NotRead
  <2> QED
    BY <1>1, <1>n, <1>r, <1>u, <2>2, <2>3, SkipIsSound
<1>2. CASE /\ files[NextFile] # Absent /\ ~ReadsAll(files[NextFile])
           /\ handler' = ReportMessage(handler, "error")
           /\ SkipFile
           /\ UNCHANGED <<dest, expected>>
  <2>1. AreErrors(handler') /\ HasErrorMessages(handler')
    BY <1>2, <1>i, Reported DEF Messages
  <2>2. changes # 0
    BY <1>2, <1>r, NotRead DEF ReadsAll
  <2> QED
    BY <1>2, <1>n, <1>r, <1>u, <2>1, <2>2, SkipIsSound
<1>3. ASSUME files[NextFile] # Absent, ReadsAll(files[NextFile]),
             NEW part, part = SubSeq(files[NextFile], 1, size),
             NEW outcome, outcome = TransferData(NewInMemory(NewRange(0, size)),
                                                 Bytes(part), NewRange(0, size), dest),
             dest' = outcome.dest, handler' = HandlerAfter(outcome), Expect(size),
             appended' = Append(appended, part), pc' = "files"
      PROVE  IInv'
  <2>1. IsRead(part, original[NextFile], size, changes)
    BY <1>3, <1>r, PartIsRead DEF ReadsAll
  <2>2. part \in Seq(Symbols) /\ Len(part) = size
    BY <2>1 DEF IsRead
  <2>3. IsAppended(part, NextFile, Whole(NextFile), changes)
    BY <1>r, <2>1, Zenon DEF IsRead, IsAppended
  <2>4. IsAccountedFor(part, NextFile, Whole(NextFile), changes)
    BY <1>r, <2>1, Zenon DEF IsRead, IsAccountedFor
  <2>5. IsSent(dest, part, outcome) /\ dest \in OStreams(Symbols)
    <3>1. dest \in OStreams(Symbols) /\ Len(dest.written) + dest.room < SizeModulus
      BY <1>i DEF Types
    <3>2. IsSent(dest, part, TransferData(NewInMemory(NewRange(0, Len(part))), Bytes(part),
                                          NewRange(0, Len(part)), dest))
      BY <2>2, <3>1, PartIsSent
    <3> QED
      BY <1>3, <2>2, <3>1, <3>2
  <2>6. /\ AreErrors(handler')
        /\ HasErrorMessages(handler) => HasErrorMessages(handler)'
        /\ outcome.result = "error" => HasErrorMessages(handler)'
    <3>1. /\ AreErrors(HandlerAfter(outcome))
          /\ HasErrorMessages(handler) => HasErrorMessages(HandlerAfter(outcome))
          /\ outcome.result = "error" => HasErrorMessages(HandlerAfter(outcome))
      BY <1>i, HandledOutcome
    <3> QED
      BY <1>3, <3>1
  <2>7. /\ appended' \in Seq(Seq(Symbols)) /\ Len(appended') <= Len(others)
        /\ FlattenSeq(appended') = FlattenSeq(appended) \o part
        /\ Appended'
    BY <1>3, <1>i, <1>r, <1>u, <2>2, <2>3, <2>4, <2>6, OneMoreAppended
  <2>e. expected' = expected + size /\ expected \in Nat /\ expected' \in Nat
    <3>1. expected' = expected + size /\ expected \in Nat
      BY <1>3, <1>i DEF Expect, Types
    <3> QED
      BY <1>s, <3>1
  <2>8. Types'
    BY <1>3, <1>i, <1>u, <2>5, <2>7, <2>e DEF Types, IsSent
  <2>9. Messages'
    BY <2>6 DEF Messages, AreErrors
  <2>10. Cuts' /\ Started' /\ ImageFound'
    BY <1>3, <1>i, <1>u DEF Cuts, Started, ImageFound
  <2>11. Copied'
    <3>1. /\ expected = Length(image) + Len(FlattenSeq(appended))
          /\ dest.has_error => HasErrorMessages(handler)
          /\ ~dest.has_error =>
                \/ /\ dest.bytes_transferred = expected
                   /\ dest.written = ImageBytes(original["in"]) \o FlattenSeq(appended)
                \/ /\ dest.bytes_transferred < expected
                   /\ IsShort(files["in"], original["in"])
      BY <1>i, <1>u DEF Copied
    <3>2. PICK flat \in Seq(Symbols) : flat = FlattenSeq(appended)
      BY <1>i, Flattened DEF Types
    <3>3. PICK i \in Seq(Symbols) : i = ImageBytes(original["in"])
      BY <1>i, <1>u, ImageBytesType
    <3>4. dest'.has_error => HasErrorMessages(handler)'
      BY <1>3, <2>5, <2>6, <3>1 DEF IsSent
    <3>5. expected' = Length(image) + Len(FlattenSeq(appended'))
      <4>1. Len(flat \o part) = Len(flat) + Len(part)
        BY <2>2, <3>2, SymbolsJoin
      <4>2. PICK m \in Nat, l \in Nat : m = Len(flat) /\ l = Length(image)
        BY <1>i, <1>u, <3>2, LenProperties, ImageBytesType
      <4>3. Len(FlattenSeq(appended')) = m + size
        BY <2>2, <2>7, <3>2, <4>1, <4>2
      <4>4. expected = l + m
        BY <3>1, <3>2, <4>2
      <4> QED
        BY <1>s, <2>e, <4>2, <4>3, <4>4
    <3>6. ASSUME ~dest'.has_error
          PROVE  \/ /\ dest'.bytes_transferred = expected'
                    /\ dest'.written = ImageBytes(original["in"]) \o FlattenSeq(appended')
                 \/ /\ dest'.bytes_transferred < expected'
                    /\ IsShort(files["in"], original["in"])
      <4>1. ~outcome.dest.has_error /\ ~dest.has_error
        BY <1>3, <2>5, <3>6 DEF IsSent
      <4>2. MoreCopied(i, flat, part, dest, expected, outcome)
        <5>1. /\ i \in Seq(Symbols) /\ flat \in Seq(Symbols) /\ part \in Seq(Symbols)
              /\ dest \in OStreams(Symbols) /\ expected \in Nat
              /\ IsSent(dest, part, outcome) /\ ~outcome.dest.has_error
          BY <2>2, <2>5, <2>e, <3>2, <3>3, <4>1, Zenon
        <5> QED
          BY <5>1, MoreIsCopied, Zenon
      <4> QED
        BY <1>3, <2>2, <2>7, <2>e, <3>1, <3>2, <3>3, <4>1, <4>2 DEF MoreCopied
    <3> QED
      BY <1>3, <1>u, <3>4, <3>5, <3>6 DEF Copied
  <2>12. Reading'
    BY <1>3 DEF Reading
  <2>13. Finished' /\ Parsed'
    BY <1>3, <1>i, <1>u, NotFinished
  <2> QED
    BY <2>7, <2>8, <2>9, <2>10, <2>11, <2>12, <2>13 DEF IInv
<1>4. ASSUME files[NextFile] # Absent, ReadsAll(files[NextFile]),
             \E outcome \in {TransferData(NewInMemory(NewRange(0, size)),
                                          Bytes(SubSeq(files[NextFile], 1, size)),
                                          NewRange(0, size), dest)} :
                /\ dest' = outcome.dest
                /\ handler' = HandlerAfter(outcome),
             Expect(size), appended' = Append(appended, SubSeq(files[NextFile], 1, size)),
             pc' = "files"
      PROVE  IInv'
  <2>1. PICK part : part = SubSeq(files[NextFile], 1, size)
    OBVIOUS
  <2>2. PICK outcome : /\ outcome = TransferData(NewInMemory(NewRange(0, size)), Bytes(part),
                                                 NewRange(0, size), dest)
                       /\ dest' = outcome.dest
                       /\ handler' = HandlerAfter(outcome)
    BY <1>4, <2>1, Zenon
  <2> QED
    BY <1>3, <1>4, <2>1, <2>2, Zenon
<1> QED
  BY <1>1, <1>2, <1>4, Zenon DEF AppendFile

\* What the flush leaves in the output file.
LEMMA FlushedFile ==
    ASSUME NEW whole \in Seq(Symbols), NEW room \in Nat, Len(whole) + room < SizeModulus,
           NEW lost \in 0 .. Smaller(MaxHeldBack, Len(whole))
    PROVE  /\ lost \in Nat
           /\ SubSeq(whole, 1, Len(whole) - lost) \in Files
           /\ lost = 0 => SubSeq(whole, 1, Len(whole) - lost) = whole
<1>1. PICK l \in Nat : l = Len(whole)
  BY LenProperties
<1>2. lost \in Nat /\ lost <= l
  <2>1. MaxHeldBack \in Nat
    BY GContainerAssumption, Zenon
  <2> QED
    BY <1>1, <2>1 DEF Smaller
<1>3. PICK m \in Nat : m = l - lost /\ m <= l /\ (lost = 0 => m = l)
  BY <1>1, <1>2
<1>4. m <= Len(whole)
  BY <1>1, <1>3
<1>5. /\ SubSeq(whole, 1, m) \in Seq(Symbols) /\ Len(SubSeq(whole, 1, m)) = m
      /\ \A k \in 1 .. m : SubSeq(whole, 1, m)[k] = whole[k]
  BY <1>4, FrontOfSeq
<1>6. SubSeq(whole, 1, m) \in Files
  <2>1. m < SizeModulus
    BY <1>1, <1>3, ModulusType
  <2> QED
    BY <1>5, <2>1 DEF Files
<1>7. ASSUME lost = 0
      PROVE  SubSeq(whole, 1, m) = whole
  <2>1. Len(SubSeq(whole, 1, m)) = Len(whole)
    BY <1>1, <1>3, <1>5, <1>7
  <2>2. \A k \in 1 .. Len(whole) : SubSeq(whole, 1, m)[k] = whole[k]
    BY <1>1, <1>3, <1>5, <1>7
  <2> QED
    BY <1>5, <2>1, <2>2, SeqEqual
<1>8. SubSeq(whole, 1, Len(whole) - lost) = SubSeq(whole, 1, m)
  BY <1>1, <1>3
<1> QED
  BY <1>2, <1>6, <1>7, <1>8

LEMMA FinishWriteIsSound == IInv /\ FinishWrite => IInv'
<1> SUFFICES ASSUME IInv, FinishWrite
             PROVE  IInv'
  OBVIOUS
<1>i. /\ Types /\ Messages /\ Cuts /\ Started /\ ImageFound /\ Copied /\ Appended
      /\ Reading /\ Finished /\ Parsed
  BY DEF IInv
<1>u. /\ pc = "files" /\ pc' = "done" /\ Len(appended) = Len(others)
      /\ UNCHANGED <<output, others, original, handler, image, dest, size, expected,
                     appended, changes, parse>>
  BY DEF FinishWrite, names
<1>o. output = "out" /\ IsValid(image) /\ image = FirstImage(original["in"])
  BY <1>i, <1>u DEF ImageFound
<1>1. PICK lost \in 0 .. Smaller(MaxHeldBack, Len(dest.written)) :
         /\ files' = [files EXCEPT ![output] =
                         SubSeq(dest.written, 1, Len(dest.written) - lost)]
         /\ held_back' = (lost > 0)
  BY DEF FinishWrite
<1>2. PICK flushed : flushed = SubSeq(dest.written, 1, Len(dest.written) - lost)
  OBVIOUS
<1>w. PICK whole \in Seq(Symbols), room \in Nat :
         whole = dest.written /\ room = dest.room /\ Len(whole) + room < SizeModulus
  BY <1>i DEF Types, OStreams
<1>3. lost \in Nat /\ flushed \in Files /\ (lost = 0 => flushed = dest.written)
  <2>1. lost \in 0 .. Smaller(MaxHeldBack, Len(whole))
    BY <1>1, <1>w
  <2>2. /\ lost \in Nat
        /\ SubSeq(whole, 1, Len(whole) - lost) \in Files
        /\ lost = 0 => SubSeq(whole, 1, Len(whole) - lost) = whole
    BY <1>w, <2>1, FlushedFile
  <2> QED
    BY <1>2, <1>w, <2>2
<1>4. /\ files' \in [Names -> Files \cup {Absent}]
      /\ files'["out"] = flushed /\ \A name \in Inputs : files'[name] = files[name]
  <2>1. files' = [files EXCEPT !["out"] = flushed]
    BY <1>1, <1>2, <1>o
  <2> QED
    BY <1>3, <1>i, <2>1, NamesOfFiles DEF Types
<1>5. written' = WroteItAll
  BY DEF FinishWrite
<1>6. Types'
  <2>1. written' \in BOOLEAN /\ held_back' \in BOOLEAN
    BY <1>1, <1>5 DEF WroteItAll
  <2> QED
    BY <1>4, <1>i, <1>u, <2>1 DEF Types
<1>7. Messages'
  BY <1>i, <1>u DEF Messages
<1>8. Cuts'
  BY <1>4, <1>i, <1>o, <1>u, NamesOfFiles DEF Cuts
<1>9. Started' /\ ImageFound' /\ Copied' /\ Appended' /\ Reading'
  BY <1>u DEF Started, ImageFound, Copied, Appended, Reading
<1>10. Parsed'
  <2>1. parse = NoParse /\ ~parse.called
    BY <1>i, <1>u DEF Parsed, NoParse
  <2> QED
    BY <1>u, <2>1 DEF Parsed, ParseIsExact
<1>c. /\ dest.has_error => HasErrorMessages(handler)
      /\ ~dest.has_error =>
            \/ /\ dest.bytes_transferred = expected
               /\ dest.written = ImageBytes(original["in"]) \o FlattenSeq(appended)
            \/ /\ dest.bytes_transferred < expected
               /\ IsShort(files["in"], original["in"])
  BY <1>i, <1>u DEF Copied
<1>a. \A n \in 1 .. Len(others) :
         /\ IsAppended(appended[n], others[n], Whole(others[n]), changes)
         /\ \/ HasErrorMessages(handler)
            \/ IsAccountedFor(appended[n], others[n], Whole(others[n]), changes)
  BY <1>i, <1>u DEF Appended
<1>11. ASSUME written', ~held_back'
       PROVE  flushed = ImageBytes(original["in"]) \o FlattenSeq(appended)
  <2>1. dest.bytes_transferred = expected /\ ~dest.has_error
    BY <1>5, <1>11 DEF WroteItAll
  <2>2. expected \in Nat
    BY <1>i DEF Types
  <2>3. dest.written = ImageBytes(original["in"]) \o FlattenSeq(appended)
    BY <1>c, <2>1, <2>2
  <2>4. lost = 0
    <3>1. ~(lost > 0)
      BY <1>1, <1>11
    <3> QED
      BY <1>3, <3>1
  <2> QED
    BY <1>3, <2>3, <2>4
<1>12. WrittenIsImageAndFiles'
  <2>1. ASSUME NEW n \in 1 .. Len(others)
        PROVE  IF others[n] = "" \/ original[others[n]] = Absent THEN appended[n] = <<>>
               ELSE /\ IsPrefix(appended[n], original[others[n]])
                    /\ changes = 0 => appended[n] = original[others[n]]
    BY <1>a DEF IsAppended, Whole
  <2> QED
    BY <1>4, <1>11, <1>o, <1>u, <2>1 DEF WrittenIsImageAndFiles
<1>13. WhatIsMissingIsReported'
  <2>1. Len(handler.messages) = handler.stats["error"]
    BY <1>i DEF Messages, AreErrors
  <2>2. ASSUME ~HasErrorMessages(handler), ~written'
        PROVE  files'["in"] # original["in"] /\ changes > 0
    <3>1. ~dest.has_error /\ dest.bytes_transferred # expected
      BY <1>5, <1>c, <2>2 DEF WroteItAll
    <3>2. IsShort(files["in"], original["in"])
      BY <1>c, <3>1
    <3>3. original["in"] # Absent /\ original["in"] \in Seq(Symbols)
      BY <1>i, NamesOfFiles DEF Types, Files
    <3>4. files["in"] # original["in"]
      <4>1. Len(original["in"]) \in Nat
        BY <3>3, LenProperties
      <4>2. ASSUME files["in"] = original["in"]
            PROVE  FALSE
        <5>1. Len(original["in"]) < Len(original["in"])
          BY <3>2, <3>3, <4>2 DEF IsShort
        <5> QED
          BY <4>1, <5>1
      <4> QED
        BY <4>2
    <3>5. CutFrom(files["in"], original["in"], changes)
      BY <1>i, <1>o, NamesOfFiles DEF Cuts
    <3>6. changes \in Nat /\ changes # 0
      BY <1>i, <3>4, <3>5, ChangesType DEF CutFrom, Types
    <3> QED
      BY <1>4, <3>4, <3>6, NamesOfFiles
  <2>3. ASSUME ~HasErrorMessages(handler), NEW n \in 1 .. Len(others)
        PROVE  \/ others[n] = ""
               \/ /\ original[others[n]] # Absent
                  /\ \/ appended[n] # <<>>
                     \/ Len(original[others[n]]) <= changes
    BY <1>a, <2>3 DEF IsAccountedFor, Whole
  <2>4. \/ HasErrorMessages(handler)
        \/ files'["in"] # original["in"] /\ changes > 0
        \/ /\ written'
           /\ \A n \in 1 .. Len(others) :
                 \/ others[n] = ""
                 \/ /\ original[others[n]] # Absent
                    /\ \/ appended[n] # <<>>
                       \/ Len(original[others[n]]) <= changes
    BY <2>2, <2>3
  <2> QED
    BY <1>u, <2>1, <2>4 DEF WhatIsMissingIsReported
<1>14. AppendedFilesAreFound'
  <2>1. ASSUME written', ~held_back', NEW n \in 1 .. Len(others), appended[n] # <<>>
        PROVE  ParseFromStream(flushed, TRUE, Len(FlattenSeq(SubSeq(appended, 1, n - 1))),
                               Len(appended[n]), <<>>)
                  = [result |-> TRUE, out |-> appended[n]]
    <3>1. flushed = ImageBytes(original["in"]) \o FlattenSeq(appended)
      BY <1>11, <2>1
    <3>2. original["in"] \in Seq(Symbols) /\ appended \in Seq(Seq(Symbols))
      BY <1>i DEF Types, Files
    <3>3. Len(flushed) < SizeModulus
      BY <1>3 DEF Files
    <3>4. n \in 1 .. Len(appended) /\ IsValid(FirstImage(original["in"]))
      BY <1>o, <1>u
    <3>5. IsFoundAgain(flushed, appended, n)
      BY <3>1, <3>2, <3>3, <3>4, PartsAreFoundAgain
    <3> QED
      BY <2>1, <3>5 DEF IsFoundAgain, Finds
  <2> QED
    BY <1>4, <1>o, <1>u, <2>1 DEF AppendedFilesAreFound
<1> QED
  BY <1>6, <1>7, <1>8, <1>9, <1>10, <1>12, <1>13, <1>14 DEF IInv, Finished

\* What holds of a part after some changes holds after one more.
LEMMA AccountedLonger ==
    ASSUME NEW part, NEW name, NEW whole \in Files \cup {Absent}, NEW n \in Nat
    PROVE  /\ IsAppended(part, name, whole, n) => IsAppended(part, name, whole, n + 1)
           /\ IsAccountedFor(part, name, whole, n) =>
                 IsAccountedFor(part, name, whole, n + 1)
<1>1. IsAppended(part, name, whole, n) => IsAppended(part, name, whole, n + 1)
  <2>1. n + 1 # 0
    OBVIOUS
  <2> QED
    BY <2>1, Zenon DEF IsAppended
<1>2. ASSUME whole # Absent, Len(whole) <= n
      PROVE  Len(whole) <= n + 1
  <2>1. Len(whole) \in Nat
    BY <1>2, LenProperties DEF Files
  <2> QED
    BY <1>2, <2>1
<1> QED
  BY <1>1, <1>2 DEF IsAccountedFor

LEMMA WholeType ==
    ASSUME Types, NEW n \in 1 .. Len(others)
    PROVE  Whole(others[n]) \in Files \cup {Absent}
<1>1. others[n] \in Inputs \cup {""}
  <2>1. others \in Seq(Inputs \cup {""})
    BY DEF Types
  <2> QED
    BY <2>1, ElementOfSeq
<1> QED
  BY <1>1, NamesOfFiles DEF Whole, Types

LEMMA ChangeFileIsSound ==
    ASSUME IInv, NEW name \in Inputs, ChangeFile(name)
    PROVE  IInv'
<1>i. /\ Types /\ Messages /\ Cuts /\ Started /\ ImageFound /\ Copied /\ Appended
      /\ Reading /\ Finished /\ Parsed
  BY DEF IInv
<1>u. /\ pc \notin {"done", "crashed"}
      /\ name # output \/ pc = "output"
      /\ files[name] # Absent
      /\ UNCHANGED <<output, others, original, pc, handler, image, dest, size, expected,
                     appended, written, held_back, parse>>
  BY DEF ChangeFile, names, writer
<1>d. pc # "done"
  BY DEF ChangeFile
<1>1. PICK next \in {Absent} \cup {SubSeq(files[name], 1, Len(files[name]) - 1)} :
         files' = [files EXCEPT ![name] = next]
  BY DEF ChangeFile
<1>2. PICK n \in Nat : n = changes /\ n + 1 = changes' /\ n + 1 \in 0 .. MaxChanges
  <2>1. changes \in Nat /\ MaxChanges \in Nat
    BY <1>i, ChangesType, GContainerAssumption, Zenon DEF Types
  <2>2. changes < MaxChanges /\ changes' = changes + 1
    BY DEF ChangeFile
  <2> QED
    BY <2>1, <2>2
<1>3. PICK content \in Files : content = files[name] /\ original[name] \in Files \cup {Absent}
  BY <1>i, <1>u, NamesOfFiles DEF Types
<1>4. CutFrom(content, original[name], n)
  BY <1>2, <1>3, <1>i, <1>u DEF Cuts
<1>5. /\ next \in Files \cup {Absent}
      /\ CutFrom(next, original[name], n + 1)
      /\ next # Absent => Len(next) <= Len(content)
  <2>1. next \in {Absent} \cup {SubSeq(content, 1, Len(content) - 1)}
    BY <1>1, <1>3
  <2> QED
    BY <1>3, <1>4, <2>1, CutOnce
<1>6. /\ files' \in [Names -> Files \cup {Absent}]
      /\ files'[name] = next
      /\ \A other \in Names : other # name => files'[other] = files[other]
  <2>1. files \in [Names -> Files \cup {Absent}] /\ name \in Names
    BY <1>i, NamesOfFiles DEF Types
  <2> QED
    BY <1>1, <1>5, <2>1
<1>7. Types'
  BY <1>2, <1>6, <1>i, <1>u DEF Types
<1>8. Messages'
  BY <1>i, <1>u DEF Messages
<1>9. Cuts'
  <2>1. ASSUME NEW other \in Inputs, other # output \/ pc = "output"
        PROVE  CutFrom(files'[other], original[other], n + 1)
    <3>1. CASE other = name
      BY <1>5, <1>6, <3>1
    <3>2. CASE other # name
      <4>1. CutFrom(files[other], original[other], n)
        BY <1>2, <1>i, <2>1 DEF Cuts
      <4>2. files[other] \in Files \cup {Absent} /\ original[other] \in Files \cup {Absent}
        BY <1>i, NamesOfFiles DEF Types
      <4>3. CutFrom(files[other], original[other], n + 1)
        BY <4>1, <4>2, CutLonger
      <4> QED
        BY <1>6, <3>2, <4>3, NamesOfFiles
    <3> QED
      BY <3>1, <3>2
  <2> QED
    BY <1>2, <1>u, <2>1 DEF Cuts
<1>10. Started'
  <2>1. pc = "scan" /\ output = "in" => files'["in"] = files["in"]
    BY <1>6, <1>u, NamesOfFiles
  <2> QED
    BY <1>i, <1>u, <2>1 DEF Started
<1>11. ImageFound'
  BY <1>i, <1>u DEF ImageFound
<1>12. Copied'
  <2>1. IsShort(files["in"], original["in"]) => IsShort(files'["in"], original["in"])
    <3>1. CASE name = "in"
      <4>1. original["in"] \in Files /\ Len(original["in"]) \in Nat
        BY <1>i, LenProperties DEF Types, Files
      <4>2. Len(content) \in Nat /\ (next # Absent => Len(next) \in Nat)
        BY <1>3, <1>5, LenProperties DEF Files
      <4>3. content # Absent
        BY <1>3, <1>u
      <4> QED
        BY <1>3, <1>5, <1>6, <3>1, <4>1, <4>2, <4>3 DEF IsShort
    <3>2. CASE name # "in"
      BY <1>6, <3>2, NamesOfFiles
    <3> QED
      BY <3>1, <3>2
  <2> QED
    BY <1>i, <1>u, <2>1 DEF Copied
<1>13. Appended'
  <2>1. ASSUME pc \in {"files", "read"}, NEW k \in 1 .. Len(appended)
        PROVE  /\ IsAppended(appended[k], others[k], Whole(others[k]), n + 1)
               /\ \/ HasErrorMessages(handler)
                  \/ IsAccountedFor(appended[k], others[k], Whole(others[k]), n + 1)
    <3>1. /\ IsAppended(appended[k], others[k], Whole(others[k]), n)
          /\ \/ HasErrorMessages(handler)
             \/ IsAccountedFor(appended[k], others[k], Whole(others[k]), n)
      BY <1>2, <1>i, <2>1 DEF Appended
    <3>2. k \in 1 .. Len(others)
      <4>1. Len(appended) <= Len(others)
        BY <1>i DEF Types
      <4>2. Len(appended) \in Nat /\ Len(others) \in Nat
        <5>1. appended \in Seq(Seq(Symbols)) /\ others \in Seq(Inputs \cup {""})
          BY <1>i DEF Types
        <5> QED
          BY <5>1, LenProperties
      <4> QED
        BY <4>1, <4>2
    <3>3. Whole(others[k]) \in Files \cup {Absent}
      BY <1>i, <3>2, WholeType
    <3> QED
      BY <3>1, <3>3, AccountedLonger, Zenon
  <2> QED
    BY <1>2, <1>u, <2>1 DEF Appended, Whole
<1>14. Reading'
  <2>1. ASSUME pc = "read"
        PROVE  /\ Len(original[NextFile]) <= size + (n + 1)
               /\ files'[NextFile] # Absent => Len(files'[NextFile]) <= size
    <3>1. /\ Len(original[NextFile]) <= size + n
          /\ files[NextFile] # Absent => Len(files[NextFile]) <= size
          /\ original[NextFile] # Absent /\ NextFile # "" /\ Len(appended) < Len(others)
      BY <1>2, <1>i, <2>1 DEF Reading
    <3>2. /\ NextFile \in Inputs /\ original[NextFile] \in Files \cup {Absent}
      BY <1>i, <3>1, NextFileType
    <3>3. Len(original[NextFile]) \in Nat /\ size \in Nat
      BY <1>i, <3>1, <3>2, LenProperties DEF Types, Files
    <3>4. Len(original[NextFile]) <= size + (n + 1)
      <4>1. PICK l \in Nat, s \in Nat : l = Len(original[NextFile]) /\ s = size
        BY <3>3
      <4>2. l <= s + n
        BY <3>1, <4>1
      <4>3. l <= s + (n + 1)
        BY <4>1, <4>2
      <4> QED
        BY <4>1, <4>3
    <3>5. files'[NextFile] # Absent => Len(files'[NextFile]) <= size
      <4>1. CASE NextFile = name
        <5>1. Len(content) \in Nat /\ (next # Absent => Len(next) \in Nat)
          BY <1>3, <1>5, LenProperties DEF Files
        <5>2. Len(content) <= size
          BY <1>3, <1>u, <3>1, <4>1
        <5> QED
          BY <1>5, <1>6, <3>3, <4>1, <5>1, <5>2
      <4>2. CASE NextFile # name
        BY <1>6, <3>1, <3>2, <4>2, NamesOfFiles
      <4> QED
        BY <4>1, <4>2
    <3> QED
      BY <3>4, <3>5
  <2>2. NextFile' = NextFile
    BY <1>u DEF NextFile
  <2> QED
    BY <1>2, <1>i, <1>u, <2>1, <2>2 DEF Reading
<1>15. Finished' /\ Parsed'
  BY <1>d, <1>i, <1>u, NotFinished
<1> QED
  BY <1>7, <1>8, <1>9, <1>10, <1>11, <1>12, <1>13, <1>14, <1>15 DEF IInv

LEMMA ParseIsSound ==
    ASSUME IInv, NEW name \in {"in", "out"}, NEW good \in BOOLEAN,
           NEW start_offset \in Offsets, NEW length \in Lengths,
           Parse(name, good, start_offset, length)
    PROVE  IInv'
<1>i. /\ Types /\ Messages /\ Cuts /\ Started /\ ImageFound /\ Copied /\ Appended
      /\ Reading /\ Finished /\ Parsed
  BY DEF IInv
<1>u. /\ pc = "done"
      /\ UNCHANGED <<files, output, others, original, pc, handler, image, dest, size,
                     expected, appended, written, held_back, changes>>
  BY DEF Parse, names, writer
<1>1. PICK out : /\ out = IF files[name] = Absent
                          THEN [result |-> FALSE, out |-> <<"old">>]
                          ELSE ParseFromStream(files[name], good, start_offset, length,
                                               <<"old">>)
                 /\ parse' = [called |-> TRUE, name |-> name, good |-> good,
                              start_offset |-> start_offset, length |-> length,
                              result |-> out.result, out |-> out.out]
  BY DEF Parse
<1>2. /\ parse'.called /\ parse'.name = name /\ parse'.good = good
      /\ parse'.start_offset = start_offset /\ parse'.length = length
      /\ parse'.result = out.result /\ parse'.out = out.out
  BY <1>1
<1>3. start_offset \in Nat /\ length \in Nat
  <2>1. Offsets \cup Lengths \subseteq 0 .. SizeModulus - 1
    BY GContainerAssumption, Zenon
  <2> QED
    BY <2>1, ModulusType
<1>4. good => IsExact(files[name], start_offset, length, <<"old">>, out)
  <2>1. CASE files[name] = Absent
    <3>1. ~out.result /\ out.out = <<"old">>
      BY <1>1, <2>1
    <3> QED
      BY <2>1, <3>1 DEF IsExact, IsThere
  <2>2. CASE files[name] # Absent
    <3>1. files[name] \in Files \cup {Absent}
      BY <1>i DEF Types, Names, Inputs
    <3>2. files[name] \in Seq(Symbols) /\ Len(files[name]) < SizeModulus
      BY <2>2, <3>1 DEF Files
    <3>3. IsExact(files[name], start_offset, length, <<"old">>,
                  ParseFromStream(files[name], TRUE, start_offset, length, <<"old">>))
      BY <1>3, <3>2, ParsedExactly
    <3>4. out = ParseFromStream(files[name], good, start_offset, length, <<"old">>)
      BY <1>1, <2>2
    <3>5. good => good = TRUE
      OBVIOUS
    <3> QED
      BY <3>3, <3>4, <3>5
  <2> QED
    BY <2>1, <2>2
<1>5. ParseIsExact'
  BY <1>2, <1>4, <1>u DEF ParseIsExact, IsExact
<1>6. Parsed'
  BY <1>2, <1>5, <1>u DEF Parsed
<1>7. Finished'
  BY <1>i, <1>u DEF Finished, WrittenIsImageAndFiles, WhatIsMissingIsReported,
                    AppendedFilesAreFound
<1>8. Types' /\ Messages' /\ Cuts' /\ Started'
  BY <1>i, <1>u DEF Types, Messages, Cuts, Started
<1>9. ImageFound' /\ Copied' /\ Appended' /\ Reading'
  BY <1>u DEF ImageFound, Copied, Appended, Reading
<1> QED
  BY <1>6, <1>7, <1>8, <1>9 DEF IInv

LEMMA NextIsSound == IInv /\ [Next]_vars => IInv'
<1> SUFFICES ASSUME IInv, [Next]_vars
             PROVE  IInv'
  OBVIOUS
<1>1. CASE OpenOutput
  BY <1>1, OpenOutputIsSound
<1>2. CASE ScanInput
  BY <1>2, ScanInputIsSound
<1>3. CASE TransferImage
  BY <1>3, TransferImageIsSound
<1>4. CASE StatFile
  BY <1>4, StatFileIsSound
<1>5. CASE AppendFile
  BY <1>5, AppendFileIsSound
<1>6. CASE FinishWrite
  BY <1>6, FinishWriteIsSound
<1>7. ASSUME NEW name \in Inputs, ChangeFile(name)
      PROVE  IInv'
  BY <1>7, ChangeFileIsSound
<1>8. ASSUME NEW name \in {"in", "out"}, NEW good \in BOOLEAN,
             NEW start_offset \in Offsets, NEW length \in Lengths,
             Parse(name, good, start_offset, length)
      PROVE  IInv'
  BY <1>8, ParseIsSound
<1>9. CASE UNCHANGED vars
  <2>1. UNCHANGED <<files, output, others, original, pc, handler, image, dest, size,
                    expected, appended, written, held_back, changes, parse>>
    BY <1>9 DEF vars, names, writer
  <2>2. /\ Types /\ Messages /\ Cuts /\ Started /\ ImageFound /\ Copied /\ Appended
        /\ Reading /\ Finished /\ Parsed
    BY DEF IInv
  <2>3. Types' /\ Messages' /\ Cuts' /\ Started' /\ ImageFound'
    BY <2>1, <2>2 DEF Types, Messages, Cuts, Started, ImageFound
  <2>4. Copied' /\ Appended' /\ Reading'
    BY <2>1, <2>2 DEF Copied, Appended, Reading, Whole, NextFile
  <2>5. Finished' /\ Parsed'
    BY <2>1, <2>2 DEF Finished, WrittenIsImageAndFiles, WhatIsMissingIsReported,
                      AppendedFilesAreFound, Parsed, ParseIsExact
  <2> QED
    BY <2>3, <2>4, <2>5 DEF IInv
<1> QED
  BY <1>1, <1>2, <1>3, <1>4, <1>5, <1>6, <1>7, <1>8, <1>9 DEF Next

-----------------------------------------------------------------------------
(***************************************************************************)
(* The theorems.                                                           *)
(***************************************************************************)

\* The inductive invariant holds in every state.
THEOREM Invariance == Spec => []IInv
  BY InitIsSound, NextIsSound, PTL DEF Spec

LEMMA FilesAreFinite ==
    ASSUME NEW content \in Files
    PROVE  IsFiniteSet(DOMAIN content)
<1>1. DOMAIN content = 1 .. Len(content) /\ Len(content) \in Nat
  BY LenProperties DEF Files
<1> QED
  BY <1>1, FS_Interval

\* Files, messages, ostream and numbers of the copy stay within their types.
THEOREM TypeCorrect == Spec => []TypeOK
<1>1. IInv => TypeOK
  <2> SUFFICES ASSUME IInv
               PROVE  TypeOK
    OBVIOUS
  <2>1. Types /\ Messages
    BY DEF IInv
  <2>2. \A name \in Names : files[name] # Absent => IsFiniteSet(DOMAIN files[name])
    <3>1. \A name \in Names : files[name] \in Files \cup {Absent}
      BY <2>1 DEF Types
    <3> QED
      BY <3>1, FilesAreFinite
  <2>3. handler.stats \in [MessageTypes -> Nat] /\ handler.messages \in Seq(MessageTypes)
    BY <2>1 DEF Messages, AreErrors
  <2>4. dest.bytes_transferred <= Len(dest.written)
    BY <2>1 DEF Types, OStreams
  <2> QED
    BY <2>1, <2>2, <2>3, <2>4 DEF TypeOK, Types
<1> QED
  BY <1>1, Invariance, PTL

\* WriteImageAndFiles (gcontainer.cc) with a true result, of an ostream that held nothing
\* back: the output is the first image of the input, and the other files behind it.
THEOREM OutputIsComplete == Spec => []WrittenIsImageAndFiles
<1>1. IInv => WrittenIsImageAndFiles
  BY DEF IInv, Finished
<1> QED
  BY <1>1, Invariance, PTL

\* WriteImageAndFiles leaves nothing out in silence: a file that is skipped and a call
\* that fails leave an error message, unless the input was cut meanwhile.
THEOREM NothingIsMissingInSilence == Spec => []WhatIsMissingIsReported
<1>1. IInv => WhatIsMissingIsReported
  BY DEF IInv, Finished
<1> QED
  BY <1>1, Invariance, PTL

\* ParseFileAfterImageFromStream finds every file that WriteImageAndFiles has appended,
\* whatever is in it.
THEOREM AppendedIsFound == Spec => []AppendedFilesAreFound
<1>1. IInv => AppendedFilesAreFound
  BY DEF IInv, Finished
<1> QED
  BY <1>1, Invariance, PTL

\* ParseFileAfterImageFromStream gives the bytes asked for, exactly if they are there.
THEOREM ParsingIsExact == Spec => []ParseIsExact
<1>1. IInv => ParseIsExact
  BY DEF IInv, Parsed
<1> QED
  BY <1>1, Invariance, PTL
=============================================================================
