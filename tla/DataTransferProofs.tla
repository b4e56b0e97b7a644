------------------------- MODULE DataTransferProofs -------------------------
(***************************************************************************)
(* What TransferData does to an OStreamRefDataDestination, for every       *)
(* source, range and size of the chunks: the loop over the chunks of a     *)
(* stream comes to the same as one transfer of all bytes that can be read, *)
(* or ends with an error of the ostream.  A DataRangeTrackingDestination   *)
(* in front of it changes nothing of that, and notes what was written.     *)
(***************************************************************************)
EXTENDS DataTransfers, SequenceTheorems, TLAPS

OStreams(S) ==
    {ostream \in [kind : {"ostream"}, written : Seq(S), room : Nat,
                  bytes_transferred : Nat, has_error : BOOLEAN] :
        ostream.bytes_transferred <= Len(ostream.written)}

\* What a source of that size may hold.
Contents(size, S) == [0 .. size - 1 -> S]

\* The bytes of a content from one location up to another.
Piece(content, begin, end) == [n \in 1 .. end - begin |-> content[begin + n - 1]]

-----------------------------------------------------------------------------
(***************************************************************************)
(* Pieces of a content, and destinations that got them.                    *)
(***************************************************************************)
LEMMA PieceType ==
    ASSUME NEW S, NEW size \in Nat, NEW content \in Contents(size, S),
           NEW end \in 0 .. size, NEW begin \in 0 .. end
    PROVE  /\ Piece(content, begin, end) \in Seq(S)
           /\ Len(Piece(content, begin, end)) = end - begin
<1>1. PICK m \in Nat : m = end - begin
  OBVIOUS
<1>2. \A n \in 1 .. m : content[begin + n - 1] \in S
  <2> TAKE n \in 1 .. m
  <2>1. begin + n - 1 \in 0 .. size - 1
    BY <1>1
  <2> QED
    BY <2>1 DEF Contents
<1>3. [n \in 1 .. m |-> content[begin + n - 1]] \in Seq(S)
  BY <1>2, IsASeq
<1>4. Len([n \in 1 .. m |-> content[begin + n - 1]]) = m
  BY <1>3, LenProperties
<1> QED
  BY <1>1, <1>3, <1>4 DEF Piece

LEMMA PiecesJoin ==
    ASSUME NEW S, NEW size \in Nat, NEW content \in Contents(size, S),
           NEW end \in 0 .. size, NEW mid \in 0 .. end, NEW begin \in 0 .. mid
    PROVE  Piece(content, begin, mid) \o Piece(content, mid, end)
              = Piece(content, begin, end)
<1>0. mid \in 0 .. size /\ begin \in 0 .. end
  OBVIOUS
<1>1. PICK p : p = Piece(content, begin, mid)
  OBVIOUS
<1>2. PICK q : q = Piece(content, mid, end)
  OBVIOUS
<1>3. PICK r : r = Piece(content, begin, end)
  OBVIOUS
<1>4. p \in Seq(S) /\ Len(p) = mid - begin
  <2>1. /\ Piece(content, begin, mid) \in Seq(S)
        /\ Len(Piece(content, begin, mid)) = mid - begin
    BY <1>0, PieceType, Zenon
  <2> QED
    BY <1>1, <2>1
<1>5. q \in Seq(S) /\ Len(q) = end - mid
  <2>1. /\ Piece(content, mid, end) \in Seq(S)
        /\ Len(Piece(content, mid, end)) = end - mid
    BY PieceType, Zenon
  <2> QED
    BY <1>2, <2>1
<1>6. r \in Seq(S) /\ Len(r) = end - begin
  <2>1. /\ Piece(content, begin, end) \in Seq(S)
        /\ Len(Piece(content, begin, end)) = end - begin
    BY <1>0, PieceType, Zenon
  <2> QED
    BY <1>3, <2>1
<1>7. p \o q \in Seq(S) /\ Len(p \o q) = Len(r)
  <2>1. p \o q \in Seq(S) /\ Len(p \o q) = Len(p) + Len(q)
    BY <1>4, <1>5, ConcatProperties, Zenon
  <2>2. Len(p) + Len(q) = Len(r)
    BY <1>4, <1>5, <1>6
  <2> QED
    BY <2>1, <2>2, Zenon
<1>8. ASSUME NEW i \in 1 .. Len(r)
      PROVE  (p \o q)[i] = r[i]
  <2>1. r[i] = content[begin + i - 1]
    BY <1>3, <1>6 DEF Piece
  <2>2. CASE i <= Len(p)
    <3>1. (p \o q)[i] = p[i]
      BY <1>4, <1>5, <2>2, ConcatProperties
    <3>2. p[i] = content[begin + i - 1]
      BY <1>1, <1>4, <2>2 DEF Piece
    <3> QED
      BY <2>1, <3>1, <3>2
  <2>3. CASE i > Len(p)
    <3>1. (p \o q)[i] = q[i - Len(p)]
      BY <1>4, <1>5, <1>6, <2>3, ConcatProperties
    <3>2. q[i - Len(p)] = content[mid + (i - Len(p)) - 1]
      BY <1>2, <1>4, <1>5, <1>6, <2>3 DEF Piece
    <3>3. mid + (i - Len(p)) - 1 = begin + i - 1
      BY <1>4
    <3> QED
      BY <2>1, <3>1, <3>2, <3>3
  <2>4. PICK l \in Nat : l = Len(p)
    BY <1>4
  <2>5. i <= l \/ i > l
    BY <1>6
  <2> QED
    BY <2>2, <2>3, <2>4, <2>5, Zenon
<1>9. p \o q = r
  BY <1>6, <1>7, <1>8, SeqEqual
<1> QED
  BY <1>1, <1>2, <1>3, <1>9

\* The same of three locations that come one after the other.
AreInOrder(S, size, content, begin, mid, end) ==
    /\ size \in Nat /\ content \in Contents(size, S)
    /\ begin \in Nat /\ mid \in Nat /\ end \in Nat
    /\ begin <= mid /\ mid <= end /\ end <= size

Join(S, content, begin, mid, end) ==
    /\ Piece(content, begin, mid) \in Seq(S)
    /\ Len(Piece(content, begin, mid)) = mid - begin
    /\ Piece(content, mid, end) \in Seq(S)
    /\ Len(Piece(content, mid, end)) = end - mid
    /\ Piece(content, begin, mid) \o Piece(content, mid, end) = Piece(content, begin, end)

LEMMA PiecesInOrder ==
    \A S, size, content, begin, mid, end :
        AreInOrder(S, size, content, begin, mid, end) => Join(S, content, begin, mid, end)
<1> TAKE S, size, content, begin, mid, end
<1> HAVE AreInOrder(S, size, content, begin, mid, end)
<1>1. size \in Nat /\ content \in Contents(size, S)
  BY DEF AreInOrder
<1>2. mid \in 0 .. size /\ begin \in 0 .. mid /\ end \in 0 .. size /\ mid \in 0 .. end
  BY DEF AreInOrder
<1>3. /\ Piece(content, begin, mid) \in Seq(S)
      /\ Len(Piece(content, begin, mid)) = mid - begin
  BY <1>1, <1>2, PieceType, Zenon
<1>4. /\ Piece(content, mid, end) \in Seq(S)
      /\ Len(Piece(content, mid, end)) = end - mid
  BY <1>1, <1>2, PieceType, Zenon
<1>5. Piece(content, begin, mid) \o Piece(content, mid, end) = Piece(content, begin, end)
  BY <1>1, <1>2, PiecesJoin, Zenon
<1> QED
  BY <1>3, <1>4, <1>5, Zenon DEF Join

LEMMA EmptyPiece == \A content : \A begin \in Nat : Piece(content, begin, begin) = <<>>
  BY DEF Piece

\* An ostream, and what a complete write makes of it, as records.
AnOStream(written, room, bytes_transferred, has_error) ==
    [kind |-> "ostream", written |-> written, room |-> room,
     bytes_transferred |-> bytes_transferred, has_error |-> has_error]

LEMMA OStreamRecord ==
    ASSUME NEW S, NEW ostream \in OStreams(S)
    PROVE  \E written \in Seq(S) : \E room, bytes_transferred \in Nat :
              \E has_error \in BOOLEAN :
                 /\ ostream.written = written
                 /\ ostream.room = room
                 /\ ostream.bytes_transferred = bytes_transferred
                 /\ ostream.has_error = has_error
                 /\ bytes_transferred <= Len(written)
                 /\ ostream = AnOStream(written, room, bytes_transferred, has_error)
<1>1. /\ ostream.written \in Seq(S) /\ ostream.room \in Nat
      /\ ostream.bytes_transferred \in Nat /\ ostream.has_error \in BOOLEAN
      /\ ostream.bytes_transferred <= Len(ostream.written)
  BY DEF OStreams
<1>2. ostream = AnOStream(ostream.written, ostream.room,
                          ostream.bytes_transferred, ostream.has_error)
  BY DEF OStreams, AnOStream
<1> QED
  BY <1>1, <1>2

LEMMA RecordIsOStream ==
    ASSUME NEW S, NEW written \in Seq(S), NEW room \in Nat,
           NEW bytes_transferred \in Nat, NEW has_error \in BOOLEAN,
           bytes_transferred <= Len(written)
    PROVE  AnOStream(written, room, bytes_transferred, has_error) \in OStreams(S)
  BY DEF OStreams, AnOStream

LEMMA WroteRecord ==
    ASSUME NEW written, NEW room, NEW bytes_transferred, NEW has_error, NEW bytes
    PROVE  Wrote(AnOStream(written, room, bytes_transferred, has_error), bytes)
              = AnOStream(written \o bytes, room - Len(bytes),
                          bytes_transferred + Len(bytes), has_error)
<1>1. PICK w : w = written \o bytes
  OBVIOUS
<1>2. PICK l : l = Len(bytes)
  OBVIOUS
<1>3. PICK r : r = room - l
  OBVIOUS
<1>4. PICK b : b = bytes_transferred + l
  OBVIOUS
<1>5. [AnOStream(written, room, bytes_transferred, has_error) EXCEPT
          !.written = w, !.room = r, !.bytes_transferred = b]
         = AnOStream(w, r, b, has_error)
  <2>1. [AnOStream(written, room, bytes_transferred, has_error) EXCEPT !.written = w]
           = AnOStream(w, room, bytes_transferred, has_error)
    BY DEF AnOStream
  <2>2. [AnOStream(w, room, bytes_transferred, has_error) EXCEPT !.room = r]
           = AnOStream(w, r, bytes_transferred, has_error)
    BY DEF AnOStream
  <2>3. [AnOStream(w, r, bytes_transferred, has_error) EXCEPT !.bytes_transferred = b]
           = AnOStream(w, r, b, has_error)
    BY DEF AnOStream
  <2> QED
    BY <2>1, <2>2, <2>3
<1> QED
  BY <1>1, <1>2, <1>3, <1>4, <1>5 DEF Wrote, AnOStream

LEMMA WroteNothing ==
    ASSUME NEW S, NEW ostream \in OStreams(S)
    PROVE  Wrote(ostream, <<>>) = ostream
<1>1. PICK w \in Seq(S), r \in Nat, b \in Nat, e \in BOOLEAN :
         ostream = AnOStream(w, r, b, e)
  BY OStreamRecord
<1>2. w \o <<>> = w /\ r - Len(<<>>) = r /\ b + Len(<<>>) = b
  BY ConcatEmptySeq, EmptySeq
<1>z. PICK z : z = <<>>
  OBVIOUS
<1>3. Wrote(AnOStream(w, r, b, e), z)
         = AnOStream(w \o z, r - Len(z), b + Len(z), e)
  BY WroteRecord
<1> QED
  BY <1>1, <1>2, <1>3, <1>z

LEMMA WroteType ==
    ASSUME NEW S, NEW ostream \in OStreams(S), NEW bytes \in Seq(S),
           Len(bytes) <= ostream.room
    PROVE  /\ Wrote(ostream, bytes) \in OStreams(S)
           /\ Wrote(ostream, bytes).written = ostream.written \o bytes
           /\ Wrote(ostream, bytes).room = ostream.room - Len(bytes)
           /\ Wrote(ostream, bytes).bytes_transferred
                 = ostream.bytes_transferred + Len(bytes)
           /\ Wrote(ostream, bytes).has_error = ostream.has_error
<1>1. PICK w \in Seq(S), r \in Nat, b \in Nat, e \in BOOLEAN :
         /\ ostream.written = w /\ ostream.room = r /\ ostream.bytes_transferred = b
         /\ ostream.has_error = e /\ ostream = AnOStream(w, r, b, e) /\ b <= Len(w)
  BY OStreamRecord
<1>2. PICK l \in Nat : l = Len(bytes)
  BY LenProperties
<1>3. PICK v \in Seq(S) : v = w \o bytes /\ Len(v) = Len(w) + Len(bytes)
  BY ConcatProperties
<1>4. r - l \in Nat /\ b + l \in Nat
  <2>1. r - l >= 0
    BY <1>1, <1>2
  <2> QED
    BY <2>1
<1>5. Wrote(ostream, bytes) = AnOStream(v, r - l, b + l, e)
  <2>1. Wrote(AnOStream(w, r, b, e), bytes)
           = AnOStream(w \o bytes, r - Len(bytes), b + Len(bytes), e)
    BY WroteRecord
  <2> QED
    BY <1>1, <1>2, <1>3, <2>1
<1>6. AnOStream(v, r - l, b + l, e) \in OStreams(S)
  <2>1. b + l <= Len(v)
    <3>1. PICK k \in Nat : k = Len(w)
      BY LenProperties
    <3> QED
      BY <1>1, <1>2, <1>3, <3>1
  <2> QED
    BY <1>4, <2>1, RecordIsOStream, Zenon
<1>7. /\ AnOStream(v, r - l, b + l, e).written = v
      /\ AnOStream(v, r - l, b + l, e).room = r - l
      /\ AnOStream(v, r - l, b + l, e).bytes_transferred = b + l
      /\ AnOStream(v, r - l, b + l, e).has_error = e
  BY DEF AnOStream
<1> QED
  BY <1>1, <1>2, <1>3, <1>5, <1>6, <1>7, Zenon

\* What is written in two pieces is written in one.
LEMMA WroteTwice ==
    ASSUME NEW S, NEW ostream \in OStreams(S), NEW x \in Seq(S), NEW y \in Seq(S)
    PROVE  Wrote(Wrote(ostream, x), y) = Wrote(ostream, x \o y)
<1>1. PICK w \in Seq(S), r \in Nat, b \in Nat, e \in BOOLEAN :
         ostream = AnOStream(w, r, b, e)
  BY OStreamRecord
<1>2. (w \o x) \o y = w \o (x \o y)
  BY ConcatAssociative
<1>3. PICK k \in Nat : k = Len(x)
  BY LenProperties
<1>4. PICK l \in Nat : l = Len(y)
  BY LenProperties
<1>5. Len(x \o y) = k + l
  BY <1>3, <1>4, ConcatProperties, Zenon
<1>6. (r - k) - l = r - (k + l) /\ (b + k) + l = b + (k + l)
  OBVIOUS
<1>x. PICK wx : wx = w \o x
  OBVIOUS
<1>y. PICK xy : xy = x \o y
  OBVIOUS
<1>7. Wrote(ostream, x) = AnOStream(wx, r - k, b + k, e)
  <2>1. Wrote(AnOStream(w, r, b, e), x)
           = AnOStream(w \o x, r - Len(x), b + Len(x), e)
    BY WroteRecord
  <2> QED
    BY <1>1, <1>3, <1>x, <2>1, Zenon
<1>8. Wrote(Wrote(ostream, x), y) = AnOStream(wx \o y, (r - k) - l, (b + k) + l, e)
  <2>1. Wrote(AnOStream(wx, r - k, b + k, e), y)
           = AnOStream(wx \o y, (r - k) - Len(y), (b + k) + Len(y), e)
    BY WroteRecord
  <2> QED
    BY <1>4, <1>7, <2>1, Zenon
<1>9. Wrote(ostream, xy) = AnOStream(w \o xy, r - (k + l), b + (k + l), e)
  <2>1. Wrote(AnOStream(w, r, b, e), xy)
           = AnOStream(w \o xy, r - Len(xy), b + Len(xy), e)
    BY WroteRecord
  <2> QED
    BY <1>1, <1>5, <1>y, <2>1, Zenon
<1> QED
  BY <1>2, <1>6, <1>8, <1>9, <1>x, <1>y, Zenon

-----------------------------------------------------------------------------
(***************************************************************************)
(* One call of Transfer.                                                   *)
(***************************************************************************)
LEMMA WriteFits ==
    ASSUME NEW S, NEW ostream \in OStreams(S), NEW bytes \in Seq(S),
           ~ostream.has_error, Len(bytes) <= ostream.room
    PROVE  Write(ostream, bytes) = [status |-> "ok", dest |-> Wrote(ostream, bytes)]
<1>1. CASE bytes = <<>>
  <2>1. Wrote(ostream, bytes) = ostream
    BY <1>1, WroteNothing
  <2> QED
    BY <1>1, <2>1 DEF Write
<1>2. CASE bytes # <<>>
  BY <1>2 DEF Write
<1> QED
  BY <1>1, <1>2

\* An ostream that has failed took all that there was room for.
IsFull(dest, after) ==
    after.room = 0 /\ Len(after.written) = Len(dest.written) + dest.room

LEMMA WriteFails ==
    ASSUME NEW S, NEW ostream \in OStreams(S), NEW bytes \in Seq(S),
           ~ostream.has_error, Len(bytes) > ostream.room
    PROVE  /\ Write(ostream, bytes).status = "error"
           /\ Write(ostream, bytes).dest \in OStreams(S)
           /\ Write(ostream, bytes).dest.has_error
           /\ IsFull(ostream, Write(ostream, bytes).dest)
<1>1. PICK w \in Seq(S), r \in Nat, b \in Nat, e \in BOOLEAN :
         /\ ostream.written = w /\ ostream.room = r /\ ostream.bytes_transferred = b
         /\ ostream.has_error = e /\ ostream = AnOStream(w, r, b, e) /\ b <= Len(w)
  BY OStreamRecord
<1>2. PICK l \in Nat : l = Len(bytes) /\ r < l
  BY <1>1, LenProperties
<1>3. bytes # <<>>
  <2>1. Len(<<>>) = 0
    BY EmptySeq
  <2> QED
    BY <1>2, <2>1
<1>4. Write(ostream, bytes) = [status |-> "error", dest |-> WroteInPart(ostream, bytes)]
  BY <1>1, <1>2, <1>3 DEF Write
<1>5. PICK x \in Seq(S) : x = SubSeq(bytes, 1, r) /\ Len(x) = r
  <2>1. \A m \in 1 .. 0 : FALSE
    OBVIOUS
  <2>2. 1 \in 1 .. Len(bytes) + 1 /\ r \in 1 - 1 .. Len(bytes)
    BY <1>2
  <2>3. SubSeq(bytes, 1, r) \in Seq(S) /\ Len(SubSeq(bytes, 1, r)) = r
    BY <1>2, <2>2, SubSeqProperties
  <2> QED
    BY <2>3
<1>6. PICK v \in Seq(S) : v = w \o x /\ Len(v) = Len(w) + Len(x)
  BY ConcatProperties
<1>7. WroteInPart(ostream, bytes) = AnOStream(v, 0, b, TRUE)
  <2>1. WroteInPart(ostream, bytes)
           = [ostream EXCEPT !.written = v, !.room = 0, !.has_error = TRUE]
    BY <1>1, <1>5, <1>6 DEF WroteInPart
  <2>2. [AnOStream(w, r, b, e) EXCEPT !.written = v] = AnOStream(v, r, b, e)
    BY DEF AnOStream
  <2>3. [AnOStream(v, r, b, e) EXCEPT !.room = 0] = AnOStream(v, 0, b, e)
    BY DEF AnOStream
  <2>4. \A t : [AnOStream(v, 0, b, e) EXCEPT !.has_error = t] = AnOStream(v, 0, b, t)
    BY DEF AnOStream
  <2>5. \A t : [ostream EXCEPT !.written = v, !.room = 0, !.has_error = t]
                  = AnOStream(v, 0, b, t)
    <3>1. [ostream EXCEPT !.written = v] = AnOStream(v, r, b, e)
      BY <1>1, <2>2
    <3>2. [ostream EXCEPT !.written = v, !.room = 0] = AnOStream(v, 0, b, e)
      BY <2>3, <3>1
    <3> QED
      BY <2>4, <3>2
  <2> QED
    BY <2>1, <2>5, Zenon
<1>8. AnOStream(v, 0, b, TRUE) \in OStreams(S)
  <2>1. b <= Len(v)
    <3>1. PICK k \in Nat : k = Len(w)
      BY LenProperties
    <3> QED
      BY <1>1, <1>5, <1>6, <3>1
  <2> QED
    BY <2>1, RecordIsOStream
<1>9. AnOStream(v, 0, b, TRUE).has_error /\ IsFull(ostream, AnOStream(v, 0, b, TRUE))
  BY <1>1, <1>5, <1>6 DEF AnOStream, IsFull
<1>10. /\ Write(ostream, bytes).status = "error"
       /\ Write(ostream, bytes).dest = WroteInPart(ostream, bytes)
  BY <1>4
<1> QED
  BY <1>7, <1>8, <1>9, <1>10, Zenon

LEMMA WriteAfterError ==
    ASSUME NEW ostream, NEW bytes, ostream.has_error
    PROVE  Write(ostream, bytes) = [status |-> "ok", dest |-> ostream]
  BY DEF Write

LEMMA TransferIsWrite ==
    ASSUME NEW S, NEW ostream \in OStreams(S), NEW begin \in Nat, NEW end \in Nat,
           NEW content
    PROVE  Transfer(ostream, NewRange(begin, end), content)
              = Write(ostream, Piece(content, begin, end))
<1>1. ostream.kind = "ostream"
  BY DEF OStreams
<1>2. PICK range : range = NewRange(begin, end)
  OBVIOUS
<1>3. range.begin = begin /\ range.end = end
  BY <1>2 DEF NewRange
<1>4. 1 .. Length(range) = 1 .. end - begin
  BY <1>3 DEF Length, IsValid
<1>5. [n \in 1 .. Length(range) |-> content[range.begin + n - 1]]
         = Piece(content, begin, end)
  BY <1>3, <1>4 DEF Piece
<1> QED
  BY <1>1, <1>2, <1>5 DEF Transfer

-----------------------------------------------------------------------------
(***************************************************************************)
(* The loop over the chunks of a stream.                                   *)
(***************************************************************************)

\* Where the bytes end that the stream has of a range.
ReadsUpTo(source, begin, end) ==
    IF source.open THEN Larger(begin, Smaller(end, source.extent.end)) ELSE begin

LoopState(source, dest, status, transferred, over) ==
    [source |-> source, dest |-> dest, status |-> status, transferred |-> transferred,
     over |-> over]

\* What the loop has done when it is at a location: all bytes up to there are written,
\* or those that there are; or the ostream has failed and the loop is over.  The stream
\* is good until its end was met.
LoopInvariant(S, content, source, dest, begin, reach, at, loop) ==
    /\ loop = LoopState(loop.source, loop.dest, loop.status, loop.transferred, loop.over)
    /\ loop.over \in BOOLEAN /\ loop.transferred \in BOOLEAN
    /\ loop.source.good \in BOOLEAN
    /\ loop.source = [source EXCEPT !.good = loop.source.good]
    /\ loop.dest.has_error =>
          /\ loop.dest \in OStreams(S) /\ IsFull(dest, loop.dest)
          /\ loop.over /\ loop.transferred /\ loop.status = "error"
    /\ ~loop.dest.has_error =>
          \E end \in Nat :
              /\ end = Smaller(at, reach)
              /\ end - begin <= dest.room
              /\ loop.dest = Wrote(dest, Piece(content, begin, end))
              /\ loop.status # "error"
              /\ loop.transferred <=> end > begin
    /\ ~loop.over => ~loop.dest.has_error
    /\ ~loop.over =>
          (loop.source.good <=> source.open /\ at <= Larger(begin, source.extent.end))
    /\ loop.over /\ ~loop.dest.has_error => reach <= at

LEMMA LoopStep ==
    ASSUME NEW S, NEW size \in Nat, NEW content \in Contents(size, S),
           NEW source \in DataSource, source.extent.end <= size,
           NEW dest \in OStreams(S), ~dest.has_error,
           NEW begin \in Nat, NEW end \in Nat, NEW at \in Nat, NEW to \in Nat,
           begin <= at, at < to, to <= end, NEW loop,
           LoopInvariant(S, content, source, dest, begin,
                         ReadsUpTo(source, begin, end), at, loop)
    PROVE  LoopInvariant(S, content, source, dest, begin,
                         ReadsUpTo(source, begin, end), to,
                         ReadAndTransfer(loop, NewRange(at, to), content))
<1>n. PICK next : next = ReadAndTransfer(loop, NewRange(at, to), content)
  OBVIOUS
<1>x. PICK x \in Nat : x = source.extent.end
  BY DEF DataSource, DataRange
<1>r. PICK r \in Nat : /\ r = ReadsUpTo(source, begin, end)
                       /\ begin <= r
                       /\ ~source.open => r = begin
                       /\ source.open => r = Larger(begin, Smaller(end, x))
  BY <1>x DEF ReadsUpTo, Larger, Smaller
<1> SUFFICES LoopInvariant(S, content, source, dest, begin, r, to, next)
  BY <1>n, <1>r, Zenon
<1>i. LoopInvariant(S, content, source, dest, begin, r, at, loop)
  BY <1>r, Zenon
<1>f. loop.source.open = source.open /\ loop.source.extent = source.extent
  BY <1>i DEF DataSource, LoopInvariant
<1>o. ASSUME r <= at
      PROVE  Smaller(to, r) = Smaller(at, r) /\ r <= to
  BY <1>o DEF Smaller
<1>1. CASE loop.over
  <2>1. next = loop
    BY <1>n, <1>1 DEF ReadAndTransfer
  <2>2. CASE loop.dest.has_error
    BY <1>1, <1>i, <2>1, <2>2, Zenon DEF LoopInvariant
  <2>3. CASE ~loop.dest.has_error
    <3>1. r <= at
      BY <1>1, <1>i, <2>3, Zenon DEF LoopInvariant
    <3> QED
      BY <1>1, <1>i, <1>o, <2>1, <2>3, <3>1, Zenon DEF LoopInvariant
  <2> QED
    BY <2>2, <2>3
<1>2. CASE ~loop.over
  <2>c. NewRange(at, to).begin = at /\ Length(NewRange(at, to)) = to - at
    BY DEF NewRange, Length, IsValid
  <2>p. PICK read : read = Read(loop.source, at, to - at)
    OBVIOUS
  <2>q. PICK sent : sent = Transfer(loop.dest, read, content)
    OBVIOUS
  <2>g. PICK good : good = GoodAfterRead(loop.source, at, to - at) /\ good \in BOOLEAN
    BY DEF GoodAfterRead
  <2>s. PICK left : left = [loop.source EXCEPT !.good = good]
    OBVIOUS
  <2>t. /\ left.good = good
        /\ left = [source EXCEPT !.good = good]
    BY <1>i, <2>s DEF LoopInvariant, DataSource
  <2>1. ASSUME read # NoSegment, IsValid(read)
        PROVE  next = [source |-> left, dest |-> sent.dest, status |-> sent.status,
                       transferred |-> TRUE, over |-> sent.status # "ok"]
    BY <1>n, <1>2, <2>c, <2>p, <2>q, <2>g, <2>s, <2>1 DEF ReadAndTransfer
  <2>2. ASSUME ~(read # NoSegment /\ IsValid(read))
        PROVE  next = [loop EXCEPT !.source = left, !.over = TRUE]
    BY <1>n, <1>2, <2>c, <2>p, <2>q, <2>g, <2>s, <2>2 DEF ReadAndTransfer
  <2>e. ~loop.dest.has_error
    BY <1>2, <1>i DEF LoopInvariant
  <2>w. PICK upto \in Nat :
           /\ upto = Smaller(at, r) /\ upto - begin <= dest.room
           /\ loop.dest = Wrote(dest, Piece(content, begin, upto))
           /\ loop.status # "error"
           /\ loop.transferred <=> upto > begin
    BY <1>i, <2>e, Zenon DEF LoopInvariant
  <2>h. loop.source.good <=> source.open /\ at <= Larger(begin, x)
    BY <1>2, <1>i, <1>x, Zenon DEF LoopInvariant
  <2>3. CASE ~(read # NoSegment /\ IsValid(read))
    <3>1. /\ next.source = left /\ next.over = TRUE /\ next.dest = loop.dest
          /\ next.status = loop.status /\ next.transferred = loop.transferred
          /\ next = LoopState(next.source, next.dest, next.status, next.transferred,
                              next.over)
      <4>1. PICK s, d, t, f, o :
               /\ s = loop.source /\ d = loop.dest /\ t = loop.status
               /\ f = loop.transferred /\ o = loop.over
        OBVIOUS
      <4>l. loop = LoopState(s, d, t, f, o)
        BY <1>i, <4>1, Zenon DEF LoopInvariant
      <4>2. \A v : [LoopState(s, d, t, f, o) EXCEPT !.source = left, !.over = v]
                      = LoopState(left, d, t, f, v)
        <5> TAKE v
        <5>1. [LoopState(s, d, t, f, o) EXCEPT !.source = left] = LoopState(left, d, t, f, o)
          BY DEF LoopState
        <5>2. [LoopState(left, d, t, f, o) EXCEPT !.over = v] = LoopState(left, d, t, f, v)
          BY DEF LoopState
        <5> QED
          BY <5>1, <5>2
      <4>3. next = LoopState(left, d, t, f, TRUE)
        BY <2>2, <2>3, <4>l, <4>2, Zenon
      <4> QED
        BY <4>1, <4>3, Zenon DEF LoopState
    <3>2. r <= at
      <4>1. CASE ~(loop.source.good /\ source.open)
        BY <1>r, <2>h, <4>1 DEF Larger, Smaller
      <4>2. CASE loop.source.good /\ source.open
        <5>1. read = NewRange(at, Larger(at, Smaller(to, x)))
          BY <1>f, <1>x, <2>p, <4>2 DEF Read, CanRead, ReadEnd
        <5>2. Larger(at, Smaller(to, x)) \in Nat
          BY DEF Larger, Smaller
        <5>3. read # NoSegment
          BY <5>1, <5>2, NoSegmentAssumption DEF NewRange, DataRange
        <5>4. ~(at < Larger(at, Smaller(to, x)))
          BY <2>3, <5>1, <5>3 DEF IsValid, NewRange
        <5> QED
          BY <1>r, <4>2, <5>4 DEF Larger, Smaller
      <4> QED
        BY <4>1, <4>2
    <3>3. Smaller(to, r) = upto /\ r <= to
      BY <1>o, <2>w, <3>2
    <3> QED
      BY <1>i, <2>e, <2>g, <2>t, <2>w, <3>1, <3>3, Zenon DEF LoopInvariant
  <2>4. CASE read # NoSegment /\ IsValid(read)
    <3>1. loop.source.good /\ source.open
      BY <1>f, <2>4, <2>p DEF Read, CanRead
    <3>2. PICK m \in Nat : m = Larger(at, Smaller(to, x)) /\ read = NewRange(at, m)
      BY <1>f, <1>x, <2>p, <3>1 DEF Read, CanRead, ReadEnd, Larger, Smaller
    <3>3. at < m
      BY <2>4, <3>2 DEF IsValid, NewRange
    <3>4. /\ m <= to /\ m <= x /\ m = Smaller(to, r) /\ Smaller(at, r) = at /\ m <= r
          /\ good <=> m = to
          /\ m = to <=> to <= Larger(begin, x)
      <4>0. at + (to - at) = to
        OBVIOUS
      <4>1. good <=> GoodAfterRead(loop.source, at, to - at)
        BY <2>g, Zenon
      <4>2. GoodAfterRead(loop.source, at, to - at) <=> m = to
        BY <1>f, <1>x, <3>1, <3>2, <4>0 DEF GoodAfterRead, CanRead, ReadEnd
      <4> QED
        BY <1>r, <3>1, <3>2, <3>3, <4>1, <4>2 DEF Larger, Smaller
    <3>p. AreInOrder(S, size, content, begin, at, m)
      BY <1>x, <3>3, <3>4 DEF AreInOrder
    <3>q. Join(S, content, begin, at, m)
      BY <3>p, PiecesInOrder
    <3>5. PICK p \in Seq(S) : p = Piece(content, begin, at) /\ Len(p) = at - begin
      BY <3>q, Zenon DEF Join
    <3>6. PICK q \in Seq(S) : q = Piece(content, at, m) /\ Len(q) = m - at
      BY <3>q, Zenon DEF Join
    <3>7. p \o q = Piece(content, begin, m)
      BY <3>q, <3>5, <3>6, Zenon DEF Join
    <3>8. PICK o : o = loop.dest
      OBVIOUS
    <3>9. o = Wrote(dest, p) /\ Len(p) <= dest.room
      BY <2>w, <3>4, <3>5, <3>8
    <3>10. /\ o \in OStreams(S) /\ ~o.has_error
           /\ o.room = dest.room - Len(p) /\ o.written = dest.written \o p
      <4>1. /\ Wrote(dest, p) \in OStreams(S)
            /\ Wrote(dest, p).room = dest.room - Len(p)
            /\ Wrote(dest, p).written = dest.written \o p
            /\ Wrote(dest, p).has_error = dest.has_error
        BY <3>9, WroteType
      <4> QED
        BY <3>9, <4>1
    <3>11. sent = Write(o, q)
      <4>1. Transfer(o, NewRange(at, m), content) = Write(o, Piece(content, at, m))
        BY <3>10, TransferIsWrite
      <4> QED
        BY <2>q, <3>2, <3>6, <3>8, <4>1, Zenon
    <3>12. /\ next.source = left /\ next.dest = sent.dest /\ next.status = sent.status
           /\ next.transferred = TRUE /\ next.over = (sent.status # "ok")
           /\ next = LoopState(next.source, next.dest, next.status, next.transferred,
                               next.over)
      <4>1. next = [source |-> left, dest |-> sent.dest, status |-> sent.status,
                    transferred |-> TRUE, over |-> sent.status # "ok"]
        BY <2>1, <2>4
      <4> QED
        BY <4>1, Zenon DEF LoopState
    <3>13. CASE Len(q) <= o.room
      <4>1. sent = [status |-> "ok", dest |-> Wrote(o, q)]
        BY <3>10, <3>11, <3>13, WriteFits, Zenon
      <4>2. Wrote(o, q) = Wrote(dest, Piece(content, begin, m))
        <5>1. Wrote(Wrote(dest, p), q) = Wrote(dest, p \o q)
          BY WroteTwice
        <5> QED
          BY <3>7, <3>9, <5>1, Zenon
      <4>3. m - begin <= dest.room
        BY <3>5, <3>6, <3>10, <3>13 DEF OStreams
      <4>4. Wrote(o, q).has_error = o.has_error
        BY <3>10, <3>13, WroteType
      <4>5. /\ next.dest = Wrote(dest, Piece(content, begin, m)) /\ next.status = "ok"
            /\ next.over = FALSE /\ ~next.dest.has_error
        <5>1. sent.status = "ok" /\ sent.dest = Wrote(o, q)
          BY <4>1
        <5>2. next.dest = Wrote(dest, Piece(content, begin, m)) /\ next.status = "ok"
          BY <3>12, <4>2, <5>1, Zenon
        <5>3. next.over = FALSE
          BY <3>12, <5>1, Zenon
        <5>4. ~next.dest.has_error
          BY <3>10, <3>12, <4>4, <5>1, Zenon
        <5> QED
          BY <5>2, <5>3, <5>4
      <4>6. m > begin
        BY <3>3
      <4> QED
        BY <1>x, <2>g, <2>t, <3>1, <3>2, <3>4, <3>12, <4>3, <4>5, <4>6, Zenon
           DEF LoopInvariant
    <3>14. CASE ~(Len(q) <= o.room)
      <4>1. Len(q) > o.room
        BY <3>6, <3>10, <3>14 DEF OStreams
      <4>2. sent.status = "error" /\ sent.dest \in OStreams(S) /\ sent.dest.has_error
        BY <3>10, <3>11, <4>1, WriteFails
      <4>6. IsFull(dest, sent.dest)
        <5>1. IsFull(o, sent.dest)
          BY <3>10, <3>11, <4>1, WriteFails
        <5>2. dest.written \in Seq(S) /\ dest.room \in Nat
          BY DEF OStreams
        <5>3. Len(o.written) = Len(dest.written) + Len(p)
          BY <3>5, <3>10, <5>2, ConcatProperties
        <5>4. Len(dest.written) \in Nat /\ Len(p) \in Nat
          BY <3>5, <5>2, LenProperties
        <5> QED
          BY <3>10, <5>1, <5>2, <5>3, <5>4 DEF IsFull
      <4>3. /\ next.dest \in OStreams(S) /\ next.dest.has_error /\ next.status = "error"
            /\ IsFull(dest, next.dest)
        BY <3>12, <4>2, <4>6, Zenon
      <4>4. "error" # "ok"
        OBVIOUS
      <4>5. next.over = TRUE
        BY <3>12, <4>2, <4>4, Zenon
      <4> QED
        BY <2>g, <2>t, <3>12, <4>3, <4>5, Zenon DEF LoopInvariant
    <3> QED
      BY <3>13, <3>14
  <2> QED
    BY <2>3, <2>4
<1> QED
  BY <1>1, <1>2, <1>i DEF LoopInvariant

\* The chunks: their number, and where they begin and end.
LEMMA ChunkNumbers ==
    ASSUME NEW length \in Nat \ {0}, NEW size \in Nat \ {0}
    PROVE  \E count \in Nat :
              /\ count = (length + size - 1) \div size
              /\ count * size >= length
              /\ \A n \in Nat : n < count => n * size < length
<1>1. PICK total \in Nat : total = length + size - 1
  OBVIOUS
<1>2. PICK count \in Int : count = total \div size
  OBVIOUS
<1>3. size * count <= total /\ total < size * count + size
  BY <1>2
<1>4. count \in Nat
  <2>1. ASSUME count < 0
        PROVE  FALSE
    <3>1. count <= -1
      BY <2>1
    <3>2. size * count <= size * (-1)
      BY <3>1
    <3> QED
      BY <1>3, <3>2
  <2> QED
    BY <2>1
<1>5. count * size >= length
  BY <1>1, <1>3
<1>6. ASSUME NEW n \in Nat, n < count
      PROVE  n * size < length
  <2>1. (n + 1) * size <= count * size
    BY <1>4, <1>6
  <2>2. (n + 1) * size = n * size + size
    OBVIOUS
  <2> QED
    BY <1>1, <1>3, <2>1, <2>2
<1> QED
  BY <1>1, <1>2, <1>4, <1>5, <1>6

ReadStep(content, loop, chunk) == ReadAndTransfer(loop, chunk, content)
Loop == INSTANCE SequenceFolds WITH Op <- ReadStep

LoopBase(source, dest) == LoopState(Clear(source), dest, "done", FALSE, FALSE)

LEMMA LoopIsFold ==
    \A content, base, seq :
        FoldLeft(LAMBDA l, chunk : ReadAndTransfer(l, chunk, content), base, seq)
           = Loop!Folded(content, base, seq)
  BY DEF Loop!Folded, ReadStep, FoldLeft, MapThenFoldSet, Loop!FoldLeft,
         Loop!MapThenFoldSet, Max, Loop!Max

LEMMA LoopIterates ==
    \A content, base, S : \A seq \in Seq(S) :
        /\ Loop!FoldedTo(content, base, seq, 0) = base
        /\ \A n \in 0 .. Len(seq) - 1 :
              Loop!FoldedTo(content, base, seq, n + 1) =
                 ReadAndTransfer(Loop!FoldedTo(content, base, seq, n), seq[n + 1], content)
        /\ Loop!FoldedTo(content, base, seq, Len(seq)) = Loop!Folded(content, base, seq)
<1> TAKE content, base, S
<1> TAKE seq \in Seq(S)
<1>1. Loop!FoldedTo(content, base, seq, 0) = base
  BY Loop!FoldedNone
<1>2. \A n \in 0 .. Len(seq) - 1 :
         Loop!FoldedTo(content, base, seq, n + 1) =
            ReadAndTransfer(Loop!FoldedTo(content, base, seq, n), seq[n + 1], content)
  BY Loop!FoldedNext DEF ReadStep
<1>3. Loop!FoldedTo(content, base, seq, Len(seq)) = Loop!Folded(content, base, seq)
  BY Loop!FoldedAll
<1> QED
  BY <1>1, <1>2, <1>3

LEMMA BaseIsSound ==
    ASSUME NEW S, NEW size \in Nat, NEW content \in Contents(size, S),
           NEW source \in DataSource, NEW dest \in OStreams(S), ~dest.has_error,
           NEW begin \in Nat, NEW end \in Nat, begin < end
    PROVE  LoopInvariant(S, content, source, dest, begin, ReadsUpTo(source, begin, end),
                         begin, LoopBase(source, dest))
<1>1. PICK base : base = LoopBase(source, dest)
  OBVIOUS
<1>2. PICK x \in Nat : x = source.extent.end
  BY DEF DataSource, DataRange
<1>3. PICK r \in Nat : r = ReadsUpTo(source, begin, end) /\ begin <= r
  BY <1>2 DEF ReadsUpTo, Larger, Smaller
<1>4. /\ base.source = [source EXCEPT !.good = source.open]
      /\ base.dest = dest /\ base.status = "done"
  BY <1>1 DEF LoopBase, LoopState, Clear
<1>5. base.transferred = FALSE /\ base.over = FALSE
  BY <1>1, Zenon DEF LoopBase, LoopState
<1>6. base = LoopState(base.source, base.dest, base.status, base.transferred, base.over)
  BY <1>1, Zenon DEF LoopBase, LoopState
<1>7. source.open \in BOOLEAN /\ base.source.good = source.open
  BY <1>4 DEF DataSource
<1>8. begin = Smaller(begin, r) /\ begin - begin <= dest.room /\ ~(begin > begin)
  BY <1>3 DEF Smaller, OStreams
<1>9. base.dest = Wrote(dest, Piece(content, begin, begin))
  BY <1>4, EmptyPiece, WroteNothing
<1>10. begin <= Larger(begin, source.extent.end)
  BY <1>2 DEF Larger
<1>11. LoopInvariant(S, content, source, dest, begin, r, begin, base)
  BY <1>4, <1>5, <1>6, <1>7, <1>8, <1>9, <1>10, Zenon DEF LoopInvariant
<1> QED
  BY <1>1, <1>3, <1>11, Zenon

\* The chunks of a range, and the locations between them.
IsDivision(at, chunks, count, begin, end, chunk) ==
    /\ count \in Nat
    /\ chunks = Chunks(NewRange(begin, end), chunk)
    /\ chunks \in Seq(DataRange) /\ Len(chunks) = count
    /\ at[0] = begin /\ at[count] = end
    /\ \A n \in Nat : n < count =>
          /\ at[n] \in Nat /\ at[n + 1] \in Nat
          /\ begin <= at[n] /\ at[n] < at[n + 1] /\ at[n + 1] <= end
          /\ chunks[n + 1] = NewRange(at[n], at[n + 1])

LEMMA ChunkAt ==
    ASSUME NEW begin \in Nat, NEW end \in Nat, begin < end, NEW chunk \in Nat \ {0}
    PROVE  \E at, chunks, count : IsDivision(at, chunks, count, begin, end, chunk)
<1> DEFINE At(n) == Smaller(end, begin + n * chunk)
<1>c. PICK count \in Nat : count = ((end - begin) + chunk - 1) \div chunk
  <2>1. end - begin \in Nat \ {0}
    OBVIOUS
  <2> QED
    BY <2>1, ChunkNumbers
<1>1. PICK length \in Nat \ {0} : length = end - begin
  OBVIOUS
<1>2. count * chunk >= length /\ \A n \in Nat : n < count => n * chunk < length
  <2>1. PICK c \in Nat : /\ c = (length + chunk - 1) \div chunk
                         /\ c * chunk >= length
                         /\ \A n \in Nat : n < c => n * chunk < length
    BY ChunkNumbers
  <2>2. c = count
    BY <1>1, <1>c, <2>1
  <2> QED
    BY <2>1, <2>2
<1>3. PICK chunks :
         chunks = [n \in 1 .. count |-> NewRange(begin + (n - 1) * chunk,
                                                 Smaller(end, begin + n * chunk))]
  OBVIOUS
<1>4. chunks = Chunks(NewRange(begin, end), chunk)
  <2>1. /\ NewRange(begin, end).begin = begin /\ NewRange(begin, end).end = end
        /\ Length(NewRange(begin, end)) = end - begin
    BY DEF NewRange, Length, IsValid
  <2> QED
    BY <1>3, <1>c, <2>1 DEF Chunks
<1>5. chunks \in Seq(DataRange) /\ Len(chunks) = count
  <2>1. ASSUME NEW n \in 1 .. count
        PROVE  chunks[n] \in DataRange
    <3>1. PICK from \in Nat : from = begin + (n - 1) * chunk
      <4>1. (n - 1) * chunk \in Nat
        <5>1. PICK k \in Nat : k = n - 1
          OBVIOUS
        <5>2. k * chunk \in Nat
          OBVIOUS
        <5> QED
          BY <5>1, <5>2
      <4> QED
        BY <4>1
    <3>2. PICK to \in Nat : to = Smaller(end, begin + n * chunk)
      <4>1. n * chunk \in Nat
        OBVIOUS
      <4> QED
        BY <4>1 DEF Smaller
    <3> QED
      BY <1>3, <3>1, <3>2 DEF NewRange, DataRange
  <2>2. chunks \in Seq(DataRange)
    <3>1. chunks = [n \in 1 .. count |-> chunks[n]]
      BY <1>3
    <3>2. [n \in 1 .. count |-> chunks[n]] \in Seq(DataRange)
      BY <2>1, IsASeq
    <3> QED
      BY <3>1, <3>2
  <2> QED
    BY <1>3, <2>2, LenProperties
<1>6. At(0) = begin /\ At(count) = end
  <2>1. 0 * chunk = 0
    OBVIOUS
  <2>2. PICK total \in Nat : total = count * chunk
    OBVIOUS
  <2> QED
    BY <1>1, <1>2, <2>1, <2>2 DEF Smaller
<1>7. ASSUME NEW n \in Nat, n < count
      PROVE  /\ At(n) \in Nat /\ At(n + 1) \in Nat
             /\ begin <= At(n) /\ At(n) < At(n + 1) /\ At(n + 1) <= end
             /\ chunks[n + 1] = NewRange(At(n), At(n + 1))
  <2>1. PICK before \in Nat : before = n * chunk /\ before < length
    BY <1>2, <1>7
  <2>2. (n + 1) * chunk = before + chunk
    BY <2>1
  <2>3. At(n) = begin + before /\ At(n + 1) = Smaller(end, begin + before + chunk)
    BY <1>1, <2>1, <2>2 DEF Smaller
  <2>4. chunks[n + 1] = NewRange(At(n), At(n + 1))
    <3>1. n + 1 \in 1 .. count /\ (n + 1) - 1 = n
      BY <1>7
    <3>2. chunks[n + 1] = NewRange(begin + ((n + 1) - 1) * chunk,
                                   Smaller(end, begin + (n + 1) * chunk))
      BY <1>3, <3>1
    <3> QED
      BY <2>1, <2>3, <3>1, <3>2
  <2> QED
    BY <1>1, <2>1, <2>3, <2>4 DEF Smaller
<1>8. PICK at : at = [n \in Nat |-> At(n)]
  OBVIOUS
<1>9. \A n \in Nat : at[n] = At(n)
  BY <1>8
<1>10. at[0] = begin /\ at[count] = end
  BY <1>6, <1>9, Zenon
<1> HIDE DEF At
<1>11. ASSUME NEW n \in Nat, n < count
       PROVE  /\ at[n] \in Nat /\ at[n + 1] \in Nat
              /\ begin <= at[n] /\ at[n] < at[n + 1] /\ at[n + 1] <= end
              /\ chunks[n + 1] = NewRange(at[n], at[n + 1])
  <2>1. at[n] = At(n) /\ at[n + 1] = At(n + 1)
    BY <1>9
  <2> QED
    BY <1>7, <1>11, <2>1
<1>12. IsDivision(at, chunks, count, begin, end, chunk)
  BY <1>4, <1>5, <1>10, <1>11, Zenon DEF IsDivision
<1> QED
  BY <1>12, Zenon

LEMMA LoopOutcome ==
    ASSUME NEW S, NEW size \in Nat, NEW content \in Contents(size, S),
           NEW source \in DataSource, source.extent.end <= size,
           NEW dest \in OStreams(S), ~dest.has_error,
           NEW begin \in Nat, NEW end \in Nat, begin < end, NEW chunk \in Nat \ {0}
    PROVE  LoopInvariant(S, content, source, dest, begin,
                         ReadsUpTo(source, begin, end), end,
                         Loop!Folded(content, LoopBase(source, dest),
                                     Chunks(NewRange(begin, end), chunk)))
<1>b. PICK base : base = LoopBase(source, dest)
  OBVIOUS
<1>r. PICK reach : reach = ReadsUpTo(source, begin, end)
  OBVIOUS
<1> DEFINE Inv(at, loop) == LoopInvariant(S, content, source, dest, begin, reach, at, loop)
<1>d. PICK at, chunks, count : IsDivision(at, chunks, count, begin, end, chunk)
  BY ChunkAt, Zenon
<1>1. /\ count \in Nat
      /\ chunks = Chunks(NewRange(begin, end), chunk)
      /\ chunks \in Seq(DataRange) /\ Len(chunks) = count
      /\ at[0] = begin /\ at[count] = end
      /\ \A n \in Nat : n < count =>
            /\ at[n] \in Nat /\ at[n + 1] \in Nat
            /\ begin <= at[n] /\ at[n] < at[n + 1] /\ at[n + 1] <= end
            /\ chunks[n + 1] = NewRange(at[n], at[n + 1])
  BY <1>d, Zenon DEF IsDivision
<1>2. PICK done :
         /\ done[0] = base /\ done[count] = Loop!Folded(content, base, chunks)
         /\ \A n \in 0 .. count - 1 :
               done[n + 1] = ReadAndTransfer(done[n], chunks[n + 1], content)
  <2>1. PICK f : f = [n \in Nat |-> Loop!FoldedTo(content, base, chunks, n)]
    OBVIOUS
  <2>2. \A n \in Nat : f[n] = Loop!FoldedTo(content, base, chunks, n)
    BY <2>1
  <2>3. chunks \in Seq(DataRange) /\ Len(chunks) = count
    BY <1>1
  <2>i. /\ Loop!FoldedTo(content, base, chunks, 0) = base
        /\ \A n \in 0 .. Len(chunks) - 1 :
              Loop!FoldedTo(content, base, chunks, n + 1) =
                 ReadAndTransfer(Loop!FoldedTo(content, base, chunks, n), chunks[n + 1],
                                 content)
        /\ Loop!FoldedTo(content, base, chunks, Len(chunks))
              = Loop!Folded(content, base, chunks)
    BY <2>3, LoopIterates, Zenon
  <2>4. f[0] = base
    BY <2>2, <2>i
  <2>5. f[count] = Loop!Folded(content, base, chunks)
    BY <1>1, <2>2, <2>3, <2>i
  <2>6. ASSUME NEW n \in 0 .. count - 1
        PROVE  f[n + 1] = ReadAndTransfer(f[n], chunks[n + 1], content)
    <3>1. Loop!FoldedTo(content, base, chunks, n + 1) =
             ReadAndTransfer(Loop!FoldedTo(content, base, chunks, n), chunks[n + 1], content)
      BY <2>3, <2>i
    <3>2. f[n] = Loop!FoldedTo(content, base, chunks, n)
      BY <1>1, <2>2
    <3>3. f[n + 1] = Loop!FoldedTo(content, base, chunks, n + 1)
      BY <1>1, <2>2
    <3> QED
      BY <3>1, <3>2, <3>3, Zenon
  <2> QED
    BY <2>4, <2>5, <2>6
<1> HIDE DEF Inv
<1>5. PICK T : T = {n \in Nat : n <= count => Inv(at[n], done[n])}
  OBVIOUS
<1>6. 0 \in T
  BY <1>1, <1>2, <1>5, <1>b, <1>r, BaseIsSound DEF Inv
<1>7. ASSUME NEW n \in Nat, n \in T
      PROVE  n + 1 \in T
  <2>1. CASE n < count
    <3>l. PICK loop : loop = done[n]
      OBVIOUS
    <3>1. PICK p \in Nat, q \in Nat :
             /\ p = at[n] /\ q = at[n + 1]
             /\ begin <= p /\ p < q /\ q <= end /\ chunks[n + 1] = NewRange(p, q)
      BY <1>1, <2>1
    <3>2. Inv(p, loop)
      BY <1>1, <1>5, <1>7, <2>1, <3>1, <3>l
    <3>3. done[n + 1] = ReadAndTransfer(loop, NewRange(p, q), content)
      BY <1>1, <1>2, <2>1, <3>1, <3>l
    <3>4. Inv(q, ReadAndTransfer(loop, NewRange(p, q), content))
      BY <1>r, <3>1, <3>2, LoopStep DEF Inv
    <3> QED
      BY <1>5, <3>1, <3>3, <3>4
  <2>2. CASE ~(n < count)
    <3>1. ~(n + 1 <= count)
      BY <1>1, <2>2
    <3> QED
      BY <1>5, <3>1
  <2> QED
    BY <2>1, <2>2
<1>8. \A n \in Nat : n \in T
  BY <1>6, <1>7, Loop!NatSetInduction
<1>9. Inv(end, Loop!Folded(content, base, chunks))
  BY <1>1, <1>2, <1>5, <1>8
<1> QED
  BY <1>1, <1>9, <1>b, <1>r DEF Inv

-----------------------------------------------------------------------------
(***************************************************************************)
(* TransferData.                                                           *)
(***************************************************************************)

\* Where the bytes end that a source has of a range.
Available(source, range) ==
    IF source.cached # NoSegment /\ ContainsRange(source.cached, range)
    THEN range.end
    ELSE ReadsUpTo(source, range.begin, range.end)

\* A source whose bytes are those of a content, for a transfer of the range: one in
\* memory begins in front of it.
HasContent(S, size, content, source, range) ==
    /\ size \in Nat /\ content \in Contents(size, S)
    /\ source \in DataSource /\ range \in DataRange
    /\ source.extent.end <= size
    /\ source.cached # NoSegment => source.cached.end <= size
    /\ source.kind = "memory" =>
          source.open /\ source.cached = NoSegment /\ source.extent.begin <= range.begin

\* What a transfer comes to: the destination has got all bytes up to a location, or it
\* has an error now and the result is one.
Transferred(S, content, begin, upto, source, dest, outcome) ==
    /\ outcome.source.good \in BOOLEAN
    /\ outcome.source = [source EXCEPT !.good = outcome.source.good]
    /\ outcome.dest \in OStreams(S)
    /\ outcome.dest.has_error <=> outcome.result = "error"
    /\ outcome.dest.has_error => IsFull(dest, outcome.dest)
    /\ ~outcome.dest.has_error =>
          /\ begin <= upto /\ upto - begin <= dest.room
          /\ outcome.dest = Wrote(dest, Piece(content, begin, upto))
          /\ outcome.result = "success" <=> upto > begin

LEMMA OneTransfer ==
    ASSUME NEW S, NEW size \in Nat, NEW content \in Contents(size, S),
           NEW source \in DataSource, NEW dest \in OStreams(S), ~dest.has_error,
           NEW begin \in Nat, NEW end \in Nat, begin < end, end <= size
    PROVE  LET sent == Transfer(dest, NewRange(begin, end), content)
           IN  Transferred(S, content, begin, end, source, dest,
                           Outcome(source, sent.dest, sent.status, TRUE))
<1>1. PICK sent : sent = Transfer(dest, NewRange(begin, end), content)
  OBVIOUS
<1>2. PICK q \in Seq(S) : q = Piece(content, begin, end) /\ Len(q) = end - begin
  <2>1. AreInOrder(S, size, content, begin, begin, end)
    BY DEF AreInOrder
  <2>2. Join(S, content, begin, begin, end)
    BY <2>1, PiecesInOrder
  <2> QED
    BY <2>2, Zenon DEF Join
<1>3. sent = Write(dest, q)
  <2>1. Transfer(dest, NewRange(begin, end), content) = Write(dest, Piece(content, begin, end))
    BY TransferIsWrite
  <2> QED
    BY <1>1, <1>2, <2>1
<1>4. PICK outcome : outcome = Outcome(source, sent.dest, sent.status, TRUE)
  OBVIOUS
<1>5. /\ outcome.source = source /\ outcome.dest = sent.dest
      /\ outcome.result = IF sent.status = "error" THEN "error" ELSE "success"
  BY <1>4 DEF Outcome
<1>6. /\ outcome.source.good \in BOOLEAN
      /\ outcome.source = [source EXCEPT !.good = outcome.source.good]
  BY <1>5 DEF DataSource
<1>7. CASE Len(q) <= dest.room
  <2>1. sent = [status |-> "ok", dest |-> Wrote(dest, q)]
    BY <1>3, <1>7, WriteFits
  <2>2. /\ Wrote(dest, q) \in OStreams(S)
        /\ Wrote(dest, q).has_error = dest.has_error
    BY <1>7, WroteType
  <2>3. outcome.result = "success" /\ outcome.dest = Wrote(dest, q)
    BY <1>5, <2>1
  <2>4. ~outcome.dest.has_error
    BY <2>2, <2>3
  <2>5. begin <= end /\ end > begin /\ end - begin <= dest.room
    BY <1>2, <1>7
  <2>6. outcome.result # "error"
    BY <2>3
  <2>7. Transferred(S, content, begin, end, source, dest, outcome)
    BY <1>2, <1>6, <2>2, <2>3, <2>4, <2>5, <2>6, Zenon DEF Transferred
  <2> QED
    BY <1>1, <1>4, <2>7
<1>8. CASE ~(Len(q) <= dest.room)
  <2>1. Len(q) > dest.room
    BY <1>2, <1>8 DEF OStreams
  <2>2. /\ sent.status = "error" /\ sent.dest \in OStreams(S) /\ sent.dest.has_error
        /\ IsFull(dest, sent.dest)
    BY <1>3, <2>1, WriteFails
  <2>3. /\ outcome.result = "error" /\ outcome.dest \in OStreams(S) /\ outcome.dest.has_error
        /\ IsFull(dest, outcome.dest)
    BY <1>5, <2>2
  <2>4. Transferred(S, content, begin, end, source, dest, outcome)
    BY <1>6, <2>3, Zenon DEF Transferred
  <2> QED
    BY <1>1, <1>4, <2>4
<1> QED
  BY <1>7, <1>8

LEMMA NoTransfer ==
    ASSUME NEW S, NEW content, NEW source \in DataSource, NEW dest \in OStreams(S),
           ~dest.has_error, NEW begin \in Nat
    PROVE  Transferred(S, content, begin, begin, source, dest,
                       Outcome(source, dest, "done", FALSE))
<1>1. PICK outcome : outcome = Outcome(source, dest, "done", FALSE)
  OBVIOUS
<1>2. outcome.source = source /\ outcome.dest = dest /\ outcome.result = "none"
  BY <1>1 DEF Outcome
<1>3. /\ outcome.source.good \in BOOLEAN
      /\ outcome.source = [source EXCEPT !.good = outcome.source.good]
  BY <1>2 DEF DataSource
<1>4. outcome.dest = Wrote(dest, Piece(content, begin, begin))
  BY <1>2, EmptyPiece, WroteNothing
<1>5. begin <= begin /\ begin - begin <= dest.room /\ ~(begin > begin)
  BY DEF OStreams
<1>6. outcome.result # "success" /\ outcome.result # "error"
  BY <1>2
<1>7. Transferred(S, content, begin, begin, source, dest, outcome)
  BY <1>2, <1>3, <1>4, <1>5, <1>6, Zenon DEF Transferred
<1> QED
  BY <1>1, <1>7

\* The loop is over: what it made of the source and the destination.
LEMMA AfterLoop ==
    ASSUME NEW S, NEW size \in Nat, NEW content \in Contents(size, S),
           NEW source \in DataSource, source.extent.end <= size,
           NEW dest \in OStreams(S), ~dest.has_error,
           NEW begin \in Nat, NEW end \in Nat, begin < end, NEW loop,
           LoopInvariant(S, content, source, dest, begin,
                         ReadsUpTo(source, begin, end), end, loop)
    PROVE  Transferred(S, content, begin, ReadsUpTo(source, begin, end), source, dest,
                       Outcome(loop.source, loop.dest, loop.status, loop.transferred))
<1>o. PICK outcome :
         outcome = Outcome(loop.source, loop.dest, loop.status, loop.transferred)
  OBVIOUS
<1>x. PICK x \in Nat : x = source.extent.end
  BY DEF DataSource, DataRange
<1>r. PICK r \in Nat : /\ r = ReadsUpTo(source, begin, end)
                       /\ begin <= r /\ r <= end
                       /\ r > begin => r <= x
  BY <1>x DEF ReadsUpTo, Larger, Smaller
<1>i. LoopInvariant(S, content, source, dest, begin, r, end, loop)
  BY <1>r, Zenon
<1>1. /\ outcome.source = loop.source /\ outcome.dest = loop.dest
      /\ ~loop.transferred => outcome.result = "none"
      /\ loop.transferred /\ loop.status = "error" => outcome.result = "error"
      /\ loop.transferred /\ loop.status # "error" => outcome.result = "success"
  BY <1>o DEF Outcome
<1>2. /\ outcome.source.good \in BOOLEAN
      /\ outcome.source = [source EXCEPT !.good = outcome.source.good]
  BY <1>1, <1>i, Zenon DEF LoopInvariant
<1>3. CASE loop.dest.has_error
  <2>1. /\ outcome.dest \in OStreams(S) /\ outcome.dest.has_error
        /\ outcome.result = "error" /\ IsFull(dest, outcome.dest)
    BY <1>1, <1>3, <1>i, Zenon DEF LoopInvariant
  <2>2. Transferred(S, content, begin, r, source, dest, outcome)
    BY <1>2, <2>1, Zenon DEF Transferred
  <2> QED
    BY <1>o, <1>r, <2>2, Zenon
<1>4. CASE ~loop.dest.has_error
  <2>1. PICK upto \in Nat :
           /\ upto = Smaller(end, r) /\ upto - begin <= dest.room
           /\ loop.dest = Wrote(dest, Piece(content, begin, upto))
           /\ loop.status # "error"
           /\ loop.transferred <=> upto > begin
    BY <1>4, <1>i, Zenon DEF LoopInvariant
  <2>2. upto = r
    BY <1>r, <2>1 DEF Smaller
  <2>3. Wrote(dest, Piece(content, begin, r)) \in OStreams(S)
    <3>1. CASE r = begin
      BY <3>1, EmptyPiece, WroteNothing
    <3>2. CASE r # begin
      <4>1. AreInOrder(S, size, content, begin, begin, r)
        BY <1>r, <1>x, <3>2 DEF AreInOrder
      <4>2. Join(S, content, begin, begin, r)
        BY <4>1, PiecesInOrder
      <4>3. PICK p \in Seq(S) : p = Piece(content, begin, r) /\ Len(p) = r - begin
        BY <4>2, Zenon DEF Join
      <4>4. Len(p) <= dest.room
        BY <2>1, <2>2, <4>3
      <4> QED
        BY <4>3, <4>4, WroteType
    <3> QED
      BY <3>1, <3>2
  <2>4. /\ outcome.dest = Wrote(dest, Piece(content, begin, r))
        /\ outcome.dest \in OStreams(S) /\ ~outcome.dest.has_error
    BY <1>1, <1>4, <2>1, <2>2, <2>3, Zenon
  <2>5. outcome.result # "error"
    BY <1>1, <2>1
  <2>6. outcome.result = "success" <=> r > begin
    <3>1. "none" # "success"
      OBVIOUS
    <3> QED
      BY <1>1, <1>i, <2>1, <2>2, <3>1, Zenon DEF LoopInvariant
  <2>7. begin <= r /\ r - begin <= dest.room
    BY <1>r, <2>1, <2>2
  <2>8. Transferred(S, content, begin, r, source, dest, outcome)
    BY <1>2, <2>4, <2>5, <2>6, <2>7, Zenon DEF Transferred
  <2> QED
    BY <1>o, <1>r, <2>8, Zenon
<1> QED
  BY <1>3, <1>4

\* TransferData (istream_ref_data_source.cc, data_segment_data_source.cc) writes the bytes
\* of the range that the source has, and counts them, or leaves an error behind: in any
\* state of the stream and of its cached segment.
THEOREM TransferOutcome ==
    ASSUME NEW S, NEW size, NEW content, NEW source, NEW range,
           HasContent(S, size, content, source, range),
           NEW dest \in OStreams(S), ~dest.has_error
    PROVE  Transferred(S, content, range.begin, Available(source, range), source, dest,
                       TransferData(source, content, range, dest))
<1>h. /\ size \in Nat /\ content \in Contents(size, S)
      /\ source \in DataSource /\ range \in DataRange
      /\ source.extent.end <= size
      /\ source.cached # NoSegment => source.cached.end <= size
      /\ source.kind = "memory" =>
            source.open /\ source.cached = NoSegment /\ source.extent.begin <= range.begin
  BY Zenon DEF HasContent
<1>b. PICK b \in Nat, e \in Nat : b = range.begin /\ e = range.end /\ range = NewRange(b, e)
  BY <1>h DEF DataRange, NewRange
<1>x. PICK a \in Nat, x \in Nat : a = source.extent.begin /\ x = source.extent.end
  BY <1>h DEF DataSource, DataRange
<1>u. PICK u : u = Available(source, range)
  OBVIOUS
<1>v. IsValid(range) <=> b < e
  BY <1>b DEF IsValid
<1>1. CASE source.kind = "memory"
  <2>1. TransferData(source, content, range, dest) = FromSegment(source, content, range, dest)
    BY <1>1 DEF TransferData
  <2>2. PICK part : part = Intersection(source.extent, range)
    OBVIOUS
  <2>3. part = NewRange(b, Smaller(e, x)) /\ Smaller(e, x) \in Nat
    <3>1. Larger(b, a) = b
      BY <1>1, <1>b, <1>h, <1>x DEF Larger
    <3> QED
      BY <1>b, <1>x, <2>2, <3>1 DEF Intersection, Smaller
  <2>4. u = Larger(b, Smaller(e, x))
    BY <1>1, <1>b, <1>h, <1>u, <1>x DEF Available, ReadsUpTo
  <2>5. CASE b < Smaller(e, x)
    <3>1. IsValid(part)
      BY <2>3, <2>5 DEF IsValid, NewRange
    <3>2. PICK m \in Nat : m = Smaller(e, x) /\ m <= size /\ u = m
      BY <1>h, <1>x, <2>3, <2>4, <2>5 DEF Smaller, Larger
    <3>3. PICK sent : sent = Transfer(dest, NewRange(b, m), content)
      OBVIOUS
    <3>4. FromSegment(source, content, range, dest)
             = Outcome(source, sent.dest, sent.status, TRUE)
      BY <2>2, <2>3, <3>1, <3>2, <3>3 DEF FromSegment
    <3>5. Transferred(S, content, b, m, source, dest,
                      Outcome(source, sent.dest, sent.status, TRUE))
      BY <1>h, <2>5, <3>2, <3>3, OneTransfer
    <3> QED
      BY <1>b, <1>u, <2>1, <3>2, <3>4, <3>5, Zenon
  <2>6. CASE ~(b < Smaller(e, x))
    <3>1. ~IsValid(part)
      BY <2>3, <2>6 DEF IsValid, NewRange
    <3>2. FromSegment(source, content, range, dest) = Outcome(source, dest, "done", FALSE)
      BY <2>2, <3>1 DEF FromSegment
    <3>3. u = b
      BY <2>3, <2>4, <2>6 DEF Larger
    <3>4. Transferred(S, content, b, b, source, dest, Outcome(source, dest, "done", FALSE))
      BY <1>h, NoTransfer
    <3> QED
      BY <1>b, <1>u, <2>1, <3>2, <3>3, <3>4, Zenon
  <2> QED
    BY <2>5, <2>6
<1>2. CASE source.kind # "memory" /\ ~IsValid(range)
  <2>1. TransferData(source, content, range, dest) = Outcome(source, dest, "done", FALSE)
    BY <1>2 DEF TransferData, FromStream
  <2>2. u = b
    <3>1. u = ReadsUpTo(source, b, e)
      BY <1>2, <1>b, <1>u DEF Available, ContainsRange
    <3>2. ~(b < e)
      BY <1>2, <1>v
    <3> QED
      BY <1>x, <3>1, <3>2 DEF ReadsUpTo, Larger, Smaller
  <2>3. Transferred(S, content, b, b, source, dest, Outcome(source, dest, "done", FALSE))
    BY <1>h, NoTransfer
  <2> QED
    BY <1>b, <1>u, <2>1, <2>2, <2>3, Zenon
<1>3. CASE source.kind # "memory" /\ IsValid(range)
  <2>1. b < e /\ Length(range) = e - b
    BY <1>3, <1>b, <1>v DEF Length
  <2>2. PICK chunk \in Nat \ {0} : chunk = Smaller(Length(range), BestDataSize)
                                   /\ chunk <= e - b
    BY <2>1, BestDataSizeAssumption DEF Smaller
  <2>3. CASE source.cached # NoSegment /\ ContainsRange(source.cached, range)
    <3>1. Length(source.cached) >= chunk
      BY <1>b, <1>h, <2>1, <2>2, <2>3
         DEF ContainsRange, IsValid, Length, DataSource, DataSegment, DataRange
    <3>2. PICK sent : sent = Transfer(dest, range, content)
      OBVIOUS
    <3>3. TransferData(source, content, range, dest)
             = Outcome(source, sent.dest, sent.status, TRUE)
      BY <1>3, <2>2, <2>3, <3>1, <3>2 DEF TransferData, FromStream
    <3>4. u = e /\ e <= size
      BY <1>b, <1>h, <1>u, <2>3
         DEF Available, ContainsRange, DataSource, DataSegment, DataRange
    <3>5. Transferred(S, content, b, e, source, dest,
                      Outcome(source, sent.dest, sent.status, TRUE))
      BY <1>b, <1>h, <2>1, <3>2, <3>4, OneTransfer
    <3> QED
      BY <1>b, <1>u, <3>3, <3>4, <3>5, Zenon
  <2>4. CASE ~(source.cached # NoSegment /\ ContainsRange(source.cached, range))
    <3>1. PICK loop : loop = Loop!Folded(content, LoopBase(source, dest), Chunks(range, chunk))
      OBVIOUS
    <3>2. TransferData(source, content, range, dest)
             = Outcome(loop.source, loop.dest, loop.status, loop.transferred)
      <4>1. loop = FoldLeft(LAMBDA l, c : ReadAndTransfer(l, c, content),
                            [source |-> Clear(source), dest |-> dest, status |-> "done",
                             transferred |-> FALSE, over |-> FALSE],
                            Chunks(range, chunk))
        BY <3>1, LoopIsFold DEF LoopBase, LoopState
      <4> QED
        BY <1>3, <2>2, <2>4, <4>1 DEF TransferData, FromStream
    <3>3. u = ReadsUpTo(source, b, e)
      BY <1>b, <1>u, <2>4 DEF Available
    <3>4. LoopInvariant(S, content, source, dest, b, ReadsUpTo(source, b, e), e, loop)
      BY <1>b, <1>h, <2>1, <3>1, LoopOutcome
    <3>5. Transferred(S, content, b, ReadsUpTo(source, b, e), source, dest,
                      Outcome(loop.source, loop.dest, loop.status, loop.transferred))
      BY <1>h, <2>1, <3>4, AfterLoop
    <3> QED
      BY <1>b, <1>u, <3>2, <3>3, <3>5, Zenon
  <2> QED
    BY <2>3, <2>4
<1> QED
  BY <1>1, <1>2, <1>3
-----------------------------------------------------------------------------
(***************************************************************************)
(* A DataRangeTrackingDestination in front of the ostream.  It passes on   *)
(* what it gets, so that the loop goes as it does without it; what it      *)
(* notes is the range that was written.                                    *)
(***************************************************************************)
Tracking(next, tracked, bytes_transferred, disjoint) ==
    [kind |-> "tracking", next |-> next, tracked |-> tracked,
     bytes_transferred |-> bytes_transferred, disjoint |-> disjoint]

Covered(begin, end) == IF begin < end THEN NewRange(begin, end) ELSE InvalidRange

\* A tracking destination in front of that ostream, which has noted what was written.
Tracks(dest, ostream, begin, upto) ==
    \E tracked, bytes_transferred, disjoint :
        /\ dest = Tracking(ostream, tracked, bytes_transferred, disjoint)
        /\ ~ostream.has_error => disjoint = FALSE /\ tracked = Covered(begin, upto)

LEMMA TrackedTransfer ==
    ASSUME NEW ostream, ostream.kind = "ostream", NEW tracked, NEW count, NEW disjoint,
           NEW range, NEW content
    PROVE  LET sent == Transfer(ostream, range, content)
               both == Transfer(Tracking(ostream, tracked, count, disjoint), range, content)
               joined == ~IsValid(tracked) \/ tracked.end = range.begin
           IN  /\ both.status = sent.status
               /\ \E c : both.dest = Tracking(sent.dest,
                                              IF ~disjoint /\ joined
                                              THEN Extended(tracked, range) ELSE tracked,
                                              c, disjoint \/ ~joined)
<1>1. PICK bytes : bytes = [n \in 1 .. Length(range) |-> content[range.begin + n - 1]]
  OBVIOUS
<1>2. PICK d : d = Tracking(ostream, tracked, count, disjoint)
  OBVIOUS
<1>3. d.kind = "tracking" /\ d.next = ostream /\ d.tracked = tracked
  BY <1>2 DEF Tracking
<1>4. (d.disjoint <=> disjoint) /\ d.disjoint = disjoint
  BY <1>2, Zenon DEF Tracking
<1>5. Transfer(ostream, range, content) = Write(ostream, bytes)
  BY <1>1 DEF Transfer
<1>6. Transfer(d, range, content) = TrackTransfer(d, range, bytes)
  BY <1>1, <1>3 DEF Transfer
<1>7. PICK out : out = Write(ostream, bytes)
  OBVIOUS
<1> DEFINE joined == ~IsValid(tracked) \/ tracked.end = range.begin
           note   == IF ~disjoint /\ joined THEN Extended(tracked, range) ELSE tracked
           c      == d.bytes_transferred + (IF out.status # "error" THEN Length(range) ELSE 0)
<1>8. TrackTransfer(d, range, bytes).status = out.status
  BY <1>3, <1>7 DEF TrackTransfer
<1>9. TrackTransfer(d, range, bytes).dest
         = [d EXCEPT !.next = out.dest, !.tracked = note, !.bytes_transferred = c,
                     !.disjoint = disjoint \/ ~joined]
  BY <1>3, <1>4, <1>7, Zenon DEF TrackTransfer
<1> HIDE DEF joined, note, c
<1>10. \A e : [Tracking(ostream, tracked, count, disjoint)
                EXCEPT !.next = out.dest, !.tracked = note, !.bytes_transferred = c,
                     !.disjoint = e]
         = Tracking(out.dest, note, c, e)
  <2> TAKE e
  <2>1. [Tracking(ostream, tracked, count, disjoint) EXCEPT !.next = out.dest]
           = Tracking(out.dest, tracked, count, disjoint)
    BY DEF Tracking
  <2>2. [Tracking(out.dest, tracked, count, disjoint) EXCEPT !.tracked = note]
           = Tracking(out.dest, note, count, disjoint)
    BY DEF Tracking
  <2>3. [Tracking(out.dest, note, count, disjoint) EXCEPT !.bytes_transferred = c]
           = Tracking(out.dest, note, c, disjoint)
    BY DEF Tracking
  <2>4. [Tracking(out.dest, note, c, disjoint) EXCEPT !.disjoint = e]
           = Tracking(out.dest, note, c, e)
    BY DEF Tracking
  <2> QED
    BY <2>1, <2>2, <2>3, <2>4
<1>11. TrackTransfer(d, range, bytes).dest = Tracking(out.dest, note, c, disjoint \/ ~joined)
  BY <1>2, <1>9, <1>10, Zenon
<1> QED
  BY <1>2, <1>5, <1>6, <1>7, <1>8, <1>11, Zenon DEF joined, note

\* The next range is noted.
LEMMA TracksNext ==
    ASSUME NEW dest, NEW ostream, ostream.kind = "ostream", ~ostream.has_error,
           NEW begin \in Nat, NEW at \in Nat, NEW to \in Nat, begin <= at, at < to,
           Tracks(dest, ostream, begin, at), NEW content
    PROVE  LET sent == Transfer(ostream, NewRange(at, to), content)
               both == Transfer(dest, NewRange(at, to), content)
           IN  both.status = sent.status /\ Tracks(both.dest, sent.dest, begin, to)
<1>1. PICK tracked, count, disjoint :
         /\ dest = Tracking(ostream, tracked, count, disjoint)
         /\ disjoint = FALSE /\ tracked = Covered(begin, at)
  BY Zenon DEF Tracks
<1>r. PICK range : range = NewRange(at, to)
  OBVIOUS
<1>s. PICK sent : sent = Transfer(ostream, range, content)
  OBVIOUS
<1>b. PICK both : both = Transfer(dest, range, content)
  OBVIOUS
<1>j. PICK joined : joined = (~IsValid(tracked) \/ tracked.end = range.begin)
  OBVIOUS
<1>2. ~IsValid(tracked) \/ tracked.end = range.begin
  BY <1>1, <1>r DEF Covered, IsValid, NewRange, InvalidRange
<1>3. Extended(tracked, range) = Covered(begin, to)
  BY <1>1, <1>r DEF Covered, IsValid, NewRange, InvalidRange, Extended
<1>t. /\ both.status = sent.status
      /\ \E c : both.dest = Tracking(sent.dest,
                                     IF ~disjoint /\ (~IsValid(tracked) \/ tracked.end = range.begin)
                                     THEN Extended(tracked, range) ELSE tracked,
                                     c, disjoint \/ ~(~IsValid(tracked) \/ tracked.end = range.begin))
  BY <1>1, <1>s, <1>b, TrackedTransfer
<1>4. PICK c, e : both.dest = Tracking(sent.dest, Covered(begin, to), c, e) /\ ~e /\ e \in BOOLEAN
  BY <1>1, <1>2, <1>3, <1>t, Zenon
<1> QED
  BY <1>r, <1>s, <1>b, <1>t, <1>4, Zenon DEF Tracks

\* The same loop with the tracking destination and without it.
InStep(begin, reach, at, both, loop) ==
    /\ both = LoopState(loop.source, both.dest, loop.status, loop.transferred, loop.over)
    /\ Tracks(both.dest, loop.dest, begin, Smaller(at, reach))

\* The loop is at a location of the range; what it reads for the chunk from there on:
\* nothing if the bytes there are have been read.
AtChunk(S, content, source, dest, begin, end, at, to, r, loop) ==
    /\ source \in DataSource /\ begin \in Nat /\ end \in Nat /\ at \in Nat /\ to \in Nat
    /\ begin <= at /\ at < to /\ to <= end /\ r \in Nat
    /\ r = ReadsUpTo(source, begin, end)
    /\ ~loop.over
    /\ LoopInvariant(S, content, source, dest, begin, r, at, loop)

IsNextRead(read, at, to, r) ==
    \/ ~(read # NoSegment /\ IsValid(read)) /\ r <= at
    \/ /\ read # NoSegment /\ IsValid(read)
       /\ \E m \in Nat : /\ read = NewRange(at, m) /\ at < m
                         /\ m = Smaller(to, r) /\ Smaller(at, r) = at

LEMMA ReadInLoop ==
    ASSUME NEW S, NEW content, NEW source, NEW dest, NEW begin, NEW end, NEW at, NEW to,
           NEW r, NEW loop, AtChunk(S, content, source, dest, begin, end, at, to, r, loop)
    PROVE  IsNextRead(Read(loop.source, at, to - at), at, to, r)
<1>a. /\ source \in DataSource /\ begin \in Nat /\ end \in Nat /\ at \in Nat /\ to \in Nat
      /\ begin <= at /\ at < to /\ to <= end /\ r \in Nat
      /\ r = ReadsUpTo(source, begin, end)
      /\ ~loop.over
      /\ LoopInvariant(S, content, source, dest, begin, r, at, loop)
  BY Zenon DEF AtChunk
<1>p. PICK read : read = Read(loop.source, at, to - at)
  OBVIOUS
<1> SUFFICES \/ ~(read # NoSegment /\ IsValid(read)) /\ r <= at
             \/ /\ read # NoSegment /\ IsValid(read)
                /\ \E m \in Nat : /\ read = NewRange(at, m) /\ at < m
                                  /\ m = Smaller(to, r) /\ Smaller(at, r) = at
  BY <1>p, Zenon DEF IsNextRead
<1>x. PICK x \in Nat : x = source.extent.end
  BY <1>a DEF DataSource, DataRange
<1>r. /\ ~source.open => r = begin
      /\ source.open => r = Larger(begin, Smaller(end, x))
  BY <1>a, <1>x DEF ReadsUpTo
<1>f. loop.source.open = source.open /\ loop.source.extent = source.extent
  BY <1>a DEF DataSource, LoopInvariant
<1>h. loop.source.good <=> source.open /\ at <= Larger(begin, x)
  BY <1>a, <1>x, Zenon DEF LoopInvariant
<1>1. CASE ~(loop.source.good /\ source.open)
  <2>1. read = NoSegment
    BY <1>1, <1>f, <1>p DEF Read, CanRead
  <2> QED
    BY <1>1, <1>a, <1>x, <1>r, <1>h, <2>1 DEF Larger, Smaller
<1>2. CASE loop.source.good /\ source.open
  <2>1. PICK m \in Nat : m = Larger(at, Smaller(to, x)) /\ read = NewRange(at, m)
    BY <1>a, <1>f, <1>p, <1>x, <1>2 DEF Read, CanRead, ReadEnd, Larger, Smaller
  <2>2. read # NoSegment
    BY <1>a, <2>1, NoSegmentAssumption DEF NewRange, DataRange
  <2>3. IsValid(read) <=> at < m
    BY <2>1 DEF IsValid, NewRange
  <2>4. CASE at < m
    BY <1>2, <1>a, <1>x, <1>r, <1>h, <2>1, <2>2, <2>3, <2>4 DEF Larger, Smaller
  <2>5. CASE ~(at < m)
    BY <1>2, <1>a, <1>x, <1>r, <1>h, <2>1, <2>2, <2>3, <2>5 DEF Larger, Smaller
  <2> QED
    BY <2>4, <2>5
<1> QED
  BY <1>1, <1>2

LEMMA LoopsInStep ==
    ASSUME NEW S, NEW content, NEW source \in DataSource, NEW dest \in OStreams(S),
           NEW begin \in Nat, NEW end \in Nat, NEW at \in Nat, NEW to \in Nat,
           begin <= at, at < to, to <= end, NEW r \in Nat,
           r = ReadsUpTo(source, begin, end), NEW loop, NEW both,
           LoopInvariant(S, content, source, dest, begin, r, at, loop),
           InStep(begin, r, at, both, loop)
    PROVE  InStep(begin, r, to, ReadAndTransfer(both, NewRange(at, to), content),
                  ReadAndTransfer(loop, NewRange(at, to), content))
<1>n. PICK next : next = ReadAndTransfer(loop, NewRange(at, to), content)
  OBVIOUS
<1>m. PICK nextboth : nextboth = ReadAndTransfer(both, NewRange(at, to), content)
  OBVIOUS
<1>1. /\ both.source = loop.source /\ both.status = loop.status
      /\ both.transferred = loop.transferred /\ both.over = loop.over
      /\ both = LoopState(both.source, both.dest, both.status, both.transferred, both.over)
  <2>1. both = LoopState(loop.source, both.dest, loop.status, loop.transferred, loop.over)
    BY Zenon DEF InStep
  <2>2. PICK d : d = both.dest
    OBVIOUS
  <2>3. both = LoopState(loop.source, d, loop.status, loop.transferred, loop.over)
    BY <2>1, <2>2, Zenon
  <2>4. PICK s, t, f, o : /\ s = loop.source /\ t = loop.status
                          /\ f = loop.transferred /\ o = loop.over
    OBVIOUS
  <2>5. both = LoopState(s, d, t, f, o)
    BY <2>3, <2>4, Zenon
  <2>6. both.source = s /\ both.status = t
    BY <2>5, Zenon DEF LoopState
  <2>7. both.transferred = f /\ both.over = o /\ both.dest = d
    BY <2>5, Zenon DEF LoopState
  <2> QED
    BY <2>4, <2>5, <2>6, <2>7, Zenon
<1>2. loop = LoopState(loop.source, loop.dest, loop.status, loop.transferred, loop.over)
  BY Zenon DEF LoopInvariant
<1>3. ~loop.over => ~loop.dest.has_error
  BY Zenon DEF LoopInvariant
<1>t. Tracks(both.dest, loop.dest, begin, Smaller(at, r))
  BY Zenon DEF InStep
<1>o. loop.over /\ ~loop.dest.has_error => r <= at
  BY Zenon DEF LoopInvariant
<1>k. loop.dest.kind = "ostream"
  <2>1. CASE loop.dest.has_error
    <3>1. loop.dest \in OStreams(S)
      BY <2>1, Zenon DEF LoopInvariant
    <3> QED
      BY <3>1 DEF OStreams
  <2>2. CASE ~loop.dest.has_error
    <3>1. PICK bytes : loop.dest = Wrote(dest, bytes)
      BY <2>2, Zenon DEF LoopInvariant
    <3> QED
      BY <3>1 DEF Wrote, OStreams
  <2> QED
    BY <2>1, <2>2
<1>s. r <= at => Smaller(to, r) = Smaller(at, r)
  BY DEF Smaller
<1>u. Tracks(both.dest, loop.dest, begin, Smaller(at, r)) /\ loop.dest.has_error
         => Tracks(both.dest, loop.dest, begin, Smaller(to, r))
  BY Zenon DEF Tracks
<1>4. CASE loop.over
  <2>1. next = loop /\ nextboth = both
    BY <1>1, <1>4, <1>n, <1>m, Zenon DEF ReadAndTransfer
  <2>2. Tracks(both.dest, loop.dest, begin, Smaller(to, r))
    BY <1>4, <1>o, <1>s, <1>t, <1>u, Zenon
  <2> QED
    BY <1>1, <1>m, <1>n, <2>1, <2>2, Zenon DEF InStep
<1>5. CASE ~loop.over
  <2>c. NewRange(at, to).begin = at /\ Length(NewRange(at, to)) = to - at
    BY DEF NewRange, Length, IsValid
  <2>p. PICK read : read = Read(loop.source, at, to - at)
    OBVIOUS
  <2>q. PICK sent : sent = Transfer(loop.dest, read, content)
    OBVIOUS
  <2>b. PICK sentboth : sentboth = Transfer(both.dest, read, content)
    OBVIOUS
  <2>s. PICK left : left = [loop.source EXCEPT !.good = GoodAfterRead(loop.source, at, to - at)]
    OBVIOUS
  <2>a. AtChunk(S, content, source, dest, begin, end, at, to, r, loop)
    BY <1>5, Zenon DEF AtChunk
  <2>r. IsNextRead(read, at, to, r)
    BY <2>a, <2>p, ReadInLoop, Zenon
  <2>1. CASE ~(read # NoSegment /\ IsValid(read)) /\ r <= at
    <3>1. /\ next = [loop EXCEPT !.source = left, !.over = TRUE]
          /\ nextboth = [both EXCEPT !.source = left, !.over = TRUE]
      BY <1>1, <1>5, <1>n, <1>m, <2>c, <2>p, <2>s, <2>1, Zenon DEF ReadAndTransfer
    <3>l. PICK s, d, t, f, o, e : /\ s = loop.source /\ d = loop.dest /\ t = loop.status
                                  /\ f = loop.transferred /\ o = loop.over /\ e = both.dest
      OBVIOUS
    <3>b. loop = LoopState(s, d, t, f, o) /\ both = LoopState(s, e, t, f, o)
      BY <1>1, <1>2, <3>l, Zenon
    <3>c. \A v : /\ [LoopState(s, d, t, f, o) EXCEPT !.source = left, !.over = v]
                       = LoopState(left, d, t, f, v)
                 /\ [LoopState(s, e, t, f, o) EXCEPT !.source = left, !.over = v]
                       = LoopState(left, e, t, f, v)
      <4> TAKE v
      <4>1. /\ [LoopState(s, d, t, f, o) EXCEPT !.source = left] = LoopState(left, d, t, f, o)
            /\ [LoopState(s, e, t, f, o) EXCEPT !.source = left] = LoopState(left, e, t, f, o)
        BY DEF LoopState
      <4>2. /\ [LoopState(left, d, t, f, o) EXCEPT !.over = v] = LoopState(left, d, t, f, v)
            /\ [LoopState(left, e, t, f, o) EXCEPT !.over = v] = LoopState(left, e, t, f, v)
        BY DEF LoopState
      <4> QED
        BY <4>1, <4>2
    <3>d. /\ next = [LoopState(s, d, t, f, o) EXCEPT !.source = left, !.over = TRUE]
          /\ nextboth = [LoopState(s, e, t, f, o) EXCEPT !.source = left, !.over = TRUE]
      BY <3>1, <3>b, Zenon
    <3>e. /\ next = LoopState(left, d, t, f, TRUE)
          /\ nextboth = LoopState(left, e, t, f, TRUE)
      BY <3>c, <3>d, Zenon
    <3>3. /\ next = LoopState(left, loop.dest, loop.status, loop.transferred, TRUE)
          /\ nextboth = LoopState(left, both.dest, loop.status, loop.transferred, TRUE)
      BY <3>e, <3>l, Zenon
    <3>4. /\ next.source = left /\ next.dest = loop.dest /\ next.status = loop.status
          /\ next.transferred = loop.transferred /\ next.over = TRUE
          /\ nextboth.dest = both.dest
      BY <3>3, Zenon DEF LoopState
    <3>5. Tracks(both.dest, loop.dest, begin, Smaller(to, r))
      BY <1>s, <1>t, <2>1, Zenon
    <3> QED
      BY <1>m, <1>n, <3>3, <3>4, <3>5, Zenon DEF InStep
  <2>2. CASE read # NoSegment /\ IsValid(read)
    <3>1. PICK m \in Nat : /\ read = NewRange(at, m) /\ at < m
                           /\ m = Smaller(to, r) /\ Smaller(at, r) = at
      BY <2>r, <2>2, Zenon DEF IsNextRead
    <3>2. /\ next = LoopState(left, sent.dest, sent.status, TRUE, sent.status # "ok")
          /\ nextboth = LoopState(left, sentboth.dest, sentboth.status, TRUE,
                                  sentboth.status # "ok")
      BY <1>1, <1>5, <1>n, <1>m, <2>c, <2>p, <2>q, <2>b, <2>s, <2>2, Zenon
         DEF ReadAndTransfer, LoopState
    <3>3. sentboth.status = sent.status /\ Tracks(sentboth.dest, sent.dest, begin, m)
      <4>1. Tracks(both.dest, loop.dest, begin, at)
        BY <1>t, <3>1, Zenon
      <4>2. LET s == Transfer(loop.dest, NewRange(at, m), content)
                b == Transfer(both.dest, NewRange(at, m), content)
            IN  b.status = s.status /\ Tracks(b.dest, s.dest, begin, m)
        BY <1>3, <1>5, <1>k, <3>1, <4>1, TracksNext
      <4> QED
        BY <2>q, <2>b, <3>1, <4>2, Zenon
    <3>4. /\ next.source = left /\ next.dest = sent.dest /\ next.status = sent.status
          /\ next.transferred = TRUE /\ next.over = (sent.status # "ok")
          /\ nextboth.dest = sentboth.dest
      BY <3>2, Zenon DEF LoopState
    <3>5. nextboth = LoopState(next.source, nextboth.dest, next.status, next.transferred,
                               next.over)
      BY <3>2, <3>3, <3>4, Zenon
    <3>6. Tracks(nextboth.dest, next.dest, begin, Smaller(to, r))
      BY <3>1, <3>3, <3>4, Zenon
    <3> QED
      BY <1>m, <1>n, <3>5, <3>6, Zenon DEF InStep
  <2> QED
    BY <2>r, <2>1, <2>2, Zenon DEF IsNextRead
<1> QED
  BY <1>4, <1>5

\* The states of the loop, one for each number of chunks.
IsRun(done, content, base, chunks, count) ==
    /\ done[0] = base /\ done[count] = Loop!Folded(content, base, chunks)
    /\ \A n \in 0 .. count - 1 :
          done[n + 1] = ReadAndTransfer(done[n], chunks[n + 1], content)

LEMMA LoopRuns ==
    ASSUME NEW content, NEW base, NEW chunks \in Seq(DataRange), NEW count \in Nat,
           Len(chunks) = count
    PROVE  \E done : IsRun(done, content, base, chunks, count)
<1>1. PICK f : f = [n \in Nat |-> Loop!FoldedTo(content, base, chunks, n)]
  OBVIOUS
<1>2. \A n \in Nat : f[n] = Loop!FoldedTo(content, base, chunks, n)
  BY <1>1
<1>i. /\ Loop!FoldedTo(content, base, chunks, 0) = base
      /\ \A n \in 0 .. Len(chunks) - 1 :
            Loop!FoldedTo(content, base, chunks, n + 1) =
               ReadAndTransfer(Loop!FoldedTo(content, base, chunks, n), chunks[n + 1],
                               content)
      /\ Loop!FoldedTo(content, base, chunks, Len(chunks))
            = Loop!Folded(content, base, chunks)
  BY LoopIterates, Zenon
<1>3. f[0] = base
  BY <1>2, <1>i
<1>4. f[count] = Loop!Folded(content, base, chunks)
  BY <1>2, <1>i
<1>5. \A n \in 0 .. count - 1 :
         f[n + 1] = ReadAndTransfer(f[n], chunks[n + 1], content)
  <2> TAKE n \in 0 .. count - 1
  <2>1. Loop!FoldedTo(content, base, chunks, n + 1) =
           ReadAndTransfer(Loop!FoldedTo(content, base, chunks, n), chunks[n + 1], content)
    BY <1>i
  <2>2. f[n] = Loop!FoldedTo(content, base, chunks, n)
    BY <1>2
  <2>3. f[n + 1] = Loop!FoldedTo(content, base, chunks, n + 1)
    BY <1>2
  <2> QED
    BY <2>1, <2>2, <2>3, Zenon
<1> QED
  BY <1>3, <1>4, <1>5, Zenon DEF IsRun

LEMMA TracksNothing ==
    ASSUME NEW dest, NEW begin \in Nat
    PROVE  Tracks(Track(dest), dest, begin, begin)
<1>1. Track(dest) = Tracking(dest, InvalidRange, 0, FALSE)
  BY Zenon DEF Track, Tracking
<1>2. InvalidRange = Covered(begin, begin)
  BY DEF Covered
<1> QED
  BY <1>1, <1>2, Zenon DEF Tracks

LEMMA BothLoops ==
    ASSUME NEW S, NEW size \in Nat, NEW content \in Contents(size, S),
           NEW source \in DataSource, source.extent.end <= size,
           NEW dest \in OStreams(S), ~dest.has_error,
           NEW begin \in Nat, NEW end \in Nat, begin < end, NEW chunk \in Nat \ {0}
    PROVE  InStep(begin, ReadsUpTo(source, begin, end), end,
                  Loop!Folded(content, LoopBase(source, Track(dest)),
                              Chunks(NewRange(begin, end), chunk)),
                  Loop!Folded(content, LoopBase(source, dest),
                              Chunks(NewRange(begin, end), chunk)))
<1>b. PICK base : base = LoopBase(source, dest)
  OBVIOUS
<1>c. PICK basetoo : basetoo = LoopBase(source, Track(dest))
  OBVIOUS
<1>x. PICK x \in Nat : x = source.extent.end
  BY DEF DataSource, DataRange
<1>r. PICK r \in Nat : r = ReadsUpTo(source, begin, end) /\ begin <= r
  BY <1>x DEF ReadsUpTo, Larger, Smaller
<1>d. PICK at, chunks, count : IsDivision(at, chunks, count, begin, end, chunk)
  BY ChunkAt, Zenon
<1>1. /\ count \in Nat
      /\ chunks = Chunks(NewRange(begin, end), chunk)
      /\ chunks \in Seq(DataRange) /\ Len(chunks) = count
      /\ at[0] = begin /\ at[count] = end
      /\ \A n \in Nat : n < count =>
            /\ at[n] \in Nat /\ at[n + 1] \in Nat
            /\ begin <= at[n] /\ at[n] < at[n + 1] /\ at[n + 1] <= end
            /\ chunks[n + 1] = NewRange(at[n], at[n + 1])
  BY <1>d, Zenon DEF IsDivision
<1>2. PICK done : IsRun(done, content, base, chunks, count)
  BY <1>1, LoopRuns, Zenon
<1>3. PICK both : IsRun(both, content, basetoo, chunks, count)
  BY <1>1, LoopRuns, Zenon
<1> DEFINE Inv(a, l) == LoopInvariant(S, content, source, dest, begin, r, a, l)
           Same(a, b, l) == InStep(begin, r, a, b, l)
<1>4. Inv(begin, base)
  BY <1>b, <1>r, BaseIsSound
<1>5. Same(begin, basetoo, base)
  <2>1. /\ base.source = Clear(source) /\ base.dest = dest /\ base.status = "done"
        /\ base.transferred = FALSE /\ base.over = FALSE
        /\ basetoo.dest = Track(dest)
    BY <1>b, <1>c, Zenon DEF LoopBase, LoopState
  <2>2. basetoo = LoopState(base.source, basetoo.dest, base.status, base.transferred,
                            base.over)
    BY <1>c, <2>1, Zenon DEF LoopBase
  <2>3. Smaller(begin, r) = begin
    BY <1>r DEF Smaller
  <2>4. Tracks(Track(dest), dest, begin, begin)
    BY TracksNothing
  <2> QED
    BY <2>1, <2>2, <2>3, <2>4, Zenon DEF InStep
<1>6. ASSUME NEW n \in Nat, n < count, NEW p \in Nat, NEW q \in Nat,
             p = at[n], q = at[n + 1], Inv(p, done[n]), Same(p, both[n], done[n])
      PROVE  Inv(q, done[n + 1]) /\ Same(q, both[n + 1], done[n + 1])
  <2>0. n \in 0 .. count - 1
    BY <1>1, <1>6
  <2>1. begin <= p /\ p < q /\ q <= end /\ chunks[n + 1] = NewRange(p, q)
    BY <1>1, <1>6
  <2>l. PICK l : l = done[n]
    OBVIOUS
  <2>m. PICK m : m = both[n]
    OBVIOUS
  <2>2. /\ done[n + 1] = ReadAndTransfer(l, NewRange(p, q), content)
        /\ both[n + 1] = ReadAndTransfer(m, NewRange(p, q), content)
    BY <1>2, <1>3, <2>0, <2>1, <2>l, <2>m, Zenon DEF IsRun
  <2>3. Inv(p, l) /\ Same(p, m, l)
    BY <1>6, <2>l, <2>m
  <2>4. Inv(q, ReadAndTransfer(l, NewRange(p, q), content))
    BY <1>r, <2>1, <2>3, LoopStep
  <2>5. Same(q, ReadAndTransfer(m, NewRange(p, q), content),
             ReadAndTransfer(l, NewRange(p, q), content))
    BY <1>r, <2>1, <2>3, LoopsInStep
  <2> QED
    BY <2>2, <2>4, <2>5, Zenon
<1> HIDE DEF Inv, Same
<1>7. PICK T : T = {n \in Nat : n <= count =>
                      Inv(at[n], done[n]) /\ Same(at[n], both[n], done[n])}
  OBVIOUS
<1>8. 0 \in T
  <2>1. done[0] = base /\ both[0] = basetoo
    BY <1>2, <1>3, Zenon DEF IsRun
  <2> QED
    BY <1>1, <1>4, <1>5, <1>7, <2>1
<1>9. ASSUME NEW n \in Nat, n \in T
      PROVE  n + 1 \in T
  <2>1. CASE n < count
    <3>1. PICK p \in Nat, q \in Nat : p = at[n] /\ q = at[n + 1]
      BY <1>1, <2>1
    <3>2. Inv(p, done[n]) /\ Same(p, both[n], done[n])
      BY <1>1, <1>7, <1>9, <2>1, <3>1
    <3>3. Inv(q, done[n + 1]) /\ Same(q, both[n + 1], done[n + 1])
      BY <1>6, <2>1, <3>1, <3>2
    <3> QED
      BY <1>7, <3>1, <3>3
  <2>2. CASE ~(n < count)
    <3>1. ~(n + 1 <= count)
      BY <1>1, <2>2
    <3> QED
      BY <1>7, <3>1
  <2> QED
    BY <2>1, <2>2
<1>10. \A n \in Nat : n \in T
  BY <1>8, <1>9, Loop!NatSetInduction
<1>11. Same(end, both[count], done[count])
  BY <1>1, <1>7, <1>10
<1>12. /\ done[count] = Loop!Folded(content, base, chunks)
       /\ both[count] = Loop!Folded(content, basetoo, chunks)
  BY <1>2, <1>3, Zenon DEF IsRun
<1> QED
  BY <1>1, <1>b, <1>c, <1>r, <1>11, <1>12, Zenon DEF Same

-----------------------------------------------------------------------------
\* A DataRangeTrackingDestination (data_range_tracking_destination.cc) passes on what it
\* gets: the source, the result and the ostream behind it are as they are without it; and
\* if the ostream has not failed, it has noted the range of what was written, in one piece.
THEOREM TrackedOutcome ==
    ASSUME NEW S, NEW size, NEW content, NEW source, NEW range,
           HasContent(S, size, content, source, range),
           NEW dest \in OStreams(S), ~dest.has_error
    PROVE  LET outcome == TransferData(source, content, range, dest)
               tracked == TransferData(source, content, range, Track(dest))
           IN  /\ tracked.source = outcome.source /\ tracked.result = outcome.result
               /\ Tracks(tracked.dest, outcome.dest, range.begin, Available(source, range))
<1>h. /\ size \in Nat /\ content \in Contents(size, S)
      /\ source \in DataSource /\ range \in DataRange
      /\ source.extent.end <= size
      /\ source.cached # NoSegment => source.cached.end <= size
      /\ source.kind = "memory" =>
            source.open /\ source.cached = NoSegment /\ source.extent.begin <= range.begin
  BY Zenon DEF HasContent
<1>b. PICK b \in Nat, e \in Nat : b = range.begin /\ e = range.end /\ range = NewRange(b, e)
  BY <1>h DEF DataRange, NewRange
<1>x. PICK a \in Nat, x \in Nat : a = source.extent.begin /\ x = source.extent.end
  BY <1>h DEF DataSource, DataRange
<1>u. PICK u : u = Available(source, range)
  OBVIOUS
<1>o. PICK outcome : outcome = TransferData(source, content, range, dest)
  OBVIOUS
<1>t. PICK tracked : tracked = TransferData(source, content, range, Track(dest))
  OBVIOUS
<1> SUFFICES /\ tracked.source = outcome.source /\ tracked.result = outcome.result
             /\ Tracks(tracked.dest, outcome.dest, b, u)
  BY <1>b, <1>u, <1>o, <1>t, Zenon
<1>k. dest.kind = "ostream" /\ Tracks(Track(dest), dest, b, b)
  BY TracksNothing DEF OStreams
\* One transfer of a part.
<1>1. ASSUME NEW m \in Nat, b < m, u = m,
             \A d : TransferData(source, content, range, d) =
                       Outcome(source, Transfer(d, NewRange(b, m), content).dest,
                               Transfer(d, NewRange(b, m), content).status, TRUE)
      PROVE  /\ tracked.source = outcome.source /\ tracked.result = outcome.result
             /\ Tracks(tracked.dest, outcome.dest, b, u)
  <2>s. PICK sent : sent = Transfer(dest, NewRange(b, m), content)
    OBVIOUS
  <2>t. PICK both : both = Transfer(Track(dest), NewRange(b, m), content)
    OBVIOUS
  <2>1. both.status = sent.status /\ Tracks(both.dest, sent.dest, b, m)
    BY <1>1, <1>k, <2>s, <2>t, TracksNext
  <2>2. /\ outcome = Outcome(source, sent.dest, sent.status, TRUE)
        /\ tracked = Outcome(source, both.dest, both.status, TRUE)
    BY <1>1, <1>o, <1>t, <2>s, <2>t, Zenon
  <2>3. /\ outcome.source = source /\ outcome.dest = sent.dest
        /\ tracked.source = source /\ tracked.dest = both.dest
        /\ tracked.result = outcome.result
    BY <2>1, <2>2, Zenon DEF Outcome
  <2> QED
    BY <1>1, <2>1, <2>3, Zenon
\* No transfer.
<1>2. ASSUME u = b,
             \A d : TransferData(source, content, range, d) = Outcome(source, d, "done", FALSE)
      PROVE  /\ tracked.source = outcome.source /\ tracked.result = outcome.result
             /\ Tracks(tracked.dest, outcome.dest, b, u)
  <2>1. /\ outcome = Outcome(source, dest, "done", FALSE)
        /\ tracked = Outcome(source, Track(dest), "done", FALSE)
    BY <1>2, <1>o, <1>t, Zenon
  <2>2. /\ outcome.source = source /\ outcome.dest = dest
        /\ tracked.source = source /\ tracked.dest = Track(dest)
        /\ tracked.result = outcome.result
    BY <2>1, Zenon DEF Outcome
  <2> QED
    BY <1>2, <1>k, <2>2, Zenon
<1>v. IsValid(range) <=> b < e
  BY <1>b DEF IsValid
<1>3. CASE source.kind = "memory"
  <2>2. PICK part : part = Intersection(source.extent, range)
    OBVIOUS
  <2>3. part = NewRange(b, Smaller(e, x)) /\ Smaller(e, x) \in Nat
    <3>1. Larger(b, a) = b
      BY <1>3, <1>b, <1>h, <1>x DEF Larger
    <3> QED
      BY <1>b, <1>x, <2>2, <3>1 DEF Intersection, Smaller
  <2>4. u = Larger(b, Smaller(e, x))
    BY <1>3, <1>b, <1>h, <1>u, <1>x DEF Available, ReadsUpTo
  <2>5. CASE b < Smaller(e, x)
    <3>1. IsValid(part)
      BY <2>3, <2>5 DEF IsValid, NewRange
    <3>2. PICK m \in Nat : m = Smaller(e, x) /\ u = m /\ b < m
      BY <1>h, <1>x, <2>3, <2>4, <2>5 DEF Smaller, Larger
    <3>3. \A d : TransferData(source, content, range, d) =
                       Outcome(source, Transfer(d, NewRange(b, m), content).dest,
                               Transfer(d, NewRange(b, m), content).status, TRUE)
      BY <1>3, <2>2, <2>3, <3>1, <3>2, Zenon DEF TransferData, FromSegment
    <3> QED
      BY <1>1, <3>2, <3>3, Zenon
  <2>6. CASE ~(b < Smaller(e, x))
    <3>1. ~IsValid(part)
      BY <2>3, <2>6 DEF IsValid, NewRange
    <3>2. \A d : TransferData(source, content, range, d) = Outcome(source, d, "done", FALSE)
      BY <1>3, <2>2, <3>1, Zenon DEF TransferData, FromSegment
    <3>3. u = b
      BY <2>3, <2>4, <2>6 DEF Larger
    <3> QED
      BY <1>2, <3>2, <3>3, Zenon
  <2> QED
    BY <2>5, <2>6
<1>4. CASE source.kind # "memory" /\ ~IsValid(range)
  <2>1. \A d : TransferData(source, content, range, d) = Outcome(source, d, "done", FALSE)
    BY <1>4, Zenon DEF TransferData, FromStream
  <2>2. u = b
    <3>1. u = ReadsUpTo(source, b, e)
      BY <1>4, <1>b, <1>u DEF Available, ContainsRange
    <3>2. ~(b < e)
      BY <1>4, <1>v
    <3> QED
      BY <1>x, <3>1, <3>2 DEF ReadsUpTo, Larger, Smaller
  <2> QED
    BY <1>2, <2>1, <2>2, Zenon
<1>5. CASE source.kind # "memory" /\ IsValid(range)
  <2>1. b < e /\ Length(range) = e - b
    BY <1>5, <1>b, <1>v DEF Length
  <2>2. PICK chunk \in Nat \ {0} : chunk = Smaller(Length(range), BestDataSize)
                                   /\ chunk <= e - b
    BY <2>1, BestDataSizeAssumption DEF Smaller
  <2>3. CASE source.cached # NoSegment /\ ContainsRange(source.cached, range)
    <3>1. Length(source.cached) >= chunk
      BY <1>b, <1>h, <2>1, <2>2, <2>3
         DEF ContainsRange, IsValid, Length, DataSource, DataSegment, DataRange
    <3>3. \A d : TransferData(source, content, range, d) =
                       Outcome(source, Transfer(d, NewRange(b, e), content).dest,
                               Transfer(d, NewRange(b, e), content).status, TRUE)
      BY <1>5, <1>b, <2>2, <2>3, <3>1, Zenon DEF TransferData, FromStream
    <3>4. u = e
      BY <1>b, <1>u, <2>3 DEF Available
    <3> QED
      BY <1>1, <2>1, <3>3, <3>4, Zenon
  <2>4. CASE ~(source.cached # NoSegment /\ ContainsRange(source.cached, range))
    <3>1. PICK loop : loop = Loop!Folded(content, LoopBase(source, dest), Chunks(range, chunk))
      OBVIOUS
    <3>2. PICK both : both = Loop!Folded(content, LoopBase(source, Track(dest)),
                                         Chunks(range, chunk))
      OBVIOUS
    <3>3. \A d : TransferData(source, content, range, d)
                   = Outcome(Loop!Folded(content, LoopBase(source, d), Chunks(range, chunk)).source,
                             Loop!Folded(content, LoopBase(source, d), Chunks(range, chunk)).dest,
                             Loop!Folded(content, LoopBase(source, d), Chunks(range, chunk)).status,
                             Loop!Folded(content, LoopBase(source, d), Chunks(range, chunk)).transferred)
      <4> TAKE d
      <4>0. PICK l : l = Loop!Folded(content, LoopBase(source, d), Chunks(range, chunk))
        OBVIOUS
      <4>1. l = FoldLeft(LAMBDA k, c : ReadAndTransfer(k, c, content),
                         [source |-> Clear(source), dest |-> d, status |-> "done",
                          transferred |-> FALSE, over |-> FALSE],
                         Chunks(range, chunk))
        BY <4>0, LoopIsFold DEF LoopBase, LoopState
      <4>2. TransferData(source, content, range, d)
              = Outcome(l.source, l.dest, l.status, l.transferred)
        BY <1>5, <2>2, <2>4, <4>1 DEF TransferData, FromStream
      <4> QED
        BY <4>0, <4>2, Zenon
    <3>4. u = ReadsUpTo(source, b, e)
      BY <1>b, <1>u, <2>4 DEF Available
    <3>5. InStep(b, u, e, both, loop)
      <4>1. InStep(b, ReadsUpTo(source, b, e), e,
                   Loop!Folded(content, LoopBase(source, Track(dest)),
                               Chunks(NewRange(b, e), chunk)),
                   Loop!Folded(content, LoopBase(source, dest),
                               Chunks(NewRange(b, e), chunk)))
        BY <1>h, <2>1, BothLoops
      <4> QED
        BY <1>b, <3>1, <3>2, <3>4, <4>1, Zenon
    <3>6. /\ outcome = Outcome(loop.source, loop.dest, loop.status, loop.transferred)
          /\ tracked = Outcome(both.source, both.dest, both.status, both.transferred)
      BY <1>o, <1>t, <3>1, <3>2, <3>3, Zenon
    <3>7. /\ both.source = loop.source /\ both.status = loop.status
          /\ both.transferred = loop.transferred
          /\ Tracks(both.dest, loop.dest, b, Smaller(e, u))
      <4>1. PICK s, d, t, f, o : /\ s = loop.source /\ d = both.dest /\ t = loop.status
                                 /\ f = loop.transferred /\ o = loop.over
        OBVIOUS
      <4>2. both = LoopState(s, d, t, f, o)
        BY <3>5, <4>1, Zenon DEF InStep
      <4>3. both.source = s /\ both.status = t
        BY <4>2, Zenon DEF LoopState
      <4>4. both.transferred = f
        BY <4>2, Zenon DEF LoopState
      <4> QED
        BY <3>5, <4>1, <4>3, <4>4, Zenon DEF InStep
    <3>8. Smaller(e, u) = u
      BY <1>x, <2>1, <3>4 DEF ReadsUpTo, Larger, Smaller
    <3>9. /\ outcome.source = loop.source /\ outcome.dest = loop.dest
          /\ tracked.source = both.source /\ tracked.dest = both.dest
          /\ tracked.result = outcome.result
      BY <3>6, <3>7, Zenon DEF Outcome
    <3> QED
      BY <3>7, <3>8, <3>9, Zenon
  <2> QED
    BY <2>3, <2>4
<1> QED
  BY <1>3, <1>4, <1>5

\* A source after reads: only its state bits have changed.
IsReadFrom(source, next) ==
    next.good \in BOOLEAN /\ next = [source EXCEPT !.good = next.good]

\* A tracking destination in front of that ostream, whatever it has noted.
IsInFront(dest, ostream) ==
    \E tracked, bytes_transferred, disjoint :
        dest = Tracking(ostream, tracked, bytes_transferred, disjoint)

LEMMA FailedTransfer ==
    ASSUME NEW dest, NEW ostream, ostream.kind = "ostream", ostream.has_error,
           IsInFront(dest, ostream), NEW range, NEW content
    PROVE  IsInFront(Transfer(dest, range, content).dest, ostream)
<1>1. PICK t, c, d : dest = Tracking(ostream, t, c, d)
  BY Zenon DEF IsInFront
<1>2. Transfer(ostream, range, content).dest = ostream
  <2>1. PICK bytes : Transfer(ostream, range, content) = Write(ostream, bytes)
    BY DEF Transfer
  <2> QED
    BY <2>1, WriteAfterError
<1>3. \E t2, c2, d2 : Transfer(Tracking(ostream, t, c, d), range, content).dest
                         = Tracking(Transfer(ostream, range, content).dest, t2, c2, d2)
  BY TrackedTransfer
<1> QED
  BY <1>1, <1>2, <1>3, Zenon DEF IsInFront

\* A loop that has written nothing, because the ostream had failed.
IsSilent(source, ostream, loop) ==
    IsReadFrom(source, loop.source) /\ IsInFront(loop.dest, ostream)

LEMMA SilentStep ==
    ASSUME NEW source \in DataSource, NEW ostream, ostream.kind = "ostream",
           ostream.has_error, NEW loop, NEW chunk, NEW content,
           IsSilent(source, ostream, loop)
    PROVE  IsSilent(source, ostream, ReadAndTransfer(loop, chunk, content))
<1>n. PICK next : next = ReadAndTransfer(loop, chunk, content)
  OBVIOUS
<1>r. PICK read : read = Read(loop.source, chunk.begin, Length(chunk))
  OBVIOUS
<1>g. PICK good \in BOOLEAN : good = GoodAfterRead(loop.source, chunk.begin, Length(chunk))
  BY DEF GoodAfterRead
<1>s. PICK left : left = [loop.source EXCEPT !.good = good]
  OBVIOUS
<1>1. /\ loop.source.good \in BOOLEAN /\ loop.source = [source EXCEPT !.good = loop.source.good]
      /\ IsInFront(loop.dest, ostream)
  BY Zenon DEF IsSilent, IsReadFrom
<1>2. IsReadFrom(source, left)
  <2>1. left = [source EXCEPT !.good = good] /\ left.good = good
    BY <1>1, <1>s DEF DataSource
  <2> QED
    BY <2>1, Zenon DEF IsReadFrom
<1>3. CASE loop.over
  BY <1>3, Zenon DEF ReadAndTransfer
<1>4. CASE ~loop.over /\ read # NoSegment /\ IsValid(read)
  <2>1. next.source = left /\ next.dest = Transfer(loop.dest, read, content).dest
    BY <1>4, <1>n, <1>r, <1>g, <1>s DEF ReadAndTransfer
  <2>2. IsInFront(Transfer(loop.dest, read, content).dest, ostream)
    BY <1>1, FailedTransfer
  <2> QED
    BY <1>n, <1>2, <2>1, <2>2, Zenon DEF IsSilent
<1>5. CASE ~loop.over /\ ~(read # NoSegment /\ IsValid(read))
  <2>1. next = [loop EXCEPT !.source = left, !.over = TRUE]
    BY <1>5, <1>n, <1>r, <1>g, <1>s, Zenon DEF ReadAndTransfer
  <2>2. next.dest = loop.dest
    BY <2>1
  <2>3. next.source = left \/ next.source = loop.source
    BY <2>1
  <2>4. IsReadFrom(source, next.source)
    BY <1>1, <1>2, <2>3, Zenon DEF IsReadFrom
  <2> QED
    BY <1>n, <1>1, <2>2, <2>4, Zenon DEF IsSilent
<1> QED
  BY <1>3, <1>4, <1>5

\* An OStreamRefDataDestination that has failed before takes nothing: it is as it was,
\* behind a tracking destination, and the source has at most met its end.
THEOREM FailedOutcome ==
    ASSUME NEW source \in DataSource, NEW range \in DataRange, NEW content, NEW dest,
           dest.kind = "ostream", dest.has_error
    PROVE  LET outcome == TransferData(source, content, range, Track(dest))
           IN  IsReadFrom(source, outcome.source) /\ IsInFront(outcome.dest, dest)
<1>o. PICK outcome : outcome = TransferData(source, content, range, Track(dest))
  OBVIOUS
<1> SUFFICES IsReadFrom(source, outcome.source) /\ IsInFront(outcome.dest, dest)
  BY <1>o, Zenon
<1>1. IsReadFrom(source, source)
  BY DEF IsReadFrom, DataSource
<1>2. IsInFront(Track(dest), dest)
  <2>1. Track(dest) = Tracking(dest, InvalidRange, 0, FALSE)
    BY Zenon DEF Track, Tracking
  <2> QED
    BY <2>1, Zenon DEF IsInFront
<1>b. PICK b \in Nat, e \in Nat : range = NewRange(b, e) /\ (IsValid(range) <=> b < e)
  BY DEF DataRange, NewRange, IsValid
<1>3. ASSUME outcome.source = source,
             \E part : outcome.dest = Transfer(Track(dest), part, content).dest
      PROVE  IsReadFrom(source, outcome.source) /\ IsInFront(outcome.dest, dest)
  BY <1>1, <1>2, <1>3, FailedTransfer
<1>4. ASSUME outcome.source = source, outcome.dest = Track(dest)
      PROVE  IsReadFrom(source, outcome.source) /\ IsInFront(outcome.dest, dest)
  BY <1>1, <1>2, <1>4
<1>5. CASE source.kind = "memory"
  BY <1>3, <1>4, <1>5, <1>o DEF TransferData, FromSegment, Outcome
<1>6. CASE source.kind # "memory" /\ ~IsValid(range)
  BY <1>4, <1>6, <1>o DEF TransferData, FromStream, Outcome
<1>7. CASE source.kind # "memory" /\ IsValid(range)
  <2>1. b < e /\ Length(range) = e - b
    BY <1>7, <1>b DEF Length, NewRange
  <2>2. PICK chunk \in Nat \ {0} : chunk = Smaller(Length(range), BestDataSize)
    BY <2>1, BestDataSizeAssumption DEF Smaller
  <2>c. PICK cached : cached = ( /\ source.cached # NoSegment
                                 /\ Length(source.cached) >= chunk
                                 /\ ContainsRange(source.cached, range) )
    OBVIOUS
  <2>3. CASE cached
    <3>1. outcome = Outcome(source, Transfer(Track(dest), range, content).dest,
                            Transfer(Track(dest), range, content).status, TRUE)
      BY <1>7, <1>o, <2>2, <2>3, <2>c, Zenon DEF TransferData, FromStream
    <3> QED
      BY <1>3, <3>1 DEF Outcome
  <2>4. CASE ~cached
    <3>b. PICK base : base = LoopBase(source, Track(dest))
      OBVIOUS
    <3>d. PICK at, chunks, count : IsDivision(at, chunks, count, b, e, chunk)
      BY <2>1, ChunkAt, Zenon
    <3>1. /\ count \in Nat /\ chunks \in Seq(DataRange) /\ Len(chunks) = count
          /\ chunks = Chunks(range, chunk)
      BY <1>b, <3>d, Zenon DEF IsDivision
    <3>2. PICK done : IsRun(done, content, base, chunks, count)
      BY <3>1, LoopRuns, Zenon
    <3>3. PICK T : T = {n \in Nat : n <= count => IsSilent(source, dest, done[n])}
      OBVIOUS
    <3>4. 0 \in T
      <4>1. base.dest = Track(dest) /\ base.source = [source EXCEPT !.good = source.open]
        BY <3>b DEF LoopBase, LoopState, Clear
      <4>2. IsReadFrom(source, base.source)
        BY <4>1 DEF IsReadFrom, DataSource
      <4>3. IsSilent(source, dest, base)
        BY <1>2, <4>1, <4>2, Zenon DEF IsSilent
      <4>4. done[0] = base
        BY <3>2, Zenon DEF IsRun
      <4> QED
        BY <3>3, <4>3, <4>4
    <3>5. ASSUME NEW n \in Nat, n \in T
          PROVE  n + 1 \in T
      <4>1. CASE n < count
        <5>1. n \in 0 .. count - 1
          BY <3>1, <4>1
        <5>2. done[n + 1] = ReadAndTransfer(done[n], chunks[n + 1], content)
          BY <3>2, <5>1, Zenon DEF IsRun
        <5>3. IsSilent(source, dest, done[n])
          BY <3>1, <3>3, <3>5, <4>1
        <5>4. IsSilent(source, dest, done[n + 1])
          BY <5>2, <5>3, SilentStep
        <5> QED
          BY <3>3, <5>4
      <4>2. CASE ~(n < count)
        <5>1. ~(n + 1 <= count)
          BY <3>1, <4>2
        <5> QED
          BY <3>3, <5>1
      <4> QED
        BY <4>1, <4>2
    <3>6. \A n \in Nat : n \in T
      BY <3>4, <3>5, Loop!NatSetInduction
    <3>7. PICK l : l = Loop!Folded(content, base, chunks) /\ IsSilent(source, dest, l)
      <4>1. IsSilent(source, dest, done[count])
        BY <3>1, <3>3, <3>6
      <4> QED
        BY <3>2, <4>1, Zenon DEF IsRun
    <3>8. l = FoldLeft(LAMBDA k, c : ReadAndTransfer(k, c, content),
                       [source |-> Clear(source), dest |-> Track(dest), status |-> "done",
                        transferred |-> FALSE, over |-> FALSE],
                       Chunks(range, chunk))
      BY <3>1, <3>7, <3>b, LoopIsFold DEF LoopBase, LoopState
    <3>9. outcome = Outcome(l.source, l.dest, l.status, l.transferred)
      BY <1>7, <1>o, <2>2, <2>4, <2>c, <3>8 DEF TransferData, FromStream
    <3>10. outcome.source = l.source /\ outcome.dest = l.dest
      BY <3>9 DEF Outcome
    <3> QED
      BY <3>7, <3>10, Zenon DEF IsSilent
  <2> QED
    BY <2>3, <2>4
<1> QED
  BY <1>5, <1>6, <1>7
=============================================================================
