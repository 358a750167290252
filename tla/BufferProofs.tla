---------------------------- MODULE BufferProofs ----------------------------
(***************************************************************************)
(* Proofs about Buffer, for any sizes and any set of byte values: the      *)
(* indices stay in order and the buffer implements a queue of bytes.       *)
(***************************************************************************)
EXTENDS Buffer, SequenceTheorems, TLAPS

\* A buffer with its indices in order and with room for the header: retrieveAll
\* sets both indices to kCheapPrepend, which must be inside the vector.
WellFormed(b) ==
  /\ b \in Buffers
  /\ b.readerIndex <= b.writerIndex
  /\ b.writerIndex <= size(b)
  /\ kCheapPrepend <= size(b)

-----------------------------------------------------------------------------
(* The helpers.                                                            *)

\* A byte string has as many bytes as its domain says, and its parts are strings.
LEMMA CopiedProperties ==
  ASSUME NEW s \in Seq(Bytes), NEW at \in Nat, NEW data \in Seq(Bytes)
  PROVE  /\ Copied(s, at, data) \in Seq(Bytes)
         /\ Len(Copied(s, at, data)) = Len(s)
         /\ \A i \in 1..Len(s) :
              Copied(s, at, data)[i] =
                IF i > at /\ i <= at + Len(data) THEN data[i - at] ELSE s[i]
<1>1. /\ DOMAIN s = 1..Len(s) /\ Len(s) \in Nat
      /\ Len(data) \in Nat
      /\ \A i \in 1..Len(s) : s[i] \in Bytes
      /\ \A i \in 1..Len(data) : data[i] \in Bytes
  OBVIOUS
<1>2. \A i \in 1..Len(s) :
        (IF i > at /\ i <= at + Len(data) THEN data[i - at] ELSE s[i]) \in Bytes
  BY <1>1
<1>3. Copied(s, at, data) \in [1..Len(s) -> Bytes]
  BY <1>1, <1>2 DEF Copied
<1> QED BY <1>1, <1>3, SeqDef DEF Copied

\* Content is the string between the indices.
LEMMA ContentProperties ==
  ASSUME NEW b, WellFormed(b)
  PROVE  /\ Content(b) \in Seq(Bytes)
         /\ Len(Content(b)) = b.writerIndex - b.readerIndex
         /\ \A i \in 1..b.writerIndex - b.readerIndex :
              Content(b)[i] = b.buffer[b.readerIndex + i]
<1>1. /\ b.buffer \in Seq(Bytes) /\ b.readerIndex \in Nat /\ b.writerIndex \in Nat
      /\ b.readerIndex <= b.writerIndex /\ b.writerIndex <= Len(b.buffer)
  BY DEF WellFormed, Buffers, size
<1>2. \A i \in b.readerIndex + 1..b.writerIndex : b.buffer[i] \in Bytes
  BY <1>1
<1> DEFINE m == b.readerIndex + 1
           n == b.writerIndex
<1>3. m \in Int /\ n \in Int /\ \A i \in m..n : b.buffer[i] \in Bytes
  BY <1>1, <1>2
<1>4. /\ SubSeq(b.buffer, m, n) \in Seq(Bytes)
      /\ Len(SubSeq(b.buffer, m, n)) = IF m <= n THEN n - m + 1 ELSE 0
      /\ \A i \in 1..n - m + 1 : SubSeq(b.buffer, m, n)[i] = b.buffer[m + i - 1]
  <2> HIDE DEF m, n
  <2> QED BY <1>3, SubSeqProperties
<1>5. /\ n - m + 1 = b.writerIndex - b.readerIndex
      /\ (IF m <= n THEN n - m + 1 ELSE 0) = b.writerIndex - b.readerIndex
      /\ \A i \in 1..b.writerIndex - b.readerIndex : m + i - 1 = b.readerIndex + i
  BY <1>1
<1>6. Content(b) = SubSeq(b.buffer, m, n)
  BY DEF Content
<1> HIDE DEF m, n
<1> QED BY <1>4, <1>5, <1>6

\* Two buffers that agree between their indices have the same content.
LEMMA SameContent ==
  ASSUME NEW b, NEW c, WellFormed(b), WellFormed(c),
         readableBytes(b) = readableBytes(c),
         \A i \in 1..readableBytes(b) :
           b.buffer[b.readerIndex + i] = c.buffer[c.readerIndex + i]
  PROVE  Content(b) = Content(c)
BY ContentProperties, SeqEqual DEF readableBytes

\* Making space loses no byte and leaves the room that was asked for; bytes are
\* only moved when readerIndex_ is past the header.
LEMMA SpaceProperties ==
  ASSUME NEW b, WellFormed(b), NEW len \in Nat
  PROVE  LET s == ensureWritableBytes(b, len)
         IN  /\ WellFormed(s)
             /\ s.writerIndex + len <= size(s)
             /\ Content(s) = Content(b)
             /\ writableBytes(b) < len /\ ~MustGrow(b, len)
                  => kCheapPrepend < b.readerIndex
<1> DEFINE s == ensureWritableBytes(b, len)
<1>1. /\ b = [buffer |-> b.buffer, readerIndex |-> b.readerIndex,
              writerIndex |-> b.writerIndex]
      /\ b.buffer \in Seq(Bytes) /\ b.readerIndex \in Nat /\ b.writerIndex \in Nat
      /\ b.readerIndex <= b.writerIndex /\ b.writerIndex <= Len(b.buffer)
      /\ kCheapPrepend <= Len(b.buffer) /\ kCheapPrepend \in Nat
      /\ Len(b.buffer) \in Nat
  BY SizesAssumption DEF WellFormed, Buffers, size
<1>2. writableBytes(b) < len /\ ~MustGrow(b, len) => kCheapPrepend < b.readerIndex
  BY <1>1 DEF writableBytes, MustGrow, prependableBytes, size
<1>3. CASE ~(writableBytes(b) < len)
  <2>1. s = b
    BY <1>3 DEF ensureWritableBytes
  <2> QED BY <1>1, <1>2, <1>3, <2>1 DEF writableBytes, size
<1>4. CASE writableBytes(b) < len /\ MustGrow(b, len)
  <2> DEFINE zeros == Zeros(b.writerIndex + len - size(b))
  <2>1. s = [buffer |-> b.buffer \o zeros, readerIndex |-> b.readerIndex,
             writerIndex |-> b.writerIndex]
    BY <1>1, <1>4 DEF ensureWritableBytes, makeSpace, Grown
  <2>2. b.writerIndex + len - size(b) \in Nat
    BY <1>1, <1>4 DEF writableBytes, size
  <2>3. zeros \in Seq(Bytes) /\ Len(zeros) = b.writerIndex + len - Len(b.buffer)
    <3>1. zeros \in [1..b.writerIndex + len - size(b) -> Bytes]
      BY BytesAssumption DEF Zeros
    <3> QED BY <2>2, <3>1, SeqDef DEF size
  <2> HIDE DEF zeros
  <2>4. /\ s.buffer \in Seq(Bytes)
        /\ Len(s.buffer) = b.writerIndex + len
        /\ \A i \in 1..Len(b.buffer) : s.buffer[i] = b.buffer[i]
    BY <1>1, <2>1, <2>3, ConcatProperties
  <2>5. WellFormed(s)
    BY <1>1, <1>4, <2>1, <2>4 DEF WellFormed, Buffers, size, writableBytes
  <2>6. Content(s) = Content(b)
    <3>1. \A i \in 1..readableBytes(b) : b.readerIndex + i \in 1..Len(b.buffer)
      BY <1>1 DEF readableBytes
    <3>2. /\ readableBytes(b) = readableBytes(s)
          /\ \A i \in 1..readableBytes(b) :
               b.buffer[b.readerIndex + i] = s.buffer[s.readerIndex + i]
      BY <2>1, <2>4, <3>1 DEF readableBytes
    <3> HIDE DEF s
    <3> QED BY <2>5, <3>2, SameContent
  <2> QED BY <1>1, <1>2, <2>1, <2>4, <2>5, <2>6 DEF size
<1>5. CASE writableBytes(b) < len /\ ~MustGrow(b, len)
  <2>1. s = [buffer      |-> Copied(b.buffer, kCheapPrepend, Content(b)),
             readerIndex |-> kCheapPrepend,
             writerIndex |-> kCheapPrepend + (b.writerIndex - b.readerIndex)]
    BY <1>5 DEF ensureWritableBytes, makeSpace, MovedToFront, readableBytes
  <2>2. /\ s.buffer \in Seq(Bytes)
        /\ Len(s.buffer) = Len(b.buffer)
        /\ \A i \in 1..b.writerIndex - b.readerIndex :
             s.buffer[kCheapPrepend + i] = b.buffer[b.readerIndex + i]
    <3>1. kCheapPrepend + (b.writerIndex - b.readerIndex) <= Len(b.buffer)
      BY <1>1, <1>2, <1>5
    <3>2. /\ s.buffer \in Seq(Bytes)
          /\ Len(s.buffer) = Len(b.buffer)
          /\ \A i \in 1..Len(b.buffer) : s.buffer[i] =
               IF i > kCheapPrepend /\ i <= kCheapPrepend + Len(Content(b))
               THEN Content(b)[i - kCheapPrepend] ELSE b.buffer[i]
      <4>1. Content(b) \in Seq(Bytes)
        BY ContentProperties
      <4>2. s.buffer = Copied(b.buffer, kCheapPrepend, Content(b))
        BY <2>1
      <4> DEFINE copied == Copied(b.buffer, kCheapPrepend, Content(b))
      <4>3. /\ copied \in Seq(Bytes)
            /\ Len(copied) = Len(b.buffer)
            /\ \A i \in 1..Len(b.buffer) : copied[i] =
                 IF i > kCheapPrepend /\ i <= kCheapPrepend + Len(Content(b))
                 THEN Content(b)[i - kCheapPrepend] ELSE b.buffer[i]
        BY <1>1, <4>1, CopiedProperties
      <4> HIDE DEF s, copied
      <4> QED BY <4>2, <4>3 DEF copied
    <3>3. ASSUME NEW i \in 1..b.writerIndex - b.readerIndex
          PROVE  s.buffer[kCheapPrepend + i] = b.buffer[b.readerIndex + i]
      <4>1. /\ kCheapPrepend + i \in 1..Len(b.buffer)
            /\ kCheapPrepend + i > kCheapPrepend
            /\ kCheapPrepend + i <= kCheapPrepend + Len(Content(b))
            /\ (kCheapPrepend + i) - kCheapPrepend = i
        BY <1>1, <3>1, ContentProperties, SMTT(60)
      <4> QED BY <3>2, <4>1, ContentProperties
    <3> QED BY <3>2, <3>3
  <2>3. s.writerIndex + len <= Len(s.buffer)
    BY <1>1, <1>5, <2>1, <2>2, SMTT(60) DEF MustGrow, writableBytes, prependableBytes, size
  <2>4. WellFormed(s)
    BY <1>1, <2>1, <2>2, <2>3 DEF WellFormed, Buffers, size
  <2>5. Content(s) = Content(b)
    BY <1>1, <2>1, <2>2, <2>4, SameContent, SMTT(60) DEF readableBytes
  <2> QED BY <1>2, <2>3, <2>4, <2>5 DEF size
<1> QED BY <1>3, <1>4, <1>5

-----------------------------------------------------------------------------
(* The operations.                                                         *)

\* Bytes copied to the writable part join the content: append once there is room,
\* and what readv does.
LEMMA FillProperties ==
  ASSUME NEW b, WellFormed(b), NEW data \in Seq(Bytes),
         b.writerIndex + Len(data) <= size(b)
  PROVE  LET s == Filled(b, data, Len(data))
         IN  WellFormed(s) /\ Content(s) = Content(b) \o data
<1> DEFINE r == b.readerIndex
           w == b.writerIndex
           n == Len(data)
           copied == Copied(b.buffer, w, data)
           s == Filled(b, data, Len(data))
<1>1. /\ b.buffer \in Seq(Bytes) /\ r \in Nat /\ w \in Nat /\ n \in Nat
      /\ r <= w /\ w + n <= Len(b.buffer)
      /\ kCheapPrepend <= Len(b.buffer) /\ kCheapPrepend \in Nat
      /\ Len(b.buffer) \in Nat
  BY SizesAssumption DEF WellFormed, Buffers, size
<1>2. s = [buffer |-> copied, readerIndex |-> r, writerIndex |-> w + n]
  BY DEF Filled
<1>3. /\ copied \in Seq(Bytes)
      /\ Len(copied) = Len(b.buffer)
      /\ \A i \in 1..Len(b.buffer) :
           copied[i] = IF i > w /\ i <= w + n THEN data[i - w] ELSE b.buffer[i]
  BY <1>1, CopiedProperties
<1> HIDE DEF copied
<1> HIDE DEF s
<1>4. WellFormed(s)
  BY <1>1, <1>2, <1>3 DEF WellFormed, Buffers, size
<1>5. /\ Content(s) \in Seq(Bytes)
      /\ Len(Content(s)) = (w - r) + n
      /\ \A i \in 1..(w - r) + n : Content(s)[i] = copied[r + i]
  <2>1. (w + n) - r = (w - r) + n
    BY <1>1
  <2> QED BY <1>2, <1>4, <2>1, ContentProperties
<1>6. /\ Content(b) \in Seq(Bytes)
      /\ Len(Content(b)) = w - r
      /\ \A i \in 1..w - r : Content(b)[i] = b.buffer[r + i]
  BY ContentProperties
<1>7. /\ Content(b) \o data \in Seq(Bytes)
      /\ Len(Content(b) \o data) = (w - r) + n
      /\ \A i \in 1..(w - r) + n : (Content(b) \o data)[i] =
           IF i <= w - r THEN Content(b)[i] ELSE data[i - (w - r)]
  <2>1. /\ Content(b) \o data \in Seq(Bytes)
        /\ Len(Content(b) \o data) = Len(Content(b)) + Len(data)
        /\ \A i \in 1..Len(Content(b)) + Len(data) : (Content(b) \o data)[i] =
             IF i <= Len(Content(b)) THEN Content(b)[i]
             ELSE data[i - Len(Content(b))]
    BY <1>6, ConcatProperties
  <2> QED BY <1>6, <2>1
<1>8. ASSUME NEW i \in 1..(w - r) + n
      PROVE  Content(s)[i] = (Content(b) \o data)[i]
  <2>1. r + i \in 1..Len(b.buffer)
    BY <1>1, SMTT(60)
  <2>2. CASE i <= w - r
    <3>1. i \in 1..w - r /\ ~(r + i > w)
      BY <1>1, <2>2
    <3> QED BY <1>3, <1>5, <1>6, <1>7, <2>1, <2>2, <3>1
  <2>3. CASE ~(i <= w - r)
    <3>1. r + i > w /\ r + i <= w + n /\ (r + i) - w = i - (w - r)
      BY <1>1, <2>3
    <3> QED BY <1>3, <1>5, <1>7, <2>1, <2>3, <3>1
  <2> QED BY <2>2, <2>3
<1>9. Content(s) = Content(b) \o data
  BY <1>5, <1>7, <1>8, SeqEqual
<1> QED BY <1>4, <1>9 DEF s

\* append adds the bytes at the end.
LEMMA AppendAddsAtEnd ==
  ASSUME NEW b, WellFormed(b), NEW data \in Seq(Bytes)
  PROVE  WellFormed(append(b, data)) /\ Content(append(b, data)) = Content(b) \o data
<1> DEFINE s == ensureWritableBytes(b, Len(data))
<1>1. Len(data) \in Nat
  OBVIOUS
<1>2. /\ WellFormed(s)
      /\ s.writerIndex + Len(data) <= size(s)
      /\ Content(s) = Content(b)
  BY <1>1, SpaceProperties
<1>3. append(b, data) = Filled(s, data, Len(data))
  BY DEF append
<1> HIDE DEF s
<1> QED BY <1>2, <1>3, FillProperties

\* readFd adds the bytes at the end, those in extrabuf too.
LEMMA ReadFdAddsAtEnd ==
  ASSUME NEW b, WellFormed(b), NEW data \in Seq(Bytes)
  PROVE  WellFormed(readFd(b, data)) /\ Content(readFd(b, data)) = Content(b) \o data
<1>1. CASE Len(data) <= writableBytes(b)
  <2>1. readFd(b, data) = Filled(b, data, Len(data))
    BY <1>1 DEF readFd
  <2>2. b.writerIndex + Len(data) <= size(b)
    BY <1>1 DEF writableBytes, WellFormed, Buffers, size
  <2> QED BY <2>1, <2>2, FillProperties
<1>2. CASE ~(Len(data) <= writableBytes(b))
  <2> DEFINE k == writableBytes(b)
             first == SubSeq(data, 1, k)
             rest == SubSeq(data, k + 1, Len(data))
             s == Filled(b, first, Len(first))
  <2>1. /\ k \in 0..Len(data) /\ k \in Nat /\ Len(data) \in Nat
        /\ b.buffer \in Seq(Bytes) /\ b.writerIndex \in Nat
        /\ b.writerIndex + k = Len(b.buffer)
    BY <1>2 DEF writableBytes, WellFormed, Buffers, size
  <2>2. \A i \in 1..Len(data) : data[i] \in Bytes
    OBVIOUS
  <2>3. first \in Seq(Bytes) /\ Len(first) = k /\ \A i \in 1..k : first[i] = data[i]
    <3>1. \A i \in 1..k : data[i] \in Bytes
      BY <2>1, <2>2
    <3> HIDE DEF k
    <3> QED BY <2>1, <3>1
  <2>4. rest \in Seq(Bytes)
    <3>1. \A i \in k + 1..Len(data) : data[i] \in Bytes
      BY <2>1, <2>2
    <3> HIDE DEF k
    <3> QED BY <2>1, <3>1
  <2>5. first \o rest = data
    <3>1. 1 \in 1..Len(data) + 1 /\ k \in 0..Len(data) /\ Len(data) \in k..Len(data)
      BY <2>1
    <3>2. SubSeq(data, 1, k) \o SubSeq(data, k + 1, Len(data))
            = SubSeq(data, 1, Len(data))
      BY <2>1, <3>1, ConcatAdjacentSubSeq, SMTT(60)
    <3> QED BY <3>2, SubSeqFull
  <2>6. Copied(b.buffer, b.writerIndex, data) = Copied(b.buffer, b.writerIndex, first)
    <3> HIDE DEF k, first
    <3>1. \A i \in 1..Len(b.buffer) :
            i > b.writerIndex => /\ i <= b.writerIndex + Len(data)
                                 /\ i <= b.writerIndex + Len(first)
                                 /\ i - b.writerIndex \in 1..k
      BY <2>1, <2>3
    <3> QED BY <2>1, <2>3, <3>1, SMTT(60) DEF Copied
  <2>7. WellFormed(s) /\ Content(s) = Content(b) \o first
    <3>1. b.writerIndex + Len(first) <= size(b)
      BY <2>1, <2>3 DEF size
    <3> HIDE DEF first, k
    <3> QED BY <2>3, <3>1, FillProperties
  <2>8. readFd(b, data) = append(s, rest)
    <3>1. s = Filled(b, data, k)
      BY <2>3, <2>6 DEF Filled
    <3> QED BY <1>2, <3>1 DEF readFd
  <2>9. Content(b) \in Seq(Bytes)
    BY ContentProperties
  <2> HIDE DEF s, first, rest, k
  <2>10. /\ WellFormed(append(s, rest))
         /\ Content(append(s, rest)) = (Content(b) \o first) \o rest
    BY <2>4, <2>7, AppendAddsAtEnd
  <2>11. (Content(b) \o first) \o rest = Content(b) \o data
    <3>1. (Content(b) \o first) \o rest = Content(b) \o (first \o rest)
      <4>1. \A x, y, z \in Seq(Bytes) : (x \o y) \o z = x \o (y \o z)
        BY ConcatAssociative, SMTT(60)
      <4>2. first \in Seq(Bytes)
        BY <2>3
      <4> QED BY <2>4, <2>9, <4>1, <4>2, Zenon
    <3> QED BY <2>5, <3>1
  <2> QED BY <2>8, <2>10, <2>11
<1> QED BY <1>1, <1>2

\* Positions in a new front of n bytes.
LEMMA InTheFront ==
  ASSUME NEW n \in Nat, NEW r \in Nat, n <= r, NEW i \in Nat \ {0}, i <= n
  PROVE  /\ (r - n) + i > r - n /\ (r - n) + i <= (r - n) + n
         /\ ((r - n) + i) - (r - n) = i
OBVIOUS

\* Positions in a string behind a new front of n bytes, and behind len taken ones.
LEMMA BehindTheFront ==
  ASSUME NEW n \in Nat, NEW r \in Nat, NEW w \in Nat, r <= w, n <= r,
         NEW i \in 1..n + (w - r), ~(i <= n)
  PROVE  /\ ~((r - n) + i <= (r - n) + n)
         /\ i - n \in 1..w - r
         /\ (r - n) + i = r + (i - n)
OBVIOUS

LEMMA BehindTheTaken ==
  ASSUME NEW len \in Nat, NEW r \in Nat, NEW w \in Nat, r <= w, len <= w - r,
         NEW k \in Nat, k = w - r
  PROVE  /\ (IF len + 1 <= k THEN k - (len + 1) + 1 ELSE 0) = k - len
         /\ k - (len + 1) + 1 = k - len
         /\ \A i \in 1..k - len : /\ (len + 1) + i - 1 = len + i
                                  /\ len + i \in 1..w - r
                                  /\ r + (len + i) = (r + len) + i
OBVIOUS

\* prepend puts the bytes before the others.
LEMMA PrependAddsInFront ==
  ASSUME NEW b, WellFormed(b), NEW data \in Seq(Bytes), Len(data) <= b.readerIndex
  PROVE  WellFormed(prepend(b, data)) /\ Content(prepend(b, data)) = data \o Content(b)
<1> DEFINE r == b.readerIndex
           w == b.writerIndex
           n == Len(data)
           copied == Copied(b.buffer, r - n, data)
           s == prepend(b, data)
<1>1. /\ b.buffer \in Seq(Bytes) /\ r \in Nat /\ w \in Nat /\ n \in Nat
      /\ r <= w /\ w <= Len(b.buffer) /\ n <= r /\ r - n \in Nat
      /\ kCheapPrepend <= Len(b.buffer)
      /\ Len(b.buffer) \in Nat
  BY DEF WellFormed, Buffers, size
<1>2. s = [buffer |-> copied, readerIndex |-> r - n, writerIndex |-> w]
  BY DEF prepend
<1>3. /\ copied \in Seq(Bytes)
      /\ Len(copied) = Len(b.buffer)
      /\ \A i \in 1..Len(b.buffer) : copied[i] =
           IF i > r - n /\ i <= (r - n) + n THEN data[i - (r - n)] ELSE b.buffer[i]
  BY <1>1, CopiedProperties
<1> HIDE DEF copied, s
<1>4. WellFormed(s)
  BY <1>1, <1>2, <1>3 DEF WellFormed, Buffers, size
<1>5. /\ Content(s) \in Seq(Bytes)
      /\ Len(Content(s)) = n + (w - r)
      /\ \A i \in 1..n + (w - r) : Content(s)[i] = copied[(r - n) + i]
  <2>1. w - (r - n) = n + (w - r)
    BY <1>1
  <2> QED BY <1>2, <1>4, <2>1, ContentProperties
<1>6. /\ Content(b) \in Seq(Bytes)
      /\ Len(Content(b)) = w - r
      /\ \A i \in 1..w - r : Content(b)[i] = b.buffer[r + i]
  BY ContentProperties
<1>7. /\ data \o Content(b) \in Seq(Bytes)
      /\ Len(data \o Content(b)) = n + (w - r)
      /\ \A i \in 1..n + (w - r) : (data \o Content(b))[i] =
           IF i <= n THEN data[i] ELSE Content(b)[i - n]
  <2>1. /\ data \o Content(b) \in Seq(Bytes)
        /\ Len(data \o Content(b)) = Len(data) + Len(Content(b))
        /\ \A i \in 1..Len(data) + Len(Content(b)) : (data \o Content(b))[i] =
             IF i <= Len(data) THEN data[i] ELSE Content(b)[i - Len(data)]
    BY <1>6, ConcatProperties
  <2> QED BY <1>6, <2>1
<1>8. ASSUME NEW i \in 1..n + (w - r)
      PROVE  Content(s)[i] = (data \o Content(b))[i]
  <2>1. (r - n) + i \in 1..Len(b.buffer)
    BY <1>1, SMTT(60)
  <2>2. CASE i <= n
    <3>1. (r - n) + i > r - n /\ (r - n) + i <= (r - n) + n
            /\ ((r - n) + i) - (r - n) = i
      <4>1. i \in Nat \ {0}
        BY <1>1
      <4> QED BY <1>1, <2>2, <4>1, InTheFront
    <3> QED BY <1>3, <1>5, <1>7, <2>1, <2>2, <3>1, SMTT(60)
  <2>3. CASE ~(i <= n)
    <3>1. ~((r - n) + i <= (r - n) + n) /\ i - n \in 1..w - r
            /\ (r - n) + i = r + (i - n)
      BY <1>1, <2>3, BehindTheFront
    <3> QED BY <1>3, <1>5, <1>6, <1>7, <2>1, <2>3, <3>1
  <2> QED BY <2>2, <2>3
<1>9. Content(s) = data \o Content(b)
  BY <1>5, <1>7, <1>8, SeqEqual
<1> QED BY <1>4, <1>9 DEF s

\* retrieve takes the bytes that peek() shows from the front.
LEMMA RetrieveTakes ==
  ASSUME NEW b, WellFormed(b), NEW len \in Nat, len <= readableBytes(b)
  PROVE  /\ WellFormed(retrieve(b, len))
         /\ SubSeq(b.buffer, b.readerIndex + 1, b.readerIndex + len)
              = SubSeq(Content(b), 1, len)
         /\ Content(retrieve(b, len))
              = SubSeq(Content(b), len + 1, Len(Content(b)))
<1> DEFINE r == b.readerIndex
           w == b.writerIndex
           s == retrieve(b, len)
<1>1. /\ b.buffer \in Seq(Bytes) /\ r \in Nat /\ w \in Nat
      /\ r <= w /\ w <= Len(b.buffer) /\ r + len <= w
      /\ kCheapPrepend <= Len(b.buffer)
      /\ Len(b.buffer) \in Nat
  BY DEF WellFormed, Buffers, size, readableBytes
<1>2. s = [buffer |-> b.buffer, readerIndex |-> r + len, writerIndex |-> w]
  <2>1. b = [buffer |-> b.buffer, readerIndex |-> r, writerIndex |-> w]
    BY DEF WellFormed, Buffers
  <2> QED BY <2>1 DEF retrieve
<1> HIDE DEF s
<1>3. WellFormed(s)
  BY <1>1, <1>2 DEF WellFormed, Buffers, size
<1>4. /\ Content(b) \in Seq(Bytes)
      /\ Len(Content(b)) = w - r
      /\ \A i \in 1..w - r : Content(b)[i] = b.buffer[r + i]
  BY ContentProperties
<1>5. SubSeq(b.buffer, r + 1, r + len) = SubSeq(Content(b), 1, len)
  <2>1. \A i \in r + 1..r + len : b.buffer[i] \in Bytes
    BY <1>1
  <2>2. \A i \in 1..len : Content(b)[i] \in Bytes
    BY <1>1, <1>4
  <2> DEFINE m == r + 1
             n == r + len
             x == SubSeq(b.buffer, m, n)
             y == SubSeq(Content(b), 1, len)
  <2>3. /\ x \in Seq(Bytes)
        /\ Len(x) = IF m <= n THEN n - m + 1 ELSE 0
        /\ \A i \in 1..n - m + 1 : x[i] = b.buffer[m + i - 1]
    <3>1. m \in Int /\ n \in Int /\ \A i \in m..n : b.buffer[i] \in Bytes
      BY <1>1, <2>1
    <3> HIDE DEF m, n
    <3> QED BY <3>1, SubSeqProperties
  <2>4. /\ y \in Seq(Bytes)
        /\ Len(y) = IF 1 <= len THEN len - 1 + 1 ELSE 0
        /\ \A i \in 1..len - 1 + 1 : y[i] = Content(b)[1 + i - 1]
    <3>1. len \in Int /\ 1 \in Int
      OBVIOUS
    <3> QED BY <2>2, <3>1, SubSeqProperties
  <2>5. /\ (IF m <= n THEN n - m + 1 ELSE 0) = len
        /\ n - m + 1 = len /\ len - 1 + 1 = len
        /\ (IF 1 <= len THEN len - 1 + 1 ELSE 0) = len
        /\ \A i \in 1..len : m + i - 1 = r + i /\ 1 + i - 1 = i /\ i \in 1..w - r
    BY <1>1, SMTT(60)
  <2> HIDE DEF x, y, m, n
  <2>6. \A i \in 1..len : x[i] = y[i]
    BY <1>4, <2>3, <2>4, <2>5
  <2>7. x = y
    BY <2>3, <2>4, <2>5, <2>6, SeqEqual
  <2> QED BY <2>7 DEF x, y, m, n
<1>6. Content(s) = SubSeq(Content(b), len + 1, Len(Content(b)))
  <2> DEFINE k == Len(Content(b))
             y == SubSeq(Content(b), len + 1, k)
  <2>1. k = w - r /\ k \in Nat /\ len <= k
    BY <1>1, <1>4
  <2>2. /\ Content(s) \in Seq(Bytes)
        /\ Len(Content(s)) = k - len
        /\ \A i \in 1..k - len : Content(s)[i] = b.buffer[(r + len) + i]
    <3>1. w - (r + len) = k - len
      BY <1>1, <2>1
    <3> HIDE DEF k
    <3> QED BY <1>2, <1>3, <3>1, ContentProperties
  <2>3. /\ y \in Seq(Bytes)
        /\ Len(y) = IF len + 1 <= k THEN k - (len + 1) + 1 ELSE 0
        /\ \A i \in 1..k - (len + 1) + 1 : y[i] = Content(b)[(len + 1) + i - 1]
    <3>1. \A i \in len + 1..k : Content(b)[i] \in Bytes
      BY <1>4, <2>1
    <3>2. len + 1 \in Int /\ k \in Int
      BY <2>1
    <3> HIDE DEF k
    <3> QED BY <3>1, <3>2, SubSeqProperties
  <2> HIDE DEF y, k
  <2>4. /\ (IF len + 1 <= k THEN k - (len + 1) + 1 ELSE 0) = k - len
        /\ k - (len + 1) + 1 = k - len
        /\ \A i \in 1..k - len : /\ (len + 1) + i - 1 = len + i
                                 /\ len + i \in 1..w - r
                                 /\ r + (len + i) = (r + len) + i
    <3>1. r \in Nat /\ w \in Nat /\ r <= w /\ len <= w - r /\ k \in Nat /\ k = w - r
      BY <1>1, <2>1
    <3> HIDE DEF r, w
    <3> QED BY <3>1, BehindTheTaken
  <2>5. \A i \in 1..k - len : Content(s)[i] = y[i]
    BY <1>4, <2>2, <2>3, <2>4, SMTT(60)
  <2>6. Content(s) = y
    BY <2>2, <2>3, <2>4, <2>5, SeqEqual
  <2> QED BY <2>6 DEF y, k
<1> QED BY <1>3, <1>5, <1>6 DEF s

\* retrieveAll takes everything and has the whole vector for the next bytes.
LEMMA RetrieveAllTakes ==
  ASSUME NEW b, WellFormed(b)
  PROVE  WellFormed(retrieveAll(b)) /\ Content(retrieveAll(b)) = <<>>
<1>1. WellFormed(retrieveAll(b))
  BY SizesAssumption DEF WellFormed, Buffers, size, retrieveAll
<1>2. Content(retrieveAll(b)) = <<>>
  BY SizesAssumption, SubSeqEmpty DEF Content, retrieveAll
<1> QED BY <1>1, <1>2

-----------------------------------------------------------------------------
(* The invariants.                                                         *)

IInv ==
  /\ WellFormed(buf)
  /\ call \in [op : {"none", "append", "prepend", "retrieve"}, data : Seq(Bytes)]

LEMMA StringsAreStrings == Strings \subseteq Seq(Bytes)
<1> SUFFICES ASSUME NEW n \in 0..MaxLen, NEW data \in [1..n -> Bytes]
             PROVE  data \in Seq(Bytes)
  BY DEF Strings
<1>1. n \in Nat
  BY SizesAssumption
<1> QED BY <1>1, SeqDef

\* A buffer that was just constructed.
LEMMA NewProperties == WellFormed(New) /\ Content(New) = <<>>
<1> DEFINE n == kCheapPrepend + kInitialSize
<1>1. n \in Nat /\ kCheapPrepend \in Nat /\ kCheapPrepend <= n
  BY SizesAssumption
<1> HIDE DEF n
<1>2. Zeros(n) \in [1..n -> Bytes]
  BY BytesAssumption DEF Zeros
<1>3. Zeros(n) \in Seq(Bytes) /\ Len(Zeros(n)) = n
  BY <1>1, <1>2, SeqDef
<1>4. New = [buffer |-> Zeros(n), readerIndex |-> kCheapPrepend,
             writerIndex |-> kCheapPrepend]
  BY DEF New, n
<1>5. WellFormed(New)
  BY <1>1, <1>3, <1>4 DEF WellFormed, Buffers, size
<1>6. Content(New) = <<>>
  BY <1>1, <1>3, <1>4, SubSeqEmpty DEF Content
<1> QED BY <1>5, <1>6

\* What each operation does to a well-formed buffer, as the queue of bytes sees it.
LEMMA NextOnContent ==
  ASSUME IInv, Next
  PROVE  /\ IInv'
         /\ \/ Queue!Next
            \/ UNCHANGED <<call, Content(buf)>>
<1>1. /\ WellFormed(buf)
      /\ Content(buf) \in Seq(Bytes)
      /\ Len(Content(buf)) = readableBytes(buf)
      /\ readableBytes(buf) \in Nat
  BY ContentProperties DEF IInv, readableBytes, WellFormed, Buffers
<1>2. ASSUME NEW data \in Strings, CallAppend(data) \/ CallReadFd(data)
      PROVE  IInv' /\ Queue!Next
  <2>1. data \in Seq(Bytes)
    BY StringsAreStrings
  <2>2. /\ WellFormed(buf')
        /\ Content(buf') = Content(buf) \o data
        /\ call' = [op |-> "append", data |-> data]
    BY <1>1, <1>2, <2>1, AppendAddsAtEnd, ReadFdAddsAtEnd DEF CallAppend, CallReadFd
  <2> QED BY <1>1, <2>1, <2>2 DEF IInv, Queue!Next, Queue!AddAtEnd, Content
<1>3. ASSUME NEW data \in Strings, CallPrepend(data)
      PROVE  IInv' /\ Queue!Next
  <2>1. data \in Seq(Bytes)
    BY StringsAreStrings
  <2>2. /\ WellFormed(buf')
        /\ Content(buf') = data \o Content(buf)
        /\ call' = [op |-> "prepend", data |-> data]
    BY <1>1, <1>3, <2>1, PrependAddsInFront DEF CallPrepend, prependableBytes
  <2> QED BY <1>1, <2>1, <2>2 DEF IInv, Queue!Next, Queue!AddInFront, Content
<1>4. ASSUME NEW len \in 0..MaxLen, CallRetrieve(len)
      PROVE  IInv' /\ Queue!Next
  <2>1. len \in Nat /\ len <= readableBytes(buf) /\ len \in 0..Len(Content(buf))
    BY <1>1, <1>4, SizesAssumption DEF CallRetrieve
  <2>2. /\ WellFormed(buf')
        /\ Content(buf') = SubSeq(Content(buf), len + 1, Len(Content(buf)))
        /\ call' = [op |-> "retrieve", data |-> SubSeq(Content(buf), 1, len)]
    BY <1>1, <1>4, <2>1, RetrieveTakes DEF CallRetrieve
  <2>3. SubSeq(Content(buf), 1, len) \in Seq(Bytes)
    BY <1>1, <2>1
  <2> QED BY <2>1, <2>2, <2>3 DEF IInv, Queue!Next, Queue!Take, Content
<1>5. ASSUME NEW len \in 0..MaxLen, CallEnsureWritableBytes(len)
      PROVE  IInv' /\ UNCHANGED <<call, Content(buf)>>
  <2>1. len \in Nat
    BY SizesAssumption
  <2>2. WellFormed(buf') /\ Content(buf') = Content(buf) /\ call' = call
    BY <1>1, <1>5, <2>1, SpaceProperties DEF CallEnsureWritableBytes
  <2> QED BY <2>2 DEF IInv, Content
<1>6. ASSUME CallRetrieveAll
      PROVE  IInv' /\ Queue!Next
  <2> DEFINE n == Len(Content(buf))
  <2>1. /\ WellFormed(buf') /\ Content(buf') = <<>>
        /\ call' = [op |-> "retrieve", data |-> Content(buf)]
    BY <1>1, <1>6, RetrieveAllTakes DEF CallRetrieveAll
  <2>2. n \in 0..n /\ SubSeq(Content(buf), 1, n) = Content(buf)
        /\ SubSeq(Content(buf), n + 1, n) = <<>>
    BY <1>1
  <2> QED BY <1>1, <2>1, <2>2 DEF IInv, Queue!Next, Queue!Take, Content
<1> QED BY <1>2, <1>3, <1>4, <1>5, <1>6 DEF Next

-----------------------------------------------------------------------------
(* The size of the vector.                                                 *)

\* What GrowsOnlyWhenFull says of an operation that makes c of b.
GrownFull(b, c) ==
  size(c) > size(b) => size(b) < size(c) - b.readerIndex + kCheapPrepend

\* Making space makes the vector longer only when MustGrow says so.
LEMMA SpaceGrownFull ==
  ASSUME NEW b, WellFormed(b), NEW len \in Nat
  PROVE  /\ GrownFull(b, ensureWritableBytes(b, len))
         /\ size(ensureWritableBytes(b, len)) \in Nat
<1> DEFINE s == ensureWritableBytes(b, len)
<1>1. /\ b.buffer \in Seq(Bytes) /\ b.readerIndex \in Nat /\ b.writerIndex \in Nat
      /\ b.writerIndex <= Len(b.buffer) /\ Len(b.buffer) \in Nat
      /\ kCheapPrepend \in Nat
  BY SizesAssumption DEF WellFormed, Buffers, size
<1>2. CASE ~(writableBytes(b) < len)
  <2>1. s = b
    BY <1>2 DEF ensureWritableBytes
  <2> QED BY <1>1, <2>1 DEF GrownFull, size
<1>3. CASE writableBytes(b) < len /\ ~MustGrow(b, len)
  <2>1. s.buffer = Copied(b.buffer, kCheapPrepend, Content(b))
    BY <1>3 DEF ensureWritableBytes, makeSpace, MovedToFront
  <2>2. Content(b) \in Seq(Bytes)
    BY ContentProperties
  <2>3. Len(s.buffer) = Len(b.buffer)
    BY <1>1, <2>1, <2>2, CopiedProperties
  <2> HIDE DEF s
  <2>4. size(s) = size(b) /\ size(b) \in Nat
    BY <1>1, <2>3 DEF size
  <2> QED BY <2>4 DEF GrownFull, s
<1>4. CASE writableBytes(b) < len /\ MustGrow(b, len)
  <2> DEFINE zeros == Zeros(b.writerIndex + len - size(b))
  <2>1. b \in [buffer : Seq(Bytes), readerIndex : Nat, writerIndex : Nat]
    BY DEF WellFormed, Buffers
  <2>2. s.buffer = b.buffer \o zeros
    BY <1>4, <2>1 DEF ensureWritableBytes, makeSpace, Grown
  <2>3. b.writerIndex + len - size(b) \in Nat
    BY <1>1, <1>4 DEF writableBytes, size
  <2>4. zeros \in Seq(Bytes) /\ Len(zeros) = b.writerIndex + len - size(b)
    <3>1. zeros \in [1..b.writerIndex + len - size(b) -> Bytes]
      BY BytesAssumption DEF Zeros
    <3> QED BY <2>3, <3>1, SeqDef
  <2> HIDE DEF zeros
  <2> HIDE DEF s
  <2>5. Len(s.buffer) = Len(b.buffer) + Len(zeros)
    BY <1>1, <2>2, <2>4, ConcatProperties
  <2>6. size(s) = b.writerIndex + len /\ size(s) \in Nat
    BY <1>1, <2>4, <2>5 DEF size
  <2>7. (size(b) - b.writerIndex) + b.readerIndex < len + kCheapPrepend
    BY <1>4 DEF MustGrow, writableBytes, prependableBytes
  <2>8. size(b) \in Nat
    BY <1>1 DEF size
  <2>9. size(b) < (b.writerIndex + len) - b.readerIndex + kCheapPrepend
    BY <1>1, <2>7, <2>8
  <2>10. size(b) < size(s) - b.readerIndex + kCheapPrepend
    BY <2>6, <2>9
  <2> QED BY <2>6, <2>10 DEF GrownFull, s
<1> QED BY <1>2, <1>3, <1>4

\* Bytes copied into the vector do not change its size.
LEMMA FilledSize ==
  ASSUME NEW b, WellFormed(b), NEW data \in Seq(Bytes), NEW n \in Nat
  PROVE  size(Filled(b, data, n)) = size(b)
<1>1. b.buffer \in Seq(Bytes) /\ b.writerIndex \in Nat
  BY DEF WellFormed, Buffers
<1>2. Len(Copied(b.buffer, b.writerIndex, data)) = Len(b.buffer)
  BY <1>1, CopiedProperties
<1> QED BY <1>2 DEF Filled, size

\* append grows only a full buffer.
LEMMA AppendGrownFull ==
  ASSUME NEW b, WellFormed(b), NEW data \in Seq(Bytes)
  PROVE  GrownFull(b, append(b, data))
<1> DEFINE s == ensureWritableBytes(b, Len(data))
<1>1. Len(data) \in Nat
  OBVIOUS
<1>2. WellFormed(s) /\ GrownFull(b, s)
  BY <1>1, SpaceProperties, SpaceGrownFull
<1>3. append(b, data) = Filled(s, data, Len(data))
  BY DEF append
<1> HIDE DEF s
<1>4. size(append(b, data)) = size(s)
  BY <1>1, <1>2, <1>3, FilledSize
<1> QED BY <1>2, <1>4 DEF GrownFull

\* So does readFd, which fills the vector before it appends.
LEMMA ReadFdGrownFull ==
  ASSUME NEW b, WellFormed(b), NEW data \in Seq(Bytes)
  PROVE  GrownFull(b, readFd(b, data))
<1> DEFINE writable == writableBytes(b)
           s    == Filled(b, data, writable)
           rest == SubSeq(data, writable + 1, Len(data))
<1>1. /\ b.buffer \in Seq(Bytes) /\ b.readerIndex \in Nat /\ b.writerIndex \in Nat
      /\ b.readerIndex <= b.writerIndex /\ b.writerIndex <= Len(b.buffer)
      /\ kCheapPrepend <= Len(b.buffer) /\ kCheapPrepend \in Nat
      /\ Len(b.buffer) \in Nat /\ Len(data) \in Nat /\ writable \in Nat
  BY SizesAssumption DEF WellFormed, Buffers, size, writableBytes
<1>2. CASE Len(data) <= writable
  <2>1. readFd(b, data) = Filled(b, data, Len(data))
    BY <1>2 DEF readFd
  <2>2. size(readFd(b, data)) = size(b) /\ size(b) \in Nat
    BY <1>1, <2>1, FilledSize DEF size
  <2> QED BY <2>2 DEF GrownFull
<1>3. CASE ~(Len(data) <= writable)
  <2>1. readFd(b, data) = append(s, rest)
    BY <1>3 DEF readFd
  <2>2. /\ s.readerIndex = b.readerIndex
        /\ s.writerIndex = b.writerIndex + writable
        /\ s.buffer = Copied(b.buffer, b.writerIndex, data)
        /\ s = [buffer |-> s.buffer, readerIndex |-> s.readerIndex,
                writerIndex |-> s.writerIndex]
    BY DEF Filled
  <2>3. s.buffer \in Seq(Bytes) /\ Len(s.buffer) = Len(b.buffer)
    BY <1>1, <2>2, CopiedProperties
  <2>4. rest \in Seq(Bytes)
    BY <1>1
  <2> HIDE DEF s, rest
  <2>5. size(s) = size(b)
    BY <2>3 DEF size
  <2>6. WellFormed(s)
    BY <1>1, <2>2, <2>3 DEF WellFormed, Buffers, size, writableBytes
  <2> QED BY <2>1, <2>2, <2>4, <2>5, <2>6, AppendGrownFull DEF GrownFull
<1> QED BY <1>2, <1>3

-----------------------------------------------------------------------------
(* The theorems.                                                           *)

LEMMA Invariance == Spec => []IInv
<1>1. Init => IInv
  BY NewProperties DEF Init, IInv
<1>2. IInv /\ [Next]_vars => IInv'
  BY NextOnContent DEF vars, IInv
<1> QED BY <1>1, <1>2, PTL DEF Spec

\* The variables keep their types: no index is ever negative.
THEOREM BufferTypeInvariance == Spec => []TypeOK
<1>1. IInv => TypeOK
  BY DEF IInv, TypeOK, WellFormed
<1> QED BY <1>1, Invariance, PTL

\* The indices stay in order and inside the vector (Buffer.h's picture).
THEOREM IndicesOrderedTheorem == Spec => []IndicesOrdered
<1>1. IInv => IndicesOrdered
  BY DEF IInv, IndicesOrdered, WellFormed
<1> QED BY <1>1, Invariance, PTL

\* makeSpace's asserts hold whatever length is asked for: bytes are only moved
\* to the front when there is something in front of them.
THEOREM SpaceIsMadeTheorem == Spec => []SpaceIsMade
<1>1. ASSUME IInv, NEW len \in 0..MaxLen
      PROVE  LET b == ensureWritableBytes(buf, len)
             IN  /\ writableBytes(buf) < len /\ ~MustGrow(buf, len)
                      => kCheapPrepend < buf.readerIndex
                 /\ b.writerIndex + len <= size(b)
                 /\ b.readerIndex <= b.writerIndex
  <2> DEFINE b == ensureWritableBytes(buf, len)
  <2>1. len \in Nat /\ WellFormed(buf)
    BY <1>1, SizesAssumption DEF IInv
  <2>2. WellFormed(b) /\ b.writerIndex + len <= size(b)
    BY <2>1, SpaceProperties
  <2> HIDE DEF b
  <2>3. b.readerIndex <= b.writerIndex
    BY <2>2 DEF WellFormed
  <2>4. writableBytes(buf) < len /\ ~MustGrow(buf, len)
           => kCheapPrepend < buf.readerIndex
    BY <2>1, SizesAssumption DEF MustGrow, writableBytes, prependableBytes,
       WellFormed, Buffers, size
  <2> QED BY <2>2, <2>3, <2>4 DEF b
<1>2. IInv => SpaceIsMade
  BY <1>1 DEF SpaceIsMade
<1> QED BY <1>2, Invariance, PTL

\* The buffer implements the queue of bytes.
THEOREM QueueRefinement == Spec => ImplementsByteQueue
<1>1. Init => Queue!Init
  BY NewProperties DEF Init, Queue!Init
<1>2. IInv /\ [Next]_vars => [Queue!Next]_(Queue!vars)
  <2>1. ASSUME IInv, Next
        PROVE  [Queue!Next]_(Queue!vars)
    BY <2>1, NextOnContent DEF Queue!vars
  <2>2. ASSUME UNCHANGED vars
        PROVE  [Queue!Next]_(Queue!vars)
    BY <2>2 DEF vars, Queue!vars, Content
  <2> QED BY <2>1, <2>2
<1> QED BY <1>1, <1>2, Invariance, PTL DEF Spec, Queue!Spec, ImplementsByteQueue

\* The vector grows only when the bytes, the new ones and the header do not fit into it,
\* for all sizes: in appends, in reads and when space is asked for.
THEOREM GrowsOnlyWhenFullTheorem == Spec => GrowsOnlyWhenFull
<1>1. ASSUME IInv, Next
      PROVE  GrownFull(buf, buf')
  <2>1. WellFormed(buf)
    BY <1>1 DEF IInv
  <2>2. /\ buf.buffer \in Seq(Bytes) /\ buf.readerIndex \in Nat /\ size(buf) \in Nat
    BY <2>1 DEF WellFormed, Buffers, size
  <2>3. ASSUME NEW data \in Strings, CallAppend(data) \/ CallReadFd(data)
        PROVE  GrownFull(buf, buf')
    <3>1. data \in Seq(Bytes)
      BY StringsAreStrings
    <3> QED BY <2>1, <2>3, <3>1, AppendGrownFull, ReadFdGrownFull
            DEF CallAppend, CallReadFd
  <2>4. ASSUME NEW data \in Strings, CallPrepend(data)
        PROVE  GrownFull(buf, buf')
    <3>1. data \in Seq(Bytes) /\ buf.readerIndex - Len(data) \in Nat
      <4>1. data \in Seq(Bytes)
        BY StringsAreStrings
      <4>2. Len(data) \in Nat /\ Len(data) <= buf.readerIndex
        BY <2>4, <4>1 DEF CallPrepend, prependableBytes
      <4> QED BY <2>2, <4>1, <4>2
    <3>2. buf'.buffer = Copied(buf.buffer, buf.readerIndex - Len(data), data)
      BY <2>4 DEF CallPrepend, prepend
    <3>3. size(buf') = size(buf)
      <4>1. Len(Copied(buf.buffer, buf.readerIndex - Len(data), data)) = Len(buf.buffer)
        BY <2>2, <3>1, CopiedProperties
      <4> QED BY <3>2, <4>1 DEF size
    <3> QED BY <2>2, <3>3 DEF GrownFull
  <2>5. ASSUME NEW len \in 0..MaxLen, CallEnsureWritableBytes(len)
        PROVE  GrownFull(buf, buf')
    <3>1. len \in Nat
      BY SizesAssumption
    <3> QED BY <2>1, <2>5, <3>1, SpaceGrownFull DEF CallEnsureWritableBytes
  <2>6. ASSUME CallRetrieveAll \/ \E len \in 0..MaxLen : CallRetrieve(len)
        PROVE  GrownFull(buf, buf')
    <3>1. buf \in [buffer : Seq(Bytes), readerIndex : Nat, writerIndex : Nat]
      BY <2>1 DEF WellFormed, Buffers
    <3>2. buf'.buffer = buf.buffer
      BY <2>6, <3>1 DEF CallRetrieveAll, CallRetrieve, retrieveAll, retrieve
    <3> QED BY <2>2, <3>2 DEF GrownFull, size
  <2> QED BY <1>1, <2>3, <2>4, <2>5, <2>6 DEF Next
<1>2. IInv /\ [Next]_vars
        => [size(buf') > size(buf) =>
              size(buf) < size(buf') - buf.readerIndex + kCheapPrepend]_vars
  BY <1>1 DEF GrownFull
<1> QED BY <1>2, Invariance, PTL DEF Spec, GrowsOnlyWhenFull
=============================================================================
