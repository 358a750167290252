------------------------------- MODULE Buffer -------------------------------
(***************************************************************************)
(* cppnetool::net::Buffer: the readable bytes lie between two indices of a *)
(* vector whose first kCheapPrepend bytes are kept for a header.  Space is *)
(* made by moving the bytes to the front or, when that is not enough, by   *)
(* resizing.  Each operation is a function of the buffer, so that readFd   *)
(* can be written as the code is: with the bytes that do not fit appended. *)
(***************************************************************************)
EXTENDS Integers, Sequences

CONSTANTS
  kCheapPrepend,
  kInitialSize,
  ExtraSize,   \* size of extrabuf, the second buffer readFd offers to readv
  Bytes,       \* the values of a byte
  MaxLen,      \* bound: the longest string an operation is given
  MaxReadable  \* bound: nothing is added to a buffer that would hold more

ASSUME SizesAssumption ==
  /\ kCheapPrepend \in Nat
  /\ kInitialSize \in Nat
  /\ ExtraSize \in Nat
  /\ MaxLen \in Nat
  /\ MaxReadable \in Nat
ASSUME BytesAssumption == 0 \in Bytes

VARIABLES
  buf,  \* buffer_, readerIndex_ and writerIndex_
  call  \* the last call, as its caller sees it (see ByteQueue)

Buffers == [buffer : Seq(Bytes), readerIndex : Nat, writerIndex : Nat]

TypeOK ==
  /\ buf \in Buffers
  /\ call \in [op : {"none", "append", "prepend", "retrieve"}, data : Seq(Bytes)]

\* n bytes as a vector makes them.
Zeros(n) == [i \in 1..n |-> 0]

New == [buffer      |-> Zeros(kCheapPrepend + kInitialSize),
        readerIndex |-> kCheapPrepend,
        writerIndex |-> kCheapPrepend]

Init ==
  /\ buf = New
  /\ call = [op |-> "none", data |-> <<>>]

-----------------------------------------------------------------------------

size(b)             == Len(b.buffer)
readableBytes(b)    == b.writerIndex - b.readerIndex
writableBytes(b)    == size(b) - b.writerIndex
prependableBytes(b) == b.readerIndex

\* The readable bytes: peek() to beginWrite().
Content(b) == SubSeq(b.buffer, b.readerIndex + 1, b.writerIndex)

\* std::copy of data into s, behind its first at bytes.
Copied(s, at, data) ==
  [i \in DOMAIN s |-> IF i > at /\ i <= at + Len(data) THEN data[i - at] ELSE s[i]]

-----------------------------------------------------------------------------
(* Making space.                                                           *)

\* Mutant: the buffer is always resized.
MustGrow_Always(b, len) == TRUE

\* The test of makeSpace: moving the readable bytes would not be enough.
MustGrow(b, len) ==
  writableBytes(b) + prependableBytes(b) < len + kCheapPrepend

\* buffer_.resize(writerIndex_ + len).
Grown(b, len) ==
  [b EXCEPT !.buffer = @ \o Zeros(b.writerIndex + len - size(b))]

\* Mutant: the bytes are moved but writerIndex_ stays.
MovedToFront_WriterStays(b) ==
  [b EXCEPT !.buffer = Copied(@, kCheapPrepend, Content(b)),
            !.readerIndex = kCheapPrepend]

\* The readable bytes are moved to the front.
MovedToFront(b) ==
  [buffer      |-> Copied(b.buffer, kCheapPrepend, Content(b)),
   readerIndex |-> kCheapPrepend,
   writerIndex |-> kCheapPrepend + readableBytes(b)]

makeSpace(b, len) == IF MustGrow(b, len) THEN Grown(b, len) ELSE MovedToFront(b)

ensureWritableBytes(b, len) ==
  IF writableBytes(b) < len THEN makeSpace(b, len) ELSE b

-----------------------------------------------------------------------------
(* The operations.                                                         *)

\* data copied to the writable bytes, of which n have then been written.
Filled(b, data, n) ==
  [buffer      |-> Copied(b.buffer, b.writerIndex, data),
   readerIndex |-> b.readerIndex,
   writerIndex |-> b.writerIndex + n]

append(b, data) ==
  LET s == ensureWritableBytes(b, Len(data))
  IN  Filled(s, data, Len(data))

prepend(b, data) ==
  LET reader == b.readerIndex - Len(data)
  IN  [buffer      |-> Copied(b.buffer, reader, data),
       readerIndex |-> reader,
       writerIndex |-> b.writerIndex]

retrieve(b, len) == [b EXCEPT !.readerIndex = @ + len]

retrieveAll(b) ==
  [buffer      |-> b.buffer,
   readerIndex |-> kCheapPrepend,
   writerIndex |-> kCheapPrepend]

\* Mutant: the part that was already read into the buffer is appended again.
readFd_AppendAll(b, data) ==
  LET writable == writableBytes(b)
  IN  IF Len(data) <= writable
      THEN Filled(b, data, Len(data))
      ELSE append(Filled(b, data, writable), data)

\* readv filled the writable bytes first and extrabuf with the rest.
readFd(b, data) ==
  LET writable == writableBytes(b)
  IN  IF Len(data) <= writable
      THEN Filled(b, data, Len(data))
      ELSE append(Filled(b, data, writable),
                  SubSeq(data, writable + 1, Len(data)))

-----------------------------------------------------------------------------
(* The calls.  What the code asserts of the arguments (a retrieve of no     *)
(* more than is readable, a prepend of no more than fits) is asked of the   *)
(* caller.                                                                 *)

Strings == UNION {[1..n -> Bytes] : n \in 0..MaxLen}

Fits(data) == readableBytes(buf) + Len(data) <= MaxReadable

CallAppend(data) ==
  /\ Fits(data)
  /\ buf' = append(buf, data)
  /\ call' = [op |-> "append", data |-> data]

\* readFd: readv reads as much as it is given room for, or less.
CallReadFd(data) ==
  /\ Fits(data)
  /\ Len(data) <= writableBytes(buf) + ExtraSize
  /\ buf' = readFd(buf, data)
  /\ call' = [op |-> "append", data |-> data]

CallPrepend(data) ==
  /\ Fits(data)
  /\ Len(data) <= prependableBytes(buf)
  /\ buf' = prepend(buf, data)
  /\ call' = [op |-> "prepend", data |-> data]

\* The bytes are read through peek() and then retrieved.
CallRetrieve(len) ==
  /\ len <= readableBytes(buf)
  /\ buf' = retrieve(buf, len)
  /\ call' = [op |-> "retrieve",
              data |-> SubSeq(buf.buffer, buf.readerIndex + 1, buf.readerIndex + len)]

\* retrieveAsString().
CallRetrieveAll ==
  /\ buf' = retrieveAll(buf)
  /\ call' = [op |-> "retrieve", data |-> Content(buf)]

CallEnsureWritableBytes(len) ==
  /\ readableBytes(buf) + len <= MaxReadable
  /\ buf' = ensureWritableBytes(buf, len)
  /\ UNCHANGED call

Next ==
  \/ \E data \in Strings : CallAppend(data) \/ CallReadFd(data) \/ CallPrepend(data)
  \/ \E len \in 0..MaxLen : CallRetrieve(len) \/ CallEnsureWritableBytes(len)
  \/ CallRetrieveAll

vars == <<buf, call>>

Spec == Init /\ [][Next]_vars

-----------------------------------------------------------------------------
(* Properties.                                                             *)

\* "0 <= readerIndex <= writerIndex <= size".
IndicesOrdered ==
  /\ buf.readerIndex <= buf.writerIndex
  /\ buf.writerIndex <= size(buf)

\* In every state makeSpace can be asked for any length: the asserts hold, that
\* bytes are only moved towards the front and that there is room afterwards.
SpaceIsMade ==
  \A len \in 0..MaxLen :
    LET b == ensureWritableBytes(buf, len)
    IN  /\ writableBytes(buf) < len /\ ~MustGrow(buf, len)
             => kCheapPrepend < buf.readerIndex
        /\ b.writerIndex + len <= size(b)
        /\ b.readerIndex <= b.writerIndex

\* The vector grows only when the bytes, the new ones and the header do not fit
\* into it: a connection that is read as fast as it is filled never grows.
GrowsOnlyWhenFull ==
  [][size(buf') > size(buf) =>
       size(buf) < size(buf') - buf.readerIndex + kCheapPrepend]_vars

\* The buffer is a queue of bytes: what a caller is given is what was put in, and
\* no operation loses, repeats or reorders a byte, whatever was moved or resized
\* before.
Queue == INSTANCE ByteQueue WITH content <- Content(buf)

ImplementsByteQueue == Queue!Spec
=============================================================================
