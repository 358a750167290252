------------------------- MODULE TcpConnectionProofs -------------------------
(***************************************************************************)
(* Proofs about TcpConnection, for any number of threads, messages and     *)
(* bytes: the stream of bytes is kept intact, the interest in writing      *)
(* follows the output buffer, and the way out implements MessageStream.    *)
(***************************************************************************)
EXTENDS TcpConnection, SequenceTheorems, TLAPS

\* A message, whole or in two parts, is a string of bytes.
LEMMA MessageProperties ==
  ASSUME NEW k \in 1..MaxMessages
  PROVE  Message(k) \in Seq(Bytes)
<1>1. MessageSize \in Nat
  BY SizesAssumption
<1>2. Message(k) \in [1..MessageSize -> Bytes]
  BY DEF Message, Bytes
<1> QED BY <1>1, <1>2, SeqDef

LEMMA SplitProperties ==
  ASSUME NEW s \in Seq(Bytes), NEW n \in 0..Len(s)
  PROVE  /\ SubSeq(s, 1, n) \in Seq(Bytes)
         /\ SubSeq(s, n + 1, Len(s)) \in Seq(Bytes)
         /\ s = SubSeq(s, 1, n) \o SubSeq(s, n + 1, Len(s))
         /\ Len(SubSeq(s, n + 1, Len(s))) = Len(s) - n
<1>1. Len(s) \in Nat /\ n \in Nat /\ n <= Len(s)
  OBVIOUS
<1>2. /\ 1 \in 1..Len(s) + 1
      /\ n \in 1 - 1..Len(s)
      /\ Len(s) \in n..Len(s)
  BY <1>1
<1>3. SubSeq(s, 1, n) \o SubSeq(s, n + 1, Len(s)) = SubSeq(s, 1, Len(s))
  BY <1>2, ConcatAdjacentSubSeq, Zenon
<1>4. SubSeq(s, 1, Len(s)) = s
  BY SubSeqFull
<1> DEFINE m == n + 1
           l == Len(s)
<1>5. /\ SubSeq(s, m, l) \in Seq(Bytes)
      /\ Len(SubSeq(s, m, l)) = IF m <= l THEN l - m + 1 ELSE 0
  <2>1. m \in Int /\ l \in Int /\ \A i \in m..l : s[i] \in Bytes
    BY <1>1
  <2> HIDE DEF m, l
  <2> QED BY <2>1, SubSeqProperties
<1>6. SubSeq(s, 1, n) \in Seq(Bytes)
  <2>1. 1 \in Int /\ n \in Int /\ \A i \in 1..n : s[i] \in Bytes
    BY <1>1
  <2> QED BY <2>1, SubSeqProperties
<1>7. Len(SubSeq(s, n + 1, Len(s))) = Len(s) - n
  BY <1>1, <1>5
<1> QED BY <1>3, <1>4, <1>5, <1>6, <1>7

LEMMA Associative ==
  \A s, t, u \in Seq(Bytes) : (s \o t) \o u = s \o (t \o u)
BY ConcatAssociative, SMTT(60)

LEMMA EmptyProperties ==
  /\ <<>> \in Seq(Bytes) /\ <<>> \in Seq(Functor)
  /\ \A s \in Seq(Bytes) : s \o <<>> = s /\ <<>> \o s = s
BY ConcatEmptySeq

\* What joins the stream in two parts joins it in one, if nothing waits or the first
\* part is empty.
LEMMA JoinedParts ==
  ASSUME wire \in Seq(Bytes), outputBuffer \in Seq(Bytes),
         NEW first \in Seq(Bytes), NEW rest \in Seq(Bytes),
         outputBuffer = <<>> \/ first = <<>>
  PROVE  (wire \o outputBuffer) \o (first \o rest) = (wire \o first) \o (outputBuffer \o rest)
<1>1. CASE outputBuffer = <<>>
  <2>1. wire \o outputBuffer = wire /\ outputBuffer \o rest = rest
    BY <1>1, EmptyProperties
  <2>2. wire \o (first \o rest) = (wire \o first) \o rest
    BY Associative, ZenonT(60)
  <2> QED BY <2>1, <2>2, Zenon
<1>2. CASE first = <<>>
  <2>1. first \o rest = rest /\ wire \o first = wire
    BY <1>2, EmptyProperties
  <2>2. (wire \o outputBuffer) \o rest = wire \o (outputBuffer \o rest)
    BY Associative, ZenonT(60)
  <2> QED BY <2>1, <2>2, Zenon
<1> QED BY <1>1, <1>2

-----------------------------------------------------------------------------

\* The inductive invariant: the three that are checked imply each other's steps.
IInv == TypeOK /\ StreamIntact /\ WritingWhilePending

\* The queue of functors keeps its type.
LEMMA QueueTypes ==
  ASSUME TypeOK, QueueWriteComplete \/ UNCHANGED queue
  PROVE  pendingFunctors' \in Seq(Functor) /\ woken' \in BOOLEAN
<1>1. pendingFunctors \in Seq(Functor) /\ woken \in BOOLEAN /\ calling \in BOOLEAN
  BY DEF TypeOK
<1>2. [op |-> "writeComplete"] \in Functor
  BY DEF Functor
<1>3. CASE QueueWriteComplete
  <2>1. pendingFunctors' \in Seq(Functor)
    BY <1>1, <1>2, <1>3, AppendProperties DEF QueueWriteComplete
  <2>2. woken' \in BOOLEAN
    BY <1>1, <1>3, Zenon DEF QueueWriteComplete
  <2> QED BY <2>1, <2>2
<1>4. CASE UNCHANGED queue
  BY <1>1, <1>4 DEF queue
<1> QED BY <1>3, <1>4

\* sendInLoop, from wherever it is called.
LEMMA SendInLoopStep ==
  ASSUME IInv, alive, NEW message \in Seq(Bytes), sendInLoop(message)
  PROVE  /\ wire' \in Seq(Bytes)
         /\ outputBuffer' \in Seq(Bytes)
         /\ accepted' \in Seq(Bytes)
         /\ events' \subseteq {"read", "write"}
         /\ pendingFunctors' \in Seq(Functor)
         /\ woken' \in BOOLEAN
         /\ StreamIntact'
         /\ WritingWhilePending'
<1> USE DEF IInv
<1>1. PICK n \in TakenDirectly(message) :
        /\ wire' = wire \o SubSeq(message, 1, n)
        /\ outputBuffer' = outputBuffer \o SubSeq(message, n + 1, Len(message))
        /\ events' = WritingEnabled(SubSeq(message, n + 1, Len(message)))
        /\ IF SubSeq(message, n + 1, Len(message)) = <<>>
           THEN QueueWriteComplete ELSE UNCHANGED queue
  BY DEF sendInLoop
<1>2. n \in 0..Len(message) /\ (n = 0 \/ WritesDirectly)
  BY <1>1 DEF TakenDirectly
<1> DEFINE first == SubSeq(message, 1, n)
           rest  == SubSeq(message, n + 1, Len(message))
<1>3. /\ first \in Seq(Bytes) /\ rest \in Seq(Bytes)
      /\ message = first \o rest
      /\ Len(rest) = Len(message) - n
  BY <1>2, SplitProperties
<1>4. /\ wire \in Seq(Bytes) /\ outputBuffer \in Seq(Bytes) /\ accepted \in Seq(Bytes)
      /\ pendingFunctors \in Seq(Functor) /\ woken \in BOOLEAN /\ calling \in BOOLEAN
      /\ events \subseteq {"read", "write"}
      /\ accepted = wire \o outputBuffer
      /\ isWriting <=> outputBuffer # <<>>
  BY DEF TypeOK, StreamIntact, WritingWhilePending
<1>5. accepted' = accepted \o message /\ alive' = alive
  BY DEF sendInLoop
<1>6. n = 0 => first = <<>>
  BY SubSeqEmpty
<1> HIDE DEF first, rest
<1>7. /\ wire' = wire \o first
      /\ outputBuffer' = outputBuffer \o rest
      /\ events' = WritingEnabled(rest)
      /\ IF rest = <<>> THEN QueueWriteComplete ELSE UNCHANGED queue
  BY <1>1 DEF first, rest
<1>8. /\ wire' \in Seq(Bytes) /\ outputBuffer' \in Seq(Bytes) /\ accepted' \in Seq(Bytes)
      /\ events' \subseteq {"read", "write"}
  BY <1>3, <1>4, <1>5, <1>7 DEF WritingEnabled
<1>9. pendingFunctors' \in Seq(Functor) /\ woken' \in BOOLEAN
  BY <1>7, QueueTypes
<1>10. StreamIntact'
  <2>1. outputBuffer = <<>> \/ first = <<>>
    BY <1>2, <1>6 DEF WritesDirectly
  <2>2. (wire \o outputBuffer) \o (first \o rest) = (wire \o first) \o (outputBuffer \o rest)
    <3>1. /\ wire \in Seq(Bytes) /\ outputBuffer \in Seq(Bytes)
          /\ first \in Seq(Bytes) /\ rest \in Seq(Bytes)
      BY <1>3, <1>4
    <3> QED BY <2>1, <3>1, JoinedParts, ZenonT(60)
  <2> QED BY <1>3, <1>4, <1>5, <1>7, <2>2 DEF StreamIntact
<1>11. WritingWhilePending'
  <2>1. CASE rest = <<>>
    <3>1. outputBuffer' = outputBuffer /\ events' = events
      BY <1>4, <1>7, <2>1, EmptyProperties DEF WritingEnabled
    <3> QED BY <1>4, <3>1 DEF WritingWhilePending, isWriting
  <2>2. CASE rest # <<>>
    <3>1. "write" \in events'
      BY <1>7, <2>2 DEF WritingEnabled
    <3>2. outputBuffer' # <<>>
      BY <1>3, <1>4, <1>7, <2>2, ConcatEqualIffEmpty
    <3> QED BY <3>1, <3>2 DEF WritingWhilePending, isWriting
  <2> QED BY <2>1, <2>2
<1> QED BY <1>8, <1>9, <1>10, <1>11

\* handleWrite when some bytes were taken.
LEMMA WrittenStep ==
  ASSUME IInv, isWriting, NEW n \in TakenFromBuffer, n > 0, Written(n), UNCHANGED alive,
         UNCHANGED accepted
  PROVE  /\ wire' \in Seq(Bytes)
         /\ outputBuffer' \in Seq(Bytes)
         /\ events' \subseteq {"read", "write"}
         /\ pendingFunctors' \in Seq(Functor)
         /\ woken' \in BOOLEAN
         /\ finSent' \in BOOLEAN
         /\ finSent' # finSent => outputBuffer' = <<>>
         /\ StreamIntact'
         /\ WritingWhilePending'
<1> DEFINE first == SubSeq(outputBuffer, 1, n)
           rest  == Remaining(n)
<1>1. /\ wire \in Seq(Bytes) /\ outputBuffer \in Seq(Bytes)
      /\ pendingFunctors \in Seq(Functor) /\ woken \in BOOLEAN /\ calling \in BOOLEAN
      /\ events \subseteq {"read", "write"} /\ finSent \in BOOLEAN
      /\ accepted = wire \o outputBuffer
  BY DEF IInv, TypeOK, StreamIntact
<1>2. n \in 0..Len(outputBuffer)
  BY <1>1 DEF TakenFromBuffer
<1>3. /\ first \in Seq(Bytes) /\ rest \in Seq(Bytes)
      /\ outputBuffer = first \o rest
  BY <1>1, <1>2, SplitProperties DEF Remaining
<1>4. /\ wire' = wire \o first
      /\ outputBuffer' = rest
      /\ IF rest = <<>>
         THEN /\ events' = events \ {"write"}
              /\ QueueWriteComplete
              /\ finSent' = (finSent \/ FinWaits)
         ELSE UNCHANGED <<events, queue, finSent>>
  BY DEF Written
<1> HIDE DEF first, rest
<1>5. wire' \in Seq(Bytes) /\ outputBuffer' \in Seq(Bytes)
  BY <1>1, <1>3, <1>4
<1>6. events' \subseteq {"read", "write"} /\ finSent' \in BOOLEAN
  BY <1>1, <1>4 DEF FinWaits
<1>7. pendingFunctors' \in Seq(Functor) /\ woken' \in BOOLEAN
  <2>1. QueueWriteComplete \/ UNCHANGED queue
    BY <1>4 DEF queue
  <2> QED BY <2>1, QueueTypes DEF IInv
<1>8. finSent' # finSent => outputBuffer' = <<>>
  BY <1>4
<1>9. StreamIntact'
  <2>1. (wire \o first) \o rest = wire \o (first \o rest)
    BY <1>1, <1>3, Associative, ZenonT(60)
  <2> QED BY <1>1, <1>3, <1>4, <2>1 DEF StreamIntact
<1>10. WritingWhilePending'
  BY <1>4 DEF WritingWhilePending, isWriting
<1> QED BY <1>5, <1>6, <1>7, <1>8, <1>9, <1>10

\* A FIN is only sent when the interest in writing is off.
LEMMA ShutdownInLoopStep ==
  ASSUME IInv, alive, shutdownInLoop
  PROVE  finSent' \in BOOLEAN /\ (finSent' # finSent => outputBuffer = <<>>)
<1>1. finSent \in BOOLEAN /\ (FinDue => outputBuffer = <<>>)
  BY DEF IInv, TypeOK, WritingWhilePending, FinDue
<1>2. finSent' \in BOOLEAN
  BY <1>1, Zenon DEF shutdownInLoop, FinDue
<1>3. finSent' # finSent => FinDue
  BY <1>1, Zenon DEF shutdownInLoop, FinDue
<1> QED BY <1>1, <1>2, <1>3

\* The record of what another thread is doing keeps its type.
LEMMA CallerTypes ==
  ASSUME TypeOK, NEW t \in Callers, NEW c \in Call,
         caller' = [caller EXCEPT ![t] = c]
  PROVE  caller' \in [Callers -> Call]
BY DEF TypeOK

LEMMA PushTypes ==
  ASSUME TypeOK, NEW functor \in Functor, Push(functor)
  PROVE  pendingFunctors' \in Seq(Functor) /\ woken' \in BOOLEAN
BY AppendProperties DEF TypeOK, Push

\* What the two properties of the stream depend on.
stream == <<wire, outputBuffer, accepted, events, alive>>

\* The steps that touch neither the bytes nor the interest.
LEMMA StreamUnchanged ==
  ASSUME IInv, UNCHANGED stream
  PROVE  StreamIntact' /\ WritingWhilePending'
BY DEF IInv, stream, StreamIntact, WritingWhilePending, isWriting

\* Every step keeps the invariant and sends a FIN only behind the last byte.
LEMMA NextStep ==
  ASSUME IInv, Next
  PROVE  IInv' /\ (finSent' /\ ~finSent => outputBuffer' = <<>>)
<1> USE DEF IInv
<1>1. CASE connectEstablished
  <2>1. TypeOK'
    BY <1>1 DEF TypeOK, connectEstablished, States, dispatch, queue, socket
  <2>2. StreamIntact' /\ WritingWhilePending'
    BY <1>1 DEF connectEstablished, StreamIntact, WritingWhilePending, isWriting, socket
  <2> QED BY <1>1, <2>1, <2>2 DEF connectEstablished, socket
<1>2. CASE send
  <2>1. nextMessage \in 1..MaxMessages /\ alive
    BY <1>2, SizesAssumption DEF send, InUserCode, TypeOK
  <2>2. /\ Message(nextMessage) \in Seq(Bytes)
        /\ sendInLoop(Message(nextMessage))
    BY <1>2, <2>1, MessageProperties DEF send
  <2>3. /\ wire' \in Seq(Bytes) /\ outputBuffer' \in Seq(Bytes)
        /\ accepted' \in Seq(Bytes) /\ events' \subseteq {"read", "write"}
        /\ pendingFunctors' \in Seq(Functor) /\ woken' \in BOOLEAN
        /\ StreamIntact' /\ WritingWhilePending'
    BY <2>1, <2>2, SendInLoopStep
  <2>4. UNCHANGED <<state, alive, peer, finSent>>
    BY <2>2 DEF sendInLoop
  <2>5. nextMessage' \in 1..MaxMessages + 1 /\ UNCHANGED <<dispatch, caller, shutter>>
    BY <1>2, <2>1, SizesAssumption DEF send
  <2>6. TypeOK'
    BY <2>3, <2>4, <2>5 DEF TypeOK, dispatch
  <2> QED BY <2>3, <2>4, <2>6
<1>3. CASE shutdown
  <2>1. alive /\ finSent' \in BOOLEAN /\ (finSent' # finSent => outputBuffer = <<>>)
    BY <1>3, ShutdownInLoopStep DEF shutdown, InUserCode
  <2>2. state' \in States /\ shutter' \in Threads \cup {None}
    BY <1>3 DEF shutdown, States, TypeOK, FirstShutter, Threads
  <2>3. TypeOK'
    BY <1>3, <2>1, <2>2 DEF shutdown, TypeOK, dispatch, queue
  <2>4. UNCHANGED stream
    BY <1>3 DEF shutdown, stream
  <2>5. StreamIntact' /\ WritingWhilePending'
    BY <2>4, StreamUnchanged
  <2> QED BY <2>1, <2>3, <2>4, <2>5 DEF stream
<1>4. ASSUME NEW t \in Callers, SendRemotely(t)
      PROVE  IInv' /\ UNCHANGED finSent
  <2>1. nextMessage \in 1..MaxMessages /\ nextMessage' \in 1..MaxMessages + 1
    BY <1>4, SizesAssumption DEF SendRemotely, TypeOK
  <2>2. caller' \in [Callers -> Call]
    <3>1. [at |-> "send", message |-> nextMessage] \in Call
      BY <2>1 DEF Call
    <3> QED BY <1>4, <3>1, CallerTypes DEF SendRemotely
  <2>3. TypeOK'
    BY <1>4, <2>1, <2>2 DEF SendRemotely, TypeOK, connection, dispatch, queue, socket
  <2>4. UNCHANGED stream /\ UNCHANGED finSent
    BY <1>4 DEF SendRemotely, stream, connection, socket
  <2> QED BY <2>3, <2>4, StreamUnchanged
<1>5. ASSUME NEW t \in Callers, ShutdownRemotely(t)
      PROVE  IInv' /\ UNCHANGED finSent
  <2>1. caller' \in [Callers -> Call]
    <3>1. [at |-> "shutdown", message |-> 0] \in Call
      BY DEF Call
    <3> QED BY <1>5, <3>1, CallerTypes DEF ShutdownRemotely
  <2>2. TypeOK'
    BY <1>5, <2>1 DEF ShutdownRemotely, TypeOK, connection, dispatch, queue, socket
  <2>3. UNCHANGED stream /\ UNCHANGED finSent
    BY <1>5 DEF ShutdownRemotely, stream, connection, socket
  <2> QED BY <2>2, <2>3, StreamUnchanged
<1>6. ASSUME NEW t \in Callers, PushSend(t)
      PROVE  IInv' /\ UNCHANGED finSent
  <2>1. caller[t] \in Call /\ caller[t].at = "send"
    BY <1>6 DEF PushSend, TypeOK
  <2>2. [op |-> "sendInLoop", by |-> t, message |-> caller[t].message] \in Functor
    BY <2>1 DEF Functor, Call
  <2>3. pendingFunctors' \in Seq(Functor) /\ woken' \in BOOLEAN
    BY <1>6, <2>2, PushTypes DEF PushSend
  <2>4. caller' \in [Callers -> Call]
    <3>1. Outside \in Call
      BY DEF Call, Outside
    <3> QED BY <1>6, <3>1, CallerTypes DEF PushSend
  <2>5. TypeOK'
    BY <1>6, <2>3, <2>4 DEF PushSend, TypeOK, connection, dispatch, socket
  <2>6. UNCHANGED stream /\ UNCHANGED finSent
    BY <1>6 DEF PushSend, stream, connection, socket
  <2> QED BY <2>5, <2>6, StreamUnchanged
<1>7. ASSUME NEW t \in Callers, SetDisconnecting(t)
      PROVE  IInv' /\ UNCHANGED finSent
  <2>1. caller' \in [Callers -> Call]
    <3>1. [at |-> "shutdownInLoop", message |-> 0] \in Call
      BY DEF Call
    <3> QED BY <1>7, <3>1, CallerTypes DEF SetDisconnecting
  <2>2. state' \in States /\ shutter' \in Threads \cup {None}
    BY <1>7 DEF SetDisconnecting, States, TypeOK, FirstShutter, Threads
  <2>3. TypeOK'
    BY <1>7, <2>1, <2>2 DEF SetDisconnecting, TypeOK, dispatch, queue, socket
  <2>4. UNCHANGED stream /\ UNCHANGED finSent
    BY <1>7 DEF SetDisconnecting, stream, socket
  <2> QED BY <2>3, <2>4, StreamUnchanged
<1>8. ASSUME NEW t \in Callers, PushShutdown(t)
      PROVE  IInv' /\ UNCHANGED finSent
  <2>1. [op |-> "shutdownInLoop"] \in Functor
    BY DEF Functor
  <2>2. pendingFunctors' \in Seq(Functor) /\ woken' \in BOOLEAN
    BY <1>8, <2>1, PushTypes DEF PushShutdown
  <2>3. caller' \in [Callers -> Call]
    <3>1. Outside \in Call
      BY DEF Call, Outside
    <3> QED BY <1>8, <3>1, CallerTypes DEF PushShutdown
  <2>4. TypeOK'
    BY <1>8, <2>2, <2>3 DEF PushShutdown, TypeOK, connection, dispatch, socket
  <2>5. UNCHANGED stream /\ UNCHANGED finSent
    BY <1>8 DEF PushShutdown, stream, connection, socket
  <2> QED BY <2>4, <2>5, StreamUnchanged
<1>9. CASE Poll
  <2>1. TypeOK'
    BY <1>9 DEF Poll, TypeOK, connection, queue, socket
  <2>2. UNCHANGED stream /\ UNCHANGED finSent
    BY <1>9 DEF Poll, stream, connection, socket
  <2> QED BY <2>1, <2>2, StreamUnchanged
<1>10. CASE HandleWakeup
  <2>1. TypeOK'
    <3>1. functors' \in Seq(Functor) /\ pendingFunctors' \in Seq(Functor)
      BY <1>10, EmptyProperties DEF HandleWakeup, TypeOK
    <3> QED BY <1>10, <3>1 DEF HandleWakeup, TypeOK, connection, socket
  <2>2. UNCHANGED stream /\ UNCHANGED finSent
    BY <1>10 DEF HandleWakeup, stream, connection, socket
  <2> QED BY <2>1, <2>2, StreamUnchanged
<1>11. CASE CallFunctor
  <2> DEFINE functor == Head(functors)
  <2>1. functor \in Functor /\ functors' \in Seq(Functor) /\ calling
    BY <1>11, HeadTailProperties DEF CallFunctor, TypeOK
  <2>2. UNCHANGED <<revents, handling, calling, caller, nextMessage, shutter>>
    BY <1>11 DEF CallFunctor
  <2> HIDE DEF functor
  <2>3. CASE functor.op = "sendInLoop" /\ alive /\ sendInLoop(Message(functor.message))
    <3>1. Message(functor.message) \in Seq(Bytes)
      BY <2>1, <2>3, MessageProperties DEF Functor
    <3>2. /\ wire' \in Seq(Bytes) /\ outputBuffer' \in Seq(Bytes)
          /\ accepted' \in Seq(Bytes) /\ events' \subseteq {"read", "write"}
          /\ pendingFunctors' \in Seq(Functor) /\ woken' \in BOOLEAN
          /\ StreamIntact' /\ WritingWhilePending'
      BY <2>3, <3>1, SendInLoopStep
    <3>3. UNCHANGED <<state, alive, peer, finSent>>
      BY <2>3 DEF sendInLoop
    <3>4. TypeOK'
      BY <2>1, <2>2, <3>2, <3>3 DEF TypeOK
    <3> QED BY <3>2, <3>3, <3>4
  <2>4. CASE /\ alive /\ shutdownInLoop
             /\ UNCHANGED <<connection, queue, peer, wire, accepted>>
    <3>1. finSent' \in BOOLEAN /\ (finSent' # finSent => outputBuffer = <<>>)
      BY <2>4, ShutdownInLoopStep
    <3>2. TypeOK'
      BY <2>1, <2>2, <2>4, <3>1 DEF TypeOK, connection, queue
    <3>3. UNCHANGED stream
      BY <2>4 DEF stream, connection
    <3> QED BY <3>1, <3>2, <3>3, StreamUnchanged DEF stream
  <2>5. CASE UNCHANGED <<connection, queue, socket, accepted>>
    <3>1. TypeOK'
      BY <2>1, <2>2, <2>5 DEF TypeOK, connection, queue, socket
    <3>2. UNCHANGED stream /\ UNCHANGED finSent
      BY <2>5 DEF stream, connection, socket
    <3> QED BY <3>1, <3>2, StreamUnchanged
  <2> QED BY <1>11, <2>3, <2>4, <2>5 DEF CallFunctor, functor
<1>12. CASE EndFunctors
  <2>1. TypeOK'
    BY <1>12 DEF EndFunctors, TypeOK, connection, queue, socket
  <2>2. UNCHANGED stream /\ UNCHANGED finSent
    BY <1>12 DEF EndFunctors, stream, connection, socket
  <2> QED BY <2>1, <2>2, StreamUnchanged
<1>13. CASE HandleWrite
  <2>1. /\ revents' \subseteq {"wakeup", "in", "out"} /\ handling' \in BOOLEAN
        /\ UNCHANGED <<state, alive, functors, calling, caller, peer, nextMessage,
                       accepted, shutter>>
    BY <1>13 DEF HandleWrite, TypeOK
  <2>2. CASE isWriting /\ \E n \in TakenFromBuffer : n > 0 /\ Written(n)
    <3>1. /\ wire' \in Seq(Bytes) /\ outputBuffer' \in Seq(Bytes)
          /\ events' \subseteq {"read", "write"}
          /\ pendingFunctors' \in Seq(Functor) /\ woken' \in BOOLEAN
          /\ finSent' \in BOOLEAN
          /\ finSent' # finSent => outputBuffer' = <<>>
          /\ StreamIntact' /\ WritingWhilePending'
      BY <2>1, <2>2, WrittenStep
    <3>2. TypeOK'
      BY <2>1, <3>1 DEF TypeOK
    <3> QED BY <3>1, <3>2
  <2>3. CASE UNCHANGED <<events, outputBuffer, queue, wire, finSent>>
    <3>1. TypeOK'
      BY <2>1, <2>3 DEF TypeOK, queue
    <3>2. UNCHANGED stream
      BY <2>1, <2>3 DEF stream
    <3> QED BY <2>3, <3>1, <3>2, StreamUnchanged
  <2> QED BY <1>13, <2>2, <2>3 DEF HandleWrite
<1>14. CASE HandleRead
  <2>1. UNCHANGED <<outputBuffer, functors, calling, queue, caller, wire, finSent,
                    nextMessage, accepted, shutter>>
        /\ revents' = {} /\ handling' = FALSE
    BY <1>14 DEF HandleRead
  <2>2. \/ UNCHANGED <<state, events, alive>> /\ peer' \in {peer, "reset"}
        \/ handleClose /\ UNCHANGED peer
    BY <1>14 DEF HandleRead
  <2>3. TypeOK'
    BY <2>1, <2>2 DEF TypeOK, queue, handleClose, connectDestroyed, States
  <2>4. StreamIntact' /\ WritingWhilePending'
    BY <2>1, <2>2
    DEF StreamIntact, WritingWhilePending, isWriting, handleClose, connectDestroyed
  <2> QED BY <2>1, <2>3, <2>4
<1>15. CASE PeerCloses
  <2>1. TypeOK'
    BY <1>15 DEF PeerCloses, TypeOK, connection, dispatch, queue
  <2>2. UNCHANGED stream /\ UNCHANGED finSent
    BY <1>15 DEF PeerCloses, stream, connection
  <2> QED BY <2>1, <2>2, StreamUnchanged
<1>16. CASE ownerDestroys
  <2>1. /\ alive /\ shutdownAll /\ connectDestroyed
        /\ UNCHANGED <<outputBuffer, dispatch, queue, caller, peer, wire, nextMessage,
                       accepted, shutter>>
    BY <1>16 DEF ownerDestroys
  <2>2. finSent' \in BOOLEAN /\ (finSent' # finSent => outputBuffer = <<>>)
    <3>1. CASE shutdownInLoop
      BY <2>1, <3>1, ShutdownInLoopStep
    <3>2. CASE UNCHANGED finSent
      BY <3>2 DEF TypeOK
    <3> QED BY <2>1, <3>1, <3>2 DEF shutdownAll
  <2>3. TypeOK'
    BY <2>1, <2>2 DEF TypeOK, dispatch, queue, connectDestroyed, States
  <2>4. StreamIntact' /\ WritingWhilePending'
    BY <2>1 DEF StreamIntact, WritingWhilePending, isWriting, connectDestroyed
  <2> QED BY <2>1, <2>2, <2>3, <2>4
<1> QED
  BY <1>1, <1>2, <1>3, <1>4, <1>5, <1>6, <1>7, <1>8, <1>9, <1>10, <1>11, <1>12, <1>13,
     <1>14, <1>15, <1>16
  DEF Next, LoopStep, CallerStep

LEMMA Invariance == Spec => []IInv
<1>1. Init => IInv
  <2> SUFFICES ASSUME Init PROVE IInv
    OBVIOUS
  <2>1. TypeOK
    <3>1. caller \in [Callers -> Call]
      BY DEF Init, Call, Outside
    <3>2. /\ outputBuffer \in Seq(Bytes) /\ wire \in Seq(Bytes)
          /\ accepted \in Seq(Bytes)
          /\ pendingFunctors \in Seq(Functor) /\ functors \in Seq(Functor)
      BY EmptyProperties DEF Init
    <3>3. nextMessage \in 1..MaxMessages + 1
      BY SizesAssumption DEF Init
    <3> QED BY <3>1, <3>2, <3>3 DEF Init, TypeOK, States
  <2>2. StreamIntact /\ WritingWhilePending
    BY EmptyProperties DEF Init, StreamIntact, WritingWhilePending, isWriting
  <2> QED BY <2>1, <2>2 DEF IInv
<1>2. IInv /\ [Next]_vars => IInv'
  <2>1. ASSUME IInv, UNCHANGED vars
        PROVE  IInv'
    <3>1. TypeOK'
      BY <2>1 DEF IInv, TypeOK, vars, connection, dispatch, queue, socket
    <3>2. UNCHANGED stream
      BY <2>1 DEF vars, stream, connection, socket
    <3> QED BY <2>1, <3>1, <3>2, StreamUnchanged DEF IInv
  <2> QED BY <2>1, NextStep
<1> QED BY <1>1, <1>2, PTL DEF Spec

\* The variables keep their types, and functors are only called in a batch.
THEOREM ConnectionTypeInvariance == Spec => []TypeOK
<1>1. IInv => TypeOK
  BY DEF IInv
<1> QED BY <1>1, Invariance, PTL

\* What sendInLoop was given is what the kernel was given and what waits, in
\* order: partial writes, direct writes and the buffer lose and repeat nothing.
THEOREM StreamIntactTheorem == Spec => []StreamIntact
<1>1. IInv => StreamIntact
  BY DEF IInv
<1> QED BY <1>1, Invariance, PTL

\* POLLOUT is asked for exactly while bytes wait.
THEOREM WritingWhilePendingTheorem == Spec => []WritingWhilePending
<1>1. IInv => WritingWhilePending
  BY DEF IInv
<1> QED BY <1>1, Invariance, PTL

\* The FIN goes out behind the last byte that was accepted before it.
THEOREM FinAfterBytesTheorem == Spec => FinAfterBytes
<1>1. IInv /\ [Next]_vars => [finSent' /\ ~finSent => outputBuffer' = <<>>]_vars
  BY NextStep
<1> QED BY <1>1, Invariance, PTL DEF Spec, FinAfterBytes

-----------------------------------------------------------------------------
(* The refinement: the messages of the queue of functors.                  *)

\* The messages that the functors send for one thread stand in the order of their
\* numbers, which is that of the calls.
Ordered(q) ==
  \A i, j \in DOMAIN q, t \in Callers :
    i < j /\ SendsFor(q[i], t) /\ SendsFor(q[j], t) => q[i].message < q[j].message

\* The message of one functor, if it sends for t.
MessageOf(functor, t) == IF SendsFor(functor, t) THEN {functor.message} ELSE {}

LEMMA AppendedMessages ==
  ASSUME NEW q \in Seq(Functor), NEW f \in Functor, NEW t
  PROVE  MessagesOf(Append(q, f), t) = MessagesOf(q, t) \cup MessageOf(f, t)
<1> DEFINE r == Append(q, f)
<1>1. /\ Len(q) \in Nat /\ DOMAIN q = 1..Len(q)
      /\ Len(r) = Len(q) + 1 /\ DOMAIN r = 1..Len(q) + 1
      /\ \A i \in 1..Len(q) : r[i] = q[i]
      /\ r[Len(q) + 1] = f
  BY AppendProperties
<1> HIDE DEF r
<1>2. ASSUME NEW m \in MessagesOf(r, t)
      PROVE  m \in MessagesOf(q, t) \cup MessageOf(f, t)
  <2>1. PICK i \in DOMAIN r : SendsFor(r[i], t) /\ m = r[i].message
    BY <1>2 DEF MessagesOf
  <2>2. CASE i = Len(q) + 1
    BY <1>1, <2>1, <2>2 DEF MessageOf
  <2>3. CASE i # Len(q) + 1
    <3>1. i \in DOMAIN q /\ r[i] = q[i]
      BY <1>1, <2>3
    <3> QED BY <2>1, <3>1 DEF MessagesOf
  <2> QED BY <2>2, <2>3
<1>3. ASSUME NEW m \in MessagesOf(q, t)
      PROVE  m \in MessagesOf(r, t)
  <2>1. PICK i \in DOMAIN q : SendsFor(q[i], t) /\ m = q[i].message
    BY <1>3 DEF MessagesOf
  <2>2. i \in DOMAIN r /\ r[i] = q[i]
    BY <1>1
  <2> QED BY <2>1, <2>2 DEF MessagesOf
<1>4. ASSUME NEW m \in MessageOf(f, t)
      PROVE  m \in MessagesOf(r, t)
  <2>1. SendsFor(f, t) /\ m = f.message
    BY <1>4 DEF MessageOf
  <2>2. Len(q) + 1 \in DOMAIN r
    BY <1>1
  <2> QED BY <1>1, <2>1, <2>2 DEF MessagesOf
<1> QED BY <1>2, <1>3, <1>4 DEF r

LEMMA AppendedOrdered ==
  ASSUME NEW q \in Seq(Functor), NEW f \in Functor, Ordered(q),
         \A t \in Callers : SendsFor(f, t) => \A m \in MessagesOf(q, t) : m < f.message
  PROVE  Ordered(Append(q, f))
<1> DEFINE r == Append(q, f)
<1>1. /\ Len(q) \in Nat /\ DOMAIN q = 1..Len(q)
      /\ Len(r) = Len(q) + 1 /\ DOMAIN r = 1..Len(q) + 1
      /\ \A i \in 1..Len(q) : r[i] = q[i]
      /\ r[Len(q) + 1] = f
  BY AppendProperties
<1> HIDE DEF r
<1>2. SUFFICES ASSUME NEW i \in DOMAIN r, NEW j \in DOMAIN r, NEW t \in Callers,
                      i < j, SendsFor(r[i], t), SendsFor(r[j], t)
               PROVE  r[i].message < r[j].message
  BY DEF Ordered, r
<1>3. i \in DOMAIN q /\ r[i] = q[i]
  BY <1>1, <1>2
<1>4. CASE j = Len(q) + 1
  <2>1. q[i].message \in MessagesOf(q, t)
    BY <1>2, <1>3 DEF MessagesOf
  <2> QED BY <1>1, <1>2, <1>3, <1>4, <2>1
<1>5. CASE j # Len(q) + 1
  <2>1. j \in DOMAIN q /\ r[j] = q[j]
    BY <1>1, <1>5
  <2> QED BY <1>2, <1>3, <2>1 DEF Ordered
<1> QED BY <1>4, <1>5

\* When the first functor is called, its message leaves, and it was the first.
LEMMA HeadMessages ==
  ASSUME NEW q \in Seq(Functor), q # <<>>, Ordered(q), NEW t \in Callers
  PROVE  /\ MessagesOf(q, t) = MessagesOf(Tail(q), t) \cup MessageOf(Head(q), t)
         /\ SendsFor(Head(q), t) =>
              \A m \in MessagesOf(Tail(q), t) : Head(q).message < m
<1> DEFINE r == Tail(q)
<1>1. /\ Len(q) \in Nat /\ Len(q) > 0 /\ DOMAIN q = 1..Len(q)
      /\ DOMAIN r = 1..Len(q) - 1
      /\ \A i \in 1..Len(q) - 1 : r[i] = q[i + 1]
      /\ Head(q) = q[1]
  BY EmptySeq, HeadTailProperties, LenProperties
<1> HIDE DEF r
<1>2. ASSUME NEW m \in MessagesOf(r, t)
      PROVE  /\ m \in MessagesOf(q, t)
             /\ SendsFor(Head(q), t) => Head(q).message < m
  <2>1. PICK i \in DOMAIN r : SendsFor(r[i], t) /\ m = r[i].message
    BY <1>2 DEF MessagesOf
  <2>2. i + 1 \in DOMAIN q /\ 1 \in DOMAIN q /\ 1 < i + 1 /\ r[i] = q[i + 1]
    BY <1>1
  <2> QED BY <1>1, <2>1, <2>2 DEF MessagesOf, Ordered
<1>3. ASSUME NEW m \in MessageOf(Head(q), t)
      PROVE  m \in MessagesOf(q, t)
  <2>1. SendsFor(q[1], t) /\ m = q[1].message
    BY <1>1, <1>3 DEF MessageOf
  <2>2. 1 \in DOMAIN q
    BY <1>1
  <2> QED BY <2>1, <2>2 DEF MessagesOf
<1>4. ASSUME NEW m \in MessagesOf(q, t)
      PROVE  m \in MessagesOf(r, t) \cup MessageOf(Head(q), t)
  <2>1. PICK i \in DOMAIN q : SendsFor(q[i], t) /\ m = q[i].message
    BY <1>4 DEF MessagesOf
  <2>2. CASE i = 1
    BY <1>1, <2>1, <2>2 DEF MessageOf
  <2>3. CASE i # 1
    <3>1. i - 1 \in DOMAIN r /\ r[i - 1] = q[i]
      BY <1>1, <2>3
    <3> QED BY <2>1, <3>1 DEF MessagesOf
  <2> QED BY <2>2, <2>3
<1> QED BY <1>2, <1>3, <1>4 DEF r

LEMMA TailOrdered ==
  ASSUME NEW q \in Seq(Functor), q # <<>>, Ordered(q)
  PROVE  Ordered(Tail(q))
<1> DEFINE r == Tail(q)
<1>1. /\ Len(q) \in Nat /\ Len(q) > 0 /\ DOMAIN q = 1..Len(q)
      /\ DOMAIN r = 1..Len(q) - 1
      /\ \A i \in 1..Len(q) - 1 : r[i] = q[i + 1]
  BY EmptySeq, HeadTailProperties, LenProperties
<1> HIDE DEF r
<1>2. SUFFICES ASSUME NEW i \in DOMAIN r, NEW j \in DOMAIN r, NEW t \in Callers,
                      i < j, SendsFor(r[i], t), SendsFor(r[j], t)
               PROVE  r[i].message < r[j].message
  BY DEF Ordered, r
<1>3. /\ i + 1 \in DOMAIN q /\ j + 1 \in DOMAIN q /\ i + 1 < j + 1
      /\ r[i] = q[i + 1] /\ r[j] = q[j + 1]
  BY <1>1, <1>2
<1> QED BY <1>2, <1>3 DEF Ordered

\* The functor of a completed write sends for nobody.
LEMMA SilentFunctors ==
  ASSUME NEW f \in Functor, f.op # "sendInLoop", NEW t
  PROVE  MessageOf(f, t) = {} /\ ~SendsFor(f, t)
BY DEF MessageOf, SendsFor

-----------------------------------------------------------------------------
(* How the steps change the queue.                                         *)

LEMMA QueuedTypes ==
  ASSUME TypeOK
  PROVE  /\ functors \in Seq(Functor) /\ pendingFunctors \in Seq(Functor)
         /\ Queued \in Seq(Functor)
<1>1. functors \in Seq(Functor) /\ pendingFunctors \in Seq(Functor)
  BY DEF TypeOK
<1> QED BY <1>1, ConcatProperties DEF Queued

\* A push appends to the queue.
LEMMA QueuedAppend ==
  ASSUME TypeOK, NEW f \in Functor, UNCHANGED functors,
         pendingFunctors' = Append(pendingFunctors, f)
  PROVE  Queued' = Append(Queued, f)
<1>1. /\ functors \in Seq(Functor) /\ pendingFunctors \in Seq(Functor)
      /\ Queued \in Seq(Functor) /\ <<f>> \in Seq(Functor)
  BY QueuedTypes
<1>2. Append(pendingFunctors, f) = pendingFunctors \o <<f>>
  BY <1>1, AppendIsConcat
<1>3. Append(Queued, f) = Queued \o <<f>>
  BY <1>1, AppendIsConcat
<1>4. (functors \o pendingFunctors) \o <<f>> = functors \o (pendingFunctors \o <<f>>)
  BY <1>1, ConcatAssociative
<1> QED BY <1>2, <1>3, <1>4 DEF Queued

\* The batch begins with the first of the queue.
LEMMA QueuedTail ==
  ASSUME NEW s \in Seq(Functor), NEW u \in Seq(Functor), s # <<>>
  PROVE  /\ s \o u # <<>>
         /\ Head(s \o u) = Head(s)
         /\ Tail(s \o u) = Tail(s) \o u
<1>1. /\ Len(s) \in Nat /\ Len(s) > 0 /\ Len(u) \in Nat
      /\ Tail(s) \in Seq(Functor) /\ Len(Tail(s)) = Len(s) - 1
      /\ \A i \in 1..Len(s) - 1 : Tail(s)[i] = s[i + 1]
  BY EmptySeq, HeadTailProperties, LenProperties
<1>2. /\ s \o u \in Seq(Functor) /\ Len(s \o u) = Len(s) + Len(u)
      /\ \A i \in 1..Len(s) + Len(u) :
           (s \o u)[i] = IF i <= Len(s) THEN s[i] ELSE u[i - Len(s)]
  BY ConcatProperties
<1>3. s \o u # <<>>
  BY <1>1, <1>2
<1>4. Head(s \o u) = Head(s)
  BY <1>1, <1>2
<1>5. /\ Tail(s \o u) \in Seq(Functor)
      /\ Len(Tail(s \o u)) = Len(s) + Len(u) - 1
      /\ \A i \in 1..Len(s) + Len(u) - 1 : Tail(s \o u)[i] = (s \o u)[i + 1]
  BY <1>1, <1>2, <1>3, HeadTailProperties
<1>6. /\ Tail(s) \o u \in Seq(Functor)
      /\ Len(Tail(s) \o u) = Len(s) - 1 + Len(u)
      /\ \A i \in 1..Len(s) - 1 + Len(u) :
           (Tail(s) \o u)[i] =
             IF i <= Len(s) - 1 THEN Tail(s)[i] ELSE u[i - (Len(s) - 1)]
  BY <1>1, ConcatProperties
<1>7. \A i \in 1..Len(Tail(s \o u)) : Tail(s \o u)[i] = (Tail(s) \o u)[i]
  BY <1>1, <1>2, <1>5, <1>6
<1>8. Tail(s \o u) = Tail(s) \o u
  BY <1>1, <1>5, <1>6, <1>7, SeqEqual
<1> QED BY <1>3, <1>4, <1>8

-----------------------------------------------------------------------------
(* The invariant of the refinement.                                        *)

\* The messages of a thread that are on their way are numbered in the order in which
\* they will arrive: first those of the queue, then the one it has not pushed.
Numbered ==
  /\ Ordered(Queued)
  /\ \A t \in Callers :
       /\ caller[t].at = "send" => \A m \in MessagesOf(Queued, t) : m < caller[t].message
       /\ \A m \in onTheWay[t] : m < nextMessage

\* A destroyed connection writes nothing, and a batch has ended before the next.
Ends ==
  /\ ~alive => events = {}
  /\ state = "kConnecting" => alive
  /\ "wakeup" \in revents => ~calling

Sending == Numbered /\ Ends

LEMMA MessageTypes ==
  ASSUME TypeOK, NEW t \in Callers
  PROVE  /\ MessagesOf(Queued, t) \subseteq 1..MaxMessages
         /\ caller[t].at = "send" => caller[t].message \in 1..MaxMessages
         /\ onTheWay[t] = MessagesOf(Queued, t)
              \cup (IF caller[t].at = "send" THEN {caller[t].message} ELSE {})
         /\ onTheWay[t] \subseteq 1..MaxMessages
<1>1. ASSUME NEW m \in MessagesOf(Queued, t)
      PROVE  m \in 1..MaxMessages
  <2>1. PICK i \in DOMAIN Queued : SendsFor(Queued[i], t) /\ m = Queued[i].message
    BY <1>1 DEF MessagesOf
  <2>2. Queued[i] \in Functor
    BY <2>1, QueuedTypes
  <2> QED BY <2>1, <2>2 DEF Functor, SendsFor
<1>2. caller[t] \in Call
  BY DEF TypeOK
<1>3. caller[t].at = "send" => caller[t].message \in 1..MaxMessages
  BY <1>2 DEF Call
<1>4. onTheWay[t] = MessagesOf(Queued, t)
        \cup (IF caller[t].at = "send" THEN {caller[t].message} ELSE {})
  BY DEF onTheWay
<1> QED BY <1>1, <1>3, <1>4

\* A step that pushes no message and calls none.
Quiet == Queued' = Queued \/ \E f \in Functor : f.op # "sendInLoop" /\ Queued' = Append(Queued, f)

LEMMA QuietMessages ==
  ASSUME TypeOK, Numbered, Quiet
  PROVE  Ordered(Queued') /\ \A t \in Callers : MessagesOf(Queued', t) = MessagesOf(Queued, t)
<1>1. Ordered(Queued) /\ Queued \in Seq(Functor)
  BY QueuedTypes DEF Numbered
<1>2. ASSUME NEW f \in Functor, f.op # "sendInLoop", Queued' = Append(Queued, f)
      PROVE  /\ Ordered(Queued')
             /\ \A t \in Callers : MessagesOf(Queued', t) = MessagesOf(Queued, t)
  <2>1. \A t \in Callers : MessageOf(f, t) = {} /\ ~SendsFor(f, t)
    BY <1>2, SilentFunctors
  <2>2. Ordered(Append(Queued, f))
    BY <1>1, <2>1, AppendedOrdered
  <2>3. ASSUME NEW t \in Callers
        PROVE  MessagesOf(Append(Queued, f), t) = MessagesOf(Queued, t)
    <3>1. MessagesOf(Append(Queued, f), t) = MessagesOf(Queued, t) \cup MessageOf(f, t)
      BY <1>1, AppendedMessages
    <3> QED BY <2>1, <3>1
  <2> QED BY <1>2, <2>2, <2>3
<1> QED BY <1>1, <1>2 DEF Quiet

\* A step in which no message is sent, pushed or called.
LEMMA NothingSent ==
  ASSUME TypeOK, Numbered, Quiet, nextMessage' \in {nextMessage, nextMessage + 1},
         \A t \in Callers :
           \/ caller'[t] = caller[t]
           \/ caller[t].at # "send" /\ caller'[t].at # "send"
  PROVE  Numbered' /\ onTheWay' = onTheWay
<1>1. /\ Ordered(Queued')
      /\ \A t \in Callers : MessagesOf(Queued', t) = MessagesOf(Queued, t)
  BY QuietMessages
<1>2. ASSUME NEW t \in Callers
      PROVE  (IF caller'[t].at = "send" THEN {caller'[t].message} ELSE {})
               = (IF caller[t].at = "send" THEN {caller[t].message} ELSE {})
  OBVIOUS
<1>3. onTheWay' = onTheWay
  BY <1>1, <1>2 DEF onTheWay
<1>4. ASSUME NEW t \in Callers
      PROVE  /\ caller'[t].at = "send" =>
                  \A m \in MessagesOf(Queued', t) : m < caller'[t].message
             /\ \A m \in onTheWay'[t] : m < nextMessage'
  <2>1. caller'[t].at = "send" => \A m \in MessagesOf(Queued', t) : m < caller'[t].message
    BY <1>1 DEF Numbered
  <2>2. \A m \in onTheWay[t] : m \in Nat /\ m < nextMessage
    BY MessageTypes, SizesAssumption DEF Numbered
  <2>3. nextMessage \in Nat
    BY SizesAssumption DEF TypeOK
  <2> QED BY <1>3, <2>1, <2>2, <2>3
<1> QED BY <1>1, <1>3, <1>4 DEF Numbered

\* Quiet, when the batch is not touched.
LEMMA QuietPush ==
  ASSUME TypeOK, UNCHANGED functors,
         \/ UNCHANGED pendingFunctors
         \/ \E f \in Functor : f.op # "sendInLoop"
              /\ pendingFunctors' = Append(pendingFunctors, f)
  PROVE  Quiet
<1>1. CASE UNCHANGED pendingFunctors
  BY <1>1 DEF Quiet, Queued
<1>2. ASSUME NEW f \in Functor, f.op # "sendInLoop",
             pendingFunctors' = Append(pendingFunctors, f)
      PROVE  Quiet
  BY <1>2, QueuedAppend DEF Quiet
<1> QED BY <1>1, <1>2

LEMMA QuietWriteComplete ==
  ASSUME TypeOK, UNCHANGED functors, QueueWriteComplete \/ UNCHANGED queue
  PROVE  Quiet
<1>1. [op |-> "writeComplete"] \in Functor
  BY DEF Functor
<1> QED BY <1>1, QuietPush DEF QueueWriteComplete, queue

\* sendInLoop lets its message join the stream.
LEMMA JoinStep ==
  ASSUME IInv, NEW k \in 1..MaxMessages, sendInLoop(Message(k))
  PROVE  Stream!Join(k) /\ (QueueWriteComplete \/ UNCHANGED queue)
<1>1. Len(Message(k)) = MessageSize /\ Message(k) = Stream!Message(k)
  BY SizesAssumption DEF Message, Stream!Message
<1>2. PICK n \in TakenDirectly(Message(k)) :
        /\ wire' = wire \o SubSeq(Message(k), 1, n)
        /\ outputBuffer' = outputBuffer \o SubSeq(Message(k), n + 1, MessageSize)
        /\ IF SubSeq(Message(k), n + 1, MessageSize) = <<>>
           THEN QueueWriteComplete ELSE UNCHANGED queue
  BY <1>1 DEF sendInLoop
<1>3. n \in 0..MessageSize /\ (n > 0 => outputBuffer = <<>> /\ ~finSent)
  BY <1>1, SizesAssumption DEF TakenDirectly, WritesDirectly, WriteFails
<1>4. UNCHANGED <<finSent, alive>>
  BY DEF sendInLoop
<1> QED BY <1>1, <1>2, <1>3, <1>4 DEF Stream!Join

\* A functor of the batch is called, and the queue is otherwise left quiet.
LEMMA CalledQueue ==
  ASSUME TypeOK, Numbered, functors # <<>>, functors' = Tail(functors),
         UNCHANGED <<caller, nextMessage>>,
         QueueWriteComplete \/ UNCHANGED queue
  PROVE  /\ Head(functors) \in Functor
         /\ Numbered'
         /\ \A t \in Callers :
              /\ onTheWay'[t] = onTheWay[t] \ MessageOf(Head(functors), t)
              /\ SendsFor(Head(functors), t) =>
                   /\ Head(functors).message \in onTheWay[t]
                   /\ \A m \in onTheWay[t] : Head(functors).message <= m
<1> DEFINE q == Tail(Queued)
           f == Head(functors)
           own(t) == IF caller[t].at = "send" THEN {caller[t].message} ELSE {}
<1>1. /\ Queued # <<>> /\ Head(Queued) = f
      /\ q = Tail(functors) \o pendingFunctors
  BY QueuedTypes, QueuedTail DEF Queued
<1>2. /\ Queued \in Seq(Functor) /\ q \in Seq(Functor) /\ Ordered(q) /\ f \in Functor
      /\ Tail(functors) \in Seq(Functor)
  BY <1>1, QueuedTypes, HeadTailProperties, TailOrdered DEF Numbered
<1>3. \A t \in Callers :
        /\ MessagesOf(Queued, t) = MessagesOf(q, t) \cup MessageOf(f, t)
        /\ SendsFor(f, t) => \A m \in MessagesOf(q, t) : f.message < m
  <2> SUFFICES ASSUME NEW t \in Callers
               PROVE  /\ MessagesOf(Queued, t) = MessagesOf(q, t) \cup MessageOf(f, t)
                      /\ SendsFor(f, t) => \A m \in MessagesOf(q, t) : f.message < m
    OBVIOUS
  <2>1. Queued \in Seq(Functor) /\ Queued # <<>> /\ Ordered(Queued) /\ Head(Queued) = f
    BY <1>1, <1>2 DEF Numbered
  <2> HIDE DEF f
  <2> QED BY <2>1, HeadMessages
<1>4. /\ Ordered(Queued')
      /\ \A t \in Callers : MessagesOf(Queued', t) = MessagesOf(q, t)
  <2>1. [op |-> "writeComplete"] \in Functor
    BY DEF Functor
  <2>2. CASE UNCHANGED queue
    BY <1>1, <1>2, <2>2 DEF queue, Queued
  <2>3. CASE QueueWriteComplete
    <3> DEFINE w == [op |-> "writeComplete"]
    <3>1. Queued' = Append(q, w)
      <4>1. Queued' = Tail(functors) \o Append(pendingFunctors, w)
        BY <2>3 DEF QueueWriteComplete, Queued
      <4>2. pendingFunctors \in Seq(Functor) /\ <<w>> \in Seq(Functor)
        BY <2>1, QueuedTypes
      <4>3. Append(pendingFunctors, w) = pendingFunctors \o <<w>> /\ Append(q, w) = q \o <<w>>
        BY <1>2, <2>1, <4>2, AppendIsConcat
      <4>4. (Tail(functors) \o pendingFunctors) \o <<w>>
              = Tail(functors) \o (pendingFunctors \o <<w>>)
        <5>1. /\ Tail(functors) \in Seq(Functor) /\ pendingFunctors \in Seq(Functor)
              /\ <<w>> \in Seq(Functor)
          BY <1>2, <4>2
        <5> HIDE DEF w
        <5> QED BY <5>1, ConcatAssociative, SMTT(60)
      <4> QED BY <1>1, <4>1, <4>3, <4>4
    <3>2. \A t \in Callers : MessageOf(w, t) = {} /\ ~SendsFor(w, t)
      BY <2>1, SilentFunctors
    <3>3. w \in Functor
      BY <2>1
    <3> HIDE DEF q, w
    <3>4. Ordered(Append(q, w))
      BY <1>2, <3>2, <3>3, AppendedOrdered
    <3>5. ASSUME NEW t \in Callers
          PROVE  MessagesOf(Append(q, w), t) = MessagesOf(q, t)
      <4>1. MessagesOf(Append(q, w), t) = MessagesOf(q, t) \cup MessageOf(w, t)
        BY <1>2, <3>3, AppendedMessages
      <4> QED BY <3>2, <4>1
    <3> QED BY <3>1, <3>4, <3>5
  <2> QED BY <2>2, <2>3
<1> HIDE DEF q, f
<1>5. ASSUME NEW t \in Callers
      PROVE  /\ onTheWay[t] = MessagesOf(q, t) \cup MessageOf(f, t) \cup own(t)
             /\ onTheWay'[t] = MessagesOf(q, t) \cup own(t)
             /\ onTheWay'[t] = onTheWay[t] \ MessageOf(f, t)
             /\ \A m \in onTheWay[t] : m \in Nat /\ m < nextMessage
             /\ caller[t].at = "send" => \A m \in MessagesOf(q, t) : m < caller[t].message
             /\ SendsFor(f, t) => f.message \in onTheWay[t] /\ \A m \in onTheWay[t] : f.message <= m
  <2>1. onTheWay[t] = MessagesOf(q, t) \cup MessageOf(f, t) \cup own(t)
    BY <1>3 DEF onTheWay
  <2>2. onTheWay'[t] = MessagesOf(q, t) \cup own(t)
    BY <1>4 DEF onTheWay
  <2>3. \A m \in onTheWay[t] : m \in Nat /\ m < nextMessage
    BY MessageTypes, SizesAssumption DEF Numbered
  <2>4. caller[t].at = "send" =>
          \A m \in MessagesOf(q, t) \cup MessageOf(f, t) : m < caller[t].message
    BY <1>3 DEF Numbered
  <2>5. ASSUME SendsFor(f, t)
        PROVE  /\ MessageOf(f, t) = {f.message}
               /\ f.message \in onTheWay[t]
               /\ \A m \in MessagesOf(q, t) : f.message < m
               /\ \A m \in own(t) : f.message < m
    BY <1>3, <2>1, <2>4, <2>5 DEF MessageOf
  <2>6. ~SendsFor(f, t) => MessageOf(f, t) = {}
    BY DEF MessageOf
  <2>7. CASE SendsFor(f, t)
    <3>1. f.message \in Nat
      BY <2>3, <2>5, <2>7
    <3>2. \A m \in MessagesOf(q, t) \cup own(t) : f.message < m /\ m \in Nat
      BY <2>1, <2>3, <2>5, <2>7
    <3>3. f.message \notin MessagesOf(q, t) \cup own(t)
      BY <3>1, <3>2
    <3>4. onTheWay'[t] = onTheWay[t] \ MessageOf(f, t)
      BY <2>1, <2>2, <2>5, <2>7, <3>3
    <3>5. \A m \in onTheWay[t] : f.message <= m
      BY <2>1, <2>5, <2>7, <3>1, <3>2
    <3> QED BY <2>1, <2>2, <2>3, <2>4, <2>5, <2>7, <3>4, <3>5
  <2>8. CASE ~SendsFor(f, t)
    BY <2>1, <2>2, <2>3, <2>4, <2>6, <2>8
  <2> QED BY <2>7, <2>8
<1>6. Numbered'
  <2>1. ASSUME NEW t \in Callers
        PROVE  /\ caller'[t].at = "send" =>
                    \A m \in MessagesOf(Queued', t) : m < caller'[t].message
               /\ \A m \in onTheWay'[t] : m < nextMessage'
    BY <1>4, <1>5
  <2> QED BY <1>4, <2>1 DEF Numbered
<1> QED BY <1>2, <1>5, <1>6 DEF f

\* What the variables of the stream show of a step in which it does not move.
LEMMA StreamStutters ==
  ASSUME UNCHANGED <<nextMessage, outputBuffer, wire, finSent, alive>>, onTheWay' = onTheWay
  PROVE  UNCHANGED Stream!vars
BY DEF Stream!vars

\* A call of send() or shutdown() on another thread goes on.
LEMMA CallerSends ==
  ASSUME IInv, Sending, NEW t \in Callers,
         SendRemotely(t) \/ ShutdownRemotely(t) \/ CallerStep(t)
  PROVE  Numbered' /\ (Stream!SendRemotely(t) \/ UNCHANGED Stream!vars)
<1> USE DEF IInv, Sending
<1>0. caller \in [Callers -> Call]
  BY DEF TypeOK
<1>1. CASE ShutdownRemotely(t) \/ SetDisconnecting(t)
  <2>1. /\ UNCHANGED <<outputBuffer, wire, finSent, alive, nextMessage, functors, pendingFunctors>>
        /\ caller[t].at # "send"
        /\ \E c \in {"shutdown", "shutdownInLoop"} :
             caller' = [caller EXCEPT ![t] = [at |-> c, message |-> 0]]
    BY <1>1 DEF ShutdownRemotely, SetDisconnecting, Outside, connection, dispatch, queue, socket
  <2>2. Quiet
    BY <2>1, QuietPush
  <2>3. \A u \in Callers :
          \/ caller'[u] = caller[u]
          \/ caller[u].at # "send" /\ caller'[u].at # "send"
    BY <1>0, <2>1
  <2>4. Numbered' /\ onTheWay' = onTheWay
    BY <2>1, <2>2, <2>3, NothingSent
  <2> QED BY <2>1, <2>4, StreamStutters
<1>2. CASE PushShutdown(t)
  <2>1. /\ UNCHANGED <<outputBuffer, wire, finSent, alive, nextMessage, functors>>
        /\ caller[t].at # "send"
        /\ caller' = [caller EXCEPT ![t] = Outside]
        /\ pendingFunctors' = Append(pendingFunctors, [op |-> "shutdownInLoop"])
    BY <1>2 DEF PushShutdown, Push, connection, dispatch, socket
  <2>2. Quiet
    <3>1. [op |-> "shutdownInLoop"] \in Functor
      BY DEF Functor
    <3> QED BY <2>1, <3>1, QuietPush
  <2>3. \A u \in Callers :
          \/ caller'[u] = caller[u]
          \/ caller[u].at # "send" /\ caller'[u].at # "send"
    BY <1>0, <2>1 DEF Outside
  <2>4. Numbered' /\ onTheWay' = onTheWay
    BY <2>1, <2>2, <2>3, NothingSent
  <2> QED BY <2>1, <2>4, StreamStutters
<1>3. CASE SendRemotely(t)
  <2>1. /\ UNCHANGED <<outputBuffer, wire, finSent, alive, functors, pendingFunctors>>
        /\ alive /\ caller[t].at = "outside"
        /\ nextMessage' = nextMessage + 1 /\ nextMessage \in 1..MaxMessages
        /\ caller' = [caller EXCEPT ![t] = [at |-> "send", message |-> nextMessage]]
    BY <1>3, SizesAssumption
    DEF SendRemotely, Outside, connection, dispatch, queue, socket, TypeOK
  <2>2. Queued' = Queued
    BY <2>1 DEF Queued
  <2>3. nextMessage \in Nat
    BY <2>1
  <2>4. ASSUME NEW u \in Callers
        PROVE  /\ onTheWay'[u] = IF u = t THEN onTheWay[u] \cup {nextMessage} ELSE onTheWay[u]
               /\ caller'[u].at = "send" =>
                    \A m \in MessagesOf(Queued', u) : m < caller'[u].message
               /\ \A m \in onTheWay'[u] : m < nextMessage'
    <3>1. /\ onTheWay[u] = MessagesOf(Queued, u)
               \cup (IF caller[u].at = "send" THEN {caller[u].message} ELSE {})
          /\ onTheWay'[u] = MessagesOf(Queued, u)
               \cup (IF caller'[u].at = "send" THEN {caller'[u].message} ELSE {})
      BY <2>2 DEF onTheWay
    <3>2. \A m \in onTheWay[u] : m \in Nat /\ m < nextMessage
      BY MessageTypes, SizesAssumption DEF Numbered
    <3>3. caller'[u] = IF u = t THEN [at |-> "send", message |-> nextMessage] ELSE caller[u]
      BY <1>0, <2>1
    <3>4. onTheWay'[u] = IF u = t THEN onTheWay[u] \cup {nextMessage} ELSE onTheWay[u]
      BY <2>1, <3>1, <3>3
    <3>5. \A m \in onTheWay'[u] : m < nextMessage'
      BY <2>1, <2>3, <3>2, <3>4
    <3>6. caller'[u].at = "send" => \A m \in MessagesOf(Queued', u) : m < caller'[u].message
      <4>1. CASE u = t
        BY <2>2, <3>1, <3>2, <3>3, <4>1
      <4>2. CASE u # t
        BY <2>2, <3>3, <4>2 DEF Numbered
      <4> QED BY <4>1, <4>2
    <3> QED BY <3>4, <3>5, <3>6
  <2>5. Numbered'
    BY <2>2, <2>4 DEF Numbered
  <2>6. onTheWay' = [onTheWay EXCEPT ![t] = onTheWay[t] \cup {nextMessage}]
    <3>1. /\ onTheWay = [u \in Callers |-> onTheWay[u]]
          /\ onTheWay' = [u \in Callers |-> onTheWay'[u]]
      BY DEF onTheWay
    <3> HIDE DEF onTheWay
    <3> QED BY <2>4, <3>1
  <2> QED BY <2>1, <2>5, <2>6 DEF Stream!SendRemotely
<1>4. CASE PushSend(t)
  <2> DEFINE f == [op |-> "sendInLoop", by |-> t, message |-> caller[t].message]
  <2>1. /\ UNCHANGED <<outputBuffer, wire, finSent, alive, functors, nextMessage>>
        /\ caller[t].at = "send"
        /\ caller' = [caller EXCEPT ![t] = Outside]
        /\ pendingFunctors' = Append(pendingFunctors, f)
    BY <1>4 DEF PushSend, Push, connection, dispatch, socket
  <2>2. f \in Functor /\ f.message = caller[t].message
    BY <1>0, <2>1, MessageTypes DEF Functor
  <2>3. \A u \in Callers : SendsFor(f, u) <=> u = t
    BY DEF SendsFor
  <2> HIDE DEF f
  <2>4. Queued' = Append(Queued, f) /\ Queued \in Seq(Functor) /\ Ordered(Queued)
    BY <2>1, <2>2, QueuedAppend, QueuedTypes DEF Numbered
  <2>5. Ordered(Queued')
    <3>1. \A u \in Callers : SendsFor(f, u) => \A m \in MessagesOf(Queued, u) : m < f.message
      BY <2>1, <2>2, <2>3 DEF Numbered
    <3> QED BY <2>2, <2>4, <3>1, AppendedOrdered
  <2>6. ASSUME NEW u \in Callers
        PROVE  /\ onTheWay'[u] = onTheWay[u]
               /\ caller'[u].at = "send" =>
                    \A m \in MessagesOf(Queued', u) : m < caller'[u].message
    <3>1. MessagesOf(Queued', u) = MessagesOf(Queued, u) \cup MessageOf(f, u)
      BY <2>2, <2>4, AppendedMessages
    <3>2. /\ onTheWay[u] = MessagesOf(Queued, u)
               \cup (IF caller[u].at = "send" THEN {caller[u].message} ELSE {})
          /\ onTheWay'[u] = MessagesOf(Queued', u)
               \cup (IF caller'[u].at = "send" THEN {caller'[u].message} ELSE {})
      BY DEF onTheWay
    <3>3. MessageOf(f, u) = IF u = t THEN {caller[t].message} ELSE {}
      BY <2>2, <2>3 DEF MessageOf
    <3>4. CASE u = t
      <4>1. caller'[u].at # "send"
        BY <1>0, <2>1, <3>4 DEF Outside
      <4> QED BY <2>1, <3>1, <3>2, <3>3, <3>4, <4>1
    <3>5. CASE u # t
      <4>1. caller'[u] = caller[u]
        BY <1>0, <2>1, <3>5
      <4>2. MessagesOf(Queued', u) = MessagesOf(Queued, u)
        BY <3>1, <3>3, <3>5
      <4> QED BY <3>2, <4>1, <4>2 DEF Numbered
    <3> QED BY <3>4, <3>5
  <2>7. onTheWay' = onTheWay
    <3>1. /\ onTheWay = [u \in Callers |-> onTheWay[u]]
          /\ onTheWay' = [u \in Callers |-> onTheWay'[u]]
      BY DEF onTheWay
    <3> HIDE DEF onTheWay
    <3> QED BY <2>6, <3>1
  <2>8. Numbered'
    BY <2>1, <2>5, <2>6, <2>7 DEF Numbered
  <2> QED BY <2>1, <2>7, <2>8, StreamStutters
<1> QED BY <1>1, <1>2, <1>3, <1>4 DEF CallerStep

\* The steps of the loop thread, as far as they neither write nor call a functor.
Idles == connectEstablished \/ Poll \/ HandleWakeup \/ EndFunctors \/ PeerCloses

LEMMA IdleSteps ==
  ASSUME IInv, Sending, Idles
  PROVE  Numbered' /\ UNCHANGED Stream!vars
<1> USE DEF IInv, Sending
<1>1. UNCHANGED <<nextMessage, outputBuffer, wire, finSent, alive, caller>>
  BY DEF Idles, connectEstablished, Poll, HandleWakeup, EndFunctors, PeerCloses,
         connection, socket
<1>2. Queued' = Queued
  <2>1. CASE HandleWakeup
    <3>1. functors = <<>> /\ functors' = pendingFunctors /\ pendingFunctors' = <<>>
      BY <2>1 DEF HandleWakeup, Ends, TypeOK
    <3> QED BY <3>1, EmptyProperties, QueuedTypes, ConcatEmptySeq DEF Queued
  <2>2. CASE ~HandleWakeup
    <3>1. UNCHANGED <<functors, pendingFunctors>>
      BY <2>2 DEF Idles, connectEstablished, Poll, EndFunctors, PeerCloses, dispatch, queue
    <3> QED BY <3>1 DEF Queued
  <2> QED BY <2>1, <2>2
<1>3. Numbered' /\ onTheWay' = onTheWay
  BY <1>1, <1>2, NothingSent DEF Quiet
<1> QED BY <1>1, <1>3, StreamStutters

\* shutdownInLoop sends the FIN behind the last byte, or leaves it to handleWrite.
LEMMA ShutdownSteps ==
  ASSUME IInv, alive, shutdownInLoop \/ UNCHANGED finSent, onTheWay' = onTheWay,
         alive' \in BOOLEAN, UNCHANGED <<nextMessage, outputBuffer, wire>>
  PROVE  Stream!SendFin \/ Stream!Close \/ UNCHANGED Stream!vars
<1>1. finSent \in BOOLEAN /\ finSent' \in BOOLEAN /\ (finSent' # finSent => outputBuffer = <<>>)
  BY ShutdownInLoopStep DEF IInv, TypeOK
<1>2. finSent' # finSent => finSent' = TRUE
  <2>1. finSent => finSent'
    BY <1>1, Zenon DEF shutdownInLoop
  <2> QED BY <1>1, <2>1
<1>3. CASE finSent' # finSent
  BY <1>1, <1>2, <1>3 DEF Stream!SendFin
<1>4. CASE finSent' = finSent /\ alive' = FALSE
  BY <1>4 DEF Stream!Close
<1>5. CASE finSent' = finSent /\ alive' = TRUE
  BY <1>5 DEF Stream!vars
<1> QED BY <1>3, <1>4, <1>5

\* send() and shutdown() on the loop thread.
LEMMA LoopSends ==
  ASSUME IInv, Sending, send \/ shutdown
  PROVE  Numbered' /\ [Stream!Next]_(Stream!vars)
<1> USE DEF IInv, Sending
<1>1. CASE send
  <2>1. /\ nextMessage \in 1..MaxMessages /\ alive
        /\ nextMessage' = nextMessage + 1 /\ sendInLoop(Message(nextMessage))
        /\ UNCHANGED <<functors, caller>>
    BY <1>1, SizesAssumption DEF send, InUserCode, TypeOK, dispatch
  <2>2. Stream!Join(nextMessage) /\ (QueueWriteComplete \/ UNCHANGED queue)
    BY <2>1, JoinStep
  <2>3. Numbered' /\ onTheWay' = onTheWay
    BY <2>1, <2>2, QuietWriteComplete, NothingSent
  <2>4. Stream!Send
    BY <2>1, <2>2, <2>3 DEF Stream!Send
  <2> QED BY <2>3, <2>4 DEF Stream!Next
<1>2. CASE shutdown
  <2>1. /\ alive /\ shutdownInLoop
        /\ UNCHANGED <<functors, pendingFunctors, caller, nextMessage, alive, outputBuffer, wire>>
    BY <1>2 DEF shutdown, InUserCode, dispatch, queue
  <2>2. Numbered' /\ onTheWay' = onTheWay
    BY <2>1, QuietPush, NothingSent
  <2>3. alive' \in BOOLEAN
    BY <2>1 DEF TypeOK
  <2>4. Stream!SendFin \/ Stream!Close \/ UNCHANGED Stream!vars
    BY <2>1, <2>2, <2>3, ShutdownSteps
  <2> QED BY <2>2, <2>4 DEF Stream!Next
<1> QED BY <1>1, <1>2

\* A functor is called: its message arrives, or is lost with the connection.
LEMMA CallSteps ==
  ASSUME IInv, Sending, CallFunctor
  PROVE  Numbered' /\ [Stream!Next]_(Stream!vars)
<1> USE DEF IInv, Sending
<1> DEFINE f == Head(functors)
<1>1. functors # <<>> /\ functors' = Tail(functors) /\ UNCHANGED <<caller, nextMessage>>
  BY DEF CallFunctor
<1>2. \/ f.op = "sendInLoop" /\ alive /\ sendInLoop(Message(f.message))
      \/ /\ f.op = "shutdownInLoop" /\ alive /\ shutdownInLoop
         /\ UNCHANGED <<connection, queue, peer, wire, accepted>>
      \/ /\ f.op = "writeComplete" \/ ~alive
         /\ UNCHANGED <<connection, queue, socket, accepted>>
  BY DEF CallFunctor
<1>3. f \in Functor
  BY <1>1, QueuedTypes, HeadTailProperties
<1>4. f.op = "sendInLoop" => f.message \in 1..MaxMessages /\ f.by \in Callers
  BY <1>3 DEF Functor
<1>5. QueueWriteComplete \/ UNCHANGED queue
  BY <1>2, <1>4, JoinStep
<1>6. /\ Numbered'
      /\ \A t \in Callers :
           /\ onTheWay'[t] = onTheWay[t] \ MessageOf(f, t)
           /\ SendsFor(f, t) =>
                f.message \in onTheWay[t] /\ \A m \in onTheWay[t] : f.message <= m
  BY <1>1, <1>5, CalledQueue
<1> HIDE DEF f
<1>7. /\ onTheWay = [t \in Callers |-> onTheWay[t]]
      /\ onTheWay' = [t \in Callers |-> onTheWay'[t]]
  BY DEF onTheWay
<1>8. CASE f.op = "sendInLoop"
  <2> DEFINE t == f.by
             k == f.message
  <2>1. \A u \in Callers : MessageOf(f, u) = IF u = t THEN {k} ELSE {}
    BY <1>8 DEF MessageOf, SendsFor
  <2>2. /\ k \in onTheWay[t] /\ \A m \in onTheWay[t] : k <= m
        /\ t \in Callers
    BY <1>4, <1>6, <1>8 DEF SendsFor
  <2> HIDE DEF t, k
  <2>3. onTheWay' = [onTheWay EXCEPT ![t] = onTheWay[t] \ {k}]
    <3>1. \A u \in Callers :
            onTheWay'[u] = IF u = t THEN onTheWay[u] \ {k} ELSE onTheWay[u]
      BY <1>6, <2>1
    <3> HIDE DEF onTheWay
    <3> QED BY <1>7, <3>1
  <2>4. Stream!Leaves(t, k)
    BY <1>1, <2>2, <2>3 DEF Stream!Leaves
  <2>5. CASE alive
    <3>1. Stream!Join(k)
      BY <1>2, <1>4, <1>8, <2>5, JoinStep DEF k
    <3>2. Stream!Arrive(t, k)
      BY <2>4, <2>5, <3>1 DEF Stream!Arrive
    <3> QED BY <1>6, <2>2, <3>2 DEF Stream!Next
  <2>6. CASE ~alive
    <3>1. UNCHANGED <<outputBuffer, wire, finSent, alive>>
      BY <1>2, <1>8, <2>6 DEF connection, socket
    <3>2. Stream!Drop(t, k)
      BY <2>4, <2>6, <3>1 DEF Stream!Drop
    <3> QED BY <1>6, <2>2, <3>2 DEF Stream!Next
  <2> QED BY <2>5, <2>6
<1>9. CASE f.op # "sendInLoop"
  <2>1. \A t \in Callers : MessageOf(f, t) = {}
    BY <1>3, <1>9, SilentFunctors
  <2>2. onTheWay' = onTheWay
    <3>1. \A t \in Callers : onTheWay'[t] = onTheWay[t]
      BY <1>6, <2>1
    <3> HIDE DEF onTheWay
    <3> QED BY <1>7, <3>1
  <2>3. CASE shutdownInLoop /\ alive /\ UNCHANGED <<connection, queue, peer, wire, accepted>>
    <3>1. UNCHANGED <<alive, outputBuffer, wire>> /\ alive' \in BOOLEAN
      BY <2>3 DEF connection, TypeOK
    <3>2. Stream!SendFin \/ Stream!Close \/ UNCHANGED Stream!vars
      BY <1>1, <2>2, <2>3, <3>1, ShutdownSteps
    <3> QED BY <1>6, <3>2 DEF Stream!Next
  <2>4. CASE UNCHANGED <<connection, queue, socket, accepted>>
    <3>1. UNCHANGED Stream!vars
      BY <1>1, <2>2, <2>4, StreamStutters DEF connection, socket
    <3> QED BY <1>6, <3>1
  <2> QED BY <1>2, <1>9, <2>3, <2>4
<1> QED BY <1>8, <1>9

\* handleWrite gives the kernel what waits, and the FIN if that is all.
LEMMA WriteSteps ==
  ASSUME IInv, Sending, HandleWrite
  PROVE  Numbered' /\ [Stream!Next]_(Stream!vars)
<1> USE DEF IInv, Sending
<1>1. UNCHANGED <<functors, caller, nextMessage, alive, accepted>>
  BY DEF HandleWrite
<1>2. CASE UNCHANGED <<events, outputBuffer, queue, wire, finSent>>
  <2>1. Numbered' /\ onTheWay' = onTheWay
    BY <1>1, <1>2, QuietWriteComplete, NothingSent
  <2>2. UNCHANGED Stream!vars
    BY <1>1, <1>2, <2>1, StreamStutters
  <2> QED BY <2>1, <2>2
<1>3. ASSUME isWriting, NEW n \in TakenFromBuffer, n > 0, Written(n)
      PROVE  Numbered' /\ [Stream!Next]_(Stream!vars)
  <2>1. finSent' \in BOOLEAN /\ (finSent' # finSent => outputBuffer' = <<>>)
    BY <1>1, <1>3, WrittenStep
  <2>2. alive /\ ~finSent /\ n \in 1..Len(outputBuffer)
    <3>1. alive
      BY <1>3 DEF Ends, isWriting
    <3>2. outputBuffer \in Seq(Bytes)
      BY DEF TypeOK
    <3> QED BY <1>3, <3>1, <3>2 DEF TakenFromBuffer, WriteFails
  <2>3. QueueWriteComplete \/ UNCHANGED queue
    BY <1>3 DEF Written, queue
  <2>4. Numbered' /\ onTheWay' = onTheWay
    BY <1>1, <2>3, QuietWriteComplete, NothingSent
  <2>5. Stream!Take(n)
    <3>1. /\ wire' = wire \o SubSeq(outputBuffer, 1, n)
          /\ outputBuffer' = SubSeq(outputBuffer, n + 1, Len(outputBuffer))
      BY <1>3 DEF Written, Remaining
    <3>2. finSent' => outputBuffer' = <<>>
      BY <2>1, <2>2
    <3> QED BY <1>1, <2>1, <2>2, <2>4, <3>1, <3>2 DEF Stream!Take
  <2> QED BY <2>2, <2>4, <2>5 DEF Stream!Next
<1> QED BY <1>2, <1>3 DEF HandleWrite

\* The end of the connection, by the peer or by its owner.
LEMMA EndSteps ==
  ASSUME IInv, Sending, HandleRead \/ ownerDestroys
  PROVE  Numbered' /\ [Stream!Next]_(Stream!vars)
<1> USE DEF IInv, Sending
<1>1. UNCHANGED <<functors, pendingFunctors, caller, nextMessage, outputBuffer, wire>>
  BY DEF HandleRead, ownerDestroys, dispatch, queue
<1>2. Numbered' /\ onTheWay' = onTheWay
  BY <1>1, QuietPush, NothingSent
<1>3. alive' \in BOOLEAN
  BY DEF HandleRead, ownerDestroys, handleClose, connectDestroyed, TypeOK
<1>4. CASE alive
  <2>1. shutdownInLoop \/ UNCHANGED finSent
    BY DEF HandleRead, ownerDestroys, shutdownAll
  <2>2. Stream!SendFin \/ Stream!Close \/ UNCHANGED Stream!vars
    BY <1>1, <1>2, <1>3, <1>4, <2>1, ShutdownSteps
  <2> QED BY <1>2, <2>2 DEF Stream!Next
<1>5. CASE ~alive
  <2>1. UNCHANGED <<alive, finSent>>
    <3>1. alive = FALSE
      BY <1>5 DEF TypeOK
    <3> QED BY <3>1 DEF HandleRead, ownerDestroys, handleClose, connectDestroyed
  <2>2. UNCHANGED Stream!vars
    BY <1>1, <1>2, <2>1, StreamStutters
  <2> QED BY <1>2, <2>2
<1> QED BY <1>4, <1>5

\* No byte waits to be written after the end, and batches do not overlap.
LEMMA EndsStep ==
  ASSUME IInv, Ends, Next
  PROVE  Ends'
<1> USE DEF Ends
<1>1. CASE connectEstablished \/ shutdown \/ PeerCloses \/ ownerDestroys
  BY <1>1 DEF connectEstablished, shutdown, InUserCode, PeerCloses, ownerDestroys,
              connectDestroyed, connection, dispatch
<1>2. CASE send
  BY <1>2 DEF send, InUserCode, sendInLoop, dispatch
<1>3. ASSUME NEW t \in Callers, SendRemotely(t) \/ ShutdownRemotely(t) \/ CallerStep(t)
      PROVE  Ends'
  BY <1>3 DEF SendRemotely, ShutdownRemotely, CallerStep, PushSend, SetDisconnecting,
              PushShutdown, connection, dispatch
<1>4. CASE Poll \/ HandleWakeup \/ EndFunctors
  BY <1>4 DEF Poll, HandleWakeup, EndFunctors, connection
<1>5. CASE CallFunctor
  <2>1. UNCHANGED <<revents, calling>>
    BY <1>5 DEF CallFunctor
  <2>2. \/ alive /\ UNCHANGED <<alive, state>>
        \/ UNCHANGED <<alive, state, events>>
    BY <1>5 DEF CallFunctor, sendInLoop, connection
  <2> QED BY <2>1, <2>2
<1>6. CASE HandleWrite
  BY <1>6 DEF HandleWrite, Written, isWriting
<1>7. CASE HandleRead
  BY <1>7 DEF HandleRead, handleClose, connectDestroyed
<1> QED BY <1>1, <1>2, <1>3, <1>4, <1>5, <1>6, <1>7 DEF Next, LoopStep

LEMMA StreamStep ==
  ASSUME IInv, Sending, Next
  PROVE  Sending' /\ [Stream!Next]_(Stream!vars)
<1>1. ASSUME NEW t \in Callers, SendRemotely(t) \/ ShutdownRemotely(t) \/ CallerStep(t)
      PROVE  Numbered' /\ [Stream!Next]_(Stream!vars)
  BY <1>1, CallerSends DEF Stream!Next
<1>2. Numbered' /\ [Stream!Next]_(Stream!vars)
  BY <1>1, IdleSteps, LoopSends, CallSteps, WriteSteps, EndSteps DEF Next, LoopStep, Idles
<1> QED BY <1>2, EndsStep DEF Sending

LEMMA NothingQueued ==
  ASSUME Init
  PROVE  /\ Queued = <<>> /\ DOMAIN Queued = {}
         /\ \A t \in Callers : MessagesOf(Queued, t) = {} /\ caller[t].at # "send"
<1>1. Queued = <<>>
  BY EmptyProperties, ConcatEmptySeq DEF Init, Queued
<1>2. Len(Queued) = 0 /\ DOMAIN Queued = {}
  BY <1>1, LenProperties, EmptyProperties
<1>3. ASSUME NEW t \in Callers
      PROVE  MessagesOf(Queued, t) = {}
  <2> HIDE DEF Queued
  <2> QED BY <1>2 DEF MessagesOf
<1>4. ASSUME NEW t \in Callers
      PROVE  caller[t].at # "send"
  BY DEF Init, Outside
<1> QED BY <1>1, <1>2, <1>3, <1>4

LEMMA SendingInvariance == Spec => []Sending
<1>1. Init => Sending
  <2> SUFFICES ASSUME Init
               PROVE  Sending
    OBVIOUS
  <2>1. Queued = <<>> /\ DOMAIN Queued = {}
    BY NothingQueued
  <2>2. \A t \in Callers : MessagesOf(Queued, t) = {} /\ caller[t].at # "send"
    BY NothingQueued
  <2>3. \A t \in Callers : onTheWay[t] = {}
    BY <2>2 DEF onTheWay
  <2> QED BY <2>1, <2>2, <2>3 DEF Init, Sending, Numbered, Ordered, Ends
<1>2. IInv /\ Sending /\ [Next]_vars => Sending'
  <2>1. ASSUME IInv, Sending, UNCHANGED vars
        PROVE  Sending'
    <3>1. /\ UNCHANGED <<functors, pendingFunctors, caller, nextMessage>>
          /\ UNCHANGED <<alive, events, state, revents, calling>>
      BY <2>1 DEF vars, connection, dispatch, queue
    <3>2. Numbered'
      BY <2>1, <3>1, QuietPush, NothingSent DEF IInv, Sending
    <3> QED BY <2>1, <3>1, <3>2 DEF Sending, Ends
  <2> QED BY <2>1, StreamStep
<1> QED BY <1>1, <1>2, Invariance, PTL DEF Spec

\* The way out of a connection is a MessageStream, for any threads and messages: the
\* messages of each thread enter the stream once and in the order of their send(),
\* bytes leave it in order, and nothing follows the FIN.
THEOREM MessageStreamRefinement == Spec => ImplementsMessageStream
<1>1. Init => Stream!Init
  <2> SUFFICES ASSUME Init
               PROVE  Stream!Init
    OBVIOUS
  <2>1. Queued = <<>> /\ DOMAIN Queued = {}
    BY NothingQueued
  <2>2. \A t \in Callers : MessagesOf(Queued, t) = {} /\ caller[t].at # "send"
    BY NothingQueued
  <2>3. onTheWay = [t \in Callers |-> {}]
    BY <2>2 DEF onTheWay
  <2> QED BY <2>3 DEF Init, Stream!Init
<1>2. IInv /\ Sending /\ [Next]_vars => [Stream!Next]_(Stream!vars)
  <2>1. ASSUME UNCHANGED vars
        PROVE  UNCHANGED Stream!vars
    <3>1. UNCHANGED <<functors, pendingFunctors, caller>>
      BY <2>1 DEF vars, dispatch, queue
    <3>2. onTheWay' = onTheWay
      BY <3>1 DEF onTheWay, Queued
    <3> QED BY <2>1, <3>2, StreamStutters DEF vars, connection, socket
  <2> QED BY <2>1, StreamStep
<1> QED BY <1>1, <1>2, Invariance, SendingInvariance, PTL
        DEF Spec, Stream!Spec, ImplementsMessageStream

-----------------------------------------------------------------------------
(* No message is accepted twice.                                           *)

\* No byte is given to the kernel twice.
EachByteOnce == \A i, j \in DOMAIN wire : wire[i] = wire[j] => i = j

\* The number of a message is used once: it is on the way of one thread, or in the
\* stream, or neither.
Once ==
  /\ \A t, u \in Callers : t # u => onTheWay[t] \cap onTheWay[u] = {}
  /\ \A i \in DOMAIN accepted :
       accepted[i][1] < nextMessage /\ \A t \in Callers : accepted[i][1] \notin onTheWay[t]
  /\ \A i, j \in DOMAIN accepted : accepted[i] = accepted[j] => i = j

LEMMA JoinAccepts ==
  ASSUME IInv, StreamIntact', NEW k \in 1..MaxMessages, Stream!Join(k)
  PROVE  accepted' = accepted \o Message(k)
<1>1. PICK n \in 0..MessageSize :
        /\ n > 0 => outputBuffer = <<>>
        /\ wire' = wire \o SubSeq(Stream!Message(k), 1, n)
        /\ outputBuffer' = outputBuffer \o SubSeq(Stream!Message(k), n + 1, MessageSize)
  BY DEF Stream!Join
<1>2. /\ Message(k) = Stream!Message(k) /\ Message(k) \in Seq(Bytes)
      /\ Len(Message(k)) = MessageSize /\ n \in 0..Len(Message(k))
  BY MessageProperties, SizesAssumption DEF Message, Stream!Message
<1> DEFINE first == SubSeq(Message(k), 1, n)
           rest  == SubSeq(Message(k), n + 1, MessageSize)
<1>3. /\ first \in Seq(Bytes) /\ rest \in Seq(Bytes)
      /\ Message(k) = first \o rest
      /\ n = 0 => first = <<>>
  BY <1>2, SplitProperties, SubSeqEmpty
<1>4. wire' = wire \o first /\ outputBuffer' = outputBuffer \o rest
  BY <1>1, <1>2
<1> HIDE DEF first, rest
<1>5. wire \in Seq(Bytes) /\ outputBuffer \in Seq(Bytes) /\ accepted = wire \o outputBuffer
  BY DEF IInv, TypeOK, StreamIntact
<1>6. outputBuffer = <<>> \/ first = <<>>
  BY <1>1, <1>3
<1>7. (wire \o outputBuffer) \o (first \o rest) = (wire \o first) \o (outputBuffer \o rest)
  <2>1. /\ wire \in Seq(Bytes) /\ outputBuffer \in Seq(Bytes)
        /\ first \in Seq(Bytes) /\ rest \in Seq(Bytes)
    BY <1>3, <1>5
  <2> QED BY <1>6, <2>1, JoinedParts, ZenonT(60)
<1> QED BY <1>3, <1>4, <1>5, <1>7 DEF StreamIntact

\* A message that is new to the stream repeats no byte of it.
LEMMA AcceptedOnce ==
  ASSUME IInv, Once, NEW k \in 1..MaxMessages, accepted' = accepted \o Message(k),
         \A i \in DOMAIN accepted : accepted[i][1] # k
  PROVE  /\ \A i \in DOMAIN accepted' :
              \/ accepted'[i][1] = k
              \/ i \in DOMAIN accepted /\ accepted'[i] = accepted[i]
         /\ \A i, j \in DOMAIN accepted' : accepted'[i] = accepted'[j] => i = j
<1>1. /\ accepted \in Seq(Bytes) /\ Message(k) \in Seq(Bytes)
      /\ Len(Message(k)) = MessageSize /\ MessageSize \in Nat
      /\ \A i \in 1..MessageSize : Message(k)[i] = <<k, i>>
  BY MessageProperties, SizesAssumption DEF IInv, TypeOK, Message
<1> DEFINE l == Len(accepted)
           both == accepted \o Message(k)
<1>0. /\ both \in Seq(Bytes) /\ Len(both) = Len(accepted) + Len(Message(k))
      /\ \A i \in 1..Len(accepted) + Len(Message(k)) :
           both[i] = IF i <= Len(accepted) THEN accepted[i] ELSE Message(k)[i - Len(accepted)]
  BY <1>1, ConcatProperties
<1> HIDE DEF both
<1>2. /\ l \in Nat /\ DOMAIN accepted = 1..l
      /\ Len(accepted') = l + MessageSize /\ DOMAIN accepted' = 1..l + MessageSize
      /\ \A i \in 1..l + MessageSize :
           accepted'[i] = IF i <= l THEN accepted[i] ELSE Message(k)[i - l]
  <2>1. accepted' = both
    BY DEF both
  <2>2. l \in Nat /\ DOMAIN accepted = 1..l
    BY <1>1, LenProperties
  <2>3. Len(both) = l + MessageSize /\ DOMAIN both = 1..l + MessageSize
    BY <1>0, <1>1, LenProperties
  <2> QED BY <1>0, <1>1, <2>1, <2>2, <2>3
<1> HIDE DEF l
<1>3. ASSUME NEW i \in DOMAIN accepted'
      PROVE  \/ i \in DOMAIN accepted /\ accepted'[i] = accepted[i]
             \/ i \notin DOMAIN accepted /\ accepted'[i] = <<k, i - l>>
  <2>1. CASE i <= l
    BY <1>2, <2>1
  <2>2. CASE ~(i <= l)
    <3>1. i - l \in 1..MessageSize /\ accepted'[i] = Message(k)[i - l]
      BY <1>1, <1>2, <2>2
    <3> QED BY <1>1, <1>2, <2>2, <3>1
  <2> QED BY <2>1, <2>2
<1>4. ASSUME NEW i \in DOMAIN accepted', NEW j \in DOMAIN accepted',
             accepted'[i] = accepted'[j]
      PROVE  i = j
  <2>1. CASE i \in DOMAIN accepted /\ j \in DOMAIN accepted
    BY <1>3, <1>4, <2>1 DEF Once
  <2>2. CASE i \notin DOMAIN accepted /\ j \notin DOMAIN accepted
    <3>1. i - l = j - l
      BY <1>3, <1>4, <2>2
    <3> QED BY <1>2, <3>1
  <2>3. CASE i \in DOMAIN accepted /\ j \notin DOMAIN accepted
    BY <1>3, <1>4, <2>3
  <2>4. CASE i \notin DOMAIN accepted /\ j \in DOMAIN accepted
    BY <1>3, <1>4, <2>4
  <2> QED BY <2>1, <2>2, <2>3, <2>4
<1>5. ASSUME NEW i \in DOMAIN accepted'
      PROVE  \/ accepted'[i][1] = k
             \/ i \in DOMAIN accepted /\ accepted'[i] = accepted[i]
  BY <1>3
<1> QED BY <1>4, <1>5

\* The steps of the stream use each number once.
LEMMA OnceStep ==
  ASSUME IInv, IInv', Sending, Once, [Stream!Next]_(Stream!vars)
  PROVE  Once'
<1>1. /\ nextMessage \in Nat /\ nextMessage' \in 1..MaxMessages + 1 /\ MaxMessages \in Nat
      /\ \A i \in DOMAIN accepted : accepted[i][1] \in Nat
      /\ \A t \in Callers : onTheWay[t] \subseteq 1..MaxMessages
      /\ \A t \in Callers : \A m \in onTheWay[t] : m \in Nat /\ m < nextMessage
  <2>1. accepted \in Seq((1..MaxMessages) \X (1..MessageSize))
    BY DEF IInv, TypeOK, Bytes
  <2>2. \A i \in DOMAIN accepted : accepted[i] \in (1..MaxMessages) \X (1..MessageSize)
    BY <2>1
  <2>3. \A t \in Callers : onTheWay[t] \subseteq 1..MaxMessages
    BY MessageTypes DEF IInv
  <2>4. nextMessage \in 1..MaxMessages + 1 /\ nextMessage' \in 1..MaxMessages + 1
    BY DEF IInv, TypeOK
  <2>5. MaxMessages \in Nat
    BY SizesAssumption
  <2>6. \A i \in DOMAIN accepted : accepted[i][1] \in Nat
    BY <2>2, <2>5
  <2> QED BY <2>3, <2>4, <2>5, <2>6 DEF Sending, Numbered
<1>2. accepted = wire \o outputBuffer /\ accepted' = wire' \o outputBuffer'
      /\ wire \in Seq(Bytes) /\ outputBuffer \in Seq(Bytes)
  BY DEF IInv, StreamIntact, TypeOK
<1>3. DOMAIN onTheWay = Callers
  BY DEF onTheWay
<1>4. CASE Stream!Send
  <2>1. /\ Stream!Join(nextMessage) /\ nextMessage' = nextMessage + 1 /\ onTheWay' = onTheWay
        /\ nextMessage \in 1..MaxMessages
    BY <1>1, <1>4, SizesAssumption DEF Stream!Send, IInv, TypeOK
  <2>2. accepted' = accepted \o Message(nextMessage)
    BY <2>1, JoinAccepts DEF IInv
  <2>3. \A i \in DOMAIN accepted : accepted[i][1] # nextMessage
    BY <1>1 DEF Once
  <2>4. /\ \A i \in DOMAIN accepted' :
             \/ accepted'[i][1] = nextMessage
             \/ i \in DOMAIN accepted /\ accepted'[i] = accepted[i]
        /\ \A i, j \in DOMAIN accepted' : accepted'[i] = accepted'[j] => i = j
    BY <2>1, <2>2, <2>3, AcceptedOnce
  <2>5. ASSUME NEW i \in DOMAIN accepted'
        PROVE  /\ accepted'[i][1] < nextMessage'
               /\ \A t \in Callers : accepted'[i][1] \notin onTheWay'[t]
    <3>1. CASE accepted'[i][1] = nextMessage
      BY <1>1, <2>1, <3>1
    <3>2. CASE i \in DOMAIN accepted /\ accepted'[i] = accepted[i]
      BY <1>1, <2>1, <3>2 DEF Once
    <3> QED BY <2>4, <3>1, <3>2
  <2> QED BY <2>1, <2>4, <2>5 DEF Once
<1>5. ASSUME NEW t \in Callers, Stream!SendRemotely(t)
      PROVE  Once'
  <2>1. /\ accepted' = accepted /\ nextMessage' = nextMessage + 1
        /\ onTheWay' = [onTheWay EXCEPT ![t] = onTheWay[t] \cup {nextMessage}]
    BY <1>2, <1>5 DEF Stream!SendRemotely
  <2>2. \A u \in Callers :
          onTheWay'[u] = IF u = t THEN onTheWay[u] \cup {nextMessage} ELSE onTheWay[u]
    BY <1>3, <2>1, Zenon
  <2>3. ASSUME NEW u \in Callers, NEW v \in Callers, u # v
        PROVE  onTheWay'[u] \cap onTheWay'[v] = {}
    <3>1. onTheWay[u] \cap onTheWay[v] = {}
      BY <2>3 DEF Once
    <3>2. nextMessage \notin onTheWay[u] /\ nextMessage \notin onTheWay[v]
      BY <1>1
    <3> QED BY <2>2, <2>3, <3>1, <3>2
  <2>4. ASSUME NEW i \in DOMAIN accepted
        PROVE  /\ accepted[i][1] < nextMessage'
               /\ \A u \in Callers : accepted[i][1] \notin onTheWay'[u]
    BY <1>1, <2>1, <2>2 DEF Once
  <2> QED BY <2>1, <2>3, <2>4 DEF Once
<1>6. ASSUME NEW t \in Callers, NEW k \in onTheWay[t], Stream!Leaves(t, k),
             accepted' = accepted \/ Stream!Join(k)
      PROVE  Once'
  <2>1. /\ onTheWay' = [onTheWay EXCEPT ![t] = onTheWay[t] \ {k}]
        /\ nextMessage' = nextMessage /\ k \in 1..MaxMessages
    BY <1>1, <1>6 DEF Stream!Leaves
  <2>2. \A u \in Callers :
          onTheWay'[u] = IF u = t THEN onTheWay[u] \ {k} ELSE onTheWay[u]
    BY <1>3, <2>1, Zenon
  <2>3. \A u \in Callers : k \notin onTheWay'[u]
    BY <1>6, <2>2 DEF Once
  <2>4. \A i \in DOMAIN accepted : accepted[i][1] # k
    BY <1>6 DEF Once
  <2>5. /\ \A i \in DOMAIN accepted' :
             \/ accepted'[i][1] = k
             \/ i \in DOMAIN accepted /\ accepted'[i] = accepted[i]
        /\ \A i, j \in DOMAIN accepted' : accepted'[i] = accepted'[j] => i = j
    <3>1. CASE accepted' = accepted
      BY <3>1 DEF Once
    <3>2. CASE Stream!Join(k)
      <4>1. accepted' = accepted \o Message(k)
        BY <2>1, <3>2, JoinAccepts DEF IInv
      <4> QED BY <2>1, <2>4, <4>1, AcceptedOnce
    <3> QED BY <1>6, <3>1, <3>2
  <2>6. ASSUME NEW i \in DOMAIN accepted'
        PROVE  /\ accepted'[i][1] < nextMessage'
               /\ \A u \in Callers : accepted'[i][1] \notin onTheWay'[u]
    <3>1. CASE accepted'[i][1] = k
      BY <1>1, <1>6, <2>1, <2>3, <3>1
    <3>2. CASE i \in DOMAIN accepted /\ accepted'[i] = accepted[i]
      BY <2>1, <2>2, <3>2 DEF Once
    <3> QED BY <2>5, <3>1, <3>2
  <2>7. \A u, v \in Callers : u # v => onTheWay'[u] \cap onTheWay'[v] = {}
    BY <2>2 DEF Once
  <2> QED BY <2>5, <2>6, <2>7 DEF Once
<1>7. ASSUME NEW t \in Callers, NEW k \in onTheWay[t], Stream!Arrive(t, k) \/ Stream!Drop(t, k)
      PROVE  Once'
  BY <1>2, <1>6, <1>7 DEF Stream!Arrive, Stream!Drop
<1>8. ASSUME accepted' = accepted, onTheWay' = onTheWay, nextMessage' = nextMessage
      PROVE  Once'
  BY <1>8 DEF Once
<1>9. ASSUME NEW n \in 1..Len(outputBuffer), Stream!Take(n)
      PROVE  Once'
  <2>1. /\ wire' = wire \o SubSeq(outputBuffer, 1, n)
        /\ outputBuffer' = SubSeq(outputBuffer, n + 1, Len(outputBuffer))
        /\ onTheWay' = onTheWay /\ nextMessage' = nextMessage
    BY <1>9 DEF Stream!Take
  <2> DEFINE first == SubSeq(outputBuffer, 1, n)
             rest  == SubSeq(outputBuffer, n + 1, Len(outputBuffer))
  <2>2. /\ first \in Seq(Bytes) /\ rest \in Seq(Bytes)
        /\ outputBuffer = first \o rest
    <3>1. n \in 0..Len(outputBuffer)
      OBVIOUS
    <3> QED BY <1>2, <3>1, SplitProperties
  <2>3. wire' = wire \o first /\ outputBuffer' = rest
    BY <2>1
  <2> HIDE DEF first, rest
  <2>4. (wire \o first) \o rest = wire \o (first \o rest)
    BY <1>2, <2>2, Associative, ZenonT(60)
  <2>5. accepted' = accepted
    BY <1>2, <2>2, <2>3, <2>4
  <2> QED BY <1>8, <2>1, <2>5
<1>10. CASE Stream!SendFin \/ Stream!Close \/ UNCHANGED Stream!vars
  BY <1>2, <1>8, <1>10 DEF Stream!SendFin, Stream!Close, Stream!vars
<1> QED BY <1>4, <1>5, <1>7, <1>9, <1>10 DEF Stream!Next

\* The kernel is given no byte twice, although messages pass through calls of several
\* threads, two queues of functors and the buffer.
THEOREM EachByteOnceTheorem == Spec => []EachByteOnce
<1>1. Init => Once
  <2> SUFFICES ASSUME Init
               PROVE  Once
    OBVIOUS
  <2>1. \A t \in Callers : onTheWay[t] = {}
    BY NothingQueued DEF onTheWay
  <2>2. DOMAIN accepted = {}
    <3>1. accepted = <<>>
      BY DEF Init
    <3>2. Len(accepted) = 0 /\ accepted \in Seq(Bytes)
      BY <3>1, EmptyProperties
    <3> QED BY <3>2, LenProperties
  <2> QED BY <2>1, <2>2 DEF Once
<1>2. IInv /\ IInv' /\ Sending /\ Once /\ [Stream!Next]_(Stream!vars) => Once'
  BY OnceStep
<1>3. IInv /\ Once => EachByteOnce
  <2> SUFFICES ASSUME IInv, Once
               PROVE  EachByteOnce
    OBVIOUS
  <2>1. /\ wire \in Seq(Bytes) /\ outputBuffer \in Seq(Bytes) /\ accepted = wire \o outputBuffer
    BY DEF IInv, TypeOK, StreamIntact
  <2>2. /\ Len(wire) \in Nat /\ Len(outputBuffer) \in Nat /\ DOMAIN wire = 1..Len(wire)
        /\ accepted \in Seq(Bytes) /\ Len(accepted) = Len(wire) + Len(outputBuffer)
        /\ \A i \in 1..Len(wire) : accepted[i] = wire[i]
    BY <2>1, ConcatProperties
  <2>3. \A i \in DOMAIN wire : i \in DOMAIN accepted /\ accepted[i] = wire[i]
    BY <2>2
  <2> QED BY <2>3 DEF Once, EachByteOnce
<1>4. Spec => [][Stream!Next]_(Stream!vars)
  BY MessageStreamRefinement, PTL DEF ImplementsMessageStream, Stream!Spec
<1> QED BY <1>1, <1>2, <1>3, <1>4, Invariance, SendingInvariance, PTL DEF Spec
=============================================================================
