---------------------------- MODULE TcpConnection ----------------------------
(***************************************************************************)
(* cppnetool::net::TcpConnection, its way out: send() and shutdown() on    *)
(* the loop thread and on others, the output buffer, the interest in       *)
(* writing, and the end of the connection.  The owner is a TcpClient or a  *)
(* TcpServer with one loop: its close callback destroys the connection at  *)
(* once, on the loop thread.                                               *)
(*                                                                         *)
(* The buffers are the queues of bytes that Buffer is shown to implement;  *)
(* of what is received only the end is kept.  Of the loop there is what    *)
(* the order of its calls depends on: poll() finds the wakeup channel and  *)
(* channel_ active, and the batch of functors is called before channel_ is *)
(* handled.  A push and its wakeup() are one step here; EventLoop has them *)
(* apart.                                                                  *)
(***************************************************************************)
EXTENDS Integers, Sequences

CONSTANTS
  Callers,      \* the threads other than the loop's
  LoopThread,
  None,         \* no thread
  MaxMessages,  \* bound: the number of messages sent
  MessageSize   \* the number of bytes of each

ASSUME ThreadsAssumption == LoopThread \notin Callers /\ None \notin Callers \cup {LoopThread}
ASSUME SizesAssumption == MaxMessages \in Nat /\ MessageSize \in Nat \ {0}

VARIABLES
  state,            \* state_, written and read by any thread without a lock
  events,           \* the interest of channel_
  outputBuffer,     \* the readable bytes of outputBuffer_
  alive,            \* the object exists
  revents,          \* what poll() found and is not handled yet: of channel_ "in"
                    \* and "out", and "wakeup"
  handling,         \* the loop thread is between the callbacks of handleEvent
  pendingFunctors,  \* of the loop
  functors,         \* the batch doPendingFunctors is calling
  calling,          \* callingPendingFunctors_
  woken,            \* the eventfd is readable
  caller,           \* what each other thread is doing in send() or shutdown()
  peer,             \* what has been heard from the peer
  wire,             \* bytes given to the kernel, in order
  finSent,          \* shutdown(SHUT_WR) has been called
  nextMessage,      \* the number of the next message
  accepted,         \* history: bytes of the messages sendInLoop was called with
  shutter           \* history: the thread whose shutdown() was the first

connection == <<state, events, outputBuffer, alive>>
dispatch   == <<revents, handling, functors, calling>>
queue      == <<pendingFunctors, woken>>
socket     == <<peer, wire, finSent>>
vars       == <<connection, dispatch, queue, caller, socket, nextMessage,
                accepted, shutter>>

Threads == Callers \cup {LoopThread}
Bytes   == (1..MaxMessages) \X (1..MessageSize)

\* The message with number k: its bytes can be told from those of all others.
Message(k) == [i \in 1..MessageSize |-> <<k, i>>]

States == {"kConnecting", "kConnected", "kDisconnecting", "kDisconnected"}

Functor ==
  [op : {"sendInLoop"}, by : Callers, message : 1..MaxMessages]
    \cup [op : {"shutdownInLoop", "writeComplete"}]

\* Where a thread is: outside, or past the test of state_ in send() or shutdown(),
\* or past setState() in shutdown().
Call ==
  [at : {"send"}, message : 1..MaxMessages]
    \cup [at : {"outside", "shutdown", "shutdownInLoop"}, message : {0}]

Outside == [at |-> "outside", message |-> 0]

TypeOK ==
  /\ state \in States
  /\ events \subseteq {"read", "write"}
  /\ outputBuffer \in Seq(Bytes)
  /\ alive \in BOOLEAN
  /\ revents \subseteq {"wakeup", "in", "out"}
  /\ handling \in BOOLEAN
  /\ pendingFunctors \in Seq(Functor)
  /\ functors \in Seq(Functor)
  /\ calling \in BOOLEAN
  /\ functors # <<>> => calling
  /\ woken \in BOOLEAN
  /\ caller \in [Callers -> Call]
  /\ peer \in {"open", "fin", "error", "reset"}
  /\ wire \in Seq(Bytes)
  /\ finSent \in BOOLEAN
  /\ nextMessage \in 1..MaxMessages + 1
  /\ accepted \in Seq(Bytes)
  /\ shutter \in Threads \cup {None}

\* A connection that was just made for an accepted or connected socket.
Init ==
  /\ state = "kConnecting"
  /\ events = {}
  /\ outputBuffer = <<>>
  /\ alive = TRUE
  /\ revents = {}
  /\ handling = FALSE
  /\ pendingFunctors = <<>>
  /\ functors = <<>>
  /\ calling = FALSE
  /\ woken = FALSE
  /\ caller = [t \in Callers |-> Outside]
  /\ peer = "open"
  /\ wire = <<>>
  /\ finSent = FALSE
  /\ nextMessage = 1
  /\ accepted = <<>>
  /\ shutter = None

isWriting == "write" \in events

FirstShutter(t) == IF shutter = None THEN t ELSE shutter

\* queueInLoop on the loop thread, of writeCompleteCallback_.
QueueWriteComplete ==
  /\ pendingFunctors' = Append(pendingFunctors, [op |-> "writeComplete"])
  /\ woken' = (woken \/ calling)

\* Mutant: the functor called last is the one that was pushed first.
Push_InFront(functor) ==
  /\ pendingFunctors' = <<functor>> \o pendingFunctors
  /\ woken' = TRUE

\* queueInLoop on another thread.
Push(functor) ==
  /\ pendingFunctors' = Append(pendingFunctors, functor)
  /\ woken' = TRUE

-----------------------------------------------------------------------------
(* write(2).                                                               *)

\* EPIPE or ECONNRESET.
WriteFails == finSent \/ peer \in {"error", "reset"}

\* Mutant: sendInLoop does not look at what waits already.
WritesDirectly_Always == TRUE

\* The test of sendInLoop: nothing is in the output queue.
WritesDirectly == ~isWriting /\ outputBuffer = <<>>

\* The numbers of bytes write(2) may take from sendInLoop; an error is none.
TakenDirectly(message) ==
  IF WritesDirectly /\ ~WriteFails THEN 0..Len(message) ELSE {0}

\* The numbers it may take from handleWrite, the socket being writable.
TakenFromBuffer ==
  IF WriteFails \/ outputBuffer = <<>> THEN {0} ELSE 1..Len(outputBuffer)

-----------------------------------------------------------------------------
(* send() and shutdown() on the loop thread.                               *)

\* Mutant: enableWriting() is forgotten.
WritingEnabled_Forgotten(rest) == events

\* enableWriting() if a rest of the message had to be buffered.
WritingEnabled(rest) == IF rest # <<>> THEN events \cup {"write"} ELSE events

sendInLoop(message) ==
  /\ \E n \in TakenDirectly(message) :
       LET rest == SubSeq(message, n + 1, Len(message))
       IN  /\ wire' = wire \o SubSeq(message, 1, n)
           /\ outputBuffer' = outputBuffer \o rest
           /\ events' = WritingEnabled(rest)
           /\ IF rest = <<>> THEN QueueWriteComplete ELSE UNCHANGED queue
  /\ accepted' = accepted \o message
  /\ UNCHANGED <<state, alive, peer, finSent>>

\* Mutant: the FIN is sent although bytes wait.
FinDue_Always == TRUE

\* The test of shutdownInLoop.
FinDue == ~isWriting

shutdownInLoop == finSent' = (finSent \/ FinDue)

\* The loop thread is in code of the user (in a callback of this connection or of
\* something else of its loop) and the connection still exists.
InUserCode == alive /\ ~handling

send ==
  /\ InUserCode
  /\ state = "kConnected"
  /\ nextMessage <= MaxMessages
  /\ nextMessage' = nextMessage + 1
  /\ sendInLoop(Message(nextMessage))
  /\ UNCHANGED <<dispatch, caller, shutter>>

shutdown ==
  /\ InUserCode
  /\ state = "kConnected"
  /\ state' = "kDisconnecting"
  /\ shutter' = FirstShutter(LoopThread)
  /\ shutdownInLoop
  /\ UNCHANGED <<events, outputBuffer, alive, dispatch, queue, caller, peer, wire,
                 nextMessage, accepted>>

-----------------------------------------------------------------------------
(* send() and shutdown() on another thread, from a test of state_ to the     *)
(* functor.                                                                 *)

SendRemotely(t) ==
  /\ alive
  /\ caller[t] = Outside
  /\ state = "kConnected"
  /\ nextMessage <= MaxMessages
  /\ nextMessage' = nextMessage + 1
  /\ caller' = [caller EXCEPT ![t] = [at |-> "send", message |-> nextMessage]]
  /\ UNCHANGED <<connection, dispatch, queue, socket, accepted, shutter>>

PushSend(t) ==
  /\ caller[t].at = "send"
  /\ Push([op |-> "sendInLoop", by |-> t, message |-> caller[t].message])
  /\ caller' = [caller EXCEPT ![t] = Outside]
  /\ UNCHANGED <<connection, dispatch, socket, nextMessage, accepted, shutter>>

ShutdownRemotely(t) ==
  /\ alive
  /\ caller[t] = Outside
  /\ state = "kConnected"
  /\ caller' = [caller EXCEPT ![t] = [at |-> "shutdown", message |-> 0]]
  /\ UNCHANGED <<connection, dispatch, queue, socket, nextMessage, accepted, shutter>>

\* setState(kDisconnecting), whatever state_ has become since it was tested.
SetDisconnecting(t) ==
  /\ caller[t].at = "shutdown"
  /\ state' = "kDisconnecting"
  /\ shutter' = FirstShutter(t)
  /\ caller' = [caller EXCEPT ![t] = [at |-> "shutdownInLoop", message |-> 0]]
  /\ UNCHANGED <<events, outputBuffer, alive, dispatch, queue, socket, nextMessage,
                 accepted>>

PushShutdown(t) ==
  /\ caller[t].at = "shutdownInLoop"
  /\ Push([op |-> "shutdownInLoop"])
  /\ caller' = [caller EXCEPT ![t] = Outside]
  /\ UNCHANGED <<connection, dispatch, socket, nextMessage, accepted, shutter>>

-----------------------------------------------------------------------------
(* The loop and the handlers of channel_.                                  *)

\* The handler of the wakeup channel, first of those that poll() found.
HandleWakeup ==
  /\ "wakeup" \in revents
  /\ revents' = revents \ {"wakeup"}
  /\ woken' = FALSE
  /\ calling' = TRUE
  /\ functors' = pendingFunctors
  /\ pendingFunctors' = <<>>
  /\ UNCHANGED <<connection, handling, caller, socket, nextMessage, accepted, shutter>>

\* The next functor of the batch.  A functor of a connection that was destroyed
\* works on freed memory; the model drops it.
CallFunctor ==
  /\ calling
  /\ functors # <<>>
  /\ functors' = Tail(functors)
  /\ LET functor == Head(functors)
     IN  \/ /\ functor.op = "sendInLoop" /\ alive
            /\ sendInLoop(Message(functor.message))
         \/ /\ functor.op = "shutdownInLoop" /\ alive
            /\ shutdownInLoop
            /\ UNCHANGED <<connection, queue, peer, wire, accepted>>
         \/ /\ functor.op = "writeComplete" \/ ~alive
            /\ UNCHANGED <<connection, queue, socket, accepted>>
  /\ UNCHANGED <<revents, handling, calling, caller, nextMessage, shutter>>

\* The end of doPendingFunctors.
EndFunctors ==
  /\ calling
  /\ functors = <<>>
  /\ calling' = FALSE
  /\ UNCHANGED <<connection, revents, handling, functors, queue, caller, socket,
                 nextMessage, accepted, shutter>>

connectEstablished ==
  /\ state = "kConnecting"
  /\ state' = "kConnected"
  /\ events' = events \cup {"read"}
  /\ UNCHANGED <<outputBuffer, alive, dispatch, queue, caller, socket, nextMessage,
                 accepted, shutter>>

\* poll(): the end of the input, or an error, is always reported; data may have
\* come, and the socket may be writable, or not.  It always is once it is shut
\* down or reset.
Poll ==
  /\ revents = {}
  /\ ~calling
  /\ revents' \in SUBSET {"wakeup", "in", "out"}
  /\ "wakeup" \in revents' <=> woken
  /\ "in" \in revents' => "read" \in events
  /\ "out" \in revents' => isWriting
  /\ "read" \in events /\ peer # "open" => "in" \in revents'
  /\ isWriting /\ WriteFails => "out" \in revents'
  /\ UNCHANGED <<connection, handling, functors, calling, queue, caller, socket,
                 nextMessage, accepted, shutter>>

\* outputBuffer_ after retrieve(n).
Remaining(n) == SubSeq(outputBuffer, n + 1, Len(outputBuffer))

\* Mutant: handleWrite does not look at state_.
FinWaits_Never == FALSE

\* The test handleWrite makes when it has written everything.
FinWaits == state = "kDisconnecting"

\* handleWrite when write(2) has taken n bytes, more than none.
Written(n) ==
  /\ wire' = wire \o SubSeq(outputBuffer, 1, n)
  /\ outputBuffer' = Remaining(n)
  /\ IF Remaining(n) = <<>>
     THEN /\ events' = events \ {"write"}
          /\ QueueWriteComplete
          /\ finSent' = (finSent \/ FinWaits)
     ELSE UNCHANGED <<events, queue, finSent>>

\* handleEvent up to the return of the write callback, handleWrite.
HandleWrite ==
  /\ "out" \in revents
  /\ "wakeup" \notin revents /\ ~calling
  /\ revents' = revents \ {"out"}
  /\ handling' = ("in" \in revents)
  /\ \/ /\ isWriting
        /\ \E n \in TakenFromBuffer : n > 0 /\ Written(n)
     \/ /\ ~isWriting \/ 0 \in TakenFromBuffer
        /\ UNCHANGED <<events, outputBuffer, queue, wire, finSent>>
  /\ UNCHANGED <<state, alive, functors, calling, caller, peer, nextMessage, accepted,
                 shutter>>

\* connectDestroyed, and the release of the last reference by the owner.
connectDestroyed ==
  /\ events' = {}
  /\ state' = "kDisconnected"
  /\ alive' = FALSE

\* handleClose: the owner's close callback destroys the connection.  Before that the user's
\* close callback is called, and the connection callback after it, when disableAll() has
\* dropped the interest: those of the repository only log and neither send nor shut down.
handleClose == connectDestroyed

\* The read callback, handleRead.  A reset is reported as an error once (POLLERR
\* makes handleError take it first, perhaps) and as the end of the input then.
HandleRead ==
  /\ "in" \in revents
  /\ {"wakeup", "out"} \cap revents = {} /\ ~calling
  /\ revents' = {}
  /\ handling' = FALSE
  /\ \/ peer = "open" /\ UNCHANGED <<state, events, alive, peer>>
     \/ peer = "error" /\ peer' = "reset" /\ UNCHANGED <<state, events, alive>>
     \/ peer # "open" /\ handleClose /\ UNCHANGED peer
  /\ UNCHANGED <<outputBuffer, functors, calling, queue, caller, wire, finSent,
                 nextMessage, accepted, shutter>>

\* shutdownAll, on the loop thread: it does nothing if shutdown() was called before.
\* The interest in reading is on, so that side is not shut down.
shutdownAll ==
  IF state = "kConnected" THEN shutdownInLoop ELSE UNCHANGED finSent

\* The owner ends the connection between two rounds of the loop, as TcpServer's
\* removeConn and TcpClient's destructor do for a session that is over: what waits
\* in the buffer is not written any more.
ownerDestroys ==
  /\ alive
  /\ revents = {} /\ ~calling
  /\ state \in {"kConnected", "kDisconnecting"}
  /\ shutdownAll
  /\ connectDestroyed
  /\ UNCHANGED <<outputBuffer, dispatch, queue, caller, peer, wire, nextMessage,
                 accepted, shutter>>

\* The peer shuts down its side, or resets the connection.
PeerCloses ==
  /\ alive
  /\ \/ peer = "open" /\ peer' = "fin"
     \/ peer \in {"open", "fin"} /\ peer' = "error"
  /\ UNCHANGED <<connection, dispatch, queue, caller, wire, finSent, nextMessage,
                 accepted, shutter>>

-----------------------------------------------------------------------------

LoopStep ==
  Poll \/ HandleWakeup \/ CallFunctor \/ EndFunctors \/ HandleWrite \/ HandleRead

CallerStep(t) == PushSend(t) \/ SetDisconnecting(t) \/ PushShutdown(t)

Next ==
  \/ connectEstablished \/ send \/ shutdown
  \/ \E t \in Callers : SendRemotely(t) \/ ShutdownRemotely(t) \/ CallerStep(t)
  \/ LoopStep
  \/ ownerDestroys
  \/ PeerCloses

Spec == Init /\ [][Next]_vars

\* The loop goes on, and threads leave send() and shutdown().  The peer, or the
\* system on its behalf, takes bytes again and again: poll() reports the socket
\* writable infinitely often while the loop asks for it.  Nobody has to send, to
\* shut down or to close.
Fairness ==
  /\ WF_vars(LoopStep)
  /\ SF_vars(Poll /\ "out" \in revents')
  /\ \A t \in Callers : WF_vars(CallerStep(t))

FairSpec == Spec /\ Fairness

-----------------------------------------------------------------------------
(* The refinement.                                                         *)

\* The functors to be called, in order.
Queued == functors \o pendingFunctors

SendsFor(functor, t) == functor.op = "sendInLoop" /\ functor.by = t

\* The messages that the functors of a queue send for thread t.
MessagesOf(q, t) == {q[i].message : i \in {j \in DOMAIN q : SendsFor(q[j], t)}}

\* Per thread, what it has sent and sendInLoop was not called with: the messages of
\* functors, and the one between the test of state_ and the push.
onTheWay ==
  [t \in Callers |->
     MessagesOf(Queued, t)
       \cup (IF caller[t].at = "send" THEN {caller[t].message} ELSE {})]

Stream == INSTANCE MessageStream WITH onTheWay <- onTheWay

\* Seen from its users the way out is a MessageStream: the messages of a thread are
\* accepted once and in the order of their send(), whichever of the functors, the
\* buffer and the direct write they pass through, and nothing follows the FIN.
ImplementsMessageStream == Stream!Spec

-----------------------------------------------------------------------------
(* Properties.                                                             *)

\* No byte is lost, repeated or moved on its way through partial writes, the
\* buffer and direct writes: what the kernel was given, then what waits, is what
\* sendInLoop was given.
StreamIntact == accepted = wire \o outputBuffer

\* While the connection exists, it asks for POLLOUT exactly when bytes wait: none is left
\* without it, and it is dropped with the last one.
WritingWhilePending == alive => (isWriting <=> outputBuffer # <<>>)

\* The FIN goes out only when no accepted byte waits in the buffer, whichever of
\* shutdownInLoop and handleWrite sends it.
FinAfterBytes == [][finSent' /\ ~finSent => outputBuffer' = <<>>]_vars

\* A shutdown is carried out, however late the bytes before it are written.
ShutdownSendsFin == (state = "kDisconnecting") ~> (finSent \/ ~alive)

\* What waits in the buffer is written while the peer takes it.
BytesGoOut == (outputBuffer # <<>>) ~> (outputBuffer = <<>> \/ finSent \/ ~alive)

\* "Thread safe": what a thread has sent before it calls shutdown() is accepted
\* before the FIN is sent.
SentBeforeShutdown ==
  finSent => \A i \in DOMAIN (functors \o pendingFunctors) :
               LET functor == (functors \o pendingFunctors)[i]
               IN  ~(functor.op = "sendInLoop" /\ functor.by = shutter)
=============================================================================
