--------------------------- MODULE MessageStream ---------------------------
(***************************************************************************)
(* What TcpConnection::send() and shutdown() promise.  Any thread sends    *)
(* messages.  Each becomes part of one stream of bytes, whole and once,    *)
(* those of one thread in the order in which it has sent them.  The kernel *)
(* takes the stream from its front, some bytes at a time; the FIN follows  *)
(* when no byte waits, and nothing follows the FIN.  A connection that was *)
(* closed takes no message any more and drops those on their way.          *)
(***************************************************************************)
EXTENDS Integers, Sequences

CONSTANTS
  Callers,      \* the threads other than the loop's
  MessageSize   \* the number of bytes of a message

VARIABLES
  nextMessage,   \* the number of the next message
  onTheWay,      \* per thread, the messages it has sent that are not in the stream
  outputBuffer,  \* the part of the stream the kernel has not taken
  wire,          \* the part the kernel has taken
  finSent,       \* the FIN was sent
  alive          \* the connection is not closed

vars == <<nextMessage, onTheWay, outputBuffer, wire, finSent, alive>>

\* The bytes of message k.
Message(k) == [i \in 1..MessageSize |-> <<k, i>>]

Init ==
  /\ nextMessage = 1
  /\ onTheWay = [t \in Callers |-> {}]
  /\ outputBuffer = <<>>
  /\ wire = <<>>
  /\ finSent = FALSE
  /\ alive = TRUE

\* Message k joins the stream.  The kernel may take a part of it, or all, at once if
\* nothing waits before it and no FIN was sent.
Join(k) ==
  /\ \E n \in 0..MessageSize :
       /\ n > 0 => outputBuffer = <<>> /\ ~finSent
       /\ wire' = wire \o SubSeq(Message(k), 1, n)
       /\ outputBuffer' = outputBuffer \o SubSeq(Message(k), n + 1, MessageSize)
  /\ UNCHANGED <<finSent, alive>>

\* The loop thread sends a message.
Send ==
  /\ alive
  /\ nextMessage' = nextMessage + 1
  /\ Join(nextMessage)
  /\ UNCHANGED onTheWay

\* Another thread sends a message.
SendRemotely(t) ==
  /\ alive
  /\ nextMessage' = nextMessage + 1
  /\ onTheWay' = [onTheWay EXCEPT ![t] = @ \cup {nextMessage}]
  /\ UNCHANGED <<outputBuffer, wire, finSent, alive>>

\* The first message that thread t has on its way leaves it.
Leaves(t, k) ==
  /\ k \in onTheWay[t]
  /\ \A m \in onTheWay[t] : k <= m
  /\ onTheWay' = [onTheWay EXCEPT ![t] = @ \ {k}]
  /\ UNCHANGED nextMessage

\* It arrives while there is a connection, and is lost when there is none.
Arrive(t, k) == Leaves(t, k) /\ alive /\ Join(k)

Drop(t, k) == Leaves(t, k) /\ ~alive /\ UNCHANGED <<outputBuffer, wire, finSent, alive>>

\* The kernel takes n bytes that wait; the FIN may follow the last.
Take(n) ==
  /\ alive /\ ~finSent
  /\ wire' = wire \o SubSeq(outputBuffer, 1, n)
  /\ outputBuffer' = SubSeq(outputBuffer, n + 1, Len(outputBuffer))
  /\ finSent' => outputBuffer' = <<>>
  /\ finSent' \in BOOLEAN
  /\ UNCHANGED <<nextMessage, onTheWay, alive>>

\* The FIN is sent and no byte waits, or the connection is closed, or both.
SendFin ==
  /\ alive
  /\ outputBuffer = <<>>
  /\ finSent' = TRUE
  /\ alive' \in BOOLEAN
  /\ UNCHANGED <<nextMessage, onTheWay, outputBuffer, wire>>

Close ==
  /\ alive
  /\ alive' = FALSE
  /\ UNCHANGED <<nextMessage, onTheWay, outputBuffer, wire, finSent>>

Next ==
  \/ Send
  \/ \E t \in Callers :
       \/ SendRemotely(t)
       \/ \E k \in onTheWay[t] : Arrive(t, k) \/ Drop(t, k)
  \/ \E n \in 1..Len(outputBuffer) : Take(n)
  \/ SendFin \/ Close

Spec == Init /\ [][Next]_vars
=============================================================================
