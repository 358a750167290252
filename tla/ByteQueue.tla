----------------------------- MODULE ByteQueue -----------------------------
(***************************************************************************)
(* What a Buffer promises: a queue of bytes.  Bytes are added at the end,  *)
(* taken from the front or put in front; where they lie in memory, and     *)
(* when memory is moved or grows, cannot be seen by a caller.              *)
(***************************************************************************)
EXTENDS Naturals, Sequences

CONSTANT Strings  \* the strings of bytes a caller may pass

VARIABLES
  call,    \* the last call: its kind and the bytes that it passed or was given
  content  \* the bytes in the queue, oldest first

vars == <<call, content>>

Init ==
  /\ call = [op |-> "none", data |-> <<>>]
  /\ content = <<>>

\* append and readFd: bytes join the end.
AddAtEnd(data) ==
  /\ call' = [op |-> "append", data |-> data]
  /\ content' = content \o data

\* prepend: bytes are put before the others.
AddInFront(data) ==
  /\ call' = [op |-> "prepend", data |-> data]
  /\ content' = data \o content

\* peek and retrieve: the caller is given the oldest len bytes.
Take(len) ==
  /\ call' = [op |-> "retrieve", data |-> SubSeq(content, 1, len)]
  /\ content' = SubSeq(content, len + 1, Len(content))

Next ==
  \/ \E data \in Strings : AddAtEnd(data) \/ AddInFront(data)
  \/ \E len \in 0..Len(content) : Take(len)

Spec == Init /\ [][Next]_vars
=============================================================================
