---------------------------- MODULE LoopExecutor ----------------------------
(***************************************************************************)
(* What EventLoop::queueInLoop promises its callers: the loop is a FIFO    *)
(* executor.  A functor that is submitted joins the end of one queue, the  *)
(* loop thread calls the functor at the front, and nothing else happens to *)
(* the queue.  EventLoop (mutex, swap of the pending vector, eventfd) is   *)
(* shown to implement this module.                                         *)
(***************************************************************************)
EXTENDS Sequences

CONSTANT Functors  \* the callbacks that may be submitted

VARIABLES
  queue,   \* submitted, not yet called, oldest first
  called   \* called so far, in the order of the calls

vars == <<queue, called>>

Init ==
  /\ queue = <<>>
  /\ called = <<>>

\* Any thread: EventLoop::queueInLoop(f).
Submit(f) ==
  /\ queue' = Append(queue, f)
  /\ UNCHANGED called

\* The loop thread calls the oldest functor.
Call ==
  /\ queue # <<>>
  /\ called' = Append(called, Head(queue))
  /\ queue' = Tail(queue)

Next == (\E f \in Functors : Submit(f)) \/ Call

Spec == Init /\ [][Next]_vars
=============================================================================
