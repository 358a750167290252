-------------------------- MODULE EventLoopProofs --------------------------
(***************************************************************************)
(* Proofs about EventLoop, for any number of calling threads and functors  *)
(* and any maximum of the eventfd counter.                                 *)
(***************************************************************************)
EXTENDS EventLoop, SequenceTheorems, TLAPS

-----------------------------------------------------------------------------
(* Type correctness.                                                       *)

\* The variables keep their types; in particular the eventfd counter never passes
\* its maximum, however many writes wakeup() tries.
THEOREM TypeInvariance == Spec => []TypeOK
<1>1. Init => TypeOK
  <2> SUFFICES ASSUME Init PROVE TypeOK
    OBVIOUS
  <2>1. pc \in Points /\ eventfd \in 0..MaxCount
    BY CountAssumption DEF Init, Points, UserCode
  <2>2. /\ activeChannels \in Seq(Channels)
        /\ \A s \in {pendingFunctors, functors, called} : s \in Seq(Functors)
    BY EmptySeq DEF Init
  <2> QED BY <2>1, <2>2 DEF Init, TypeOK
<1>2. TypeOK /\ [Next]_vars => TypeOK'
  <2> SUFFICES ASSUME TypeOK, [Next]_vars PROVE TypeOK'
    OBVIOUS
  <2> USE DEF TypeOK, flags, history
  <2>1. ASSUME NEW t \in Threads, NEW f \in Functors, queueInLoop(t, f)
        PROVE  TypeOK'
    BY <2>1 DEF queueInLoop
  <2>2. ASSUME NEW t \in Threads, NEW f \in Functors, runInLoop(t, f)
        PROVE  TypeOK'
    BY <2>1, <2>2 DEF runInLoop
  <2>3. ASSUME NEW t \in Threads, queueInLoopWakeup(t) PROVE TypeOK'
    BY <2>3, CountAssumption DEF queueInLoopWakeup, Written
  <2>4. ASSUME NEW t \in Threads, Quit(t) PROVE TypeOK'
    BY <2>4 DEF Quit
  <2>5. CASE Loop
    BY <2>5 DEF Loop, Points
  <2>6. CASE TestQuit
    BY <2>6 DEF TestQuit, Points, UserCode
  <2>7. CASE Poll
    <3>1. activeChannels' \in Seq(Channels)
      <4>1. PICK timer, io \in BOOLEAN :
               activeChannels' = (IF timer THEN <<"timer">> ELSE <<>>)
                              \o (IF eventfd > 0 THEN <<"wakeup">> ELSE <<>>)
                              \o (IF io THEN <<"io">> ELSE <<>>)
        BY <2>7 DEF Poll
      <4>2. \A c \in Channels, b \in BOOLEAN :
               (IF b THEN <<c>> ELSE <<>>) \in Seq(Channels)
        BY EmptySeq
      <4>3. /\ (IF timer THEN <<"timer">> ELSE <<>>) \in Seq(Channels)
            /\ (IF eventfd > 0 THEN <<"wakeup">> ELSE <<>>) \in Seq(Channels)
            /\ (IF io THEN <<"io">> ELSE <<>>) \in Seq(Channels)
        BY <4>2 DEF Channels
      <4> QED BY <4>1, <4>3, ConcatProperties
    <3> QED BY <2>7, <3>1 DEF Poll, Points
  <2>8. CASE HandleEvent
    BY <2>8 DEF HandleEvent, Points, UserCode
  <2>9. CASE HandleRead
    BY <2>9, CountAssumption DEF HandleRead, Points
  <2>10. CASE DoPendingFunctors
    BY <2>10 DEF DoPendingFunctors, Points
  <2>11. CASE CallFunctor
    BY <2>11 DEF CallFunctor, Points, UserCode
  <2>12. CASE EndFunctors
    BY <2>12 DEF EndFunctors, Points
  <2>13. CASE LoopCallback
    BY <2>13 DEF LoopCallback, Points, UserCode
  <2>14. CASE Return
    BY <2>14 DEF Return, Points
  <2>15. CASE ResetQuit
    BY <2>15 DEF ResetQuit, Points
  <2>16. CASE UNCHANGED vars
    BY <2>16 DEF vars
  <2> QED
    BY <2>1, <2>2, <2>3, <2>4, <2>5, <2>6, <2>7, <2>8, <2>9, <2>10, <2>11, <2>12,
       <2>13, <2>14, <2>15, <2>16 DEF Next, LoopStep, Threads
<1> QED BY <1>1, <1>2, PTL DEF Spec
-----------------------------------------------------------------------------
(* No lost wakeup.                                                         *)

\* The flag callingPendingFunctors_ says where the loop thread is, the swapped
\* vector is empty outside doPendingFunctors, and the loop thread leaves
\* queueInLoop before it goes on: what makes NoLostWakeup inductive.
Control ==
  /\ callingPendingFunctors <=> pc \in {"call", "functor"}
  /\ functors # <<>> => pc \in {"call", "functor"}
  /\ LoopThread \in inQueue => pc \in UserCode

\* The control invariant holds in every reachable state of the loop.
LEMMA ControlInvariance == Spec => []Control
<1>1. Init => Control
  BY DEF Init, Control
<1>2. TypeOK /\ Control /\ [Next]_vars => Control'
  <2> SUFFICES ASSUME TypeOK, Control, [Next]_vars PROVE Control'
    OBVIOUS
  <2> USE DEF TypeOK, Control, UserCode
  <2>1. ASSUME NEW t \in Threads, NEW f \in Functors, queueInLoop(t, f)
        PROVE  Control'
    BY <2>1 DEF queueInLoop, CanCall
  <2>2. ASSUME NEW t \in Threads, NEW f \in Functors, runInLoop(t, f)
        PROVE  Control'
    BY <2>1, <2>2 DEF runInLoop
  <2>3. ASSUME NEW t \in Threads, queueInLoopWakeup(t) PROVE Control'
    BY <2>3 DEF queueInLoopWakeup
  <2>4. ASSUME NEW t \in Threads, Quit(t) PROVE Control'
    BY <2>4 DEF Quit
  <2>5. CASE Loop
    BY <2>5 DEF Loop
  <2>6. CASE TestQuit
    BY <2>6 DEF TestQuit
  <2>7. CASE Poll
    BY <2>7 DEF Poll
  <2>8. CASE HandleEvent
    BY <2>8 DEF HandleEvent
  <2>9. CASE HandleRead
    BY <2>9 DEF HandleRead
  <2>10. CASE DoPendingFunctors
    BY <2>10 DEF DoPendingFunctors
  <2>11. CASE CallFunctor
    BY <2>11 DEF CallFunctor
  <2>12. CASE EndFunctors
    BY <2>12 DEF EndFunctors
  <2>13. CASE LoopCallback
    BY <2>13 DEF LoopCallback
  <2>14. CASE Return
    BY <2>14 DEF Return
  <2>15. CASE ResetQuit
    BY <2>15 DEF ResetQuit
  <2>16. CASE UNCHANGED vars
    BY <2>16 DEF vars
  <2> QED
    BY <2>1, <2>2, <2>3, <2>4, <2>5, <2>6, <2>7, <2>8, <2>9, <2>10, <2>11, <2>12,
       <2>13, <2>14, <2>15, <2>16 DEF Next, LoopStep, Threads
<1> QED BY <1>1, <1>2, TypeInvariance, PTL DEF Spec

\* The heart of NoLostWakeup: a step that neither pushes nor swaps the queue
\* keeps the promise when it keeps every reason for the wakeup.
LEMMA WakeupKept ==
  ASSUME NoLostWakeup, UNCHANGED <<pendingFunctors, unwoken>>,
         WakeupOnItsWay => WakeupOnItsWay'
  PROVE  NoLostWakeup'
BY DEF NoLostWakeup

\* A functor that another thread, or a running functor, pushed is never left in
\* the queue without a wakeup (queueInLoop, wakeup, handleRead, doPendingFunctors).
THEOREM NoLostWakeupTheorem == Spec => []NoLostWakeup
<1>1. Init => NoLostWakeup
  BY DEF Init, NoLostWakeup
<1>2. TypeOK /\ Control /\ NoLostWakeup /\ [Next]_vars => NoLostWakeup'
  <2> SUFFICES ASSUME TypeOK, Control, NoLostWakeup, [Next]_vars
               PROVE  NoLostWakeup'
    OBVIOUS
  <2> USE DEF TypeOK, history
  <2>1. ASSUME NEW t \in Threads, NEW f \in Functors, queueInLoop(t, f)
        PROVE  NoLostWakeup'
    <3>1. CASE MustWake(t)
      BY <2>1, <3>1 DEF queueInLoop, NoLostWakeup, WakeupOnItsWay, MustWake
    <3>2. CASE ~MustWake(t)
      <4> SUFFICES ASSUME NEW i \in DOMAIN pendingFunctors',
                          pendingFunctors'[i] \notin unwoken'
                   PROVE  WakeupOnItsWay'
        BY DEF NoLostWakeup
      <4>1. /\ pendingFunctors' = Append(pendingFunctors, f)
            /\ unwoken' = unwoken \cup {f}
        BY <2>1, <3>2 DEF queueInLoop
      <4>2. i \in DOMAIN pendingFunctors /\ pendingFunctors[i] \notin unwoken
        BY <4>1
      <4> QED
        BY <2>1, <4>2 DEF queueInLoop, NoLostWakeup, WakeupOnItsWay, MustWake
    <3> QED BY <3>1, <3>2
  <2>2. ASSUME NEW t \in Threads, NEW f \in Functors, runInLoop(t, f)
        PROVE  NoLostWakeup'
    <3>1. CASE isInLoopThread(t)
      <4>1. /\ UNCHANGED <<pendingFunctors, unwoken>>
            /\ UNCHANGED <<pc, eventfd, inQueue, callingPendingFunctors>>
        BY <2>2, <3>1 DEF runInLoop
      <4> QED BY <4>1, WakeupKept DEF WakeupOnItsWay, MustWake
    <3> QED BY <2>1, <2>2, <3>1 DEF runInLoop
  <2>3. ASSUME NEW t \in Threads, queueInLoopWakeup(t) PROVE NoLostWakeup'
    <3>1. WakeupOnItsWay => WakeupOnItsWay'
      BY <2>3, CountAssumption
      DEF queueInLoopWakeup, WakeupOnItsWay, MustWake, Written
    <3> QED BY <2>3, <3>1, WakeupKept DEF queueInLoopWakeup
  <2>4. CASE /\ UNCHANGED <<pendingFunctors, unwoken>>
             /\ UNCHANGED <<eventfd, inQueue, callingPendingFunctors>>
             /\ pc # "swap"
    BY <2>4, WakeupKept DEF WakeupOnItsWay, MustWake
  <2>5. ASSUME NEW t \in Threads, Quit(t) PROVE NoLostWakeup'
    <3>1. WakeupOnItsWay => WakeupOnItsWay'
      BY <2>5 DEF Quit, WakeupOnItsWay, MustWake
    <3> QED BY <2>5, <3>1, WakeupKept DEF Quit
  <2>6. CASE \/ Loop \/ ResetQuit \/ TestQuit \/ Poll \/ HandleEvent
             \/ LoopCallback \/ Return
    BY <2>4, <2>6 DEF Loop, ResetQuit, TestQuit, Poll, HandleEvent, LoopCallback, Return
  <2>7. CASE HandleRead
    BY <2>7, WakeupKept DEF HandleRead, WakeupOnItsWay
  <2>8. CASE DoPendingFunctors
    BY <2>8 DEF DoPendingFunctors, NoLostWakeup
  <2>9. CASE CallFunctor
    BY <2>4, <2>9 DEF CallFunctor
  <2>10. CASE EndFunctors
    \* The flag is cleared, but the loop thread is not inside queueInLoop.
    <3>1. LoopThread \notin inQueue
      BY <2>10 DEF EndFunctors, Control, UserCode
    <3>2. WakeupOnItsWay => WakeupOnItsWay'
      BY <2>10, <3>1 DEF EndFunctors, WakeupOnItsWay, MustWake, isInLoopThread
    <3> QED BY <2>10, <3>2, WakeupKept DEF EndFunctors
  <2>11. CASE UNCHANGED vars
    BY <2>11, WakeupKept DEF vars, WakeupOnItsWay, MustWake
  <2> QED
    BY <2>1, <2>2, <2>3, <2>5, <2>6, <2>7, <2>8, <2>9, <2>10, <2>11
    DEF Next, LoopStep, Threads
<1> QED BY <1>1, <1>2, TypeInvariance, ControlInvariance, PTL DEF Spec
-----------------------------------------------------------------------------
(* The batch, and the FIFO executor.                                       *)

\* While the loop is in doPendingFunctors the swapped vector only shrinks: no
\* functor joins the running batch, so doPendingFunctors returns.
THEOREM BatchNeverGrowsTheorem == Spec => BatchNeverGrows
<1>1. TypeOK /\ Control /\ [Next]_vars
        => [callingPendingFunctors /\ callingPendingFunctors'
              => Len(functors') <= Len(functors)]_vars
  <2> SUFFICES ASSUME TypeOK, Control, Next,
                      callingPendingFunctors, callingPendingFunctors'
               PROVE  Len(functors') <= Len(functors)
    OBVIOUS
  <2>1. CASE CallFunctor
    BY <2>1 DEF CallFunctor, TypeOK
  <2>2. CASE DoPendingFunctors
    BY <2>2 DEF DoPendingFunctors, Control
  <2>3. CASE UNCHANGED functors
    BY <2>3 DEF TypeOK
  <2> QED
    BY <2>1, <2>2, <2>3
    DEF Next, LoopStep, Loop, ResetQuit, TestQuit, Poll, HandleEvent, HandleRead, EndFunctors,
        LoopCallback, Return, queueInLoop, queueInLoopWakeup, runInLoop, Quit
<1> QED BY <1>1, TypeInvariance, ControlInvariance, PTL DEF Spec, BatchNeverGrows

\* What a queue made of two vectors does when the oldest entry is taken or a new
\* one is pushed.
LEMMA TwoVectors ==
  ASSUME NEW S, NEW front \in Seq(S), NEW back \in Seq(S)
  PROVE  /\ \A x \in S : front \o Append(back, x) = Append(front \o back, x)
         /\ front # <<>> =>
              /\ front \o back # <<>>
              /\ Head(front \o back) = Head(front)
              /\ Tail(front \o back) = Tail(front) \o back
<1>1. ASSUME NEW x \in S
      PROVE  front \o Append(back, x) = Append(front \o back, x)
  <2>1. <<x>> \in Seq(S)
    OBVIOUS
  <2>2. front \o (back \o <<x>>) = (front \o back) \o <<x>>
    BY <2>1, ConcatAssociative
  <2>3. front \o back \in Seq(S)
    BY ConcatProperties
  <2> QED BY <2>2, <2>3, AppendIsConcat
<1>2. ASSUME front # <<>>
      PROVE  /\ front \o back # <<>>
             /\ Head(front \o back) = Head(front)
             /\ Tail(front \o back) = Tail(front) \o back
  <2>1. Len(front) > 0
    BY <1>2
  <2>2. /\ Len(front \o back) = Len(front) + Len(back)
        /\ front \o back \in Seq(S)
        /\ front \o back # <<>>
    BY <2>1, ConcatProperties
  <2>3. Head(front \o back) = Head(front)
    BY <2>1, <2>2
  <2>4. /\ Tail(front \o back) \in Seq(S)
        /\ Tail(front) \in Seq(S)
        /\ Tail(front) \o back \in Seq(S)
    BY <1>2, <2>2, HeadTailProperties, ConcatProperties
  <2>5. Len(Tail(front \o back)) = Len(Tail(front) \o back)
    BY <1>2, <2>2, <2>4
  <2>6. \A i \in 1..Len(Tail(front \o back)) :
           Tail(front \o back)[i] = (Tail(front) \o back)[i]
    BY <1>2, <2>1, <2>2, <2>4
  <2>7. Tail(front \o back) = Tail(front) \o back
    BY <2>4, <2>5, <2>6, SeqEqual
  <2> QED BY <2>2, <2>3, <2>7
<1> QED BY <1>1, <1>2

\* The loop implements the FIFO executor: each functor handed to queueInLoop is
\* called at most once and in the order of the push_backs, whatever the batches.
THEOREM ExecutorRefinement == Spec => ImplementsExecutor
<1>1. Init => Executor!Init
  BY DEF Init, Executor!Init
<1>2. TypeOK /\ Control /\ [Next]_vars => [Executor!Next]_(Executor!vars)
  <2> SUFFICES ASSUME TypeOK, Control, [Next]_vars
               PROVE  Executor!Next \/ UNCHANGED Executor!vars
    OBVIOUS
  <2> DEFINE queue == functors \o pendingFunctors
  <2>0. functors \in Seq(Functors) /\ pendingFunctors \in Seq(Functors)
    BY DEF TypeOK
  <2>1. ASSUME NEW t \in Threads, NEW f \in Functors, queueInLoop(t, f)
        PROVE  Executor!Submit(f)
    <3>1. queue' = Append(queue, f)
      BY <2>0, <2>1, TwoVectors DEF queueInLoop
    <3> QED BY <2>1, <3>1 DEF queueInLoop, Executor!Submit
  <2>2. CASE CallFunctor
    <3>1. queue # <<>> /\ Head(queue) = Head(functors) /\ queue' = Tail(queue)
      BY <2>0, <2>2, TwoVectors DEF CallFunctor
    <3> QED BY <2>2, <3>1 DEF CallFunctor, Executor!Call, Executor!Next
  <2>3. CASE DoPendingFunctors
    <3>1. functors = <<>>
      BY <2>3 DEF DoPendingFunctors, Control
    <3>2. queue' = queue
      BY <2>0, <2>3, <3>1, ConcatEmptySeq DEF DoPendingFunctors
    <3> QED BY <2>3, <3>2 DEF DoPendingFunctors, history, Executor!vars
  <2>4. CASE UNCHANGED <<functors, pendingFunctors, called>>
    BY <2>4 DEF Executor!vars
  <2>5. ASSUME NEW t \in Threads, NEW f \in Functors, runInLoop(t, f)
        PROVE  Executor!Next \/ UNCHANGED Executor!vars
    BY <2>1, <2>4, <2>5 DEF runInLoop, Executor!Next
  <2> QED
    BY <2>1, <2>2, <2>3, <2>4, <2>5
    DEF Next, LoopStep, Loop, ResetQuit, TestQuit, Poll, HandleEvent, HandleRead, EndFunctors,
        LoopCallback, Return, queueInLoopWakeup, Quit, history, vars, Executor!Next
<1> QED
  BY <1>1, <1>2, TypeInvariance, ControlInvariance, PTL
  DEF Spec, ImplementsExecutor, Executor!Spec
=============================================================================
