------------------------------ MODULE EventLoop ------------------------------
(***************************************************************************)
(* cppnetool::net::EventLoop: one thread runs loop(), any thread hands it  *)
(* functors with queueInLoop/runInLoop or asks it to stop with quit().     *)
(*                                                                         *)
(* The steps are those between which another thread can run: the critical  *)
(* section of queueInLoop and the wakeup() that follows it are two steps,  *)
(* the read of the eventfd and the swap in doPendingFunctors are two, and  *)
(* so are the two stores at the beginning of loop().                       *)
(* Poller, timers and sockets appear only through the list of channels     *)
(* that poll() returns; the body of a callback is whatever sequence of     *)
(* calls to this class it may make.                                        *)
(***************************************************************************)
EXTENDS Naturals, Sequences, Functions

CONSTANTS
  Callers,     \* the threads other than the one that owns the loop
  LoopThread,  \* the owner (threadId_)
  Functors,    \* callbacks; each stands for one call of queueInLoop/runInLoop
  MaxCount     \* largest value of the eventfd counter (2^64 - 2 in the kernel)

ASSUME ThreadsAssumption == LoopThread \notin Callers
ASSUME CountAssumption == MaxCount \in Nat \ {0}

VARIABLES
  pc,                     \* where the loop thread is
  activeChannels,         \* channels still to be handled in this iteration
  looping,
  quit,
  callingPendingFunctors,
  pendingFunctors,        \* guarded by mutex_
  functors,               \* the vector doPendingFunctors swapped out, rest of it
  eventfd,                \* counter behind wakeupFd_
  inQueue,                \* threads inside queueInLoop, past its critical section
  submitted,              \* history: functors already handed to the loop
  unwoken,                \* history: pushed by a thread that will not wake the loop
  called                  \* history: queued functors called so far, in order

vars == <<pc, activeChannels, looping, quit, callingPendingFunctors,
          pendingFunctors, functors, eventfd, inQueue, submitted, unwoken, called>>

flags   == <<looping, quit>>
history == <<submitted, unwoken, called>>

Threads == Callers \cup {LoopThread}

\* Points of the loop thread at which code of the library's user runs: before
\* loop() is called, in a channel's handler, in a functor, in loopCallback_,
\* after loop() has returned.
UserCode == {"init", "handler", "functor", "loopCallback", "exit"}
Points   == UserCode \cup {"start", "while", "poll", "dispatch", "swap", "call"}

\* timerfd and wakeupFd_ are registered by the constructors and are never
\* removed, so they stay first and second in pollfds_; "io" is any later one.
Channels == {"timer", "wakeup", "io"}

TypeOK ==
  /\ pc \in Points
  /\ activeChannels \in Seq(Channels)
  /\ looping \in BOOLEAN
  /\ quit \in BOOLEAN
  /\ callingPendingFunctors \in BOOLEAN
  /\ pendingFunctors \in Seq(Functors)
  /\ functors \in Seq(Functors)
  /\ eventfd \in 0..MaxCount
  /\ inQueue \subseteq Threads
  /\ submitted \subseteq Functors
  /\ unwoken \subseteq Functors
  /\ called \in Seq(Functors)

\* The constructor; the flags and the queues are empty.
Init ==
  /\ pc = "init"
  /\ activeChannels = <<>>
  /\ looping = FALSE
  /\ quit = FALSE
  /\ callingPendingFunctors = FALSE
  /\ pendingFunctors = <<>>
  /\ functors = <<>>
  /\ eventfd = 0
  /\ inQueue = {}
  /\ submitted = {}
  /\ unwoken = {}
  /\ called = <<>>

-----------------------------------------------------------------------------
(* Calls any thread may make.                                              *)

\* Thread t is at a point of its own code where it may call the loop.
CanCall(t) ==
  /\ t \notin inQueue
  /\ t = LoopThread => pc \in UserCode

isInLoopThread(t) == t = LoopThread

\* The condition under which queueInLoop calls wakeup().
MustWake(t) == ~isInLoopThread(t) \/ callingPendingFunctors

\* queueInLoop, first half: push_back under the mutex.
queueInLoop(t, f) ==
  /\ CanCall(t)
  /\ f \notin submitted
  /\ pendingFunctors' = Append(pendingFunctors, f)
  /\ inQueue' = inQueue \cup {t}
  /\ submitted' = submitted \cup {f}
  /\ unwoken' = IF MustWake(t) THEN unwoken ELSE unwoken \cup {f}
  /\ UNCHANGED <<pc, activeChannels, callingPendingFunctors, functors, eventfd,
                 called, flags>>

\* The write of wakeup(): the eventfd is non-blocking, so a write that would
\* pass MaxCount fails and is only logged.
Written(count) == IF count < MaxCount THEN count + 1 ELSE count

\* Mutant: the test of the calling thread is left out.
queueInLoopWakeup_NotRemote(t) ==
  /\ t \in inQueue
  /\ inQueue' = inQueue \ {t}
  /\ eventfd' = IF callingPendingFunctors THEN Written(eventfd) ELSE eventfd
  /\ UNCHANGED <<pc, activeChannels, callingPendingFunctors, pendingFunctors,
                 functors, flags, history>>

\* queueInLoop, second half: test whether to wake the loop, and do it.
queueInLoopWakeup(t) ==
  /\ t \in inQueue
  /\ inQueue' = inQueue \ {t}
  /\ eventfd' = IF MustWake(t) THEN Written(eventfd) ELSE eventfd
  /\ UNCHANGED <<pc, activeChannels, callingPendingFunctors, pendingFunctors,
                 functors, flags, history>>

\* runInLoop: on the loop thread the functor is called on the spot (its body is
\* part of the code the thread is already running), elsewhere it is queued.
runInLoop(t, f) ==
  IF isInLoopThread(t)
  THEN /\ CanCall(t)
       /\ f \notin submitted
       /\ submitted' = submitted \cup {f}
       /\ UNCHANGED <<pc, activeChannels, callingPendingFunctors, pendingFunctors,
                      functors, eventfd, inQueue, unwoken, called, flags>>
  ELSE queueInLoop(t, f)

\* quit(): a plain store, no wakeup.
Quit(t) ==
  /\ CanCall(t)
  /\ quit' = TRUE
  /\ UNCHANGED <<pc, activeChannels, looping, callingPendingFunctors,
                 pendingFunctors, functors, eventfd, inQueue, history>>

-----------------------------------------------------------------------------
(* loop(), executed by the loop thread.                                    *)

\* Entry of loop(), up to looping_ = true.
Loop ==
  /\ pc \in {"init", "exit"}
  /\ LoopThread \notin inQueue
  /\ ~looping
  /\ looping' = TRUE
  /\ pc' = "start"
  /\ UNCHANGED <<activeChannels, quit, callingPendingFunctors, pendingFunctors,
                 functors, eventfd, inQueue, history>>

\* The next store: it forgets a quit() that came before it.
ResetQuit ==
  /\ pc = "start"
  /\ quit' = FALSE
  /\ pc' = "while"
  /\ UNCHANGED <<activeChannels, looping, callingPendingFunctors, pendingFunctors,
                 functors, eventfd, inQueue, history>>

\* Mutant: the loop condition is left out.
TestQuit_Forever ==
  /\ pc = "while"
  /\ pc' = "poll"
  /\ UNCHANGED <<activeChannels, callingPendingFunctors, pendingFunctors, functors,
                 eventfd, inQueue, flags, history>>

\* while (!quit_), and the exit of loop().
TestQuit ==
  /\ pc = "while"
  /\ pc' = IF quit THEN "exit" ELSE "poll"
  /\ looping' = ~quit
  /\ UNCHANGED <<activeChannels, quit, callingPendingFunctors, pendingFunctors,
                 functors, eventfd, inQueue, history>>

\* poller_->poll: level triggered, so the wakeup channel is active exactly when
\* the counter is positive; the other channels may be ready or not.  With none
\* ready the call ends by its timeout of kPollTimeMs (or by a signal).
Poll ==
  /\ pc = "poll"
  /\ \E timer, io \in BOOLEAN :
       activeChannels' = (IF timer THEN <<"timer">> ELSE <<>>)
                      \o (IF eventfd > 0 THEN <<"wakeup">> ELSE <<>>)
                      \o (IF io THEN <<"io">> ELSE <<>>)
  /\ pc' = "dispatch"
  /\ UNCHANGED <<callingPendingFunctors, pendingFunctors, functors, eventfd,
                 inQueue, flags, history>>

\* handleEvent of a channel other than the wakeup channel.
HandleEvent ==
  /\ pc = "dispatch"
  /\ activeChannels # <<>>
  /\ Head(activeChannels) # "wakeup"
  /\ activeChannels' = Tail(activeChannels)
  /\ pc' = "handler"
  /\ UNCHANGED <<callingPendingFunctors, pendingFunctors, functors, eventfd,
                 inQueue, flags, history>>

\* EventLoop::handleRead, handler of the wakeup channel: reading the eventfd
\* resets its counter.
HandleRead ==
  /\ pc = "dispatch"
  /\ activeChannels # <<>>
  /\ Head(activeChannels) = "wakeup"
  /\ activeChannels' = Tail(activeChannels)
  /\ eventfd' = 0
  /\ pc' = "swap"
  /\ UNCHANGED <<callingPendingFunctors, pendingFunctors, functors, inQueue,
                 flags, history>>

\* Mutant: the vector is copied, not swapped.
DoPendingFunctors_Copy ==
  /\ pc = "swap"
  /\ callingPendingFunctors' = TRUE
  /\ functors' = pendingFunctors
  /\ pc' = "call"
  /\ UNCHANGED <<activeChannels, pendingFunctors, eventfd, inQueue, flags, history>>

\* doPendingFunctors up to the end of its critical section.
DoPendingFunctors ==
  /\ pc = "swap"
  /\ callingPendingFunctors' = TRUE
  /\ functors' = pendingFunctors
  /\ pendingFunctors' = <<>>
  /\ pc' = "call"
  /\ UNCHANGED <<activeChannels, eventfd, inQueue, flags, history>>

\* functors[i]().
CallFunctor ==
  /\ pc = "call"
  /\ functors # <<>>
  /\ called' = Append(called, Head(functors))
  /\ functors' = Tail(functors)
  /\ pc' = "functor"
  /\ UNCHANGED <<activeChannels, callingPendingFunctors, pendingFunctors, eventfd,
                 inQueue, submitted, unwoken, flags>>

\* Mutant: doPendingFunctors goes on until the queue is empty.
EndFunctors_Again ==
  /\ pc = "call"
  /\ functors = <<>>
  /\ functors' = pendingFunctors
  /\ pendingFunctors' = <<>>
  /\ callingPendingFunctors' = (pendingFunctors # <<>>)
  /\ pc' = IF pendingFunctors = <<>> THEN "dispatch" ELSE "call"
  /\ UNCHANGED <<activeChannels, eventfd, inQueue, flags, history>>

\* End of doPendingFunctors and of handleRead.
EndFunctors ==
  /\ pc = "call"
  /\ functors = <<>>
  /\ callingPendingFunctors' = FALSE
  /\ pc' = "dispatch"
  /\ UNCHANGED <<activeChannels, pendingFunctors, functors, eventfd, inQueue,
                 flags, history>>

\* All active channels handled: loopCallback_, if there is one.
LoopCallback ==
  /\ pc = "dispatch"
  /\ activeChannels = <<>>
  /\ pc' = "loopCallback"
  /\ UNCHANGED <<activeChannels, callingPendingFunctors, pendingFunctors, functors,
                 eventfd, inQueue, flags, history>>

\* The user's code returns to the loop.
Return ==
  /\ LoopThread \notin inQueue
  /\ \/ pc = "handler" /\ pc' = "dispatch"
     \/ pc = "functor" /\ pc' = "call"
     \/ pc = "loopCallback" /\ pc' = "while"
  /\ UNCHANGED <<activeChannels, callingPendingFunctors, pendingFunctors, functors,
                 eventfd, inQueue, flags, history>>

-----------------------------------------------------------------------------

\* What the loop thread does on its own once it is in loop().
LoopStep ==
  \/ ResetQuit \/ TestQuit \/ Poll \/ HandleEvent \/ HandleRead
  \/ DoPendingFunctors \/ CallFunctor \/ EndFunctors \/ LoopCallback \/ Return
  \/ queueInLoopWakeup(LoopThread)

Next ==
  \/ Loop
  \/ LoopStep
  \/ \E t \in Callers : queueInLoopWakeup(t)
  \/ \E t \in Threads : Quit(t)
  \/ \E t \in Threads, f \in Functors : queueInLoop(t, f) \/ runInLoop(t, f)

Spec == Init /\ [][Next]_vars

\* The loop thread is never suspended for ever inside loop(), poll() returns by
\* its timeout at the latest, callbacks return, and a thread that is inside
\* queueInLoop leaves it.  Nobody has to call loop(), queueInLoop or quit().
Fairness ==
  /\ WF_vars(LoopStep)
  /\ \A t \in Callers : WF_vars(queueInLoopWakeup(t))

FairSpec == Spec /\ Fairness

-----------------------------------------------------------------------------
(* Properties.                                                             *)

\* A wakeup is on its way: the counter is positive, or the loop thread is
\* between reading it and swapping the queue, or some thread has pushed its
\* functor and is about to write the counter.
WakeupOnItsWay ==
  \/ eventfd > 0
  \/ pc = "swap"
  \/ \E t \in inQueue : MustWake(t)

\* No lost wakeup: while a functor pushed by another thread, or by a functor the
\* loop is running, waits in pendingFunctors_, the loop is going to be woken,
\* however the push, the write, the read of the eventfd and the swap interleave.
NoLostWakeup ==
  (\E i \in DOMAIN pendingFunctors : pendingFunctors[i] \notin unwoken)
    => WakeupOnItsWay

\* doPendingFunctors runs a batch that cannot grow: functors queued while it
\* runs wait for the next iteration, so the loop always gets back to poll().
BatchNeverGrows ==
  [][callingPendingFunctors /\ callingPendingFunctors'
       => Len(functors') <= Len(functors)]_vars

\* queueInLoop is a FIFO executor: the functors are called once each, in the
\* order of their push_back, whatever the batches are.
Executor == INSTANCE LoopExecutor WITH queue <- functors \o pendingFunctors

ImplementsExecutor == Executor!Spec

\* A functor pushed by another thread, or from within a functor, is called unless
\* the loop stops.
RemoteFunctorIsCalled ==
  \A f \in Functors :
    (f \in Range(pendingFunctors) \ unwoken) ~> (f \in Range(called) \/ ~looping)

\* loop() has come to its while, and has not returned.
InWhile == pc \notin {"init", "start", "exit"}

\* quit() stops a loop that has come to its while, from wherever in an iteration it is
\* called and though it does not wake the loop.  Before that point it is not kept, not
\* even when the caller sees that looping_ is set: loop() resets quit_ afterwards.
QuitStopsLoop == (InWhile /\ quit) ~> ~looping

\* What a write-complete handler that sends the next block relies on: a functor
\* queued by the loop thread itself, such as writeCompleteCallback_ queued by
\* TcpConnection::handleWrite, is called too.
QueuedFunctorIsCalled ==
  \A f \in Functors :
    (f \in Range(pendingFunctors)) ~> (f \in Range(called) \/ ~looping)
=============================================================================
