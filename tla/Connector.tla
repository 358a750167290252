------------------------------ MODULE Connector ------------------------------
(***************************************************************************)
(* cppnetool::net::Connector: it makes sockets connect, one attempt after  *)
(* the other, until one is connected, and hands that one to its owner.     *)
(* Any thread starts and stops it; the attempts are made on the loop       *)
(* thread, from a functor, a timer or the owner.                           *)
(*                                                                         *)
(* The actions say all of what becomes of the connector and of what it     *)
(* uses: its sockets, its timers, the functors bound to it and its entry   *)
(* in the poller.  TcpClient, the owner, completes them.                   *)
(*                                                                         *)
(* connect_ and timerId_ are used by several threads without a lock: each  *)
(* store of the one, each test of it and what depends on the test, and     *)
(* each store of the other are steps of their own.                         *)
(***************************************************************************)
EXTENDS Integers, Sequences, FiniteSetsExt

CONSTANTS
  Callers,            \* the threads other than the loop's
  Sockets,            \* descriptors
  None,
  kInitRetryDelayMs,
  kMaxRetryDelayMs,
  MaxTimers           \* bound: the timer numbers in use at one time

ASSUME SocketsAssumption == None \notin Sockets
ASSUME DelaysAssumption ==
  /\ kInitRetryDelayMs \in Nat \ {0}
  /\ kMaxRetryDelayMs \in Nat
  /\ kInitRetryDelayMs <= kMaxRetryDelayMs

VARIABLES
  connect,          \* connect_, written by any thread without a lock
  state,            \* state_
  channel,          \* the socket of *channel_, or None
  retryDelayMs,
  timerId,          \* timerId_, the number of a timer; 0 is no timer
  timers,           \* the timers of the loop that will call startInLoop
  registered,       \* the sockets whose channels the poller has
  sockets,          \* what the kernel knows of each socket
  pendingFunctors,  \* of the loop: startInLoop, or the number of a timer to cancel
  calling,          \* the function the loop thread goes on with, or "nothing"
  revents,          \* events of channel_ still to be handled
  handing,          \* a connected socket handleWrite hands to the owner, or None
  caller,           \* what each other thread is doing in start() or stop()
  gaveUp            \* history: an error of connect(2) has ended the attempts

attempt == <<state, channel, retryDelayMs, timerId>>
loop    == <<timers, registered, pendingFunctors, calling, revents, handing>>
connectorVars == <<connect, attempt, loop, sockets, caller, gaveUp>>

StartInLoop == 0  \* as an element of pendingFunctors
TimerIds == 1..MaxTimers

ConnectorTypeOK ==
  /\ connect \in BOOLEAN
  /\ state \in {"kDisconnected", "kConnecting", "kConnected"}
  /\ channel \in Sockets \cup {None}
  /\ retryDelayMs \in kInitRetryDelayMs..kMaxRetryDelayMs
  /\ timerId \in TimerIds \cup {0}
  /\ timers \subseteq TimerIds
  /\ registered \subseteq Sockets
  /\ sockets \in [Sockets -> {"closed", "connecting", "accepted", "self", "failed"}]
  /\ pendingFunctors \in Seq({StartInLoop} \cup TimerIds)
  /\ calling \in {"nothing", "start", "startInLoop", "connect", "runAfter"}
  /\ revents \subseteq {"error", "out"}
  /\ handing \in Sockets \cup {None}
  /\ caller \in [Callers -> {"outside", "connect", "start", "stop", "cancel"}]
  /\ gaveUp \in BOOLEAN

ConnectorInit ==
  /\ connect = FALSE
  /\ state = "kDisconnected"
  /\ channel = None
  /\ retryDelayMs = kInitRetryDelayMs
  /\ timerId = 0
  /\ timers = {}
  /\ registered = {}
  /\ sockets = [s \in Sockets |-> "closed"]
  /\ pendingFunctors = <<>>
  /\ calling = "nothing"
  /\ revents = {}
  /\ handing = None
  /\ caller = [t \in Callers |-> "outside"]
  /\ gaveUp = FALSE

\* The loop thread is not inside the connector.
Outside == calling = "nothing" /\ revents = {} /\ handing = None

Open == {s \in Sockets : sockets[s] # "closed"}

Closed(s) == [sockets EXCEPT ![s] = "closed"]

-----------------------------------------------------------------------------
(* The channel.                                                            *)

\* The poller's channels after removeAndResetChannel().
Deregistered == registered \ {channel}

-----------------------------------------------------------------------------
(* retry().                                                                *)

NextDelay == Min({2 * retryDelayMs, kMaxRetryDelayMs})

\* retry(), up to its test of connect_.
retry(s) ==
  /\ sockets' = Closed(s)
  /\ state' = "kDisconnected"
  /\ calling' = IF connect THEN "runAfter" ELSE "nothing"

\* Mutant: no timer is set.
SetTimer_Forgotten == UNCHANGED <<timerId, timers, retryDelayMs>>

\* runAfter(retryDelayMs_): a timer with a number of its own; numbers are used again
\* when nothing refers to them.
SetTimer ==
  LET referred == timers \cup {pendingFunctors[i] : i \in DOMAIN pendingFunctors}
  IN  /\ TimerIds \ referred # {}
      /\ timerId' = Min(TimerIds \ referred)
      /\ timers' = timers \cup {timerId'}
      /\ retryDelayMs' = NextDelay

\* The rest of retry().  A stop() of another thread may have come after the test.
ArmRetry ==
  /\ calling = "runAfter"
  /\ calling' = "nothing"
  /\ SetTimer
  /\ UNCHANGED <<connect, state, channel, registered, pendingFunctors, revents, handing,
                 sockets, caller, gaveUp>>

-----------------------------------------------------------------------------
(* start(), restart() and stop().                                          *)

\* start() on the loop thread: startInLoop follows at once.
start ==
  /\ calling = "start"
  /\ connect' = TRUE
  /\ calling' = "startInLoop"
  /\ UNCHANGED <<attempt, timers, registered, pendingFunctors, revents, handing,
                 sockets, caller, gaveUp>>

\* start() on another thread, up to runInLoop.
startRemotely(t) ==
  /\ caller[t] = "connect"
  /\ connect' = TRUE
  /\ caller' = [caller EXCEPT ![t] = "start"]
  /\ UNCHANGED <<attempt, loop, sockets, gaveUp>>

PushStart(t) ==
  /\ caller[t] = "start"
  /\ pendingFunctors' = Append(pendingFunctors, StartInLoop)
  /\ caller' = [caller EXCEPT ![t] = "outside"]
  /\ UNCHANGED <<connect, attempt, timers, registered, calling, revents, handing,
                 sockets, gaveUp>>

restart ==
  /\ state' = "kDisconnected"
  /\ retryDelayMs' = kInitRetryDelayMs
  /\ connect' = TRUE
  /\ calling' = "startInLoop"
  /\ UNCHANGED <<channel, timerId, timers, registered, pendingFunctors, revents,
                 handing, sockets, caller, gaveUp>>

\* stop() on the loop thread.
stop ==
  /\ connect' = FALSE
  /\ timers' = timers \ {timerId}
  /\ UNCHANGED <<attempt, registered, pendingFunctors, calling, revents, handing,
                 sockets, caller, gaveUp>>

\* stop() on another thread: connect_ is reset, then timerId_ is read and the
\* cancel handed to the loop.
stopRemotely(t) ==
  /\ caller[t] = "stop"
  /\ connect' = FALSE
  /\ caller' = [caller EXCEPT ![t] = "cancel"]
  /\ UNCHANGED <<attempt, loop, sockets, gaveUp>>

PushCancel(t) ==
  /\ caller[t] = "cancel"
  /\ pendingFunctors' = IF timerId = 0 THEN pendingFunctors
                        ELSE Append(pendingFunctors, timerId)
  /\ caller' = [caller EXCEPT ![t] = "outside"]
  /\ UNCHANGED <<connect, attempt, timers, registered, calling, revents, handing,
                 sockets, gaveUp>>

-----------------------------------------------------------------------------
(* An attempt.                                                             *)

\* The functor that has waited longest.
CallFunctor ==
  /\ Outside
  /\ pendingFunctors # <<>>
  /\ pendingFunctors' = Tail(pendingFunctors)
  /\ calling' = IF Head(pendingFunctors) = StartInLoop THEN "startInLoop" ELSE "nothing"
  /\ timers' = timers \ {Head(pendingFunctors)}
  /\ UNCHANGED <<connect, attempt, registered, revents, handing, sockets, caller,
                 gaveUp>>

\* A timer set by retry() expires.
RunTimer ==
  /\ Outside
  /\ \E id \in timers : timers' = timers \ {id}
  /\ calling' = "startInLoop"
  /\ UNCHANGED <<connect, attempt, registered, pendingFunctors, revents, handing,
                 sockets, caller, gaveUp>>

\* Mutant: a timer or a functor that was on its way when stop() was called goes on.
IsWanted_Always == TRUE

\* The test of connect_ before an attempt.
IsWanted == connect

\* startInLoop(), up to the call of connect().
startInLoop ==
  /\ calling = "startInLoop"
  /\ calling' = IF IsWanted THEN "connect" ELSE "nothing"
  /\ UNCHANGED <<connect, attempt, timers, registered, pendingFunctors, revents, handing,
                 sockets, caller, gaveUp>>

\* connect(2) succeeds or is in progress: connecting(sockfd).
Connecting(s) ==
  /\ sockets' = [sockets EXCEPT ![s] = "connecting"]
  /\ state' = "kConnecting"
  /\ channel' = s
  /\ registered' = registered \cup {s}
  /\ calling' = "nothing"
  /\ UNCHANGED gaveUp

\* It fails with an error after which the code tries again later.
ConnectFails(s) ==
  /\ retry(s)
  /\ UNCHANGED <<channel, registered, gaveUp>>

\* It fails with one of the other errors: the socket is closed, nothing follows.
ConnectGivesUp(s) ==
  /\ sockets' = Closed(s)
  /\ gaveUp' = TRUE
  /\ calling' = "nothing"
  /\ UNCHANGED <<state, channel, registered>>

\* connect(), with a socket that is not in use; a stop() of another thread may have come
\* after the test.
ConnectSocket ==
  /\ calling = "connect"
  /\ \E s \in Sockets \ Open : Connecting(s) \/ ConnectFails(s) \/ ConnectGivesUp(s)
  /\ UNCHANGED <<connect, retryDelayMs, timerId, timers, pendingFunctors, revents, handing,
                 caller>>

\* The kernel decides an attempt: the server (or this very socket) accepts, or not.
Resolve(outcome) ==
  /\ \E s \in Sockets : /\ sockets[s] = "connecting"
                        /\ sockets' = [sockets EXCEPT ![s] = outcome]
  /\ UNCHANGED <<connect, attempt, loop, caller, gaveUp>>

\* poll() reports channel_: writable, and for a failed attempt an error as well,
\* unless the failure comes between poll() and the test of SO_ERROR.
Dispatch ==
  /\ Outside
  /\ \E s \in registered :
       \/ sockets[s] \in {"accepted", "self", "failed"} /\ revents' = {"out"}
       \/ sockets[s] = "failed" /\ revents' = {"error", "out"}
  /\ UNCHANGED <<connect, attempt, timers, registered, pendingFunctors, calling,
                 handing, sockets, caller, gaveUp>>

handleError ==
  /\ "error" \in revents
  /\ revents' = revents \ {"error"}
  /\ registered' = Deregistered
  /\ retry(channel)
  /\ UNCHANGED <<connect, channel, retryDelayMs, timerId, timers, pendingFunctors, handing,
                 caller, gaveUp>>

\* Mutant: handleWrite does not look at state_.
IsConnecting_Always == TRUE

IsConnecting == state = "kConnecting"

\* Mutant: the socket of an attempt that was stopped is not closed.
Unwanted_NotClosed(s) == sockets

\* The sockets when handleWrite is told not to connect any more.
Unwanted(s) == Closed(s)

\* handleWrite, when the attempt has succeeded.  newConnectionCallback_ follows if
\* connect_ is set.
Connected(s) ==
  /\ state' = "kConnected"
  /\ IF connect
     THEN handing' = s /\ UNCHANGED <<channel, sockets>>
     ELSE sockets' = Unwanted(s) /\ channel' = None /\ UNCHANGED handing
  /\ UNCHANGED calling

\* handleWrite up to newConnectionCallback_, or to its end if it is not called.
\* After handleError of the same round there is nothing left to do.
handleWrite ==
  /\ "out" \in revents /\ "error" \notin revents
  /\ calling = "nothing"
  /\ revents' = {}
  /\ IF IsConnecting
     THEN /\ registered' = Deregistered
          /\ \/ /\ sockets[channel] \in {"self", "failed", "closed"}
                /\ retry(channel)
                /\ channel' = None
                /\ UNCHANGED handing
             \/ /\ sockets[channel] = "accepted"
                /\ Connected(channel)
     ELSE UNCHANGED <<state, channel, registered, sockets, calling, handing>>
  /\ UNCHANGED <<connect, retryDelayMs, timerId, timers, pendingFunctors, caller, gaveUp>>

\* The rest of handleWrite after the callback: resetChannel().
HandedOver ==
  /\ handing' = None
  /\ channel' = None
  /\ UNCHANGED <<connect, state, retryDelayMs, timerId, timers, registered,
                 pendingFunctors, calling, revents, sockets, caller, gaveUp>>

\* The connection that owns s closes it.
CloseSocket(s) ==
  /\ sockets' = Closed(s)
  /\ UNCHANGED <<connect, attempt, loop, caller, gaveUp>>

\* Mutant: the timer is not cancelled.
TimersLeft_NotCancelled == timers

\* The destructor's cancel(timerId_).
TimersLeft == timers \ {timerId}

\* The destructor, after the connection that owned the sockets in `owned' is gone.
\* It takes channel_ out of the poller and does not close the socket.
Destroy(owned) ==
  /\ timers' = TimersLeft
  /\ registered' = IF IsConnecting THEN Deregistered ELSE registered
  /\ sockets' = [s \in Sockets |-> IF s \in owned THEN "closed" ELSE sockets[s]]
  /\ UNCHANGED <<connect, attempt, pendingFunctors, calling, revents, handing, caller,
                 gaveUp>>
=============================================================================
