------------------------------ MODULE TcpClient ------------------------------
(***************************************************************************)
(* cppnetool::net::TcpClient and its Connector: connect(), disconnect()    *)
(* and stop() from any thread, the connection the client makes of the      *)
(* socket it is handed, and the new attempt when that connection is gone.  *)
(*                                                                         *)
(* A user of the library knows of an attempt only that he has asked for    *)
(* it.  He asks again when the connection he was given has gone down and   *)
(* the client does not retry by itself or was told to disconnect (as       *)
(* proxy/Session does, with its connecting_), and not while another thread *)
(* is in a call.  He destroys the client on the loop thread, when no other *)
(* thread is in a call of it and no functor is bound to it.                *)
(***************************************************************************)
EXTENDS Connector

CONSTANT MaxPending  \* bound: functors waiting when a call is made

\* A number is free for the next timer, whatever cancels are on their way.
ASSUME BoundsAssumption ==
  /\ IsFiniteSet(Callers)
  /\ MaxTimers \in Nat /\ MaxPending \in Nat \ {0}
  /\ MaxTimers >= MaxPending + Cardinality(Callers)

VARIABLES
  retry_,      \* enableRetry() was called, once and for all
  connect_,    \* TcpClient::connect_
  state_,      \* TcpClient::state_
  connection,  \* the socket of connection_, or None
  established, \* connection_ is kConnected
  pc,          \* where the loop thread is in newConnection or removeConnection
  alive,       \* the client exists
  mayConnect,  \* history: the user has no reason to think an attempt is under way
  stopped      \* history: whether Connector::stop() has reset connect_ "after" the last
               \* connect() set it, has only its cancel to come since ("during"), or "no"

client == <<connect_, state_, connection, established, pc>>
user   == <<retry_, alive, mayConnect>>
vars   == <<connectorVars, client, user, stopped>>

TypeOK ==
  /\ ConnectorTypeOK
  /\ retry_ \in BOOLEAN
  /\ connect_ \in BOOLEAN
  /\ state_ \in BOOLEAN
  /\ connection \in Sockets \cup {None}
  /\ established \in BOOLEAN
  /\ pc \in {"loop", "up", "down", "restart"}
  /\ alive \in BOOLEAN
  /\ mayConnect \in BOOLEAN
  /\ stopped \in {"no", "during", "after"}

Init ==
  /\ ConnectorInit
  /\ retry_ \in BOOLEAN
  /\ connect_ = FALSE
  /\ state_ = FALSE
  /\ connection = None
  /\ established = FALSE
  /\ pc = "loop"
  /\ alive = TRUE
  /\ mayConnect = TRUE
  /\ stopped = "no"

-----------------------------------------------------------------------------
(* The calls.                                                              *)

\* The loop thread is in code of the user: in a connection callback, or in a handler
\* of something else.
InUserCode ==
  /\ alive
  /\ calling = "nothing" /\ revents = {}
  /\ pc \in {"up", "down"} \/ (pc = "loop" /\ handing = None)

\* A thread may begin a call; the loop has room for its functor.
CanCall(t) ==
  /\ alive
  /\ caller[t] = "outside"
  /\ Len(pendingFunctors) < MaxPending

MayConnect == mayConnect /\ \A t \in Callers : caller[t] = "outside"

\* connect(), up to the call of start().
Connect ==
  /\ connect_' = TRUE
  /\ mayConnect' = FALSE
  /\ UNCHANGED <<connect, attempt, timers, registered, pendingFunctors, revents, handing,
                 sockets, gaveUp, state_, connection, established, pc, retry_, alive, stopped>>

connectCall ==
  /\ InUserCode
  /\ MayConnect
  /\ calling' = "start"
  /\ Connect
  /\ UNCHANGED caller

connectCallRemotely(t) ==
  /\ CanCall(t)
  /\ MayConnect
  /\ caller' = [caller EXCEPT ![t] = "connect"]
  /\ Connect
  /\ UNCHANGED calling

\* The calls of start(), which overwrite the connect_ of a stop() that has not come to
\* its cancel.
Overlapped == IF \E t \in Callers : caller[t] = "cancel" THEN "during" ELSE "no"

StartConnector ==
  /\ start
  /\ stopped' = Overlapped
  /\ UNCHANGED <<client, user>>

StartConnectorRemotely(t) ==
  /\ startRemotely(t)
  /\ stopped' = Overlapped
  /\ UNCHANGED <<client, user>>

\* disconnect(), of whose shutdown() only the new state of the connection is kept.
Disconnect ==
  /\ connect_' = FALSE
  /\ established' = FALSE
  /\ UNCHANGED <<connectorVars, state_, connection, pc, user, stopped>>

disconnect == InUserCode /\ Disconnect

disconnectRemotely(t) == CanCall(t) /\ Disconnect

stopCall ==
  /\ InUserCode
  /\ connect_' = FALSE
  /\ stop
  /\ stopped' = "after"
  /\ UNCHANGED <<state_, connection, established, pc, user>>

stopCallRemotely(t) ==
  /\ CanCall(t)
  /\ connect_' = FALSE
  /\ caller' = [caller EXCEPT ![t] = "stop"]
  /\ UNCHANGED <<connect, attempt, loop, sockets, gaveUp, state_, connection,
                 established, pc, user, stopped>>

StopConnector(t) ==
  /\ stopRemotely(t)
  /\ stopped' = "after"
  /\ UNCHANGED <<client, user>>

Push(t) ==
  /\ PushStart(t) \/ PushCancel(t)
  /\ UNCHANGED <<client, user, stopped>>

-----------------------------------------------------------------------------
(* The loop thread.                                                        *)

ConnectorStep ==
  /\ alive
  /\ \/ startInLoop \/ ConnectSocket \/ ArmRetry
     \/ /\ pc = "loop"
        /\ CallFunctor \/ RunTimer \/ Dispatch \/ handleError \/ handleWrite
  /\ UNCHANGED <<client, user, stopped>>

\* newConnection, up to the callback that reports the connection.
newConnection ==
  /\ handing # None
  /\ pc = "loop"
  /\ state_' = TRUE
  /\ connection' = handing
  /\ established' = TRUE
  /\ pc' = "up"
  /\ UNCHANGED <<connectorVars, connect_, user, stopped>>

\* The callback returns.
Established ==
  /\ pc = "up"
  /\ calling = "nothing"
  /\ pc' = "loop"
  /\ HandedOver
  /\ UNCHANGED <<connect_, state_, connection, established, user, stopped>>

\* The peer closes: removeConnection, up to the callbacks that report it.
removeConnection ==
  /\ alive
  /\ pc = "loop"
  /\ Outside
  /\ connection # None
  /\ established' = FALSE
  /\ pc' = "down"
  /\ mayConnect' = ~retry_
  /\ UNCHANGED <<connectorVars, connect_, state_, connection, retry_, alive, stopped>>

\* Mutant: removeConnection does not ask whether the user wants retries.
MustRestart_NoRetry == connect_

\* removeConnection's test whether to connect again.
MustRestart == retry_ /\ connect_

\* The rest of removeConnection, up to the test whether to try again.
Release ==
  /\ pc = "down"
  /\ calling = "nothing"
  /\ CloseSocket(connection)
  /\ state_' = FALSE
  /\ connection' = None
  /\ pc' = IF MustRestart THEN "restart" ELSE "loop"
  /\ mayConnect' = (mayConnect \/ (retry_ /\ ~connect_))
  /\ UNCHANGED <<connect_, established, retry_, alive, stopped>>

\* connector_->restart(), whatever has become of connect_ since the test.
Restart ==
  /\ pc = "restart"
  /\ restart
  /\ pc' = "loop"
  /\ UNCHANGED <<connect_, state_, connection, established, user, stopped>>

\* The destructors of the client, of its connection and of its connector.
DestroyClient ==
  /\ alive
  /\ pc = "loop"
  /\ Outside
  /\ pendingFunctors = <<>>
  /\ \A t \in Callers : caller[t] = "outside"
  /\ alive' = FALSE
  /\ Destroy({connection} \ {None})
  /\ state_' = FALSE
  /\ connection' = None
  /\ established' = FALSE
  /\ UNCHANGED <<connect_, pc, retry_, mayConnect, stopped>>

Kernel(outcome) ==
  /\ Resolve(outcome)
  /\ UNCHANGED <<client, user, stopped>>

-----------------------------------------------------------------------------

LoopStep ==
  ConnectorStep \/ StartConnector \/ newConnection \/ Established \/ Release \/ Restart

CallerStep(t) == StartConnectorRemotely(t) \/ StopConnector(t) \/ Push(t)

Outcomes == {"accepted", "self", "failed"}

Next ==
  \/ connectCall \/ disconnect \/ stopCall
  \/ \E t \in Callers : connectCallRemotely(t) \/ disconnectRemotely(t)
                          \/ stopCallRemotely(t) \/ CallerStep(t)
  \/ LoopStep
  \/ removeConnection
  \/ DestroyClient
  \/ \E outcome \in Outcomes : Kernel(outcome)

Spec == Init /\ [][Next]_vars

\* The loop goes on, threads leave stop() and connect(), and the kernel decides every
\* attempt (at the latest by its time-out).  The server can be reached again and
\* again: infinitely many attempts are neither refused at once nor later.  Nobody
\* has to connect, to stop or to close.
Fairness ==
  /\ WF_vars(LoopStep)
  /\ \A t \in Callers : WF_vars(CallerStep(t))
  /\ WF_vars(\E outcome \in Outcomes : Kernel(outcome))
  /\ SF_vars(ConnectorStep /\ state' = "kConnecting" /\ state # "kConnecting")
  /\ SF_vars(Kernel("accepted"))

FairSpec == Spec /\ Fairness

-----------------------------------------------------------------------------
(* Properties.                                                             *)

StartsUnderWay ==
  (IF calling = "nothing" THEN 0 ELSE 1)
    + Cardinality(timers)
    + Cardinality({i \in DOMAIN pendingFunctors : pendingFunctors[i] = StartInLoop})
    + Cardinality({t \in Callers : caller[t] \in {"connect", "start"}})

\* There is one attempt at a time: no second startInLoop is on its way, by a timer, a
\* functor, a call or retry(), while another is or while a socket connects or is connected,
\* however stops, refusals, closes and new calls of connect() follow each other.
\* (While the old connection is being reported down, a new attempt may begin.)
OneAttempt ==
  alive => StartsUnderWay + Cardinality(Open \ (IF pc = "down" THEN {connection} ELSE {}))
             <= 1

\* Every open socket has one owner, the attempt or the connection: none is leaked when
\* an attempt fails, is stopped or succeeds, and none is used after it was closed.
\* The poller has the channel of the attempt and no other.
SocketsOwned ==
  alive => /\ registered = (IF state = "kConnecting" THEN {channel} ELSE {})
           /\ Open = (registered \cup {connection, handing}) \ {None}
           /\ connection \notin registered

\* A client that was destroyed leaves no timer that would call its connector, and no
\* channel in the poller.
NothingLeft == ~alive => timers = {} /\ registered = {} /\ calling = "nothing"

\* A client that has been asked to connect goes on trying through refusals, whatever
\* was stopped or has failed before, until it is connected, stopped or destroyed or
\* has met an error it does not retry after.  A stop() that overlaps the connect() counts:
\* connect_ may stay set, while the cancel takes the timer of the first retry.
KeepsTrying ==
  (connect /\ ~mayConnect)
    ~> (connection # None \/ ~connect \/ stopped # "no" \/ gaveUp \/ ~alive)

\* A stop() that has returned stays in force until connect() is called, whatever
\* retry timer, connection that goes down or functor was on its way: the connector is
\* not told to connect again.  (A stop() that overlaps the connect() may be overwritten by
\* it, and counts as coming first.)  With enableRetry() a stop() can come between
\* removeConnection's test of connect_ and its restart(), and is lost.
StopIsKept ==
  stopped = "after" /\ ~retry_ /\ (\A t \in Callers : caller[t] = "outside") => ~connect

\* What stop() is for: from when it has reset connect_ until the next connect(), no
\* attempt of a client that does not retry begins, whatever timer or functor was on its
\* way, and no socket is opened but by an attempt whose test of connect_ came before the
\* stop() of another thread.
StoppedBeginsNothing ==
  [][stopped = "after" /\ ~retry_ /\ calling # "connect" =>
       calling' # "connect" /\ Open' \subseteq Open]_vars
=============================================================================
