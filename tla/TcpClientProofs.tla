-------------------------- MODULE TcpClientProofs --------------------------
(***************************************************************************)
(* Proofs about TcpClient and its Connector, for any threads, sockets and  *)
(* delays: one attempt at a time, every socket has one owner, a stop() is  *)
(* kept and opens no socket, a connection is removed before another takes  *)
(* its place, and a client that was destroyed leaves nothing behind.       *)
(***************************************************************************)
EXTENDS TcpClient, FiniteSetTheorems, WellFoundedInduction, TLAPS

\* What a start on its way, or an attempt under way, can be.
Functors == {i \in DOMAIN pendingFunctors : pendingFunctors[i] = StartInLoop}
Starters == {t \in Callers : caller[t] \in {"connect", "start"}}
Busy     == Open \ (IF pc = "down" THEN {connection} ELSE {})

Idle == calling = "nothing" /\ timers = {} /\ Functors = {} /\ Starters = {} /\ Busy = {}

Single(S) == \A x, y \in S : x = y

\* OneAttempt without counting.
OnlyOne ==
  /\ Single(timers) /\ Single(Functors) /\ Single(Starters) /\ Single(Busy)
  /\ calling # "nothing" => timers = {} /\ Functors = {} /\ Starters = {} /\ Busy = {}
  /\ timers # {} => Functors = {} /\ Starters = {} /\ Busy = {}
  /\ Functors # {} => Starters = {} /\ Busy = {}
  /\ Starters # {} => Busy = {}

Owned ==
  /\ registered = (IF state = "kConnecting" THEN {channel} ELSE {})
  /\ Open = (registered \cup {connection, handing}) \ {None}
  /\ connection \notin registered

\* The user and removeConnection begin an attempt only when there is none.
BeginsIdle ==
  /\ mayConnect => Idle
  /\ pc = "down" /\ retry_ => Idle /\ ~mayConnect
  /\ pc = "restart" => Idle /\ ~mayConnect

\* Where the loop thread is, and what it has in hand there.
Control ==
  /\ pc = "up" => handing = connection /\ handing # None /\ calling = "nothing" /\ revents = {}
  /\ pc = "down" => connection # None /\ handing = None /\ revents = {}
  /\ pc = "restart" => Outside /\ retry_
  /\ "error" \in revents => state = "kConnecting"
  /\ revents # {} => handing = None
  /\ handing # None => registered = {}
  /\ handing # None /\ pc = "loop" => connection = None
  /\ timers \subseteq {timerId}

\* What holds as long as there is a client.
Lives == OnlyOne /\ Owned /\ BeginsIdle /\ Control

\* A client that was destroyed.
Dead ==
  /\ pc = "loop" /\ Outside
  /\ timers = {} /\ registered = {}
  /\ \A t \in Callers : caller[t] = "outside"

StopHolds == stopped = "after" /\ ~retry_ => ~connect

IInv ==
  /\ TypeOK
  /\ alive => Lives
  /\ ~alive => Dead
  /\ StopHolds
  /\ pc = "restart" => retry_

-----------------------------------------------------------------------------
(* Sockets, timers and functors.                                           *)

LEMMA ConstantTypes ==
  /\ None \notin Sockets
  /\ kInitRetryDelayMs \in Nat \ {0} /\ kMaxRetryDelayMs \in Nat
  /\ kInitRetryDelayMs <= kMaxRetryDelayMs
  /\ TimerIds \subseteq Nat \ {0} /\ StartInLoop = 0
BY SocketsAssumption, DelaysAssumption, BoundsAssumption DEF TimerIds, StartInLoop

\* The open sockets after one was closed, opened or decided.
LEMMA ClosedProperties ==
  ASSUME ConnectorTypeOK, NEW s \in Sockets, sockets' = Closed(s)
  PROVE  /\ sockets' \in [Sockets -> {"closed", "connecting", "accepted", "self", "failed"}]
         /\ Open' = Open \ {s}
BY DEF ConnectorTypeOK, Closed, Open

LEMMA OpenedProperties ==
  ASSUME ConnectorTypeOK, NEW s \in Sockets,
         sockets' = [sockets EXCEPT ![s] = "connecting"]
  PROVE  /\ sockets' \in [Sockets -> {"closed", "connecting", "accepted", "self", "failed"}]
         /\ Open' = Open \cup {s}
BY DEF ConnectorTypeOK, Open

LEMMA ResolvedProperties ==
  ASSUME ConnectorTypeOK, NEW outcome \in Outcomes, Resolve(outcome)
  PROVE  /\ sockets' \in [Sockets -> {"closed", "connecting", "accepted", "self", "failed"}]
         /\ Open' = Open
<1>1. PICK s \in Sockets : sockets[s] = "connecting" /\ sockets' = [sockets EXCEPT ![s] = outcome]
  BY DEF Resolve
<1>2. outcome \in {"accepted", "self", "failed"}
  BY DEF Outcomes
<1> QED BY <1>1, <1>2 DEF ConnectorTypeOK, Open

\* A non-empty set of numbers has a first element.
LEMMA MinProperties ==
  ASSUME NEW S \in SUBSET Nat, S # {}
  PROVE  Min(S) \in S /\ \A n \in S : Min(S) <= n
<1>1. PICK m \in S : \A n \in S : <<n, m>> \notin OpToRel(<, Nat)
  BY NatLessThanWellFounded, WFMin
<1>2. ASSUME NEW n \in S
      PROVE  m <= n
  <2>1. OpToRel(<, Nat) = {pair \in Nat \X Nat : pair[1] < pair[2]}
    BY DEF OpToRel
  <2>2. <<n, m>> \in Nat \X Nat /\ <<n, m>> \notin OpToRel(<, Nat)
    BY <1>1
  <2>3. ~(<<n, m>>[1] < <<n, m>>[2])
    BY <2>1, <2>2, Zenon
  <2> QED BY <2>3
<1> QED BY <1>2 DEF Min

LEMMA DelayProperties ==
  ASSUME ConnectorTypeOK
  PROVE  NextDelay \in kInitRetryDelayMs..kMaxRetryDelayMs
<1>1. retryDelayMs \in Nat /\ 2 * retryDelayMs \in Nat /\ kMaxRetryDelayMs \in Nat
      /\ kInitRetryDelayMs <= 2 * retryDelayMs /\ kInitRetryDelayMs <= kMaxRetryDelayMs
  BY ConstantTypes DEF ConnectorTypeOK
<1>2. /\ NextDelay \in {2 * retryDelayMs, kMaxRetryDelayMs}
      /\ \A n \in {2 * retryDelayMs, kMaxRetryDelayMs} : NextDelay <= n
  BY <1>1, MinProperties DEF NextDelay
<1> QED BY <1>1, <1>2, ConstantTypes

\* What retry() leaves: its socket closed, and the timer still to be set.
LEMMA RetryProperties ==
  ASSUME ConnectorTypeOK, NEW s \in Sockets, retry(s)
  PROVE  /\ sockets' \in [Sockets -> {"closed", "connecting", "accepted", "self", "failed"}]
         /\ Open' = Open \ {s}
         /\ state' = "kDisconnected"
         /\ calling' \in {"nothing", "runAfter"}
BY ClosedProperties DEF retry

\* The timer is the only one.
LEMMA SetTimerProperties ==
  ASSUME ConnectorTypeOK, timers = {}, SetTimer
  PROVE  /\ retryDelayMs' \in kInitRetryDelayMs..kMaxRetryDelayMs
         /\ timerId' \in TimerIds \cup {0}
         /\ timers' \subseteq TimerIds /\ timers' \subseteq {timerId'}
<1> DEFINE free == TimerIds \ (timers \cup {pendingFunctors[i] : i \in DOMAIN pendingFunctors})
<1>1. free # {} /\ timerId' = Min(free) /\ timers' = timers \cup {timerId'}
      /\ retryDelayMs' = NextDelay
  BY DEF SetTimer
<1>2. Min(free) \in free
  BY <1>1, MinProperties, ConstantTypes
<1> QED BY <1>1, <1>2, DelayProperties

\* The functors that will start, after one more functor was pushed.
LEMMA PushedFunctors ==
  ASSUME ConnectorTypeOK, NEW f \in {StartInLoop} \cup TimerIds,
         pendingFunctors' = Append(pendingFunctors, f)
  PROVE  /\ pendingFunctors' \in Seq({StartInLoop} \cup TimerIds)
         /\ f = StartInLoop /\ Functors = {} => Functors' # {} /\ Single(Functors')
         /\ f # StartInLoop => Functors' = Functors
<1> DEFINE n == Len(pendingFunctors)
<1>1. /\ pendingFunctors' \in Seq({StartInLoop} \cup TimerIds)
      /\ DOMAIN pendingFunctors = 1..n
      /\ DOMAIN pendingFunctors' = 1..n + 1
      /\ n \in Nat
      /\ \A i \in 1..n : pendingFunctors'[i] = pendingFunctors[i]
      /\ pendingFunctors'[n + 1] = f
  BY DEF ConnectorTypeOK
<1> HIDE DEF n
<1>2. Functors' = Functors \cup (IF f = StartInLoop THEN {n + 1} ELSE {})
  <2>1. \A i \in 1..n + 1 : i \in 1..n \/ i = n + 1
    BY <1>1
  <2>2. \A i \in 1..n : i \in 1..n + 1
    BY <1>1
  <2>3. n + 1 \in 1..n + 1
    BY <1>1
  <2> QED BY <1>1, <2>1, <2>2, <2>3 DEF Functors
<1> QED BY <1>1, <1>2 DEF Single

\* And after the first was called.
LEMMA CalledFunctors ==
  ASSUME ConnectorTypeOK, pendingFunctors # <<>>, pendingFunctors' = Tail(pendingFunctors),
         Single(Functors)
  PROVE  /\ pendingFunctors' \in Seq({StartInLoop} \cup TimerIds)
         /\ Head(pendingFunctors) = StartInLoop => Functors # {} /\ Functors' = {}
         /\ Head(pendingFunctors) # StartInLoop =>
              Single(Functors') /\ (Functors' = {} <=> Functors = {})
<1>1. /\ pendingFunctors' \in Seq({StartInLoop} \cup TimerIds)
      /\ 1 \in DOMAIN pendingFunctors /\ Head(pendingFunctors) = pendingFunctors[1]
      /\ DOMAIN pendingFunctors \subseteq Nat /\ DOMAIN pendingFunctors' \subseteq Nat
      /\ \A i \in DOMAIN pendingFunctors' :
           i + 1 \in DOMAIN pendingFunctors /\ pendingFunctors'[i] = pendingFunctors[i + 1]
      /\ \A i \in DOMAIN pendingFunctors : i = 1 \/ i - 1 \in DOMAIN pendingFunctors'
  BY DEF ConnectorTypeOK
<1>2. ASSUME NEW i \in Functors'
      PROVE  i \in Nat /\ i + 1 \in Functors /\ i + 1 # 1
  BY <1>1, <1>2 DEF Functors
<1>3. ASSUME NEW i \in Functors, i # 1
      PROVE  Functors' # {}
  <2>1. i - 1 \in DOMAIN pendingFunctors' /\ (i - 1) + 1 = i /\ pendingFunctors[i] = StartInLoop
    BY <1>1, <1>3 DEF Functors
  <2>2. pendingFunctors'[i - 1] = StartInLoop
    BY <1>1, <2>1
  <2> QED BY <2>1, <2>2 DEF Functors
<1>4. Single(Functors')
  <2> SUFFICES ASSUME NEW i \in Functors', NEW j \in Functors'
               PROVE  i = j
    BY DEF Single
  <2>1. i + 1 = j + 1
    BY <1>2 DEF Single
  <2> QED BY <1>2, <2>1
<1>5. ASSUME Head(pendingFunctors) = StartInLoop
      PROVE  1 \in Functors /\ Functors' = {}
  <2>1. 1 \in Functors
    BY <1>1, <1>5 DEF Functors
  <2> QED BY <1>2, <2>1 DEF Single
<1>6. ASSUME Head(pendingFunctors) # StartInLoop
      PROVE  Functors' = {} <=> Functors = {}
  <2>1. 1 \notin Functors
    BY <1>1, <1>6 DEF Functors
  <2> QED BY <1>2, <1>3, <2>1
<1> QED BY <1>1, <1>4, <1>5, <1>6

-----------------------------------------------------------------------------
(* Facts about one state.                                                  *)

\* The one socket there may be.
LEMMA SocketFacts ==
  ASSUME TypeOK, Lives
  PROVE  /\ state = "kConnecting" => channel \in Sockets /\ Busy = {channel}
                                       /\ channel \in Open /\ registered = {channel}
         /\ state # "kConnecting" => registered = {}
         /\ connection # None => connection \in Sockets /\ connection \in Open
         /\ handing # None => handing \in Sockets /\ handing \in Open
         /\ connection # None /\ pc # "down" => Busy = {connection} /\ registered = {}
         /\ handing # None => Busy = {handing} /\ registered = {} /\ state # "kConnecting"
         /\ Busy = {} => registered = {} /\ state # "kConnecting" /\ handing = None
<1>1. /\ connection \in Sockets \cup {None} /\ handing \in Sockets \cup {None}
      /\ registered \subseteq Sockets /\ None \notin Sockets
  BY ConstantTypes DEF TypeOK, ConnectorTypeOK
<1>2. /\ registered = (IF state = "kConnecting" THEN {channel} ELSE {})
      /\ Open = (registered \cup {connection, handing}) \ {None}
      /\ connection \notin registered
      /\ Single(Busy)
      /\ pc = "down" => handing = None
      /\ handing # None => registered = {}
  BY DEF Lives, Owned, OnlyOne, Control
<1>3. registered \subseteq Busy
  BY <1>1, <1>2 DEF Busy
<1>4. handing # None => handing \in Busy
  BY <1>1, <1>2 DEF Busy
<1>5. connection # None /\ pc # "down" => connection \in Busy
  BY <1>1, <1>2 DEF Busy
<1> QED BY <1>1, <1>2, <1>3, <1>4, <1>5 DEF Single

-----------------------------------------------------------------------------
(* The calls.                                                              *)

\* A step that changes nothing of what is under way, unless it is the function the loop
\* thread is about to execute.
LEMMA QuietStep ==
  ASSUME Lives, Open' = Open, Functors' = Functors, Starters' = Starters,
         calling' = "nothing" <=> calling = "nothing",
         UNCHANGED <<state, channel, timerId, timers, registered, revents, handing,
                     connection, pc, mayConnect, retry_>>
  PROVE  Lives'
<1>1. OnlyOne'
  BY DEF Lives, OnlyOne, Busy, Single
<1>2. Owned'
  BY DEF Lives, Owned
<1>3. BeginsIdle'
  BY DEF Lives, BeginsIdle, Idle, Busy
<1>4. Control'
  BY DEF Lives, Control, Outside
<1> QED BY <1>1, <1>2, <1>3, <1>4 DEF Lives

\* A start that is handed to the loop thread or to another thread is the only one.
LEMMA ConnectCallStep ==
  ASSUME IInv, connectCall
  PROVE  IInv'
<1>1. /\ TypeOK /\ alive /\ Lives
  BY DEF IInv, connectCall, InUserCode
<1>2. /\ pc \in {"up", "down"} \/ (pc = "loop" /\ handing = None)
      /\ revents = {} /\ mayConnect
      /\ calling' = "start" /\ connect_' = TRUE /\ mayConnect' = FALSE
      /\ UNCHANGED <<connect, stopped, state, channel, retryDelayMs, timerId, timers, registered,
                     pendingFunctors, revents, handing, sockets, caller, gaveUp,
                     state_, connection, established, pc, retry_, alive>>
  BY DEF connectCall, InUserCode, MayConnect, Connect, attempt
<1>3. Idle /\ pc # "up" /\ (pc = "down" => ~retry_) /\ handing = None
  <2>1. Idle
    BY <1>1, <1>2 DEF Lives, BeginsIdle
  <2>2. handing = None
    BY <1>1, <2>1, SocketFacts DEF Idle
  <2> QED BY <1>1, <1>2, <2>1, <2>2 DEF Lives, BeginsIdle, Control
<1>4. Open' = Open /\ Functors' = Functors /\ Starters' = Starters /\ Busy' = Busy
  BY <1>2 DEF Open, Functors, Starters, Busy
<1>5. OnlyOne'
  BY <1>2, <1>3, <1>4 DEF OnlyOne, Idle, Single
<1>6. Owned' /\ BeginsIdle' /\ Control'
  BY <1>1, <1>2, <1>3, <1>4 DEF Lives, Owned, BeginsIdle, Control
<1>7. TypeOK'
  <2>1. /\ calling' \in {"nothing", "start", "startInLoop", "connect", "runAfter"}
        /\ connect_' \in BOOLEAN /\ mayConnect' \in BOOLEAN
    BY <1>2
  <2>2. ConnectorTypeOK'
    BY <1>1, <1>2, <2>1, ZenonT(60) DEF TypeOK, ConnectorTypeOK
  <2> QED BY <1>1, <1>2, <2>1, <2>2, ZenonT(60) DEF TypeOK
<1>8. StopHolds' /\ (pc' = "restart" => retry_')
  BY <1>2 DEF StopHolds, IInv
<1> QED BY <1>1, <1>2, <1>5, <1>6, <1>7, <1>8 DEF IInv, Lives

LEMMA ConnectRemotelyStep ==
  ASSUME IInv, NEW t \in Callers, connectCallRemotely(t)
  PROVE  IInv'
<1>1. /\ TypeOK /\ alive /\ Lives
  BY DEF IInv, connectCallRemotely, CanCall
<1>2. /\ mayConnect
      /\ connect_' = TRUE /\ mayConnect' = FALSE
      /\ caller' = [caller EXCEPT ![t] = "connect"]
      /\ UNCHANGED <<connect, stopped, state, channel, retryDelayMs, timerId, timers, registered,
                     pendingFunctors, calling, revents, handing, sockets, gaveUp,
                     state_, connection, established, pc, retry_, alive>>
  BY DEF connectCallRemotely, MayConnect, Connect, attempt
<1>3. Idle /\ pc # "restart" /\ (pc = "down" => ~retry_)
  BY <1>1, <1>2 DEF Lives, BeginsIdle
<1>4. Open' = Open /\ Functors' = Functors /\ Busy' = Busy
  BY <1>2 DEF Open, Functors, Busy
<1>5. Starters' = {t}
  BY <1>1, <1>2, <1>3 DEF Starters, Idle, TypeOK, ConnectorTypeOK
<1>6. OnlyOne'
  BY <1>2, <1>3, <1>4, <1>5 DEF OnlyOne, Idle, Single
<1>7. Owned' /\ BeginsIdle' /\ Control'
  BY <1>1, <1>2, <1>3, <1>4 DEF Lives, Owned, BeginsIdle, Control, Outside
<1>8. TypeOK'
  <2>1. caller' \in [Callers -> {"outside", "connect", "start", "stop", "cancel"}]
    BY <1>1, <1>2 DEF TypeOK, ConnectorTypeOK
  <2>2. ConnectorTypeOK'
    BY <1>1, <1>2, <2>1, ZenonT(60) DEF TypeOK, ConnectorTypeOK
  <2> QED BY <1>1, <1>2, <2>2, ZenonT(60) DEF TypeOK
<1>9. StopHolds' /\ (pc' = "restart" => retry_')
  BY <1>2, <1>3 DEF StopHolds, IInv
<1> QED BY <1>1, <1>2, <1>6, <1>7, <1>8, <1>9 DEF IInv, Lives

\* start(), called by connect(), on the loop thread and on another one: what was on its
\* way still is.
LEMMA StartConnectorStep ==
  ASSUME IInv, StartConnector
  PROVE  IInv'
<1>1. alive
  BY DEF IInv, Dead, Outside, StartConnector, start
<1>2. TypeOK /\ Lives
  BY <1>1 DEF IInv
<1>3. /\ calling # "nothing" /\ calling' = "startInLoop"
      /\ connect' = TRUE /\ stopped' \in {"no", "during"}
      /\ UNCHANGED <<state, channel, retryDelayMs, timerId, timers, registered,
                     pendingFunctors, revents, handing, sockets, caller, gaveUp, connect_,
                     state_, connection, established, pc, retry_, alive, mayConnect>>
  BY DEF StartConnector, start, Overlapped, attempt, client, user
<1>4. Lives'
  BY <1>2, <1>3, QuietStep DEF Open, Functors, Starters
<1>5. TypeOK'
  <2>1. /\ calling' \in {"nothing", "start", "startInLoop", "connect", "runAfter"}
        /\ connect' \in BOOLEAN /\ stopped' \in {"no", "during", "after"}
    BY <1>3
  <2>2. ConnectorTypeOK'
    BY <1>2, <1>3, <2>1, ZenonT(60) DEF TypeOK, ConnectorTypeOK
  <2> QED BY <1>2, <1>3, <2>1, <2>2, ZenonT(60) DEF TypeOK
<1>6. StopHolds' /\ (pc' = "restart" => retry_')
  BY <1>3 DEF StopHolds, IInv
<1> QED BY <1>1, <1>3, <1>4, <1>5, <1>6 DEF IInv

LEMMA StartConnectorRemotelyStep ==
  ASSUME IInv, NEW t \in Callers, StartConnectorRemotely(t)
  PROVE  IInv'
<1>1. alive
  BY DEF IInv, Dead, StartConnectorRemotely, startRemotely
<1>2. TypeOK /\ Lives
  BY <1>1 DEF IInv
<1>3. /\ caller[t] = "connect" /\ caller' = [caller EXCEPT ![t] = "start"]
      /\ connect' = TRUE /\ stopped' \in {"no", "during"}
      /\ UNCHANGED <<state, channel, retryDelayMs, timerId, timers, registered,
                     pendingFunctors, calling, revents, handing, sockets, gaveUp, connect_,
                     state_, connection, established, pc, retry_, alive, mayConnect>>
  BY DEF StartConnectorRemotely, startRemotely, Overlapped, attempt, loop, client, user
<1>4. Starters' = Starters
  BY <1>2, <1>3 DEF Starters, TypeOK, ConnectorTypeOK
<1>5. Lives'
  BY <1>2, <1>3, <1>4, QuietStep DEF Open, Functors
<1>6. TypeOK'
  <2>1. /\ caller' \in [Callers -> {"outside", "connect", "start", "stop", "cancel"}]
        /\ connect' \in BOOLEAN /\ stopped' \in {"no", "during", "after"}
    BY <1>2, <1>3 DEF TypeOK, ConnectorTypeOK
  <2>2. ConnectorTypeOK'
    BY <1>2, <1>3, <2>1, ZenonT(60) DEF TypeOK, ConnectorTypeOK
  <2> QED BY <1>2, <1>3, <2>1, <2>2, ZenonT(60) DEF TypeOK
<1>7. StopHolds' /\ (pc' = "restart" => retry_')
  BY <1>3 DEF StopHolds, IInv
<1> QED BY <1>1, <1>3, <1>5, <1>6, <1>7 DEF IInv

LEMMA DisconnectStep ==
  ASSUME IInv, alive, Disconnect
  PROVE  IInv'
<1>1. /\ TypeOK /\ Lives
  BY DEF IInv
<1>2. /\ connect_' = FALSE /\ established' = FALSE
      /\ UNCHANGED <<connect, state, channel, retryDelayMs, timerId, timers, registered,
                     pendingFunctors, calling, revents, handing, sockets, caller, gaveUp,
                     state_, connection, pc, retry_, alive, mayConnect, stopped>>
  BY DEF Disconnect, connectorVars, attempt, loop, user
<1>3. Lives'
  BY <1>1, <1>2, QuietStep DEF Open, Functors, Starters
<1>4. TypeOK'
  <2>1. ConnectorTypeOK'
    BY <1>1, <1>2, ZenonT(60) DEF TypeOK, ConnectorTypeOK
  <2> QED BY <1>1, <1>2, <2>1, ZenonT(60) DEF TypeOK
<1>5. StopHolds' /\ (pc' = "restart" => retry_')
  BY <1>2 DEF StopHolds, IInv
<1> QED BY <1>2, <1>3, <1>4, <1>5 DEF IInv

LEMMA StopCallStep ==
  ASSUME IInv, stopCall
  PROVE  IInv'
<1>1. /\ TypeOK /\ alive /\ Lives
  BY DEF IInv, stopCall, InUserCode
<1>2. /\ connect_' = FALSE /\ connect' = FALSE /\ stopped' = "after"
      /\ timers' = timers \ {timerId}
      /\ UNCHANGED <<state, channel, retryDelayMs, timerId, registered, pendingFunctors,
                     calling, revents, handing, sockets, caller, gaveUp, state_, connection,
                     established, pc, retry_, alive, mayConnect>>
  BY DEF stopCall, stop, attempt, user
<1>3. /\ Open' = Open /\ Functors' = Functors /\ Starters' = Starters /\ Busy' = Busy
      /\ timers' = {}
  BY <1>1, <1>2 DEF Open, Functors, Starters, Busy, Lives, Control
<1>4. OnlyOne' /\ Owned' /\ BeginsIdle' /\ Control'
  BY <1>1, <1>2, <1>3 DEF Lives, OnlyOne, Single, Owned, BeginsIdle, Idle, Control, Outside
<1>5. TypeOK'
  <2>1. timers' \subseteq TimerIds
    BY <1>3
  <2>2. ConnectorTypeOK'
    BY <1>1, <1>2, <2>1, ZenonT(60) DEF TypeOK, ConnectorTypeOK
  <2> QED BY <1>1, <1>2, <2>2, ZenonT(60) DEF TypeOK
<1>6. StopHolds' /\ (pc' = "restart" => retry_')
  BY <1>2 DEF StopHolds, IInv
<1> QED BY <1>1, <1>2, <1>4, <1>5, <1>6 DEF IInv, Lives

\* stop() on another thread, up to the push of its cancel.
LEMMA StopRemotelyStep ==
  ASSUME IInv, NEW t \in Callers, stopCallRemotely(t) \/ StopConnector(t)
  PROVE  IInv'
<1>1. alive
  BY DEF IInv, Dead, stopCallRemotely, CanCall, StopConnector, stopRemotely
<1>2. /\ TypeOK /\ Lives
  BY <1>1 DEF IInv
<1>3. /\ caller[t] \notin {"connect", "start"}
      /\ connect_' \in BOOLEAN /\ connect' \in {connect, FALSE}
      /\ stopped' # stopped => connect' = FALSE
      /\ stopped' \in {"no", "during", "after"}
      /\ \E c \in {"stop", "cancel"} : caller' = [caller EXCEPT ![t] = c]
      /\ UNCHANGED <<state, channel, retryDelayMs, timerId, timers, registered,
                     pendingFunctors, calling, revents, handing, sockets, gaveUp,
                     state_, connection, established, pc, retry_, alive, mayConnect>>
  BY <1>2 DEF stopCallRemotely, CanCall, StopConnector, stopRemotely, attempt, loop, client, user,
         TypeOK
<1>4. Starters' = Starters
  BY <1>2, <1>3 DEF Starters, TypeOK, ConnectorTypeOK
<1>5. Lives'
  BY <1>2, <1>3, <1>4, QuietStep DEF Open, Functors
<1>6. TypeOK'
  <2>1. caller' \in [Callers -> {"outside", "connect", "start", "stop", "cancel"}]
    BY <1>2, <1>3 DEF TypeOK, ConnectorTypeOK
  <2>2. ConnectorTypeOK'
    BY <1>2, <1>3, <2>1, ZenonT(60) DEF TypeOK, ConnectorTypeOK
  <2> QED BY <1>2, <1>3, <2>2, ZenonT(60) DEF TypeOK
<1>7. StopHolds' /\ (pc' = "restart" => retry_')
  <2>1. CASE connect' = FALSE
    BY <1>3, <2>1 DEF StopHolds, IInv
  <2>2. CASE connect' = connect /\ stopped' = stopped
    BY <1>3, <2>2 DEF StopHolds, IInv
  <2> QED BY <1>2, <1>3, <2>1, <2>2, ZenonT(60) DEF TypeOK, ConnectorTypeOK
<1> QED BY <1>1, <1>3, <1>5, <1>6, <1>7 DEF IInv

LEMMA PushStep ==
  ASSUME IInv, NEW t \in Callers, Push(t)
  PROVE  IInv'
<1>1. alive
  BY DEF IInv, Dead, Push, PushStart, PushCancel
<1>2. /\ TypeOK /\ Lives
  BY <1>1 DEF IInv
<1>3. /\ caller' = [caller EXCEPT ![t] = "outside"]
      /\ UNCHANGED <<connect, state, channel, retryDelayMs, timerId, timers, registered,
                     calling, revents, handing, sockets, gaveUp,
                     connect_, state_, connection, established, pc, retry_, alive, mayConnect,
                     stopped>>
  BY DEF Push, PushStart, PushCancel, attempt, client, user
<1>4. Open' = Open /\ Busy' = Busy
  BY <1>3 DEF Open, Busy
<1>5. caller' \in [Callers -> {"outside", "connect", "start", "stop", "cancel"}]
  BY <1>2, <1>3 DEF TypeOK, ConnectorTypeOK
<1>6. StopHolds' /\ (pc' = "restart" => retry_')
  BY <1>3 DEF StopHolds, IInv
<1>7. CASE PushStart(t)
  <2>1. caller[t] = "start" /\ pendingFunctors' = Append(pendingFunctors, StartInLoop)
    BY <1>7 DEF PushStart
  <2>2. t \in Starters /\ Starters' = {}
    BY <1>2, <1>3, <2>1 DEF Starters, TypeOK, ConnectorTypeOK, Lives, OnlyOne, Single
  <2>3. calling = "nothing" /\ timers = {} /\ Functors = {} /\ Busy = {}
    BY <1>2, <2>2 DEF Lives, OnlyOne
  <2>4. Functors' # {} /\ Single(Functors') /\ pendingFunctors' \in Seq({StartInLoop} \cup TimerIds)
    BY <1>2, <2>1, <2>3, PushedFunctors DEF TypeOK
  <2>5. ~Idle
    BY <2>2 DEF Idle
  <2>6. OnlyOne' /\ Owned' /\ BeginsIdle' /\ Control'
    BY <1>2, <1>3, <1>4, <2>2, <2>3, <2>4, <2>5
       DEF Lives, OnlyOne, Single, Owned, BeginsIdle, Control, Outside
  <2>7. TypeOK'
    <3>1. ConnectorTypeOK'
      BY <1>2, <1>3, <1>5, <2>4, ZenonT(60) DEF TypeOK, ConnectorTypeOK
    <3> QED BY <1>2, <1>3, <3>1, ZenonT(60) DEF TypeOK
  <2> QED BY <1>1, <1>3, <1>6, <2>6, <2>7 DEF Lives, IInv
<1>8. CASE PushCancel(t)
  <2>1. caller[t] = "cancel"
        /\ pendingFunctors' = IF timerId = 0 THEN pendingFunctors
                              ELSE Append(pendingFunctors, timerId)
    BY <1>8 DEF PushCancel
  <2>2. Starters' = Starters
    BY <1>2, <1>3, <2>1 DEF Starters, TypeOK, ConnectorTypeOK
  <2>3. pendingFunctors' \in Seq({StartInLoop} \cup TimerIds) /\ Functors' = Functors
    <3>1. CASE timerId = 0
      BY <1>2, <2>1, <3>1 DEF TypeOK, ConnectorTypeOK, Functors
    <3>2. CASE timerId # 0
      BY <1>2, <2>1, <3>2, PushedFunctors, ConstantTypes DEF TypeOK, ConnectorTypeOK
    <3> QED BY <3>1, <3>2
  <2>4. Lives'
    BY <1>2, <1>3, <1>4, <2>2, <2>3, QuietStep
  <2>5. TypeOK'
    <3>1. ConnectorTypeOK'
      BY <1>2, <1>3, <1>5, <2>3, ZenonT(60) DEF TypeOK, ConnectorTypeOK
    <3> QED BY <1>2, <1>3, <3>1, ZenonT(60) DEF TypeOK
  <2> QED BY <1>1, <1>3, <1>6, <2>4, <2>5 DEF IInv
<1> QED BY <1>7, <1>8 DEF Push

-----------------------------------------------------------------------------
(* The connector on the loop thread.                                       *)

\* What a step of the connector leaves alone.
LEMMA ConnectorFrame ==
  ASSUME IInv, alive, ConnectorTypeOK', Lives', UNCHANGED <<connect, client, user, stopped>>
  PROVE  IInv'
<1>1. TypeOK /\ UNCHANGED <<connect_, state_, connection, established, pc, retry_, alive,
                            mayConnect, stopped>>
  BY DEF IInv, client, user
<1>2. TypeOK'
  BY <1>1, ZenonT(60) DEF TypeOK
<1>3. StopHolds' /\ (pc' = "restart" => retry_')
  BY <1>1 DEF StopHolds, IInv
<1> QED BY <1>1, <1>2, <1>3 DEF IInv

LEMMA CallFunctorStep ==
  ASSUME IInv, alive, pc = "loop", CallFunctor, UNCHANGED <<client, user, stopped>>
  PROVE  IInv'
<1>1. TypeOK /\ Lives
  BY DEF IInv
<1>2. /\ Outside
      /\ pendingFunctors # <<>> /\ pendingFunctors' = Tail(pendingFunctors)
      /\ calling' = IF Head(pendingFunctors) = StartInLoop THEN "startInLoop" ELSE "nothing"
      /\ timers' = timers \ {Head(pendingFunctors)}
      /\ UNCHANGED <<connect, state, channel, retryDelayMs, timerId, registered, revents,
                     handing, sockets, caller, gaveUp, connection, pc, mayConnect, retry_>>
  BY DEF CallFunctor, attempt, client, user
<1>3. Open' = Open /\ Busy' = Busy /\ Starters' = Starters
  BY <1>2 DEF Open, Busy, Starters
<1>4. ConnectorTypeOK'
  <2>1. pendingFunctors' \in Seq({StartInLoop} \cup TimerIds) /\ timers' \subseteq TimerIds
    BY <1>1, <1>2, CalledFunctors DEF TypeOK, ConnectorTypeOK, Lives, OnlyOne
  <2>2. calling' \in {"nothing", "start", "startInLoop", "connect", "runAfter"}
    BY <1>2
  <2> QED BY <1>1, <1>2, <2>1, <2>2, ZenonT(60) DEF TypeOK, ConnectorTypeOK
<1>5. CASE Head(pendingFunctors) = StartInLoop
  <2>1. Functors # {} /\ Functors' = {}
    BY <1>1, <1>2, <1>5, CalledFunctors DEF TypeOK, Lives, OnlyOne
  <2>2. ~Idle /\ timers = {} /\ Starters = {} /\ Busy = {}
    BY <1>1, <2>1 DEF Lives, OnlyOne, Idle
  <2>3. timers' = {} /\ calling' = "startInLoop"
    BY <1>2, <1>5, <2>2
  <2>4. OnlyOne'
    BY <1>3, <2>1, <2>2, <2>3 DEF OnlyOne, Single
  <2>5. Owned' /\ BeginsIdle' /\ Control'
    BY <1>1, <1>2, <1>3, <2>2, <2>3 DEF Lives, Owned, BeginsIdle, Control, Outside
  <2>6. Lives'
    BY <2>4, <2>5 DEF Lives
  <2> QED BY <1>2, <1>4, <2>6, ConnectorFrame
<1>6. CASE Head(pendingFunctors) # StartInLoop
  <2>1. Single(Functors') /\ (Functors' = {} <=> Functors = {})
    BY <1>1, <1>2, <1>6, CalledFunctors DEF TypeOK, Lives, OnlyOne
  <2>2. calling' = "nothing" /\ calling = "nothing" /\ timers' \subseteq timers
    BY <1>1, <1>2, <1>6 DEF Outside, TypeOK, ConnectorTypeOK
  <2>3. OnlyOne' /\ (Idle => Idle')
    BY <1>1, <1>3, <2>1, <2>2 DEF Lives, OnlyOne, Single, Idle
  <2>4. Owned' /\ BeginsIdle' /\ Control'
    BY <1>1, <1>2, <1>3, <2>2, <2>3 DEF Lives, Owned, BeginsIdle, Control, Outside
  <2>5. Lives'
    BY <2>3, <2>4 DEF Lives
  <2> QED BY <1>2, <1>4, <2>5, ConnectorFrame
<1> QED BY <1>5, <1>6

LEMMA RunTimerStep ==
  ASSUME IInv, alive, pc = "loop", RunTimer, UNCHANGED <<client, user, stopped>>
  PROVE  IInv'
<1>1. TypeOK /\ Lives
  BY DEF IInv
<1>2. /\ Outside
      /\ calling' = "startInLoop"
      /\ UNCHANGED <<connect, state, channel, retryDelayMs, timerId, registered,
                     pendingFunctors, revents, handing, sockets, caller, gaveUp, connection,
                     pc, mayConnect, retry_>>
  BY DEF RunTimer, attempt, client, user
<1>3. timers # {} /\ timers' = {}
  BY <1>1 DEF RunTimer, Lives, OnlyOne, Single
<1>4. ~Idle /\ Functors = {} /\ Starters = {} /\ Busy = {}
  BY <1>1, <1>3 DEF Lives, OnlyOne, Idle
<1>5. Open' = Open /\ Busy' = Busy /\ Functors' = Functors /\ Starters' = Starters
  BY <1>2 DEF Open, Busy, Functors, Starters
<1>6. OnlyOne'
  BY <1>2, <1>3, <1>4, <1>5 DEF OnlyOne, Single
<1>7. Owned' /\ BeginsIdle' /\ Control'
  BY <1>1, <1>2, <1>3, <1>4, <1>5 DEF Lives, Owned, BeginsIdle, Control, Outside
<1>8. ConnectorTypeOK'
  <2>1. calling' \in {"nothing", "start", "startInLoop", "connect", "runAfter"}
        /\ timers' \subseteq TimerIds
    BY <1>2, <1>3
  <2> QED BY <1>1, <1>2, <2>1, ZenonT(60) DEF TypeOK, ConnectorTypeOK
<1> QED BY <1>2, <1>6, <1>7, <1>8, ConnectorFrame DEF Lives

LEMMA DispatchStep ==
  ASSUME IInv, alive, pc = "loop", Dispatch, UNCHANGED <<client, user, stopped>>
  PROVE  IInv'
<1>1. TypeOK /\ Lives
  BY DEF IInv
<1>2. /\ Outside
      /\ registered # {} /\ revents' \subseteq {"error", "out"}
      /\ UNCHANGED <<connect, state, channel, retryDelayMs, timerId, timers, registered,
                     pendingFunctors, calling, handing, sockets, caller, gaveUp, connection,
                     pc, mayConnect, retry_>>
  BY DEF Dispatch, attempt, client, user
<1>3. Open' = Open /\ Busy' = Busy /\ Functors' = Functors /\ Starters' = Starters
  BY <1>2 DEF Open, Busy, Functors, Starters
<1>4. state = "kConnecting"
  BY <1>1, <1>2, SocketFacts
<1>5. OnlyOne' /\ Owned' /\ BeginsIdle'
  BY <1>1, <1>2, <1>3 DEF Lives, OnlyOne, Single, Owned, BeginsIdle, Idle
<1>6. Control'
  BY <1>1, <1>2, <1>4 DEF Lives, Control, Outside
<1>7. ConnectorTypeOK'
  BY <1>1, <1>2, ZenonT(60) DEF TypeOK, ConnectorTypeOK
<1> QED BY <1>2, <1>5, <1>6, <1>7, ConnectorFrame DEF Lives

\* The attempt has failed and is over; a timer may be still to be set for the next.
LEMMA AttemptOver ==
  ASSUME TypeOK, Lives, pc = "loop", state = "kConnecting",
         Open' = Open \ {channel}, registered' = {}, state' # "kConnecting",
         revents' \subseteq {"out"}, handing' = None,
         UNCHANGED <<timerId, timers, pendingFunctors, caller, connection, pc, mayConnect, retry_>>
  PROVE  Lives'
<1>1. /\ Busy = {channel} /\ registered = {channel} /\ connection # channel
      /\ connection \in Sockets \cup {None} /\ handing = None /\ Open = Busy
      /\ channel # None
  BY SocketFacts, ConstantTypes DEF Lives, Owned, Busy, TypeOK, ConnectorTypeOK
<1>2. ~Idle /\ timers = {} /\ Functors = {} /\ Starters = {}
  BY <1>1 DEF Lives, OnlyOne, Idle
<1>3. Functors' = {} /\ Starters' = {} /\ Busy' = {} /\ Open' = {}
  BY <1>1, <1>2 DEF Functors, Starters, Busy
<1>4. OnlyOne'
  BY <1>2, <1>3 DEF OnlyOne, Single
<1>5. Owned'
  BY <1>1, <1>3 DEF Lives, Owned
<1>6. BeginsIdle' /\ Control'
  BY <1>2 DEF Lives, BeginsIdle, Control
<1> QED BY <1>4, <1>5, <1>6 DEF Lives

LEMMA handleErrorStep ==
  ASSUME IInv, alive, pc = "loop", handleError, UNCHANGED <<client, user, stopped>>
  PROVE  IInv'
<1>1. TypeOK /\ Lives
  BY DEF IInv
<1>2. /\ "error" \in revents /\ revents' = revents \ {"error"}
      /\ registered' = registered \ {channel} /\ retry(channel)
      /\ UNCHANGED <<connect, channel, retryDelayMs, timerId, timers, pendingFunctors,
                     handing, caller, gaveUp, connection, pc, mayConnect, retry_>>
  BY DEF handleError, Deregistered, client, user
<1>3. state = "kConnecting" /\ handing = None
  BY <1>1, <1>2 DEF Lives, Control
<1>4. channel \in Sockets /\ registered' = {}
  BY <1>1, <1>2, <1>3, SocketFacts
<1>5. /\ sockets' \in [Sockets -> {"closed", "connecting", "accepted", "self", "failed"}]
      /\ Open' = Open \ {channel}
      /\ state' = "kDisconnected"
      /\ calling' \in {"nothing", "runAfter"}
  BY <1>1, <1>2, <1>4, RetryProperties DEF TypeOK
<1>6. revents' \subseteq {"out"}
  BY <1>1, <1>2 DEF TypeOK, ConnectorTypeOK
<1>7. Lives'
  BY <1>1, <1>2, <1>3, <1>4, <1>5, <1>6, AttemptOver
<1>8. ConnectorTypeOK'
  <2>1. /\ registered' \subseteq Sockets /\ revents' \subseteq {"error", "out"}
        /\ state' \in {"kDisconnected", "kConnecting", "kConnected"}
        /\ calling' \in {"nothing", "start", "startInLoop", "connect", "runAfter"}
    BY <1>4, <1>5, <1>6
  <2> QED BY <1>1, <1>2, <1>5, <2>1, ZenonT(60) DEF TypeOK, ConnectorTypeOK
<1> QED BY <1>2, <1>7, <1>8, ConnectorFrame

LEMMA handleWriteStep ==
  ASSUME IInv, alive, pc = "loop", handleWrite, UNCHANGED <<client, user, stopped>>
  PROVE  IInv'
<1>1. TypeOK /\ Lives
  BY DEF IInv
<1>2. /\ "out" \in revents /\ revents' = {}
      /\ calling = "nothing"
      /\ UNCHANGED <<connect, retryDelayMs, timerId, timers, pendingFunctors, caller, gaveUp,
                     connection, pc, mayConnect, retry_>>
  BY DEF handleWrite, client, user
<1>3. handing = None
  BY <1>1, <1>2 DEF Lives, Control
<1>4. Functors' = Functors /\ Starters' = Starters
  BY <1>2 DEF Functors, Starters
<1>5. CASE state # "kConnecting"
  <2>1. UNCHANGED <<state, channel, registered, sockets, calling, handing>>
    BY <1>5 DEF handleWrite, IsConnecting
  <2>2. Open' = Open /\ Busy' = Busy
    BY <1>2, <2>1 DEF Open, Busy
  <2>3. OnlyOne' /\ Owned' /\ BeginsIdle'
    BY <1>1, <1>2, <1>4, <2>1, <2>2 DEF Lives, OnlyOne, Single, Owned, BeginsIdle, Idle
  <2>4. Control'
    BY <1>1, <1>2, <1>3, <2>1 DEF Lives, Control, Outside
  <2>5. ConnectorTypeOK'
    <3>1. revents' \subseteq {"error", "out"}
      BY <1>2
    <3> QED BY <1>1, <1>2, <2>1, <3>1, ZenonT(60) DEF TypeOK, ConnectorTypeOK
  <2> QED BY <1>2, <2>3, <2>4, <2>5, ConnectorFrame DEF Lives
<1>6. CASE state = "kConnecting"
  <2>1. /\ channel \in Sockets /\ Busy = {channel} /\ registered = {channel} /\ channel \in Open
        /\ connection = None
    BY <1>1, <1>6, SocketFacts
  <2>2. ~Idle /\ timers = {} /\ Functors = {} /\ Starters = {}
    BY <1>1, <2>1 DEF Lives, OnlyOne, Idle
  <2>3. registered' = {}
    BY <1>6, <2>1 DEF handleWrite, IsConnecting, Deregistered
  <2>4. CASE retry(channel) /\ channel' = None /\ handing' = handing
    <3>1. /\ sockets' \in [Sockets -> {"closed", "connecting", "accepted", "self", "failed"}]
          /\ Open' = Open \ {channel}
          /\ state' = "kDisconnected"
          /\ calling' \in {"nothing", "runAfter"}
      BY <1>1, <2>1, <2>4, RetryProperties DEF TypeOK
    <3>2. Lives'
      BY <1>1, <1>2, <1>3, <1>6, <2>3, <2>4, <3>1, AttemptOver
    <3>3. ConnectorTypeOK'
      <4>1. /\ registered' \subseteq Sockets /\ revents' \subseteq {"error", "out"}
            /\ state' \in {"kDisconnected", "kConnecting", "kConnected"}
            /\ channel' \in Sockets \cup {None} /\ handing' \in Sockets \cup {None}
            /\ calling' \in {"nothing", "start", "startInLoop", "connect", "runAfter"}
        BY <1>2, <1>3, <2>3, <2>4, <3>1
      <4> QED BY <1>1, <1>2, <3>1, <4>1, ZenonT(60) DEF TypeOK, ConnectorTypeOK
    <3> QED BY <1>2, <3>2, <3>3, ConnectorFrame
  <2>5. CASE Connected(channel)
    <3>1. state' = "kConnected" /\ calling' = calling
      BY <2>5 DEF Connected
    <3>2. CASE connect
      <4>1. handing' = channel /\ channel' = channel /\ sockets' = sockets
        BY <2>5, <3>2 DEF Connected
      <4>2. Open' = Open /\ Busy' = Busy
        BY <1>2, <4>1 DEF Open, Busy
      <4>3. OnlyOne' /\ BeginsIdle' /\ Control'
        BY <1>1, <1>2, <1>3, <1>4, <2>1, <2>2, <2>3, <3>1, <4>1, <4>2
           DEF Lives, OnlyOne, Single, BeginsIdle, Control
      <4>4. Owned'
        <5>1. connection \in Sockets \cup {None} /\ channel # None
          BY <1>1, <2>1, ConstantTypes DEF TypeOK
        <5> QED BY <1>1, <1>2, <1>3, <1>6, <2>1, <2>3, <3>1, <4>1, <4>2, <5>1 DEF Lives, Owned
      <4>5. ConnectorTypeOK'
        <5>1. /\ registered' \subseteq Sockets /\ revents' \subseteq {"error", "out"}
              /\ state' \in {"kDisconnected", "kConnecting", "kConnected"}
              /\ handing' \in Sockets \cup {None}
          BY <1>2, <2>1, <2>3, <3>1, <4>1
        <5> QED BY <1>1, <1>2, <3>1, <4>1, <5>1, ZenonT(60) DEF TypeOK, ConnectorTypeOK
      <4> QED BY <1>2, <4>3, <4>4, <4>5, ConnectorFrame DEF Lives
    <3>3. CASE ~connect
      <4>1. sockets' = Closed(channel) /\ channel' = None /\ handing' = None
        BY <1>3, <2>5, <3>3 DEF Connected, Unwanted
      <4>2. /\ sockets' \in [Sockets -> {"closed", "connecting", "accepted", "self", "failed"}]
            /\ Open' = Open \ {channel}
        BY <1>1, <2>1, <4>1, ClosedProperties DEF TypeOK
      <4>3. Lives'
        BY <1>1, <1>2, <1>3, <1>6, <2>3, <3>1, <4>1, <4>2, AttemptOver
      <4>4. ConnectorTypeOK'
        <5>1. /\ registered' \subseteq Sockets /\ revents' \subseteq {"error", "out"}
              /\ state' \in {"kDisconnected", "kConnecting", "kConnected"}
              /\ channel' \in Sockets \cup {None} /\ handing' \in Sockets \cup {None}
          BY <1>2, <2>3, <3>1, <4>1
        <5> QED BY <1>1, <1>2, <3>1, <4>2, <5>1, ZenonT(60) DEF TypeOK, ConnectorTypeOK
      <4> QED BY <1>2, <4>3, <4>4, ConnectorFrame
    <3> QED BY <3>2, <3>3
  <2> QED BY <1>6, <2>4, <2>5 DEF handleWrite, IsConnecting
<1> QED BY <1>5, <1>6

\* What is under way goes on or ends, and no socket is opened for it.
LEMMA NothingOpened ==
  ASSUME TypeOK, Lives, calling # "nothing", calling' # "nothing" => timers' = timers,
         Open' = Open, registered' = registered, state' # "kConnecting",
         timers' \subseteq {timerId'},
         UNCHANGED <<pendingFunctors, revents, handing, caller, connection, pc, mayConnect,
                     retry_>>
  PROVE  Lives'
<1>1. /\ ~Idle /\ timers = {} /\ Functors = {} /\ Starters = {} /\ Busy = {}
      /\ pc \notin {"up", "restart"}
  BY DEF Lives, OnlyOne, Idle, Control, Outside
<1>2. registered = {} /\ state # "kConnecting" /\ handing = None
  BY <1>1, SocketFacts
<1>3. Functors' = {} /\ Starters' = {} /\ Busy' = {} /\ Single(timers')
  BY <1>1 DEF Functors, Starters, Busy, Single
<1>4. OnlyOne' /\ BeginsIdle'
  BY <1>1, <1>3 DEF Lives, OnlyOne, Single, BeginsIdle
<1>5. "error" \notin revents
  BY <1>2 DEF Lives, Control
<1>6. Owned' /\ Control'
  BY <1>1, <1>2, <1>5 DEF Lives, Owned, Control
<1> QED BY <1>4, <1>6 DEF Lives

LEMMA startInLoopStep ==
  ASSUME IInv, alive, startInLoop, UNCHANGED <<client, user, stopped>>
  PROVE  IInv'
<1>1. TypeOK /\ Lives
  BY DEF IInv
<1>2. /\ calling = "startInLoop" /\ calling' \in {"connect", "nothing"}
      /\ UNCHANGED <<connect, state, channel, retryDelayMs, timerId, timers, registered,
                     pendingFunctors, revents, handing, sockets, caller, gaveUp, connection,
                     pc, mayConnect, retry_>>
  BY DEF startInLoop, attempt, client, user
<1>3. state # "kConnecting" /\ timers' \subseteq {timerId'}
  BY <1>1, <1>2, SocketFacts DEF Lives, OnlyOne
<1>4. Lives'
  BY <1>1, <1>2, <1>3, NothingOpened DEF Open
<1>5. ConnectorTypeOK'
  <2>1. calling' \in {"nothing", "start", "startInLoop", "connect", "runAfter"}
    BY <1>2
  <2> QED BY <1>1, <1>2, <2>1, ZenonT(60) DEF TypeOK, ConnectorTypeOK
<1> QED BY <1>2, <1>4, <1>5, ConnectorFrame

\* An attempt begins when nothing else is under way, and with a socket of its own.
LEMMA ConnectSocketStep ==
  ASSUME IInv, alive, ConnectSocket, UNCHANGED <<client, user, stopped>>
  PROVE  IInv'
<1>1. TypeOK /\ Lives
  BY DEF IInv
<1>2. /\ calling = "connect"
      /\ UNCHANGED <<connect, retryDelayMs, timerId, timers, pendingFunctors, revents, handing,
                     caller, connection, pc, mayConnect, retry_>>
  BY DEF ConnectSocket, client, user
<1>3. /\ ~Idle /\ timers = {} /\ Functors = {} /\ Starters = {} /\ Busy = {}
      /\ pc \notin {"up", "restart"}
  BY <1>1, <1>2 DEF Lives, OnlyOne, Idle, Control, Outside
<1>4. /\ registered = {} /\ state # "kConnecting" /\ handing = None
      /\ connection \in Sockets \cup {None} /\ (connection # None => connection \in Open)
  BY <1>1, <1>3, SocketFacts DEF TypeOK
<1>5. Functors' = Functors /\ Starters' = Starters
  BY <1>2 DEF Functors, Starters
<1>6. ASSUME NEW s \in Sockets \ Open, Connecting(s)
      PROVE  IInv'
  <2>1. /\ sockets' = [sockets EXCEPT ![s] = "connecting"]
        /\ state' = "kConnecting" /\ channel' = s /\ registered' = {s}
        /\ calling' = "nothing" /\ gaveUp' = gaveUp
    BY <1>4, <1>6 DEF Connecting
  <2>2. /\ sockets' \in [Sockets -> {"closed", "connecting", "accepted", "self", "failed"}]
        /\ Open' = Open \cup {s}
    BY <1>1, <2>1, OpenedProperties DEF TypeOK
  <2>3. s # None /\ s # connection /\ Busy' = {s}
    BY <1>2, <1>3, <1>4, <1>6, <2>2, ConstantTypes DEF Busy
  <2>4. OnlyOne' /\ BeginsIdle' /\ Control'
    BY <1>1, <1>2, <1>3, <1>4, <1>5, <2>1, <2>3
       DEF Lives, OnlyOne, Single, BeginsIdle, Control
  <2>5. Owned'
    BY <1>1, <1>2, <1>3, <1>4, <2>1, <2>2, <2>3 DEF Lives, Owned
  <2>6. ConnectorTypeOK'
    <3>1. /\ registered' \subseteq Sockets
          /\ calling' \in {"nothing", "start", "startInLoop", "connect", "runAfter"}
          /\ state' \in {"kDisconnected", "kConnecting", "kConnected"}
          /\ channel' \in Sockets \cup {None}
      BY <2>1
    <3> QED BY <1>1, <1>2, <2>1, <2>2, <3>1, ZenonT(60) DEF TypeOK, ConnectorTypeOK
  <2> QED BY <1>2, <2>4, <2>5, <2>6, ConnectorFrame DEF Lives
<1>7. ASSUME NEW s \in Sockets \ Open, ConnectFails(s) \/ ConnectGivesUp(s)
      PROVE  IInv'
  <2>1. /\ sockets' \in [Sockets -> {"closed", "connecting", "accepted", "self", "failed"}]
        /\ Open' = Open
        /\ state' \in {"kDisconnected", state}
        /\ calling' \in {"nothing", "runAfter"}
        /\ gaveUp' \in {TRUE, gaveUp}
        /\ UNCHANGED <<channel, registered>>
    <3>1. ConnectorTypeOK /\ Open \ {s} = Open
      BY <1>1, <1>7 DEF TypeOK
    <3>2. CASE ConnectFails(s)
      BY <1>7, <3>1, <3>2, RetryProperties DEF ConnectFails
    <3>3. CASE ConnectGivesUp(s)
      BY <1>7, <3>1, <3>3, ClosedProperties DEF ConnectGivesUp
    <3> QED BY <1>7, <3>2, <3>3
  <2>2. Lives'
    BY <1>1, <1>2, <1>3, <1>4, <2>1, NothingOpened
  <2>3. ConnectorTypeOK'
    <3>1. /\ calling' \in {"nothing", "start", "startInLoop", "connect", "runAfter"}
          /\ state' \in {"kDisconnected", "kConnecting", "kConnected"}
          /\ gaveUp' \in BOOLEAN
      BY <1>1, <2>1 DEF TypeOK, ConnectorTypeOK
    <3> QED BY <1>1, <1>2, <2>1, <3>1, ZenonT(60) DEF TypeOK, ConnectorTypeOK
  <2> QED BY <1>2, <2>2, <2>3, ConnectorFrame
<1> QED BY <1>6, <1>7 DEF ConnectSocket

\* The timer that retry() sets takes the place of what was under way.
LEMMA ArmRetryStep ==
  ASSUME IInv, alive, ArmRetry, UNCHANGED <<client, user, stopped>>
  PROVE  IInv'
<1>1. TypeOK /\ Lives
  BY DEF IInv
<1>2. /\ calling = "runAfter" /\ calling' = "nothing" /\ SetTimer
      /\ UNCHANGED <<connect, state, channel, registered, pendingFunctors, revents, handing,
                     sockets, caller, gaveUp, connection, pc, mayConnect, retry_>>
  BY DEF ArmRetry, client, user
<1>3. timers = {} /\ state # "kConnecting"
  BY <1>1, <1>2, SocketFacts DEF Lives, OnlyOne
<1>4. /\ retryDelayMs' \in kInitRetryDelayMs..kMaxRetryDelayMs
      /\ timerId' \in TimerIds \cup {0}
      /\ timers' \subseteq TimerIds /\ timers' \subseteq {timerId'}
  BY <1>1, <1>2, <1>3, SetTimerProperties DEF TypeOK
<1>5. Lives'
  BY <1>1, <1>2, <1>3, <1>4, NothingOpened DEF Open
<1>6. ConnectorTypeOK'
  <2>1. calling' \in {"nothing", "start", "startInLoop", "connect", "runAfter"}
    BY <1>2
  <2> QED BY <1>1, <1>2, <1>4, <2>1, ZenonT(60) DEF TypeOK, ConnectorTypeOK
<1> QED BY <1>2, <1>5, <1>6, ConnectorFrame

-----------------------------------------------------------------------------
(* The client on the loop thread.                                          *)

LEMMA newConnectionStep ==
  ASSUME IInv, newConnection
  PROVE  IInv'
<1>1. alive
  BY DEF IInv, Dead, Outside, newConnection
<1>2. TypeOK /\ Lives
  BY <1>1 DEF IInv
<1>3. /\ handing # None /\ pc = "loop"
      /\ state_' = TRUE /\ connection' = handing /\ established' = TRUE /\ pc' = "up"
      /\ UNCHANGED <<connect, state, channel, retryDelayMs, timerId, timers, registered,
                     pendingFunctors, calling, revents, handing, sockets, caller, gaveUp,
                     connect_, retry_, alive, mayConnect, stopped>>
  BY DEF newConnection, connectorVars, attempt, loop, user
<1>4. /\ Busy = {handing} /\ registered = {} /\ handing \in Sockets
      /\ connection = None \/ connection = handing
  BY <1>2, <1>3, SocketFacts
<1>5. ~Idle /\ calling = "nothing" /\ revents = {}
  BY <1>2, <1>3, <1>4 DEF Lives, OnlyOne, Control, Idle
<1>6. Open' = Open /\ Busy' = Busy /\ Functors' = Functors /\ Starters' = Starters
  BY <1>3 DEF Open, Busy, Functors, Starters
<1>7. OnlyOne'
  BY <1>2, <1>3, <1>6 DEF Lives, OnlyOne, Single
<1>8. Owned' /\ BeginsIdle' /\ Control'
  BY <1>2, <1>3, <1>4, <1>5, <1>6 DEF Lives, Owned, BeginsIdle, Control, Outside
<1>9. TypeOK'
  <2>1. ConnectorTypeOK'
    BY <1>2, <1>3, ZenonT(60) DEF TypeOK, ConnectorTypeOK
  <2>2. connection' \in Sockets \cup {None} /\ pc' \in {"loop", "up", "down", "restart"}
    BY <1>3, <1>4
  <2> QED BY <1>2, <1>3, <2>1, <2>2, ZenonT(60) DEF TypeOK
<1>10. StopHolds'
  BY <1>3 DEF StopHolds, IInv
<1> QED BY <1>1, <1>3, <1>7, <1>8, <1>9, <1>10 DEF IInv, Lives

LEMMA EstablishedStep ==
  ASSUME IInv, Established
  PROVE  IInv'
<1>1. alive
  BY DEF IInv, Dead, Established
<1>2. TypeOK /\ Lives
  BY <1>1 DEF IInv
<1>3. /\ pc = "up" /\ pc' = "loop" /\ handing' = None /\ channel' = None
      /\ UNCHANGED <<connect, state, retryDelayMs, timerId, timers, registered,
                     pendingFunctors, calling, revents, sockets, caller, gaveUp, connect_,
                     state_, connection, established, retry_, alive, mayConnect, stopped>>
  BY DEF Established, HandedOver, user
<1>4. handing = connection /\ handing # None /\ calling = "nothing" /\ revents = {}
  BY <1>2, <1>3 DEF Lives, Control
<1>5. registered = {} /\ state # "kConnecting"
  BY <1>2, <1>4, SocketFacts
<1>6. Open' = Open /\ Busy' = Busy /\ Functors' = Functors /\ Starters' = Starters
  BY <1>3 DEF Open, Busy, Functors, Starters
<1>7. OnlyOne' /\ BeginsIdle'
  BY <1>2, <1>3, <1>6 DEF Lives, OnlyOne, Single, BeginsIdle, Idle
<1>8. Owned' /\ Control'
  BY <1>2, <1>3, <1>4, <1>5, <1>6 DEF Lives, Owned, Control
<1>9. TypeOK'
  <2>1. ConnectorTypeOK'
    <3>1. channel' \in Sockets \cup {None} /\ handing' \in Sockets \cup {None}
      BY <1>3
    <3> QED BY <1>2, <1>3, <3>1, ZenonT(60) DEF TypeOK, ConnectorTypeOK
  <2>2. pc' \in {"loop", "up", "down", "restart"}
    BY <1>3
  <2> QED BY <1>2, <1>3, <2>1, <2>2, ZenonT(60) DEF TypeOK
<1>10. StopHolds'
  BY <1>3 DEF StopHolds, IInv
<1> QED BY <1>1, <1>3, <1>7, <1>8, <1>9, <1>10 DEF IInv, Lives

\* While the old connection is reported down there is nothing else under way.
LEMMA removeConnectionStep ==
  ASSUME IInv, removeConnection
  PROVE  IInv'
<1>1. TypeOK /\ alive /\ Lives
  BY DEF IInv, removeConnection
<1>2. /\ pc = "loop" /\ Outside /\ connection # None
      /\ established' = FALSE /\ pc' = "down" /\ mayConnect' = ~retry_
      /\ UNCHANGED <<connect, state, channel, retryDelayMs, timerId, timers, registered,
                     pendingFunctors, calling, revents, handing, sockets, caller, gaveUp,
                     connect_, state_, connection, retry_, alive, stopped>>
  BY DEF removeConnection, connectorVars, attempt, loop
<1>3. Busy = {connection} /\ registered = {} /\ connection \in Sockets
  BY <1>1, <1>2, SocketFacts
<1>4. calling = "nothing" /\ timers = {} /\ Functors = {} /\ Starters = {} /\ Open = {connection}
  BY <1>1, <1>2, <1>3 DEF Lives, OnlyOne, Busy
<1>5. Functors' = {} /\ Starters' = {} /\ Busy' = {} /\ Open' = Open
  BY <1>2, <1>4 DEF Functors, Starters, Busy, Open
<1>6. Idle' /\ OnlyOne'
  BY <1>2, <1>4, <1>5 DEF Idle, OnlyOne, Single
<1>7. Owned' /\ BeginsIdle' /\ Control'
  BY <1>1, <1>2, <1>3, <1>5, <1>6 DEF Lives, Owned, BeginsIdle, Control, Outside
<1>8. TypeOK'
  <2>1. ConnectorTypeOK'
    BY <1>1, <1>2, ZenonT(60) DEF TypeOK, ConnectorTypeOK
  <2>2. pc' \in {"loop", "up", "down", "restart"} /\ mayConnect' \in BOOLEAN
    BY <1>2
  <2> QED BY <1>1, <1>2, <2>1, <2>2, ZenonT(60) DEF TypeOK
<1>9. StopHolds' /\ pc' # "restart"
  BY <1>2 DEF StopHolds, IInv
<1> QED BY <1>1, <1>2, <1>6, <1>7, <1>8, <1>9 DEF IInv, Lives

LEMMA ReleaseStep ==
  ASSUME IInv, Release
  PROVE  IInv'
<1>1. alive
  BY DEF IInv, Dead, Release
<1>2. TypeOK /\ Lives
  BY <1>1 DEF IInv
<1>3. /\ pc = "down" /\ calling = "nothing" /\ sockets' = Closed(connection)
      /\ state_' = FALSE /\ connection' = None
      /\ pc' = IF retry_ /\ connect_ THEN "restart" ELSE "loop"
      /\ mayConnect' = (mayConnect \/ (retry_ /\ ~connect_))
      /\ UNCHANGED <<connect, state, channel, retryDelayMs, timerId, timers, registered,
                     pendingFunctors, calling, revents, handing, caller, gaveUp, connect_,
                     established, retry_, alive, stopped>>
  BY DEF Release, CloseSocket, MustRestart, attempt, loop
<1>4. /\ connection \in Sockets /\ connection # None /\ handing = None /\ revents = {}
      /\ connection \notin registered /\ None \notin registered
  BY <1>2, <1>3, SocketFacts, ConstantTypes DEF Lives, Control, Owned, TypeOK, ConnectorTypeOK
<1>5. /\ sockets' \in [Sockets -> {"closed", "connecting", "accepted", "self", "failed"}]
      /\ Open' = Open \ {connection}
  BY <1>2, <1>3, <1>4, ClosedProperties DEF TypeOK
<1>6. Busy' = Busy /\ Functors' = Functors /\ Starters' = Starters
  BY <1>3, <1>5 DEF Busy, Functors, Starters
<1>7. OnlyOne' /\ Idle' = Idle
  BY <1>2, <1>3, <1>6 DEF Lives, OnlyOne, Single, Idle
<1>8. BeginsIdle'
  BY <1>2, <1>3, <1>7 DEF Lives, BeginsIdle
<1>9. Owned'
  BY <1>2, <1>3, <1>4, <1>5 DEF Lives, Owned
<1>10. Control'
  BY <1>2, <1>3, <1>4 DEF Lives, Control, Outside
<1>11. TypeOK'
  <2>1. ConnectorTypeOK'
    BY <1>2, <1>3, <1>5, ZenonT(60) DEF TypeOK, ConnectorTypeOK
  <2>2. /\ connection' \in Sockets \cup {None} /\ pc' \in {"loop", "up", "down", "restart"}
        /\ mayConnect' \in BOOLEAN
    BY <1>3
  <2> QED BY <1>2, <1>3, <2>1, <2>2, ZenonT(60) DEF TypeOK
<1>12. StopHolds' /\ (pc' = "restart" => retry_')
  BY <1>3 DEF StopHolds, IInv
<1> QED BY <1>1, <1>3, <1>7, <1>8, <1>9, <1>10, <1>11, <1>12 DEF IInv, Lives

LEMMA RestartStep ==
  ASSUME IInv, Restart
  PROVE  IInv'
<1>1. alive
  BY DEF IInv, Dead, Restart
<1>2. TypeOK /\ Lives
  BY <1>1 DEF IInv
<1>3. /\ pc = "restart" /\ pc' = "loop"
      /\ state' = "kDisconnected" /\ retryDelayMs' = kInitRetryDelayMs
      /\ connect' = TRUE /\ calling' = "startInLoop"
      /\ UNCHANGED <<channel, timerId, timers, registered, pendingFunctors, revents, handing,
                     sockets, caller, gaveUp, connect_, state_, connection, established,
                     retry_, alive, mayConnect, stopped>>
  BY DEF Restart, restart, user
<1>4. Idle /\ ~mayConnect /\ Outside /\ retry_
  BY <1>2, <1>3 DEF Lives, BeginsIdle, Control
<1>5. registered = {} /\ state # "kConnecting"
  BY <1>2, <1>4, SocketFacts DEF Idle
<1>6. Open' = Open /\ Busy' = Busy /\ Functors' = Functors /\ Starters' = Starters
  BY <1>3 DEF Open, Busy, Functors, Starters
<1>7. OnlyOne'
  BY <1>3, <1>4, <1>6 DEF Idle, OnlyOne, Single
<1>8. Owned' /\ BeginsIdle' /\ Control'
  BY <1>2, <1>3, <1>4, <1>5, <1>6 DEF Lives, Owned, BeginsIdle, Control, Outside
<1>9. TypeOK'
  <2>1. /\ retryDelayMs' \in kInitRetryDelayMs..kMaxRetryDelayMs
        /\ state' \in {"kDisconnected", "kConnecting", "kConnected"}
        /\ connect' \in BOOLEAN
        /\ calling' \in {"nothing", "start", "startInLoop", "connect", "runAfter"}
    BY <1>3, ConstantTypes
  <2>2. ConnectorTypeOK'
    BY <1>2, <1>3, <2>1, ZenonT(60) DEF TypeOK, ConnectorTypeOK
  <2>3. pc' \in {"loop", "up", "down", "restart"}
    BY <1>3
  <2> QED BY <1>2, <1>3, <2>2, <2>3, ZenonT(60) DEF TypeOK
<1>10. StopHolds'
  BY <1>3, <1>4 DEF StopHolds
<1> QED BY <1>1, <1>3, <1>7, <1>8, <1>9, <1>10 DEF IInv, Lives

LEMMA DestroyClientStep ==
  ASSUME IInv, DestroyClient
  PROVE  IInv'
<1>1. TypeOK /\ alive /\ Lives
  BY DEF IInv, DestroyClient
<1>2. /\ pc = "loop" /\ Outside /\ alive' = FALSE
      /\ \A t \in Callers : caller[t] = "outside"
      /\ timers' = timers \ {timerId}
      /\ registered' = IF state = "kConnecting" THEN registered \ {channel} ELSE registered
      /\ \E owned : sockets' = [s \in Sockets |-> IF s \in owned THEN "closed" ELSE sockets[s]]
      /\ state_' = FALSE /\ connection' = None /\ established' = FALSE
      /\ UNCHANGED <<connect, state, channel, retryDelayMs, timerId, pendingFunctors, calling,
                     revents, handing, caller, gaveUp, connect_, pc, retry_, mayConnect,
                     stopped>>
  BY DEF DestroyClient, Destroy, TimersLeft, IsConnecting, Deregistered, attempt
<1>3. timers' = {} /\ registered' = {}
  BY <1>1, <1>2, SocketFacts DEF Lives, Control
<1>4. Dead'
  BY <1>2, <1>3 DEF Dead, Outside
<1>5. TypeOK'
  <2>1. /\ sockets' \in [Sockets -> {"closed", "connecting", "accepted", "self", "failed"}]
        /\ timers' \subseteq TimerIds /\ registered' \subseteq Sockets
    BY <1>1, <1>2, <1>3 DEF TypeOK, ConnectorTypeOK
  <2>2. ConnectorTypeOK'
    BY <1>1, <1>2, <2>1, ZenonT(60) DEF TypeOK, ConnectorTypeOK
  <2>3. connection' \in Sockets \cup {None}
    BY <1>2
  <2> QED BY <1>1, <1>2, <2>2, <2>3, ZenonT(60) DEF TypeOK
<1>6. StopHolds' /\ pc' # "restart"
  BY <1>2 DEF StopHolds, IInv
<1> QED BY <1>2, <1>4, <1>5, <1>6 DEF IInv

LEMMA KernelStep ==
  ASSUME IInv, NEW outcome \in Outcomes, Kernel(outcome)
  PROVE  IInv'
<1>1. TypeOK
  BY DEF IInv
<1>2. UNCHANGED <<connect, state, channel, retryDelayMs, timerId, timers, registered,
                  pendingFunctors, calling, revents, handing, caller, gaveUp, connect_,
                  state_, connection, established, pc, retry_, alive, mayConnect, stopped>>
  BY DEF Kernel, Resolve, attempt, loop, client, user
<1>3. /\ sockets' \in [Sockets -> {"closed", "connecting", "accepted", "self", "failed"}]
      /\ Open' = Open
  BY <1>1, ResolvedProperties DEF Kernel, TypeOK
<1>4. TypeOK'
  <2>1. ConnectorTypeOK'
    BY <1>1, <1>2, <1>3, ZenonT(60) DEF TypeOK, ConnectorTypeOK
  <2> QED BY <1>1, <1>2, <2>1, ZenonT(60) DEF TypeOK
<1>5. alive => Lives'
  BY <1>2, <1>3, QuietStep DEF IInv, Functors, Starters
<1>6. ~alive => Dead'
  BY <1>2 DEF IInv, Dead, Outside
<1>7. StopHolds' /\ (pc' = "restart" => retry_')
  BY <1>2 DEF StopHolds, IInv
<1> QED BY <1>2, <1>4, <1>5, <1>6, <1>7 DEF IInv

-----------------------------------------------------------------------------
(* The invariant.                                                          *)

LEMMA InitIInv == Init => IInv
<1> SUFFICES ASSUME Init
             PROVE  IInv
  OBVIOUS
<1> USE DEF Init, ConnectorInit
<1>1. Open = {} /\ Functors = {} /\ Starters = {} /\ Busy = {}
  BY DEF Open, Functors, Starters, Busy
<1>2. Idle /\ OnlyOne
  BY <1>1 DEF Idle, OnlyOne, Single
<1>3. Lives
  BY <1>1, <1>2 DEF Lives, Owned, BeginsIdle, Control
<1>4. ConnectorTypeOK
  <2>1. /\ sockets \in [Sockets -> {"closed", "connecting", "accepted", "self", "failed"}]
        /\ caller \in [Callers -> {"outside", "connect", "start", "stop", "cancel"}]
        /\ pendingFunctors \in Seq({StartInLoop} \cup TimerIds)
    OBVIOUS
  <2>2. retryDelayMs \in kInitRetryDelayMs..kMaxRetryDelayMs
    BY ConstantTypes
  <2> QED BY <2>1, <2>2 DEF ConnectorTypeOK
<1>5. TypeOK
  BY <1>4 DEF TypeOK
<1> QED BY <1>3, <1>5 DEF IInv, StopHolds

LEMMA NextIInv == IInv /\ [Next]_vars => IInv'
<1> SUFFICES ASSUME IInv, [Next]_vars
             PROVE  IInv'
  OBVIOUS
<1>1. CASE connectCall \/ stopCall
  BY <1>1, ConnectCallStep, StopCallStep
<1>2. CASE disconnect
  BY <1>2, DisconnectStep DEF disconnect, InUserCode
<1>3. ASSUME NEW t \in Callers,
             connectCallRemotely(t) \/ disconnectRemotely(t) \/ stopCallRemotely(t) \/ CallerStep(t)
      PROVE  IInv'
  BY <1>3, ConnectRemotelyStep, StartConnectorRemotelyStep, DisconnectStep, StopRemotelyStep,
     PushStep
     DEF disconnectRemotely, CanCall, CallerStep
<1>4. CASE ConnectorStep
  BY <1>4, startInLoopStep, ConnectSocketStep, ArmRetryStep, CallFunctorStep, RunTimerStep,
     DispatchStep, handleErrorStep, handleWriteStep DEF ConnectorStep
<1>5. CASE StartConnector \/ newConnection \/ Established \/ Release \/ Restart
  BY <1>5, StartConnectorStep, newConnectionStep, EstablishedStep, ReleaseStep, RestartStep
<1>6. CASE removeConnection \/ DestroyClient
  BY <1>6, removeConnectionStep, DestroyClientStep
<1>7. ASSUME NEW outcome \in Outcomes, Kernel(outcome)
      PROVE  IInv'
  BY <1>7, KernelStep
<1>8. CASE UNCHANGED vars
  <2>1. UNCHANGED <<connect, state, channel, retryDelayMs, timerId, timers, registered,
                    pendingFunctors, calling, revents, handing, sockets, caller, gaveUp,
                    connect_, state_, connection, established, pc, retry_, alive, mayConnect,
                    stopped>>
    BY <1>8 DEF vars, connectorVars, attempt, loop, client, user
  <2>2. Open' = Open /\ Functors' = Functors /\ Starters' = Starters
    BY <2>1 DEF Open, Functors, Starters
  <2>3. alive => Lives'
    BY <2>1, <2>2, QuietStep DEF IInv
  <2>4. TypeOK'
    <3>1. ConnectorTypeOK'
      BY <2>1, ZenonT(60) DEF IInv, TypeOK, ConnectorTypeOK
    <3> QED BY <2>1, <3>1, ZenonT(60) DEF IInv, TypeOK
  <2>5. (~alive => Dead') /\ StopHolds' /\ (pc' = "restart" => retry_')
    BY <2>1 DEF IInv, Dead, Outside, StopHolds
  <2> QED BY <2>1, <2>3, <2>4, <2>5 DEF IInv
<1> QED BY <1>1, <1>2, <1>3, <1>4, <1>5, <1>6, <1>7, <1>8 DEF Next, LoopStep

LEMMA Invariance == Spec => []IInv
BY InitIInv, NextIInv, PTL DEF Spec

-----------------------------------------------------------------------------
(* The properties.                                                         *)

\* Every variable of the client and its connector has its type: in particular the
\* retry delay stays between its first value and its greatest, and a timer number is
\* always free when retry() needs one.
THEOREM ClientTypeInvariance == Spec => []TypeOK
<1>1. IInv => TypeOK
  BY DEF IInv
<1> QED BY <1>1, Invariance, PTL

LEMMA SingleCardinality ==
  ASSUME NEW S, Single(S)
  PROVE  IF S = {} THEN Cardinality(S) = 0 ELSE Cardinality(S) = 1
<1>1. CASE S = {}
  BY <1>1, FS_EmptySet
<1>2. CASE S # {}
  <2>1. PICK x : S = {x}
    BY <1>2 DEF Single
  <2> QED BY <1>2, <2>1, FS_Singleton
<1> QED BY <1>1, <1>2

\* There is one attempt at a time, of any number of threads, sockets and timers: when
\* startInLoop is on its way by a timer, a functor or a call, or a socket connects or
\* is connected, no other start is on its way.
THEOREM OneAttemptTheorem == Spec => []OneAttempt
<1>1. ASSUME IInv, alive
      PROVE  StartsUnderWay + Cardinality(Busy) <= 1
  <2>1. OnlyOne
    BY <1>1 DEF IInv, Lives
  <2>2. /\ IF timers = {} THEN Cardinality(timers) = 0 ELSE Cardinality(timers) = 1
        /\ IF Functors = {} THEN Cardinality(Functors) = 0 ELSE Cardinality(Functors) = 1
        /\ IF Starters = {} THEN Cardinality(Starters) = 0 ELSE Cardinality(Starters) = 1
        /\ IF Busy = {} THEN Cardinality(Busy) = 0 ELSE Cardinality(Busy) = 1
    BY <2>1, SingleCardinality DEF OnlyOne
  <2>3. StartsUnderWay = (IF calling = "nothing" THEN 0 ELSE 1) + Cardinality(timers)
                           + Cardinality(Functors) + Cardinality(Starters)
    BY DEF StartsUnderWay, Functors, Starters
  <2>4. /\ calling # "nothing" => timers = {} /\ Functors = {} /\ Starters = {} /\ Busy = {}
        /\ timers # {} => Functors = {} /\ Starters = {} /\ Busy = {}
        /\ Functors # {} => Starters = {} /\ Busy = {}
        /\ Starters # {} => Busy = {}
    BY <2>1 DEF OnlyOne
  <2> QED BY <2>2, <2>3, <2>4
<1>2. IInv => OneAttempt
  BY <1>1 DEF OneAttempt, Busy
<1> QED BY <1>2, Invariance, PTL

\* Every open socket belongs to the attempt or to the connection: no sequence of
\* refusals, stops, closes and destructions of a connection leaks a descriptor or
\* leaves the poller a channel that is not the attempt's.
THEOREM SocketsOwnedTheorem == Spec => []SocketsOwned
<1>1. IInv => SocketsOwned
  BY DEF IInv, Lives, Owned, SocketsOwned
<1> QED BY <1>1, Invariance, PTL

\* stop() stays in force until connect(), whatever timer, functor or closing
\* connection was on its way, for a client that does not retry.
THEOREM StopIsKeptTheorem == Spec => []StopIsKept
<1>1. IInv => StopIsKept
  BY DEF IInv, StopHolds, StopIsKept
<1> QED BY <1>1, Invariance, PTL

\* The destructor leaves no timer that would call the connector that is gone, no
\* channel of it in the poller and nothing of it on the loop thread's stack.
THEOREM NothingLeftTheorem == Spec => []NothingLeft
<1>1. IInv => NothingLeft
  BY DEF IInv, Dead, Outside, NothingLeft
<1> QED BY <1>1, Invariance, PTL

LEMMA ClosingOpensNothing ==
  ASSUME ConnectorTypeOK, NEW s, sockets' = Closed(s)
  PROVE  Open' \subseteq Open
BY DEF ConnectorTypeOK, Closed, Open

\* From a stop() until the next connect(), a client that does not retry begins no attempt,
\* whatever timer, functor or retry() was on its way, and no socket is opened but by an
\* attempt that had tested connect_ before.
THEOREM StoppedBeginsNothingTheorem == Spec => StoppedBeginsNothing
<1>1. ASSUME IInv, Next, calling # "connect"
      PROVE  Open' \subseteq Open
  <2>1. ConnectorTypeOK
    BY <1>1 DEF IInv, TypeOK
  <2>2. CASE UNCHANGED sockets
    BY <2>2 DEF Open
  <2>3. CASE startInLoop \/ ConnectSocket \/ ArmRetry
    BY <1>1, <2>2, <2>3 DEF startInLoop, ConnectSocket, ArmRetry
  <2>4. CASE handleError
    BY <2>1, <2>4, ClosingOpensNothing DEF handleError, retry
  <2>5. CASE handleWrite
    BY <2>1, <2>2, <2>5, ClosingOpensNothing DEF handleWrite, retry, Connected, Unwanted
  <2>6. CASE Release
    BY <2>1, <2>6, ClosingOpensNothing DEF Release, CloseSocket
  <2>7. CASE DestroyClient
    BY <2>1, <2>7 DEF DestroyClient, Destroy, ConnectorTypeOK, Open
  <2>8. CASE \E outcome \in Outcomes : Kernel(outcome)
    BY <2>1, <2>8, ResolvedProperties DEF Kernel
  <2>9. CASE CallFunctor \/ RunTimer \/ Dispatch
    BY <2>2, <2>9 DEF CallFunctor, RunTimer, Dispatch
  <2>10. CASE connectCall \/ disconnect \/ stopCall
    BY <2>2, <2>10 DEF connectCall, Connect, disconnect, Disconnect, connectorVars, stopCall, stop
  <2>11. ASSUME NEW t \in Callers,
                connectCallRemotely(t) \/ disconnectRemotely(t)
                \/ stopCallRemotely(t) \/ CallerStep(t)
         PROVE  Open' \subseteq Open
    BY <2>2, <2>11 DEF connectCallRemotely, Connect, disconnectRemotely, Disconnect,
       connectorVars, stopCallRemotely, CallerStep, StartConnectorRemotely, startRemotely,
       StopConnector, stopRemotely, Push,
       PushStart, PushCancel
  <2>12. CASE StartConnector \/ newConnection \/ Established \/ Restart \/ removeConnection
    BY <2>2, <2>12 DEF StartConnector, start, newConnection, connectorVars, Established, HandedOver,
       Restart, restart, removeConnection
  <2> QED BY <1>1, <2>3, <2>4, <2>5, <2>6, <2>7, <2>8, <2>9, <2>10, <2>11, <2>12
          DEF Next, LoopStep, ConnectorStep
<1>2. ASSUME Next, ~connect, calling # "connect"
      PROVE  calling' # "connect"
  <2>1. CASE calling' = calling
    BY <1>2, <2>1
  <2>2. CASE startInLoop \/ ConnectSocket \/ ArmRetry
    BY <1>2, <2>2 DEF startInLoop, IsWanted, ConnectSocket, ArmRetry
  <2>3. CASE CallFunctor \/ RunTimer \/ Dispatch
    BY <2>1, <2>3 DEF CallFunctor, RunTimer, Dispatch
  <2>4. CASE handleError \/ handleWrite
    BY <2>1, <2>4 DEF handleError, handleWrite, retry, Connected
  <2>5. CASE connectCall \/ disconnect \/ stopCall \/ removeConnection \/ DestroyClient
    BY <2>1, <2>5 DEF connectCall, disconnect, Disconnect, stopCall, stop, removeConnection,
       connectorVars, loop, DestroyClient, Destroy
  <2>6. ASSUME NEW t \in Callers,
               connectCallRemotely(t) \/ disconnectRemotely(t) \/ stopCallRemotely(t)
                 \/ CallerStep(t)
        PROVE  calling' # "connect"
    BY <2>1, <2>6 DEF connectCallRemotely, disconnectRemotely, Disconnect, connectorVars, loop,
       stopCallRemotely, CallerStep, StartConnectorRemotely, startRemotely, StopConnector,
       stopRemotely, Push, PushStart, PushCancel
  <2>7. CASE StartConnector \/ newConnection \/ Established \/ Release \/ Restart
    BY <2>1, <2>7 DEF StartConnector, start, newConnection, connectorVars, loop, Established,
       HandedOver, Release, CloseSocket, Restart, restart
  <2>8. CASE \E outcome \in Outcomes : Kernel(outcome)
    BY <2>1, <2>8 DEF Kernel, Resolve, loop
  <2> QED BY <1>2, <2>2, <2>3, <2>4, <2>5, <2>6, <2>7, <2>8 DEF Next, LoopStep, ConnectorStep
<1>3. IInv /\ [Next]_vars => [stopped = "after" /\ ~retry_ /\ calling # "connect" =>
                                calling' # "connect" /\ Open' \subseteq Open]_vars
  BY <1>1, <1>2 DEF IInv, StopHolds
<1> QED BY <1>3, Invariance, PTL DEF Spec, StoppedBeginsNothing

\* newConnection finds no other connection in connection_: the socket of a connection
\* is closed by the removal of that connection, and never forgotten for another one.
NeverReplaced == [][connection # None => connection' \in {connection, None}]_vars

THEOREM NeverReplacedTheorem == Spec => NeverReplaced
<1>1. ASSUME IInv, newConnection
      PROVE  connection = None
  BY <1>1 DEF IInv, Dead, Outside, Lives, Control, newConnection
<1>2. ASSUME Next, ~newConnection
      PROVE  connection' \in {connection, None}
  <2>1. CASE Release \/ DestroyClient
    BY <2>1 DEF Release, DestroyClient
  <2>2. CASE connectCall \/ disconnect \/ stopCall \/ removeConnection
    BY <2>2 DEF connectCall, Connect, disconnect, Disconnect, stopCall, removeConnection
  <2>3. ASSUME NEW t \in Callers,
               connectCallRemotely(t) \/ disconnectRemotely(t) \/ stopCallRemotely(t) \/ CallerStep(t)
        PROVE  connection' = connection
    BY <2>3 DEF connectCallRemotely, Connect, disconnectRemotely, Disconnect, stopCallRemotely,
       CallerStep, StartConnectorRemotely, StopConnector, Push, client
  <2>4. CASE ConnectorStep \/ StartConnector \/ Established \/ Restart
    BY <2>4 DEF ConnectorStep, StartConnector, client, Established, Restart
  <2>5. CASE \E outcome \in Outcomes : Kernel(outcome)
    BY <2>5 DEF Kernel, client
  <2> QED BY <1>2, <2>1, <2>2, <2>3, <2>4, <2>5 DEF Next, LoopStep
<1>3. IInv /\ [Next]_vars => [connection # None => connection' \in {connection, None}]_vars
  BY <1>1, <1>2
<1> QED BY <1>3, Invariance, PTL DEF Spec, NeverReplaced

-----------------------------------------------------------------------------
(* The bounds of the model take nothing away: retry() always finds a       *)
(* number for its timer.                                                   *)

Calling == {t \in Callers : caller[t] # "outside"}

\* Every functor waiting was there when the last call began, or was pushed by a call
\* that had begun by then.
FewFunctors == Len(pendingFunctors) + Cardinality(Calling) < MaxPending + Cardinality(Callers)

LEMMA CallingProperties ==
  /\ IsFiniteSet(Callers) /\ Cardinality(Callers) \in Nat
  /\ IsFiniteSet(Calling) /\ Cardinality(Calling) \in Nat
  /\ MaxTimers \in Nat /\ MaxPending \in Nat \ {0}
  /\ MaxTimers >= MaxPending + Cardinality(Callers)
<1>1. IsFiniteSet(Callers) /\ Calling \subseteq Callers
  BY BoundsAssumption DEF Calling
<1>2. IsFiniteSet(Calling)
  BY <1>1, FS_Subset
<1> QED BY <1>1, <1>2, FS_CardinalityType, BoundsAssumption

LEMMA CallBegins ==
  ASSUME TypeOK, NEW t \in Callers, CanCall(t), NEW c \in {"connect", "stop"},
         caller' = [caller EXCEPT ![t] = c], pendingFunctors' = pendingFunctors
  PROVE  FewFunctors'
<1>1. Len(pendingFunctors) < MaxPending /\ Len(pendingFunctors) \in Nat
  BY DEF CanCall, TypeOK, ConnectorTypeOK
<1>2. Calling' = Calling \cup {t}
  BY DEF Calling, TypeOK, ConnectorTypeOK
<1>3. IsFiniteSet(Calling')
  BY <1>2, CallingProperties, FS_AddElement
<1>4. Calling' \subseteq Callers
  BY DEF Calling
<1>5. Cardinality(Calling') \in Nat /\ Cardinality(Calling') <= Cardinality(Callers)
  BY <1>3, <1>4, CallingProperties, FS_Subset, FS_CardinalityType
<1> QED BY <1>1, <1>5, CallingProperties DEF FewFunctors

LEMMA CallEnds ==
  ASSUME TypeOK, FewFunctors, NEW t \in Callers, Push(t)
  PROVE  FewFunctors'
<1>1. caller[t] # "outside" /\ caller' = [caller EXCEPT ![t] = "outside"]
  BY DEF Push, PushStart, PushCancel
<1>2. t \in Calling /\ Calling' = Calling \ {t}
  BY <1>1 DEF Calling, TypeOK, ConnectorTypeOK
<1>3. Cardinality(Calling') = Cardinality(Calling) - 1
  BY <1>2, CallingProperties, FS_RemoveElement
<1>4. /\ pendingFunctors \in Seq({StartInLoop} \cup TimerIds)
      /\ \/ pendingFunctors' = pendingFunctors
         \/ \E f \in {StartInLoop} \cup TimerIds : pendingFunctors' = Append(pendingFunctors, f)
  BY DEF TypeOK, ConnectorTypeOK, Push, PushStart, PushCancel
<1>5. Len(pendingFunctors') <= Len(pendingFunctors) + 1
      /\ Len(pendingFunctors) \in Nat /\ Len(pendingFunctors') \in Nat
  BY <1>4
<1> QED BY <1>3, <1>5, CallingProperties DEF FewFunctors

LEMMA FewFunctorsKept ==
  ASSUME Len(pendingFunctors') \in Nat, Len(pendingFunctors) \in Nat, FewFunctors,
         Len(pendingFunctors') <= Len(pendingFunctors), Calling' = Calling
  PROVE  FewFunctors'
BY CallingProperties DEF FewFunctors

LEMMA FewFunctorsStep == IInv /\ FewFunctors /\ [Next]_vars => FewFunctors'
<1> SUFFICES ASSUME IInv, FewFunctors, [Next]_vars
             PROVE  FewFunctors'
  OBVIOUS
<1>1. TypeOK /\ Len(pendingFunctors) \in Nat
  BY DEF IInv, TypeOK, ConnectorTypeOK
<1>2. CASE pendingFunctors' = pendingFunctors /\ caller' = caller
  BY <1>1, <1>2, FewFunctorsKept DEF Calling
<1>3. CASE CallFunctor
  <2>1. Len(pendingFunctors') = Len(pendingFunctors) - 1 /\ Len(pendingFunctors') \in Nat
        /\ caller' = caller
    BY <1>3 DEF CallFunctor, IInv, TypeOK, ConnectorTypeOK
  <2> QED BY <1>1, <2>1, FewFunctorsKept DEF Calling
<1>4. ASSUME NEW t \in Callers, connectCallRemotely(t) \/ stopCallRemotely(t)
      PROVE  FewFunctors'
  BY <1>1, <1>4, CallBegins DEF connectCallRemotely, Connect, stopCallRemotely, loop
<1>5. ASSUME NEW t \in Callers, StartConnectorRemotely(t) \/ StopConnector(t)
      PROVE  FewFunctors'
  <2>1. pendingFunctors' = pendingFunctors /\ Calling' = Calling
    BY <1>1, <1>5 DEF StartConnectorRemotely, startRemotely, StopConnector, stopRemotely,
       loop, Calling, TypeOK, ConnectorTypeOK
  <2> QED BY <1>1, <2>1, FewFunctorsKept
<1>6. ASSUME NEW t \in Callers, Push(t)
      PROVE  FewFunctors'
  BY <1>1, <1>6, CallEnds
<1>7. ASSUME NEW t \in Callers, disconnectRemotely(t)
      PROVE  FewFunctors'
  BY <1>2, <1>7 DEF disconnectRemotely, Disconnect, connectorVars, loop
<1>8. CASE connectCall \/ disconnect \/ stopCall \/ removeConnection \/ DestroyClient
  BY <1>2, <1>8 DEF connectCall, Connect, disconnect, Disconnect, stopCall, stop,
     removeConnection, connectorVars, loop, DestroyClient, Destroy
<1>9. CASE \/ startInLoop \/ ConnectSocket \/ ArmRetry \/ RunTimer \/ Dispatch
           \/ handleError \/ handleWrite
  BY <1>2, <1>9 DEF startInLoop, ConnectSocket, ArmRetry, RunTimer, Dispatch, handleError,
     handleWrite
<1>10. CASE StartConnector \/ newConnection \/ Established \/ Release \/ Restart
  BY <1>2, <1>10 DEF StartConnector, start, newConnection, Established, HandedOver, Release,
     CloseSocket, Restart,
     restart, connectorVars, loop
<1>11. CASE \E outcome \in Outcomes : Kernel(outcome)
  BY <1>2, <1>11 DEF Kernel, Resolve, loop
<1>12. CASE UNCHANGED vars
  BY <1>2, <1>12 DEF vars, connectorVars, loop
<1> QED BY <1>3, <1>4, <1>5, <1>6, <1>7, <1>8, <1>9, <1>10, <1>11, <1>12
        DEF Next, LoopStep, ConnectorStep, CallerStep

\* When retry() sets a timer, none is set and a number is free: the guard of SetTimer
\* never stops a step that the code would take.
NumberIsFree ==
  timers = {} =>
    TimerIds \ (timers \cup {pendingFunctors[i] : i \in DOMAIN pendingFunctors}) # {}

THEOREM NumberIsFreeTheorem == Spec => []NumberIsFree
<1>1. Init => FewFunctors
  <2> SUFFICES ASSUME Init
               PROVE  FewFunctors
    OBVIOUS
  <2>1. Calling = {} /\ Len(pendingFunctors) = 0
    BY DEF Init, ConnectorInit, Calling
  <2>2. Cardinality(Calling) = 0
    BY <2>1, FS_EmptySet
  <2> QED BY <2>1, <2>2, CallingProperties DEF FewFunctors
<1>2. ASSUME IInv, FewFunctors
      PROVE  NumberIsFree
  <2>1. PICK n \in Nat : n = Len(pendingFunctors) /\ DOMAIN pendingFunctors = 1..n
    BY <1>2 DEF IInv, TypeOK, ConnectorTypeOK
  <2>2. PICK named : named = {pendingFunctors[i] : i \in DOMAIN pendingFunctors}
    OBVIOUS
  <2>3. PICK f : f = [i \in 1..n |-> pendingFunctors[i]]
    OBVIOUS
  <2>4. f \in Surjection(1..n, named)
    BY <2>1, <2>2, <2>3 DEF Surjection
  <2>5. IsFiniteSet(1..n) /\ Cardinality(1..n) = n
    BY FS_Interval
  <2>6. IsFiniteSet(named) /\ Cardinality(named) <= n /\ Cardinality(named) \in Nat
    BY <2>4, <2>5, FS_Surjection, FS_CardinalityType
  <2>7. n < MaxTimers
    BY <1>2, <2>1, CallingProperties DEF FewFunctors
  <2>8. Cardinality(TimerIds) = MaxTimers
    BY <2>1, <2>7, CallingProperties, FS_Interval DEF TimerIds
  <2>9. ~(TimerIds \subseteq named)
    BY <2>1, <2>6, <2>7, <2>8, CallingProperties, FS_Subset
  <2> QED BY <2>2, <2>9 DEF NumberIsFree
<1> QED BY <1>1, <1>2, FewFunctorsStep, Invariance, PTL DEF Spec
=============================================================================
