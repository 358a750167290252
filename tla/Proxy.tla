------------------------------- MODULE Proxy -------------------------------
(***************************************************************************)
(* The program proxyx: Proxy, Session and ServerManager on one loop.       *)
(* Every connection a client makes to the TcpServer gets a Session with a  *)
(* TcpClient of its own, which relays the client's bytes to the upstream   *)
(* server and the answers back.  Nothing but its two deadlines ends a      *)
(* session: after each round of the loop processSession_ erases sessions   *)
(* of which one has passed.                                                *)
(*                                                                         *)
(* Of TcpServer, TcpClient and TcpConnection the module has what sessions  *)
(* see: the connection map, whether the client has a connection, and       *)
(* whether bytes wait in the server connection's input buffer.             *)
(***************************************************************************)
EXTENDS Integers, FiniteSetsExt

CONSTANTS
  MaxConns,      \* bound: connections accepted
  TIMEOUT,       \* of a side that is silent
  FirstTimeout   \* the client's time before anything was relayed, 60 in the code

ASSUME ConnsAssumption == MaxConns \in Nat \ {0}
ASSUME TimesAssumption == TIMEOUT \in Nat \ {0} /\ FirstTimeout \in Nat \ {0}

\* The number in the name of a connection and of its session.  While MaxConns < 10
\* the order of the numbers is the order of the names in sessionMap_.
Conns == 1..MaxConns

VARIABLES
  nextConnId_,  \* of the TcpServer
  connections,  \* its map: a connection, no entry, or an entry that holds NULL
  sessions,     \* sessionMap_
  attempts,     \* the attempts to connect each session's TcpClient has under way
  upstream,     \* the sessions whose TcpClient has its connection
  connecting_,  \* the sessions whose connecting_ is set
  clientTime_,  \* time left to each session; negative when it is over for sure,
  serverTime_,  \* 0 when it may be over
  inputBuffer,  \* the server connections that hold bytes in their input buffer
  active,       \* activeChannels_ still to be handled
  pc,           \* where the loop is
  idle,         \* history: time since bytes or a new upstream came, up to TIMEOUT
  gaveUp        \* history: an error of connect(2) has ended the session's attempts

session == <<sessions, connecting_, clientTime_, serverTime_, idle>>
client  == <<attempts, upstream, gaveUp>>
server  == <<nextConnId_, connections, inputBuffer>>
loop    == <<active, pc>>
vars    == <<session, client, server, loop>>

TypeOK ==
  /\ nextConnId_ \in 1..MaxConns + 1
  /\ connections \in [Conns -> {"none", "NULL", "live"}]
  /\ sessions \subseteq Conns
  /\ attempts \in [Conns -> 0..2]
  /\ upstream \subseteq Conns
  /\ connecting_ \subseteq Conns
  /\ clientTime_ \in [Conns -> Nat \cup {-1}]
  /\ serverTime_ \in [Conns -> Nat \cup {-1}]
  /\ inputBuffer \subseteq Conns
  /\ active \subseteq {"acceptor", "server", "upstream", "connector"} \X Conns
  /\ pc \in {"poll", "handle", "crashed"}
  /\ idle \in [Conns -> 0..TIMEOUT]
  /\ gaveUp \subseteq Conns

Init ==
  /\ nextConnId_ = 1
  /\ connections = [c \in Conns |-> "none"]
  /\ sessions = {}
  /\ attempts = [c \in Conns |-> 0]
  /\ upstream = {}
  /\ connecting_ = {}
  /\ clientTime_ = [c \in Conns |-> -1]
  /\ serverTime_ = [c \in Conns |-> -1]
  /\ inputBuffer = {}
  /\ active = {}
  /\ pc = "poll"
  /\ idle = [c \in Conns |-> 0]
  /\ gaveUp = {}

Live == {c \in Conns : connections[c] = "live"}

\* The channels that exist.  A connector's stands for its retry timer as well.
Channels ==
  ({"acceptor"} \X (Conns \cap {nextConnId_}))
    \cup ({"server"} \X Live)
    \cup ({"upstream"} \X upstream)
    \cup ({"connector"} \X {c \in Conns : attempts[c] > 0})

Set(times, c, left) == [times EXCEPT ![c] = left]

-----------------------------------------------------------------------------
(* The loop and the calls the handlers make.                               *)

\* Some of the channels become active, or none until poll() times out.
poll ==
  /\ pc = "poll"
  /\ pc' = "handle"
  /\ active' \in SUBSET Channels
  /\ UNCHANGED <<session, client, server>>

\* The round reaches the channel: the part all handlers have in common.
Handle(kind, c) ==
  /\ pc = "handle"
  /\ <<kind, c>> \in active
  /\ active' = active \ {<<kind, c>>}
  /\ UNCHANGED pc

\* tcpClient_->connect(): an attempt begins, unless connect(2) fails for good.
connect(c) ==
  \/ /\ attempts' = [attempts EXCEPT ![c] = Min({@ + 1, 2})]
     /\ UNCHANGED gaveUp
  \/ /\ gaveUp' = gaveUp \cup {c}
     /\ UNCHANGED attempts

\* TcpClient::getConn() does not return NULL.
HasConn(c) == c \in upstream

\* The map after TcpServer's getConn(c), which makes an entry where there is none.
Looked(c) ==
  [connections EXCEPT ![c] = IF @ = "none" THEN "NULL" ELSE @]

-----------------------------------------------------------------------------
(* The server's side.                                                      *)

\* Session::Session: the session has a TcpClient of its own, and it connects.
NewSession(c) ==
  /\ sessions' = sessions \cup {c}
  /\ clientTime_' = Set(clientTime_, c, FirstTimeout)
  /\ connect(c)
  /\ connecting_' = connecting_ \cup {c}
  /\ serverTime_' = Set(serverTime_, c, FirstTimeout + TIMEOUT)

\* Proxy::onTcpServerConnection_.  getTcpClient() never returns NULL, so no connection
\* is queued in pairs_, and processQueue_ has nothing to do.
onTcpServerConnection_(c) == NewSession(c)

\* TcpServer::newConnection, up to the callback of connectEstablished.
newConnection(c) ==
  /\ Handle("acceptor", c)
  /\ nextConnId_' = c + 1
  /\ connections' = [connections EXCEPT ![c] = "live"]
  /\ onTcpServerConnection_(c)
  /\ UNCHANGED <<upstream, inputBuffer, idle>>

\* Mutant: the message is relayed and the upstream's time goes on as before.
RelayTime_Kept(c) == serverTime_

RelayTime(c) == Set(serverTime_, c, TIMEOUT)

\* Mutant: connect() is called whether an attempt is under way or not.
MustConnect_Always(c) == TRUE

MustConnect(c) == c \notin connecting_

\* Mutant: a message that has to wait gives the upstream server more time.
KeepWaiting_Longer(c) ==
  /\ serverTime_' = Set(serverTime_, c, TIMEOUT)
  /\ UNCHANGED <<attempts, gaveUp, connecting_>>

\* The message waits for the attempt that is under way.
KeepWaiting(c) == UNCHANGED <<attempts, gaveUp, connecting_, serverTime_>>

\* Session::onTcpServerMessage_: the client sends.
onTcpServerMessage_(c) ==
  /\ Handle("server", c)
  /\ clientTime_' = Set(clientTime_, c, TIMEOUT)
  /\ idle' = [idle EXCEPT ![c] = 0]
  /\ IF HasConn(c)
     THEN /\ inputBuffer' = inputBuffer \ {c}
          /\ serverTime_' = RelayTime(c)
          /\ UNCHANGED <<attempts, gaveUp, connecting_>>
     ELSE /\ inputBuffer' = inputBuffer \cup {c}
          /\ IF MustConnect(c)
             THEN /\ connect(c)
                  /\ connecting_' = connecting_ \cup {c}
                  /\ serverTime_' = Set(serverTime_, c, TIMEOUT + TIMEOUT)
             ELSE KeepWaiting(c)
  /\ UNCHANGED <<sessions, upstream, nextConnId_, connections>>

\* The client closes: TcpServer::removeConnectionInLoop.  The session stays.
removeConnection(c) ==
  /\ Handle("server", c)
  /\ connections' = [connections EXCEPT ![c] = "none"]
  /\ inputBuffer' = inputBuffer \ {c}
  /\ UNCHANGED <<session, client, nextConnId_>>

-----------------------------------------------------------------------------
(* The upstream side.                                                      *)

\* Mutant: connecting_ stays set.
Connected_StillConnecting(c) == connecting_

Connected(c) == connecting_ \ {c}

\* Session::onTcpClientConnection_: an attempt has succeeded.
onTcpClientConnection_(c) ==
  /\ Handle("connector", c)
  /\ attempts' = [attempts EXCEPT ![c] = @ - 1]
  /\ upstream' = upstream \cup {c}
  /\ connecting_' = Connected(c)
  /\ serverTime_' = Set(serverTime_, c, TIMEOUT)
  /\ connections' = Looked(c)
  /\ IF c \in Live
     THEN /\ inputBuffer' = inputBuffer \ {c}
          /\ clientTime_' = Set(clientTime_, c, TIMEOUT)
     ELSE /\ clientTime_' = Set(clientTime_, c, 0)
          /\ UNCHANGED inputBuffer
  /\ idle' = [idle EXCEPT ![c] = 0]
  /\ UNCHANGED <<sessions, gaveUp, nextConnId_>>

\* An attempt fails, and another will follow, or does.
retry(c) ==
  /\ Handle("connector", c)
  /\ UNCHANGED <<session, client, server>>

\* The next attempt ends with an error of connect(2) after which none follows.
giveUp(c) ==
  /\ Handle("connector", c)
  /\ attempts' = [attempts EXCEPT ![c] = @ - 1]
  /\ gaveUp' = gaveUp \cup {c}
  /\ UNCHANGED <<session, upstream, server>>

\* Mutant: the client's time is refreshed whether it is there or not.
AnswerTimes_Always(c) ==
  /\ clientTime_' = Set(clientTime_, c, TIMEOUT)
  /\ serverTime_' = Set(serverTime_, c, TIMEOUT)

\* The two deadlines after a message from the upstream server: it goes to the client,
\* or finds it gone.
AnswerTimes(c) ==
  \/ /\ c \in Live
     /\ clientTime_' = Set(clientTime_, c, TIMEOUT)
     /\ serverTime_' = Set(serverTime_, c, TIMEOUT)
  \/ /\ c \notin Live
     /\ serverTime_' = Set(serverTime_, c, 0)
     /\ UNCHANGED clientTime_

\* Session::onTcpClientMessage_: the upstream server sends.
onTcpClientMessage_(c) ==
  /\ Handle("upstream", c)
  /\ connections' = Looked(c)
  /\ AnswerTimes(c)
  /\ idle' = [idle EXCEPT ![c] = 0]
  /\ UNCHANGED <<sessions, connecting_, client, nextConnId_, inputBuffer>>

\* The upstream server closes: TcpClient::removeConnection, without enableRetry().
upstreamClosed(c) ==
  /\ Handle("upstream", c)
  /\ upstream' = upstream \ {c}
  /\ UNCHANGED <<session, attempts, gaveUp, server>>

-----------------------------------------------------------------------------
(* The end of sessions.                                                    *)

\* Mutant: ~Session does not call removeConn.
Removed_Kept(S) == connections

\* The map after the removeConn of each session of S: a connection goes with its
\* entry; where there was none an entry with NULL is left.
Removed(S) ==
  [c \in Conns |-> IF c \notin S THEN connections[c]
                   ELSE IF c \in Live THEN "none" ELSE "NULL"]

\* ~Session for each session of S, with the TcpClient and its connector.
EndSessions(S) ==
  /\ sessions' = sessions \ S
  /\ connections' = Removed(S)
  /\ inputBuffer' = inputBuffer \ S
  /\ attempts' = [c \in Conns |-> IF c \in S THEN 0 ELSE attempts[c]]
  /\ upstream' = upstream \ S
  /\ gaveUp' = gaveUp \ S
  /\ connecting_' = connecting_ \ S
  /\ clientTime_' = [c \in Conns |-> IF c \in S THEN -1 ELSE clientTime_[c]]
  /\ serverTime_' = [c \in Conns |-> IF c \in S THEN -1 ELSE serverTime_[c]]
  /\ idle' = [c \in Conns |-> IF c \in S THEN 0 ELSE idle[c]]
  /\ UNCHANGED nextConnId_

\* D is what the comparisons with now would find expired.
Expired(D) ==
  /\ \A c \in D : clientTime_[c] <= 0 \/ serverTime_[c] <= 0
  /\ \A c \in sessions \ D : clientTime_[c] >= 0 /\ serverTime_[c] >= 0

\* Mutant: processSession_ is run from a timer, as a handler among the others.
AfterRound_Timer == pc = "handle"

\* The callback of the loop, called when the round is over.
AfterRound == pc = "handle" /\ active = {}

\* Proxy::processSession_.  The traversal is as it should be up to the first session
\* it erases, on which its iterator stands: whether it finds the others after that,
\* or returns at all, is not defined.
processSession_ ==
  /\ AfterRound
  /\ \E D \in SUBSET sessions :
       /\ Expired(D)
       /\ IF D = {}
          THEN pc' = "poll" /\ UNCHANGED <<session, client, server>>
          ELSE \/ \E S \in SUBSET D : Min(D) \in S /\ EndSessions(S) /\ pc' = "poll"
               \/ pc' = "crashed" /\ UNCHANGED <<session, client, server>>
  /\ UNCHANGED active

\* Time passes.
Tick ==
  /\ clientTime_' = [c \in Conns |-> Max({clientTime_[c] - 1, -1})]
  /\ serverTime_' = [c \in Conns |-> Max({serverTime_[c] - 1, -1})]
  /\ idle' = [c \in Conns |-> IF c \in sessions THEN Min({idle[c] + 1, TIMEOUT})
                              ELSE 0]
  /\ UNCHANGED <<sessions, connecting_, client, server, loop>>

-----------------------------------------------------------------------------

LoopStep ==
  \/ poll
  \/ \E c \in Conns :
       \/ newConnection(c) \/ onTcpServerMessage_(c) \/ removeConnection(c)
       \/ onTcpClientConnection_(c) \/ retry(c) \/ giveUp(c)
       \/ onTcpClientMessage_(c) \/ upstreamClosed(c)
  \/ processSession_

Next == LoopStep \/ Tick

Spec == Init /\ [][Next]_vars

\* The loop goes round, at the latest when poll() times out, and time passes.  No
\* client and no server has to do anything.
FairSpec == Spec /\ WF_vars(LoopStep) /\ WF_vars(Tick)

-----------------------------------------------------------------------------
(* Properties.                                                             *)

\* Whatever order a session's two sides come up, close and time out in, neither a
\* connection of a client nor a TcpClient outlives its session: their callbacks are
\* bound to the session and would call what is no longer there.
Paired ==
  /\ Live \subseteq sessions
  /\ upstream \subseteq sessions
  /\ \A c \in Conns : attempts[c] > 0 => c \in sessions

\* No channel that the round has still to handle has been destroyed by what was
\* handled before it: sessions end between rounds only, though their deadlines pass,
\* and are set to now, in the middle of one.
ActiveAreLive == active \subseteq Channels

\* A session asks its TcpClient to connect when no attempt is under way and there is
\* no connection, through refusals, closes and messages that come while it connects:
\* what TcpClient expects of the code that uses it.
OneUpstream ==
  \A c \in Conns : attempts[c] + (IF c \in upstream THEN 1 ELSE 0) <= 1

\* Bytes of a client wait only for an attempt that is under way, or was given up;
\* they never wait while the upstream connection is there to take them.
NothingStuck ==
  \A c \in inputBuffer : c \notin upstream /\ (attempts[c] > 0 \/ c \in gaveUp)

\* A session whose two connections are up is ended only after a time in which nothing
\* was relayed in either direction.
NotSweptEarly ==
  [][\A c \in sessions \ sessions' : c \in Live \cap upstream => idle[c] = TIMEOUT]_vars

\* A session whose client is gone ends, however long the upstream server goes on
\* sending, unless the traversal has taken the program down.
OneSidedIsSwept ==
  \A c \in Conns : (c \in sessions \ Live) ~> (c \notin sessions \/ pc = "crashed")

\* Bytes of a client do not wait for ever for an upstream server that is not there,
\* though the client goes on sending: they are relayed, or they and the connection go.
WaitEnds ==
  \A c \in Conns : (c \in inputBuffer) ~> (c \notin inputBuffer \/ pc = "crashed")
=============================================================================
