----------------------------- MODULE ProxyProofs -----------------------------
(***************************************************************************)
(* Proofs about Proxy, for any number of connections and any deadlines:    *)
(* connections and clients do not outlive their session, no session has    *)
(* two attempts, bytes do not wait beside a connection, and no session is  *)
(* ended while it relays.                                                  *)
(***************************************************************************)
EXTENDS Proxy, TLAPS

\* What connecting_ stands for: while it is set there is an attempt, or there has
\* been one that was given up, and no connection; bytes wait only then.
ConnectingMeans ==
  /\ connecting_ \subseteq sessions
  /\ connecting_ \cap upstream = {}
  /\ \A c \in connecting_ : attempts[c] = 1 \/ c \in gaveUp
  /\ \A c \in Conns : attempts[c] = 0 \/ (attempts[c] = 1 /\ c \in connecting_)
  /\ inputBuffer \subseteq connecting_ \cap Live

\* A number that was not given yet names nothing.
Unused == \A c \in sessions : c < nextConnId_

\* While both connections are up, no deadline is nearer than the silence allows.
InTime(c, left) == idle[c] = TIMEOUT \/ left >= TIMEOUT - idle[c]

RelayingInTime ==
  \A c \in Live \cap upstream : InTime(c, clientTime_[c]) /\ InTime(c, serverTime_[c])

IInv ==
  /\ TypeOK
  /\ Paired
  /\ ActiveAreLive
  /\ ConnectingMeans
  /\ Unused
  /\ RelayingInTime

-----------------------------------------------------------------------------
(* Least and greatest of two numbers, times and channels.                  *)

LEMMA MinOfTwo ==
  ASSUME NEW a \in Int, NEW b \in Int
  PROVE  Min({a, b}) = IF a <= b THEN a ELSE b
<1>1. \E x \in {a, b} : \A y \in {a, b} : x =< y
  OBVIOUS
<1>2. Min({a, b}) \in {a, b} /\ \A y \in {a, b} : Min({a, b}) =< y
  BY <1>1 DEF Min
<1> QED BY <1>2

LEMMA MaxOfTwo ==
  ASSUME NEW a \in Int, NEW b \in Int
  PROVE  Max({a, b}) = IF a >= b THEN a ELSE b
<1>1. \E x \in {a, b} : \A y \in {a, b} : x >= y
  OBVIOUS
<1>2. Max({a, b}) \in {a, b} /\ \A y \in {a, b} : Max({a, b}) >= y
  BY <1>1 DEF Max
<1> QED BY <1>2

LEMMA ConstantTypes == TIMEOUT \in Nat \ {0} /\ FirstTimeout \in Nat \ {0} /\ MaxConns \in Nat \ {0}
BY TimesAssumption, ConnsAssumption

LEMMA SetTypes ==
  ASSUME NEW times \in [Conns -> Nat \cup {-1}], NEW c \in Conns, NEW left \in Nat
  PROVE  /\ Set(times, c, left) \in [Conns -> Nat \cup {-1}]
         /\ \A d \in Conns : Set(times, c, left)[d] = IF d = c THEN left ELSE times[d]
BY DEF Set

\* An event of the round that is handled belongs to a channel.
LEMMA HandledIsLive ==
  ASSUME IInv, NEW c \in Conns, NEW kind, Handle(kind, c)
  PROVE  /\ kind = "acceptor" => c = nextConnId_
         /\ kind = "server" => c \in Live
         /\ kind = "upstream" => c \in upstream
         /\ kind = "connector" => attempts[c] > 0
<1>1. <<kind, c>> \in Channels
  BY DEF IInv, ActiveAreLive, Handle
<1> QED BY <1>1 DEF Channels

\* The handler of a channel leaves the other channels of the round alone when all
\* that goes is its own.
LEMMA OthersStayLive ==
  ASSUME IInv, NEW c \in Conns, NEW kind, Handle(kind, c),
         kind = "acceptor" \/ nextConnId_' = nextConnId_,
         \A d \in Live : d \in Live' \/ (kind = "server" /\ d = c),
         \A d \in upstream : d \in upstream' \/ (kind = "upstream" /\ d = c),
         \A d \in Conns : attempts[d] > 0 => attempts'[d] > 0 \/ (kind = "connector" /\ d = c)
  PROVE  /\ ActiveAreLive'
         /\ active' \subseteq {"acceptor", "server", "upstream", "connector"} \X Conns
         /\ pc' \in {"poll", "handle", "crashed"}
<1>1. /\ active \subseteq Channels /\ <<kind, c>> \in active
      /\ active' = active \ {<<kind, c>>} /\ UNCHANGED pc
  BY DEF IInv, ActiveAreLive, Handle
<1>2. active' \subseteq {"acceptor", "server", "upstream", "connector"} \X Conns
      /\ pc' \in {"poll", "handle", "crashed"}
  BY <1>1 DEF IInv, TypeOK
<1>3. ASSUME NEW e \in active'
      PROVE  e \in Channels'
  <2>1. e \in Channels /\ e # <<kind, c>> /\ <<kind, c>> \in Channels
    BY <1>1
  <2>2. CASE e \in {"acceptor"} \X (Conns \cap {nextConnId_})
    <3>1. e = <<"acceptor", nextConnId_>> /\ nextConnId_ \in Conns
      BY <2>2
    <3>2. kind # "acceptor"
      <4> SUFFICES ASSUME kind = "acceptor" PROVE FALSE
        OBVIOUS
      <4>1. c = nextConnId_
        BY HandledIsLive
      <4> QED BY <2>1, <3>1, <4>1
    <3> QED BY <3>1, <3>2 DEF Channels
  <2>3. CASE e \in {"server"} \X Live
    <3>1. PICK d \in Live : e = <<"server", d>>
      BY <2>3
    <3>2. d \in Live'
      BY <2>1, <3>1
    <3> QED BY <3>1, <3>2 DEF Channels
  <2>4. CASE e \in {"upstream"} \X upstream
    <3>1. PICK d \in upstream : e = <<"upstream", d>>
      BY <2>4
    <3>2. d \in upstream'
      BY <2>1, <3>1
    <3> QED BY <3>1, <3>2 DEF Channels
  <2>5. CASE e \in {"connector"} \X {d \in Conns : attempts[d] > 0}
    <3>1. PICK d \in Conns : e = <<"connector", d>> /\ attempts[d] > 0
      BY <2>5
    <3>2. attempts'[d] > 0
      BY <2>1, <3>1
    <3> QED BY <3>1, <3>2 DEF Channels
  <2> QED BY <2>1, <2>2, <2>3, <2>4, <2>5 DEF Channels
<1> QED BY <1>2, <1>3 DEF ActiveAreLive

-----------------------------------------------------------------------------
(* The steps.                                                              *)

\* connect(), called when no attempt is under way.
LEMMA ConnectStep ==
  ASSUME TypeOK, NEW c \in Conns, attempts[c] = 0, connect(c)
  PROVE  /\ attempts' \in [Conns -> 0..2] /\ gaveUp' \subseteq Conns
         /\ \A d \in Conns \ {c} : attempts'[d] = attempts[d]
         /\ gaveUp \subseteq gaveUp'
         /\ attempts'[c] = 1 \/ (attempts'[c] = 0 /\ c \in gaveUp')
<1>1. Min({0 + 1, 2}) = 1
  BY MinOfTwo
<1> QED BY <1>1 DEF connect, TypeOK

LEMMA NewConnectionStep ==
  ASSUME IInv, NEW c \in Conns, newConnection(c)
  PROVE  IInv'
<1>1. /\ c = nextConnId_ /\ c \notin sessions /\ attempts[c] = 0 /\ c \notin upstream
      /\ c \notin connecting_ /\ nextConnId_ \in Nat
  <2>1. c = nextConnId_ /\ nextConnId_ \in Nat
    BY HandledIsLive, SMTT(60) DEF newConnection, IInv, TypeOK, Conns
  <2> QED BY <2>1 DEF IInv, Unused, Paired, ConnectingMeans, Conns
<1>2. /\ attempts' \in [Conns -> 0..2] /\ gaveUp' \subseteq Conns
      /\ \A d \in Conns \ {c} : attempts'[d] = attempts[d]
      /\ gaveUp \subseteq gaveUp'
      /\ attempts'[c] = 1 \/ (attempts'[c] = 0 /\ c \in gaveUp')
  BY <1>1, ConnectStep DEF newConnection, onTcpServerConnection_, NewSession, IInv
<1>3. /\ Live' = Live \cup {c} /\ connections' \in [Conns -> {"none", "NULL", "live"}]
      /\ sessions' = sessions \cup {c} /\ connecting_' = connecting_ \cup {c}
      /\ nextConnId_' = c + 1
      /\ UNCHANGED <<upstream, inputBuffer, idle>>
  BY DEF newConnection, onTcpServerConnection_, NewSession, Live, IInv, TypeOK
<1>4. /\ clientTime_' \in [Conns -> Nat \cup {-1}] /\ serverTime_' \in [Conns -> Nat \cup {-1}]
      /\ \A d \in Conns \ {c} : clientTime_'[d] = clientTime_[d] /\ serverTime_'[d] = serverTime_[d]
  <2>1. FirstTimeout \in Nat /\ FirstTimeout + TIMEOUT \in Nat
    BY ConstantTypes
  <2>2. /\ clientTime_' = Set(clientTime_, c, FirstTimeout)
        /\ serverTime_' = Set(serverTime_, c, FirstTimeout + TIMEOUT)
    BY DEF newConnection, onTcpServerConnection_, NewSession
  <2>3. /\ clientTime_' \in [Conns -> Nat \cup {-1}]
        /\ \A d \in Conns \ {c} : clientTime_'[d] = clientTime_[d]
    BY <2>1, <2>2 DEF IInv, TypeOK, Set
  <2>4. /\ serverTime_' \in [Conns -> Nat \cup {-1}]
        /\ \A d \in Conns \ {c} : serverTime_'[d] = serverTime_[d]
    <3> DEFINE left == FirstTimeout + TIMEOUT
    <3>1. left \in Nat /\ serverTime_' = Set(serverTime_, c, left)
      BY <2>1, <2>2
    <3> HIDE DEF left
    <3> QED BY <3>1 DEF IInv, TypeOK, Set
  <2> QED BY <2>3, <2>4
<1>5. /\ ActiveAreLive'
      /\ active' \subseteq {"acceptor", "server", "upstream", "connector"} \X Conns
      /\ pc' \in {"poll", "handle", "crashed"}
  <2>1. Handle("acceptor", c)
    BY DEF newConnection
  <2>2. \A d \in Conns : attempts[d] > 0 => attempts'[d] > 0
    BY <1>1, <1>2
  <2> QED BY <1>3, <2>1, <2>2, OthersStayLive
<1>6. TypeOK'
  <2>1. nextConnId_' \in 1..MaxConns + 1
    BY <1>3, ConstantTypes DEF Conns
  <2> QED BY <1>2, <1>3, <1>4, <1>5, <2>1 DEF TypeOK, IInv
<1>7. Paired'
  BY <1>1, <1>2, <1>3 DEF Paired, IInv
<1>8. ConnectingMeans'
  <2>1. connecting_' \subseteq sessions' /\ connecting_' \cap upstream' = {}
    BY <1>1, <1>3 DEF IInv, ConnectingMeans
  <2>2. \A d \in connecting_' : attempts'[d] = 1 \/ d \in gaveUp'
    BY <1>2, <1>3 DEF IInv, ConnectingMeans, TypeOK
  <2>3. \A d \in Conns : attempts'[d] = 0 \/ (attempts'[d] = 1 /\ d \in connecting_')
    BY <1>2, <1>3 DEF IInv, ConnectingMeans
  <2>4. inputBuffer' \subseteq connecting_' \cap Live'
    BY <1>3 DEF IInv, ConnectingMeans
  <2> QED BY <2>1, <2>2, <2>3, <2>4 DEF ConnectingMeans
<1>9. Unused'
  BY <1>1, <1>3 DEF Unused, IInv, TypeOK, Conns
<1>10. RelayingInTime'
  BY <1>1, <1>3, <1>4 DEF RelayingInTime, InTime, IInv, Live
<1> QED BY <1>5, <1>6, <1>7, <1>8, <1>9, <1>10 DEF IInv

\* What the invariant says of deadlines that were just set.
LEMMA FreshInTime ==
  ASSUME NEW c \in Conns, idle[c] = 0
  PROVE  InTime(c, TIMEOUT)
BY ConstantTypes DEF InTime

LEMMA ServerMessageStep ==
  ASSUME IInv, NEW c \in Conns, onTcpServerMessage_(c)
  PROVE  IInv'
<1>1. Handle("server", c) /\ c \in Live
  BY HandledIsLive DEF onTcpServerMessage_
<1>2. /\ UNCHANGED <<sessions, upstream, nextConnId_, connections, Live>>
      /\ clientTime_' = Set(clientTime_, c, TIMEOUT)
      /\ idle' = [idle EXCEPT ![c] = 0]
  BY DEF onTcpServerMessage_, Live
<1>3. /\ clientTime_' \in [Conns -> Nat \cup {-1}] /\ clientTime_'[c] = TIMEOUT
      /\ \A d \in Conns \ {c} : clientTime_'[d] = clientTime_[d] /\ idle'[d] = idle[d]
      /\ idle' \in [Conns -> 0..TIMEOUT] /\ idle'[c] = 0
  BY <1>2, SetTypes, ConstantTypes, SMTT(60) DEF IInv, TypeOK
<1>4. /\ attempts' \in [Conns -> 0..2] /\ gaveUp' \subseteq Conns
      /\ connecting_' \subseteq Conns /\ inputBuffer' \subseteq Conns
      /\ serverTime_' \in [Conns -> Nat \cup {-1}]
      /\ \A d \in Conns \ {c} : serverTime_'[d] = serverTime_[d]
      /\ c \in upstream => serverTime_'[c] = TIMEOUT
      /\ \A d \in Conns : attempts[d] > 0 => attempts'[d] > 0
      /\ ConnectingMeans'
  <2> USE <1>1, <1>2 DEF IInv
  <2>1. CASE c \in upstream
    <3>1. /\ inputBuffer' = inputBuffer \ {c} /\ serverTime_' = Set(serverTime_, c, TIMEOUT)
          /\ UNCHANGED <<attempts, gaveUp, connecting_>>
      BY <2>1 DEF onTcpServerMessage_, RelayTime, HasConn
    <3>2. ConnectingMeans'
      BY <3>1 DEF ConnectingMeans
    <3> QED BY <2>1, <3>1, <3>2, SetTypes, ConstantTypes DEF TypeOK
  <2>2. CASE c \notin upstream /\ c \notin connecting_
    <3>1. /\ inputBuffer' = inputBuffer \cup {c} /\ connect(c)
          /\ connecting_' = connecting_ \cup {c}
          /\ serverTime_' = Set(serverTime_, c, TIMEOUT + TIMEOUT)
      BY <2>2 DEF onTcpServerMessage_, HasConn, MustConnect
    <3>2. attempts[c] = 0 /\ c \in sessions
      BY <2>2 DEF ConnectingMeans, Paired
    <3>3. /\ attempts' \in [Conns -> 0..2] /\ gaveUp' \subseteq Conns
          /\ \A d \in Conns \ {c} : attempts'[d] = attempts[d]
          /\ gaveUp \subseteq gaveUp'
          /\ attempts'[c] = 1 \/ (attempts'[c] = 0 /\ c \in gaveUp')
      BY <3>1, <3>2, ConnectStep
    <3>4. ConnectingMeans'
      <4>1. connecting_' \subseteq sessions' /\ connecting_' \cap upstream' = {}
        BY <2>2, <3>1, <3>2 DEF ConnectingMeans
      <4>2. \A d \in connecting_' : attempts'[d] = 1 \/ d \in gaveUp'
        BY <3>1, <3>3 DEF ConnectingMeans, TypeOK
      <4>3. \A d \in Conns : attempts'[d] = 0 \/ (attempts'[d] = 1 /\ d \in connecting_')
        BY <3>1, <3>3 DEF ConnectingMeans
      <4>4. inputBuffer' \subseteq connecting_' \cap Live'
        BY <3>1 DEF ConnectingMeans
      <4> QED BY <4>1, <4>2, <4>3, <4>4 DEF ConnectingMeans
    <3>5. /\ serverTime_' \in [Conns -> Nat \cup {-1}]
          /\ \A d \in Conns \ {c} : serverTime_'[d] = serverTime_[d]
      <4>1. TIMEOUT + TIMEOUT \in Nat
        BY ConstantTypes
      <4> QED BY <3>1, <4>1, SetTypes DEF TypeOK
    <3>6. \A d \in Conns : attempts[d] > 0 => attempts'[d] > 0
      BY <3>2, <3>3
    <3> QED BY <2>2, <3>1, <3>3, <3>4, <3>5, <3>6 DEF TypeOK
  <2>3. CASE c \notin upstream /\ c \in connecting_
    <3>1. /\ inputBuffer' = inputBuffer \cup {c}
          /\ UNCHANGED <<attempts, gaveUp, connecting_, serverTime_>>
      BY <2>3 DEF onTcpServerMessage_, HasConn, MustConnect, KeepWaiting
    <3>2. ConnectingMeans'
      BY <2>3, <3>1 DEF ConnectingMeans
    <3> QED BY <2>3, <3>1, <3>2 DEF TypeOK
  <2> QED BY <2>1, <2>2, <2>3
<1>5. /\ ActiveAreLive'
      /\ active' \subseteq {"acceptor", "server", "upstream", "connector"} \X Conns
      /\ pc' \in {"poll", "handle", "crashed"}
  BY <1>1, <1>2, <1>4, OthersStayLive
<1>6. TypeOK'
  BY <1>2, <1>3, <1>4, <1>5 DEF TypeOK, IInv
<1>7. Paired'
  <2>1. \A d \in Conns : attempts'[d] > 0 => d \in sessions'
    BY <1>4 DEF ConnectingMeans
  <2> QED BY <1>2, <2>1 DEF Paired, IInv
<1>8. Unused'
  BY <1>2 DEF Unused, IInv
<1>9. RelayingInTime'
  BY <1>2, <1>3, <1>4, ConstantTypes DEF RelayingInTime, InTime, IInv, Live
<1> QED BY <1>4, <1>5, <1>6, <1>7, <1>8, <1>9 DEF IInv

LEMMA RemoveConnectionStep ==
  ASSUME IInv, NEW c \in Conns, removeConnection(c)
  PROVE  IInv'
<1>1. /\ Handle("server", c)
      /\ connections' \in [Conns -> {"none", "NULL", "live"}] /\ Live' = Live \ {c}
      /\ inputBuffer' = inputBuffer \ {c}
      /\ UNCHANGED <<sessions, connecting_, clientTime_, serverTime_, idle, attempts,
                     upstream, gaveUp, nextConnId_>>
  BY DEF removeConnection, Live, IInv, TypeOK, session, client
<1>2. /\ ActiveAreLive'
      /\ active' \subseteq {"acceptor", "server", "upstream", "connector"} \X Conns
      /\ pc' \in {"poll", "handle", "crashed"}
  BY <1>1, OthersStayLive
<1>3. TypeOK'
  BY <1>1, <1>2 DEF TypeOK, IInv
<1>4. Paired' /\ ConnectingMeans' /\ Unused'
  BY <1>1 DEF Paired, ConnectingMeans, Unused, IInv
<1>5. RelayingInTime'
  BY <1>1 DEF RelayingInTime, InTime, IInv
<1> QED BY <1>2, <1>3, <1>4, <1>5 DEF IInv

LEMMA LookedTypes ==
  ASSUME TypeOK, NEW c \in Conns, connections' = Looked(c)
  PROVE  connections' \in [Conns -> {"none", "NULL", "live"}] /\ Live' = Live
BY DEF TypeOK, Looked, Live

LEMMA ClientConnectionStep ==
  ASSUME IInv, NEW c \in Conns, onTcpClientConnection_(c)
  PROVE  IInv'
<1>1. /\ Handle("connector", c) /\ attempts[c] = 1 /\ c \in connecting_
      /\ c \in sessions /\ c \notin upstream
  BY HandledIsLive DEF onTcpClientConnection_, IInv, ConnectingMeans
<1>2. /\ attempts' = [attempts EXCEPT ![c] = 0]
      /\ upstream' = upstream \cup {c}
      /\ connecting_' = connecting_ \ {c}
      /\ idle' = [idle EXCEPT ![c] = 0]
      /\ UNCHANGED <<sessions, gaveUp, nextConnId_>>
      /\ serverTime_' = Set(serverTime_, c, TIMEOUT)
  BY <1>1 DEF onTcpClientConnection_, Connected, IInv, TypeOK
<1>3. connections' \in [Conns -> {"none", "NULL", "live"}] /\ Live' = Live
  BY LookedTypes DEF onTcpClientConnection_, IInv
<1>4. /\ inputBuffer' = inputBuffer \ {c}
      /\ \/ c \in Live /\ clientTime_' = Set(clientTime_, c, TIMEOUT)
         \/ c \notin Live /\ clientTime_' = Set(clientTime_, c, 0)
  BY DEF onTcpClientConnection_, IInv, ConnectingMeans
<1>5. /\ serverTime_' \in [Conns -> Nat \cup {-1}] /\ serverTime_'[c] = TIMEOUT
      /\ \A d \in Conns \ {c} : serverTime_'[d] = serverTime_[d]
  BY <1>2, SetTypes, ConstantTypes DEF IInv, TypeOK
<1>6. /\ clientTime_' \in [Conns -> Nat \cup {-1}]
      /\ c \in Live => clientTime_'[c] = TIMEOUT
      /\ \A d \in Conns \ {c} : clientTime_'[d] = clientTime_[d]
  <2>1. CASE c \in Live /\ clientTime_' = Set(clientTime_, c, TIMEOUT)
    BY <2>1, SetTypes, ConstantTypes, SMTT(60) DEF IInv, TypeOK
  <2>2. CASE c \notin Live /\ clientTime_' = Set(clientTime_, c, 0)
    BY <2>2 DEF IInv, TypeOK, Set
  <2> QED BY <1>4, <2>1, <2>2
<1>7. /\ idle' \in [Conns -> 0..TIMEOUT] /\ idle'[c] = 0
      /\ \A d \in Conns \ {c} : idle'[d] = idle[d]
  BY <1>2, ConstantTypes DEF IInv, TypeOK
<1>8. /\ ActiveAreLive'
      /\ active' \subseteq {"acceptor", "server", "upstream", "connector"} \X Conns
      /\ pc' \in {"poll", "handle", "crashed"}
  <2>1. \A d \in Conns : attempts[d] > 0 => attempts'[d] > 0 \/ d = c
    BY <1>2 DEF IInv, TypeOK
  <2> QED BY <1>1, <1>2, <1>3, <2>1, OthersStayLive
<1>9. TypeOK'
  BY <1>2, <1>3, <1>4, <1>5, <1>6, <1>7, <1>8 DEF TypeOK, IInv
<1>10. Paired' /\ ConnectingMeans' /\ Unused'
  BY <1>1, <1>2, <1>3, <1>4 DEF Paired, ConnectingMeans, Unused, IInv, TypeOK
<1>11. RelayingInTime'
  BY <1>2, <1>3, <1>5, <1>6, <1>7, ConstantTypes DEF RelayingInTime, InTime, IInv, Live
<1> QED BY <1>8, <1>9, <1>10, <1>11 DEF IInv

\* Handlers that change nothing the invariant depends on but the attempts.
LEMMA RetryStep ==
  ASSUME IInv, NEW c \in Conns, retry(c)
  PROVE  IInv'
<1>1. Handle("connector", c) /\ UNCHANGED <<session, client, server, Live>>
  BY DEF retry, Live, server
<1>2. /\ ActiveAreLive'
      /\ active' \subseteq {"acceptor", "server", "upstream", "connector"} \X Conns
      /\ pc' \in {"poll", "handle", "crashed"}
  BY <1>1, OthersStayLive DEF client, server
<1>3. TypeOK'
  BY <1>1, <1>2 DEF TypeOK, IInv, session, client, server
<1>4. Paired' /\ ConnectingMeans' /\ Unused' /\ RelayingInTime'
  BY <1>1 DEF IInv, Paired, ConnectingMeans, Unused, RelayingInTime, InTime, session, client, server
<1> QED BY <1>2, <1>3, <1>4 DEF IInv

LEMMA GiveUpStep ==
  ASSUME IInv, NEW c \in Conns, giveUp(c)
  PROVE  IInv'
<1>1. /\ Handle("connector", c) /\ attempts[c] = 1 /\ c \in connecting_
      /\ UNCHANGED <<session, upstream, server, Live>>
  BY HandledIsLive DEF giveUp, IInv, ConnectingMeans, Live, server
<1>2. attempts' = [attempts EXCEPT ![c] = 0] /\ gaveUp' = gaveUp \cup {c}
  BY <1>1 DEF giveUp, IInv, TypeOK
<1>3. /\ ActiveAreLive'
      /\ active' \subseteq {"acceptor", "server", "upstream", "connector"} \X Conns
      /\ pc' \in {"poll", "handle", "crashed"}
  <2>1. \A d \in Conns : attempts[d] > 0 => attempts'[d] > 0 \/ d = c
    BY <1>2 DEF IInv, TypeOK
  <2> QED BY <1>1, <2>1, OthersStayLive DEF server
<1>4. TypeOK'
  BY <1>1, <1>2, <1>3 DEF TypeOK, IInv, session, server
<1>5. Paired' /\ ConnectingMeans' /\ Unused' /\ RelayingInTime'
  BY <1>1, <1>2
  DEF IInv, TypeOK, Paired, ConnectingMeans, Unused, RelayingInTime, InTime, session, server
<1> QED BY <1>3, <1>4, <1>5 DEF IInv

LEMMA ClientMessageStep ==
  ASSUME IInv, NEW c \in Conns, onTcpClientMessage_(c)
  PROVE  IInv'
<1>1. /\ Handle("upstream", c)
      /\ idle' = [idle EXCEPT ![c] = 0]
      /\ UNCHANGED <<sessions, connecting_, client, nextConnId_, inputBuffer>>
      /\ AnswerTimes(c)
  BY DEF onTcpClientMessage_
<1>2. connections' \in [Conns -> {"none", "NULL", "live"}] /\ Live' = Live
  BY LookedTypes DEF onTcpClientMessage_, IInv
<1>3. /\ clientTime_' \in [Conns -> Nat \cup {-1}] /\ serverTime_' \in [Conns -> Nat \cup {-1}]
      /\ \A d \in Conns \ {c} : clientTime_'[d] = clientTime_[d] /\ serverTime_'[d] = serverTime_[d]
      /\ c \in Live => clientTime_'[c] = TIMEOUT /\ serverTime_'[c] = TIMEOUT
  <2>1. CASE /\ c \in Live /\ clientTime_' = Set(clientTime_, c, TIMEOUT)
             /\ serverTime_' = Set(serverTime_, c, TIMEOUT)
    BY <2>1, SetTypes, ConstantTypes, SMTT(60) DEF IInv, TypeOK
  <2>2. CASE /\ c \notin Live /\ serverTime_' = Set(serverTime_, c, 0)
             /\ UNCHANGED clientTime_
    BY <2>2 DEF IInv, TypeOK, Set
  <2> QED BY <1>1, <2>1, <2>2 DEF AnswerTimes
<1>4. /\ idle' \in [Conns -> 0..TIMEOUT] /\ idle'[c] = 0
      /\ \A d \in Conns \ {c} : idle'[d] = idle[d]
  BY <1>1, ConstantTypes DEF IInv, TypeOK
<1>5. /\ ActiveAreLive'
      /\ active' \subseteq {"acceptor", "server", "upstream", "connector"} \X Conns
      /\ pc' \in {"poll", "handle", "crashed"}
  BY <1>1, <1>2, OthersStayLive DEF client
<1>6. TypeOK'
  BY <1>1, <1>2, <1>3, <1>4, <1>5 DEF TypeOK, IInv, client
<1>7. Paired' /\ ConnectingMeans' /\ Unused'
  BY <1>1, <1>2 DEF IInv, Paired, ConnectingMeans, Unused, client
<1>8. RelayingInTime'
  BY <1>1, <1>2, <1>3, <1>4, ConstantTypes DEF RelayingInTime, InTime, IInv, Live, client
<1> QED BY <1>5, <1>6, <1>7, <1>8 DEF IInv

LEMMA UpstreamClosedStep ==
  ASSUME IInv, NEW c \in Conns, upstreamClosed(c)
  PROVE  IInv'
<1>1. /\ Handle("upstream", c) /\ upstream' = upstream \ {c}
      /\ UNCHANGED <<session, attempts, gaveUp, server, Live>>
  BY DEF upstreamClosed, Live, server
<1>2. /\ ActiveAreLive'
      /\ active' \subseteq {"acceptor", "server", "upstream", "connector"} \X Conns
      /\ pc' \in {"poll", "handle", "crashed"}
  BY <1>1, OthersStayLive DEF server
<1>3. TypeOK'
  BY <1>1, <1>2 DEF TypeOK, IInv, session, server
<1>4. Paired' /\ ConnectingMeans' /\ Unused' /\ RelayingInTime'
  BY <1>1 DEF IInv, Paired, ConnectingMeans, Unused, RelayingInTime, InTime, session, server
<1> QED BY <1>2, <1>3, <1>4 DEF IInv

LEMMA TickStep ==
  ASSUME IInv, Tick
  PROVE  IInv'
<1>1. UNCHANGED <<sessions, connecting_, client, server, loop, Live, Channels>>
  BY DEF Tick, Live, Channels, client, server, loop
<1>2. ASSUME NEW left \in Nat \cup {-1}
      PROVE  /\ Max({left - 1, -1}) \in Nat \cup {-1}
             /\ Max({left - 1, -1}) >= left - 1
  BY MaxOfTwo
<1>3. ASSUME NEW n \in 0..TIMEOUT
      PROVE  /\ Min({n + 1, TIMEOUT}) \in 0..TIMEOUT
             /\ Min({n + 1, TIMEOUT}) = TIMEOUT \/ Min({n + 1, TIMEOUT}) = n + 1
  BY MinOfTwo, ConstantTypes
<1>4. /\ clientTime_' \in [Conns -> Nat \cup {-1}] /\ serverTime_' \in [Conns -> Nat \cup {-1}]
      /\ \A c \in Conns : /\ clientTime_'[c] >= clientTime_[c] - 1
                          /\ serverTime_'[c] >= serverTime_[c] - 1
  BY <1>2 DEF Tick, IInv, TypeOK
<1>5. /\ idle' \in [Conns -> 0..TIMEOUT]
      /\ \A c \in sessions : idle'[c] = TIMEOUT \/ idle'[c] = idle[c] + 1
  BY <1>3, ConstantTypes DEF Tick, IInv, TypeOK
<1>6. TypeOK'
  BY <1>1, <1>4, <1>5 DEF TypeOK, IInv, client, server, loop
<1>7. Paired' /\ ActiveAreLive' /\ ConnectingMeans' /\ Unused'
  BY <1>1 DEF IInv, Paired, ActiveAreLive, ConnectingMeans, Unused, client, server, loop
<1>8. RelayingInTime'
  <2> SUFFICES ASSUME NEW c \in Live \cap upstream
               PROVE  InTime(c, clientTime_[c])' /\ InTime(c, serverTime_[c])'
    BY <1>1 DEF RelayingInTime, client
  <2>1. /\ c \in Conns /\ c \in sessions
        /\ InTime(c, clientTime_[c]) /\ InTime(c, serverTime_[c])
        /\ idle[c] \in 0..TIMEOUT
        /\ clientTime_[c] \in Int /\ serverTime_[c] \in Int
        /\ clientTime_'[c] \in Int /\ serverTime_'[c] \in Int
    BY <1>4 DEF IInv, TypeOK, Paired, RelayingInTime, Live
  <2>2. /\ idle'[c] \in 0..TIMEOUT
        /\ idle'[c] = TIMEOUT \/ idle'[c] = idle[c] + 1
        /\ clientTime_'[c] >= clientTime_[c] - 1 /\ serverTime_'[c] >= serverTime_[c] - 1
    BY <1>4, <1>5, <2>1
  <2> QED BY <2>1, <2>2, ConstantTypes DEF InTime
<1> QED BY <1>6, <1>7, <1>8 DEF IInv

\* The sessions of S end, when no event is left.
LEMMA EndSessionsStep ==
  ASSUME IInv, NEW S \in SUBSET sessions, EndSessions(S), active = {},
         UNCHANGED active, pc' = "poll"
  PROVE  IInv'
<1>1. /\ sessions' = sessions \ S /\ connections' = Removed(S)
      /\ inputBuffer' = inputBuffer \ S /\ upstream' = upstream \ S
      /\ gaveUp' = gaveUp \ S /\ connecting_' = connecting_ \ S
      /\ attempts' = [c \in Conns |-> IF c \in S THEN 0 ELSE attempts[c]]
      /\ clientTime_' = [c \in Conns |-> IF c \in S THEN -1 ELSE clientTime_[c]]
      /\ serverTime_' = [c \in Conns |-> IF c \in S THEN -1 ELSE serverTime_[c]]
      /\ idle' = [c \in Conns |-> IF c \in S THEN 0 ELSE idle[c]]
      /\ UNCHANGED nextConnId_
  BY DEF EndSessions
<1>2. connections' \in [Conns -> {"none", "NULL", "live"}] /\ Live' = Live \ S
  BY <1>1 DEF Removed, Live, IInv, TypeOK
<1>3. TypeOK'
  BY <1>1, <1>2, ConstantTypes DEF TypeOK, IInv
<1>4. Paired' /\ ConnectingMeans' /\ Unused'
  BY <1>1, <1>2 DEF IInv, TypeOK, Paired, ConnectingMeans, Unused
<1>5. RelayingInTime'
  BY <1>1, <1>2 DEF IInv, TypeOK, RelayingInTime, InTime, Live
<1>6. ActiveAreLive'
  BY DEF ActiveAreLive
<1> QED BY <1>3, <1>4, <1>5, <1>6 DEF IInv

LEMMA ProcessSessionStep ==
  ASSUME IInv, processSession_
  PROVE  /\ IInv'
         /\ \A c \in sessions \ sessions' : c \in Live \cap upstream => idle[c] = TIMEOUT
<1>1. active = {} /\ UNCHANGED active
  BY DEF processSession_, AfterRound
<1>2. PICK D \in SUBSET sessions :
        /\ Expired(D)
        /\ \/ pc' \in {"poll", "crashed"} /\ UNCHANGED <<session, client, server>>
           \/ \E S \in SUBSET D : EndSessions(S) /\ pc' = "poll"
  BY DEF processSession_
<1>3. CASE pc' \in {"poll", "crashed"} /\ UNCHANGED <<session, client, server>>
  <2>1. UNCHANGED <<Live, Channels>>
    BY <1>3 DEF Live, Channels, client, server
  <2>2. TypeOK'
    BY <1>1, <1>3 DEF TypeOK, IInv, session, client, server
  <2>3. Paired' /\ ActiveAreLive' /\ ConnectingMeans' /\ Unused' /\ RelayingInTime'
    BY <1>1, <1>3, <2>1
    DEF IInv, Paired, ActiveAreLive, ConnectingMeans, Unused, RelayingInTime, InTime,
        session, client, server
  <2> QED BY <1>3, <2>2, <2>3 DEF IInv, session
<1>4. ASSUME NEW S \in SUBSET D, EndSessions(S), pc' = "poll"
      PROVE  /\ IInv'
             /\ \A c \in sessions \ sessions' : c \in Live \cap upstream => idle[c] = TIMEOUT
  <2>1. IInv'
    BY <1>1, <1>4, EndSessionsStep
  <2>2. ASSUME NEW c \in sessions \ sessions', c \in Live \cap upstream
        PROVE  idle[c] = TIMEOUT
    <3>1. c \in D /\ c \in Conns
      BY <1>4, <2>2 DEF EndSessions, Live
    <3>2. clientTime_[c] <= 0 \/ serverTime_[c] <= 0
      BY <1>2, <3>1 DEF Expired
    <3>3. InTime(c, clientTime_[c]) /\ InTime(c, serverTime_[c])
      BY <2>2 DEF IInv, RelayingInTime
    <3>4. idle[c] \in 0..TIMEOUT /\ clientTime_[c] \in Int /\ serverTime_[c] \in Int
      BY <3>1 DEF IInv, TypeOK
    <3> QED BY <3>2, <3>3, <3>4, ConstantTypes DEF InTime
  <2> QED BY <2>1, <2>2
<1> QED BY <1>2, <1>3, <1>4

LEMMA PollStep ==
  ASSUME IInv, poll
  PROVE  IInv'
<1>1. /\ UNCHANGED <<session, client, server, Live, Channels>>
      /\ active' \subseteq Channels /\ pc' = "handle"
  BY DEF poll, Live, Channels, client, server
<1>2. Channels \subseteq {"acceptor", "server", "upstream", "connector"} \X Conns
  BY DEF Channels, Live, IInv, TypeOK
<1>3. TypeOK'
  BY <1>1, <1>2 DEF TypeOK, IInv, session, client, server
<1>4. Paired' /\ ActiveAreLive' /\ ConnectingMeans' /\ Unused' /\ RelayingInTime'
  BY <1>1
  DEF IInv, Paired, ActiveAreLive, ConnectingMeans, Unused, RelayingInTime, InTime,
      session, client, server
<1> QED BY <1>3, <1>4 DEF IInv

\* Every step keeps the invariant, and ends no session that relays.
LEMMA NextStep ==
  ASSUME IInv, Next
  PROVE  /\ IInv'
         /\ \A c \in sessions \ sessions' : c \in Live \cap upstream => idle[c] = TIMEOUT
<1>1. CASE poll
  BY <1>1, PollStep DEF poll, session
<1>2. ASSUME NEW c \in Conns,
             newConnection(c) \/ onTcpServerMessage_(c) \/ removeConnection(c)
      PROVE  IInv' /\ sessions \subseteq sessions'
  <2>1. IInv'
    BY <1>2, NewConnectionStep, ServerMessageStep, RemoveConnectionStep
  <2> QED BY <1>2, <2>1 
    DEF newConnection, onTcpServerConnection_, NewSession, onTcpServerMessage_,
        removeConnection, session
<1>3. ASSUME NEW c \in Conns,
             onTcpClientConnection_(c) \/ retry(c) \/ giveUp(c)
      PROVE  IInv' /\ sessions \subseteq sessions'
  <2>1. IInv'
    BY <1>3, ClientConnectionStep, RetryStep, GiveUpStep
  <2> QED BY <1>3, <2>1 DEF onTcpClientConnection_, retry, giveUp, session
<1>4. ASSUME NEW c \in Conns, onTcpClientMessage_(c) \/ upstreamClosed(c)
      PROVE  IInv' /\ sessions \subseteq sessions'
  <2>1. IInv'
    BY <1>4, ClientMessageStep, UpstreamClosedStep
  <2> QED BY <1>4, <2>1 DEF onTcpClientMessage_, upstreamClosed, session
<1>5. CASE processSession_
  BY <1>5, ProcessSessionStep
<1>6. CASE Tick
  BY <1>6, TickStep DEF Tick
<1> QED BY <1>1, <1>2, <1>3, <1>4, <1>5, <1>6 DEF Next, LoopStep

LEMMA Invariance == Spec => []IInv
<1>1. Init => IInv
  <2> SUFFICES ASSUME Init PROVE IInv
    OBVIOUS
  <2>1. TypeOK
    BY ConstantTypes DEF Init, TypeOK
  <2>2. Paired /\ ActiveAreLive /\ ConnectingMeans /\ Unused /\ RelayingInTime
    BY DEF Init, Paired, ActiveAreLive, ConnectingMeans, Unused, RelayingInTime, Live
  <2> QED BY <2>1, <2>2 DEF IInv
<1>2. IInv /\ [Next]_vars => IInv'
  <2>1. ASSUME IInv, UNCHANGED vars
        PROVE  IInv'
    <3>1. UNCHANGED <<session, client, server, loop, Live, Channels>>
      BY <2>1 DEF vars, Live, Channels, client, server
    <3> QED BY <2>1, <3>1
      DEF IInv, TypeOK, Paired, ActiveAreLive, ConnectingMeans, Unused, RelayingInTime,
          InTime, session, client, server, loop
  <2> QED BY <2>1, NextStep
<1> QED BY <1>1, <1>2, PTL DEF Spec

\* The variables keep their types: no deadline is kept below its end, and no session
\* counts a third attempt.
THEOREM ProxyTypeInvariance == Spec => []TypeOK
<1>1. IInv => TypeOK
  BY DEF IInv
<1> QED BY <1>1, Invariance, PTL

\* No connection and no TcpClient outlives the session its callbacks are bound to.
THEOREM PairedTheorem == Spec => []Paired
<1>1. IInv => Paired
  BY DEF IInv
<1> QED BY <1>1, Invariance, PTL

\* No handler destroys a channel the round has still to handle.
THEOREM ActiveAreLiveTheorem == Spec => []ActiveAreLive
<1>1. IInv => ActiveAreLive
  BY DEF IInv
<1> QED BY <1>1, Invariance, PTL

\* A session has one attempt under way, or a connection, never two of them.
THEOREM OneUpstreamTheorem == Spec => []OneUpstream
<1>1. IInv => OneUpstream
  BY DEF IInv, ConnectingMeans, OneUpstream
<1> QED BY <1>1, Invariance, PTL

\* Bytes of a client wait only for an attempt.
THEOREM NothingStuckTheorem == Spec => []NothingStuck
<1>1. IInv => NothingStuck
  BY DEF IInv, ConnectingMeans, NothingStuck
<1> QED BY <1>1, Invariance, PTL

\* No session is ended whose two sides are up and have relayed within TIMEOUT.
THEOREM NotSweptEarlyTheorem == Spec => NotSweptEarly
<1>1. IInv /\ [Next]_vars =>
        [\A c \in sessions \ sessions' : c \in Live \cap upstream => idle[c] = TIMEOUT]_vars
  BY NextStep
<1> QED BY <1>1, Invariance, PTL DEF Spec, NotSweptEarly
=============================================================================
