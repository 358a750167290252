--------------------------- MODULE TcpServerProofs ---------------------------
(***************************************************************************)
(* Proofs about TcpServer, for any number of threads and connections: a    *)
(* functor that waits in a loop finds its connection, and pollers have the *)
(* channels of live connections only.                                      *)
(***************************************************************************)
EXTENDS TcpServer, SequenceTheorems, TLAPS

\* Connections in the map are not destroyed; startLoop is for a thread that is still to
\* come; a server without threads has its connections on the base loop and needs no
\* functors.
Control ==
  /\ pc \in {"test", "waiting"} => loops < numThreads
  /\ \A c \in connections : conn[c].state # "kDisconnected"
  /\ numThreads = 0 => /\ \A c \in Names : conn[c].loop = Base
                       /\ \A l \in Loops : pending[l] = <<>>

IInv == TypeOK /\ FunctorsFindConnection /\ RegisteredAreLive /\ Control

NoFunctor(c) == \A l \in Loops : \A i \in DOMAIN pending[l] : pending[l][i].conn # c

\* Nothing changes about the connections but for c.
OnlyTouches(c) ==
  \A d \in Names \ {c} : conn'[d] = conn[d] /\ (d \in connections' <=> d \in connections)

\* The functors as they are found in the queues.
LEMMA FunctorTypes ==
  ASSUME TypeOK, NEW l \in Loops, NEW i \in DOMAIN pending[l]
  PROVE  pending[l][i] \in Functor /\ pending[l][i].conn \in Names
<1>1. pending[l] \in Seq(Functor)
  BY DEF TypeOK
<1>2. pending[l][i] \in Functor
  BY <1>1
<1> QED BY <1>2 DEF Functor

LEMMA OnlyFunctor ==
  ASSUME FunctorsFindConnection,
         NEW l \in Loops, NEW i \in DOMAIN pending[l],
         NEW m \in Loops, NEW j \in DOMAIN pending[m],
         pending[m][j].conn = pending[l][i].conn
  PROVE  m = l /\ j = i
<1>1. <<m, j>> = <<l, i>>
  BY DEF FunctorsFindConnection
<1> QED BY <1>1

LEMMA ReadingHasNoFunctor ==
  ASSUME FunctorsFindConnection, NEW c \in Names, conn[c].events = "read"
  PROVE  NoFunctor(c)
<1> SUFFICES ASSUME NEW l \in Loops, NEW i \in DOMAIN pending[l], pending[l][i].conn = c
             PROVE  FALSE
  BY DEF NoFunctor
<1>1. Expects(l, pending[l][i].op, conn[c])
  BY DEF FunctorsFindConnection
<1> QED BY <1>1 DEF Expects, NewConnection

\* The invariant of the functors after a step, without its definition.
LEMMA FindsAgain ==
  ASSUME \A l \in Loops : \A i \in DOMAIN pending'[l] :
           /\ pending'[l][i].conn \in connections'
           /\ Expects(l, pending'[l][i].op, conn'[pending'[l][i].conn]),
         \A l \in Loops : \A i \in DOMAIN pending'[l] :
           \A m \in Loops : \A j \in DOMAIN pending'[m] :
             pending'[m][j].conn = pending'[l][i].conn => <<m, j>> = <<l, i>>
  PROVE  FunctorsFindConnection'
BY ZenonT(60) DEF FunctorsFindConnection, Expects, NewConnection, Loops, Threads, Base

LEMMA UntouchedFunctors ==
  ASSUME TypeOK, FunctorsFindConnection, NEW c \in Names, NoFunctor(c), OnlyTouches(c),
         UNCHANGED pending
  PROVE  FunctorsFindConnection'
<1>1. ASSUME NEW l \in Loops, NEW i \in DOMAIN pending[l]
      PROVE  /\ pending[l][i].conn \in connections'
             /\ Expects(l, pending[l][i].op, conn'[pending[l][i].conn])
  <2>1. pending[l][i].conn \in Names \ {c}
    BY FunctorTypes DEF NoFunctor
  <2> QED BY <2>1 DEF FunctorsFindConnection, OnlyTouches
<1>2. \A l \in Loops : \A i \in DOMAIN pending[l] :
        \A m \in Loops : \A j \in DOMAIN pending[m] :
          pending[m][j].conn = pending[l][i].conn => <<m, j>> = <<l, i>>
  BY DEF FunctorsFindConnection
<1> QED BY <1>1, <1>2, FindsAgain

\* What is in the queues after a push.
LEMMA PushProperties ==
  ASSUME TypeOK, NEW l0 \in Loops, NEW f \in Functor,
         pending' = [pending EXCEPT ![l0] = Append(@, f)]
  PROVE  /\ pending' \in [Loops -> Seq(Functor)]
         /\ \A l \in Loops : \A i \in DOMAIN pending'[l] :
              \/ i \in DOMAIN pending[l] /\ pending'[l][i] = pending[l][i]
              \/ l = l0 /\ i = Len(pending[l0]) + 1 /\ pending'[l][i] = f
<1>1. pending \in [Loops -> Seq(Functor)] /\ pending[l0] \in Seq(Functor)
  BY DEF TypeOK
<1>2. /\ Append(pending[l0], f) \in Seq(Functor)
      /\ \A i \in DOMAIN Append(pending[l0], f) :
           \/ i \in DOMAIN pending[l0] /\ Append(pending[l0], f)[i] = pending[l0][i]
           \/ i = Len(pending[l0]) + 1 /\ Append(pending[l0], f)[i] = f
  BY <1>1
<1>3. \A l \in Loops : pending'[l] = IF l = l0 THEN Append(pending[l0], f) ELSE pending[l]
  BY <1>1
<1>4. pending' \in [Loops -> Seq(Functor)]
  BY <1>1, <1>2
<1> QED BY <1>2, <1>3, <1>4

LEMMA PushedFunctors ==
  ASSUME TypeOK, FunctorsFindConnection, NEW l0 \in Loops, NEW f \in Functor,
         pending' = [pending EXCEPT ![l0] = Append(@, f)],
         NoFunctor(f.conn), OnlyTouches(f.conn),
         f.conn \in connections', Expects(l0, f.op, conn'[f.conn])
  PROVE  FunctorsFindConnection'
<1> DEFINE New(l, i) == l = l0 /\ i = Len(pending[l0]) + 1 /\ pending'[l][i] = f
           Old(l, i) == i \in DOMAIN pending[l] /\ pending'[l][i] = pending[l][i]
                          /\ pending[l][i].conn \in Names \ {f.conn}
<1>1. ASSUME NEW l \in Loops, NEW i \in DOMAIN pending'[l]
      PROVE  Old(l, i) \/ New(l, i)
  <2>1. CASE i \in DOMAIN pending[l] /\ pending'[l][i] = pending[l][i]
    <3>1. pending[l][i].conn \in Names \ {f.conn}
      BY <2>1, FunctorTypes DEF NoFunctor
    <3> QED BY <2>1, <3>1
  <2>2. CASE l = l0 /\ i = Len(pending[l0]) + 1 /\ pending'[l][i] = f
    BY <2>2
  <2> QED BY <1>1, <2>1, <2>2, PushProperties
<1>2. ASSUME NEW l \in Loops, NEW i \in DOMAIN pending'[l]
      PROVE  /\ pending'[l][i].conn \in connections'
             /\ Expects(l, pending'[l][i].op, conn'[pending'[l][i].conn])
  <2>1. CASE New(l, i)
    BY <2>1
  <2>2. CASE Old(l, i)
    BY <2>2 DEF FunctorsFindConnection, OnlyTouches
  <2> QED BY <1>1, <1>2, <2>1, <2>2
<1>3. ASSUME NEW l \in Loops, NEW i \in DOMAIN pending'[l],
             NEW m \in Loops, NEW j \in DOMAIN pending'[m],
             pending'[m][j].conn = pending'[l][i].conn
      PROVE  <<m, j>> = <<l, i>>
  <2>1. CASE Old(l, i) /\ Old(m, j)
    BY <1>3, <2>1, OnlyFunctor
  <2>2. CASE New(l, i) /\ New(m, j)
    BY <2>2
  <2>3. CASE Old(l, i) /\ New(m, j)
    BY <1>3, <2>3
  <2>4. CASE New(l, i) /\ Old(m, j)
    BY <1>3, <2>4
  <2>5. Old(l, i) \/ New(l, i)
    BY <1>1, <1>3
  <2>6. Old(m, j) \/ New(m, j)
    BY <1>1, <1>3
  <2> QED BY <2>1, <2>2, <2>3, <2>4, <2>5, <2>6
<1> HIDE DEF New, Old
<1> QED BY <1>2, <1>3, FindsAgain

\* What is in the queues after a call.
LEMMA CallProperties ==
  ASSUME TypeOK, NEW l0 \in Loops, pending[l0] # <<>>,
         pending' = [pending EXCEPT ![l0] = Tail(@)]
  PROVE  /\ pending' \in [Loops -> Seq(Functor)]
         /\ Head(pending[l0]) = pending[l0][1] /\ 1 \in DOMAIN pending[l0]
         /\ \A l \in Loops : \A i \in DOMAIN pending'[l] :
              \/ l # l0 /\ i \in DOMAIN pending[l] /\ pending'[l][i] = pending[l][i]
              \/ /\ l = l0 /\ i \in Nat \ {0} /\ i + 1 \in DOMAIN pending[l0]
                 /\ pending'[l][i] = pending[l0][i + 1]
<1>1. pending \in [Loops -> Seq(Functor)] /\ pending[l0] \in Seq(Functor)
  BY DEF TypeOK
<1>2. /\ Tail(pending[l0]) \in Seq(Functor)
      /\ Head(pending[l0]) = pending[l0][1] /\ 1 \in DOMAIN pending[l0]
      /\ \A i \in DOMAIN Tail(pending[l0]) :
           /\ i \in Nat \ {0} /\ i + 1 \in DOMAIN pending[l0]
           /\ Tail(pending[l0])[i] = pending[l0][i + 1]
  BY <1>1
<1>3. \A l \in Loops : pending'[l] = IF l = l0 THEN Tail(pending[l0]) ELSE pending[l]
  BY <1>1
<1>4. pending' \in [Loops -> Seq(Functor)]
  BY <1>1, <1>2
<1> QED BY <1>2, <1>3, <1>4

LEMMA CalledFunctors ==
  ASSUME TypeOK, FunctorsFindConnection, NEW l0 \in Loops, pending[l0] # <<>>,
         pending' = [pending EXCEPT ![l0] = Tail(@)],
         OnlyTouches(Head(pending[l0]).conn)
  PROVE  FunctorsFindConnection'
<1> DEFINE Was(l, i) == IF l = l0 THEN i + 1 ELSE i
           c == Head(pending[l0]).conn
<1>0. \A l \in Loops : \A i \in DOMAIN pending'[l] :
        \/ l # l0 /\ i \in DOMAIN pending[l] /\ pending'[l][i] = pending[l][i]
        \/ /\ l = l0 /\ i \in Nat \ {0} /\ i + 1 \in DOMAIN pending[l0]
           /\ pending'[l][i] = pending[l0][i + 1]
  BY CallProperties
<1>1. ASSUME NEW l \in Loops, NEW i \in DOMAIN pending'[l]
      PROVE  /\ i \in Nat \ {0}
             /\ Was(l, i) \in DOMAIN pending[l]
             /\ pending'[l][i] = pending[l][Was(l, i)]
  <2>1. pending[l] \in Seq(Functor)
    BY DEF TypeOK
  <2>2. CASE l # l0 /\ i \in DOMAIN pending[l] /\ pending'[l][i] = pending[l][i]
    BY <2>1, <2>2
  <2>3. CASE /\ l = l0 /\ i \in Nat \ {0} /\ i + 1 \in DOMAIN pending[l0]
             /\ pending'[l][i] = pending[l0][i + 1]
    BY <2>3
  <2> QED BY <1>0, <1>1, <2>2, <2>3
<1>2. ASSUME NEW l \in Loops, NEW i \in DOMAIN pending'[l]
      PROVE  pending'[l][i].conn \in Names \ {c}
  <2>1. /\ i \in Nat \ {0}
        /\ Was(l, i) \in DOMAIN pending[l]
        /\ pending'[l][i] = pending[l][Was(l, i)]
    BY <1>1, <1>2
  <2>2. c = pending[l0][1].conn /\ 1 \in DOMAIN pending[l0]
    BY CallProperties
  <2>3. ~(l = l0 /\ Was(l, i) = 1)
    BY <2>1
  <2> HIDE DEF Was, c
  <2>4. pending[l][Was(l, i)].conn # c
    BY <2>1, <2>2, <2>3, OnlyFunctor
  <2>5. pending[l][Was(l, i)].conn \in Names
    BY <2>1, FunctorTypes
  <2> QED BY <2>1, <2>4, <2>5
<1>3. ASSUME NEW l \in Loops, NEW i \in DOMAIN pending'[l]
      PROVE  /\ pending'[l][i].conn \in connections'
             /\ Expects(l, pending'[l][i].op, conn'[pending'[l][i].conn])
  <2> DEFINE w == Was(l, i)
  <2>1. w \in DOMAIN pending[l] /\ pending'[l][i] = pending[l][w]
    BY <1>1, <1>3
  <2>2. pending[l][w].conn \in Names \ {c}
    BY <1>2, <1>3, <2>1
  <2> HIDE DEF w
  <2> QED BY <2>1, <2>2 DEF FunctorsFindConnection, OnlyTouches
<1>4. ASSUME NEW l \in Loops, NEW i \in DOMAIN pending'[l],
             NEW m \in Loops, NEW j \in DOMAIN pending'[m],
             pending'[m][j].conn = pending'[l][i].conn
      PROVE  <<m, j>> = <<l, i>>
  <2>1. /\ i \in Nat /\ Was(l, i) \in DOMAIN pending[l]
        /\ pending'[l][i] = pending[l][Was(l, i)]
    BY <1>1, <1>4
  <2>2. /\ j \in Nat /\ Was(m, j) \in DOMAIN pending[m]
        /\ pending'[m][j] = pending[m][Was(m, j)]
    BY <1>1, <1>4
  <2>3. m = l /\ Was(m, j) = Was(l, i)
    <3> HIDE DEF Was
    <3> QED BY <1>4, <2>1, <2>2, OnlyFunctor
  <2> QED BY <2>1, <2>2, <2>3
<1> QED BY <1>3, <1>4, FindsAgain

-----------------------------------------------------------------------------

\* The parts of the invariant that only speak of connections.
ConnectionsOK == RegisteredAreLive /\ \A c \in connections : conn[c].state # "kDisconnected"

\* A destroyed connection, in no poller and not in the map.
LEMMA EraseProperties ==
  ASSUME IInv, NEW c \in Names, Erase(c)
  PROVE  /\ OnlyTouches(c)
         /\ conn' \in [Names -> Connection] /\ connections' \subseteq Names
         /\ raced' \subseteq Threads
         /\ ConnectionsOK'
         /\ \A d \in Names : conn'[d].loop = conn[d].loop
<1>1. /\ conn \in [Names -> Connection] /\ connections \subseteq Names
      /\ raced \subseteq Threads
  BY DEF IInv, TypeOK
<1>2. /\ \A d \in Names : conn'[d] = IF d = c THEN Destroyed(conn[c]) ELSE conn[d]
      /\ connections' = connections \ {c}
      /\ raced' = raced \cup ({conn[c].loop} \ {Base})
  BY <1>1 DEF Erase, connectDestroyed
<1>3. /\ Destroyed(conn[c]) \in Connection
      /\ Destroyed(conn[c]).events = "none"
      /\ Destroyed(conn[c]).loop = conn[c].loop
      /\ conn[c].loop \in Loops
  BY <1>1 DEF Destroyed, Connection
<1>4. conn' \in [Names -> Connection]
  BY <1>1, <1>3 DEF Erase, connectDestroyed
<1>5. raced' \subseteq Threads
  BY <1>1, <1>2, <1>3 DEF Loops
<1>6. OnlyTouches(c)
  BY <1>2 DEF OnlyTouches
<1>7. ConnectionsOK'
  BY <1>1, <1>2, <1>3 DEF ConnectionsOK, IInv, RegisteredAreLive, Control
<1> QED BY <1>1, <1>2, <1>3, <1>4, <1>5, <1>6, <1>7

\* A connection that is given another state or interest stays live.
LEMMA UpdateProperties ==
  ASSUME IInv, NEW c \in connections, NEW k \in Connection,
         conn' = [conn EXCEPT ![c] = k], UNCHANGED connections,
         k.loop = conn[c].loop, k.events # "none", k.state \in {"kConnected", "kDisconnecting"}
  PROVE  /\ c \in Names
         /\ OnlyTouches(c)
         /\ conn' \in [Names -> Connection]
         /\ conn'[c] = k
         /\ ConnectionsOK'
         /\ \A d \in Names : conn'[d].loop = conn[d].loop
<1>1. conn \in [Names -> Connection] /\ connections \subseteq Names
  BY DEF IInv, TypeOK
<1>2. \A d \in Names : conn'[d] = IF d = c THEN k ELSE conn[d]
  BY <1>1
<1>3. conn' \in [Names -> Connection]
  BY <1>1
<1>4. ConnectionsOK'
  BY <1>1, <1>2 DEF ConnectionsOK, IInv, RegisteredAreLive, Control
<1> QED BY <1>1, <1>2, <1>3, <1>4 DEF OnlyTouches

\* A step of start() or of a thread's beginning.
LEMMA PoolTypes ==
  ASSUME IInv,
         \/ start \/ startLoop \/ AwaitLoop \/ listen \/ SpuriousWakeup
         \/ \E i \in Threads : threadFunc(i) \/ EnterLoop(i)
  PROVE  /\ UNCHANGED numThreads
         /\ pc' \in {"user", "pool", "test", "waiting", "loop"}
         /\ thread' \in [Threads -> {"none", "created", "ready", "looping"}]
         /\ loops' \in 0..numThreads /\ loops <= loops'
         /\ listenning' \in BOOLEAN
         /\ pc' \in {"test", "waiting"} => loops' < numThreads
<1>1. /\ numThreads \in Nat /\ loops \in 0..numThreads
      /\ pc \in {"user", "pool", "test", "waiting", "loop"}
      /\ thread \in [Threads -> {"none", "created", "ready", "looping"}]
      /\ listenning \in BOOLEAN
      /\ pc \in {"test", "waiting"} => loops < numThreads
  BY MaxThreadsAssumption DEF IInv, TypeOK, Control
<1>2. CASE start
  BY <1>1, <1>2 DEF start
<1>3. CASE startLoop
  <2> DEFINE i == loops + 1
  <2>1. /\ thread' = [thread EXCEPT ![i] = "created"]
        /\ pc' = "test" /\ loops < numThreads
        /\ UNCHANGED <<numThreads, loops, listenning>>
    BY <1>3 DEF startLoop
  <2> HIDE DEF i
  <2>2. thread' \in [Threads -> {"none", "created", "ready", "looping"}]
    BY <1>1, <2>1
  <2> QED BY <1>1, <2>1, <2>2
<1>4. CASE AwaitLoop
  BY <1>1, <1>4 DEF AwaitLoop
<1>5. CASE listen
  BY <1>1, <1>5 DEF listen
<1>6. CASE SpuriousWakeup
  BY <1>1, <1>6 DEF SpuriousWakeup
<1>7. ASSUME NEW i \in Threads, threadFunc(i)
      PROVE  /\ UNCHANGED <<numThreads, loops, listenning>>
             /\ pc' = pc \/ (pc = "waiting" /\ pc' = "test")
             /\ thread' \in [Threads -> {"none", "created", "ready", "looping"}]
  BY <1>1, <1>7 DEF threadFunc
<1>8. ASSUME NEW i \in Threads, EnterLoop(i)
      PROVE  /\ UNCHANGED <<numThreads, loops, listenning, pc>>
             /\ thread' \in [Threads -> {"none", "created", "ready", "looping"}]
  BY <1>1, <1>8 DEF EnterLoop
<1> QED BY <1>1, <1>2, <1>3, <1>4, <1>5, <1>6, <1>7, <1>8

\* Nothing happens to the connections.
LEMMA QuietStep ==
  ASSUME IInv, UNCHANGED <<numThreads, connections, conn, pending>>
  PROVE  /\ FunctorsFindConnection' /\ ConnectionsOK'
         /\ numThreads' = 0 => /\ \A c \in Names : conn'[c].loop = Base
                               /\ \A l \in Loops : pending'[l] = <<>>
<1>1. FunctorsFindConnection'
  <2>1. FunctorsFindConnection
    BY DEF IInv
  <2>2. \A l \in Loops : \A i \in DOMAIN pending[l] :
          /\ pending[l][i].conn \in connections
          /\ Expects(l, pending[l][i].op, conn[pending[l][i].conn])
    BY <2>1 DEF FunctorsFindConnection
  <2>3. \A l \in Loops : \A i \in DOMAIN pending[l] :
          \A m \in Loops : \A j \in DOMAIN pending[m] :
            pending[m][j].conn = pending[l][i].conn => <<m, j>> = <<l, i>>
    BY <2>1 DEF FunctorsFindConnection
  <2> QED BY <2>2, <2>3, FindsAgain
<1>2. ConnectionsOK'
  BY DEF IInv, ConnectionsOK, RegisteredAreLive, Control
<1> QED BY <1>1, <1>2 DEF IInv, Control

\* The parts make the invariant.
LEMMA Parts ==
  ASSUME TypeOK', FunctorsFindConnection', ConnectionsOK',
         pc' \in {"test", "waiting"} => loops' < numThreads',
         numThreads' = 0 => /\ \A c \in Names : conn'[c].loop = Base
                            /\ \A l \in Loops : pending'[l] = <<>>
  PROVE  IInv'
BY DEF IInv, ConnectionsOK, Control, Loops, Threads, Base

\* getNextLoop and next_ stay inside loops_; the leads stay natural numbers.
LEMMA NextLoopTypes ==
  ASSUME IInv, Advance, lead' = LeadWith(getNextLoop)
  PROVE  /\ getNextLoop \in Loops
         /\ numThreads = 0 => getNextLoop = Base
         /\ next' \in 0..MaxThreads /\ (next' > 0 => next' < loops)
         /\ lead' \in [Loops -> Nat]
<1>1. /\ numThreads \in 0..MaxThreads /\ loops \in 0..numThreads
      /\ next \in 0..MaxThreads /\ (next > 0 => next < loops)
      /\ MaxThreads \in Nat
      /\ lead \in [Loops -> Nat]
  BY MaxThreadsAssumption DEF IInv, TypeOK
<1>2. getNextLoop \in Loops /\ (numThreads = 0 => getNextLoop = Base)
  BY <1>1 DEF getNextLoop, Loops, Threads, Base
<1>3. next' \in 0..MaxThreads /\ (next' > 0 => next' < loops)
  BY <1>1 DEF Advance, NextIndex
<1>4. lead' \in [Loops -> Nat]
  <2> DEFINE l == getNextLoop
             counts == [lead EXCEPT ![l] = @ + 1]
  <2>1. l \in Loops
    BY <1>2
  <2>2. counts \in [Loops -> Nat]
    <3> HIDE DEF l
    <3> QED BY <1>1, <2>1
  <2>3. lead' = IF \A m \in Takers : counts[m] > 0
                THEN [m \in Loops |-> IF m \in Takers THEN counts[m] - 1 ELSE 0]
                ELSE counts
    BY DEF LeadWith
  <2> HIDE DEF counts
  <2>4. CASE \A m \in Takers : counts[m] > 0
    <3>1. \A m \in Loops : m \in Takers => counts[m] - 1 \in Nat
      BY <2>2, <2>4
    <3> QED BY <2>3, <2>4, <3>1
  <2>5. CASE ~\A m \in Takers : counts[m] > 0
    BY <2>2, <2>3, <2>5
  <2> QED BY <2>4, <2>5
<1> QED BY <1>2, <1>3, <1>4

\* The connection that is accepted, on the base loop or on its way to another.
LEMMA NewConnectionStep ==
  ASSUME IInv, NEW c \in Names, newConnection(c)
  PROVE  IInv'
<1> DEFINE l == getNextLoop
           new == NewConnection(l)
<1>1. /\ UNCHANGED <<numThreads, pc, thread, loops, listenning, raced, crashed>>
      /\ connections' = connections \cup {c}
      /\ peer' = [peer EXCEPT ![c] = "open"]
      /\ Advance /\ lead' = LeadWith(l)
      /\ NoFunctor(c)
      /\ c \notin connections
  BY DEF newConnection, pool, Free, NoFunctor
<1>2. /\ l \in Loops /\ (numThreads = 0 => l = Base)
      /\ next' \in 0..MaxThreads /\ (next' > 0 => next' < loops)
      /\ lead' \in [Loops -> Nat]
  BY <1>1, NextLoopTypes
<1> HIDE DEF l
<1>3. /\ new \in Connection /\ connectEstablished(new) \in Connection
      /\ new.loop = l /\ connectEstablished(new).loop = l
      /\ new.events = "none" /\ new.state = "kConnecting"
      /\ connectEstablished(new).events = "read"
      /\ connectEstablished(new).state = "kConnected"
  BY <1>2 DEF NewConnection, Connection, connectEstablished
<1>4. /\ conn \in [Names -> Connection] /\ connections \subseteq Names
      /\ pending \in [Loops -> Seq(Functor)]
  BY DEF IInv, TypeOK
<1>5. ASSUME NEW k \in Connection, conn' = [conn EXCEPT ![c] = k], k.loop = l,
             k.events # "none" <=> k.state # "kConnecting", k.state # "kDisconnected"
      PROVE  /\ OnlyTouches(c) /\ ConnectionsOK'
             /\ conn' \in [Names -> Connection] /\ connections' \subseteq Names
             /\ c \in connections' /\ conn'[c] = k
             /\ numThreads = 0 => \A d \in Names : conn'[d].loop = Base
  <2>1. \A d \in Names : conn'[d] = IF d = c THEN k ELSE conn[d]
    BY <1>4, <1>5
  <2>2. OnlyTouches(c)
    BY <1>1, <2>1 DEF OnlyTouches
  <2>3. ConnectionsOK'
    BY <1>1, <1>4, <1>5, <2>1 DEF ConnectionsOK, IInv, RegisteredAreLive, Control
  <2>4. conn' \in [Names -> Connection] /\ connections' \subseteq Names
    BY <1>1, <1>4, <1>5
  <2>5. numThreads = 0 => \A d \in Names : conn'[d].loop = Base
    BY <1>2, <1>5, <2>1 DEF IInv, Control
  <2> QED BY <1>1, <2>1, <2>2, <2>3, <2>4, <2>5
<1>6. CASE l = Base
  <2>1. conn' = [conn EXCEPT ![c] = connectEstablished(new)] /\ UNCHANGED pending
    BY <1>3, <1>6 DEF newConnection, l
  <2> HIDE DEF new
  <2>2. /\ OnlyTouches(c) /\ ConnectionsOK'
        /\ conn' \in [Names -> Connection] /\ connections' \subseteq Names
        /\ numThreads = 0 => \A d \in Names : conn'[d].loop = Base
    BY <1>3, <1>5, <2>1
  <2>3. FunctorsFindConnection'
    BY <1>1, <2>1, <2>2, UntouchedFunctors DEF IInv
  <2>4. TypeOK'
    BY <1>1, <1>2, <2>1, <2>2 DEF IInv, TypeOK
  <2> QED BY <1>1, <2>1, <2>2, <2>3, <2>4, Parts DEF IInv, Control
<1>7. CASE l # Base
  <2> DEFINE f == [op |-> "connectEstablished", conn |-> c]
  <2>1. conn' = [conn EXCEPT ![c] = new]
        /\ pending' = [pending EXCEPT ![l] = Append(@, f)]
    BY <1>3, <1>7 DEF newConnection, Push, l
  <2>2. f \in Functor /\ f.conn = c /\ Expects(l, f.op, new)
    BY DEF Functor, Expects
  <2> HIDE DEF new, f
  <2>3. /\ OnlyTouches(c) /\ ConnectionsOK'
        /\ conn' \in [Names -> Connection] /\ connections' \subseteq Names
        /\ c \in connections' /\ conn'[c] = new
    BY <1>3, <1>5, <2>1
  <2>4. FunctorsFindConnection' /\ pending' \in [Loops -> Seq(Functor)]
    BY <1>1, <1>2, <2>1, <2>2, <2>3, PushedFunctors, PushProperties DEF IInv
  <2>5. TypeOK'
    BY <1>1, <1>2, <2>3, <2>4 DEF IInv, TypeOK
  <2> QED BY <1>1, <1>2, <1>7, <2>3, <2>4, <2>5, Parts DEF IInv, Control
<1> QED BY <1>6, <1>7

\* The connection is marked by shutdown().
LEMMA ShutdownStep ==
  ASSUME IInv, NEW c \in Names, shutdown(c)
  PROVE  IInv'
<1> DEFINE k == [conn[c] EXCEPT !.state = "kDisconnecting"]
<1>1. /\ UNCHANGED <<pool, next, connections, peer, pending, raced, crashed, lead>>
      /\ conn[c].events = "read" /\ conn' = [conn EXCEPT ![c] = k]
  BY DEF shutdown
<1>2. /\ conn \in [Names -> Connection]
      /\ TypeOK /\ FunctorsFindConnection /\ RegisteredAreLive
  BY DEF IInv, TypeOK
<1>3. /\ k \in Connection /\ k.loop = conn[c].loop /\ k.events = "read"
      /\ k.state = "kDisconnecting" /\ c \in connections
  BY <1>1, <1>2 DEF Connection, RegisteredAreLive
<1> HIDE DEF k
<1>4. /\ OnlyTouches(c) /\ conn' \in [Names -> Connection] /\ ConnectionsOK'
      /\ \A d \in Names : conn'[d].loop = conn[d].loop
  BY <1>1, <1>3, UpdateProperties
<1>5. FunctorsFindConnection'
  BY <1>1, <1>2, <1>4, ReadingHasNoFunctor, UntouchedFunctors
<1>6. TypeOK'
  BY <1>1, <1>2, <1>4 DEF TypeOK, pool
<1> QED BY <1>1, <1>4, <1>5, <1>6, Parts DEF IInv, Control, pool

\* The poller loses the entry of a connection.
LEMMA LoseEntryStep ==
  ASSUME IInv, NEW c \in Names, LoseEntry(c)
  PROVE  IInv'
<1> DEFINE k == [conn[c] EXCEPT !.events = "lost"]
<1>1. /\ UNCHANGED <<pool, next, connections, peer, pending, raced, crashed, lead>>
      /\ conn[c].events = "read" /\ conn' = [conn EXCEPT ![c] = k]
  BY DEF LoseEntry
<1>2. /\ conn \in [Names -> Connection]
      /\ TypeOK /\ FunctorsFindConnection /\ RegisteredAreLive
  BY DEF IInv, TypeOK
<1>3. c \in connections /\ conn[c].state \in {"kConnected", "kDisconnecting"}
  <2>1. /\ conn[c].events # "none"
        /\ conn[c].state \in {"kConnecting", "kConnected", "kDisconnecting", "kDisconnected"}
    BY <1>1, <1>2 DEF Connection
  <2> QED BY <1>2, <2>1 DEF RegisteredAreLive, IInv, Control
<1>4. /\ k \in Connection /\ k.loop = conn[c].loop /\ k.events = "lost"
      /\ k.state = conn[c].state
  BY <1>2 DEF Connection
<1> HIDE DEF k
<1>5. /\ OnlyTouches(c) /\ conn' \in [Names -> Connection] /\ ConnectionsOK'
      /\ \A d \in Names : conn'[d].loop = conn[d].loop
  BY <1>1, <1>3, <1>4, UpdateProperties
<1>6. FunctorsFindConnection'
  BY <1>1, <1>2, <1>5, ReadingHasNoFunctor, UntouchedFunctors
<1>7. TypeOK'
  BY <1>1, <1>2, <1>5 DEF TypeOK, pool
<1> QED BY <1>1, <1>5, <1>6, <1>7, Parts DEF IInv, Control, pool

\* The base thread erases a connection that no functor refers to.
LEMMA EraseStep ==
  ASSUME IInv, NEW c \in Names, Erase(c), NoFunctor(c),
         UNCHANGED <<pool, next, peer, pending, crashed, lead>>
  PROVE  IInv'
<1>1. TypeOK /\ FunctorsFindConnection
  BY DEF IInv
<1>2. /\ OnlyTouches(c) /\ ConnectionsOK'
      /\ conn' \in [Names -> Connection] /\ connections' \subseteq Names
      /\ raced' \subseteq Threads
      /\ \A d \in Names : conn'[d].loop = conn[d].loop
  BY EraseProperties
<1>3. FunctorsFindConnection'
  BY <1>1, <1>2, UntouchedFunctors
<1>4. TypeOK'
  BY <1>1, <1>2 DEF TypeOK, pool
<1> QED BY <1>2, <1>3, <1>4, Parts DEF IInv, Control, pool

\* A connection is found to be closed by its loop.
LEMMA HandleCloseStep ==
  ASSUME IInv, NEW c \in Names, handleClose(c)
  PROVE  IInv'
<1>1. /\ UNCHANGED <<pool, next, peer, crashed, lead>>
      /\ conn[c].events = "read"
  BY DEF handleClose
<1>2. /\ TypeOK /\ FunctorsFindConnection /\ RegisteredAreLive
      /\ conn \in [Names -> Connection]
  BY DEF IInv, TypeOK
<1>3. NoFunctor(c)
  BY <1>1, <1>2, ReadingHasNoFunctor
<1>4. CASE conn[c].loop = Base
  <2>1. Disabled(conn[c]).loop = Base
    BY <1>2, <1>4 DEF Disabled, Connection
  <2> QED BY <1>1, <1>3, <2>1, EraseStep DEF handleClose, removeConnection
<1>5. CASE conn[c].loop # Base
  <2> DEFINE k == Disabled(conn[c])
             f == [op |-> "removeConnectionInLoop", conn |-> c]
  <2>1. /\ conn' = [conn EXCEPT ![c] = k]
        /\ pending' = [pending EXCEPT ![Base] = Append(@, f)]
        /\ UNCHANGED <<connections, raced>>
    <3>1. k.loop # Base
      BY <1>2, <1>5 DEF Disabled, Connection
    <3> QED BY <3>1 DEF handleClose, removeConnection, Push
  <2>2. c \in connections /\ conn[c].state \in {"kConnected", "kDisconnecting"}
    <3>1. /\ conn[c].events # "none"
          /\ conn[c].state \in {"kConnecting", "kConnected", "kDisconnecting", "kDisconnected"}
      BY <1>1, <1>2 DEF Connection
    <3> QED BY <1>2, <3>1 DEF RegisteredAreLive, IInv, Control
  <2>3. /\ k \in Connection /\ k.loop = conn[c].loop /\ k.events = "disabled"
        /\ k.state = conn[c].state
    BY <1>2 DEF Disabled, Connection
  <2>4. f \in Functor /\ f.conn = c /\ f.op = "removeConnectionInLoop" /\ Base \in Loops
    BY DEF Functor, Loops
  <2> HIDE DEF k, f
  <2>5. /\ OnlyTouches(c) /\ conn' \in [Names -> Connection] /\ ConnectionsOK'
        /\ conn'[c] = k
        /\ \A d \in Names : conn'[d].loop = conn[d].loop
    BY <2>1, <2>2, <2>3, UpdateProperties
  <2>6. Expects(Base, f.op, k)
    BY <2>2, <2>3, <2>4 DEF Expects
  <2>7. FunctorsFindConnection' /\ pending' \in [Loops -> Seq(Functor)]
    BY <1>2, <1>3, <2>1, <2>2, <2>4, <2>5, <2>6, PushedFunctors, PushProperties
  <2>8. TypeOK'
    BY <1>1, <1>2, <2>1, <2>5, <2>7 DEF TypeOK, pool
  <2>9. numThreads # 0
    BY <1>5 DEF IInv, Control
  <2> QED BY <1>1, <2>5, <2>7, <2>8, <2>9, Parts DEF IInv, Control, pool
<1> QED BY <1>4, <1>5

\* A functor of loop l is called.
LEMMA CallFunctorStep ==
  ASSUME IInv, NEW l \in Loops, CallFunctor(l)
  PROVE  IInv'
<1> DEFINE f == Head(pending[l])
           c == f.conn
<1>1. /\ UNCHANGED <<pool, next, peer, crashed, lead>>
      /\ pending[l] # <<>> /\ pending' = [pending EXCEPT ![l] = Tail(@)]
  BY DEF CallFunctor
<1>2. /\ TypeOK /\ FunctorsFindConnection
      /\ conn \in [Names -> Connection]
  BY DEF IInv, TypeOK
<1>3. /\ c \in Names /\ c \in connections
      /\ Expects(l, f.op, conn[c])
      /\ pending' \in [Loops -> Seq(Functor)]
  <2>1. /\ f = pending[l][1] /\ 1 \in DOMAIN pending[l]
        /\ pending' \in [Loops -> Seq(Functor)]
    BY <1>1, <1>2, CallProperties
  <2>2. pending[l][1].conn \in Names
    BY <1>2, <2>1, FunctorTypes
  <2>3. /\ pending[l][1].conn \in connections
        /\ Expects(l, pending[l][1].op, conn[pending[l][1].conn])
    BY <1>2, <2>1 DEF FunctorsFindConnection
  <2> QED BY <2>1, <2>2, <2>3
<1>4. numThreads # 0
  BY <1>1 DEF IInv, Control
<1>5. CASE f.op = "connectEstablished"
  <2> DEFINE k == connectEstablished(conn[c])
  <2>1. conn' = [conn EXCEPT ![c] = k] /\ UNCHANGED <<connections, raced>>
    BY <1>5 DEF CallFunctor
  <2>2. /\ k \in Connection /\ k.loop = conn[c].loop /\ k.events = "read"
        /\ k.state = "kConnected"
    BY <1>2, <1>3 DEF connectEstablished, Connection
  <2> HIDE DEF k, c, f
  <2>3. /\ OnlyTouches(c) /\ conn' \in [Names -> Connection] /\ ConnectionsOK'
    BY <1>3, <2>1, <2>2, UpdateProperties
  <2> USE DEF c, f
  <2>4. FunctorsFindConnection'
    BY <1>1, <1>2, <2>3, CalledFunctors
  <2>5. TypeOK'
    BY <1>1, <1>2, <1>3, <2>1, <2>3 DEF TypeOK, pool
  <2> QED BY <1>1, <1>4, <2>3, <2>4, <2>5, Parts DEF IInv, Control, pool
<1>6. CASE f.op # "connectEstablished"
  <2>1. Erase(c)
    BY <1>6 DEF CallFunctor
  <2>2. /\ OnlyTouches(c) /\ ConnectionsOK'
        /\ conn' \in [Names -> Connection] /\ connections' \subseteq Names
        /\ raced' \subseteq Threads
    <3> HIDE DEF c
    <3> QED BY <1>3, <2>1, EraseProperties
  <2>3. FunctorsFindConnection'
    BY <1>1, <1>2, <2>2, CalledFunctors
  <2>4. TypeOK'
    BY <1>1, <1>2, <1>3, <2>2 DEF TypeOK, pool
  <2> QED BY <1>1, <1>4, <2>2, <2>3, <2>4, Parts DEF IInv, Control, pool
<1> QED BY <1>5, <1>6

LEMMA Invariance == Spec => []IInv
<1>1. Init => IInv
  <2> SUFFICES ASSUME Init PROVE IInv
    OBVIOUS
  <2> DEFINE k == Destroyed(NewConnection(Base))
  <2>1. k \in Connection /\ k.events = "none" /\ k.loop = Base
    BY DEF Destroyed, NewConnection, Connection, Loops
  <2>2. TypeOK
    <3>1. conn \in [Names -> Connection]
      <4>1. conn = [c \in Names |-> k]
        BY DEF Init
      <4> HIDE DEF k
      <4> QED BY <2>1, <4>1
    <3>2. pending \in [Loops -> Seq(Functor)]
      BY DEF Init
    <3>3. lead \in [Loops -> Nat] /\ thread \in [Threads -> {"none", "created", "ready", "looping"}]
      BY DEF Init
    <3>4. peer \in [Names -> {"open", "closed"}] /\ connections \subseteq Names /\ raced \subseteq Threads
      BY DEF Init
    <3>5. /\ numThreads \in 0..MaxThreads /\ loops \in 0..numThreads
          /\ next \in 0..MaxThreads /\ (next > 0 => next < loops)
      BY MaxThreadsAssumption DEF Init
    <3>6. pc = "user" /\ listenning \in BOOLEAN /\ crashed \in BOOLEAN
      BY DEF Init
    <3> QED BY <3>1, <3>2, <3>3, <3>4, <3>5, <3>6 DEF TypeOK
  <2>3. FunctorsFindConnection
    BY DEF Init, FunctorsFindConnection
  <2>4. RegisteredAreLive /\ Control
    BY <2>1 DEF Init, RegisteredAreLive, Control
  <2> QED BY <2>2, <2>3, <2>4 DEF IInv
<1>2. IInv /\ [Next]_vars => IInv'
  <2> SUFFICES ASSUME IInv, [Next]_vars PROVE IInv'
    OBVIOUS
  <2>1. ASSUME \/ StartStep \/ Spurious
               \/ \E i \in Threads : ThreadStep(i)
        PROVE  IInv'
    <3>1. UNCHANGED <<next, connections, conn, peer, pending, raced, crashed, lead>>
      BY <2>1 DEF StartStep, Spurious, ThreadStep
    <3>2. /\ UNCHANGED numThreads
          /\ pc' \in {"user", "pool", "test", "waiting", "loop"}
          /\ thread' \in [Threads -> {"none", "created", "ready", "looping"}]
          /\ loops' \in 0..numThreads /\ loops <= loops'
          /\ listenning' \in BOOLEAN
          /\ pc' \in {"test", "waiting"} => loops' < numThreads
      BY <2>1, PoolTypes DEF StartStep, Spurious, ThreadStep
    <3>3. TypeOK'
      BY <3>1, <3>2, MaxThreadsAssumption DEF IInv, TypeOK
    <3> QED BY <3>1, <3>2, <3>3, QuietStep, Parts
  <2>2. ASSUME UNCHANGED vars \/ acceptFails \/ Crash \/ (\E c \in Names : PeerCloses(c))
        PROVE  IInv'
    <3>1. UNCHANGED <<pool, next, connections, conn, pending, raced, lead>>
      BY <2>2 DEF vars, acceptFails, Crash, PeerCloses
    <3>2. peer' \in [Names -> {"open", "closed"}] /\ crashed' \in BOOLEAN
      BY <2>2 DEF IInv, TypeOK, vars, acceptFails, Crash, PeerCloses
    <3>3. TypeOK'
      BY <3>1, <3>2 DEF IInv, TypeOK, pool
    <3> QED BY <3>1, <3>3, QuietStep, Parts DEF IInv, Control, pool
  <2>3. ASSUME NEW c \in Names, removeConn(c)
        PROVE  IInv'
    <3>1. NoFunctor(c)
      BY <2>3 DEF removeConn, IInv, Control, NoFunctor
    <3> QED BY <2>3, <3>1, EraseStep DEF removeConn
  <2> QED
    BY <2>1, <2>2, <2>3, NewConnectionStep, ShutdownStep, HandleCloseStep, CallFunctorStep,
       LoseEntryStep
    DEF Next
<1> QED BY <1>1, <1>2, PTL DEF Spec

\* The variables keep their types; next_ never points behind the pool's loops.
THEOREM ServerTypeInvariance == Spec => []TypeOK
<1>1. IInv => TypeOK
  BY DEF IInv
<1> QED BY <1>1, Invariance, PTL

\* No functor is called for a connection that was destroyed meanwhile, or that is not
\* in the state its asserts demand, and no connection is removed twice.
THEOREM FunctorsFindConnectionTheorem == Spec => []FunctorsFindConnection
<1>1. IInv => FunctorsFindConnection
  BY DEF IInv
<1> QED BY <1>1, Invariance, PTL

\* No loop has registered the channel of a destroyed connection.
THEOREM RegisteredAreLiveTheorem == Spec => []RegisteredAreLive
<1>1. IInv => RegisteredAreLive
  BY DEF IInv
<1> QED BY <1>1, Invariance, PTL
-----------------------------------------------------------------------------

\* The loops that are ahead are the ones before next_, and the pool does not change once
\* connections are accepted.
LeadsByTurn ==
  /\ pc = "loop" => loops = numThreads
  /\ lead = [l \in Loops |-> IF l \in 1..next THEN 1 ELSE 0]

LEMMA AcceptedInTurn ==
  ASSUME IInv, LeadsByTurn, NEW c \in Names, newConnection(c)
  PROVE  LeadsByTurn'
<1>1. /\ UNCHANGED <<numThreads, pc, loops>>
      /\ pc = "loop" /\ loops = numThreads
      /\ Advance /\ lead' = LeadWith(getNextLoop)
  BY DEF newConnection, pool, LeadsByTurn
<1>2. /\ numThreads \in Nat /\ numThreads <= MaxThreads /\ MaxThreads \in Nat
      /\ next \in Nat /\ (next > 0 => next < loops)
      /\ lead = [l \in Loops |-> IF l \in 1..next THEN 1 ELSE 0]
  BY MaxThreadsAssumption DEF IInv, TypeOK, LeadsByTurn
<1> DEFINE counts == [lead EXCEPT ![getNextLoop] = @ + 1]
<1>3. lead' = IF \A m \in Takers : counts[m] > 0
              THEN [m \in Loops |-> IF m \in Takers THEN counts[m] - 1 ELSE 0]
              ELSE counts
  BY <1>1 DEF LeadWith
<1>4. CASE numThreads = 0
  <2>1. next = 0 /\ next' = 0 /\ getNextLoop = Base /\ Takers = {Base} /\ Base \in Loops
    BY <1>1, <1>2, <1>4 DEF Advance, getNextLoop, Takers, Loops
  <2>2. \A l \in Loops : lead[l] = 0
    BY <1>2, <2>1
  <2>3. counts = [l \in Loops |-> IF l = Base THEN 1 ELSE 0]
    BY <1>2, <2>1, <2>2
  <2> HIDE DEF counts
  <2>4. lead' = [m \in Loops |-> 0]
    BY <1>3, <2>1, <2>3
  <2> QED BY <1>1, <2>1, <2>4 DEF LeadsByTurn
<1>5. CASE numThreads # 0
  <2> DEFINE n == next + 1
  <2>1. /\ getNextLoop = n /\ n \in 1..numThreads /\ Takers = 1..numThreads
        /\ next' = IF n >= numThreads THEN 0 ELSE n
    BY <1>1, <1>2, <1>5 DEF Advance, NextIndex, getNextLoop, Takers
  <2>2. Takers \subseteq Loops /\ n \in Loops
    BY <1>2, <2>1 DEF Loops, Threads
  <2>3. counts = [l \in Loops |-> IF l \in 1..n THEN 1 ELSE 0]
    <3>1. counts = [l \in Loops |-> IF l = n THEN lead[l] + 1 ELSE lead[l]]
      BY <1>2, <2>1, <2>2
    <3>2. \A l \in Loops : l \in Int
      BY DEF Loops, Threads, Base
    <3> HIDE DEF counts
    <3>3. \A l \in Loops : counts[l] = IF l \in 1..n THEN 1 ELSE 0
      BY <1>2, <3>1, <3>2
    <3> QED BY <3>1, <3>3
  <2> HIDE DEF counts
  <2>4. CASE n = numThreads
    <3>1. \A m \in Takers : counts[m] = 1
      BY <2>1, <2>2, <2>3, <2>4
    <3>2. lead' = [m \in Loops |-> 0]
      BY <1>3, <3>1
    <3> QED BY <1>1, <1>2, <2>1, <2>4, <3>2 DEF LeadsByTurn
  <2>5. CASE n # numThreads
    <3>1. numThreads \in Takers /\ counts[numThreads] = 0
      BY <1>2, <1>5, <2>1, <2>2, <2>3, <2>5
    <3>2. lead' = counts /\ next' = n
      BY <1>2, <1>3, <2>1, <2>5, <3>1
    <3> QED BY <1>1, <2>3, <3>2 DEF LeadsByTurn
  <2> QED BY <2>4, <2>5
<1> QED BY <1>4, <1>5

\* However many connections come and go, no loop of the pool is given two more than
\* another.
THEOREM BalancedTheorem == Spec => []Balanced
<1>1. Init => LeadsByTurn
  <2> SUFFICES ASSUME Init PROVE LeadsByTurn
    OBVIOUS
  <2>1. next = 0 /\ lead = [l \in Loops |-> 0] /\ pc = "user"
    BY DEF Init
  <2> QED BY <2>1 DEF LeadsByTurn
<1>2. IInv /\ LeadsByTurn /\ [Next]_vars => LeadsByTurn'
  <2> SUFFICES ASSUME IInv, LeadsByTurn, [Next]_vars PROVE LeadsByTurn'
    OBVIOUS
  <2>1. ASSUME StartStep \/ Spurious \/ \E i \in Threads : ThreadStep(i)
        PROVE  LeadsByTurn'
    <3>1. UNCHANGED <<next, lead, numThreads>>
      BY <2>1, PoolTypes DEF StartStep, Spurious, ThreadStep
    <3>2. pc' = "loop" => loops' = numThreads
      BY <2>1
      DEF StartStep, Spurious, ThreadStep, start, startLoop, AwaitLoop, listen,
          SpuriousWakeup, threadFunc, EnterLoop, LeadsByTurn
    <3> QED BY <3>1, <3>2 DEF LeadsByTurn
  <2>2. ASSUME UNCHANGED <<pool, next, lead>>
        PROVE  LeadsByTurn'
    BY <2>2 DEF LeadsByTurn, pool
  <2>3. ASSUME \/ acceptFails \/ Crash
               \/ \E l \in Loops : CallFunctor(l)
               \/ \E c \in Names : \/ PeerCloses(c) \/ shutdown(c)
                                   \/ handleClose(c) \/ removeConn(c) \/ LoseEntry(c)
               \/ UNCHANGED vars
        PROVE  LeadsByTurn'
    BY <2>2, <2>3
    DEF acceptFails, Crash, CallFunctor, PeerCloses, shutdown, handleClose, removeConn,
        LoseEntry, vars
  <2> QED BY <2>1, <2>3, AcceptedInTurn DEF Next
<1>3. LeadsByTurn => Balanced
  BY DEF LeadsByTurn, Balanced
<1> QED BY <1>1, <1>2, <1>3, Invariance, PTL DEF Spec
=============================================================================
