------------------------------ MODULE TcpServer ------------------------------
(***************************************************************************)
(* cppnetool::net::TcpServer with its Acceptor and its pool of threads:    *)
(* the start of the pool, the connections handed to its loops in turn, and *)
(* the way of a closed connection from its loop back to the map of the     *)
(* base loop.                                                              *)
(*                                                                         *)
(* Every loop is a FIFO executor (LoopExecutor, which EventLoop is shown   *)
(* to implement), and runInLoop calls at once on the loop's own thread.    *)
(* Loop 0 is the base loop; loop i is the one of the i-th thread.  The     *)
(* names of connections are used again when nothing refers to them: in the *)
(* code they are numbered.  An entry of the map that holds no pointer      *)
(* (getConn and removeConn leave one under a name that is gone) is not     *)
(* kept.                                                                   *)
(*                                                                         *)
(* connectDestroyed runs on the base thread and changes the poller of the  *)
(* connection's loop, while the thread of that loop may be using it.  A    *)
(* loop this has happened to may see events of sockets that have none,     *)
(* lose the entries of sockets it has, or crash the program.  Users call   *)
(* removeConn, which destroys under the feet of the other loop in any      *)
(* case, only when the server has no threads (as proxy/Session does).      *)
(***************************************************************************)
EXTENDS Integers, Sequences

CONSTANTS
  Names,      \* of connections
  MaxThreads  \* bound: the largest number given to setThreadNum

ASSUME MaxThreadsAssumption == MaxThreads \in Nat

VARIABLES
  numThreads,   \* numThreads_ of the pool, set before start()
  pc,           \* where the base thread is
  thread,       \* where each EventLoopThread is; "ready" and "looping" have set loop_
  loops,        \* the number of entries of loops_
  next,         \* next_ of the pool
  listenning,   \* listenning_ of the acceptor
  connections,  \* the map: the names that have a connection
  conn,         \* the connection of each name, or the last one it had
  peer,         \* whether the other end of each connection is open
  pending,      \* the functors waiting in each loop
  raced,        \* the loops whose poller another thread has changed
  crashed,      \* the program is gone
  lead          \* history: by how many connections each loop is ahead of the last

pool   == <<numThreads, pc, thread, loops, listenning>>
vars   == <<pool, next, connections, conn, peer, pending, raced, crashed, lead>>

Base    == 0
Threads == 1..MaxThreads
Loops   == {Base} \cup Threads

Functor == [op : {"connectEstablished", "removeConnectionInLoop"}, conn : Names]

\* A connection: events is the interest of its channel, "none" while the poller does not
\* have the channel, "lost" when the poller has the channel but no entry that poll() sees.
Connection ==
  [state  : {"kConnecting", "kConnected", "kDisconnecting", "kDisconnected"},
   loop   : Loops,
   events : {"none", "disabled", "read", "lost"}]

TypeOK ==
  /\ numThreads \in 0..MaxThreads
  /\ pc \in {"user", "pool", "test", "waiting", "loop"}
  /\ thread \in [Threads -> {"none", "created", "ready", "looping"}]
  /\ loops \in 0..numThreads
  /\ next \in 0..MaxThreads
  /\ next > 0 => next < loops
  /\ listenning \in BOOLEAN
  /\ connections \subseteq Names
  /\ conn \in [Names -> Connection]
  /\ peer \in [Names -> {"open", "closed"}]
  /\ pending \in [Loops -> Seq(Functor)]
  /\ raced \subseteq Threads
  /\ crashed \in BOOLEAN
  /\ lead \in [Loops -> Nat]

NewConnection(l) == [state |-> "kConnecting", loop |-> l, events |-> "none"]

\* A connection that was destroyed: its channel is in no poller.
Destroyed(k) == [k EXCEPT !.state = "kDisconnected", !.events = "none"]

Init ==
  /\ numThreads \in 0..MaxThreads
  /\ pc = "user"
  /\ thread = [i \in Threads |-> "none"]
  /\ loops = 0
  /\ next = 0
  /\ listenning = FALSE
  /\ connections = {}
  /\ conn = [c \in Names |-> Destroyed(NewConnection(Base))]
  /\ peer = [c \in Names |-> "open"]
  /\ pending = [l \in Loops |-> <<>>]
  /\ raced = {}
  /\ crashed = FALSE
  /\ lead = [l \in Loops |-> 0]

-----------------------------------------------------------------------------
(* start(): one EventLoopThread after the other, then the acceptor.        *)

start ==
  /\ pc = "user"
  /\ pc' = "pool"
  /\ UNCHANGED <<numThreads, thread, loops, listenning>>

\* startLoop, up to the lock.
startLoop ==
  /\ pc = "pool"
  /\ loops < numThreads
  /\ thread' = [thread EXCEPT ![loops + 1] = "created"]
  /\ pc' = "test"
  /\ UNCHANGED <<numThreads, loops, listenning>>

\* Mutant: startLoop waits without looking at loop_.
MustWait_Always == TRUE

\* loop_ is NULL.
MustWait == thread[loops + 1] = "created"

\* The test of the while loop, under the lock that cond_.wait() gives back.
AwaitLoop ==
  /\ pc = "test"
  /\ IF MustWait
     THEN pc' = "waiting" /\ UNCHANGED loops
     ELSE pc' = "pool" /\ loops' = loops + 1
  /\ UNCHANGED <<numThreads, thread, listenning>>

\* pthread_cond_wait may return without a signal.
SpuriousWakeup ==
  /\ pc = "waiting"
  /\ pc' = "test"
  /\ UNCHANGED <<numThreads, thread, loops, listenning>>

\* threadFunc, under the lock: loop_ is set and the condition signalled.
threadFunc(i) ==
  /\ thread[i] = "created"
  /\ thread' = [thread EXCEPT ![i] = "ready"]
  /\ pc' = IF pc = "waiting" /\ i = loops + 1 THEN "test" ELSE pc
  /\ UNCHANGED <<numThreads, loops, listenning>>

\* The rest of threadFunc: loop().
EnterLoop(i) ==
  /\ thread[i] = "ready"
  /\ thread' = [thread EXCEPT ![i] = "looping"]
  /\ UNCHANGED <<numThreads, pc, loops, listenning>>

\* The end of start(), on the base thread: Acceptor::listen.  The user calls loop().
listen ==
  /\ pc = "pool"
  /\ loops = numThreads
  /\ listenning' = TRUE
  /\ pc' = "loop"
  /\ UNCHANGED <<numThreads, thread, loops>>

StartStep ==
  /\ start \/ startLoop \/ AwaitLoop \/ listen
  /\ UNCHANGED <<next, connections, conn, peer, pending, raced, crashed, lead>>

ThreadStep(i) ==
  /\ threadFunc(i) \/ EnterLoop(i)
  /\ UNCHANGED <<next, connections, conn, peer, pending, raced, crashed, lead>>

Spurious ==
  /\ SpuriousWakeup
  /\ UNCHANGED <<next, connections, conn, peer, pending, raced, crashed, lead>>

Looping(l) == IF l = Base THEN pc = "loop" ELSE thread[l] = "looping"

-----------------------------------------------------------------------------
(* A connection is accepted.                                               *)

\* Mutant: next_ is reset too early.
NextIndex_Early == IF next + 2 >= loops THEN 0 ELSE next + 1

NextIndex == IF next + 1 >= loops THEN 0 ELSE next + 1

\* getNextLoop: the loop, and what becomes of next_.
getNextLoop == IF loops = 0 THEN Base ELSE next + 1

Advance == next' = IF loops = 0 THEN next ELSE NextIndex

\* Mutant: the channel is not enabled.
connectEstablished_NotReading(k) == [k EXCEPT !.state = "kConnected"]

connectEstablished(k) == [k EXCEPT !.state = "kConnected", !.events = "read"]

\* The loops that take connections, and their leads after one more for l.
Takers == IF numThreads = 0 THEN {Base} ELSE 1..numThreads

LeadWith(l) ==
  LET counts == [lead EXCEPT ![l] = @ + 1]
  IN  IF \A m \in Takers : counts[m] > 0
      THEN [m \in Loops |-> IF m \in Takers THEN counts[m] - 1 ELSE 0]
      ELSE counts

\* Nothing refers to the name.
Free(c) ==
  /\ c \notin connections
  /\ \A l \in Loops : \A i \in DOMAIN pending[l] : pending[l][i].conn # c

Push(l, f, c) == pending' = [pending EXCEPT ![l] = Append(@, [op |-> f, conn |-> c])]

\* Acceptor::handleRead and newConnection.
newConnection(c) ==
  /\ pc = "loop" /\ listenning
  /\ Free(c)
  /\ connections' = connections \cup {c}
  /\ peer' = [peer EXCEPT ![c] = "open"]
  /\ Advance
  /\ lead' = LeadWith(getNextLoop)
  /\ LET new == NewConnection(getNextLoop)
     IN  IF new.loop = Base
         THEN /\ conn' = [conn EXCEPT ![c] = connectEstablished(new)]
              /\ UNCHANGED pending
         ELSE /\ conn' = [conn EXCEPT ![c] = new]
              /\ Push(new.loop, "connectEstablished", c)
  /\ UNCHANGED <<pool, raced, crashed>>

\* sockets::accept fails with an error the code does not expect: LOG_FATAL aborts.
\* (After an expected one handleRead does nothing.)
acceptFails ==
  /\ pc = "loop" /\ listenning
  /\ crashed' = TRUE
  /\ UNCHANGED <<pool, next, connections, conn, peer, pending, raced, lead>>

-----------------------------------------------------------------------------
(* A connection ends.                                                      *)

\* The peer closes or resets the connection.
PeerCloses(c) ==
  /\ c \in connections
  /\ peer[c] = "open"
  /\ peer' = [peer EXCEPT ![c] = "closed"]
  /\ UNCHANGED <<pool, next, connections, conn, pending, raced, crashed, lead>>

\* A message callback calls shutdown().
shutdown(c) ==
  /\ Looping(conn[c].loop)
  /\ conn[c].events = "read"
  /\ conn[c].state = "kConnected"
  /\ conn' = [conn EXCEPT ![c].state = "kDisconnecting"]
  /\ UNCHANGED <<pool, next, connections, peer, pending, raced, crashed, lead>>

\* Mutant: the channel stays in the poller.
connectDestroyed_Registered(k) == [k EXCEPT !.state = "kDisconnected"]

connectDestroyed(k) == Destroyed(k)

\* removeConnectionInLoop, and what matters here of removeConn: the erased pointer
\* is the last one.  The base thread changes the poller of the connection's loop.
Erase(c) ==
  /\ conn' = [conn EXCEPT ![c] = connectDestroyed(@)]
  /\ connections' = connections \ {c}
  /\ raced' = raced \cup ({conn[c].loop} \ {Base})

\* Mutant: handleClose leaves the channel as it is.
Disabled_Not(k) == k

\* disableAll() of a channel.
Disabled(k) == [k EXCEPT !.events = "disabled"]

\* TcpServer::removeConnection, of a connection that has become k: at once on the base
\* loop, by a functor from another one.
removeConnection(c, k) ==
  IF k.loop = Base
  THEN Erase(c) /\ UNCHANGED pending
  ELSE /\ conn' = [conn EXCEPT ![c] = k]
       /\ Push(Base, "removeConnectionInLoop", c)
       /\ UNCHANGED <<connections, raced>>

\* poll() of the loop reports the end, or makes it up; handleRead or handleEvent calls
\* handleClose.
handleClose(c) ==
  LET l == conn[c].loop
  IN  /\ Looping(l)
      /\ conn[c].events = "read"
      /\ peer[c] = "closed" \/ l \in raced
      /\ removeConnection(c, Disabled(conn[c]))
      /\ UNCHANGED <<pool, next, peer, crashed, lead>>

\* The user ends a connection of a server without threads.
removeConn(c) ==
  /\ numThreads = 0
  /\ c \in connections
  /\ Erase(c)
  /\ UNCHANGED <<pool, next, peer, pending, crashed, lead>>

-----------------------------------------------------------------------------
(* The loops.                                                              *)

\* Loop l calls the functor that has waited longest.
CallFunctor(l) ==
  /\ Looping(l)
  /\ pending[l] # <<>>
  /\ pending' = [pending EXCEPT ![l] = Tail(@)]
  /\ LET f == Head(pending[l])
     IN  \/ /\ f.op = "connectEstablished"
            /\ conn' = [conn EXCEPT ![f.conn] = connectEstablished(@)]
            /\ UNCHANGED <<connections, raced>>
         \/ /\ f.op = "removeConnectionInLoop"
            /\ Erase(f.conn)
  /\ UNCHANGED <<pool, next, peer, crashed, lead>>

\* What the race on a poller may come to, besides an end that handleClose makes up.
Crash ==
  /\ raced # {}
  /\ crashed' = TRUE
  /\ UNCHANGED <<pool, next, connections, conn, peer, pending, raced, lead>>

\* removeChannel's pop_back meets the loop's push_back, or its swap a poll(): no entry is
\* left for the channel, or one with another interest.
LoseEntry(c) ==
  /\ conn[c].loop \in raced
  /\ conn[c].events = "read"
  /\ conn' = [conn EXCEPT ![c].events = "lost"]
  /\ UNCHANGED <<pool, next, connections, peer, pending, raced, crashed, lead>>

Next ==
  /\ ~crashed
  /\ \/ StartStep \/ Spurious
     \/ \E i \in Threads : ThreadStep(i)
     \/ \E l \in Loops : CallFunctor(l)
     \/ \E c \in Names : newConnection(c) \/ PeerCloses(c) \/ shutdown(c)
                           \/ handleClose(c) \/ removeConn(c) \/ LoseEntry(c)
     \/ acceptFails \/ Crash

Spec == Init /\ [][Next]_vars

\* Every thread goes on, poll() reports a close again until it is handled (if it still has
\* the entry), and functors are called (RemoteFunctorIsCalled of EventLoop).  Nobody has
\* to connect or to close, and no wakeup has to be spurious.
Fairness ==
  /\ WF_vars(~crashed /\ StartStep)
  /\ \A i \in Threads : WF_vars(~crashed /\ ThreadStep(i))
  /\ \A l \in Loops : WF_vars(~crashed /\ CallFunctor(l))
  /\ \A c \in Names : WF_vars(~crashed /\ handleClose(c))

FairSpec == Spec /\ Fairness

-----------------------------------------------------------------------------
(* Properties.                                                             *)

\* The state in which a functor of loop l expects its connection: what the asserts of
\* connectEstablished and connectDestroyed say, and no event to come from the poller.
Expects(l, op, k) ==
  \/ /\ op = "connectEstablished"
     /\ k = NewConnection(l)
  \/ /\ op = "removeConnectionInLoop"
     /\ l = Base
     /\ k.state \in {"kConnected", "kDisconnecting"}
     /\ k.events = "disabled"

\* The functor that removes a connection holds a bare pointer, the one that establishes it
\* comes first: whatever two loops do while one waits, it finds its
\* connection in the map (n == 1 after the erase) as it expects it, and is the only
\* functor for it.
FunctorsFindConnection ==
  \A l \in Loops : \A i \in DOMAIN pending[l] :
    LET f == pending[l][i]
    IN  /\ f.conn \in connections
        /\ Expects(l, f.op, conn[f.conn])
        /\ \A m \in Loops : \A j \in DOMAIN pending[m] :
             pending[m][j].conn = f.conn => <<m, j>> = <<l, i>>

\* The loops have registered the channels of the connections that are established and in
\* the map, and no others: none of a connection that was destroyed, whose events would be
\* events of a freed object, and none that was erased before its own loop came to it.
\* (What a race leaves in the poller of a channel that is registered is another question.)
RegisteredAreLive ==
  \A c \in Names :
    conn[c].events # "none" <=> (c \in connections /\ conn[c].state # "kConnecting")

\* "new connections are assigned on a round-robin basis": no loop is ever two
\* connections ahead of another.
Balanced == \A l \in Loops : lead[l] <= 1

\* start() ends, whichever of the two threads of each startLoop is first, and the server
\* listens.
Serves == (pc # "user") ~> listenning

\* A connection whose peer closed it, at any time after it was accepted, leaves the map,
\* with its socket: its way from the base loop to its own and back ends nowhere else than
\* in the race on the poller of its loop, which may crash the program or lose the entry of
\* the connection, that then stays in the map for good.
ClosedIsErased ==
  \A c \in Names : (c \in connections /\ peer[c] = "closed")
                      ~> (c \notin connections \/ crashed \/ conn[c].events = "lost")
=============================================================================
