----------------------------- MODULE TimerQueue -----------------------------
(***************************************************************************)
(* cppnetool::net::TimerQueue: the timers of one EventLoop.  Timers are    *)
(* objects on the heap, known to the queue by their address in timers_ and *)
(* activeTimers_ and to the user by a TimerId, an address and a sequence   *)
(* number; addresses are used again.  The loop thread works on the queue   *)
(* directly, other threads through functors the loop thread runs later, in *)
(* the order they were pushed (see EventLoop).                             *)
(*                                                                         *)
(* Time counts in units of the shortest delay the code arms the timerfd    *)
(* with (100 microseconds).  The wall clock, which expirations are on, and *)
(* the monotonic clock of the timerfd advance together.                    *)
(***************************************************************************)
EXTENDS Integers, Sequences, FiniteSetsExt

CONSTANTS
  Addresses,  \* addresses `new Timer' may return
  Callers,    \* the threads other than the loop's
  Intervals,  \* intervals of timers that repeat (one of less than a unit is 0)
  Whens,      \* times timers are asked for: 0 is invalid, others past or future
  MaxTime,    \* bound: the clock stops here
  MaxTimers,  \* bound: the number of timers ever created
  MaxPending  \* bound: the number of functors waiting in the loop

ASSUME IntervalsAssumption == Intervals \subseteq Nat
ASSUME WhensAssumption == Whens \subseteq 0..MaxTime
ASSUME BoundsAssumption ==
  MaxTime \in Nat \ {0} /\ MaxTimers \in Nat /\ MaxPending \in Nat

VARIABLES
  heap,                  \* the Timer at each address, or Freed
  numCreated,            \* Timer::s_numCreated_
  timers,                \* timers_: pairs of an expiration and an address
  activeTimers,          \* activeTimers_: pairs of an address and a sequence
  cancelingTimers,       \* likewise
  callingExpiredTimers,
  expired,               \* the local variable of handleRead: entries of timers_
  toRun,                 \* those of expired still to be called
  started,               \* handleRead's now
  pc,                    \* where the loop thread is in handleRead
  timerfd,               \* when the timerfd becomes readable, or Disarmed
  now,                   \* the clock
  pendingFunctors,       \* calls other threads have handed to the loop
  adding,                \* per thread: the timer it has just handed over, or None
  ids,                   \* TimerIds the user has been given
  asked,                 \* history: TimerIds given to cancelInLoop
  cancelled,             \* history: those that the queue then held
  wrongId                \* history: addTimer returned some other timer's id

queue   == <<timers, activeTimers, cancelingTimers, callingExpiredTimers>>
batch   == <<expired, toRun, started, pc>>
remote  == <<pendingFunctors, adding>>
history == <<asked, cancelled>>
vars    == <<heap, numCreated, queue, batch, timerfd, now, remote, ids, history,
             wrongId>>

Freed    == [sequence |-> 0, expiration |-> 0, interval |-> -1]
Disarmed == 0
None     == <<>>
NoRepeat == -1  \* the interval of a timer with repeat_ = false

Timer == [sequence : Nat \ {0}, expiration : Nat, interval : Intervals \cup {NoRepeat}]

Entry   == Nat \X Addresses
TimerId == Addresses \X Nat

TypeOK ==
  /\ heap \in [Addresses -> Timer \cup {Freed}]
  /\ numCreated \in 0..MaxTimers
  /\ timers \subseteq Entry
  /\ activeTimers \subseteq TimerId
  /\ cancelingTimers \subseteq TimerId
  /\ callingExpiredTimers \in BOOLEAN
  /\ expired \subseteq Entry
  /\ toRun \subseteq expired
  /\ started \in 0..now
  /\ pc \in {"loop", "expired", "callback"}
  /\ now \in 1..MaxTime
  /\ timerfd \in Nat \ {1}
  /\ pendingFunctors \in Seq([op : {"add", "cancel"}, id : TimerId])
  /\ adding \in [Callers -> TimerId \cup {None}]
  /\ ids \subseteq TimerId
  /\ asked \subseteq TimerId
  /\ cancelled \subseteq asked
  /\ wrongId \in BOOLEAN

\* The constructor leaves callingExpiredTimers_ without a value.
Init ==
  /\ heap = [a \in Addresses |-> Freed]
  /\ numCreated = 0
  /\ timers = {}
  /\ activeTimers = {}
  /\ cancelingTimers = {}
  /\ callingExpiredTimers \in BOOLEAN
  /\ expired = {}
  /\ toRun = {}
  /\ started = 0
  /\ pc = "loop"
  /\ timerfd = Disarmed
  /\ now = 1
  /\ pendingFunctors = <<>>
  /\ adding = [t \in Callers |-> None]
  /\ ids = {}
  /\ asked = {}
  /\ cancelled = {}
  /\ wrongId = FALSE

-----------------------------------------------------------------------------
(* The timerfd and the sets.                                               *)

Live(a) == heap[a] # Freed

\* The ActiveTimer of the timer at address a, in heap h.
IdOf(h, a) == <<a, h[a].sequence>>

Id(a) == IdOf(heap, a)

IdsOf(entries) == {Id(e[2]) : e \in entries}

\* Timestamp::valid().
valid(when) == when > 0

\* The delay until a time, of which the shortest is 1.
howMuchTimeFromNow(when) == IF when - now < 1 THEN 1 ELSE when - now

\* When the timerfd becomes readable after it was set.
resetTimerfd(when) == now + howMuchTimeFromNow(when)

\* Mutant: only the first timer arms the timerfd.
EarliestChanged_OnlyFirst(when) == timers = {}

\* The result of insert(): the new timer is the first to expire.
EarliestChanged(when) == \A e \in timers : when < e[1]

Earliest(entries) == Min({e[1] : e \in entries})

-----------------------------------------------------------------------------
(* Adding.                                                                 *)

\* new Timer(cb, when, interval), at an address that is free.
NewTimer(when, interval) ==
  [sequence |-> numCreated + 1, expiration |-> when, interval |-> interval]

CanCreate(a) == ~Live(a) /\ numCreated < MaxTimers

\* insert(), of the timers at some addresses of heap h.
insert(h, addresses) ==
  /\ timers' = timers \cup {<<h[a].expiration, a>> : a \in addresses}
  /\ activeTimers' = activeTimers \cup {IdOf(h, a) : a \in addresses}

\* addTimerInLoop, of the timer at address a of heap h.
addTimerInLoop(h, a) ==
  LET when == h[a].expiration
  IN  /\ insert(h, {a})
      /\ timerfd' = IF EarliestChanged(when) THEN resetTimerfd(when) ELSE timerfd

\* The loop thread is in code of the user: in a timer's callback or, outside
\* handleRead, in some other handler of its loop.
InUserCode == pc \in {"loop", "callback"}

\* addTimer on the loop thread.
addTimer(a, when, interval) ==
  LET h == [heap EXCEPT ![a] = NewTimer(when, interval)]
  IN  /\ InUserCode
      /\ CanCreate(a)
      /\ heap' = h
      /\ numCreated' = numCreated + 1
      /\ addTimerInLoop(h, a)
      /\ ids' = ids \cup {IdOf(h, a)}
      /\ UNCHANGED <<cancelingTimers, callingExpiredTimers, batch, now, remote,
                     history, wrongId>>

\* addTimer on another thread, up to the return of runInLoop.
addTimerRemotely(t, a, when, interval) ==
  /\ adding[t] = None
  /\ CanCreate(a)
  /\ Len(pendingFunctors) < MaxPending
  /\ heap' = [heap EXCEPT ![a] = NewTimer(when, interval)]
  /\ numCreated' = numCreated + 1
  /\ adding' = [adding EXCEPT ![t] = <<a, numCreated + 1>>]
  /\ pendingFunctors' = Append(pendingFunctors,
                               [op |-> "add", id |-> <<a, numCreated + 1>>])
  /\ UNCHANGED <<queue, batch, timerfd, now, ids, history, wrongId>>

\* Its last line: timer->sequence() is read through the pointer, whatever has
\* become of the timer; a freed object may hold anything.
ReturnTimerId(t) ==
  /\ adding[t] # None
  /\ \E sequence \in 0..MaxTimers :
       LET a == adding[t][1]
       IN  /\ Live(a) => sequence = heap[a].sequence
           /\ ids' = ids \cup {<<a, sequence>>}
           /\ wrongId' = (wrongId \/ <<a, sequence>> # adding[t])
  /\ adding' = [adding EXCEPT ![t] = None]
  /\ UNCHANGED <<heap, numCreated, queue, batch, timerfd, now, pendingFunctors,
                 history>>

-----------------------------------------------------------------------------
(* Cancelling.                                                             *)

\* Mutant: a cancelled timer stays in timers_.
Unscheduled_Kept(id) == timers

\* timers_ without the timer of an active id.
Unscheduled(id) == timers \ {<<heap[id[1]].expiration, id[1]>>}

\* Mutant: activeTimers_ is searched for the address alone.
IsActive_AddressOnly(id) == \E other \in activeTimers : other[1] = id[1]

\* activeTimers_.find(timer) finds it.
IsActive(id) == id \in activeTimers

\* Mutant: the cancel of a timer that is just being called is forgotten.
Canceling_Forgotten(id) == cancelingTimers

\* What a cancel of a timer that is not active leaves for reset().
Canceling(id) ==
  IF callingExpiredTimers THEN cancelingTimers \cup {id} ELSE cancelingTimers

cancelInLoop(id) ==
  /\ IF IsActive(id)
     THEN /\ timers' = Unscheduled(id)
          /\ activeTimers' = {other \in activeTimers : other[1] # id[1]}
          /\ heap' = [heap EXCEPT ![id[1]] = Freed]
          /\ UNCHANGED cancelingTimers
     ELSE /\ cancelingTimers' = Canceling(id)
          /\ UNCHANGED <<timers, activeTimers, heap>>
  /\ asked' = asked \cup {id}
  /\ cancelled' = cancelled \cup ({id} \cap IdsOf(timers \cup expired))
  /\ UNCHANGED callingExpiredTimers

\* cancel on the loop thread.
cancel(id) ==
  /\ InUserCode
  /\ id \in ids
  /\ cancelInLoop(id)
  /\ UNCHANGED <<numCreated, batch, timerfd, now, remote, ids, wrongId>>

\* cancel on another thread.
cancelRemotely(t, id) ==
  /\ adding[t] = None
  /\ id \in ids
  /\ Len(pendingFunctors) < MaxPending
  /\ pendingFunctors' = Append(pendingFunctors, [op |-> "cancel", id |-> id])
  /\ UNCHANGED <<heap, numCreated, queue, batch, timerfd, now, adding, ids, history,
                 wrongId>>

\* The loop thread calls the functor that has waited longest.
CallFunctor ==
  /\ pc = "loop"
  /\ pendingFunctors # <<>>
  /\ pendingFunctors' = Tail(pendingFunctors)
  /\ LET functor == Head(pendingFunctors)
     IN  \/ /\ functor.op = "add"
            /\ addTimerInLoop(heap, functor.id[1])
            /\ UNCHANGED <<heap, cancelingTimers, callingExpiredTimers, history>>
         \/ /\ functor.op = "cancel"
            /\ cancelInLoop(functor.id)
            /\ UNCHANGED timerfd
  /\ UNCHANGED <<numCreated, batch, now, adding, ids, wrongId>>

-----------------------------------------------------------------------------
(* handleRead.                                                             *)

\* Up to the loop over the expired timers, getExpired() included.
HandleRead ==
  /\ pc = "loop"
  /\ timerfd # Disarmed
  /\ timerfd <= now
  /\ timerfd' = Disarmed
  /\ LET due == {e \in timers : e[1] <= now}
     IN  /\ expired' = due
         /\ toRun' = due
         /\ timers' = timers \ due
         /\ activeTimers' = activeTimers \ IdsOf(due)
  /\ started' = now
  /\ callingExpiredTimers' = TRUE
  /\ cancelingTimers' = {}
  /\ pc' = "expired"
  /\ UNCHANGED <<heap, numCreated, now, remote, ids, history, wrongId>>

\* it->second->run(), in order of expiration (the order of addresses is anyone's).
RunTimer ==
  /\ pc \in {"expired", "callback"}
  /\ \E e \in toRun :
       /\ e[1] = Earliest(toRun)
       /\ toRun' = toRun \ {e}
  /\ pc' = "callback"
  /\ UNCHANGED <<heap, numCreated, queue, expired, started, timerfd, now, remote, ids,
                 history, wrongId>>

\* The condition under which reset() starts an expired timer again.
Repeats(a) == heap[a].interval # NoRepeat /\ Id(a) \notin cancelingTimers

\* The timerfd when reset() has come to its end.
Rearmed(entries) ==
  IF entries # {} /\ valid(Earliest(entries))
  THEN resetTimerfd(Earliest(entries))
  ELSE timerfd

\* Timer::restart of a timer that repeats.
restart(timer) == [timer EXCEPT !.expiration = started + timer.interval]

\* reset() and the end of handleRead: expired timers are started again or deleted.
Reset ==
  /\ pc \in {"expired", "callback"}
  /\ toRun = {}
  /\ LET addresses == {e[2] : e \in expired}
         again     == {a \in addresses : Repeats(a)}
     IN  /\ heap' = [a \in Addresses |->
                       IF a \in again THEN restart(heap[a])
                       ELSE IF a \in addresses THEN Freed
                       ELSE heap[a]]
         /\ insert(heap', again)
         /\ timerfd' = Rearmed(timers')
  /\ callingExpiredTimers' = FALSE
  /\ expired' = {}
  /\ pc' = "loop"
  /\ UNCHANGED <<numCreated, cancelingTimers, toRun, started, now, remote, ids, history,
                 wrongId>>

\* Time passes.
Tick ==
  /\ now < MaxTime
  /\ now' = now + 1
  /\ UNCHANGED <<heap, numCreated, queue, batch, timerfd, remote, ids, history, wrongId>>

Next ==
  \/ \E a \in Addresses, when \in Whens, interval \in Intervals \cup {NoRepeat} :
       \/ addTimer(a, when, interval)
       \/ \E t \in Callers : addTimerRemotely(t, a, when, interval)
  \/ \E t \in Callers : ReturnTimerId(t)
  \/ \E id \in ids : cancel(id) \/ \E t \in Callers : cancelRemotely(t, id)
  \/ CallFunctor \/ HandleRead \/ RunTimer \/ Reset \/ Tick

Spec == Init /\ [][Next]_vars

-----------------------------------------------------------------------------
(* Properties.                                                             *)

\* The addresses that functors still to be called will add.
Pending == {pendingFunctors[i].id[1] :
              i \in {j \in DOMAIN pendingFunctors : pendingFunctors[j].op = "add"}}

Scheduled == {e[2] : e \in timers}
Expired   == {e[2] : e \in expired}

\* timers_ and activeTimers_ hold the same timers, each under the expiration and
\* the sequence number that the object has now: the asserts of sizes, of erase
\* and of insert hold.
SetsAgree ==
  /\ activeTimers = IdsOf(timers)
  /\ \A e \in timers : Live(e[2]) /\ heap[e[2]].expiration = e[1]
  /\ Cardinality(timers) = Cardinality(activeTimers)

\* Every Timer has one owner: a functor that will add it, the set timers_ or the
\* batch that is being called.  None is leaked, none is used after its delete
\* and none is deleted twice.
OneOwner ==
  /\ {a \in Addresses : Live(a)} = Pending \cup Scheduled \cup Expired
  /\ Pending \cap Scheduled = {}
  /\ Pending \cap Expired = {}
  /\ Scheduled \cap Expired = {}

\* No timer is forgotten: outside handleRead the timerfd is armed for the first
\* timer, or for the shortest delay if that is over already.
Armed ==
  pc = "loop" /\ timers # {}
    => /\ timerfd # Disarmed
       /\ timerfd <= Max({Earliest(timers), now + 1})

\* A timer that was cancelled while the queue held it, be it from its own callback
\* or from another one of the batch, is never scheduled again.  (A cancel on the
\* loop thread that overtakes the functor which is to add the timer is lost: the
\* queue does not hold the timer yet.)
CancelledStaysCancelled == \A e \in timers : Id(e[2]) \notin cancelled

\* A TimerId whose timer is gone never hits the timer that now lives at its
\* address: a timer goes only by a cancel of its own id or, if it does not
\* repeat, because it has been called.
OnlyOwnIdCancels ==
  [][\A a \in Addresses :
       Live(a) /\ heap'[a] # heap[a] =>
         \/ Id(a) \in asked'
         \/ a \in Expired /\ <<heap[a].expiration, a>> \notin toRun]_vars

\* "Must be thread safe.  Usually be called from other threads": addTimer returns
\* the id of the timer it has added.
ReturnsOwnId == ~wrongId
=============================================================================
