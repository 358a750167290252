-------------------------- MODULE TimerQueueProofs --------------------------
(***************************************************************************)
(* Proofs about TimerQueue, for any addresses, threads, intervals and      *)
(* bounds: the two sets agree, every timer has one owner, a cancelled      *)
(* timer is not scheduled again, the timerfd is armed for the first timer, *)
(* a timer goes only by its own id, and one that is called exists and is   *)
(* due.                                                                    *)
(***************************************************************************)
EXTENDS TimerQueue, FiniteSetTheorems, WellFoundedInduction, TLAPS

Call == [op : {"add", "cancel"}, id : TimerId]

\* The entry has the expiration that its timer has.
Matches(e) == Live(e[2]) /\ heap[e[2]].expiration = e[1]

\* The queue's two sets and the batch hold timers that exist.
Agree ==
  /\ activeTimers = IdsOf(timers)
  /\ \A e \in timers \cup expired : Matches(e)

IsAdd(i) == i \in DOMAIN pendingFunctors /\ pendingFunctors[i].op = "add"

\* A functor that will add a timer is the only one for it, and the timer is there.
AddsMatch ==
  /\ \A i \in DOMAIN pendingFunctors :
       IsAdd(i) => Id(pendingFunctors[i].id[1]) = pendingFunctors[i].id
  /\ \A i, j \in DOMAIN pendingFunctors :
       IsAdd(i) /\ IsAdd(j) /\ pendingFunctors[i].id[1] = pendingFunctors[j].id[1] => i = j

\* A cancelled timer that is still there is in the batch, and reset() will know.
CancelledGone ==
  \A id \in cancelled :
    /\ id[2] <= numCreated
    /\ Live(id[1]) /\ Id(id[1]) = id => id[1] \in Expired /\ id \in cancelingTimers

Sequences == \A a \in Addresses : heap[a].sequence <= numCreated

\* Only handleRead has a batch.
Control ==
  /\ pc = "loop" => expired = {}
  /\ pc # "loop" => callingExpiredTimers /\ started > 0

Finite == IsFiniteSet(timers) /\ IsFiniteSet(expired)

ArmedFor(e) == timerfd # Disarmed /\ (timerfd <= e[1] \/ timerfd <= now + 1)

\* Armed without minima.  During handleRead, reset() is still to arm the timerfd,
\* which it does not if the first timer was asked for an invalid time.
AllArmed == \A e \in timers : pc = "loop" \/ ~valid(e[1]) => ArmedFor(e)

IInv ==
  /\ TypeOK
  /\ Agree
  /\ OneOwner
  /\ AddsMatch
  /\ CancelledGone
  /\ Sequences
  /\ Control
  /\ Finite
  /\ AllArmed

-----------------------------------------------------------------------------
(* Timers, entries and ids.                                                *)

LEMMA ConstantTypes ==
  /\ MaxTime \in Nat \ {0} /\ MaxTimers \in Nat
  /\ NoRepeat = -1 /\ Intervals \subseteq Nat /\ Whens \subseteq Nat
BY IntervalsAssumption, WhensAssumption, BoundsAssumption DEF NoRepeat

LEMMA ClockTypes ==
  ASSUME TypeOK
  PROVE  now \in Nat /\ started \in Nat /\ numCreated \in Nat /\ timerfd \in Nat /\ now > 0
BY ConstantTypes DEF TypeOK

\* What is at an address.
LEMMA HeapProperties ==
  ASSUME TypeOK, NEW a \in Addresses
  PROVE  /\ heap[a].sequence \in Nat
         /\ heap[a].expiration \in Nat
         /\ heap[a].interval \in Intervals \cup {NoRepeat}
         /\ Live(a) <=> heap[a].sequence > 0
         /\ Live(a) => heap[a] \in Timer
<1>1. heap[a] \in Timer \/ heap[a] = Freed
  BY DEF TypeOK
<1>2. CASE heap[a] \in Timer
  BY <1>2 DEF Timer, Freed, Live
<1>3. CASE heap[a] = Freed
  BY <1>3 DEF Freed, Live, NoRepeat
<1> QED BY <1>1, <1>2, <1>3

LEMMA EntryProperties ==
  ASSUME NEW e \in Entry
  PROVE  e = <<e[1], e[2]>> /\ e[1] \in Nat /\ e[2] \in Addresses
BY DEF Entry

LEMMA IdProperties ==
  ASSUME NEW id \in TimerId
  PROVE  id = <<id[1], id[2]>> /\ id[1] \in Addresses /\ id[2] \in Nat
BY DEF TimerId

LEMMA QueuedTypes ==
  ASSUME TypeOK, NEW e \in timers \cup expired
  PROVE  e \in Entry /\ e = <<e[1], e[2]>> /\ e[1] \in Nat /\ e[2] \in Addresses
BY EntryProperties DEF TypeOK

LEMMA OwnerTypes ==
  ASSUME TypeOK
  PROVE  Scheduled \subseteq Addresses /\ Expired \subseteq Addresses
BY QueuedTypes DEF Scheduled, Expired

\* An address is in a set of entries with an entry of its own expiration.
LEMMA OneEntryEach ==
  ASSUME TypeOK, Agree, NEW e \in timers \cup expired, NEW f \in timers \cup expired,
         e[2] = f[2]
  PROVE  e = f
<1>1. e[1] = f[1]
  BY DEF Agree, Matches
<1> QED BY <1>1, QueuedTypes

\* An active id is that of a timer of the queue.
LEMMA ActiveProperties ==
  ASSUME Agree, NEW id \in TimerId
  PROVE  IsActive(id) <=> id[1] \in Scheduled /\ Id(id[1]) = id
<1>1. ASSUME IsActive(id)
      PROVE  id[1] \in Scheduled /\ Id(id[1]) = id
  <2>1. PICK e \in timers : id = Id(e[2])
    BY <1>1 DEF IsActive, Agree, IdsOf
  <2> QED BY <2>1 DEF Id, IdOf, Scheduled
<1>2. ASSUME id[1] \in Scheduled, Id(id[1]) = id
      PROVE  IsActive(id)
  <2>1. PICK e \in timers : e[2] = id[1]
    BY <1>2 DEF Scheduled
  <2> QED BY <1>2, <2>1 DEF IsActive, Agree, IdsOf
<1> QED BY <1>1, <1>2

\* The number of timers is the number of active ids.
LEMMA SameSizes ==
  ASSUME TypeOK, Agree, IsFiniteSet(timers)
  PROVE  Cardinality(timers) = Cardinality(activeTimers)
<1> DEFINE f == [e \in timers |-> Id(e[2])]
<1>1. f \in [timers -> activeTimers]
  BY DEF Agree, IdsOf
<1>2. ASSUME NEW d \in timers, NEW e \in timers, f[d] = f[e]
      PROVE  d = e
  <2>1. d[2] = e[2]
    BY <1>2 DEF Id, IdOf
  <2> QED BY <2>1, OneEntryEach
<1>3. \A id \in activeTimers : \E e \in timers : f[e] = id
  BY DEF Agree, IdsOf
<1>4. f \in Bijection(timers, activeTimers)
  BY <1>1, <1>2, <1>3 DEF Bijection, Injection, Surjection, IsInjective
<1> QED BY <1>4, FS_Bijection DEF ExistsBijection

\* Every owner has a timer.
LEMMA Owned ==
  ASSUME OneOwner, NEW a \in Addresses
  PROVE  Live(a) <=> a \in Pending \cup Scheduled \cup Expired
BY DEF OneOwner

-----------------------------------------------------------------------------
(* The functors.                                                           *)

\* What a functor refers to.
LEMMA FunctorTypes ==
  ASSUME TypeOK, NEW i \in DOMAIN pendingFunctors
  PROVE  /\ pendingFunctors[i] \in Call
         /\ pendingFunctors[i].id \in TimerId
         /\ pendingFunctors[i].op \in {"add", "cancel"}
<1>1. pendingFunctors \in Seq(Call)
  BY DEF TypeOK, Call
<1>2. pendingFunctors[i] \in Call
  BY <1>1
<1> QED BY <1>2 DEF Call

\* The addresses of functors, after one more was pushed.
LEMMA PushedAdds ==
  ASSUME TypeOK, NEW f \in Call, pendingFunctors' = Append(pendingFunctors, f)
  PROVE  /\ pendingFunctors' \in Seq(Call)
         /\ \A i \in DOMAIN pendingFunctors' :
              \/ i \in DOMAIN pendingFunctors /\ pendingFunctors'[i] = pendingFunctors[i]
              \/ i = Len(pendingFunctors) + 1 /\ pendingFunctors'[i] = f
         /\ Pending' = Pending \cup (IF f.op = "add" THEN {f.id[1]} ELSE {})
<1>1. pendingFunctors \in Seq(Call)
  BY DEF TypeOK, Call
<1>2. /\ pendingFunctors' \in Seq(Call)
      /\ Len(pendingFunctors) \in Nat
      /\ DOMAIN pendingFunctors = 1..Len(pendingFunctors)
      /\ DOMAIN pendingFunctors' = 1..Len(pendingFunctors) + 1
      /\ \A i \in DOMAIN pendingFunctors : pendingFunctors'[i] = pendingFunctors[i]
      /\ pendingFunctors'[Len(pendingFunctors) + 1] = f
  BY <1>1
<1>3. \A i \in DOMAIN pendingFunctors' :
        \/ i \in DOMAIN pendingFunctors /\ pendingFunctors'[i] = pendingFunctors[i]
        \/ i = Len(pendingFunctors) + 1 /\ pendingFunctors'[i] = f
  BY <1>2
<1>4. DOMAIN pendingFunctors \subseteq DOMAIN pendingFunctors'
      /\ Len(pendingFunctors) + 1 \in DOMAIN pendingFunctors'
  BY <1>2
<1>5. Pending' = Pending \cup (IF f.op = "add" THEN {f.id[1]} ELSE {})
  BY <1>2, <1>3, <1>4 DEF Pending
<1> QED BY <1>2, <1>3, <1>5

\* The addresses of functors, after the first was called.
LEMMA CalledAdds ==
  ASSUME TypeOK, AddsMatch, pendingFunctors # <<>>,
         pendingFunctors' = Tail(pendingFunctors)
  PROVE  /\ Head(pendingFunctors) \in Call
         /\ pendingFunctors' \in Seq(Call)
         /\ \A i \in DOMAIN pendingFunctors' :
              i + 1 \in DOMAIN pendingFunctors /\ pendingFunctors'[i] = pendingFunctors[i + 1]
         /\ Head(pendingFunctors).op = "add" =>
              /\ Id(Head(pendingFunctors).id[1]) = Head(pendingFunctors).id
              /\ Head(pendingFunctors).id[1] \in Pending
              /\ Pending' = Pending \ {Head(pendingFunctors).id[1]}
         /\ Head(pendingFunctors).op # "add" => Pending' = Pending
<1> DEFINE f == Head(pendingFunctors)
<1>1. pendingFunctors \in Seq(Call)
  BY DEF TypeOK, Call
<1>2. /\ f \in Call
      /\ f = pendingFunctors[1]
      /\ 1 \in DOMAIN pendingFunctors
      /\ Len(pendingFunctors) \in Nat
      /\ DOMAIN pendingFunctors = 1..Len(pendingFunctors)
      /\ pendingFunctors' \in Seq(Call)
      /\ DOMAIN pendingFunctors' = 1..Len(pendingFunctors) - 1
      /\ \A i \in 1..Len(pendingFunctors) - 1 : pendingFunctors'[i] = pendingFunctors[i + 1]
  BY <1>1
<1> HIDE DEF f
<1>3. \A i \in DOMAIN pendingFunctors' :
        i + 1 \in DOMAIN pendingFunctors /\ pendingFunctors'[i] = pendingFunctors[i + 1]
  BY <1>2
<1>4. \A i \in DOMAIN pendingFunctors : i = 1 \/ i - 1 \in DOMAIN pendingFunctors'
  BY <1>2
<1>5. ASSUME NEW a
      PROVE  a \in Pending <=> (f.op = "add" /\ f.id[1] = a) \/ a \in Pending'
  <2>1. ASSUME a \in Pending'
        PROVE  a \in Pending
    <3>1. PICK i \in DOMAIN pendingFunctors' :
            pendingFunctors'[i].op = "add" /\ pendingFunctors'[i].id[1] = a
      BY <2>1 DEF Pending
    <3> QED BY <1>3, <3>1 DEF Pending
  <2>2. ASSUME f.op = "add", f.id[1] = a
        PROVE  a \in Pending
    BY <1>2, <2>2 DEF Pending
  <2>3. ASSUME a \in Pending
        PROVE  (f.op = "add" /\ f.id[1] = a) \/ a \in Pending'
    <3>1. PICK i \in DOMAIN pendingFunctors :
            pendingFunctors[i].op = "add" /\ pendingFunctors[i].id[1] = a
      BY <2>3 DEF Pending
    <3>2. CASE i = 1
      BY <1>2, <3>1, <3>2
    <3>3. CASE i # 1
      <4>1. i - 1 \in DOMAIN pendingFunctors' /\ (i - 1) + 1 = i
        BY <1>2, <1>4, <3>3
      <4>2. pendingFunctors'[i - 1] = pendingFunctors[i]
        BY <1>3, <4>1
      <4> QED BY <3>1, <4>1, <4>2 DEF Pending
    <3> QED BY <3>2, <3>3
  <2> QED BY <2>1, <2>2, <2>3
<1>6. ASSUME f.op = "add"
      PROVE  f.id[1] \notin Pending' /\ Id(f.id[1]) = f.id
  <2>1. IsAdd(1)
    BY <1>2, <1>6 DEF IsAdd
  <2>2. Id(f.id[1]) = f.id
    BY <1>2, <2>1 DEF AddsMatch
  <2>3. ASSUME f.id[1] \in Pending'
        PROVE  FALSE
    <3>1. PICK i \in DOMAIN pendingFunctors' :
            pendingFunctors'[i].op = "add" /\ pendingFunctors'[i].id[1] = f.id[1]
      BY <2>3 DEF Pending
    <3>2. i + 1 \in DOMAIN pendingFunctors /\ IsAdd(i + 1)
          /\ pendingFunctors[i + 1].id[1] = pendingFunctors[1].id[1]
      BY <1>2, <1>3, <3>1 DEF IsAdd
    <3>3. i + 1 = 1
      BY <1>2, <2>1, <3>2 DEF AddsMatch
    <3> QED BY <1>2, <3>3
  <2> QED BY <2>2, <2>3
<1> QED BY <1>2, <1>3, <1>5, <1>6 DEF f

\* No functor comes or goes, and the timers to be added stay as they are.
LEMMA AddsKept ==
  ASSUME TypeOK, AddsMatch, UNCHANGED pendingFunctors,
         \A a \in Pending : heap'[a] = heap[a]
  PROVE  AddsMatch' /\ Pending' = Pending
<1>1. Pending' = Pending
  BY DEF Pending
<1>2. ASSUME NEW i \in DOMAIN pendingFunctors', IsAdd(i)'
      PROVE  IsAdd(i) /\ IdOf(heap', pendingFunctors'[i].id[1]) = pendingFunctors'[i].id
  <2>1. IsAdd(i) /\ pendingFunctors[i].id[1] \in Pending
    BY <1>2 DEF IsAdd, Pending
  <2> QED BY <2>1 DEF AddsMatch, Id, IdOf
<1>3. \A i, j \in DOMAIN pendingFunctors' :
        IsAdd(i)' /\ IsAdd(j)' /\ pendingFunctors'[i].id[1] = pendingFunctors'[j].id[1] => i = j
  BY <1>2 DEF AddsMatch
<1> QED BY <1>1, <1>2, <1>3 DEF AddsMatch, Id

LEMMA AddsAfterCall ==
  ASSUME TypeOK, AddsMatch, pendingFunctors # <<>>,
         pendingFunctors' = Tail(pendingFunctors),
         \A a \in Pending' : heap'[a] = heap[a]
  PROVE  AddsMatch'
<1>1. pendingFunctors \in Seq(Call)
  BY DEF TypeOK, Call
<1>2. DOMAIN pendingFunctors \subseteq Nat /\ DOMAIN pendingFunctors' \subseteq Nat
  BY <1>1
<1>3. ASSUME NEW i \in DOMAIN pendingFunctors', IsAdd(i)'
      PROVE  /\ i \in Nat /\ i + 1 \in DOMAIN pendingFunctors
             /\ IsAdd(i + 1) /\ pendingFunctors'[i] = pendingFunctors[i + 1]
             /\ IdOf(heap', pendingFunctors'[i].id[1]) = pendingFunctors'[i].id
  <2>1. i + 1 \in DOMAIN pendingFunctors /\ pendingFunctors'[i] = pendingFunctors[i + 1]
    BY CalledAdds
  <2>2. IsAdd(i + 1) /\ pendingFunctors'[i].id[1] \in Pending'
    BY <1>3, <2>1 DEF IsAdd, Pending
  <2>3. Id(pendingFunctors[i + 1].id[1]) = pendingFunctors[i + 1].id
    BY <2>1, <2>2 DEF AddsMatch
  <2> QED BY <1>2, <2>1, <2>2, <2>3 DEF Id, IdOf
<1>4. ASSUME NEW i \in DOMAIN pendingFunctors', NEW j \in DOMAIN pendingFunctors',
             IsAdd(i)', IsAdd(j)', pendingFunctors'[i].id[1] = pendingFunctors'[j].id[1]
      PROVE  i = j
  <2>1. i + 1 = j + 1
    BY <1>3, <1>4 DEF AddsMatch
  <2> QED BY <1>3, <1>4, <2>1
<1> QED BY <1>3, <1>4 DEF AddsMatch, Id

LEMMA AddsAfterPush ==
  ASSUME TypeOK, AddsMatch, NEW f \in Call,
         pendingFunctors' = Append(pendingFunctors, f),
         \A a \in Pending : heap'[a] = heap[a],
         f.op = "add" => IdOf(heap', f.id[1]) = f.id /\ f.id[1] \notin Pending
  PROVE  AddsMatch'
<1> DEFINE Old(i) == /\ i \in DOMAIN pendingFunctors
                     /\ pendingFunctors'[i] = pendingFunctors[i]
                     /\ IsAdd(i)
                     /\ pendingFunctors[i].id[1] \in Pending
           New(i) == /\ i = Len(pendingFunctors) + 1
                     /\ pendingFunctors'[i] = f
                     /\ f.op = "add"
<1>1. ASSUME NEW i \in DOMAIN pendingFunctors', IsAdd(i)'
      PROVE  Old(i) \/ New(i)
  <2>1. CASE i \in DOMAIN pendingFunctors /\ pendingFunctors'[i] = pendingFunctors[i]
    BY <1>1, <2>1 DEF IsAdd, Pending
  <2>2. CASE i = Len(pendingFunctors) + 1 /\ pendingFunctors'[i] = f
    BY <1>1, <2>2 DEF IsAdd
  <2> QED BY <2>1, <2>2, PushedAdds
<1>2. ASSUME NEW i \in DOMAIN pendingFunctors', IsAdd(i)'
      PROVE  IdOf(heap', pendingFunctors'[i].id[1]) = pendingFunctors'[i].id
  <2>1. CASE Old(i)
    BY <2>1 DEF AddsMatch, Id, IdOf
  <2>2. CASE New(i)
    BY <2>2
  <2> QED BY <1>1, <1>2, <2>1, <2>2
<1>3. ASSUME NEW i \in DOMAIN pendingFunctors', NEW j \in DOMAIN pendingFunctors',
             IsAdd(i)', IsAdd(j)', pendingFunctors'[i].id[1] = pendingFunctors'[j].id[1]
      PROVE  i = j
  <2>1. CASE Old(i) /\ Old(j)
    BY <1>3, <2>1 DEF AddsMatch
  <2>2. CASE New(i) /\ New(j)
    BY <2>2
  <2>3. CASE (Old(i) /\ New(j)) \/ (New(i) /\ Old(j))
    BY <1>3, <2>3
  <2> QED BY <1>1, <1>3, <2>1, <2>2, <2>3
<1> HIDE DEF Old, New
<1> QED BY <1>2, <1>3 DEF AddsMatch, Id

-----------------------------------------------------------------------------
(* The two ways a step works on the queue.                                 *)

\* resetTimerfd arms the timerfd in time for whatever expires at `when' or later.
LEMMA ResetProperties ==
  ASSUME TypeOK, NEW when \in Nat
  PROVE  /\ resetTimerfd(when) \in Nat \ {0, 1}
         /\ resetTimerfd(when) <= when \/ resetTimerfd(when) = now + 1
BY ClockTypes DEF resetTimerfd, howMuchTimeFromNow

\* What addTimerInLoop makes of the queue.
LEMMA InsertStep ==
  ASSUME TypeOK, Agree, Finite, AllArmed, NEW a \in Addresses, a \notin Scheduled \cup Expired,
         heap' \in [Addresses -> Timer \cup {Freed}],
         \A b \in Addresses \ {a} : heap'[b] = heap[b],
         Live(a)', addTimerInLoop(heap', a), UNCHANGED <<expired, pc, now>>
  PROVE  /\ timers' \subseteq Entry
         /\ activeTimers' \subseteq TimerId
         /\ timerfd' \in Nat \ {1}
         /\ Agree' /\ Finite' /\ AllArmed'
         /\ Scheduled' = Scheduled \cup {a}
         /\ Expired' = Expired
<1> DEFINE when == heap'[a].expiration
           entry == <<when, a>>
<1>1. when \in Nat /\ heap'[a].sequence \in Nat
  <2>1. heap'[a] \in Timer
    BY DEF Live
  <2> QED BY <2>1 DEF Timer
<1>2. /\ timers' = timers \cup {entry}
      /\ activeTimers' = activeTimers \cup {IdOf(heap', a)}
      /\ timerfd' = IF EarliestChanged(when) THEN resetTimerfd(when) ELSE timerfd
  BY DEF addTimerInLoop, insert
<1>3. timers' \subseteq Entry /\ activeTimers' \subseteq TimerId
  BY <1>1, <1>2 DEF TypeOK, Entry, TimerId, IdOf
<1>4. timerfd' \in Nat \ {1}
  BY <1>1, <1>2, ResetProperties DEF TypeOK
<1>5. \A e \in timers \cup expired : e[2] \in Addresses \ {a} /\ heap'[e[2]] = heap[e[2]]
  BY QueuedTypes DEF Scheduled, Expired
<1>6. Agree'
  <2>1. \A e \in timers \cup expired : Matches(e)'
    BY <1>5 DEF Agree, Matches, Live
  <2>2. heap'[entry[2]] # Freed /\ heap'[entry[2]].expiration = entry[1]
    BY DEF Live
  <2>3. {IdOf(heap', e[2]) : e \in timers} = activeTimers
    BY <1>5 DEF Agree, IdsOf, Id, IdOf
  <2>4. {IdOf(heap', e[2]) : e \in timers'}
          = {IdOf(heap', e[2]) : e \in timers} \cup {IdOf(heap', entry[2])}
    BY <1>2
  <2>5. activeTimers' = {IdOf(heap', e[2]) : e \in timers'}
    BY <1>2, <2>3, <2>4
  <2>6. \A e \in timers' \cup expired' : Matches(e)'
    BY <1>2, <2>1, <2>2 DEF Matches, Live
  <2> QED BY <2>5, <2>6 DEF Agree, IdsOf, Id
<1>7. Finite'
  BY <1>2, FS_AddElement DEF Finite
<1>8. AllArmed'
  <2> SUFFICES ASSUME NEW e \in timers', pc = "loop" \/ ~valid(e[1])
               PROVE  ArmedFor(e)'
    BY DEF AllArmed
  <2>1. e[1] \in Nat
    BY <1>3, EntryProperties
  <2>2. \A d \in timers : d[1] \in Nat
    BY QueuedTypes
  <2>3. CASE EarliestChanged(when)
    <3>1. when <= e[1]
      BY <1>1, <1>2, <2>1, <2>2, <2>3 DEF EarliestChanged
    <3>2. timerfd' \in Nat \ {0, 1} /\ (timerfd' <= when \/ timerfd' = now + 1)
      BY <1>1, <1>2, <2>3, ResetProperties
    <3>3. timerfd' <= e[1] \/ timerfd' <= now + 1
      BY <1>1, <2>1, <3>1, <3>2, ClockTypes
    <3> QED BY <3>2, <3>3 DEF ArmedFor, Disarmed
  <2>4. CASE ~EarliestChanged(when) /\ e \in timers
    BY <1>2, <2>4 DEF ArmedFor, AllArmed
  <2>5. CASE ~EarliestChanged(when) /\ e = entry
    <3>1. PICK d \in timers : ~(when < d[1])
      BY <2>5 DEF EarliestChanged
    <3>2. d[1] <= e[1]
      BY <1>1, <2>2, <2>5, <3>1
    <3>3. ArmedFor(d)
      BY <2>1, <2>2, <3>1, <3>2 DEF AllArmed, valid
    <3> QED BY <1>2, <2>1, <2>2, <2>5, <3>1, <3>2, <3>3, ClockTypes DEF ArmedFor
  <2> QED BY <1>2, <2>3, <2>4, <2>5
<1>9. Scheduled' = Scheduled \cup {a} /\ Expired' = Expired
  <2>1. {e[2] : e \in timers \cup {entry}} = {e[2] : e \in timers} \cup {entry[2]}
    OBVIOUS
  <2> QED BY <1>2, <2>1 DEF Scheduled, Expired
<1> QED BY <1>3, <1>4, <1>6, <1>7, <1>8, <1>9

\* What cancelInLoop makes of the queue: it may free one timer, of timers_.
LEMMA CancelStep ==
  ASSUME IInv, NEW id \in TimerId, cancelInLoop(id),
         UNCHANGED <<expired, numCreated, pc, now, timerfd>>
  PROVE  /\ heap' \in [Addresses -> Timer \cup {Freed}]
         /\ timers' \subseteq timers /\ activeTimers' \subseteq TimerId
         /\ cancelingTimers' \subseteq TimerId
         /\ asked' \subseteq TimerId /\ cancelled' \subseteq asked'
         /\ Expired' = Expired
         /\ Agree' /\ Finite' /\ AllArmed' /\ CancelledGone' /\ Sequences'
         /\ \A a \in Addresses : Live(a)' /\ a \in Scheduled => a \in Scheduled'
         /\ \A a \in Addresses :
              heap'[a] # heap[a] => heap'[a] = Freed /\ a \in Scheduled \ Scheduled' /\ Id(a) = id
<1> DEFINE a == id[1]
<1>1. /\ TypeOK /\ Agree /\ OneOwner /\ CancelledGone /\ Sequences /\ Control /\ Finite
      /\ AllArmed
  BY DEF IInv
<1>2. a \in Addresses /\ id = <<a, id[2]>> /\ id[2] \in Nat
  BY IdProperties
<1>3. asked' = asked \cup {id} /\ asked' \subseteq TimerId /\ cancelled' \subseteq asked'
  BY <1>1 DEF cancelInLoop, TypeOK
<1>4. Expired' = Expired
  BY DEF Expired
<1>5. CASE IsActive(id)
  <2>1. a \in Scheduled /\ Id(a) = id /\ a \notin Expired
    BY <1>1, <1>5, ActiveProperties DEF OneOwner
  <2> DEFINE gone == <<heap[a].expiration, a>>
  <2>2. /\ timers' = timers \ {gone}
        /\ activeTimers' = {other \in activeTimers : other[1] # a}
        /\ heap' = [heap EXCEPT ![a] = Freed]
        /\ cancelingTimers' = cancelingTimers
    BY <1>5 DEF cancelInLoop, Unscheduled
  <2>3. /\ heap' \in [Addresses -> Timer \cup {Freed}]
        /\ heap'[a] = Freed
        /\ \A b \in Addresses \ {a} : heap'[b] = heap[b]
    BY <1>1, <1>2, <2>2 DEF TypeOK
  <2>4. \A e \in timers : e[2] \in Addresses /\ (e = gone <=> e[2] = a)
    BY <1>1, QueuedTypes DEF Agree, Matches
  <2>5. \A e \in expired : e[2] \in Addresses \ {a}
    BY <1>1, <2>1, QueuedTypes DEF Expired
  <2>6. Agree'
    <3>1. \A e \in timers' : e \in timers /\ e[2] \in Addresses \ {a}
      BY <2>2, <2>4
    <3>2. \A e \in timers' \cup expired' : Matches(e)'
      BY <1>1, <2>3, <2>5, <3>1 DEF Agree, Matches, Live
    <3>3. ASSUME NEW other
          PROVE  other \in activeTimers' <=> \E e \in timers' : other = IdOf(heap', e[2])
      <4>1. other \in activeTimers <=> \E e \in timers : other = IdOf(heap, e[2])
        BY <1>1 DEF Agree, IdsOf, Id
      <4>2. \A e \in timers' : IdOf(heap', e[2]) = IdOf(heap, e[2])
        BY <2>3, <3>1 DEF IdOf
      <4>3. \A e \in timers : IdOf(heap, e[2])[1] = e[2]
        BY DEF IdOf
      <4> QED BY <2>2, <2>4, <3>1, <4>1, <4>2, <4>3
    <3>4. activeTimers' = {IdOf(heap', e[2]) : e \in timers'}
      BY <3>3
    <3> QED BY <3>2, <3>4 DEF Agree, IdsOf, Id
  <2>7. Scheduled' = Scheduled \ {a}
    BY <2>2, <2>4 DEF Scheduled
  <2>8. Finite'
    BY <1>1, <2>2, FS_RemoveElement DEF Finite
  <2>9. AllArmed'
    BY <1>1, <2>2 DEF AllArmed, ArmedFor
  <2>10. CancelledGone'
    <3> SUFFICES ASSUME NEW other \in cancelled'
                 PROVE  /\ other[2] <= numCreated
                        /\ heap'[other[1]] # Freed /\ IdOf(heap', other[1]) = other =>
                             other[1] \in Expired' /\ other \in cancelingTimers'
      BY DEF CancelledGone, Live, Id
    <3>1. CASE other \in cancelled
      <4>1. other[1] \in Addresses
        BY <1>1, <3>1, IdProperties DEF TypeOK
      <4>2. heap'[other[1]] # Freed => heap'[other[1]] = heap[other[1]]
        BY <2>3, <4>1
      <4> QED BY <1>1, <1>4, <2>2, <3>1, <4>2 DEF CancelledGone, Live, Id, IdOf
    <3>2. CASE other = id
      <4>1. id[2] <= numCreated
        BY <1>1, <1>2, <2>1 DEF Sequences, Id, IdOf
      <4> QED BY <2>3, <3>2, <4>1
    <3> QED BY <3>1, <3>2 DEF cancelInLoop
  <2>11. Sequences'
    <3>1. Freed.sequence <= numCreated
      BY <1>1, ClockTypes DEF Freed
    <3> QED BY <1>1, <2>3, <3>1 DEF Sequences
  <2>12. activeTimers' \subseteq TimerId /\ cancelingTimers' \subseteq TimerId
    BY <1>1, <2>2 DEF TypeOK
  <2> QED BY <1>3, <1>4, <2>1, <2>2, <2>3, <2>6, <2>7, <2>8, <2>9, <2>10, <2>11, <2>12
         DEF Live
<1>6. CASE ~IsActive(id)
  <2>1. /\ UNCHANGED <<timers, activeTimers, heap>>
        /\ cancelingTimers' = Canceling(id)
        /\ UNCHANGED callingExpiredTimers
    BY <1>6 DEF cancelInLoop
  <2>2. /\ Agree' /\ Finite' /\ AllArmed' /\ Sequences' /\ Scheduled' = Scheduled
    BY <1>1, <2>1 DEF Agree, Finite, AllArmed, Sequences, ArmedFor, Matches, Live, IdsOf, Id,
                      Scheduled
  <2>3. cancelingTimers' \subseteq TimerId /\ cancelingTimers \subseteq cancelingTimers'
    BY <1>1, <2>1 DEF Canceling, TypeOK
  <2>4. CancelledGone'
    <3> SUFFICES ASSUME NEW other \in cancelled'
                 PROVE  /\ other[2] <= numCreated
                        /\ Live(other[1]) /\ Id(other[1]) = other =>
                             other[1] \in Expired /\ other \in cancelingTimers'
      BY <1>4, <2>1 DEF CancelledGone, Live, Id
    <3>1. CASE other \in cancelled
      BY <1>1, <2>3, <3>1 DEF CancelledGone
    <3>2. CASE other = id /\ id \in IdsOf(timers \cup expired)
      <4>1. PICK e \in timers \cup expired : id = Id(e[2])
        BY <3>2 DEF IdsOf
      <4>2. e \notin timers
        BY <1>1, <1>6, <4>1 DEF IsActive, Agree, IdsOf
      <4>3. e[2] = a /\ a \in Expired
        BY <4>1, <4>2 DEF Id, IdOf, Expired
      <4>4. id[2] <= numCreated
        BY <1>1, <1>2, <4>1, <4>3 DEF Sequences, Id, IdOf
      <4>5. callingExpiredTimers
        BY <1>1, <4>1, <4>2 DEF Control
      <4> QED BY <2>1, <3>2, <4>3, <4>4, <4>5 DEF Canceling
    <3> QED BY <3>1, <3>2 DEF cancelInLoop
  <2>5. heap' \in [Addresses -> Timer \cup {Freed}] /\ activeTimers' \subseteq TimerId
    BY <1>1, <2>1 DEF TypeOK
  <2> QED BY <1>3, <1>4, <2>1, <2>2, <2>3, <2>4, <2>5
<1> QED BY <1>5, <1>6

-----------------------------------------------------------------------------
(* The actions.                                                            *)

\* A new timer is at an address nobody knows, under an id nobody has cancelled.
LEMMA Created ==
  ASSUME IInv, NEW a \in Addresses, NEW when \in Whens,
         NEW interval \in Intervals \cup {NoRepeat}, CanCreate(a),
         heap' = [heap EXCEPT ![a] = NewTimer(when, interval)],
         numCreated' = numCreated + 1,
         UNCHANGED <<cancelled, cancelingTimers, expired>>
  PROVE  /\ heap' \in [Addresses -> Timer \cup {Freed}]
         /\ numCreated' \in 0..MaxTimers
         /\ Live(a)' /\ IdOf(heap', a) = <<a, numCreated + 1>>
         /\ <<a, numCreated + 1>> \in TimerId
         /\ \A b \in Addresses \ {a} : heap'[b] = heap[b]
         /\ a \notin Pending /\ a \notin Scheduled /\ a \notin Expired
         /\ CancelledGone' /\ Sequences'
<1>1. /\ TypeOK /\ OneOwner /\ CancelledGone /\ Sequences
  BY DEF IInv
<1>2. numCreated \in Nat /\ numCreated < MaxTimers /\ ~Live(a)
  BY <1>1, ClockTypes DEF CanCreate
<1>3. NewTimer(when, interval) \in Timer /\ NewTimer(when, interval) # Freed
  BY <1>2, ConstantTypes DEF NewTimer, Timer, Freed
<1>4. /\ heap' \in [Addresses -> Timer \cup {Freed}]
      /\ heap'[a] = NewTimer(when, interval)
      /\ \A b \in Addresses \ {a} : heap'[b] = heap[b]
  BY <1>1, <1>3 DEF TypeOK
<1>5. numCreated' \in 0..MaxTimers
  BY <1>2, ConstantTypes
<1>6. Live(a)' /\ IdOf(heap', a) = <<a, numCreated + 1>> /\ <<a, numCreated + 1>> \in TimerId
  BY <1>2, <1>3, <1>4 DEF Live, IdOf, NewTimer, TimerId
<1>7. a \notin Pending /\ a \notin Scheduled /\ a \notin Expired
  BY <1>1, <1>2, Owned
<1>8. Sequences'
  <2>1. ASSUME NEW b \in Addresses
        PROVE  heap'[b].sequence <= numCreated'
    <3>1. CASE b = a
      BY <1>2, <1>4, <3>1 DEF NewTimer
    <3>2. CASE b # a
      BY <1>1, <1>2, <1>4, <3>2, HeapProperties DEF Sequences
    <3> QED BY <3>1, <3>2
  <2> QED BY <2>1 DEF Sequences
<1>9. CancelledGone'
  <2> SUFFICES ASSUME NEW id \in cancelled
               PROVE  /\ id[2] <= numCreated'
                      /\ heap'[id[1]] # Freed /\ IdOf(heap', id[1]) = id =>
                           id[1] \in Expired' /\ id \in cancelingTimers
    BY DEF CancelledGone, Live, Id
  <2>1. id[1] \in Addresses /\ id[2] \in Nat /\ id[2] <= numCreated
    BY <1>1, IdProperties DEF TypeOK, CancelledGone
  <2>2. Expired' = Expired
    BY DEF Expired
  <2>3. CASE id[1] = a
    <3>1. IdOf(heap', a) # id
      BY <1>2, <1>6, <2>1
    <3> QED BY <1>2, <2>1, <2>3, <3>1
  <2>4. CASE id[1] # a
    BY <1>1, <1>2, <1>4, <2>1, <2>2, <2>4 DEF CancelledGone, Live, Id, IdOf
  <2> QED BY <2>3, <2>4
<1> QED BY <1>4, <1>5, <1>6, <1>7, <1>8, <1>9

LEMMA AddTimerStep ==
  ASSUME IInv, NEW a \in Addresses, NEW when \in Whens,
         NEW interval \in Intervals \cup {NoRepeat}, addTimer(a, when, interval)
  PROVE  IInv'
<1>1. /\ TypeOK /\ Agree /\ OneOwner /\ AddsMatch /\ Control /\ Finite /\ AllArmed
  BY DEF IInv
<1>2. /\ CanCreate(a)
      /\ heap' = [heap EXCEPT ![a] = NewTimer(when, interval)]
      /\ numCreated' = numCreated + 1
      /\ addTimerInLoop(heap', a)
      /\ ids' = ids \cup {IdOf(heap', a)}
      /\ UNCHANGED <<cancelingTimers, callingExpiredTimers, batch, now, remote, history,
                     wrongId>>
  BY DEF addTimer
<1>3. UNCHANGED <<expired, toRun, started, pc, pendingFunctors, adding, asked, cancelled>>
  BY <1>2 DEF batch, remote, history
<1>4. /\ heap' \in [Addresses -> Timer \cup {Freed}]
      /\ numCreated' \in 0..MaxTimers
      /\ Live(a)' /\ IdOf(heap', a) \in TimerId
      /\ \A b \in Addresses \ {a} : heap'[b] = heap[b]
      /\ a \notin Pending /\ a \notin Scheduled /\ a \notin Expired
      /\ CancelledGone' /\ Sequences'
  BY <1>2, <1>3, Created
<1>5. /\ timers' \subseteq Entry
      /\ activeTimers' \subseteq TimerId
      /\ timerfd' \in Nat \ {1}
      /\ Agree' /\ Finite' /\ AllArmed'
      /\ Scheduled' = Scheduled \cup {a}
      /\ Expired' = Expired
  BY <1>1, <1>2, <1>3, <1>4, InsertStep
<1>6. AddsMatch' /\ Pending' = Pending
  <2>1. \A b \in Pending : heap'[b] = heap[b]
    BY <1>1, <1>4 DEF OneOwner
  <2> QED BY <1>1, <1>3, <2>1, AddsKept
<1>7. OneOwner'
  <2>1. \A b \in Addresses : Live(b)' <=> b = a \/ Live(b)
    BY <1>4 DEF Live
  <2> QED BY <1>1, <1>4, <1>5, <1>6, <2>1 DEF OneOwner
<1>8. TypeOK'
  BY <1>1, <1>2, <1>3, <1>4, <1>5 DEF TypeOK
<1>9. Control'
  BY <1>1, <1>2, <1>3 DEF Control
<1> QED BY <1>4, <1>5, <1>6, <1>7, <1>8, <1>9 DEF IInv

LEMMA AddTimerRemotelyStep ==
  ASSUME IInv, NEW t \in Callers, NEW a \in Addresses, NEW when \in Whens,
         NEW interval \in Intervals \cup {NoRepeat}, addTimerRemotely(t, a, when, interval)
  PROVE  IInv'
<1> DEFINE id == <<a, numCreated + 1>>
           f  == [op |-> "add", id |-> id]
<1>1. /\ TypeOK /\ Agree /\ OneOwner /\ AddsMatch /\ Control /\ Finite /\ AllArmed
  BY DEF IInv
<1>2. /\ CanCreate(a)
      /\ heap' = [heap EXCEPT ![a] = NewTimer(when, interval)]
      /\ numCreated' = numCreated + 1
      /\ adding' = [adding EXCEPT ![t] = id]
      /\ pendingFunctors' = Append(pendingFunctors, f)
      /\ UNCHANGED <<queue, batch, timerfd, now, ids, history, wrongId>>
  BY DEF addTimerRemotely
<1>3. UNCHANGED <<timers, activeTimers, cancelingTimers, callingExpiredTimers, expired, toRun,
                  started, pc, asked, cancelled>>
  BY <1>2 DEF queue, batch, history
<1>4. /\ heap' \in [Addresses -> Timer \cup {Freed}]
      /\ numCreated' \in 0..MaxTimers
      /\ Live(a)' /\ IdOf(heap', a) = id /\ id \in TimerId
      /\ \A b \in Addresses \ {a} : heap'[b] = heap[b]
      /\ a \notin Pending /\ a \notin Scheduled /\ a \notin Expired
      /\ CancelledGone' /\ Sequences'
  BY <1>2, <1>3, Created
<1>5. f \in Call /\ f.op = "add" /\ f.id = id /\ id[1] = a
  BY <1>4 DEF Call
<1> HIDE DEF f, id
<1>6. /\ pendingFunctors' \in Seq(Call)
      /\ Pending' = Pending \cup {a}
  BY <1>1, <1>2, <1>5, PushedAdds
<1>7. AddsMatch'
  <2>1. \A b \in Pending : heap'[b] = heap[b]
    BY <1>1, <1>4 DEF OneOwner
  <2> QED BY <1>1, <1>2, <1>4, <1>5, <2>1, AddsAfterPush
<1>8. Scheduled' = Scheduled /\ Expired' = Expired
  BY <1>3 DEF Scheduled, Expired
<1>9. \A e \in timers \cup expired : e[2] \in Addresses \ {a} /\ heap'[e[2]] = heap[e[2]]
  BY <1>1, <1>4, QueuedTypes DEF Scheduled, Expired
<1>10. Agree'
  <2>1. {IdOf(heap', e[2]) : e \in timers} = {IdOf(heap, e[2]) : e \in timers}
    BY <1>9 DEF IdOf
  <2> QED BY <1>1, <1>3, <1>9, <2>1 DEF Agree, IdsOf, Id, Matches, Live
<1>11. OneOwner'
  <2>1. \A b \in Addresses : Live(b)' <=> b = a \/ Live(b)
    BY <1>4 DEF Live
  <2> QED BY <1>1, <1>4, <1>6, <1>8, <2>1 DEF OneOwner
<1>12. TypeOK'
  <2>1. adding' \in [Callers -> TimerId \cup {None}]
    BY <1>1, <1>2, <1>4 DEF TypeOK
  <2> QED BY <1>1, <1>2, <1>3, <1>4, <1>6, <2>1 DEF TypeOK, Call
<1>13. Control' /\ Finite' /\ AllArmed'
  BY <1>1, <1>2, <1>3 DEF Control, Finite, AllArmed, ArmedFor
<1> QED BY <1>4, <1>7, <1>10, <1>11, <1>12, <1>13 DEF IInv

\* A step that leaves the timers, the batch and the functors alone.
LEMMA QuietStep ==
  ASSUME IInv,
         UNCHANGED <<heap, numCreated, timers, activeTimers, cancelingTimers,
                     callingExpiredTimers, expired, started, timerfd, cancelled>>,
         pc = "loop" <=> pc' = "loop", now' \in Nat, now <= now'
  PROVE  /\ Agree' /\ CancelledGone' /\ Sequences' /\ Control' /\ Finite' /\ AllArmed'
         /\ Scheduled' = Scheduled /\ Expired' = Expired
         /\ \A a \in Addresses : Live(a)' <=> Live(a)
<1>1. /\ TypeOK /\ Agree /\ CancelledGone /\ Sequences /\ Control /\ Finite /\ AllArmed
  BY DEF IInv
<1>2. Agree' /\ Sequences' /\ Control' /\ Finite'
  BY <1>1 DEF Agree, IdsOf, Id, Matches, Live, Sequences, Control, Finite
<1>3. CancelledGone'
  BY <1>1 DEF CancelledGone, Live, Id, Expired
<1>4. AllArmed'
  BY <1>1, ClockTypes, QueuedTypes DEF AllArmed, ArmedFor
<1>5. Scheduled' = Scheduled /\ Expired' = Expired
  BY DEF Scheduled, Expired
<1> QED BY <1>2, <1>3, <1>4, <1>5 DEF Live

LEMMA ReturnTimerIdStep ==
  ASSUME IInv, NEW t \in Callers, ReturnTimerId(t)
  PROVE  IInv'
<1>1. /\ TypeOK /\ OneOwner /\ AddsMatch
  BY DEF IInv
<1>2. /\ adding[t] # None
      /\ adding' = [adding EXCEPT ![t] = None]
      /\ wrongId' \in BOOLEAN
      /\ UNCHANGED <<heap, numCreated, queue, batch, timerfd, now, pendingFunctors, history>>
  BY DEF ReturnTimerId
<1>3. PICK sequence \in 0..MaxTimers : ids' = ids \cup {<<adding[t][1], sequence>>}
  BY DEF ReturnTimerId
<1>4. UNCHANGED <<timers, activeTimers, cancelingTimers, callingExpiredTimers, expired, toRun,
                  started, pc, asked, cancelled>>
  BY <1>2 DEF queue, batch, history
<1>5. ids' \subseteq TimerId
  <2>1. adding[t] \in TimerId
    BY <1>1, <1>2 DEF TypeOK
  <2>2. <<adding[t][1], sequence>> \in TimerId
    BY <2>1, ConstantTypes DEF TimerId
  <2> QED BY <1>1, <1>3, <2>2 DEF TypeOK
<1>6. TypeOK'
  BY <1>1, <1>2, <1>4, <1>5 DEF TypeOK
<1>7. /\ Agree' /\ CancelledGone' /\ Sequences' /\ Control' /\ Finite' /\ AllArmed'
      /\ Scheduled' = Scheduled /\ Expired' = Expired
      /\ \A a \in Addresses : Live(a)' <=> Live(a)
  BY <1>1, <1>2, <1>4, QuietStep, ClockTypes
<1>8. AddsMatch' /\ Pending' = Pending
  BY <1>1, <1>2, AddsKept
<1>9. OneOwner'
  BY <1>1, <1>7, <1>8 DEF OneOwner
<1> QED BY <1>6, <1>7, <1>8, <1>9 DEF IInv

LEMMA CancelRemotelyStep ==
  ASSUME IInv, NEW t \in Callers, NEW id \in ids, cancelRemotely(t, id)
  PROVE  IInv'
<1> DEFINE f == [op |-> "cancel", id |-> id]
<1>1. /\ TypeOK /\ OneOwner /\ AddsMatch
  BY DEF IInv
<1>2. /\ pendingFunctors' = Append(pendingFunctors, f)
      /\ UNCHANGED <<heap, numCreated, queue, batch, timerfd, now, adding, ids, history,
                     wrongId>>
  BY DEF cancelRemotely
<1>3. UNCHANGED <<timers, activeTimers, cancelingTimers, callingExpiredTimers, expired, toRun,
                  started, pc, asked, cancelled>>
  BY <1>2 DEF queue, batch, history
<1>4. f \in Call /\ f.op = "cancel"
  BY <1>1 DEF TypeOK, Call
<1> HIDE DEF f
<1>5. pendingFunctors' \in Seq(Call) /\ Pending' = Pending
  BY <1>1, <1>2, <1>4, PushedAdds
<1>6. AddsMatch'
  BY <1>1, <1>2, <1>4, AddsAfterPush
<1>7. TypeOK'
  BY <1>1, <1>2, <1>3, <1>5 DEF TypeOK, Call
<1>8. /\ Agree' /\ CancelledGone' /\ Sequences' /\ Control' /\ Finite' /\ AllArmed'
      /\ Scheduled' = Scheduled /\ Expired' = Expired
      /\ \A a \in Addresses : Live(a)' <=> Live(a)
  BY <1>1, <1>2, <1>3, QuietStep, ClockTypes
<1>9. OneOwner'
  BY <1>1, <1>5, <1>8 DEF OneOwner
<1> QED BY <1>6, <1>7, <1>8, <1>9 DEF IInv

LEMMA CancelOwners ==
  ASSUME IInv, NEW id \in TimerId, cancelInLoop(id),
         UNCHANGED <<expired, numCreated, pc, now, timerfd>>, Pending' = Pending
  PROVE  OneOwner'
<1>1. OneOwner
  BY DEF IInv
<1>2. /\ Expired' = Expired
      /\ timers' \subseteq timers
      /\ \A a \in Addresses : Live(a)' /\ a \in Scheduled => a \in Scheduled'
      /\ \A a \in Addresses :
           heap'[a] # heap[a] => heap'[a] = Freed /\ a \in Scheduled \ Scheduled'
  BY CancelStep
<1>3. Scheduled' \subseteq Scheduled
  BY <1>2 DEF Scheduled
<1>4. \A a \in Addresses : Live(a)' <=> a \in Pending \cup Scheduled' \cup Expired
  <2> TAKE a \in Addresses
  <2>1. CASE heap'[a] = heap[a]
    BY <1>1, <1>2, <1>3, <2>1 DEF OneOwner, Live
  <2>2. CASE heap'[a] # heap[a]
    BY <1>1, <1>2, <2>2 DEF OneOwner, Live
  <2> QED BY <2>1, <2>2
<1>5. Pending \cup Scheduled' \cup Expired \subseteq Addresses
  BY <1>1, <1>3 DEF OneOwner
<1> QED BY <1>1, <1>2, <1>3, <1>4, <1>5 DEF OneOwner

LEMMA CancelLoopStep ==
  ASSUME IInv, NEW id \in ids, cancel(id)
  PROVE  IInv'
<1>1. /\ TypeOK /\ OneOwner /\ AddsMatch /\ Control
  BY DEF IInv
<1>2. /\ cancelInLoop(id)
      /\ UNCHANGED <<numCreated, batch, timerfd, now, remote, ids, wrongId>>
  BY DEF cancel
<1>3. UNCHANGED <<expired, toRun, started, pc, pendingFunctors, adding>>
  BY <1>2 DEF batch, remote
<1>4. id \in TimerId
  BY <1>1 DEF TypeOK
<1>5. /\ heap' \in [Addresses -> Timer \cup {Freed}]
      /\ timers' \subseteq timers /\ activeTimers' \subseteq TimerId
      /\ cancelingTimers' \subseteq TimerId
      /\ asked' \subseteq TimerId /\ cancelled' \subseteq asked'
      /\ Agree' /\ Finite' /\ AllArmed' /\ CancelledGone' /\ Sequences'
      /\ \A a \in Addresses : heap'[a] # heap[a] => a \in Scheduled
  BY <1>2, <1>3, <1>4, CancelStep
<1>6. callingExpiredTimers' = callingExpiredTimers
  BY <1>2 DEF cancelInLoop
<1>7. AddsMatch' /\ Pending' = Pending
  <2>1. \A a \in Pending : heap'[a] = heap[a]
    BY <1>1, <1>5 DEF OneOwner
  <2> QED BY <1>1, <1>3, <2>1, AddsKept
<1>8. OneOwner'
  BY <1>2, <1>3, <1>4, <1>7, CancelOwners
<1>9. TypeOK'
  BY <1>1, <1>2, <1>3, <1>5, <1>6 DEF TypeOK
<1>10. Control'
  BY <1>1, <1>3, <1>6 DEF Control
<1> QED BY <1>5, <1>7, <1>8, <1>9, <1>10 DEF IInv

LEMMA CallFunctorStep ==
  ASSUME IInv, CallFunctor
  PROVE  IInv'
<1> PICK f : f = Head(pendingFunctors)
  OBVIOUS
<1> DEFINE a == f.id[1]
<1>1. /\ TypeOK /\ Agree /\ OneOwner /\ AddsMatch /\ CancelledGone /\ Sequences /\ Control
      /\ Finite /\ AllArmed
  BY DEF IInv
<1>2. /\ pc = "loop"
      /\ pendingFunctors # <<>>
      /\ pendingFunctors' = Tail(pendingFunctors)
      /\ UNCHANGED <<numCreated, batch, now, adding, ids, wrongId>>
  BY DEF CallFunctor
<1>3. UNCHANGED <<expired, toRun, started, pc>>
  BY <1>2 DEF batch
<1>4. /\ f \in Call
      /\ pendingFunctors' \in Seq(Call)
      /\ f.op = "add" => Id(a) = f.id /\ a \in Pending /\ Pending' = Pending \ {a}
      /\ f.op # "add" => Pending' = Pending
  BY <1>1, <1>2, CalledAdds
<1>5. f.id \in TimerId /\ a \in Addresses
  BY <1>4, IdProperties DEF Call
<1>6. CASE f.op = "add"
  <2>1. /\ addTimerInLoop(heap, a)
        /\ UNCHANGED <<heap, cancelingTimers, callingExpiredTimers, history>>
    BY <1>6 DEF CallFunctor
  <2>2. Live(a) /\ a \notin Scheduled \cup Expired
    BY <1>1, <1>4, <1>6 DEF OneOwner
  <2>3. /\ timers' \subseteq Entry
        /\ activeTimers' \subseteq TimerId
        /\ timerfd' \in Nat \ {1}
        /\ Agree' /\ Finite' /\ AllArmed'
        /\ Scheduled' = Scheduled \cup {a}
        /\ Expired' = Expired
    <3>1. heap' \in [Addresses -> Timer \cup {Freed}] /\ addTimerInLoop(heap', a) /\ Live(a)'
      BY <1>1, <2>1, <2>2 DEF TypeOK, Live, addTimerInLoop, insert
    <3> QED BY <1>1, <1>2, <1>3, <1>5, <2>1, <2>2, <3>1, InsertStep
  <2>4. AddsMatch'
    BY <1>1, <1>2, <2>1, AddsAfterCall
  <2>5. OneOwner'
    BY <1>1, <1>4, <1>6, <2>1, <2>2, <2>3 DEF OneOwner, Live
  <2>6. TypeOK'
    BY <1>1, <1>2, <1>3, <1>4, <2>1, <2>3 DEF TypeOK, Call, history
  <2>7. Sequences' /\ Control' /\ CancelledGone'
    BY <1>1, <1>2, <1>3, <2>1, <2>3 DEF Sequences, Control, CancelledGone, Live, Id, history
  <2> QED BY <2>3, <2>4, <2>5, <2>6, <2>7 DEF IInv
<1>7. CASE f.op = "cancel"
  <2>1. cancelInLoop(f.id) /\ timerfd' = timerfd
    BY <1>7 DEF CallFunctor
  <2>2. /\ heap' \in [Addresses -> Timer \cup {Freed}]
        /\ timers' \subseteq timers /\ activeTimers' \subseteq TimerId
        /\ cancelingTimers' \subseteq TimerId
        /\ asked' \subseteq TimerId /\ cancelled' \subseteq asked'
        /\ Agree' /\ Finite' /\ AllArmed' /\ CancelledGone' /\ Sequences'
        /\ \A b \in Addresses : heap'[b] # heap[b] => b \in Scheduled
    BY <1>2, <1>3, <1>5, <2>1, CancelStep
  <2>3. callingExpiredTimers' = callingExpiredTimers
    BY <2>1 DEF cancelInLoop
  <2>4. AddsMatch'
    <3>1. \A b \in Pending' : heap'[b] = heap[b]
      BY <1>1, <1>4, <1>7, <2>2 DEF OneOwner
    <3> QED BY <1>1, <1>2, <3>1, AddsAfterCall
  <2>5. OneOwner'
    BY <1>2, <1>3, <1>4, <1>5, <1>7, <2>1, CancelOwners
  <2>6. TypeOK'
    BY <1>1, <1>2, <1>3, <1>4, <2>1, <2>2, <2>3 DEF TypeOK, Call
  <2>7. Control'
    BY <1>1, <1>3, <2>3 DEF Control
  <2> QED BY <2>2, <2>4, <2>5, <2>6, <2>7 DEF IInv
<1> QED BY <1>4, <1>6, <1>7 DEF Call

LEMMA HandleReadStep ==
  ASSUME IInv, HandleRead
  PROVE  IInv'
<1> DEFINE due == {e \in timers : e[1] <= now}
<1>1. /\ TypeOK /\ Agree /\ OneOwner /\ AddsMatch /\ CancelledGone /\ Sequences /\ Control
      /\ Finite /\ AllArmed
  BY DEF IInv
<1>2. /\ pc = "loop" /\ pc' = "expired"
      /\ timerfd' = Disarmed
      /\ expired' = due /\ toRun' = due
      /\ timers' = timers \ due
      /\ activeTimers' = activeTimers \ IdsOf(due)
      /\ started' = now
      /\ callingExpiredTimers' = TRUE
      /\ cancelingTimers' = {}
      /\ UNCHANGED <<heap, numCreated, now, remote, ids, history, wrongId>>
  BY DEF HandleRead
<1>3. UNCHANGED <<pendingFunctors, adding, asked, cancelled>>
  BY <1>2 DEF remote, history
<1>4. expired = {} /\ Expired = {}
  BY <1>1, <1>2 DEF Control, Expired
<1>5. \A d, e \in timers : d[2] = e[2] => d = e
  BY <1>1, OneEntryEach
<1>6. Agree'
  <2>1. ASSUME NEW id
        PROVE  id \in activeTimers' <=> id \in {Id(e[2]) : e \in timers'}
    <3>1. id \in activeTimers <=> \E e \in timers : id = Id(e[2])
      BY <1>1 DEF Agree, IdsOf
    <3>2. id \in IdsOf(due) <=> \E e \in due : id = Id(e[2])
      BY DEF IdsOf
    <3>3. \A e \in timers : Id(e[2])[1] = e[2]
      BY DEF Id, IdOf
    <3> QED BY <1>2, <1>5, <3>1, <3>2, <3>3
  <2>2. activeTimers' = {Id(e[2]) : e \in timers'}
    BY <2>1
  <2>3. \A e \in timers' \cup expired' : Matches(e)'
    BY <1>1, <1>2 DEF Agree, Matches, Live
  <2> QED BY <1>2, <2>2, <2>3 DEF Agree, IdsOf, Id
<1>7. /\ Scheduled' \cup Expired' = Scheduled
      /\ Scheduled' \cap Expired' = {}
  BY <1>2, <1>5 DEF Scheduled, Expired
<1>8. AddsMatch' /\ Pending' = Pending
  BY <1>1, <1>2, <1>3, AddsKept
<1>9. OneOwner'
  BY <1>1, <1>2, <1>4, <1>7, <1>8 DEF OneOwner, Live
<1>10. CancelledGone'
  BY <1>1, <1>2, <1>3, <1>4 DEF CancelledGone, Live, Id
<1>11. Sequences' /\ Control'
  BY <1>1, <1>2, ClockTypes DEF Sequences, Control
<1>12. Finite'
  BY <1>1, <1>2, FS_Subset DEF Finite
<1>13. AllArmed'
  BY <1>1, <1>2, ClockTypes, QueuedTypes DEF AllArmed, valid
<1>14. TypeOK'
  BY <1>1, <1>2, <1>3, ClockTypes DEF TypeOK, Disarmed
<1> QED BY <1>6, <1>8, <1>9, <1>10, <1>11, <1>12, <1>13, <1>14 DEF IInv

LEMMA RunTimerStep ==
  ASSUME IInv, RunTimer
  PROVE  IInv'
<1>1. /\ TypeOK /\ OneOwner /\ AddsMatch
  BY DEF IInv
<1>2. /\ pc # "loop" /\ pc' = "callback"
      /\ toRun' \subseteq toRun
      /\ UNCHANGED <<heap, numCreated, queue, expired, started, timerfd, now, remote, ids,
                     history, wrongId>>
  BY DEF RunTimer
<1>3. UNCHANGED <<timers, activeTimers, cancelingTimers, callingExpiredTimers,
                  pendingFunctors, adding, asked, cancelled>>
  BY <1>2 DEF queue, remote, history
<1>4. /\ Agree' /\ CancelledGone' /\ Sequences' /\ Control' /\ Finite' /\ AllArmed'
      /\ Scheduled' = Scheduled /\ Expired' = Expired
      /\ \A a \in Addresses : Live(a)' <=> Live(a)
  BY <1>1, <1>2, <1>3, QuietStep, ClockTypes
<1>5. AddsMatch' /\ Pending' = Pending
  BY <1>1, <1>2, <1>3, AddsKept
<1>6. OneOwner'
  BY <1>1, <1>4, <1>5 DEF OneOwner
<1>7. TypeOK'
  BY <1>1, <1>2, <1>3 DEF TypeOK
<1> QED BY <1>4, <1>5, <1>6, <1>7 DEF IInv

LEMMA TickStep ==
  ASSUME IInv, Tick
  PROVE  IInv'
<1>1. /\ TypeOK /\ OneOwner /\ AddsMatch
  BY DEF IInv
<1>2. /\ now < MaxTime /\ now' = now + 1
      /\ UNCHANGED <<heap, numCreated, queue, batch, timerfd, remote, ids, history, wrongId>>
  BY DEF Tick
<1>3. UNCHANGED <<timers, activeTimers, cancelingTimers, callingExpiredTimers, expired, toRun,
                  started, pc, pendingFunctors, adding, asked, cancelled>>
  BY <1>2 DEF queue, batch, remote, history
<1>4. now' \in Nat /\ now <= now' /\ now' \in 1..MaxTime
  BY <1>1, <1>2, ClockTypes, ConstantTypes
<1>5. /\ Agree' /\ CancelledGone' /\ Sequences' /\ Control' /\ Finite' /\ AllArmed'
      /\ Scheduled' = Scheduled /\ Expired' = Expired
      /\ \A a \in Addresses : Live(a)' <=> Live(a)
  BY <1>1, <1>2, <1>3, <1>4, QuietStep
<1>6. AddsMatch' /\ Pending' = Pending
  BY <1>1, <1>2, <1>3, AddsKept
<1>7. OneOwner'
  BY <1>1, <1>5, <1>6 DEF OneOwner
<1>8. TypeOK'
  <2>1. started \in 0..now'
    BY <1>1, <1>2, ClockTypes DEF TypeOK
  <2> QED BY <1>1, <1>2, <1>3, <1>4, <2>1 DEF TypeOK
<1> QED BY <1>5, <1>6, <1>7, <1>8 DEF IInv

\* A non-empty set of numbers has a first element.
LEMMA MinProperties ==
  ASSUME NEW S \in SUBSET Nat, S # {}
  PROVE  Min(S) \in S /\ \A n \in S : Min(S) <= n
<1>1. PICK m \in S : \A n \in S : <<n, m>> \notin OpToRel(<, Nat)
  BY NatLessThanWellFounded, WFMin
<1>2. ASSUME NEW n \in S
      PROVE  m <= n
  <2>1. OpToRel(<, Nat) = {pair \in Nat \X Nat : pair[1] < pair[2]}
    BY DEF OpToRel
  <2>2. <<n, m>> \in Nat \X Nat /\ <<n, m>> \notin OpToRel(<, Nat)
    BY <1>1
  <2>3. ~(<<n, m>>[1] < <<n, m>>[2])
    BY <2>1, <2>2, Zenon
  <2> QED BY <2>3
<1> QED BY <1>2 DEF Min

\* The first of some entries.
LEMMA EarliestProperties ==
  ASSUME NEW entries \in SUBSET Entry, entries # {}
  PROVE  /\ Earliest(entries) \in Nat
         /\ \E e \in entries : e[1] = Earliest(entries)
         /\ \A e \in entries : Earliest(entries) <= e[1]
<1> DEFINE times == {e[1] : e \in entries}
<1>1. times \in SUBSET Nat /\ times # {}
  BY EntryProperties
<1>2. Min(times) \in times /\ \A n \in times : Min(times) <= n
  BY <1>1, MinProperties
<1> QED BY <1>1, <1>2 DEF Earliest

LEMMA ResetStep ==
  ASSUME IInv, Reset
  PROVE  IInv'
<1> DEFINE again == {a \in Expired : Repeats(a)}
           New(a) == <<heap'[a].expiration, a>>
<1>1. /\ TypeOK /\ Agree /\ OneOwner /\ AddsMatch /\ CancelledGone /\ Sequences /\ Control
      /\ Finite /\ AllArmed
  BY DEF IInv
<1>2. /\ pc # "loop" /\ pc' = "loop"
      /\ toRun = {}
      /\ heap' = [a \in Addresses |-> IF a \in again THEN restart(heap[a])
                                      ELSE IF a \in Expired THEN Freed
                                      ELSE heap[a]]
      /\ insert(heap', again)
      /\ timerfd' = Rearmed(timers')
      /\ callingExpiredTimers' = FALSE
      /\ expired' = {}
      /\ UNCHANGED <<numCreated, cancelingTimers, toRun, started, now, remote, ids, history,
                     wrongId>>
  BY DEF Reset, Expired
<1>3. UNCHANGED <<pendingFunctors, adding, asked, cancelled>>
  BY <1>2 DEF remote, history
<1>4. /\ timers' = timers \cup {New(a) : a \in again}
      /\ activeTimers' = activeTimers \cup {IdOf(heap', a) : a \in again}
  BY <1>2 DEF insert
<1>5. again \subseteq Expired /\ Expired \subseteq Addresses /\ Expired' = {}
  BY <1>1, <1>2, OwnerTypes DEF Expired
<1>6. ASSUME NEW a \in again
      PROVE  /\ heap'[a] \in Timer /\ heap'[a] # Freed
             /\ heap'[a].sequence = heap[a].sequence
             /\ heap'[a].expiration \in Nat /\ heap'[a].expiration > 0
             /\ Id(a) \notin cancelingTimers
  <2>1. a \in Addresses /\ Live(a) /\ heap[a] \in Timer
    BY <1>1, <1>5, HeapProperties DEF OneOwner
  <2>2. heap[a].interval \in Nat /\ Id(a) \notin cancelingTimers
    BY <2>1, ConstantTypes DEF Repeats, Timer
  <2>3. started \in Nat /\ started > 0
    BY <1>1, <1>2, ClockTypes DEF Control
  <2>4. heap'[a] = restart(heap[a])
    BY <1>2, <2>1
  <2>5. restart(heap[a]) = [sequence |-> heap[a].sequence,
                            expiration |-> started + heap[a].interval,
                            interval |-> heap[a].interval]
    BY <2>1 DEF restart, Timer
  <2> QED BY <2>1, <2>2, <2>3, <2>4, <2>5 DEF Timer, Freed
<1>7. /\ \A a \in Expired \ again : heap'[a] = Freed
      /\ \A a \in Addresses \ Expired : heap'[a] = heap[a]
  BY <1>2, <1>5
<1>8. heap' \in [Addresses -> Timer \cup {Freed}]
  <2>1. \A a \in Addresses : heap'[a] \in Timer \cup {Freed}
    BY <1>1, <1>5, <1>6, <1>7 DEF TypeOK
  <2> QED BY <1>2, <2>1
<1> HIDE DEF again
<1>9. timers' \subseteq Entry /\ activeTimers' \subseteq TimerId
  <2>1. \A a \in again : New(a) \in Entry /\ IdOf(heap', a) \in TimerId
    BY <1>5, <1>6, HeapProperties, <1>1 DEF Entry, TimerId, IdOf
  <2> QED BY <1>1, <1>4, <2>1 DEF TypeOK
<1>10. \A e \in timers : e[2] \in Addresses \ Expired /\ heap'[e[2]] = heap[e[2]]
  BY <1>1, <1>7, QueuedTypes DEF OneOwner, Scheduled
<1>11. Agree'
  <2>1. \A e \in timers' : heap'[e[2]] # Freed /\ heap'[e[2]].expiration = e[1]
    BY <1>1, <1>4, <1>6, <1>10 DEF Agree, Matches, Live
  <2>2. ASSUME NEW id
        PROVE  id \in activeTimers' <=> \E e \in timers' : id = IdOf(heap', e[2])
    <3>1. id \in activeTimers <=> \E e \in timers : id = IdOf(heap', e[2])
      BY <1>1, <1>10 DEF Agree, IdsOf, Id, IdOf
    <3>2. \A a \in again : New(a)[2] = a
      OBVIOUS
    <3>3. id \in {IdOf(heap', a) : a \in again}
            <=> \E e \in {New(a) : a \in again} : id = IdOf(heap', e[2])
      BY <3>2
    <3> QED BY <1>4, <3>1, <3>3
  <2>3. activeTimers' = {IdOf(heap', e[2]) : e \in timers'}
    BY <2>2
  <2> QED BY <1>2, <2>1, <2>3 DEF Agree, IdsOf, Id, Matches, Live
<1>12. Scheduled' = Scheduled \cup again
  <2>1. \A a \in again : New(a)[2] = a
    OBVIOUS
  <2>2. {e[2] : e \in {New(a) : a \in again}} = again
    BY <2>1
  <2> QED BY <1>4, <2>2 DEF Scheduled
<1>13. AddsMatch' /\ Pending' = Pending
  <2>1. \A a \in Pending : heap'[a] = heap[a]
    BY <1>1, <1>7 DEF OneOwner
  <2> QED BY <1>1, <1>3, <2>1, AddsKept
<1>14. OneOwner'
  <2>1. \A a \in Addresses : Live(a)' <=> a \in again \/ (a \notin Expired /\ Live(a))
    BY <1>5, <1>6, <1>7 DEF Live
  <2> QED BY <1>1, <1>5, <1>12, <1>13, <2>1 DEF OneOwner
<1>15. CancelledGone'
  <2> SUFFICES ASSUME NEW id \in cancelled
               PROVE  /\ id[2] <= numCreated
                      /\ ~(heap'[id[1]] # Freed /\ IdOf(heap', id[1]) = id)
    BY <1>2, <1>3 DEF CancelledGone, Live, Id
  <2>1. id[1] \in Addresses
    BY <1>1, IdProperties DEF TypeOK
  <2>2. ASSUME heap'[id[1]] # Freed, IdOf(heap', id[1]) = id
        PROVE  FALSE
    <3>1. CASE id[1] \in again
      <4>1. Id(id[1]) = id /\ Live(id[1]) /\ Id(id[1]) \notin cancelingTimers
        BY <1>1, <1>5, <1>6, <2>1, <2>2, <3>1 DEF Id, IdOf, OneOwner
      <4> QED BY <1>1, <4>1 DEF CancelledGone
    <3>2. CASE id[1] \in Expired \ again
      BY <1>7, <2>2, <3>2
    <3>3. CASE id[1] \notin Expired
      <4>1. Id(id[1]) = id /\ Live(id[1])
        BY <1>7, <2>1, <2>2, <3>3 DEF Id, IdOf, Live
      <4> QED BY <1>1, <3>3, <4>1 DEF CancelledGone
    <3> QED BY <3>1, <3>2, <3>3
  <2> QED BY <1>1, <2>2 DEF CancelledGone
<1>16. Sequences'
  <2>1. Freed.sequence <= numCreated
    BY <1>1, ClockTypes DEF Freed
  <2> QED BY <1>1, <1>2, <1>5, <1>6, <1>7, <2>1 DEF Sequences
<1>17. Control'
  BY <1>2 DEF Control
<1>18. Finite'
  <2> DEFINE S == {e \in expired : e[2] \in again}
             T == {New(a) : a \in again}
             g == [e \in S |-> New(e[2])]
  <2>1. IsFiniteSet(S)
    BY <1>1, FS_Subset DEF Finite
  <2>2. \A a \in again : \E e \in S : e[2] = a
    BY <1>5 DEF Expired
  <2>3. g \in Surjection(S, T)
    <3>1. g \in [S -> T]
      OBVIOUS
    <3>2. ASSUME NEW x \in T
          PROVE  \E e \in S : g[e] = x
      <4>1. PICK a \in again : x = New(a)
        OBVIOUS
      <4>2. PICK e \in S : e[2] = a
        BY <2>2
      <4> QED BY <4>1, <4>2
    <3> QED BY <3>1, <3>2 DEF Surjection
  <2>4. IsFiniteSet(T)
    BY <2>1, <2>3, FS_Surjection
  <2>5. IsFiniteSet(timers \cup T)
    BY <1>1, <2>4, FS_Union DEF Finite
  <2> QED BY <1>2, <1>4, <2>5, FS_EmptySet DEF Finite
<1>19. timerfd' \in Nat \ {1} /\ AllArmed'
  <2>1. CASE timers' = {}
    BY <1>1, <1>2, <2>1 DEF AllArmed, Rearmed, TypeOK
  <2>2. CASE timers' # {}
    <3> DEFINE first == Earliest(timers')
    <3>1. /\ first \in Nat
          /\ \E e \in timers' : e[1] = first
          /\ \A e \in timers' : first <= e[1] /\ e[1] \in Nat
      BY <1>9, <2>2, EarliestProperties, EntryProperties
    <3>2. timerfd' = IF valid(first) THEN resetTimerfd(first) ELSE timerfd
      BY <1>2, <2>2 DEF Rearmed
    <3> HIDE DEF first
    <3>3. CASE valid(first)
      <4>1. /\ timerfd' \in Nat \ {0, 1}
            /\ timerfd' <= first \/ timerfd' = now + 1
        BY <1>1, <3>1, <3>2, <3>3, ResetProperties
      <4>2. \A e \in timers' : timerfd' <= e[1] \/ timerfd' <= now' + 1
        BY <1>1, <1>2, <3>1, <4>1, ClockTypes
      <4> QED BY <4>1, <4>2 DEF AllArmed, ArmedFor, Disarmed
    <3>4. CASE ~valid(first)
      <4>1. PICK e \in timers' : e[1] = first /\ ~valid(e[1])
        BY <3>1, <3>4
      <4>2. e \in timers
        BY <1>4, <1>6, <4>1 DEF valid
      <4>3. timerfd # Disarmed /\ (timerfd <= 0 \/ timerfd <= now + 1)
        BY <1>1, <3>1, <4>1, <4>2 DEF AllArmed, ArmedFor, valid
      <4>4. timerfd \in Nat \ {0, 1} /\ timerfd <= now + 1
        BY <1>1, <4>3, ClockTypes DEF TypeOK, Disarmed
      <4> QED BY <1>2, <3>2, <3>4, <4>3, <4>4 DEF AllArmed, ArmedFor
    <3> QED BY <3>3, <3>4
  <2> QED BY <2>1, <2>2
<1>20. TypeOK'
  BY <1>1, <1>2, <1>3, <1>8, <1>9, <1>19 DEF TypeOK
<1> QED BY <1>11, <1>13, <1>14, <1>15, <1>16, <1>17, <1>18, <1>19, <1>20 DEF IInv

-----------------------------------------------------------------------------
(* The theorems.                                                           *)

LEMMA InitStep == Init => IInv
<1> SUFFICES ASSUME Init
             PROVE  IInv
  OBVIOUS
<1>1. TypeOK
  <2>1. pendingFunctors \in Seq([op : {"add", "cancel"}, id : TimerId])
    BY DEF Init
  <2>2. heap \in [Addresses -> Timer \cup {Freed}] /\ adding \in [Callers -> TimerId \cup {None}]
    BY DEF Init
  <2>3. /\ numCreated \in 0..MaxTimers /\ now \in 1..MaxTime /\ started \in 0..now
        /\ timerfd \in Nat \ {1}
    BY ConstantTypes DEF Init, Disarmed
  <2> QED BY <2>1, <2>2, <2>3 DEF Init, TypeOK
<1>2. Agree
  BY DEF Init, Agree, IdsOf
<1>3. OneOwner
  <2>1. Pending = {} /\ Scheduled = {} /\ Expired = {}
    BY DEF Init, Pending, Scheduled, Expired
  <2> QED BY <2>1 DEF Init, OneOwner, Live
<1>4. AddsMatch /\ CancelledGone /\ Sequences /\ Control /\ AllArmed
  BY DEF Init, AddsMatch, CancelledGone, Sequences, Control, AllArmed, Freed
<1>5. Finite
  BY FS_EmptySet DEF Init, Finite
<1> QED BY <1>1, <1>2, <1>3, <1>4, <1>5 DEF IInv

LEMMA NextStep == IInv /\ [Next]_vars => IInv'
<1> SUFFICES ASSUME IInv, [Next]_vars
             PROVE  IInv'
  OBVIOUS
<1>1. CASE \E a \in Addresses, when \in Whens, interval \in Intervals \cup {NoRepeat} :
             \/ addTimer(a, when, interval)
             \/ \E t \in Callers : addTimerRemotely(t, a, when, interval)
  BY <1>1, AddTimerStep, AddTimerRemotelyStep
<1>2. CASE \E t \in Callers : ReturnTimerId(t)
  BY <1>2, ReturnTimerIdStep
<1>3. CASE \E id \in ids : cancel(id) \/ \E t \in Callers : cancelRemotely(t, id)
  BY <1>3, CancelLoopStep, CancelRemotelyStep
<1>4. CASE CallFunctor
  BY <1>4, CallFunctorStep
<1>5. CASE HandleRead
  BY <1>5, HandleReadStep
<1>6. CASE RunTimer
  BY <1>6, RunTimerStep
<1>7. CASE Reset
  BY <1>7, ResetStep
<1>8. CASE Tick
  BY <1>8, TickStep
<1>9. CASE UNCHANGED vars
  <2>1. UNCHANGED <<heap, numCreated, timers, activeTimers, cancelingTimers,
                    callingExpiredTimers, expired, toRun, started, pc, timerfd, now,
                    pendingFunctors, adding, ids, asked, cancelled, wrongId>>
    BY <1>9 DEF vars, queue, batch, remote, history
  <2>2. TypeOK /\ OneOwner /\ AddsMatch
    BY DEF IInv
  <2>3. /\ Agree' /\ CancelledGone' /\ Sequences' /\ Control' /\ Finite' /\ AllArmed'
        /\ Scheduled' = Scheduled /\ Expired' = Expired
        /\ \A a \in Addresses : Live(a)' <=> Live(a)
    BY <2>1, <2>2, QuietStep, ClockTypes
  <2>4. AddsMatch' /\ Pending' = Pending
    BY <2>1, <2>2, AddsKept
  <2>5. OneOwner'
    BY <2>2, <2>3, <2>4 DEF OneOwner
  <2>6. TypeOK'
    BY <2>1, <2>2 DEF TypeOK
  <2> QED BY <2>3, <2>4, <2>5, <2>6 DEF IInv
<1> QED BY <1>1, <1>2, <1>3, <1>4, <1>5, <1>6, <1>7, <1>8, <1>9 DEF Next

LEMMA Invariance == Spec => []IInv
BY InitStep, NextStep, PTL DEF Spec

\* The variables keep their types; the timerfd is never set to a time before the next.
THEOREM TimerTypeInvariance == Spec => []TypeOK
<1>1. IInv => TypeOK
  BY DEF IInv
<1> QED BY <1>1, Invariance, PTL

\* The two sets of the queue hold the same timers: its asserts hold.
THEOREM SetsAgreeTheorem == Spec => []SetsAgree
<1>1. ASSUME IInv
      PROVE  SetsAgree
  <2>1. /\ TypeOK /\ Agree /\ Finite
    BY <1>1 DEF IInv
  <2>2. Cardinality(timers) = Cardinality(activeTimers)
    BY <2>1, SameSizes DEF Finite
  <2> QED BY <2>1, <2>2 DEF Agree, Matches, SetsAgree
<1> QED BY <1>1, Invariance, PTL

\* No Timer is leaked, used after its delete or deleted twice.
THEOREM OneOwnerTheorem == Spec => []OneOwner
<1>1. IInv => OneOwner
  BY DEF IInv
<1> QED BY <1>1, Invariance, PTL

\* A timer cancelled while the queue held it is never scheduled again.
THEOREM CancelledStaysCancelledTheorem == Spec => []CancelledStaysCancelled
<1>1. ASSUME IInv, NEW e \in timers, Id(e[2]) \in cancelled
      PROVE  FALSE
  <2>1. e[2] \in Scheduled /\ e[2] \notin Expired /\ Live(e[2]) /\ Id(e[2])[1] = e[2]
    BY <1>1 DEF IInv, Agree, Matches, OneOwner, Scheduled, Id, IdOf
  <2> QED BY <1>1, <2>1 DEF IInv, CancelledGone
<1>2. IInv => CancelledStaysCancelled
  BY <1>1 DEF CancelledStaysCancelled
<1> QED BY <1>2, Invariance, PTL

\* Outside handleRead the timerfd is armed for the first timer, or at once.
THEOREM ArmedTheorem == Spec => []Armed
<1>1. ASSUME IInv, pc = "loop", timers # {}
      PROVE  /\ timerfd # Disarmed
             /\ timerfd <= Max({Earliest(timers), now + 1})
  <2> DEFINE first == Earliest(timers)
  <2>1. TypeOK /\ AllArmed
    BY <1>1 DEF IInv
  <2>2. first \in Nat /\ \E e \in timers : e[1] = first
    BY <1>1, <2>1, EarliestProperties DEF TypeOK
  <2>3. timerfd # Disarmed /\ (timerfd <= first \/ timerfd <= now + 1)
    BY <1>1, <2>1, <2>2 DEF AllArmed, ArmedFor
  <2> HIDE DEF first
  <2>4. Max({first, now + 1}) \in {first, now + 1}
        /\ first <= Max({first, now + 1}) /\ now + 1 <= Max({first, now + 1})
    <3>1. \E m \in {first, now + 1} : \A n \in {first, now + 1} : m >= n
      BY <2>1, <2>2, ClockTypes
    <3>2. /\ Max({first, now + 1}) \in {first, now + 1}
          /\ \A n \in {first, now + 1} : Max({first, now + 1}) >= n
      BY <3>1 DEF Max
    <3> QED BY <2>1, <2>2, <3>2, ClockTypes
  <2> QED BY <2>1, <2>2, <2>3, <2>4, ClockTypes DEF first
<1>2. IInv => Armed
  BY <1>1 DEF Armed
<1> QED BY <1>2, Invariance, PTL

\* A timer goes only by a cancel of its own id, or because it was called.
THEOREM OnlyOwnIdCancelsTheorem == Spec => OnlyOwnIdCancels
<1> DEFINE Own(a) == \/ Id(a) \in asked'
                     \/ a \in Expired /\ <<heap[a].expiration, a>> \notin toRun
<1>1. ASSUME IInv, [Next]_vars, NEW a \in Addresses, Live(a), heap'[a] # heap[a]
      PROVE  Own(a)
  <2>1. TypeOK
    BY <1>1 DEF IInv
  <2>2. ASSUME NEW id \in TimerId, cancelInLoop(id),
               UNCHANGED <<expired, numCreated, pc, now, timerfd>>
        PROVE  Own(a)
    <3>1. Id(a) = id
      BY <1>1, <2>2, CancelStep
    <3> QED BY <2>2, <3>1 DEF cancelInLoop
  <2>3. ASSUME NEW b \in Addresses, NEW when, NEW interval, CanCreate(b),
               heap' = [heap EXCEPT ![b] = NewTimer(when, interval)]
        PROVE  FALSE
    BY <1>1, <2>1, <2>3 DEF CanCreate, TypeOK
  <2>4. CASE \E b \in Addresses, when \in Whens, interval \in Intervals \cup {NoRepeat} :
               \/ addTimer(b, when, interval)
               \/ \E t \in Callers : addTimerRemotely(t, b, when, interval)
    BY <2>3, <2>4 DEF addTimer, addTimerRemotely
  <2>5. CASE \E id \in ids : cancel(id) \/ \E t \in Callers : cancelRemotely(t, id)
    <3>1. CASE \E id \in ids : cancel(id)
      BY <2>1, <2>2, <3>1 DEF TypeOK, cancel, batch
    <3> QED BY <1>1, <2>5, <3>1 DEF cancelRemotely
  <2>6. CASE CallFunctor
    <3>1. PICK f : f = Head(pendingFunctors)
      OBVIOUS
    <3>2. f.id \in TimerId
      BY <1>1, <2>1, <2>6, <3>1, CalledAdds DEF IInv, CallFunctor, Call
    <3> QED BY <1>1, <2>2, <2>6, <3>1, <3>2 DEF CallFunctor, batch
  <2>7. CASE Reset
    BY <1>1, <2>7 DEF Reset, Expired
  <2>8. CASE HandleRead \/ RunTimer \/ Tick \/ UNCHANGED vars
              \/ \E t \in Callers : ReturnTimerId(t)
    BY <1>1, <2>8 DEF HandleRead, RunTimer, Tick, vars, ReturnTimerId
  <2> QED BY <1>1, <2>4, <2>5, <2>6, <2>7, <2>8 DEF Next
<1>2. IInv /\ [Next]_vars =>
        [\A a \in Addresses : Live(a) /\ heap'[a] # heap[a] => Own(a)]_vars
  BY <1>1
<1> QED BY <1>2, Invariance, PTL DEF Spec, OnlyOwnIdCancels

\* The batch has only timers whose time had come when handleRead began.
Due == \A e \in expired : e[1] <= started

\* A timer that handleRead calls exists, at the time it was asked for or later,
\* whatever the callbacks before it have cancelled and added.
CalledInTime == [][\A e \in toRun \ toRun' : Matches(e) /\ e[1] <= now]_vars

THEOREM CalledInTimeTheorem == Spec => CalledInTime
<1>1. Init => Due
  BY DEF Init, Due
<1>2. ASSUME IInv, Due, [Next]_vars
      PROVE  Due'
  <2>1. CASE UNCHANGED <<expired, started>>
    BY <1>2, <2>1 DEF Due
  <2>2. CASE HandleRead
    BY <2>2 DEF HandleRead, Due
  <2>3. CASE Reset
    BY <2>3 DEF Reset, Due
  <2>4. CASE Next /\ ~HandleRead /\ ~Reset
    BY <2>1, <2>4 DEF Next, addTimer, addTimerRemotely, ReturnTimerId, cancel, cancelRemotely,
       CallFunctor, RunTimer, Tick, batch
  <2> QED BY <1>2, <2>1, <2>2, <2>3, <2>4 DEF vars, batch
<1>3. ASSUME IInv, Due, [Next]_vars, NEW e \in toRun \ toRun'
      PROVE  Matches(e) /\ e[1] <= now
  <2>1. TypeOK /\ e \in expired
    BY <1>3 DEF IInv, TypeOK
  <2>2. Matches(e) /\ e[1] <= started
    BY <1>3, <2>1 DEF IInv, Agree, Due
  <2>3. started <= now /\ started \in Nat /\ now \in Nat /\ e[1] \in Nat
    BY <2>1, ClockTypes, QueuedTypes DEF TypeOK
  <2> QED BY <2>2, <2>3
<1>4. IInv /\ Due /\ [Next]_vars => [\A e \in toRun \ toRun' : Matches(e) /\ e[1] <= now]_vars
  BY <1>3
<1> QED BY <1>1, <1>2, <1>4, Invariance, PTL DEF Spec, CalledInTime
=============================================================================
