---------------------------- MODULE PollerProofs ----------------------------
(***************************************************************************)
(* Proofs about Poller, for any set of channels and of file descriptors.   *)
(***************************************************************************)
EXTENDS Poller, SequenceTheorems, TLAPS

\* What the clients guarantee: channels in use have descriptors of their own, and
\* one that was never registered has no index yet.
OwnDescriptors ==
  /\ \A c, d \in Channels :
       /\ phase[c] \in {"new", "registered"}
       /\ phase[d] \in {"new", "registered"}
       /\ fd[c] = fd[d]
       => c = d
  /\ \A c \in Channels : phase[c] \in {"new", "registered"} => fd[c] \in Fds
  /\ \A c \in Channels : phase[c] = "new" => index[c] = -1

\* A channel that has asked for events since it was registered and wants none any
\* more has an entry that poll(2) ignores, wherever that entry has moved.
Silenced ==
  /\ asked \subseteq Registered
  /\ \A c \in asked : events[c] = {} => pollfds[index[c] + 1].fd < 0

\* The inductive invariant.
IInv ==
  /\ TypeOK
  /\ IndexConsistent
  /\ OwnDescriptors
  /\ Silenced
  /\ AssertsHold

-----------------------------------------------------------------------------
(* Facts about one state.                                                  *)

\* The encoding of an ignored descriptor can be undone, and is never mistaken for
\* a descriptor.
LEMMA Encoding ==
  \A f \in Fds : /\ Ignored(f) < 0
                 /\ Owner(Ignored(f)) = f
                 /\ Owner(f) = f
                 /\ f \in Int
BY FdsAssumption DEF Ignored, Owner

\* Two registered channels never share an entry.
LEMMA IndexInjective ==
  ASSUME IInv, NEW c \in Registered, NEW d \in Registered, index[c] = index[d]
  PROVE  c = d
<1>1. fd[c] = fd[d]
  BY DEF IInv, IndexConsistent
<1> QED BY <1>1 DEF IInv, OwnDescriptors, Registered

\* The asserts of updateChannel hold for a channel in use.
LEMMA UpdateAssertsHold ==
  ASSUME IInv, NEW c \in Channels, phase[c] \in {"new", "registered"}
  PROVE  UpdateAsserts(c)
<1>1. CASE phase[c] = "new"
  <2>1. index[c] < 0
    BY <1>1 DEF IInv, OwnDescriptors
  <2>2. fd[c] \notin DOMAIN channels
    BY <1>1 DEF IInv, IndexConsistent, OwnDescriptors, Registered
  <2> QED BY <2>1, <2>2 DEF UpdateAsserts
<1>2. CASE phase[c] = "registered"
  BY <1>2 DEF IInv, IndexConsistent, Registered, UpdateAsserts, KnownAsserts
<1> QED BY <1>1, <1>2

-----------------------------------------------------------------------------
(* Each operation keeps the invariant.                                     *)

\* The constructor and the destructor of a channel outside the poller.
LEMMA ObjectStep ==
  ASSUME IInv, NEW c \in Channels,
         DestroyChannel(c) \/ \E f \in Fds : Channel(c, f)
  PROVE  IInv'
<1> USE DEF IInv, TypeOK, AssertsHold
<1>1. /\ phase[c] # "registered"
      /\ phase' = [phase EXCEPT ![c] = phase'[c]]
      /\ phase'[c] \in {"new", "free"}
      /\ fd' = [fd EXCEPT ![c] = fd'[c]]
      /\ events' = [events EXCEPT ![c] = {}]
      /\ index' = [index EXCEPT ![c] = -1]
      /\ UNCHANGED <<pollfds, channels, activeChannels, aborted, asked>>
  BY DEF DestroyChannel, Channel
<1>2. Registered' = Registered /\ c \notin Registered
  BY <1>1 DEF Registered
<1>3. fd'[c] \in Fds \cup {-1}
  BY DEF DestroyChannel, Channel
<1>4. TypeOK'
  BY <1>1, <1>3
<1>5. \A d \in Registered : /\ fd'[d] = fd[d] /\ events'[d] = events[d]
                            /\ index'[d] = index[d]
  BY <1>1, <1>2 DEF Registered
<1>6. IndexConsistent'
  <2>1. UNCHANGED <<Registered, pollfds, channels>>
    BY <1>1, <1>2
  <2>2. \A d \in Registered : /\ index[d] \in 0..Len(pollfds) - 1
                              /\ Owner(pollfds[index[d] + 1].fd) = fd[d]
                              /\ pollfds[index[d] + 1].events = events[d]
                              /\ fd[d] \in DOMAIN channels
                              /\ channels[fd[d]] = d
    BY DEF IndexConsistent
  <2>3. /\ \A i \in DOMAIN pollfds : \E d \in Registered : index[d] = i - 1
        /\ \A f \in DOMAIN channels : \E d \in Registered : fd[d] = f
    BY DEF IndexConsistent
  <2> HIDE DEF IInv, TypeOK
  <2> QED BY <1>5, <2>1, <2>2, <2>3, SMTT(60) DEF IndexConsistent, Owner, Ignored
<1>7. OwnDescriptors'
  <2>1. CASE DestroyChannel(c)
    BY <2>1 DEF DestroyChannel, OwnDescriptors
  <2>2. ASSUME NEW f \in Fds, Channel(c, f) PROVE OwnDescriptors'
    <3>1. \A d \in Channels : phase[d] \in {"new", "registered"} => fd[d] # f
      BY <2>2 DEF Channel
    <3>2. /\ \A d \in Channels \ {c} : /\ phase'[d] = phase[d] /\ fd'[d] = fd[d]
                                       /\ index'[d] = index[d]
          /\ phase'[c] = "new" /\ fd'[c] = f /\ index'[c] = -1
      BY <2>2 DEF Channel
    <3> HIDE DEF IInv, TypeOK
    <3> QED BY <3>1, <3>2 DEF OwnDescriptors, IInv
  <2> QED BY <2>1, <2>2
<1>8. Silenced'
  <2>1. asked' = asked /\ asked \subseteq Registered /\ pollfds' = pollfds
    BY <1>1 DEF Silenced
  <2> HIDE DEF IInv, TypeOK
  <2> QED BY <1>2, <1>5, <2>1 DEF Silenced, IInv
<1> QED BY <1>1, <1>4, <1>6, <1>7, <1>8

\* updateChannel of a channel the poller does not know yet: an entry is appended.
LEMMA RegisterStep ==
  ASSUME IInv, NEW c \in Channels, NEW ev \in SUBSET Event, phase[c] = "new",
         updateChannel(c, ev)
  PROVE  IInv'
<1>0. aborted' = FALSE
  BY UpdateAssertsHold DEF updateChannel
<1>1. index[c] = -1 /\ c \notin Registered /\ fd[c] \in Fds
  BY DEF IInv, OwnDescriptors, Registered
<1> DEFINE entry == [fd |-> fd[c], events |-> ev]
<1>2. /\ phase' = [phase EXCEPT ![c] = "registered"]
      /\ events' = [events EXCEPT ![c] = ev]
      /\ index' = [index EXCEPT ![c] = Len(pollfds)]
      /\ pollfds' = Append(pollfds, entry)
      /\ channels' = [f \in DOMAIN channels \cup {fd[c]} |->
                        IF f = fd[c] THEN c ELSE channels[f]]
      /\ UNCHANGED <<fd, activeChannels>>
      /\ asked' \in SUBSET Channels
      /\ asked' = IF ev = {} THEN asked ELSE asked \cup {c}
  BY <1>0, <1>1 DEF updateChannel, IInv, TypeOK
<1>3. /\ pollfds \in Seq(PollFd)
      /\ entry \in PollFd
  BY <1>1 DEF IInv, TypeOK, PollFd
<1>4. /\ Len(pollfds') = Len(pollfds) + 1
      /\ Len(pollfds) \in Nat
      /\ pollfds' \in Seq(PollFd)
      /\ \A i \in 1..Len(pollfds) : pollfds'[i] = pollfds[i]
      /\ pollfds'[Len(pollfds) + 1] = entry
      /\ DOMAIN pollfds = 1..Len(pollfds)
      /\ DOMAIN pollfds' = 1..Len(pollfds) + 1
  BY <1>2, <1>3, AppendProperties
<1>5. TypeOK'
  <2>1. Range(channels') \subseteq Channels
    BY <1>2, ZenonT(60) DEF IInv, TypeOK, Range
  <2>2. DOMAIN channels' \subseteq Fds
    BY <1>1, <1>2 DEF IInv, TypeOK
  <2>3. index' \in [Channels -> Nat \cup {-1}]
    BY <1>2, <1>4 DEF IInv, TypeOK
  <2> QED BY <1>0, <1>2, <1>4, <2>1, <2>2, <2>3 DEF IInv, TypeOK
<1>6. /\ Registered' = Registered \cup {c}
      /\ \A d \in Registered : /\ index'[d] = index[d] /\ events'[d] = events[d]
                               /\ fd'[d] = fd[d] /\ d # c /\ fd[d] # fd[c]
      /\ index'[c] = Len(pollfds) /\ events'[c] = ev /\ fd'[c] = fd[c]
  BY <1>1, <1>2 DEF IInv, TypeOK, Registered, OwnDescriptors
<1>7. IndexConsistent'
  <2>1. ASSUME NEW d \in Registered'
        PROVE  /\ index'[d] \in 0..Len(pollfds') - 1
               /\ Owner(pollfds'[index'[d] + 1].fd) = fd'[d]
               /\ pollfds'[index'[d] + 1].events = events'[d]
               /\ fd'[d] \in DOMAIN channels'
               /\ channels'[fd'[d]] = d
    <3>1. CASE d = c
      BY <1>1, <1>2, <1>4, <1>6, <3>1, Encoding
    <3>2. CASE d \in Registered
      <4>1. /\ index[d] \in 0..Len(pollfds) - 1
            /\ Owner(pollfds[index[d] + 1].fd) = fd[d]
            /\ pollfds[index[d] + 1].events = events[d]
            /\ fd[d] \in DOMAIN channels
            /\ channels[fd[d]] = d
        BY <3>2 DEF IInv, IndexConsistent
      <4>2. pollfds'[index'[d] + 1] = pollfds[index[d] + 1]
        BY <1>4, <1>6, <3>2, <4>1
      <4> QED BY <1>2, <1>4, <1>6, <3>2, <4>1, <4>2
    <3> QED BY <1>6, <3>1, <3>2
  <2>2. \A i \in DOMAIN pollfds' : \E d \in Registered' : index'[d] = i - 1
    BY <1>4, <1>6 DEF IInv, IndexConsistent
  <2>3. \A f \in DOMAIN channels' : \E d \in Registered' : fd'[d] = f
    BY <1>2, <1>6 DEF IInv, IndexConsistent
  <2> QED BY <2>1, <2>2, <2>3 DEF IndexConsistent, Owner, Ignored
<1>8. OwnDescriptors'
  BY <1>1, <1>2 DEF IInv, TypeOK, OwnDescriptors
<1>9. Silenced'
  <2>1. asked \subseteq Registered /\ asked' \subseteq Registered'
    BY <1>2, <1>6 DEF IInv, Silenced
  <2>2. ASSUME NEW d \in asked', events'[d] = {}
        PROVE  pollfds'[index'[d] + 1].fd < 0
    <3>1. d \in asked /\ d \in Registered
      BY <1>2, <1>6, <2>1, <2>2
    <3>2. index[d] \in 0..Len(pollfds) - 1 /\ pollfds[index[d] + 1].fd < 0
      BY <1>6, <2>2, <3>1 DEF IInv, IndexConsistent, Silenced
    <3>3. pollfds'[index'[d] + 1] = pollfds[index[d] + 1]
      BY <1>4, <1>6, <3>1, <3>2
    <3> QED BY <3>2, <3>3
  <2> QED BY <2>1, <2>2 DEF Silenced
<1> QED BY <1>0, <1>5, <1>7, <1>8, <1>9 DEF IInv, AssertsHold

\* Setting the entry of a registered channel changes no other entry.
LEMMA UpdatedProperties ==
  ASSUME IInv, NEW c \in Registered, NEW ev \in SUBSET Event
  PROVE  /\ Updated(c, ev) \in Seq(PollFd)
         /\ Len(Updated(c, ev)) = Len(pollfds)
         /\ \A i \in 1..Len(pollfds) :
              i # index[c] + 1 => Updated(c, ev)[i] = pollfds[i]
         /\ Owner(Updated(c, ev)[index[c] + 1].fd) = fd[c]
         /\ Updated(c, ev)[index[c] + 1].events = ev
         /\ ev = {} => Updated(c, ev)[index[c] + 1].fd = Ignored(fd[c])
         /\ ev = {} => Updated(c, ev)[index[c] + 1].fd < 0
<1>1. /\ pollfds \in Seq(PollFd)
      /\ index[c] + 1 \in 1..Len(pollfds)
      /\ Owner(pollfds[index[c] + 1].fd) = fd[c]
      /\ fd[c] \in Fds
  BY DEF IInv, TypeOK, IndexConsistent, OwnDescriptors, Registered
<1> DEFINE entry == [fd |-> IF ev = {} THEN Ignored(fd[c])
                            ELSE pollfds[index[c] + 1].fd,
                     events |-> ev]
<1>2. pollfds[index[c] + 1] \in PollFd
  BY <1>1, ElementOfSeq
<1>3. entry \in PollFd /\ Owner(entry.fd) = fd[c]
  BY <1>1, <1>2, Encoding DEF PollFd, Ignored
<1>4. Updated(c, ev) = [pollfds EXCEPT ![index[c] + 1] = entry]
  BY <1>1 DEF Updated
<1> HIDE DEF entry
<1>5. /\ Updated(c, ev) \in Seq(PollFd)
      /\ Len(Updated(c, ev)) = Len(pollfds)
      /\ \A i \in 1..Len(pollfds) :
           Updated(c, ev)[i] = IF i = index[c] + 1 THEN entry ELSE pollfds[i]
  BY <1>1, <1>3, <1>4, ExceptSeq
<1> QED BY <1>1, <1>3, <1>5, Encoding DEF entry

\* updateChannel of a registered channel.
LEMMA UpdateStep ==
  ASSUME IInv, NEW c \in Channels, NEW ev \in SUBSET Event, c \in Registered,
         updateChannel(c, ev)
  PROVE  IInv'
<1>0. aborted' = FALSE
  BY UpdateAssertsHold DEF updateChannel
<1>1. index[c] \in Nat /\ phase[c] = "registered"
  BY LenProperties DEF IInv, TypeOK, IndexConsistent, Registered
<1>2. /\ UNCHANGED <<phase, fd, index, channels, activeChannels>>
      /\ events' = [events EXCEPT ![c] = ev]
      /\ pollfds' = Updated(c, ev)
      /\ asked' \in SUBSET Channels
      /\ asked' = IF ev = {} THEN asked ELSE asked \cup {c}
  <2>1. /\ phase' = [phase EXCEPT ![c] = "registered"]
        /\ pollfds' = Updated(c, ev)
        /\ UNCHANGED <<fd, index, channels, activeChannels>>
        /\ events' = [events EXCEPT ![c] = ev]
        /\ asked' = IF ev = {} THEN asked ELSE asked \cup {c}
    BY <1>0, <1>1 DEF updateChannel
  <2> QED BY <1>1, <2>1 DEF IInv, TypeOK
<1>3. /\ pollfds' \in Seq(PollFd)
      /\ Len(pollfds') = Len(pollfds)
      /\ \A i \in 1..Len(pollfds) : i # index[c] + 1 => pollfds'[i] = pollfds[i]
      /\ Owner(pollfds'[index[c] + 1].fd) = fd[c]
      /\ pollfds'[index[c] + 1].events = ev
      /\ DOMAIN pollfds' = DOMAIN pollfds
      /\ Len(pollfds) \in Nat
  BY <1>2, UpdatedProperties, LenProperties DEF IInv, TypeOK
<1>4. TypeOK'
  BY <1>0, <1>2, <1>3 DEF IInv, TypeOK
<1>5. IndexConsistent'
  <2>1. ASSUME NEW d \in Registered
        PROVE  /\ index[d] \in 0..Len(pollfds') - 1
               /\ Owner(pollfds'[index[d] + 1].fd) = fd[d]
               /\ pollfds'[index[d] + 1].events = events'[d]
    <3>1. /\ index[d] \in 0..Len(pollfds) - 1
          /\ Owner(pollfds[index[d] + 1].fd) = fd[d]
          /\ pollfds[index[d] + 1].events = events[d]
      BY DEF IInv, IndexConsistent
    <3>2. CASE d = c
      BY <1>2, <1>3, <3>1, <3>2 DEF IInv, TypeOK
    <3>3. CASE d # c
      <4>1. index[d] # index[c]
        BY <3>3, IndexInjective
      <4>2. pollfds'[index[d] + 1] = pollfds[index[d] + 1]
        BY <1>1, <1>3, <3>1, <4>1
      <4> QED BY <1>2, <1>3, <3>1, <3>3, <4>2 DEF IInv, TypeOK, Registered
    <3> QED BY <3>2, <3>3
  <2>2. Registered' = Registered
    BY <1>2 DEF Registered
  <2> QED BY <1>2, <1>3, <2>1, <2>2 DEF IInv, IndexConsistent, Owner, Ignored
<1>6. OwnDescriptors'
  BY <1>2 DEF IInv, OwnDescriptors
<1>7. Silenced'
  <2>1. asked \subseteq Registered /\ asked' \subseteq Registered'
    BY <1>2 DEF IInv, Silenced, Registered
  <2>2. ASSUME NEW d \in asked', events'[d] = {}
        PROVE  pollfds'[index[d] + 1].fd < 0
    <3>1. CASE d = c
      <4>1. ev = {}
        BY <1>2, <2>2, <3>1 DEF IInv, TypeOK
      <4> QED BY <1>2, <3>1, <4>1, UpdatedProperties
    <3>2. CASE d # c
      <4>1. d \in asked /\ d \in Registered /\ events[d] = {}
        BY <1>2, <2>1, <2>2, <3>2 DEF IInv, TypeOK, Registered
      <4>2. index[d] \in 0..Len(pollfds) - 1 /\ pollfds[index[d] + 1].fd < 0
        BY <4>1 DEF IInv, IndexConsistent, Silenced
      <4>3. index[d] # index[c]
        BY <3>2, <4>1, IndexInjective
      <4>4. pollfds'[index[d] + 1] = pollfds[index[d] + 1]
        BY <1>1, <1>3, <4>2, <4>3
      <4> QED BY <4>2, <4>4
    <3> QED BY <3>1, <3>2
  <2> QED BY <1>2, <2>1, <2>2 DEF Silenced
<1> QED BY <1>0, <1>4, <1>5, <1>6, <1>7 DEF IInv, AssertsHold

\* The channel of the last entry, as removeChannel looks it up.
LEMMA LastChannel ==
  ASSUME IInv, NEW c \in Registered
  PROVE  \E m \in Registered :
           /\ index[m] = Len(pollfds) - 1
           /\ Owner(Updated(c, {})[Len(pollfds)].fd) = fd[m]
           /\ channels[fd[m]] = m
           /\ fd[m] \in DOMAIN channels
<1>1. /\ index[c] \in 0..Len(pollfds) - 1
      /\ Len(pollfds) \in Nat
      /\ DOMAIN pollfds = 1..Len(pollfds)
  BY LenProperties DEF IInv, TypeOK, IndexConsistent
<1>2. Len(pollfds) \in DOMAIN pollfds
  BY <1>1
<1>3. PICK m \in Registered : index[m] = Len(pollfds) - 1
  BY <1>2 DEF IInv, IndexConsistent
<1>4. /\ Owner(pollfds[index[m] + 1].fd) = fd[m]
      /\ channels[fd[m]] = m
      /\ fd[m] \in DOMAIN channels
  BY DEF IInv, IndexConsistent
<1>5. index[m] + 1 = Len(pollfds)
  BY <1>1, <1>3
<1>6. Owner(Updated(c, {})[Len(pollfds)].fd) = fd[m]
  <2>1. CASE m = c
    BY <1>5, <2>1, UpdatedProperties
  <2>2. CASE m # c
    <3>1. index[m] # index[c]
      BY <2>2, IndexInjective
    <3>2. Len(pollfds) # index[c] + 1
      BY <1>1, <1>3, <3>1
    <3>3. Updated(c, {})[Len(pollfds)] = pollfds[Len(pollfds)]
      BY <1>1, <1>2, <3>2, UpdatedProperties
    <3> QED BY <1>4, <1>5, <3>3
  <2> QED BY <2>1, <2>2
<1> QED BY <1>3, <1>4, <1>6

\* removeChannel: its asserts hold, and the entry that moves takes the index of
\* its channel with it.
LEMMA RemoveStep ==
  ASSUME IInv, NEW c \in Channels, removeChannel(c)
  PROVE  IInv'
<1> DEFINE entries == Updated(c, {})
           n == Len(pollfds)
           k == index[c] + 1
<1>1. c \in Registered /\ phase[c] = "registered"
  BY DEF removeChannel, Registered
<1>2. /\ k \in 1..n
      /\ n \in Nat
      /\ index[c] \in Nat
      /\ index[c] = k - 1
      /\ fd[c] \in Fds
  <2>1. /\ index[c] \in 0..Len(pollfds) - 1
        /\ Len(pollfds) \in Nat
    BY <1>1, LenProperties DEF IInv, TypeOK, IndexConsistent
  <2> QED BY <1>1, <2>1 DEF IInv, OwnDescriptors
<1>3. /\ entries \in Seq(PollFd)
      /\ Len(entries) = n
      /\ \A i \in 1..n : i # k => entries[i] = pollfds[i]
      /\ entries[k].fd = Ignored(fd[c])
      /\ entries[k].events = {}
  BY <1>1, UpdatedProperties
<1>4. PICK m \in Registered : /\ index[m] = n - 1
                              /\ Owner(entries[n].fd) = fd[m]
                              /\ channels[fd[m]] = m
                              /\ fd[m] \in DOMAIN channels
  BY <1>1, LastChannel
<1>5. m = c <=> k = n
  BY <1>1, <1>2, <1>4, IndexInjective
<1>6. RemoveAsserts(c, entries)
  <2>1. KnownAsserts(c)
    BY <1>1 DEF KnownAsserts, IInv, IndexConsistent
  <2>2. entries[k] = [fd |-> Ignored(fd[c]), events |-> {}]
    <3>1. entries[k] \in PollFd
      BY <1>2, <1>3, ElementOfSeq
    <3> QED BY <1>3, <3>1 DEF PollFd
  <2>3. k # n => fd[m] # fd[c]
    BY <1>1, <1>5 DEF IInv, OwnDescriptors, Registered
  <2> QED BY <1>3, <1>4, <2>1, <2>2, <2>3 DEF RemoveAsserts
<1>7. aborted' = FALSE
  BY <1>1, <1>6, UpdateAssertsHold DEF removeChannel
<1>8. /\ pollfds' = Dropped(c, entries)
      /\ index' = [index EXCEPT ![m] = index[c]]
      /\ channels' = [f \in DOMAIN channels \ {fd[c]} |-> channels[f]]
      /\ phase' = [phase EXCEPT ![c] = "removed"]
      /\ events' = [events EXCEPT ![c] = {}]
      /\ asked' = asked \ {c}
      /\ UNCHANGED <<fd, activeChannels>>
  BY <1>3, <1>4, <1>7 DEF removeChannel, Moved, Erased, Restrict
<1>9. /\ pollfds' \in Seq(PollFd)
      /\ Len(pollfds') = n - 1
      /\ DOMAIN pollfds' = 1..n - 1
      /\ \A i \in 1..n - 1 :
           pollfds'[i] = IF i = k THEN entries[n] ELSE pollfds[i]
  <2> DEFINE swapped == [entries EXCEPT ![k] = entries[n]]
  <2>1. n \in 1..n /\ entries[n] \in PollFd
    BY <1>2, <1>3, ElementOfSeq
  <2>2. /\ swapped \in Seq(PollFd)
        /\ Len(swapped) = n
        /\ \A i \in 1..n : swapped[i] = IF i = k THEN entries[n] ELSE entries[i]
    BY <1>2, <1>3, <2>1, ExceptSeq
  <2>3. pollfds' = SubSeq(swapped, 1, n - 1)
    BY <1>3, <1>8 DEF Dropped
  <2> HIDE DEF entries, swapped
  <2>4. \A i \in 1..n - 1 : swapped[i] \in PollFd
    BY <1>2, <2>2, ElementOfSeq
  <2>5. /\ pollfds' \in Seq(PollFd)
        /\ Len(pollfds') = n - 1
        /\ \A i \in 1..n - 1 : pollfds'[i] = swapped[i]
    BY <1>2, <2>2, <2>3, <2>4
  <2> QED BY <1>2, <1>3, <2>2, <2>5, LenProperties, SMTT(60)
<1> HIDE DEF entries, n, k
<1>10. TypeOK'
  <2>1. index' \in [Channels -> Nat \cup {-1}]
    BY <1>2, <1>8 DEF IInv, TypeOK
  <2>2. DOMAIN channels' \subseteq Fds /\ Range(channels') \subseteq Channels
    BY <1>8, ZenonT(60) DEF IInv, TypeOK, Range
  <2> QED BY <1>7, <1>8, <1>9, <2>1, <2>2 DEF IInv, TypeOK
<1>11. Registered' = Registered \ {c}
  BY <1>8 DEF Registered, IInv, TypeOK
<1>12. ASSUME NEW d \in Registered, d # c
      PROVE  /\ index'[d] \in 0..Len(pollfds') - 1
             /\ Owner(pollfds'[index'[d] + 1].fd) = fd[d]
             /\ pollfds'[index'[d] + 1].events = events[d]
             /\ fd[d] \in DOMAIN channels'
             /\ channels'[fd[d]] = d
             /\ pollfds'[index'[d] + 1] = pollfds[index[d] + 1]
  <2>1. /\ index[d] \in 0..n - 1
        /\ Owner(pollfds[index[d] + 1].fd) = fd[d]
        /\ pollfds[index[d] + 1].events = events[d]
        /\ fd[d] \in DOMAIN channels
        /\ channels[fd[d]] = d
    BY DEF IInv, IndexConsistent, n
  <2>2. fd[d] # fd[c]
    BY <1>1, <1>12 DEF IInv, OwnDescriptors, Registered
  <2>3. fd[d] \in DOMAIN channels' /\ channels'[fd[d]] = d
    BY <1>8, <2>1, <2>2
  <2>4. CASE d = m
    <3>1. k # n /\ index'[d] = k - 1
      BY <1>2, <1>5, <1>8, <1>12, <2>4 DEF IInv, TypeOK, Registered
    <3>2. pollfds'[k] = entries[n] /\ entries[n] = pollfds[n]
      BY <1>2, <1>3, <1>9, <3>1
    <3>3. index[d] + 1 = n /\ index'[d] + 1 = k /\ index'[d] \in 0..n - 2
      BY <1>2, <1>4, <2>4, <3>1
    <3>4. index'[d] \in 0..Len(pollfds') - 1
      BY <1>2, <1>9, <3>3
    <3>5. pollfds'[index'[d] + 1] = pollfds[index[d] + 1]
      BY <3>2, <3>3
    <3>6. /\ Owner(pollfds'[index'[d] + 1].fd) = fd[d]
          /\ pollfds'[index'[d] + 1].events = events[d]
      BY <2>1, <3>5
    <3> QED BY <2>3, <3>4, <3>5, <3>6
  <2>5. CASE d # m
    <3>1. index[d] # index[m] /\ index[d] # index[c]
      BY <1>1, <1>12, <2>5, IndexInjective
    <3>2. index'[d] = index[d]
      BY <1>8, <2>5 DEF IInv, TypeOK, Registered
    <3>3. index[d] + 1 \in 1..n - 1 /\ index[d] + 1 # k
      BY <1>2, <1>4, <2>1, <3>1
    <3>4. pollfds'[index[d] + 1] = pollfds[index[d] + 1]
      BY <1>9, <3>3
    <3>5. index[d] \in 0..(n - 1) - 1
      BY <1>2, <2>1, <3>3
    <3> QED BY <1>9, <2>1, <2>3, <3>2, <3>4, <3>5
  <2> QED BY <2>4, <2>5
<1>13. IndexConsistent'
  <2>2. ASSUME NEW i \in 1..n - 1
        PROVE  \E d \in Registered \ {c} : index'[d] = i - 1
    <3>1. CASE i = k
      <4>1. m # c /\ index'[m] = i - 1
        BY <1>2, <1>5, <1>8, <3>1 DEF IInv, TypeOK, Registered
      <4> QED BY <4>1
    <3>2. CASE i # k
      <4>1. i \in DOMAIN pollfds
        BY <1>2, LenProperties DEF IInv, TypeOK, n
      <4>2. PICK d \in Registered : index[d] = i - 1
        BY <4>1 DEF IInv, IndexConsistent
      <4>3. d # c /\ d # m
        BY <1>2, <1>4, <3>2, <4>2
      <4>4. index'[d] = i - 1
        BY <1>8, <4>2, <4>3 DEF IInv, TypeOK, Registered
      <4> QED BY <4>3, <4>4
    <3> QED BY <3>1, <3>2
  <2>3. \A f \in DOMAIN channels' : \E d \in Registered \ {c} : fd[d] = f
    BY <1>8 DEF IInv, IndexConsistent
  <2>4. \A d \in Registered \ {c} : events'[d] = events[d]
    BY <1>8 DEF IInv, TypeOK, Registered
  <2>5. ASSUME NEW d \in Registered'
        PROVE  /\ index'[d] \in 0..Len(pollfds') - 1
               /\ Owner(pollfds'[index'[d] + 1].fd) = fd'[d]
               /\ pollfds'[index'[d] + 1].events = events'[d]
               /\ fd'[d] \in DOMAIN channels'
               /\ channels'[fd'[d]] = d
    <3>1. d \in Registered /\ d # c
      BY <1>11
    <3>2. fd'[d] = fd[d] /\ events'[d] = events[d]
      BY <1>8, <2>4, <3>1
    <3> QED BY <1>12, <3>1, <3>2, Zenon
  <2>6. /\ \A i \in DOMAIN pollfds' : \E d \in Registered' : index'[d] = i - 1
        /\ \A f \in DOMAIN channels' : \E d \in Registered' : fd'[d] = f
    BY <1>8, <1>9, <1>11, <2>2, <2>3
  <2> QED BY <2>5, <2>6 DEF IndexConsistent, Owner, Ignored
<1>14. OwnDescriptors'
  <2>1. \A d \in Channels : /\ phase'[d] \in {"new", "registered"} =>
                                 phase'[d] = phase[d]
                            /\ phase[d] = "new" => index'[d] = index[d]
    BY <1>8 DEF IInv, TypeOK, Registered
  <2> QED BY <1>8, <2>1 DEF IInv, OwnDescriptors
<1>15. Silenced'
  <2>1. asked' \subseteq Registered'
    BY <1>8, <1>11 DEF IInv, Silenced
  <2>2. ASSUME NEW d \in asked', events'[d] = {}
        PROVE  pollfds'[index'[d] + 1].fd < 0
    <3>1. d \in asked /\ d \in Registered /\ d # c /\ events[d] = {}
      BY <1>8, <2>2 DEF IInv, TypeOK, Silenced, Registered
    <3>2. pollfds[index[d] + 1].fd < 0
      BY <3>1 DEF IInv, Silenced
    <3> QED BY <1>12, <3>1, <3>2
  <2> QED BY <2>1, <2>2 DEF Silenced
<1> QED BY <1>7, <1>10, <1>13, <1>14, <1>15 DEF IInv, AssertsHold

\* An entry that poll(2) does not ignore is the entry of a registered channel.
LEMMA PolledProperties ==
  ASSUME IInv, NEW i \in Polled
  PROVE  /\ FillAsserts(i)
         /\ ChannelAt(i) \in Registered
         /\ index[ChannelAt(i)] + 1 = i
         /\ i \in Nat
<1>1. i \in DOMAIN pollfds /\ pollfds[i].fd >= 0 /\ i \in Nat
  BY LenProperties DEF Polled, IInv, TypeOK
<1>2. PICK c \in Registered : index[c] = i - 1
  BY <1>1 DEF IInv, IndexConsistent
<1>3. /\ Owner(pollfds[index[c] + 1].fd) = fd[c]
      /\ fd[c] \in DOMAIN channels
      /\ channels[fd[c]] = c
  BY DEF IInv, IndexConsistent
<1>4. index[c] + 1 = i
  BY <1>1, <1>2
<1>5. pollfds[i].fd \in Int
  <2>1. pollfds[i] \in PollFd
    BY <1>1, ElementOfSeq, LenProperties DEF IInv, TypeOK
  <2>2. \A f \in Fds : f \in Int /\ -f - 1 \in Int
    BY FdsAssumption
  <2> QED BY <2>1, <2>2 DEF PollFd
<1>6. pollfds[i].fd = fd[c]
  BY <1>1, <1>3, <1>4, <1>5 DEF Owner
<1> QED BY <1>1, <1>3, <1>4, <1>6 DEF FillAsserts, ChannelAt

\* poll: the asserts of fillActiveChannels hold.
LEMMA PollStep ==
  ASSUME IInv, poll
  PROVE  IInv'
<1>1. \A i \in Polled : FillAsserts(i) /\ ChannelAt(i) \in Channels
  BY PolledProperties DEF Registered
<1>2. PICK n \in 0..Len(pollfds) : \E ready \in [1..n -> Polled] :
         /\ aborted' = \E k \in 1..n : ~FillAsserts(ready[k])
         /\ activeChannels' = IF aborted' THEN activeChannels
                              ELSE [k \in 1..n |-> ChannelAt(ready[k])]
  BY DEF poll
<1>3. PICK ready \in [1..n -> Polled] :
         /\ aborted' = \E k \in 1..n : ~FillAsserts(ready[k])
         /\ activeChannels' = IF aborted' THEN activeChannels
                              ELSE [k \in 1..n |-> ChannelAt(ready[k])]
  BY <1>2
<1>4. aborted' = FALSE
  BY <1>1, <1>3
<1>5. activeChannels' \in Seq(Channels)
  <2>1. n \in Nat
    BY LenProperties DEF IInv, TypeOK
  <2>2. \A k \in 1..n : ChannelAt(ready[k]) \in Channels
    BY <1>1
  <2>3. [k \in 1..n |-> ChannelAt(ready[k])] \in [1..n -> Channels]
    BY <2>2
  <2> QED BY <1>3, <1>4, <2>1, <2>3, SeqDef
<1>6. UNCHANGED <<pollfds, channels, asked, phase, fd, events, index>>
  BY DEF poll, objects
<1>7. TypeOK' /\ OwnDescriptors'
  BY <1>4, <1>5, <1>6 DEF IInv, TypeOK, OwnDescriptors
<1>8. IndexConsistent'
  BY <1>6 DEF IInv, IndexConsistent, Registered, Owner, Ignored
<1>9. Silenced'
  BY <1>6 DEF IInv, Silenced, Registered
<1> QED BY <1>4, <1>7, <1>8, <1>9 DEF IInv, AssertsHold

-----------------------------------------------------------------------------
(* The theorems.                                                           *)

\* The invariant is inductive.
LEMMA Invariance == Spec => []IInv
<1>1. Init => IInv
  <2> SUFFICES ASSUME Init PROVE IInv
    OBVIOUS
  <2>1. Registered = {} /\ DOMAIN pollfds = {} /\ DOMAIN channels = {}
    BY DEF Init, Registered
  <2>2. TypeOK
    BY <2>1, EmptySeq DEF Init, TypeOK, Range
  <2> QED
    BY <2>1, <2>2 DEF Init, IInv, IndexConsistent, OwnDescriptors, Silenced, AssertsHold
<1>2. IInv /\ [Next]_vars => IInv'
  <2> SUFFICES ASSUME IInv, [Next]_vars PROVE IInv'
    OBVIOUS
  <2>1. ASSUME NEW c \in Channels, NEW ev \in SUBSET Event, updateChannel(c, ev)
        PROVE  IInv'
    <3>1. phase[c] \in {"new", "registered"}
      BY <2>1 DEF updateChannel
    <3> QED BY <2>1, <3>1, RegisterStep, UpdateStep DEF Registered
  <2>2. ASSUME NEW c \in Channels,
               \/ enableReading(c) \/ enableWriting(c)
               \/ disableWriting(c) \/ disableAll(c)
        PROVE  IInv'
    <3>1. events[c] \in SUBSET Event
      BY DEF IInv, TypeOK
    <3>2. /\ events[c] \cup {"read"} \in SUBSET Event
          /\ events[c] \cup {"write"} \in SUBSET Event
          /\ events[c] \ {"write"} \in SUBSET Event
          /\ {} \in SUBSET Event
      BY <3>1 DEF Event
    <3> QED
      BY <2>1, <2>2, <3>2
      DEF enableReading, enableWriting, disableWriting, disableAll
  <2>3. CASE UNCHANGED vars
    BY <2>3 DEF vars, IInv, TypeOK, IndexConsistent, OwnDescriptors, Silenced, AssertsHold,
                Registered, Owner, Ignored
  <2> QED BY <2>2, <2>3, ObjectStep, RemoveStep, PollStep DEF Next
<1> QED BY <1>1, <1>2, PTL DEF Spec

\* index_, pollfds_ and channels_ agree after any sequence of updateChannel and
\* removeChannel calls, for any number of channels.
THEOREM IndexConsistentTheorem == Spec => []IndexConsistent
BY Invariance, PTL DEF IInv

\* No assert of updateChannel, removeChannel or fillActiveChannels ever fails.
THEOREM AssertsHoldTheorem == Spec => []AssertsHold
BY Invariance, PTL DEF IInv

\* Type correctness; in particular every entry of pollfds_ is a descriptor or the
\* encoding of an ignored one.
THEOREM PollerTypeInvariance == Spec => []TypeOK
BY Invariance, PTL DEF IInv

\* poll() reports a channel at most once, only a registered one, and none that has
\* disabled the events it had asked for, whatever moved in pollfds_ in between.
THEOREM ActiveAreEnabledTheorem == Spec => ActiveAreEnabled
<1>1. ASSUME IInv, poll
      PROVE  /\ IsInjective(activeChannels')
             /\ \A c \in Range(activeChannels') :
                  c \in Registered /\ (c \in asked => events[c] # {})
  <2>1. PICK n \in 0..Len(pollfds) : \E ready \in [1..n -> Polled] :
           /\ \A j, k \in 1..n : j < k => ready[j] < ready[k]
           /\ aborted' = \E k \in 1..n : ~FillAsserts(ready[k])
           /\ activeChannels' = IF aborted' THEN activeChannels
                                ELSE [k \in 1..n |-> ChannelAt(ready[k])]
    BY <1>1 DEF poll
  <2>2. PICK ready \in [1..n -> Polled] :
           /\ \A j, k \in 1..n : j < k => ready[j] < ready[k]
           /\ aborted' = \E k \in 1..n : ~FillAsserts(ready[k])
           /\ activeChannels' = IF aborted' THEN activeChannels
                                ELSE [k \in 1..n |-> ChannelAt(ready[k])]
    BY <2>1
  <2>3. \A k \in 1..n : /\ FillAsserts(ready[k])
                        /\ ChannelAt(ready[k]) \in Registered
                        /\ index[ChannelAt(ready[k])] + 1 = ready[k]
                        /\ ready[k] \in Nat
    BY <1>1, <2>2, PolledProperties
  <2>4. /\ DOMAIN activeChannels' = 1..n
        /\ \A k \in 1..n : activeChannels'[k] = ChannelAt(ready[k])
    BY <2>2, <2>3
  <2>5. ASSUME NEW j \in 1..n, NEW k \in 1..n, activeChannels'[j] = activeChannels'[k]
        PROVE  j = k
    <3>1. ready[j] = ready[k]
      BY <2>3, <2>4, <2>5
    <3>2. ~(j < k) /\ ~(k < j)
      BY <2>2, <2>3, <3>1
    <3> QED BY <3>2
  <2>6. ASSUME NEW k \in 1..n, ChannelAt(ready[k]) \in asked
        PROVE  events[ChannelAt(ready[k])] # {}
    <3>1. ready[k] \in Polled /\ pollfds[ready[k]].fd >= 0
      BY <2>2 DEF Polled
    <3>2. pollfds[ready[k]].fd \in Int
      <4>1. pollfds[ready[k]] \in PollFd
        BY <1>1, <3>1, ElementOfSeq, LenProperties DEF Polled, IInv, TypeOK
      <4>2. \A f \in Fds : f \in Int /\ -f - 1 \in Int
        BY FdsAssumption
      <4> QED BY <4>1, <4>2 DEF PollFd
    <3>3. ~(pollfds[ready[k]].fd < 0)
      BY <3>1, <3>2
    <3> QED BY <1>1, <2>3, <2>6, <3>3 DEF IInv, Silenced
  <2> QED BY <2>3, <2>4, <2>5, <2>6 DEF IsInjective, Range
<1>2. ASSUME Next, ~poll
      PROVE  activeChannels' = activeChannels
  BY <1>2 DEF Next, Channel, DestroyChannel, enableReading, enableWriting, disableWriting,
              disableAll, updateChannel, removeChannel
<1>3. IInv /\ [Next]_vars =>
        [activeChannels' # activeChannels =>
           /\ IsInjective(activeChannels')
           /\ \A c \in Range(activeChannels') :
                c \in Registered /\ (c \in asked => events[c] # {})]_vars
  BY <1>1, <1>2
<1> QED BY <1>3, Invariance, PTL DEF Spec, ActiveAreEnabled
=============================================================================
