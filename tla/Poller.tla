------------------------------- MODULE Poller -------------------------------
(***************************************************************************)
(* cppnetool::net::Poller and the part of Channel it works with: the array *)
(* pollfds_ given to poll(2), the map channels_ from descriptors to        *)
(* channels, and the position index_ each channel remembers.  The loop     *)
(* thread makes all the calls, one after the other.                        *)
(*                                                                         *)
(* The clients are those of the library: a descriptor belongs to one       *)
(* channel at a time (Connector removes its channel before the connection  *)
(* that takes over the socket makes its own), a channel is disabled when   *)
(* it is removed, and a removed channel is not used again.                 *)
(***************************************************************************)
EXTENDS Integers, Sequences, Functions

CONSTANTS
  Channels,  \* Channel objects (their addresses: a freed one is used again)
  Fds        \* file descriptors

ASSUME FdsAssumption == Fds \subseteq Nat

VARIABLES
  phase,           \* of each object: "free", "new", "registered" or "removed"
  fd,              \* Channel::fd_
  events,          \* Channel::events_
  index,           \* Channel::index_
  pollfds,         \* Poller::pollfds_, the fields fd and events
  channels,        \* Poller::channels_, a function from some of Fds
  activeChannels,  \* what the last poll() returned
  aborted,         \* an assert has failed
  asked            \* history: channels that have asked for events since they
                   \* were registered

vars == <<phase, fd, events, index, pollfds, channels, activeChannels, aborted,
          asked>>

objects == <<phase, fd, events, index>>

Event == {"read", "write"}

\* An entry of pollfds_; a descriptor f that poll(2) is to ignore is kept as -f - 1.
PollFd == [fd : Fds \cup {-f - 1 : f \in Fds}, events : SUBSET Event]

TypeOK ==
  /\ phase \in [Channels -> {"free", "new", "registered", "removed"}]
  /\ fd \in [Channels -> Fds \cup {-1}]
  /\ events \in [Channels -> SUBSET Event]
  /\ index \in [Channels -> Nat \cup {-1}]
  /\ pollfds \in Seq(PollFd)
  /\ DOMAIN channels \subseteq Fds
  /\ Range(channels) \subseteq Channels
  /\ activeChannels \in Seq(Channels)
  /\ aborted \in BOOLEAN
  /\ asked \subseteq Channels

Init ==
  /\ phase = [c \in Channels |-> "free"]
  /\ fd = [c \in Channels |-> -1]
  /\ events = [c \in Channels |-> {}]
  /\ index = [c \in Channels |-> -1]
  /\ pollfds = <<>>
  /\ channels = <<>>
  /\ activeChannels = <<>>
  /\ aborted = FALSE
  /\ asked = {}

-----------------------------------------------------------------------------
(* The negated form in which pollfds_ keeps a descriptor to be ignored.    *)

Ignored(f) == -f - 1

\* The descriptor an entry stands for, ignored or not.
Owner(f) == IF f < 0 THEN Ignored(f) ELSE f

Registered == {c \in Channels : phase[c] = "registered"}

-----------------------------------------------------------------------------
(* Channel.                                                                *)

\* The constructor, on a descriptor no other channel in use has.
Channel(c, f) ==
  /\ ~aborted
  /\ phase[c] = "free"
  /\ \A d \in Channels : phase[d] \in {"new", "registered"} => fd[d] # f
  /\ phase' = [phase EXCEPT ![c] = "new"]
  /\ fd' = [fd EXCEPT ![c] = f]
  /\ events' = [events EXCEPT ![c] = {}]
  /\ index' = [index EXCEPT ![c] = -1]
  /\ UNCHANGED <<pollfds, channels, activeChannels, aborted, asked>>

\* The destructor, of a channel that is not in the poller; the fields of freed
\* memory mean nothing.
DestroyChannel(c) ==
  /\ ~aborted
  /\ phase[c] \in {"new", "removed"}
  /\ phase' = [phase EXCEPT ![c] = "free"]
  /\ fd' = [fd EXCEPT ![c] = -1]
  /\ events' = [events EXCEPT ![c] = {}]
  /\ index' = [index EXCEPT ![c] = -1]
  /\ UNCHANGED <<pollfds, channels, activeChannels, aborted, asked>>

-----------------------------------------------------------------------------
(* Poller::updateChannel.                                                  *)

\* The asserts on a channel the poller knows already.
KnownAsserts(c) ==
  /\ fd[c] \in DOMAIN channels
  /\ channels[fd[c]] = c
  /\ index[c] \in 0..Len(pollfds) - 1
  /\ Owner(pollfds[index[c] + 1].fd) = fd[c]

UpdateAsserts(c) ==
  IF index[c] < 0 THEN fd[c] \notin DOMAIN channels ELSE KnownAsserts(c)

\* Mutant: the entry of a channel without interest is not negated.
Updated_NotNegated(c, ev) ==
  [pollfds EXCEPT ![index[c] + 1].events = ev]

\* pollfds_ after an update of a known channel: an entry is negated when the
\* channel wants nothing, and is never changed back.
Updated(c, ev) ==
  [pollfds EXCEPT ![index[c] + 1] =
     [fd |-> IF ev = {} THEN Ignored(fd[c]) ELSE @.fd, events |-> ev]]

\* Channel::update with the new set of events.
updateChannel(c, ev) ==
  /\ ~aborted
  /\ phase[c] \in {"new", "registered"}
  /\ events' = [events EXCEPT ![c] = ev]
  /\ aborted' = ~UpdateAsserts(c)
  /\ IF aborted'
     THEN UNCHANGED <<phase, index, pollfds, channels>>
     ELSE /\ phase' = [phase EXCEPT ![c] = "registered"]
          /\ IF index[c] < 0
             THEN /\ pollfds' = Append(pollfds, [fd |-> fd[c], events |-> ev])
                  /\ index' = [index EXCEPT ![c] = Len(pollfds)]
                  /\ channels' = [f \in DOMAIN channels \cup {fd[c]} |->
                                    IF f = fd[c] THEN c ELSE channels[f]]
             ELSE /\ pollfds' = Updated(c, ev)
                  /\ UNCHANGED <<index, channels>>
  /\ asked' = IF ev = {} THEN asked ELSE asked \cup {c}
  /\ UNCHANGED <<fd, activeChannels>>

enableReading(c)  == updateChannel(c, events[c] \cup {"read"})
enableWriting(c)  == updateChannel(c, events[c] \cup {"write"})
disableWriting(c) == updateChannel(c, events[c] \ {"write"})
disableAll(c)     == updateChannel(c, {})

-----------------------------------------------------------------------------
(* Poller::removeChannel.                                                  *)

\* pollfds_ without the entry of c: the last entry takes its place.
Dropped(c, entries) ==
  LET n == Len(entries)
  IN  SubSeq([entries EXCEPT ![index[c] + 1] = entries[n]], 1, n - 1)

\* The asserts, on the entries as disableAll() has left them, and the lookup of
\* the channel that moves: channels_ must hold it.
RemoveAsserts(c, entries) ==
  /\ KnownAsserts(c)
  /\ entries[index[c] + 1] = [fd |-> Ignored(fd[c]), events |-> {}]
  /\ index[c] + 1 # Len(entries) =>
       Owner(entries[Len(entries)].fd) \in DOMAIN channels \ {fd[c]}

\* Mutant: the channel that moves keeps its old index.
Moved_NotTold(c, entries) == index

\* index_ of every channel afterwards: the channel of the last entry is told its
\* new position (when c has the last entry, c's own index is left as it is).
Moved(c, entries) ==
  [index EXCEPT ![channels[Owner(entries[Len(entries)].fd)]] = index[c]]

\* Mutant: the descriptor is not erased.
Erased_NotErased(c) == channels

\* channels_.erase(channel->fd()).
Erased(c) == Restrict(channels, DOMAIN channels \ {fd[c]})

\* disableAll() and removeChannel(), as Connector::removeAndResetChannel and
\* TcpConnection::connectDestroyed call them.
removeChannel(c) ==
  LET entries == Updated(c, {})
  IN  /\ ~aborted
      /\ phase[c] = "registered"
      /\ events' = [events EXCEPT ![c] = {}]
      /\ aborted' = ~(UpdateAsserts(c) /\ RemoveAsserts(c, entries))
      /\ IF aborted'
         THEN UNCHANGED <<phase, index, pollfds, channels>>
         ELSE /\ pollfds' = Dropped(c, entries)
              /\ index' = Moved(c, entries)
              /\ channels' = Erased(c)
              /\ phase' = [phase EXCEPT ![c] = "removed"]
      /\ asked' = asked \ {c}
      /\ UNCHANGED <<fd, activeChannels>>

-----------------------------------------------------------------------------
(* Poller::poll and fillActiveChannels.                                    *)

\* poll(2) reports any of the entries that it does not ignore: also one without
\* interest, for an error or a hang-up.
Polled == {i \in DOMAIN pollfds : pollfds[i].fd >= 0}

\* The channel of an entry, and the asserts on the lookup.
ChannelAt(i) == channels[pollfds[i].fd]

FillAsserts(i) ==
  /\ pollfds[i].fd \in DOMAIN channels
  /\ fd[ChannelAt(i)] = pollfds[i].fd

\* The ready entries are looked up in ascending order; with none of them ready
\* (the timeout, a signal) the list stays empty.
poll ==
  /\ ~aborted
  /\ \E n \in 0..Len(pollfds) : \E ready \in [1..n -> Polled] :
       /\ \A j, k \in 1..n : j < k => ready[j] < ready[k]
       /\ aborted' = \E k \in 1..n : ~FillAsserts(ready[k])
       /\ activeChannels' = IF aborted' THEN activeChannels
                            ELSE [k \in 1..n |-> ChannelAt(ready[k])]
  /\ UNCHANGED <<pollfds, channels, asked, objects>>

-----------------------------------------------------------------------------

Next ==
  \/ \E c \in Channels, f \in Fds : Channel(c, f)
  \/ \E c \in Channels :
       \/ DestroyChannel(c)
       \/ enableReading(c) \/ enableWriting(c)
       \/ disableWriting(c) \/ disableAll(c)
       \/ removeChannel(c)
  \/ poll

Spec == Init /\ [][Next]_vars

-----------------------------------------------------------------------------
(* Properties.                                                             *)

\* The three records of one fact agree: every registered channel is found where
\* its index says, with its own descriptor and events, and under its descriptor
\* in channels_, and pollfds_ has no other entries.  Removing a channel moves
\* the last entry, so this is at risk whenever another channel is removed.
IndexConsistent ==
  /\ \A c \in Registered :
       /\ index[c] \in 0..Len(pollfds) - 1
       /\ Owner(pollfds[index[c] + 1].fd) = fd[c]
       /\ pollfds[index[c] + 1].events = events[c]
       /\ fd[c] \in DOMAIN channels
       /\ channels[fd[c]] = c
  /\ \A i \in DOMAIN pollfds : \E c \in Registered : index[c] = i - 1
  /\ \A f \in DOMAIN channels : \E c \in Registered : fd[c] = f

\* None of the asserts of updateChannel, removeChannel and fillActiveChannels
\* fails, and removeChannel never looks up a descriptor channels_ lacks, in any
\* sequence of calls the clients make.
AssertsHold == ~aborted

\* poll() reports a channel at most once, only a registered one, and not one
\* that asked for events and then disabled them: a disabled channel is silent
\* until it is removed, whatever moved in pollfds_ in between.
ActiveAreEnabled ==
  [][activeChannels' # activeChannels =>
       /\ IsInjective(activeChannels')
       /\ \A c \in Range(activeChannels') :
            c \in Registered /\ (c \in asked => events[c] # {})]_vars

\* What poll() is for ("change the interested IO events"): a channel that asks
\* for events is polled for them.
InterestIsPolled ==
  \A c \in Registered :
    events[c] # {} =>
      pollfds[index[c] + 1] = [fd |-> fd[c], events |-> events[c]]
=============================================================================
