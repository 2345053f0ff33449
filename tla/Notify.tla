------------------------------- MODULE Notify ------------------------------
(***************************************************************************)
(* The notifier of mptio/notify.  Inputs are registered in a slot array    *)
(* indexed by their file descriptor; mpt_notify_wait asks the system which *)
(* descriptors are ready, lets each of those inputs fetch its data (which  *)
(* may accept a connection and register another input) and leaves the      *)
(* inputs with something to dispatch in the wait array.                    *)
(*                                                                         *)
(* Everything runs in one thread.  What interleaves with it is the system: *)
(* data, connections and hangups arrive between any two steps.             *)
(***************************************************************************)
EXTENDS Integers, Sequences, FiniteSets, Functions

LOCAL INSTANCE TLC

CONSTANTS
  Streams,    \* inputs on connected sockets (mpt_stream_input)
  Listeners,  \* inputs on listening sockets (mpt_notify_bind)
  Single,     \* listeners that accept a single connection (negative nl)
  MaxFd,      \* number of file descriptors of the process
  MaxMsgs,    \* bound of the model: messages the peers send on all streams
  MaxConn,    \* bound of the model: connections requested from a listener
  Granule,    \* slots one allocation step of the slot buffer holds
  Modes,      \* choices of using epoll (TRUE) or poll() (FALSE)
  Null,       \* empty slot or wait entry
  Garbage     \* wait entry overwritten by other data

Inputs == Streams \cup Listeners
Fds == 0..(MaxFd - 1)

ASSUME NotifyAssumption ==
  /\ MaxFd \in Nat \ {0} /\ MaxMsgs \in Nat /\ MaxConn \in Nat
  /\ Granule \in Nat \ {0}
  /\ Modes \subseteq BOOLEAN
  /\ Streams \cap Listeners = {} /\ Single \subseteq Listeners
  /\ {Null, Garbage} \cap Inputs = {} /\ Null # Garbage

VARIABLES
  slot,    \* no->_slot: the input registered for a descriptor
  room,    \* slots the buffer of no->_slot has memory for
  fdused,  \* no->_fdused
  epoll,   \* no->_sysfd is an epoll instance: the configuration decides it
  epset,   \* descriptors the epoll instance watches
  wait,    \* no->_wait: inputs with data to dispatch
  state,   \* life of an input: "new", "open", "freed", "failed" (freed after an error)
           \* or when its registration fails "refused" or "lost" (open, not registered)
  fd,      \* descriptor of an open or lost input
  sent,    \* messages (connections) the peers of an input have sent
  unread,  \* of those, how many the system still holds
  part,    \* the system holds the beginning of another message
  hup,     \* the peer has closed its "half" of the connection, or it in "full"
  buf,     \* messages in the input's own queue
  done,    \* messages dispatched
  out,     \* the input's output queue holds replies
  poll     \* the call of mpt_notify_wait in progress

system == <<sent, unread, part, hup>>
notify == <<slot, room, fdused, epset, wait, epoll>>
inputs == <<state, fd, buf, done, out>>
nvars == <<notify, inputs, system, poll>>

NoPoll == [on |-> FALSE, all |-> FALSE, events |-> << >>, input |-> {}, slots |-> "current",
           found |-> << >>]

Init ==
  /\ slot = [f \in Fds |-> Null]
  /\ room = 0 /\ fdused = 0 /\ epset = {} /\ wait = << >> /\ epoll \in Modes
  /\ state = [i \in Inputs |-> "new"]
  /\ fd = [i \in Inputs |-> -1]
  /\ sent = [i \in Inputs |-> 0]
  /\ unread = [i \in Inputs |-> 0]
  /\ part = [i \in Inputs |-> FALSE]
  /\ hup = [i \in Inputs |-> "no"]
  /\ buf = [i \in Inputs |-> 0]
  /\ done = [i \in Inputs |-> 0]
  /\ out = [i \in Inputs |-> FALSE]
  /\ poll = NoPoll

Put(f, x, v) == [f EXCEPT ![x] = v]

-----------------------------------------------------------------------------
(* The system and the peers.                                               *)

Opened == {i \in Inputs : state[i] = "open"}
FreeFds == Fds \ {fd[i] : i \in Inputs}

\* open(), socket() and accept() give the lowest descriptor that is free.
LowestFd == {f \in FreeFds : \A g \in FreeFds : f <= g}

Readable(i) == unread[i] > 0 \/ part[i] \/ hup[i] # "no"

MaySend == FoldFunctionOnSet(+, 0, sent, Streams) < MaxMsgs

Send(i) ==
  /\ i \in Opened \cap Streams /\ hup[i] = "no" /\ MaySend
  /\ sent' = Put(sent, i, sent[i] + 1)
  /\ unread' = Put(unread, i, unread[i] + 1)
  /\ part' = Put(part, i, FALSE)
  /\ UNCHANGED <<hup, notify, inputs, poll>>

\* Bytes that do not complete a message.
SendPart(i) ==
  /\ i \in Opened \cap Streams /\ hup[i] = "no" /\ ~part[i] /\ MaySend
  /\ part' = Put(part, i, TRUE)
  /\ UNCHANGED <<sent, unread, hup, notify, inputs, poll>>

Hangup(i, how) ==
  /\ i \in Opened \cap Streams /\ hup[i] = "no"
  /\ hup' = Put(hup, i, how)
  /\ UNCHANGED <<sent, unread, part, notify, inputs, poll>>

Connect(l) ==
  /\ l \in Opened \cap Listeners /\ sent[l] < MaxConn
  /\ sent' = Put(sent, l, sent[l] + 1)
  /\ unread' = Put(unread, l, unread[l] + 1)
  /\ UNCHANGED <<part, hup, notify, inputs, poll>>

System ==
  \/ \E i \in Streams : Send(i) \/ SendPart(i) \/ \E how \in {"half", "full"} : Hangup(i, how)
  \/ \E l \in Listeners : Connect(l)

-----------------------------------------------------------------------------
(* mpt_notify_add and mpt_notify_clear, as changes of the notifier.        *)

\* Slots the buffer of a slot array has memory for when it must hold n.
Allocated(n) == ((n + Granule - 1) \div Granule) * Granule
Grows(f) == f >= room
Grown(f) == IF Grows(f) THEN Allocated(f + 1) ELSE room

\* Register input i on descriptor f.
mpt_notify_add(i, f) ==
  /\ slot' = Put(slot, f, i)
  /\ fdused' = fdused + 1
  /\ epset' = IF epoll THEN epset \cup {f} ELSE epset
  /\ state' = Put(state, i, "open")
  /\ fd' = Put(fd, i, f)

\* Mutant: the number of used descriptors is not lowered.
mpt_notify_clear_Kept(f, how) ==
  /\ slot' = Put(slot, f, Null)
  /\ epset' = epset \ {f}
  /\ state' = Put(state, slot[f], how)
  /\ fd' = Put(fd, slot[f], -1)
  /\ out' = Put(out, slot[f], FALSE)
  /\ UNCHANGED fdused

\* Drop the input of descriptor f, after an error or without one: its last
\* reference flushes the output and closes the descriptor, which takes it out of
\* the epoll instance.  The wait array is left as it is: the loop meant for it
\* searches the slots.
mpt_notify_clear(f, how) ==
  /\ slot' = Put(slot, f, Null)
  /\ fdused' = fdused - 1
  /\ epset' = epset \ {f}
  /\ state' = Put(state, slot[f], how)
  /\ fd' = Put(fd, slot[f], -1)
  /\ out' = Put(out, slot[f], FALSE)

-----------------------------------------------------------------------------
(* Calls of the program that uses the notifier.                            *)

\* mpt_notify_connect and mpt_notify_bind: open, create the input, register.
Open(i) ==
  /\ ~poll.on /\ state[i] = "new"
  /\ \E f \in LowestFd : mpt_notify_add(i, f) /\ room' = Grown(f)
  /\ UNCHANGED <<epoll, wait, buf, done, out, system, poll>>

\* The registration fails, before or after the slot buffer was enlarged: the
\* caller drops the input.
OpenFails(i) ==
  /\ ~poll.on /\ state[i] = "new"
  /\ \E f \in LowestFd : room' \in (IF room = 0 THEN {Grown(f)} ELSE {room, Grown(f)})
  /\ state' = Put(state, i, "refused")
  /\ UNCHANGED <<epoll, slot, fdused, epset, fd, wait, buf, done, out, system, poll>>

\* The slot buffer cannot be created: mpt_notify_add returns 0, which its
\* callers take for success.
OpenLost(i) ==
  /\ ~poll.on /\ state[i] = "new" /\ room = 0
  /\ \E f \in LowestFd : fd' = Put(fd, i, f)
  /\ state' = Put(state, i, "lost")
  /\ UNCHANGED <<notify, buf, done, out, system, poll>>

Clear(f) ==
  /\ ~poll.on /\ slot[f] # Null
  /\ mpt_notify_clear(f, "freed")
  /\ UNCHANGED <<epoll, room, wait, buf, done, system, poll>>

\* Drop all inputs, the buffers and the epoll instance.
mpt_notify_fini ==
  /\ ~poll.on
  /\ slot' = [f \in Fds |-> Null]
  /\ room' = 0 /\ fdused' = 0 /\ epset' = {} /\ wait' = << >>
  /\ state' = [i \in Inputs |-> IF state[i] = "open" THEN "freed" ELSE state[i]]
  /\ fd' = [i \in Inputs |-> IF state[i] = "open" THEN -1 ELSE fd[i]]
  /\ out' = [i \in Inputs |-> out[i] /\ state[i] # "open"]
  /\ UNCHANGED <<epoll, buf, done, system, poll>>

-----------------------------------------------------------------------------
(* mpt_notify_wait, one step per event.                                    *)

\* The descriptors the system reports.  Streams are registered with epoll for
\* input only; poll() is asked for what the caller wants, and to ask for all is
\* to ask for output as well, for which a connected socket is ready.
Ready(all) ==
  {f \in Fds : slot[f] # Null /\ (Readable(slot[f]) \/ (~epoll /\ all /\ slot[f] \in Streams))}

Orders(S) == Bijection(1..Cardinality(S), S)

Ascending(S) == {s \in Orders(S) : \A a, b \in DOMAIN s : a < b => s[a] < s[b]}

\* The slots in use: poll() gets them in ascending order.
Used == {f \in Fds : slot[f] # Null}

\* The entries of that list the loop after poll() visits: as many as are ready, from
\* the start of the list.
Polled(ready) == {f \in Used : Cardinality({g \in Used : g < f}) < Cardinality(ready)}

\* The events a call looks at.  epoll_wait reports the ready descriptors in an
\* order of its own; poll() reports in place which of its list are ready.
Events(all) ==
  IF epoll THEN Orders(Ready(all)) ELSE Ascending(Ready(all) \cap Polled(Ready(all)))

WaitStart(all) ==
  /\ ~poll.on /\ fdused > 0
  /\ Ready(all) # {}
  /\ \E s \in Events(all) :
       poll' = [on |-> TRUE, all |-> all, events |-> s,
                input |-> {f \in Used : Readable(slot[f])}, slots |-> "current",
                found |-> << >>]
  /\ UNCHANGED <<notify, inputs, system>>

\* Nothing is ready when the time is up: entries that still wait stay, but the
\* list for poll() was written over them.
WaitTimeout(all) ==
  /\ ~poll.on /\ fdused > 0
  /\ Ready(all) = {}
  /\ wait' = IF epoll THEN wait
             ELSE [k \in DOMAIN wait |-> IF k <= Cardinality(Used) THEN Garbage ELSE wait[k]]
  /\ UNCHANGED <<epoll, slot, room, fdused, epset, inputs, system, poll>>

\* The wait keeps the address of the slots: a buffer that grows is moved, and the
\* events that are left look for their inputs in the one that was released.
Address(moved) == IF moved THEN "moved" ELSE poll.slots

\* Mutant: an event is not passed over once it was handled.
Visited_Again(found, moved) ==
  [poll EXCEPT
     !.events = IF Len(@) > 1 THEN Append(Tail(@), Head(@)) ELSE << >>,
     !.slots = Address(moved), !.found = found]

Event == Head(poll.events)
Visited(found, moved) ==
  [poll EXCEPT !.events = Tail(@), !.slots = Address(moved), !.found = found]

\* The input of the event.  Released slots that nobody wrote to still hold it, as
\* only the event of a slot that is in use changes it during a wait.
Current == slot[Event]

Stream == poll.on /\ poll.events # << >> /\ Current \in Streams

\* Released slots may be in use for other data: an empty one passes the event over,
\* and a call through anything else is where the model, like the process, ends.
WaitStale ==
  /\ poll.on /\ poll.events # << >> /\ poll.slots = "moved"
  /\ poll' \in {Visited(poll.found, FALSE), [poll EXCEPT !.events = << >>, !.slots = "lost"]}
  /\ UNCHANGED <<notify, inputs, system>>

NoData == unread[Current] = 0 /\ ~part[Current]

\* The system reports input, and that output is possible when poll() was asked for all.
Input == Event \in poll.input
Output == ~epoll /\ poll.all

\* What is left of the output after it is flushed: that happens only when the
\* system reports that there is room.
Flushed == IF Output THEN {FALSE, out[Current]} ELSE {out[Current]}

\* streamNext: fetch what there is, data is reported even without a message.
StreamRead ==
  /\ Stream /\ Input /\ ~NoData
  /\ \E n \in 0..unread[Current] :
       /\ n = 0 => unread[Current] = 0
       /\ buf' = Put(buf, Current, buf[Current] + n)
       /\ unread' = Put(unread, Current, unread[Current] - n)
       /\ part' = Put(part, Current, part[Current] /\ n < unread[Current])
  /\ \E o \in Flushed : out' = Put(out, Current, o)
  /\ poll' = Visited(Append(poll.found, Current), FALSE)
  /\ UNCHANGED <<sent, hup, notify, state, fd, done>>

\* An input without data, or whose data could not be fetched, stays because of its
\* output: it is kept for replies that epoll was not asked to send when the hangup
\* was reported to a caller that asks for all, and reported itself when poll() let
\* it send and some are left.
Kept == epoll /\ poll.all /\ hup[Current] = "full" /\ out[Current]
Unsent == Output /\ out[Current]

StreamStays ==
  /\ Stream /\ Input
  /\ \/ Kept /\ poll' = Visited(poll.found, FALSE)
     \/ Unsent /\ poll' = Visited(Append(poll.found, Current), FALSE)
  /\ UNCHANGED <<notify, inputs, system>>

\* Mutant: an input that is cleared is reported as one with data.
StreamClosed_Listed ==
  /\ Stream /\ Input /\ NoData /\ ~Kept
  /\ mpt_notify_clear(Event, "freed")
  /\ poll' = Visited(Append(poll.found, Current), FALSE)
  /\ UNCHANGED <<epoll, room, wait, buf, done, system>>

\* Nothing is left to read: the input is cleared.
StreamClosed ==
  /\ Stream /\ Input /\ NoData /\ ~Kept
  /\ mpt_notify_clear(Event, "freed")
  /\ poll' = Visited(poll.found, FALSE)
  /\ UNCHANGED <<epoll, room, wait, buf, done, system>>

\* The input queue is full and cannot grow, or reading fails: the input is cleared
\* with whatever the system still holds for it.
StreamFails ==
  /\ Stream /\ Input
  /\ mpt_notify_clear(Event, "failed")
  /\ poll' = Visited(poll.found, FALSE)
  /\ UNCHANGED <<epoll, room, wait, buf, done, system>>

\* Only room for output was reported.  Nothing is sent: the input is cleared unless
\* it has output or any input, of which the model does not count single bytes.
StreamUnasked ==
  /\ Stream /\ ~Input
  /\ \/ UNCHANGED <<notify, inputs>>
     \/ /\ buf[Current] = 0 /\ ~out[Current]
        /\ mpt_notify_clear(Event, "freed")
        /\ UNCHANGED <<epoll, room, wait, buf, done>>
  /\ poll' = Visited(poll.found, FALSE)
  /\ UNCHANGED system

\* socket_next: accept, create a stream input, register it.  A listener for a
\* single connection is removed afterwards.
AcceptedSlots(i, f) ==
  IF Current \in Single THEN [Put(slot, f, i) EXCEPT ![Event] = Null] ELSE Put(slot, f, i)

Accepted(i, f) ==
  /\ slot' = AcceptedSlots(i, f)
  /\ fdused' = IF Current \in Single THEN fdused ELSE fdused + 1
  /\ epset' = IF epoll THEN (epset \cup {f}) \ (IF Current \in Single THEN {Event} ELSE {})
              ELSE epset
  /\ state' = [j \in Inputs |-> IF j = i THEN "open"
                                ELSE IF j = Current /\ j \in Single THEN "freed" ELSE state[j]]
  /\ fd' = [j \in Inputs |-> IF j = i THEN f
                             ELSE IF j = Current /\ j \in Single THEN -1 ELSE fd[j]]
  /\ UNCHANGED out

Accept ==
  /\ poll.on /\ poll.events # << >> /\ Current \in Listeners /\ unread[Current] > 0
  /\ unread' = Put(unread, Current, unread[Current] - 1)
  /\ \E i \in {j \in Streams : state[j] = "new"}, f \in LowestFd :
       /\ Accepted(i, f)
       /\ room' = Grown(f)
       /\ poll' = Visited(poll.found, Grows(f))
  /\ UNCHANGED <<epoll, sent, part, hup, wait, buf, done>>

\* No descriptor is left, no input can be created or the registration fails:
\* any of them removes the listener.
AcceptFails ==
  /\ poll.on /\ poll.events # << >> /\ Current \in Listeners /\ unread[Current] > 0
  /\ unread' = Put(unread, Current, unread[Current] - 1)
  /\ mpt_notify_clear(Event, "freed")
  /\ room' \in {room} \cup {Grown(f) : f \in LowestFd}
  /\ poll' = Visited(poll.found, room' # room)
  /\ UNCHANGED <<epoll, sent, part, hup, wait, buf, done>>

WaitEnd ==
  /\ poll.on /\ poll.events = << >> /\ poll.slots # "lost"
  /\ wait' = poll.found
  /\ poll' = NoPoll
  /\ UNCHANGED <<epoll, slot, room, fdused, epset, inputs, system>>

WaitStep ==
  \/ StreamRead \/ StreamStays \/ StreamClosed \/ StreamFails \/ StreamUnasked
  \/ Accept \/ AcceptFails \/ WaitStale \/ WaitEnd

-----------------------------------------------------------------------------
(* mpt_notify_next: the first entry that waits, taken out of the array.    *)

Waiting == {k \in DOMAIN wait : wait[k] # Null}
First == {k \in Waiting : \A j \in Waiting : k <= j}
Remaining(k) == Put(wait, k, Null)

\* The entries that are left when the empty ones are taken out.
Compact(w) == {[k \in DOMAIN s |-> w[s[k]]] : s \in Ascending({k \in DOMAIN w : w[k] # Null})}

\* streamDispatch of an input with a message, which may queue a reply; the caller
\* has the input wait again while there is another one, behind all the others.
Dispatch(i) ==
  /\ buf[i] > 0
  /\ \E reply \in BOOLEAN : out' = Put(out, i, out[i] \/ reply)
  /\ buf' = Put(buf, i, buf[i] - 1)
  /\ done' = Put(done, i, done[i] + 1)

Retry(i, w) == IF buf[i] > 1 THEN {Append(c, i) : c \in Compact(w)} ELSE {w}

\* A program that takes the next input and dispatches it by itself.
Take ==
  /\ ~poll.on
  /\ \E k \in First :
       /\ wait[k] \in Opened
       /\ Dispatch(wait[k])
       /\ wait' \in Retry(wait[k], Remaining(k))
  /\ UNCHANGED <<epoll, slot, room, fdused, epset, state, fd, system, poll>>

\* There is data, but no message yet.
TakePart ==
  /\ ~poll.on
  /\ \E k \in First :
       /\ wait[k] \in Opened /\ buf[wait[k]] = 0
       /\ wait' = Remaining(k)
  /\ UNCHANGED <<epoll, slot, room, fdused, epset, inputs, system, poll>>

Drained ==
  /\ ~poll.on /\ wait # << >> /\ Waiting = {}
  /\ wait' = << >>
  /\ UNCHANGED <<epoll, slot, room, fdused, epset, inputs, system, poll>>

-----------------------------------------------------------------------------
(* A program that calls the notifier in any order.                         *)

Program ==
  \/ \E i \in Inputs : Open(i) \/ OpenFails(i) \/ OpenLost(i)
  \/ \E f \in Fds : Clear(f)
  \/ mpt_notify_fini
  \/ \E all \in BOOLEAN : WaitStart(all) \/ WaitTimeout(all)
  \/ WaitStep
  \/ Take \/ TakePart \/ Drained

ApiNext == System \/ Program
ApiSpec == Init /\ [][ApiNext]_nvars

-----------------------------------------------------------------------------
Polls ==
  [on : BOOLEAN, all : BOOLEAN, events : Seq(Fds), input : SUBSET Fds,
   slots : {"current", "moved", "lost"}, found : Seq(Streams)]

TypeOK ==
  /\ slot \in [Fds -> Inputs \cup {Null}]
  /\ room \in Nat /\ fdused \in Nat /\ epset \subseteq Fds /\ epoll \in BOOLEAN
  /\ wait \in Seq(Inputs \cup {Null, Garbage})
  /\ state \in [Inputs -> {"new", "open", "refused", "lost", "freed", "failed"}]
  /\ fd \in [Inputs -> Fds \cup {-1}]
  /\ {sent, unread, buf, done} \subseteq [Inputs -> Nat]
  /\ {part, out} \subseteq [Inputs -> BOOLEAN]
  /\ hup \in [Inputs -> {"no", "half", "full"}]
  /\ \A i \in Inputs : buf[i] + done[i] + unread[i] <= sent[i]
  /\ poll \in Polls

\* The slot array and the descriptors agree: slot f holds exactly the open input
\* whose descriptor is f, whatever was closed, accepted or reused in between.
SlotsMatch ==
  \A f \in Fds, i \in Inputs : slot[f] = i <=> (state[i] = "open" /\ fd[i] = f)

\* _fdused is the number of occupied slots (the loop ends when it is 0 and asks
\* epoll for that many events), and epoll watches exactly their descriptors.
UsedCounted ==
  fdused = Cardinality(Used) /\ (epoll => epset = Used)

\* The tables of the notifier agree with the inputs that are open after any
\* order of mpt_notify_add, mpt_notify_clear, mpt_notify_fini and accepting,
\* and no message is counted twice on its way from the system to dispatch.
TablesAgree == TypeOK /\ SlotsMatch /\ UsedCounted

\* mpt_notify_wait only has the next() of an input read or accept while its
\* descriptor is ready: no later event can block the process after the handling of
\* an earlier one closed or registered descriptors.  A released slot buffer does not
\* spoil that, the call then happens with this input or with none that is known.
EventsReady ==
  \A k \in DOMAIN poll.events :
    LET f == poll.events[k] IN
    /\ slot[f] \in Opened
    /\ IF f \in poll.input THEN Readable(slot[f]) ELSE ~epoll /\ slot[f] \in Streams

\* Inputs that mpt_notify_next will return are open.  mpt_notify_clear does
\* not ensure it: it looks for a removed input in the slots, not here.
WaitEntriesLive == \A k \in Waiting : wait[k] \in Opened

\* Streams behave alike (for TLC).
Symmetry == Permutations(Streams)
=============================================================================
