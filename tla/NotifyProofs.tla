---------------------------- MODULE NotifyProofs ----------------------------
(***************************************************************************)
(* Proofs about the notifier and the event loop that drives it.            *)
(***************************************************************************)
EXTENDS EventLoop, FunctionTheorems, FiniteSetTheorems, TLAPS

\* A wait visits every event once, and between two waits there are none.
EventsDistinct ==
  /\ \A a, b \in DOMAIN poll.events : a # b => poll.events[a] # poll.events[b]
  /\ ~poll.on => poll.events = << >>

NotifyInv == TablesAgree /\ EventsReady /\ EventsDistinct

\* Descriptor f can be read without blocking, or was reported as writable alone.
Due(f) == /\ slot[f] \in Opened
          /\ IF f \in poll.input THEN Readable(slot[f]) ELSE ~epoll /\ slot[f] \in Streams

\* The values for no input and for a freed one are none of the inputs.
LEMMA Distinguished == Null \notin Inputs /\ Garbage \notin Inputs /\ Null # Garbage
  BY NotifyAssumption

\* The slots in use can be counted.
LEMMA UsedFinite == IsFiniteSet(Fds) /\ IsFiniteSet(Used) /\ Cardinality(Used) \in Nat
  <1>1. 0 \in Int /\ MaxFd - 1 \in Int
    BY NotifyAssumption
  <1>2. IsFiniteSet(Fds)
    BY <1>1, FS_Interval DEF Fds
  <1> QED
    BY <1>2, FS_Subset, FS_CardinalityType DEF Used

\* The lowest free descriptor has an empty slot and belongs to no input.
LEMMA FreeSlot ==
    ASSUME TypeOK, SlotsMatch, NEW f \in LowestFd
    PROVE  f \in Fds /\ slot[f] = Null /\ \A i \in Inputs : fd[i] # f
  BY DEF TypeOK, SlotsMatch, LowestFd, FreeFds

\* The input of a slot is open and has the descriptor of that slot.
LEMMA SlotOpen ==
    ASSUME TypeOK, SlotsMatch, NEW f \in Fds, slot[f] # Null
    PROVE  slot[f] \in Inputs /\ state[slot[f]] = "open" /\ fd[slot[f]] = f
  BY DEF TypeOK, SlotsMatch

\* `mpt_notify_add` with a new input keeps slots, descriptors and the use counter in
\* step.
LEMMA AddTables ==
    ASSUME TypeOK, SlotsMatch, UsedCounted, NEW i \in Inputs, state[i] = "new",
           NEW f \in LowestFd, mpt_notify_add(i, f), epoll' = epoll
    PROVE  /\ slot' \in [Fds -> Inputs \cup {Null}] /\ fdused' \in Nat /\ epset' \subseteq Fds
           /\ state' \in [Inputs -> {"new", "open", "refused", "lost", "freed", "failed"}]
           /\ fd' \in [Inputs -> Fds \cup {-1}]
           /\ SlotsMatch' /\ UsedCounted'
  <1>0. f \in Fds /\ slot[f] = Null /\ (\A j \in Inputs : fd[j] # f) /\ i # Null
    BY FreeSlot, Distinguished
  <1>1. /\ slot' = [slot EXCEPT ![f] = i] /\ fdused' = fdused + 1
        /\ epset' = IF epoll THEN epset \cup {f} ELSE epset
        /\ state' = [state EXCEPT ![i] = "open"] /\ fd' = [fd EXCEPT ![i] = f]
    BY DEF mpt_notify_add, Put
  <1>2. SlotsMatch'
    BY <1>0, <1>1 DEF TypeOK, SlotsMatch
  <1>3. Used' = Used \cup {f} /\ f \notin Used
    BY <1>0, <1>1 DEF TypeOK, Used
  <1>4. Cardinality(Used') = Cardinality(Used) + 1
    BY <1>3, UsedFinite, FS_AddElement
  <1>5. UsedCounted'
    BY <1>1, <1>3, <1>4 DEF UsedCounted
  <1> QED
    BY <1>0, <1>1, <1>2, <1>5 DEF TypeOK

\* `mpt_notify_clear` of a used slot keeps them in step: the input is closed and the
\* counter lowered.
LEMMA ClearTables ==
    ASSUME TypeOK, SlotsMatch, UsedCounted, NEW f \in Fds, slot[f] # Null,
           NEW how \in {"freed", "failed"}, mpt_notify_clear(f, how), epoll' = epoll
    PROVE  /\ slot' \in [Fds -> Inputs \cup {Null}] /\ fdused' \in Nat /\ epset' \subseteq Fds
           /\ state' \in [Inputs -> {"new", "open", "refused", "lost", "freed", "failed"}]
           /\ fd' \in [Inputs -> Fds \cup {-1}] /\ out' \in [Inputs -> BOOLEAN]
           /\ SlotsMatch' /\ UsedCounted'
  <1>0. slot[f] \in Inputs /\ state[slot[f]] = "open" /\ fd[slot[f]] = f
    BY SlotOpen
  <1>1. /\ slot' = [slot EXCEPT ![f] = Null] /\ fdused' = fdused - 1
        /\ epset' = epset \ {f} /\ state' = [state EXCEPT ![slot[f]] = how]
        /\ fd' = [fd EXCEPT ![slot[f]] = -1] /\ out' = [out EXCEPT ![slot[f]] = FALSE]
    BY DEF mpt_notify_clear, Put
  <1>2. SlotsMatch'
    BY <1>0, <1>1, Distinguished, SMTT(60) DEF TypeOK, SlotsMatch
  <1>3. Used' = Used \ {f} /\ f \in Used
    BY <1>0, <1>1 DEF TypeOK, Used
  <1>4. Cardinality(Used') = Cardinality(Used) - 1 /\ Cardinality(Used') \in Nat
    <2>1. IsFiniteSet(Used')
      BY <1>3, UsedFinite, FS_Subset
    <2> QED
      BY <1>3, <2>1, UsedFinite, FS_RemoveElement, FS_CardinalityType
  <1>5. UsedCounted' /\ fdused' \in Nat
    BY <1>1, <1>3, <1>4 DEF UsedCounted
  <1> QED
    BY <1>0, <1>1, <1>2, <1>5 DEF TypeOK

\* The slot array grows to a natural size.
LEMMA GrownSlots == ASSUME TypeOK, NEW f \in Fds PROVE Grown(f) \in Nat
  <1>1. f \in Nat /\ Granule \in Nat /\ Granule # 0
    BY NotifyAssumption DEF Fds
  <1>2. (f + 1 + Granule - 1) \div Granule \in Nat
    BY <1>1
  <1>3. Allocated(f + 1) \in Nat
    BY <1>1, <1>2 DEF Allocated
  <1> QED
    BY <1>3 DEF Grown, TypeOK

-----------------------------------------------------------------------------
(* What a step of a wait does to its events.                               *)

\* An order of a set lists each member once.
LEMMA OrderBijective ==
    ASSUME NEW S, NEW s \in Orders(S)
    PROVE  /\ s \in [1..Cardinality(S) -> S]
           /\ \A a, b \in 1..Cardinality(S) : a # b => s[a] # s[b]
           /\ \A x \in S : \E k \in 1..Cardinality(S) : s[k] = x
  <1>1. s \in Bijection(1..Cardinality(S), S)
    BY DEF Orders
  <1>2. s \in Surjection(1..Cardinality(S), S)
    BY <1>1, Fun_BijectionProperties
  <1>3. \A x \in S : \E k \in 1..Cardinality(S) : s[k] = x
    BY <1>2 DEF Surjection
  <1>4. /\ s \in [1..Cardinality(S) -> S]
        /\ \A a, b \in 1..Cardinality(S) : s[a] = s[b] => a = b
    BY <1>1, Fun_BijectionProperties
  <1> QED
    BY <1>3, <1>4

\* An order of descriptors is a sequence of descriptors without repetition.
LEMMA OrdersAreSeqs ==
    ASSUME NEW S, S \subseteq Fds, NEW s \in Orders(S)
    PROVE  /\ s \in Seq(Fds) /\ \A k \in DOMAIN s : s[k] \in S
           /\ \A a, b \in DOMAIN s : a # b => s[a] # s[b]
  <1>1. Cardinality(S) \in Nat
    BY UsedFinite, FS_Subset, FS_CardinalityType
  <1>2. s \in [1..Cardinality(S) -> S] /\ \A a, b \in 1..Cardinality(S) : a # b => s[a] # s[b]
    BY OrderBijective
  <1> QED
    BY <1>1, <1>2

\* When an event is taken from a wait, those left are still due and distinct, if
\* handling it changed no other descriptor.
LEMMA VisitEvents ==
    ASSUME NotifyInv, poll.on, poll.events # << >>, NEW found \in Seq(Streams),
           NEW moved \in BOOLEAN, poll' = Visited(found, moved),
           \A f \in Fds : f # Event /\ Due(f) => Due(f)'
    PROVE  /\ poll' \in Polls
           /\ EventsReady' /\ EventsDistinct'
  <1>1. poll \in Polls
    BY DEF NotifyInv, TablesAgree, TypeOK, Polls
  <1>2. /\ poll'.on = poll.on /\ poll'.all = poll.all /\ poll'.events = Tail(poll.events)
        /\ poll'.found = found /\ poll'.input = poll.input
        /\ poll' \in Polls
    <2>1. Tail(poll.events) \in Seq(Fds) /\ Address(moved) \in {"current", "moved", "lost"}
      BY <1>1 DEF Address, Polls
    <2> DEFINE E == Tail(poll.events)
               a == Address(moved)
    <2>2. poll' = [poll EXCEPT !.events = E, !.slots = a, !.found = found]
      BY DEF Visited
    <2> HIDE DEF E, a
    <2>3. /\ poll'.on = poll.on /\ poll'.all = poll.all /\ poll'.events = E
          /\ poll'.found = found /\ poll'.input = poll.input /\ poll.on \in BOOLEAN
      BY <1>1, <2>2 DEF Polls
    <2>4. E \in Seq(Fds) /\ a \in {"current", "moved", "lost"}
      BY <2>1 DEF E, a
    <2>5. poll' \in Polls
      BY <1>1, <2>2, <2>4 DEF Polls
    <2> QED
      BY <2>3, <2>5 DEF E
  <1>3. /\ \A k \in DOMAIN poll'.events :
              k \in Nat /\ k + 1 \in DOMAIN poll.events /\ poll'.events[k] = poll.events[k + 1]
        /\ 1 \in DOMAIN poll.events /\ Event = poll.events[1]
        /\ \A k \in DOMAIN poll'.events : k + 1 # 1
    BY <1>1, <1>2 DEF Event, Polls
  <1>4. \A k \in DOMAIN poll.events : poll.events[k] \in Fds /\ Due(poll.events[k])
    BY <1>1 DEF NotifyInv, EventsReady, Due, Polls
  <1>5. \A a, b \in DOMAIN poll.events : a # b => poll.events[a] # poll.events[b]
    BY DEF NotifyInv, EventsDistinct
  <1>6. EventsDistinct'
    <2>1. ASSUME NEW a \in DOMAIN poll'.events, NEW b \in DOMAIN poll'.events, a # b
          PROVE  poll'.events[a] # poll'.events[b]
      <3>1. a + 1 # b + 1
        BY <1>3, <2>1
      <3> QED
        BY <1>3, <1>5, <3>1
    <2> QED
      BY <1>2, <2>1 DEF EventsDistinct
  <1>7. ASSUME NEW k \in DOMAIN poll'.events, NEW f \in Fds, f = poll'.events[k]
        PROVE  Due(f)'
    <2>1. f = poll.events[k + 1] /\ k + 1 \in DOMAIN poll.events /\ k + 1 # 1
      BY <1>3, <1>7
    <2>2. Due(f)
      BY <1>4, <2>1
    <2>3. f # Event
      BY <1>3, <1>5, <2>1
    <2> QED
      BY <2>2, <2>3
  <1>8. \A k \in DOMAIN poll'.events : poll'.events[k] \in Fds
    BY <1>2 DEF Polls
  <1>9. EventsReady'
    BY <1>7, <1>8 DEF EventsReady, Due
  <1> QED
    BY <1>2, <1>6, <1>9

(* The event a wait handles is one of a registered input. *)
LEMMA EventDue ==
    ASSUME NotifyInv, poll.events # << >>
    PROVE  /\ Event \in Fds /\ Due(Event)
           /\ Current \in Inputs /\ state[Current] = "open" /\ fd[Current] = Event
           /\ slot[Event] = Current /\ slot[Event] # Null
  <1>1. 1 \in DOMAIN poll.events /\ Event = poll.events[1] /\ Event \in Fds
    BY DEF NotifyInv, TablesAgree, TypeOK, Polls, Event
  <1>2. Due(Event)
    BY <1>1 DEF NotifyInv, EventsReady, Due
  <1>3. slot[Event] \in Inputs
    BY <1>2 DEF Due, Opened
  <1> QED
    BY <1>1, <1>2, <1>3, SlotOpen, Distinguished DEF Current, NotifyInv, TablesAgree

-----------------------------------------------------------------------------
(* The invariant of the notifier, step by step.                            *)

\* Outside of a wait nothing is asked of the events.
LEMMA IdleEvents ==
    ASSUME NotifyInv, ~poll.on, poll' = poll
    PROVE  EventsReady' /\ EventsDistinct'
  BY DEF NotifyInv, EventsReady, EventsDistinct

\* The tables agree as long as nothing they speak of changes.
LEMMA SameTables ==
    ASSUME SlotsMatch, UsedCounted, UNCHANGED <<slot, fdused, epset, epoll, state, fd>>
    PROVE  SlotsMatch' /\ UsedCounted'
  BY DEF SlotsMatch, UsedCounted, Used

\* The notifier begins consistent.
LEMMA InitNotify == Init => NotifyInv
  <1> SUFFICES ASSUME Init PROVE NotifyInv
    OBVIOUS
  <1>1. TypeOK
    BY NotifyAssumption DEF Init, TypeOK, Polls, NoPoll
  <1>2. SlotsMatch
    BY Distinguished DEF Init, SlotsMatch
  <1>3. Used = {}
    BY DEF Init, Used
  <1>4. UsedCounted
    BY <1>3, FS_EmptySet DEF Init, UsedCounted
  <1>5. EventsReady /\ EventsDistinct
    BY DEF Init, NoPoll, EventsReady, EventsDistinct
  <1> QED
    BY <1>1, <1>2, <1>4, <1>5 DEF NotifyInv, TablesAgree

\* Peers only add to what can be read.
LEMMA SystemNotify == ASSUME NotifyInv, System PROVE NotifyInv'
  <1>0. TypeOK /\ SlotsMatch /\ UsedCounted /\ EventsReady /\ EventsDistinct
    BY DEF NotifyInv, TablesAgree
  <1>1. UNCHANGED <<notify, inputs, poll>>
    BY DEF System, Send, SendPart, Hangup, Connect
  <1>2. SlotsMatch' /\ UsedCounted'
    BY <1>0, <1>1, SameTables DEF notify, inputs
  <1>3. EventsDistinct'
    BY <1>0, <1>1 DEF EventsDistinct
  <1>4. ASSUME TypeOK', \A i \in Inputs : Readable(i) => Readable(i)'
        PROVE  NotifyInv'
    <2>1. \A i \in Inputs : i \in Opened => i \in Opened'
      BY <1>1 DEF inputs, Opened
    <2>2. EventsReady'
      BY <1>0, <1>1, <1>4, <2>1 DEF EventsReady, Opened, notify
    <2> QED
      BY <1>2, <1>3, <1>4, <2>2 DEF NotifyInv, TablesAgree
  <1>5. ASSUME NEW i \in Streams, Send(i) PROVE NotifyInv'
    <2>1. /\ sent' = [sent EXCEPT ![i] = sent[i] + 1]
          /\ unread' = [unread EXCEPT ![i] = unread[i] + 1]
          /\ part' = [part EXCEPT ![i] = FALSE] /\ hup' = hup /\ i \in Inputs
      BY <1>5 DEF Send, Put, Inputs
    <2>2. TypeOK'
      <3>1. sent' \in [Inputs -> Nat] /\ unread' \in [Inputs -> Nat] /\ part' \in [Inputs -> BOOLEAN]
        BY <1>0, <2>1 DEF TypeOK
      <3>2. \A j \in Inputs : buf[j] + done[j] + unread'[j] <= sent'[j]
        BY <1>0, <2>1, SMTT(60) DEF TypeOK
      <3> QED
        BY <1>0, <1>1, <2>1, <3>1, <3>2, SMTT(60) DEF TypeOK, notify, inputs
    <2>3. \A j \in Inputs : Readable(j) => Readable(j)'
      BY <1>0, <2>1 DEF Readable, TypeOK
    <2> QED
      BY <1>4, <2>2, <2>3
  <1>6. ASSUME NEW i \in Streams, SendPart(i) PROVE NotifyInv'
    <2>1. part' = [part EXCEPT ![i] = TRUE] /\ UNCHANGED <<sent, unread, hup>> /\ i \in Inputs
      BY <1>6 DEF SendPart, Put, Inputs
    <2>2. TypeOK'
      BY <1>0, <1>1, <2>1 DEF TypeOK, notify, inputs
    <2>3. \A j \in Inputs : Readable(j) => Readable(j)'
      BY <1>0, <2>1 DEF Readable, TypeOK
    <2> QED
      BY <1>4, <2>2, <2>3
  <1>7. ASSUME NEW i \in Streams, NEW how \in {"half", "full"}, Hangup(i, how) PROVE NotifyInv'
    <2>1. hup' = [hup EXCEPT ![i] = how] /\ UNCHANGED <<sent, unread, part>> /\ i \in Inputs
      BY <1>7 DEF Hangup, Put, Inputs
    <2>2. TypeOK'
      BY <1>0, <1>1, <2>1 DEF TypeOK, notify, inputs
    <2>3. \A j \in Inputs : Readable(j) => Readable(j)'
      BY <1>0, <2>1 DEF Readable, TypeOK
    <2> QED
      BY <1>4, <2>2, <2>3
  <1>8. ASSUME NEW l \in Listeners, Connect(l) PROVE NotifyInv'
    <2>1. /\ sent' = [sent EXCEPT ![l] = sent[l] + 1]
          /\ unread' = [unread EXCEPT ![l] = unread[l] + 1]
          /\ part' = part /\ hup' = hup /\ l \in Inputs
      BY <1>8 DEF Connect, Put, Inputs
    <2>2. TypeOK'
      BY <1>0, <1>1, <2>1, SMTT(60) DEF TypeOK, notify, inputs
    <2>3. \A j \in Inputs : Readable(j) => Readable(j)'
      BY <1>0, <2>1 DEF Readable, TypeOK
    <2> QED
      BY <1>4, <2>2, <2>3
  <1> QED
    BY <1>5, <1>6, <1>7, <1>8 DEF System

\* Registering and removing inputs between two waits.
LEMMA OpenNotify ==
    ASSUME NotifyInv, NEW i \in Inputs, Open(i) \/ OpenFails(i) \/ OpenLost(i)
    PROVE  NotifyInv'
  <1>0. TypeOK /\ SlotsMatch /\ UsedCounted
    BY DEF NotifyInv, TablesAgree
  <1>1. EventsReady' /\ EventsDistinct'
    BY IdleEvents DEF Open, OpenFails, OpenLost
  <1>2. CASE Open(i)
    <2>1. PICK f \in LowestFd : mpt_notify_add(i, f) /\ room' = Grown(f)
      BY <1>2 DEF Open
    <2>2. UNCHANGED <<epoll, wait, buf, done, out, system, poll>> /\ state[i] = "new"
      BY <1>2 DEF Open
    <2>3. f \in Fds /\ room' \in Nat
      BY <1>0, <2>1, FreeSlot, GrownSlots
    <2>4. /\ slot' \in [Fds -> Inputs \cup {Null}] /\ fdused' \in Nat /\ epset' \subseteq Fds
          /\ state' \in [Inputs -> {"new", "open", "refused", "lost", "freed", "failed"}]
          /\ fd' \in [Inputs -> Fds \cup {-1}]
          /\ SlotsMatch' /\ UsedCounted'
      BY <1>0, <2>1, <2>2, AddTables
    <2>5. TypeOK'
      BY <1>0, <2>2, <2>3, <2>4 DEF TypeOK, system
    <2> QED
      BY <1>1, <2>4, <2>5 DEF NotifyInv, TablesAgree
  <1>3. CASE OpenFails(i)
    <2>1. PICK f \in LowestFd : room' \in (IF room = 0 THEN {Grown(f)} ELSE {room, Grown(f)})
      BY <1>3 DEF OpenFails
    <2>2. room' \in Nat
      <3>1. Grown(f) \in Nat /\ room \in Nat
        BY <1>0, FreeSlot, GrownSlots DEF TypeOK
      <3> QED
        BY <2>1, <3>1
    <2>3. /\ state' = [state EXCEPT ![i] = "refused"] /\ state[i] = "new"
          /\ UNCHANGED <<epoll, slot, fdused, epset, fd, wait, buf, done, out, system, poll>>
      BY <1>3 DEF OpenFails, Put
    <2>4. TypeOK'
      BY <1>0, <2>2, <2>3 DEF TypeOK, system
    <2>5. SlotsMatch' /\ UsedCounted'
      BY <1>0, <2>3, SMTT(60) DEF TypeOK, SlotsMatch, UsedCounted, Used
    <2> QED
      BY <1>1, <2>4, <2>5 DEF NotifyInv, TablesAgree
  <1>4. CASE OpenLost(i)
    <2>1. PICK f \in LowestFd : fd' = [fd EXCEPT ![i] = f]
      BY <1>4 DEF OpenLost, Put
    <2>2. /\ state' = [state EXCEPT ![i] = "lost"] /\ state[i] = "new"
          /\ UNCHANGED <<notify, buf, done, out, system, poll>>
      BY <1>4 DEF OpenLost, Put
    <2>3. f \in Fds
      BY DEF LowestFd, FreeFds
    <2>4. TypeOK'
      BY <1>0, <2>1, <2>2, <2>3 DEF TypeOK, system, notify
    <2>5. SlotsMatch' /\ UsedCounted'
      BY <1>0, <2>1, <2>2 DEF TypeOK, SlotsMatch, UsedCounted, Used, notify
    <2> QED
      BY <1>1, <2>4, <2>5 DEF NotifyInv, TablesAgree
  <1> QED
    BY <1>2, <1>3, <1>4

\* `mpt_notify_clear` by the program keeps the invariant.
LEMMA ClearNotify == ASSUME NotifyInv, NEW f \in Fds, Clear(f) PROVE NotifyInv'
  <1>0. TypeOK /\ SlotsMatch /\ UsedCounted
    BY DEF NotifyInv, TablesAgree
  <1>1. /\ mpt_notify_clear(f, "freed") /\ slot[f] # Null /\ ~poll.on
        /\ UNCHANGED <<epoll, room, wait, buf, done, system, poll>>
    BY DEF Clear
  <1>2. /\ slot' \in [Fds -> Inputs \cup {Null}] /\ fdused' \in Nat /\ epset' \subseteq Fds
        /\ state' \in [Inputs -> {"new", "open", "refused", "lost", "freed", "failed"}]
        /\ fd' \in [Inputs -> Fds \cup {-1}] /\ out' \in [Inputs -> BOOLEAN]
        /\ SlotsMatch' /\ UsedCounted'
    BY <1>0, <1>1, ClearTables
  <1>3. TypeOK'
    BY <1>0, <1>1, <1>2 DEF TypeOK, system
  <1> QED
    BY <1>1, <1>2, <1>3, IdleEvents DEF NotifyInv, TablesAgree

\* `mpt_notify_fini` closes all inputs and leaves empty tables.
LEMMA FiniNotify == ASSUME NotifyInv, mpt_notify_fini PROVE NotifyInv'
  <1>0. TypeOK /\ SlotsMatch /\ UsedCounted
    BY DEF NotifyInv, TablesAgree
  <1>1. /\ slot' = [f \in Fds |-> Null]
        /\ room' = 0 /\ fdused' = 0 /\ epset' = {} /\ wait' = << >> /\ ~poll.on
        /\ state' = [i \in Inputs |-> IF state[i] = "open" THEN "freed" ELSE state[i]]
        /\ fd' = [i \in Inputs |-> IF state[i] = "open" THEN -1 ELSE fd[i]]
        /\ out' = [i \in Inputs |-> out[i] /\ state[i] # "open"]
        /\ UNCHANGED <<epoll, buf, done, system, poll>>
    BY DEF mpt_notify_fini
  <1>2. state' \in [Inputs -> {"new", "open", "refused", "lost", "freed", "failed"}]
    BY <1>0, <1>1 DEF TypeOK
  <1>3. fd' \in [Inputs -> Fds \cup {-1}]
    BY <1>0, <1>1 DEF TypeOK
  <1>4. out' \in [Inputs -> BOOLEAN]
    BY <1>1
  <1>5. TypeOK'
    BY <1>0, <1>1, <1>2, <1>3, <1>4 DEF TypeOK, system
  <1>6. SlotsMatch'
    BY <1>1, Distinguished DEF SlotsMatch
  <1>7. Used' = {}
    BY <1>1 DEF Used
  <1>8. UsedCounted'
    BY <1>1, <1>7, FS_EmptySet DEF UsedCounted
  <1> QED
    BY <1>1, <1>5, <1>6, <1>8, IdleEvents DEF NotifyInv, TablesAgree

-----------------------------------------------------------------------------
(* The steps of mpt_notify_wait.                                           *)

\* Types of a state in which messages moved.
LEMMA MovedTyped ==
    ASSUME TypeOK, UNCHANGED <<epoll, wait, sent, done, hup>>, room' \in Nat,
           slot' \in [Fds -> Inputs \cup {Null}], fdused' \in Nat, epset' \subseteq Fds,
           state' \in [Inputs -> {"new", "open", "refused", "lost", "freed", "failed"}],
           fd' \in [Inputs -> Fds \cup {-1}],
           unread' \in [Inputs -> Nat], buf' \in [Inputs -> Nat],
           part' \in [Inputs -> BOOLEAN], out' \in [Inputs -> BOOLEAN],
           \A i \in Inputs : buf'[i] + done'[i] + unread'[i] <= sent'[i],
           poll' \in Polls
    PROVE  TypeOK'
  <1>1. /\ sent' \in [Inputs -> Nat] /\ done' \in [Inputs -> Nat]
        /\ hup' \in [Inputs -> {"no", "half", "full"}]
        /\ epoll' \in BOOLEAN /\ wait' \in Seq(Inputs \cup {Null, Garbage})
    BY DEF TypeOK
  <1>2. {sent', unread', buf', done'} \subseteq [Inputs -> Nat]
    BY <1>1
  <1>3. {part', out'} \subseteq [Inputs -> BOOLEAN]
    OBVIOUS
  <1> QED
    BY <1>1, <1>2, <1>3, Zenon DEF TypeOK

\* A descriptor the kernel reports has something to be handled.
LEMMA ReadyDue ==
    ASSUME TypeOK, SlotsMatch, NEW all \in BOOLEAN, NEW f \in Ready(all)
    PROVE  /\ f \in Used /\ slot[f] \in Opened
           /\ Readable(slot[f]) \/ (~epoll /\ slot[f] \in Streams)
  BY SlotOpen DEF Ready, Opened, Used

\* The begin of a wait lists each ready descriptor once.
LEMMA StartNotify == ASSUME NotifyInv, NEW all \in BOOLEAN, WaitStart(all) PROVE NotifyInv'
  <1>0. TypeOK /\ SlotsMatch /\ UsedCounted
    BY DEF NotifyInv, TablesAgree
  <1>1. UNCHANGED <<notify, inputs, system>>
    BY DEF WaitStart
  <1>2. PICK s \in Events(all) :
          poll' = [on |-> TRUE, all |-> all, events |-> s,
                   input |-> {f \in Used : Readable(slot[f])}, slots |-> "current",
                   found |-> << >>]
    BY DEF WaitStart
  <1>3. /\ s \in Seq(Fds) /\ \A k \in DOMAIN s : s[k] \in Ready(all)
        /\ \A a, b \in DOMAIN s : a # b => s[a] # s[b]
    <2>1. CASE epoll
      <3>1. Ready(all) \subseteq Fds /\ s \in Orders(Ready(all))
        BY <1>2, <2>1 DEF Events, Ready
      <3> QED
        BY <3>1, OrdersAreSeqs
    <2>2. CASE ~epoll
      <3> DEFINE S == Ready(all) \cap Polled(Ready(all))
      <3>1. S \subseteq Fds /\ s \in Orders(S)
        BY <1>2, <2>2 DEF Events, Ready, Ascending
      <3> HIDE DEF S
      <3>2. /\ s \in Seq(Fds) /\ \A k \in DOMAIN s : s[k] \in S
            /\ \A a, b \in DOMAIN s : a # b => s[a] # s[b]
        BY <3>1, OrdersAreSeqs
      <3> QED
        BY <3>2 DEF S
    <2> QED
      BY <2>1, <2>2
  <1>4. TypeOK'
    <2>1. poll' \in Polls
      BY <1>2, <1>3 DEF Polls, Used
    <2> QED
      BY <1>0, <1>1, <2>1 DEF TypeOK, notify, inputs, system
  <1>5. SlotsMatch' /\ UsedCounted'
    BY <1>0, <1>1, SameTables DEF notify, inputs
  <1>6. EventsDistinct'
    BY <1>2, <1>3 DEF EventsDistinct
  <1>7. \A k \in DOMAIN s :
          /\ s[k] \in Fds /\ slot[s[k]] \in Opened
          /\ IF s[k] \in poll'.input THEN Readable(slot[s[k]])
                                     ELSE ~epoll /\ slot[s[k]] \in Streams
    BY <1>0, <1>2, <1>3, ReadyDue DEF Used
  <1>8. EventsReady'
    BY <1>1, <1>2, <1>7 DEF EventsReady, Opened, Readable, notify, inputs, system
  <1> QED
    BY <1>4, <1>5, <1>6, <1>8 DEF NotifyInv, TablesAgree

\* A wait without ready descriptors has no events.
LEMMA TimeoutNotify == ASSUME NotifyInv, NEW all \in BOOLEAN, WaitTimeout(all) PROVE NotifyInv'
  <1>0. TypeOK /\ SlotsMatch /\ UsedCounted
    BY DEF NotifyInv, TablesAgree
  <1>1. UNCHANGED <<epoll, slot, room, fdused, epset, inputs, system, poll>> /\ ~poll.on
    BY DEF WaitTimeout
  <1>2. wait' \in Seq(Inputs \cup {Null, Garbage})
    <2>1. CASE epoll
      BY <1>0, <2>1 DEF WaitTimeout, TypeOK
    <2>2. CASE ~epoll
      <3>1. wait' = [k \in DOMAIN wait |-> IF k <= Cardinality(Used) THEN Garbage ELSE wait[k]]
        BY <2>2 DEF WaitTimeout
      <3>2. wait \in Seq(Inputs \cup {Null, Garbage}) /\ DOMAIN wait = 1..Len(wait) /\ Len(wait) \in Nat
        BY <1>0 DEF TypeOK
      <3>3. \A k \in 1..Len(wait) : wait[k] \in Inputs \cup {Null, Garbage}
        BY <3>2
      <3> QED
        BY <3>1, <3>2, <3>3
    <2> QED
      BY <2>1, <2>2
  <1>3. TypeOK'
    BY <1>0, <1>1, <1>2 DEF TypeOK, inputs, system
  <1> QED
    BY <1>0, <1>1, <1>3, IdleEvents, SameTables DEF NotifyInv, TablesAgree, inputs

\* An input that reads its data changes its own descriptor only.
LEMMA ReadNotify == ASSUME NotifyInv, StreamRead PROVE NotifyInv'
  <1>0. TypeOK /\ SlotsMatch /\ UsedCounted
    BY DEF NotifyInv, TablesAgree
  <1>1. PICK n \in 0..unread[Current] :
          /\ buf' = [buf EXCEPT ![Current] = buf[Current] + n]
          /\ unread' = [unread EXCEPT ![Current] = unread[Current] - n]
          /\ part' = [part EXCEPT ![Current] = part[Current] /\ n < unread[Current]]
    BY DEF StreamRead, Put
  <1>2. /\ poll.on /\ poll.events # << >> /\ Current \in Streams
        /\ poll' = Visited(Append(poll.found, Current), FALSE)
        /\ poll'.input = poll.input
        /\ UNCHANGED <<sent, hup, notify, state, fd, done>>
    BY DEF StreamRead, Stream, Visited
  <1>3. Current \in Inputs /\ Current = slot[Event] /\ fd[Current] = Event
    BY <1>2, EventDue
  <1>4. unread[Current] \in Nat /\ n \in Nat /\ n <= unread[Current]
    BY <1>0, <1>3 DEF TypeOK
  <1>5. /\ buf' \in [Inputs -> Nat] /\ unread' \in [Inputs -> Nat]
        /\ part' \in [Inputs -> BOOLEAN]
        /\ \A i \in Inputs : buf'[i] + done[i] + unread'[i] = buf[i] + done[i] + unread[i]
    <2>1. /\ buf \in [Inputs -> Nat] /\ unread \in [Inputs -> Nat] /\ done \in [Inputs -> Nat]
          /\ part \in [Inputs -> BOOLEAN]
      BY <1>0 DEF TypeOK
    <2>2. buf[Current] + n \in Nat /\ unread[Current] - n \in Nat
      BY <1>3, <1>4, <2>1
    <2>3. buf' \in [Inputs -> Nat] /\ unread' \in [Inputs -> Nat]
      BY <1>1, <2>1, <2>2
    <2>4. part' \in [Inputs -> BOOLEAN]
      BY <1>1, <2>1
    <2>5. ASSUME NEW i \in Inputs
          PROVE  buf'[i] + done[i] + unread'[i] = buf[i] + done[i] + unread[i]
      BY <1>1, <1>3, <1>4, <2>1
    <2> QED
      BY <2>3, <2>4, <2>5
  <1>6. out' \in [Inputs -> BOOLEAN]
    <2>1. PICK o \in Flushed : out' = [out EXCEPT ![Current] = o]
      BY DEF StreamRead, Put
    <2>2. o \in BOOLEAN
      BY <1>0, <1>3, <2>1 DEF Flushed, TypeOK
    <2> QED
      BY <1>0, <2>1, <2>2 DEF TypeOK
  <1>7. \A f \in Fds : f # Event /\ Due(f) => Due(f)'
    <2> SUFFICES ASSUME NEW f \in Fds, f # Event, Due(f) PROVE Due(f)'
      OBVIOUS
    <2>1. slot[f] # Current /\ slot[f] \in Inputs
      BY <1>0, <1>3, Distinguished DEF Due, Opened, SlotsMatch
    <2>2. unread'[slot[f]] = unread[slot[f]] /\ part'[slot[f]] = part[slot[f]]
      BY <1>0, <1>1, <2>1 DEF TypeOK
    <2> QED
      BY <1>2, <2>1, <2>2 DEF Due, Opened, Readable, notify
  <1>8. Append(poll.found, Current) \in Seq(Streams)
    BY <1>0, <1>2 DEF TypeOK, Polls
  <1>9. /\ poll' \in Polls
        /\ EventsReady' /\ EventsDistinct'
    BY <1>2, <1>7, <1>8, VisitEvents
  <1>10. \A i \in Inputs : buf'[i] + done'[i] + unread'[i] <= sent'[i]
    BY <1>0, <1>2, <1>5 DEF TypeOK
  <1>11. TypeOK'
    <2>1. /\ UNCHANGED <<epoll, wait, room, slot, fdused, epset>> /\ room \in Nat
          /\ slot \in [Fds -> Inputs \cup {Null}] /\ fdused \in Nat /\ epset \subseteq Fds
          /\ state \in [Inputs -> {"new", "open", "refused", "lost", "freed", "failed"}]
          /\ fd \in [Inputs -> Fds \cup {-1}]
      BY <1>0, <1>2 DEF TypeOK, notify
    <2> QED
      BY <1>0, <1>2, <1>5, <1>6, <1>9, <1>10, <2>1, MovedTyped
  <1> QED
    BY <1>0, <1>2, <1>9, <1>11, SameTables DEF NotifyInv, TablesAgree, notify

\* Another descriptor is not affected when the one of this event is closed.
LEMMA ClearDue ==
    ASSUME NotifyInv, poll.events # << >>, NEW how \in {"freed", "failed"},
           mpt_notify_clear(Event, how), UNCHANGED <<epoll, hup, part>>,
           poll'.input = poll.input,
           \A i \in Inputs : i # Current => unread'[i] = unread[i]
    PROVE  \A f \in Fds : f # Event /\ Due(f) => Due(f)'
  <1> SUFFICES ASSUME NEW f \in Fds, f # Event, Due(f) PROVE Due(f)'
    OBVIOUS
  <1>0. TypeOK /\ SlotsMatch /\ Current \in Inputs /\ Current = slot[Event] /\ fd[Current] = Event
    BY EventDue DEF NotifyInv, TablesAgree
  <1>1. slot[f] # Current /\ slot[f] \in Inputs
    BY <1>0 DEF Due, Opened, SlotsMatch
  <1>2. /\ slot' = [slot EXCEPT ![Event] = Null]
        /\ state' = [state EXCEPT ![Current] = how]
    BY <1>0 DEF mpt_notify_clear, Put
  <1>3. slot'[f] = slot[f] /\ state'[slot[f]] = state[slot[f]]
    BY <1>0, <1>1, <1>2 DEF TypeOK
  <1> QED
    BY <1>1, <1>3 DEF Due, Opened, Readable

\* The address a wait keeps of the slots is noted as current, moved or lost.
LEMMA VisitedInput == ASSUME NEW found, NEW moved, poll' = Visited(found, moved), TypeOK
                      PROVE  poll'.input = poll.input
  BY DEF Visited, TypeOK, Polls

\* A stream that is cleared, and no other event is about it.
LEMMA DroppedNotify ==
    ASSUME NotifyInv, NEW how \in {"freed", "failed"}, mpt_notify_clear(Event, how),
           poll.on, poll.events # << >>, poll' = Visited(poll.found, FALSE),
           UNCHANGED <<epoll, room, wait, buf, done, system>>
    PROVE  NotifyInv'
  <1>0. TypeOK /\ SlotsMatch /\ UsedCounted
    BY DEF NotifyInv, TablesAgree
  <1>1. Event \in Fds /\ slot[Event] # Null
    BY EventDue
  <1>2. /\ slot' \in [Fds -> Inputs \cup {Null}] /\ fdused' \in Nat /\ epset' \subseteq Fds
        /\ state' \in [Inputs -> {"new", "open", "refused", "lost", "freed", "failed"}]
        /\ fd' \in [Inputs -> Fds \cup {-1}] /\ out' \in [Inputs -> BOOLEAN]
        /\ SlotsMatch' /\ UsedCounted'
    BY <1>0, <1>1, ClearTables
  <1>3. \A f \in Fds : f # Event /\ Due(f) => Due(f)'
    BY <1>0, VisitedInput, ClearDue DEF system
  <1>4. poll.found \in Seq(Streams)
    BY <1>0 DEF TypeOK, Polls
  <1>5. poll' \in Polls /\ EventsReady' /\ EventsDistinct'
    BY <1>3, <1>4, VisitEvents
  <1>6. TypeOK'
    BY <1>0, <1>2, <1>5, ZenonT(60) DEF TypeOK, system
  <1> QED
    BY <1>2, <1>5, <1>6 DEF NotifyInv, TablesAgree

\* An event that changes nothing but what the wait found.
LEMMA PassedNotify ==
    ASSUME NotifyInv, poll.on, poll.events # << >>, NEW found \in Seq(Streams),
           poll' = Visited(found, FALSE), UNCHANGED <<notify, inputs, system>>
    PROVE  NotifyInv'
  <1>0. TypeOK /\ SlotsMatch /\ UsedCounted
    BY DEF NotifyInv, TablesAgree
  <1>1. \A f \in Fds : Due(f) => Due(f)'
    BY <1>0, VisitedInput DEF Due, Opened, Readable, notify, inputs, system
  <1>2. poll' \in Polls /\ EventsReady' /\ EventsDistinct'
    BY <1>1, VisitEvents
  <1>3. TypeOK'
    BY <1>0, <1>2, ZenonT(60) DEF TypeOK, notify, inputs, system
  <1> QED
    BY <1>0, <1>2, <1>3, SameTables DEF NotifyInv, TablesAgree, notify, inputs

\* A stream found closed, or that fails, is removed.
LEMMA ClosedNotify == ASSUME NotifyInv, StreamClosed \/ StreamFails PROVE NotifyInv'
  BY DroppedNotify DEF StreamClosed, StreamFails, Stream

\* A stream that stays registered keeps its slot.
LEMMA StaysNotify == ASSUME NotifyInv, StreamStays PROVE NotifyInv'
  <1>1. poll.on /\ poll.events # << >> /\ UNCHANGED <<notify, inputs, system>>
    BY DEF StreamStays, Stream
  <1>2. poll.found \in Seq(Streams) /\ Append(poll.found, Current) \in Seq(Streams)
    BY DEF NotifyInv, TablesAgree, TypeOK, Polls, StreamStays, Stream
  <1>3. PICK found \in {poll.found, Append(poll.found, Current)} : poll' = Visited(found, FALSE)
    BY DEF StreamStays
  <1> QED
    BY <1>1, <1>2, <1>3, PassedNotify

\* A stream that is ready for output alone is removed or stays.
LEMMA UnaskedNotify == ASSUME NotifyInv, StreamUnasked PROVE NotifyInv'
  <1>1. /\ poll.on /\ poll.events # << >> /\ UNCHANGED system
        /\ poll' = Visited(poll.found, FALSE)
    BY DEF StreamUnasked, Stream
  <1>2. poll.found \in Seq(Streams)
    BY DEF NotifyInv, TablesAgree, TypeOK, Polls
  <1>3. CASE UNCHANGED <<notify, inputs>>
    BY <1>1, <1>2, <1>3, PassedNotify
  <1>4. CASE mpt_notify_clear(Event, "freed") /\ UNCHANGED <<epoll, room, wait, buf, done>>
    BY <1>1, <1>4, DroppedNotify
  <1> QED
    BY <1>3, <1>4 DEF StreamUnasked

\* Released slots pass the event over, or end all.
LEMMA StaleNotify == ASSUME NotifyInv, WaitStale PROVE NotifyInv'
  <1>0. TypeOK /\ SlotsMatch /\ UsedCounted
    BY DEF NotifyInv, TablesAgree
  <1>1. poll.on /\ poll.events # << >> /\ UNCHANGED <<notify, inputs, system>>
    BY DEF WaitStale
  <1>2. poll.found \in Seq(Streams) /\ poll \in Polls
    BY <1>0 DEF TypeOK, Polls
  <1>3. CASE poll' = Visited(poll.found, FALSE)
    BY <1>1, <1>2, <1>3, PassedNotify
  <1>4. CASE poll' = [poll EXCEPT !.events = << >>, !.slots = "lost"]
    <2>1. poll' \in Polls /\ poll'.events = << >> /\ poll'.on
      <3>1. << >> \in Seq(Fds)
        OBVIOUS
      <3>2. poll' \in Polls
        BY <1>2, <1>4, <3>1 DEF Polls
      <3>3. poll'.events = << >> /\ poll'.on = poll.on
        BY <1>2, <1>4 DEF Polls
      <3> QED
        BY <1>1, <3>2, <3>3
    <2>2. TypeOK'
      BY <1>0, <1>1, <2>1, ZenonT(60) DEF TypeOK, notify, inputs, system
    <2>3. EventsReady' /\ EventsDistinct'
      BY <2>1 DEF EventsReady, EventsDistinct
    <2> QED
      BY <1>0, <1>1, <2>2, <2>3, SameTables DEF NotifyInv, TablesAgree, notify, inputs
  <1> QED
    BY <1>3, <1>4 DEF WaitStale

\* A connection is taken from a listener, for which no message is buffered.
LEMMA Connection ==
    ASSUME TypeOK, NEW l \in Inputs, unread[l] > 0,
           unread' = [unread EXCEPT ![l] = unread[l] - 1], UNCHANGED <<buf, done, sent>>
    PROVE  /\ unread' \in [Inputs -> Nat]
           /\ \A i \in Inputs : i # l => unread'[i] = unread[i]
           /\ \A i \in Inputs : buf'[i] + done'[i] + unread'[i] <= sent'[i]
  <1>1. /\ buf \in [Inputs -> Nat] /\ unread \in [Inputs -> Nat] /\ done \in [Inputs -> Nat]
        /\ sent \in [Inputs -> Nat]
        /\ \A i \in Inputs : buf[i] + done[i] + unread[i] <= sent[i]
    BY DEF TypeOK
  <1>2. unread[l] - 1 \in Nat
    BY <1>1
  <1> QED
    BY <1>1, <1>2

\* The tables after a connection was accepted: one more input, and the listener
\* is gone if it was made for a single connection.
LEMMA AcceptTables ==
    ASSUME NotifyInv, poll.events # << >>, NEW i \in Streams, state[i] = "new",
           NEW f \in LowestFd, Accepted(i, f), epoll' = epoll
    PROVE  /\ slot' \in [Fds -> Inputs \cup {Null}] /\ fdused' \in Nat /\ epset' \subseteq Fds
           /\ state' \in [Inputs -> {"new", "open", "refused", "lost", "freed", "failed"}]
           /\ fd' \in [Inputs -> Fds \cup {-1}]
           /\ SlotsMatch' /\ UsedCounted'
           /\ \A g \in Fds : g # Event /\ g # f => slot'[g] = slot[g]
           /\ \A j \in Inputs : j # Current /\ j # i => state'[j] = state[j] /\ fd'[j] = fd[j]
  <1>0. /\ TypeOK /\ SlotsMatch /\ UsedCounted
        /\ Event \in Fds /\ Current \in Inputs /\ state[Current] = "open" /\ fd[Current] = Event
        /\ slot[Event] = Current
    BY EventDue DEF NotifyInv, TablesAgree
  <1>1. /\ f \in Fds /\ slot[f] = Null /\ (\A j \in Inputs : fd[j] # f)
        /\ i \in Inputs /\ i # Null /\ i # Current /\ f # Event /\ Null \notin Inputs
    BY <1>0, FreeSlot, Distinguished DEF Inputs
  <1>2. CASE Current \notin Single
    <2>1. mpt_notify_add(i, f)
      <3>1. state' = Put(state, i, "open")
        BY <1>0, <1>1, <1>2 DEF Accepted, Put, TypeOK
      <3>2. fd' = Put(fd, i, f)
        BY <1>0, <1>1, <1>2 DEF Accepted, Put, TypeOK
      <3>3. slot' = Put(slot, f, i) /\ fdused' = fdused + 1
        BY <1>2 DEF Accepted, AcceptedSlots
      <3>4. epset' = IF epoll THEN epset \cup {f} ELSE epset
        BY <1>2 DEF Accepted
      <3> QED
        BY <3>1, <3>2, <3>3, <3>4 DEF mpt_notify_add
    <2>2. \A g \in Fds : g # Event /\ g # f => slot'[g] = slot[g]
      BY <2>1 DEF mpt_notify_add, Put
    <2>3. \A j \in Inputs : j # Current /\ j # i => state'[j] = state[j] /\ fd'[j] = fd[j]
      BY <2>1 DEF mpt_notify_add, Put
    <2> QED
      BY <1>0, <1>1, <2>1, <2>2, <2>3, AddTables
  <1>3. CASE Current \in Single
    <2>1. slot' = [g \in Fds |-> IF g = Event THEN Null ELSE IF g = f THEN i ELSE slot[g]]
      BY <1>0, <1>3 DEF Accepted, AcceptedSlots, Put, TypeOK
    <2>2. state' = [j \in Inputs |-> IF j = i THEN "open" ELSE IF j = Current THEN "freed" ELSE state[j]]
      BY <1>3 DEF Accepted
    <2>3. fd' = [j \in Inputs |-> IF j = i THEN f ELSE IF j = Current THEN -1 ELSE fd[j]]
      BY <1>3 DEF Accepted
    <2>4. fdused' = fdused /\ epset' = IF epoll THEN (epset \cup {f}) \ {Event} ELSE epset
      BY <1>3 DEF Accepted
    <2>5. slot' \in [Fds -> Inputs \cup {Null}] /\ fdused' \in Nat /\ epset' \subseteq Fds
      BY <1>0, <1>1, <2>1, <2>4 DEF TypeOK
    <2>6. state' \in [Inputs -> {"new", "open", "refused", "lost", "freed", "failed"}]
      BY <1>0, <2>2 DEF TypeOK
    <2>7. fd' \in [Inputs -> Fds \cup {-1}]
      BY <1>0, <1>1, <2>3 DEF TypeOK
    <2>8. SlotsMatch'
      <3> SUFFICES ASSUME NEW g \in Fds, NEW j \in Inputs
                   PROVE  slot'[g] = j <=> (state'[j] = "open" /\ fd'[j] = g)
        BY DEF SlotsMatch
      <3>1. slot[g] = j <=> (state[j] = "open" /\ fd[j] = g)
        BY <1>0 DEF SlotsMatch
      <3>2. CASE j = i
        BY <1>0, <1>1, <2>1, <2>2, <2>3, <3>1, <3>2
      <3>3. CASE j = Current
        BY <1>0, <1>1, <2>1, <2>2, <2>3, <3>1, <3>3
      <3>4. CASE j # i /\ j # Current
        BY <1>0, <1>1, <2>1, <2>2, <2>3, <3>1, <3>4
      <3> QED
        BY <3>2, <3>3, <3>4
    <2>9. Used' = (Used \cup {f}) \ {Event} /\ f \notin Used /\ Event \in Used
      BY <1>0, <1>1, <2>1 DEF Used
    <2>10. Cardinality(Used') = Cardinality(Used)
      <3>1. IsFiniteSet(Used \cup {f}) /\ Cardinality(Used \cup {f}) = Cardinality(Used) + 1
        BY <2>9, UsedFinite, FS_AddElement
      <3>2. Cardinality((Used \cup {f}) \ {Event}) = Cardinality(Used \cup {f}) - 1
        BY <2>9, <3>1, FS_RemoveElement
      <3> QED
        BY <2>9, <3>1, <3>2, UsedFinite
    <2>11. UsedCounted'
      BY <1>0, <2>4, <2>9, <2>10 DEF UsedCounted
    <2>12. \A g \in Fds : g # Event /\ g # f => slot'[g] = slot[g]
      BY <2>1
    <2>13. \A j \in Inputs : j # Current /\ j # i => state'[j] = state[j] /\ fd'[j] = fd[j]
      BY <2>2, <2>3
    <2> QED
      BY <2>5, <2>6, <2>7, <2>8, <2>11, <2>12, <2>13
  <1> QED
    BY <1>2, <1>3

\* A listener that accepts adds an input at a free descriptor, which no pending event is
\* about.
LEMMA AcceptNotify == ASSUME NotifyInv, Accept PROVE NotifyInv'
  <1>0. TypeOK /\ SlotsMatch /\ UsedCounted
    BY DEF NotifyInv, TablesAgree
  <1>1. /\ poll.on /\ poll.events # << >> /\ unread[Current] > 0
        /\ unread' = [unread EXCEPT ![Current] = unread[Current] - 1]
        /\ UNCHANGED <<epoll, sent, part, hup, wait, buf, done>>
    BY DEF Accept, Put
  <1>2. PICK i \in {j \in Streams : state[j] = "new"}, f \in LowestFd :
          /\ Accepted(i, f) /\ room' = Grown(f)
          /\ poll' = Visited(poll.found, Grows(f))
    BY DEF Accept
  <1>3. Grows(f) \in BOOLEAN
    BY DEF Grows
  <1>4. poll'.input = poll.input
    BY <1>0, <1>2, VisitedInput
  <1>5. f \in Fds /\ room' \in Nat /\ slot[f] = Null
    BY <1>0, <1>2, FreeSlot, GrownSlots
  <1>6. /\ slot' \in [Fds -> Inputs \cup {Null}] /\ fdused' \in Nat /\ epset' \subseteq Fds
        /\ state' \in [Inputs -> {"new", "open", "refused", "lost", "freed", "failed"}]
        /\ fd' \in [Inputs -> Fds \cup {-1}]
        /\ SlotsMatch' /\ UsedCounted'
        /\ \A g \in Fds : g # Event /\ g # f => slot'[g] = slot[g]
        /\ \A j \in Inputs : j # Current /\ j # i => state'[j] = state[j]
    BY <1>1, <1>2, AcceptTables
  <1>7. Current \in Inputs /\ Current = slot[Event] /\ fd[Current] = Event
    BY <1>1, EventDue
  <1>8. /\ unread' \in [Inputs -> Nat]
        /\ \A j \in Inputs : j # Current => unread'[j] = unread[j]
        /\ \A j \in Inputs : buf'[j] + done'[j] + unread'[j] <= sent'[j]
    BY <1>0, <1>1, <1>7, Connection
  <1>9. \A g \in Fds : g # Event /\ Due(g) => Due(g)'
    <2> SUFFICES ASSUME NEW g \in Fds, g # Event, Due(g) PROVE Due(g)'
      OBVIOUS
    <2>1. slot[g] # Current /\ slot[g] \in Inputs /\ state[slot[g]] = "open"
      BY <1>0, <1>7 DEF Due, Opened, SlotsMatch
    <2>2. g # f /\ slot[g] # i
      BY <1>2, <1>5, <2>1, Distinguished
    <2>3. slot'[g] = slot[g] /\ state'[slot[g]] = "open" /\ unread'[slot[g]] = unread[slot[g]]
      BY <1>6, <1>8, <2>1, <2>2
    <2> QED
      BY <1>1, <1>4, <2>1, <2>3 DEF Due, Opened, Readable
  <1>10. /\ poll' \in Polls
         /\ EventsReady' /\ EventsDistinct'
    <2>1. poll.found \in Seq(Streams)
      BY <1>0 DEF TypeOK, Polls
    <2> QED
      BY <1>1, <1>2, <1>3, <1>9, <2>1, VisitEvents
  <1>11. out' = out
    BY <1>2 DEF Accepted
  <1>12. TypeOK'
    <2>1. /\ buf \in [Inputs -> Nat] /\ part \in [Inputs -> BOOLEAN]
          /\ out \in [Inputs -> BOOLEAN]
      BY <1>0 DEF TypeOK
    <2> QED
      BY <1>0, <1>1, <1>5, <1>6, <1>8, <1>10, <1>11, <2>1, MovedTyped
  <1> QED
    BY <1>6, <1>10, <1>12 DEF NotifyInv, TablesAgree

\* A connection that cannot be accepted removes its listener, and no other event is
\* about it.
LEMMA RefusedNotify == ASSUME NotifyInv, AcceptFails PROVE NotifyInv'
  <1>0. TypeOK /\ SlotsMatch /\ UsedCounted
    BY DEF NotifyInv, TablesAgree
  <1>1. /\ poll.on /\ poll.events # << >> /\ unread[Current] > 0
        /\ unread' = [unread EXCEPT ![Current] = unread[Current] - 1]
        /\ mpt_notify_clear(Event, "freed")
        /\ UNCHANGED <<epoll, sent, part, hup, wait, buf, done>>
    BY DEF AcceptFails, Put
  <1>2. /\ room' \in {room} \cup {Grown(f) : f \in LowestFd}
        /\ poll' = Visited(poll.found, room' # room)
    BY DEF AcceptFails
  <1>3. poll'.input = poll.input
    BY <1>0, <1>2, VisitedInput
  <1>4. room' \in Nat
    <2>1. \A f \in LowestFd : Grown(f) \in Nat
      BY <1>0, FreeSlot, GrownSlots
    <2> QED
      BY <1>0, <1>2, <2>1 DEF TypeOK
  <1>5. Event \in Fds /\ slot[Event] # Null /\ Current \in Inputs
    BY <1>1, EventDue
  <1>6. /\ slot' \in [Fds -> Inputs \cup {Null}] /\ fdused' \in Nat /\ epset' \subseteq Fds
        /\ state' \in [Inputs -> {"new", "open", "refused", "lost", "freed", "failed"}]
        /\ fd' \in [Inputs -> Fds \cup {-1}] /\ out' \in [Inputs -> BOOLEAN]
        /\ SlotsMatch' /\ UsedCounted'
    BY <1>0, <1>1, <1>5, ClearTables
  <1>7. /\ unread' \in [Inputs -> Nat]
        /\ \A j \in Inputs : j # Current => unread'[j] = unread[j]
        /\ \A j \in Inputs : buf'[j] + done'[j] + unread'[j] <= sent'[j]
    BY <1>0, <1>1, <1>5, Connection
  <1>8. \A f \in Fds : f # Event /\ Due(f) => Due(f)'
    BY <1>1, <1>3, <1>7, ClearDue
  <1>9. /\ poll' \in Polls
        /\ EventsReady' /\ EventsDistinct'
    <2>1. poll.found \in Seq(Streams) /\ (room' # room) \in BOOLEAN
      BY <1>0 DEF TypeOK, Polls
    <2> QED
      BY <1>1, <1>2, <1>8, <2>1, VisitEvents
  <1>10. TypeOK'
    <2>1. buf \in [Inputs -> Nat] /\ part \in [Inputs -> BOOLEAN]
      BY <1>0 DEF TypeOK
    <2> QED
      BY <1>0, <1>1, <1>4, <1>6, <1>7, <1>9, <2>1, MovedTyped
  <1> QED
    BY <1>6, <1>9, <1>10 DEF NotifyInv, TablesAgree

\* The end of a wait leaves no events.
LEMMA EndNotify == ASSUME NotifyInv, WaitEnd PROVE NotifyInv'
  <1>0. TypeOK /\ SlotsMatch /\ UsedCounted
    BY DEF NotifyInv, TablesAgree
  <1>1. /\ wait' = poll.found /\ poll' = NoPoll
        /\ UNCHANGED <<epoll, slot, room, fdused, epset, inputs, system>>
    BY DEF WaitEnd
  <1>2. wait' \in Seq(Inputs \cup {Null, Garbage})
    <2>1. poll.found \in Seq(Streams) /\ Streams \subseteq Inputs \cup {Null, Garbage}
      BY <1>0 DEF TypeOK, Polls, Inputs
    <2> QED
      BY <1>1, <2>1
  <1>3. TypeOK'
    BY <1>0, <1>1, <1>2 DEF TypeOK, Polls, NoPoll, inputs, system
  <1>4. EventsReady' /\ EventsDistinct'
    BY <1>1 DEF NoPoll, EventsReady, EventsDistinct
  <1> QED
    BY <1>0, <1>1, <1>3, <1>4, SameTables DEF NotifyInv, TablesAgree, inputs

-----------------------------------------------------------------------------
(* Taking what waits.                                                      *)

\* Closing the gaps of the wait array keeps its entries, in their order.
LEMMA Compacted ==
    ASSUME NEW W, NEW w \in Seq(W), NEW c \in Compact(w)
    PROVE  /\ c \in Seq(W)
           /\ \A k \in DOMAIN c : \E j \in DOMAIN w : c[k] = w[j] /\ w[j] # Null
           /\ \A j \in DOMAIN w : w[j] # Null => \E k \in DOMAIN c : c[k] = w[j]
  <1> DEFINE S == {k \in DOMAIN w : w[k] # Null}
  <1>1. PICK s \in Ascending(S) : c = [k \in DOMAIN s |-> w[s[k]]]
    BY DEF Compact
  <1>2. s \in [1..Cardinality(S) -> S] /\ \A j \in S : \E k \in 1..Cardinality(S) : s[k] = j
    <2>1. s \in Orders(S)
      BY DEF Ascending
    <2> QED
      BY <2>1, OrderBijective, ZenonT(60)
  <1>3. Cardinality(S) \in Nat
    <2>1. 1 \in Int /\ Len(w) \in Int
      OBVIOUS
    <2>2. IsFiniteSet(1..Len(w)) /\ S \subseteq 1..Len(w)
      BY <2>1, FS_Interval
    <2> QED
      BY <2>2, FS_Subset, FS_CardinalityType
  <1> HIDE DEF S
  <1>4. c = [k \in 1..Cardinality(S) |-> w[s[k]]] /\ DOMAIN c = 1..Cardinality(S)
    BY <1>1, <1>2
  <1>5. \A k \in 1..Cardinality(S) : s[k] \in DOMAIN w /\ w[s[k]] # Null /\ w[s[k]] \in W
    BY <1>2 DEF S
  <1>6. \A j \in DOMAIN w : w[j] # Null => \E k \in 1..Cardinality(S) : s[k] = j
    BY <1>2 DEF S
  <1>7. \A j \in DOMAIN w : w[j] # Null => \E k \in DOMAIN c : c[k] = w[j]
    BY <1>4, <1>6
  <1>8. \A k \in DOMAIN c : \E j \in DOMAIN w : c[k] = w[j] /\ w[j] # Null
    BY <1>4, <1>5
  <1>9. c \in Seq(W)
    BY <1>3, <1>4, <1>5
  <1> QED
    BY <1>7, <1>8, <1>9

\* An input put back for another turn leaves a sequence of inputs.
LEMMA RetryTyped ==
    ASSUME NEW W, NEW w \in Seq(W), NEW i \in W, NEW r \in Retry(i, w)
    PROVE  r \in Seq(W)
  <1>1. CASE r = w
    BY <1>1
  <1>2. CASE \E c \in Compact(w) : r = Append(c, i)
    BY <1>2, Compacted
  <1> QED
    BY <1>1, <1>2 DEF Retry

\* Dispatching a message moves it from the input's queue to the dispatched ones.
LEMMA DispatchTyped ==
    ASSUME TypeOK, NEW i \in Inputs, Dispatch(i), UNCHANGED <<unread, sent>>
    PROVE  /\ buf' \in [Inputs -> Nat] /\ done' \in [Inputs -> Nat] /\ out' \in [Inputs -> BOOLEAN]
           /\ \A j \in Inputs : buf'[j] + done'[j] + unread'[j] = buf[j] + done[j] + unread[j]
           /\ \A j \in Inputs : buf'[j] + done'[j] + unread'[j] <= sent'[j]
  <1>1. /\ buf \in [Inputs -> Nat] /\ done \in [Inputs -> Nat] /\ unread \in [Inputs -> Nat]
        /\ sent \in [Inputs -> Nat]
        /\ \A j \in Inputs : buf[j] + done[j] + unread[j] <= sent[j]
    BY DEF TypeOK
  <1>2. buf' = [buf EXCEPT ![i] = buf[i] - 1] /\ done' = [done EXCEPT ![i] = done[i] + 1] /\ buf[i] > 0
    BY DEF Dispatch, Put
  <1>3. buf[i] - 1 \in Nat /\ done[i] + 1 \in Nat
    BY <1>1, <1>2
  <1>4. out' \in [Inputs -> BOOLEAN]
    <2>1. PICK reply \in BOOLEAN : out' = [out EXCEPT ![i] = out[i] \/ reply]
      BY DEF Dispatch, Put
    <2> QED
      BY <2>1 DEF TypeOK
  <1>5. \A j \in Inputs : buf'[j] + done'[j] + unread'[j] = buf[j] + done[j] + unread[j]
    BY <1>1, <1>2, <1>3
  <1> QED
    BY <1>1, <1>2, <1>3, <1>4, <1>5

\* The invariant after steps that change nothing but the wait array and the messages.
LEMMA TakenNotify ==
    ASSUME NotifyInv, ~poll.on, wait' \in Seq(Inputs \cup {Null, Garbage}),
           buf' \in [Inputs -> Nat], done' \in [Inputs -> Nat], out' \in [Inputs -> BOOLEAN],
           \A j \in Inputs : buf'[j] + done'[j] + unread'[j] <= sent'[j],
           UNCHANGED <<epoll, slot, room, fdused, epset, state, fd, system, poll>>
    PROVE  NotifyInv'
  <1>0. TypeOK /\ SlotsMatch /\ UsedCounted
    BY DEF NotifyInv, TablesAgree
  <1>1. {sent', unread', buf', done'} \subseteq [Inputs -> Nat] /\ {part', out'} \subseteq [Inputs -> BOOLEAN]
    BY <1>0 DEF TypeOK, system
  <1>2. TypeOK'
    BY <1>0, <1>1 DEF TypeOK, system
  <1> QED
    BY <1>0, <1>2, IdleEvents, SameTables DEF NotifyInv, TablesAgree

\* What is left of the wait array after an entry was taken is a wait array.
LEMMA RemainingTyped ==
    ASSUME TypeOK, NEW k
    PROVE  Remaining(k) \in Seq(Inputs \cup {Null, Garbage})
  <1> DEFINE W == Inputs \cup {Null, Garbage}
  <1>1. wait \in Seq(W) /\ Null \in W /\ Len(wait) \in Nat
    BY DEF TypeOK
  <1>2. Remaining(k) = [j \in 1..Len(wait) |-> IF j = k THEN Null ELSE wait[j]]
    BY <1>1 DEF Remaining, Put
  <1> HIDE DEF W
  <1>3. \A j \in 1..Len(wait) : wait[j] \in W
    BY <1>1
  <1>4. Remaining(k) \in Seq(W)
    BY <1>1, <1>2, <1>3
  <1> QED
    BY <1>4 DEF W

\* Taking waiting inputs changes no table.
LEMMA TakeNotify == ASSUME NotifyInv, Take \/ TakePart \/ Drained PROVE NotifyInv'
  <1>0. TypeOK
    BY DEF NotifyInv, TablesAgree
  <1>1. CASE Take
    <2>1. PICK k \in First : /\ wait[k] \in Opened /\ Dispatch(wait[k])
                             /\ wait' \in Retry(wait[k], Remaining(k))
      BY <1>1 DEF Take
    <2>2. UNCHANGED <<epoll, slot, room, fdused, epset, state, fd, system, poll>> /\ ~poll.on
      BY <1>1 DEF Take
    <2>3. wait[k] \in Inputs
      BY <2>1 DEF Opened
    <2>4. wait' \in Seq(Inputs \cup {Null, Garbage})
      BY <1>0, <2>1, <2>3, RemainingTyped, RetryTyped
    <2> QED
      BY <1>0, <2>1, <2>2, <2>3, <2>4, DispatchTyped, TakenNotify DEF system
  <1>2. CASE TakePart \/ Drained
    <2>1. UNCHANGED <<epoll, slot, room, fdused, epset, inputs, system, poll>> /\ ~poll.on
      BY <1>2 DEF TakePart, Drained
    <2>2. wait' \in Seq(Inputs \cup {Null, Garbage})
      <3>1. CASE wait' = << >>
        BY <3>1
      <3>2. CASE \E k : wait' = Remaining(k)
        BY <1>0, <3>2, RemainingTyped
      <3> QED
        BY <1>2, <3>1, <3>2 DEF TakePart, Drained
    <2>3. /\ buf' \in [Inputs -> Nat] /\ done' \in [Inputs -> Nat] /\ out' \in [Inputs -> BOOLEAN]
          /\ \A j \in Inputs : buf'[j] + done'[j] + unread'[j] <= sent'[j]
      BY <1>0, <2>1 DEF TypeOK, inputs, system
    <2> QED
      BY <2>1, <2>2, <2>3, TakenNotify DEF inputs
  <1> QED
    BY <1>1, <1>2

\* Each step within a wait keeps the invariant of the notifier.
LEMMA StepNotify == ASSUME NotifyInv, WaitStep PROVE NotifyInv'
  <1>1. CASE StreamRead
    BY <1>1, ReadNotify
  <1>2. CASE StreamClosed \/ StreamFails
    BY <1>2, ClosedNotify
  <1>3. CASE StreamStays \/ StreamUnasked \/ WaitStale
    BY <1>3, StaysNotify, UnaskedNotify, StaleNotify
  <1>4. CASE Accept
    BY <1>4, AcceptNotify
  <1>5. CASE AcceptFails
    BY <1>5, RefusedNotify
  <1>6. CASE WaitEnd
    BY <1>6, EndNotify
  <1> QED
    BY <1>1, <1>2, <1>3, <1>4, <1>5, <1>6 DEF WaitStep

\* Every call of a program and every step of the system keeps the invariant.
LEMMA StepApi == NotifyInv /\ [ApiNext]_nvars => NotifyInv'
  <1> SUFFICES ASSUME NotifyInv, [ApiNext]_nvars PROVE NotifyInv'
    OBVIOUS
  <1>1. CASE System
    BY <1>1, SystemNotify
  <1>2. CASE \E i \in Inputs : Open(i) \/ OpenFails(i) \/ OpenLost(i)
    BY <1>2, OpenNotify
  <1>3. CASE \E f \in Fds : Clear(f)
    BY <1>3, ClearNotify
  <1>4. CASE mpt_notify_fini
    BY <1>4, FiniNotify
  <1>5. CASE \E all \in BOOLEAN : WaitStart(all) \/ WaitTimeout(all)
    BY <1>5, StartNotify, TimeoutNotify
  <1>6. CASE WaitStep
    BY <1>6, StepNotify
  <1>7. CASE Take \/ TakePart \/ Drained
    BY <1>7, TakeNotify
  <1>8. CASE UNCHANGED nvars
    BY <1>8 DEF nvars, notify, inputs, system, NotifyInv, TablesAgree, TypeOK, SlotsMatch,
                UsedCounted, Used, EventsReady, EventsDistinct, Opened, Readable
  <1> QED
    BY <1>1, <1>2, <1>3, <1>4, <1>5, <1>6, <1>7, <1>8 DEF ApiNext, Program

(* The tables of the notifier agree, for any number of inputs and           *)
(* descriptors, with epoll and with poll(), in whatever order a program     *)
(* registers, waits, takes and clears (mpt_notify_add, mpt_notify_wait,     *)
(* mpt_notify_next, mpt_notify_clear, mpt_notify_fini, socket_next).        *)
THEOREM NotifyAgrees == ApiSpec => []TablesAgree
  <1>1. NotifyInv => TablesAgree
    BY DEF NotifyInv
  <1> QED
    BY <1>1, InitNotify, StepApi, PTL DEF ApiSpec

(* Every event of a wait that is still to be handled (mpt_notify_wait) is   *)
(* one of a descriptor that is ready, whatever a program registers, takes   *)
(* and clears while it handles the others.                                  *)
THEOREM EventsStayReady == ApiSpec => []EventsReady
  <1>1. NotifyInv => EventsReady
    BY DEF NotifyInv
  <1> QED
    BY <1>1, InitNotify, StepApi, PTL DEF ApiSpec

-----------------------------------------------------------------------------
(* The event loop.  What it needs beyond the invariant of the notifier:    *)
(* while it looks for input nothing waits, so the inputs a wait finds are  *)
(* all there is, and each of them is still open when the wait returns.     *)

\* The inputs found in a wait are open, and their descriptors are not visited again.
FoundOpen ==
  \A k \in DOMAIN poll.found :
    /\ poll.found[k] \in Opened
    /\ \A j \in DOMAIN poll.events : poll.events[j] # fd[poll.found[k]]

\* No entry waits while the loop looks for input.
WaitEmpty ==
  /\ pc \in {"setup", "next", "check", "block", "default", "done"}
  /\ pc \in {"setup", "check", "block", "default"} => wait = << >>
  /\ pc \in {"setup", "next", "default", "done"} => ~poll.on
  /\ ~poll.on => poll.found = << >>

\* Messages of a stream are with the system, in its queue or dispatched.
Conserved == \A i \in Streams : buf[i] + done[i] + unread[i] = sent[i]

LoopInv ==
  /\ NotifyInv
  /\ FoundOpen
  /\ WaitEmpty
  /\ Conserved
  /\ WaitingRegistered
  /\ BufferedWaits

\* With epoll an event means that there is something to read.
LoopEpoll == epoll /\ NothingUndelivered

\* The parts of LoopInv after a step to a state in which no wait is in progress.
LEMMA BetweenWaits ==
    ASSUME NotifyInv', ~poll'.on, poll'.found = << >>, Conserved',
           pc' \in {"setup", "next", "check", "block", "default", "done"},
           pc' \in {"setup", "check", "block", "default"} => wait' = << >>,
           WaitingRegistered', BufferedWaits'
    PROVE  LoopInv'
  <1>1. poll'.events = << >>
    BY DEF NotifyInv, EventsDistinct
  <1> QED
    BY <1>1 DEF LoopInv, FoundOpen, WaitEmpty

\* The loop begins with nothing waiting and nothing fetched.
LEMMA InitLoop == LoopInit => LoopInv
  <1> SUFFICES ASSUME LoopInit PROVE LoopInv
    OBVIOUS
  <1>1. NotifyInv /\ pc = "setup"
    BY InitNotify DEF LoopInit
  <1>2. ~poll.on /\ poll.found = << >> /\ wait = << >> /\ poll.events = << >>
    BY DEF LoopInit, Init, NoPoll
  <1>3. \A i \in Inputs : buf[i] = 0 /\ done[i] = 0 /\ unread[i] = 0 /\ sent[i] = 0
    BY DEF LoopInit, Init
  <1>4. Conserved /\ BufferedWaits
    BY <1>3 DEF Conserved, BufferedWaits, Inputs
  <1>5. WaitingRegistered
    BY <1>2 DEF WaitingRegistered, WaitEntriesLive, Waiting
  <1> QED
    BY <1>1, <1>2, <1>4, <1>5 DEF LoopInv, FoundOpen, WaitEmpty

\* What the invariant says while the loop does not wait.
LEMMA Quiet ==
    ASSUME LoopInv, pc \in {"setup", "next", "default", "done"} \/ ~poll.on
    PROVE  ~poll.on /\ poll.found = << >> /\ NotifyInv /\ TypeOK /\ Conserved /\ BufferedWaits
           /\ WaitingRegistered
  BY DEF LoopInv, WaitEmpty, NotifyInv, TablesAgree

\* What the program registers before the loop runs keeps the invariant of the loop.
LEMMA SetupLoop == ASSUME LoopInv, Setup PROVE LoopInv'
  <1>1. PICK i \in Inputs : Open(i) \/ OpenFails(i)
    BY DEF Setup
  <1>2. pc = "setup" /\ UNCHANGED <<pc, wait, buf, done, system, poll>>
    BY <1>1 DEF Setup, Open, OpenFails
  <1>3. NotifyInv'
    BY <1>1, OpenNotify DEF LoopInv
  <1>4. wait = << >> /\ ~poll.on /\ poll.found = << >> /\ Conserved /\ BufferedWaits
    BY <1>2, Quiet DEF LoopInv, WaitEmpty
  <1>5. Conserved' /\ BufferedWaits'
    BY <1>2, <1>4 DEF Conserved, BufferedWaits, system
  <1>6. WaitingRegistered'
    BY <1>2, <1>4 DEF WaitingRegistered, WaitEntriesLive, Waiting
  <1> QED
    BY <1>2, <1>3, <1>4, <1>5, <1>6, BetweenWaits

\* Steps that only decide how the loop goes on.
LEMMA TurnLoop ==
    ASSUME LoopInv, UNCHANGED nvars, ~poll.on, pc \in {"setup", "check", "block", "default"},
           pc' \in {"next", "default", "done"}
    PROVE  LoopInv'
  <1>1. wait = << >> /\ poll.found = << >> /\ NotifyInv /\ Conserved /\ BufferedWaits
    BY Quiet DEF LoopInv, WaitEmpty
  <1>2. NotifyInv'
    BY <1>1 DEF nvars, notify, inputs, system, NotifyInv, TablesAgree, TypeOK, SlotsMatch,
                UsedCounted, Used, EventsReady, EventsDistinct, Opened, Readable
  <1>3. Conserved' /\ BufferedWaits'
    BY <1>1 DEF Conserved, BufferedWaits, nvars, notify, inputs, system
  <1>4. wait' = << >> /\ ~poll'.on /\ poll'.found = << >>
    BY <1>1 DEF nvars, notify
  <1>5. WaitingRegistered'
    BY <1>4 DEF WaitingRegistered, WaitEntriesLive, Waiting
  <1> QED
    BY <1>2, <1>3, <1>4, <1>5, BetweenWaits

-----------------------------------------------------------------------------
(* Dispatching what waits.                                                 *)

\* Every entry that is left was there before, or is the input put back, and
\* none but the one taken is missing.
LEMMA Left ==
    ASSUME TypeOK, NEW k \in First, NEW r,
           r = Remaining(k) \/ r \in Retry(wait[k], Remaining(k))
    PROVE  /\ \A j \in DOMAIN r : r[j] # Null => \E m \in Waiting : r[j] = wait[m]
           /\ \A m \in Waiting : m # k => \E j \in DOMAIN r : r[j] = wait[m]
           /\ r \in Retry(wait[k], Remaining(k)) /\ buf[wait[k]] > 1 =>
                \E j \in DOMAIN r : r[j] = wait[k]
  <1> DEFINE W == Inputs \cup {Null, Garbage}
             w == Remaining(k)
  <1>1. k \in DOMAIN wait /\ wait[k] # Null /\ k \in Waiting /\ wait \in Seq(W)
    BY DEF First, Waiting, TypeOK
  <1>2. w \in Seq(W) /\ DOMAIN w = DOMAIN wait
    BY <1>1, RemainingTyped DEF Remaining, Put
  <1>3. \A j \in DOMAIN wait : w[j] = IF j = k THEN Null ELSE wait[j]
    BY <1>1 DEF Remaining, Put
  <1>4. \A j \in DOMAIN w : w[j] # Null => j \in Waiting /\ w[j] = wait[j]
    BY <1>2, <1>3 DEF Waiting
  <1>5. \A m \in Waiting : m # k => m \in DOMAIN w /\ w[m] = wait[m] /\ w[m] # Null
    BY <1>2, <1>3 DEF Waiting
  <1> HIDE DEF w
  <1>6. CASE r = w /\ ~(r \in Retry(wait[k], w) /\ buf[wait[k]] > 1)
    BY <1>4, <1>5, <1>6 DEF w
  <1>7. CASE \E c \in Compact(w) : r = Append(c, wait[k])
    <2>1. PICK c \in Compact(w) : r = Append(c, wait[k])
      BY <1>7
    <2>2. /\ c \in Seq(W)
          /\ \A j \in DOMAIN c : \E m \in DOMAIN w : c[j] = w[m] /\ w[m] # Null
          /\ \A m \in DOMAIN w : w[m] # Null => \E j \in DOMAIN c : c[j] = w[m]
      BY <1>2, Compacted
    <2>3. /\ DOMAIN r = 1..(Len(c) + 1) /\ r[Len(c) + 1] = wait[k]
          /\ \A j \in DOMAIN c : j \in DOMAIN r /\ r[j] = c[j]
          /\ \A j \in DOMAIN r : j = Len(c) + 1 \/ j \in DOMAIN c
          /\ Len(c) + 1 \in DOMAIN r
      BY <2>1, <2>2
    <2>4. ASSUME NEW j \in DOMAIN r, r[j] # Null PROVE \E m \in Waiting : r[j] = wait[m]
      <3>1. CASE j = Len(c) + 1
        BY <1>1, <2>3, <3>1
      <3>2. CASE j \in DOMAIN c
        <4>1. PICK m \in DOMAIN w : c[j] = w[m] /\ w[m] # Null
          BY <2>2, <3>2
        <4> QED
          BY <1>4, <2>3, <3>2, <4>1
      <3> QED
        BY <2>3, <3>1, <3>2
    <2>5. \A m \in Waiting : m # k => \E j \in DOMAIN r : r[j] = wait[m]
      BY <1>5, <2>2, <2>3
    <2> QED
      BY <2>3, <2>4, <2>5
  <1> QED
    BY <1>6, <1>7 DEF w, Retry

\* A dispatched input is put back, left or removed, and what was fetched still waits.
LEMMA NextLoop ==
    ASSUME LoopInv, NEW ended \in BOOLEAN, NEW ok, NEW d, Next(ended, ok, d)
    PROVE  LoopInv'
  <1>0. /\ pc = "next" /\ pc' = (IF ended THEN "done" ELSE "next")
        /\ UNCHANGED <<epoll, slot, room, fdused, epset, state, fd, system, poll>>
    BY DEF Next
  <1>1. /\ ~poll.on /\ poll.found = << >> /\ NotifyInv /\ TypeOK /\ Conserved /\ BufferedWaits
        /\ WaitEntriesLive
    BY <1>0, Quiet DEF WaitingRegistered
  <1>2. PICK k \in First : /\ Dispatch(wait[k])
                           /\ wait' \in IF ended THEN {Remaining(k)} ELSE Retry(wait[k], Remaining(k))
    BY DEF Next
  <1>3. k \in Waiting /\ wait[k] \in Opened /\ wait[k] \in Inputs
    BY <1>1, <1>2 DEF First, WaitEntriesLive, Opened
  <1>4. wait' \in Seq(Inputs \cup {Null, Garbage})
    <2>1. CASE wait' = Remaining(k)
      BY <1>1, <2>1, RemainingTyped
    <2>2. CASE wait' \in Retry(wait[k], Remaining(k))
      BY <1>1, <1>3, <2>2, RemainingTyped, RetryTyped
    <2> QED
      BY <1>2, <2>1, <2>2
  <1>5. /\ buf' \in [Inputs -> Nat] /\ done' \in [Inputs -> Nat] /\ out' \in [Inputs -> BOOLEAN]
        /\ \A j \in Inputs : buf'[j] + done'[j] + unread'[j] = buf[j] + done[j] + unread[j]
        /\ \A j \in Inputs : buf'[j] + done'[j] + unread'[j] <= sent'[j]
    BY <1>0, <1>1, <1>2, <1>3, DispatchTyped DEF system
  <1>6. NotifyInv'
    BY <1>0, <1>1, <1>4, <1>5, TakenNotify
  <1>7. Conserved'
    BY <1>0, <1>1, <1>5 DEF Conserved, Inputs, system
  <1>8. /\ \A j \in DOMAIN wait' : wait'[j] # Null => \E m \in Waiting : wait'[j] = wait[m]
        /\ \A m \in Waiting : m # k => \E j \in DOMAIN wait' : wait'[j] = wait[m]
        /\ ~ended /\ buf[wait[k]] > 1 => \E j \in DOMAIN wait' : wait'[j] = wait[k]
    BY <1>1, <1>2, Left
  <1>9. WaitingRegistered'
    BY <1>0, <1>1, <1>8 DEF WaitingRegistered, WaitEntriesLive, Waiting, Opened
  <1>10. BufferedWaits'
    <2> SUFFICES ASSUME NEW i \in Streams, buf'[i] > 0, ~ended
                 PROVE  \E j \in DOMAIN wait' : wait'[j] = i
      BY <1>0 DEF BufferedWaits
    <2>1. i \in Inputs /\ i # Null /\ buf \in [Inputs -> Nat]
      BY <1>1, Distinguished DEF Inputs, TypeOK
    <2>2. buf' = [buf EXCEPT ![wait[k]] = buf[wait[k]] - 1]
      BY <1>2 DEF Dispatch, Put
    <2>3. CASE i = wait[k]
      BY <1>3, <1>8, <2>1, <2>2, <2>3
    <2>4. CASE i # wait[k]
      <3>1. buf[i] > 0
        BY <2>1, <2>2, <2>4
      <3>2. PICK m \in DOMAIN wait : wait[m] = i
        BY <1>0, <1>1, <3>1 DEF BufferedWaits
      <3> QED
        BY <1>8, <2>1, <2>4, <3>2 DEF Waiting
    <2> QED
      BY <2>3, <2>4
  <1> QED
    BY <1>0, <1>1, <1>6, <1>7, <1>9, <1>10, BetweenWaits

\* Steps that leave the messages alone and only make the wait array shorter.
LEMMA EmptiedLoop ==
    ASSUME LoopInv, ~poll.on, NotifyInv', WaitingRegistered', BufferedWaits',
           UNCHANGED <<buf, done, system, poll>>,
           pc' \in {"setup", "next", "check", "block", "default", "done"},
           pc' \in {"setup", "check", "block", "default"} => wait' = << >>
    PROVE  LoopInv'
  <1>1. ~poll'.on /\ poll'.found = << >> /\ Conserved'
    BY Quiet DEF Conserved, system
  <1> QED
    BY <1>1, BetweenWaits

\* An input whose message is incomplete waits no more; nothing fetched is forgotten.
LEMMA NextPartLoop == ASSUME LoopInv, NextPart PROVE LoopInv'
  <1>0. /\ pc = "next" /\ pc' = "next"
        /\ UNCHANGED <<epoll, slot, room, fdused, epset, inputs, system, poll>>
    BY DEF NextPart
  <1>1. ~poll.on /\ NotifyInv /\ TypeOK /\ BufferedWaits /\ WaitEntriesLive /\ poll.found = << >>
    BY <1>0, Quiet DEF WaitingRegistered
  <1>2. PICK k \in First : buf[wait[k]] = 0 /\ wait' = Remaining(k)
    BY DEF NextPart
  <1>3. wait' \in Seq(Inputs \cup {Null, Garbage})
    BY <1>1, <1>2, RemainingTyped
  <1>4. NotifyInv'
    <2>1. /\ buf' \in [Inputs -> Nat] /\ done' \in [Inputs -> Nat] /\ out' \in [Inputs -> BOOLEAN]
          /\ \A j \in Inputs : buf'[j] + done'[j] + unread'[j] <= sent'[j]
      BY <1>0, <1>1 DEF TypeOK, inputs, system
    <2> QED
      BY <1>0, <1>1, <1>3, <2>1, TakenNotify DEF inputs
  <1>5. /\ \A j \in DOMAIN wait' : wait'[j] # Null => \E m \in Waiting : wait'[j] = wait[m]
        /\ \A m \in Waiting : m # k => \E j \in DOMAIN wait' : wait'[j] = wait[m]
    BY <1>1, <1>2, Left
  <1>6. WaitingRegistered'
    BY <1>0, <1>1, <1>5 DEF WaitingRegistered, WaitEntriesLive, Waiting, Opened, inputs
  <1>7. BufferedWaits'
    <2> SUFFICES ASSUME NEW i \in Streams, buf[i] > 0 PROVE \E j \in DOMAIN wait' : wait'[j] = i
      BY <1>0 DEF BufferedWaits, inputs
    <2>1. PICK m \in DOMAIN wait : wait[m] = i
      BY <1>0, <1>1 DEF BufferedWaits
    <2>2. i # Null /\ m # k
      BY <1>2, <2>1, Distinguished DEF Inputs
    <2> QED
      BY <1>5, <2>1, <2>2 DEF Waiting
  <1> QED
    BY <1>0, <1>1, <1>4, <1>6, <1>7, EmptiedLoop DEF inputs

\* A wait array without inputs is dropped.
LEMMA NextEmptyLoop == ASSUME LoopInv, NextEmpty PROVE LoopInv'
  <1>0. /\ pc = "next" /\ pc' \in {"check", "block"} /\ wait' = << >> /\ Waiting = {}
        /\ UNCHANGED <<epoll, slot, room, fdused, epset, inputs, system, poll>>
    BY DEF NextEmpty
  <1>1. ~poll.on /\ NotifyInv /\ TypeOK /\ BufferedWaits /\ poll.found = << >>
    BY <1>0, Quiet
  <1>2. NotifyInv'
    <2>1. /\ buf' \in [Inputs -> Nat] /\ done' \in [Inputs -> Nat] /\ out' \in [Inputs -> BOOLEAN]
          /\ \A j \in Inputs : buf'[j] + done'[j] + unread'[j] <= sent'[j]
      BY <1>0, <1>1 DEF TypeOK, inputs, system
    <2>2. wait' \in Seq(Inputs \cup {Null, Garbage})
      BY <1>0
    <2> QED
      BY <1>0, <1>1, <2>1, <2>2, TakenNotify DEF inputs
  <1>3. WaitingRegistered'
    BY <1>0 DEF WaitingRegistered, WaitEntriesLive, Waiting
  <1>4. \A i \in Streams : ~(buf[i] > 0)
    BY <1>0, <1>1, Distinguished DEF BufferedWaits, Waiting, Inputs
  <1>5. BufferedWaits'
    BY <1>0, <1>4 DEF BufferedWaits, inputs
  <1> QED
    BY <1>0, <1>1, <1>2, <1>3, <1>5, EmptiedLoop DEF inputs

\* After the loop the program closes the notifier with all that is registered.
LEMMA CloseLoop == ASSUME LoopInv, Close PROVE LoopInv'
  <1>1. pc = "done" /\ pc' = "done" /\ mpt_notify_fini
    BY DEF Close
  <1>2. ~poll.on /\ UNCHANGED <<buf, done, system, poll>>
    BY <1>1 DEF mpt_notify_fini
  <1>3. NotifyInv'
    BY <1>1, FiniNotify DEF LoopInv
  <1> QED
    BY <1>1, <1>2, <1>3, EmptiedLoop DEF WaitingRegistered, BufferedWaits

-----------------------------------------------------------------------------
(* Looking for input.                                                      *)

\* A wait begins with nothing left over from the last one.
LEMMA BeginLoop == ASSUME LoopInv, WaitBegin PROVE LoopInv'
  <1>0. /\ pc \in {"check", "block"} /\ pc' = pc /\ ~poll.on
        /\ UNCHANGED <<notify, inputs, system>>
    BY DEF WaitBegin, WaitStart
  <1>1. wait = << >> /\ poll.found = << >> /\ NotifyInv /\ Conserved /\ BufferedWaits
    BY <1>0, Quiet DEF LoopInv, WaitEmpty
  <1>2. NotifyInv'
    BY <1>1, StartNotify DEF WaitBegin
  <1>3. poll'.on = TRUE /\ poll'.found = << >>
    BY DEF WaitBegin, WaitStart
  <1>4. Conserved' /\ BufferedWaits' /\ wait' = << >>
    BY <1>0, <1>1, <1>3 DEF Conserved, BufferedWaits, notify, inputs, system
  <1>5. WaitingRegistered'
    BY <1>4 DEF WaitingRegistered, WaitEntriesLive, Waiting
  <1> QED
    BY <1>0, <1>2, <1>3, <1>4, <1>5 DEF LoopInv, FoundOpen, WaitEmpty

\* An event is handled: what was found stays open, and its event was this one or
\* one before.
LEMMA VisitLoop ==
    ASSUME LoopInv, NotifyInv', poll.on, poll.events # << >>, UNCHANGED <<pc, wait>>,
           NEW found, NEW moved, poll' = Visited(found, moved), Conserved',
           \A k \in DOMAIN found :
             /\ found[k] \in Inputs /\ state'[found[k]] = "open"
             /\ fd'[found[k]] = Event \/ \E m \in DOMAIN poll.found : fd'[found[k]] = fd[poll.found[m]],
           \A i \in Streams : buf'[i] > 0 => \E k \in DOMAIN found : found[k] = i
    PROVE  LoopInv'
  <1>1. /\ pc \in {"check", "block"} /\ wait = << >> /\ poll.events \in Seq(Fds) /\ poll \in Polls
        /\ \A a, b \in DOMAIN poll.events : a # b => poll.events[a] # poll.events[b]
    BY DEF LoopInv, WaitEmpty, NotifyInv, TablesAgree, TypeOK, Polls, EventsDistinct
  <1>2. poll'.on = TRUE /\ poll'.events = Tail(poll.events) /\ poll'.found = found
    BY <1>1 DEF Visited, Polls
  <1>3. /\ \A j \in DOMAIN poll'.events : /\ j + 1 \in DOMAIN poll.events /\ j + 1 # 1
                                          /\ poll'.events[j] = poll.events[j + 1]
        /\ 1 \in DOMAIN poll.events /\ Event = poll.events[1]
    BY <1>1, <1>2 DEF Event
  <1>4. \A j \in DOMAIN poll'.events :
          /\ poll'.events[j] # Event
          /\ \A m \in DOMAIN poll.found : poll'.events[j] # fd[poll.found[m]]
    BY <1>1, <1>3 DEF LoopInv, FoundOpen
  <1>5. FoundOpen'
    BY <1>2, <1>4 DEF FoundOpen, Opened
  <1>6. WaitingRegistered' /\ BufferedWaits'
    BY <1>1, <1>2 DEF WaitingRegistered, WaitEntriesLive, Waiting, BufferedWaits
  <1>7. WaitEmpty'
    BY <1>1, <1>2 DEF WaitEmpty
  <1> QED
    BY <1>5, <1>6, <1>7 DEF LoopInv

\* What the invariant says while a wait handles an event.
LEMMA Visiting ==
    ASSUME LoopInv, poll.on, poll.events # << >>
    PROVE  /\ NotifyInv /\ TypeOK /\ wait = << >> /\ Conserved
           /\ Event \in Fds /\ Due(Event) /\ Current \in Inputs /\ fd[Current] = Event
           /\ state[Current] = "open" /\ slot[Event] = Current
           /\ poll.found \in Seq(Streams)
           /\ \A k \in DOMAIN poll.found : /\ poll.found[k] \in Inputs
                                           /\ state[poll.found[k]] = "open"
                                           /\ poll.found[k] # Current
           /\ \A i \in Streams : buf[i] > 0 => \E k \in DOMAIN poll.found : poll.found[k] = i
  <1>1. NotifyInv /\ TypeOK /\ wait = << >> /\ Conserved /\ pc # "done" /\ BufferedWaits /\ FoundOpen
    BY DEF LoopInv, NotifyInv, TablesAgree, WaitEmpty
  <1>2. /\ Event \in Fds /\ Due(Event) /\ Current \in Inputs /\ fd[Current] = Event
        /\ state[Current] = "open" /\ slot[Event] = Current
    BY <1>1, EventDue
  <1>3. 1 \in DOMAIN poll.events /\ Event = poll.events[1] /\ poll.found \in Seq(Streams)
    BY <1>1 DEF TypeOK, Polls, Event
  <1>4. \A k \in DOMAIN poll.found : /\ poll.found[k] \in Inputs
                                     /\ state[poll.found[k]] = "open"
                                     /\ poll.found[k] # Current
    BY <1>1, <1>2, <1>3 DEF FoundOpen, Opened
  <1>5. \A i \in Streams : buf[i] > 0 => \E k \in DOMAIN poll.found : poll.found[k] = i
    BY <1>1 DEF BufferedWaits
  <1> QED
    BY <1>1, <1>2, <1>3, <1>4, <1>5

\* Data that was fetched makes its input wait.
LEMMA ReadLoop == ASSUME LoopInv, StreamRead, UNCHANGED pc PROVE LoopInv'
  <1>0. /\ poll.on /\ poll.events # << >> /\ Current \in Streams
        /\ poll' = Visited(Append(poll.found, Current), FALSE)
        /\ UNCHANGED <<sent, hup, notify, state, fd, done>>
    BY DEF StreamRead, Stream
  <1>1. /\ NotifyInv /\ TypeOK /\ Conserved /\ fd[Current] = Event /\ state[Current] = "open"
        /\ Current \in Inputs /\ poll.found \in Seq(Streams)
        /\ \A k \in DOMAIN poll.found : poll.found[k] \in Inputs /\ state[poll.found[k]] = "open"
        /\ \A i \in Streams : buf[i] > 0 => \E k \in DOMAIN poll.found : poll.found[k] = i
    BY <1>0, Visiting
  <1>2. NotifyInv'
    BY <1>1, ReadNotify
  <1>3. PICK n \in 0..unread[Current] : /\ buf' = [buf EXCEPT ![Current] = buf[Current] + n]
                                        /\ unread' = [unread EXCEPT ![Current] = unread[Current] - n]
    BY DEF StreamRead, Put
  <1>4. buf \in [Inputs -> Nat] /\ unread \in [Inputs -> Nat] /\ done \in [Inputs -> Nat]
    BY <1>1 DEF TypeOK
  <1>5. Conserved'
    <2> SUFFICES ASSUME NEW i \in Streams PROVE buf'[i] + done[i] + unread'[i] = sent[i]
      BY <1>0 DEF Conserved
    <2>1. buf[i] + done[i] + unread[i] = sent[i] /\ i \in Inputs
      BY <1>1 DEF Conserved, Inputs
    <2> QED
      BY <1>1, <1>3, <1>4, <2>1
  <1> DEFINE found == Append(poll.found, Current)
  <1>6. /\ DOMAIN found = 1..(Len(poll.found) + 1) /\ Len(poll.found) + 1 \in DOMAIN found
        /\ found[Len(poll.found) + 1] = Current
        /\ \A k \in DOMAIN poll.found : k \in DOMAIN found /\ found[k] = poll.found[k]
        /\ \A k \in DOMAIN found : k \in DOMAIN poll.found \/ k = Len(poll.found) + 1
    BY <1>1
  <1> HIDE DEF found
  <1>7. \A k \in DOMAIN found :
          /\ found[k] \in Inputs /\ state'[found[k]] = "open"
          /\ fd'[found[k]] = Event \/ \E m \in DOMAIN poll.found : fd'[found[k]] = fd[poll.found[m]]
    BY <1>0, <1>1, <1>6
  <1>8. \A i \in Streams : buf'[i] > 0 => \E k \in DOMAIN found : found[k] = i
    BY <1>1, <1>3, <1>4, <1>6, ZenonT(60) DEF Inputs
  <1>9. poll' = Visited(found, FALSE) /\ UNCHANGED <<pc, wait>>
    BY <1>0 DEF found, notify
  <1>10. poll.on /\ poll.events # << >>
    BY <1>0
  <1> QED
    BY <1>2, <1>5, <1>7, <1>8, <1>9, <1>10, VisitLoop

\* The input of this event is removed, the ones that were found stay.
LEMMA DroppedLoop ==
    ASSUME LoopInv, NotifyInv', NEW how \in {"freed", "failed"}, mpt_notify_clear(Event, how),
           poll.on, poll.events # << >>, UNCHANGED <<pc, sent, wait, buf, done>>,
           NEW moved, poll' = Visited(poll.found, moved),
           \A i \in Streams : unread'[i] = unread[i]
    PROVE  LoopInv'
  <1>1. /\ TypeOK /\ Conserved /\ Current \in Inputs /\ slot[Event] = Current
        /\ \A k \in DOMAIN poll.found : /\ poll.found[k] \in Inputs
                                        /\ state[poll.found[k]] = "open"
                                        /\ poll.found[k] # Current
        /\ \A i \in Streams : buf[i] > 0 => \E k \in DOMAIN poll.found : poll.found[k] = i
    BY Visiting
  <1>2. /\ state' = [state EXCEPT ![Current] = how]
        /\ fd' = [fd EXCEPT ![Current] = -1]
    BY <1>1 DEF mpt_notify_clear, Put
  <1>3. \A k \in DOMAIN poll.found :
          /\ poll.found[k] \in Inputs /\ state'[poll.found[k]] = "open"
          /\ fd'[poll.found[k]] = fd[poll.found[k]]
    BY <1>1, <1>2 DEF TypeOK
  <1>4. Conserved'
    BY <1>1 DEF Conserved
  <1> QED
    BY <1>1, <1>3, <1>4, VisitLoop

\* A closed or failed stream and a listener that failed are removed.
LEMMA ClosedLoop ==
    ASSUME LoopInv, StreamClosed \/ StreamFails \/ AcceptFails, UNCHANGED pc
    PROVE  LoopInv'
  <1>1. poll.on /\ poll.events # << >> /\ UNCHANGED <<sent, wait, buf, done>>
    BY DEF StreamClosed, StreamFails, AcceptFails, Stream, system
  <1>2. PICK how \in {"freed", "failed"} : mpt_notify_clear(Event, how)
    BY DEF StreamClosed, StreamFails, AcceptFails
  <1>3. PICK moved : poll' = Visited(poll.found, moved)
    BY DEF StreamClosed, StreamFails, AcceptFails
  <1>4. NotifyInv'
    BY ClosedNotify, RefusedNotify DEF LoopInv
  <1>5. \A i \in Streams : unread'[i] = unread[i]
    <2>1. CASE StreamClosed \/ StreamFails
      BY <2>1 DEF StreamClosed, StreamFails, system
    <2>2. CASE AcceptFails
      <3>1. Current \notin Streams /\ unread' = [unread EXCEPT ![Current] = unread[Current] - 1]
        BY <2>2, NotifyAssumption DEF AcceptFails, Put
      <3> QED
        BY <3>1 DEF LoopInv, NotifyInv, TablesAgree, TypeOK, Inputs
    <2> QED
      BY <2>1, <2>2
  <1> QED
    BY <1>1, <1>2, <1>3, <1>4, <1>5, DroppedLoop

\* An event that changes nothing but that its input may be found.
LEMMA PassedLoop ==
    ASSUME LoopInv, NotifyInv', poll.on, poll.events # << >>,
           UNCHANGED <<pc, notify, inputs, system>>,
           poll' = Visited(poll.found, FALSE)
             \/ (Current \in Streams /\ poll' = Visited(Append(poll.found, Current), FALSE))
    PROVE  LoopInv'
  <1>1. /\ Conserved /\ fd[Current] = Event /\ state[Current] = "open"
        /\ Current \in Inputs /\ poll.found \in Seq(Streams)
        /\ \A k \in DOMAIN poll.found : poll.found[k] \in Inputs /\ state[poll.found[k]] = "open"
        /\ \A i \in Streams : buf[i] > 0 => \E k \in DOMAIN poll.found : poll.found[k] = i
    BY Visiting
  <1>2. Conserved' /\ UNCHANGED <<pc, wait, buf, state, fd>>
    BY <1>1 DEF Conserved, system, inputs, notify
  <1>3. PICK found \in {poll.found, Append(poll.found, Current)} : poll' = Visited(found, FALSE)
    OBVIOUS
  <1>4. CASE found = poll.found
    BY <1>1, <1>2, <1>3, <1>4, VisitLoop
  <1>5. CASE found = Append(poll.found, Current)
    <2>1. /\ DOMAIN found = 1..(Len(poll.found) + 1) /\ Len(poll.found) + 1 \in DOMAIN found
          /\ found[Len(poll.found) + 1] = Current
          /\ \A k \in DOMAIN poll.found : k \in DOMAIN found /\ found[k] = poll.found[k]
          /\ \A k \in DOMAIN found : k \in DOMAIN poll.found \/ k = Len(poll.found) + 1
      BY <1>1, <1>5
    <2>2. \A k \in DOMAIN found :
            /\ found[k] \in Inputs /\ state'[found[k]] = "open"
            /\ fd'[found[k]] = Event \/ \E m \in DOMAIN poll.found : fd'[found[k]] = fd[poll.found[m]]
      BY <1>1, <1>2, <2>1
    <2>3. \A i \in Streams : buf'[i] > 0 => \E k \in DOMAIN found : found[k] = i
      BY <1>1, <1>2, <2>1
    <2> QED
      BY <1>2, <1>3, <2>2, <2>3, VisitLoop
  <1> QED
    BY <1>3, <1>4, <1>5

\* A stream without new data stays, and may be found in the wait.
LEMMA StaysLoop == ASSUME LoopInv, StreamStays, UNCHANGED pc PROVE LoopInv'
  <1>1. NotifyInv'
    BY StaysNotify DEF LoopInv
  <1> QED
    BY <1>1, PassedLoop DEF StreamStays, Stream

\* A stream ready for output alone is not found in the wait.
LEMMA UnaskedLoop == ASSUME LoopInv, StreamUnasked, UNCHANGED pc PROVE LoopInv'
  <1>1. /\ poll.on /\ poll.events # << >> /\ UNCHANGED system
        /\ poll' = Visited(poll.found, FALSE) /\ NotifyInv'
    BY UnaskedNotify DEF StreamUnasked, Stream, LoopInv
  <1>2. CASE UNCHANGED <<notify, inputs>>
    BY <1>1, <1>2, PassedLoop
  <1>3. CASE mpt_notify_clear(Event, "freed") /\ UNCHANGED <<epoll, room, wait, buf, done>>
    BY <1>1, <1>3, DroppedLoop DEF system
  <1> QED
    BY <1>2, <1>3 DEF StreamUnasked

\* An event lost with the slots does not change what was found.
LEMMA StaleLoop == ASSUME LoopInv, WaitStale, UNCHANGED pc PROVE LoopInv'
  <1>1. /\ poll.on /\ poll.events # << >> /\ UNCHANGED <<notify, inputs, system>> /\ NotifyInv'
    BY StaleNotify DEF WaitStale, LoopInv
  <1>2. CASE poll' = Visited(poll.found, FALSE)
    BY <1>1, <1>2, PassedLoop
  <1>3. CASE poll' = [poll EXCEPT !.events = << >>, !.slots = "lost"]
    <2>1. poll \in Polls /\ FoundOpen /\ WaitEmpty /\ Conserved /\ WaitingRegistered /\ BufferedWaits
      BY DEF LoopInv, NotifyInv, TablesAgree, TypeOK
    <2>2. poll'.on = poll.on /\ poll'.found = poll.found /\ poll'.events = << >>
      BY <1>3, <2>1 DEF Polls
    <2>3. FoundOpen' /\ WaitEmpty' /\ WaitingRegistered' /\ BufferedWaits' /\ Conserved'
      BY <1>1, <2>1, <2>2 DEF FoundOpen, WaitEmpty, WaitingRegistered, WaitEntriesLive, Waiting, Opened,
                              BufferedWaits, Conserved, notify, inputs, system
    <2> QED
      BY <1>1, <2>3 DEF LoopInv
  <1> QED
    BY <1>2, <1>3 DEF WaitStale

\* An accepted input is new to the wait.
LEMMA AcceptLoop == ASSUME LoopInv, Accept, UNCHANGED pc PROVE LoopInv'
  <1>0. /\ poll.on /\ poll.events # << >> /\ Current \in Listeners
        /\ unread' = [unread EXCEPT ![Current] = unread[Current] - 1]
        /\ UNCHANGED <<epoll, sent, part, hup, wait, buf, done>>
    BY DEF Accept, Put
  <1>1. PICK i \in {j \in Streams : state[j] = "new"}, f \in LowestFd :
          Accepted(i, f) /\ poll' = Visited(poll.found, Grows(f))
    BY DEF Accept
  <1>2. PICK moved : poll' = Visited(poll.found, moved)
    BY <1>1
  <1>3. /\ NotifyInv /\ TypeOK /\ Conserved
        /\ \A k \in DOMAIN poll.found : /\ poll.found[k] \in Inputs
                                        /\ state[poll.found[k]] = "open"
                                        /\ poll.found[k] # Current
        /\ \A j \in Streams : buf[j] > 0 => \E k \in DOMAIN poll.found : poll.found[k] = j
    BY <1>0, Visiting
  <1>4. NotifyInv'
    BY <1>3, AcceptNotify
  <1>5. \A j \in Inputs : j # Current /\ j # i => state'[j] = state[j] /\ fd'[j] = fd[j]
    BY <1>0, <1>1, <1>3, AcceptTables
  <1>6. \A k \in DOMAIN poll.found :
          /\ poll.found[k] \in Inputs /\ state'[poll.found[k]] = "open"
          /\ fd'[poll.found[k]] = fd[poll.found[k]]
    BY <1>1, <1>3, <1>5
  <1>7. Conserved'
    <2>1. Current \notin Streams
      BY <1>0, NotifyAssumption
    <2>2. \A j \in Streams : unread'[j] = unread[j]
      BY <1>0, <1>3, <2>1 DEF TypeOK, Inputs
    <2> QED
      BY <1>0, <1>3, <2>2 DEF Conserved
  <1> QED
    BY <1>0, <1>2, <1>3, <1>4, <1>6, <1>7, VisitLoop

\* At the end of a wait all inputs found in it wait, and they are open.
LEMMA InputLoop == ASSUME LoopInv, WaitInput PROVE LoopInv'
  <1>1. poll.events # << >> /\ UNCHANGED pc /\ WaitStep
    BY DEF WaitInput
  <1>2. ~WaitEnd
    BY <1>1 DEF WaitEnd
  <1> QED
    BY <1>1, <1>2, ReadLoop, ClosedLoop, StaysLoop, UnaskedLoop, AcceptLoop, StaleLoop DEF WaitStep

\* The inputs that were found are the ones that wait.
LEMMA ReturnLoop == ASSUME LoopInv, WaitReturn PROVE LoopInv'
  <1>0. /\ pc \in {"check", "block"} /\ poll.on /\ poll.events = << >> /\ wait' = poll.found
        /\ poll' = NoPoll
        /\ UNCHANGED <<epoll, slot, room, fdused, epset, inputs, system>>
        /\ pc' = IF pc = "check" /\ poll.found = << >> THEN "default" ELSE "next"
    BY DEF WaitReturn, WaitEnd
  <1>1. NotifyInv /\ FoundOpen /\ Conserved /\ BufferedWaits /\ wait = << >>
    BY <1>0 DEF LoopInv, WaitEmpty
  <1>2. NotifyInv'
    BY <1>1, EndNotify DEF WaitReturn
  <1>3. WaitingRegistered'
    BY <1>0, <1>1 DEF WaitingRegistered, WaitEntriesLive, Waiting, FoundOpen, Opened, inputs
  <1>4. BufferedWaits' /\ Conserved'
    BY <1>0, <1>1 DEF BufferedWaits, Conserved, inputs, system
  <1>5. ~poll'.on /\ poll'.found = << >>
    BY <1>0 DEF NoPoll
  <1> QED
    BY <1>0, <1>2, <1>3, <1>4, <1>5, BetweenWaits

\* A wait that finds nothing leaves nothing.
LEMMA NothingLoop == ASSUME LoopInv, WaitNothing PROVE LoopInv'
  <1>0. /\ pc = "check" /\ pc' = "default" /\ ~poll.on
        /\ UNCHANGED <<epoll, slot, room, fdused, epset, inputs, system, poll>>
    BY DEF WaitNothing, WaitTimeout
  <1>1. wait = << >> /\ poll.found = << >> /\ NotifyInv /\ BufferedWaits
    BY <1>0, Quiet DEF LoopInv, WaitEmpty
  <1>2. NotifyInv'
    BY <1>1, TimeoutNotify DEF WaitNothing
  <1>3. wait' = << >>
    BY <1>1 DEF WaitNothing, WaitTimeout
  <1>4. WaitingRegistered' /\ BufferedWaits'
    BY <1>0, <1>1, <1>3 DEF WaitingRegistered, WaitEntriesLive, Waiting, BufferedWaits, inputs
  <1> QED
    BY <1>0, <1>2, <1>3, <1>4, EmptiedLoop DEF inputs

\* What the peers do shows in the numbers of messages alone.
LEMMA SystemLoop == ASSUME LoopInv, System, UNCHANGED pc PROVE LoopInv'
  <1>0. UNCHANGED <<notify, inputs, poll>>
    BY DEF System, Send, SendPart, Hangup, Connect
  <1>1. NotifyInv /\ TypeOK /\ FoundOpen /\ WaitEmpty /\ Conserved /\ WaitingRegistered /\ BufferedWaits
    BY DEF LoopInv, NotifyInv, TablesAgree
  <1>2. NotifyInv'
    BY <1>1, SystemNotify
  <1>3. FoundOpen' /\ WaitEmpty' /\ WaitingRegistered' /\ BufferedWaits'
    BY <1>0, <1>1 DEF FoundOpen, WaitEmpty, WaitingRegistered, WaitEntriesLive, Waiting, Opened,
                      BufferedWaits, notify, inputs
  <1>4. Conserved'
    <2> SUFFICES ASSUME NEW i \in Streams PROVE buf[i] + done[i] + unread'[i] = sent'[i]
      BY <1>0 DEF Conserved, inputs
    <2>1. /\ buf[i] + done[i] + unread[i] = sent[i] /\ i \in Inputs /\ i \notin Listeners
          /\ buf[i] \in Nat /\ done[i] \in Nat /\ unread[i] \in Nat /\ sent[i] \in Nat
          /\ sent \in [Inputs -> Nat] /\ unread \in [Inputs -> Nat]
      BY <1>1, NotifyAssumption DEF Conserved, Inputs, TypeOK
    <2>2. \/ unread'[i] = unread[i] /\ sent'[i] = sent[i]
          \/ unread'[i] = unread[i] + 1 /\ sent'[i] = sent[i] + 1
      BY <2>1 DEF System, Send, SendPart, Hangup, Connect, Put
    <2> QED
      BY <2>1, <2>2
  <1> QED
    BY <1>2, <1>3, <1>4 DEF LoopInv

\* Every step of the loop and of its surroundings keeps the invariant.
LEMMA StepLoop == LoopInv /\ [LoopNext]_vars => LoopInv'
  <1> SUFFICES ASSUME LoopInv, [LoopNext]_vars PROVE LoopInv'
    OBVIOUS
  <1>1. CASE Setup
    BY <1>1, SetupLoop
  <1>2. CASE Start \/ WaitRefused \/ Interrupted \/ Default
    <2>1. ~poll.on
      BY <1>2 DEF Start, WaitRefused, Interrupted, Default, DefaultNone, DefaultRun, DefaultFails,
                  LoopInv, WaitEmpty
    <2>2. /\ UNCHANGED nvars /\ pc \in {"setup", "check", "block", "default"}
          /\ pc' \in {"next", "default", "done"}
      BY <1>2 DEF Start, WaitRefused, Interrupted, Default, DefaultNone, DefaultRun, DefaultFails
    <2> QED
      BY <2>1, <2>2, TurnLoop
  <1>3. CASE NextMessage
    BY <1>3, NextLoop DEF NextMessage
  <1>4. CASE NextPart \/ NextEmpty
    BY <1>4, NextPartLoop, NextEmptyLoop
  <1>5. CASE WaitBegin \/ WaitInput \/ WaitReturn \/ WaitNothing
    BY <1>5, BeginLoop, InputLoop, ReturnLoop, NothingLoop
  <1>6. CASE Close
    BY <1>6, CloseLoop
  <1>7. CASE System /\ UNCHANGED <<pc, def, dflt>>
    BY <1>7, SystemLoop
  <1>8. CASE UNCHANGED vars
    BY <1>8 DEF vars, nvars, notify, inputs, system, LoopInv, NotifyInv, TablesAgree, TypeOK,
                SlotsMatch, UsedCounted, Used, EventsReady, EventsDistinct, Opened, Readable,
                FoundOpen, WaitEmpty, Conserved, WaitingRegistered, WaitEntriesLive, Waiting,
                BufferedWaits
  <1> QED
    BY <1>1, <1>2, <1>3, <1>4, <1>5, <1>6, <1>7, <1>8 DEF LoopNext, Loop

(* The loop never dispatches an input it has dropped, and messages an input *)
(* has fetched wait for dispatch until they are: whatever inputs, slots and *)
(* descriptors there are, and with epoll as with poll() (mpt_loop,          *)
(* mpt_notify_wait, mpt_notify_next, mpt_notify_clear, streamNext).         *)
THEOREM LoopServes == LoopSpec => [](TablesAgree /\ WaitingRegistered /\ BufferedWaits)
  <1>1. LoopInv => TablesAgree /\ WaitingRegistered /\ BufferedWaits
    BY DEF LoopInv, NotifyInv
  <1> QED
    BY <1>1, InitLoop, StepLoop, PTL DEF LoopSpec

-----------------------------------------------------------------------------
(* With epoll, a stream that is removed has nothing left to read.  poll()   *)
(* reports a stream as ready for output as well, so an input without data   *)
(* is removed with it: the property does not hold there.                    *)

\* With `epoll` nothing was lost at the begin.
LEMMA InitEpoll == ASSUME Modes = {TRUE} PROVE LoopInit => LoopEpoll
  BY DEF LoopInit, Init, LoopEpoll, NothingUndelivered, Inputs

\* Removed streams stay as they are, and none is removed.
LEMMA SameEpoll ==
    ASSUME LoopEpoll, epoll' = epoll,
           \A i \in Streams : state'[i] = "freed" /\ pc' # "done" =>
              state[i] = "freed" /\ pc # "done" /\ hup'[i] = hup[i] /\ done'[i] = done[i] /\ sent'[i] = sent[i]
    PROVE  LoopEpoll'
  BY DEF LoopEpoll, NothingUndelivered

\* An event without data is a hangup, and an input that is about to be visited
\* has no messages of its own: it would be among those found.
LEMMA ClosedEpoll ==
    ASSUME LoopInv, LoopEpoll, StreamClosed, UNCHANGED pc
    PROVE  LoopEpoll'
  <1>0. /\ poll.on /\ poll.events # << >> /\ mpt_notify_clear(Event, "freed") /\ NoData
        /\ UNCHANGED <<epoll, buf, done, system>>
    BY DEF StreamClosed, Stream
  <1>1. /\ TypeOK /\ Conserved /\ Due(Event) /\ Current \in Inputs /\ slot[Event] = Current
        /\ \A k \in DOMAIN poll.found : poll.found[k] # Current
        /\ \A i \in Streams : buf[i] > 0 => \E k \in DOMAIN poll.found : poll.found[k] = i
    BY <1>0, Visiting
  <1>2. Current \in Streams
    BY DEF StreamClosed, Stream
  <1>3. hup[Current] # "no"
    BY <1>0, <1>1 DEF LoopEpoll, NoData, Due, Readable
  <1>4. buf[Current] = 0 /\ unread[Current] = 0 /\ done[Current] \in Nat
    <2>1. buf[Current] \in Nat /\ done[Current] \in Nat
      BY <1>1 DEF TypeOK
    <2>2. ~(buf[Current] > 0)
      BY <1>1, <1>2
    <2> QED
      BY <1>0, <2>1, <2>2 DEF NoData
  <1>5. done[Current] = sent[Current]
    BY <1>1, <1>2, <1>4 DEF Conserved
  <1>6. state' = [state EXCEPT ![Current] = "freed"]
    BY <1>0, <1>1 DEF mpt_notify_clear, Put
  <1>7. \A i \in Streams : i # Current => state'[i] = state[i]
    BY <1>1, <1>6 DEF TypeOK, Inputs
  <1> QED
    BY <1>0, <1>3, <1>5, <1>7 DEF LoopEpoll, NothingUndelivered, system

\* An input that fails is none of those that are dropped without an error.
LEMMA FailedEpoll ==
    ASSUME LoopInv, LoopEpoll, StreamFails, UNCHANGED pc
    PROVE  LoopEpoll'
  <1>1. /\ mpt_notify_clear(Event, "failed") /\ poll.on /\ poll.events # << >>
        /\ UNCHANGED <<epoll, done, system>>
    BY DEF StreamFails, Stream
  <1>2. TypeOK /\ Current \in Inputs /\ slot[Event] = Current
    BY <1>1, Visiting
  <1>3. state' = [state EXCEPT ![Current] = "failed"]
    BY <1>1, <1>2 DEF mpt_notify_clear, Put
  <1>4. \A i \in Streams : state'[i] = "freed" => state[i] = "freed"
    BY <1>2, <1>3 DEF TypeOK, Inputs
  <1> QED
    BY <1>1, <1>4, SameEpoll DEF system

\* `epoll` reports input alone.
LEMMA AskedEpoll == ASSUME LoopInv, LoopEpoll PROVE ~StreamUnasked
  <1> SUFFICES ASSUME StreamUnasked PROVE FALSE
    OBVIOUS
  <1>1. Event \notin poll.input /\ poll.on /\ poll.events # << >>
    BY DEF StreamUnasked, Stream, Input
  <1>2. Due(Event)
    BY <1>1, Visiting
  <1> QED
    BY <1>1, <1>2 DEF LoopEpoll, Due

\* A dispatched input is open.
LEMMA NextEpoll ==
    ASSUME LoopInv, LoopEpoll, NEW ended \in BOOLEAN, NEW ok, NEW d, Next(ended, ok, d)
    PROVE  LoopEpoll'
  <1>0. /\ pc = "next" /\ UNCHANGED <<epoll, state, system>>
    BY DEF Next
  <1>1. PICK k \in First : Dispatch(wait[k])
    BY DEF Next
  <1>2. TypeOK /\ wait[k] \in Inputs /\ state[wait[k]] = "open"
    BY <1>0, <1>1, Quiet DEF WaitingRegistered, WaitEntriesLive, First, Opened
  <1>3. done' = [done EXCEPT ![wait[k]] = done[wait[k]] + 1]
    BY <1>1 DEF Dispatch, Put
  <1>4. \A i \in Streams : state[i] = "freed" => done'[i] = done[i]
    BY <1>2, <1>3 DEF TypeOK, Inputs
  <1> QED
    BY <1>0, <1>4, SameEpoll DEF system

\* The input that is removed, or the one that is created, is not a stream that
\* was removed before.
LEMMA ListenerEpoll ==
    ASSUME LoopInv, LoopEpoll, Accept \/ AcceptFails, UNCHANGED pc
    PROVE  LoopEpoll'
  <1>0. /\ poll.on /\ poll.events # << >> /\ Current \in Listeners
        /\ UNCHANGED <<epoll, sent, part, hup, wait, buf, done>>
    BY DEF Accept, AcceptFails
  <1>1. NotifyInv /\ TypeOK /\ slot[Event] = Current /\ Current \notin Streams
    BY <1>0, Visiting, NotifyAssumption
  <1>2. \A i \in Streams : state'[i] = "freed" => state[i] = "freed"
    <2>1. CASE Accept
      <3>1. PICK i \in {j \in Streams : state[j] = "new"}, f \in LowestFd : Accepted(i, f)
        BY <2>1 DEF Accept
      <3>2. state'[i] = "open"
        BY <3>1 DEF Accepted, Inputs
      <3>3. \A j \in Streams : j # i => state'[j] = state[j]
        BY <1>1, <3>1 DEF Accepted, Inputs
      <3> QED
        BY <3>2, <3>3
    <2>2. CASE AcceptFails
      <3>1. state' = [state EXCEPT ![Current] = "freed"]
        BY <1>1, <2>2 DEF AcceptFails, mpt_notify_clear, Put
      <3> QED
        BY <1>1, <3>1 DEF TypeOK, Inputs
    <2> QED
      BY <2>1, <2>2
  <1> QED
    BY <1>0, <1>2, SameEpoll

\* Peers add messages and hang up, but take nothing from the loop.
LEMMA SystemEpoll ==
    ASSUME LoopInv, LoopEpoll, System, UNCHANGED pc
    PROVE  LoopEpoll'
  <1>0. UNCHANGED <<notify, inputs, poll>> /\ TypeOK
    BY DEF System, Send, SendPart, Hangup, Connect, LoopInv, NotifyInv, TablesAgree
  <1>1. \A i \in Streams : state[i] = "freed" => hup'[i] = hup[i] /\ sent'[i] = sent[i]
    <2> SUFFICES ASSUME NEW i \in Streams, state[i] = "freed" PROVE hup'[i] = hup[i] /\ sent'[i] = sent[i]
      OBVIOUS
    <2>1. i \in Inputs /\ i \notin Opened /\ hup \in [Inputs -> {"no", "half", "full"}] /\ sent \in [Inputs -> Nat]
      BY <1>0 DEF Inputs, Opened, TypeOK
    <2>2. ASSUME NEW j \in Streams, Send(j) PROVE hup'[i] = hup[i] /\ sent'[i] = sent[i]
      BY <2>1, <2>2 DEF Send, Put
    <2>3. ASSUME NEW j \in Streams, SendPart(j) PROVE hup'[i] = hup[i] /\ sent'[i] = sent[i]
      BY <2>3 DEF SendPart
    <2>4. ASSUME NEW j \in Streams, NEW how \in {"half", "full"}, Hangup(j, how)
          PROVE  hup'[i] = hup[i] /\ sent'[i] = sent[i]
      BY <2>1, <2>4 DEF Hangup, Put
    <2>5. ASSUME NEW l \in Listeners, Connect(l) PROVE hup'[i] = hup[i] /\ sent'[i] = sent[i]
      BY <2>1, <2>5 DEF Connect, Put
    <2> QED
      BY <2>2, <2>3, <2>4, <2>5 DEF System
  <1> QED
    BY <1>0, <1>1, SameEpoll DEF notify, inputs

\* A new input has lost nothing.
LEMMA OpenEpoll == ASSUME LoopInv, LoopEpoll, Setup PROVE LoopEpoll'
  <1>1. PICK i \in Inputs : Open(i) \/ OpenFails(i)
    BY DEF Setup
  <1>2. UNCHANGED <<pc, epoll, done, system>> /\ TypeOK /\ state[i] = "new" /\ pc = "setup"
    BY <1>1 DEF Setup, Open, OpenFails, LoopInv, NotifyInv, TablesAgree
  <1>3. state' = [state EXCEPT ![i] = "open"] \/ state' = [state EXCEPT ![i] = "refused"]
    BY <1>1 DEF Open, OpenFails, mpt_notify_add, Put
  <1>4. \A j \in Streams : state'[j] = "freed" => state[j] = "freed"
    BY <1>2, <1>3 DEF TypeOK, Inputs
  <1> QED
    BY <1>2, <1>4, SameEpoll DEF system

\* With `epoll` every step keeps what makes the loop lose nothing.
LEMMA StepEpoll == LoopInv /\ LoopEpoll /\ [LoopNext]_vars => LoopEpoll'
  <1> SUFFICES ASSUME LoopInv, LoopEpoll, [LoopNext]_vars PROVE LoopEpoll'
    OBVIOUS
  <1>1. CASE Setup
    BY <1>1, OpenEpoll
  <1>2. CASE \/ Start \/ WaitRefused \/ Interrupted \/ Default \/ NextPart \/ NextEmpty
             \/ WaitBegin \/ WaitReturn \/ WaitNothing
    <2>1. UNCHANGED <<epoll, state, system, done>> /\ pc # "done"
      BY <1>2 DEF Start, WaitRefused, Interrupted, Default, DefaultNone, DefaultRun, DefaultFails,
                  NextPart, NextEmpty, WaitBegin, WaitStart, WaitReturn, WaitEnd, WaitNothing,
                  WaitTimeout, nvars, notify, inputs
    <2> QED
      BY <2>1, SameEpoll DEF system
  <1>3. CASE NextMessage
    BY <1>3, NextEpoll DEF NextMessage
  <1>4. CASE WaitInput
    <2>1. WaitStep /\ ~WaitEnd /\ UNCHANGED pc /\ pc # "done"
      BY <1>4 DEF WaitInput, WaitEnd
    <2>2. CASE StreamRead
      BY <2>1, <2>2, SameEpoll DEF StreamRead, notify
    <2>3. CASE StreamStays \/ WaitStale
      BY <2>1, <2>3, SameEpoll DEF StreamStays, WaitStale, notify, inputs, system
    <2>4. CASE StreamFails
      BY <2>1, <2>4, FailedEpoll
    <2>5. ~StreamUnasked
      BY AskedEpoll
    <2> QED
      BY <2>1, <2>2, <2>3, <2>4, <2>5, ClosedEpoll, ListenerEpoll DEF WaitStep
  <1>5. CASE Close
    <2>1. pc' = "done" /\ epoll' = epoll
      BY <1>5 DEF Close, mpt_notify_fini
    <2> QED
      BY <2>1, SameEpoll
  <1>6. CASE System /\ UNCHANGED <<pc, def, dflt>>
    BY <1>6, SystemEpoll
  <1>7. CASE UNCHANGED vars
    BY <1>7, SameEpoll DEF vars, nvars, notify, inputs, system
  <1> QED
    BY <1>1, <1>2, <1>3, <1>4, <1>5, <1>6, <1>7 DEF LoopNext, Loop

(* With epoll no message is lost on its way through streamNext, the wait    *)
(* array and the loop: a stream is only removed after its peer hung up and  *)
(* all its messages are dispatched, and until then they wait.               *)
THEOREM LoopLosesNothing == Modes = {TRUE} => (LoopSpec => []NothingLost)
  <1> SUFFICES ASSUME Modes = {TRUE} PROVE LoopSpec => []NothingLost
    OBVIOUS
  <1>1. LoopInit => LoopInv /\ LoopEpoll
    BY InitLoop, InitEpoll
  <1>2. LoopInv /\ LoopEpoll /\ [LoopNext]_vars => LoopInv' /\ LoopEpoll'
    BY StepLoop, StepEpoll
  <1>3. LoopInv /\ LoopEpoll => NothingLost
    BY DEF LoopInv, LoopEpoll, NothingLost
  <1> QED
    BY <1>1, <1>2, <1>3, PTL DEF LoopSpec

=============================================================================
