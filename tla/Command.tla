------------------------------ MODULE Command ------------------------------
(***************************************************************************)
(* The command array of mptcore/event: a growing array of slots, each an   *)
(* identifier with a handler and the handler's context.  Two users share   *)
(* it: a dispatcher registers handlers under identifiers it chooses        *)
(* (mpt_command_set), a connection asks for an unused identifier for the   *)
(* answer to its next message (mpt_command_reserve).  A handler owns its   *)
(* context; it is told to let go of it by a call without argument.         *)
(***************************************************************************)
EXTENDS Naturals, Sequences, FiniteSets

CONSTANTS
  Ids,        \* identifiers the callers of mpt_command_set choose
  MaxId,      \* largest identifier of the message range (INT8_MAX for 1 byte)
  Contexts,   \* contexts callers pass with their handlers, each of them once
  FirstSlots, \* slots mpt_command_reserve creates in an empty array (8)
  Granule,    \* slots one allocation step of the buffer holds
  MaxSlots,   \* bound of the model on the number of slots
  Null,       \* no handler: the slot is unused
  Log         \* log_reply, the default handler of a reserved identifier

ASSUME IdsAssumption == Ids \subseteq Nat
ASSUME RangeAssumption == MaxId \in Nat \ {0}
ASSUME SlotsAssumption ==
  /\ FirstSlots \in Nat \ {0}
  /\ Granule \in Nat \ {0}
  /\ MaxSlots \in Nat
ASSUME HandlerAssumption == Null # Log /\ Null \notin Contexts /\ Log \notin Contexts

VARIABLES
  kind,   \* "none": no buffer, "raw": without content traits, "typed": with
  slots,  \* the used part of the buffer
  size,   \* number of slots the buffer has memory for
  given,  \* contexts handed over to the array
  ended,  \* how often a context was finalised or answered
  call    \* the last call and its result

vars == <<kind, slots, size, given, ended, call>>

Handlers == Contexts \cup {Null, Log}
Slot(id, cmd) == [id |-> id, cmd |-> cmd]

Overwrite(s, i, entry) == [s EXCEPT ![i] = entry]

Active(s) == {i \in DOMAIN s : s[i].cmd # Null}
ActiveIds(s) == {s[i].id : i \in Active(s)}

\* Positions of active slots with a matching identifier; the code stops at the first.
mpt_command_find(s, id) ==
  {i \in Active(s) : s[i].id = id /\ \A j \in Active(s) : s[j].id = id => i <= j}

\* The first unused slot.
mpt_command_empty(s) ==
  {i \in DOMAIN s : s[i].cmd = Null /\ \A j \in DOMAIN s : s[j].cmd = Null => i <= j}

\* Calling the handler of a slot for the last time.
End(c) == [x \in Contexts |-> IF x = c THEN ended[x] + 1 ELSE ended[x]]
EndAll(s) == [x \in Contexts |->
                ended[x] + Cardinality({i \in DOMAIN s : s[i].cmd = x})]

Calls == {"init", "set", "reserve", "refused", "clear", "fini", "sync"}
Called(op, ret) == [op |-> op, ret |-> ret]
Keep == UNCHANGED <<given, ended>>

Init ==
  /\ kind = "none"
  /\ slots = << >>
  /\ size = 0
  /\ given = {}
  /\ ended = [x \in Contexts |-> 0]
  /\ call = Called("init", 0)

-----------------------------------------------------------------------------
(* Memory: a buffer grows in steps of Granule slots, and growing may fail. *)

Fits(n) == n <= size

\* The multiple of Granule that is large enough for n slots.
Allocated(n) == {m \in n..(n + Granule - 1) : m % Granule = 0}

\* The handler argument of a call: a fresh context or no handler at all.
Fresh == Contexts \ given
Give(c) == given' = given \cup ({c} \cap Contexts)

-----------------------------------------------------------------------------
(* mpt_command_set: replace, reuse an unused slot, or append.              *)

SetFound(id, c) ==
  \E i \in mpt_command_find(slots, id) :
    /\ slots' = Overwrite(slots, i, Slot(slots[i].id, c))
    /\ ended' = End(slots[i].cmd)
    /\ Give(c)
    /\ call' = Called("set", IF c = Null THEN 2 ELSE 0)
    /\ UNCHANGED <<kind, size>>

SetFirst(id, c) ==
  /\ kind = "none"
  /\ kind' = "typed"
  /\ slots' = <<Slot(id, c)>>
  /\ size' \in Allocated(1)
  /\ Give(c)
  /\ call' = Called("set", 1)
  /\ UNCHANGED ended

SetEmpty(id, c) ==
  /\ kind # "none"
  /\ mpt_command_find(slots, id) = {}
  /\ \E i \in mpt_command_empty(slots) : slots' = Overwrite(slots, i, Slot(id, c))
  /\ Give(c)
  /\ call' = Called("set", 0)
  /\ UNCHANGED <<kind, size, ended>>

SetAppend(id, c) ==
  /\ kind # "none"
  /\ mpt_command_find(slots, id) = {}
  /\ mpt_command_empty(slots) = {}
  /\ Len(slots) < MaxSlots
  /\ slots' = Append(slots, Slot(id, c))
  /\ IF Fits(Len(slots) + 1) THEN size' = size ELSE size' \in Allocated(Len(slots) + 1)
  /\ Give(c)
  /\ call' = Called("set", 1)
  /\ UNCHANGED <<kind, ended>>

\* No memory for the first or for another slot: the context stays the caller's.
SetFails(id, c) ==
  /\ mpt_command_find(slots, id) = {}
  /\ mpt_command_empty(slots) = {}
  /\ ~Fits(Len(slots) + 1)
  /\ call' = Called("refused", 0)
  /\ Keep
  /\ UNCHANGED <<kind, slots, size>>

mpt_command_set(id, c) ==
  \/ SetFound(id, c)
  \/ SetFirst(id, c)
  \/ SetEmpty(id, c)
  \/ SetAppend(id, c)
  \/ SetFails(id, c)

-----------------------------------------------------------------------------
(* mpt_command_reserve: close the gaps, find an identifier, append a slot. *)

\* The positions of active slots in ascending order.
Order(s) ==
  {f \in [1..Cardinality(Active(s)) -> Active(s)] :
     /\ \A i, j \in DOMAIN f : i < j => f[i] < f[j]
     /\ \A a \in Active(s) : \E i \in DOMAIN f : f[i] = a}

\* Mutant: a moved entry keeps the identifier of the slot it is moved to.
Packed_CmdOnly(s, f) == [k \in DOMAIN f |-> Slot(s[k].id, s[f[k]].cmd)]

\* The entries after their move to the front, in unchanged order.
Packed(s, f) == [k \in DOMAIN f |-> s[f[k]]]

\* Mutant: an identifier beyond the range starts over at 1 without a search.
FreeId_NoSearch(s) ==
  {mid \in 1..MaxId : IF \A i \in DOMAIN s : s[i].id < MaxId
                      THEN /\ \A i \in DOMAIN s : s[i].id < mid
                           /\ mid = 1 \/ \E i \in DOMAIN s : s[i].id = mid - 1
                      ELSE mid = 1}

\* Mutant: the search for a low identifier stops before the last one.
FreeId_StopsEarly(s) ==
  {mid \in 1..MaxId :
     IF \A i \in DOMAIN s : s[i].id < MaxId
     THEN /\ \A i \in DOMAIN s : s[i].id < mid
          /\ mid = 1 \/ \E i \in DOMAIN s : s[i].id = mid - 1
     ELSE /\ mid < MaxId
          /\ mid \notin ActiveIds(s)
          /\ 1..(mid - 1) \subseteq ActiveIds(s)}

\* One above the highest identifier left in the array, that of an unused slot
\* included; when this leaves the range, the lowest one without a handler.
FreeId(s) ==
  {mid \in 1..MaxId :
     IF \A i \in DOMAIN s : s[i].id < MaxId
     THEN /\ \A i \in DOMAIN s : s[i].id < mid
          /\ mid = 1 \/ \E i \in DOMAIN s : s[i].id = mid - 1
     ELSE /\ mid \notin ActiveIds(s)
          /\ 1..(mid - 1) \subseteq ActiveIds(s)}

\* A caller that passes a handler sets it in the slot it got; log_reply stays
\* otherwise (mpt_connection_await).
ReserveFirst(c) ==
  /\ kind = "none"
  /\ kind' = "raw"
  /\ slots' = [k \in 1..FirstSlots |-> IF k = 1 THEN Slot(1, c) ELSE Slot(0, Null)]
  /\ size' \in Allocated(FirstSlots)
  /\ Give(c)
  /\ call' = Called("reserve", 1)
  /\ UNCHANGED ended

ReserveNext(c) ==
  /\ kind = "raw"
  /\ \E f \in Order(slots), mid \in FreeId(slots) :
       /\ Len(Packed(slots, f)) < MaxSlots
       /\ slots' = Append(Packed(slots, f), Slot(mid, c))
       /\ IF Fits(Len(Packed(slots, f)) + 1)
          THEN size' = size ELSE size' \in Allocated(Len(Packed(slots, f)) + 1)
       /\ call' = Called("reserve", mid)
  /\ Give(c)
  /\ UNCHANGED <<kind, ended>>

\* Every identifier is in use: the gaps are closed all the same.
ReserveExhausted ==
  /\ kind # "none"
  /\ FreeId(slots) = {}
  /\ \E f \in Order(slots) : slots' = Packed(slots, f)
  /\ call' = Called("reserve", 0)
  /\ Keep
  /\ UNCHANGED <<kind, size>>

\* mpt_array_append rejects a buffer with content traits.
ReserveTyped ==
  /\ kind = "typed"
  /\ FreeId(slots) # {}
  /\ \E f \in Order(slots) : slots' = Packed(slots, f)
  /\ call' = Called("reserve", 0)
  /\ Keep
  /\ UNCHANGED <<kind, size>>

\* No memory: a first buffer is not created, a full one keeps its (packed) slots.
ReserveFails ==
  /\ IF kind = "none"
     THEN slots' = slots
     ELSE /\ kind = "raw"
          /\ FreeId(slots) # {}
          /\ ~Fits(Cardinality(Active(slots)) + 1)
          /\ \E f \in Order(slots) : slots' = Packed(slots, f)
  /\ call' = Called("refused", 0)
  /\ Keep
  /\ UNCHANGED <<kind, size>>

mpt_command_reserve(c) ==
  \/ ReserveFirst(c)
  \/ ReserveNext(c)
  \/ ReserveExhausted
  \/ ReserveTyped
  \/ ReserveFails

-----------------------------------------------------------------------------
(* mpt_command_clear: finalise every handler, keep the empty buffer.       *)

mpt_command_clear ==
  /\ kind # "none"
  /\ slots' = << >>
  /\ ended' = EndAll(slots)
  /\ call' = Called("clear", 0)
  /\ UNCHANGED <<kind, size, given>>

\* Both owners clear the array before they drop its buffer
\* (mpt_dispatch_fini, mpt_connection_fini).
Fini ==
  /\ kind # "none"
  /\ kind' = "none"
  /\ slots' = << >>
  /\ size' = 0
  /\ ended' = EndAll(slots)
  /\ call' = Called("fini", 0)
  /\ UNCHANGED given

-----------------------------------------------------------------------------
(* mpt_stream_sync: one answer from the peer is passed to the handler of   *)
(* its identifier, which is done with it, or to the handler of identifier  *)
(* 0, which stays.  A failed handler or the last awaited answer ends the   *)
(* call, and then gaps are closed if at most half of the slots are in use. *)

Synced(left, last) ==
  IF last /\ Cardinality(Active(left)) <= Len(left) \div 2
  THEN \E f \in Order(left) : slots' = Packed(left, f)
  ELSE slots' = left

Answer(id, fails) ==
  \E i \in mpt_command_find(slots, id) :
    LET left == Overwrite(slots, i, Slot(slots[i].id, Null))
    IN
    /\ Synced(left, fails \/ Active(left) = {})
    /\ ended' = End(slots[i].cmd)
    /\ call' = Called("sync", Cardinality(Active(left)))
    /\ UNCHANGED <<kind, size, given>>

AnswerUnknown(id, fails) ==
  /\ mpt_command_find(slots, id) = {}
  /\ mpt_command_find(slots, 0) # {}
  /\ Synced(slots, fails)
  /\ call' = Called("sync", Cardinality(Active(slots)))
  /\ Keep
  /\ UNCHANGED <<kind, size>>

mpt_stream_sync(id) ==
  \E fails \in BOOLEAN : Answer(id, fails) \/ AnswerUnknown(id, fails)

Next ==
  \/ \E id \in Ids, c \in Fresh \cup {Null} : mpt_command_set(id, c)
  \/ \E c \in Fresh \cup {Log} : mpt_command_reserve(c)
  \/ mpt_command_clear
  \/ Fini
  \/ \E id \in Ids \cup 1..MaxId : mpt_stream_sync(id)

Spec == Init /\ [][Next]_vars

-----------------------------------------------------------------------------
(* Properties.                                                             *)

SlotType == [id : Nat, cmd : Handlers]

\* The slots in use never exceed the memory of the buffer, and an array
\* without buffer has neither (buf->_used against buf->_size).
TypeOK ==
  /\ kind \in {"none", "raw", "typed"}
  /\ slots \in Seq(SlotType)
  /\ size \in Nat
  /\ Len(slots) <= size
  /\ kind = "none" => size = 0
  /\ given \subseteq Contexts
  /\ ended \in [Contexts -> Nat]
  /\ call \in [op : Calls, ret : Nat]

\* mpt_command_get finds at most one handler: no two active slots ever share an
\* identifier, whatever order explicit registration, reservation, compaction and
\* answers come in.
UniqueIds ==
  \A i, j \in Active(slots) : slots[i].id = slots[j].id => i = j

\* mpt_command_reserve answers with an identifier in the range that had no
\* handler, and every other handler keeps the identifier it had; on a raw array
\* it is only refused for want of an identifier when every identifier of the
\* range has a handler.
ReservedIdIsNew ==
  [][ call'.op = "reserve" =>
        IF call'.ret # 0
        THEN /\ call'.ret \in (1..MaxId) \ ActiveIds(slots)
             /\ {slots'[i] : i \in Active(slots')} \ {slots[i] : i \in Active(slots)}
                  = {slots'[i] : i \in {j \in Active(slots') : slots'[j].id = call'.ret}}
             /\ {slots[i] : i \in Active(slots)} \subseteq {slots'[i] : i \in Active(slots')}
        ELSE kind = "typed" \/ 1..MaxId \subseteq ActiveIds(slots)
    ]_vars

-----------------------------------------------------------------------------
(* The promise: a partial map from identifiers to handlers.                *)

R == INSTANCE Registry WITH
  map <- [id \in ActiveIds(slots) |-> (CHOOSE e \in {slots[i] : i \in Active(slots)} : e.id = id).cmd]

\* The array with its gaps, moves and reused slots is a partial map in which a
\* reservation adds an unused identifier and nothing else changes.
ImplementsRegistry == R!Spec

=============================================================================
