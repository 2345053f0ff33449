------------------------------ MODULE Dispatch -----------------------------
(***************************************************************************)
(* The event dispatcher of mptcore/event on its command array, called by   *)
(* the event loop.  A handler may keep its event as the default one, which *)
(* the loop then repeats while there is no input, and it may itself call   *)
(* the dispatcher: register, unregister, and emit further events.          *)
(***************************************************************************)
EXTENDS Command

CONSTANTS
  Unknown,    \* unknownEvent, the handler mpt_dispatch_init sets for unknown ids
  MaxDepth    \* bound of the model on nested calls of handlers

ASSUME UnknownAssumption == Unknown \notin Handlers
ASSUME DepthAssumption == MaxDepth \in Nat \ {0}

VARIABLES
  def,    \* identifier of the default command, 0 for none (disp->_def)
  err,    \* handler for unknown identifiers (disp->_err)
  stack,  \* handlers being called, with the event they got
  idle    \* the loop's note that there is a default event (def of mpt_loop)

dispVars == <<def, err, stack, idle>>
allVars == <<vars, dispVars>>

\* A call in progress: from mpt_dispatch_emit, from mpt_dispatch_hash to a command or
\* to the fallback for unknown ones, the identifier of the event and the handler.
Frame(kind_, id, cmd) == [from |-> kind_, id |-> id, cmd |-> cmd]

Top == stack[Len(stack)]
Rest == SubSeq(stack, 1, Len(stack) - 1)

\* What a handler returns: a negative value, no flag, the flag to keep the event as
\* default, or the flag with the identifier cleared (MPT_event_stop, MPT_event_fail).
Outcomes == {"error", "none", "keep", "stop"}

DispatchInit ==
  /\ Init
  /\ def = 0
  /\ err = Unknown
  /\ stack = << >>
  /\ idle \in BOOLEAN

-----------------------------------------------------------------------------
(* Registration.                                                           *)

\* mpt_dispatch_set: an identifier in use is refused.
Register(id, c) ==
  /\ mpt_command_find(slots, id) = {}
  /\ SetFirst(id, c) \/ SetEmpty(id, c) \/ SetAppend(id, c) \/ SetFails(id, c)
  /\ UNCHANGED dispVars

\* Mutant: the slot keeps the handler that was told to let go.
Unregister_Keep(id) ==
  \E i \in mpt_command_find(slots, id) :
    /\ ended' = End(slots[i].cmd)
    /\ call' = Called("set", i - 1)
    /\ UNCHANGED <<kind, slots, size, given, dispVars>>

\* mpt_dispatch_set without handler: the slot can be used again.
Unregister(id) ==
  \E i \in mpt_command_find(slots, id) :
    /\ slots' = Overwrite(slots, i, Slot(slots[i].id, Null))
    /\ ended' = End(slots[i].cmd)
    /\ call' = Called("set", i - 1)
    /\ UNCHANGED <<kind, size, given, dispVars>>

mpt_dispatch_set ==
  \/ \E id \in Ids, c \in Fresh : Register(id, c)
  \/ \E id \in Ids : Unregister(id)

\* dispatch::set_error: the old handler is finalised.
set_error(c) ==
  /\ ended' = End(err)
  /\ err' = c
  /\ Give(c)
  /\ call' = Called("set", 0)
  /\ UNCHANGED <<kind, slots, size, def, stack, idle>>

\* dispatch::set_default takes the identifier for a position in the array.
set_default(id) ==
  /\ id < Len(slots)
  /\ def' = id
  /\ UNCHANGED <<vars, err, stack, idle>>

\* mpt_dispatch_fini, and mpt_dispatch_init of the one that takes its place
\* (mpt_notify_dispatch); the loop learns of it with its next event.
Renew ==
  /\ stack = << >>
  /\ kind' = "none"
  /\ slots' = << >>
  /\ size' = 0
  /\ ended' = [x \in Contexts |-> EndAll(slots)[x] + (IF err = x THEN 1 ELSE 0)]
  /\ call' = Called("fini", 0)
  /\ def' = 0
  /\ err' = Unknown
  /\ UNCHANGED <<given, stack, idle>>

-----------------------------------------------------------------------------
(* The end of a call: the default event and what the loop is told of it.   *)

\* Only mpt_dispatch_emit changes the default event.
NewDefault(f, out) ==
  CASE f.from = "emit" /\ out = "keep" -> f.id
    [] f.from = "emit" /\ out = "stop" -> 0
    [] OTHER -> def

\* The loop keeps its note when a call fails and takes over the flag otherwise.
\* The end of a nested call is for the handler that made it.
Told(lower, out, d) == idle' = IF lower # << >> \/ out = "error" THEN idle ELSE d # 0

\* mpt_dispatch_hash passes the event of its caller on: a handler that stops clears the
\* identifier of that event, and so does the report of a failed command (MPT_event_fail).
Below(f, out, lower) ==
  IF (f.from = "hash" /\ out \in {"error", "stop"}) \/ (f.from = "fallback" /\ out = "stop")
  THEN [lower EXCEPT ![Len(lower)].id = 0] ELSE lower

Finish(f, out, lower) ==
  /\ def' = NewDefault(f, out)
  /\ Told(lower, out, def')
  /\ stack' = Below(f, out, lower)
  /\ UNCHANGED <<vars, err>>

\* A running handler returns; one that was unregistered meanwhile does so, too.
Return(out) ==
  /\ stack # << >>
  /\ Finish(Top, out, Rest)

-----------------------------------------------------------------------------
(* mpt_dispatch_emit and mpt_dispatch_hash.                                *)

\* unknownEvent drops the default event together with an unknown identifier; for a
\* message of type 0 it only reports the error.
UnknownResult(id, msg) == IF id # 0 \/ ~msg THEN "stop" ELSE "none"

\* The handler that is called: at most one, see UniqueIds.
Target(id) == {slots[i].cmd : i \in mpt_command_find(slots, id)}

Call(from, id, msg, below) ==
  \/ /\ Target(id) # {}
     /\ Len(below) < MaxDepth
     /\ stack' \in {Append(below, Frame(from, id, c)) : c \in Target(id)}
     /\ UNCHANGED <<vars, def, err, idle>>
  \/ /\ Target(id) = {}
     /\ err \in Contexts
     /\ Len(below) < MaxDepth
     /\ stack' = Append(below, Frame(IF from = "hash" THEN "fallback" ELSE from, id, err))
     /\ UNCHANGED <<vars, def, err, idle>>
  \/ /\ Target(id) = {}
     /\ err = Unknown
     /\ Finish(Frame(from, id, Unknown), UnknownResult(id, msg), below)
  \/ /\ Target(id) = {}
     /\ err = Null
     /\ Finish(Frame(from, id, Null), "error", below)

\* A handler emits an event of its own, without message.
Emit(id) == stack # << >> /\ Call("emit", id, FALSE, stack)

\* A handler passes its event on as a text command: the hash of the text becomes
\* the identifier of the event.
Hash(id) ==
  /\ stack # << >>
  /\ Call("hash", id, TRUE, [stack EXCEPT ![Len(stack)].id = id])

\* A message from an input, its first byte is the identifier.
Message(id) == stack = << >> /\ Call("emit", id, TRUE, stack)

\* dispatchEvent: the answer to a request nobody waits for.
Reply ==
  /\ stack = << >>
  /\ idle' = (def # 0)
  /\ UNCHANGED <<vars, def, err, stack>>

\* Mutant: a default identifier without handler is kept.
BadDefault_Kept ==
  /\ stack = << >>
  /\ idle
  /\ def # 0
  /\ Target(def) = {}
  /\ UNCHANGED <<vars, def, err, stack, idle>>

\* The loop has no input and repeats the default event.
BadDefault ==
  /\ stack = << >>
  /\ idle
  /\ def # 0
  /\ Target(def) = {}
  /\ def' = 0
  /\ UNCHANGED <<vars, err, stack, idle>>

NoDefault ==
  /\ stack = << >>
  /\ idle
  /\ def = 0
  /\ idle' = FALSE
  /\ UNCHANGED <<vars, def, err, stack>>

RepeatDefault ==
  /\ stack = << >>
  /\ idle
  /\ def # 0
  /\ Target(def) # {}
  /\ Call("emit", def, FALSE, stack)

DefaultEvent == BadDefault \/ NoDefault \/ RepeatDefault

DispatchNext ==
  \/ mpt_dispatch_set
  \/ \E c \in Fresh \cup {Null} : set_error(c)
  \/ \E id \in Ids : set_default(id)
  \/ Renew
  \/ \E out \in Outcomes : Return(out)
  \/ \E id \in Ids : Emit(id) \/ Hash(id) \/ Message(id)
  \/ Reply
  \/ DefaultEvent

\* The loop goes on while it has a default event, and handlers return.
DispatchSpec ==
  /\ DispatchInit
  /\ [][DispatchNext]_allVars
  /\ WF_allVars(DefaultEvent)
  /\ WF_allVars(\E out \in Outcomes : Return(out))

-----------------------------------------------------------------------------
(* A command array in use: it belongs to a connection or to a dispatcher.  *)

VARIABLE dispatching   \* the array belongs to a dispatcher

UseInit == DispatchInit /\ dispatching \in BOOLEAN /\ (~dispatching => ~idle)

Connection ==
    /\ ~dispatching
    /\ Next
    /\ UNCHANGED <<dispVars, dispatching>>

Dispatcher ==
    /\ dispatching
    /\ DispatchNext
    /\ UNCHANGED dispatching

UseNext == Connection \/ Dispatcher

\* The fairness of DispatchSpec.
UseSpec ==
    /\ UseInit
    /\ [][UseNext]_<<allVars, dispatching>>
    /\ WF_allVars(Dispatcher /\ DefaultEvent)
    /\ WF_allVars(Dispatcher /\ \E o \in Outcomes : Return(o))

-----------------------------------------------------------------------------
(* Properties.                                                             *)

\* A context handed to the command array, or to the dispatcher for unknown
\* identifiers, is in exactly one place until its handler is called for the last
\* time, and that happens once, in whatever order slots are replaced, moved, answered
\* and cleared and handlers register, unregister and replace each other while they run.
HandlersOwned ==
  \A c \in Contexts :
    ended[c] + Cardinality({i \in DOMAIN slots : slots[i].cmd = c}) + (IF err = c THEN 1 ELSE 0)
      = (IF c \in given THEN 1 ELSE 0)

\* Nobody else calls any more: the loop repeats the default event, and the handlers
\* that run return.
LoopAlone == DefaultEvent \/ \E out \in Outcomes : Return(out)

\* A default event whose handler is gone does not keep the loop busy.  Once the loop
\* is left alone its note of a default event ends for good, after the handlers that
\* run and the call that fails for want of a handler, unless the event has a handler.
BadDefaultEnds ==
  (<>[][LoopAlone]_allVars) => <>[](~idle \/ def \in ActiveIds(slots))

=============================================================================
