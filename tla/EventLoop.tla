----------------------------- MODULE EventLoop ------------------------------
(***************************************************************************)
(* mpt_loop: the notifier driven by the event loop, with an event          *)
(* dispatcher behind it.  An input that waits is dispatched; when none     *)
(* waits, a pending default event runs unless input arrives; otherwise the *)
(* loop blocks for input.  It ends when a handler asks for it or when no   *)
(* descriptor is left.                                                     *)
(*                                                                         *)
(* The loop keeps a copy (def) of the dispatcher's knowledge that there is *)
(* a default event (dflt), taken from the result of the last call.         *)
(***************************************************************************)
EXTENDS Notify

VARIABLES
  pc,    \* "setup", "next", "check" (wait without blocking), "block", "default", "done"
  def,   \* the loop's own flag
  dflt   \* the dispatcher has a default event

vars == <<nvars, pc, def, dflt>>

LoopInit == Init /\ pc = "setup" /\ def = FALSE /\ dflt = FALSE

\* Setting up the notifier, then entering the loop.
Setup ==
  /\ pc = "setup"
  /\ \E i \in Inputs : Open(i) \/ OpenFails(i)
  /\ UNCHANGED <<pc, def, dflt>>

Start ==
  /\ pc = "setup"
  /\ pc' = "next"
  /\ def' = (fdused = 0)
  /\ UNCHANGED <<nvars, dflt>>

-----------------------------------------------------------------------------
(* Dispatching an input that waits.                                        *)

\* Mutant: an input with a further message is not put back.
Next_NoRetry(ended, ok, d) ==
  /\ pc = "next"
  /\ \E k \in First :
       /\ Dispatch(wait[k])
       /\ wait' = Remaining(k)
  /\ dflt' = d
  /\ def' = (ok /\ d)
  /\ pc' = IF ended THEN "done" ELSE "next"
  /\ UNCHANGED <<epoll, slot, room, fdused, epset, state, fd, system, poll>>

\* The handler succeeds and leaves the dispatcher with or without a default
\* event, asks for the end of the loop, or fails; a failure is reported as a
\* control error without the flag of the default event.  The input is put back
\* behind the others while it has another message, unless the loop ends.
Next(ended, ok, d) ==
  /\ pc = "next"
  /\ \E k \in First :
       /\ Dispatch(wait[k])
       /\ wait' \in IF ended THEN {Remaining(k)} ELSE Retry(wait[k], Remaining(k))
  /\ dflt' = d
  /\ def' = (ok /\ d)
  /\ pc' = IF ended THEN "done" ELSE "next"
  /\ UNCHANGED <<epoll, slot, room, fdused, epset, state, fd, system, poll>>

NextMessage ==
  \/ \E d \in BOOLEAN, ended \in BOOLEAN : Next(ended, TRUE, d)
  \/ Next(FALSE, FALSE, dflt)

\* An incomplete message: the result is that of a call without default event.
NextPart ==
  /\ pc = "next"
  /\ \E k \in First :
       /\ buf[wait[k]] = 0
       /\ wait' = Remaining(k)
  /\ def' = FALSE
  /\ UNCHANGED <<epoll, slot, room, fdused, epset, inputs, system, poll, pc, dflt>>

\* Mutant: a default event runs without a look at the inputs.
NextEmpty_NoCheck ==
  /\ pc = "next" /\ Waiting = {}
  /\ wait' = << >>
  /\ pc' = IF def THEN "default" ELSE "block"
  /\ UNCHANGED <<epoll, slot, room, fdused, epset, inputs, system, poll, def, dflt>>

\* No input waits.
NextEmpty ==
  /\ pc = "next" /\ Waiting = {}
  /\ wait' = << >>
  /\ pc' = IF def THEN "check" ELSE "block"
  /\ UNCHANGED <<epoll, slot, room, fdused, epset, inputs, system, poll, def, dflt>>

-----------------------------------------------------------------------------
(* Waiting.                                                                *)

WaitBegin ==
  /\ pc \in {"check", "block"}
  /\ WaitStart(pc = "block")
  /\ UNCHANGED <<pc, def, dflt>>

WaitInput ==
  /\ pc \in {"check", "block"} /\ poll.events # << >>
  /\ WaitStep
  /\ UNCHANGED <<pc, def, dflt>>

\* The number of inputs found decides how the loop goes on.
WaitReturn ==
  /\ pc \in {"check", "block"} /\ WaitEnd
  /\ pc' = IF pc = "check" /\ poll.found = << >> THEN "default" ELSE "next"
  /\ UNCHANGED <<def, dflt>>

WaitNothing ==
  /\ pc = "check" /\ fdused > 0
  /\ WaitTimeout(FALSE)
  /\ pc' = "default"
  /\ UNCHANGED <<def, dflt>>

\* mpt_notify_wait without descriptors: the default event runs, or the loop ends.
WaitRefused ==
  /\ pc \in {"check", "block"} /\ ~poll.on /\ fdused = 0
  /\ pc' = IF pc = "check" THEN "default" ELSE "done"
  /\ UNCHANGED <<nvars, def, dflt>>

\* A signal while the loop blocks: epoll reports nothing, poll() an error.
Interrupted ==
  /\ pc = "block" /\ ~poll.on /\ fdused > 0 /\ Ready(TRUE) = {}
  /\ pc' = IF epoll THEN "next" ELSE "done"
  /\ UNCHANGED <<nvars, def, dflt>>

-----------------------------------------------------------------------------
(* The default event.                                                      *)

\* Mutant: without a default event the flag of the loop stays.
DefaultNone_Kept ==
  /\ pc = "default" /\ ~dflt
  /\ pc' = "next"
  /\ UNCHANGED <<nvars, def, dflt>>

\* The dispatcher has none (any more).
DefaultNone ==
  /\ pc = "default" /\ ~dflt
  /\ def' = FALSE
  /\ pc' = "next"
  /\ UNCHANGED <<nvars, dflt>>

\* Its handler succeeds and keeps or removes it, or asks for the end.
DefaultRun(ended, d) ==
  /\ pc = "default" /\ dflt
  /\ dflt' = d /\ def' = d
  /\ pc' = IF ended THEN "done" ELSE "next"
  /\ UNCHANGED nvars

\* Its handler fails, or it has none and is removed: the flag stays as it was.
DefaultFails(d) ==
  /\ pc = "default" /\ dflt
  /\ dflt' = d
  /\ pc' = "next"
  /\ UNCHANGED <<nvars, def>>

Default ==
  \/ DefaultNone
  \/ \E d \in BOOLEAN : DefaultFails(d) \/ \E ended \in BOOLEAN : DefaultRun(ended, d)

\* After the loop the program closes the notifier.
Close ==
  /\ pc = "done" /\ room > 0
  /\ mpt_notify_fini
  /\ UNCHANGED <<pc, def, dflt>>

-----------------------------------------------------------------------------
Loop ==
  \/ Start
  \/ NextMessage \/ NextPart \/ NextEmpty
  \/ WaitBegin \/ WaitInput \/ WaitReturn \/ WaitNothing \/ WaitRefused
  \/ Default

LoopNext ==
  \/ Setup \/ Loop \/ Interrupted \/ Close
  \/ System /\ UNCHANGED <<pc, def, dflt>>

\* A connection whose reading fails although it is kept can be read again.
Recovers(i) == WaitInput /\ Stream /\ Current = i /\ StreamRead

\* The one thread of the program keeps running while it can; peers, signals and
\* the calls of the setup may never happen.
LoopSpec ==
  /\ LoopInit /\ [][LoopNext]_vars
  /\ WF_vars(Loop)
  /\ \A i \in Streams : SF_vars(Recovers(i))

-----------------------------------------------------------------------------
\* The loop never dispatches an input it has dropped: whatever waits is open and
\* registered, also after streams closed and accepted ones took their descriptors.
WaitingRegistered == pc # "done" => WaitEntriesLive

\* An input that is dropped without an error is one whose peer hung up, and all the
\* messages that were sent before are dispatched.  An error drops what the system
\* still holds.
NothingUndelivered ==
  \A i \in Streams : state[i] = "freed" /\ pc # "done" => hup[i] # "no" /\ done[i] = sent[i]

\* Messages an input has fetched are never forgotten, also when it fails: it waits
\* for dispatch or is among the results of the wait in progress.
BufferedWaits ==
  \A i \in Streams :
    buf[i] > 0 /\ pc # "done" =>
      \/ \E k \in DOMAIN wait : wait[k] = i
      \/ \E k \in DOMAIN poll.found : poll.found[k] = i

\* No message is lost on its way through streamNext, the wait array and the loop:
\* inputs without an error go when they are empty, and the ones with messages wait.
NothingLost == NothingUndelivered /\ BufferedWaits

\* Every message that reaches the process is dispatched while the loop runs,
\* whatever the other inputs, the accepted connections and the default event do,
\* unless its connection fails or the wait reads a released slot buffer.
MessageServed ==
  \A i \in Streams :
    done[i] < sent[i] ~>
      (done[i] = sent[i] \/ pc = "done" \/ state[i] = "failed" \/ poll.slots = "lost")

\* A loop without descriptors ends as soon as no default event is left.
LoopEnds == (pc = "next" /\ fdused = 0 /\ ~dflt) ~> (pc = "done" \/ dflt)
=============================================================================
