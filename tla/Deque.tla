------------------------------- MODULE Deque -------------------------------
(***************************************************************************)
(* What a user of the mptcore byte queue may rely on, whatever the storage *)
(* looks like: a sequence of bytes and a capacity.  Data is added at either*)
(* end, removed from the front, overwritten or read in place; a new        *)
(* capacity keeps the newest bytes.  A refused call changes nothing, except*)
(* that shrinking may already have dropped old bytes when the storage      *)
(* cannot be reallocated.                                                  *)
(***************************************************************************)
EXTENDS Integers, Sequences

VARIABLES content,     \* the queued bytes, oldest first
          cap,         \* number of bytes the storage has room for
          call         \* the last call: operation, success, bytes in and out

vars == << content, cap, call >>

Newest(s, n) == SubSeq(s, Len(s) - n + 1, Len(s))

Init ==
    /\ content = << >>
    /\ cap = 0
    /\ call = [op |-> "none", ok |-> TRUE, in |-> << >>, out |-> << >>]

(* The caller's bytes go behind (before) everything already queued. *)
AddBack ==
    /\ call'.op = "append" /\ call'.ok /\ call'.out = << >>
    /\ content' = content \o call'.in
    /\ Len(content') <= cap
    /\ UNCHANGED cap

AddFront ==
    /\ call'.op = "prepend" /\ call'.ok /\ call'.out = << >>
    /\ content' = call'.in \o content
    /\ Len(content') <= cap
    /\ UNCHANGED cap

(* The n oldest bytes leave the queue; they are delivered or discarded. *)
Remove(n) ==
    /\ call'.op = "remove" /\ call'.ok /\ call'.in = << >>
    /\ content' = SubSeq(content, n + 1, Len(content))
    /\ call'.out \in {<< >>, SubSeq(content, 1, n)}
    /\ UNCHANGED cap

Overwrite(pos) ==
    /\ call'.op = "write" /\ call'.ok /\ call'.out = << >>
    /\ pos + Len(call'.in) <= Len(content)
    /\ content' = [i \in 1..Len(content) |->
                     IF pos < i /\ i <= pos + Len(call'.in)
                     THEN call'.in[i - pos] ELSE content[i]]
    /\ UNCHANGED cap

Read(pos, n) ==
    /\ call'.op = "read" /\ call'.ok /\ call'.in = << >>
    /\ pos + n <= Len(content)
    /\ call'.out = SubSeq(content, pos + 1, pos + n)
    /\ UNCHANGED << content, cap >>

(* Storage of another size, or the same bytes moved inside it. *)
Recap ==
    /\ call'.op \in {"resize", "prepare", "align", "string"} /\ call'.ok
    /\ call'.in = << >> /\ call'.out = << >>
    /\ content' = IF cap' < Len(content) THEN Newest(content, cap') ELSE content

Refuse(n) ==
    /\ ~call'.ok /\ call'.out = << >>
    /\ UNCHANGED cap
    /\ content' = Newest(content, n)
    /\ n = Len(content) \/ call'.op = "resize"

Next ==
    \/ AddBack \/ AddFront \/ Recap
    \/ \E n \in 0..Len(content) : Remove(n) \/ Overwrite(n) \/ Refuse(n)
    \/ \E pos, n \in 0..Len(content) : Read(pos, n)

Spec == Init /\ [][Next]_vars
=============================================================================
