---------------------------- MODULE QueueDevice ----------------------------
(***************************************************************************)
(* io::queue, the C++ wrapper that hands the byte queue to users: it makes *)
(* room before it adds data and gives access to the queue end as well.  A  *)
(* queue is used by the C functions or through the wrapper alone.          *)
(***************************************************************************)
EXTENDS Queue

VARIABLE wrapped       \* the queue belongs to io::queue

allVars == << vars, wrapped >>

(* io::queue::push: prepare, then append whatever prepare said *)
Push(d) ==
    \E r \in Prepared(q, Len(d)) :
        /\ q' = Pushed(r.queue, d).queue
        /\ Called("append", Pushed(r.queue, d).ok, d, << >>)

Unshift(d) ==
    \E r \in Prepared(q, Len(d)) : \E u \in Unshifted(r.queue, d) :
        /\ q' = u.queue
        /\ Called("prepend", u.ok, d, << >>)

(* io::queue::shift: copying into a target, or discarding *)
Shift(n, copy) == IF copy THEN mpt_qshift(n, TRUE) ELSE mpt_queue_crop(n)

(* a read beyond the storage finds foreign memory *)
CellAt(s, k) == IF k \in 0..(s.max - 1) THEN s.mem[k] ELSE Junk

(* mpt_qpop with a target, one case per layout of the data *)
mpt_qpop(s, n) ==
    LET low  == mpt_queue_data(s)
        high == s.len - low
        up   == n - high                       \* bytes left for the low part
    IN  IF high = 0
        THEN [ok |-> n <= low, taken |-> n,
              out |-> [i \in 1..n |-> CellAt(s, s.off + i - 1)]]
        ELSE IF n > high
        THEN [ok |-> up <= low, taken |-> up,
              out |-> [i \in 1..n |-> IF i > up THEN CellAt(s, i - up - 1)
                                      ELSE IF i <= high THEN CellAt(s, s.max - up + i - 1)
                                      ELSE Junk]]
        ELSE [ok |-> TRUE, taken |-> n,
              out |-> [i \in 1..n |-> s.mem[high - n + i - 1]]]

(* io::queue::pop with a target *)
Pop(n) ==
    LET p == mpt_qpop(q, n)
    IN  \/ p.ok /\ q' = Ring(q.mem, q.len - p.taken, q.max, q.off)
                /\ Called("pop", TRUE, << >>, p.out)
        \/ ~p.ok /\ Refused("pop", << >>)

(* io::queue::pop without a target crops the end.  A tail over both        *)
(* segments makes the size of the second move wrap below zero: what the    *)
(* storage holds then is unknown.                                          *)
Discard(n) ==
    LET pos   == q.len - n
        low   == mpt_queue_data(q)
        spans == pos # 0 /\ pos < low /\ low < q.len
    IN  \/ n > q.len /\ Refused("discard", << >>)
        \/ /\ n <= q.len
           /\ q' = IF pos = 0 THEN CropFront(q, n)
                   ELSE Ring(IF spans THEN [k \in DOMAIN q.mem |-> Junk]
                                      ELSE q.mem, pos, q.max, q.off)
           /\ Called("discard", TRUE, << >>, << >>)

(* io::queue::peek: a view of the first segment, or of everything once the *)
(* request needs both and the data was aligned                             *)
Peek(n) ==
    LET want == IF n = 0 THEN q.len ELSE n
        low  == mpt_queue_data(q)
        s    == IF want > low /\ MPT_queue_frag(q) THEN mpt_queue_align(q) ELSE q
        size == IF want <= low THEN low ELSE q.len
    IN  /\ q' = s
        /\ Called("peek", TRUE, << >>, [i \in 1..size |-> s.mem[s.off + i - 1]])

DeviceNext ==
    \/ \E d \in Block : Push(d) \/ Unshift(d)
    \/ \E n \in 1..MaxSize, copy \in BOOLEAN : Shift(n, copy)
    \/ \E n \in 1..MaxSize : Pop(n) \/ Discard(n)
    \/ \E n \in 0..MaxSize : Peek(n)
    \/ \E n \in Requests : mpt_queue_prepare(n)

UseInit == Init /\ wrapped \in BOOLEAN

UseNext ==
    /\ UNCHANGED wrapped
    /\ \/ ~wrapped /\ Next
       \/ wrapped /\ DeviceNext

UseSpec == UseInit /\ [][UseNext]_allVars

-----------------------------------------------------------------------------
(* The room mpt_queue_prepare makes is enough for the call that follows it *)
(* in the wrapper: when it reports success the data is added, at either    *)
(* end, and it succeeds when the allocator delivers, unless the enlarged   *)
(* storage would be larger than it can be.                                 *)
PrepareSuffices ==
    \A d \in Block :
        /\ \A r \in Prepared(q, Len(d)) :
              r.ok => /\ Pushed(r.queue, d).ok
                      /\ \A u \in Unshifted(r.queue, d) : u.ok
        /\ MPT_align(q.len + Len(d)) <= MaxSize /\ TRUE \in Alloc =>
              \E r \in Prepared(q, Len(d)) : r.ok

(* What is given out as one piece is the queue from its oldest byte on, for *)
(* every layout of the data, and stays it: mpt_queue_string leaves the      *)
(* whole content with the terminator directly behind it and inside the      *)
(* storage, a peek shows at least as many bytes as were asked for and are   *)
(* there (io::queue::peek).                                                 *)
FrontShown ==
    /\ (call'.op = "string" /\ call'.ok) =>
          /\ q'.off + q'.len < q'.max
          /\ q'.mem[q'.off + q'.len] = Zero
          /\ Content(q') = Content(q)
    /\ \A n \in 0..MaxSize : Peek(n) =>
          /\ Len(call'.out) <= q.len
          /\ call'.out = SubSeq(Content(q), 1, Len(call'.out))
          /\ Content(q') = Content(q)
          /\ (n = 0 \/ n > q.len) => Len(call'.out) = q.len
          /\ n <= q.len => Len(call'.out) >= n

FrontInPlace == [][FrontShown]_vars

(* The ring behaves like the plain byte sequence it stands for: every call *)
(* has the effect and the result the Deque interface promises, and no byte *)
(* that nobody wrote becomes part of it, whatever resizing, wrapping and   *)
(* realignment came before (mpt_queue_resize, mpt_queue_align, mpt_qpre).  *)
(* A wrapper that pops from the end is no such queue: mpt_qpop takes the   *)
(* bytes from the wrong place.                                             *)
D == INSTANCE Deque WITH
        content <- IF wrapped THEN << >> ELSE Content(q),
        cap <- IF wrapped THEN 0 ELSE q.max,
        call <- IF wrapped THEN [op |-> "none", ok |-> TRUE, in |-> << >>, out |-> << >>]
                ELSE call

(* Every C call is a step of the Deque, see above. *)
ImplementsDeque == D!Spec
=============================================================================
