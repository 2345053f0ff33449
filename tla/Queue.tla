------------------------------- MODULE Queue -------------------------------
(***************************************************************************)
(* The byte queue of mptcore/queue under every sequence of calls.  A call  *)
(* is an action; the functions behind it are those of QueueOps.            *)
(***************************************************************************)
EXTENDS QueueOps

CONSTANTS MaxBlock,    \* longest block one call passes
          Requests     \* sizes callers of mpt_queue_prepare ask for

ASSUME QueueAssumption ==
    /\ Zero \in Byte
    /\ Junk \notin Byte
    /\ MaxSize \in Nat \ {0}
    /\ Alloc \subseteq BOOLEAN
    /\ MaxBlock \in Nat
    /\ Unit \in Nat \ {0}
    /\ SizeMax \in Nat /\ MaxSize < SizeMax
    /\ Requests \subseteq 0..SizeMax
    /\ StackWords \subseteq Nat

VARIABLES q,           \* the queue: storage, used length, size, start
          call         \* the last call: operation, success, bytes in and out

vars == << q, call >>

-----------------------------------------------------------------------------
(* Calls *)

Called(op, ok, in, out) ==
    call' = [op |-> op, ok |-> ok, in |-> in, out |-> out]

Refused(op, in) == Called(op, FALSE, in, << >>) /\ UNCHANGED q

Init ==
    /\ q = Released
    /\ call = [op |-> "none", ok |-> TRUE, in |-> << >>, out |-> << >>]

mpt_qpush(d) ==
    /\ q' = Pushed(q, d).queue
    /\ Called("append", Pushed(q, d).ok, d, << >>)

mpt_qunshift(d) ==
    \E r \in Unshifted(q, d) :
        /\ q' = r.queue
        /\ Called("prepend", r.ok, d, << >>)

(* 'copy': the caller passes a target.  Data that spans both segments can  *)
(* only be delivered through one.                                          *)
mpt_qshift(n, copy) ==
    LET direct == n <= mpt_queue_data(q)
    IN  \/ /\ direct \/ (copy /\ n <= q.len)
           /\ q' = CropFront(q, n)
           /\ Called("remove", TRUE, << >>, IF copy THEN Fetch(q, n) ELSE << >>)
        \/ /\ ~direct /\ (~copy \/ n > q.len)
           /\ Refused("remove", << >>)

mpt_queue_set(pos, d) ==
    \/ /\ pos + Len(d) <= q.len
       /\ q' = Ring(Fill(Seek(q, pos), d), q.len, q.max, q.off)
       /\ Called("write", TRUE, d, << >>)
    \/ /\ pos + Len(d) > q.len
       /\ Refused("write", d)

mpt_queue_get(pos, n) ==
    \/ /\ pos + n <= q.len
       /\ UNCHANGED q
       /\ Called("read", TRUE, << >>, Fetch(Seek(q, pos), n))
    \/ /\ pos + n > q.len
       /\ Refused("read", << >>)

mpt_queue_crop(n) ==
    \/ /\ n <= q.len
       /\ q' = CropFront(q, n)
       /\ Called("remove", TRUE, << >>, << >>)
    \/ /\ n > q.len
       /\ Refused("remove", << >>)

Align == q' = mpt_queue_align(q) /\ Called("align", TRUE, << >>, << >>)

Resize(n) ==
    \E got \in Answers(n) :
        /\ q' = mpt_queue_resize(q, n, got)
        /\ Called("resize", ~ResizeFails(q, n, got), << >>, << >>)

mpt_queue_prepare(n) ==
    \E r \in Prepared(q, n) :
        /\ q' = r.queue
        /\ Called("prepare", r.ok, << >>, << >>)

(* d is what the file had *)
mpt_queue_load(d) ==
    \/ /\ Len(d) <= q.max - q.len
       /\ q' = Loaded(q, d)
       /\ Called("append", TRUE, d, << >>)
    \/ q.max = q.len /\ Refused("append", << >>)

(* writev() of both data segments; the file takes the first n bytes *)
mpt_queue_save(n) ==
    /\ n <= q.len
    /\ q' = CropFront(q, n)
    /\ Called("remove", TRUE, << >>, Fetch(q, n))

(* Mutant: data that ends exactly at the storage end is left in place. *)
mpt_queue_string_OffByOne ==
    LET rem == q.max - q.len
        s   == IF rem < q.off THEN mpt_queue_align(q) ELSE q
    IN  \/ /\ rem # 0
           /\ q' = Ring([k \in DOMAIN s.mem |->
                         IF k = s.off + s.len THEN Zero ELSE s.mem[k]],
                        s.len, s.max, s.off)
           /\ Called("string", TRUE, << >>, << >>)
        \/ rem = 0 /\ Refused("string", << >>)

(* The string needs its terminator behind the last byte. *)
mpt_queue_string ==
    LET rem == q.max - q.len
        s   == IF rem <= q.off THEN mpt_queue_align(q) ELSE q
    IN  \/ /\ rem # 0
           /\ q' = Ring([k \in DOMAIN s.mem |->
                         IF k = s.off + s.len THEN Zero ELSE s.mem[k]],
                        s.len, s.max, s.off)
           /\ Called("string", TRUE, << >>, << >>)
        \/ rem = 0 /\ Refused("string", << >>)

(* Element search: the match function (here: the element starts with v) is *)
(* applied to whole elements of esz bytes in each segment.                 *)
NotFound == -1         \* no element matches
Unsupported == -2      \* an element lies in both segments

FirstMatch(mem, from, count, esz, v) ==
    LET hits == {i \in 0..(count - 1) : mem[from + i * esz] = v}
    IN  IF hits = {} THEN NotFound
        ELSE from + esz * (CHOOSE i \in hits : \A j \in hits : i <= j)

(* Mutant: an element over both segments is skipped silently. *)
mpt_queue_find_Skip(s, esz, v) ==
    LET low == s.max - s.off
        hit == FirstMatch(s.mem, s.off, low \div esz, esz, v)
    IN  IF s.len < esz THEN NotFound
        ELSE IF ~MPT_queue_frag(s)
             THEN FirstMatch(s.mem, s.off, s.len \div esz, esz, v)
        ELSE IF hit # NotFound THEN hit
        ELSE FirstMatch(s.mem, 0, (s.len - low) \div esz, esz, v)

(* address of the first matching element *)
mpt_queue_find(s, esz, v) ==
    LET low == s.max - s.off
        hit == FirstMatch(s.mem, s.off, low \div esz, esz, v)
    IN  IF s.len < esz THEN NotFound
        ELSE IF ~MPT_queue_frag(s)
             THEN FirstMatch(s.mem, s.off, s.len \div esz, esz, v)
        ELSE IF hit # NotFound THEN hit
        ELSE IF low % esz # 0 THEN Unsupported
        ELSE FirstMatch(s.mem, 0, (s.len - low) \div esz, esz, v)

(* Data passed in one call; a call with an empty block divides by zero in  *)
(* mpt_qpost, so callers never pass one.                                   *)
Block == UNION {[1..n -> Byte] : n \in 1..MaxBlock}

Next ==
    \/ \E d \in Block : mpt_qpush(d) \/ mpt_qunshift(d) \/ mpt_queue_load(d)
    \/ \E n \in 1..MaxSize, copy \in BOOLEAN : mpt_qshift(n, copy)
    \/ \E n \in 1..MaxSize : mpt_queue_crop(n) \/ mpt_queue_save(n)
    \/ \E n \in 0..(MaxSize + 1) : Resize(n)
    \/ \E n \in Requests : mpt_queue_prepare(n)
    \/ \E pos \in 0..MaxSize, d \in Block : mpt_queue_set(pos, d)
    \/ \E pos \in 0..MaxSize, n \in 1..MaxSize : mpt_queue_get(pos, n)
    \/ Align
    \/ mpt_queue_string

Spec == Init /\ [][Next]_vars

-----------------------------------------------------------------------------
(* Properties *)

(* The used part and the start stay inside the storage; a start at the     *)
(* storage end is legal and means cell 0 (mpt_qpre leaves it behind).      *)
IsQueue(s) ==
    /\ s.max \in 0..MaxSize
    /\ s.len \in 0..s.max
    /\ s.off \in 0..s.max
    /\ s.mem \in [0..(s.max - 1) -> Cell]

(* Every call leaves a queue within its storage, whatever mix of growing,  *)
(* wrapping, cropping and prepending came before.                          *)
TypeOK == IsQueue(q) /\ call.ok \in BOOLEAN

(* The one call that breaks it, and with it the Deque: mpt_qpre goes on    *)
(* with the words it finds on the stack when the queue has not one free    *)
(* cell (qpre.c:21-27), and reserves a block in front.                     *)
FullPrepended ==
    /\ call'.op = "prepend" /\ call'.ok
    /\ q'.len = q'.max + Len(call'.in)

(* mpt_queue_find returns the first matching element of the content as the *)
(* user sees it, and reports "no match" only when there is none, for every *)
(* split of the data into segments.                                        *)
FindFirst ==
    \A esz \in 1..MaxSize, v \in Byte :
        LET at  == mpt_queue_find(q, esz, v)
            pos == IF at < q.off THEN at + q.max - q.off ELSE at - q.off
            starts == {i \in 0..(q.len - 1) : i % esz = 0 /\ i + esz <= q.len}
        IN  /\ at >= 0 => /\ pos \in starts
                          /\ Content(q)[pos + 1] = v
                          /\ \A i \in starts : i < pos => Content(q)[i + 1] # v
            /\ at = NotFound => \A i \in starts : Content(q)[i + 1] # v
=============================================================================
