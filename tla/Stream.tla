------------------------------- MODULE Stream -------------------------------
(***************************************************************************)
(* Two ends of a connection (mptio/stream): messages are encoded into the  *)
(* output queue of one, written to the descriptor in pieces, read to the   *)
(* input queue of the other, decoded in place and dispatched.              *)
(*                                                                         *)
(* Descriptors may take and deliver any number of bytes at a time.  Output *)
(* may be flushed while a message is open: the block that is not finished  *)
(* stays, behind storage that is free again, so both queues wrap.          *)
(***************************************************************************)
EXTENDS QueueOps, Cobs, TLC

CONSTANTS Codecs,     \* encodings a stream may be set to
          Band,       \* size of the buffer for blocks that wrap (256)
          Grow,       \* room asked for when a queue is full (256 and 64)
          Pieces,     \* what is pushed at a time
          MaxData,    \* bound of the model: bytes pushed
          MaxMsgs,    \* bound of the model: messages
          Care        \* wrong turns the calls of the model avoid

VARIABLES kind,       \* encoding of the stream
          wq, enc,    \* output queue and encoder state (_wd)
          wire,       \* bytes on their way
          rq, dec,    \* input queue and decoder state (_rd)
          open,       \* the message being pushed
          due,        \* messages that ended and were not dispatched
          wrong,      \* was something dispatched that is not the first of these?
          room        \* data bytes and messages the model may still push

vars == <<kind, wq, enc, wire, rq, dec, open, due, wrong, room>>

Init ==
    /\ kind \in Codecs
    /\ wq = Released /\ enc = NewEncoder
    /\ rq = Released /\ dec = NewDecoder
    /\ wire = <<>> /\ open = <<>> /\ due = <<>>
    /\ wrong = FALSE
    /\ room = [data |-> MaxData, msgs |-> MaxMsgs]
-----------------------------------------------------------------------------
(* mpt_queue_push *)

Coded(ret, q, e, bad) == [ret |-> ret, q |-> q, e |-> e, bad |-> bad]

\* the encoder on part of the storage: n cells from b on
EncodeAt(q, e, b, n, d) ==
    LET Stored(r) == Coded(r.ret, [q EXCEPT !.mem = r.mem], r.e, {r.bad} \ {"none"})
    IN  Stored(Encode(kind, e, q.mem, b, n, d))

EncodeAligned(q, e, d) == EncodeAt(mpt_queue_align(q), e, 0, q.max, d)

\* Finished data reaches to the part at cell 0.  The base and the state are
\* both moved by the data there ("offset").
PushUpper(q, e, d) ==
    LET low == q.max - q.off
        bad == IF e.done > low THEN {"offset"} ELSE {}
    IN  IF bad \cap Care # {} THEN Coded(BadArgument, q, e, bad)
        ELSE [EncodeAt(q, [e EXCEPT !.done = @ - low], e.done - low, q.off, d)
                  EXCEPT !.e.done = @ + low, !.bad = @ \cup bad]

\* The open block wraps: it is encoded in a buffer on the stack.
PushBand(q, e, d) ==
    LET n   == IF q.max - e.done > Band THEN Band ELSE q.max - e.done
        buf == [i \in 0..(n - 1) |-> IF i < e.scratch THEN q.mem[At(q, e.done + i)] ELSE Junk]
        Set(to, part) == [to EXCEPT !.mem = Fill(Seek(to, e.done), part)]
        Back(r, set) == Set(Ring(q.mem, e.done + set, q.max, q.off), [i \in 1..set |-> r.mem[i-1]])
        Done(r) == Coded(r.ret, IF r.ret < 0 THEN q ELSE Back(r, r.e.done + r.e.scratch),
                         [r.e EXCEPT !.done = @ + e.done], {r.bad} \ {"none"})
    IN  Done(Encode(kind, [e EXCEPT !.done = 0], buf, 0, n, d))

\* What did not fit goes on, in aligned data or in the upper part.  A block
\* that was extended in place is not yet in the length that is aligned
\* ("stale"); the upper part forgets the size of the lower one.
PushRest(q, r, d) ==
    LET low  == q.max - q.off
        rest == SubSeq(d, r.ret + 1, Len(d))
        Sum(s, bad, lost) == [s EXCEPT !.ret = IF @ > 0 THEN @ + r.ret ELSE r.ret,
                                       !.e.done = @ + lost,
                                       !.bad = @ \cup r.bad \cup bad]
    IN  IF r.e.done < low
        THEN Sum(EncodeAligned(r.q, r.e, rest),
                 IF r.q.len # r.e.done + r.e.scratch THEN {"stale"} ELSE {}, 0)
        ELSE Sum(EncodeAt(r.q, [r.e EXCEPT !.done = @ - low], 0, q.off, rest),
                 {}, r.e.done - low)

\* The lower part has been tried: an error is met by aligned data.
PushFurther(q, r, d) ==
    IF r.ret < 0 THEN EncodeAligned(r.q, r.e, d)
    ELSE IF r.ret < Len(d) THEN PushRest(q, r, d)
    ELSE r

PushLower(q, e, d) ==
    LET low == q.max - q.off
    IN  PushFurther(q, IF low - e.done >= e.scratch THEN EncodeAt(q, e, q.off, low, d)
                       ELSE IF e.scratch >= Band THEN Coded(BadArgument, q, e, {})
                       ELSE PushBand(q, e, d), d)

\* No data ends the message.
mpt_queue_push(q, e, d) ==
    LET Sized(r) == [r EXCEPT !.q.len = r.e.done + r.e.scratch]
    IN  Sized(IF q.off = 0 THEN EncodeAt(q, e, 0, q.max, d)
              ELSE IF e.done >= q.max - q.off THEN PushUpper(q, e, d)
              ELSE PushLower(q, e, d))
-----------------------------------------------------------------------------
(* Output *)

\* mpt_stream_push: the queue grows until everything is in it.  n counts what
\* was pushed; the call ends early when there is no more memory.
RECURSIVE mpt_stream_push(_, _, _, _)
mpt_stream_push(q, e, d, n) ==
    LET Grown(p, r) == IF p.ok THEN mpt_stream_push(p.queue, r.e, d, n)
                       ELSE {Coded(IF n > 0 THEN n ELSE BadOperation, p.queue, r.e, {})}
        Tried(r) ==
            IF r.bad \cap Care # {} THEN {r}
            ELSE IF r.ret >= 0
                 THEN IF n + r.ret = Len(d) THEN {[r EXCEPT !.ret = n + @]}
                      ELSE mpt_stream_push(r.q, r.e, d, n + r.ret)
            ELSE IF r.ret # MissingBuffer THEN {[r EXCEPT !.ret = IF n > 0 THEN n ELSE @]}
            ELSE UNION {Grown(p, r) : p \in Prepared(r.q, Grow)}
    IN  Tried(mpt_queue_push(q, e, SubSeq(d, n + 1, Len(d))))

\* Data is added to the open message; no data ends it.
Push(d) ==
    /\ room.msgs > 0
    /\ \E r \in mpt_stream_push(wq, enc, d, 0) :
         /\ r.bad \cap Care = {}
         /\ wq' = r.q /\ enc' = r.e
         /\ open' = IF r.ret < 0 THEN open ELSE IF d = <<>> THEN <<>>
                    ELSE open \o SubSeq(d, 1, r.ret)
         /\ due' = IF d = <<>> /\ r.ret >= 0 THEN Append(due, open) ELSE due
    /\ room' = IF d = <<>> THEN [room EXCEPT !.msgs = @ - 1] ELSE [room EXCEPT !.data = @ - Len(d)]
    /\ UNCHANGED <<kind, wire, rq, dec, wrong>>

\* mpt_stream_flush: the descriptor takes n of the finished bytes.
mpt_stream_flush ==
    \E n \in 1..enc.done :
        /\ wire' = wire \o Fetch(wq, n)
        /\ wq' = CropFront(wq, n)
        /\ enc' = [enc EXCEPT !.done = @ - n]
        /\ UNCHANGED <<kind, rq, dec, open, due, wrong, room>>
-----------------------------------------------------------------------------
(* Input *)

\* mpt_queue_shift: storage in front of the decoded data is given up.
mpt_queue_shift(q, d) ==
    LET used == d.data # 0 \/ d.len # 0
        n    == IF used /\ d.data < d.curr THEN d.data ELSE d.curr
    IN  IF n = 0 THEN [q |-> q, d |-> d]
        ELSE [q |-> CropFront(q, n),
              d |-> [d EXCEPT !.curr = @ - n, !.data = IF used THEN @ - n ELSE @]]

DecodeQueue(q, d) ==
    LET Done(r) == [ret |-> r.ret, q |-> [q EXCEPT !.mem = Fill(q, r.buf)], d |-> r.d]
    IN  Done(Decode(kind, d, Content(q), q.off, q.max))

\* after a decoding that worked
Shifted(r) == [ret |-> IF r.d.msg >= 0 THEN 1 ELSE 0] @@ mpt_queue_shift(r.q, r.d)

\* All free storage is put in front of the data.
Widened(q, d) ==
    LET n == q.max - q.len
        Pre(f) == mpt_qpre(q, n, f.low, f.high)
    IN  DecodeQueue(Pre(mpt_queue_empty(q)), [d EXCEPT !.data = @ + n, !.curr = @ + n])

mpt_queue_recv(q, d) ==
    LET Final(r) == IF r.ret < 0 THEN r ELSE Shifted(r)
        Tried(r) == IF r.ret # MissingBuffer \/ q.len >= q.max THEN Final(r)
                    ELSE Final(Widened(r.q, r.d))
    IN  IF q.len = 0 THEN [ret |-> MissingData, q |-> q, d |-> d]
        ELSE Tried(DecodeQueue(q, d))

\* mpt_stream_poll: storage is given up, then n bytes are read if there are
\* any.  A full queue has to grow before.
mpt_stream_poll ==
    \E s \in {mpt_queue_shift(rq, dec)} :
    \E p \in IF wire # <<>> /\ s.q.len = s.q.max THEN Prepared(s.q, Grow)
             ELSE {[queue |-> s.q, ok |-> wire # <<>>]} :
    \E n \in 0..Len(wire) :
        /\ IF p.ok THEN n \in 1..(p.queue.max - p.queue.len) ELSE n = 0
        /\ rq' = IF p.ok THEN Loaded(p.queue, SubSeq(wire, 1, n)) ELSE p.queue
        /\ wire' = SubSeq(wire, n + 1, Len(wire))
        /\ dec' = s.d
        /\ UNCHANGED <<kind, wq, enc, open, due, wrong, room>>

\* mpt_stream_dispatch: the handler sees the message that was decoded by the
\* last call or is decoded by this one; the next message is then looked for.
mpt_stream_dispatch ==
    \E r \in {IF dec.msg < 0 THEN mpt_queue_recv(rq, dec) ELSE [ret |-> 1, q |-> rq, d |-> dec]} :
    \E s \in {IF r.ret > 0 THEN mpt_queue_recv(r.q, r.d) ELSE r} :
      LET msg == SubSeq(Content(r.q), r.d.data + 1, r.d.data + r.d.msg)
      IN  /\ rq' = s.q /\ dec' = s.d
          /\ IF r.ret <= 0 THEN UNCHANGED <<due, wrong>>
             ELSE IF due # <<>> /\ msg = Head(due) THEN due' = Tail(due) /\ UNCHANGED wrong
             ELSE wrong' = TRUE /\ UNCHANGED due
          /\ UNCHANGED <<kind, wq, enc, wire, open, room>>

Next ==
    \/ \E d \in Pieces \cup {<<>>} : Len(d) <= room.data /\ Push(d)
    \/ mpt_stream_flush
    \/ mpt_stream_poll
    \/ mpt_stream_dispatch

Spec == Init /\ [][Next]_vars
-----------------------------------------------------------------------------
IsQueue(q) ==
    /\ q.max \in 0..MaxSize /\ q.len \in 0..q.max /\ q.off \in 0..q.max
    /\ q.mem \in [0..(q.max - 1) -> Nat \cup {Junk}]

\* Both queues are well formed and the coders agree with them: the encoder
\* accounts for every byte of the output queue, what was decoded ends in front
\* of what is still encoded, and this is inside of the input queue.  The code
\* aborts (queue_push.c) or answers BadArgument (decode_cobs.c) otherwise.
TypeOK ==
    /\ kind \in Codecs
    /\ IsQueue(wq) /\ IsQueue(rq)
    /\ enc.done + enc.scratch = wq.len
    /\ dec.data + dec.len <= dec.curr /\ dec.curr <= rq.len
    /\ dec.msg \in {-1, dec.len}

\* Messages are dispatched as they were pushed, in this order, none twice and
\* none invented, however the descriptors cut the data, the queues wrap or
\* grow and blocks are finished (mpt_stream_push to mpt_stream_dispatch).
DeliveredAsSent == ~wrong

\* While messages cross both queues as they were pushed, the coders never lose
\* track of the queue they work in (mpt_queue_push, mpt_queue_recv).
SentArrives == TypeOK /\ DeliveredAsSent

\* what mpt_queue_recv finds in the data that was received
Found == mpt_queue_recv(rq, dec)

\* data to send, to receive or to dispatch, or decoding that goes on
OnItsWay == enc.done > 0 \/ wire # <<>> \/ dec.msg >= 0 \/ Found.q # rq \/ Found.d # dec

\* A message that ended is never stuck on its way through both queues, unless
\* the decoder has no byte of storage in front of the encoded data to decode
\* the open block to (mpt_queue_recv, the "proc" of mpt_decode_cobs).
FoundUnlessNoGap ==
    due # <<>> => OnItsWay \/ (dec.code # 0 /\ dec.curr = dec.data + dec.len)

\* A message that ended is never stuck, as mpt_queue_recv promises: "Receive
\* next complete message waiting on queue."
NotStranded == due # <<>> => OnItsWay
=============================================================================
