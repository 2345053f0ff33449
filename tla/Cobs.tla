-------------------------------- MODULE Cobs --------------------------------
(***************************************************************************)
(* The incremental COBS encoder and decoder of mptcore/convert, with zero  *)
(* pair elimination ("zpe") and inlined tail ("_r") as variants.           *)
(*                                                                         *)
(* A block is a code byte and code - 1 other bytes; a message ends with a  *)
(* zero byte.  The encoder keeps its open block, of "scratch" bytes, behind*)
(* "done" finished ones.  The decoder works in place: decoded data starts  *)
(* at "data" and has "len" bytes, encoded data goes on at "curr".          *)
(***************************************************************************)
EXTENDS Integers, Sequences, FiniteSetsExt

CONSTANTS MaxLen,     \* MPT_COBS_MAXLEN, code of a full block
          PairMax,    \* pairs are joined to blocks with a smaller code (32)
          Aligns      \* alignments a decoded message is moved to (2, 4, 8, 16)

Kinds == {"cobs", "cobs_r", "zpe", "zpe_r"}
Zpe(k) == k \in {"zpe", "zpe_r"}
Inline(k) == k \in {"cobs_r", "zpe_r"}

MissingBuffer == -17
MissingData == -16
BadArgument == -1
BadValue == -2
BadOperation == -4

NewEncoder == [done |-> 0, scratch |-> 0]
NewDecoder == [code |-> 0, pos |-> 0, curr |-> 0, data |-> 0, len |-> 0, msg |-> -1]

Poke(mem, a, v) == [mem EXCEPT ![a] = v]
-----------------------------------------------------------------------------
(* Encoder.  A result also says which wrong turn, if any, was taken: the   *)
(* block saved one byte "late", the "empty" message that forgets finished  *)
(* data, the terminator without room for it ("tail").                      *)
Encoded(ret, e, mem, bad) == [ret |-> ret, e |-> e, mem |-> mem, bad |-> bad]

\* The loop over the bytes of d from position src on: dst is the next byte to
\* write, code that of the open block, left the room behind dst.
SaveBlock(mem, dst, code, left, src, bad) ==
    [mem |-> Poke(mem, dst - code, code), code |-> code, left |-> left, src |-> src, bad |-> bad]

\* a zero ends the block, together with a second one behind it
Pair(k, code, d, src) ==
    /\ Zpe(k) /\ code > 1 /\ code < PairMax
    /\ src < Len(d) /\ d[src+1] = 0

RECURSIVE EncodeBytes(_, _, _, _, _, _, _)
EncodeBytes(k, mem, dst, code, left, d, src) ==
    LET data == Poke(mem, dst, d[src])
        full == code + 1 = MaxLen
        More(m, at, c, l, s) == EncodeBytes(k, m, at, c, l, d, s)
        EndBlock(pair) == More(Poke(mem, dst - code, IF pair THEN code + MaxLen ELSE code),
                            dst + 1, 1, left - 1, IF pair THEN src + 2 ELSE src + 1)
    IN  IF src > Len(d) \/ left = 0 THEN SaveBlock(mem, dst, code, left, src, "none")
        ELSE IF d[src] = 0 THEN EndBlock(Pair(k, code, d, src))
        ELSE IF ~full THEN More(data, dst + 1, code + 1, left - 1, src + 1)
        ELSE IF left = 1 THEN SaveBlock(data, dst, code, 0, src, "late")
        ELSE More(Poke(data, dst - code, MaxLen), dst + 2, 1, left - 2, src + 1)

\* mpt_encode_cobs with data, for the n cells from b on
EncodeData(k, e, mem, b, n, d) ==
    LET code == IF e.scratch = 0 THEN 1 ELSE e.scratch
        left == n - e.done - code
        Saved(w) == Encoded(w.src - 1, [done |-> n - w.left - w.code, scratch |-> w.code],
                            w.mem, w.bad)
    IN  IF left <= 0 THEN Encoded(MissingBuffer, e, mem, "none")
        ELSE Saved(EncodeBytes(k, mem, b + e.done + code, code, left, d, 1))

Ended(done, mem, bad) == Encoded(0, [done |-> done, scratch |-> 0], mem, bad)

\* Mutant: the terminator is written and not counted.
EncodeEnd_Uncounted(e, mem, b, n) ==
    LET at   == b + e.done
        left == n - e.done
        c    == e.scratch
    IN  IF c >= left \/ (c = 0 /\ left < 2) THEN Encoded(MissingBuffer, e, mem, "none")
        ELSE IF c = 0 THEN Ended(2, Poke(Poke(mem, at, 1), at + 1, 0), "empty")
        ELSE Ended(e.done + c, Poke(Poke(mem, at, c), at + c, 0), "none")

\* mpt_encode_cobs without data ends the message.  The length of an empty
\* one takes the place of all finished data.
EncodeEnd(e, mem, b, n) ==
    LET at   == b + e.done
        left == n - e.done
        c    == e.scratch
    IN  IF c >= left \/ (c = 0 /\ left < 2) THEN Encoded(MissingBuffer, e, mem, "none")
        ELSE IF c = 0 THEN Ended(2, Poke(Poke(mem, at, 1), at + 1, 0), "empty")
        ELSE Ended(e.done + c + 1, Poke(Poke(mem, at, c), at + c, 0), "none")

\* mpt_encode_cobs_r: a last byte above the code takes its place.  Otherwise
\* no room is required for the terminator.
LastByte(e, mem, b) == mem[b + e.done + e.scratch - 1]

MPT_cobs_check_inline(k, e, mem, b) ==
    /\ e.scratch > 1 /\ e.scratch < LastByte(e, mem, b)
    /\ Zpe(k) => e.scratch <= MaxLen /\ LastByte(e, mem, b) <= MaxLen

EncodeTail(k, e, mem, b, n) ==
    LET at == b + e.done
        c  == e.scratch
    IN  IF MPT_cobs_check_inline(k, e, mem, b)
        THEN Ended(e.done + c, Poke(Poke(mem, at, LastByte(e, mem, b)), at + c - 1, 0), "none")
        ELSE Ended(e.done + c + 1, Poke(Poke(mem, at, c), at + c, 0),
                   IF e.done + c = n THEN "tail" ELSE "none")

\* The encoder for n cells from b on; no data ends the message.
Encode(k, e, mem, b, n, d) ==
    IF n = 0 THEN Encoded(MissingBuffer, e, mem, "none")
    ELSE IF e.done > n \/ e.scratch > n - e.done THEN Encoded(BadArgument, e, mem, "none")
    ELSE IF d # <<>> THEN EncodeData(k, e, mem, b, n, d)
    ELSE IF Inline(k) /\ e.scratch # 0 THEN EncodeTail(k, e, mem, b, n)
    ELSE EncodeEnd(e, mem, b, n)
-----------------------------------------------------------------------------
(* Decoder *)
MPT_cobs_len_data(k, c) == IF Zpe(k) /\ c > MaxLen THEN c - MaxLen - 1 ELSE c - 1

\* Mutant: a full block is followed by a zero as well.
MPT_cobs_len_zero_Full(k, c, next) ==
    IF Zpe(k) /\ c > MaxLen THEN 2 ELSE IF c <= MaxLen /\ next # 0 THEN 1 ELSE 0

MPT_cobs_len_zero(k, c, next) ==
    IF Zpe(k) /\ c > MaxLen THEN 2 ELSE IF c < MaxLen /\ next # 0 THEN 1 ELSE 0

Decoded(ret, d, buf) == [ret |-> ret, d |-> d, buf |-> buf]

\* buf is the content of the queue, out the end of the decoded data and in
\* the start of the encoded rest, counted from 0; d.code is the block at
\* hand and d.pos what was decoded of it.
RECURSIVE DecodeBytes(_, _, _, _, _)
DecodeBytes(k, d, buf, out, in) ==
    LET now   == [d EXCEPT !.curr = in, !.len = out - d.data]
        size  == MPT_cobs_len_data(k, d.code)
        next  == buf[in + 1]
        zeros == MPT_cobs_len_zero(k, d.code, next)
        Copy(byte, used) ==
            DecodeBytes(k, [d EXCEPT !.pos = @ + 1], Poke(buf, out + 1, byte), out + 1, in + used)
    IN  IF d.code = 0 THEN Decoded(1, [now EXCEPT !.pos = 0, !.msg = out - d.data], buf)
        ELSE IF in = Len(buf) THEN Decoded(0, now, buf)
        ELSE IF d.pos < size
             THEN IF next = 0 THEN Decoded(MissingData, now, buf)
                  ELSE IF in = out THEN Decoded(0, now, buf)
                  ELSE Copy(next, 1)
        ELSE IF d.pos < size + zeros
             THEN IF in = out THEN Decoded(MissingBuffer, now, buf) ELSE Copy(0, 0)
        ELSE DecodeBytes(k, [d EXCEPT !.code = next, !.pos = 0], buf, out, in + 1)

\* How far the next message starts behind the last one: by the address of its
\* place, modulo the largest alignment the room in front of the encoded data
\* and the size of the segment allow.
AlignGap(addr, segment, gap) ==
    LET fit == {a \in Aligns : segment >= a \div 2 /\ gap >= addr % a}
    IN  IF fit = {} THEN 0 ELSE addr % Max(fit)

\* The last message is given up.  Content is at addresses off .. max-1, then
\* 0 ..; a new message starts at an aligned place.
NextMessage(d, used, off, max) ==
    LET end  == d.data + d.len
        kept == IF d.msg >= 0 THEN d.len - d.msg ELSE d.len
        Gap(low) == IF end < low THEN AlignGap(off + end, low - end, d.curr - end)
                    ELSE AlignGap(end - low, used - end, d.curr - end)
    IN  [d EXCEPT !.len = kept, !.msg = -1,
                  !.data = IF kept # 0 THEN end - kept
                           ELSE end + Gap(IF off + used > max THEN max - off ELSE used)]

\* Decoding goes on at d.curr, with the code of a new block if none is open.
DecodeFrom(k, d, buf) ==
    LET end  == d.data + d.len
        code == buf[d.curr + 1]
        Open(c, in) == DecodeBytes(k, c, buf, end, in)
    IN  IF d.curr > Len(buf) THEN Decoded(BadArgument, d, buf)
        ELSE IF d.code # 0 THEN Open(d, d.curr)
        ELSE IF d.curr = Len(buf) THEN Decoded(0, d, buf)
        ELSE IF code = 0 THEN Decoded(BadValue, [d EXCEPT !.curr = @ - end + 1], buf)
        ELSE Open([d EXCEPT !.code = code, !.pos = 0], d.curr + 1)

mpt_decode_cobs(k, d, buf, off, max) ==
    IF d.data + d.len > d.curr \/ d.data + d.len > Len(buf) THEN Decoded(BadArgument, d, buf)
    ELSE DecodeFrom(k, NextMessage(d, Len(buf), off, max), buf)

\* mpt_decode_cobs_r: a message that ends inside of a block has the code of
\* that block as its last byte.
Decode(k, d, buf, off, max) ==
    LET Tailed(r, n) ==
            IF Inline(k) /\ r.ret = MissingData
            THEN Decoded(1, [r.d EXCEPT !.len = n, !.msg = n, !.code = 0, !.pos = 0, !.curr = @ + 1],
                         Poke(r.buf, r.d.data + n, r.d.code))
            ELSE r
        Add(r) == Tailed(r, r.d.len + 1)
    IN  Add(mpt_decode_cobs(k, d, buf, off, max))
=============================================================================
