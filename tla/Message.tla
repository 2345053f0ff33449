------------------------------- MODULE Message -------------------------------
(***************************************************************************)
(* Access to data in several parts (mptcore/message): search, copy, read,  *)
(* words and message ids.  A message is a sequence of parts, the first one *)
(* is its base.  Bytes are model characters.                               *)
(***************************************************************************)
EXTENDS Integers, Sequences, FiniteSets, SequencesExt, TLC, Calls

CONSTANTS MaxBytes, MaxParts,   \* bounds: bytes and parts of a message
          IdBase, IdBytes       \* values of an id byte, bytes of the widest id

ASSUME IdAssumption == IdBase \in Nat /\ IdBase % 2 = 0 /\ IdBase > 0 /\ IdBytes \in Nat \ {0}

Blank == "blank"
Quote == "quote"
Nul == "nul"
Flat(parts) == FlattenSeq(parts)
\* Bytes in the parts before number i.
Before(parts, i) == Len(Flat(SubSeq(parts, 1, i - 1)))
NotFound == -2

First(S) == CHOOSE n \in S : \A k \in S : n <= k
Latest(S) == CHOOSE n \in S : \A k \in S : n >= k

\* Mutant: empty parts are counted as one byte.
Offset_Part(parts, i, p) == Before(parts, i) + i + p - 2
\* Place in the whole data of byte p of part i.
Offset(parts, i, p) == Before(parts, i) + p - 1

\* Forward and backward search for a byte of a set, part by part.
mpt_memfcn(parts, set) ==
    LET hits == {i \in 1 .. Len(parts) : ToSet(parts[i]) \cap set # {}} IN
    IF hits = {} THEN NotFound
    ELSE Offset(parts, First(hits), First({p \in 1 .. Len(parts[First(hits)]) : parts[First(hits)][p] \in set}))
mpt_memrfcn(parts, set) ==
    LET hits == {i \in 1 .. Len(parts) : ToSet(parts[i]) \cap set # {}} IN
    IF hits = {} THEN NotFound
    ELSE Offset(parts, Latest(hits), Latest({p \in 1 .. Len(parts[Latest(hits)]) : parts[Latest(hits)][p] \in set}))
mpt_memchr(parts, tok) == mpt_memfcn(parts, {tok})
mpt_memrchr(parts, tok) == mpt_memrfcn(parts, {tok})
mpt_memstr(parts, match) == IF match = {} THEN 0 ELSE mpt_memfcn(parts, match)
mpt_memrstr(parts, match) == IF match = {} THEN 0 ELSE mpt_memrfcn(parts, match)

\* Copy into the parts of a destination: bytes move one after the other, a
\* source or a target that is used up is followed by the next one.
RECURSIVE Move(_, _, _, _)
Move(len, src, dest, out) ==
    CASE len = 0 \/ src = <<>> \/ dest = <<>> -> out
      [] src[1] = <<>> -> Move(len, Tail(src), dest, out)
      [] dest[1] = 0 -> Move(len, src, Tail(dest), out)
      [] OTHER -> Move(len - 1, <<Tail(src[1])>> \o Tail(src), <<dest[1] - 1>> \o Tail(dest),
                       Append(out, src[1][1]))
SumSizes(sizes) == FoldSeq(LAMBDA n, sum : n + sum, 0, sizes)
mpt_memcpy(len, src, dest) ==
    CASE src = <<>> \/ dest = <<>> -> [ret |-> 0, out |-> <<>>]
      [] len > 0 /\ len > Len(Flat(src)) -> [ret |-> -1, out |-> <<>>]
      [] len > 0 /\ len > SumSizes(dest) -> [ret |-> -2, out |-> <<>>]
      [] OTHER -> LET out == Move(len, src, dest, <<>>) IN [ret |-> Len(out), out |-> out]

\* Search for a separator outside of quotes, with the state carried along.
RECURSIVE Tok(_, _, _, _, _)
Tok(parts, i, p, quoted, set) ==
    CASE i > Len(parts) -> NotFound
      [] i <= Len(parts) /\ p > Len(parts[i]) -> Tok(parts, i + 1, 1, quoted, set)
      [] i <= Len(parts) /\ p <= Len(parts[i]) /\ parts[i][p] = Quote -> Tok(parts, i, p + 1, ~quoted, set)
      [] i <= Len(parts) /\ p <= Len(parts[i]) /\ parts[i][p] # Quote ->
            IF ~quoted /\ parts[i][p] \in set THEN Offset(parts, i, p)
            ELSE Tok(parts, i, p + 1, quoted, set)
mpt_memtok(parts, set) == Tok(parts, 1, 1, FALSE, set)
-----------------------------------------------------------------------------
\* The next part that is not empty becomes the base.
RECURSIVE Rebase(_)
Rebase(msg) == IF Len(msg) > 1 /\ msg[1] = <<>> THEN Rebase(Tail(msg)) ELSE msg

RECURSIVE mpt_message_read(_, _, _)
mpt_message_read(msg, len, out) ==
    IF len <= Len(msg[1])
    THEN [out |-> out \o SubSeq(msg[1], 1, len),
          msg |-> Rebase(<<SubSeq(msg[1], len + 1, Len(msg[1]))>> \o Tail(msg))]
    ELSE IF Len(msg) = 1 THEN [out |-> out \o msg[1], msg |-> << <<>> >>]
    ELSE mpt_message_read(Tail(msg), len - Len(msg[1]), out \o msg[1])
mpt_message_length(msg) == Len(msg[1]) + SumSizes([i \in 1 .. Len(msg) - 1 |-> Len(msg[i + 1])])

\* Data of a queue that starts at offset pos of its storage.
Stored(qu, i) == qu.base[((qu.off + i - 1) % Len(qu.base)) + 1]
mpt_message_get(qu, off, take) ==
    LET low  == IF qu.off + qu.len > Len(qu.base) THEN Len(qu.base) - qu.off ELSE qu.len
        high == qu.len - low
        At(from, n) == SubSeq(qu.base, from + 1, from + n)
    IN  IF off < low
        THEN CASE take > low - off + high -> [ret |-> -2, msg |-> << <<>> >>]
               [] take <= low - off -> [ret |-> 0, msg |-> <<At(qu.off + off, take)>>]
               [] OTHER -> [ret |-> 1, msg |-> <<At(qu.off + off, low - off), At(0, take - low + off)>>]
        ELSE CASE off - low > high -> [ret |-> -1, msg |-> << <<>> >>]
               [] take > high - (off - low) -> [ret |-> -2, msg |-> << <<>> >>]
               [] OTHER -> [ret |-> 0, msg |-> <<At(off - low, take)>>]

\* Length of the word at the start when nothing ends it: all that remains.
nextChar(msg, tok) ==
    LET at == mpt_memchr(msg, tok) IN IF at = NotFound THEN Len(Flat(msg)) ELSE at

\* Space in front is passed over; when it reaches into the next parts, the
\* part with the first sign becomes the base and stays in the list as well.
SkipSpace(msg) ==
    LET visible == {"a", "=", Quote, Nul}
        here == mpt_memfcn(<<msg[1]>>, visible)
        there == mpt_memfcn(Tail(msg), visible)
        \* parts the loop passes: only while the offset exceeds their length
        RECURSIVE Pass(_, _)
        Pass(cont, off) == IF off > Len(cont[1]) THEN Pass(Tail(cont), off - Len(cont[1]))
                           ELSE <<SubSeq(cont[1], off + 1, Len(cont[1]))>> \o cont
    IN  CASE here >= 0 -> <<SubSeq(msg[1], here + 1, Len(msg[1]))>> \o Tail(msg)
          [] here < 0 /\ there >= 0 -> Pass(Tail(msg), there)
          [] OTHER -> msg

\* Words end with a separator; the base and the parts behind it are searched
\* by calls of their own.
mpt_message_argv(m, sep) ==
    LET msg  == Rebase(m)
        rest == SkipSpace(msg)
        here == mpt_memtok(<<rest[1]>>, {Blank})
        there == mpt_memtok(Tail(rest), {Blank})
    IN  CASE msg[1] = <<>> -> [len |-> -1, msg |-> msg]
          [] msg[1] # <<>> /\ sep = Nul -> [len |-> nextChar(msg, Nul), msg |-> msg]
          [] msg[1] # <<>> /\ sep = Blank ->
                [len |-> IF here >= 0 THEN here
                         ELSE IF there >= 0 THEN Len(rest[1]) + there ELSE nextChar(rest, Nul),
                 msg |-> rest]
          [] OTHER -> [len |-> nextChar(rest, sep), msg |-> rest]

\* Parts of a message are appended to an array; the counter is decremented
\* before it is tested, so that the last part is left out and no parts at all
\* let it run on.
mpt_message_append(arr, msg) ==
    IF Len(msg) = 1 THEN [end |-> FALSE, arr |-> arr \o msg[1]]
    ELSE [end |-> TRUE, arr |-> arr \o Flat(SubSeq(msg, 1, Len(msg) - 1))]
-----------------------------------------------------------------------------
\* Digit of an id at place i from the right.
Digit(id, i) == (id \div IdBase ^ i) % IdBase
mpt_message_id2buf(id, len) ==
    LET buf == [i \in 1 .. len |-> Digit(id, len - i)] IN
    CASE len = 0 -> [ret |-> IF id = 0 THEN 0 ELSE -1, buf |-> <<>>]
      [] len > 0 /\ id >= IdBase ^ len -> [ret |-> -1, buf |-> buf]
      [] len > 0 /\ id < IdBase ^ len /\ buf[1] >= IdBase \div 2 -> [ret |-> -2, buf |-> buf]
      [] OTHER -> [ret |-> 1 + Cardinality({i \in 1 .. len - 1 : id >= IdBase ^ i}), buf |-> buf]

\* The loop over the bytes ends with the first one and the number is stored
\* for an empty buffer only: the caller's variable keeps what it held.
mpt_message_buf2id(buf, held) ==
    IF buf = <<>> THEN 0 ELSE held
-----------------------------------------------------------------------------
(* Numbers in messages: size and kind in one byte. *)
Kinds == {"big", "unsigned", "float", "integer"}
mpt_msgvalfmt_size(f) == IF f.kind = "big" THEN f.size * 64 ELSE f.size
SignedOf == (1 :> "b") @@ (2 :> "n") @@ (4 :> "i") @@ (8 :> "x")
UnsignedOf == (1 :> "y") @@ (2 :> "q") @@ (4 :> "u") @@ (8 :> "t")
FloatOf == (4 :> "f") @@ (8 :> "d") @@ (16 :> "e")
Typed(table, size) == IF size \in DOMAIN table THEN table[size] ELSE "BadType"
mpt_msgvalfmt_typeid(f) ==
    IF ~f.native THEN "BadValue"
    ELSE CASE f.kind = "big" -> "BadType"
           [] f.kind = "integer" -> Typed(SignedOf, mpt_msgvalfmt_size(f))
           [] f.kind = "unsigned" -> Typed(UnsignedOf, mpt_msgvalfmt_size(f))
           [] f.kind = "float" -> Typed(FloatOf, mpt_msgvalfmt_size(f))
SizeOf(type) ==
    CASE type \in {"b", "y"} -> 1 [] type \in {"n", "q"} -> 2 [] type \in {"i", "u", "f"} -> 4
      [] type \in {"x", "t", "d"} -> 8 [] type = "e" -> 16
mpt_msgvalfmt_code(type) ==
    [kind |-> CASE type \in {"f", "d", "e"} -> "float" [] type \in {"b", "n", "i", "x"} -> "integer"
                [] OTHER -> "unsigned",
     native |-> TRUE, size |-> SizeOf(type)]
-----------------------------------------------------------------------------
Bytes(set, n) == UNION {[1 .. k -> set] : k \in 0 .. n}
Parted(set) == {m \in UNION {[1 .. k -> Bytes(set, 2)] : k \in 1 .. MaxParts} : Len(Flat(m)) <= MaxBytes}

MessageCalls ==
    \/ \E m \in Parted({"a", Blank}), set \in SUBSET {"a", Blank} :
          Called("search", [msg |-> m, set |-> set],
                 [first |-> mpt_memfcn(m, set), last |-> mpt_memrfcn(m, set)])
    \/ \E m \in Parted({"a", Blank}), dest \in {<<1, 0, 2>>, <<3>>, <<0>>, <<2, 2>>}, len \in -1 .. 4 :
          Called("memcpy", [msg |-> m, dest |-> dest, len |-> len], mpt_memcpy(len, m, dest))
    \/ \E m \in Parted({"a", Blank}), len \in 0 .. MaxBytes + 1 :
          Called("message_read", [msg |-> m, len |-> len], mpt_message_read(m, len, <<>>))
    \/ \E m \in Parted({"a", Blank}) : Called("length", m, mpt_message_length(m))
    \/ \E off \in 0 .. 2, len \in 0 .. 3, from \in 0 .. 4, take \in 0 .. 4 :
          Called("message_get", [off |-> off, len |-> len, from |-> from, take |-> take],
                 mpt_message_get([base |-> <<"a", "b", "c">>, off |-> off, len |-> len], from, take))
    \/ \E m \in Parted({"a", Blank, Quote}), sep \in {Blank, Nul, "a"} :
          Called("message_argv", [msg |-> m, sep |-> sep], mpt_message_argv(m, sep))
    \/ \E m \in Parted({"a", Blank, Quote}) :
          Called("memtok", m, mpt_memtok(m, {Blank}))
    \/ \E m \in Parted({"a", Blank}) : Called("message_append", m, mpt_message_append(<<>>, m))
    \/ \E id \in 0 .. 2 * IdBase ^ IdBytes, len \in 0 .. IdBytes :
          Called("message_id2buf", [id |-> id, len |-> len], mpt_message_id2buf(id, len))
    \/ \E kind \in Kinds, size \in {1, 2, 3, 4, 8, 16}, native \in BOOLEAN :
          Called("msgvalfmt", [kind |-> kind, size |-> size, native |-> native],
                 mpt_msgvalfmt_typeid([kind |-> kind, size |-> size, native |-> native]))

PlacesIn(s, set) == {i \in 1 .. Len(s) : s[i] \in set}

\* A search over parts by mpt_memfcn, mpt_memrfcn or mpt_memtok finds what a
\* search over the joined data finds, wherever the parts begin and end.
SearchJoined ==
    /\ call.fn = "search" =>
          LET at == PlacesIn(Flat(call.args.msg), call.args.set) IN
          IF at = {} THEN call.result = [first |-> NotFound, last |-> NotFound]
          ELSE call.result = [first |-> First(at) - 1, last |-> Latest(at) - 1]
    /\ call.fn = "memtok" =>
          LET s == Flat(call.args)
              open(i) == {j \in 1 .. i - 1 : s[j] = Quote}
              at == {i \in PlacesIn(s, {Blank}) : Cardinality(open(i)) % 2 = 0}
          IN  call.result = IF at = {} THEN NotFound ELSE First(at) - 1

\* mpt_memcpy and mpt_message_read deliver the bytes in their order, as many as
\* there are, and mpt_message_read leaves exactly the others.
CopiedInOrder ==
    /\ call.fn = "memcpy" /\ call.result.ret >= 0 =>
          /\ call.result.out = SubSeq(Flat(call.args.msg), 1, call.result.ret)
          /\ call.args.len > 0 => call.result.ret = call.args.len
    /\ call.fn = "message_read" =>
          /\ call.result.out \o Flat(call.result.msg) = Flat(call.args.msg)
          /\ call.args.len <= Len(Flat(call.args.msg)) => Len(call.result.out) = call.args.len
          /\ Flat(call.result.msg) # <<>> => call.result.msg[1] # <<>>
    /\ call.fn = "length" => call.result = Len(Flat(call.args))

\* mpt_message_get describes the bytes of the queue from an offset on, also
\* when they continue at the start of the storage.
QueueDescribed ==
    call.fn = "message_get" =>
        LET a == call.args
            qu == [base |-> <<"a", "b", "c">>, off |-> a.off, len |-> a.len] IN
        IF call.result.ret < 0 THEN a.from + a.take > a.len
        ELSE Flat(call.result.msg) = [i \in 1 .. a.take |-> Stored(qu, a.from + i)]

\* A word found by mpt_message_argv ends at a separator or at the end of the
\* data, as long as quotes are closed in the part they begin in and space in
\* front ends in the first part.
WordsEnd ==
    call.fn = "message_argv" /\ call.result.len >= 0 /\ call.args.sep = Blank =>
        LET m == Rebase(call.args.msg)
            closed == \A i \in 1 .. Len(m) : Cardinality(PlacesIn(m[i], {Quote})) % 2 = 0
            here == PlacesIn(m[1], {"a", Quote}) # {}
        IN  closed /\ here =>
                LET s == Flat(call.result.msg)
                    n == call.result.len
                    at == {i \in PlacesIn(s, {Blank}) :
                              Cardinality({j \in 1 .. i - 1 : s[j] = Quote}) % 2 = 0}
                IN  /\ n = IF at = {} THEN Len(s) ELSE First(at) - 1
                    /\ n > 0

\* An id that mpt_message_id2buf accepts is the number its bytes stand for and
\* leaves the bit free that marks replies.
IdsEncoded ==
    call.fn = "message_id2buf" =>
        LET b == call.result.buf
            fits == call.args.id < IdBase ^ call.args.len IN
        IF call.result.ret >= 0
        THEN /\ call.args.id = SumSizes([i \in 1 .. Len(b) |-> b[i] * IdBase ^ (Len(b) - i)])
             /\ b # <<>> => b[1] < IdBase \div 2
        ELSE ~fits \/ b[1] >= IdBase \div 2

\* The type that mpt_msgvalfmt_typeid finds has the same code again.
CodesReturn ==
    call.fn = "msgvalfmt" /\ call.result \notin {"BadValue", "BadType"} =>
        mpt_msgvalfmt_code(call.result) = call.args

\* Data in parts is found, copied and read as the joined data, words and ids
\* are those the bytes contain.
PartsJoined ==
    SearchJoined /\ CopiedInOrder /\ QueueDescribed /\ WordsEnd /\ IdsEncoded /\ CodesReturn
=============================================================================
