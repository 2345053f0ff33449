-------------------------------- MODULE Text ---------------------------------
(***************************************************************************)
(* Text read by mptcore/convert: keys, number formats and destination      *)
(* numbers, and data that is handed out as text.  Text is a sequence of    *)
(* tokens: space, separator, a letter, a number.                           *)
(***************************************************************************)
EXTENDS Integers, Sequences, FiniteSets, SequencesExt, Calls

CONSTANTS MaxText,     \* bound: tokens of a text
          DestSize     \* elements of a destination

Space == [c |-> "space"]
Sep == [c |-> "sep"]
Char(c) == [c |-> c]
Num(v) == [c |-> "num", v |-> v]
Texts(tokens, n) == UNION {[1 .. k -> tokens] : k \in 0 .. n}

\* The rest of a text behind its first n tokens.
From(t, n) == SubSeq(t, n + 1, Len(t))
\* Number of tokens at the start that are in a set.
Span(t, set) == CHOOSE n \in 0 .. Len(t) :
    /\ \A i \in 1 .. n : t[i] \in set
    /\ n = Len(t) \/ t[n + 1] \notin set
-----------------------------------------------------------------------------
\* Mutant: space before a separator counts for the key.
KeyLen_Space(t, end) == end
\* Length of a key that ends before position end: up to its last sign.
KeyLen(t, end) == CHOOSE n \in 0 .. end :
    /\ n = 0 \/ t[n] # Space
    /\ \A i \in n + 1 .. end : t[i] = Space

\* Key and what remains: any space ends a key if separators are missing or
\* contain space, a separator is taken away with the key.
mpt_convert_key(src, mode) ==
    LET t    == From(src, Span(src, {Space}))
        stop == CASE mode = "none" -> {Space} [] mode = "sep" -> {Sep} [] mode = "sepspace" -> {Sep, Space}
        end  == CHOOSE n \in 0 .. Len(t) :
                    /\ \A i \in 1 .. n : t[i] \notin stop
                    /\ n = Len(t) \/ t[n + 1] \in stop
        past == IF end < Len(t) /\ t[end + 1] = Sep /\ mode # "none" THEN end + 1 ELSE end
    IN  IF past = 0 THEN [key |-> <<>>, rest |-> src, found |-> FALSE]
        ELSE [key |-> SubSeq(t, 1, KeyLen(t, end)), rest |-> From(t, past), found |-> TRUE]
-----------------------------------------------------------------------------
NoFormat == [sign |-> FALSE, letter |-> "none", width |-> 0, dec |-> 0]
Letters == {"f", "g", "a", "x", "o", "e"}

\* A number with the space in front of it that strtol passes over.
NumberAt(t) == LET n == Span(t, {Space}) IN
    IF n < Len(t) /\ t[n + 1].c = "num" THEN [used |-> n + 1, v |-> t[n + 1].v] ELSE [used |-> 0, v |-> 0]

FormatError(err) == [ret |-> -1, err |-> err, fmt |-> NoFormat]
Format(ret, fmt) == [ret |-> ret, err |-> "ok", fmt |-> fmt]

\* Digits behind the point, text starts at the point.
ValfmtDec(fmt, t, used) ==
    LET d == NumberAt(From(t, 1)) IN
    CASE t[1].c # "point" -> FormatError("BadFormat")
      [] d.used = 0 -> FormatError("BadArgument")
      [] d.v < 0 \/ d.v >= 127 -> FormatError("BadValue")
      [] OTHER -> Format(used + 1 + d.used, [fmt EXCEPT !.dec = d.v])
ValfmtWidth(fmt, t, used) ==
    LET w    == NumberAt(t)
        wide == [fmt EXCEPT !.width = w.v]
        rest == From(t, w.used)
    IN  CASE w.used = 0 -> FormatError("BadArgument")
          [] w.v < 0 \/ w.v > 255 -> FormatError("BadValue")
          [] rest = <<>> \/ rest[1] = Space -> Format(used + w.used, wide)
          [] OTHER -> ValfmtDec(wide, rest, used + w.used)

mpt_valfmt_get(src) ==
    LET sp   == Span(src, {Space})
        t    == From(src, sp)
        sg   == IF t # <<>> /\ t[1].c = "plus" THEN 1 ELSE 0
        u    == From(t, sg)
        lt   == IF u # <<>> /\ u[1].c \in Letters THEN 1 ELSE 0
        fmt  == [sign |-> sg = 1, letter |-> IF lt = 1 THEN u[1].c ELSE "none", width |-> 0,
                 dec |-> IF lt = 1 /\ u[1].c = "f" THEN 6 ELSE 0]
    IN  CASE t = <<>> -> Format(sp, NoFormat)
          [] lt = 0 /\ (u = <<>> \/ u[1].c # "num") -> FormatError("BadArgument")
          [] OTHER -> ValfmtWidth(fmt, From(u, lt), sp + sg + lt)

\* Formats are appended until the text ends.
RECURSIVE mpt_valfmt_parse(_, _)
mpt_valfmt_parse(arr, src) ==
    LET get == mpt_valfmt_get(src) IN
    IF get.ret > 0 THEN mpt_valfmt_parse(Append(arr, get.fmt), From(src, get.ret))
    ELSE [arr |-> arr, err |-> get.err]
-----------------------------------------------------------------------------
\* Numbers by position, an empty position between separators keeps its value.
RECURSIVE DestFrom(_, _, _)
DestFrom(t, i, set) ==
    LET n == NumberAt(t) IN
    IF i = DestSize THEN [err |-> "ok", set |-> set]
    ELSE IF n.used = 0
    THEN CASE t = <<>> -> [err |-> "ok", set |-> set]
           [] t[1] = Sep /\ Len(t) > 1 /\ t[2] = Space -> [err |-> "ok", set |-> set]
           [] t[1] = Sep -> DestFrom(From(t, 1), i + 1, set)
           [] OTHER -> [err |-> "EINVAL", set |-> set]
    ELSE IF n.v < 0 \/ n.v > 255 THEN [err |-> "ERANGE", set |-> set]
    ELSE LET rest == From(t, n.used)
             more == set \cup {<<i + 1, n.v>>}
         IN  IF rest = <<>> \/ rest[1] # Sep THEN [err |-> "ok", set |-> more]
             ELSE DestFrom(From(rest, 1), i + 1, more)
mpt_string_dest(descr) == DestFrom(From(descr, Span(descr, {Space})), 0, {})
-----------------------------------------------------------------------------
(* Data as text: bytes are "0" or something else. *)
EndAnywhere(bytes) == \E i \in 1 .. Len(bytes) : bytes[i] = "0"
EndLast(bytes) == bytes # <<>> /\ Last(bytes) = "0"

mpt_data_tostring(src, sized) ==
    CASE src.kind = "string" -> TRUE
      [] src.kind \in {"array", "buffer"} ->
            /\ src.has /\ src.chars
            /\ sized \/ src.bytes = <<>> \/ EndAnywhere(src.bytes)
      [] src.kind = "vector" ->
            /\ src.has \/ src.bytes = <<>>
            /\ sized \/ EndLast(src.bytes)
      [] OTHER -> FALSE

\* An array handed over as a string pointer or as a vector.
mpt_data_convert_array(src, type) ==
    CASE type = "s" -> src.has /\ src.chars /\ EndAnywhere(src.bytes)
      [] type = "C" -> src.has /\ src.chars
      [] type = "@" -> ~src.has
      [] OTHER -> FALSE
-----------------------------------------------------------------------------
KeyText == {Space, Sep, Char("k")}
FmtText == {Space, Char("plus"), Char("f"), Char("o"), Char("point"), Num(5), Num(300), Num(-1)}
DestText == {Space, Sep, Num(1), Num(2), Num(300), Char("k")}
Sources == [kind : {"string", "array", "buffer", "vector", "other"}, has : BOOLEAN, chars : BOOLEAN,
            bytes : Texts({"0", "c"}, 2)]

TextCalls ==
    \/ \E t \in Texts(KeyText, MaxText), m \in {"none", "sep", "sepspace"} :
          Called("convert_key", [text |-> t, mode |-> m], mpt_convert_key(t, m))
    \/ \E t \in Texts(FmtText, MaxText) : Called("valfmt_parse", t, mpt_valfmt_parse(<<>>, t))
    \/ \E t \in Texts(DestText, MaxText) : Called("string_dest", t, mpt_string_dest(t))
    \/ \E s \in Sources, sized \in BOOLEAN :
          Called("data_tostring", [src |-> s, sized |-> sized], mpt_data_tostring(s, sized))
    \/ \E s \in Sources, type \in {"s", "C", "@", "I"} :
          Called("convert_array", [src |-> s, type |-> type], mpt_data_convert_array(s, type))

\* Pieces of a text between separators.
Pieces(t, cut) ==
    LET at == SetToSortSeq({i \in 1 .. Len(t) : t[i] = cut} \cup {0, Len(t) + 1}, <)
    IN  [i \in 1 .. Len(at) - 1 |-> SubSeq(t, at[i] + 1, at[i + 1] - 1)]
Trim(t) == LET s == Span(t, {Space}) e == Span(Reverse(t), {Space})
           IN SubSeq(t, s + 1, Len(t) - e)

\* mpt_convert_key with separators that contain no space takes the text up to
\* the first separator without the space around it and leaves what follows.
KeyIsField ==
    call.fn = "convert_key" /\ call.args.mode = "sep" /\ call.result.found =>
        LET fields == Pieces(call.args.text, Sep) IN
        /\ call.result.key = Trim(fields[1])
        /\ Len(fields) > 1 => Pieces(call.result.rest, Sep) = Tail(fields)

\* mpt_valfmt_parse makes one format of each word that ends with its number,
\* and one more when space follows the last word.
FormatPerWord ==
    call.fn = "valfmt_parse" /\ call.result.err = "ok" =>
        LET t == call.args
            tight == /\ \A i \in 2 .. Len(t) : t[i] = Space => t[i - 1].c \in {"num", "space"}
                     /\ \A i \in 2 .. Len(t) : t[i - 1].c = "num" => t[i].c \in {"space", "point"}
            words == {i \in 1 .. Len(t) : t[i] # Space /\ (i = 1 \/ t[i - 1] = Space)}
        IN  tight => Len(call.result.arr)
                = Cardinality(words) + IF t # <<>> /\ Last(t) = Space THEN 1 ELSE 0

\* mpt_string_dest stores each number at the place of its field: fields that
\* are left out keep the places of those behind them.
DestByPlace ==
    call.fn = "string_dest" =>
        \A e \in call.result.set :
            LET fields == Pieces(call.args, Sep) IN
            /\ e[1] <= Len(fields) /\ e[1] <= DestSize
            /\ Trim(fields[e[1]]) # <<>> /\ Trim(fields[e[1]])[1] = Num(e[2])

\* What mpt_data_tostring or mpt_data_convert_array gives out as text without
\* its length has an end in the data it points to, or has no data at all.
StringEnds ==
    /\ call.fn = "data_tostring" /\ call.result /\ ~call.args.sized /\ call.args.src.kind # "string" =>
          EndAnywhere(call.args.src.bytes) \/ call.args.src.bytes = <<>>
    /\ call.fn = "convert_array" /\ call.result /\ call.args.type = "s" =>
          EndAnywhere(call.args.src.bytes)

\* Keys, formats and destinations are those written in the text, and text made
\* of data by mpt_data_tostring has an end.
TextRead == KeyIsField /\ FormatPerWord /\ DestByPlace /\ StringEnds

-----------------------------------------------------------------------------
(* Descriptions of files and sockets (mpt_mode_parse): the mode in front   *)
(* of a path or an address.  A description is its leading word, in lower   *)
(* case or with a capital letter, and the tokens that follow: the          *)
(* separator, letters, a number, or the start of a local path.             *)

Mode(word, upper, rest) == [word |-> word, upper |-> upper, rest |-> rest]
NoMode == Mode("no text", FALSE, <<>>)

\* A token: sign, letter, start of a path, or a number (in the octal notation of the source).
Sign(c) == [c |-> c, v |-> 0]
Octal(v) == [c |-> "number", v |-> v]
Is(t, c) == t # <<>> /\ t[1].c = c

-----------------------------------------------------------------------------
(* Sockets. *)

SocketNames == {"socket", "sock", "unix", "ip4", "tcp4", "udp4", "sctp4",
                "ip6", "ipv6", "tcp6", "udp6", "sctp6", "ip", "tcp", "udp", "sctp"}

\* A path behind "socket" names a local one.
Local(m) == Len(m.rest) > 1 /\ m.rest[1].c = ":" /\ m.rest[2].c \in {"/", "."}

Family(m) ==
    CASE m.word \in {"socket", "sock"} -> IF Local(m) THEN "unix" ELSE "any"
      [] m.word = "unix" -> "unix"
      [] m.word \in {"ip4", "tcp4", "udp4", "sctp4"} -> "inet"
      [] m.word \in {"ip6", "ipv6", "tcp6", "udp6", "sctp6"} -> "inet6"
      [] OTHER -> "any"

\* The transport is part of the name, or left to the capital letter.
Protocol(m) ==
    CASE m.word \in {"tcp4", "tcp6", "tcp"} -> "tcp"
      [] m.word \in {"udp4", "udp6", "udp"} -> "udp"
      [] m.word \in {"sctp4", "sctp6", "sctp"} -> "sctp"
      [] m.word \in {"socket", "sock"} /\ ~Local(m) -> IF m.upper THEN "tcp" ELSE "udp"
      [] OTHER -> "none"

SocketType(m) ==
    CASE Protocol(m) = "tcp" -> "stream"
      [] Protocol(m) = "udp" -> "dgram"
      [] Protocol(m) = "sctp" -> IF m.upper THEN "stream" ELSE "seqpacket"
      [] OTHER -> IF m.upper THEN "stream" ELSE "dgram"

Buffered(m) ==
    CASE Protocol(m) = "tcp" -> TRUE
      [] Protocol(m) = "udp" -> FALSE
      [] OTHER -> m.upper

socketMode(m) ==
    [family |-> Family(m), type |-> SocketType(m), proto |-> Protocol(m),
     stream |-> {"RdWr"} \cup (IF Buffered(m) THEN {"Buffer"} ELSE {})]

-----------------------------------------------------------------------------
(* Files: stream flags, how to open, permissions, newline; t is what is    *)
(* left to read.                                                           *)

Unset == [family |-> "file", open |-> {}, perm |-> 0, stream |-> {}, lsep |-> "native"]

\* What the caller had there: nothing is written when permissions are refused.
Unwritten == [Unset EXCEPT !.lsep = "of the caller"]

\* A letter for the newline, a capital one flushes with it.
Newlines == [n |-> "net", w |-> "net", u |-> "unix", m |-> "mac",
             N |-> "net", W |-> "net", U |-> "unix", M |-> "mac"]
lineSeparator(f) ==
    IF f.t = <<>> \/ f.t[1].c \notin DOMAIN Newlines THEN f
    ELSE [t |-> Tail(f.t),
          s |-> [f.s EXCEPT !.lsep = Newlines[f.t[1].c],
                            !.stream = @ \cup (IF f.t[1].c \in {"N", "W", "U", "M"}
                                               THEN {"FlushLine"} ELSE {})]]

\* Read and write, or what the letter says alone.
Access(f, plus, alone) ==
    IF Is(f.t, "+")
    THEN [t |-> Tail(f.t), s |-> [f.s EXCEPT !.stream = @ \cup {"RdWr"} \cup plus, !.open = @ \cup {"rdwr"}]]
    ELSE [f EXCEPT !.s.stream = @ \cup alone.stream, !.s.open = @ \cup alone.open]

ForRead == [stream |-> {"Read", "ReadBuf"}, open |-> {"rdonly"}]
ForWrite == [stream |-> {"Write", "WriteBuf"}, open |-> {"wronly"}]

\* The flags of the letter, then newline and access.
FileMode(m) ==
    LET wait == IF m.upper THEN {"nonblock"} ELSE {}
        start(stream, open) ==
            lineSeparator([t |-> m.rest, s |-> [Unset EXCEPT !.stream = stream, !.open = open]])
    IN  CASE m.word = "m" -> start({"ReadMap"} \cup (IF m.upper THEN {"ForceMap"} ELSE {}), {"rdonly"})
          [] m.word = "r" -> Access(start({}, wait), {"Buffer"}, ForRead)
          [] m.word = "a" -> Access(start({}, wait \cup {"append", "creat"}), {"WriteBuf"}, ForWrite)
          [] m.word = "w" -> Access(start({}, wait \cup {"creat"}), {"Buffer"}, ForWrite)

\* Permissions in octal digits behind a comma, 0666 without.
MinPerm == 256
MaxPerm == 4095
getPerm(t) ==
    CASE ~Is(t, ",") -> [err |-> "ok", perm |-> 438, t |-> t]
      [] Is(t, ",") /\ Is(Tail(t), " ") -> [err |-> "BadArgument", perm |-> 0, t |-> t]
      [] Is(t, ",") /\ Is(Tail(t), "number") ->
            IF t[2].v < MinPerm \/ t[2].v > MaxPerm THEN [err |-> "BadValue", perm |-> 0, t |-> t]
            ELSE [err |-> "ok", perm |-> t[2].v, t |-> Tail(Tail(t))]
      [] OTHER -> [err |-> "BadType", perm |-> 0, t |-> t]

Writable(s) == s.open \cap {"rdwr", "wronly"} # {}

Taken(used, s) == [err |-> "ok", used |-> used, mode |-> s]

\* The mode ends with the description or with its separator.
Ended(m, s, t) ==
    IF t = <<>> \/ Is(t, ":")
    THEN Taken(1 + Len(m.rest) - Len(t) + (IF t = <<>> THEN 0 ELSE 1), s)
    ELSE Taken(0, Unset)

-----------------------------------------------------------------------------
\* The mode and how much of the description it took, 0 when all of it is a
\* path.  A name goes on to its end, "ipv4" is compared with one byte too many.
mpt_mode_parse(m) ==
    CASE m = NoMode -> Taken(0, [Unset EXCEPT !.open = {"rdonly"}])
      [] m.word \in SocketNames /\ (m.rest = <<>> \/ Is(m.rest, ":")) ->
            Taken(1 + (IF m.rest = <<>> THEN 0 ELSE 1), socketMode(m))
      [] m.word = "" ->
            IF Is(m.rest, ":") THEN Taken(1, [Unset EXCEPT !.open = {"rdonly"}]) ELSE Taken(0, Unset)
      [] m.word \in {"m", "r", "a", "w"} ->
            LET f == FileMode(m)
                p == getPerm(f.t) IN
            CASE ~Writable(f.s) -> Ended(m, f.s, f.t)
              [] Writable(f.s) /\ p.err # "ok" -> [err |-> p.err, used |-> 0, mode |-> Unwritten]
              [] OTHER -> Ended(m, [f.s EXCEPT !.perm = p.perm], p.t)
      [] OTHER -> Taken(0, Unset)

-----------------------------------------------------------------------------
\* A path, an address or nothing behind the mode, and letters out of place.
Ends == {<<>>, <<Sign(":")>>, <<Sign(":"), Sign("/")>>, <<Sign(":"), Sign("x")>>, <<Sign("x")>>}
Lines == {<<>>} \cup {<<Sign(c)>> : c \in DOMAIN Newlines}
Pluses == {<<>>, <<Sign("+")>>}
Perms == {<<>>, <<Sign(","), Octal(420)>>, <<Sign(","), Octal(255)>>, <<Sign(","), Octal(4096)>>,
          <<Sign(","), Sign("x")>>, <<Sign(","), Sign(" ")>>, <<Sign(",")>>}

Descriptions ==
    {NoMode} \cup {Mode("", FALSE, e) : e \in {<<>>, <<Sign(":")>>, <<Sign(":"), Sign("x")>>}}
    \cup {Mode(w, u, e) : w \in SocketNames, u \in BOOLEAN, e \in Ends}
    \cup {Mode("ipv4", u, e) : u \in BOOLEAN, e \in Ends \ {<<>>}}
    \cup {Mode("x", u, e) : u \in BOOLEAN, e \in Ends}
    \cup {Mode(w, u, l \o p \o r \o e) : w \in {"m", "r", "a", "w"}, u \in BOOLEAN,
                                          l \in Lines, p \in Pluses, r \in Perms, e \in Ends}

ModeCalls == \E m \in Descriptions : Called("mode_parse", m, mpt_mode_parse(m))

\* What is left of a description behind its mode is a whole path or address: a
\* mode that mpt_mode_parse takes ends with the description or at a separator,
\* and what it does not take leaves no flag behind; what it refuses leaves the
\* mode of the caller.
TargetWhole ==
    LET r == call.result IN
    /\ r.used > 0 => LET all == (IF call.args.word = "" THEN <<>> ELSE <<Sign("word")>>) \o call.args.rest
                     IN r.used = Len(all) \/ all[r.used].c = ":"
    /\ r.used = 0 /\ call.args # NoMode => r.mode = IF r.err = "ok" THEN Unset ELSE Unwritten

\* How a file is opened and what its stream does agree: a stream that writes is on
\* a file opened for writing with permissions its owner can use, mapped memory is
\* only read, and a file is created only to be written.
FileAgrees ==
    LET s == call.result.mode IN
    s.family = "file" =>
        /\ ("rdwr" \in s.open) <=> ("RdWr" \in s.stream)
        /\ ("wronly" \in s.open) <=> ("Write" \in s.stream)
        /\ IF Writable(s) THEN s.perm \in MinPerm .. MaxPerm ELSE s.perm = 0
        /\ "ReadMap" \in s.stream => s.open = {"rdonly"}
        /\ "creat" \in s.open => Writable(s)
        /\ Cardinality(s.open \cap {"rdwr", "wronly", "rdonly"}) <= 1

\* A socket is buffered exactly when its transport is a stream of bytes, and its
\* type is one that its protocol offers.
SocketAgrees ==
    LET s == call.result.mode IN
    s.family # "file" =>
        /\ ("Buffer" \in s.stream) <=> (s.type = "stream")
        /\ s.proto = "tcp" => s.type = "stream"
        /\ s.proto = "udp" => s.type = "dgram"
        /\ s.proto = "sctp" => s.type # "dgram"

ModeAgrees == call.fn = "mode_parse" => TargetWhole /\ FileAgrees /\ SocketAgrees
=============================================================================
