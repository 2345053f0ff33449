------------------------------- MODULE Output -------------------------------
(***************************************************************************)
(* Log messages and printed data: the log file (mptcore/output), the value *)
(* history and the local output built on it (mptplot/history), the default *)
(* logger and the message store of mpt++.                                  *)
(*                                                                         *)
(* An output gets a message as a series of pushes, the last one of length  *)
(* 0.  What it writes is a sequence of tokens <<kind, argument>> for each  *)
(* of the standard streams and for its file.  Bytes are numbers, text is a *)
(* sequence of bytes, <<>> stands for the null pointer.                    *)
(***************************************************************************)
EXTENDS Integers, Sequences, FiniteSets, SequencesExt

CONSTANTS PosMax,     \* UINT8_MAX + 1, values of the column counter
          Tty,        \* the standard streams are terminals
          Pushes,     \* the data of a push, not empty
          ValuePushes,\* the data of a push to a history
          LogTexts,   \* sources and texts of log calls
          LogTypes,   \* log types as records, see LogType
          LogMax,     \* MPT_OUTPUT_LOGMSG_MAX
          FromMax,    \* largest value of the source length of an entry
          MaxSent,    \* bound: bytes of a log message, 3 for the next output;
                      \* a disturbed message is only ended
          MaxValues,  \* bound: bytes of a history
          MaxVaried,  \* bound: settings of the output changed at a time
          MaxEntries  \* bound: entries of the message store

VARIABLES out,     \* the local output: logfile, history format and next output
          message, \* what was pushed since the last message began
          shown,   \* what the output has written for that message
          passed,  \* what the next output got of that message
          logger,  \* settings of the default logger and its last line
          store    \* the message store

outVars == <<out, message, shown, passed, logger, store>>

Fatal == 1
Error == 3
Info == 8
Debug == 16
File == 32
LogType == [level : 0..127, prefix : BOOLEAN, select : BOOLEAN,
            more : BOOLEAN, func : BOOLEAN]

Sinks == {"stdout", "stderr", "file"}
Nothing == [s \in Sinks |-> <<>>]
T(kind) == <<<<kind, 0>>>>
Colon == T(": ")
Bytes(b) == [i \in DOMAIN b |-> <<"byte", b[i]>>]
When(c, s) == IF c THEN s ELSE <<>>
IsTty(sink) == Tty /\ sink # "file"

BadArgument == -1
BadValue == -2
BadType == -3
BadOperation == -4
MissingData == -16
MissingBuffer == -17
InProgress == -33
Crash == -99

-----------------------------------------------------------------------------
(* Levels, colours and the intro of a line. *)

\* Text for type, lower and upper case; 0 for none.
mpt_log_identifier(type) ==
    LET t == type % 32 IN
    CASE t = 0 -> 0
      [] t >= Debug -> Debug
      [] t >= Info -> Info
      [] OTHER -> IF t > 4 THEN 4 ELSE t

mpt_log_level(text) ==
    CASE text \in {"unset", "warning", "default"} -> Info - 1
      [] text = "none" -> 0
      [] text = "fatal" -> 1
      [] text = "critical" -> 2
      [] text = "error" -> 3
      [] text = "info" -> Debug - 1
      [] text \in {"debug", "debug1"} -> 19
      [] text = "debug2" -> 23
      [] text = "debug3" -> File - 1
      [] OTHER -> -1

\* Levels are equal in colour when they are in the same band; none for files.
mpt_ansi_code(type) == (type \div File) % 2 = 0

LevelTokens(type) ==
    <<<<IF (type \div File) % 2 = 1 THEN "LEVEL" ELSE "level",
        mpt_log_identifier(type)>>>>

\* What is printed ahead of the source, and if a colour is left to reset.
mpt_log_intro(sink, t) ==
    LET code == t.select /\ IsTty(sink) /\ mpt_ansi_code(t.level)
        desc == t.prefix /\ mpt_log_identifier(t.level) # 0
        ends == code /\ desc /\ ~t.more IN
    [text |-> When(code, T("colour")) \o When(desc, LevelTokens(t.level))
              \o When(ends, T("reset"))
              \o When(t.prefix /\ ~code /\ ~desc, T("# ")),
     reset |-> code /\ ~ends]

-----------------------------------------------------------------------------
(* The default logger. *)

Source(from, t) == Bytes(from) \o When(t.func, T("()"))

loggerLine(sink, from, t, text, intro) ==
    [sink |-> sink,
     text |-> intro.text
              \o When(from # <<>>, Source(from, t)
                                   \o When(intro.reset, T("reset")) \o Colon)
              \o Bytes(text)
              \o When(from = <<>> /\ intro.reset, T("reset")) \o T("newline")]

WithFlags(t, g) == [t EXCEPT !.prefix = @ \/ g.prefix, !.select = @ \/ g.select,
                             !.level = IF g.file /\ (@ \div File) % 2 = 0
                                       THEN @ + File ELSE @]

loggerLog(g, from, type, text) ==
    IF type.level % 64 >= g.skip THEN g
    ELSE LET t == WithFlags(type, g)
             sink == IF t.level # 0 THEN "stderr" ELSE "stdout" IN
         [g EXCEPT !.line = loggerLine(sink, from, t, text, mpt_log_intro(sink, t))]

\* A negative value restores the default.
mpt_log_default_format(g, neg, prefix, select, file) ==
    [g EXCEPT !.prefix = neg \/ prefix, !.select = neg \/ select,
              !.file = ~neg /\ file]

mpt_log_default_skip(g, val) == [g EXCEPT !.skip = IF val < 0 THEN Info ELSE val]

-----------------------------------------------------------------------------
(* The log file.  The bits of its state are fields, mode is a record of    *)
(* the flags 0x80 (seg), 0x40 (prev), 0x20 (func) and the lower bits.      *)

Mode(seg, prev, func, low) == [seg |-> seg, prev |-> prev, func |-> func, low |-> low]
NoMode == Mode(FALSE, FALSE, FALSE, 0)

\* Where a message of the given target goes; "none" when it is discarded.
Sink(o) ==
    CASE o.target = 0 -> "none"
      [] o.target = 1 -> "stdout"
      [] o.target = 2 -> "stderr"
      [] OTHER -> IF o.file = "none" THEN "stderr" ELSE o.file

\* Result of an operation on the output.
Res(o, text, ret) == [o |-> o, text |-> text, sink |-> Sink(o), ret |-> ret]

mpt_output_flags(type, max) ==
    CASE type = 0 -> 1
      [] (type \div File) % 2 = 1 -> 3
      [] max # 0 /\ type >= max -> 0
      [] OTHER -> 2

SegmentEnd(w, sink, b, val) ==
    [o |-> [w.o EXCEPT !.restore = IF b = 1 /\ w.o.color /\ IsTty(sink) THEN TRUE
                                   ELSE FALSE,
                       !.mode = CASE b = 1 -> Mode(TRUE, TRUE, TRUE, 1)
                                  [] b = 2 -> Mode(TRUE, TRUE, FALSE, 2)
                                  [] OTHER -> Mode(TRUE, TRUE, FALSE, 0)],
     text |-> w.text \o When(val.func, T("()")) \o When(w.o.restore, T("reset"))
              \o When(val.prev, Colon)
              \o When(b = 1 /\ w.o.color /\ IsTty(sink), T("colour"))]

SegmentByte_Mode(w, sink, b) ==
    IF b \in 1..4 THEN SegmentEnd(w, sink, b, w.o.mode)
    ELSE [w EXCEPT !.text = Append(@, <<"byte", b>>)]

SegmentByte(w, sink, b) ==
    CASE b = 0 -> [w EXCEPT !.text = @ \o Colon]
      [] b \in 1..2 -> SegmentEnd(w, sink, b, w.o.mode)
      [] b \in 3..4 -> SegmentEnd(w, sink, b, Mode(TRUE, FALSE, FALSE, 0))
      [] OTHER -> [o |-> [w.o EXCEPT !.mode = [@ EXCEPT !.prev = TRUE]],
                   text |-> Append(w.text, <<"byte", b>>)]

\* A push to the message in progress: its end, its discarded, plain or
\* segmented data.
LogFinish(o) ==
    [Res([o EXCEPT !.target = 0, !.restore = FALSE, !.active = FALSE],
         IF o.target = 0 THEN <<>>
         ELSE When(o.mode.seg /\ o.mode.low % 16 # 0, T("dots"))
              \o When(o.restore, T("reset")) \o T("newline"), 0)
     EXCEPT !.sink = Sink(o)]

LogSegment(w) == Res(w.o, w.text, 1)

LogData(o, b) ==
    CASE o.target = 0 -> Res(o, <<>>, Len(b))
      [] ~o.mode.seg -> Res(o, Bytes(b), 1)
      [] OTHER -> [LogSegment(FoldLeft(LAMBDA w, c : SegmentByte(w, Sink(o), c),
                                       [o |-> o, text |-> <<>>], b))
                   EXCEPT !.ret = Len(b)]

\* The header of a message: type of the line and its mode.
AnswerType(arg) == IF arg >= 128 THEN Error ELSE IF arg # 0 THEN Info ELSE Debug

HeaderTokens(o, cmd, arg, type, sink) ==
    LET marked == cmd = 1 \/ mpt_log_identifier(type) # 0
        colour == marked /\ o.color /\ IsTty(sink) IN
    When(o.file \in {"none", sink}, T("# ")) \o When(colour, T("colour"))
    \o (IF cmd = 1 THEN <<<<"answer", arg>>>> ELSE When(marked, LevelTokens(type)))
    \o When(colour, T("reset"))

\* @o is the state with the mode and the target of the new message.
LogOpen(o, b, type) ==
    IF o.target = 0 THEN Res([o EXCEPT !.restore = TRUE], <<>>, Len(b))
    ELSE LET w == LogData(o, SubSeq(b, 3, Len(b))) IN
         [w EXCEPT !.text = HeaderTokens(o, b[1], b[2], type, Sink(o)) \o @,
                   !.ret = Len(b)]

Target(o, type) ==
    IF mpt_output_flags(type, o.ignore) = 3 /\ o.file = "none" THEN 2
    ELSE mpt_output_flags(type, o.ignore)

LogHeader(o, b, type, mode) ==
    LogOpen([o EXCEPT !.active = TRUE, !.mode = mode, !.restore = FALSE,
                      !.target = Target(o, type)], b, type)

\* b is <<>> for a push of length 0.
mpt_logfile_push(o, b) ==
    CASE o.active /\ b = <<>> -> LogFinish(o)
      [] o.active -> LogData(o, b)
      [] Len(b) < 2 -> Res(o, <<>>, MissingData)
      [] b[1] = 0 -> LogHeader(o, b, b[2] % 128,
                               Mode(b[2] >= 128, FALSE, FALSE, b[2] % 32))
      [] b[1] = 1 -> LogHeader(o, b, AnswerType(b[2]), NoMode)
      [] OTHER -> Res([o EXCEPT !.target = 0, !.restore = FALSE, !.mode = NoMode],
                      <<>>, BadType)

logLine(sink, from, t, text, intro) ==
    intro.text
    \o When(from # <<>>, Source(from, t) \o Colon
                         \o When(intro.reset /\ ~t.more, Bytes(from)))
    \o Bytes(text)
    \o When(intro.reset /\ (from = <<>> \/ t.more), T("reset")) \o T("newline")

\* Only called when no message is in progress, see localLog.
mpt_logfile_log(o, from, type, text) ==
    IF o.ignore # 0 /\ type.level % 32 >= o.ignore THEN Res(o, <<>>, 0)
    ELSE LET own == (type.level \div File) % 2 = 1 /\ o.file # "none"
             sink == IF own THEN o.file
                     ELSE IF type.level \notin {0, File} \/ type.prefix
                             \/ type.select \/ type.more \/ type.func
                          THEN "stderr" ELSE "stdout"
             t == [type EXCEPT !.prefix = @ \/ (~own /\ o.color),
                               !.select = @ \/ (~own /\ o.color)] IN
         [Res(o, logLine(sink, from, t, text, mpt_log_intro(sink, t)), 1)
          EXCEPT !.sink = sink]

\* src: the kind of source; a file is opened, taken from a socket or failing.
setHistfile(o, src) ==
    CASE o.active -> Res(o, <<>>, InProgress)
      [] src \in {"null", "unset"} -> Res([o EXCEPT !.file = "none"], <<>>, 0)
      [] src = "badsocket" -> Res(o, <<>>, BadOperation)
      [] src = "badpath" -> Res(o, <<>>, BadArgument)
      [] src = "number" -> Res(o, <<>>, BadType)
      [] OTHER -> Res([o EXCEPT !.file = "file"], <<>>, 0)

\* Sources: "null", a number, a socket, or a text ("unset": the null text).
mpt_logfile_set(o, name, src, val) ==
    CASE name \in {"null", "file"} -> setHistfile(o, src)
      [] name \in {"ignore", "level"} /\ src = "null" ->
            Res([o EXCEPT !.ignore = Info], <<>>, 0)
      [] name = "ignore" ->
            Res([o EXCEPT !.ignore = IF src = "number" THEN val ELSE @],
                <<>>, BadValue)
      [] name = "level" ->
            (CASE src \in {"number", "socket", "badsocket"} -> Res(o, <<>>, BadType)
               [] mpt_log_level(src) < 0 -> Res(o, <<>>, BadArgument)
               [] OTHER -> Res([o EXCEPT !.ignore = mpt_log_level(src) + 1], <<>>, 0))
      [] OTHER -> Res(o, <<>>, BadArgument)

-----------------------------------------------------------------------------
(* The history: values printed as rows, each with a format code that gives *)
(* its size; a code of 128 and above has the byte order of the machine.    *)

mpt_histfmt_reset(o) == [o EXCEPT !.pos = 0, !.fmt = 0, !.dat = <<>>]

mpt_msgvalfmt_size(code) ==
    IF code % 128 >= 32 THEN (code % 32) + 1 ELSE ((code % 32) + 1) * 64

\* There is a number of this kind and size.
mpt_msgvalfmt_typeid(code) ==
    LET size == (code % 32) + 1 IN
    CASE (code % 128) \div 32 = 0 -> FALSE
      [] (code % 128) \div 32 = 2 -> size \in {4, 8, 16}
      [] OTHER -> size \in {1, 2, 4, 8}

\* Position of the output format used for the current column.
Column(o) == IF o.mode.seg THEN 0 ELSE IF o.pos < o.flen THEN o.pos + 1 ELSE o.flen

\* The bytes of another byte order are copied to a wrong place.
ValueToken(o, code, b) ==
    IF code < 128 THEN <<"junk", 0>> ELSE <<"value", <<Column(o), code, b>>>>

OrDone(done, err) == IF done > 0 THEN done ELSE err

RECURSIVE PrintValues(_, _, _, _)
PrintValue(o, b, text, done, code, adv) ==
    CASE Len(b) < adv -> Res(o, text, OrDone(done, MissingData))
      [] adv = 1 /\ code < 128 -> Res(o, text, OrDone(done, BadValue))
      [] adv >= 256 /\ code < 128 -> Res(o, text, Crash)
      [] ~mpt_msgvalfmt_typeid(code) -> Res(o, text, OrDone(done, BadType))
      [] OTHER -> PrintValues([o EXCEPT !.pos = (@ + 1) % PosMax,
                                        !.fmt = IF o.mode.seg THEN 0 ELSE @],
                              SubSeq(b, adv + 1, Len(b)),
                              text \o When(o.pos # 0, T(" "))
                              \o <<ValueToken(o, code, SubSeq(b, 1, adv))>>,
                              done + adv)

RowValue(o, b, text, done) ==
    PrintValue(o, b, text, done, o.dat[o.pos + 1], mpt_msgvalfmt_size(o.dat[o.pos + 1]))

PrintValues(o, b, text, done) ==
    CASE b = <<>> -> Res(o, text, done)
      [] o.dat # <<>> /\ o.pos >= Len(o.dat) ->
            RowValue([o EXCEPT !.pos = 0], b, text \o T("newline"), done)
      [] o.dat # <<>> -> RowValue(o, b, text, done)
      [] o.mode.seg /\ o.fmt = 0 /\ b[1] = 0 -> Res(o, text, OrDone(done, BadType))
      [] o.mode.seg /\ o.fmt = 0 /\ Len(b) = 1 -> Res([o EXCEPT !.fmt = b[1]], text, done + 1)
      [] o.mode.seg /\ o.fmt = 0 ->
            PrintValue([o EXCEPT !.fmt = b[1]], Tail(b), text, done + 1,
                       b[1], mpt_msgvalfmt_size(b[1]))
      [] OTHER -> PrintValue(o, b, text, done, o.fmt, mpt_msgvalfmt_size(o.fmt))

\* The formats of the columns: k of them are in this push, all of them are
\* read from its first byte.  A first buffer is not found by the values of
\* the same push.
Columns(o, b, k, done) ==
    CASE k > 0 /\ b[1] % 128 = 0 -> Res(o, <<>>, BadType)
      [] k = Len(b) -> Res([o EXCEPT !.dat = @ \o [i \in 1..k |-> b[1]], !.buf = TRUE],
                           <<>>, done + k)
      [] k > 0 /\ ~o.buf -> Res(o, <<>>, Crash)
      [] k > 0 -> PrintValues([o EXCEPT !.dat = @ \o [i \in 1..k |-> b[1]],
                                        !.fmt = o.pos, !.pos = 0],
                              SubSeq(b, 2, 1 + Len(b) - k), <<>>, done + k)
      [] OTHER -> PrintValues([o EXCEPT !.fmt = o.pos, !.pos = 0], b, <<>>, done)

Missing(o, b) ==
    LET n == o.pos - Len(o.dat) IN
    IF n <= 0 THEN 0 ELSE IF n < Len(b) THEN n ELSE Len(b)

ValueData(o, b, done) ==
    IF o.mode.seg \/ o.fmt # 0 THEN PrintValues(o, b, <<>>, done)
    ELSE Columns(o, b, Missing(o, b), done)

mpt_history_values(o, b) ==
    CASE o.file = "none" -> Res(o, <<>>, Len(b))
      [] b = <<>> -> Res(o, When(o.pos # 0, T("newline")), 0)
      [] o.mode = NoMode /\ b[1] >= 128 -> Res(o, <<>>, BadValue)
      [] o.mode = NoMode /\ Len(b) = 1 ->
            Res([o EXCEPT !.pos = b[1], !.mode = Mode(b[1] = 0, FALSE, FALSE, 9)], <<>>, 1)
      [] o.mode = NoMode ->
            ValueData([o EXCEPT !.pos = b[1], !.mode = Mode(b[1] = 0, FALSE, FALSE, 9)],
                      Tail(b), 1)
      [] OTHER -> ValueData(o, b, 0)

\* Values go to the file; r is the size of the header in front of them.
Values(w, r, ends) ==
    [w EXCEPT !.sink = w.o.file,
              !.ret = IF @ < 0 THEN @ ELSE @ + r,
              !.o = IF w.ret >= 0 /\ ends THEN [@ EXCEPT !.active = FALSE] ELSE @]

HistoryOpen(o, b) ==
    CASE b = <<>> -> [Res(o, When(o.file # "none", T("newline")), 0)
                      EXCEPT !.sink = o.file]
      [] b[1] = 9 /\ o.file = "none" -> Res([o EXCEPT !.active = TRUE], <<>>, 0)
      [] b[1] = 9 /\ Len(b) = 1 -> Res([o EXCEPT !.active = TRUE], <<>>, 1)
      [] b[1] = 9 -> Values(mpt_history_values([o EXCEPT !.active = TRUE], Tail(b)), 1, FALSE)
      [] b[1] = 8 /\ Len(b) < 4 -> Res(o, <<>>, MissingData)
      [] b[1] = 8 /\ b[4] = 0 -> Res(o, <<>>, BadValue)
      [] b[1] = 8 /\ (o.file = "none" \/ Len(b) = 4) ->
            Res([o EXCEPT !.active = TRUE, !.fmt = b[4], !.mode = Mode(FALSE, FALSE, FALSE, 8)],
                <<>>, Len(b))
      [] b[1] = 8 ->
            Values(mpt_history_values([o EXCEPT !.active = TRUE, !.fmt = b[4],
                                                !.mode = Mode(FALSE, FALSE, FALSE, 8)],
                                      SubSeq(b, 3, Len(b) - 2)), 4, FALSE)
      [] OTHER -> mpt_logfile_push(o, b)

mpt_history_push(o, b) ==
    CASE o.active /\ (o.target # 0 \/ o.restore) -> mpt_logfile_push(o, b)
      [] o.active -> Values(mpt_history_values(o, b), 0, b = <<>>)
      [] OTHER -> HistoryOpen([mpt_histfmt_reset(o) EXCEPT !.mode = NoMode], b)

\* No file is replaced by the standard output when there is no source.
OrStdout(w, src) ==
    IF w.ret >= 0 /\ src = "null" /\ w.o.file = "none"
    THEN [w EXCEPT !.o = [@ EXCEPT !.file = "stdout"]] ELSE w

Reformat(w) == IF w.ret < 0 THEN w ELSE [w EXCEPT !.o = mpt_histfmt_reset(@)]

\* A source of formats has val of them; without a source the formats are
\* only kept or, when there were none, still none.
mpt_valfmt_set(o, src, val) ==
    CASE src = "null" -> Res(o, <<>>, IF o.flen = 0 THEN 0 ELSE BadOperation)
      [] src = "formats" -> Res([o EXCEPT !.flen = val], <<>>, 0)
      [] OTHER -> Res(o, <<>>, BadType)

mpt_history_set(o, name, src, val) ==
    CASE name = "null" -> OrStdout(Reformat(mpt_logfile_set(o, "null", src, val)), src)
      [] name = "" -> Res(o, <<>>, BadArgument)
      [] name = "format" -> mpt_valfmt_set(o, src, val)
      [] name = "file" -> OrStdout(mpt_logfile_set(o, "file", src, val), src)
      [] OTHER -> mpt_logfile_set(o, name, src, val)

-----------------------------------------------------------------------------
(* The local output: a history, and a next output for what it refuses.     *)
(* L is the output with the record of the current message, see message.    *)

NoMessage == [bytes |-> <<>>, state |-> "none", disturbed |-> FALSE,
              ignore |-> 0, file |-> "none", flen |-> 0]

\* Bytes a push has used up: all of a log message, the reported number of
\* bytes of a history; the type of a history when its values fail.
Used(o, w, b) ==
    IF w.ret < 0 THEN (IF o.active THEN <<>> ELSE <<b[1]>>)
    ELSE IF w.o.target # 0 \/ w.o.restore \/ w.o.file = "none" THEN b
    ELSE SubSeq(b, 1, IF w.ret < Len(b) THEN w.ret ELSE Len(b))

Began(L) ==
    IF L.o.active \/ L.o.remote THEN L
    ELSE [L EXCEPT !.shown = Nothing, !.passed = <<>>,
                   !.message = [NoMessage EXCEPT !.ignore = L.o.ignore,
                                                 !.file = L.o.file, !.flen = L.o.flen]]

Noted(m, b, used) ==
    [m EXCEPT !.bytes = @ \o used,
              !.state = IF b = <<>> THEN (IF @ = "open" THEN "done" ELSE "none") ELSE "open"]

\* What the next output takes of a push: nothing, as it refuses it, a part
\* or all of it; the number of bytes is the result.
Takes == {"none", "part", "all"}
Part(b, ok) == IF ok = "part" THEN SubSeq(b, 1, Len(b) \div 2) ELSE b

toNext_Stays(L, b, ok, remote) ==
    IF ok = "none" THEN [L EXCEPT !.ret = BadOperation]
    ELSE [L EXCEPT !.ret = Len(Part(b, ok)), !.passed = @ \o Part(b, ok),
                   !.o = [@ EXCEPT !.remote = TRUE], !.message = Noted(@, b, Part(b, ok))]

toNext(L, b, ok, remote) ==
    IF ok = "none" THEN [L EXCEPT !.ret = BadOperation]
    ELSE [L EXCEPT !.ret = Len(Part(b, ok)), !.passed = @ \o Part(b, ok),
                   !.o = [@ EXCEPT !.remote = remote],
                   !.message = Noted(@, b, Part(b, ok))]

\* Values failed although the number of columns was taken from them.
Setup(before, after) == (~before.active \/ before.mode = NoMode) /\ after.mode # NoMode

\* Formats of k columns taken from one push are all read from its first one,
\* h bytes into the push, and the values from behind that one: what the push
\* stands for.
Columned(before, after) == Len(after.dat) - (IF before.active THEN Len(before.dat) ELSE 0)
StandsFor(b, h, k, ret) ==
    SubSeq(b, 1, h) \o [i \in 1 .. k |-> b[h + 1]] \o SubSeq(b, h + 2, 1 + ret - k)
Bundled(before, after, b, ret) ==
    StandsFor(b, CASE ~before.active -> 2 [] before.active /\ before.mode = NoMode -> 1
                   [] OTHER -> 0,
              Columned(before, after), ret)

Local(L, b, w) ==
    [L EXCEPT !.o = w.o, !.ret = w.ret,
              !.shown = IF w.text = <<>> THEN @ ELSE [@ EXCEPT ![w.sink] = @ \o w.text],
              !.message = CASE w.ret < 0 /\ ~w.o.active -> @
                            [] w.ret < 0 /\ Setup(L.o, w.o) -> [@ EXCEPT !.disturbed = TRUE]
                            [] Columned(L.o, w.o) > 1 ->
                                  Noted(@, b, Bundled(L.o, w.o, b, w.ret))
                            [] OTHER -> Noted(@, b, Used(L.o, w, b))]

\* ok: what the next output takes.
PushTo(L, b, ok, w) ==
    CASE w.ret < 0 /\ ~w.o.active /\ ~L.o.pass -> Local(L, b, [w EXCEPT !.ret = BadType])
      [] w.ret < 0 /\ ~w.o.active -> toNext(Local(L, b, w), b, ok, b # <<>>)
      [] OTHER -> Local(L, b, w)

localPush(L, b, ok) ==
    CASE L.o.remote /\ ~L.o.pass -> [L EXCEPT !.ret = BadArgument]
      [] L.o.remote -> toNext(L, b, ok, b # <<>>)
      [] OTHER -> PushTo(Began(L), b, ok, mpt_history_push(L.o, b))

localAwait(L, ok) ==
    CASE ~L.o.pass -> [L EXCEPT !.ret = BadOperation]
      [] ~ok -> [L EXCEPT !.ret = BadOperation]
      [] OTHER -> [Began(L) EXCEPT !.ret = 0, !.o = [@ EXCEPT !.remote = TRUE],
                                   !.message = [@ EXCEPT !.disturbed = @ \/ L.o.active]]

\* The empty name sets the next output.
localSet(L, name, src, val) ==
    CASE name = "" /\ src = "output" ->
            [L EXCEPT !.o = [@ EXCEPT !.pass = TRUE], !.ret = 0,
                      !.message = [@ EXCEPT !.disturbed = @ \/ (L.o.pass /\ L.o.remote)]]
      [] name = "" -> [L EXCEPT !.ret = BadValue]
      [] OTHER -> LET w == mpt_history_set(L.o, name, src, val) IN
                  [L EXCEPT !.o = w.o,
                            !.message = [@ EXCEPT !.disturbed = @ \/ w.o.flen # L.o.flen],
                            !.ret = IF w.ret < 0 /\ name # "null" THEN BadArgument ELSE w.ret]

\* What the default logger or the log file writes is the line of g.
localLog(L, g, from, type, text) ==
    IF L.o.active THEN loggerLog(g, from, type, text)
    ELSE LET w == mpt_logfile_log(L.o, from, type, text) IN
         IF w.text = <<>> THEN g
         ELSE [g EXCEPT !.line = [sink |-> w.sink, text |-> w.text]]

\* A log message as a series of pushes; a text that does not fit ends with
\* the terminating byte of the buffer and without the end of the segment.
vlogHeader(from, type) ==
    IF from = <<>> THEN <<0, type.level>>
    ELSE <<0, type.level + 128>> \o When(type.func, <<1>>)

vlogText(from, text, rem) ==
    IF Len(text) >= rem THEN SubSeq(text, 1, rem - 1) \o <<0>>
    ELSE text \o When(from # <<>>, <<3>>)

vlogPushes(from, text, len) ==
    When(from # <<>>, <<from>>)
    \o (IF text = <<>> THEN When(from # <<>>, <<<<4>>>>)
        ELSE When(from # <<>>, <<<<2>>>>)
             \o <<vlogText(from, text,
                           LogMax - (len + Len(from) + (IF from = <<>> THEN 0 ELSE 1)))>>)
    \o <<<<>>>>

vlogRest(L, from, text, len, ok) ==
    IF L.ret < 0 THEN L
    ELSE FoldLeft(LAMBDA l, b : localPush(l, b, ok), L, vlogPushes(from, text, len))

mpt_output_vlog(L, from, type, text, ok) ==
    LET hdr == vlogHeader(from, type) IN
    IF Len(from) >= LogMax - (IF from = <<>> THEN 0 ELSE 2) - Len(hdr)
    THEN [L EXCEPT !.ret = MissingBuffer]
    ELSE vlogRest(localPush(L, hdr, ok), from, text, Len(hdr), ok)

-----------------------------------------------------------------------------
(* The message store of mpt++.  An entry has the size of its source, with  *)
(* the terminating byte unless it is cut, and the bytes of source and text *)
(* of a message; a text can not be printed to the raw array of an entry.   *)

entrySet(from, type, text) ==
    IF text # <<>> THEN <<>>
    ELSE <<[from |-> CASE from = <<>> -> 0
                       [] Len(from) >= FromMax -> FromMax
                       [] OTHER -> Len(from) + 1,
            type |-> type.level,
            data |-> CASE from = <<>> -> <<>>
                       [] Len(from) >= FromMax -> SubSeq(from, 1, FromMax) \o <<0>>
                       [] OTHER -> from \o <<0>>]>>

Saves(s, t) ==
    CASE t.level = 0 -> "SaveMessage" \in s.flags
      [] t.level >= s.ignore -> (t.level \div File) % 2 = 1 /\ "SaveLogAll" \in s.flags
      [] OTHER -> TRUE

Passes(s, t) ==
    \/ CASE t.level = 0 -> "PassMessage" \in s.flags
         [] t.level >= s.ignore -> "PassUnsaved" \in s.flags
         [] OTHER -> "PassSaved" \in s.flags
    \/ (t.level \div File) % 2 = 1 /\ "PassFile" \in s.flags

storeLog(s, from, type, text) ==
    IF ~Saves(s, type) THEN s
    ELSE [s EXCEPT !.msg = @ \o entrySet(from, type, text),
                   !.level = IF type.level # 0 /\ type.level < @ THEN type.level ELSE @]

storeNext(s) == IF s.act < Len(s.msg) THEN [s EXCEPT !.act = @ + 1] ELSE s
storeClear(s) == [s EXCEPT !.msg = <<>>, !.act = 0, !.level = 0]
setIgnoreLevel(s, val) ==
    IF val >= File THEN s ELSE [s EXCEPT !.ignore = IF val < 0 THEN Debug ELSE val]
setFlowFlags(s, flags) == [s EXCEPT !.flags = flags]

-----------------------------------------------------------------------------
NoLine == [sink |-> "none", text |-> <<>>]
DefaultLogger == [skip |-> Info, prefix |-> TRUE, select |-> TRUE, file |-> FALSE,
                  line |-> NoLine]
EmptyStore == [msg |-> <<>>, act |-> 0, level |-> 0, ignore |-> Debug,
               flags |-> {"PassUnsaved", "PassSaved", "PassFile"}]
mpt_output_local ==
    [file |-> "stdout", target |-> 0, restore |-> FALSE, color |-> TRUE,
     active |-> FALSE, remote |-> FALSE, mode |-> NoMode, ignore |-> Info,
     pos |-> 0, fmt |-> 0, dat |-> <<>>, buf |-> FALSE, flen |-> 0, pass |-> FALSE]

OutInit ==
    /\ out = mpt_output_local
    /\ message = NoMessage
    /\ shown = Nothing
    /\ passed = <<>>
    /\ logger = DefaultLogger
    /\ store = EmptyStore

This == [o |-> out, message |-> message, shown |-> shown, passed |-> passed, ret |-> 0]

\* Bound: output, default logger and store are varied one at a time.
Unused == out = mpt_output_local /\ message = NoMessage
Unvaried == logger = DefaultLogger /\ store = EmptyStore

\* A crash ends the program.
Becomes(L) ==
    /\ Unvaried
    /\ L.ret # Crash
    /\ out' = L.o
    /\ message' = L.message
    /\ shown' = L.shown
    /\ passed' = L.passed
    /\ UNCHANGED <<logger, store>>

\* A message of these types was pushed and nothing else was done to it.
IsMessage(first) == /\ message.state \in {"open", "done"}
                    /\ message.bytes # <<>> /\ message.bytes[1] \in first
                    /\ ~message.disturbed /\ passed = <<>>

\* Without a next output there is nothing to choose.
Takings == IF out.pass THEN Takes ELSE {"none"}

Push == \E b \in Pushes \cup {<<>>}, ok \in Takings :
           /\ out.active => Len(message.bytes) + Len(b) <=
                              (IF IsMessage({9}) THEN MaxValues ELSE MaxSent)
           /\ out.remote => Len(message.bytes) + Len(b) <= 3
           /\ out.active /\ IsMessage({9}) => b \in ValuePushes \cup {<<>>}
           /\ message.disturbed => b = <<>> \/ ~out.active
           /\ Becomes(localPush(This, b, ok))

\* Bound: other calls are made before a message, or behind the header of one
\* that began with the first settings.
Early == \/ message.state = "none"
         \/ /\ message.state = "open" /\ Len(message.bytes) <= 2
            /\ message.flen = 0 /\ message.ignore = Info /\ message.file = "stdout"

OutputLog ==
    Early /\ \E from, text \in LogTexts, t \in LogTypes, ok \in Takings :
        Becomes(mpt_output_vlog(This, from, t, text, ok))

Await == Early /\ \E ok \in BOOLEAN : Becomes(localAwait(This, ok))

\* Settings that differ from the first ones.
Varied(o) == Cardinality({f \in {"file", "ignore", "flen", "pass"} :
                             CASE f = "file" -> o.file # "stdout"
                               [] f = "ignore" -> o.ignore # Info
                               [] f = "flen" -> o.flen # 0
                               [] OTHER -> o.pass})
SetNames == {"null", "", "file", "format", "ignore", "level", "other"}
SetSources == {"null", "unset", "number", "socket", "badsocket", "badpath", "output",
               "formats", "error"}
Set == Early /\ \E name \in SetNames, src \in SetSources, val \in {0, 2} :
          /\ (src = "formats") <=> (val = 2)
          /\ Becomes(localSet(This, name, src, val))
          /\ Varied(out') <= MaxVaried

\* A log call adds to the type before it reaches a logger.
Pretty(t) == [t EXCEPT !.prefix = TRUE, !.select = TRUE, !.func = TRUE]
mpt_log(t) == IF t.level % 128 # 0 /\ (t.level \div File) % 2 = 0 THEN Pretty(t) ELSE t
mpt_convertable_log(t) == Pretty(t)
print_message(t) == [t EXCEPT !.func = TRUE]

Types(t) == {t, mpt_log(t), mpt_convertable_log(t), print_message(t)}
Logged(g) == logger' = g /\ UNCHANGED <<out, message, shown, passed>>
Written == Logged([logger EXCEPT !.line = NoLine]) /\ UNCHANGED store

\* mpt_output_log without an output skips plain messages.
mpt_output_log(t) == IF t.level = 0 THEN {} ELSE {t}

DefaultLog ==
    /\ Unused /\ store = EmptyStore
    /\ \E from, text \in LogTexts, t \in LogTypes :
          \E type \in Types(t) \cup mpt_output_log(t) :
              Logged(loggerLog(logger, from, type, text)) /\ UNCHANGED store

LocalLog ==
    /\ Early /\ Unvaried /\ out.flen = 0 /\ ~out.pass
    /\ \E from, text \in LogTexts, t \in LogTypes : \E type \in Types(t) :
          Logged(localLog(This, logger, from, type, text)) /\ UNCHANGED store

\* The store hands a message on to the local output.
StoreLog ==
    /\ Unused /\ logger = DefaultLogger
    /\ \E from, text \in LogTexts, t \in LogTypes :
          /\ Len(store.msg) < MaxEntries
          /\ store' = storeLog(store, from, t, text)
          /\ Logged(IF Passes(store, t) THEN localLog(This, logger, from, t, text) ELSE logger)

LoggerSettings ==
    /\ Unused /\ store = EmptyStore
    /\ \/ \E neg, prefix, select, file \in BOOLEAN :
             Logged(mpt_log_default_format(logger, neg, prefix, select, file))
       \/ \E val \in {-1, 0, 4, 64} : Logged(mpt_log_default_skip(logger, val))
    /\ UNCHANGED store

StoreSettings ==
    /\ Unused /\ logger = DefaultLogger
    /\ \/ store' = storeNext(store)
       \/ store' = storeClear(store)
       \/ \E val \in {-1, 4, File} : store' = setIgnoreLevel(store, val)
       \/ \E flags \in {{"PassMessage", "SaveMessage"}, {"SaveLogAll", "PassFile"}} :
             store' = setFlowFlags(store, flags)
    /\ Logged(logger)

\* A finished message is put aside before the next push, which forgets it
\* anyway, see Began.
Put == [NoMessage EXCEPT !.state = "done"]
Finished == message.state = "done" /\ message # Put /\ ~out.active /\ ~out.remote
Aside == message' = Put /\ shown' = Nothing /\ passed' = <<>>
         /\ UNCHANGED <<out, logger, store>>

OutNext ==
    \/ logger.line # NoLine /\ Written
    \/ Finished /\ Aside
    \/ /\ logger.line = NoLine /\ ~Finished
       /\ \/ Push \/ OutputLog \/ Await \/ Set \/ DefaultLog \/ LocalLog
          \/ StoreLog \/ LoggerSettings \/ StoreSettings

-----------------------------------------------------------------------------
(* What a message looks like, from all of its bytes at once. *)

Kind(text, kind) == SelectSeq(text, LAMBDA t : t[1] = kind)

LastControl(d, i) ==
    LET js == {j \in 1..(i - 1) : d[j] \in 1..4} IN
    IF js = {} THEN 0 ELSE d[CHOOSE j \in js : \A k \in js : k <= j]

\* A source is closed by the segment behind it, segments are separated.
Piece(d, i, colour) ==
    CASE d[i] = 0 -> Colon
      [] d[i] \in 1..4 ->
            When(d[i] \in 1..2 /\ LastControl(d, i) = 1, T("()"))
            \o When(colour /\ LastControl(d, i) = 1, T("reset"))
            \o When(d[i] \in 1..2 /\ \E j \in 1..(i - 1) : d[j] # 0, Colon)
            \o When(colour /\ d[i] = 1, T("colour"))
      [] OTHER -> <<<<"byte", d[i]>>>>

Body(d, colour) == FlattenSeq([i \in DOMAIN d |-> Piece(d, i, colour)])

\* A last segment that was not closed is marked.
Finish(d, seg, level, colour) ==
    LET last == LastControl(d, Len(d) + 1) IN
    When(seg /\ (last \in 1..2 \/ (last = 0 /\ level % 16 # 0)), T("dots"))
    \o When(seg /\ colour /\ last = 1, T("reset")) \o T("newline")

Line(o, b, type, seg, sink) ==
    HeaderTokens(o, b[1], b[2], type, sink)
    \o (IF seg THEN Body(SubSeq(b, 3, Len(b)), o.color /\ IsTty(sink))
        ELSE Bytes(SubSeq(b, 3, Len(b))))
    \o When(message.state = "done",
            Finish(SubSeq(b, 3, Len(b)), seg, b[2] % 32, o.color /\ IsTty(sink)))

LineOf(o, b, type) ==
    IF Target(o, type) = 0 THEN Nothing
    ELSE [Nothing EXCEPT ![Sink([o EXCEPT !.target = Target(o, type)])] =
             Line(o, b, type, b[1] = 0 /\ b[2] >= 128,
                  Sink([o EXCEPT !.target = Target(o, type)]))]

(* A log message or an answer (mpt_logfile_push) is written to one stream   *)
(* as one line that depends on its bytes alone, however they are divided    *)
(* into pushes: each source is closed, every segment separated, a message   *)
(* cut short is marked, and nothing goes elsewhere.                         *)
LineAsSent ==
    IsMessage({0, 1}) =>
        shown = LineOf([mpt_output_local EXCEPT !.file = message.file,
                                                !.ignore = message.ignore],
                       message.bytes,
                       IF message.bytes[1] = 0 THEN message.bytes[2] % 128
                       ELSE AnswerType(message.bytes[2]))

\* The values among the bytes b behind count and formats of the columns.
RowsOf(vals, n) ==
    FlattenSeq([k \in DOMAIN vals |->
        (CASE k = 1 -> <<>>
           [] n > 0 /\ (k - 1) % n = 0 -> T("newline")
           [] OTHER -> T(" ")) \o <<vals[k]>>])

ValueBytes(vals, n) ==
    FlattenSeq([k \in DOMAIN vals |->
        When(n = 0, <<vals[k][2][2]>>) \o vals[k][2][3]])

Least(a, b) == IF a < b THEN a ELSE b

RowsMatch(b, n, text, vals) ==
    /\ IsPrefix(ValueBytes(vals, n), SubSeq(b, 3 + n, Len(b)))
    /\ Len(b) - Len(ValueBytes(vals, n)) <= 2 + n + (IF n = 0 THEN 1 ELSE 0)
    /\ n > 0 => \A k \in DOMAIN vals :
                   /\ vals[k][2][2] = b[3 + ((k - 1) % n)]
                   /\ vals[k][2][1] = Least(((k - 1) % n) + 1, message.flen)
    /\ \A k \in DOMAIN vals : Len(vals[k][2][3]) = mpt_msgvalfmt_size(vals[k][2][2])
    /\ text \in {RowsOf(vals, n), RowsOf(vals, n) \o T("newline")}
    /\ vals # <<>> /\ message.state = "done" => text = RowsOf(vals, n) \o T("newline")

(* Values pushed with their formats (mpt_history_push, mpt_history_values)  *)
(* are written to the file as rows: every byte reported as used belongs to  *)
(* a value that was printed once, in order, in the column of its format     *)
(* and with the output format of that column, and a row ends with its last  *)
(* column.  Formats of several columns in one push are not what was pushed: *)
(* they are its first one again, see StandsFor.  Not for values of another  *)
(* byte order, and up to the wrap of the column counter.                    *)
RowsAsPushed ==
    (IsMessage({9}) /\ message.file # "none" /\ Len(message.bytes) > 1) =>
        /\ \A s \in Sinks \ {message.file} : shown[s] = <<>>
        /\ (Kind(shown[message.file], "junk") = <<>>
            /\ Len(Kind(shown[message.file], "value")) < PosMax) =>
              RowsMatch(message.bytes, message.bytes[2], shown[message.file],
                        Kind(shown[message.file], "value"))

(* What the local output refuses goes to the next output as a whole         *)
(* (localPush): no byte of it is shown, and what the next output took of    *)
(* the pushes is the message as reported to the sender, until the end of    *)
(* the message was handed on as well.                                       *)
PassedWhole ==
    (passed # <<>> /\ ~message.disturbed) =>
        /\ shown = Nothing
        /\ passed = message.bytes
        /\ out.remote <=> message.state = "open"

Balanced(text) == Len(Kind(text, "colour")) = Len(Kind(text, "reset"))

(* The log file writes its source again where the colour should be reset    *)
(* (logfile_log.c:65-68), which no line of the default logger does.         *)
SourceTwice(text) ==
    \E from \in LogTexts \ {<<>>}, func \in BOOLEAN :
        IsPrefix(T("colour") \o Bytes(from) \o When(func, T("()")) \o Colon \o Bytes(from),
                 text)

(* A colour that a line turns on is turned off before the line ends, by the *)
(* pushed message and by both loggers.  One kind of line leaves its colour  *)
(* on: that of mpt_logfile_log with a source and no level in front of it.   *)
ColourRestored ==
    /\ ~out.active => \A s \in Sinks : Balanced(shown[s])
    /\ Balanced(logger.line.text) \/ SourceTwice(logger.line.text)
=============================================================================
