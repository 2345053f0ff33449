------------------------------- MODULE MCText -------------------------------
(***************************************************************************)
(* The way of text through the library, each part by itself: paths, the    *)
(* parser with documents in its formats, the settings that arguments,      *)
(* environment and documents assign, and messages written to the outputs.  *)
(***************************************************************************)
EXTENDS Parse

VARIABLES part,                                      \* what is looked at
          items, conf, result,                       \* see Settings
          out, message, shown, passed, logger, store \* see Output

-----------------------------------------------------------------------------
(* Formats, and all short texts over the characters that matter for each.  *)

PreFmt == <<"{", "*", "}">>
PreEndFmt == <<"{", "*", "}", " ", "=", ";">>
PreStartFmt == <<"{", "*", "}", "-", "=", ";">>
EncFmt == <<"[", "x", "[">>
SepFmt == <<"[", " ", "]">>
OptFmt == <<"{", "_", "}", " ", " ">>

Plain == {"a", " ", "nl"}
Over(f, chars, n) ==
    {[format |-> f, text |-> t] : t \in UNION {[1 .. k -> chars] : k \in 0 .. n}}
MCTexts ==
    Over(PreFmt, Plain \cup {"{", "}", "=", "'"}, 4)
    \cup Over(PreFmt, Plain \cup {".", "1", ReadError, "#"}, 3)
    \cup Over(PreEndFmt, {"a", "{", ";", "=", "#"}, 4)
    \cup Over(PreStartFmt, {"a", "-", "=", ";", " "}, 4)
    \cup Over(EncFmt, {"a", " ", "[", "=", "nl"}, 5)
    \cup Over(EncFmt, {"a", ReadError, "#", "[", " "}, 3)
    \cup Over(SepFmt, {"a", "[", "]", "=", "nl"}, 5)
    \cup Over(SepFmt, {"a", ReadError, "#", "[", " "}, 3)
    \cup Over(OptFmt, {"a", " ", "nl", "#", "'"}, 4)

(* Documents: elements, and their text with spaces, comments and quotes.   *)
Opt(n, d) == [kind |-> "option", name |-> n, data |-> d]
Sect(n) == [kind |-> "section", name |-> n, data |-> <<>>]
Close == [kind |-> "end", name |-> <<>>, data |-> <<>>]
Options == {Opt(n, d) : n \in {<<"a">>, <<"b", "b">>},
                        d \in {<<>>, <<"b">>, <<"a", " ", "b">>, <<" ", "'">>}}
SmallOpts == {Opt(<<"a">>, <<"b">>), Opt(<<"a", "b">>, <<>>)}
A == Sect(<<"a">>)
B == Sect(<<"b", "a">>)
Trees == {<<o>> : o \in Options} \cup {<<A, Close, o>> : o \in Options}
         \cup {<<B, o, Close>> : o \in Options}
         \cup {<<A, B, o, Close, p, Close>> : o \in SmallOpts, p \in Options}
         \cup {<<A, B, Close, o, Close>> : o \in Options}
         \cup {<<A, o, B, Close, Close, p>> : o \in SmallOpts, p \in Options}
Flat == {<<o>> : o \in Options} \cup {<<o, A, p>> : o \in Options, p \in SmallOpts}
        \cup {<<A, o, Close, B, p>> : o \in Options, p \in SmallOpts}

Styles == [gap : {<<>>, <<" ">>, <<"nl">>, <<"#", "'", "nl">>},
           sp : {<<>>, <<" ">>}, quote : BOOLEAN]
Quoted(d) == <<"'">> \o FlattenSeq([i \in DOMAIN d |->
                            IF d[i] = "'" THEN <<"\\", "'">> ELSE <<d[i]>>]) \o <<"'">>
NeedsQuote(d) == "'" \in ToSet(d) \/ (d # <<>> /\ d[1] = " ")
OptText(i, st, end) ==
    i.name \o st.sp \o <<"=">> \o st.sp
    \o (IF st.quote \/ NeedsQuote(i.data) THEN Quoted(i.data) ELSE i.data) \o st.sp \o end
PreText(list, st, end) ==
    FlattenSeq([k \in DOMAIN list |->
        st.gap \o (CASE list[k].kind = "section" ->
                          list[k].name
                          \o (IF st.gap = <<>> THEN <<>> ELSE <<"nl">> \o st.gap) \o <<"{">>
                     [] list[k].kind = "end" -> <<"}">>
                     [] OTHER -> OptText(list[k], st, end))])
FlatText(list, st, open, close) ==
    FlattenSeq([k \in DOMAIN list |->
        CASE list[k].kind = "section" -> open \o list[k].name \o close
          [] list[k].kind = "end" -> st.gap
          [] OTHER -> st.gap \o OptText(list[k], st, <<"nl">>)])

Doc(f, list, text) == [format |-> f, items |-> list, text |-> text]
MCDocuments ==
    {Doc(PreFmt, t, PreText(t, st, <<"nl">>)) : t \in Trees, st \in Styles}
    \cup {Doc(PreEndFmt, t, PreText(t, st, <<";">>)) : t \in Trees, st \in Styles}
    \cup {Doc(SepFmt, t, FlatText(t, st, <<"[">>, <<"]">>)) : t \in Flat, st \in Styles}
    \cup {Doc(EncFmt, t, FlatText(t, st, <<"[">> \o st.sp, <<"nl">>)) : t \in Flat, st \in Styles}

-----------------------------------------------------------------------------
Assign(p, v) == [path |-> p, val |-> v]

S == INSTANCE Settings WITH
        AllPaths <- {<<"mpt">>, <<"mpt", "logger">>, <<"logger">>, <<"">>},
        Texts <- {<<"x">>},
        ArgLists <- {<<Assign(<<"mpt">>, <<"x">>), Assign(<<"null">>, <<>>), Assign(<<"logger">>, <<"log">>)>>,
                     <<Assign(<<"mpt", "logger">>, <<"x">>), Assign(<<"">>, <<"x">>),
                       Assign(<<"output">>, <<"log">>)>>,
                     <<Assign(<<"mpt">>, <<"x">>), Assign(<<>>, <<>>),
                       Assign(<<"output">>, <<"log">>)>>},
        Environs <- {<<[words |-> <<"MPT", "LOGGER">>, val |-> <<"x">>],
                       [words |-> <<"HOME">>, val |-> <<"x">>]>>},
        Lower <- [MPT |-> "mpt", LOGGER |-> "logger", HOME |-> "home"],
        MessageTexts <- {<<"mpt", "logger", "x">>},
        Folders <- {<<>>, <<[opts |-> <<Assign(<<"mpt">>, <<"d">>)>>, ok |-> FALSE],
                            [opts |-> <<Assign(<<"output">>, <<"d">>)>>, ok |-> TRUE]>>},
        Behind <- {},
        MaxItems <- 3

\* Messages as pushes: log messages with and without segments, answers,
\* values with one format, one per column or one per value, and refused ones.
Segments == {<<0, 3>>, <<0, 131, 1>>, <<0, 163, 97>>, <<0, 136>>, <<1, 5, 97>>, <<97, 3>>, <<0, 97>>}
Rows == {<<9>>, <<9, 1, 224, 5>>, <<9, 2, 224>>, <<9, 0, 225>>, <<9, 0, 97, 5, 6>>,
         <<8, 0, 0, 3>>, <<8, 0, 0, 3, 1>>, <<9, 2, 225, 224>>, <<9, 2, 225, 224, 97, 3, 5, 6>>}
Data == {<<1>>, <<0, 97>>, <<225>>, <<7, 5>>, <<97, 3>>}
LogType(level, pretty, more, func) ==
    [level |-> level, prefix |-> pretty, select |-> pretty, more |-> more, func |-> func]

O == INSTANCE Output WITH
        PosMax <- 6, Tty <- TRUE, Pushes <- Segments \cup Rows \cup Data \cup {<<2>>, <<16, 1>>},
        ValuePushes <- Data, LogTexts <- {<<>>, <<97>>, <<97, 98, 97, 98>>},
        LogTypes <- {LogType(0, FALSE, FALSE, FALSE), LogType(3, TRUE, FALSE, TRUE),
                     LogType(35, FALSE, FALSE, FALSE), LogType(8, TRUE, TRUE, FALSE)},
        LogMax <- 10, FromMax <- 3, MaxSent <- 5, MaxValues <- 8, MaxVaried <- 1, MaxEntries <- 2

-----------------------------------------------------------------------------
settings == <<items, conf, result>>
outputs == <<out, message, shown, passed, logger, store>>
vars == <<part, pathVars, parseVars, settings, outputs>>

Init ==
    /\ PathInit /\ S!SettingsInit /\ O!OutInit
    /\ \/ part = "parser" /\ ParseInit
       \/ part \in {"paths", "settings", "outputs"} /\ ParseIdle

PathsPart ==
    part = "paths" /\ PathNext /\ UNCHANGED <<part, parseVars, settings, outputs>>
ParserPart ==
    part = "parser" /\ ParseNext /\ UNCHANGED <<part, pathVars, settings, outputs>>
SettingsPart ==
    part = "settings" /\ S!SettingsNext /\ UNCHANGED <<part, pathVars, parseVars, outputs>>
OutputsPart ==
    part = "outputs" /\ O!OutNext /\ UNCHANGED <<part, pathVars, parseVars, settings>>

Next == PathsPart \/ ParserPart \/ SettingsPart \/ OutputsPart

Spec == Init /\ [][Next]_vars

-----------------------------------------------------------------------------
(* Reading a path gives what was assigned last under it and nothing when   *)
(* it was removed, whatever mix of assignments, removals, arguments,       *)
(* environment, messages and loaded files came before and wherever they    *)
(* lacked memory (mpt_config_getp, mpt_config_load); not when memory       *)
(* behind the used slots looks like an element (Behind).                   *)
SettingsAsAssigned == part = "settings" => S!SettingsAsAssigned

(* A log message or an answer is written to one stream as one line that    *)
(* depends on its bytes alone, however they are divided into pushes        *)
(* (mpt_logfile_push); every pushed line and every line of the default     *)
(* logger (loggerLog) leaves the terminal in its normal colour, a line of  *)
(* the log file (mpt_logfile_log) unless it has a source and no level;     *)
(* values are printed once, in order, in the column of their format, which *)
(* is the first format for all columns that came in one push               *)
(* (mpt_history_push, mpt_history_values).                                 *)
OutputAsPushed ==
    part = "outputs" => O!LineAsSent /\ O!ColourRestored /\ O!RowsAsPushed

(* A message the local output refuses is handed on whole and not shown     *)
(* (localPush).                                                            *)
PassedWhole == part = "outputs" => O!PassedWhole
=============================================================================
