-------------------------------- MODULE Parse --------------------------------
(***************************************************************************)
(* The parser for configuration text (mptcore/parse): characters are       *)
(* collected behind the path of the current section until they turn out to *)
(* be the name of a section or an option or its data.  Each call of the    *)
(* element parser delivers one element to the handler of mpt_parse_config. *)
(***************************************************************************)
EXTENDS Path

CONSTANTS Documents,    \* documents, each with its text in one format
          Texts         \* other texts, each with a format to read it in

None == "none"          \* character that is not set in a format
Eof == "eof"            \* end of the input (-2)
ReadError == "error"    \* failed read (-1), part of the text to be met there
Newline == "nl"
Backslash == "\\"
Spaces == {" ", Newline}
Digits == {"1", "2"}
Letters == {"a", "b"}
Ends == {Eof, ReadError}

AllFlags == {"NumStart", "NumCont", "Special", "Space", "Empty"}
\* mpt_parse_accept without and with an empty description
AcceptAll == [sect |-> AllFlags, opt |-> AllFlags]
AcceptFew == [sect |-> {"NumCont"}, opt |-> {"NumCont"}]
\* what config_parser accepts
AcceptConfig == [sect |-> {"NumCont", "Space", "Special"}, opt |-> {"NumCont"}]
\* Capital letters of a description are for sections, small ones for options.
FlagsOf(letter) ==
    CASE letter \in {"f", "F"} -> {"NumStart"} [] letter \in {"c", "C"} -> {"NumCont"}
      [] letter \in {"n", "N"} -> {"NumStart", "NumCont"} [] letter \in {"s", "S"} -> {"Special"}
      [] letter \in {"w", "W"} -> {"Space"} [] letter \in {"e", "E"} -> {"Empty"}
mpt_parse_accept(letters) ==
    IF letters = <<>> THEN AcceptFew
    ELSE [sect |-> UNION {FlagsOf(c) : c \in ToSet(letters) \cap {"F", "C", "N", "S", "W", "E"}},
          opt  |-> UNION {FlagsOf(c) : c \in ToSet(letters) \cap {"f", "c", "n", "s", "w", "e"}}]

\* A format is described by the character before sections, the kind, and the
\* characters after sections, before, in and after options, then comments.
Given(c) == IF c \in Spaces THEN None ELSE c
mpt_parse_format(str) ==
    LET at(i, default) == IF Len(str) >= i THEN Given(str[i]) ELSE default IN
    [sstart |-> at(1, "{"), type |-> IF Len(str) >= 2 THEN str[2] ELSE "*",
     send |-> at(3, "}"), ostart |-> at(4, None), assign |-> at(5, "="), oend |-> at(6, None),
     com |-> IF Len(str) >= 7 THEN {str[7]} ELSE {"#"}, esc |-> {"'"}]
-----------------------------------------------------------------------------
(* Input: the parser's state is its text, path and flags. *)

NewParser(text, allow) ==
    [in |-> text, path |-> NewPath, prev |-> "Section", curr |-> None, valid |-> 0, allow |-> allow]

\* mpt_getchar_file and mpt_getchar_stdio
Getc(s) == IF s.in = <<>> THEN Eof ELSE s.in[1]
Consumed(s) == IF Getc(s) \in Ends THEN s ELSE [s EXCEPT !.in = Tail(@)]

RECURSIVE mpt_parse_endline(_)
mpt_parse_endline(s) ==
    IF Getc(s) = Newline \/ Getc(s) \in Ends THEN [c |-> Getc(s), s |-> Consumed(s)]
    ELSE mpt_parse_endline(Consumed(s))

\* The next character that is neither space nor part of a comment.
RECURSIVE mpt_parse_nextvis(_, _), AfterComment(_, _)
AfterComment(line, com) == IF line.c \in Ends THEN line ELSE mpt_parse_nextvis(line.s, com)
mpt_parse_nextvis(s, com) ==
    CASE Getc(s) \in Spaces -> mpt_parse_nextvis(Consumed(s), com)
      [] Getc(s) \in com -> AfterComment(mpt_parse_endline(Consumed(s)), com)
      [] OTHER -> [c |-> Getc(s), s |-> Consumed(s)]

AddTo(s, c) == [s EXCEPT !.path = mpt_path_addchar(@, c)]
Marked(s, r) == [s EXCEPT !.path = r.path, !.valid = r.ret]
Validate(s) == Marked(s, mpt_path_valid(s.path))
mpt_parse_getchar(s) ==
    [c |-> Getc(s), s |-> IF Getc(s) \in Ends THEN s ELSE AddTo(Consumed(s), Getc(s))]

\* Characters a name may have.
mpt_parse_ncheck(name, flags) ==
    IF name = <<>> THEN "Empty" \in flags
    ELSE \A i \in 1 .. Len(name) :
            CASE name[i] \in Spaces -> "Space" \in flags
              [] name[i] \in Digits -> (IF i = 1 THEN "NumStart" ELSE "NumCont") \in flags
              [] name[i] \in Letters -> TRUE
              [] OTHER -> "Special" \in flags
Pending(s) == SubSeq(s.path.base, End(s.path) + 1, End(s.path) + s.valid)

Result(ret, s) == [ret |-> ret, s |-> s]
As(s, curr) == [s EXCEPT !.curr = curr]
-----------------------------------------------------------------------------
(* Data of an option *)

\* Mutant: an escape character in the data is not removed when it ends.
Escaped_Keep(s, c, last) == IF last = Backslash THEN AddTo([s EXCEPT !.path = mpt_path_delchar(@)], c) ELSE s
\* An escape character ends the escape or, behind a backslash, takes its place.
Escaped(s, c, last) ==
    LET cut(t) == [t EXCEPT !.path = mpt_path_delchar(@)] IN
    IF last = Backslash THEN AddTo(cut(cut(s)), c) ELSE cut(s)

\* The character that was read is r.c, last the one before it, match the
\* escape character that is open.
RECURSIVE DataLoop(_, _, _, _)
DataLoop(fmt, r, match, last) ==
    LET on(s, m) == DataLoop(fmt, mpt_parse_getchar(s), m, r.c) IN
    CASE r.c \in Ends -> r
      [] r.c = match /\ last = Backslash -> on(Validate(Escaped(r.s, r.c, last)), match)
      [] r.c = match /\ last # Backslash -> on(Validate(Escaped(r.s, r.c, last)), None)
      [] match # None /\ r.c \notin Ends \cup {match} -> on(Validate(r.s), match)
      [] match = None /\ r.c \in fmt.esc -> on(r.s, r.c)
      [] match = None /\ r.c \in {fmt.oend, Newline} -> r
      [] match = None /\ fmt.oend = None /\ r.c \in fmt.com /\ last \in Spaces ->
            [c |-> r.c, s |-> mpt_parse_endline(r.s).s]
      [] OTHER -> on(IF r.c \in Spaces THEN r.s ELSE Validate(r.s), match)

DataEnd(fmt, r) ==
    IF fmt.oend # None /\ r.c # fmt.oend THEN Result("BadValue", As(r.s, "Data"))
    ELSE Result(IF r.s.valid = 0 THEN "Option" ELSE "OptionData", r.s)
mpt_parse_data(fmt, s) == DataEnd(fmt, DataLoop(fmt, mpt_parse_getchar(s), None, None))

\* What was collected is the name of an option, its data follows.
NamedOption(fmt, s, added) ==
    IF added.ret # "done" THEN Result("MissingBuffer", s)
    ELSE mpt_parse_data(fmt, [s EXCEPT !.path = mpt_path_invalidate(added.path), !.valid = 0])
Assigned(fmt, s) ==
    IF mpt_parse_ncheck(Pending(s), s.allow.opt) THEN NamedOption(fmt, s, mpt_path_add(s.path, s.valid))
    ELSE Result("BadType", s)

\* What was collected is the name of a section.
NamedSection(s, added) ==
    IF added.ret # "done" THEN Result("BadOperation", s) ELSE Result("Section", [s EXCEPT !.path = added.path])
Opened(s) ==
    IF mpt_parse_ncheck(Pending(s), s.allow.sect) THEN NamedSection(s, mpt_path_add(s.path, s.valid))
    ELSE Result("BadType", s)

\* A name without assignment is data of the section.
Unnamed(s) == Result(IF "Empty" \in s.allow.opt THEN "Data" ELSE "BadType", As(s, "Data"))
InputEnds(c) == IF c = Eof THEN "MissingData" ELSE "BadArgument"

RECURSIVE OptionLoop(_, _)
OptionLoop(fmt, r) ==
    LET c == r.c
        on(s) == OptionLoop(fmt, mpt_parse_getchar(s)) IN
    CASE c \in Ends -> Result(InputEnds(c), r.s)
      [] c = fmt.assign \/ (c \in Spaces /\ fmt.assign = None) -> Assigned(fmt, r.s)
      [] c = Newline /\ fmt.assign # None -> IF fmt.oend = None THEN Unnamed(r.s) ELSE Result("BadValue", r.s)
      [] c = fmt.oend /\ c # fmt.assign -> Unnamed(r.s)
      [] c \in fmt.com \ {fmt.assign, fmt.oend} ->
            IF fmt.oend = None THEN Unnamed(mpt_parse_endline(r.s).s) ELSE Result("BadValue", r.s)
      [] c = " " /\ fmt.assign # None -> on(r.s)
      [] OTHER -> on(Validate(r.s))

OptionStart(fmt, c, s) ==
    CASE c = ReadError -> Result("BadArgument", s)
      [] c = Eof -> Result(IF s.path.len > 0 THEN "MissingData" ELSE "End", s)
      [] c \notin Ends /\ fmt.ostart # None /\ c # fmt.ostart /\ s.valid > 0 -> Result("BadValue", s)
      [] OTHER -> OptionLoop(fmt, [c |-> c, s |-> AddTo(s, c)])
OptionFrom(fmt, r) == OptionStart(fmt, r.c, As(r.s, "Option"))
mpt_parse_option(fmt, s) == OptionFrom(fmt, mpt_parse_nextvis(s, fmt.com))
-----------------------------------------------------------------------------
(* Element parsers *)

\* A name is followed by the start of its section, by an assignment or it ends.
PreEnd(fmt, s, c) ==
    CASE fmt.sstart # None /\ c = fmt.sstart -> Opened(As(s, "Section"))
      [] fmt.oend # None /\ c = fmt.oend /\ c # fmt.sstart -> Unnamed(s)
      [] OTHER -> Result("BadValue", As(s, "Name"))
PreNextLine(fmt, r) == PreEnd(fmt, AddTo(r.s, r.c), r.c)

RECURSIVE PreLoop(_, _)
PreLoop(fmt, r) ==
    LET c == r.c
        on(s) == PreLoop(fmt, mpt_parse_getchar(s)) IN
    CASE c \in Ends -> PreEnd(fmt, r.s, c)
      [] c = fmt.send -> Result("SectEnd", As(r.s, "SectEnd"))
      [] c \in {fmt.sstart, fmt.oend} \ {fmt.send, fmt.ostart, fmt.assign} -> PreEnd(fmt, r.s, c)
      [] c = fmt.ostart /\ c \notin {fmt.send, fmt.sstart} -> mpt_parse_option(fmt, r.s)
      [] c = fmt.assign /\ c \notin {fmt.send, fmt.sstart, fmt.ostart} -> Assigned(fmt, As(r.s, "Option"))
      [] c \in fmt.com \ {fmt.send, fmt.sstart, fmt.ostart, fmt.assign, fmt.oend} ->
            PreEnd(fmt, mpt_parse_endline(r.s).s, c)
      [] c = Newline -> PreNextLine(fmt, mpt_parse_nextvis(r.s, fmt.com))
      [] OTHER -> on(IF c \in Spaces THEN r.s ELSE Validate(r.s))

PreFirst(fmt, r) ==
    CASE r.c \in Ends -> Result(IF r.s.path.len = 0 THEN "End" ELSE "MissingData", r.s)
      [] r.c \notin Ends /\ r.c = fmt.sstart -> Opened(As(r.s, "Section"))
      [] OTHER -> PreLoop(fmt, [c |-> r.c, s |-> AddTo(As(r.s, "Name"), r.c)])
\* Sections begin and end with a character behind their name and content.
mpt_parse_format_pre(fmt, s) == PreFirst(fmt, mpt_parse_nextvis(s, fmt.com))

RECURSIVE EncName(_, _)
EncName(fmt, r) ==
    CASE r.c \in Ends -> Result("MissingData", r.s)
      [] r.c \in Spaces -> Opened(r.s)
      [] r.c \in fmt.com -> Opened(mpt_parse_endline(r.s).s)
      [] OTHER -> EncName(fmt, mpt_parse_getchar(Validate(r.s)))
EncFirst(fmt, r) ==
    IF r.c \in Ends THEN Result("MissingData", r.s)
    ELSE EncName(fmt, mpt_parse_getchar(Validate(AddTo(r.s, r.c))))
EncSection(fmt, s) == EncFirst(fmt, mpt_parse_nextvis(As(s, "Section"), fmt.com))

EncElement(fmt, r) ==
    CASE r.c \in Ends -> Result("End", As(r.s, None))
      [] r.c = fmt.sstart ->
            IF r.s.path.len > 0 THEN Result("SectEnd", As(r.s, "SectEnd")) ELSE EncSection(fmt, r.s)
      [] r.c \notin Ends \cup {fmt.sstart} /\ fmt.ostart # None /\ r.c # fmt.ostart ->
            Result("BadValue", As(AddTo(r.s, r.c), "Option"))
      [] OTHER -> LET s == AddTo(r.s, r.c) IN
                  mpt_parse_option(fmt, IF fmt.ostart = None THEN Validate(s) ELSE s)
\* One character starts and ends sections, a space ends their names.
mpt_parse_format_enc(fmt, s) ==
    IF s.prev = "SectEnd" THEN EncSection(fmt, s) ELSE EncElement(fmt, mpt_parse_nextvis(s, fmt.com))

RECURSIVE SepName(_, _)
SepName(fmt, r) ==
    CASE r.c = fmt.send -> Opened(As(r.s, "Section"))
      [] r.c \in (fmt.com \cup {Newline} \cup Ends) \ {fmt.send} -> Result("BadValue", As(r.s, "Section"))
      [] OTHER -> SepName(fmt, mpt_parse_getchar(IF r.c \in Spaces THEN r.s ELSE Validate(r.s)))
SepFirst(fmt, r) == IF r.c \in Ends THEN Result(InputEnds(r.c), r.s) ELSE SepName(fmt, r)
SepSection(fmt, s) ==
    IF fmt.send = fmt.sstart THEN SepName(fmt, [c |-> fmt.sstart, s |-> As(s, "Section")])
    ELSE SepFirst(fmt, mpt_parse_getchar(As(s, "Section")))

SepElement(fmt, r) ==
    CASE r.c = Eof -> Result("End", r.s)
      [] r.c = ReadError -> Result("BadArgument", As(r.s, "Name"))
      [] r.c = fmt.sstart ->
            IF r.s.path.len > 0 THEN Result("SectEnd", As(r.s, "SectEnd")) ELSE SepSection(fmt, r.s)
      [] OTHER -> mpt_parse_option(fmt, IF r.c = fmt.ostart THEN r.s ELSE Validate(AddTo(r.s, r.c)))
\* The name of a section is enclosed, the next one ends it.
mpt_parse_format_sep(fmt, s) ==
    IF s.prev = "SectEnd" THEN SepSection(fmt, s) ELSE SepElement(fmt, mpt_parse_nextvis(s, fmt.com))

mpt_parse_next_fcn(fmt, s) ==
    CASE fmt.type = "_" -> mpt_parse_option(fmt, s)
      [] fmt.type = "x" -> mpt_parse_format_enc(fmt, s)
      [] fmt.type = " " -> mpt_parse_format_sep(fmt, s)
      [] fmt.type = "*" -> mpt_parse_format_pre(fmt, s)
-----------------------------------------------------------------------------
VARIABLES parser,   \* state of the parser
          format,   \* its format
          source,   \* the document the text was made from, if it was
          events,   \* elements delivered so far
          nodes,    \* nodes made of them, each with its parent (0: the root)
          cursor,   \* node the next one is added to
          replaced, \* the new nodes have taken the place of the old ones
          status    \* "parsing" or the result of mpt_parse_config

parseVars == <<parser, format, source, events, nodes, cursor, replaced, status>>
Elements == {"Section", "SectEnd", "Option", "OptionData", "Data"}

Event(ret, s) ==
    [op |-> ret, at |-> mpt_path_fputs(s.path),
     data |-> IF ret \in {"OptionData", "Data"} THEN Pending(s) ELSE <<>>]

\* Options contain the flag that marks the end of a section.
Removes(ret) == ret \in {"SectEnd", "Option", "OptionData"}

\* States of the parser with the flag that marks the end of a section.
LeavesSection == {"SectEnd", "Option"}
ParentOf(n) == IF n = 0 THEN 0 ELSE nodes[n].parent
\* Mutant: the end of a section leads to the parent of the last node.
mpt_node_append_Up(op, prev, e) ==
    CASE op = "SectEnd" -> /\ cursor' = ParentOf(cursor)
                           /\ UNCHANGED nodes
      [] OTHER -> /\ nodes' = Append(nodes,
                        [name |-> IF op = "Data" THEN <<>> ELSE Last(e.at), data |-> e.data,
                         parent |-> IF prev \in LeavesSection THEN ParentOf(cursor) ELSE cursor])
                  /\ cursor' = Len(nodes) + 1
\* A node goes below the last one if that began a section, or next to it.  The
\* end of a section without content stays at the node of the section.
mpt_node_append(op, prev, e) ==
    CASE op = "SectEnd" -> /\ cursor' = IF cursor # 0 /\ prev \in LeavesSection THEN ParentOf(cursor) ELSE cursor
                           /\ UNCHANGED nodes
      [] OTHER -> /\ nodes' = Append(nodes,
                        [name |-> IF op = "Data" THEN <<>> ELSE Last(e.at), data |-> e.data,
                         parent |-> IF prev \in LeavesSection THEN ParentOf(cursor) ELSE cursor])
                  /\ cursor' = Len(nodes) + 1

\* mpt_parse_config: an element goes to the handler, which may refuse it, and
\* leaves the path again unless it is a section.
Handle(ret, s, e, removed) ==
    /\ events' = Append(events, e)
    /\ mpt_node_append(ret, s.prev, e)
    /\ parser' = [s EXCEPT !.path = IF Removes(ret) THEN removed.path ELSE mpt_path_invalidate(@),
                           !.prev = s.curr, !.curr = None, !.valid = 0]
    /\ status' = IF Removes(ret) /\ removed.ret < 0 THEN "MissingData" ELSE "parsing"
    /\ UNCHANGED <<format, source, replaced>>
\* mpt_node_parse: the nodes are used if the whole text was read.
Stop(ret) ==
    /\ status' = ret
    /\ replaced' = (ret = "End")
    /\ nodes' = IF ret = "End" THEN nodes ELSE <<>>
    /\ cursor' = IF ret = "End" THEN cursor ELSE 0
    /\ UNCHANGED <<parser, format, source, events>>
Parsed(r) ==
    \/ r.ret \in Elements /\ Handle(r.ret, r.s, Event(r.ret, r.s), mpt_path_del(r.s.path))
    \/ Stop(IF r.ret \in Elements THEN "refused" ELSE r.ret)
Element == status = "parsing" /\ Parsed(mpt_parse_next_fcn(format, parser))

ParseInit ==
    /\ events = <<>> /\ status = "parsing" /\ nodes = <<>> /\ cursor = 0 /\ replaced = FALSE
    /\ \/ \E d \in Documents :
            /\ format = mpt_parse_format(d.format) /\ source = d.items
            /\ parser = NewParser(d.text, AcceptAll)
       \/ \E t \in Texts, allow \in {AcceptAll, AcceptConfig, mpt_parse_accept(<<"E", "w">>)} :
            /\ format = mpt_parse_format(t.format) /\ source = <<>>
            /\ parser = NewParser(t.text, allow)
ParseNext == Element
ParseIdle ==
    /\ events = <<>> /\ nodes = <<>> /\ cursor = 0 /\ replaced = FALSE
    /\ status = "idle" /\ source = <<>> /\ format = None /\ parser = None

\* What the handler has to get for the items of a document.
RECURSIVE Expected(_, _)
Expected(items, at) ==
    IF items = <<>> THEN <<>>
    ELSE LET i == items[1] IN
         CASE i.kind = "section" -> <<[op |-> "Section", at |-> Append(at, i.name), data |-> <<>>]>>
                                        \o Expected(Tail(items), Append(at, i.name))
           [] i.kind = "end" -> <<[op |-> "SectEnd", at |-> at, data |-> <<>>]>> \o Expected(Tail(items), Front(at))
           [] i.kind = "option" ->
                <<[op |-> IF i.data = <<>> THEN "Option" ELSE "OptionData", at |-> Append(at, i.name), data |-> i.data]>>
                    \o Expected(Tail(items), at)

\* A document written in one of the formats of mpt_parse_format is read as the
\* sections and options it was written from, whatever spaces, comments and
\* escape characters are in between.
DocumentRead ==
    source # <<>> =>
        /\ events = SubSeq(Expected(source, <<>>), 1, Len(events))
        /\ status = "End" => events = Expected(source, <<>>)
        /\ status \in {"parsing", "End", "refused"}

RECURSIVE OpenAfter(_), NodePath(_)
OpenAfter(ev) ==
    IF ev = <<>> THEN <<>>
    ELSE LET e == ev[Len(ev)] IN
         CASE e.op = "Section" -> e.at
           [] e.op = "SectEnd" -> IF e.at = <<>> THEN <<>> ELSE Front(e.at)
           [] OTHER -> OpenAfter(Front(ev))
NodePath(n) == IF n = 0 THEN <<>> ELSE Append(NodePath(nodes[n].parent), nodes[n].name)
\* For any text the elements that mpt_parse_config delivers are nested: each is
\* at the path of the sections that are open.  The nodes mpt_node_append makes
\* of them are at the same paths in the same order, unless a value without a
\* name was among them.
TreeAsRead ==
    /\ \A i \in 1 .. Len(events) :
          LET open == OpenAfter(SubSeq(events, 1, i - 1)) IN
          CASE events[i].op \in {"Section", "Option", "OptionData"} ->
                    events[i].at # <<>> /\ Front(events[i].at) = open
            [] OTHER -> events[i].at = open
    /\ status = "parsing" => /\ mpt_path_fputs(parser.path) = OpenAfter(events)
                             /\ mpt_path_data(parser.path) = <<>>
    /\ (status = "parsing" \/ replaced) /\ (\A i \in 1 .. Len(events) : events[i].op # "Data") =>
          [n \in 1 .. Len(nodes) |-> [at |-> NodePath(n), data |-> nodes[n].data]]
            = LET made == SelectSeq(events, LAMBDA e : e.op # "SectEnd") IN
              [n \in 1 .. Len(made) |-> [at |-> made[n].at, data |-> made[n].data]]
=============================================================================
