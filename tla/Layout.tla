------------------------------- MODULE Layout --------------------------------
(***************************************************************************)
(* Properties of the plot elements (mptplot/layout): axis, line, text,     *)
(* world and graph are set by name from a source that is asked for the     *)
(* types that suit, and read by name or part of a name.  Names are in      *)
(* lower case, strings and their copies are values.                        *)
(***************************************************************************)
EXTENDS Integers, Sequences, FiniteSets, SequencesExt, Calls

CONSTANTS SourceNumbers,    \* numbers of the sources
          HexDigits         \* bound: digits of a color

\* What a source answers when it is asked for a type: a value, nothing (zero,
\* the target is left alone) or that it cannot.
Source(kind, v) == <<kind, v>>
Kind(src) == src[1]
Answer(src) == src[2]
NoSource == Source("null", <<>>)
Sources(other) ==
    {NoSource, Source("empty", <<>>), Source("same", other), Source("color", <<255, 9, 9, 9>>),
     Source("attr", <<2, 2, 2, 2>>), Source("char", "l"), Source("points", <<1, 3>>), Source("points", <<1>>),
     Source("points", <<>>), Source("point", <<0, 1>>)}
    \cup {Source("num", n) : n \in SourceNumbers}
    \cup {Source(k, t) : k \in {"text", "chars"}, t \in {"", "log", "red", "xy"}}
Takes(k) ==
    CASE k = "num" -> {"f", "d", "i", "n", "y", "u"} [] k = "text" -> {"s", "k"} [] k = "chars" -> {"C"}
      [] k = "char" -> {"c"} [] k = "points" -> {"iterator"} [] k = "point" -> {"fpoint"} [] OTHER -> {k}
Fits(v, type) == CASE type = "y" -> v \in 0 .. 255 [] type = "u" -> v >= 0 [] OTHER -> TRUE
Ask(src, type) ==
    CASE Kind(src) = "empty" -> 0
      [] Kind(src) # "empty" /\ type \in Takes(Kind(src)) -> (IF Kind(src) = "num" /\ ~Fits(Answer(src), type) THEN -1 ELSE 1)
      [] OTHER -> -1

Black == <<255, 0, 0, 0>>
\* MPT_LINEATTR_INIT and the largest values of a line attribute
AttrMax == [width |-> 10, style |-> 5, symbol |-> 8, size |-> 20]
AttrInit == [width |-> 1, style |-> 1, symbol |-> 0, size |-> 10]
AttrNames == <<"style", "width", "symbol", "size">>

def_axis == [title |-> "", begin |-> 0, end |-> 1, tlen |-> 3, exponent |-> 0, intervals |-> 0, log |-> FALSE,
             subtick |-> 0, decimals |-> 0, lpos |-> "", tpos |-> ""]
def_line == [color |-> Black, x1 |-> 0, x2 |-> 0, y1 |-> 0, y2 |-> 0, width |-> 1, style |-> 1, symbol |-> 0,
             size |-> 10]
def_text == [value |-> "", font |-> "", color |-> Black, size |-> 10, align |-> "5", x |-> 5, y |-> 5, angle |-> 0]
def_world == [alias |-> "", color |-> Black, width |-> 1, style |-> 1, symbol |-> 0, size |-> 10, cycles |-> 0]
def_graph == [axes |-> "", worlds |-> "", foreground |-> Black, background |-> <<0, 255, 255, 255>>,
              pos |-> <<0, 0>>, scale |-> <<1, 1>>, grid |-> "", align |-> 0, clip |-> 0, lpos |-> ""]
Default(kind) ==
    CASE kind = "axis" -> def_axis [] kind = "line" -> def_line [] kind = "text" -> def_text
      [] kind = "world" -> def_world [] kind = "graph" -> def_graph
\* An element with other values.
Other(kind) ==
    CASE kind = "axis" -> [def_axis EXCEPT !.title = "t", !.begin = 4, !.end = 4, !.tlen = 4, !.exponent = 4,
                            !.log = TRUE, !.subtick = 4, !.decimals = 4, !.lpos = "x", !.tpos = "x"]
      [] kind = "line" -> [def_line EXCEPT !.color = <<255, 1, 1, 1>>, !.x1 = 4, !.x2 = 4, !.y1 = 4, !.y2 = 4,
                            !.width = 4, !.style = 4, !.symbol = 4, !.size = 4]
      [] kind = "text" -> [def_text EXCEPT !.value = "t", !.font = "t", !.color = <<255, 1, 1, 1>>, !.size = 4,
                            !.align = "x", !.x = 1, !.y = 1, !.angle = 4]
      [] kind = "world" -> [def_world EXCEPT !.alias = "t", !.color = <<255, 1, 1, 1>>, !.width = 4, !.style = 4,
                            !.symbol = 4, !.size = 4, !.cycles = 4]
      [] kind = "graph" -> [def_graph EXCEPT !.axes = "t", !.worlds = "t", !.foreground = <<255, 1, 1, 1>>,
                            !.background = Black, !.pos = <<1, 1>>, !.scale = <<4, 4>>, !.grid = "x", !.align = 4,
                            !.clip = 4, !.lpos = "x"]
-----------------------------------------------------------------------------
(* Setting one property *)

Set(ret, e) == [ret |-> ret, e |-> e]
\* The value of a source, or the default if it has none.
Plain(e, f, type, src, default) ==
    CASE Kind(src) = "null" \/ Ask(src, type) = 0 -> Set("ok", [e EXCEPT ![f] = default])
      [] Kind(src) # "null" /\ Ask(src, type) < 0 -> Set("BadType", e)
      [] OTHER -> Set("ok", [e EXCEPT ![f] = Answer(src)])

\* setPosition of an axis: a character or the first one of a word
Position(e, f, src, default) ==
    IF Kind(src) = "text" THEN Set("ok", [e EXCEPT ![f] = IF Answer(src) = "" THEN default ELSE Answer(src)])
    ELSE Plain(e, f, "c", src, default)
\* setPosition of a line
Coordinate(e, f, src) == Plain(e, f, "f", src, 0)

mpt_string_pset(e, f, src) ==
    CASE Ask(src, "C") > 0 -> Set("ok", [e EXCEPT ![f] = Answer(src)])
      [] Ask(src, "C") <= 0 /\ Ask(src, "s") < 0 -> Set("BadType", e)
      [] OTHER -> Set("ok", [e EXCEPT ![f] = IF Ask(src, "s") = 0 THEN "" ELSE Answer(src)])
String(e, f, src) == IF Kind(src) = "null" THEN Set("ok", [e EXCEPT ![f] = ""]) ELSE mpt_string_pset(e, f, src)

\* Mutant: the largest value is refused.
lattr_pset_Max(e, f, src) ==
    CASE Kind(src) = "null" \/ Ask(src, "y") = 0 -> Set("ok", [e EXCEPT ![f] = AttrInit[f]])
      [] Kind(src) # "null" /\ Ask(src, "i") < 0 -> Set("BadType", e)
      [] OTHER -> IF Answer(src) \in 0 .. AttrMax[f] - 1 THEN Set("ok", [e EXCEPT ![f] = Answer(src)]) ELSE Set("BadValue", e)
lattr_pset(e, f, src) ==
    CASE Kind(src) = "null" \/ Ask(src, "y") = 0 -> Set("ok", [e EXCEPT ![f] = AttrInit[f]])
      [] Kind(src) # "null" /\ Ask(src, "i") < 0 -> Set("BadType", e)
      [] OTHER -> IF Answer(src) \in 0 .. AttrMax[f] THEN Set("ok", [e EXCEPT ![f] = Answer(src)]) ELSE Set("BadValue", e)

\* Colors with a name; the others of the table are alike.
ColorName(txt) == CASE txt = "" -> <<255, 0, 0, 0>> [] txt = "red" -> <<255, 255, 0, 0>> [] OTHER -> <<>>
\* Without a source the call tells if there is a color other than black.
mpt_color_pset(e, f, src) ==
    CASE Kind(src) = "null" -> Set("ok", e)
      [] Kind(src) # "null" /\ Ask(src, "color") >= 0 -> Set("ok", IF Kind(src) = "color" THEN [e EXCEPT ![f] = Answer(src)] ELSE e)
      [] Kind(src) = "text" -> IF ColorName(Answer(src)) = <<>> THEN Set("BadValue", e) ELSE Set("ok", [e EXCEPT ![f] = ColorName(Answer(src))])
      [] OTHER -> Set("BadType", e)

\* A point of two numbers: mpt_iterator_consume reports a missing second one.
\* Sources without iterator are not asked: the missing one would be used.
mpt_fpoint_set(src, max) ==
    CASE Ask(src, "iterator") < 0 /\ Ask(src, "fpoint") < 0 -> "BadType"
      [] Kind(src) = "points" /\ Len(Answer(src)) < 2 -> "MissingData"
      [] OTHER -> IF \E i \in 1 .. 2 : Answer(src)[i] < 0 \/ Answer(src)[i] > max THEN "BadValue" ELSE "ok"
Point(e, f, src, max, default) ==
    IF Kind(src) = "null" THEN Set("ok", [e EXCEPT ![f] = default])
    ELSE IF mpt_fpoint_set(src, max) = "ok" THEN Set("ok", [e EXCEPT ![f] = Answer(src)])
    ELSE Set(mpt_fpoint_set(src, max), e)
PointNames == {"pos", "position", "scale"}

\* A number of intervals or a word for logarithmic division
Intervals(e, src) ==
    LET linear == [e EXCEPT !.log = FALSE] IN
    CASE Kind(src) = "null" \/ Ask(src, "y") = 0 -> Set("ok", [linear EXCEPT !.intervals = 0])
      [] Kind(src) # "null" /\ Ask(src, "y") > 0 -> Set("ok", [linear EXCEPT !.intervals = Answer(src)])
      [] Kind(src) = "text" -> Set("ok", IF Answer(src) = "log" THEN [e EXCEPT !.log = TRUE, !.intervals = 0] ELSE e)
      [] OTHER -> Set("BadType", linear)
\* A number; the code for words is never reached.
Mask(e, f, src) ==
    IF Kind(src) = "null" \/ Ask(src, "y") = 0 THEN Set("ok", [e EXCEPT ![f] = 0])
    ELSE Set("ok", IF Ask(src, "y") > 0 THEN [e EXCEPT ![f] = Answer(src)] ELSE e)
-----------------------------------------------------------------------------
(* Setting by name: the field, and what is asked of the source. *)

axis_named(e, name, src) ==
    CASE name = "title" -> String(e, "title", src)
      [] name = "begin" -> Plain(e, "begin", "d", src, def_axis.begin)
      [] name = "end" -> Plain(e, "end", "d", src, def_axis.end)
      [] name = "tlen" -> Plain(e, "tlen", "f", src, def_axis.tlen)
      [] name \in {"int", "intv", "intervals"} -> Intervals(e, src)
      [] name \in {"exp", "exponent"} -> Plain(e, "exponent", "n", src, def_axis.exponent)
      [] name \in {"sub", "subtick"} -> Plain(e, "subtick", "y", src, def_axis.subtick)
      [] name \in {"dec", "decimals"} -> Plain(e, "decimals", "y", src, def_axis.decimals)
      [] name \in {"lpos", "labelpos"} -> Position(e, "lpos", src, def_axis.lpos)
      [] name \in {"tpos", "titlepos"} -> Position(e, "tpos", src, def_axis.tpos)
      [] OTHER -> Set("BadArgument", e)

line_named(e, name, src) ==
    CASE name \in {"x1", "x2", "y1", "y2"} -> Coordinate(e, name, src)
      [] name = "color" -> mpt_color_pset(e, "color", src)
      [] name \in DOMAIN AttrMax -> lattr_pset(e, name, src)
      [] OTHER -> Set("BadArgument", e)

text_named(e, name, src) ==
    CASE name \in {"value", "font"} -> String(e, name, src)
      [] name \in {"x", "y"} -> Plain(e, name, "f", src, def_text[name])
      [] name = "pos" ->
            LET p == Point([pos |-> <<e.x, e.y>>], "pos", src, 1, <<def_text.x, def_text.y>>) IN
            Set(p.ret, [e EXCEPT !.x = p.e.pos[1], !.y = p.e.pos[2]])
      [] name = "color" -> mpt_color_pset(e, "color", src)
      [] name = "size" -> Plain(e, "size", "y", src, def_text.size)
      [] name = "align" -> Plain(e, "align", "c", src, def_text.align)
      [] name = "angle" -> Plain(e, "angle", "d", src, def_text.angle)
      [] OTHER -> Set("BadArgument", e)

\* Without a source the color stays and the cycles are reset.
world_named(e, name, src) ==
    CASE name \in {"cyc", "cycles"} -> Plain(e, "cycles", "u", src, def_world.cycles)
      [] name \in {"color", "colour"} ->
            IF Kind(src) = "null" THEN Set("ok", [e EXCEPT !.cycles = def_world.cycles]) ELSE mpt_color_pset(e, "color", src)
      [] name = "alias" -> String(e, "alias", src)
      [] name \in {"sym", "symbol"} -> lattr_pset(e, "symbol", src)
      [] name \in {"width", "style", "size"} -> lattr_pset(e, name, src)
      [] OTHER -> Set("BadArgument", e)

graph_named(e, name, src) ==
    CASE name \in {"fg", "foreground"} ->
            IF Kind(src) = "null" THEN Set("ok", [e EXCEPT !.foreground = def_graph.foreground])
            ELSE mpt_color_pset(e, "foreground", src)
      [] name \in {"bg", "background"} ->
            IF Kind(src) = "null" THEN Set("ok", [e EXCEPT !.background = def_graph.background])
            ELSE mpt_color_pset(e, "background", src)
      [] name \in {"pos", "position"} -> Point(e, "pos", src, 1, def_graph.pos)
      [] name = "scale" -> Point(e, "scale", src, 1000, def_graph.scale)
      [] name \in {"type", "gridtype"} -> Plain(e, "grid", "c", src, def_graph.grid)
      [] name \in {"align", "alignment"} -> Mask(e, "align", src)
      [] name \in {"clip", "clipping"} -> Mask(e, "clip", src)
      [] name = "lpos" -> Plain(e, "lpos", "c", src, def_graph.lpos)
      [] name \in {"axes", "worlds"} -> String(e, name, src)
      [] OTHER -> Set("BadArgument", e)

\* A whole element of the same kind; one without value stands for the default.
Same(kind, src) == IF Ask(src, "same") > 0 THEN Answer(src) ELSE Default(kind)
Attr(e, src) ==
    [f \in DOMAIN e |-> IF f \notin DOMAIN AttrMax THEN e[f]
                        ELSE Answer(src)[CHOOSE i \in 1 .. 4 : AttrNames[i] = f]]
\* Without name the value goes to the first place that takes it.
axis_any(e, src) == mpt_string_pset(e, "title", src)
line_any(e, src) ==
    CASE Kind(src) = "color" -> Set("ok", [e EXCEPT !.color = Answer(src)]) [] Kind(src) = "attr" -> Set("ok", Attr(e, src))
      [] OTHER -> Set("BadType", e)
text_any(e, src) ==
    IF Kind(src) = "color" THEN Set("ok", [e EXCEPT !.color = Answer(src)]) ELSE mpt_string_pset(e, "value", src)
world_any(e, src) ==
    CASE Kind(src) = "color" -> Set("ok", [e EXCEPT !.color = Answer(src)]) [] Kind(src) = "attr" -> Set("ok", Attr(e, src))
      [] OTHER -> mpt_string_pset(e, "alias", src)
graph_any(e, src) == IF Kind(src) = "color" THEN Set("ok", [e EXCEPT !.foreground = Answer(src)]) ELSE Set("BadType", e)
Named(kind, e, name, src) ==
    CASE kind = "axis" -> axis_named(e, name, src) [] kind = "line" -> line_named(e, name, src)
      [] kind = "text" -> text_named(e, name, src) [] kind = "world" -> world_named(e, name, src)
      [] kind = "graph" -> graph_named(e, name, src)
Unnamed(kind, e, src) ==
    CASE kind = "axis" -> axis_any(e, src) [] kind = "line" -> line_any(e, src)
      [] kind = "text" -> text_any(e, src) [] kind = "world" -> world_any(e, src)
      [] kind = "graph" -> graph_any(e, src)

\* The empty name stands for the whole element; a line takes a color only.
Whole(kind, e, src) ==
    CASE kind = "line" /\ Kind(src) # "null" ->
            IF Kind(src) = "color" THEN Set("ok", [e EXCEPT !.color = Answer(src)]) ELSE Set("BadType", e)
      [] Kind(src) = "null" -> Set("ok", Default(kind))
      [] OTHER -> IF Ask(src, "same") < 0 THEN Set("BadType", e) ELSE Set("ok", Same(kind, src))
mpt_element_set(kind, e, name, src) ==
    CASE name = "any" -> (CASE Kind(src) = "null" -> Set("BadOperation", e)
                            [] Kind(src) # "null" /\ Ask(src, "same") >= 0 -> Set("ok", Same(kind, src))
                            [] OTHER -> Unnamed(kind, e, src))
      [] name = "" -> Whole(kind, e, src)
      [] OTHER -> Named(kind, e, name, src)
-----------------------------------------------------------------------------
(* Reading *)

axis_elem == <<"title", "begin", "end", "tlen", "exponent", "intervals", "subtick", "decimals", "lpos", "tpos">>
line_elem == <<"color", "x1", "x2", "y1", "y2", "width", "style", "symbol", "size">>
text_elem == <<"color", "pos", "size", "align", "angle", "value", "font">>
world_elem == <<"color", "cycles", "width", "style", "symbol", "size", "alias">>
graph_elem == <<"axes", "worlds", "foreground", "background", "pos", "scale", "grid", "align", "clip", "lpos">>
Elem(kind) ==
    CASE kind = "axis" -> axis_elem [] kind = "line" -> line_elem [] kind = "text" -> text_elem
      [] kind = "world" -> world_elem [] kind = "graph" -> graph_elem
\* Names that begin alike, as far as that is compared.
Alike == {{"title", "titlepos"}, {"int", "intv", "intervals"}, {"exp", "exponent"}, {"sub", "subtick"},
          {"dec", "decimals"}, {"cyc", "cycles"}, {"color", "colour"}, {"sym", "symbol"}, {"pos", "position"},
          {"grid", "gridtype"}, {"align", "alignment"}, {"clip", "clipping"}, {"alias", "alignment"}}
Starts(match, name) == match = name \/ \E g \in Alike : {match, name} \subseteq g

\* The place of a name, unless a part of it is met more than once.
mpt_property_match(match, part, names) ==
    LET at == {i \in 1 .. Len(names) : IF part THEN Starts(match, names[i]) ELSE match = names[i]} IN
    IF Cardinality(at) # 1 THEN 0 ELSE CHOOSE i \in at : TRUE

\* Type and value of an element's member, and the result of the comparison
\* with the default.  The types of a text's color and position get lost.
Value(kind, e, name) ==
    CASE kind = "axis" /\ name = "intervals" /\ e.log -> <<"s", "log">>
      [] kind = "text" /\ name \in {"color", "pos"} -> <<"none">>
      [] kind = "graph" /\ name = "clip" /\ e.clip < 8 -> <<"s", e.clip>>
      [] OTHER -> <<"value", e[name]>>
Read(kind, e, name) ==
    [name |-> name, val |-> Value(kind, e, name),
     ret |-> CASE Value(kind, e, name)[1] = "none" -> "BadType"
               [] Value(kind, e, name)[1] = "s" -> "changed"
               [] OTHER -> IF e[name] = Default(kind)[name] THEN "default" ELSE "changed"]
NotRead == [name |-> "", val |-> <<"none">>, ret |-> "BadArgument"]
\* A text's coordinates have an answer of their own, both by the first one.
Letter(e, name) ==
    [name |-> name, val |-> <<"value", e[name]>>, ret |-> IF e.x = def_text.x THEN "changed" ELSE "default"]
ReadAt(kind, e, i) == IF i \in 1 .. Len(Elem(kind)) THEN Read(kind, e, Elem(kind)[i]) ELSE NotRead
mpt_element_get(kind, e, name) ==
    IF kind = "text" /\ name \in {"x", "y"} THEN Letter(e, name)
    ELSE ReadAt(kind, e, mpt_property_match(name, kind \in {"axis", "world", "graph"}, Elem(kind)))
-----------------------------------------------------------------------------
(* Colors in hexadecimal digits *)

Digit(c) == CASE c = "0" -> 0 [] c = "f" -> 15
\* A pair of signs: a second one that is no digit is passed over.
Pair(a, b) == IF a = "g" THEN -1 ELSE IF b = "g" THEN Digit(a) ELSE 16 * Digit(a) + Digit(b)
Pairs(txt) == [i \in 1 .. (IF Len(txt) > 8 THEN 4 ELSE Len(txt) \div 2) |-> Pair(txt[2 * i - 1], txt[2 * i])]
\* Up to four pairs; the end of a shorter text is counted with the length.
mpt_color_html(color, txt) ==
    LET p == Pairs(txt)
        part(i) == IF i <= Len(p) THEN p[i] ELSE IF i = 4 THEN 255 ELSE 0 IN
    IF (\E i \in 1 .. Len(p) : p[i] < 0) \/ (Len(txt) < 8 /\ Len(txt) % 2 = 1) THEN [len |-> -1, color |-> color]
    ELSE [len |-> IF Len(txt) >= 8 THEN 8 ELSE Len(txt) + 1, color |-> <<part(4), part(1), part(2), part(3)>>]

mpt_lattr_set(attr, val) ==
    IF \E i \in 1 .. 4 : val[i] > AttrMax[AttrNames[i]] THEN attr
    ELSE [i \in 1 .. 4 |-> IF val[i] >= 0 THEN val[i] ELSE AttrInit[AttrNames[i]]]
-----------------------------------------------------------------------------
ElementKinds == {"axis", "line", "text", "world", "graph"}
OtherNames == {"any", "", "int", "intv", "exp", "sub", "dec", "labelpos", "titlepos", "x", "y", "cyc", "colour", "sym",
               "fg", "bg", "position", "type", "gridtype", "alignment", "clipping", "none"}
NamesOf(kind) == ToSet(Elem(kind)) \cup OtherNames
Elements(kind) == {Default(kind), Other(kind)}

LayoutCalls ==
    \/ \E kind \in ElementKinds : \E e \in Elements(kind), name \in NamesOf(kind), src \in Sources(Other(kind)) :
          /\ ~(Kind(src) = "empty" /\ (name \in PointNames \/ (name = "" /\ kind \in {"text", "graph"})))
          /\ Called("element_set", [kind |-> kind, e |-> e, name |-> name, src |-> src],
                    mpt_element_set(kind, e, name, src))
    \/ \E kind \in ElementKinds : \E e \in Elements(kind), name \in NamesOf(kind) \ {"any", ""} :
          Called("element_get", [kind |-> kind, e |-> e, name |-> name], mpt_element_get(kind, e, name))
    \/ \E n \in 0 .. HexDigits : \E txt \in [1 .. n -> IF n > 4 THEN {"0", "f"} ELSE {"0", "f", "g"}] :
          Called("color_html", txt, mpt_color_html(Black, txt))
    \/ \E v \in [1 .. 4 -> {-1, 3, 9, 30}] : Called("lattr_set", v, mpt_lattr_set(<<2, 2, 2, 2>>, v))

Changed(e, f) == {x \in DOMAIN e : e[x] # f[x]}
\* Members that hold what is read by a name.
Members(kind, name) ==
    CASE kind = "text" /\ name = "pos" -> {"x", "y"} [] name = "intervals" -> {"intervals", "log"} [] OTHER -> {name}
\* mpt_axis_set and its kin change, for a name that mpt_axis_get and its kin
\* use, what is read by that name and nothing else, and nothing at all if they
\* fail.  Left out are a world's color without source, which resets the cycles,
\* and intervals of an axis, which are no longer logarithmic after an error.
SetsOneProperty ==
    call.fn = "element_set" =>
        LET a == call.args
            by == Changed(a.e, call.result.e) IN
        /\ a.name \in ToSet(Elem(a.kind)) /\ ~(a.kind = "world" /\ a.name = "color" /\ Kind(a.src) = "null") =>
              by \subseteq Members(a.kind, a.name)
        /\ call.result.ret # "ok" => by \subseteq {"log"}
\* The element without a source is as in the beginning, by its name or for
\* each property but colors, and a number that the source has is read back.
SourceIsRead ==
    call.fn = "element_set" /\ call.result.ret = "ok" =>
        LET a == call.args
            e == call.result.e
            got == mpt_element_get(a.kind, e, a.name) IN
        /\ Kind(a.src) = "null" /\ a.name = "" => e = Default(a.kind)
        /\ Kind(a.src) = "null" /\ a.name \in ToSet(Elem(a.kind)) /\ a.name # "color" =>
              \A m \in Members(a.kind, a.name) : e[m] = Default(a.kind)[m]
        /\ Kind(a.src) = "num" /\ a.name \in ToSet(Elem(a.kind)) \ {"align", "clip"} => got.val = <<"value", Answer(a.src)>>
\* A width, style, symbol or size is taken if it is within its range.
AttributeRange ==
    /\ call.fn = "element_set" /\ call.args.kind \in {"line", "world"} /\ Kind(call.args.src) = "num"
       /\ call.args.name \in DOMAIN AttrMax =>
          (call.result.ret = "ok" <=> Answer(call.args.src) \in 0 .. AttrMax[call.args.name])
    /\ call.fn = "lattr_set" => \A i \in 1 .. 4 : call.result[i] \in 0 .. AttrMax[AttrNames[i]]
\* A part of a name stands for one property, and the comparison tells if that
\* is as in the beginning; a title's place is hidden by the title.
ReadByPart ==
    call.fn = "element_get" /\ call.result.ret # "BadArgument" =>
        LET a == call.args
            set == Named(a.kind, a.e, a.name, Source("num", 9)) IN
        /\ call.result.ret \in {"default", "changed"} /\ call.result.name \notin {"x", "y", "clip"} =>
              (call.result.ret = "changed"
                <=> \E m \in Members(a.kind, call.result.name) : a.e[m] # Default(a.kind)[m])
        /\ set.ret = "ok" /\ a.name # "titlepos" => Changed(a.e, set.e) \subseteq Members(a.kind, call.result.name)
\* mpt_color_html takes two digits for each part of the color it is given and
\* leaves the others as in black.
HtmlColor ==
    call.fn = "color_html" /\ call.result.len >= 0 /\ "g" \notin ToSet(call.args) =>
        \A i \in 1 .. 4 :
            call.result.color[IF i = 4 THEN 1 ELSE i + 1]
              = IF 2 * i <= Len(call.args) THEN 16 * Digit(call.args[2 * i - 1]) + Digit(call.args[2 * i])
                ELSE IF i = 4 THEN 255 ELSE 0
\* Plot elements are set and read by the names of their properties.
ElementProperties == SetsOneProperty /\ SourceIsRead /\ AttributeRange /\ ReadByPart /\ HtmlColor
=============================================================================
