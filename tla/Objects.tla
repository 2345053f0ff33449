------------------------------- MODULE Objects -------------------------------
(***************************************************************************)
(* Objects are set through their interface (mptcore/object): from a node   *)
(* list, from arguments, from a text, a value or an iterator, and their    *)
(* properties are listed.  A source is what it answers when it is asked    *)
(* for a text, a number or an iterator.                                    *)
(***************************************************************************)
EXTENDS Integers, Sequences, FiniteSets, SequencesExt, Message

Gives(v) == <<"value", v>>
Nothing == <<"nothing">>
Fails(err) == <<"error", err>>
Answers(text, number, iterator) == [text |-> text, number |-> number, iterator |-> iterator]
NoSource == Answers(<<"no source">>, <<"no source">>, <<"no source">>)
Null == "null"
NoText == "no text"
Numbers == ("4" :> 4) @@ ("30" :> 30)

-----------------------------------------------------------------------------
(* An object behind the interface: a number within a range, a text and     *)
(* points, each with a default.  An answer of nothing is taken for none.   *)

Most == 10
Defaults == [count |-> 1, label |-> "", points |-> <<>>]
AsksFor == [count |-> "number", label |-> "text", points |-> "iterator"]
Refuses(name, v) == name = "count" /\ v \notin 0 .. Most
Kept(name, v) == IF name = "label" /\ v = NoText THEN "" ELSE v

Done(obj) == [err |-> "ok", obj |-> obj]
Refused(err, obj) == [err |-> err, obj |-> obj]
\* Without a name the value is for the text.
set_property(obj, name, src) ==
    LET prop == IF name = Null THEN "label" ELSE name IN
    IF name = Null /\ src = NoSource THEN Refused("BadOperation", obj)
    ELSE IF prop \notin DOMAIN obj THEN Refused("BadArgument", obj)
    ELSE LET answer == src[AsksFor[prop]] IN
         CASE src = NoSource \/ answer = Nothing -> Done([obj EXCEPT ![prop] = Defaults[prop]])
           [] src # NoSource /\ answer[1] = "error" -> Refused(answer[2], obj)
           [] src # NoSource /\ answer[1] = "value" -> IF Refuses(prop, answer[2]) THEN Refused("BadValue", obj)
                                     ELSE Done([obj EXCEPT ![prop] = Kept(prop, answer[2])])

-----------------------------------------------------------------------------
(* Sources that the library makes.                                         *)

\* An empty text gives a number without setting it: the variable of the
\* object keeps what it held.
iterConv(txt, held) ==
    Answers(Gives(txt),
            CASE txt = NoText -> Nothing
              [] txt = "" -> Gives(held)
              [] txt \in DOMAIN Numbers -> Gives(Numbers[txt])
              [] OTHER -> Fails("BadType"),
            IF txt \in {NoText, ""} THEN Fails("BadValue") ELSE Gives(<<txt>>))
mpt_object_set_string(obj, name, txt, held) == set_property(obj, name, iterConv(txt, held))

Value(type, v) == [type |-> type, v |-> v]
NoValue == Value("none", Null)
\* A value of the type that is asked for is copied, with the result for no
\* conversion, which an object takes for no value.
valueConvert(val) ==
    Answers(IF val.type = "text" THEN Nothing ELSE Fails("BadType"),
            CASE val.type = "number" -> Nothing [] val.type = "int" -> Gives(val.v) [] OTHER -> Fails("BadType"),
            Fails("BadType"))
mpt_object_set_value(obj, name, val) ==
    set_property(obj, name, IF val = NoValue THEN NoSource ELSE valueConvert(val))

iteratorConv(args) == Answers(Fails("BadType"), Fails("BadType"), Gives(args))
mpt_object_set_iterator(obj, name, args) == set_property(obj, name, iteratorConv(args))

\* No format, an empty one (the default metatype) or arguments.
mpt_metatype_default == Answers(Fails("BadType"), Fails("BadType"), Fails("BadType"))
mpt_object_set(obj, name, format) ==
    CASE format = Null -> set_property(obj, name, NoSource)
      [] format = "" -> set_property(obj, name, mpt_metatype_default)
      [] OTHER -> mpt_object_set_iterator(obj, name, <<format>>)

-----------------------------------------------------------------------------
(* Node lists.  A node has an identifier, may have children and a value.   *)

Unnamed == "unnamed"
Foreign == "foreign"      \* an identifier that is not UTF-8 text
Skip(why) == "skip " \o why

\* Why a node is not for the object.
HeldBack(match, id, meta) ==
    CASE id = Foreign -> "BadEncoding"
      [] id = Unnamed /\ "Empty" \notin match -> Skip("Empty")
      [] OTHER -> IF meta = NoSource
                  THEN (IF "Default" \in match THEN "ok" ELSE Skip("Default"))
                  ELSE (IF "Change" \in match THEN "ok" ELSE Skip("Change"))
\* A value with a text is set as that text.
mpt_object_set_property(obj, match, id, meta, held) ==
    LET name == IF id = Unnamed THEN Null ELSE id
        set == IF meta = NoSource \/ meta.text[1] = "error" THEN set_property(obj, name, meta)
               ELSE mpt_object_set_string(obj, name, IF meta.text = Nothing THEN NoText ELSE meta.text[2], held)
    IN  CASE HeldBack(match, id, meta) # "ok" -> Refused(HeldBack(match, id, meta), obj)
          [] HeldBack(match, id, meta) = "ok" /\ set.err = "BadArgument" /\ "Unknown" \in match ->
                Refused(Skip("Unknown"), obj)
          [] OTHER -> set

\* What is logged of a node.
Level(err) ==
    CASE err \in {"ok", "BadEncoding", Skip("Change"), Skip("Default")} -> <<"Debug">>
      [] err = "BadArgument" -> <<"Warning">>
      [] err \in {Skip("Empty"), Skip("Type")} -> <<"Info">>
      [] err = Skip("Unknown") -> <<>>
      [] OTHER -> <<"Error">>

NodeType(node) == IF node.children THEN "NonLeafs" ELSE "Leafs"
MatchNext(match) == match \ {"Empty"}
\* Node after node, the object itself is set by the first one at most.
mpt_object_set_nodes(obj, match, nodes, held) ==
    FoldLeft(LAMBDA s, node :
        LET set == IF NodeType(node) \notin s.match THEN Refused(Skip("Type"), s.obj)
                   ELSE mpt_object_set_property(s.obj, s.match, node.id, node.meta, held)
        IN  [obj |-> set.obj, proc |-> s.proc + (IF set.err = "ok" THEN 1 ELSE 0),
             match |-> MatchNext(s.match), told |-> s.told \o Level(set.err)],
        [obj |-> obj, proc |-> 0, match |-> match, told |-> <<>>], nodes)

-----------------------------------------------------------------------------
(* Arguments: texts name=value or a name alone, elements that answer as a  *)
(* property or as a text, and data without a text.                         *)

Text(name, val) == [kind |-> "text", name |-> name, val |-> val]
Element(prop, txt) == [kind |-> "element", prop |-> prop, txt |-> txt]
Data == [kind |-> "data"]
Long == "a name of 256 signs"
NoProperty == [name |-> Null, val |-> NoValue]

\* A text is a value of its own; a name alone gives an empty one.
ArgText(obj, txt) ==
    IF txt.name = Long /\ txt.val # Null THEN Refused("MissingBuffer", obj)
    ELSE LET set == mpt_object_set_value(obj, txt.name, Value("text", txt.val)) IN
         IF set.err = "ok" THEN set ELSE Refused("BadValue", obj)
\* An element as property, then as text; one without text leaves the name of
\* its property.
ArgElement(obj, arg) ==
    LET set == IF arg.prop = NoProperty THEN Refused("BadType", obj)
               ELSE mpt_object_set_value(obj, arg.prop.name, arg.prop.val)
    IN  CASE set.err = "ok" -> set
          [] set.err # "ok" /\ arg.txt.name # Null -> ArgText(obj, arg.txt)
          [] set.err # "ok" /\ arg.txt.name = Null ->
                IF arg.prop = NoProperty THEN Refused("BadValue", obj) ELSE ArgText(obj, Text(arg.prop.name, Null))
SetArgument(obj, arg) ==
    CASE arg.kind = "text" -> ArgText(obj, arg) [] arg.kind = "element" -> ArgElement(obj, arg)
      [] arg.kind = "data" -> Refused("BadValue", obj)

\* The offset of the first argument that fails, or its error if there is none
\* before; zero when all are set.
RECURSIVE ArgsFrom(_, _, _)
ArgsFrom(obj, args, count) ==
    IF args = <<>> THEN [ret |-> <<"offset", 0>>, obj |-> obj]
    ELSE LET set == SetArgument(obj, Head(args)) IN
         IF set.err = "ok" THEN ArgsFrom(set.obj, Tail(args), count + 1)
         ELSE [ret |-> IF count > 0 THEN <<"offset", count>> ELSE <<"error", set.err>>, obj |-> set.obj]
mpt_object_args(obj, args) == ArgsFrom(obj, args, 0)

-----------------------------------------------------------------------------
(* Properties in messages and lists of properties.                         *)

Buffer == 6      \* bound: bytes for an argument of a message

Place(t, c) == CHOOSE i \in 1 .. Len(t) : t[i] = c /\ \A j \in 1 .. i - 1 : t[j] # c
\* Name and value of an argument, in quotes as a whole or with a quoted value.
Property(arg) ==
    LET at == Place(arg, "=")
        name == SubSeq(arg, 1, at - 1)
        val == SubSeq(arg, at + 1, Len(arg))
        closed == val # <<>> /\ Last(val) = Quote
    IN  CASE name # <<>> /\ name[1] = Quote ->
                IF closed THEN [name |-> Tail(name), val |-> Front(val)] ELSE [name |-> name, val |-> val]
          [] ~(name # <<>> /\ name[1] = Quote) /\ closed /\ val[1] = Quote ->
                [name |-> name, val |-> SubSeq(val, 2, Len(val) - 1)]
          [] OTHER -> [name |-> name, val |-> val]

\* The message goes on behind the argument if the handler took the property.
mpt_message_property(msg, sep, refused) ==
    LET arg == mpt_message_argv(msg, sep)
        read == mpt_message_read(arg.msg, arg.len, <<>>)
        Left(err) == [err |-> err, msg |-> msg, prop |-> <<>>]
    IN  CASE arg.len <= 0 -> Left("MissingData")
          [] arg.len >= Buffer -> Left("MissingBuffer")
          [] arg.len \in 1 .. Buffer - 1 /\ "=" \notin ToSet(read.out) -> Left("BadEncoding")
          [] OTHER -> IF refused THEN Left("BadValue")
                      ELSE [err |-> "ok", msg |-> read.msg, prop |-> Property(read.out)]

\* Properties by index, as long as there are some and the handler takes them;
\* the index of the last one or an error.
RECURSIVE ForeachFrom(_, _, _, _, _)
ForeachFrom(props, match, refused, i, seen) ==
    IF i > Len(props) THEN [ret |-> Len(props) - 1, seen |-> seen]
    ELSE LET wanted == (IF props[i].changed THEN "Change" ELSE "Default") \in match
             more == IF wanted THEN Append(seen, i) ELSE seen
         IN  IF wanted /\ i = refused THEN [ret |-> -1, seen |-> more]
             ELSE ForeachFrom(props, match, refused, i + 1, more)
mpt_properties_foreach(props, match, refused) == ForeachFrom(props, match, refused, 1, <<>>)
\* A property is handed on as it is if it has a text or no text can be made.
mprint(prop) == IF prop.data = "printable" THEN "printed" ELSE "as it is"
mpt_properties_print(props, match, refused) ==
    LET each == mpt_properties_foreach(props, match, refused) IN
    [ret |-> each.ret, seen |-> [k \in 1 .. Len(each.seen) |-> <<each.seen[k], mprint(props[each.seen[k]])>>]]

-----------------------------------------------------------------------------
(* The C++ interface: object::set and the attributes of an object.         *)

object_set(obj, name, val, held) ==
    IF val.type = "text" THEN mpt_object_set_string(obj, name, IF val.v = NoText THEN "" ELSE val.v, held)
    ELSE mpt_object_set_value(obj, name, val)
ReadAs == [count |-> "number", label |-> "text", points |-> "points"]
property(obj, name) == Value(ReadAs[name], obj[name])

\* Property after property of another object; without a logger to the first that
\* fails.  Its numbers have the type that is asked for.
object_copy(obj, from, logger, held) ==
    FoldLeft(LAMBDA s, name :
        LET set == object_set(s.obj, name, property(from, name), held) IN
        IF s.failed THEN s ELSE [obj |-> set.obj, failed |-> set.err # "ok" /\ ~logger],
        [obj |-> obj, failed |-> FALSE], <<"count", "label", "points">>)

\* An attribute that could not be set by a text names no property any more.
AttributeStep(a, step, held) ==
    LET As(set, name) == [obj |-> set.obj, name |-> name, ok |-> set.err = "ok"]
        same == As(Refused("BadArgument", a.obj), a.name)
        text == mpt_object_set_string(a.obj, a.name, step.val.v, held)
        value == mpt_object_set_value(a.obj, a.name, step.val)
    IN  CASE step.op = "select" -> IF step.name \in DOMAIN a.obj THEN As(Done(a.obj), step.name) ELSE same
          [] step.op # "select" /\ a.name = Null -> same
          [] step.op = "assign" /\ a.name # Null -> As(text, IF text.err = "ok" THEN a.name ELSE Null)
          [] step.op = "set" /\ a.name # Null -> As(value, a.name)
attribute(obj, steps, held) ==
    FoldLeft(LAMBDA a, step : AttributeStep(a, step, held), [obj |-> obj, name |-> Null, ok |-> TRUE], steps)

\* Node after node to the first that is not set or that the handler refuses.
RECURSIVE SetNode(_, _, _, _, _)
SetNode(obj, nodes, i, refused, held) ==
    IF i > Len(nodes) THEN [obj |-> obj, at |-> 0]
    ELSE LET set == mpt_object_set_property(obj, {"Leafs", "NonLeafs", "Change"}, nodes[i].id, nodes[i].meta, held) IN
         IF set.err # "ok" \/ i = refused THEN [obj |-> set.obj, at |-> i]
         ELSE SetNode(set.obj, nodes, i + 1, refused, held)

-----------------------------------------------------------------------------
Node(id, children, meta) == [id |-> id, children |-> children, meta |-> meta]
Word(txt) == Answers(Gives(txt), Fails("BadType"), Fails("BadType"))
Number(n) == Answers(Fails("BadType"), Gives(n), Fails("BadType"))
Consumed == Answers(Nothing, Nothing, Nothing)
\* Values of all kinds for properties of the object, an unknown one, and no name.
Nodes == {Node("count", FALSE, m) : m \in {NoSource, Word("4"), Word("30"), Word(""), Number(5), Consumed}}
         \cup {Node("label", c, m) : c \in BOOLEAN, m \in {NoSource, Word("lo"), Number(5)}}
         \cup {Node("points", FALSE, m) : m \in {Word("4"), Word("")}}
         \cup {Node(id, FALSE, Word("4")) : id \in {"none", Foreign, Unnamed}}
         \cup {Node(Unnamed, TRUE, Word("lo")), Node(Unnamed, FALSE, NoSource)}
Traverse == {"Empty", "Change", "Default", "Unknown", "Leafs", "NonLeafs"}
Object == [count |-> 3, label |-> "old", points |-> <<"7">>]

Options == {Text("label", "lo"), Text("label", Null), Text("count", "4"), Text("none", Null),
            Text(Long, "lo"), Text(Long, Null)}
Arguments == Options \cup {Data} \cup
    {Element(p, t) : p \in {NoProperty, [name |-> "count", val |-> Value("int", 5)],
                             [name |-> "count", val |-> Value("int", 30)],
                             [name |-> "label", val |-> Value("int", 5)]},
                     t \in {Text(Null, Null), Text("label", "lo"), Text("none", Null)}}
Listed == [changed : BOOLEAN, data : {"text", "printable", "unprintable"}]

Steps == {[op |-> "select", name |-> name, val |-> NoValue] : name \in {"count", "label", "none"}}
         \cup {[op |-> op, name |-> Null, val |-> Value("text", txt)] : op \in {"assign", "set"}, txt \in {"4", "30", "lo"}}
         \cup {[op |-> "set", name |-> Null, val |-> Value("int", n)] : n \in {5, 30}}

Tuples(S, n) == UNION {[1 .. k -> S] : k \in 0 .. n}
ObjectCalls ==
    \/ \E nodes \in Tuples(Nodes, 2), match \in SUBSET Traverse, held \in {2, 200} :
          Called("set_nodes", [nodes |-> nodes, match |-> match, held |-> held],
                 mpt_object_set_nodes(Object, match, nodes, held))
    \/ \E args \in Tuples(Arguments, 2) : Called("args", args, mpt_object_args(Object, args))
    \/ \E name \in {Null, "label", "count", "points", "none"}, format \in {Null, "", "4"} :
          Called("set", [name |-> name, format |-> format], mpt_object_set(Object, name, format))
    \/ \E arg \in Tuples({"a", "=", Quote, Blank}, Buffer), sep \in {Blank, Nul}, refused \in BOOLEAN :
          \E cut \in IF arg = <<>> THEN {0} ELSE {Len(arg), Len(arg) \div 2} :
             LET msg == <<SubSeq(arg, 1, cut), SubSeq(arg, cut + 1, Len(arg))>> IN
             Called("message_property", [msg |-> msg, sep |-> sep, refused |-> refused],
                    mpt_message_property(msg, sep, refused))
    \/ \E props \in Tuples(Listed, 3), match \in SUBSET {"Change", "Default"}, refused \in 0 .. 3 :
          Called("foreach", [props |-> props, match |-> match, refused |-> refused],
                 mpt_properties_print(props, match, refused))
    \/ \E from \in [count : {1, 5}, label : {"", "new"}, points : {<<>>, <<"4">>}], logger \in BOOLEAN :
          Called("copy", from, object_copy(Object, from, logger, 2))
    \/ \E steps \in Tuples(Steps, 3) : Called("attribute", steps, attribute(Object, steps, 2))
    \/ \E nodes \in Tuples(Nodes, 2), refused \in 0 .. 2 :
          Called("set_node", nodes, SetNode(Object, nodes, 1, refused, 2))

\* mpt_object_set_nodes leaves each property as the last node said that was for it:
\* that names it, or is the first and without a name, that is not masked and has a
\* value the property takes.  Other nodes change nothing, and are not counted.
NodesApplied ==
    call.fn = "set_nodes" =>
        LET nodes == call.args.nodes
            match == call.args.match
            \* what node i alone makes of property p
            Alone(i) == mpt_object_set_property(Defaults, Traverse \ {"Unknown"}, nodes[i].id, nodes[i].meta, call.args.held)
            For(p) == {i \in 1 .. Len(nodes) :
                          /\ nodes[i].id = p \/ (p = "label" /\ nodes[i].id = Unnamed /\ i = 1 /\ "Empty" \in match)
                          /\ NodeType(nodes[i]) \in match
                          /\ (IF nodes[i].meta = NoSource THEN "Default" ELSE "Change") \in match
                          /\ Alone(i).err = "ok"}
            LastFor(p) == CHOOSE i \in For(p) : \A j \in For(p) : j <= i IN
        /\ \A p \in DOMAIN Object :
              call.result.obj[p] = IF For(p) = {} THEN Object[p] ELSE Alone(LastFor(p)).obj[p]
        /\ call.result.proc = Cardinality(UNION {For(p) : p \in DOMAIN Object})

\* What an argument says of the object, as a set of at most one property and value:
\* a text is for a text property, without a value it means the default; a number is
\* for the property it is in range of; an element says what its property says, else
\* its text.  Text says nothing of other properties: a name alone is an empty text
\* too, which is no number.
TextSays(t) ==
    IF t.name = "label" THEN {<<"label", IF t.val = Null THEN Defaults["label"] ELSE t.val>>} ELSE {}
PropertySays(p) == IF p.name = "count" /\ p.val.v \in 0 .. Most THEN {<<"count", p.val.v>>} ELSE {}
Says(arg) ==
    CASE arg.kind = "text" -> TextSays(arg)
      [] arg.kind = "element" -> IF PropertySays(arg.prop) # {} THEN PropertySays(arg.prop)
                                 ELSE IF arg.txt.name # Null THEN TextSays(arg.txt) ELSE {}
      [] arg.kind = "data" -> {}
\* Two arguments set their property to its default although they do not say that: a
\* text for a text property, as mpt_value_convert returns 0 for a value of the type
\* that is asked for, and an element without text whose text property was refused, as
\* its name is left for the text.
ResetsText(arg) == <<"label", "lo">> \in Says(arg)
ResetsRefused(arg) ==
    /\ arg.kind = "element" /\ arg.prop # NoProperty /\ arg.txt.name = Null
    /\ PropertySays(arg.prop) = {} /\ arg.prop.name = "label"

\* mpt_object_args returns how many arguments it has set when one fails, and that
\* one says nothing for the object.  Each property is what the last of the arguments
\* before said of it; but ResetsText and ResetsRefused leave the default.
ArgumentsUpToFailure ==
    call.fn = "args" =>
        LET args == call.args
            default == {<<"label", Defaults["label"]>>}
            ret == call.result.ret
            n == IF ret[1] = "error" THEN 0 ELSE IF ret[2] = 0 THEN Len(args) ELSE ret[2]
            Means(i) == IF ResetsRefused(args[i]) THEN default ELSE Says(args[i])
            For(p) == {i \in 1 .. n : \E v \in Means(i) : v[1] = p}
            LastFor(p) == CHOOSE i \in For(p) : \A j \in For(p) : j <= i IN
        /\ \A i \in 1 .. n : Means(i) # {}
        /\ n < Len(args) => Means(n + 1) = {}
        /\ \A p \in DOMAIN Object :
              IF For(p) = {} THEN call.result.obj[p] = Object[p]
              ELSE \/ <<p, call.result.obj[p]>> \in Means(LastFor(p))
                   \/ ResetsText(args[LastFor(p)]) /\ call.result.obj[p] = Defaults[p]

\* mpt_message_property hands on what the argument said, without the quotes around it
\* or its value, and moves the message behind it; else the message stays.  Space
\* that fills the first part is left out: mpt_message_argv repeats what follows.
PropertyAsWritten ==
    call.fn = "message_property" /\ ~(ToSet(Rebase(call.args.msg)[1]) \subseteq {Blank}) =>
        IF call.result.err # "ok" THEN call.result.msg = call.args.msg
        ELSE LET all == Flat(call.args.msg)
                 rest == Flat(call.result.msg)
                 used == SubSeq(all, 1, Len(all) - Len(rest))
                 p == call.result.prop
                 Quoted(t) == <<Quote>> \o t \o <<Quote>>
                 plain == p.name \o <<"=">> \o p.val IN
             /\ used \o rest = all /\ "=" \notin ToSet(p.name)
             /\ \E n \in 0 .. Len(used) :
                   /\ ToSet(SubSeq(used, 1, n)) \subseteq {Blank}
                   /\ SubSeq(used, n + 1, Len(used)) \in
                         {plain, Quoted(plain), p.name \o <<"=">> \o Quoted(p.val)}
                         \cup (IF p.val = <<>> THEN {plain \o <<Quote>>} ELSE {})

\* mpt_properties_foreach hands on each property of the chosen kind once, by its
\* index, up to the first that the handler refuses.
EachOnce ==
    call.fn = "foreach" =>
        LET a == call.args
            all == {i \in 1 .. Len(a.props) : (IF a.props[i].changed THEN "Change" ELSE "Default") \in a.match}
            upto == IF a.refused \in all THEN {i \in all : i <= a.refused} ELSE all
            seen == call.result.seen IN
        /\ {seen[i][1] : i \in 1 .. Len(seen)} = upto /\ Len(seen) = Cardinality(upto)
        /\ \A i \in 1 .. Len(seen) - 1 : seen[i][1] < seen[i + 1][1]
        /\ call.result.ret = -1 <=> (a.refused \in all \/ a.props = <<>>)

\* object::set takes the text of the other object, and leaves a property it cannot
\* convert; but a number that has the type the property asks for, for which
\* mpt_value_convert returns 0, leaves the default.
TextsCopied ==
    call.fn = "copy" =>
        LET obj == call.result.obj IN
        /\ obj.label = call.args.label /\ obj.points = Object.points
        /\ obj.count \in {call.args.count, Defaults.count}

\* An attribute changes the property that was selected last and only that, and none
\* after a text it could not set.
SelectedOnly ==
    call.fn = "attribute" =>
        LET At(n) == attribute(Object, SubSeq(call.args, 1, n), 2) IN
        \A n \in 0 .. Len(call.args) - 1 :
            /\ \A p \in DOMAIN Object : At(n + 1).obj[p] # At(n).obj[p] => p = At(n).name
            /\ ~At(n + 1).ok => At(n + 1).obj = At(n).obj
            /\ At(n).name # Null => \E k \in 1 .. n : call.args[k].op = "select" /\ call.args[k].name = At(n).name

\* object::set applies the nodes before the one it returns, as mpt_object_set_nodes does.
NodesBefore ==
    call.fn = "set_node" =>
        LET at == call.result.at
            Upto(n) == mpt_object_set_nodes(Object, {"Leafs", "NonLeafs", "Change"}, SubSeq(call.args, 1, n), 2) IN
        /\ at = 0 => Upto(Len(call.args)).obj = call.result.obj /\ Upto(Len(call.args)).proc = Len(call.args)
        /\ at > 0 => Upto(at).obj = call.result.obj /\ Upto(at).proc \in {at - 1, at}

\* Objects are set by node lists and messages as these say, by arguments and by other
\* objects with the exceptions that ArgumentsUpToFailure and TextsCopied name.
ObjectProperties ==
    /\ NodesApplied /\ ArgumentsUpToFailure /\ PropertyAsWritten /\ EachOnce
    /\ TextsCopied /\ SelectedOnly /\ NodesBefore
=============================================================================
