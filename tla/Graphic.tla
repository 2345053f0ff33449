------------------------------- MODULE Graphic -------------------------------
(***************************************************************************)
(* Where plot data goes.  Bindings of value sources to places in a layout  *)
(* (mptplot/mapping.c, graphic::mapping), the message that asks another    *)
(* process to bind (mpt_output_bind_string), the places that texts name    *)
(* (graphic::target), and the layouts themselves: items made from nodes    *)
(* (add_items) and the axes and worlds their graphs are bound to.          *)
(***************************************************************************)
EXTENDS Integers, Sequences, FiniteSets, SequencesExt, FiniteSetsExt, Calls

CONSTANTS DimMax      \* bound: the last dimension a message can bind (UINT8_MAX)

Sets(dim, state) == [dim |-> dim, state |-> state]
Dest(lay, grf, wld, dim) == [lay |-> lay, grf |-> grf, wld |-> wld, dim |-> dim]
AnySource == Sets(-1, {})
AnyDest == Dest(0, 0, 0, -1)
States == {"Init", "Step", "Fini"}

\* The states a letter stands for, steps without one.
mpt_valsrc_state(letter, single) ==
    CASE letter = "" -> [ret |-> 0, state |-> {"Step"}]
      [] letter # "" /\ ~single -> [ret |-> -1, state |-> {}]
      [] OTHER -> LET Letter(set) == [ret |-> 1, state |-> set] IN
            CASE letter = "i" -> Letter({"Init"}) [] letter = "I" -> Letter(States \ {"Init"})
              [] letter = "s" -> Letter({"Step"}) [] letter = "S" -> Letter(States \ {"Step"})
              [] letter = "f" -> Letter({"Fini"}) [] letter = "F" -> Letter(States \ {"Fini"})
              [] letter = "a" -> Letter(States) [] letter = "A" -> Letter({})
              [] OTHER -> [ret |-> 0, state |-> {"Step"}]

-----------------------------------------------------------------------------
(* The list *)

\* Bindings without state leave, the others close up.
Emptied(bind) == SelectSeq(bind, LAMBDA b : b.src.state # {})

\* A new binding is merged with the first one of the client that is for another
\* place (the comparison of the places is the wrong way round).
mpt_mapping_add(bind, add) ==
    LET same == {i \in 1 .. Len(bind) : bind[i].client = add.client /\ bind[i].dest # add.dest} IN
    CASE same = {} -> [ret |-> 0, bind |-> Append(bind, add)]
      [] same # {} /\ bind[Min(same)].src.dim # add.src.dim -> [ret |-> -3, bind |-> bind]
      [] OTHER -> [ret |-> Min(same), bind |-> [bind EXCEPT ![Min(same)].src.state = @ \cup add.src.state]]

Hit(b, src, dst, client) ==
    /\ b.client = client
    /\ dst = AnyDest \/ b.dest = dst
    /\ src = AnySource \/ b.src.dim = src.dim
\* Nothing is closed up if nothing was hit.
mpt_mapping_del(bind, src, dst, client) ==
    LET hit == {i \in 1 .. Len(bind) : Hit(bind[i], src, dst, client)}
        left == [i \in 1 .. Len(bind) |->
                    IF i \notin hit THEN bind[i]
                    ELSE [bind[i] EXCEPT !.src.state = IF src = AnySource THEN {} ELSE @ \ src.state]]
    IN  [ret |-> Cardinality(hit), bind |-> IF hit = {} THEN bind ELSE Emptied(left)]

\* A negative client stands for all.
mpt_mapping_cmp(b, src, client) ==
    CASE client >= 0 /\ b.client # client -> -1
      [] ~(client >= 0 /\ b.client # client) /\ b.src.dim # src.dim -> -2
      [] OTHER -> IF b.src.state \cap src.state # {} THEN 0 ELSE 1
destinations(bind, src, client) ==
    LET hit == SelectSeq(bind, LAMBDA b : mpt_mapping_cmp(b, src, client) = 0) IN
    [i \in 1 .. Len(hit) |-> hit[i].dest]

-----------------------------------------------------------------------------
(* Cycles by place: graphic::mapping binds to places that have one.        *)

match(key, dst) == key.lay = dst.lay /\ key.grf = dst.grf /\ key.wld = dst.wld
\* The first entry for the place decides, one with fewer dimensions refuses.
cycle(cycles, dst) ==
    LET at == {i \in 1 .. Len(cycles) : match(cycles[i].key, dst)} IN
    at # {} /\ (LET dim == cycles[Min(at)].key.dim IN dim = 0 \/ dst.dim <= dim)
add(cycles, bind, src, dst, client) ==
    IF ~cycle(cycles, dst) THEN [ret |-> "MissingData", bind |-> bind]
    ELSE mpt_mapping_add(bind, [src |-> src, dest |-> dst, client |-> client])

\* A hint names layout, graph and world or leaves them open (-1); the world is
\* compared with the graph of an entry.
clear_cycles(cycles, h) ==
    LET hit == {i \in 1 .. Len(cycles) :
                  /\ h.lay \in {-1, cycles[i].key.lay}
                  /\ h.grf \in {-1, cycles[i].key.grf}
                  /\ h.wld \in {-1, cycles[i].key.grf}
                  /\ cycles[i].has}
    IN  [ret |-> Cardinality(hit),
         cycles |-> [i \in 1 .. Len(cycles) |-> [cycles[i] EXCEPT !.has = @ /\ i \notin hit]]]

-----------------------------------------------------------------------------
(* The message of a binding text: a header, then each destination for the  *)
(* first dimension and for one of its own.  The output takes pushes up to  *)
(* the one that fails; done tells how the message ended.                   *)

Push(s, what) ==
    IF s.failed \/ Len(s.sent) + 1 = s.failAt THEN [s EXCEPT !.failed = TRUE] ELSE [s EXCEPT !.sent = Append(@, what)]
Message(failAt) == [sent |-> <<>>, failed |-> FALSE, failAt |-> failAt, dim |-> 1, to |-> Dest(1, 1, 1, 0)]
Return(s, ret, done) == [ret |-> ret, sent |-> s.sent, done |-> done]
\* The end of the message, or its reset.
Finish(s, len) == IF Push(s, <<"end">>).failed THEN Return(s, -1, "reset") ELSE Return(s, len, "ended")
Open(s, header) == IF s.sent = <<>> THEN Push(s, <<header>>) ELSE s
Pair(s) == Push(Push(s, <<0, [s.to EXCEPT !.dim = 0]>>), <<s.dim, [s.to EXCEPT !.dim = 1]>>)

\* Numbers that are given replace those of the destination before.
Place(to, d) == [x \in DOMAIN to |-> IF d[x] = -1 THEN to[x] ELSE d[x]]
\* A word in front ends the text, behind other destinations it is bad, as a number
\* out of range is everywhere; the message stays open then.
RECURSIVE Bound(_, _, _, _)
Bound(s, dests, first, waits) ==
    IF dests = <<>> \/ (Head(dests).kind = "word" /\ first) THEN Finish(s, 0)
    ELSE IF Head(dests).kind # "place" THEN Return(s, s.dim - 1, IF s.sent = <<>> THEN "none" ELSE "left")
    ELSE LET t == [s EXCEPT !.to = Place(@, Head(dests).to)]
             same == Head(dests).to = Dest(-1, -1, -1, -1)
             open == Open(t, "add")
             p == Pair(open) IN
         CASE same \/ 0 \in {t.to.lay, t.to.grf, t.to.wld} -> Bound(t, Tail(dests), FALSE, waits)
           [] OTHER -> IF t.sent = <<>> /\ ~waits THEN Return(t, -2, "none")
                       ELSE IF open.failed THEN Return(open, -1, "none")
                       ELSE IF p.failed \/ p.dim = DimMax THEN Finish(p, p.dim)
                       ELSE Bound([p EXCEPT !.dim = @ + 1], Tail(dests), FALSE, waits)

NoText == <<[kind |-> "no text", to |-> AnyDest]>>
\* Without a text the bindings are cleared.
mpt_output_bind_string(descr, failAt, waits) ==
    LET clear == Open(Message(failAt), "clear") IN
    CASE descr # NoText -> Bound(Message(failAt), descr, TRUE, waits)
      [] descr = NoText /\ ~waits -> Return(Message(failAt), -2, "none")
      [] descr = NoText /\ waits -> IF clear.failed THEN Return(clear, -1, "none") ELSE Finish(clear, 0)

-----------------------------------------------------------------------------
(* Places in texts: layout, graph and world, each by number, by name or    *)
(* left as it was, and a dimension.  Layouts have an alias and graphs,     *)
(* graphs a name and the names of their worlds.                            *)

Num(n) == [num |-> n, name |-> ""]
Name(name) == [num |-> -1, name |-> name]
Same == Name("")
\* The place of a part in a list of names.
At(part, names) ==
    CASE part.num > 0 -> {i \in 1 .. Len(names) : i = part.num}
      [] part.num = 0 -> {}
      [] part.num < 0 -> LET all == {i \in 1 .. Len(names) : names[i] = part.name} IN
                         {i \in all : \A j \in all : i <= j}
Chosen(part, was, names) == IF part = Same THEN {was} \cap 1 .. Len(names) ELSE At(part, names)
Names(list) == [i \in 1 .. Len(list) |-> list[i].name]
The(S) == CHOOSE x \in S : TRUE

Long == "x1"      \* more than a letter
Dimension == ("x" :> 0) @@ ("y" :> 1) @@ ("z" :> 2) @@ ("7" :> 7)
Stored(dim) == dim # ""
\* A world with a dimension behind it is never read: the text of the graph is
\* taken for it.  Without dimension nothing is stored.
target(layouts, old, text) ==
    LET Bad(err) == [ret |-> err, match |-> {}, dst |-> old]
        lay == Chosen(text[1], old.lay, Names(layouts))
        grf == Chosen(text[2], old.grf, Names(layouts[The(lay)].graphs))
        read == IF Len(text) = 4 THEN text[2] ELSE text[3]
        worlds == layouts[The(lay)].graphs[The(grf)].worlds
        wld == IF text[3] = Same THEN Chosen(Same, old.wld, worlds) ELSE At(read, worlds)
        dim == IF Len(text) = 4 THEN text[4].name ELSE ""
        By(i, level) == IF text[i] = Same THEN {} ELSE {level}
        path == IF text[3] # Same /\ read.num > 0 THEN {"World"}
                ELSE By(1, "Layout") \cup By(2, "Graph") \cup By(3, "World")
        dst == Dest(The(lay), The(grf), The(wld), IF dim \in DOMAIN Dimension THEN Dimension[dim] ELSE old.dim)
    IN  IF Len(text) = 1 THEN Bad("MissingData") ELSE IF lay = {} THEN Bad("BadValue")
        ELSE IF Len(text) = 2 THEN Bad(IF text[2] = Same THEN "BadArgument" ELSE "MissingData") ELSE IF grf = {} \/ wld = {} THEN Bad("BadValue")
        ELSE IF dim = Long THEN Bad("MissingData")
        ELSE IF dim # "" /\ dim \notin DOMAIN Dimension THEN Bad("BadValue")
        ELSE [ret |-> "ok", match |-> path \cup (IF dim = "" THEN {} ELSE {"Dimension"}),
              dst |-> IF Stored(dim) THEN dst ELSE old]

\* Layouts on their places, one that was freed is used again if that is asked for.
add_layout(layouts, lay, reuse) ==
    LET free == {i \in 1 .. Len(layouts) : layouts[i] = 0} IN
    IF reuse /\ free # {} THEN [layouts EXCEPT ![Min(free)] = lay] ELSE Append(layouts, lay)
remove_layout(layouts, lay) ==
    LET at == {i \in 1 .. Len(layouts) : layouts[i] = lay} IN
    IF at = {} THEN layouts ELSE [layouts EXCEPT ![Min(at)] = 0]

\* A hint covers all, a layout, a graph or a world (its level); two are merged
\* into one that covers both where they agree or the mask lets them differ.
Hint(level, lay, grf, wld) == [level |-> level, lay |-> lay, grf |-> grf, wld |-> wld]
merge(h, with, mask) ==
    LET To(level) == [ok |-> TRUE, hint |-> [h EXCEPT !.level = level]]
        differ == [ok |-> FALSE, hint |-> h]
    IN  IF h.level = 0 THEN To(0) ELSE IF with.level = 0 THEN To(0)
        ELSE IF h.lay # with.lay /\ "Layout" \notin mask THEN differ
        ELSE IF h.level = 1 \/ with.level = 1 THEN To(1)
        ELSE IF h.grf # with.grf /\ "Graph" \notin mask THEN differ
        ELSE IF h.level = 2 \/ with.level # 3 \/ "World" \notin mask THEN To(2)
        ELSE IF h.wld = with.wld THEN To(3) ELSE differ

-----------------------------------------------------------------------------
(* Items of layouts and graphs, made from nodes.  Graphs have a list of    *)
(* axes and one of worlds as properties, others a title; all are texts.    *)

GroupKinds == {"layout", "graph"}
Properties(kind) == CASE kind = "layout" -> {"alias"} [] kind = "graph" -> {"axes", "worlds"} [] OTHER -> {"title"}
Item(kind, name) ==
    [kind |-> kind, name |-> name, props |-> [p \in Properties(kind) |-> <<>>],
     items |-> <<>>, axes |-> <<>>, worlds |-> <<>>, graphs |-> <<>>]
Creates == {"graph", "axis", "world"}

\* The words of a node's identifier are the kind of an item, its name and the
\* names of those it is made after.  A node has children or a text, or shares a
\* metatype with the group.
Node(words, text, children) == [words |-> words, text |-> text, children |-> children]
Shared == <<"shared metatype">>
Foreign == <<"foreign">>      \* an identifier that is not UTF-8 text

\* The first item of that kind and name in the group or those around it; parts of
\* a dotted name are looked for in the items of an item, which has none to show.
Dotted == {"a.b"}
Missing == Item("none", "")
find(chain, kind, name) ==
    LET found == SelectSeq(FlattenSeq(chain), LAMBDA it : it.kind = kind /\ it.name = name) IN
    IF name \in Dotted \/ found = <<>> THEN Missing ELSE found[1]

set(it, name, text) == IF name \in DOMAIN it.props THEN [it EXCEPT !.props[name] = text] ELSE it
Added(to, it) == [to EXCEPT !.items = Append(@, it)]
\* Each of those it is made after overwrites all properties.
Inherit(it, names, chain) ==
    FoldLeft(LAMBDA s, name : IF ~s.ok \/ find(chain, it.kind, name) = Missing THEN [s EXCEPT !.ok = FALSE]
                              ELSE [s EXCEPT !.it.props = find(chain, it.kind, name).props],
             [ok |-> TRUE, it |-> it], names)
Conflict(to, kind, name) == find(<<to.items>>, kind, name) # Missing

\* Node after node, to the first that stops all.  The children of an item follow it.
RECURSIVE add_items(_, _, _)
add_items(to, nodes, outer) ==
    IF nodes = <<>> THEN [ok |-> TRUE, to |-> to]
    ELSE LET node == Head(nodes)
             kind == node.words[1]
             group == to.kind \in GroupKinds
             made == Inherit(Item(kind, node.words[2]), SubSeq(node.words, 3, Len(node.words)), <<to.items>> \o outer)
             inner == add_items(made.it, node.children, <<Added(to, made.it).items>> \o outer)
             Next(t) == add_items(t, Tail(nodes), outer) IN
         CASE group /\ node.text = Shared -> Next(Added(to, Item("shared", kind)))
           [] ~(group /\ node.text = Shared) /\ node.words = Foreign -> [ok |-> FALSE, to |-> to]
           [] OTHER -> IF ~group \/ node.text # <<>> THEN Next(IF Len(node.words) = 1 THEN set(to, kind, node.text) ELSE to)
                       ELSE IF kind \notin Creates \/ Len(node.words) = 1 THEN Next(to)
                       ELSE IF Conflict(to, kind, node.words[2]) THEN Next(to)
                       ELSE IF ~made.ok THEN [ok |-> FALSE, to |-> to]
                       ELSE IF ~inner.ok THEN [ok |-> FALSE, to |-> Added(to, inner.to)]
                       ELSE Next(Added(to, inner.to))

\* Axes and worlds of a graph are those it lists, or its items.
Mine(g, kind) == SelectSeq(g.items, LAMBDA it : it.kind = kind)
Listed(g, kind, names, chain) ==
    IF names = <<>> THEN [ok |-> TRUE, list |-> Mine(g, kind)]
    ELSE [ok |-> \A i \in 1 .. Len(names) : find(chain, kind, names[i]) # Missing,
          list |-> [i \in 1 .. Len(names) |-> find(chain, kind, names[i])]]
\* All or nothing.  (A graph within a graph is left out.)
BindGraph(g, outer) ==
    LET chain == <<g.items>> \o outer
        axes == Listed(g, "axis", g.props.axes, chain)
        worlds == Listed(g, "world", g.props.worlds, chain)
    IN  IF axes.ok /\ worlds.ok THEN [ok |-> TRUE, g |-> [g EXCEPT !.axes = axes.list, !.worlds = worlds.list]]
        ELSE [ok |-> FALSE, g |-> g]
\* Graph after graph to the first that fails; the graphs of the layout are
\* replaced if none does.
BindItems(items) ==
    FoldLeft(LAMBDA s, it :
        LET bound == BindGraph(it, <<items>>) IN
        IF ~s.ok \/ it.kind # "graph" THEN [s EXCEPT !.items = Append(@, it)]
        ELSE [ok |-> bound.ok, items |-> Append(s.items, bound.g)],
        [ok |-> TRUE, items |-> <<>>], items)
BindLayout(layout) ==
    LET bound == BindItems(layout.items) IN
    [ok |-> bound.ok,
     layout |-> [layout EXCEPT !.items = bound.items,
                               !.graphs = IF bound.ok THEN Mine(bound, "graph") ELSE @]]
load(layout, nodes) ==
    LET added == add_items([layout EXCEPT !.items = <<>>], nodes, <<>>) IN
    IF added.ok THEN BindLayout(added.to) ELSE [ok |-> FALSE, layout |-> added.to]

-----------------------------------------------------------------------------
(* Clients bind and unbind; texts are sent.                                *)

\* The last place has more dimensions than its cycle.
Places == {Dest(0, 0, 0, 0), Dest(0, 1, 0, 1), Dest(0, 1, 0, 2)}
Cycles == <<[key |-> Dest(0, 0, 0, 0), has |-> TRUE], [key |-> Dest(0, 1, 0, 1), has |-> FALSE]>>
Clients == {1, 2}
Op(fn, src, dst, client) == [fn |-> fn, src |-> src, dst |-> dst, client |-> client]
Ops == {Op("add", Sets(dim, st), dst, c) : dim \in {0, 1}, st \in {{"Init"}, {"Step"}}, dst \in Places, c \in Clients}
       \cup {Op("del", src, dst, c) : src \in {AnySource, Sets(0, {"Init"}), Sets(0, States)},
                                      dst \in {AnyDest, Dest(0, 0, 0, 0)}, c \in Clients}
Apply(bind, op) ==
    IF op.fn = "add" THEN add(Cycles, bind, op.src, op.dst, op.client).bind
    ELSE mpt_mapping_del(bind, op.src, op.dst, op.client).bind
Applied(ops) == FoldLeft(Apply, <<>>, ops)

To(lay, grf, wld) == [kind |-> "place", to |-> Dest(lay, grf, wld, -1)]
Destinations == {To(2, -1, -1), To(-1, 3, 2), To(0, -1, -1), To(-1, -1, -1),
          [kind |-> "word", to |-> AnyDest], [kind |-> "range", to |-> AnyDest]}
Descriptions == {NoText} \cup UNION {[1 .. n -> Destinations] : n \in 0 .. 3}

Graph(name, worlds) == [name |-> name, worlds |-> worlds]
Shown == <<[name |-> "l", graphs |-> <<Graph("g", <<"u", "g">>), Graph("h", <<"u">>)>>],
           [name |-> "", graphs |-> <<Graph("u", <<"g">>)>>]>>
Parts == {Num(n) : n \in 0 .. 2} \cup {Name(t) : t \in {"l", "g", "u"}} \cup {Same}
Hints == {Hint(level, l, g, w) : level \in 0 .. 3, l \in {0, 1}, g \in {0, 1}, w \in {0, 1}}

Leaf(words) == Node(words, <<>>, <<>>)
Assign(name, text) == Node(<<name>>, text, <<>>)
LayoutNodes ==
    {Leaf(w) : w \in {<<"axis", "a">>, <<"axis", "b", "a">>, <<"axis", "a.b">>, <<"axis">>, <<"other", "a">>,
                      <<"world", "w">>, <<"world", "a">>, <<"graph", "h", "g">>, Foreign}}
    \cup {Assign("alias", <<"l">>), Assign("axis", Shared),
          Node(<<"axis", "a">>, <<>>, <<Assign("title", <<"t">>), Leaf(<<"none">>)>>)}
    \cup {Node(<<"graph", "g">>, <<>>, kids) :
             kids \in {<<Assign("axes", <<"a">>)>>, <<Assign("axes", <<"a", "a.b">>)>>, <<Assign("worlds", <<"w">>)>>,
                       <<Leaf(<<"axis", "a">>), Leaf(<<"axis", "c", "b">>)>>,
                       <<Leaf(<<"axis", "a">>), Assign("worlds", <<"w", "a">>), Assign("axes", <<"b", "a">>)>>}}
Before == [Item("layout", "") EXCEPT !.items = <<Item("axis", "b")>>, !.graphs = <<Item("graph", "old")>>]

GraphicCalls ==
    \/ \E ops \in UNION {[1 .. n -> Ops] : n \in 1 .. 3} :
          /\ ops[1].fn = "add" /\ ops[1].client = 1
          /\ Called("mapping", ops, Applied(ops))
    \/ \E descr \in Descriptions, failAt \in 0 .. 7, waits \in BOOLEAN :
          Called("bind", [descr |-> descr, waits |-> waits], mpt_output_bind_string(descr, failAt, waits))
    \/ \E letter \in {"", "i", "I", "s", "S", "f", "F", "a", "A", "x"}, single \in BOOLEAN :
          Called("state", [letter |-> letter, single |-> single], mpt_valsrc_state(letter, single))
    \/ \E h \in [lay : {-1, 0}, grf : {-1, 0, 1}, wld : {-1, 0, 1}] : Called("clear", h, clear_cycles(Cycles, h))
    \/ \E text \in UNION {[1 .. n -> Parts] : n \in 1 .. 3}, dim \in {<<>>} \cup {<<Name(d)>> : d \in {"", "y", "7", "q", Long}},
          old \in {Dest(1, 1, 2, 5), Dest(2, 1, 1, 0), Dest(0, 2, 1, 0)} :
          /\ dim # <<>> => Len(text) = 3
          /\ Called("target", [text |-> text \o dim, old |-> old], target(Shown, old, text \o dim))
    \/ \E h, with \in Hints, mask \in SUBSET {"Layout", "Graph", "World"} :
          Called("merge", [hint |-> h, with |-> with, mask |-> mask], merge(h, with, mask))
    \/ \E layouts \in UNION {[1 .. n -> 0 .. 2] : n \in 0 .. 3}, lay \in {1, 2, 3}, fn \in {"remove", "append", "reuse"} :
          Called("layouts", [layouts |-> layouts, lay |-> lay],
                 IF fn = "remove" THEN remove_layout(layouts, lay) ELSE add_layout(layouts, lay, fn = "reuse"))
    \/ \E nodes \in UNION {[1 .. n -> LayoutNodes] : n \in 1 .. 3} : Called("load", nodes, load(Before, nodes))

Of(bind, client) == SelectSeq(bind, LAMBDA b : b.client = client)
\* op takes a state of a source at dst back.
Undoes(op, dst, dim, state) ==
    /\ op.fn = "del" /\ op.dst \in {AnyDest, dst}
    /\ op.src = AnySource \/ (op.src.dim = dim /\ state \in op.src.state)
BoundBy(ops, dst, dim, state) ==
    \E k \in 1 .. Len(ops) :
        /\ ops[k].fn = "add" /\ ops[k].dst = dst /\ ops[k].src.dim = dim /\ state \in ops[k].src.state
        /\ \A j \in k + 1 .. Len(ops) : ~Undoes(ops[j], dst, dim, state)

\* What a client bound and unbound decides alone where its data goes, and only to
\* places it named that have a cycle.  A client that names one place has each state
\* of a source go there exactly when it was bound and not deleted since
\* (mpt_mapping_add, mpt_mapping_del).  With a second place that is not so: it is
\* merged into the binding for the first one, see mpt_mapping_add.
ClientsApart ==
    call.fn = "mapping" =>
        \A c \in Clients :
            LET own == SelectSeq(call.args, LAMBDA op : op.client = c)
                bind == Of(call.result, c)
                named == {dst \in {op.dst : op \in {o \in ToSet(own) : o.fn = "add"}} : cycle(Cycles, dst)} IN
            /\ bind = Applied(own)
            /\ \A b \in ToSet(bind) : b.dest \in named /\ b.src.state # {}
            /\ \A dst \in named : named = {dst} =>
                  \A dim \in {0, 1}, state \in States :
                     (destinations(call.result, Sets(dim, {state}), c) # <<>>) <=> BoundBy(own, dst, dim, state)

\* A message that was begun is ended or reset, unless a destination is bad, and what
\* is ended names the first dimension and the next one for each destination in turn.
BoundInPairs ==
    call.fn = "bind" =>
        LET sent == call.result.sent
            pairs == (Len(sent) - 1) \div 2 IN
        /\ call.result.done = "left" => \E i \in 1 .. Len(call.args.descr) : call.args.descr[i].kind # "place"
        /\ call.result.done = "none" => sent = <<>>
        /\ call.result.done \in {"ended", "left"} /\ sent # <<>> =>
              /\ Len(sent) = 2 * pairs + 1 /\ Len(sent[1]) = 1
              /\ \A i \in 1 .. pairs : LET x == sent[2 * i]
                                           y == sent[2 * i + 1] IN
                    /\ x[1] = 0 /\ y[1] = i /\ x[2].dim = 0 /\ y[2].dim = 1
                    /\ [x[2] EXCEPT !.dim = 1] = y[2] /\ 0 \notin {y[2].lay, y[2].grf, y[2].wld}

\* A capital letter stands for the states that the small one does not, and what is no
\* source leaves the states of a step.
StatesByLetter ==
    call.fn = "state" =>
        LET Meant(letter) == mpt_valsrc_state(letter, TRUE).state IN
        /\ \A pair \in {<<"i", "I">>, <<"s", "S">>, <<"f", "F">>, <<"a", "A">>} :
              Meant(pair[1]) \cup Meant(pair[2]) = States /\ Meant(pair[1]) \cap Meant(pair[2]) = {}
        /\ call.result.ret = 0 => call.result.state = {"Step"}

\* The hint decides which cycles are dropped, others stay (graphic::mapping::clear_cycles).
ClearedByHint ==
    call.fn = "clear" =>
        /\ \A i \in 1 .. Len(Cycles) :
              call.result.cycles[i].has # Cycles[i].has => Cycles[i].key.grf \in {call.args.grf, call.args.wld} \/ call.args.grf = -1
        /\ \A i \in 1 .. Len(Cycles) : call.result.cycles[i].has => Cycles[i].has

\* graphic::target stores a place for a text with a dimension only: one that exists,
\* as it was where the text is empty and with the layout and graph the text names.
TargetExists ==
    call.fn = "target" =>
        LET text == call.args.text
            old == call.args.old
            dst == call.result.dst IN
        IF call.result.ret # "ok" \/ "Dimension" \notin call.result.match THEN dst = old
        ELSE /\ Len(text) = 4 /\ dst.dim = Dimension[text[4].name]
             /\ dst.lay \in 1 .. Len(Shown) /\ dst.grf \in 1 .. Len(Shown[dst.lay].graphs)
             /\ dst.wld \in 1 .. Len(Shown[dst.lay].graphs[dst.grf].worlds)
             /\ text[1] = Same => dst.lay = old.lay
             /\ text[1] # Same => text[1].num = dst.lay \/ text[1].name = Shown[dst.lay].name
             /\ text[2] # Same => text[2].num = dst.grf \/ text[2].name = Shown[dst.lay].graphs[dst.grf].name
             /\ text[3] = Same => dst.wld = old.wld

Covered(h) ==
    {p \in [1 .. 3 -> {0, 1}] : (h.level >= 1 => p[1] = h.lay) /\ (h.level >= 2 => p[2] = h.grf) /\ (h.level = 3 => p[3] = h.wld)}
\* graphic::hint::merge covers both hints, or leaves the first as it was; a mask
\* lets the place of a level differ.
MergeCovers ==
    call.fn = "merge" =>
        LET h == call.args.hint
            m == call.result.hint IN
        /\ ~call.result.ok => m = h
        /\ call.result.ok /\ call.args.mask \subseteq {"World"} => Covered(h) \cup Covered(call.args.with) \subseteq Covered(m)

\* Layouts that stay keep their place, which bindings name.
PlacesStay ==
    call.fn = "layouts" =>
        \A i \in 1 .. Len(call.args.layouts) :
            call.result[i] # call.args.layouts[i] => 0 \in {call.result[i], call.args.layouts[i]}

NamedOnce(items) ==
    \A i, j \in 1 .. Len(items) :
        i # j /\ items[i].kind = items[j].kind /\ items[i].kind # "shared" => items[i].name # items[j].name \/ items[i].name \in Dotted
\* A graph has the axes and worlds it lists, or its own.
IsBound(g) ==
    \A kind \in {"axis", "world"} :
        LET list == IF kind = "axis" THEN g.axes ELSE g.worlds
            names == IF kind = "axis" THEN g.props.axes ELSE g.props.worlds IN
        IF names = <<>> THEN list = SelectSeq(g.items, LAMBDA it : it.kind = kind)
        ELSE Len(list) = Len(names) /\ \A i \in 1 .. Len(names) : list[i].name = names[i] /\ list[i].kind = kind
Unbound(g) == g.axes = <<>> /\ g.worlds = <<>>
\* Items of a kind are named once in their group (add_items).  A graph is bound as a
\* whole or not at all, graphs behind one that is not bound are not, and the layout
\* shows its graphs if all are bound, else those of before (layout::bind).
BoundWhole ==
    call.fn = "load" =>
        LET lay == call.result.layout
            graphs == SelectSeq(lay.items, LAMBDA it : it.kind = "graph") IN
        /\ NamedOnce(lay.items) /\ \A i \in 1 .. Len(graphs) : NamedOnce(graphs[i].items)
        /\ \A i \in 1 .. Len(graphs) : IsBound(graphs[i]) \/ (~call.result.ok /\ Unbound(graphs[i]))
        /\ \A i, j \in 1 .. Len(graphs) : i < j /\ ~Unbound(graphs[j]) => IsBound(graphs[i])
        /\ lay.graphs = IF call.result.ok THEN graphs ELSE Before.graphs

\* Bindings are kept apart by client, go to the one place a client names and are sent
\* whole, texts name places that exist and
\* layouts show graphs that are bound.
BindingsHold ==
    /\ ClientsApart /\ BoundInPairs /\ StatesByLetter /\ ClearedByHint
    /\ TargetExists /\ MergeCovers /\ PlacesStay /\ BoundWhole
=============================================================================
