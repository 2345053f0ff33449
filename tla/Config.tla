------------------------------- MODULE Config -------------------------------
(***************************************************************************)
(* The global configuration (mptcore/config) as a tree of nodes: its       *)
(* interface assigns, removes and clears elements below a base path, and   *)
(* a parsed document replaces or extends a part of it (mptcore/parse).     *)
(*                                                                         *)
(* A base is a path of its own, empty for the top.  A list is named by its *)
(* owner: Nil for nodeGlobal, a node for its children.                     *)
(***************************************************************************)
EXTENDS NodeOps

CONSTANTS Bases,      \* paths of the configuration interfaces in use
          SubPaths,   \* paths used below a base, the empty one included
          Vals,       \* values that are assigned
          Docs,       \* documents: parser events and the map they stand for
          Frame,      \* address of the root node on the parser's stack
          Care        \* what the code does not get right and callers avoid: a
                      \* call fails inside a path ("memory"), an element goes
                      \* that has no true parent ("orphan"), a section becomes
                      \* an option ("shadow")

ASSUME FrameAssumption == Frame \in Node

VARIABLES heap,       \* nodes
          glob,       \* nodeGlobal
          conf        \* the map a reader expects, changed by Map's actions only

vars == <<heap, glob, conf>>

Default == "default"

AllPaths == {b \o p : b \in Bases, p \in SubPaths} \ {<<>>}

Map == INSTANCE ConfigMap WITH
    Paths <- AllPaths, Values <- Vals \cup {Nil, Default}, NoValue <- Nil, Default <- Default,
    DocMaps <- {d.map : d \in Docs}

None == [h |-> heap, glob |-> glob, node |-> Nil]

Free(h) == Node \ (h.live \cup {Frame})

\* The memory of a new node.  Free nodes differ by nothing but their name.
Pick(h) == CHOOSE n \in Free(h) : TRUE

Begins(s, owner) == IF owner = Nil THEN s.glob ELSE s.h.children[owner]

\* The node the longest known part of a path leads to, and what remains.
mpt_node_query(h, list, path) ==
    LET q[k \in 0 .. Len(path)] ==
            IF k = 0 THEN [node |-> Nil, list |-> list, rest |-> path]
            ELSE LET r == q[k-1]
                     n == IF r.list = Nil \/ Len(r.rest) # Len(path) - k + 1 THEN Nil
                          ELSE mpt_node_locate(h, r.list, 1, path[k])
                 IN  IF n = Nil THEN r
                     ELSE [node |-> n, list |-> h.children[n], rest |-> Tail(r.rest)]
    IN  q[Len(path)]

Lookup(s, path) == mpt_node_query(s.h, s.glob, path)

\* One node of a path: the first of a list gets the parent the caller knows.
LinkNode(s, owner, parent, g, n) ==
    IF Begins(s, owner) # Nil
    THEN [h |-> node_insert(g, Begins(s, owner), 0, n, FALSE), glob |-> s.glob, node |-> n]
    ELSE IF owner = Nil THEN [h |-> g, glob |-> n, node |-> n]
    ELSE [h |-> [g EXCEPT !.children = Put(@, owner, n), !.parent = Put(@, n, parent)],
          glob |-> s.glob, node |-> n]

AddNode(s, owner, parent, name) ==
    LinkNode(s, owner, parent, mpt_node_new(s.h, Pick(s.h), name), Pick(s.h))

WithValue(t, val) == [t EXCEPT !.h.meta = Put(@, t.node, val)]

\* What is left of a path after a query (r) is created in the list of owner;
\* at most "room" nodes can be made.  The owner of the list is not known
\* there, so the first node of an empty list has no parent until the caller
\* sets it.
CreatePath(s, owner, r, val, room) ==
    LET Below(p, name) == AddNode(p, IF p.node = Nil THEN owner ELSE p.node, p.node, name)
        c[k \in 0 .. Len(r.rest)] ==
            IF k = 0 THEN [h |-> s.h, glob |-> s.glob, node |-> r.node]
            ELSE Below(c[k-1], r.rest[k])
        n == IF room < Len(r.rest) THEN room ELSE Len(r.rest)
        Given(t) == IF n < Len(r.rest) THEN [t EXCEPT !.node = Nil]
                    ELSE WithValue(t, IF n = 0 /\ val = Nil THEN Default ELSE val)
    IN  Given(c[n])

mpt_node_assign(s, owner, path, val, room) ==
    CreatePath(s, owner, mpt_node_query(s.h, Begins(s, owner), path), val, room)

\* Mutant: the caller forgets it.
Adopt_Never(s, t) == s

\* The caller of mpt_node_assign completes the first child of t, but only
\* if the whole call was a success.
Adopt(s, t) ==
    IF t = Nil \/ s.node = Nil THEN s
    ELSE [s EXCEPT !.h.parent = Put(@, s.h.children[t], t)]

Childless(h, n) == IF h.children[n] = Nil THEN n ELSE Nil

\* make_global, given what the query for the base found
FoundOrMade(s, base, room, r) ==
    IF r.node = Nil THEN mpt_node_assign(s, Nil, base, Nil, room)
    ELSE IF r.rest = <<>> THEN [h |-> s.h, glob |-> s.glob, node |-> r.node]
    ELSE Adopt(mpt_node_assign(s, r.node, r.rest, Nil, room), Childless(s.h, r.node))

make_global(s, base, room) == FoundOrMade(s, base, room, Lookup(s, base))

\* What remains to be created of a path.
Missing(s, path) == Len(Lookup(s, path).rest)

\* Assignment below the node of a base, which may not have been obtained.
AssignBelow(top, path, val, room) ==
    IF top.node = Nil THEN top
    ELSE IF path = <<>> THEN WithValue(top, IF val = Nil THEN Default ELSE val)
    ELSE Adopt(mpt_node_assign(top, top.node, path, val, room), Childless(top.h, top.node))

configAssign(base, path, val, room) ==
    IF base = <<>> THEN mpt_node_assign(None, Nil, path, val, room)
    ELSE AssignBelow(make_global(None, base, room), path, val, room - Missing(None, base))

\* Removal of the first global element leaves the prev member of its
\* successor, and a node with such a member is not destroyed.
Detach(s, n) ==
    IF n = s.glob
    THEN [h |-> mpt_node_destroy([s.h EXCEPT !.next = Put(@, n, Nil)], n),
          glob |-> s.h.next[n]]
    ELSE [h |-> mpt_node_destroy(mpt_node_unlink(s.h, n), n), glob |-> s.glob]

-----------------------------------------------------------------------------
\* Parser events: a section starts or ends, an option has a value.
Section(name) == [op |-> "section", name |-> name, val |-> Nil]
SectEnd == [op |-> "end", name |-> Nil, val |-> Nil]
Option(name, val) == [op |-> "option", name |-> name, val |-> val]

\* mpt_node_append: w.node is the current element, w.prev the operation
\* before.  Elements behind the start of a section become its children.
mpt_node_append(w, ev) ==
    LET Linked(g, n) ==
            IF w.prev = "section" /\ g.children[w.node] = Nil THEN FirstChild(g, w.node, n)
            ELSE node_insert(g, IF w.prev = "section" THEN g.children[w.node] ELSE w.node,
                             0, n, FALSE)
        Made(n) == [mpt_node_new(w.h, n, ev.name) EXCEPT !.meta = Put(@, n, ev.val)]
    IN  IF ev.op = "end"
        THEN [h |-> w.h, prev |-> "end",
              node |-> IF w.prev = "section" THEN w.node ELSE w.h.parent[w.node]]
        ELSE [h |-> Linked(Made(Pick(w.h)), Pick(w.h)), prev |-> ev.op, node |-> Pick(w.h)]

\* The root of a document is a node on the stack of mpt_parse_node.
ParseConfig(h, doc) ==
    LET root == mpt_node_new(h, Frame, Nil)
        w[k \in 0 .. Len(doc)] ==
            IF k = 0 THEN [h |-> root, node |-> Frame, prev |-> "section"]
            ELSE mpt_node_append(w[k-1], doc[k])
    IN  w[Len(doc)].h

\* mpt_node_move: elements without a namesake in the list of dst go to its
\* end, children of the others are merged.  A namesake without children
\* takes them over, but the old owner keeps its link to them.
Reparent(h, src, curr) ==
    LET kids == ToSet(Kids(h, src)) IN
    [h EXCEPT !.children = Put(@, curr, h.children[src]),
              !.parent = [x \in Node |-> IF x \in kids THEN curr ELSE @[x]]]

RECURSIVE Move(_, _, _, _, _)
Move(h, owner, src, dst, last) ==
    LET nx == h.next[src]
        Kept(g) == Move([g EXCEPT !.children = Put(@, owner, nx)], owner, nx, dst, src)
        Joined(curr) ==
            IF h.children[src] = Nil THEN h
            ELSE IF h.children[curr] = Nil THEN Reparent(h, src, curr)
            ELSE Move(h, src, h.children[src], h.children[curr], h.children[curr])
        Taken(curr) ==
            IF curr = Nil THEN Kept(node_insert(mpt_node_unlink(h, src), last, 0, src, FALSE))
            ELSE Move(Joined(curr), owner, nx, dst, last)
    IN  IF src = Nil THEN h ELSE Taken(mpt_node_locate(h, dst, 1, h.name[src]))

\* The list of the stack node becomes that of n; "set" tells whether its
\* elements learn of their parent.
TakeOver(h, n, set) ==
    LET kids == ToSet(Kids(h, Frame)) IN
    [h EXCEPT !.children = Put(Put(@, n, h.children[Frame]), Frame, Nil),
              !.parent = [x \in Node |-> IF set /\ x \in kids THEN n ELSE @[x]],
              !.live = @ \ {Frame}]

\* the elements below the stack node and those of n become one list
Combined(g, n) ==
    LET first == g.children[Frame] IN
    IF g.children[n] = Nil THEN TakeOver(g, n, FALSE)
    ELSE IF first = Nil THEN [g EXCEPT !.live = @ \ {Frame}]
    ELSE TakeOver(mpt_node_clear(Move(g, n, g.children[n], first, first), n), n, TRUE)

mpt_parse_node(h, n, doc) == Combined(ParseConfig(h, doc), n)

mpt_node_parse(h, n, doc) ==
    Release(mpt_parse_node([h EXCEPT !.children = Put(@, n, Nil)], n, doc),
            Closure(h, ToSet(Kids(h, n))))

\* parser::read of mpt++
ParserRead(h, n, doc) == TakeOver(mpt_node_clear(ParseConfig(h, doc), n), n, TRUE)
-----------------------------------------------------------------------------
Init == heap = EmptyHeap /\ glob = Nil /\ Map!Init

Becomes(s) == \E t \in {s} : heap' = t.h /\ glob' = t.glob

Target(path) == Lookup(None, path)
Found(path) == Target(path).rest = <<>>
Part(path, n) == SubSeq(path, 1, n)

\* configAssign; memory may end after "room" new nodes.
Assign(base, path, val, room) ==
    LET full == base \o path
        need == Missing(None, full) IN
    /\ full # <<>>
    /\ room <= need /\ room <= Cardinality(Free(heap))
    /\ "memory" \in Care => room \in {0, Missing(None, base), need}
    /\ Becomes(configAssign(base, path, val, room))
    /\ IF room = need THEN Map!Assign(full, IF path = <<>> /\ val = Nil THEN Default ELSE val)
       ELSE Map!Begin(Part(full, Len(full) - need + room))

\* configRemove with a path: an element below the base goes.
RemoveElement(base, path) ==
    LET n == Target(base \o path).node IN
    /\ path # <<>>
    /\ Found(base \o path)
    /\ "orphan" \in Care => \A p \in Node : heap.prev[n] = Nil /\ heap.parent[n] = p =>
                                      heap.children[p] = n
    /\ Becomes(Detach(None, n))
    /\ Map!Drop(base \o path)

\* configRemove with an empty path: everything below the base goes.
Clear(base) ==
    /\ base # <<>>
    /\ Found(base)
    /\ Becomes([None EXCEPT !.h = mpt_node_clear(@, Target(base).node)])
    /\ Map!Clear(base)

ClearAll ==
    /\ Becomes([None EXCEPT !.h = Release(@, Closure(@, ToSet(ListFrom(@, glob)))),
                            !.glob = Nil])
    /\ Map!ClearAll

\* configRemove without a path: the base loses its value.
Reset(base) ==
    /\ base # <<>>
    /\ Found(base)
    /\ Becomes([None EXCEPT !.h.meta = Put(@, Target(base).node, Nil)])
    /\ Map!Reset(base)

Elements(doc) == Len(SelectSeq(doc.events, LAMBDA e : e.op # "end"))
Fits(base, doc) ==
    /\ base # <<>>
    /\ Missing(None, base) + Elements(doc) <= Cardinality(Free(heap))
Obtain(base) == make_global(None, base, Missing(None, base))

\* A caller gets the node of the base and lets a document be read to it.
\* A careful one merges only where the children know their parent, and no
\* element without children takes the place of one that has some.
Merge(base, doc) ==
    /\ Fits(base, doc)
    /\ "shadow" \in Care =>
           \A p \in DOMAIN doc.map : Found(base \o p) =>
               \/ heap.children[Target(base \o p).node] = Nil
               \/ \E q \in DOMAIN doc.map : IsStrictPrefix(p, q)
    /\ \E s \in {Obtain(base)} :
           /\ "orphan" \in Care =>
                  \A x \in ToSet(Kids(s.h, s.node)) : s.h.parent[x] = s.node
           /\ Becomes([s EXCEPT !.h = mpt_parse_node(@, s.node, doc.events)])
    /\ Map!Load(base, doc.map, TRUE)

Replace(base, doc) ==
    /\ Fits(base, doc)
    /\ \E s \in {Obtain(base)} : Becomes([s EXCEPT !.h = mpt_node_parse(@, s.node, doc.events)])
    /\ Map!Load(base, doc.map, FALSE)

Read(base, doc) ==
    /\ Fits(base, doc)
    /\ \E s \in {Obtain(base)} : Becomes([s EXCEPT !.h = ParserRead(@, s.node, doc.events)])
    /\ Map!Load(base, doc.map, FALSE)

\* A document with an error: only the base has been created.
ReadFails(base) ==
    /\ base # <<>>
    /\ Missing(None, base) \in 1 .. Cardinality(Free(heap))
    /\ Becomes(Obtain(base))
    /\ Map!Begin(base)

Next ==
    \/ \E base \in Bases :
        \/ \E path \in SubPaths :
            \/ \E val \in Vals \cup {Nil}, room \in 0 .. Cardinality(Node) :
                Assign(base, path, val, room)
            \/ RemoveElement(base, path)
        \/ Clear(base) \/ Reset(base) \/ ReadFails(base)
        \/ \E doc \in Docs : Merge(base, doc) \/ Replace(base, doc) \/ Read(base, doc)
    \/ ClearAll

Spec == Init /\ [][Next]_vars
-----------------------------------------------------------------------------
\* What mpt_node_query finds for every path after any sequence of calls to
\* configAssign, configRemove and the three ways to read a document is what
\* a map of paths to values holds after the same operations.
ReadsAsMap ==
    \A p \in AllPaths :
        LET r == Target(p) IN
        IF p \in DOMAIN conf THEN r.rest = <<>> /\ heap.meta[r.node] = conf[p]
        ELSE r.rest # <<>>

\* The tree that nodeGlobal leads to consists of allocated nodes, each once;
\* next and prev agree in every list, apart from prev of the first node of
\* all, and no list has two nodes of one name.
TreeIntact ==
    LET all == Closure(heap, ToSet(ListFrom(heap, glob)))
        lists == {ListFrom(heap, glob)} \cup {Kids(heap, n) : n \in all}
    IN  /\ all \subseteq heap.live
        /\ \A n \in all : heap.next[n] # Nil => heap.prev[heap.next[n]] = n
        /\ \A l \in lists : \A i, j \in 1 .. Len(l) :
               heap.name[l[i]] = heap.name[l[j]] => i = j
        /\ \A n, m \in all : n # m /\ heap.children[n] # Nil => heap.children[n] # heap.children[m]
        /\ glob # Nil => \A n \in all : heap.children[n] # glob

\* The configuration is one intact tree and reads as a map of paths, whatever
\* was assigned, removed and read from documents before.
TreeAsMap == TreeIntact /\ ReadsAsMap
=============================================================================
