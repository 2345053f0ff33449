------------------------------ MODULE NodeOps ------------------------------
(***************************************************************************)
(* The pointers of a node, what they have to say together, and the         *)
(* functions of mptcore/node on lists and trees as operators on a heap: a  *)
(* record of functions, one for each member of MPT_STRUCT(node); "live"    *)
(* are the nodes that are allocated.                                       *)
(***************************************************************************)
EXTENDS Integers, FiniteSets, SequencesExt

CONSTANTS Node,     \* addresses of nodes
          Nil       \* the null pointer

ASSUME NilAssumption == Nil \notin Node
ASSUME MemoryAssumption == IsFiniteSet(Node)

Link == Node \cup {Nil}

\* Assignment through a pointer: nothing happens if x is no node.
Put(f, x, v) == [y \in DOMAIN f |-> IF y = x THEN v ELSE f[y]]

EmptyHeap ==
    LET none == [n \in Node |-> Nil] IN
    [live |-> {}, name |-> none, meta |-> none, next |-> none, prev |-> none,
     parent |-> none, children |-> none]

Isolated(h, n) == h.next[n] = Nil /\ h.prev[n] = Nil /\ h.parent[n] = Nil

mpt_node_new(h, n, name) ==
    [h EXCEPT !.live = @ \cup {n},
              !.name = Put(@, n, name), !.meta = Put(@, n, Nil),
              !.next = Put(@, n, Nil), !.prev = Put(@, n, Nil),
              !.parent = Put(@, n, Nil), !.children = Put(@, n, Nil)]

\* A call without position or with twice the same node changes nothing.
mpt_gnode_after(h, position, insert) ==
    LET nx == h.next[position] IN
    IF position = Nil \/ position = insert THEN h ELSE
    [h EXCEPT !.next = Put(Put(@, insert, nx), position, insert),
              !.prev = Put(Put(@, insert, position), nx, insert),
              !.parent = Put(@, insert, h.parent[position])]

mpt_gnode_before(h, position, insert) ==
    LET pv == h.prev[position] IN
    IF position = Nil \/ position = insert THEN h ELSE
    [h EXCEPT !.next = Put(Put(@, insert, position), pv, insert),
              !.prev = Put(Put(@, insert, pv), position, insert),
              !.parent = Put(@, insert, h.parent[position]),
              !.children = IF pv # Nil THEN @
                           ELSE Put(@, h.parent[position], insert)]

\* The first child is only linked to its parent.
FirstChild(h, parent, n) ==
    [h EXCEPT !.children = Put(@, parent, n), !.parent = Put(@, n, parent)]

\* Mutant: the successor still points back to the node.
mpt_node_unlink_Prev(h, n) ==
    LET nx == h.next[n]
        pv == h.prev[n] IN
    [h EXCEPT !.next = Put(Put(@, pv, nx), n, Nil),
              !.prev = Put(@, n, Nil),
              !.children = IF pv # Nil THEN @ ELSE Put(@, h.parent[n], nx),
              !.parent = Put(@, n, Nil)]

mpt_node_unlink(h, n) ==
    LET nx == h.next[n]
        pv == h.prev[n] IN
    [h EXCEPT !.next = Put(Put(@, pv, nx), n, Nil),
              !.prev = Put(Put(@, nx, pv), n, Nil),
              !.children = IF pv # Nil THEN @ ELSE Put(@, h.parent[n], nx),
              !.parent = Put(@, n, Nil)]

-----------------------------------------------------------------------------
\* What the members mean: prev is the inverse of next, neighbours have one
\* parent, and a parent points to the first of its children.
PairsAgree(h) ==
    \A a, b \in h.live : h.next[a] = b <=> h.prev[b] = a

ParentsAgree(h) ==
    \A a \in h.live : h.next[a] # Nil => h.parent[h.next[a]] = h.parent[a]

ChildrenAgree(h) ==
    \A p, c \in h.live :
        h.children[p] = c <=> h.parent[c] = p /\ h.prev[c] = Nil

\* Members of live nodes lead to live nodes.
LinksLive(h) ==
    \A a \in h.live :
        {h.next[a], h.prev[a], h.parent[a], h.children[a]}
            \subseteq h.live \cup {Nil}

-----------------------------------------------------------------------------
\* Nodes from n on, following one member.
Chain(f, n) ==
    LET c[k \in 0 .. Cardinality(DOMAIN f)] ==
            IF k = 0 THEN IF n = Nil THEN <<>> ELSE <<n>>
            ELSE LET s == c[k-1] IN
                 IF s = <<>> \/ f[Last(s)] = Nil THEN s ELSE Append(s, f[Last(s)])
    IN  c[Cardinality(DOMAIN f)]

ListFrom(h, n) == Chain(h.next, n)
Kids(h, n) == ListFrom(h, h.children[n])
First(h, n) == Last(Chain(h.prev, n))
ListOf(h, n) == ListFrom(h, First(h, n))

\* Nodes of the tree below a set of nodes, the set included.
Closure(h, S) ==
    LET c[k \in 0 .. Cardinality(Node)] ==
            IF k = 0 THEN S
            ELSE LET T == c[k-1] IN T \cup UNION {ToSet(Kids(h, n)) : n \in T}
    IN  c[Cardinality(Node)]
Tree(h, n) == Closure(h, {n})

Nth(s, i) == IF i > Len(s) THEN Nil ELSE s[i]

mpt_gnode_pos(h, n, pos) ==
    IF pos < 0 THEN Nth(Chain(h.prev, n), 1 - pos)
    ELSE IF pos = 0 THEN Last(ListFrom(h, n))
    ELSE Nth(ListFrom(h, n), pos)

\* The i-th one of those with a name.
NthNamed(h, s, i, name) ==
    LET hits == {k \in 1 .. Len(s) : h.name[s[k]] = name}
        found == {s[k] : k \in {j \in hits : Cardinality({m \in hits : m <= j}) = i}}
    IN  IF found = {} THEN Nil ELSE CHOOSE x \in found : TRUE

\* A search for the last one starts at the end of the list and goes back.
mpt_node_locate(h, n, pos, name) ==
    IF pos > 0 THEN NthNamed(h, ListFrom(h, n), pos, name)
    ELSE IF pos = 0 THEN NthNamed(h, Chain(h.prev, Last(ListFrom(h, n))), 1, name)
    ELSE NthNamed(h, Tail(Chain(h.prev, n)), -pos, name)

Get(h, byName, n, pos, node) ==
    IF byName THEN mpt_node_locate(h, n, pos, h.name[node])
    ELSE mpt_gnode_pos(h, n, pos)

\* The node to insert next to, searched from the first fitting one (start).
Beside(h, byName, start, pos, node) ==
    IF start = Nil \/ pos \in {0, 1} THEN start ELSE Get(h, byName, start, pos, node)

\* Mutant of the next definition.
InsertNear_Outer(h, first, pos, node, byName, start, found) ==
    IF found = Nil THEN mpt_gnode_after(h, mpt_gnode_pos(h, first, 0), node)
    ELSE IF pos < 1 THEN mpt_gnode_after(h, found, node)
    ELSE mpt_gnode_before(h, found, node)

\* Without a fitting node the new one goes to the end of the list, without
\* enough of them next to the outermost.
InsertNear(h, first, pos, node, byName, start, found) ==
    IF start = Nil THEN mpt_gnode_after(h, mpt_gnode_pos(h, first, 0), node)
    ELSE IF found # Nil
         THEN IF pos < 1 THEN mpt_gnode_after(h, found, node) ELSE mpt_gnode_before(h, found, node)
    ELSE IF pos < 0 THEN mpt_gnode_before(h, Get(h, byName, first, 1, node), node)
    ELSE mpt_gnode_after(h, Get(h, byName, first, 0, node), node)

node_insert(h, first, pos, node, byName) ==
    LET start == Get(h, byName, first, IF pos > 0 THEN 1 ELSE 0, node)
    IN  InsertNear(h, first, pos, node, byName, start, Beside(h, byName, start, pos, node))

Release(h, S) ==
    [h EXCEPT !.live = @ \ S,
              !.name = [x \in Node |-> IF x \in S THEN Nil ELSE @[x]],
              !.meta = [x \in Node |-> IF x \in S THEN Nil ELSE @[x]],
              !.next = [x \in Node |-> IF x \in S THEN Nil ELSE @[x]],
              !.prev = [x \in Node |-> IF x \in S THEN Nil ELSE @[x]],
              !.parent = [x \in Node |-> IF x \in S THEN Nil ELSE @[x]],
              !.children = [x \in Node |-> IF x \in S THEN Nil ELSE @[x]]]

mpt_node_clear(h, n) ==
    Release([h EXCEPT !.children = Put(@, n, Nil)],
            Closure(h, ToSet(Kids(h, n))))

\* A node that is still linked is not destroyed.
mpt_node_destroy(h, n) ==
    IF Isolated(h, n) THEN Release(h, Tree(h, n)) ELSE h

mpt_gnode_swap(h, pri, sec) ==
    LET pc == ToSet(Kids(h, pri))
        sc == ToSet(Kids(h, sec)) IN
    [h EXCEPT !.children = Put(Put(@, sec, h.children[pri]), pri, h.children[sec]),
              !.parent = [x \in Node |-> IF x \in sc THEN pri
                                         ELSE IF x \in pc THEN sec ELSE @[x]]]

\* One half of mpt_gnode_switch: n takes the place that old had.  The parent
\* is only looked at if the place is the last of its list.
TakePlace(h, n, old, nx, pv, up) ==
    LET g == [h EXCEPT !.next = Put(Put(@, n, nx), pv, n),
                       !.prev = Put(Put(@, n, pv), nx, n)] IN
    IF nx # Nil THEN g
    ELSE [g EXCEPT !.parent = Put(@, n, up),
                   !.children = IF up # Nil /\ @[up] = old THEN Put(@, up, n) ELSE @]

mpt_gnode_switch(h, pri, sec) ==
    LET g == TakePlace(h, pri, sec, h.next[sec], h.prev[sec], h.parent[sec])
    IN  TakePlace(g, sec, pri, h.next[pri], h.prev[pri], h.parent[pri])

\* A copy of one node has no relatives.
mpt_node_clone(h, n, copy) ==
    [mpt_node_new(h, copy, h.name[n]) EXCEPT !.meta = Put(@, copy, h.meta[n])]

\* mpt_list_clone for a list without children: copy[i] stands for the i-th.
\* The parent of the copies is not set.
mpt_list_clone(h, list, copy) ==
    LET c[k \in 0 .. Len(list)] ==
            IF k = 0 THEN h
            ELSE LET g == mpt_node_clone(c[k-1], list[k], copy[k])
                 IN  IF k = 1 THEN g ELSE mpt_gnode_after(g, copy[k-1], copy[k])
    IN  c[Len(list)]

\* A list is copied if no element has children, or if copying them fails:
\* the test of mpt_list_clone is the wrong way round.
Clonable(h) ==
    LET c[k \in 0 .. Cardinality(Node)] ==
            IF k = 0 THEN {}
            ELSE LET T == c[k-1] IN
                 {n \in h.live : \A x \in ToSet(Kids(h, n)) :
                                    h.children[x] = Nil \/ x \notin T}
    IN  c[Cardinality(Node)]
ListClones(h, list) ==
    LET T == Clonable(h) IN
    \A x \in ToSet(list) : h.children[x] = Nil \/ x \notin T

\* The walk of mpt_gnode_relink: parent and prev are restored from children
\* and next; behind a last child it goes on with the next of its parent.
Follow(h, n) ==
    [h EXCEPT !.parent = Put(@, h.next[n], h.parent[n]),
              !.prev = Put(@, h.next[n], n)]
RelinkStep(w) ==
    LET n == w.node
        down == [w.h EXCEPT !.parent = Put(@, w.h.children[n], n)]
        g == IF w.h.children[n] = Nil THEN w.h ELSE Follow(down, n)
        m == IF w.h.children[n] = Nil THEN n ELSE w.h.children[n]
    IN  IF g.next[m] # Nil THEN [h |-> Follow(g, m), node |-> g.next[m]]
        ELSE [h |-> g, node |-> IF g.parent[m] = Nil THEN Nil ELSE g.next[g.parent[m]]]

mpt_gnode_relink(h, n) ==
    LET g == [h EXCEPT !.parent = Put(@, h.children[n], n)]
        w[k \in 0 .. Cardinality(Node)] ==
            IF k = 0 THEN [h |-> g, node |-> h.children[n]]
            ELSE LET v == w[k-1] IN IF v.node \in {Nil, n} THEN v ELSE RelinkStep(v)
    IN  w[Cardinality(Node)].h
=============================================================================
