------------------------------ MODULE NodeWalk ------------------------------
(***************************************************************************)
(* The four orders in which mpt_gnode_traverse visits a list of trees, as  *)
(* the sequence of nodes its handler is called for (mptcore/node).         *)
(***************************************************************************)
EXTENDS Node

RECURSIVE traverse_pre(_, _)
traverse_pre(h, list) ==
    IF list = <<>> THEN <<>>
    ELSE <<list[1]>> \o traverse_pre(h, Kids(h, list[1])) \o traverse_pre(h, Tail(list))

RECURSIVE traverse_post(_, _)
traverse_post(h, list) ==
    IF list = <<>> THEN <<>>
    ELSE traverse_post(h, Kids(h, list[1])) \o <<list[1]>> \o traverse_post(h, Tail(list))

\* The node comes behind its first child.
RECURSIVE traverse_in(_, _)
traverse_in(h, list) ==
    IF list = <<>> THEN <<>>
    ELSE LET kids == Kids(h, list[1])
             one  == IF kids = <<>> THEN <<>> ELSE <<kids[1]>>
             more == IF kids = <<>> THEN <<>> ELSE Tail(kids)
         IN  traverse_in(h, one) \o <<list[1]>> \o traverse_in(h, more)
                \o traverse_in(h, Tail(list))

\* Next node on the level of n, at most up levels away over common parents.
RECURSIVE mpt_gnode_samelevel(_, _, _)
RECURSIVE FirstBelow(_, _, _)
mpt_gnode_samelevel(h, n, up) ==
    IF n = Nil THEN Nil
    ELSE IF up = 0 \/ h.next[n] # Nil THEN h.next[n]
    ELSE FirstBelow(h, h.parent[n], up - 1)
FirstBelow(h, n, up) ==
    LET t == mpt_gnode_samelevel(h, n, up) IN
    IF t = Nil THEN Nil
    ELSE IF h.children[t] # Nil THEN h.children[t] ELSE FirstBelow(h, t, up)

RECURSIVE mpt_gnode_sublevel(_, _, _)
mpt_gnode_sublevel(h, n, up) ==
    IF n = Nil THEN Nil
    ELSE IF h.children[n] # Nil THEN h.children[n]
    ELSE mpt_gnode_sublevel(h, mpt_gnode_samelevel(h, n, up), up)

\* Mutant: cousins are left out.
Row_List(h, n, up) == ListFrom(h, n)

RECURSIVE Row(_, _, _)
Row(h, n, up) ==
    IF n = Nil THEN <<>> ELSE <<n>> \o Row(h, mpt_gnode_samelevel(h, n, up), up)

RECURSIVE traverse_level(_, _, _)
traverse_level(h, n, up) ==
    IF n = Nil THEN <<>>
    ELSE Row(h, n, up) \o traverse_level(h, mpt_gnode_sublevel(h, n, up), up + 1)
-----------------------------------------------------------------------------
\* Each order of mpt_gnode_traverse visits every node of the trees in a list
\* once: a parent before its children, behind them, or behind the first one,
\* and level by level; nodes of one level are visited from left to right.
WalksComplete ==
    \A first \in Usable :
        heap.prev[first] = Nil /\ heap.parent[first] = Nil =>
        LET list == ListFrom(heap, first)
            all  == Closure(heap, ToSet(list))
            pre  == traverse_pre(heap, list)
            post == traverse_post(heap, list)
            in   == traverse_in(heap, list)
            level == traverse_level(heap, first, 0)
            At(s, n) == CHOOSE i \in 1 .. Len(s) : s[i] = n
            Depth(n) == Len(Chain(heap.parent, n))
            Level(s) == SortSeq(s, LAMBDA x, y : \/ Depth(x) < Depth(y)
                                                 \/ Depth(x) = Depth(y) /\ At(pre, x) < At(pre, y))
        IN  /\ \A s \in {pre, post, in, level} : Len(s) = Cardinality(all) /\ ToSet(s) = all
            /\ level = Level(pre)
            /\ \A s \in {post, in} : Level(s) = level
            /\ \A n \in all : heap.parent[n] # Nil =>
                   LET p == heap.parent[n] IN
                   /\ At(pre, p) < At(pre, n)
                   /\ At(post, n) < At(post, p)
                   /\ At(in, n) < At(in, p) <=> heap.prev[n] = Nil
            /\ \A n \in all : heap.next[n] # Nil =>
                   \A s \in {pre, post, in} : At(s, n) < At(s, heap.next[n])
-----------------------------------------------------------------------------
\* Nodes are alike, and so are names.
Symmetry == Permutations(Node) \cup Permutations(Names)
=============================================================================
