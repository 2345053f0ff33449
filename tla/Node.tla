-------------------------------- MODULE Node --------------------------------
(***************************************************************************)
(* Lists and trees of named nodes (mptcore/node).  A caller holds nodes    *)
(* and may use every function on them; it inserts only nodes that are      *)
(* linked nowhere, and never below themselves.                             *)
(***************************************************************************)
EXTENDS NodeOps

CONSTANTS Names,       \* identifiers of nodes
          MaxPos,      \* positions asked for are -MaxPos .. MaxPos
          AnySwitch    \* whether mpt_gnode_switch is called for any nodes

ASSUME BoundAssumption == MaxPos \in Nat /\ AnySwitch \in BOOLEAN

VARIABLE heap

Positions == -MaxPos .. MaxPos

\* A copied tree whose children have no parent yet, until it is relinked.
Raw(h) == {n \in h.live : h.children[n] # Nil /\ h.parent[h.children[n]] = Nil}
Pending(h) == Raw(h) \cup UNION {ToSet(Kids(h, n)) : n \in Raw(h)}

Usable == heap.live \ Pending(heap)
Fresh(n, place) ==
    n \in Usable /\ Isolated(heap, n) /\ place \notin Tree(heap, n)

Init ==
    heap = EmptyHeap

New(n, name) ==
    /\ n \notin heap.live
    /\ heap' = mpt_node_new(heap, n, name)

Unlink(n) ==
    /\ n \in Usable
    /\ heap' = mpt_node_unlink(heap, n)

After(p, n) ==
    /\ p \in Usable
    /\ Fresh(n, p)
    /\ heap' = mpt_gnode_after(heap, p, n)

Before(p, n) ==
    /\ p \in Usable
    /\ Fresh(n, p)
    /\ heap' = mpt_gnode_before(heap, p, n)

\* mpt_gnode_add and mpt_node_add, for the first node of a list.
CanAdd(first, n) == first \in Usable /\ heap.prev[first] = Nil /\ Fresh(n, first)
Add(first, pos, n, byName) ==
    /\ CanAdd(first, n)
    /\ heap' = node_insert(heap, first, pos, n, byName)

\* mpt_gnode_insert and mpt_node_insert
Insert(parent, pos, n, byName) ==
    /\ parent \in Usable
    /\ Fresh(n, parent)
    /\ heap' = IF heap.children[parent] = Nil THEN FirstChild(heap, parent, n)
               ELSE node_insert(heap, heap.children[parent], pos, n, byName)

Clear(n) ==
    /\ n \in heap.live
    /\ n \in Usable \/ n \in Raw(heap)
    /\ heap' = mpt_node_clear(heap, n)

Destroy(n) ==
    /\ n \in heap.live
    /\ n \in Usable \/ n \in Raw(heap)
    /\ heap' = mpt_node_destroy(heap, n)

Apart(p, s) == p \notin Tree(heap, s) /\ s \notin Tree(heap, p)

Swap(p, s) ==
    /\ {p, s} \subseteq Usable
    /\ Apart(p, s)
    /\ heap' = mpt_gnode_swap(heap, p, s)

\* The calls for which both halves of the switch are complete: the places
\* are not next to each other, and one with a successor is inside the list
\* of the other.
Switchable(p, s) ==
    /\ heap.next[p] # s /\ heap.next[s] # p
    /\ \A x \in {p, s} : heap.next[x] # Nil =>
           /\ heap.parent[p] = heap.parent[s]
           /\ heap.prev[x] # Nil \/ heap.parent[x] = Nil

CanSwitch(p, s) ==
    {p, s} \subseteq Usable /\ Apart(p, s) /\ (AnySwitch \/ Switchable(p, s))
Switch(p, s) ==
    /\ CanSwitch(p, s)
    /\ heap' = mpt_gnode_switch(heap, p, s)

Copies(k) == {c \in [1 .. k -> Node \ heap.live] : IsInjective(c)}

ListClone(first, copy) ==
    /\ first \in Usable
    /\ ListClones(heap, ListFrom(heap, first))
    /\ heap' = mpt_list_clone(heap, ListFrom(heap, first), copy)

TreeClone(n, top, copy) ==
    /\ n \in Usable
    /\ heap.children[n] # Nil
    /\ ListClones(heap, Kids(heap, n))
    /\ LET g == mpt_list_clone(mpt_node_clone(heap, n, top), Kids(heap, n), copy)
       IN  heap' = [g EXCEPT !.children = Put(@, top, copy[1])]

Relink(n) ==
    /\ n \in Usable \/ n \in Raw(heap)
    /\ heap' = mpt_gnode_relink(heap, n)

Next ==
    \/ \E n \in Node :
        \/ \E name \in Names : New(n, name)
        \/ Unlink(n) \/ Clear(n) \/ Destroy(n) \/ Relink(n)
        \/ n \in heap.live /\ \E copy \in Copies(Len(ListFrom(heap, n))) : ListClone(n, copy)
        \/ \E p \in Node :
            \/ After(p, n) \/ Before(p, n) \/ Swap(p, n) \/ Switch(p, n)
            \/ \E pos \in Positions, byName \in BOOLEAN :
                Add(p, pos, n, byName) \/ Insert(p, pos, n, byName)
        \/ n \in heap.live /\ \E copy \in Copies(Len(Kids(heap, n)) + 1) :
               TreeClone(n, Last(copy), Front(copy))

Spec == Init /\ [][Next]_heap
-----------------------------------------------------------------------------
\* The four members of all nodes describe ordered trees, whatever sequence of
\* insertions, removals, exchanges and copies (mptcore/node) led there; only
\* the children of a tree copied by mpt_tree_clone miss their parent.
WellLinked ==
    /\ PairsAgree(heap) /\ LinksLive(heap) /\ ParentsAgree(heap)
    /\ \A p, c \in heap.live :
           p \notin Raw(heap) =>
               (heap.children[p] = c <=> heap.parent[c] = p /\ heap.prev[c] = Nil)
    /\ \A n \in heap.live : n \notin Closure(heap, ToSet(Kids(heap, n)))

\* mpt_gnode_add and mpt_node_add put a node to the place asked for: it is
\* the n-th (counted from the end for n < 1) of all nodes, or of those with
\* its name, as far as there are so many, next to the others of its name.
PlacedRight ==
    LET Same(s, n, byName) ==
            IF byName THEN SelectSeq(s, LAMBDA x : heap.name[x] = heap.name[n]) ELSE s
        Rank(pos, k) == IF pos > 0 THEN IF pos > k THEN k + 1 ELSE pos
                        ELSE IF k + 1 + pos < 1 THEN 1 ELSE k + 1 + pos
        Right(n, h, at, k, rank) ==
            /\ at[rank] = n
            /\ k > 0 => \/ rank > 1 /\ h.next[at[rank-1]] = n
                        \/ rank <= k /\ h.next[n] = at[rank+1]
        InList(n, h, pos, byName, old, new) ==
            /\ Remove(new, n) = old
            /\ Same(old, n, byName) = <<>> => Last(new) = n
            /\ \E k \in {Len(Same(old, n, byName))} :
                   Right(n, h, Same(new, n, byName), k, Rank(pos, k))
    IN  \A first, n \in Node, pos \in Positions, byName \in BOOLEAN :
            CanAdd(first, n) =>
                \E h \in {node_insert(heap, first, pos, n, byName)} :
                    InList(n, h, pos, byName, ListFrom(heap, first), ListOf(h, n))

\* After mpt_gnode_switch each of the two subtrees is where the other was,
\* and no other place in any list has changed.
SwitchExchanges ==
    \A p, s \in Node : CanSwitch(p, s) =>
        LET h == mpt_gnode_switch(heap, p, s)
            Other(y) == IF y = p THEN s ELSE IF y = s THEN p ELSE y
            Swapped(q) == [i \in DOMAIN q |-> Other(q[i])]
        IN  \A x \in heap.live :
                /\ Kids(h, x) = IF x \in {p, s} THEN Kids(heap, x) ELSE Swapped(Kids(heap, x))
                /\ ListOf(h, x) = Swapped(ListOf(heap, Other(x)))

\* mpt_gnode_add, mpt_node_add and mpt_gnode_switch put nodes where the call
\* says and leave the order of all the others alone.
OrderAsAsked == PlacedRight /\ SwitchExchanges
=============================================================================
