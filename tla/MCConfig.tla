------------------------------ MODULE MCConfig ------------------------------
(* Instances of Config for model checking. *)
EXTENDS Config

CONSTANTS a, b, val, stack, Heap

MCNode == Heap \cup {stack}
Symmetry == Permutations(Heap)
MCBases == {<<>>, <<a>>}
MCSubPaths == {<<>>, <<a>>, <<b>>, <<a, b>>}

\* An option; a section that is new, or exists, with an option in it; two
\* elements of which one may exist.
MCDocs ==
    {[events |-> <<Option(b, val)>>, map |-> <<b>> :> val],
     [events |-> <<Section(a), Option(b, val), SectEnd>>, map |-> <<a>> :> Nil @@ <<a, b>> :> val],
     [events |-> <<Section(a), SectEnd, Option(b, val)>>, map |-> <<a>> :> Nil @@ <<b>> :> val]}
=============================================================================
