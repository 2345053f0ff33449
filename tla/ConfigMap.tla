----------------------------- MODULE ConfigMap -----------------------------
(***************************************************************************)
(* What a reader of the configuration relies on: a set of paths closed     *)
(* under prefixes, and a value for each of them.                           *)
(***************************************************************************)
EXTENDS Naturals, SequencesExt

CONSTANTS Paths,      \* non-empty sequences of names
          Values,     \* values of elements, NoValue and Default among them
          NoValue,    \* an element created for the sake of others
          Default,    \* the value of an element that was reset
          DocMaps     \* documents, as maps of the same kind

VARIABLE conf

Above(p) == {q \in Paths : IsPrefix(q, p)}
Below(p) == {q \in Paths : IsPrefix(p, q)}

\* Elements are created without value unless they exist.
With(m, S) == [p \in DOMAIN m \cup S |-> IF p \in DOMAIN m THEN m[p] ELSE NoValue]
Without(m, S) == [p \in DOMAIN m \ S |-> m[p]]

Init == conf = <<>>

Assign(p, v) ==
    conf' = [With(conf, Above(p)) EXCEPT
                ![p] = IF v = NoValue /\ p \in DOMAIN conf THEN Default ELSE v]

\* Memory ends while the elements of a path are created.
Begin(p) == conf' = With(conf, Above(p))

Drop(p) == conf' = Without(conf, Below(p))
Clear(p) == conf' = Without(conf, Below(p) \ {p})
Reset(p) == p \in DOMAIN conf /\ conf' = [conf EXCEPT ![p] = NoValue]
ClearAll == conf' = <<>>

\* A document, a map of paths as well, is put below p; what p had there is
\* dropped or kept where the document has no element of its own.
Load(p, doc, keep) ==
    LET new  == [q \in {p \o d : d \in DOMAIN doc} |-> doc[SubSeq(q, Len(p) + 1, Len(q))]]
        base == With(conf, Above(p))
        old  == IF keep THEN base ELSE Without(base, Below(p) \ {p})
    IN  conf' = [q \in DOMAIN old \cup DOMAIN new |->
                    IF q \in DOMAIN new THEN new[q] ELSE old[q]]

Next ==
    \/ \E p \in Paths :
        \/ \E v \in Values : Assign(p, v)
        \/ Begin(p) \/ Drop(p) \/ Clear(p) \/ Reset(p)
        \/ \E doc \in DocMaps, keep \in BOOLEAN : Load(p, doc, keep)
    \/ ClearAll

Spec == Init /\ [][Next]_conf
=============================================================================
