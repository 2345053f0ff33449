------------------------------ MODULE Registry -----------------------------
(***************************************************************************)
(* What the command array promises its users: a partial map from           *)
(* identifiers to handlers, with the identifiers of reservations taken     *)
(* from the message range.                                                 *)
(***************************************************************************)
EXTENDS Naturals

CONSTANTS Ids, MaxId, Contexts, Null, Log

VARIABLE map

Used == DOMAIN map
With(id, c) == [i \in Used \cup {id} |-> IF i = id THEN c ELSE map[i]]
Without(id) == [i \in Used \ {id} |-> map[i]]

Init == Used = {}

\* Register a handler under an identifier, replacing the one it had.
Put(id, c) == map' = With(id, c)

\* Reserve an identifier nobody uses.
Reserve(id, c) == id \notin Used /\ map' = With(id, c)

\* Unregister: by replacing with no handler, or because the answer arrived.
Take(id) == id \in Used /\ map' = Without(id)

Clear == Used' = {}

Next ==
  \/ \E id \in Ids, c \in Contexts : Put(id, c)
  \/ \E id \in 1..MaxId, c \in Contexts \cup {Log} : Reserve(id, c)
  \/ \E id \in Used : Take(id)
  \/ Clear

Spec == Init /\ [][Next]_map

=============================================================================
