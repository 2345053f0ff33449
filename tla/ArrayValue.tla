----------------------------- MODULE ArrayValue ----------------------------
(***************************************************************************)
(* What the array functions promise their users: every array is a variable *)
(* of its own that holds nothing or a sequence of cells.  Who shares a     *)
(* buffer with whom shows in one place only: data appended to an array may *)
(* also be appended to others of the same value.                           *)
(***************************************************************************)
EXTENDS Naturals, Sequences

CONSTANTS Arrays, Vals, Zero, MaxLen

VARIABLE val

None == [kind |-> "none", data |-> << >>]
Kinds == {"raw", "managed"}
Rep(n, v) == [i \in 1..n |-> v]
Longer(i, j) == IF i < j THEN j ELSE i

Size(x) == Len(val[x].data)

\* Only x changes, to a value of kind k and length n.
Others(x) == \A y \in Arrays \ {x} : val'[y] = val[y]
Becomes(x, k, n) == val'[x].kind = k /\ Len(val'[x].data) = n

\* The data of an array after a copy: an element that refuses to be copied is
\* replaced by one with the default value.
Kept(x) ==
  IF val[x].kind # "managed" THEN {val[x].data}
  ELSE {d \in [1..Size(x) -> Vals] : \A i \in 1..Size(x) : d[i] \in {val[x].data[i], Zero}}

Padded(d, n) == IF n <= Len(d) THEN d ELSE d \o Rep(n - Len(d), Zero)

Init == val = [x \in Arrays |-> None]

\* Data at the end, also at the end of any others that have the same data.
AppendTo(x, n, v) ==
  /\ val[x].kind # "managed"
  /\ Becomes(x, "raw", Size(x) + n)
  /\ val'[x].data = val[x].data \o Rep(n, v)
  /\ \A y \in Arrays \ {x} : val'[y] = val[y] \/ (val[y] = val[x] /\ val'[y] = val'[x])

\* The gap before an insert position behind the end is filled.
Insert(x, pos, n, v) ==
  /\ Becomes(x, IF val[x] = None THEN "raw" ELSE val[x].kind, Longer(Size(x), pos) + n)
  /\ \E d \in Kept(x) :
       LET p == Padded(d, pos)
       IN val'[x].data = SubSeq(p, 1, pos) \o Rep(n, v) \o SubSeq(p, pos + 1, Len(p))

\* Overwrite cells, extending the array as needed.
Write(x, k, off, n, v) ==
  /\ Becomes(x, IF val[x] = None THEN k ELSE val[x].kind, Longer(Size(x), off + n))
  /\ \E d \in Kept(x) :
       LET p == Padded(d, off + n)
       IN val'[x].data = [i \in DOMAIN p |-> IF i \in (off + 1)..(off + n) THEN v ELSE p[i]]

Cut(x, off, n) ==
  /\ off + n <= Size(x)
  /\ Becomes(x, val[x].kind, Size(x) - n)
  /\ val'[x].data = SubSeq(val[x].data, 1, off) \o SubSeq(val[x].data, off + n + 1, Size(x))

Clone(x, y) == val'[x] = val[y]

Drop(x) == val'[x] = None

\* A new array, one prepared for elements of another kind, and one that may not
\* copy what it has start empty.
Empty(x, k) == val'[x] = [kind |-> k, data |-> << >>]

Next ==
  \E x \in Arrays :
    \/ \E n \in 0..MaxLen, v \in Vals : AppendTo(x, n, v)
    \/ /\ Others(x)
       /\ \/ Drop(x)
          \/ \E k \in Kinds : Empty(x, k)
          \/ \E y \in Arrays : Clone(x, y)
          \/ \E off, n \in 0..MaxLen : Cut(x, off, n)
          \/ \E pos, n \in 0..MaxLen, v \in Vals : Insert(x, pos, n, v)
          \/ \E k \in Kinds, off, n \in 0..MaxLen, v \in Vals : Write(x, k, off, n, v)

Spec == Init /\ [][Next]_val

=============================================================================
