------------------------------- MODULE Array -------------------------------
(***************************************************************************)
(* The arrays of mptcore/array: handles on reference counted buffers that  *)
(* are copied before an operation that needs a private one.  The content   *)
(* is raw data or a sequence of managed elements (type traits with init    *)
(* and fini), one cell per element.  Buffers are those of                  *)
(* _mpt_buffer_alloc; all operations run in the thread of the caller.      *)
(***************************************************************************)
EXTENDS Integers, Sequences, FiniteSets
LOCAL INSTANCE TLC

CONSTANTS
  Arrays,     \* array handles
  Bufs,       \* places on the heap for buffers
  Vals,       \* values of a cell
  Zero,       \* cleared memory, and the value of a default element
  Dead,       \* an element after its fini that is still in the used part
  Null,       \* an array without buffer
  Granule,    \* allocation unit of a buffer (_mpt_buffer_alloc_psize)
  Header,     \* size of the buffer header, part of the allocation
  MaxLen      \* bound of the model on the used part of a buffer

ASSUME CellAssumption == Zero \in Vals /\ Dead \notin Vals
ASSUME HandleAssumption == Null \notin Bufs /\ IsFiniteSet(Arrays) /\ IsFiniteSet(Bufs)
ASSUME SizeAssumption ==
  /\ Granule \in Nat \ {0}
  /\ Header \in Nat \ {0}
  /\ MaxLen \in Nat

VARIABLES
  heap,   \* the buffers
  at,     \* the buffer of an array
  inst    \* managed elements initialised and not finalised

vars == <<heap, at, inst>>

Kinds == {"raw", "managed"}
Buffer(r, k, nc, s, d) == [ref |-> r, kind |-> k, nocopy |-> nc, size |-> s, data |-> d]
Free == Buffer(0, "raw", FALSE, 0, << >>)
FreeBufs == {b \in Bufs : heap[b].ref = 0}

\* The buffer of an array, its content and whether another array has it too.
Buf(x) == heap[at[x]]
Used(x) == Len(Buf(x).data)
Shared(x) == Buf(x).ref > 1

\* Usable bytes of an allocation for n bytes and the header.
Alloc(n) == ((n + Header - 1) \div Granule + 1) * Granule - Header

Rep(n, v) == [i \in 1..n |-> v]
Managed(k, n) == IF k = "managed" THEN n ELSE 0

Init ==
  /\ heap = [b \in Bufs |-> Free]
  /\ at = [x \in Arrays |-> Null]
  /\ inst = 0

\* The state an operation works on and leaves behind.
State(h, a, i) == [heap |-> h, at |-> a, inst |-> i]
Now == State(heap, at, inst)
Become(s) == heap' = s.heap /\ at' = s.at /\ inst' = s.inst

-----------------------------------------------------------------------------
(* References.                                                             *)

\* The last reference finalises the elements and frees the memory.
Unref(s, b) ==
  LET o == s.heap[b]
  IN IF o.ref > 1 THEN [s EXCEPT !.heap[b].ref = @ - 1]
     ELSE State([s.heap EXCEPT ![b] = Free], s.at, s.inst - Managed(o.kind, Len(o.data)))

\* A new buffer for the array, from an empty place of the heap.
Place(s, x, b, o) == State([s.heap EXCEPT ![b] = o], [s.at EXCEPT ![x] = b], s.inst)

\* What mpt_buffer_set makes of elements it copies to new memory: one that
\* refuses to be copied is initialised without source.
Copies(o) ==
  IF o.kind = "raw" THEN {o.data}
  ELSE {d \in [DOMAIN o.data -> Vals \cup {Dead}] : \A i \in DOMAIN d : d[i] \in {o.data[i], Zero}}

\* Mutant: elements that may not be copied are.
Copied_Unique(o, n) == IF Len(o.data) > Alloc(n) THEN {} ELSE Copies(o)

\* What a copy to memory for n cells can hold: there is none of elements that may
\* not be copied, or of more than the memory takes.
Copied(o, n) ==
  IF (o.nocopy /\ o.data # << >>) \/ Len(o.data) > Alloc(n) THEN {} ELSE Copies(o)

\* A private buffer with room for n cells: the same one, its content moved to a
\* larger one, or a copy in which the other arrays have no part.
Detach(x, n) ==
  LET o == Buf(x)
  IN IF o.ref < 2
     THEN {IF n <= o.size THEN Now ELSE [Now EXCEPT !.heap[at[x]].size = Alloc(n)]}
     ELSE {Place(State(Unref(Now, at[x]).heap, at, inst + Managed(o.kind, Len(d))),
                 x, b, Buffer(1, o.kind, o.nocopy, Alloc(n), d)) : b \in FreeBufs, d \in Copied(o, n)}

\* Content of the array in s.
Content(s, x) == s.heap[s.at[x]].data
Fill(s, x, d, made) ==
  [s EXCEPT !.heap[s.at[x]].data = d, !.inst = @ + Managed(s.heap[s.at[x]].kind, made)]

-----------------------------------------------------------------------------
(* mpt_array_clone, and buffers that are created for an array.             *)

\* A source without buffer is read through a null pointer unless the target has
\* none either: callers do not pass one.
Clone(x, y) ==
  /\ at[y] \notin {Null, at[x]}
  /\ at[x] # Null => Buf(x).kind = Buf(y).kind
  /\ LET s == State([heap EXCEPT ![at[y]].ref = @ + 1], [at EXCEPT ![x] = at[y]], inst)
     IN Become(IF at[x] = Null THEN s ELSE Unref(s, at[x]))

Clear(x) ==
  /\ at[x] # Null
  /\ Become(Unref(State(heap, [at EXCEPT ![x] = Null], inst), at[x]))

mpt_array_clone(x) == Clear(x) \/ \E y \in Arrays : Clone(x, y)

\* buffer::create and create_unique; only elements have reason to be unique.
Create(x, k, nc) ==
  /\ at[x] = Null
  /\ nc => k = "managed"
  /\ \E b \in FreeBufs : Become(Place(Now, x, b, Buffer(1, k, nc, Alloc(0), << >>)))

-----------------------------------------------------------------------------
(* mpt_array_append: raw data at the end.                                  *)

\* With room for the data a buffer is used as it is, also a shared one.
mpt_array_append(x, n, v) ==
  IF at[x] = Null
  THEN \E b \in FreeBufs : Become(Place(Now, x, b, Buffer(1, "raw", FALSE, Alloc(n), Rep(n, v))))
  ELSE /\ Buf(x).kind = "raw"
       /\ Used(x) + n <= MaxLen
       /\ \E s \in IF n > Buf(x).size - Used(x) THEN Detach(x, Used(x) + n) ELSE {Now} :
            Become(Fill(s, x, Content(s, x) \o Rep(n, v), n))

-----------------------------------------------------------------------------
(* mpt_array_insert: make room, the caller initialises what it asked for.  *)

\* mpt_buffer_insert: a gap before the position is filled, later data moves.
Inserted(d, pos, n, v) ==
  IF pos < Len(d) THEN SubSeq(d, 1, pos) \o Rep(n, v) \o SubSeq(d, pos + 1, Len(d))
  ELSE d \o Rep(pos - Len(d), Zero) \o Rep(n, v)

Insert(s, x, pos, n, v) ==
  LET d == Content(s, x) IN Fill(s, x, Inserted(d, pos, n, v), Len(Inserted(d, pos, n, v)) - Len(d))

Max(i, j) == IF i < j THEN j ELSE i

mpt_array_insert(x, pos, n, v) ==
  IF at[x] = Null
  THEN \E b \in FreeBufs :
         /\ pos + n <= MaxLen
         /\ Become(Place(Now, x, b,
              Buffer(1, "raw", FALSE, Alloc(pos + n), Rep(pos, Zero) \o Rep(n, v))))
  ELSE LET total == Max(Used(x), pos) + n
       IN /\ total <= MaxLen
          /\ \E s \in IF total <= Buf(x).size /\ ~Shared(x) THEN {Now} ELSE Detach(x, total) :
               Become(Insert(s, x, pos, n, v))

-----------------------------------------------------------------------------
(* mpt_array_slice: a private part of the array for the caller to write.   *)

\* Mutant: a shared buffer that is large enough is handed out.
Slice_Shared(x, off, n) ==
  IF off + n > Buf(x).size THEN Detach(x, Max(off + n, Used(x))) ELSE {Now}

Slice(x, off, n) ==
  IF off + n > Buf(x).size \/ Shared(x) THEN Detach(x, Max(off + n, Used(x))) ELSE {Now}

Extended(s, x, total) ==
  IF total > Len(Content(s, x)) THEN Insert(s, x, Len(Content(s, x)), total - Len(Content(s, x)), Zero)
  ELSE s

Written(d, off, n, v) == [i \in DOMAIN d |-> IF i \in (off + 1)..(off + n) THEN v ELSE d[i]]

\* The caller writes the whole part or, with v = Dead, only reads it.
mpt_array_slice(x, off, n, v) ==
  /\ off + n <= MaxLen
  /\ \E s \in IF at[x] = Null
              THEN {Place(Now, x, b, Buffer(1, "raw", FALSE, Alloc(off + n), Rep(off + n, Zero))) :
                      b \in FreeBufs}
              ELSE {Extended(t, x, off + n) : t \in Slice(x, off, n)} :
       Become(IF v = Dead THEN s ELSE Fill(s, x, Written(Content(s, x), off, n, v), 0))

-----------------------------------------------------------------------------
(* mpt_array_set: managed elements from a position on.                     *)

\* mpt_buffer_set finalises everything from the position to the end and
\* initialises the elements it sets, and those in the gap before them.
Replaced(d, pos, n, v) ==
  [i \in 1..Max(Len(d), pos + n) |->
     CASE i <= pos     -> IF i <= Len(d) THEN d[i] ELSE Zero
       [] i <= pos + n /\ i > pos -> v
       [] OTHER        -> Dead]

mpt_buffer_set(s, x, pos, n, v) ==
  LET d == Content(s, x)
  IN Fill(s, x, Replaced(d, pos, n, v),
          (IF pos < Len(d) THEN pos - Len(d) ELSE 0)
          + (IF pos > Len(d) THEN pos - Len(d) ELSE 0) + n)

SetFirst(x, pos, n, v) ==
  /\ at[x] = Null
  /\ \E b \in FreeBufs :
       Become(mpt_buffer_set(Place(Now, x, b, Buffer(1, "managed", FALSE, Alloc(pos + n), << >>)),
                             x, pos, n, v))

\* A shared buffer is copied to memory for the end of the new data only: when that
\* is too small for the old, the copy fails after the buffer has lost the reference
\* which the array still has.
CopyFails(x, n) ==
  Shared(x) /\ ~(Buf(x).nocopy /\ Used(x) > 0) /\ Used(x) > Alloc(n)

SetElements(x, pos, n, v) ==
  /\ at[x] # Null
  /\ Buf(x).kind = "managed"
  /\ \E s \in IF CopyFails(x, pos + n) THEN {[Now EXCEPT !.heap[at[x]].ref = @ - 1]}
              ELSE {mpt_buffer_set(t, x, pos, n, v) :
                      t \in IF Buf(x).size < pos + n \/ Shared(x) THEN Detach(x, pos + n) ELSE {Now}} :
       Become(s)

mpt_array_set(x, pos, n, v) ==
  /\ pos + n <= MaxLen
  /\ SetFirst(x, pos, n, v) \/ SetElements(x, pos, n, v)

-----------------------------------------------------------------------------
(* mpt_array_reserve: prepare an array for elements of a kind.             *)

ReserveNew(x, n, k) ==
  /\ at[x] = Null
  /\ \E b \in FreeBufs : Become(Place(Now, x, b, Buffer(1, k, FALSE, Alloc(n), << >>)))

\* A shared buffer is left to the others.  Content of the same kind was to be
\* copied, but the length of the copy is 0 and taken for an error: no change.
ReserveShared(x, n, k) ==
  /\ at[x] # Null
  /\ Shared(x)
  /\ Buf(x).kind # k \/ Buf(x).nocopy \/ Used(x) = 0 \/ n = 0
  /\ \E b \in FreeBufs :
       Become(Place(Unref(Now, at[x]), x, b, Buffer(1, k, FALSE, Alloc(n), << >>)))

ReserveSame(x, n, k) ==
  /\ at[x] # Null
  /\ ~Shared(x)
  /\ Buf(x).kind = k
  /\ \E s \in Detach(x, n) : Become(s)

\* Mutant: elements of another kind are dropped without fini.
Retype_NoFini(x, n, k) ==
  /\ at[x] # Null
  /\ ~Shared(x)
  /\ Buf(x).kind # k
  /\ \E t \in {k, Buf(x).kind} :
       /\ t # k => n > Buf(x).size
       /\ heap' = [heap EXCEPT ![at[x]] =
                     Buffer(1, t, @.nocopy,
                            IF t = k /\ n > @.size THEN Alloc(n) ELSE @.size, << >>)]
  /\ UNCHANGED <<at, inst>>

\* Elements of another kind are finalised; when there is no memory for the new
\* ones, the empty buffer keeps its old kind.
Retype(x, n, k) ==
  /\ at[x] # Null
  /\ ~Shared(x)
  /\ Buf(x).kind # k
  /\ \E t \in {k, Buf(x).kind} :
       /\ t # k => n > Buf(x).size
       /\ heap' = [heap EXCEPT ![at[x]] =
                     Buffer(1, t, @.nocopy,
                            IF t = k /\ n > @.size THEN Alloc(n) ELSE @.size, << >>)]
       /\ inst' = inst - Managed(Buf(x).kind, Used(x))
  /\ UNCHANGED at

mpt_array_reserve(x, n, k) ==
  \/ ReserveNew(x, n, k)
  \/ ReserveShared(x, n, k)
  \/ ReserveSame(x, n, k)
  \/ Retype(x, n, k)

-----------------------------------------------------------------------------
(* mpt_array_reduce and mpt_buffer_cut.                                    *)

\* A private buffer is always large enough for itself and keeps its size; a
\* shared one is copied.
mpt_array_reduce(x) ==
  /\ at[x] # Null
  /\ \E s \in Detach(x, Used(x)) : Become(s)

\* Called for buffers without other user; elements are never cut by length 0.
mpt_buffer_cut(x, off, n) ==
  /\ at[x] # Null
  /\ ~Shared(x)
  /\ off + n <= Used(x)
  /\ Buf(x).kind = "managed" => n > 0
  /\ LET d == Buf(x).data
     IN Become(Fill(Now, x, SubSeq(d, 1, off) \o
                      (IF n = 0 THEN << >> ELSE SubSeq(d, off + n + 1, Len(d))), 0 - n))

\* Any operation but mpt_array_set.
Operation(x) ==
  \/ mpt_array_clone(x)
  \/ \E k \in Kinds, nc \in BOOLEAN : Create(x, k, nc)
  \/ \E n \in 0..MaxLen, v \in Vals : mpt_array_append(x, n, v)
  \/ \E pos, n \in 0..MaxLen, v \in Vals : mpt_array_insert(x, pos, n, v)
  \/ \E off, n \in 0..MaxLen, v \in Vals \cup {Dead} : mpt_array_slice(x, off, n, v)
  \/ \E n \in 0..MaxLen, k \in Kinds : mpt_array_reserve(x, n, k)
  \/ mpt_array_reduce(x)
  \/ \E off, n \in 0..MaxLen : mpt_buffer_cut(x, off, n)

Next ==
  \E x \in Arrays :
    \/ Operation(x)
    \/ \E pos, n \in 0..MaxLen, v \in Vals : mpt_array_set(x, pos, n, v)

Spec == Init /\ [][Next]_vars

\* The elements to set end before the last one.
Inside(x, pos, n) == at[x] # Null /\ Buf(x).kind = "managed" /\ pos + n < Used(x)

\* The call after which elements are finalised and still used, or a buffer is
\* freed and still used: mpt_array_set replaces elements before the last one.
ReplacesInside ==
  \E x \in Arrays, pos, n \in 0..MaxLen, v \in Vals :
    Inside(x, pos, n) /\ mpt_array_set(x, pos, n, v)

\* Every use without that call.
CarefulNext ==
  \E x \in Arrays :
    \/ Operation(x)
    \/ \E pos, n \in 0..MaxLen, v \in Vals : ~Inside(x, pos, n) /\ mpt_array_set(x, pos, n, v)

CarefulSpec == Init /\ [][CarefulNext]_vars

-----------------------------------------------------------------------------
(* Properties.                                                             *)

\* No buffer holds more than its memory (buf->_used against buf->_size).
TypeOK ==
  /\ heap \in [Bufs -> [ref : Nat, kind : Kinds, nocopy : BOOLEAN, size : Nat,
                        data : Seq(Vals \cup {Dead})]]
  /\ \A b \in Bufs : Len(heap[b].data) <= heap[b].size
  /\ at \in [Arrays -> Bufs \cup {Null}]
  /\ inst \in Int

Users(a, b) == {x \in Arrays : a[x] = b}

\* The reference count of a buffer is the number of arrays that use it: no
\* sequence of copies, detaching and replacing leaks a buffer or frees one that
\* an array still has.
RefsExact ==
  \A b \in Bufs : heap[b].ref = Cardinality(Users(at, b))

\* The places of managed elements.
Live(h) == {c \in Bufs \X (1..MaxLen) : h[c[1]].kind = "managed" /\ c[2] <= Len(h[c[1]].data)}

\* Every managed element in use is alive and every live one is in use: none is
\* finalised twice, lost with its memory or left in a buffer after its fini.
ElementsOnce ==
  /\ \A b \in Bufs : \A i \in DOMAIN heap[b].data : heap[b].data[i] # Dead
  /\ inst = Cardinality(Live(heap))

\* Buffers and the elements in them are owned exactly once, inside of their
\* memory, after any order of clone, detach, insert, set, reserve and cut in which
\* no set ends before the last element (ReplacesInside, buffer_set.c:81-85).
OwnedExactly == TypeOK /\ RefsExact /\ ElementsOnce

\* Elements that may not be copied are in one buffer only: a step that gives an
\* array another buffer leaves no content of a NoCopy buffer in both.
UniqueKept ==
  [][\A x \in Arrays :
       (at[x] # Null /\ at'[x] # at[x] /\ Buf(x).nocopy /\ Used(x) > 0 /\ Buf(x).ref > 1)
         => \/ at'[x] = Null
            \/ heap'[at'[x]].data = << >>
            \/ \E y \in Arrays : at'[x] = at[y]]_vars

V == INSTANCE ArrayValue WITH
  val <- [x \in Arrays |-> IF at[x] = Null THEN [kind |-> "none", data |-> << >>]
                           ELSE [kind |-> heap[at[x]].kind, data |-> heap[at[x]].data]]

\* Sharing, copying and moving buffers is invisible: each operation changes the
\* value of its own array as if that had memory of its own, and only data
\* appended to a shared buffer with room left reaches the other arrays too.  A set
\* that ends before the last element (ReplacesInside) breaks this.
ImplementsValues == V!Spec


-----------------------------------------------------------------------------
\* Handles are alike, and so are places on the heap.
Symmetry == Permutations(Arrays) \cup Permutations(Bufs)
=============================================================================
