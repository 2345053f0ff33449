---------------------------- MODULE ArrayProofs -----------------------------
(***************************************************************************)
(* Proofs about the arrays: references and elements are counted exactly,   *)
(* and shared buffers are invisible.                                       *)
(***************************************************************************)
EXTENDS Array, FunctionTheorems, FiniteSetTheorems, TLAPS

\* A block is at least as large as asked for.
LEMMA AllocFits == ASSUME NEW n \in Nat PROVE Alloc(n) \in Nat /\ n <= Alloc(n)
  <1> DEFINE q == (n + Header - 1) \div Granule
  <1>1. Granule \in Nat /\ Granule > 0 /\ Header \in Nat /\ Header > 0
    BY SizeAssumption
  <1>2. q \in Nat /\ (q + 1) * Granule > n + Header - 1
    BY <1>1
  <1>3. (q + 1) * Granule \in Int
    BY <1>1, <1>2
  <1> QED
    BY <1>1, <1>2, <1>3 DEF Alloc

-----------------------------------------------------------------------------
(* Buffers and the accounts of their references and elements.              *)

Cells(o) == Managed(o.kind, Len(o.data))

Buffers == [ref : Nat, kind : Kinds, nocopy : BOOLEAN, size : Nat, data : Seq(Vals)]

\* A buffer that holds no more than its memory and nothing once it is freed.
Sound(o) ==
  /\ o \in Buffers
  /\ Len(o.data) <= o.size /\ Len(o.data) <= MaxLen
  /\ o.ref = 0 => o.data = << >>

\* The inductive invariant, as a predicate of a heap h, handles a and a number
\* i of live elements.
Owned(h, a, i) ==
  /\ DOMAIN h = Bufs /\ h = [b \in Bufs |-> h[b]]
  /\ \A b \in Bufs : Sound(h[b]) /\ h[b].ref = Cardinality(Users(a, b))
  /\ a \in [Arrays -> Bufs \cup {Null}]
  /\ i = Cardinality(Live(h))

Row(b, n) == {c \in Bufs \X (1..MaxLen) : c[1] = b /\ c[2] <= n}

\* The first n cells of a buffer are n cells.
LEMMA RowCounted ==
    ASSUME NEW b \in Bufs, NEW n \in Nat, n <= MaxLen
    PROVE  IsFiniteSet(Row(b, n)) /\ Cardinality(Row(b, n)) = n
  <1> DEFINE f == [k \in 1..n |-> <<b, k>>]
  <1>1. MaxLen \in Nat
    BY SizeAssumption
  <1>2. f \in Bijection(1..n, Row(b, n))
    <2>1. \A k \in 1..n : <<b, k>> \in Row(b, n)
      BY <1>1 DEF Row
    <2>2. f \in [1..n -> Row(b, n)]
      BY <2>1
    <2>3. \A j, k \in 1..n : f[j] = f[k] => j = k
      OBVIOUS
    <2>4. ASSUME NEW c \in Row(b, n) PROVE \E k \in 1..n : f[k] = c
      <3>1. c = <<c[1], c[2]>> /\ c[1] = b /\ c[2] \in 1..MaxLen /\ c[2] <= n
        BY DEF Row
      <3>2. c[2] \in 1..n
        BY <1>1, <3>1
      <3> QED
        BY <3>1, <3>2
    <2> HIDE DEF f
    <2>5. f \in Surjection(1..n, Row(b, n))
      BY <2>2, <2>4 DEF Surjection
    <2>6. f \in Injection(1..n, Row(b, n))
      BY <2>2, <2>3 DEF Injection, IsInjective
    <2> QED
      BY <2>5, <2>6 DEF Bijection
  <1> HIDE DEF f
  <1>3. ExistsBijection(1..n, Row(b, n))
    BY <1>2 DEF ExistsBijection
  <1>4. IsFiniteSet(1..n) /\ Cardinality(1..n) = n
    <2>1. 1 \in Int /\ n \in Int
      OBVIOUS
    <2> QED
      BY <2>1, FS_Interval
  <1> QED
    BY <1>3, <1>4, FS_Bijection

\* The living elements can be counted.
LEMMA LiveFinite == ASSUME NEW h PROVE IsFiniteSet(Live(h))
  <1>1. 1 \in Int /\ MaxLen \in Int
    BY SizeAssumption
  <1>2. IsFiniteSet(1..MaxLen)
    BY <1>1, FS_Interval
  <1>3. IsFiniteSet(Bufs \X (1..MaxLen))
    BY <1>2, HandleAssumption, FS_Product
  <1> QED
    BY <1>3, FS_Subset DEF Live

\* A sound buffer has no more living elements than cells, and none without users.
LEMMA CellsCounted ==
    ASSUME NEW o, Sound(o)
    PROVE  Cells(o) \in Nat /\ Cells(o) <= MaxLen /\ (o.ref = 0 => Cells(o) = 0)
  <1>1. Len(o.data) \in Nat /\ MaxLen \in Nat /\ Len(o.data) <= MaxLen /\ (o.ref = 0 => Len(o.data) = 0)
    BY SizeAssumption DEF Sound, Buffers
  <1> QED
    BY <1>1 DEF Cells, Managed

\* The live elements of a heap in which one buffer changes.
LEMMA LiveChanged ==
    ASSUME NEW h, DOMAIN h = Bufs, \A c \in Bufs : Sound(h[c]),
           NEW b \in Bufs, NEW o, Sound(o)
    PROVE  Cardinality(Live([h EXCEPT ![b] = o])) = Cardinality(Live(h)) - Cells(h[b]) + Cells(o)
  <1> DEFINE g == [h EXCEPT ![b] = o]
             R == {c \in Live(h) : c[1] # b}
  <1>1. /\ Cells(o) \in Nat /\ Cells(o) <= MaxLen
        /\ Cells(h[b]) \in Nat /\ Cells(h[b]) <= MaxLen
    BY CellsCounted
  <1>2. g[b] = o /\ \A c \in Bufs : c # b => g[c] = h[c]
    OBVIOUS
  <1>3. Live(h) = R \cup Row(b, Cells(h[b])) /\ R \cap Row(b, Cells(h[b])) = {}
    BY SizeAssumption DEF Live, Row, Cells, Managed, Sound, Buffers
  <1>4. Live(g) = R \cup Row(b, Cells(o)) /\ R \cap Row(b, Cells(o)) = {}
    BY <1>2, SizeAssumption DEF Live, Row, Cells, Managed, Sound, Buffers
  <1>5. IsFiniteSet(R)
    BY LiveFinite, FS_Subset
  <1> HIDE DEF R, g
  <1>6. /\ IsFiniteSet(Row(b, Cells(h[b]))) /\ Cardinality(Row(b, Cells(h[b]))) = Cells(h[b])
        /\ IsFiniteSet(Row(b, Cells(o))) /\ Cardinality(Row(b, Cells(o))) = Cells(o)
    BY <1>1, RowCounted
  <1>7. Cardinality(R) \in Nat /\ Cardinality({}) = 0
    BY <1>5, FS_CardinalityType, FS_EmptySet
  <1>8. Cardinality(Live(h)) = Cardinality(R) + Cells(h[b]) - 0
    BY <1>3, <1>5, <1>6, <1>7, FS_Union
  <1>9. Cardinality(Live(g)) = Cardinality(R) + Cells(o) - 0
    BY <1>4, <1>5, <1>6, <1>7, FS_Union
  <1> QED
    BY <1>1, <1>7, <1>8, <1>9 DEF g

\* The users of a buffer when one array changes its buffer.
LEMMA UsersFinite ==
    ASSUME NEW a, NEW b
    PROVE  IsFiniteSet(Users(a, b)) /\ Cardinality(Users(a, b)) \in Nat
  BY HandleAssumption, FS_Subset, FS_CardinalityType DEF Users

\* When one array moves, the users of the buffers it leaves and enters change by one.
LEMMA UsersChanged ==
    ASSUME NEW a, NEW x \in Arrays, NEW e, \A y \in Arrays : y # x => e[y] = a[y], NEW b
    PROVE  /\ Cardinality(Users(a, b)) \in Nat
           /\ a[x] # b /\ e[x] = b => Cardinality(Users(e, b)) = Cardinality(Users(a, b)) + 1
           /\ a[x] = b /\ e[x] # b => Cardinality(Users(e, b)) = Cardinality(Users(a, b)) - 1
           /\ a[x] # b /\ e[x] # b => Cardinality(Users(e, b)) = Cardinality(Users(a, b))
  <1>1. IsFiniteSet(Users(a, b)) /\ Cardinality(Users(a, b)) \in Nat
    BY UsersFinite
  <1>2. ASSUME a[x] # b, e[x] = b
        PROVE  Cardinality(Users(e, b)) = Cardinality(Users(a, b)) + 1
    <2>1. Users(e, b) = Users(a, b) \cup {x} /\ x \notin Users(a, b)
      BY <1>2 DEF Users
    <2> QED
      BY <1>1, <2>1, FS_AddElement
  <1>3. ASSUME a[x] # b, e[x] # b
        PROVE  Cardinality(Users(e, b)) = Cardinality(Users(a, b))
    <2>1. Users(e, b) = Users(a, b)
      BY <1>3 DEF Users
    <2> QED
      BY <2>1
  <1>4. ASSUME a[x] = b, e[x] # b
        PROVE  Cardinality(Users(e, b)) = Cardinality(Users(a, b)) - 1
    <2>1. Users(e, b) = Users(a, b) \ {x} /\ x \in Users(a, b)
      BY <1>4 DEF Users
    <2> QED
      BY <1>1, <2>1, FS_RemoveElement
  <1> QED
    BY <1>1, <1>2, <1>3, <1>4

\* The buffer of an array has a reference at least.
LEMMA BufferUsed ==
    ASSUME NEW h, NEW a, NEW i, Owned(h, a, i), NEW x \in Arrays, NEW b, b = a[x], b # Null
    PROVE  b \in Bufs /\ Sound(h[b]) /\ h[b].ref \in Nat /\ h[b].ref > 0 /\ x \in Users(a, b)
  <1>1. b \in Bufs /\ h[b].ref = Cardinality(Users(a, b)) /\ Sound(h[b])
    BY DEF Owned
  <1>2. x \in Users(a, b)
    BY DEF Users
  <1>3. Cardinality(Users(a, b)) # 0
    BY <1>2, UsersFinite, FS_EmptySet
  <1> QED
    BY <1>1, <1>2, <1>3, UsersFinite

\* A buffer gets other content.
LEMMA ContentChanged ==
    ASSUME NEW h, NEW a, NEW i, Owned(h, a, i), NEW b \in Bufs, NEW o, Sound(o), o.ref = h[b].ref
    PROVE  Owned([h EXCEPT ![b] = o], a, i - Cells(h[b]) + Cells(o))
  <1>1. /\ DOMAIN h = Bufs /\ a \in [Arrays -> Bufs \cup {Null}] /\ i = Cardinality(Live(h))
        /\ \A c \in Bufs : Sound(h[c]) /\ h[c].ref = Cardinality(Users(a, c))
    BY DEF Owned
  <1> DEFINE g == [h EXCEPT ![b] = o]
  <1>2. DOMAIN g = Bufs /\ g = [c \in Bufs |-> g[c]] /\ g[b] = o /\ \A c \in Bufs : c # b => g[c] = h[c]
    BY <1>1
  <1>3. Cardinality(Live(g)) = i - Cells(h[b]) + Cells(o)
    BY <1>1, LiveChanged
  <1> HIDE DEF g
  <1>4. \A c \in Bufs : Sound(g[c]) /\ g[c].ref = Cardinality(Users(a, c))
    BY <1>1, <1>2
  <1>5. Owned(g, a, i - Cells(h[b]) + Cells(o))
    BY <1>1, <1>2, <1>3, <1>4 DEF Owned
  <1> QED
    BY <1>5 DEF g

\* An array without buffer gets a new one.
LEMMA BufferPlaced ==
    ASSUME NEW h, NEW a, NEW i, Owned(h, a, i), NEW x \in Arrays, a[x] = Null,
           NEW b \in Bufs, h[b].ref = 0, NEW o, Sound(o), o.ref = 1
    PROVE  Owned([h EXCEPT ![b] = o], [a EXCEPT ![x] = b], i + Cells(o))
  <1>1. /\ DOMAIN h = Bufs /\ a \in [Arrays -> Bufs \cup {Null}] /\ i = Cardinality(Live(h))
        /\ \A c \in Bufs : Sound(h[c]) /\ h[c].ref = Cardinality(Users(a, c))
    BY DEF Owned
  <1> DEFINE g == [h EXCEPT ![b] = o]
             e == [a EXCEPT ![x] = b]
  <1>2. DOMAIN g = Bufs /\ g = [c \in Bufs |-> g[c]] /\ g[b] = o /\ \A c \in Bufs : c # b => g[c] = h[c]
    BY <1>1
  <1>3. Cells(h[b]) = 0 /\ Cells(o) \in Nat /\ Cardinality(Live(h)) \in Nat
    BY <1>1, CellsCounted, LiveFinite, FS_CardinalityType
  <1>4. Cardinality(Live(g)) = i + Cells(o)
    <2>1. Cardinality(Live(g)) = Cardinality(Live(h)) - Cells(h[b]) + Cells(o)
      BY <1>1, LiveChanged
    <2> QED
      BY <1>1, <1>3, <2>1
  <1>5. ASSUME NEW c \in Bufs
        PROVE  /\ Cardinality(Users(a, c)) \in Nat
               /\ c = b => Cardinality(Users(e, c)) = Cardinality(Users(a, c)) + 1
               /\ c # b => Cardinality(Users(e, c)) = Cardinality(Users(a, c))
    <2>1. a[x] # c
      BY HandleAssumption
    <2>2. e[x] = b /\ \A y \in Arrays : y # x => e[y] = a[y]
      BY <1>1
    <2> HIDE DEF e
    <2> QED
      BY <2>1, <2>2, UsersChanged
  <1>7. e \in [Arrays -> Bufs \cup {Null}]
    BY <1>1
  <1> HIDE DEF g, e
  <1>8. \A c \in Bufs : Sound(g[c]) /\ g[c].ref = Cardinality(Users(e, c))
    BY <1>1, <1>2, <1>5
  <1>9. Owned(g, e, i + Cells(o))
    BY <1>2, <1>4, <1>7, <1>8 DEF Owned
  <1> QED
    BY <1>9 DEF g, e

\* An array leaves its buffer, which is freed with its elements if it was the last.
LEMMA BufferLeft ==
    ASSUME NEW h, NEW a, NEW i, Owned(h, a, i), NEW x \in Arrays, NEW b \in Bufs, x \in Users(a, b),
           NEW o, Sound(o), o.ref = h[b].ref - 1
    PROVE  Owned([h EXCEPT ![b] = o], [a EXCEPT ![x] = Null], i - Cells(h[b]) + Cells(o))
  <1>1. /\ DOMAIN h = Bufs /\ a \in [Arrays -> Bufs \cup {Null}] /\ i = Cardinality(Live(h))
        /\ \A c \in Bufs : Sound(h[c]) /\ h[c].ref = Cardinality(Users(a, c))
        /\ \A c \in Bufs : c # Null
    BY HandleAssumption DEF Owned
  <1> DEFINE g == [h EXCEPT ![b] = o]
             e == [a EXCEPT ![x] = Null]
  <1>2. DOMAIN g = Bufs /\ g = [c \in Bufs |-> g[c]] /\ g[b] = o /\ \A c \in Bufs : c # b => g[c] = h[c]
    BY <1>1
  <1>3. Cardinality(Live(g)) = i - Cells(h[b]) + Cells(o)
    BY <1>1, LiveChanged
  <1>4. e \in [Arrays -> Bufs \cup {Null}]
    BY <1>1
  <1>5. ASSUME NEW c \in Bufs
        PROVE  /\ Cardinality(Users(a, c)) \in Nat
               /\ c = b => Cardinality(Users(e, c)) = Cardinality(Users(a, c)) - 1
               /\ c # b => Cardinality(Users(e, c)) = Cardinality(Users(a, c))
    <2>1. (c = b => a[x] = c) /\ (c # b => a[x] # c) /\ Null # c
      BY <1>1 DEF Users
    <2>2. e[x] = Null /\ \A y \in Arrays : y # x => e[y] = a[y]
      BY <1>1
    <2> HIDE DEF e
    <2> QED
      BY <2>1, <2>2, UsersChanged
  <1> HIDE DEF g, e
  <1>6. \A c \in Bufs : Sound(g[c]) /\ g[c].ref = Cardinality(Users(e, c))
    BY <1>1, <1>2, <1>5
  <1>7. Owned(g, e, i - Cells(h[b]) + Cells(o))
    BY <1>2, <1>3, <1>4, <1>6 DEF Owned
  <1> QED
    BY <1>7 DEF g, e

\* An array without buffer shares the one of another.
LEMMA BufferJoined ==
    ASSUME NEW h, NEW a, NEW i, Owned(h, a, i), NEW x \in Arrays, a[x] = Null, NEW b \in Bufs,
           h[b].ref # 0, NEW o, Sound(o), o.ref = h[b].ref + 1, Cells(o) = Cells(h[b])
    PROVE  Owned([h EXCEPT ![b] = o], [a EXCEPT ![x] = b], i)
  <1>1. /\ DOMAIN h = Bufs /\ a \in [Arrays -> Bufs \cup {Null}] /\ i = Cardinality(Live(h))
        /\ \A c \in Bufs : Sound(h[c]) /\ h[c].ref = Cardinality(Users(a, c))
        /\ \A c \in Bufs : c # Null
    BY HandleAssumption DEF Owned
  <1> DEFINE g == [h EXCEPT ![b] = o]
             e == [a EXCEPT ![x] = b]
  <1>2. DOMAIN g = Bufs /\ g = [c \in Bufs |-> g[c]] /\ g[b] = o /\ \A c \in Bufs : c # b => g[c] = h[c]
    BY <1>1
  <1>3. Cardinality(Live(g)) = i
    <2>1. Cardinality(Live(g)) = Cardinality(Live(h)) - Cells(h[b]) + Cells(o)
      BY <1>1, LiveChanged, ZenonT(60)
    <2>2. Cells(h[b]) \in Nat /\ Cardinality(Live(h)) \in Nat
      BY <1>1, CellsCounted, LiveFinite, FS_CardinalityType
    <2> QED
      BY <1>1, <2>1, <2>2
  <1>4. e \in [Arrays -> Bufs \cup {Null}]
    BY <1>1
  <1>5. ASSUME NEW c \in Bufs
        PROVE  /\ Cardinality(Users(a, c)) \in Nat
               /\ c = b => Cardinality(Users(e, c)) = Cardinality(Users(a, c)) + 1
               /\ c # b => Cardinality(Users(e, c)) = Cardinality(Users(a, c))
    <2>1. a[x] # c
      BY <1>1
    <2>2. e[x] = b /\ \A y \in Arrays : y # x => e[y] = a[y]
      BY <1>1
    <2> HIDE DEF e
    <2> QED
      BY <2>1, <2>2, UsersChanged
  <1> HIDE DEF g, e
  <1>6. \A c \in Bufs : Sound(g[c]) /\ g[c].ref = Cardinality(Users(e, c))
    BY <1>1, <1>2, <1>5
  <1>7. Owned(g, e, i)
    BY <1>2, <1>3, <1>4, <1>6 DEF Owned
  <1> QED
    BY <1>7 DEF g, e

-----------------------------------------------------------------------------
(* The states the operations are made of.                                  *)

Good(s) == Owned(s.heap, s.at, s.inst)

\* The array has a buffer with room for n cells, of the kind and as full as in Now.
Roomy(s, x, n) ==
  /\ Good(s) /\ s.at[x] \in Bufs /\ s.at[x] # Null
  /\ LET p == s.heap[s.at[x]]
     IN p.kind = Buf(x).kind /\ n <= p.size /\ Len(p.data) = Used(x)

\* What `Fill` changes: the data of one buffer and the number of elements.
LEMMA FillFields ==
    ASSUME NEW s, NEW x, NEW b, b = s.at[x], NEW d, NEW made
    PROVE  /\ Fill(s, x, d, made).heap = [s.heap EXCEPT ![b] = [s.heap[b] EXCEPT !.data = d]]
           /\ Fill(s, x, d, made).at = s.at
           /\ Fill(s, x, d, made).inst = s.inst + Managed(s.heap[b].kind, made)
  BY DEF Fill

\* The present state as a record.
LEMMA NowFields == Now.heap = heap /\ Now.at = at /\ Now.inst = inst
  BY DEF Now, State

\* What `Place` changes: one buffer and the array that uses it.
LEMMA PlaceFields ==
    ASSUME NEW s, NEW x, NEW b, NEW o
    PROVE  /\ Place(s, x, b, o).heap = [s.heap EXCEPT ![b] = o]
           /\ Place(s, x, b, o).at = [s.at EXCEPT ![x] = b]
           /\ Place(s, x, b, o).inst = s.inst
  BY DEF Place, State

\* New data in a buffer keeps the counts if the elements made are those added.
LEMMA FillGood ==
    ASSUME NEW s, Good(s), NEW x \in Arrays, s.at[x] \in Bufs, s.at[x] # Null,
           NEW d \in Seq(Vals), Len(d) <= s.heap[s.at[x]].size, Len(d) <= MaxLen,
           NEW made \in Int,
           s.heap[s.at[x]].kind = "managed" => made = Len(d) - Len(s.heap[s.at[x]].data)
    PROVE  Good(Fill(s, x, d, made))
  <1> DEFINE b == s.at[x]
             o == [s.heap[b] EXCEPT !.data = d]
             t == Fill(s, x, d, made)
  <1>1. Sound(s.heap[b]) /\ s.heap[b].ref > 0 /\ s.heap[b].ref \in Nat
    BY BufferUsed DEF Good
  <1>2. /\ o \in Buffers /\ o.data = d /\ o.ref = s.heap[b].ref
        /\ o.size = s.heap[b].size /\ o.kind = s.heap[b].kind
    BY <1>1 DEF Sound, Buffers
  <1>3. /\ t.heap = [s.heap EXCEPT ![b] = o] /\ t.at = s.at
        /\ t.inst = s.inst + Managed(s.heap[b].kind, made)
    BY FillFields
  <1> HIDE DEF o, t
  <1>4. Sound(o)
    BY <1>1, <1>2 DEF Sound
  <1>5. Owned(t.heap, s.at, s.inst - Cells(s.heap[b]) + Cells(o))
    BY <1>2, <1>3, <1>4, ContentChanged DEF Good
  <1>6. s.inst \in Int
    BY LiveFinite, FS_CardinalityType DEF Good, Owned
  <1>7. t.inst = s.inst - Cells(s.heap[b]) + Cells(o)
    <2>1. Len(d) \in Nat /\ Len(s.heap[b].data) \in Nat
      BY <1>1 DEF Sound, Buffers
    <2>2. o.kind = s.heap[b].kind /\ o.data = d
      BY <1>2
    <2>3. /\ t.inst = s.inst + (IF s.heap[b].kind = "managed" THEN made ELSE 0)
          /\ Cells(o) = (IF o.kind = "managed" THEN Len(d) ELSE 0)
          /\ Cells(s.heap[b]) = (IF s.heap[b].kind = "managed" THEN Len(s.heap[b].data) ELSE 0)
      BY <1>3, <2>2 DEF Cells, Managed
    <2>4. CASE s.heap[b].kind = "managed"
      <3> DEFINE l == Len(s.heap[b].data)
      <3>1. made = Len(d) - l /\ l \in Int /\ Len(d) \in Int /\ made \in Int
        BY <2>1, <2>4
      <3>2. t.inst = s.inst + made /\ Cells(o) = Len(d) /\ Cells(s.heap[b]) = l
        BY <2>2, <2>3, <2>4
      <3> HIDE DEF l
      <3> QED
        BY <1>6, <3>1, <3>2
    <2>5. CASE s.heap[b].kind # "managed"
      BY <1>6, <2>2, <2>3, <2>5
    <2> QED
      BY <2>4, <2>5
  <1>8. Good(t)
    BY <1>3, <1>5, <1>7 DEF Good
  <1> QED
    BY <1>8 DEF t

\* The buffer of an array, in the current state.
LEMMA BufferNow ==
    ASSUME Good(Now), NEW x \in Arrays, at[x] # Null
    PROVE  /\ at[x] \in Bufs /\ Sound(heap[at[x]]) /\ x \in Users(at, at[x])
           /\ heap[at[x]].ref \in Nat /\ heap[at[x]].ref > 0
           /\ Used(x) \in Nat /\ Used(x) <= MaxLen /\ Used(x) <= Buf(x).size /\ Buf(x).size \in Nat
           /\ Buf(x).data \in Seq(Vals) /\ Buf(x).kind \in Kinds /\ Buf(x).nocopy \in BOOLEAN
  <1>1. Owned(heap, at, inst)
    BY NowFields DEF Good
  <1>2. /\ at[x] \in Bufs /\ Sound(heap[at[x]]) /\ x \in Users(at, at[x])
        /\ heap[at[x]].ref \in Nat /\ heap[at[x]].ref > 0
    BY <1>1, BufferUsed
  <1> QED
    BY <1>2 DEF Sound, Buffers, Used, Buf

\* The content of a buffer moves to a larger one.
LEMMA MovedGood ==
    ASSUME Good(Now), NEW x \in Arrays, at[x] # Null, NEW n \in Nat, n > Buf(x).size
    PROVE  Roomy([Now EXCEPT !.heap[at[x]].size = Alloc(n)], x, n)
  <1> DEFINE b == at[x]
             o == [heap[b] EXCEPT !.size = Alloc(n)]
             t == [Now EXCEPT !.heap[at[x]].size = Alloc(n)]
  <1>1. /\ b \in Bufs /\ Sound(heap[b]) /\ Buf(x).size \in Nat
        /\ Used(x) <= MaxLen /\ Used(x) <= Buf(x).size /\ Used(x) \in Nat
    BY BufferNow
  <1>2. Alloc(n) \in Nat /\ n <= Alloc(n)
    BY AllocFits
  <1>3. /\ o \in Buffers /\ o.data = heap[b].data /\ o.ref = heap[b].ref
        /\ o.size = Alloc(n) /\ o.kind = heap[b].kind
    BY <1>1, <1>2 DEF Sound, Buffers
  <1>4. /\ t.heap = [heap EXCEPT ![b] = o] /\ t.at = at /\ t.inst = inst
    BY NowFields DEF Now, State
  <1> HIDE DEF o, t
  <1>5. Sound(o)
    BY <1>1, <1>2, <1>3 DEF Sound, Used, Buf
  <1>6. Owned(heap, at, inst)
    BY NowFields DEF Good
  <1>7. Owned(t.heap, at, inst - Cells(heap[b]) + Cells(o))
    BY <1>1, <1>3, <1>4, <1>5, <1>6, ContentChanged
  <1>8. inst \in Int /\ Cells(o) = Cells(heap[b]) /\ Cells(o) \in Nat
    BY <1>3, <1>5, <1>6, CellsCounted, LiveFinite, FS_CardinalityType DEF Owned, Cells
  <1>9. inst - Cells(heap[b]) + Cells(o) = inst
    BY <1>8
  <1>10. Good(t)
    BY <1>4, <1>7, <1>9 DEF Good
  <1>11. t.heap[b] = o
    BY <1>4, <1>6 DEF Owned
  <1>12. Roomy(t, x, n)
    BY <1>1, <1>2, <1>3, <1>4, <1>10, <1>11, HandleAssumption DEF Roomy, Used, Buf
  <1> QED
    BY <1>12 DEF t

\* What a copy of a sound buffer holds.
LEMMA CopiedGood ==
    ASSUME NEW o, Sound(o), NEW n \in Nat, NEW d \in Copied(o, n)
    PROVE  d \in Seq(Vals) /\ Len(d) = Len(o.data) /\ Len(d) <= Alloc(n) /\ Len(d) <= MaxLen
  <1>1. o.data \in Seq(Vals) /\ Len(o.data) <= MaxLen /\ Len(o.data) \in Nat
    BY DEF Sound, Buffers
  <1>2. Len(o.data) <= Alloc(n) /\ d \in Copies(o)
    BY <1>1, AllocFits DEF Copied
  <1>3. d \in Seq(Vals) /\ Len(d) = Len(o.data)
    <2>1. CASE o.kind = "raw"
      BY <1>1, <1>2, <2>1 DEF Copies
    <2>2. CASE o.kind # "raw"
      <3>1. /\ d \in [DOMAIN o.data -> Vals \cup {Dead}]
            /\ \A i \in DOMAIN d : d[i] \in {o.data[i], Zero}
        BY <1>2, <2>2 DEF Copies
      <3>2. DOMAIN o.data = 1..Len(o.data) /\ \A i \in 1..Len(o.data) : o.data[i] \in Vals
        BY <1>1
      <3>3. d \in [1..Len(o.data) -> Vals]
        BY <3>1, <3>2, CellAssumption
      <3> QED
        BY <1>1, <3>3
    <2> QED
      BY <2>1, <2>2
  <1> QED
    BY <1>1, <1>2, <1>3

\* A shared buffer is left to the others.
LEMMA LeftGood ==
    ASSUME Good(Now), NEW x \in Arrays, at[x] # Null, Shared(x)
    PROVE  Owned(Unref(Now, at[x]).heap, [at EXCEPT ![x] = Null], inst)
           /\ \A b \in FreeBufs : Unref(Now, at[x]).heap[b].ref = 0
           /\ Unref(Now, at[x]).at = at /\ Unref(Now, at[x]).inst = inst
  <1> DEFINE b == at[x]
             o == [heap[b] EXCEPT !.ref = @ - 1]
             t == Unref(Now, at[x])
  <1>1. /\ b \in Bufs /\ Sound(heap[b]) /\ x \in Users(at, b)
        /\ heap[b].ref \in Nat /\ heap[b].ref > 1
    BY BufferNow DEF Shared, Buf
  <1>2. /\ o \in Buffers /\ o.data = heap[b].data /\ o.ref = heap[b].ref - 1
        /\ o.size = heap[b].size /\ o.kind = heap[b].kind
    BY <1>1 DEF Sound, Buffers
  <1>3. t.heap = [heap EXCEPT ![b] = o] /\ t.at = at /\ t.inst = inst
    BY <1>1 DEF Unref, Now, State
  <1> HIDE DEF o, t
  <1>4. Sound(o)
    BY <1>1, <1>2 DEF Sound
  <1>5. Owned(heap, at, inst)
    BY NowFields DEF Good
  <1>6. Owned(t.heap, [at EXCEPT ![x] = Null], inst - Cells(heap[b]) + Cells(o))
    BY <1>1, <1>2, <1>3, <1>4, <1>5, BufferLeft
  <1>7. inst \in Int /\ Cells(o) = Cells(heap[b]) /\ Cells(o) \in Nat
    BY <1>2, <1>4, <1>5, CellsCounted, LiveFinite, FS_CardinalityType DEF Owned, Cells
  <1>8. inst - Cells(heap[b]) + Cells(o) = inst
    BY <1>7
  <1>9. \A c \in FreeBufs : t.heap[c].ref = 0
    BY <1>1, <1>3, <1>5 DEF FreeBufs, Owned
  <1>10. Owned(t.heap, [at EXCEPT ![x] = Null], inst)
    BY <1>6, <1>8
  <1> QED
    BY <1>3, <1>9, <1>10 DEF t

\* The array that left its buffer gets a new one.
LEMMA RenewedGood ==
    ASSUME Good(Now), NEW x \in Arrays, at[x] # Null, Shared(x), NEW b \in FreeBufs,
           NEW o, Sound(o), o.ref = 1, NEW i, i = inst + Cells(o)
    PROVE  Good(Place(State(Unref(Now, at[x]).heap, at, i), x, b, o))
  <1> DEFINE h == Unref(Now, at[x]).heap
             a == [at EXCEPT ![x] = Null]
             t == Place(State(h, at, i), x, b, o)
  <1>1. Owned(h, a, inst) /\ h[b].ref = 0 /\ b \in Bufs
    BY LeftGood DEF FreeBufs
  <1>2. x \in DOMAIN at
    BY NowFields DEF Good, Owned
  <1>3. a[x] = Null /\ [a EXCEPT ![x] = b] = [at EXCEPT ![x] = b]
    BY <1>2
  <1>4. t.heap = [h EXCEPT ![b] = o] /\ t.at = [at EXCEPT ![x] = b] /\ t.inst = i
    BY DEF Place, State
  <1> HIDE DEF h, a, t
  <1>5. Owned([h EXCEPT ![b] = o], [a EXCEPT ![x] = b], inst + Cells(o))
    BY <1>1, <1>3, BufferPlaced
  <1>6. Good(t)
    BY <1>3, <1>4, <1>5 DEF Good
  <1> QED
    BY <1>6 DEF t, h

\* A detached array has room, what it held, and no part in the buffer of another.
LEMMA DetachGood ==
    ASSUME Good(Now), NEW x \in Arrays, at[x] # Null, NEW n \in Nat, NEW s \in Detach(x, n)
    PROVE  Roomy(s, x, n)
  <1>1. /\ at[x] \in Bufs /\ Sound(heap[at[x]]) /\ heap[at[x]].ref \in Nat
        /\ Buf(x).size \in Nat /\ Buf(x).kind \in Kinds /\ Buf(x).nocopy \in BOOLEAN
    BY BufferNow
  <1>2. CASE Buf(x).ref < 2 /\ n <= Buf(x).size
    <2>1. s = Now
      BY <1>2 DEF Detach
    <2> QED
      BY <1>1, <1>2, <2>1, NowFields, HandleAssumption DEF Roomy, Buf, Used
  <1>3. CASE Buf(x).ref < 2 /\ ~(n <= Buf(x).size)
    <2>1. s = [Now EXCEPT !.heap[at[x]].size = Alloc(n)]
      BY <1>3 DEF Detach
    <2>2. n > Buf(x).size
      BY <1>1, <1>3
    <2> QED
      BY <2>1, <2>2, MovedGood
  <1>4. CASE ~(Buf(x).ref < 2)
    <2>1. PICK b \in FreeBufs, d \in Copied(Buf(x), n) :
            s = Place(State(Unref(Now, at[x]).heap, at, inst + Managed(Buf(x).kind, Len(d))),
                      x, b, Buffer(1, Buf(x).kind, Buf(x).nocopy, Alloc(n), d))
      BY <1>4 DEF Detach
    <2> DEFINE o == Buffer(1, Buf(x).kind, Buf(x).nocopy, Alloc(n), d)
    <2>2. d \in Seq(Vals) /\ Len(d) = Used(x) /\ Len(d) <= Alloc(n) /\ Len(d) <= MaxLen
      BY <1>1, CopiedGood DEF Buf, Used
    <2>3. Alloc(n) \in Nat /\ n <= Alloc(n)
      BY AllocFits
    <2>4. /\ o.ref = 1 /\ o.kind = Buf(x).kind /\ o.size = Alloc(n) /\ o.data = d
          /\ o \in Buffers
      BY <1>1, <2>2, <2>3 DEF Buffer, Buffers
    <2> HIDE DEF o
    <2>5. Sound(o)
      BY <2>2, <2>4 DEF Sound
    <2>6. Shared(x)
      BY <1>1, <1>4 DEF Shared, Buf
    <2>7. inst + Managed(Buf(x).kind, Len(d)) = inst + Cells(o)
      BY <2>4 DEF Cells
    <2>8. Good(s)
      BY <2>1, <2>4, <2>5, <2>6, <2>7, RenewedGood DEF o
    <2>9. b \in Bufs /\ b # Null
      BY HandleAssumption DEF FreeBufs
    <2>10. s.at = [at EXCEPT ![x] = b] /\ s.heap = [Unref(Now, at[x]).heap EXCEPT ![b] = o]
      BY <2>1 DEF Place, State, o
    <2>11. x \in DOMAIN at /\ b \in DOMAIN Unref(Now, at[x]).heap
      BY <2>6, <2>9, NowFields, LeftGood DEF Good, Owned
    <2>12. s.at[x] = b /\ s.heap[b] = o
      BY <2>10, <2>11
    <2> QED
      BY <2>2, <2>3, <2>4, <2>8, <2>9, <2>12 DEF Roomy
  <1> QED
    BY <1>2, <1>3, <1>4

\* An array without buffer gets a new one with n cells.
LEMMA FirstGood ==
    ASSUME Good(Now), NEW x \in Arrays, at[x] = Null, NEW b \in FreeBufs, NEW n \in Nat,
           NEW k \in Kinds, NEW nc \in BOOLEAN, NEW d \in Seq(Vals), k = "raw" \/ d = << >>,
           Len(d) <= n, Len(d) <= MaxLen
    PROVE  Good(Place(Now, x, b, Buffer(1, k, nc, Alloc(n), d)))
  <1> DEFINE o == Buffer(1, k, nc, Alloc(n), d)
             s == Place(Now, x, b, o)
  <1>1. Alloc(n) \in Nat /\ n <= Alloc(n)
    BY AllocFits
  <1>2. /\ o.ref = 1 /\ o.kind = k /\ o.size = Alloc(n) /\ o.data = d
        /\ o \in Buffers
    BY <1>1 DEF Buffer, Buffers
  <1>3. s.heap = [heap EXCEPT ![b] = o] /\ s.at = [at EXCEPT ![x] = b] /\ s.inst = inst
    BY DEF Place, State, Now
  <1>4. Owned(heap, at, inst)
    BY NowFields DEF Good
  <1>5. b \in Bufs /\ heap[b].ref = 0 /\ b # Null
    BY HandleAssumption DEF FreeBufs
  <1> HIDE DEF o, s
  <1>7. Sound(o) /\ Cells(o) = 0
    <2>1. Len(d) \in Nat /\ Len(<< >>) = 0
      OBVIOUS
    <2> QED
      BY <1>1, <1>2, <2>1 DEF Sound, Cells, Managed
  <1>8. Owned(s.heap, s.at, inst + Cells(o))
    BY <1>2, <1>3, <1>4, <1>5, <1>7, BufferPlaced, SMTT(60)
  <1>9. inst + Cells(o) = inst
    BY <1>4, <1>7, LiveFinite, FS_CardinalityType DEF Owned
  <1>10. Good(s)
    BY <1>3, <1>8, <1>9 DEF Good
  <1> QED
    BY <1>10 DEF s, o

\* A first buffer for an empty array keeps the counts.
LEMMA FirstRaw ==
    ASSUME Good(Now), NEW x \in Arrays, at[x] = Null, NEW b \in FreeBufs, NEW n \in Nat,
           NEW d \in Seq(Vals), Len(d) <= n, Len(d) <= MaxLen
    PROVE  Good(Place(Now, x, b, Buffer(1, "raw", FALSE, Alloc(n), d)))
  <1> DEFINE k == "raw"
             nc == FALSE
  <1>1. k \in Kinds /\ nc \in BOOLEAN /\ k = "raw"
    BY DEF Kinds
  <1> HIDE DEF k, nc
  <1>2. Good(Place(Now, x, b, Buffer(1, k, nc, Alloc(n), d)))
    BY <1>1, FirstGood
  <1> QED
    BY <1>2 DEF k, nc

\* The array uses its first buffer.
LEMMA FirstFields ==
    ASSUME Good(Now), NEW x \in Arrays, NEW b \in FreeBufs, NEW o
    PROVE  LET s == Place(Now, x, b, o)
           IN s.at[x] = b /\ s.heap[b] = o /\ b \in Bufs /\ b # Null
  <1>1. b \in Bufs /\ b # Null /\ DOMAIN heap = Bufs /\ DOMAIN at = Arrays
    BY NowFields, HandleAssumption DEF Good, Owned, FreeBufs
  <1> QED
    BY <1>1 DEF Place, State, Now

-----------------------------------------------------------------------------
(* The operations.                                                         *)

\* A step to a consistent state is a consistent step.
LEMMA BecomeGood ==
    ASSUME NEW s, Good(s), Become(s)
    PROVE  Owned(heap', at', inst')
  BY DEF Good, Become

\* The present state is consistent when the variables are.
LEMMA NowGood == Good(Now) <=> Owned(heap, at, inst)
  BY NowFields DEF Good

\* What is left of a buffer without one of its references, and the elements lost.
Rest(o) == IF o.ref > 1 THEN [o EXCEPT !.ref = @ - 1] ELSE Free
Lost(o) == IF o.ref > 1 THEN 0 ELSE Cells(o)

\* A user less: the last one takes the living elements with it.
LEMMA RestGood ==
    ASSUME NEW o, Sound(o), o.ref > 0
    PROVE  /\ Sound(Rest(o)) /\ Rest(o).ref = o.ref - 1
           /\ Lost(o) \in Nat /\ Cells(o) \in Nat /\ Cells(Rest(o)) = Cells(o) - Lost(o)
  <1>1. Cells(o) \in Nat /\ o.ref \in Nat /\ o \in Buffers
    BY CellsCounted DEF Sound, Buffers
  <1>2. CASE o.ref > 1
    <2> DEFINE p == [o EXCEPT !.ref = @ - 1]
    <2>1. /\ p \in Buffers /\ p.ref = o.ref - 1 /\ p.kind = o.kind /\ p.data = o.data
          /\ p.size = o.size
      BY <1>1, <1>2 DEF Buffers
    <2>2. Rest(o) = p /\ Lost(o) = 0
      BY <1>2 DEF Rest, Lost
    <2> HIDE DEF p
    <2> QED
      BY <1>1, <1>2, <2>1, <2>2 DEF Sound, Cells
  <1>3. CASE ~(o.ref > 1)
    <2>1. /\ Free \in Buffers /\ Free.ref = 0 /\ Free.data = << >> /\ Free.size = 0
          /\ Free.kind = "raw" /\ Len(Free.data) = 0 /\ MaxLen >= 0
      BY SizeAssumption DEF Free, Buffer, Buffers, Kinds
    <2>2. Rest(o) = Free /\ Lost(o) = Cells(o) /\ o.ref = 1
      BY <1>1, <1>3 DEF Rest, Lost
    <2>3. Sound(Free) /\ Cells(Free) = 0
      BY <2>1 DEF Sound, Cells, Managed
    <2> QED
      BY <1>1, <2>1, <2>2, <2>3
  <1> QED
    BY <1>2, <1>3

\* What a lost reference changes.
LEMMA UnrefFields ==
    ASSUME NEW h, NEW a, NEW i \in Int, NEW b
    PROVE  /\ Unref(State(h, a, i), b).heap = [h EXCEPT ![b] = Rest(h[b])]
           /\ Unref(State(h, a, i), b).at = a
           /\ Unref(State(h, a, i), b).inst = i - Lost(h[b])
  <1> DEFINE s == State(h, a, i)
  <1>0. s.heap = h /\ s.at = a /\ s.inst = i
    BY DEF State
  <1>1. CASE h[b].ref > 1
    <2>1. Unref(s, b) = [s EXCEPT !.heap[b].ref = @ - 1]
      BY <1>0, <1>1 DEF Unref
    <2>2. Rest(h[b]) = [h[b] EXCEPT !.ref = @ - 1] /\ Lost(h[b]) = 0
      BY <1>1 DEF Rest, Lost
    <2>3. Unref(s, b).heap = [h EXCEPT ![b] = [h[b] EXCEPT !.ref = @ - 1]]
      BY <2>1 DEF State
    <2>4. Unref(s, b).at = a /\ Unref(s, b).inst = i
      BY <2>1 DEF State
    <2> HIDE DEF s
    <2>5. i = i - Lost(h[b])
      BY <2>2
    <2>6. Unref(s, b).heap = [h EXCEPT ![b] = Rest(h[b])]
      BY <2>2, <2>3
    <2> QED
      BY <2>4, <2>5, <2>6 DEF s
  <1>2. CASE ~(h[b].ref > 1)
    BY <1>0, <1>2 DEF Unref, State, Rest, Lost, Cells
  <1> QED
    BY <1>1, <1>2

\* An array without its buffer.
LEMMA RestOwned ==
    ASSUME Good(Now), NEW x \in Arrays, at[x] # Null
    PROVE  Owned([heap EXCEPT ![at[x]] = Rest(heap[at[x]])], [at EXCEPT ![x] = Null],
                 inst - Lost(heap[at[x]]))
  <1> DEFINE b == at[x]
             o == Rest(heap[b])
  <1>1. /\ b \in Bufs /\ Sound(heap[b]) /\ x \in Users(at, b) /\ heap[b].ref > 0
    BY BufferNow
  <1>2. /\ Sound(o) /\ o.ref = heap[b].ref - 1 /\ Cells(o) = Cells(heap[b]) - Lost(heap[b])
        /\ Lost(heap[b]) \in Nat /\ Cells(heap[b]) \in Nat
    BY <1>1, RestGood
  <1>3. Owned(heap, at, inst) /\ inst \in Int
    BY NowGood, LiveFinite, FS_CardinalityType DEF Owned
  <1>4. Owned([heap EXCEPT ![b] = o], [at EXCEPT ![x] = Null], inst - Cells(heap[b]) + Cells(o))
    BY <1>1, <1>2, <1>3, BufferLeft
  <1>5. inst - Cells(heap[b]) + Cells(o) = inst - Lost(heap[b])
    BY <1>2, <1>3
  <1> QED
    BY <1>4, <1>5

\* An array that drops its buffer keeps the counts.
LEMMA ClearGood ==
    ASSUME Good(Now), NEW x \in Arrays, Clear(x)
    PROVE  Owned(heap', at', inst')
  <1>1. at[x] # Null /\ Become(Unref(State(heap, [at EXCEPT ![x] = Null], inst), at[x]))
    BY DEF Clear
  <1>2. inst \in Int
    BY NowGood, LiveFinite, FS_CardinalityType DEF Owned
  <1> DEFINE a == [at EXCEPT ![x] = Null]
  <1>3. Owned([heap EXCEPT ![at[x]] = Rest(heap[at[x]])], a, inst - Lost(heap[at[x]]))
    BY <1>1, RestOwned
  <1> HIDE DEF a
  <1>4. /\ Unref(State(heap, a, inst), at[x]).heap = [heap EXCEPT ![at[x]] = Rest(heap[at[x]])]
        /\ Unref(State(heap, a, inst), at[x]).at = a
        /\ Unref(State(heap, a, inst), at[x]).inst = inst - Lost(heap[at[x]])
    BY <1>2, UnrefFields
  <1>5. Good(Unref(State(heap, a, inst), at[x]))
    BY <1>3, <1>4 DEF Good
  <1> QED
    BY <1>1, <1>5, BecomeGood DEF a

\* An array that takes the buffer of another keeps the counts.
LEMMA CloneGood ==
    ASSUME Good(Now), NEW x \in Arrays, NEW y \in Arrays, Clone(x, y)
    PROVE  Owned(heap', at', inst')
  <1> DEFINE c == at[y]
             p == [heap[c] EXCEPT !.ref = @ + 1]
             s == State([heap EXCEPT ![c] = p], [at EXCEPT ![x] = c], inst)
  <1>1. c # Null /\ c # at[x]
    BY DEF Clone
  <1>2. Become(IF at[x] = Null THEN s ELSE Unref(s, at[x]))
    BY DEF Clone
  <1>3. /\ c \in Bufs /\ Sound(heap[c]) /\ heap[c].ref \in Nat /\ heap[c].ref > 0
        /\ Owned(heap, at, inst) /\ inst \in Int
    BY <1>1, BufferNow, NowGood, LiveFinite, FS_CardinalityType DEF Owned
  <1>4. Sound(p) /\ p.ref = heap[c].ref + 1 /\ Cells(p) = Cells(heap[c])
    <2>1. /\ p \in Buffers /\ p.ref = heap[c].ref + 1 /\ p.kind = heap[c].kind
          /\ p.data = heap[c].data /\ p.size = heap[c].size
      BY <1>3 DEF Sound, Buffers
    <2> HIDE DEF p
    <2> QED
      BY <1>3, <2>1 DEF Sound, Cells
  <1> HIDE DEF p
  <1>5. CASE at[x] = Null
    <2>1. Owned([heap EXCEPT ![c] = p], [at EXCEPT ![x] = c], inst)
      BY <1>3, <1>4, <1>5, BufferJoined
    <2>2. Good(s)
      BY <2>1 DEF Good, State
    <2> QED
      BY <1>2, <1>5, <2>2, BecomeGood
  <1>6. CASE at[x] # Null
    <2> DEFINE b == at[x]
               o == Rest(heap[b])
               h == [heap EXCEPT ![b] = o]
               a == [at EXCEPT ![x] = Null]
               i == inst - Lost(heap[b])
               t == Unref(s, b)
    <2>1. Owned(h, a, i) /\ b \in Bufs
      BY <1>6, RestOwned, BufferNow
    <2>2. a[x] = Null /\ h[c] = heap[c] /\ [a EXCEPT ![x] = c] = [at EXCEPT ![x] = c]
      BY <1>1, <1>3, <2>1 DEF Owned
    <2> DEFINE g == [heap EXCEPT ![c] = p]
               e == [at EXCEPT ![x] = c]
    <2>3. g[b] = heap[b] /\ DOMAIN heap = Bufs
      BY <1>1, <1>3, <2>1 DEF Owned
    <2>4. [g EXCEPT ![b] = o] = [h EXCEPT ![c] = p]
      <3> HIDE DEF o
      <3> QED
        BY <1>1, <1>3, <2>1, <2>3
    <2> HIDE DEF g, e
    <2>9. /\ Unref(State(g, e, inst), b).heap = [g EXCEPT ![b] = Rest(g[b])]
          /\ Unref(State(g, e, inst), b).at = e
          /\ Unref(State(g, e, inst), b).inst = inst - Lost(g[b])
      <3>1. inst \in Int
        BY <1>3
      <3> HIDE DEF b
      <3> QED
        BY ONLY <3>1, UnrefFields
    <2>10. t = Unref(State(g, e, inst), b)
      BY DEF g, e
    <2>11. t.heap = [h EXCEPT ![c] = p] /\ t.at = [a EXCEPT ![x] = c] /\ t.inst = i
      <3> HIDE DEF h, a, t
      <3> QED
        BY <2>2, <2>3, <2>4, <2>9, <2>10 DEF e
    <2>5. Become(t)
      BY <1>2, <1>6
    <2> HIDE DEF h, a, i, t
    <2>6. Owned([h EXCEPT ![c] = p], [a EXCEPT ![x] = c], i)
      BY <1>3, <1>4, <2>1, <2>2, BufferJoined
    <2>7. Good(t)
      BY <2>11, <2>6 DEF Good
    <2> QED
      BY <2>5, <2>7, BecomeGood
  <1> QED
    BY <1>5, <1>6

\* A new typed buffer keeps the counts.
LEMMA CreateGood ==
    ASSUME Good(Now), NEW x \in Arrays, NEW k \in Kinds, NEW nc \in BOOLEAN, Create(x, k, nc)
    PROVE  Owned(heap', at', inst')
  <1>1. PICK b \in FreeBufs : Become(Place(Now, x, b, Buffer(1, k, nc, Alloc(0), << >>)))
    BY DEF Create
  <1>2. at[x] = Null /\ << >> \in Seq(Vals) /\ Len(<< >>) = 0 /\ 0 <= MaxLen
    BY SizeAssumption DEF Create
  <1> DEFINE d == << >>
  <1>3. at[x] = Null /\ d \in Seq(Vals) /\ Len(d) <= 0 /\ Len(d) <= MaxLen /\ d = << >>
    BY <1>2
  <1> HIDE DEF d
  <1>4. 0 \in Nat
    OBVIOUS
  <1>5. Good(Place(Now, x, b, Buffer(1, k, nc, Alloc(0), d)))
    BY <1>3, <1>4, FirstGood
  <1> QED
    BY <1>1, <1>5, BecomeGood DEF d

-----------------------------------------------------------------------------
(* Operations that change the content.                                     *)

\* n times the same value.
LEMMA RepSeq ==
    ASSUME NEW n \in Nat, NEW v \in Vals
    PROVE  Rep(n, v) \in Seq(Vals) /\ Len(Rep(n, v)) = n
  BY DEF Rep

\* The length of data with data behind it.
LEMMA Joined ==
    ASSUME NEW d \in Seq(Vals), NEW e \in Seq(Vals)
    PROVE  d \o e \in Seq(Vals) /\ Len(d \o e) = Len(d) + Len(e)
  OBVIOUS

\* An insertion gives the data, the gap before the position and the new cells.
LEMMA InsertedSeq ==
    ASSUME NEW d \in Seq(Vals), NEW pos \in Nat, NEW n \in Nat, NEW v \in Vals
    PROVE  Inserted(d, pos, n, v) \in Seq(Vals) /\ Len(Inserted(d, pos, n, v)) = Max(Len(d), pos) + n
  <1> DEFINE r == Rep(n, v)
  <1>1. r \in Seq(Vals) /\ Len(r) = n /\ Len(d) \in Nat
    BY RepSeq
  <1>2. CASE pos < Len(d)
    <2> DEFINE p == SubSeq(d, 1, pos)
               q == SubSeq(d, pos + 1, Len(d))
    <2>1. p \in Seq(Vals) /\ Len(p) = pos
      BY <1>1, <1>2
    <2>2. q \in Seq(Vals) /\ Len(q) = Len(d) - pos
      BY <1>1, <1>2
    <2>3. Inserted(d, pos, n, v) = p \o r \o q
      BY <1>2 DEF Inserted
    <2>4. Max(Len(d), pos) = Len(d)
      BY <1>1, <1>2 DEF Max
    <2> HIDE DEF p, q, r
    <2>5. p \o r \in Seq(Vals) /\ Len(p \o r) = pos + n
      BY <1>1, <2>1, Joined
    <2>6. (p \o r) \o q \in Seq(Vals) /\ Len((p \o r) \o q) = pos + n + (Len(d) - pos)
      BY <2>2, <2>5, Joined
    <2> QED
      BY <1>1, <2>3, <2>4, <2>6
  <1>3. CASE ~(pos < Len(d))
    <2> DEFINE p == Rep(pos - Len(d), Zero)
    <2>1. p \in Seq(Vals) /\ Len(p) = pos - Len(d)
      <3>1. pos - Len(d) \in Nat
        BY <1>1, <1>3
      <3> QED
        BY <3>1, RepSeq, CellAssumption
    <2>2. Inserted(d, pos, n, v) = d \o p \o r
      BY <1>3 DEF Inserted
    <2>3. Max(Len(d), pos) = pos
      BY <1>1, <1>3 DEF Max
    <2> HIDE DEF p, r
    <2>4. d \o p \in Seq(Vals) /\ Len(d \o p) = pos
      BY <1>1, <2>1, Joined
    <2>5. (d \o p) \o r \in Seq(Vals) /\ Len((d \o p) \o r) = pos + n
      BY <1>1, <2>4, Joined
    <2> QED
      BY <2>2, <2>3, <2>5
  <1> QED
    BY <1>2, <1>3

\* The content of an array with room, and the array as it is.
LEMMA RoomyContent ==
    ASSUME NEW s, NEW x \in Arrays, NEW n, Roomy(s, x, n)
    PROVE  /\ Content(s, x) \in Seq(Vals) /\ Len(Content(s, x)) = Used(x)
           /\ s.heap[s.at[x]].size \in Nat /\ n <= s.heap[s.at[x]].size
           /\ Used(x) <= s.heap[s.at[x]].size
  <1>1. Good(s) /\ s.at[x] \in Bufs /\ Len(Content(s, x)) = Used(x) /\ n <= s.heap[s.at[x]].size
    BY DEF Roomy, Content
  <1>2. Sound(s.heap[s.at[x]])
    BY <1>1 DEF Good, Owned
  <1> QED
    BY <1>1, <1>2 DEF Sound, Buffers, Content

\* A buffer of the right size has room.
LEMMA NowRoomy ==
    ASSUME Good(Now), NEW x \in Arrays, at[x] # Null, NEW n \in Nat, n <= Buf(x).size
    PROVE  Roomy(Now, x, n)
  BY BufferNow, NowFields DEF Roomy, Used, Buf

\* Data may be put to a buffer with room for it.
LEMMA FillRoomy ==
    ASSUME NEW s, NEW x \in Arrays, NEW n \in Nat, Roomy(s, x, n), Used(x) \in Nat,
           NEW d \in Seq(Vals), Len(d) <= n, Len(d) <= MaxLen,
           NEW made, made = Len(d) - Used(x)
    PROVE  Good(Fill(s, x, d, made))
  <1>1. /\ Good(s) /\ s.at[x] \in Bufs /\ s.at[x] # Null /\ Len(s.heap[s.at[x]].data) = Used(x)
        /\ n <= s.heap[s.at[x]].size
    BY DEF Roomy
  <1>2. s.heap[s.at[x]].size \in Nat /\ Len(d) \in Nat
    BY RoomyContent
  <1>3. Len(d) <= s.heap[s.at[x]].size /\ made \in Int
    BY <1>1, <1>2, SMTT(60)
  <1> QED
    BY <1>1, <1>3, FillGood

\* `mpt_array_append` keeps the counts.
LEMMA AppendGood ==
    ASSUME Good(Now), NEW x \in Arrays, NEW n \in 0..MaxLen, NEW v \in Vals,
           mpt_array_append(x, n, v)
    PROVE  Owned(heap', at', inst')
  <1>1. n \in Nat /\ n <= MaxLen /\ Rep(n, v) \in Seq(Vals) /\ Len(Rep(n, v)) = n
    BY RepSeq, SizeAssumption
  <1>2. CASE at[x] = Null
    <2>1. PICK b \in FreeBufs :
            Become(Place(Now, x, b, Buffer(1, "raw", FALSE, Alloc(n), Rep(n, v))))
      BY <1>2 DEF mpt_array_append
    <2> DEFINE d == Rep(n, v)
    <2>2. d \in Seq(Vals) /\ Len(d) <= n /\ Len(d) <= MaxLen
      BY <1>1
    <2> HIDE DEF d
    <2>3. Good(Place(Now, x, b, Buffer(1, "raw", FALSE, Alloc(n), d)))
      BY <1>1, <1>2, <2>2, FirstRaw
    <2> QED
      BY <2>1, <2>3, BecomeGood DEF d
  <1>3. CASE at[x] # Null
    <2>1. /\ Used(x) + n <= MaxLen
          /\ \E s \in IF n > Buf(x).size - Used(x) THEN Detach(x, Used(x) + n) ELSE {Now} :
               Become(Fill(s, x, Content(s, x) \o Rep(n, v), n))
      BY <1>3 DEF mpt_array_append
    <2>2. Used(x) \in Nat /\ Buf(x).size \in Nat /\ Used(x) + n \in Nat
      BY <1>1, <1>3, BufferNow
    <2>3. PICK s : Roomy(s, x, Used(x) + n) /\ Become(Fill(s, x, Content(s, x) \o Rep(n, v), n))
      <3>1. CASE n > Buf(x).size - Used(x)
        BY <1>3, <2>1, <2>2, <3>1, DetachGood
      <3>2. CASE ~(n > Buf(x).size - Used(x))
        <4>1. Used(x) + n <= Buf(x).size
          BY <1>1, <2>2, <3>2
        <4> QED
          BY <1>3, <2>1, <2>2, <3>2, <4>1, NowRoomy
      <3> QED
        BY <3>1, <3>2
    <2> DEFINE d == Content(s, x) \o Rep(n, v)
    <2>4. d \in Seq(Vals) /\ Len(d) = Used(x) + n
      BY <1>1, <2>2, <2>3, RoomyContent
    <2>5. Become(Fill(s, x, d, n))
      BY <2>3
    <2> HIDE DEF d
    <2>6. Len(d) <= Used(x) + n /\ Len(d) <= MaxLen /\ n = Len(d) - Used(x)
      BY <1>1, <2>1, <2>2, <2>4
    <2>7. Good(Fill(s, x, d, n))
      BY <2>2, <2>3, <2>4, <2>6, FillRoomy
    <2> QED
      BY <2>5, <2>7, BecomeGood
  <1> QED
    BY <1>2, <1>3

\* mpt_buffer_insert in a buffer with room for all of the content.
LEMMA InsertDone ==
    ASSUME NEW s, NEW x \in Arrays, NEW total \in Nat, Roomy(s, x, total), Used(x) \in Nat,
           NEW pos \in Nat, NEW n \in Nat, NEW v \in Vals,
           Max(Used(x), pos) + n <= total, Max(Used(x), pos) + n <= MaxLen
    PROVE  LET t == Insert(s, x, pos, n, v)
           IN /\ Good(t) /\ t.at = s.at
              /\ Content(t, x) = Inserted(Content(s, x), pos, n, v)
  <1> DEFINE d == Inserted(Content(s, x), pos, n, v)
             made == Len(d) - Len(Content(s, x))
  <1>1. d \in Seq(Vals) /\ Len(d) = Max(Used(x), pos) + n /\ Len(Content(s, x)) = Used(x)
    BY RoomyContent, InsertedSeq
  <1>2. Insert(s, x, pos, n, v) = Fill(s, x, d, made) /\ made = Len(d) - Used(x)
    BY <1>1 DEF Insert
  <1>3. /\ Fill(s, x, d, made).heap = [s.heap EXCEPT ![s.at[x]] = [s.heap[s.at[x]] EXCEPT !.data = d]]
        /\ Fill(s, x, d, made).at = s.at
    BY FillFields
  <1> HIDE DEF d, made
  <1>4. Len(d) <= total /\ Len(d) <= MaxLen
    BY <1>1
  <1>5. Good(Fill(s, x, d, made))
    BY <1>1, <1>2, <1>4, FillRoomy
  <1>6. Content(Fill(s, x, d, made), x) = d
    <2>1. s.at[x] \in Bufs /\ DOMAIN s.heap = Bufs /\ s.heap[s.at[x]] \in Buffers
      BY DEF Roomy, Good, Owned, Sound
    <2>2. Fill(s, x, d, made).heap[s.at[x]].data = d
      BY <1>3, <2>1 DEF Buffers
    <2> QED
      BY <1>3, <2>2 DEF Content
  <1> QED
    BY <1>2, <1>3, <1>5, <1>6 DEF d

\* `mpt_array_insert` keeps the counts.
LEMMA InsertGood ==
    ASSUME Good(Now), NEW x \in Arrays, NEW pos \in 0..MaxLen, NEW n \in 0..MaxLen, NEW v \in Vals,
           mpt_array_insert(x, pos, n, v)
    PROVE  Owned(heap', at', inst')
  <1>1. pos \in Nat /\ n \in Nat /\ pos + n \in Nat
    BY SizeAssumption
  <1>2. CASE at[x] = Null
    <2> DEFINE d == Rep(pos, Zero) \o Rep(n, v)
    <2>1. PICK b \in FreeBufs :
            /\ pos + n <= MaxLen
            /\ Become(Place(Now, x, b, Buffer(1, "raw", FALSE, Alloc(pos + n), d)))
      BY <1>2 DEF mpt_array_insert
    <2>2. d \in Seq(Vals) /\ Len(d) = pos + n
      <3>1. /\ Rep(pos, Zero) \in Seq(Vals) /\ Len(Rep(pos, Zero)) = pos
            /\ Rep(n, v) \in Seq(Vals) /\ Len(Rep(n, v)) = n
        BY <1>1, RepSeq, CellAssumption
      <3> QED
        BY <3>1, Joined
    <2> HIDE DEF d
    <2>3. Len(d) <= pos + n /\ Len(d) <= MaxLen
      BY <1>1, <2>1, <2>2
    <2>4. Good(Place(Now, x, b, Buffer(1, "raw", FALSE, Alloc(pos + n), d)))
      BY <1>1, <1>2, <2>2, <2>3, FirstRaw
    <2> QED
      BY <2>1, <2>4, BecomeGood
  <1>3. CASE at[x] # Null
    <2> DEFINE total == Max(Used(x), pos) + n
    <2>1. /\ total <= MaxLen
          /\ \E s \in IF total <= Buf(x).size /\ ~Shared(x) THEN {Now} ELSE Detach(x, total) :
               Become(Insert(s, x, pos, n, v))
      BY <1>3 DEF mpt_array_insert
    <2>2. Used(x) \in Nat
      BY <1>3, BufferNow
    <2>3. total \in Nat
      BY <1>1, <2>2 DEF Max
    <2> HIDE DEF total
    <2>4. PICK s : Roomy(s, x, total) /\ Become(Insert(s, x, pos, n, v))
      BY <1>3, <2>1, <2>3, DetachGood, NowRoomy
    <2>5. Max(Used(x), pos) + n <= total /\ Max(Used(x), pos) + n <= MaxLen
      BY <2>1, <2>3 DEF total
    <2>6. Good(Insert(s, x, pos, n, v))
      BY <1>1, <2>2, <2>3, <2>4, <2>5, InsertDone
    <2> QED
      BY <2>4, <2>6, BecomeGood
  <1> QED
    BY <1>2, <1>3

\* An array that holds at least n cells.
Filled(s, x, n) ==
  /\ Good(s) /\ s.at[x] \in Bufs /\ s.at[x] # Null
  /\ n <= Len(Content(s, x))

\* The caller writes cells that the array holds.
LEMMA WrittenGood ==
    ASSUME NEW s, NEW x \in Arrays, NEW off \in Nat, NEW n \in Nat, Filled(s, x, off + n), NEW v \in Vals
    PROVE  Good(Fill(s, x, Written(Content(s, x), off, n, v), 0))
  <1> DEFINE c == Content(s, x)
             d == Written(c, off, n, v)
  <1>1. Good(s) /\ s.at[x] \in Bufs /\ s.at[x] # Null /\ c = s.heap[s.at[x]].data
    BY DEF Filled, Content
  <1>2. Sound(s.heap[s.at[x]])
    BY <1>1 DEF Good, Owned
  <1>3. c \in Seq(Vals) /\ Len(c) <= s.heap[s.at[x]].size /\ Len(c) <= MaxLen
    BY <1>1, <1>2 DEF Sound, Buffers
  <1> HIDE DEF c
  <1>4. d \in Seq(Vals) /\ Len(d) = Len(c)
    BY <1>3 DEF Written
  <1> HIDE DEF d
  <1> DEFINE made == 0
  <1>5. made \in Int /\ made = Len(d) - Len(s.heap[s.at[x]].data)
    BY <1>1, <1>3, <1>4
  <1>6. Len(d) <= s.heap[s.at[x]].size /\ Len(d) <= MaxLen
    BY <1>3, <1>4
  <1> HIDE DEF made
  <1>7. Good(Fill(s, x, d, made))
    BY <1>1, <1>4, <1>5, <1>6, FillGood
  <1> QED
    BY <1>7 DEF made, d, c

\* The array of a part that reaches beyond its end is extended to the end of the part.
LEMMA ExtendedGood ==
    ASSUME NEW s, NEW x \in Arrays, Used(x) \in Nat, NEW n \in Nat, n <= MaxLen, Roomy(s, x, n)
    PROVE  Filled(Extended(s, x, n), x, n)
  <1>1. /\ Content(s, x) \in Seq(Vals) /\ Len(Content(s, x)) = Used(x)
        /\ Good(s) /\ s.at[x] \in Bufs /\ s.at[x] # Null
    BY RoomyContent DEF Roomy
  <1>2. CASE n > Used(x)
    <2> DEFINE m == n - Used(x)
               u == Used(x)
               t == Insert(s, x, u, m, Zero)
    <2>1. Extended(s, x, n) = t
      BY <1>1, <1>2 DEF Extended
    <2>2. /\ m \in Nat /\ u \in Nat /\ Max(Used(x), u) + m = n
      BY <1>2 DEF Max
    <2> HIDE DEF m, u
    <2>3. Max(Used(x), u) + m <= n /\ Max(Used(x), u) + m <= MaxLen
      BY <2>2
    <2>4. Good(t) /\ t.at = s.at /\ Content(t, x) = Inserted(Content(s, x), u, m, Zero)
      BY <2>2, <2>3, InsertDone, CellAssumption
    <2>5. Len(Inserted(Content(s, x), u, m, Zero)) = n
      BY <1>1, <2>2, InsertedSeq, CellAssumption
    <2> HIDE DEF t
    <2> QED
      BY <1>1, <2>1, <2>4, <2>5 DEF Filled
  <1>3. CASE ~(n > Used(x))
    <2>1. Extended(s, x, n) = s
      BY <1>1, <1>3 DEF Extended
    <2> QED
      BY <1>1, <1>3, <2>1 DEF Filled
  <1> QED
    BY <1>2, <1>3

\* `mpt_array_slice` keeps the counts.
LEMMA SliceGood ==
    ASSUME Good(Now), NEW x \in Arrays, NEW off \in 0..MaxLen, NEW n \in 0..MaxLen,
           NEW v \in Vals \cup {Dead}, mpt_array_slice(x, off, n, v)
    PROVE  Owned(heap', at', inst')
  <1> DEFINE result(s) == IF v = Dead THEN s ELSE Fill(s, x, Written(Content(s, x), off, n, v), 0)
  <1>1. off \in Nat /\ n \in Nat /\ off + n \in Nat /\ off + n <= MaxLen
    BY SizeAssumption DEF mpt_array_slice
  <1>2. PICK s : Filled(s, x, off + n) /\ Become(result(s))
    <2>1. CASE at[x] = Null
      <3> DEFINE d == Rep(off + n, Zero)
      <3>1. PICK b \in FreeBufs :
              Become(result(Place(Now, x, b, Buffer(1, "raw", FALSE, Alloc(off + n), d))))
        BY <2>1 DEF mpt_array_slice
      <3>2. d \in Seq(Vals) /\ Len(d) = off + n
        BY <1>1, RepSeq, CellAssumption
      <3> DEFINE o == Buffer(1, "raw", FALSE, Alloc(off + n), d)
      <3>3. o.data = d
        BY DEF Buffer
      <3> HIDE DEF d
      <3>4. Len(d) <= off + n /\ Len(d) <= MaxLen
        BY <1>1, <3>2
      <3> DEFINE s == Place(Now, x, b, o)
      <3>5. Good(s)
        BY <1>1, <2>1, <3>2, <3>4, FirstRaw
      <3>6. Become(result(s))
        BY <3>1
      <3> HIDE DEF o
      <3>8. s.at[x] = b /\ s.heap[b] = o /\ b \in Bufs /\ b # Null
        BY FirstFields
      <3> HIDE DEF s
      <3>7. Filled(s, x, off + n)
        BY <1>1, <3>2, <3>3, <3>5, <3>8 DEF Filled, Content
      <3> QED
        BY <3>6, <3>7
    <2>2. CASE at[x] # Null
      <3>1. PICK t \in Slice(x, off, n) : Become(result(Extended(t, x, off + n)))
        BY <2>2 DEF mpt_array_slice
      <3>2. Used(x) \in Nat /\ Buf(x).size \in Nat
        BY <2>2, BufferNow
      <3>3. Roomy(t, x, off + n)
        <4>1. CASE off + n > Buf(x).size \/ Shared(x)
          <5> DEFINE m == Max(off + n, Used(x))
          <5>1. t \in Detach(x, m)
            BY <3>1, <4>1 DEF Slice
          <5>2. m \in Nat /\ off + n <= m
            BY <1>1, <3>2 DEF Max
          <5> HIDE DEF m
          <5>3. Roomy(t, x, m)
            BY <2>2, <5>1, <5>2, DetachGood
          <5>4. t.heap[t.at[x]].size \in Nat /\ m <= t.heap[t.at[x]].size
            BY <5>3, RoomyContent
          <5>5. off + n <= t.heap[t.at[x]].size
            BY <1>1, <5>2, <5>4
          <5> QED
            BY <5>3, <5>5 DEF Roomy
        <4>2. CASE ~(off + n > Buf(x).size \/ Shared(x))
          <5>1. t = Now
            BY <3>1, <4>2 DEF Slice
          <5>2. off + n <= Buf(x).size
            BY <1>1, <3>2, <4>2
          <5> QED
            BY <1>1, <2>2, <5>1, <5>2, NowRoomy
        <4> QED
          BY <4>1, <4>2
      <3>4. Filled(Extended(t, x, off + n), x, off + n)
        BY <1>1, <3>2, <3>3, ExtendedGood
      <3> QED
        BY <3>1, <3>4
    <2> QED
      BY <2>1, <2>2
  <1>3. Good(result(s))
    <2>1. CASE v = Dead
      BY <1>2, <2>1 DEF Filled
    <2>2. CASE v # Dead
      <3>1. v \in Vals
        BY <2>2
      <3>2. Good(Fill(s, x, Written(Content(s, x), off, n, v), 0))
        BY <1>1, <1>2, <3>1, WrittenGood
      <3> QED
        BY <2>2, <3>2
    <2> QED
      BY <2>1, <2>2
  <1> HIDE DEF result
  <1> QED
    BY <1>2, <1>3, BecomeGood

\* Data replaced up to its end has the length of what was replaced.
LEMMA ReplacedSeq ==
    ASSUME NEW d \in Seq(Vals), NEW pos \in Nat, NEW n \in Nat, NEW v \in Vals, Len(d) <= pos + n
    PROVE  Replaced(d, pos, n, v) \in Seq(Vals) /\ Len(Replaced(d, pos, n, v)) = pos + n
  <1>1. Len(d) \in Nat /\ Max(Len(d), pos + n) = pos + n /\ pos + n \in Nat
    BY DEF Max
  <1>2. ASSUME NEW i \in 1..(pos + n)
        PROVE  Replaced(d, pos, n, v)[i] \in Vals
    <2>1. /\ i <= pos /\ i <= Len(d) => d[i] \in Vals
          /\ i > pos => i <= pos + n
      OBVIOUS
    <2> QED
      BY <1>1, <2>1, CellAssumption DEF Replaced
  <1> DEFINE e == Replaced(d, pos, n, v)
  <1>3. DOMAIN e = 1..(pos + n) /\ e = [i \in 1..(pos + n) |-> e[i]]
    BY <1>1 DEF Replaced
  <1>4. \A i \in 1..(pos + n) : e[i] \in Vals
    BY <1>2
  <1> HIDE DEF e
  <1>5. e \in [1..(pos + n) -> Vals]
    BY <1>3, <1>4
  <1>6. e \in Seq(Vals) /\ Len(e) = pos + n
    BY <1>1, <1>3, <1>5
  <1> QED
    BY <1>6 DEF e

\* Elements from a position to the end or beyond it are replaced.
LEMMA BufferSetGood ==
    ASSUME NEW s, NEW x \in Arrays, Good(s), s.at[x] \in Bufs, s.at[x] # Null,
           NEW pos \in Nat, NEW n \in Nat, NEW v \in Vals, pos + n <= MaxLen,
           pos + n <= s.heap[s.at[x]].size, Len(Content(s, x)) <= pos + n
    PROVE  Good(mpt_buffer_set(s, x, pos, n, v))
  <1> DEFINE c == Content(s, x)
             d == Replaced(c, pos, n, v)
             made == (IF pos < Len(c) THEN pos - Len(c) ELSE 0)
                     + (IF pos > Len(c) THEN pos - Len(c) ELSE 0) + n
  <1>1. c \in Seq(Vals) /\ c = s.heap[s.at[x]].data
    BY DEF Content, Good, Owned, Sound, Buffers
  <1>2. d \in Seq(Vals) /\ Len(d) = pos + n
    BY <1>1, ReplacedSeq
  <1>4. mpt_buffer_set(s, x, pos, n, v) = Fill(s, x, d, made)
    BY DEF mpt_buffer_set
  <1> HIDE DEF c
  <1>3. made = pos + n - Len(c) /\ made \in Int
    <2> DEFINE u == Len(c)
    <2>1. u \in Nat
      BY <1>1, SMTT(60)
    <2> HIDE DEF u
    <2> DEFINE w == (IF pos < u THEN pos - u ELSE 0) + (IF pos > u THEN pos - u ELSE 0)
    <2>2. w = pos - u
      BY <2>1
    <2>3. made = w + n
      BY DEF u
    <2> HIDE DEF w, made
    <2>4. made = pos + n - u /\ made \in Int
      BY <2>1, <2>2, <2>3
    <2> QED
      BY <2>4 DEF u
  <1> HIDE DEF d, made
  <1>5. made = Len(d) - Len(s.heap[s.at[x]].data)
    BY <1>1, <1>2, <1>3
  <1>6. Len(d) <= MaxLen /\ Len(d) <= s.heap[s.at[x]].size
    BY <1>2
  <1>7. Good(Fill(s, x, d, made))
    BY <1>2, <1>3, <1>5, <1>6, FillGood
  <1> QED
    BY <1>4, <1>7

\* `mpt_array_set` at the end of the data keeps the counts.
LEMMA SetGood ==
    ASSUME ~ReplacesInside, Good(Now), NEW x \in Arrays, NEW pos \in 0..MaxLen, NEW n \in 0..MaxLen,
           NEW v \in Vals, mpt_array_set(x, pos, n, v)
    PROVE  Owned(heap', at', inst')
  <1>1. pos \in Nat /\ n \in Nat /\ pos + n \in Nat /\ pos + n <= MaxLen
    BY SizeAssumption DEF mpt_array_set
  <1>2. ASSUME SetFirst(x, pos, n, v)
        PROVE  Owned(heap', at', inst')
    <2> DEFINE d == << >>
               k == "managed"
               nc == FALSE
               m == pos + n
               o == Buffer(1, k, nc, Alloc(m), d)
               s(b) == Place(Now, x, b, o)
    <2>1. at[x] = Null /\ \E b \in FreeBufs : Become(mpt_buffer_set(s(b), x, pos, n, v))
      BY <1>2 DEF SetFirst
    <2>2. /\ d \in Seq(Vals) /\ Len(d) <= m /\ Len(d) <= MaxLen /\ d = << >> /\ Len(d) = 0
          /\ k \in Kinds /\ nc \in BOOLEAN /\ m \in Nat
      <3>1. d \in Seq(Vals) /\ Len(d) = 0
        OBVIOUS
      <3>2. k \in Kinds /\ nc \in BOOLEAN
        BY DEF Kinds
      <3> HIDE DEF d
      <3>3. Len(d) <= m /\ Len(d) <= MaxLen /\ m \in Nat
        BY <1>1, <3>1, SizeAssumption
      <3> QED
        BY <3>1, <3>2, <3>3 DEF d
    <2>3. o.size = Alloc(m) /\ o.data = d
      BY DEF Buffer
    <2> HIDE DEF d, k, nc, m
    <2>4. PICK b \in FreeBufs : Become(mpt_buffer_set(s(b), x, pos, n, v))
      BY <2>1
    <2>5. Good(s(b))
      BY <2>1, <2>2, FirstGood
    <2> HIDE DEF o
    <2>6. s(b).at[x] = b /\ s(b).heap[b] = o /\ b \in Bufs /\ b # Null
      BY FirstFields
    <2>7. m <= Alloc(m) /\ m = pos + n
      BY <2>2, AllocFits DEF m
    <2> HIDE DEF s
    <2>8. pos + n <= s(b).heap[s(b).at[x]].size /\ Len(Content(s(b), x)) <= pos + n
      BY <1>1, <2>2, <2>3, <2>6, <2>7 DEF Content
    <2>9. Good(mpt_buffer_set(s(b), x, pos, n, v))
      BY <1>1, <2>5, <2>6, <2>8, BufferSetGood
    <2> QED
      BY <2>4, <2>9, BecomeGood
  <1>3. ASSUME SetElements(x, pos, n, v)
        PROVE  Owned(heap', at', inst')
    <2>0. at[x] # Null /\ Buf(x).kind = "managed"
      BY <1>3 DEF SetElements
    <2>2. Used(x) \in Nat /\ Buf(x).size \in Nat
      BY <2>0, BufferNow
    <2>1. at[x] # Null /\ pos + n >= Used(x)
      BY <1>1, <2>0, <2>2 DEF ReplacesInside, Inside
    <2>3. ~CopyFails(x, pos + n)
      <3> DEFINE m == pos + n
      <3>1. m \in Nat /\ Used(x) <= m
        BY <1>1, <2>1, <2>2
      <3> HIDE DEF m
      <3>2. Alloc(m) \in Nat /\ m <= Alloc(m)
        BY <3>1, AllocFits
      <3>3. ~CopyFails(x, m)
        BY <2>2, <3>1, <3>2 DEF CopyFails
      <3> QED
        BY <3>3 DEF m
    <2>4. PICK t \in IF Buf(x).size < pos + n \/ Shared(x) THEN Detach(x, pos + n) ELSE {Now} :
                 Become(mpt_buffer_set(t, x, pos, n, v))
      BY <1>3, <2>3 DEF SetElements
    <2>5. Roomy(t, x, pos + n)
      <3>1. CASE Buf(x).size < pos + n \/ Shared(x)
        <4>1. t \in Detach(x, pos + n)
          BY <2>4, <3>1
        <4> QED
          BY <1>1, <2>1, <4>1, DetachGood
      <3>2. CASE ~(Buf(x).size < pos + n \/ Shared(x))
        <4>1. t = Now /\ pos + n <= Buf(x).size
          BY <1>1, <2>2, <2>4, <3>2
        <4> QED
          BY <1>1, <2>1, <4>1, NowRoomy
      <3> QED
        BY <3>1, <3>2
    <2>6. Len(Content(t, x)) = Used(x) /\ pos + n <= t.heap[t.at[x]].size
      BY <2>5, RoomyContent
    <2>7. Good(t) /\ t.at[x] \in Bufs /\ t.at[x] # Null /\ Len(Content(t, x)) <= pos + n
      BY <1>1, <2>1, <2>2, <2>5, <2>6 DEF Roomy
    <2>8. Good(mpt_buffer_set(t, x, pos, n, v))
      BY <1>1, <2>6, <2>7, BufferSetGood
    <2> QED
      BY <2>4, <2>8, BecomeGood
  <1> QED
    BY <1>2, <1>3 DEF mpt_array_set

-----------------------------------------------------------------------------
(* Operations on the buffer itself.                                        *)

\* An array that gets its buffer for itself keeps the counts.
LEMMA DetachedGood ==
    ASSUME Good(Now), NEW x \in Arrays, at[x] # Null, NEW n \in Nat,
           \E s \in Detach(x, n) : Become(s)
    PROVE  Owned(heap', at', inst')
  <1>1. PICK s \in Detach(x, n) : Become(s)
    OBVIOUS
  <1>2. Good(s)
    BY DetachGood DEF Roomy
  <1> QED
    BY <1>1, <1>2, BecomeGood

\* `mpt_array_reserve` of an empty array keeps the counts.
LEMMA ReserveNewGood ==
    ASSUME Good(Now), NEW x \in Arrays, NEW n \in Nat, NEW k \in Kinds, ReserveNew(x, n, k)
    PROVE  Owned(heap', at', inst')
  <1> DEFINE d == << >>
             nc == FALSE
  <1>1. d \in Seq(Vals) /\ Len(d) = 0 /\ d = << >> /\ nc \in BOOLEAN
    OBVIOUS
  <1>2. at[x] = Null /\ \E b \in FreeBufs : Become(Place(Now, x, b, Buffer(1, k, nc, Alloc(n), d)))
    BY DEF ReserveNew
  <1> HIDE DEF d, nc
  <1>3. PICK b \in FreeBufs : Become(Place(Now, x, b, Buffer(1, k, nc, Alloc(n), d)))
    BY <1>2
  <1>4. Len(d) <= n /\ Len(d) <= MaxLen
    BY <1>1, SizeAssumption
  <1>5. Good(Place(Now, x, b, Buffer(1, k, nc, Alloc(n), d)))
    BY <1>1, <1>2, <1>4, FirstGood
  <1> QED
    BY <1>3, <1>5, BecomeGood

\* An empty buffer.
LEMMA EmptySound ==
    ASSUME NEW k \in Kinds, NEW nc \in BOOLEAN, NEW n \in Nat, NEW o, o = Buffer(1, k, nc, n, << >>)
    PROVE  Sound(o) /\ o.ref = 1 /\ Cells(o) = 0
  <1>1. /\ o \in Buffers /\ o.ref = 1 /\ o.data = << >> /\ o.size = n /\ Len(o.data) = 0
        /\ 0 <= MaxLen
    BY SizeAssumption DEF Buffer, Buffers
  <1>2. Cells(o) = 0
    BY <1>1 DEF Cells, Managed
  <1>3. Sound(o)
    BY <1>1 DEF Sound
  <1> QED
    BY <1>1, <1>2, <1>3

\* `mpt_array_reserve` of a shared buffer leaves it to the other users.
LEMMA ReserveSharedGood ==
    ASSUME Good(Now), NEW x \in Arrays, NEW n \in Nat, NEW k \in Kinds, ReserveShared(x, n, k)
    PROVE  Owned(heap', at', inst')
  <1> DEFINE o == Buffer(1, k, FALSE, Alloc(n), << >>)
  <1>1. /\ at[x] # Null /\ Shared(x)
        /\ \E b \in FreeBufs : Become(Place(Unref(Now, at[x]), x, b, o))
    BY DEF ReserveShared
  <1>2. PICK b \in FreeBufs : Become(Place(Unref(Now, at[x]), x, b, o))
    BY <1>1
  <1>3. Sound(o) /\ o.ref = 1 /\ Cells(o) = 0
    BY AllocFits, EmptySound
  <1>4. inst \in Int
    BY NowGood, LiveFinite, FS_CardinalityType DEF Owned
  <1> HIDE DEF o
  <1> DEFINE t == Unref(Now, at[x])
             s == Place(State(t.heap, at, inst), x, b, o)
  <1>5. t.at = at /\ t.inst = inst
    BY <1>1, LeftGood
  <1>6. Place(t, x, b, o) = s
    <2> HIDE DEF t
    <2> QED
      BY <1>5 DEF Place, State
  <1>7. inst = inst + Cells(o)
    BY <1>3, <1>4
  <1>8. Good(s)
    BY <1>1, <1>3, <1>7, RenewedGood
  <1> HIDE DEF s
  <1> QED
    BY <1>2, <1>6, <1>8, BecomeGood

\* The elements of an array that has its buffer for itself make way for another kind.
LEMMA RetypeGood ==
    ASSUME Good(Now), NEW x \in Arrays, NEW n \in Nat, NEW k \in Kinds, Retype(x, n, k)
    PROVE  Owned(heap', at', inst')
  <1> DEFINE b == at[x]
             size(t) == IF t = k /\ n > heap[b].size THEN Alloc(n) ELSE heap[b].size
             o(t) == Buffer(1, t, heap[b].nocopy, size(t), << >>)
  <1>1. at[x] # Null /\ ~Shared(x)
    BY DEF Retype
  <1>2. /\ b \in Bufs /\ Sound(heap[b]) /\ heap[b].ref \in Nat /\ heap[b].ref > 0
        /\ heap[b].size \in Nat /\ heap[b].kind \in Kinds /\ heap[b].nocopy \in BOOLEAN
    BY <1>1, BufferNow DEF Buf
  <1>3. heap[b].ref = 1
    BY <1>1, <1>2 DEF Shared, Buf
  <1>4. Owned(heap, at, inst) /\ inst \in Int
    BY NowGood, LiveFinite, FS_CardinalityType DEF Owned
  <1>5. /\ \E t \in {k, heap[b].kind} : heap' = [heap EXCEPT ![b] = o(t)]
        /\ inst' = inst - Cells(heap[b]) /\ at' = at
    BY <1>4 DEF Retype, Owned, Buf, Used, Cells
  <1>6. PICK t \in {k, heap[b].kind} : heap' = [heap EXCEPT ![b] = o(t)]
    BY <1>5
  <1>7. size(t) \in Nat
    BY <1>2, AllocFits
  <1>8. Sound(o(t)) /\ o(t).ref = 1 /\ Cells(o(t)) = 0
    <2>1. t \in Kinds
      BY <1>2, <1>6
    <2> HIDE DEF size
    <2> QED
      BY <1>2, <1>7, <2>1, EmptySound
  <1> HIDE DEF o
  <1>9. Owned([heap EXCEPT ![b] = o(t)], at, inst - Cells(heap[b]) + Cells(o(t)))
    BY <1>2, <1>3, <1>4, <1>8, ContentChanged
  <1>10. inst - Cells(heap[b]) + Cells(o(t)) = inst'
    BY <1>2, <1>4, <1>5, <1>8, CellsCounted
  <1> QED
    BY <1>5, <1>6, <1>9, <1>10

\* `mpt_array_reserve` keeps the counts.
LEMMA ReserveGood ==
    ASSUME Good(Now), NEW x \in Arrays, NEW n \in 0..MaxLen, NEW k \in Kinds,
           mpt_array_reserve(x, n, k)
    PROVE  Owned(heap', at', inst')
  <1>1. n \in Nat
    BY SizeAssumption
  <1>2. CASE ReserveSame(x, n, k)
    BY <1>1, <1>2, DetachedGood DEF ReserveSame
  <1> QED
    BY <1>1, <1>2, ReserveNewGood, ReserveSharedGood, RetypeGood DEF mpt_array_reserve

\* `mpt_array_reduce` keeps the counts.
LEMMA ReduceGood ==
    ASSUME Good(Now), NEW x \in Arrays, mpt_array_reduce(x)
    PROVE  Owned(heap', at', inst')
  BY DetachedGood, BufferNow DEF mpt_array_reduce

\* `mpt_buffer_cut` finalises the elements it removes.
LEMMA CutGood ==
    ASSUME Good(Now), NEW x \in Arrays, NEW off \in 0..MaxLen, NEW n \in 0..MaxLen,
           mpt_buffer_cut(x, off, n)
    PROVE  Owned(heap', at', inst')
  <1> DEFINE b == at[x]
             d == heap[b].data
             p == SubSeq(d, 1, off)
             q == IF n = 0 THEN << >> ELSE SubSeq(d, off + n + 1, Len(d))
  <1>1. /\ at[x] # Null /\ off + n <= Len(d)
        /\ heap[b].kind = "managed" => n > 0
        /\ Become(Fill(Now, x, p \o q, 0 - n))
    BY DEF mpt_buffer_cut, Used, Buf
  <1>2. /\ b \in Bufs /\ d \in Seq(Vals) /\ Len(d) \in Nat /\ Len(d) <= MaxLen
        /\ Len(d) <= heap[b].size /\ heap[b].size \in Nat
    BY <1>1, BufferNow DEF Used, Buf
  <1>3. off \in Nat /\ n \in Nat /\ off <= Len(d)
    BY <1>1, <1>2, SizeAssumption
  <1> HIDE DEF d
  <1>4. p \in Seq(Vals) /\ Len(p) = off
    BY <1>2, <1>3
  <1>5. /\ q \in Seq(Vals) /\ Len(q) \in Nat
        /\ Len(q) <= Len(d) - off - n
        /\ n > 0 => Len(q) = Len(d) - off - n
    <2>1. CASE n = 0
      <3>1. q = << >> /\ q \in Seq(Vals) /\ Len(q) = 0
        BY <2>1
      <3> HIDE DEF q
      <3> QED
        BY <1>1, <1>2, <1>3, <2>1, <3>1
    <2>2. CASE n # 0
      <3>1. q = SubSeq(d, off + n + 1, Len(d)) /\ off + n + 1 \in 1..(Len(d) + 1)
        BY <1>1, <1>2, <1>3, <2>2
      <3> HIDE DEF q
      <3> QED
        BY <1>1, <1>2, <1>3, <3>1
    <2> QED
      BY <2>1, <2>2
  <1> DEFINE e == p \o q
             made == 0 - n
  <1> HIDE DEF p, q
  <1>6. e \in Seq(Vals) /\ Len(e) = off + Len(q)
    BY <1>4, <1>5, Joined
  <1> HIDE DEF e
  <1>10. /\ Len(e) \in Nat /\ Len(e) <= Len(d)
         /\ n > 0 => Len(e) = Len(d) - n
    BY <1>2, <1>3, <1>5, <1>6
  <1>7. Len(e) <= heap[b].size /\ Len(e) <= MaxLen
    BY <1>2, <1>10, SizeAssumption
  <1>11. made \in Int /\ (n > 0 => made = Len(e) - Len(d))
    BY <1>2, <1>3, <1>10
  <1>8. made \in Int /\ (heap[b].kind = "managed" => made = Len(e) - Len(heap[b].data))
    BY <1>1, <1>11 DEF d
  <1> HIDE DEF made
  <1>9. Good(Fill(Now, x, e, made))
    BY <1>1, <1>2, <1>6, <1>7, <1>8, NowFields, FillGood
  <1> QED
    BY <1>1, <1>9, BecomeGood DEF e, made

-----------------------------------------------------------------------------
(* All steps.                                                              *)

\* At the begin no array has a buffer.
LEMMA InitGood == Init => Owned(heap, at, inst)
  <1> SUFFICES ASSUME Init PROVE Owned(heap, at, inst)
    OBVIOUS
  <1>1. /\ DOMAIN heap = Bufs /\ heap = [b \in Bufs |-> heap[b]]
        /\ \A b \in Bufs : heap[b] = Free
        /\ at \in [Arrays -> Bufs \cup {Null}] /\ inst = 0
        /\ \A x \in Arrays : at[x] = Null
    BY DEF Init
  <1>2. /\ Free \in Buffers /\ Free.ref = 0 /\ Free.data = << >> /\ Free.size = 0
        /\ Free.kind = "raw" /\ Len(Free.data) = 0 /\ 0 <= MaxLen
    BY SizeAssumption DEF Free, Buffer, Buffers, Kinds
  <1>3. Sound(Free)
    BY <1>2 DEF Sound
  <1>4. ASSUME NEW b \in Bufs PROVE Cardinality(Users(at, b)) = 0
    <2>1. Users(at, b) = {}
      BY <1>1, HandleAssumption DEF Users
    <2> QED
      BY <2>1, FS_EmptySet
  <1>5. Cardinality(Live(heap)) = 0
    <2>1. Live(heap) = {}
      BY <1>1, <1>2 DEF Live
    <2> QED
      BY <2>1, FS_EmptySet
  <1> QED
    BY <1>1, <1>2, <1>3, <1>4, <1>5 DEF Owned

\* A call keeps the invariant.
LEMMA StepGood ==
    ASSUME ~ReplacesInside, Owned(heap, at, inst), Next
    PROVE  Owned(heap', at', inst')
  <1>1. Good(Now)
    BY NowGood
  <1>2. PICK x \in Arrays :
          \/ mpt_array_clone(x)
          \/ \E k \in Kinds, nc \in BOOLEAN : Create(x, k, nc)
          \/ \E n \in 0..MaxLen, v \in Vals : mpt_array_append(x, n, v)
          \/ \E pos, n \in 0..MaxLen, v \in Vals : mpt_array_insert(x, pos, n, v)
          \/ \E off, n \in 0..MaxLen, v \in Vals \cup {Dead} : mpt_array_slice(x, off, n, v)
          \/ \E pos, n \in 0..MaxLen, v \in Vals : mpt_array_set(x, pos, n, v)
          \/ \E n \in 0..MaxLen, k \in Kinds : mpt_array_reserve(x, n, k)
          \/ mpt_array_reduce(x)
          \/ \E off, n \in 0..MaxLen : mpt_buffer_cut(x, off, n)
    BY DEF Next, Operation
  <1>3. CASE mpt_array_clone(x)
    BY <1>1, <1>3, ClearGood, CloneGood DEF mpt_array_clone
  <1>4. CASE \E k \in Kinds, nc \in BOOLEAN : Create(x, k, nc)
    BY <1>1, <1>4, CreateGood
  <1>5. CASE \E n \in 0..MaxLen, v \in Vals : mpt_array_append(x, n, v)
    BY <1>1, <1>5, AppendGood
  <1>6. CASE \E pos, n \in 0..MaxLen, v \in Vals : mpt_array_insert(x, pos, n, v)
    BY <1>1, <1>6, InsertGood
  <1>7. CASE \E off, n \in 0..MaxLen, v \in Vals \cup {Dead} : mpt_array_slice(x, off, n, v)
    BY <1>1, <1>7, SliceGood
  <1>8. CASE \E pos, n \in 0..MaxLen, v \in Vals : mpt_array_set(x, pos, n, v)
    BY <1>1, <1>8, SetGood
  <1>9. CASE \E n \in 0..MaxLen, k \in Kinds : mpt_array_reserve(x, n, k)
    BY <1>1, <1>9, ReserveGood
  <1>10. CASE mpt_array_reduce(x)
    BY <1>1, <1>10, ReduceGood
  <1>11. CASE \E off, n \in 0..MaxLen : mpt_buffer_cut(x, off, n)
    BY <1>1, <1>11, CutGood
  <1> QED
    BY <1>2, <1>3, <1>4, <1>5, <1>6, <1>7, <1>8, <1>9, <1>10, <1>11

\* The inductive invariant is about more than `OwnedExactly`.
LEMMA OwnedImplies == Owned(heap, at, inst) => OwnedExactly
  <1> SUFFICES ASSUME Owned(heap, at, inst) PROVE OwnedExactly
    OBVIOUS
  <1>1. /\ heap = [b \in Bufs |-> heap[b]]
        /\ at \in [Arrays -> Bufs \cup {Null}] /\ inst = Cardinality(Live(heap))
        /\ \A b \in Bufs : Sound(heap[b]) /\ heap[b].ref = Cardinality(Users(at, b))
    BY DEF Owned
  <1>2. inst \in Int
    BY <1>1, LiveFinite, FS_CardinalityType
  <1>3. ASSUME NEW b \in Bufs
        PROVE  /\ heap[b] \in [ref : Nat, kind : Kinds, nocopy : BOOLEAN, size : Nat,
                               data : Seq(Vals \cup {Dead})]
               /\ Len(heap[b].data) <= heap[b].size
               /\ \A i \in DOMAIN heap[b].data : heap[b].data[i] # Dead
    <2>1. heap[b] \in Buffers /\ heap[b].data \in Seq(Vals) /\ Len(heap[b].data) <= heap[b].size
      BY <1>1 DEF Sound, Buffers
    <2>2. heap[b].data \in Seq(Vals \cup {Dead})
      BY <2>1
    <2>3. \A i \in DOMAIN heap[b].data : heap[b].data[i] # Dead
      BY <2>1, CellAssumption
    <2> QED
      BY <2>1, <2>2, <2>3 DEF Buffers
  <1>4. TypeOK
    <2>1. heap \in [Bufs -> [ref : Nat, kind : Kinds, nocopy : BOOLEAN, size : Nat,
                             data : Seq(Vals \cup {Dead})]]
      BY <1>1, <1>3
    <2> QED
      BY <1>1, <1>2, <1>3, <2>1 DEF TypeOK
  <1>5. RefsExact /\ ElementsOnce
    BY <1>1, <1>3 DEF RefsExact, ElementsOnce
  <1> QED
    BY <1>4, <1>5 DEF OwnedExactly

\* For every number of arrays and buffers and every length of their content: a
\* buffer has exactly the references that arrays have on it, and exactly the
\* managed elements in use are alive (_mpt_buffer_alloc_detach, _unref,
\* mpt_array_clone), in every use in which no mpt_array_set ends before the last
\* element.  Such a call finalises elements that stay in use (buffer_set.c:81-85),
\* so the claim is false behind it.
THEOREM ArraysOwned == Spec /\ [][~ReplacesInside]_vars => []OwnedExactly
  <1>1. Init => Owned(heap, at, inst)
    BY InitGood
  <1>2. Owned(heap, at, inst) /\ [Next]_vars /\ [~ReplacesInside]_vars => Owned(heap, at, inst)'
    <2>1. ASSUME Owned(heap, at, inst), UNCHANGED vars
          PROVE  Owned(heap', at', inst')
      BY <2>1 DEF vars
    <2>2. ASSUME Owned(heap, at, inst), Next, ~ReplacesInside
          PROVE  Owned(heap', at', inst')
      BY <2>2, StepGood
    <2> QED
      BY <2>1, <2>2
  <1>3. Owned(heap, at, inst) => OwnedExactly
    BY OwnedImplies
  <1> QED
    BY <1>1, <1>2, <1>3, PTL DEF Spec

-----------------------------------------------------------------------------
(* Elements that may not be copied stay in one buffer.                     *)

\* The array shares elements that may not be copied.
Unique(x) == at[x] # Null /\ Buf(x).nocopy /\ Used(x) > 0 /\ Buf(x).ref > 1

\* The other arrays keep their buffers.
Others(s, x) == \A y \in Arrays \ {x} : s.at[y] = at[y]

\* What a step of x does to the buffers of the arrays.
Moves(x) ==
  /\ \A y \in Arrays \ {x} : at'[y] = at[y]
  /\ Unique(x) /\ at'[x] # at[x] =>
       \/ at'[x] = Null
       \/ heap'[at'[x]].data = << >>
       \/ \E y \in Arrays : at'[x] = at[y]

\* An operation on one array that moves no other.
LEMMA OthersMoves ==
    ASSUME NEW x \in Arrays, NEW s, Others(s, x), Become(s), ~Unique(x) \/ s.at[x] = at[x]
    PROVE  Moves(x)
  BY DEF Others, Become, Moves

\* `Fill` moves no array.
LEMMA FillAt ==
    ASSUME NEW s, NEW x, NEW d, NEW made
    PROVE  Fill(s, x, d, made).at = s.at
  BY DEF Fill

\* A lost reference moves no array.
LEMMA UnrefAt ==
    ASSUME NEW h, NEW a, NEW i, NEW b
    PROVE  Unref(State(h, a, i), b).at = a
  BY DEF Unref, State

\* Getting a buffer for itself moves this array only, and not at all if elements are
\* unique.
LEMMA DetachAt ==
    ASSUME Good(Now), NEW x \in Arrays, NEW n, NEW s \in Detach(x, n)
    PROVE  Others(s, x) /\ (Unique(x) => s.at[x] = at[x])
  <1>1. DOMAIN at = Arrays
    BY NowGood DEF Owned
  <1>2. CASE Buf(x).ref < 2
    <2>1. s.at = at
      BY <1>2 DEF Detach, Now, State
    <2> QED
      BY <2>1 DEF Others
  <1>3. CASE ~(Buf(x).ref < 2)
    <2>1. PICK b \in FreeBufs, d \in Copied(Buf(x), n) :
            s = Place(State(Unref(Now, at[x]).heap, at, inst + Managed(Buf(x).kind, Len(d))),
                      x, b, Buffer(1, Buf(x).kind, Buf(x).nocopy, Alloc(n), d))
      BY <1>3 DEF Detach
    <2>2. s.at = [at EXCEPT ![x] = b]
      BY <2>1 DEF Place, State
    <2>3. Others(s, x)
      BY <1>1, <2>2 DEF Others
    <2>4. ~(Buf(x).nocopy /\ Buf(x).data # << >>)
      BY <2>1 DEF Copied
    <2>5. ~Unique(x)
      <3>1. Len(<< >>) = 0
        OBVIOUS
      <3>2. Unique(x) => Len(Buf(x).data) > 0 /\ Buf(x).nocopy
        BY DEF Unique, Used
      <3> QED
        BY <2>4, <3>1, <3>2
    <2> QED
      BY <2>3, <2>5
  <1> QED
    BY <1>2, <1>3

\* The present state moves nothing.
LEMMA NowAt == ASSUME NEW x \in Arrays PROVE Others(Now, x) /\ Now.at[x] = at[x]
  BY NowFields DEF Others

\* An array without buffer gets a new one.
LEMMA PlaceMoves ==
    ASSUME Good(Now), NEW x \in Arrays, at[x] = Null, NEW b, NEW o, NEW s, s.at = Place(Now, x, b, o).at,
           Become(s)
    PROVE  Moves(x)
  <1>1. DOMAIN at = Arrays
    BY NowGood DEF Owned
  <1>2. Others(s, x)
    BY <1>1 DEF Others, Place, Now, State
  <1> QED
    BY <1>2, OthersMoves DEF Unique

\* `mpt_array_clone` shares no unique elements.
LEMMA CloneMoves ==
    ASSUME Good(Now), NEW x \in Arrays, mpt_array_clone(x)
    PROVE  Moves(x)
  <1>1. DOMAIN at = Arrays
    BY NowGood DEF Owned
  <1>2. CASE Clear(x)
    <2> DEFINE a == [at EXCEPT ![x] = Null]
    <2>1. Become(Unref(State(heap, a, inst), at[x]))
      BY <1>2 DEF Clear
    <2>2. a[x] = Null /\ \A y \in Arrays \ {x} : a[y] = at[y]
      BY <1>1
    <2> HIDE DEF a
    <2>3. at' = a
      BY <2>1, UnrefAt DEF Become
    <2> QED
      BY <2>2, <2>3 DEF Moves
  <1>3. ASSUME NEW y \in Arrays, Clone(x, y)
        PROVE  Moves(x)
    <2> DEFINE a == [at EXCEPT ![x] = at[y]]
               h == [heap EXCEPT ![at[y]].ref = @ + 1]
    <2>1. Become(IF at[x] = Null THEN State(h, a, inst) ELSE Unref(State(h, a, inst), at[x]))
      BY <1>3 DEF Clone
    <2>2. a[x] = at[y] /\ \A z \in Arrays \ {x} : a[z] = at[z]
      BY <1>1
    <2> HIDE DEF a, h
    <2>3. at' = a
      <3>1. State(h, a, inst).at = a
        BY DEF State
      <3>2. Unref(State(h, a, inst), at[x]).at = a
        BY UnrefAt
      <3> QED
        BY <2>1, <3>1, <3>2 DEF Become
    <2> QED
      BY <2>2, <2>3 DEF Moves
  <1> QED
    BY <1>2, <1>3 DEF mpt_array_clone

\* `mpt_array_append` moves its array only.
LEMMA AppendMoves ==
    ASSUME Good(Now), NEW x \in Arrays, NEW n, NEW v, mpt_array_append(x, n, v)
    PROVE  Moves(x)
  <1>1. CASE at[x] = Null
    BY <1>1, PlaceMoves DEF mpt_array_append
  <1>2. CASE at[x] # Null
    <2>1. PICK s \in IF n > Buf(x).size - Used(x) THEN Detach(x, Used(x) + n) ELSE {Now} :
            Become(Fill(s, x, Content(s, x) \o Rep(n, v), n))
      BY <1>2 DEF mpt_array_append
    <2>2. Others(s, x) /\ (Unique(x) => s.at[x] = at[x])
      BY <2>1, DetachAt, NowAt
    <2> DEFINE t == Fill(s, x, Content(s, x) \o Rep(n, v), n)
    <2>3. t.at = s.at
      BY FillAt
    <2> HIDE DEF t
    <2> QED
      BY <2>1, <2>2, <2>3, OthersMoves DEF Others, t
  <1> QED
    BY <1>1, <1>2

\* `mpt_array_insert` moves its array only.
LEMMA InsertMoves ==
    ASSUME Good(Now), NEW x \in Arrays, NEW pos, NEW n, NEW v, mpt_array_insert(x, pos, n, v)
    PROVE  Moves(x)
  <1>1. CASE at[x] = Null
    BY <1>1, PlaceMoves DEF mpt_array_insert
  <1>2. CASE at[x] # Null
    <2> DEFINE total == Max(Used(x), pos) + n
    <2>1. PICK s \in IF total <= Buf(x).size /\ ~Shared(x) THEN {Now} ELSE Detach(x, total) :
            Become(Insert(s, x, pos, n, v))
      BY <1>2 DEF mpt_array_insert
    <2> HIDE DEF total
    <2>2. Others(s, x) /\ (Unique(x) => s.at[x] = at[x])
      BY <2>1, DetachAt, NowAt
    <2> DEFINE t == Insert(s, x, pos, n, v)
    <2>3. t.at = s.at
      BY FillAt DEF Insert
    <2> HIDE DEF t
    <2> QED
      BY <2>1, <2>2, <2>3, OthersMoves DEF Others, t
  <1> QED
    BY <1>1, <1>2

\* `mpt_array_slice` moves its array only.
LEMMA SliceMoves ==
    ASSUME Good(Now), NEW x \in Arrays, NEW off, NEW n, NEW v, mpt_array_slice(x, off, n, v)
    PROVE  Moves(x)
  <1> DEFINE result(s) == IF v = Dead THEN s ELSE Fill(s, x, Written(Content(s, x), off, n, v), 0)
  <1>1. ASSUME NEW s PROVE result(s).at = s.at
    BY FillAt
  <1>2. CASE at[x] = Null
    <2> DEFINE o == Buffer(1, "raw", FALSE, Alloc(off + n), Rep(off + n, Zero))
    <2>1. PICK b \in FreeBufs : Become(result(Place(Now, x, b, o)))
      BY <1>2 DEF mpt_array_slice
    <2>2. result(Place(Now, x, b, o)).at = Place(Now, x, b, o).at
      BY <1>1
    <2> HIDE DEF result, o
    <2> QED
      BY <1>2, <2>1, <2>2, PlaceMoves
  <1>3. CASE at[x] # Null
    <2>1. PICK t \in Slice(x, off, n) : Become(result(Extended(t, x, off + n)))
      BY <1>3 DEF mpt_array_slice
    <2>2. Others(t, x) /\ (Unique(x) => t.at[x] = at[x])
      BY <2>1, DetachAt, NowAt DEF Slice
    <2>3. Extended(t, x, off + n).at = t.at
      BY FillAt DEF Extended, Insert
    <2> DEFINE s == result(Extended(t, x, off + n))
    <2>4. s.at = t.at
      BY <1>1, <2>3
    <2>5. Become(s)
      BY <2>1
    <2> HIDE DEF s
    <2> QED
      BY <2>2, <2>4, <2>5, OthersMoves DEF Others
  <1> QED
    BY <1>2, <1>3

\* `mpt_array_set` moves its array only.
LEMMA SetMoves ==
    ASSUME Good(Now), NEW x \in Arrays, NEW pos, NEW n, NEW v, mpt_array_set(x, pos, n, v)
    PROVE  Moves(x)
  <1>1. ASSUME NEW s PROVE mpt_buffer_set(s, x, pos, n, v).at = s.at
    BY FillAt DEF mpt_buffer_set
  <1>2. ASSUME SetFirst(x, pos, n, v) PROVE Moves(x)
    <2> DEFINE o == Buffer(1, "managed", FALSE, Alloc(pos + n), << >>)
    <2>1. PICK b \in FreeBufs : Become(mpt_buffer_set(Place(Now, x, b, o), x, pos, n, v))
      BY <1>2 DEF SetFirst
    <2>2. at[x] = Null
      BY <1>2 DEF SetFirst
    <2> HIDE DEF o
    <2> DEFINE s == mpt_buffer_set(Place(Now, x, b, o), x, pos, n, v)
    <2>3. s.at = Place(Now, x, b, o).at /\ Become(s)
      BY <1>1, <2>1
    <2> HIDE DEF s
    <2> QED
      BY <2>2, <2>3, PlaceMoves
  <1>3. ASSUME SetElements(x, pos, n, v), ~CopyFails(x, pos + n) PROVE Moves(x)
    <2>1. PICK t \in IF Buf(x).size < pos + n \/ Shared(x) THEN Detach(x, pos + n) ELSE {Now} :
            Become(mpt_buffer_set(t, x, pos, n, v))
      BY <1>3 DEF SetElements
    <2>2. Others(t, x) /\ (Unique(x) => t.at[x] = at[x])
      BY <2>1, DetachAt, NowAt
    <2> DEFINE s == mpt_buffer_set(t, x, pos, n, v)
    <2>3. s.at = t.at /\ Become(s)
      BY <1>1, <2>1
    <2> HIDE DEF s
    <2> QED
      BY <2>2, <2>3, OthersMoves DEF Others
  <1>4. ASSUME SetElements(x, pos, n, v), CopyFails(x, pos + n) PROVE Moves(x)
    <2>1. Become([Now EXCEPT !.heap[at[x]].ref = @ - 1])
      BY <1>4 DEF SetElements
    <2>2. at' = at
      BY <2>1 DEF Become, Now, State
    <2> QED
      BY <2>2 DEF Moves
  <1> QED
    BY <1>2, <1>3, <1>4 DEF mpt_array_set

\* `mpt_array_reserve` moves its array only.
LEMMA ReserveMoves ==
    ASSUME Good(Now), NEW x \in Arrays, NEW n, NEW k, mpt_array_reserve(x, n, k)
    PROVE  Moves(x)
  <1>1. ASSUME ReserveNew(x, n, k) PROVE Moves(x)
    BY <1>1, PlaceMoves DEF ReserveNew
  <1>2. ASSUME ReserveShared(x, n, k) PROVE Moves(x)
    <2> DEFINE o == Buffer(1, k, FALSE, Alloc(n), << >>)
    <2>1. PICK b \in FreeBufs : Become(Place(Unref(Now, at[x]), x, b, o))
      BY <1>2 DEF ReserveShared
    <2>2. at[x] # Null /\ Shared(x) /\ b \in Bufs /\ DOMAIN at = Arrays
      BY <1>2, NowGood DEF ReserveShared, Owned, FreeBufs
    <2>3. o.data = << >>
      BY DEF Buffer
    <2> HIDE DEF o
    <2> DEFINE t == Unref(Now, at[x])
    <2>4. t.at = at /\ DOMAIN t.heap = Bufs
      BY <2>2, LeftGood DEF Owned
    <2>5. heap' = [t.heap EXCEPT ![b] = o] /\ at' = [t.at EXCEPT ![x] = b]
      BY <2>1 DEF Place, State, Become
    <2> HIDE DEF t
    <2>6. heap'[at'[x]].data = << >> /\ \A y \in Arrays \ {x} : at'[y] = at[y]
      BY <2>2, <2>3, <2>4, <2>5
    <2> QED
      BY <2>6 DEF Moves
  <1>3. ASSUME ReserveSame(x, n, k) PROVE Moves(x)
    BY <1>3, DetachAt, OthersMoves DEF ReserveSame
  <1>4. ASSUME Retype(x, n, k) PROVE Moves(x)
    BY <1>4 DEF Retype, Moves
  <1> QED
    BY <1>1, <1>2, <1>3, <1>4 DEF mpt_array_reserve

\* Every operation moves at most one array.
LEMMA StepMoves ==
    ASSUME Owned(heap, at, inst), Next
    PROVE  \E x \in Arrays : Moves(x)
  <1>1. Good(Now)
    BY NowGood
  <1>2. PICK x \in Arrays :
          \/ mpt_array_clone(x)
          \/ \E k \in Kinds, nc \in BOOLEAN : Create(x, k, nc)
          \/ \E n \in 0..MaxLen, v \in Vals : mpt_array_append(x, n, v)
          \/ \E pos, n \in 0..MaxLen, v \in Vals : mpt_array_insert(x, pos, n, v)
          \/ \E off, n \in 0..MaxLen, v \in Vals \cup {Dead} : mpt_array_slice(x, off, n, v)
          \/ \E pos, n \in 0..MaxLen, v \in Vals : mpt_array_set(x, pos, n, v)
          \/ \E n \in 0..MaxLen, k \in Kinds : mpt_array_reserve(x, n, k)
          \/ mpt_array_reduce(x)
          \/ \E off, n \in 0..MaxLen : mpt_buffer_cut(x, off, n)
    BY DEF Next, Operation
  <1>3. CASE \E k \in Kinds, nc \in BOOLEAN : Create(x, k, nc)
    BY <1>1, <1>3, PlaceMoves DEF Create
  <1>4. CASE mpt_array_reduce(x)
    BY <1>1, <1>4, DetachAt, OthersMoves DEF mpt_array_reduce
  <1>5. CASE \E off, n \in 0..MaxLen : mpt_buffer_cut(x, off, n)
    <2>1. PICK d, made : Become(Fill(Now, x, d, made))
      BY <1>5 DEF mpt_buffer_cut
    <2>2. Fill(Now, x, d, made).at = at
      BY FillAt, NowFields
    <2>3. at' = at
      BY <2>1, <2>2 DEF Become
    <2> QED
      BY <2>3 DEF Moves
  <1> QED
    BY <1>1, <1>2, <1>3, <1>4, <1>5, CloneMoves, AppendMoves, InsertMoves, SliceMoves, SetMoves,
       ReserveMoves

\* For every number of arrays and buffers: no step that gives an array another
\* buffer takes elements along that may not be copied (the NoCopy flag, which
\* _mpt_buffer_alloc_detach and mpt_array_reserve test before they copy), as long
\* as no mpt_array_set ends before the last element (ReplacesInside).
THEOREM ElementsUnique == Spec /\ [][~ReplacesInside]_vars => UniqueKept
  <1> DEFINE kept == \A x \in Arrays :
               (at[x] # Null /\ at'[x] # at[x] /\ Buf(x).nocopy /\ Used(x) > 0 /\ Buf(x).ref > 1)
                 => \/ at'[x] = Null
                    \/ heap'[at'[x]].data = << >>
                    \/ \E y \in Arrays : at'[x] = at[y]
  <1>1. Init => Owned(heap, at, inst)
    BY InitGood
  <1>2. Owned(heap, at, inst) /\ [Next]_vars /\ [~ReplacesInside]_vars
          => Owned(heap, at, inst)' /\ [kept]_vars
    <2>1. ASSUME Owned(heap, at, inst), UNCHANGED vars
          PROVE  Owned(heap', at', inst') /\ [kept]_vars
      BY <2>1 DEF vars
    <2>2. ASSUME Owned(heap, at, inst), Next, ~ReplacesInside
          PROVE  Owned(heap', at', inst')
      BY <2>2, StepGood
    <2>3. ASSUME Owned(heap, at, inst), Next, ~ReplacesInside
          PROVE  kept
      BY <2>3, StepMoves DEF Moves, Unique
    <2> QED
      BY <2>1, <2>2, <2>3
  <1> QED
    BY <1>1, <1>2, PTL DEF Spec, UniqueKept

-----------------------------------------------------------------------------
(* The arrays as values of their own.                                      *)

NoValue == [kind |-> "none", data |-> << >>]
Value(h, a, x) == IF a[x] = Null THEN NoValue ELSE [kind |-> h[a[x]].kind, data |-> h[a[x]].data]

\* The other arrays keep their values.
Keeps(s, x) == \A y \in Arrays \ {x} : Value(s.heap, s.at, y) = Value(heap, at, y)

\* Only x changes, to data d of kind k.
Gives(s, x, k, d) == Keeps(s, x) /\ Value(s.heap, s.at, x) = [kind |-> k, data |-> d]

\* The array has a buffer that no other array has.
Private(s, x) ==
  /\ Good(s) /\ s.at[x] \in Bufs /\ s.at[x] # Null
  /\ \A y \in Arrays \ {x} : s.at[y] # s.at[x]

\* What a detached array has: room, a buffer of its own and what a copy has kept.
Detached(s, x, n) ==
  /\ Private(s, x) /\ Keeps(s, x) /\ Roomy(s, x, n)
  /\ Content(s, x) \in V!Kept(x)
  /\ Content(s, x) \in Seq(Vals)

\* The only reference on a buffer is that of the array.
LEMMA OnlyUser ==
    ASSUME NEW h, NEW a, NEW i, Owned(h, a, i), NEW x \in Arrays, a[x] # Null, ~(h[a[x]].ref > 1),
           NEW y \in Arrays \ {x}
    PROVE  a[y] # a[x]
  <1> SUFFICES ASSUME a[y] = a[x] PROVE FALSE
    OBVIOUS
  <1> DEFINE b == a[x]
             U == Users(a, b)
  <1>1. b \in Bufs /\ h[b].ref = Cardinality(U)
    BY DEF Owned
  <1>2. IsFiniteSet(U) /\ Cardinality(U) \in Nat /\ x \in U /\ y \in U
    BY UsersFinite DEF Users
  <1> HIDE DEF U
  <1>3. Cardinality(U \ {x}) = Cardinality(U) - 1 /\ IsFiniteSet(U \ {x})
    BY <1>2, FS_RemoveElement
  <1>4. Cardinality(U \ {x}) # 0
    BY <1>2, <1>3, FS_EmptySet
  <1> QED
    BY <1>1, <1>2, <1>3, <1>4, FS_CardinalityType

\* The values of the specification of arrays.
LEMMA KeptNow ==
    ASSUME NEW x \in Arrays
    PROVE  /\ at[x] = Null => V!Kept(x) = {<< >>} /\ V!Size(x) = 0
           /\ at[x] # Null => V!Size(x) = Used(x)
           /\ at[x] # Null /\ Buf(x).kind = "raw" => V!Kept(x) = {Buf(x).data}
  BY DEF V!Kept, V!Size, Used, Buf

\* Elements copied, or zero where the copy failed, are what the promise allows.
LEMMA KeptManaged ==
    ASSUME NEW x \in Arrays, at[x] # Null, Buf(x).kind = "managed",
           NEW d \in [1..Used(x) -> Vals], \A i \in 1..Used(x) : d[i] \in {Buf(x).data[i], Zero}
    PROVE  d \in V!Kept(x)
  BY DEF V!Kept, V!Size, Used, Buf

\* Kept data has the length of the value.
LEMMA KeptLength ==
    ASSUME NEW x \in Arrays, Good(Now), NEW c \in V!Kept(x)
    PROVE  c \in Seq(Vals) /\ Len(c) = V!Size(x) /\ Len(c) \in Nat
  <1>1. CASE at[x] = Null
    <2>1. c = << >> /\ V!Size(x) = 0
      BY <1>1, KeptNow
    <2>2. << >> \in Seq(Vals) /\ Len(<< >>) = 0
      OBVIOUS
    <2> QED
      BY <2>1, <2>2
  <1>2. CASE at[x] # Null
    <2>1. Buf(x).data \in Seq(Vals) /\ Buf(x).kind \in Kinds /\ Used(x) \in Nat
      BY <1>2, BufferNow
    <2>2. CASE Buf(x).kind = "raw"
      BY <1>2, <2>1, <2>2, KeptNow DEF Used
    <2>3. CASE Buf(x).kind = "managed"
      <3>1. c \in [1..Used(x) -> Vals]
        BY <1>2, <2>3 DEF V!Kept, V!Size, Used, Buf
      <3> QED
        BY <1>2, <2>1, <3>1, KeptNow
    <2> QED
      BY <2>1, <2>2, <2>3 DEF Kinds
  <1> QED
    BY <1>1, <1>2

\* Data that stays is kept.
LEMMA NowKept == ASSUME Good(Now), NEW x \in Arrays, at[x] # Null PROVE Buf(x).data \in V!Kept(x)
  <1>1. Buf(x).data \in Seq(Vals) /\ Buf(x).kind \in Kinds /\ Used(x) \in Nat
    BY BufferNow
  <1>2. CASE Buf(x).kind = "raw"
    BY <1>2, KeptNow
  <1>3. CASE Buf(x).kind = "managed"
    BY <1>1, <1>3, KeptManaged DEF Used
  <1> QED
    BY <1>1, <1>2, <1>3 DEF Kinds

\* A copy of a buffer keeps the value of its array.
LEMMA CopiedKept ==
    ASSUME Good(Now), NEW x \in Arrays, at[x] # Null, NEW n \in Nat, NEW d \in Copied(Buf(x), n)
    PROVE  d \in V!Kept(x)
  <1>1. Buf(x).data \in Seq(Vals) /\ Buf(x).kind \in Kinds /\ Used(x) \in Nat /\ Sound(Buf(x))
    BY BufferNow DEF Buf
  <1>2. d \in Seq(Vals) /\ Len(d) = Used(x)
    BY <1>1, CopiedGood DEF Used
  <1>3. d \in Copies(Buf(x))
    BY DEF Copied
  <1>4. CASE Buf(x).kind = "raw"
    BY <1>3, <1>4, KeptNow DEF Copies
  <1>5. CASE Buf(x).kind = "managed"
    <2>1. \A i \in 1..Used(x) : d[i] \in {Buf(x).data[i], Zero}
      BY <1>1, <1>2, <1>3, <1>5 DEF Copies, Used
    <2>2. d \in [1..Used(x) -> Vals]
      BY <1>1, <1>2
    <2> QED
      BY <1>5, <2>1, <2>2, KeptManaged
  <1> QED
    BY <1>1, <1>4, <1>5 DEF Kinds

\* A buffer of its own, and the copy of a shared one.
LEMMA DetachValue ==
    ASSUME Good(Now), NEW x \in Arrays, at[x] # Null, NEW n \in Nat, NEW s \in Detach(x, n)
    PROVE  Detached(s, x, n)
  <1>1. Roomy(s, x, n)
    BY DetachGood
  <1>2. /\ at[x] \in Bufs /\ Sound(heap[at[x]]) /\ heap[at[x]].ref \in Nat
        /\ Buf(x).data \in Seq(Vals) /\ DOMAIN heap = Bufs /\ DOMAIN at = Arrays
    BY BufferNow, NowGood DEF Owned
  <1>3. Good(s) /\ s.at[x] \in Bufs /\ s.at[x] # Null /\ Content(s, x) \in Seq(Vals)
    BY <1>1, RoomyContent DEF Roomy
  <1>4. CASE Buf(x).ref < 2
    <2>1. /\ s.at = at /\ Content(s, x) = Buf(x).data
          /\ \A b \in Bufs : s.heap[b].kind = heap[b].kind /\ s.heap[b].data = heap[b].data
      <3>1. CASE n <= Buf(x).size
        BY <1>4, <3>1, NowFields DEF Detach, Content, Buf
      <3>2. CASE ~(n <= Buf(x).size)
        <4> DEFINE o == [heap[at[x]] EXCEPT !.size = Alloc(n)]
        <4>1. s = [Now EXCEPT !.heap[at[x]].size = Alloc(n)]
          BY <1>4, <3>2 DEF Detach
        <4>2. s.heap = [heap EXCEPT ![at[x]] = o] /\ s.at = at
          BY <4>1 DEF Now, State
        <4>3. o.kind = heap[at[x]].kind /\ o.data = heap[at[x]].data
          BY <1>2 DEF Sound, Buffers
        <4> HIDE DEF o
        <4> QED
          BY <1>2, <4>2, <4>3 DEF Content, Buf
      <3> QED
        BY <3>1, <3>2
    <2>2. \A y \in Arrays \ {x} : at[y] # at[x]
      BY <1>2, <1>4, NowGood, OnlyUser DEF Buf
    <2>3. \A y \in Arrays : at[y] # Null => at[y] \in Bufs
      BY NowGood DEF Owned
    <2>4. Keeps(s, x)
      BY <2>1, <2>3 DEF Keeps, Value
    <2> QED
      BY <1>1, <1>3, <2>1, <2>2, <2>4, NowKept DEF Detached, Private
  <1>5. CASE ~(Buf(x).ref < 2)
    <2>1. PICK b \in FreeBufs, d \in Copied(Buf(x), n) :
            s = Place(State(Unref(Now, at[x]).heap, at, inst + Managed(Buf(x).kind, Len(d))),
                      x, b, Buffer(1, Buf(x).kind, Buf(x).nocopy, Alloc(n), d))
      BY <1>5 DEF Detach
    <2> DEFINE o == Buffer(1, Buf(x).kind, Buf(x).nocopy, Alloc(n), d)
               h == Unref(Now, at[x]).heap
    <2>2. s.at = [at EXCEPT ![x] = b] /\ s.heap = [h EXCEPT ![b] = o]
      BY <2>1 DEF Place, State
    <2>3. o.data = d
      BY DEF Buffer
    <2>4. h = [heap EXCEPT ![at[x]] = [heap[at[x]] EXCEPT !.ref = @ - 1]]
      BY <1>2, <1>5 DEF Unref, Now, State, Buf
    <2>5. \A c \in Bufs : h[c].kind = heap[c].kind /\ h[c].data = heap[c].data
      <3> DEFINE p == [heap[at[x]] EXCEPT !.ref = @ - 1]
      <3>1. p.kind = heap[at[x]].kind /\ p.data = heap[at[x]].data
        BY <1>2 DEF Sound, Buffers
      <3> HIDE DEF p, h
      <3> QED
        BY <1>2, <2>4, <3>1 DEF p
    <2>6. b \in Bufs /\ DOMAIN h = Bufs
      BY <1>2, <2>4 DEF FreeBufs
    <2>7. \A y \in Arrays : at[y] # Null => at[y] \in Bufs /\ at[y] # b
      BY BufferNow DEF FreeBufs
    <2> HIDE DEF o, h
    <2>8. s.at[x] = b /\ s.heap[b] = o /\ \A y \in Arrays \ {x} : s.at[y] = at[y]
      BY <1>2, <2>2, <2>6
    <2>9. \A y \in Arrays \ {x} : s.at[y] # s.at[x]
      BY <1>3, <2>7, <2>8
    <2>10. Keeps(s, x)
      <3> SUFFICES ASSUME NEW y \in Arrays \ {x} PROVE Value(s.heap, s.at, y) = Value(heap, at, y)
        BY DEF Keeps
      <3>1. CASE at[y] = Null
        BY <2>8, <3>1 DEF Value
      <3>2. CASE at[y] # Null
        <4>1. s.heap[at[y]] = h[at[y]] /\ at[y] \in Bufs
          BY <2>2, <2>6, <2>7, <3>2
        <4> QED
          BY <2>5, <2>8, <3>2, <4>1 DEF Value
      <3> QED
        BY <3>1, <3>2
    <2>11. Content(s, x) \in V!Kept(x)
      BY <2>3, <2>8, CopiedKept DEF Content
    <2> QED
      BY <1>1, <1>3, <2>9, <2>10, <2>11 DEF Detached, Private
  <1> QED
    BY <1>4, <1>5

\* A buffer without other users is detached.
LEMMA NowDetached ==
    ASSUME Good(Now), NEW x \in Arrays, at[x] # Null, ~Shared(x), NEW n \in Nat, n <= Buf(x).size
    PROVE  Detached(Now, x, n)
  <1>1. /\ Roomy(Now, x, n) /\ at[x] \in Bufs /\ Content(Now, x) = Buf(x).data
        /\ Buf(x).data \in Seq(Vals)
    BY NowRoomy, BufferNow, NowFields DEF Content, Buf
  <1>2. \A y \in Arrays \ {x} : at[y] # at[x]
    BY NowGood, OnlyUser DEF Shared, Buf
  <1> QED
    BY <1>1, <1>2, NowFields, NowKept DEF Detached, Private, Keeps

\* A private buffer is filled.
LEMMA FillGives ==
    ASSUME NEW s, NEW x \in Arrays, Private(s, x), Keeps(s, x), NEW d, NEW made
    PROVE  Gives(Fill(s, x, d, made), x, s.heap[s.at[x]].kind, d)
  <1> DEFINE b == s.at[x]
             o == [s.heap[b] EXCEPT !.data = d]
             t == Fill(s, x, d, made)
  <1>1. /\ b \in Bufs /\ b # Null /\ DOMAIN s.heap = Bufs /\ s.heap[b] \in Buffers
        /\ \A y \in Arrays : s.at[y] # Null => s.at[y] \in Bufs
    BY DEF Private, Good, Owned, Sound
  <1>2. t.heap = [s.heap EXCEPT ![b] = o] /\ t.at = s.at
    BY FillFields
  <1>3. o.kind = s.heap[b].kind /\ o.data = d
    BY <1>1 DEF Buffers
  <1> HIDE DEF o, t
  <1>4. t.heap[b] = o /\ \A y \in Arrays \ {x} : s.at[y] # Null => t.heap[s.at[y]] = s.heap[s.at[y]]
    BY <1>1, <1>2 DEF Private
  <1>5. Keeps(t, x)
    <2> SUFFICES ASSUME NEW y \in Arrays \ {x} PROVE Value(t.heap, t.at, y) = Value(heap, at, y)
      BY DEF Keeps
    <2>1. Value(t.heap, t.at, y) = Value(s.heap, s.at, y)
      BY <1>2, <1>4 DEF Value
    <2> QED
      BY <2>1 DEF Keeps
  <1>6. Value(t.heap, t.at, x) = [kind |-> s.heap[b].kind, data |-> d]
    BY <1>1, <1>2, <1>3, <1>4 DEF Value
  <1>7. Gives(t, x, s.heap[b].kind, d)
    BY <1>5, <1>6 DEF Gives
  <1> QED
    BY <1>7 DEF t

\* An array without buffer gets one.
LEMMA PlaceGives ==
    ASSUME Good(Now), NEW x \in Arrays, at[x] = Null, NEW b \in FreeBufs,
           NEW r, NEW k, NEW nc, NEW n, NEW d, NEW s, s = Place(Now, x, b, Buffer(r, k, nc, n, d))
    PROVE  /\ Gives(s, x, k, d) /\ Keeps(s, x) /\ s.at[x] = b /\ s.heap[b] = Buffer(r, k, nc, n, d)
           /\ \A y \in Arrays \ {x} : s.at[y] # b
  <1> DEFINE o == Buffer(r, k, nc, n, d)
  <1>1. /\ b \in Bufs /\ b # Null /\ DOMAIN heap = Bufs /\ DOMAIN at = Arrays
        /\ \A y \in Arrays : at[y] # Null => at[y] \in Bufs /\ at[y] # b
    BY BufferNow, NowGood, HandleAssumption DEF Owned, FreeBufs
  <1>2. s.heap = [heap EXCEPT ![b] = o] /\ s.at = [at EXCEPT ![x] = b]
    BY DEF Place, State, Now
  <1>3. o.kind = k /\ o.data = d
    BY DEF Buffer
  <1> HIDE DEF o
  <1>4. s.at[x] = b /\ s.heap[b] = o /\ \A y \in Arrays \ {x} : s.at[y] = at[y]
    BY <1>1, <1>2
  <1>5. \A y \in Arrays \ {x} : at[y] # Null => s.heap[at[y]] = heap[at[y]]
    BY <1>1, <1>2
  <1>6. Keeps(s, x) /\ Value(s.heap, s.at, x) = [kind |-> k, data |-> d]
    BY <1>1, <1>3, <1>4, <1>5 DEF Keeps, Value
  <1>7. \A y \in Arrays \ {x} : s.at[y] # b
    BY <1>1, <1>4
  <1> QED
    BY <1>4, <1>6, <1>7 DEF Gives, o

\* What an operation does to the values of the arrays.
Changes(x, k, d) ==
  /\ \A y \in Arrays \ {x} : Value(heap', at', y) = Value(heap, at, y)
  /\ Value(heap', at', x) = [kind |-> k, data |-> d]

\* A step that gives an array new data and keeps the others is a change of its value.
LEMMA GivesChanges ==
    ASSUME NEW s, NEW x \in Arrays, NEW k, NEW d, Gives(s, x, k, d), Become(s)
    PROVE  Changes(x, k, d)
  BY DEF Gives, Keeps, Become, Changes

\* A change, as the specification of the values sees it.
LEMMA ChangeSeen ==
    ASSUME NEW x \in Arrays, NEW k, NEW d, Changes(x, k, d)
    PROVE  V!Others(x) /\ V!Becomes(x, k, Len(d))
  BY DEF Changes, Value, NoValue, V!Others, V!Becomes

\* Data at the end, and in a gap that is made for it.
Added(c, n, v) == c \o Rep(n, v)
Without(c, off, n) == SubSeq(c, 1, off) \o SubSeq(c, off + n + 1, Len(c))
Opened(p, pos, n, v) == SubSeq(p, 1, pos) \o Rep(n, v) \o SubSeq(p, pos + 1, Len(p))

\* Cells are written over what a copy has kept.
LEMMA WriteValue ==
    ASSUME Good(Now), NEW x \in Arrays, NEW k \in Kinds, NEW off \in 0..MaxLen, NEW n \in 0..MaxLen,
           NEW v \in Vals, NEW t, t = (IF at[x] = Null THEN k ELSE Buf(x).kind),
           NEW c \in V!Kept(x), NEW p, p = V!Padded(c, off + n),
           NEW d, Len(d) = Max(Len(c), off + n), Changes(x, t, d), d = Written(p, off, n, v)
    PROVE  V!Next
  <1>1. V!Others(x) /\ V!Becomes(x, t, Len(d))
    BY ChangeSeen
  <1>2. Len(d) = V!Longer(V!Size(x), off + n)
    BY KeptLength DEF V!Longer, Max
  <1>3. at[x] # Null => Buf(x).kind # "none"
    BY BufferNow DEF Kinds
  <1>4. V!Write(x, k, off, n, v)
    BY <1>1, <1>2, <1>3 DEF Written, V!Write, V!Becomes, V!None, Changes, Value, NoValue, Buf
  <1>5. k \in V!Kinds
    BY DEF Kinds, V!Kinds
  <1> QED
    BY <1>1, <1>4, <1>5 DEF V!Next

\* An insertion into kept data is one into the value.
LEMMA InsertValue ==
    ASSUME Good(Now), NEW x \in Arrays, NEW pos \in 0..MaxLen, NEW n \in 0..MaxLen,
           NEW v \in Vals, NEW t, t = (IF at[x] = Null THEN "raw" ELSE Buf(x).kind),
           NEW c \in V!Kept(x), NEW p, p = V!Padded(c, pos),
           NEW d, Len(d) = Max(Len(c), pos) + n, Changes(x, t, d),
           d = Opened(p, pos, n, v)
    PROVE  V!Next
  <1>1. V!Others(x) /\ V!Becomes(x, t, Len(d))
    BY ChangeSeen
  <1>2. Len(d) = V!Longer(V!Size(x), pos) + n
    BY KeptLength DEF V!Longer, Max
  <1>3. at[x] # Null => Buf(x).kind # "none"
    BY BufferNow DEF Kinds
  <1>4. V!Rep(n, v) = Rep(n, v)
    BY DEF V!Rep, Rep
  <1>5. V!Insert(x, pos, n, v)
    BY <1>1, <1>2, <1>3, <1>4 DEF Opened, V!Insert, V!Becomes, V!None, Changes, Value, NoValue, Buf
  <1> QED
    BY <1>1, <1>5 DEF V!Next

\* An array that becomes empty of any kind is a step of the promise.
LEMMA EmptyValue ==
    ASSUME NEW x \in Arrays, NEW k \in Kinds, Changes(x, k, << >>)
    PROVE  V!Next
  <1>1. V!Others(x)
    BY ChangeSeen
  <1>2. V!Empty(x, k) /\ k \in V!Kinds
    BY DEF V!Empty, V!Kinds, Kinds, Changes, Value, NoValue
  <1> QED
    BY <1>1, <1>2 DEF V!Next

\* A cut of the data is one of the value.
LEMMA CutValue ==
    ASSUME Good(Now), NEW x \in Arrays, at[x] # Null, NEW off \in 0..MaxLen, NEW n \in 0..MaxLen,
           off + n <= Used(x), NEW d, NEW c, d = Without(c, off, n) /\ c = Buf(x).data,
           Len(d) = Used(x) - n, Changes(x, Buf(x).kind, d)
    PROVE  V!Next
  <1>1. V!Others(x) /\ V!Becomes(x, Buf(x).kind, Len(d))
    BY ChangeSeen
  <1>2. V!Size(x) = Used(x)
    BY KeptNow
  <1>3. V!Cut(x, off, n)
    BY <1>1, <1>2 DEF Without, V!Cut, V!Becomes, Changes, Value, NoValue, Buf, Used
  <1> QED
    BY <1>1, <1>3 DEF V!Next

\* Data behind the value is an append of the promise, the data of other users behind
\* their values included.
LEMMA AppendValue ==
    ASSUME Good(Now), NEW x \in Arrays, NEW n \in 0..MaxLen, NEW v \in Vals,
           at[x] # Null => Buf(x).kind = "raw",
           NEW c, NEW d, c = Value(heap, at, x).data /\ d = Added(c, n, v) /\ Len(d) = Len(c) + n,
           Value(heap', at', x) = [kind |-> "raw", data |-> d],
           \A y \in Arrays \ {x} :
             \/ Value(heap', at', y) = Value(heap, at, y)
             \/ Value(heap, at, y) = Value(heap, at, x) /\ Value(heap', at', y) = Value(heap', at', x)
    PROVE  V!Next
  <1>1. V!Rep(n, v) = Rep(n, v)
    BY DEF V!Rep, Rep
  <1>2. V!Size(x) = Len(c)
    BY DEF V!Size, Value, NoValue
  <1>3. V!AppendTo(x, n, v)
    BY <1>1, <1>2 DEF Added, V!AppendTo, V!Becomes, Value, NoValue, Buf
  <1> QED
    BY <1>3 DEF V!Next

-----------------------------------------------------------------------------
(* The operations on values.                                               *)

\* What the other arrays have stays when an array leaves its buffer.
LEMMA RestKeeps ==
    ASSUME Good(Now), NEW x \in Arrays, at[x] # Null, NEW y \in Arrays \ {x}, at[y] # Null,
           NEW h, h = [heap EXCEPT ![at[x]] = Rest(heap[at[x]])]
    PROVE  h[at[y]].kind = heap[at[y]].kind /\ h[at[y]].data = heap[at[y]].data
  <1>1. /\ DOMAIN heap = Bufs /\ at[y] \in Bufs /\ at[x] \in Bufs /\ heap[at[x]] \in Buffers
        /\ Owned(heap, at, inst)
    BY NowGood, BufferNow DEF Owned, Sound
  <1>2. CASE at[y] # at[x]
    BY <1>1, <1>2
  <1>3. CASE at[y] = at[x]
    <2>1. heap[at[x]].ref > 1
      BY <1>1, <1>3, OnlyUser
    <2> DEFINE o == [heap[at[x]] EXCEPT !.ref = @ - 1]
    <2>2. o.kind = heap[at[x]].kind /\ o.data = heap[at[x]].data /\ Rest(heap[at[x]]) = o
      BY <1>1, <2>1 DEF Rest, Buffers
    <2> HIDE DEF o
    <2> QED
      BY <1>1, <1>3, <2>2
  <1> QED
    BY <1>2, <1>3

\* A cleared array has no value, the others keep theirs.
LEMMA ClearValue ==
    ASSUME Good(Now), NEW x \in Arrays, Clear(x)
    PROVE  V!Next
  <1> DEFINE a == [at EXCEPT ![x] = Null]
             h == [heap EXCEPT ![at[x]] = Rest(heap[at[x]])]
  <1>1. at[x] # Null /\ Become(Unref(State(heap, a, inst), at[x]))
    BY DEF Clear
  <1>2. inst \in Int /\ DOMAIN at = Arrays
    BY NowGood, LiveFinite, FS_CardinalityType DEF Owned
  <1>3. a[x] = Null /\ \A y \in Arrays \ {x} : a[y] = at[y]
    BY <1>2
  <1> HIDE DEF a
  <1>4. heap' = h /\ at' = a
    <2> HIDE DEF h
    <2>1. /\ Unref(State(heap, a, inst), at[x]).heap = [heap EXCEPT ![at[x]] = Rest(heap[at[x]])]
          /\ Unref(State(heap, a, inst), at[x]).at = a
          /\ Unref(State(heap, a, inst), at[x]).inst = inst - Lost(heap[at[x]])
      <3>1. inst \in Int
        BY <1>2
      <3> QED
        BY <3>1, UnrefFields
    <2> QED
      BY <1>1, <2>1 DEF Become, h
  <1>5. \A y \in Arrays \ {x} : at[y] # Null => h[at[y]].kind = heap[at[y]].kind /\ h[at[y]].data = heap[at[y]].data
    BY <1>1, RestKeeps
  <1> HIDE DEF h
  <1>6. Value(heap', at', x) = NoValue /\ \A y \in Arrays \ {x} : Value(heap', at', y) = Value(heap, at, y)
    BY <1>3, <1>4, <1>5 DEF Value
  <1>7. V!Drop(x) /\ V!Others(x)
    BY <1>6 DEF V!Drop, V!None, V!Others, Value, NoValue
  <1> QED
    BY <1>7 DEF V!Next

\* A clone has the value of its source.
LEMMA CloneValue ==
    ASSUME Good(Now), NEW x \in Arrays, NEW y \in Arrays, Clone(x, y)
    PROVE  V!Next
  <1> DEFINE p == [heap[at[y]] EXCEPT !.ref = @ + 1]
             g == [heap EXCEPT ![at[y]] = p]
             a == [at EXCEPT ![x] = at[y]]
             h == [heap EXCEPT ![at[x]] = Rest(heap[at[x]])]
  <1>1. /\ at[y] # Null /\ at[y] # at[x]
        /\ Become(IF at[x] = Null THEN State(g, a, inst) ELSE Unref(State(g, a, inst), at[x]))
    BY DEF Clone
  <1>2. /\ inst \in Int /\ DOMAIN at = Arrays /\ DOMAIN heap = Bufs /\ at[y] \in Bufs
        /\ heap[at[y]] \in Buffers /\ (at[x] # Null => at[x] \in Bufs)
    BY <1>1, NowGood, BufferNow, LiveFinite, FS_CardinalityType DEF Owned, Sound
  <1>3. a[x] = at[y] /\ \A z \in Arrays \ {x} : a[z] = at[z]
    BY <1>2
  <1>4. p.kind = heap[at[y]].kind /\ p.data = heap[at[y]].data
    BY <1>2 DEF Buffers
  <1> HIDE DEF p
  <1>5. g[at[x]] = heap[at[x]] /\ \A b \in Bufs : g[b].kind = heap[b].kind /\ g[b].data = heap[b].data
    BY <1>1, <1>2, <1>4
  <1> HIDE DEF a, g
  <1>6. at' = a /\ heap' = IF at[x] = Null THEN g ELSE [g EXCEPT ![at[x]] = Rest(g[at[x]])]
    <2> DEFINE b == at[x]
    <2>1. State(g, a, inst).heap = g /\ State(g, a, inst).at = a
      BY DEF State
    <2>2. /\ Unref(State(g, a, inst), b).heap = [g EXCEPT ![b] = Rest(g[b])]
          /\ Unref(State(g, a, inst), b).at = a
          /\ Unref(State(g, a, inst), b).inst = inst - Lost(g[b])
      <3>1. inst \in Int
        BY <1>2
      <3> HIDE DEF b
      <3> QED
        BY ONLY <3>1, UnrefFields
    <2> QED
      BY <1>1, <2>1, <2>2 DEF Become
  <1>7. \A z \in Arrays : at[z] # Null => at[z] \in Bufs
    BY BufferNow
  <1>8. ASSUME NEW z \in Arrays, at[z] # Null, z # x \/ z = y
        PROVE  heap'[at[z]].kind = heap[at[z]].kind /\ heap'[at[z]].data = heap[at[z]].data
    <2>1. CASE at[x] = Null
      BY <1>5, <1>6, <1>7, <1>8, <2>1
    <2>2. CASE at[x] # Null /\ at[z] # at[x]
      BY <1>5, <1>6, <1>7, <1>8, <2>2
    <2>3. CASE at[x] # Null /\ at[z] = at[x]
      <3>1. z # x
        BY <1>1, <1>8, <2>3
      <3>2. h[at[z]].kind = heap[at[z]].kind /\ h[at[z]].data = heap[at[z]].data
        <4> HIDE DEF h
        <4> QED
          BY <1>8, <2>3, <3>1, RestKeeps DEF h
      <3>3. h[at[x]] = Rest(heap[at[x]])
        BY <1>2, <2>3
      <3>4. heap'[at[x]] = Rest(heap[at[x]])
        <4>1. DOMAIN g = Bufs
          BY <1>2 DEF g
        <4> QED
          BY <1>2, <1>5, <1>6, <2>3, <4>1
      <3> QED
        BY <2>3, <3>2, <3>3, <3>4
    <2> QED
      BY <2>1, <2>2, <2>3
  <1>9. Value(heap', at', x) = Value(heap, at, y)
    BY <1>1, <1>3, <1>6, <1>8 DEF Value
  <1>10. \A z \in Arrays \ {x} : Value(heap', at', z) = Value(heap, at, z)
    BY <1>3, <1>6, <1>8 DEF Value
  <1>11. V!Clone(x, y) /\ V!Others(x)
    BY <1>9, <1>10 DEF V!Clone, V!Others, Value, NoValue
  <1> QED
    BY <1>11 DEF V!Next

\* A new buffer is an empty value.
LEMMA CreateValue ==
    ASSUME Good(Now), NEW x \in Arrays, NEW k \in Kinds, NEW nc \in BOOLEAN, Create(x, k, nc)
    PROVE  V!Next
  <1>1. at[x] = Null /\ \E b \in FreeBufs : Become(Place(Now, x, b, Buffer(1, k, nc, Alloc(0), << >>)))
    BY DEF Create
  <1>2. PICK b \in FreeBufs : Become(Place(Now, x, b, Buffer(1, k, nc, Alloc(0), << >>)))
    BY <1>1
  <1>3. Changes(x, k, << >>)
    BY <1>1, <1>2, PlaceGives, GivesChanges
  <1> QED
    BY <1>3, EmptyValue

\* The content before a write or an insert behind its end.
LEMMA PaddedSeq ==
    ASSUME NEW d \in Seq(Vals), NEW n \in Nat, NEW p, p = V!Padded(d, n)
    PROVE  /\ p \in Seq(Vals) /\ Len(p) = Max(Len(d), n) /\ Len(d) \in Nat
           /\ \A i \in 1..Len(p) : p[i] = IF i <= Len(d) THEN d[i] ELSE Zero
           /\ n >= Len(d) => p = d \o Rep(n - Len(d), Zero)
           /\ n <= Len(d) => p = d
  <1>1. Len(d) \in Nat
    OBVIOUS
  <1>2. CASE n <= Len(d)
    <2>1. p = d
      BY <1>2 DEF V!Padded
    <2>2. Max(Len(d), n) = Len(d)
      BY <1>1, <1>2 DEF Max
    <2>3. n >= Len(d) => d = d \o Rep(n - Len(d), Zero)
      <3>1. SUFFICES ASSUME n = Len(d) PROVE d = d \o Rep(0, Zero)
        BY <1>1, <1>2
      <3>2. Rep(0, Zero) = << >>
        BY DEF Rep
      <3> QED
        BY <3>2
    <2> QED
      BY <1>1, <2>1, <2>2, <2>3
  <1>3. CASE ~(n <= Len(d))
    <2> DEFINE m == n - Len(d)
               r == Rep(m, Zero)
    <2>1. m \in Nat
      BY <1>1, <1>3
    <2>2. p = d \o r
      BY <1>3 DEF V!Padded, V!Rep, Rep
    <2>3. r \in Seq(Vals) /\ Len(r) = m /\ \A i \in 1..m : r[i] = Zero
      <3> HIDE DEF m
      <3> QED
        BY <2>1, RepSeq, CellAssumption DEF Rep
    <2>4. Max(Len(d), n) = n
      BY <1>1, <1>3 DEF Max
    <2> HIDE DEF r
    <2>5. p \in Seq(Vals) /\ Len(p) = Len(d) + m
      BY <2>2, <2>3, Joined
    <2>6. \A i \in 1..Len(p) : p[i] = IF i <= Len(d) THEN d[i] ELSE Zero
      <3> SUFFICES ASSUME NEW i \in 1..Len(p) PROVE p[i] = IF i <= Len(d) THEN d[i] ELSE Zero
        OBVIOUS
      <3>1. p[i] = IF i <= Len(d) THEN d[i] ELSE r[i - Len(d)]
        BY <1>1, <2>1, <2>2, <2>3, <2>5
      <3>2. ~(i <= Len(d)) => i - Len(d) \in 1..m
        BY <1>1, <2>1, <2>5
      <3> QED
        BY <2>3, <3>1, <3>2
    <2> QED
      BY <1>1, <1>3, <2>1, <2>2, <2>4, <2>5, <2>6 DEF r
  <1> QED
    BY <1>2, <1>3

\* Insertion as the code does it is one into the data with its gap filled.
LEMMA InsertedIs ==
    ASSUME NEW d \in Seq(Vals), NEW pos \in Nat, NEW n \in Nat, NEW v \in Vals,
           NEW p, NEW e, p = V!Padded(d, pos) /\ e = Inserted(d, pos, n, v)
    PROVE  e = Opened(p, pos, n, v)
  <1>1. /\ p \in Seq(Vals) /\ Len(p) = Max(Len(d), pos) /\ Len(d) \in Nat
        /\ pos >= Len(d) => p = d \o Rep(pos - Len(d), Zero)
        /\ pos <= Len(d) => p = d
    BY PaddedSeq
  <1>2. CASE pos < Len(d)
    <2>1. p = d
      BY <1>1, <1>2
    <2> QED
      BY <1>2, <2>1 DEF Inserted, Opened
  <1>3. CASE ~(pos < Len(d))
    <2> DEFINE r == Rep(n, v)
    <2>1. Len(p) = pos /\ p = d \o Rep(pos - Len(d), Zero)
      BY <1>1, <1>3 DEF Max
    <2>2. Inserted(d, pos, n, v) = p \o r
      BY <1>3, <2>1 DEF Inserted
    <2>3. SubSeq(p, 1, pos) = p /\ SubSeq(p, pos + 1, Len(p)) = << >>
      BY <1>1, <2>1
    <2>4. r \in Seq(Vals)
      BY RepSeq
    <2> HIDE DEF r
    <2>5. p \o r \in Seq(Vals)
      BY <1>1, <2>4, Joined
    <2>6. (p \o r) \o << >> = p \o r
      BY <2>5
    <2> QED
      BY <2>2, <2>3, <2>6 DEF r, Opened
  <1> QED
    BY <1>2, <1>3

\* Data at the end: of all arrays with a shared buffer that has room left, or of a
\* private one.
LEMMA AppendedValue ==
    ASSUME Good(Now), NEW x \in Arrays, NEW n \in 0..MaxLen, NEW v \in Vals,
           mpt_array_append(x, n, v)
    PROVE  V!Next
  <1>1. n \in Nat /\ Rep(n, v) \in Seq(Vals) /\ Len(Rep(n, v)) = n
    BY RepSeq, SizeAssumption
  <1>2. CASE at[x] = Null
    <2> DEFINE r == Rep(n, v)
    <2>1. PICK b \in FreeBufs : Become(Place(Now, x, b, Buffer(1, "raw", FALSE, Alloc(n), r)))
      BY <1>2 DEF mpt_array_append
    <2>2. Changes(x, "raw", r)
      <3> HIDE DEF r
      <3> QED
        BY <1>2, <2>1, PlaceGives, GivesChanges, ZenonT(60)
    <2> DEFINE c == Value(heap, at, x).data
               d == c \o r
    <2>3. c = << >>
      BY <1>2 DEF Value, NoValue
    <2>4. d = r /\ Len(d) = Len(c) + n
      <3>1. << >> \o r = r /\ Len(<< >>) = 0
        BY <1>1
      <3> HIDE DEF c, r
      <3> QED
        BY <1>1, <2>3, <3>1 DEF r
    <2>5. d = Added(c, n, v)
      BY DEF Added
    <2> HIDE DEF d, c
    <2> QED
      BY <1>2, <2>2, <2>4, <2>5, AppendValue DEF Changes, c
  <1>3. CASE at[x] # Null
    <2> DEFINE c == Buf(x).data
               d == c \o Rep(n, v)
    <2>1. /\ Buf(x).kind = "raw"
          /\ \E s \in IF n > Buf(x).size - Used(x) THEN Detach(x, Used(x) + n) ELSE {Now} :
               Become(Fill(s, x, Content(s, x) \o Rep(n, v), n))
      BY <1>3 DEF mpt_array_append
    <2>2. /\ Used(x) \in Nat /\ Buf(x).size \in Nat /\ Used(x) + n \in Nat
          /\ c \in Seq(Vals) /\ at[x] \in Bufs /\ DOMAIN heap = Bufs /\ heap[at[x]] \in Buffers
      BY <1>1, <1>3, BufferNow, NowGood DEF Owned, Sound
    <2>3. Len(d) = Len(c) + n /\ c = Value(heap, at, x).data /\ V!Kept(x) = {c}
      BY <1>1, <1>3, <2>1, <2>2, Joined, KeptNow DEF Value, Buf
    <2>4. /\ Value(heap', at', x) = [kind |-> "raw", data |-> d]
          /\ \A y \in Arrays \ {x} :
               \/ Value(heap', at', y) = Value(heap, at, y)
               \/ Value(heap, at, y) = Value(heap, at, x) /\ Value(heap', at', y) = Value(heap', at', x)
      <3>1. CASE n > Buf(x).size - Used(x)
        <4>1. PICK s \in Detach(x, Used(x) + n) : Become(Fill(s, x, Content(s, x) \o Rep(n, v), n))
          BY <2>1, <3>1
        <4>2. Detached(s, x, Used(x) + n)
          BY <1>3, <2>2, DetachValue
        <4>3. /\ Content(s, x) = c /\ s.heap[s.at[x]].kind = "raw"
              /\ Private(s, x) /\ Keeps(s, x)
          BY <2>1, <2>3, <4>2 DEF Detached, Roomy
        <4>4. Become(Fill(s, x, d, n))
          BY <4>1, <4>3
        <4> HIDE DEF d, c
        <4>5. Changes(x, "raw", d)
          BY <4>3, <4>4, FillGives, GivesChanges
        <4> QED
          BY <4>5 DEF Changes
      <3>2. CASE ~(n > Buf(x).size - Used(x))
        <4> DEFINE o == [heap[at[x]] EXCEPT !.data = d]
        <4>1. Become(Fill(Now, x, d, n))
          BY <2>1, <3>2, NowFields DEF Content, Buf
        <4>2. heap' = [heap EXCEPT ![at[x]] = o] /\ at' = at
          BY <4>1 DEF Become, Fill, Now, State
        <4>3. o.kind = "raw" /\ o.data = d
          BY <2>1, <2>2 DEF Buffers, Buf
        <4> HIDE DEF o, d, c
        <4>4. heap'[at[x]] = o /\ \A y \in Arrays : at[y] # at[x] => heap'[at[y]] = heap[at[y]]
          BY <2>2, <4>2
        <4>5. Value(heap', at', x) = [kind |-> "raw", data |-> d]
          BY <1>3, <4>2, <4>3, <4>4 DEF Value
        <4>6. ASSUME NEW y \in Arrays \ {x}, at[y] = at[x]
              PROVE  Value(heap, at, y) = Value(heap, at, x) /\ Value(heap', at', y) = Value(heap', at', x)
          BY <4>2, <4>6 DEF Value
        <4>7. ASSUME NEW y \in Arrays \ {x}, at[y] # at[x]
              PROVE  Value(heap', at', y) = Value(heap, at, y)
          BY <4>2, <4>4, <4>7 DEF Value
        <4> QED
          BY <4>5, <4>6, <4>7
      <3> QED
        BY <3>1, <3>2
    <2>5. d = Added(c, n, v)
      BY DEF Added
    <2> HIDE DEF d, c
    <2> QED
      BY <2>1, <2>3, <2>4, <2>5, AppendValue
  <1> QED
    BY <1>2, <1>3

\* `mpt_array_insert` is a step of the promise.
LEMMA InsertedValue ==
    ASSUME Good(Now), NEW x \in Arrays, NEW pos \in 0..MaxLen, NEW n \in 0..MaxLen, NEW v \in Vals,
           mpt_array_insert(x, pos, n, v)
    PROVE  V!Next
  <1>1. pos \in Nat /\ n \in Nat /\ pos + n \in Nat
    BY SizeAssumption
  <1>2. ASSUME NEW c \in V!Kept(x), NEW t, t = (IF at[x] = Null THEN "raw" ELSE Buf(x).kind),
               Changes(x, t, Inserted(c, pos, n, v))
        PROVE  V!Next
    <2>1. c \in Seq(Vals)
      BY KeptLength
    <2> DEFINE p == V!Padded(c, pos)
               d == Inserted(c, pos, n, v)
    <2>2. Len(d) = Max(Len(c), pos) + n
      BY <1>1, <2>1, InsertedSeq
    <2>3. d = Opened(p, pos, n, v)
      <3>1. p = V!Padded(c, pos) /\ d = Inserted(c, pos, n, v)
        OBVIOUS
      <3> HIDE DEF p, d
      <3> QED
        BY <1>1, <2>1, <3>1, InsertedIs
    <2>4. Changes(x, t, d)
      BY <1>2
    <2> HIDE DEF p, d
    <2> QED
      BY <1>2, <2>2, <2>3, <2>4, InsertValue DEF p
  <1>3. CASE at[x] = Null
    <2> DEFINE d == Rep(pos, Zero) \o Rep(n, v)
               c == << >>
    <2>1. PICK b \in FreeBufs : Become(Place(Now, x, b, Buffer(1, "raw", FALSE, Alloc(pos + n), d)))
      BY <1>3 DEF mpt_array_insert
    <2>2. d = Inserted(c, pos, n, v)
      <3>1. Inserted(c, pos, n, v) = c \o Rep(pos, Zero) \o Rep(n, v)
        <4>1. Len(c) = 0 /\ pos - Len(c) = pos
          BY <1>1
        <4> HIDE DEF c
        <4>2. ~(pos < Len(c))
          BY <1>1, <4>1
        <4> QED
          BY <4>1, <4>2 DEF Inserted
      <3>2. c \o Rep(pos, Zero) = Rep(pos, Zero)
        BY <1>1, RepSeq, CellAssumption
      <3> QED
        BY <3>1, <3>2
    <2>3. c \in V!Kept(x)
      BY <1>3, KeptNow
    <2> HIDE DEF c, d
    <2>4. Changes(x, "raw", d)
      BY <1>3, <2>1, PlaceGives, GivesChanges, ZenonT(60)
    <2> QED
      BY <1>2, <1>3, <2>2, <2>3, <2>4
  <1>4. CASE at[x] # Null
    <2> DEFINE total == Max(Used(x), pos) + n
    <2>1. PICK s \in IF total <= Buf(x).size /\ ~Shared(x) THEN {Now} ELSE Detach(x, total) :
            Become(Insert(s, x, pos, n, v))
      BY <1>4 DEF mpt_array_insert
    <2>2. total \in Nat
      BY <1>1, <1>4, BufferNow DEF Max
    <2>3. Detached(s, x, total)
      <3> HIDE DEF total
      <3>1. CASE total <= Buf(x).size /\ ~Shared(x)
        BY <1>4, <2>1, <2>2, <3>1, NowDetached
      <3>2. CASE ~(total <= Buf(x).size /\ ~Shared(x))
        BY <1>4, <2>1, <2>2, <3>2, DetachValue
      <3> QED
        BY <3>1, <3>2
    <2> DEFINE c == Content(s, x)
               d == Inserted(c, pos, n, v)
               made == Len(d) - Len(c)
    <2>4. Become(Fill(s, x, d, made))
      BY <2>1 DEF Insert
    <2>5. /\ c \in V!Kept(x) /\ s.heap[s.at[x]].kind = Buf(x).kind
          /\ Private(s, x) /\ Keeps(s, x)
      BY <2>3 DEF Detached, Roomy
    <2>6. Changes(x, Buf(x).kind, d)
      <3> HIDE DEF d, made
      <3> QED
        BY <2>4, <2>5, FillGives, GivesChanges
    <2> HIDE DEF c, made
    <2> QED
      BY <1>2, <1>4, <2>5, <2>6
  <1> QED
    BY <1>3, <1>4

\* What an array gives that has its buffer for itself.
LEMMA PrivateGives ==
    ASSUME NEW s, NEW x \in Arrays, Private(s, x), Keeps(s, x)
    PROVE  Gives(s, x, s.heap[s.at[x]].kind, Content(s, x))
  BY DEF Private, Gives, Value, Content

\* The slice of an array may extend it.
LEMMA ExtendedKeeps ==
    ASSUME NEW s, NEW x \in Arrays, Used(x) \in Nat, NEW n \in Nat, n <= MaxLen, Roomy(s, x, n),
           Private(s, x), Keeps(s, x), NEW t, t = Extended(s, x, n)
    PROVE  /\ Private(t, x) /\ Keeps(t, x)
           /\ Content(t, x) = V!Padded(Content(s, x), n)
           /\ t.heap[t.at[x]].kind = s.heap[s.at[x]].kind
  <1> DEFINE c == Content(s, x)
  <1>1. c \in Seq(Vals) /\ Len(c) = Used(x)
    BY RoomyContent
  <1>2. Filled(t, x, n)
    BY ExtendedGood
  <1>3. CASE n > Used(x)
    <2> DEFINE m == n - Used(x)
               u == Used(x)
               d == Inserted(c, u, m, Zero)
               made == Len(d) - Len(c)
    <2>1. t = Fill(s, x, d, made)
      BY <1>1, <1>3 DEF Extended, Insert
    <2>2. d = V!Padded(c, n)
      <3>1. m \in Nat /\ V!Padded(c, n) = c \o Rep(m, Zero)
        BY <1>1, <1>3 DEF V!Padded, V!Rep, Rep
      <3>2. d = c \o Rep(0, Zero) \o Rep(m, Zero)
        BY <1>1, SMTT(60) DEF Inserted
      <3>3. Rep(0, Zero) = << >>
        BY DEF Rep
      <3>4. c \o << >> = c
        BY <1>1
      <3> HIDE DEF m, c, d
      <3> QED
        BY <3>1, <3>2, <3>3, <3>4
    <2> HIDE DEF d, made
    <2>3. Gives(t, x, s.heap[s.at[x]].kind, d)
      BY <2>1, FillGives
    <2>4. t.at = s.at
      BY <2>1, FillAt
    <2>5. Private(t, x)
      BY <1>2, <2>4 DEF Filled, Private
    <2>6. Content(t, x) = d /\ t.heap[t.at[x]].kind = s.heap[s.at[x]].kind /\ Keeps(t, x)
      BY <2>3, <2>5 DEF Gives, Value, Private, Content
    <2> QED
      BY <2>2, <2>5, <2>6
  <1>4. CASE ~(n > Used(x))
    <2>1. t = s
      BY <1>1, <1>4 DEF Extended
    <2>2. V!Padded(c, n) = c
      BY <1>1, <1>4 DEF V!Padded
    <2> QED
      BY <2>1, <2>2
  <1> QED
    BY <1>3, <1>4

\* `mpt_array_slice` is a step of the promise.
LEMMA SlicedValue ==
    ASSUME Good(Now), NEW x \in Arrays, NEW off \in 0..MaxLen, NEW n \in 0..MaxLen,
           NEW v \in Vals \cup {Dead}, mpt_array_slice(x, off, n, v)
    PROVE  V!Next
  <1> DEFINE result(s) == IF v = Dead THEN s ELSE Fill(s, x, Written(Content(s, x), off, n, v), 0)
             k == IF at[x] = Null THEN "raw" ELSE Buf(x).kind
  <1>1. off \in Nat /\ n \in Nat /\ off + n \in Nat /\ off + n <= MaxLen
    BY SizeAssumption DEF mpt_array_slice
  <1> DEFINE from(s, c) == /\ Private(s, x) /\ Keeps(s, x) /\ s.heap[s.at[x]].kind = k
                           /\ Content(s, x) = V!Padded(c, off + n)
                           /\ Become(result(s))
  <1>0. \E c \in V!Kept(x) : \E s : from(s, c)
    <2>1. CASE at[x] = Null
      <3> DEFINE d == Rep(off + n, Zero)
                 e == << >>
                 o == Buffer(1, "raw", FALSE, Alloc(off + n), d)
      <3>1. PICK b \in FreeBufs : Become(result(Place(Now, x, b, o)))
        BY <2>1 DEF mpt_array_slice
      <3>2. d \in Seq(Vals) /\ Len(d) = off + n
        BY <1>1, RepSeq, CellAssumption
      <3>3. d = V!Padded(e, off + n) /\ e \in V!Kept(x)
        <4>1. e \in Seq(Vals) /\ Len(e) = 0 /\ off + n - Len(e) = off + n
          BY <1>1
        <4>2. e \o d = d
          BY <3>2
        <4>3. V!Padded(e, off + n) = e \o d \/ (off + n = 0 /\ V!Padded(e, off + n) = e)
          BY <1>1, <4>1 DEF V!Padded, V!Rep, Rep
        <4>4. off + n = 0 => d = e
          BY <3>2
        <4> QED
          BY <2>1, <4>2, <4>3, <4>4, KeptNow
      <3>4. o.data = d /\ o.kind = "raw"
        BY DEF Buffer
      <3>5. Len(d) <= off + n /\ Len(d) <= MaxLen
        BY <1>1, <3>2
      <3> HIDE DEF d, e
      <3> DEFINE s == Place(Now, x, b, o)
      <3>6. Good(s)
        BY <1>1, <2>1, <3>2, <3>5, FirstRaw
      <3>7. /\ Keeps(s, x) /\ s.at[x] = b /\ s.heap[b] = o
            /\ \A y \in Arrays \ {x} : s.at[y] # b
        <4> DEFINE r == 1
                   raw == "raw"
                   nc == FALSE
                   m == Alloc(off + n)
        <4>1. s = Place(Now, x, b, Buffer(r, raw, nc, m, d)) /\ o = Buffer(r, raw, nc, m, d)
          OBVIOUS
        <4> HIDE DEF s, o, r, raw, nc, m
        <4> QED
          BY <2>1, <4>1, PlaceGives
      <3>8. b \in Bufs /\ b # Null
        BY HandleAssumption DEF FreeBufs
      <3>9. Become(result(s))
        BY <3>1
      <3> HIDE DEF o, s, result
      <3>10. Private(s, x) /\ Content(s, x) = d /\ s.heap[s.at[x]].kind = k
        BY <2>1, <3>4, <3>6, <3>7, <3>8 DEF Private, Content
      <3> QED
        BY <3>3, <3>7, <3>9, <3>10
    <2>2. CASE at[x] # Null
      <3>1. PICK t \in Slice(x, off, n) : Become(result(Extended(t, x, off + n)))
        BY <2>2 DEF mpt_array_slice
      <3>2. Used(x) \in Nat /\ Buf(x).size \in Nat
        BY <2>2, BufferNow
      <3>3. Detached(t, x, off + n)
        <4>1. CASE off + n > Buf(x).size \/ Shared(x)
          <5> DEFINE m == Max(off + n, Used(x))
          <5>1. t \in Detach(x, m)
            BY <3>1, <4>1 DEF Slice
          <5>2. m \in Nat /\ off + n <= m
            BY <1>1, <3>2 DEF Max
          <5> HIDE DEF m
          <5>3. Detached(t, x, m)
            BY <2>2, <5>1, <5>2, DetachValue
          <5>4. t.heap[t.at[x]].size \in Nat /\ m <= t.heap[t.at[x]].size
            BY <5>3, RoomyContent DEF Detached
          <5>5. off + n <= t.heap[t.at[x]].size
            BY <1>1, <5>2, <5>4
          <5> QED
            BY <5>3, <5>5 DEF Detached, Roomy
        <4>2. CASE ~(off + n > Buf(x).size \/ Shared(x))
          <5>1. t = Now
            BY <3>1, <4>2 DEF Slice
          <5>2. off + n <= Buf(x).size
            BY <1>1, <3>2, <4>2
          <5> QED
            BY <1>1, <2>2, <4>2, <5>1, <5>2, NowDetached
        <4> QED
          BY <4>1, <4>2
      <3> DEFINE s == Extended(t, x, off + n)
                 c == Content(t, x)
      <3>4. /\ c \in V!Kept(x) /\ Private(t, x) /\ Keeps(t, x) /\ Roomy(t, x, off + n)
            /\ t.heap[t.at[x]].kind = k
        BY <2>2, <3>3 DEF Detached, Roomy
      <3>5. /\ Private(s, x) /\ Keeps(s, x) /\ Content(s, x) = V!Padded(c, off + n)
            /\ s.heap[s.at[x]].kind = k
        <4>1. s = Extended(t, x, off + n)
          OBVIOUS
        <4> HIDE DEF s, k
        <4> QED
          BY <1>1, <3>2, <3>4, <4>1, ExtendedKeeps
      <3>6. Become(result(s))
        BY <3>1
      <3> HIDE DEF s, c, k, result
      <3> QED
        BY <3>4, <3>5, <3>6
    <2> QED
      BY <2>1, <2>2
  <1>2. PICK c \in V!Kept(x) : \E s : from(s, c)
    BY <1>0
  <1>8. PICK s : from(s, c)
    BY <1>2
  <1> DEFINE p == Content(s, x)
  <1>3. c \in Seq(Vals) /\ Len(c) \in Nat
    BY KeptLength
  <1>4. p = V!Padded(c, off + n) /\ p \in Seq(Vals) /\ Len(p) = Max(Len(c), off + n)
    BY <1>1, <1>8, <1>3, PaddedSeq
  <1>5. "raw" \in Kinds
    BY DEF Kinds
  <1>6. CASE v = Dead
    <2> DEFINE m == off + n
               z == 0
               d == Written(p, m, z, Zero)
    <2>1. d = p
      BY <1>1, <1>4 DEF Written
    <2>2. Become(s)
      BY <1>8, <1>6
    <2>3. Changes(x, k, p)
      <3> HIDE DEF p, k, result
      <3> QED
        BY <1>8, <2>2, PrivateGives, GivesChanges DEF p
    <2>4. m \in 0..MaxLen /\ z \in 0..MaxLen /\ m + z = off + n
      BY <1>1, SizeAssumption
    <2> HIDE DEF m, z, p, d
    <2>5. Len(d) = Max(Len(c), m + z) /\ p = V!Padded(c, m + z) /\ d = Written(p, m, z, Zero)
      BY <1>4, <2>1, <2>4 DEF d
    <2> QED
      BY <1>5, <2>1, <2>3, <2>4, <2>5, CellAssumption, WriteValue
  <1>7. CASE v # Dead
    <2> DEFINE d == Written(p, off, n, v)
    <2>1. v \in Vals
      BY <1>7
    <2>2. Len(d) = Len(p)
      BY <1>4 DEF Written
    <2>3. Become(Fill(s, x, d, 0))
      BY <1>8, <1>7
    <2>4. d = Written(p, off, n, v)
      OBVIOUS
    <2> HIDE DEF d, p, result
    <2>5. Changes(x, k, d)
      <3> HIDE DEF k
      <3> QED
        BY <1>8, <2>3, FillGives, GivesChanges
    <2>6. Len(d) = Max(Len(c), off + n)
      BY <1>4, <2>2
    <2> QED
      BY <1>4, <1>5, <2>1, <2>4, <2>5, <2>6, WriteValue
  <1> QED
    BY <1>6, <1>7

\* Elements that are replaced up to the end, as a write over what was there.
LEMMA ReplacedIs ==
    ASSUME NEW d \in Seq(Vals), NEW pos \in Nat, NEW n \in Nat, NEW v \in Vals, Len(d) <= pos + n,
           NEW p, NEW e, p = V!Padded(d, pos + n) /\ e = Replaced(d, pos, n, v)
    PROVE  e = Written(p, pos, n, v) /\ Len(e) = Max(Len(d), pos + n)
  <1>1. /\ p \in Seq(Vals) /\ Len(p) = Max(Len(d), pos + n) /\ Len(d) \in Nat
        /\ \A i \in 1..Len(p) : p[i] = IF i <= Len(d) THEN d[i] ELSE Zero
    BY PaddedSeq
  <1>2. Max(Len(d), pos + n) = pos + n /\ DOMAIN p = 1..(pos + n)
    BY <1>1 DEF Max
  <1> DEFINE w(i) == IF i \in (pos + 1)..(pos + n) THEN v ELSE p[i]
             r(i) == CASE i <= pos     -> IF i <= Len(d) THEN d[i] ELSE Zero
                       [] i <= pos + n /\ i > pos -> v
                       [] OTHER        -> Dead
  <1>3. ASSUME NEW i \in 1..(pos + n) PROVE w(i) = r(i)
    BY <1>1, <1>2
  <1>4. e = [i \in 1..(pos + n) |-> r(i)] /\ Written(p, pos, n, v) = [i \in 1..(pos + n) |-> w(i)]
    BY <1>2 DEF Replaced, Written
  <1> HIDE DEF w, r
  <1>5. e = Written(p, pos, n, v)
    BY <1>3, <1>4
  <1>6. Len(e) = pos + n
    BY <1>4
  <1> QED
    BY <1>2, <1>5, <1>6

\* `mpt_array_set` at the end of the data is a step of the promise.
LEMMA SetValue ==
    ASSUME ~ReplacesInside, Good(Now), NEW x \in Arrays, NEW pos \in 0..MaxLen, NEW n \in 0..MaxLen,
           NEW v \in Vals, mpt_array_set(x, pos, n, v)
    PROVE  V!Next
  <1> DEFINE k == IF at[x] = Null THEN "managed" ELSE Buf(x).kind
  <1>1. pos \in Nat /\ n \in Nat /\ pos + n \in Nat /\ pos + n <= MaxLen
    BY SizeAssumption DEF mpt_array_set
  <1>2. ASSUME NEW c \in V!Kept(x), Len(c) <= pos + n, NEW s, Private(s, x), Keeps(s, x),
               s.heap[s.at[x]].kind = k, Content(s, x) = c, Become(mpt_buffer_set(s, x, pos, n, v))
        PROVE  V!Next
    <2>1. c \in Seq(Vals)
      BY KeptLength
    <2> DEFINE p == V!Padded(c, pos + n)
               d == Replaced(c, pos, n, v)
               made == (IF pos < Len(c) THEN pos - Len(c) ELSE 0)
                       + (IF pos > Len(c) THEN pos - Len(c) ELSE 0) + n
    <2>2. mpt_buffer_set(s, x, pos, n, v) = Fill(s, x, d, made)
      BY <1>2 DEF mpt_buffer_set
    <2>3. p = V!Padded(c, pos + n) /\ d = Replaced(c, pos, n, v)
      OBVIOUS
    <2> HIDE DEF d, p, made
    <2>4. d = Written(p, pos, n, v) /\ Len(d) = Max(Len(c), pos + n)
      BY <1>1, <1>2, <2>1, <2>3, ReplacedIs
    <2>5. Changes(x, k, d)
      <3> HIDE DEF k
      <3> QED
        BY <1>2, <2>2, FillGives, GivesChanges
    <2>6. "managed" \in Kinds
      BY DEF Kinds
    <2> QED
      BY <2>3, <2>4, <2>5, <2>6, WriteValue
  <1>3. ASSUME SetFirst(x, pos, n, v)
        PROVE  V!Next
    <2> DEFINE d == << >>
               r == 1
               q == "managed"
               nc == FALSE
               m == pos + n
               w == Alloc(m)
               o == Buffer(r, q, nc, w, d)
    <2>1. at[x] = Null /\ \E b \in FreeBufs : Become(mpt_buffer_set(Place(Now, x, b, o), x, pos, n, v))
      BY <1>3 DEF SetFirst
    <2>2. /\ d \in Seq(Vals) /\ Len(d) = 0 /\ d = << >>
          /\ q \in Kinds /\ nc \in BOOLEAN /\ m \in Nat /\ q = "managed"
      BY <1>1 DEF Kinds
    <2>3. PICK b \in FreeBufs : Become(mpt_buffer_set(Place(Now, x, b, o), x, pos, n, v))
      BY <2>1
    <2> DEFINE s == Place(Now, x, b, o)
    <2>4. Good(s)
      <3> HIDE DEF d, q, nc, m
      <3>1. Len(d) <= m /\ Len(d) <= MaxLen
        BY <2>2, SizeAssumption
      <3> QED
        BY <2>1, <2>2, <3>1, FirstGood
    <2>5. s = Place(Now, x, b, Buffer(r, q, nc, w, d)) /\ o = Buffer(r, q, nc, w, d)
      OBVIOUS
    <2>6. o.data = d /\ o.kind = q
      BY DEF Buffer
    <2> HIDE DEF s, o, r, q, nc, w, d
    <2>7. /\ Keeps(s, x) /\ s.at[x] = b /\ s.heap[b] = o
          /\ \A y \in Arrays \ {x} : s.at[y] # b
      BY <2>1, <2>5, PlaceGives
    <2>8. b \in Bufs /\ b # Null
      BY HandleAssumption DEF FreeBufs
    <2>9. Private(s, x) /\ Content(s, x) = d /\ s.heap[s.at[x]].kind = k
      BY <2>1, <2>2, <2>4, <2>6, <2>7, <2>8 DEF Private, Content
    <2>10. d \in V!Kept(x) /\ Len(d) <= pos + n
      BY <1>1, <2>1, <2>2, KeptNow
    <2>11. Become(mpt_buffer_set(s, x, pos, n, v))
      BY <2>3 DEF s
    <2> HIDE DEF k
    <2> QED
      BY <1>2, <2>7, <2>9, <2>10, <2>11
  <1>4. ASSUME SetElements(x, pos, n, v)
        PROVE  V!Next
    <2>0. at[x] # Null /\ Buf(x).kind = "managed"
      BY <1>4 DEF SetElements
    <2>2. Used(x) \in Nat /\ Buf(x).size \in Nat
      BY <2>0, BufferNow
    <2>1. at[x] # Null /\ pos + n >= Used(x)
      BY <1>1, <2>0, <2>2 DEF ReplacesInside, Inside
    <2>3. ~CopyFails(x, pos + n)
      <3> DEFINE m == pos + n
      <3>1. m \in Nat /\ Used(x) <= m
        BY <1>1, <2>1, <2>2
      <3> HIDE DEF m
      <3>2. Alloc(m) \in Nat /\ m <= Alloc(m)
        BY <3>1, AllocFits
      <3>3. ~CopyFails(x, m)
        BY <2>2, <3>1, <3>2 DEF CopyFails
      <3> QED
        BY <3>3 DEF m
    <2>4. PICK t \in IF Buf(x).size < pos + n \/ Shared(x) THEN Detach(x, pos + n) ELSE {Now} :
                 Become(mpt_buffer_set(t, x, pos, n, v))
      BY <1>4, <2>3 DEF SetElements
    <2>5. Detached(t, x, pos + n)
      <3>1. CASE Buf(x).size < pos + n \/ Shared(x)
        <4>1. t \in Detach(x, pos + n)
          BY <2>4, <3>1
        <4> QED
          BY <1>1, <2>1, <4>1, DetachValue
      <3>2. CASE ~(Buf(x).size < pos + n \/ Shared(x))
        <4>1. t = Now /\ pos + n <= Buf(x).size
          BY <1>1, <2>2, <2>4, <3>2
        <4> QED
          BY <1>1, <2>1, <3>2, <4>1, NowDetached
      <3> QED
        BY <3>1, <3>2
    <2>6. Len(Content(t, x)) = Used(x)
      BY <2>5, RoomyContent DEF Detached
    <2>7. Len(Content(t, x)) <= pos + n
      BY <1>1, <2>1, <2>2, <2>6
    <2>8. t.heap[t.at[x]].kind = k
      BY <2>1, <2>5 DEF Detached, Roomy
    <2> HIDE DEF k
    <2> QED
      BY <1>2, <2>4, <2>5, <2>7, <2>8 DEF Detached
  <1> QED
    BY <1>3, <1>4 DEF mpt_array_set

\* An array that is detached keeps its value but for elements that could not be copied.
LEMMA DetachedValue ==
    ASSUME Good(Now), NEW x \in Arrays, at[x] # Null, NEW n \in Nat,
           \E s \in Detach(x, n) : Become(s)
    PROVE  V!Next
  <1>1. PICK s \in Detach(x, n) : Become(s)
    OBVIOUS
  <1> DEFINE c == Content(s, x)
             z == 0
             p == V!Padded(c, z + z)
             d == Written(p, z, z, Zero)
             k == "raw"
  <1>2. /\ Private(s, x) /\ Keeps(s, x) /\ s.heap[s.at[x]].kind = Buf(x).kind
        /\ c \in V!Kept(x) /\ c \in Seq(Vals)
    BY <1>1, DetachValue DEF Detached, Roomy
  <1>3. Len(c) \in Nat /\ p = c /\ Len(c) = Max(Len(c), z + z) /\ z \in 0..MaxLen /\ k \in Kinds
    BY <1>2, SizeAssumption DEF V!Padded, Max, Kinds
  <1>4. d = c
    BY <1>2, <1>3 DEF Written
  <1>5. p = V!Padded(c, z + z) /\ d = Written(p, z, z, Zero)
    OBVIOUS
  <1> HIDE DEF c, z, p, d, k
  <1>6. Changes(x, Buf(x).kind, c)
    BY <1>1, <1>2, PrivateGives, GivesChanges DEF c
  <1> QED
    BY <1>2, <1>3, <1>4, <1>5, <1>6, CellAssumption, WriteValue

\* `mpt_array_reserve` of an empty array is a step of the promise.
LEMMA ReserveNewValue ==
    ASSUME Good(Now), NEW x \in Arrays, NEW n \in Nat, NEW k \in Kinds, ReserveNew(x, n, k)
    PROVE  V!Next
  <1> DEFINE nc == FALSE
  <1>1. at[x] = Null /\ \E b \in FreeBufs : Become(Place(Now, x, b, Buffer(1, k, nc, Alloc(n), << >>)))
    BY DEF ReserveNew
  <1> HIDE DEF nc
  <1>2. PICK b \in FreeBufs : Become(Place(Now, x, b, Buffer(1, k, nc, Alloc(n), << >>)))
    BY <1>1
  <1>3. Changes(x, k, << >>)
    BY <1>1, <1>2, PlaceGives, GivesChanges
  <1> QED
    BY <1>3, EmptyValue

\* `mpt_array_reserve` of a shared buffer changes the value of this array only.
LEMMA ReserveSharedValue ==
    ASSUME Good(Now), NEW x \in Arrays, NEW n \in Nat, NEW k \in Kinds, ReserveShared(x, n, k)
    PROVE  V!Next
  <1> DEFINE o == Buffer(1, k, FALSE, Alloc(n), << >>)
             h == [heap EXCEPT ![at[x]] = Rest(heap[at[x]])]
  <1>1. at[x] # Null /\ \E b \in FreeBufs : Become(Place(Unref(Now, at[x]), x, b, o))
    BY DEF ReserveShared
  <1>2. PICK b \in FreeBufs : Become(Place(Unref(Now, at[x]), x, b, o))
    BY <1>1
  <1>3. /\ inst \in Int /\ DOMAIN at = Arrays /\ DOMAIN heap = Bufs
        /\ b \in Bufs /\ b # Null /\ \A y \in Arrays : at[y] # Null => at[y] \in Bufs /\ at[y] # b
    BY NowGood, BufferNow, LiveFinite, FS_CardinalityType, HandleAssumption DEF Owned, FreeBufs
  <1>4. o.kind = k /\ o.data = << >>
    BY DEF Buffer
  <1> HIDE DEF o
  <1>5. Unref(Now, at[x]).heap = h /\ Unref(Now, at[x]).at = at
    <2> DEFINE p == [heap[at[x]] EXCEPT !.ref = @ - 1]
    <2>1. heap[at[x]].ref > 1
      BY DEF ReserveShared, Shared, Buf
    <2>2. Unref(Now, at[x]).heap = [heap EXCEPT ![at[x]] = p] /\ Unref(Now, at[x]).at = at
      BY <2>1 DEF Unref, Now, State
    <2>3. Rest(heap[at[x]]) = p
      BY <2>1 DEF Rest
    <2> HIDE DEF p
    <2> QED
      BY <2>2, <2>3
  <1>6. heap' = [h EXCEPT ![b] = o] /\ at' = [at EXCEPT ![x] = b]
    BY <1>2, <1>5 DEF Place, State, Become
  <1>7. \A y \in Arrays \ {x} : at[y] # Null => h[at[y]].kind = heap[at[y]].kind /\ h[at[y]].data = heap[at[y]].data
    <2> HIDE DEF h
    <2> QED
      BY <1>1, RestKeeps DEF h
  <1>8. DOMAIN h = Bufs
    BY <1>3
  <1> HIDE DEF h
  <1>9. heap'[b] = o /\ at'[x] = b /\ \A y \in Arrays \ {x} : at'[y] = at[y]
    BY <1>3, <1>6, <1>8
  <1>10. \A y \in Arrays \ {x} : at[y] # Null => heap'[at[y]] = h[at[y]]
    BY <1>3, <1>6, <1>8
  <1>11. Value(heap', at', x) = [kind |-> k, data |-> << >>]
    BY <1>3, <1>4, <1>9 DEF Value
  <1>12. ASSUME NEW y \in Arrays \ {x} PROVE Value(heap', at', y) = Value(heap, at, y)
    BY <1>7, <1>9, <1>10 DEF Value
  <1>13. Changes(x, k, << >>)
    BY <1>11, <1>12 DEF Changes
  <1> QED
    BY <1>13, EmptyValue

\* A buffer that changes its kind becomes an empty value.
LEMMA RetypeValue ==
    ASSUME Good(Now), NEW x \in Arrays, NEW n \in Nat, NEW k \in Kinds, Retype(x, n, k)
    PROVE  V!Next
  <1>1. /\ at[x] # Null /\ ~Shared(x) /\ at' = at
        /\ \E t \in {k, Buf(x).kind} :
             \E w : heap' = [heap EXCEPT ![at[x]] = Buffer(1, t, Buf(x).nocopy, w, << >>)]
    BY NowGood, BufferNow DEF Retype, Owned, Buf
  <1>2. PICK t \in {k, Buf(x).kind} :
               \E w : heap' = [heap EXCEPT ![at[x]] = Buffer(1, t, Buf(x).nocopy, w, << >>)]
    BY <1>1
  <1>3. PICK w : heap' = [heap EXCEPT ![at[x]] = Buffer(1, t, Buf(x).nocopy, w, << >>)]
    BY <1>2
  <1> DEFINE o == Buffer(1, t, Buf(x).nocopy, w, << >>)
  <1>4. /\ DOMAIN heap = Bufs /\ at[x] \in Bufs /\ t \in Kinds
        /\ \A y \in Arrays \ {x} : at[y] # at[x]
    BY <1>1, NowGood, BufferNow, OnlyUser DEF Owned, Shared, Buf
  <1>5. o.kind = t /\ o.data = << >> /\ heap' = [heap EXCEPT ![at[x]] = o]
    BY <1>3 DEF Buffer
  <1> HIDE DEF o
  <1>6. heap'[at[x]] = o /\ \A y \in Arrays \ {x} : heap'[at[y]] = heap[at[y]]
    BY <1>4, <1>5
  <1>7. Changes(x, t, << >>)
    BY <1>1, <1>5, <1>6 DEF Changes, Value
  <1> QED
    BY <1>4, <1>7, EmptyValue

\* `mpt_array_reserve` is a step of the promise.
LEMMA ReserveValue ==
    ASSUME Good(Now), NEW x \in Arrays, NEW n \in 0..MaxLen, NEW k \in Kinds,
           mpt_array_reserve(x, n, k)
    PROVE  V!Next
  <1>1. n \in Nat
    BY SizeAssumption
  <1>2. CASE ReserveSame(x, n, k)
    BY <1>1, <1>2, DetachedValue DEF ReserveSame
  <1> QED
    BY <1>1, <1>2, ReserveNewValue, ReserveSharedValue, RetypeValue DEF mpt_array_reserve

\* Raw data that is cut by length 0 is cut off at the offset.
LEMMA CutDone ==
    ASSUME Good(Now), NEW x \in Arrays, NEW off \in 0..MaxLen, NEW n \in 0..MaxLen,
           mpt_buffer_cut(x, off, n)
    PROVE  V!Next
  <1> DEFINE c == Buf(x).data
             m == IF n = 0 THEN Used(x) - off ELSE n
             d == Without(c, off, m)
  <1>1. /\ at[x] # Null /\ ~Shared(x) /\ off + n <= Used(x)
        /\ Become(Fill(Now, x, SubSeq(c, 1, off) \o
                         (IF n = 0 THEN << >> ELSE SubSeq(c, off + n + 1, Len(c))), 0 - n))
    BY DEF mpt_buffer_cut
  <1>2. c \in Seq(Vals) /\ Used(x) = Len(c) /\ Used(x) \in Nat /\ Used(x) <= MaxLen /\ Buf(x).size \in Nat
        /\ Used(x) <= Buf(x).size
    BY <1>1, BufferNow DEF Used
  <1>3. off \in Nat /\ n \in Nat /\ m \in 0..MaxLen /\ off + m <= Used(x)
    BY <1>1, <1>2, SizeAssumption
  <1>4. Private(Now, x) /\ Keeps(Now, x)
    <2> DEFINE z == 0
    <2>1. z \in Nat /\ z <= Buf(x).size
      BY <1>2
    <2> HIDE DEF z
    <2> QED
      BY <1>1, <2>1, NowDetached DEF Detached
  <1> HIDE DEF c
  <1>5. Become(Fill(Now, x, d, 0 - n))
    <2>1. CASE n = 0
      <3>1. SubSeq(c, off + m + 1, Len(c)) = << >>
        BY <1>2, <1>3, <2>1
      <3> HIDE DEF m
      <3> QED
        BY <1>1, <2>1, <3>1 DEF Without
    <2>2. CASE n # 0
      BY <1>1, <2>2 DEF Without
    <2> QED
      BY <2>1, <2>2
  <1> HIDE DEF m
  <1>6. Len(d) = Used(x) - m
    <2> DEFINE p == SubSeq(c, 1, off)
               q == SubSeq(c, off + m + 1, Len(c))
    <2>1. p \in Seq(Vals) /\ Len(p) = off
      BY <1>2, <1>3
    <2>2. q \in Seq(Vals) /\ Len(q) = Len(c) - off - m
      <3>1. off + m + 1 \in 1..(Len(c) + 1)
        BY <1>2, <1>3
      <3> QED
        BY <1>2, <1>3, <3>1
    <2>3. d = p \o q
      BY DEF Without
    <2> HIDE DEF p, q, d
    <2> QED
      BY <1>2, <1>3, <2>1, <2>2, <2>3, Joined
  <1>7. Changes(x, Buf(x).kind, d)
    <2>1. Now.heap[Now.at[x]].kind = Buf(x).kind
      BY NowFields DEF Buf
    <2> HIDE DEF d
    <2> QED
      BY <1>4, <1>5, <2>1, FillGives, GivesChanges
  <1>8. d = Without(c, off, m) /\ c = Buf(x).data
    BY DEF c
  <1> HIDE DEF d
  <1> QED
    BY <1>1, <1>3, <1>6, <1>7, <1>8, CutValue

\* Every operation is a step of the promise.
LEMMA StepValue ==
    ASSUME ~ReplacesInside, Owned(heap, at, inst), Next
    PROVE  V!Next
  <1>1. Good(Now)
    BY NowGood
  <1>2. PICK x \in Arrays :
          \/ mpt_array_clone(x)
          \/ \E k \in Kinds, nc \in BOOLEAN : Create(x, k, nc)
          \/ \E n \in 0..MaxLen, v \in Vals : mpt_array_append(x, n, v)
          \/ \E pos, n \in 0..MaxLen, v \in Vals : mpt_array_insert(x, pos, n, v)
          \/ \E off, n \in 0..MaxLen, v \in Vals \cup {Dead} : mpt_array_slice(x, off, n, v)
          \/ \E pos, n \in 0..MaxLen, v \in Vals : mpt_array_set(x, pos, n, v)
          \/ \E n \in 0..MaxLen, k \in Kinds : mpt_array_reserve(x, n, k)
          \/ mpt_array_reduce(x)
          \/ \E off, n \in 0..MaxLen : mpt_buffer_cut(x, off, n)
    BY DEF Next, Operation
  <1>3. CASE mpt_array_clone(x)
    BY <1>1, <1>3, ClearValue, CloneValue DEF mpt_array_clone
  <1>4. CASE \E k \in Kinds, nc \in BOOLEAN : Create(x, k, nc)
    BY <1>1, <1>4, CreateValue
  <1>5. CASE \E n \in 0..MaxLen, v \in Vals : mpt_array_append(x, n, v)
    BY <1>1, <1>5, AppendedValue
  <1>6. CASE \E pos, n \in 0..MaxLen, v \in Vals : mpt_array_insert(x, pos, n, v)
    BY <1>1, <1>6, InsertedValue
  <1>7. CASE \E off, n \in 0..MaxLen, v \in Vals \cup {Dead} : mpt_array_slice(x, off, n, v)
    BY <1>1, <1>7, SlicedValue
  <1>8. CASE \E pos, n \in 0..MaxLen, v \in Vals : mpt_array_set(x, pos, n, v)
    BY <1>1, <1>8, SetValue
  <1>9. CASE \E n \in 0..MaxLen, k \in Kinds : mpt_array_reserve(x, n, k)
    BY <1>1, <1>9, ReserveValue
  <1>10. CASE mpt_array_reduce(x)
    BY <1>1, <1>10, DetachedValue, BufferNow DEF mpt_array_reduce
  <1>11. CASE \E off, n \in 0..MaxLen : mpt_buffer_cut(x, off, n)
    BY <1>1, <1>11, CutDone
  <1> QED
    BY <1>2, <1>3, <1>4, <1>5, <1>6, <1>7, <1>8, <1>9, <1>10, <1>11

\* For every number of arrays and buffers: the handles on shared, copied and moved
\* buffers behave as variables of their own.  An operation changes the value of
\* its array only, except for data that mpt_array_append adds to a shared buffer
\* with room left, which all arrays with that buffer get.  This too holds for every
\* use in which no mpt_array_set ends before the last element (ReplacesInside).
THEOREM ArrayImplementsValues == Spec /\ [][~ReplacesInside]_vars => ImplementsValues
  <1> DEFINE val_ == [x \in Arrays |-> IF at[x] = Null THEN [kind |-> "none", data |-> << >>]
                                       ELSE [kind |-> heap[at[x]].kind, data |-> heap[at[x]].data]]
  <1>1. Init => Owned(heap, at, inst) /\ V!Init
    BY InitGood DEF Init, V!Init, V!None
  <1>2. Owned(heap, at, inst) /\ [Next]_vars /\ [~ReplacesInside]_vars
          => Owned(heap, at, inst)' /\ [V!Next]_val_
    <2>1. ASSUME Owned(heap, at, inst), UNCHANGED vars
          PROVE  Owned(heap', at', inst') /\ val_' = val_
      BY <2>1 DEF vars
    <2>2. ASSUME Owned(heap, at, inst), Next, ~ReplacesInside
          PROVE  Owned(heap', at', inst')
      BY <2>2, StepGood
    <2>3. ASSUME Owned(heap, at, inst), Next, ~ReplacesInside
          PROVE  V!Next
      BY <2>3, StepValue
    <2> QED
      BY <2>1, <2>2, <2>3
  <1> HIDE DEF val_
  <1>3. Spec /\ [][~ReplacesInside]_vars => V!Init /\ [][V!Next]_val_
    BY <1>1, <1>2, PTL DEF Spec
  <1> QED
    BY <1>3, PTL DEF ImplementsValues, V!Spec, val_

=============================================================================
