----------------------------- MODULE Containers -----------------------------
(***************************************************************************)
(* The containers of the C++ interface (mptcore/array.h, mpt++/array.cpp): *)
(* arrays of values, items, references and pointers, maps, byte arrays and *)
(* slices, as handles on reference counted buffers of _mpt_buffer_alloc.   *)
(* "kind" is the template the boxes of a run are made of.  An element has  *)
(* a key (the name of an item, the key of a map entry) and an object, 0    *)
(* for a null reference; the elements of byte arrays have only a key.      *)
(***************************************************************************)
EXTENDS Integers, Sequences, FiniteSets
LOCAL INSTANCE SequencesExt

CONSTANTS Boxes,    \* the containers
          Places,   \* addresses of buffers, positive numbers
          Keys,     \* names, keys and bytes other than 0
          Objects,  \* objects that are referred to
          Granule,  \* allocation unit of a buffer in elements
          Header,   \* size of the buffer header in elements
          MaxLen    \* bound: elements of a container

VARIABLES kind, bufs, box, held, shown, view

containers == <<kind, bufs, box, held, shown, view>>

\* Elements of typed arrays may be copied, those of the others are unique.
Copyable == {"typed", "pointer", "map", "bytes"}
Unique == {"item", "reference"}
Counting == kind \notin {"pointer", "bytes"}

Element(key, obj) == [key |-> key, obj |-> obj]
Blank == Element(0, 0)
Rep(n, e) == [i \in 1 .. n |-> e]
Buffer(size, data) == [ref |-> 1, size |-> size, data |-> data]
NoBuffer == [ref |-> 0, size |-> 0, data |-> <<>>]
Dummy == 0     \* the static buffer without content of an empty container
Alloc(n) == ((n + Header - 1) \div Granule + 1) * Granule - Header

\* What an operation works on: buffers, containers, references to objects.
State(b, x, h) == [bufs |-> b, box |-> x, held |-> h]
Now == State(bufs, box, held)
At(s, p) == IF p = Dummy THEN NoBuffer ELSE s.bufs[p]
Data(s, x) == At(s, s.box[x]).data
Len0(x) == Len(Data(Now, x))

Count(d, o) == Cardinality({i \in DOMAIN d : d[i].obj = o})
\* The elements of "more" are initialised with a reference, those of "less" finalised.
Refer(s, more, less) ==
    [s EXCEPT !.held = [o \in Objects |->
        IF Counting THEN @[o] + Count(more, o) - Count(less, o) ELSE @[o]]]
Store(s, p, d) == Refer([s EXCEPT !.bufs[p].data = d], d, s.bufs[p].data)

-----------------------------------------------------------------------------
(* Buffers.  An allocation may fail; the place is then Dummy. *)

Got(s, p) == [st |-> s, at |-> p]
Release(s, p) ==
    IF p = Dummy THEN s
    ELSE IF s.bufs[p].ref > 1 THEN [s EXCEPT !.bufs[p].ref = @ - 1]
    ELSE LET g == Store(s, p, <<>>) IN [g EXCEPT !.bufs[p] = NoBuffer]

set_instance(s, x, p) == [Release(s, s.box[x]) EXCEPT !.box[x] = p]

create(s, n) ==
    LET free == {p \in Places : s.bufs[p].ref = 0} IN
    {Got(s, Dummy)} \cup
    {Got([s EXCEPT !.bufs[p] = Buffer(Alloc(n), <<>>)], p) :
        p \in {q \in free : \A r \in free : q <= r}}

\* A copy has its own references.
Copied(s, p, n) ==
    {IF r.at = Dummy THEN r
     ELSE Got(Store([r.st EXCEPT !.bufs[p].ref = @ - 1], r.at, s.bufs[p].data), r.at) : r \in create(s, n)}
\* Content that is moved keeps its references.
Moved(s, p, n) ==
    {IF r.at = Dummy THEN r
     ELSE Got([r.st EXCEPT !.bufs[r.at].data = s.bufs[p].data, !.bufs[p] = NoBuffer], r.at) : r \in create(s, n)}

\* Bound: no copy that is too small for the content, see README.
detach(s, p, n) ==
    LET o == s.bufs[p] IN
    CASE p = Dummy -> create(s, n)
      [] p # Dummy /\ o.ref < 2 -> IF n <= o.size THEN {Got(s, p)} ELSE Moved(s, p, n)
      [] p # Dummy /\ o.ref > 1 /\ kind \in Unique /\ o.data # <<>> -> {Got(s, Dummy)}
      [] OTHER -> {r \in Copied(s, p, n) : Len(o.data) <= Alloc(n)}

\* unique_array::reserve also goes on with the buffer it has when there is
\* no other.  Bound: not with one of elements that should have been copied.
reserve(x, n) ==
    LET o == At(Now, box[x])
        kept == o.ref < 2 \/ (kind \in Unique /\ o.data # <<>>)
    IN  {IF r.at = Dummy THEN Now ELSE [r.st EXCEPT !.box[x] = r.at] :
            r \in {q \in detach(Now, box[x], n) : q.at # Dummy \/ kept}}

Inserted(d, pos, e) ==
    IF pos > Len(d) THEN d \o Rep(pos - Len(d), Blank) \o <<e>>
    ELSE SubSeq(d, 1, pos) \o <<e>> \o SubSeq(d, pos + 1, Len(d))
Sized(d, n) == IF n <= Len(d) THEN SubSeq(d, 1, n) ELSE d \o Rep(n - Len(d), Blank)

\* mpt_buffer_insert for one element and content::set_length
Fits(s, x, n) == s.box[x] # Dummy /\ n <= At(s, s.box[x]).size
Taller(i, j) == IF i < j THEN j ELSE i
content_insert(s, x, pos, e) == Store(s, s.box[x], Inserted(Data(s, x), pos, e))
set_length(s, x, n) == Store(s, s.box[x], Sized(Data(s, x), n))

-----------------------------------------------------------------------------
(* What was asked for is kept in "shown".  Containers of unique elements   *)
(* with a common buffer are one container: what one of them does, all do.  *)

With(x) == {y \in Boxes : y = x \/ (kind \in Unique /\ box[y] = box[x] /\ shown[x] # <<>>)}
Become(s) == bufs' = s.bufs /\ box' = s.box /\ held' = s.held /\ UNCHANGED <<kind, view>>
Show(x, d) == shown' = [y \in Boxes |-> IF y \in With(x) THEN d ELSE shown[y]]
Refused == UNCHANGED containers

Template == kind # "bytes"
Position(x, pos) == IF pos < 0 THEN pos + Len0(x) ELSE pos

\* unique_array(len), typed_array(len): without memory as with len < 0.
Construct(x, len) ==
    /\ Template
    /\ \E r \in IF len < 0 THEN {Got(Now, Dummy)} ELSE create(Now, len) :
           Become(set_instance(r.st, x, r.at))
    /\ shown' = [shown EXCEPT ![x] = <<>>]

\* reference::operator=
Assign(x, y) ==
    /\ IF box[x] = box[y] THEN Become(Now)
       ELSE LET s == IF box[y] = Dummy THEN Now ELSE [Now EXCEPT !.bufs[box[y]].ref = @ + 1]
            IN  Become(set_instance(s, x, box[y]))
    /\ shown' = [shown EXCEPT ![x] = shown[y]]

\* unique_array::insert followed by the assignment of the element, typed_array::insert
insert(x, pos, e) ==
    LET p == Position(x, pos)
        n == Taller(p, Len0(x)) + 1
    IN  /\ n <= MaxLen
        /\ IF p < 0 THEN Refused
           ELSE \E s \in reserve(x, n) :
                  IF Fits(s, x, n)
                  THEN Become(content_insert(s, x, p, e)) /\ Show(x, Inserted(shown[x], p, e))
                  ELSE Become(s) /\ UNCHANGED shown

\* unique_array::set for a private buffer
set(x, pos, e) ==
    LET p == Position(x, pos) IN
    IF p \notin 0 .. Len0(x) - 1 THEN Refused
    ELSE \E r \in detach(Now, box[x], Len0(x)) :
           IF r.at = Dummy THEN Refused
           ELSE LET s == [r.st EXCEPT !.box[x] = r.at] IN
                /\ Become(Store(s, r.at, [Data(s, x) EXCEPT ![p + 1] = e]))
                /\ Show(x, [shown[x] EXCEPT ![p + 1] = e])

\* unique_array::get and reference::set_instance, reference_array::set
SetReference(x, pos, o) ==
    LET p == Position(x, pos)
        With1(d) == [d EXCEPT ![p + 1].obj = o]
    IN  IF p \notin 0 .. Len0(x) - 1 THEN Refused
        ELSE Become(Store(Now, box[x], With1(Data(Now, x)))) /\ Show(x, With1(shown[x]))

\* A length below 0 counts from the end of a container that has just given
\* up its buffer: it is always refused.
resize(x, len) ==
    IF len < 0 THEN Refused
    ELSE \E s \in reserve(x, len) :
           IF len = Len(Data(s, x)) \/ Fits(s, x, len)
           THEN /\ IF s.box[x] = Dummy THEN Become(s) ELSE Become(set_length(s, x, len))
                /\ Show(x, Sized(shown[x], len))
           ELSE Become(s) /\ UNCHANGED shown

Elements ==
    CASE kind \in {"typed", "pointer", "reference"} -> {Element(0, o) : o \in Objects \cup {0}}
      [] OTHER -> {Element(k, o) : k \in Keys, o \in Objects \cup {0}}
Positions == -1 .. MaxLen - 1

UniqueArray(x) ==
    /\ Template
    /\ \/ kind # "map" /\ \E pos \in Positions, e \in Elements :
            \/ insert(x, pos, e)
            \/ kind \in Copyable /\ set(x, pos, e)
            \/ kind \in Unique /\ SetReference(x, pos, e.obj)
       \/ kind # "map" /\ \E len \in -1 .. MaxLen : resize(x, len)

-----------------------------------------------------------------------------
(* item_array, reference_array, pointer_array and map. *)

NotNull(e) == e.obj # 0

\* Without memory for its name the item is taken back.
item_append(x, e) ==
    /\ kind = "item" /\ Len0(x) < MaxLen
    /\ \/ insert(x, Len0(x), e)
       \/ \E s \in reserve(x, Len0(x) + 1) : Become(s) /\ UNCHANGED shown

\* Items are moved into the first empty place; what is left is trimmed.
Compacted(d) == SelectSeq(d, NotNull)
item_compact(x) ==
    /\ kind = "item"
    /\ IF \A e \in ToSet(Data(Now, x)) : NotNull(e) THEN Refused
       ELSE Become(Store(Now, box[x], Compacted(Data(Now, x)))) /\ Show(x, Compacted(shown[x]))

Cleared(d, o) == [i \in DOMAIN d |-> IF d[i].obj = o \/ o = 0 THEN Element(d[i].key, 0) ELSE d[i]]
reference_clear(x, o) ==
    /\ kind = "reference"
    /\ IF box[x] = Dummy THEN Refused
       ELSE Become(Store(Now, box[x], Cleared(Data(Now, x), o))) /\ Show(x, Cleared(shown[x], o))

\* The length of the array stays.
Front0(d) == Sized(Compacted(d), Len(d))
reference_compact(x) ==
    /\ kind = "reference"
    /\ IF box[x] = Dummy THEN Refused
       ELSE Become(Store(Now, box[x], Front0(Data(Now, x)))) /\ Show(x, Front0(shown[x]))

\* A shared buffer is left for one with the used pointers.  Bound: there is
\* memory for it, as its address is used in any case.
pointer_compact(x) ==
    /\ kind = "pointer"
    /\ CASE box[x] = Dummy -> Refused
         [] At(Now, box[x]).ref = 1 ->
              Become(set_length(Store(Now, box[x], Front0(Data(Now, x))), x,
                                Len(Compacted(Data(Now, x)))))
              /\ Show(x, Compacted(shown[x]))
         [] OTHER ->
              /\ \E r \in create(Now, Len(Compacted(Data(Now, x)))) :
                    /\ r.at # Dummy
                    /\ Become(set_instance(Store(r.st, r.at, Compacted(Data(Now, x))), x, r.at))
              /\ Show(x, Compacted(shown[x]))

\* map::append, and map::set for a key that is new: the entry of one that is
\* known is looked for behind the last one (README), such calls are left out.
map_append(x, e) ==
    /\ kind = "map" /\ Len0(x) < MaxLen
    /\ insert(x, Len0(x), e)

-----------------------------------------------------------------------------
(* Byte arrays; the second box is a slice of one, view its place and length. *)

Byte(k) == Element(k, 0)
Array(x) == x # CHOOSE m \in Boxes : \A n \in Boxes : n <= m
Shared(x) == At(Now, box[x]).ref > 1
Part(d, v) == SubSeq(d, v.off + 1, v.off + v.len)
Bytes(s, v) == bufs' = s.bufs /\ box' = s.box /\ view' = v /\ UNCHANGED <<kind, held>>

\* array::set: a private buffer with room is used again.
array_set(x, d) ==
    /\ Array(x)
    /\ IF ~Shared(x) /\ Fits(Now, x, Len(d))
       THEN Bytes(Store(Now, box[x], d), view) /\ shown' = [shown EXCEPT ![x] = d]
       ELSE \E r \in create(Now, Len(d)) :
              IF r.at = Dummy THEN Refused
              ELSE /\ Bytes(set_instance(Store(r.st, r.at, d), x, r.at), view)
                   /\ shown' = [shown EXCEPT ![x] = d]

\* array::prepend.  Bound: into a private buffer that has room, the data is
\* lost otherwise; array::insert at another place writes behind it (README).
prepend(x, d) ==
    /\ Array(x) /\ ~Shared(x) /\ Fits(Now, x, Len(d) + Len0(x))
    /\ Bytes(Store(Now, box[x], d \o Data(Now, x)), view)
    /\ shown' = [shown EXCEPT ![x] = d \o @]

\* content::set_length of a private buffer
array_set_length(x, n) ==
    /\ Array(x) /\ ~Shared(x)
    /\ IF Fits(Now, x, n)
       THEN Bytes(set_length(Now, x, n), view) /\ shown' = [shown EXCEPT ![x] = Sized(@, n)]
       ELSE Refused

\* slice(array) shows all of it, operator=(slice) copies what is shown.
slice_array(x, y) ==
    /\ ~Array(x) /\ Array(y) /\ shown' = [shown EXCEPT ![x] = shown[y]]
    /\ LET s == IF box[x] = box[y] \/ box[y] = Dummy THEN Now
                ELSE [Now EXCEPT !.bufs[box[y]].ref = @ + 1]
       IN  Bytes(IF box[x] = box[y] THEN s ELSE set_instance(s, x, box[y]),
                 [off |-> 0, len |-> Len0(y)])
copy_slice(x, y) == Array(x) /\ ~Array(y) /\ array_set(x, Part(Data(Now, y), view))

\* Data in front of a slice can be shown again.
shift(x, n) ==
    /\ ~Array(x)
    /\ IF (n < 0 /\ -n > view.off) \/ (n >= 0 /\ n > view.len) THEN Refused
       ELSE LET v == [off |-> view.off + n, len |-> view.len - n] IN
            Bytes(Now, v) /\ shown' = [shown EXCEPT ![x] = Part(Data(Now, x), v)]

\* A slice may grow up to the end of the used data.
trim(x, n) ==
    /\ ~Array(x)
    /\ IF (n < 0 /\ Len0(x) < view.off + view.len - n) \/ (n >= 0 /\ n > view.len) THEN Refused
       ELSE LET v == [view EXCEPT !.len = @ - n] IN
            Bytes(Now, v) /\ shown' = [shown EXCEPT ![x] = Part(Data(Now, x), v)]

Strings == UNION {[1 .. n -> {Byte(k) : k \in Keys \cup {0}}] : n \in 0 .. MaxLen}

ByteArray(x) ==
    /\ kind = "bytes"
    /\ \/ \E d \in Strings : array_set(x, d) \/ prepend(x, d)
       \/ \E n \in 0 .. MaxLen : array_set_length(x, n)
       \/ \E y \in Boxes : slice_array(x, y) \/ copy_slice(x, y)
       \/ \E n \in -MaxLen .. MaxLen : shift(x, n) \/ trim(x, n)

-----------------------------------------------------------------------------
ContainersInit ==
    /\ kind \in Copyable \cup Unique
    /\ bufs = [p \in Places |-> NoBuffer]
    /\ box = [x \in Boxes |-> Dummy]
    /\ held = [o \in Objects |-> 0]
    /\ shown = [x \in Boxes |-> <<>>]
    /\ view = [off |-> 0, len |-> 0]

ContainersNext ==
    \E x \in Boxes :
        \/ \E len \in {-1, 0, 2} : Construct(x, len)
        \/ Template /\ \E y \in Boxes : Assign(x, y)
        \/ UniqueArray(x) \/ ByteArray(x)
        \/ \E e \in Elements : item_append(x, e) \/ map_append(x, e)
        \/ item_compact(x) \/ reference_compact(x) \/ pointer_compact(x)
        \/ \E o \in Objects \cup {0} : reference_clear(x, o)

-----------------------------------------------------------------------------
Shows(x) == IF kind = "bytes" /\ ~Array(x) THEN Part(Data(Now, x), view) ELSE Data(Now, x)
Stored(o) == Cardinality({c \in Places \X (1 .. MaxLen) :
                             c[2] <= Len(bufs[c[1]].data) /\ bufs[c[1]].data[c[2]].obj = o})

(* Containers show what was stored in them, whatever is done with others   *)
(* on the same buffer (unique_array::insert, set, resize, array::set); a   *)
(* slice keeps its bytes (slice::shift, trim); an object is referred to as *)
(* often as it is stored (item_array, reference_array), and a buffer as    *)
(* often as it is used.                                                    *)
ContainersHold ==
    /\ \A x \in Boxes : Shows(x) = shown[x]
    /\ \A o \in Objects : Counting => held[o] = Stored(o)
    /\ \A p \in Places : bufs[p].ref = Cardinality({x \in Boxes : box[x] = p})
    /\ kind = "bytes" => \A x \in Boxes : ~Array(x) => view.off + view.len <= Len0(x)
=============================================================================
