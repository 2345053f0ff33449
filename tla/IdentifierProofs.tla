-------------------------- MODULE IdentifierProofs ---------------------------
(***************************************************************************)
(* Proofs about identifiers: each one shows what it was last given, and    *)
(* every block of memory belongs to one of them.                           *)
(***************************************************************************)
EXTENDS Identifier, SequenceTheorems, Least

-----------------------------------------------------------------------------
(* Sequences of cells.                                                     *)

\* Zeros are as many as asked for.
LEMMA ZerosCells ==
    ASSUME NEW n \in Nat
    PROVE  /\ Zeros(n) \in Seq(Nat) /\ Len(Zeros(n)) = n
           /\ \A k \in 1..n : Zeros(n)[k] = 0
  <1>1. Zeros(n) \in [1..n -> Nat]
    BY DEF Zeros
  <1>2. Zeros(n) \in Seq(Nat)
    BY <1>1, SeqDef, Zenon
  <1> QED
    BY <1>1, <1>2 DEF Zeros

\* The front of a sequence is as long as asked for.
LEMMA FirstCells ==
    ASSUME NEW s \in Seq(Nat), NEW n \in 0..Len(s)
    PROVE  /\ Leading(s, n) \in Seq(Nat) /\ Len(Leading(s, n)) = n
           /\ \A k \in 1..n : Leading(s, n)[k] = s[k]
  <1>1. \A k \in 1..n : s[k] \in Nat
    BY ElementOfSeq
  <1>2. n \in Int /\ 1 \in Int
    BY LenProperties
  <1>3. SubSeq(s, 1, n) \in Seq(Nat) /\ Len(SubSeq(s, 1, n)) = (IF 1 <= n THEN n - 1 + 1 ELSE 0)
        /\ \A k \in 1..n - 1 + 1 : SubSeq(s, 1, n)[k] = s[1 + k - 1]
    BY <1>1, <1>2, SubSeqProperties
  <1> DEFINE f == SubSeq(s, 1, n)
  <1> HIDE DEF f
  <1>4. f \in Seq(Nat) /\ Len(f) = n /\ \A k \in 1..n : f[k] = s[k]
    <2>1. n - 1 + 1 = n /\ \A k \in 1..n : 1 + k - 1 = k
      BY <1>2
    <2> QED
      BY <1>2, <1>3, <2>1, LenProperties DEF f
  <1> QED
    BY <1>4 DEF f, Leading

\* Zeros behind a text fill the cells.
LEMMA PaddedCells ==
    ASSUME NEW s \in Seq(Nat), NEW n \in Nat, Len(s) <= n
    PROVE  /\ s \o Zeros(n - Len(s)) \in Seq(Nat)
           /\ Len(s \o Zeros(n - Len(s))) = n
           /\ \A k \in 1..Len(s) : (s \o Zeros(n - Len(s)))[k] = s[k]
           /\ \A k \in Len(s) + 1..n : (s \o Zeros(n - Len(s)))[k] = 0
  <1> DEFINE z == Zeros(n - Len(s))
             t == s \o z
  <1>1. Len(s) \in Nat
    BY LenProperties
  <1>2. z \in Seq(Nat) /\ Len(z) = n - Len(s) /\ \A k \in 1..n - Len(s) : z[k] = 0
    BY <1>1, ZerosCells
  <1> HIDE DEF z
  <1>3. t \in Seq(Nat) /\ Len(t) = Len(s) + Len(z)
        /\ \A k \in 1..Len(s) + Len(z) : t[k] = IF k <= Len(s) THEN s[k] ELSE z[k - Len(s)]
    BY <1>2, ConcatProperties
  <1> HIDE DEF t
  <1>4. t \in Seq(Nat) /\ Len(t) = n /\ (\A k \in 1..Len(s) : t[k] = s[k])
        /\ \A k \in Len(s) + 1..n : t[k] = 0
    <2>1. t \in Seq(Nat) /\ Len(t) = n /\ \A k \in 1..Len(s) : t[k] = s[k]
      BY <1>1, <1>2, <1>3
    <2>2. ASSUME NEW k \in Len(s) + 1..n PROVE t[k] = 0
      <3>1. k \in 1..Len(s) + Len(z) /\ ~(k <= Len(s)) /\ k - Len(s) \in 1..n - Len(s)
        BY <1>1, <1>2
      <3> QED
        BY <1>2, <1>3, <3>1
    <2> QED
      BY <2>1, <2>2
  <1> QED
    BY <1>4 DEF t, z

\* Cells that begin with a sequence have it as their front.
LEMMA SameFront ==
    ASSUME NEW s \in Seq(Nat), NEW c \in Seq(Nat), Len(s) <= Len(c),
           \A k \in 1..Len(s) : c[k] = s[k]
    PROVE  Leading(c, Len(s)) = s
  <1>1. Len(s) \in 0..Len(c)
    BY LenProperties
  <1> DEFINE f == Leading(c, Len(s))
  <1>2. f \in Seq(Nat) /\ Len(f) = Len(s) /\ \A k \in 1..Len(s) : f[k] = c[k]
    BY <1>1, FirstCells
  <1> HIDE DEF f
  <1>3. f = s
    BY <1>2, SeqEqual
  <1> QED
    BY <1>3 DEF f

\* A name and the zero behind it.
LEMMA Terminated ==
    ASSUME NEW s \in Seq(Nat)
    PROVE  /\ Append(s, 0) \in Seq(Nat) /\ Len(Append(s, 0)) = Len(s) + 1
           /\ \A k \in 1..Len(s) : Append(s, 0)[k] = s[k]
           /\ Append(s, 0)[Len(s) + 1] = 0
  <1>1. 0 \in Nat
    OBVIOUS
  <1> QED
    BY <1>1, AppendProperties

-----------------------------------------------------------------------------
(* What an identifier and an operation on it promise.                      *)

Charsets == {0, UTF8}
Records == [len : Nat, charset : Charsets, max : Nat, cells : Seq(Nat)]
Values == [charset : Charsets, data : Seq(Nat)]

\* The block that belongs to an identifier.
Own(id) == IF Long(id) THEN {Base(id)} ELSE {}

\* Text ends with a zero.
Ended(v) == v.charset = UTF8 => v.data # <<>> /\ v.data[Len(v.data)] = 0

Shows(id, v, blk) ==
    /\ id \in Records /\ Len(id.cells) = id.max /\ ValSize < id.max
    /\ v \in Values /\ Ended(v)
    /\ id.charset = v.charset /\ id.len = Len(v.data)
    /\ mpt_identifier_data(id, blk) = v.data
    /\ Own(id) \subseteq DOMAIN blk

\* An operation gives the identifier a new value and frees the old block, or
\* leaves everything as it was.
Effect(id, blk, r, v) ==
    /\ r.outcome \in {"done", "failed"}
    /\ r.outcome = "failed" => r.id = id /\ r.blocks = blk
    /\ r.outcome = "done" =>
          /\ Shows(r.id, v, r.blocks)
          /\ Own(r.id) \cap DOMAIN blk = {} /\ Own(r.id) \subseteq Addresses
          /\ DOMAIN r.blocks = (DOMAIN blk \ Own(id)) \cup Own(r.id)
          /\ \A a \in DOMAIN blk \ Own(id) : r.blocks[a] = blk[a]

\* The old block is freed once the new content is in place.
LEMMA FreedEffect ==
    ASSUME IdentConstants,
           NEW id, NEW new, NEW v, NEW blk, NEW more,
           DOMAIN blk \subseteq Addresses, Own(id) \subseteq DOMAIN blk,
           Own(new) \cap DOMAIN blk = {}, Own(new) \subseteq Addresses,
           DOMAIN more = DOMAIN blk \cup Own(new),
           \A a \in DOMAIN blk : more[a] = blk[a],
           Shows(new, v, more)
    PROVE  Effect(id, blk, Freed(new, more, IF Long(id) THEN Base(id) ELSE 0), v)
  <1>1. CASE ~Long(id)
    <2>1. Own(id) = {}
      BY <1>1 DEF Own
    <2>2. Freed(new, more, 0) = Result(new, more, "done")
      BY DEF Freed
    <2> QED
      BY <1>1, <2>1, <2>2 DEF Effect, Result
  <1>2. CASE Long(id)
    <2> DEFINE b == Base(id)
               rest == Without(more, b)
    <2>1. b \in DOMAIN blk /\ b # 0 /\ Own(id) = {b} /\ b \notin Own(new) /\ b \in DOMAIN more
      BY <1>2 DEF Own, IdentConstants
    <2>2. Freed(new, more, b) = Result(new, rest, "done")
      BY <2>1 DEF Freed
    <2>3. DOMAIN rest = DOMAIN more \ {b} /\ \A a \in DOMAIN more \ {b} : rest[a] = more[a]
      BY DEF Without
    <2> HIDE DEF rest
    <2>4. mpt_identifier_data(new, rest) = mpt_identifier_data(new, more)
      <3>1. CASE Long(new)
        <4>1. Base(new) \in DOMAIN more /\ Base(new) # b
          BY <2>1, <3>1 DEF Shows, Own
        <4> QED
          BY <2>3, <3>1, <4>1 DEF mpt_identifier_data
      <3>2. CASE ~Long(new)
        BY <3>2 DEF mpt_identifier_data
      <3> QED
        BY <3>1, <3>2
    <2>5. Shows(new, v, rest)
      BY <2>1, <2>3, <2>4 DEF Shows
    <2>6. DOMAIN rest = (DOMAIN blk \ Own(id)) \cup Own(new)
      BY <2>1, <2>3
    <2>7. \A a \in DOMAIN blk \ Own(id) : rest[a] = blk[a]
      BY <2>1, <2>3
    <2> HIDE DEF b
    <2>8. Freed(new, more, IF Long(id) THEN Base(id) ELSE 0) = Result(new, rest, "done")
      BY <1>2, <2>2 DEF b
    <2> QED
      BY <2>5, <2>6, <2>7, <2>8 DEF Effect, Result
  <1> QED
    BY <1>1, <1>2

\* An allocated block holds the new content.
LEMMA WithBlock ==
    ASSUME NEW blk, NEW addr, addr \notin DOMAIN blk, NEW s
    PROVE  /\ DOMAIN With(blk, addr, s) = DOMAIN blk \cup {addr}
           /\ With(blk, addr, s)[addr] = s
           /\ \A a \in DOMAIN blk : With(blk, addr, s)[a] = blk[a]
  BY DEF With

\* Cells of an identifier with the address of a block.
LEMMA BaseCell ==
    ASSUME NEW c \in Seq(Nat), NEW n \in Nat, n < Len(c), NEW addr \in Nat
    PROVE  /\ [c EXCEPT ![n + 1] = addr] \in Seq(Nat)
           /\ Len([c EXCEPT ![n + 1] = addr]) = Len(c)
           /\ [c EXCEPT ![n + 1] = addr][n + 1] = addr
           /\ \A k \in 1..n : [c EXCEPT ![n + 1] = addr][k] = c[k]
  <1>1. n + 1 \in 1..Len(c) /\ \A k \in 1..n : k \in 1..Len(c) /\ k # n + 1
    BY LenProperties
  <1> QED
    BY <1>1, ExceptSeq

\* An identifier that refers to a new block shows its content.
LEMMA LongShows ==
    ASSUME IdentConstants, NEW id \in Records, NEW v \in Values, Ended(v), NEW blk,
           Len(id.cells) = id.max, ValSize < id.max, Len(v.data) > id.max,
           NEW addr \in Addresses, addr \notin DOMAIN blk
    PROVE  LET new == [WithBase(id, addr) EXCEPT !.len = Len(v.data), !.charset = v.charset] IN
           Own(new) = {addr} /\ Shows(new, v, With(blk, addr, v.data))
  <1> DEFINE c == [id.cells EXCEPT ![ValSize + 1] = addr]
             new == [WithBase(id, addr) EXCEPT !.len = Len(v.data), !.charset = v.charset]
             more == With(blk, addr, v.data)
  <1>1. ValSize \in Nat /\ addr \in Nat /\ id.cells \in Seq(Nat)
    BY DEF IdentConstants, Records
  <1>2. c \in Seq(Nat) /\ Len(c) = Len(id.cells) /\ c[ValSize + 1] = addr
    BY <1>1, BaseCell
  <1>3. v.data \in Seq(Nat) /\ v.charset \in Charsets /\ Len(v.data) \in Nat
    BY LenProperties DEF Values
  <1>4. new = [len |-> Len(v.data), charset |-> v.charset, max |-> id.max, cells |-> c]
    <2>1. id = [len |-> id.len, charset |-> id.charset, max |-> id.max, cells |-> id.cells]
      BY DEF Records
    <2>2. WithBase(id, addr) = [len |-> id.len, charset |-> id.charset, max |-> id.max,
                                cells |-> c]
      BY <2>1 DEF WithBase
    <2> DEFINE w == WithBase(id, addr)
               n == Len(v.data)
    <2> HIDE DEF c, w, n
    <2>3. w = [len |-> id.len, charset |-> id.charset, max |-> id.max, cells |-> c]
      BY <2>2 DEF w
    <2> DEFINE m == [w EXCEPT !.len = n]
    <2>4. m = [len |-> n, charset |-> id.charset, max |-> id.max, cells |-> c]
      BY ONLY <2>3
    <2> HIDE DEF m
    <2>5. [m EXCEPT !.charset = v.charset]
            = [len |-> n, charset |-> v.charset, max |-> id.max, cells |-> c]
      BY ONLY <2>4
    <2> QED
      BY <2>5 DEF w, n, m
  <1>5. DOMAIN more = DOMAIN blk \cup {addr} /\ more[addr] = v.data
    BY WithBlock
  <1> HIDE DEF c, new, more
  <1>6. new \in Records
    BY <1>2, <1>3, <1>4 DEF Records
  <1>7. Long(new) /\ Base(new) = addr
    BY <1>2, <1>4 DEF Long, Base
  <1>8. mpt_identifier_data(new, more) = v.data
    BY <1>5, <1>7 DEF mpt_identifier_data
  <1>9. Own(new) = {addr}
    BY <1>7 DEF Own
  <1> HIDE DEF Ended
  <1>10. new.len = Len(v.data) /\ new.charset = v.charset /\ new.max = id.max /\ new.cells = c
    BY <1>4
  <1>11. Shows(new, v, more)
    BY <1>2, <1>5, <1>6, <1>8, <1>9, <1>10 DEF Shows
  <1> QED
    BY <1>9, <1>11 DEF new, more

\* Another sequence in front of the cells.
LEMMA ReplacedCells ==
    ASSUME NEW s \in Seq(Nat), NEW c \in Seq(Nat), Len(s) <= Len(c)
    PROVE  LET t == s \o SubSeq(c, Len(s) + 1, Len(c)) IN
           t \in Seq(Nat) /\ Len(t) = Len(c) /\ \A k \in 1..Len(s) : t[k] = s[k]
  <1> DEFINE r == SubSeq(c, Len(s) + 1, Len(c))
             t == s \o r
  <1>1. Len(s) \in Nat /\ Len(c) \in Nat /\ Len(s) + 1 \in Int /\ Len(c) \in Int
    BY LenProperties
  <1>2. \A k \in Len(s) + 1..Len(c) : c[k] \in Nat
    BY <1>1, ElementOfSeq
  <1>3. r \in Seq(Nat)
        /\ Len(r) = IF Len(s) + 1 <= Len(c) THEN Len(c) - (Len(s) + 1) + 1 ELSE 0
    BY <1>1, <1>2, SubSeqProperties
  <1> HIDE DEF r
  <1>4. Len(r) = Len(c) - Len(s)
    BY <1>1, <1>3
  <1>5. t \in Seq(Nat) /\ Len(t) = Len(s) + Len(r)
        /\ \A k \in 1..Len(s) + Len(r) : t[k] = IF k <= Len(s) THEN s[k] ELSE r[k - Len(s)]
    BY <1>3, ConcatProperties
  <1> HIDE DEF t
  <1>6. t \in Seq(Nat) /\ Len(t) = Len(c) /\ \A k \in 1..Len(s) : t[k] = s[k]
    <2>1. Len(s) + Len(r) = Len(c)
      BY <1>1, <1>4
    <2>2. \A k \in 1..Len(s) : k \in 1..Len(s) + Len(r) /\ k <= Len(s)
      BY <1>1, <2>1
    <2> QED
      BY <1>5, <2>1, <2>2
  <1> QED
    BY <1>6 DEF t, r

\* An identifier shows what its first cells are.
LEMMA InlineShows ==
    ASSUME NEW new \in Records, NEW v \in Values, Ended(v), NEW blk,
           Len(new.cells) = new.max, ValSize < new.max, Len(v.data) <= new.max,
           new.len = Len(v.data), new.charset = v.charset,
           \A k \in 1..Len(v.data) : new.cells[k] = v.data[k]
    PROVE  Own(new) = {} /\ Shows(new, v, blk)
  <1>1. v.data \in Seq(Nat) /\ new.cells \in Seq(Nat) /\ Len(v.data) \in Nat /\ new.max \in Nat
    BY LenProperties DEF Values, Records
  <1>2. ~Long(new)
    BY <1>1 DEF Long
  <1>3. Leading(new.cells, Len(v.data)) = v.data
    BY <1>1, SameFront
  <1>4. mpt_identifier_data(new, blk) = v.data
    BY <1>2, <1>3 DEF mpt_identifier_data
  <1>5. Own(new) = {}
    BY <1>2 DEF Own
  <1> QED
    BY <1>4, <1>5 DEF Shows

\* Content in the identifier needs no block.
LEMMA InlineEffect ==
    ASSUME IdentConstants, NEW id, NEW old, NEW v, NEW blk, NEW new,
           Shows(id, old, blk), DOMAIN blk \subseteq Addresses,
           Own(new) = {}, Shows(new, v, blk)
    PROVE  Effect(id, blk, Freed(new, blk, IF Long(id) THEN Base(id) ELSE 0), v)
  <1>1. Own(id) \subseteq DOMAIN blk
    BY DEF Shows
  <1> QED
    BY <1>1, FreedEffect

\* mpt_identifier_set for content that fits.
LEMMA SetInlineEffect ==
    ASSUME IdentConstants, NEW id, NEW old, NEW blk, Shows(id, old, blk),
           DOMAIN blk \subseteq Addresses,
           NEW v \in Values, Ended(v), NEW text \in Seq(Nat),
           Len(text) <= Len(v.data), Len(v.data) <= id.max,
           \A k \in 1..Len(text) : text[k] = v.data[k],
           \A k \in Len(text) + 1..Len(v.data) : v.data[k] = 0
    PROVE  Effect(id, blk, SetInline(id, blk, text, v.data, v.charset), v)
  <1> DEFINE c == text \o Zeros(id.max - Len(text))
             new == [id EXCEPT !.cells = c, !.len = Len(v.data), !.charset = v.charset]
  <1>1. id \in Records /\ id.max \in Nat /\ ValSize < id.max
    BY DEF Shows, Records
  <1>2. Len(text) \in Nat /\ Len(v.data) \in Nat /\ v.charset \in Charsets
    BY LenProperties DEF Values
  <1>3. /\ c \in Seq(Nat) /\ Len(c) = id.max
        /\ \A k \in 1..Len(text) : c[k] = text[k]
        /\ \A k \in Len(text) + 1..id.max : c[k] = 0
    <2>1. Len(text) <= id.max
      BY <1>1, <1>2
    <2> HIDE DEF new
    <2> QED
      BY <1>1, <2>1, PaddedCells
  <1> HIDE DEF c
  <1>4. new \in Records
    BY <1>1, <1>2, <1>3 DEF Records
  <1>5. new.cells = c /\ new.len = Len(v.data) /\ new.charset = v.charset /\ new.max = id.max
    BY <1>1 DEF Records
  <1> HIDE DEF new
  <1>6. \A k \in 1..Len(v.data) : new.cells[k] = v.data[k]
    <2> SUFFICES ASSUME NEW k \in 1..Len(v.data) PROVE c[k] = v.data[k]
      BY <1>5
    <2>1. CASE k <= Len(text)
      BY <1>2, <1>3, <2>1
    <2>2. CASE k > Len(text)
      <3>1. k \in Len(text) + 1..Len(v.data) /\ k \in Len(text) + 1..id.max
        BY <1>1, <1>2, <2>2
      <3> QED
        BY <1>3, <3>1
    <2> QED
      BY <1>2, <2>1, <2>2
  <1>7. Own(new) = {} /\ Shows(new, v, blk)
    BY <1>1, <1>3, <1>4, <1>5, <1>6, InlineShows
  <1> HIDE DEF Shows, Ended
  <1>8. Effect(id, blk, Freed(new, blk, IF Long(id) THEN Base(id) ELSE 0), v)
    BY <1>7, InlineEffect
  <1> QED
    BY <1>8 DEF SetInline, new, c

\* mpt_identifier_set for content that needs a block.
LEMMA SetLongEffect ==
    ASSUME IdentConstants, NEW id, NEW old, NEW blk, Shows(id, old, blk),
           DOMAIN blk \subseteq Addresses,
           NEW v \in Values, Ended(v), Len(v.data) > id.max,
           NEW addr \in Addresses, addr \notin DOMAIN blk
    PROVE  Effect(id, blk, SetLong(id, blk, v.data, v.charset, addr), v)
  <1> DEFINE z == [id EXCEPT !.cells = Zeros(id.max)]
             new == [WithBase(z, addr) EXCEPT !.len = Len(v.data), !.charset = v.charset]
             more == With(blk, addr, v.data)
  <1>1. id \in Records /\ id.max \in Nat /\ ValSize < id.max /\ Own(id) \subseteq DOMAIN blk
    BY DEF Shows, Records
  <1>2. Zeros(id.max) \in Seq(Nat) /\ Len(Zeros(id.max)) = id.max
    BY <1>1, ZerosCells
  <1>3. z \in Records /\ z.cells = Zeros(id.max) /\ z.max = id.max
    BY <1>1, <1>2 DEF Records
  <1> HIDE DEF z, Ended, Shows
  <1>4. Own(new) = {addr} /\ Shows(new, v, more)
    BY <1>1, <1>2, <1>3, LongShows
  <1> HIDE DEF new
  <1>5. DOMAIN more = DOMAIN blk \cup {addr} /\ \A a \in DOMAIN blk : more[a] = blk[a]
    BY DEF With
  <1> HIDE DEF more
  <1>6. Effect(id, blk, Freed(new, more, IF Long(id) THEN Base(id) ELSE 0), v)
    BY <1>1, <1>4, <1>5, FreedEffect
  <1> QED
    BY <1>6 DEF SetLong, new, more, z

\* mpt_identifier_set with a name.
LEMMA NameEffect ==
    ASSUME IdentConstants, NEW id, NEW old, NEW blk, Shows(id, old, blk),
           DOMAIN blk \subseteq Addresses,
           NEW name \in IdentNames, NEW alloc \in {0} \cup (Addresses \ DOMAIN blk)
    PROVE  Effect(id, blk, mpt_identifier_set(id, blk, name, alloc),
                  Value(UTF8, Append(name, 0)))
  <1> DEFINE s == Append(name, 0)
             v == Value(UTF8, s)
             r == mpt_identifier_set(id, blk, name, alloc)
  <1>1. name \in Seq(Nat) /\ LenMax \in Nat
    BY DEF IdentConstants
  <1>2. /\ s \in Seq(Nat) /\ Len(s) = Len(name) + 1
        /\ \A k \in 1..Len(name) : s[k] = name[k]
        /\ s[Len(name) + 1] = 0
    BY <1>1, Terminated
  <1>3. Len(name) \in Nat /\ Len(s) \in Nat /\ id.max \in Nat
    BY <1>1, <1>2, LenProperties DEF Shows, Records
  <1> HIDE DEF s
  <1>4. v \in Values /\ Ended(v) /\ v.data = s /\ v.charset = UTF8
    <2>1. s # <<>>
      BY <1>2, <1>3, EmptySeq
    <2> QED
      BY <1>2, <1>3, <2>1 DEF Value, Values, Charsets, Ended
  <1> HIDE DEF v
  <1>5. CASE Len(s) > LenMax
    <2>1. r = Result(id, blk, "failed")
      BY <1>5 DEF mpt_identifier_set, s
    <2> QED
      BY <2>1 DEF Effect, Result, s, v
  <1>6. CASE Len(s) <= LenMax /\ Len(s) <= id.max
    <2>1. r = SetInline(id, blk, name, s, UTF8)
      BY <1>1, <1>3, <1>6 DEF mpt_identifier_set, s
    <2>2. \A k \in Len(name) + 1..Len(s) : s[k] = 0
      BY <1>2, <1>3
    <2>3. Effect(id, blk, SetInline(id, blk, name, s, UTF8), v)
      BY <1>1, <1>2, <1>3, <1>4, <1>6, <2>2, SetInlineEffect, SMTT(60)
    <2> QED
      BY <2>1, <2>3 DEF s, v
  <1>7. CASE Len(s) <= LenMax /\ Len(s) > id.max /\ alloc = 0
    <2>1. r = Result(id, blk, "failed")
      BY <1>1, <1>3, <1>7 DEF mpt_identifier_set, s
    <2> QED
      BY <2>1 DEF Effect, Result, s, v
  <1>8. CASE Len(s) <= LenMax /\ Len(s) > id.max /\ alloc # 0
    <2>1. r = SetLong(id, blk, s, UTF8, alloc)
      BY <1>1, <1>3, <1>8 DEF mpt_identifier_set, s
    <2>2. Effect(id, blk, SetLong(id, blk, s, UTF8, alloc), v)
      BY <1>4, <1>8, SetLongEffect
    <2> QED
      BY <2>1, <2>2 DEF s, v
  <1> QED
    BY <1>1, <1>3, <1>5, <1>6, <1>7, <1>8

\* Zeros as content.
LEMMA ZerosValue ==
    ASSUME NEW n \in Nat
    PROVE  /\ Value(0, Zeros(n)) \in Values /\ Ended(Value(0, Zeros(n)))
           /\ Value(0, Zeros(n)).data = Zeros(n) /\ Value(0, Zeros(n)).charset = 0
  BY ZerosCells DEF Value, Values, Charsets, Ended, UTF8

\* mpt_identifier_set without a name.
LEMMA DataEffect ==
    ASSUME IdentConstants, NEW id, NEW old, NEW blk, Shows(id, old, blk),
           DOMAIN blk \subseteq Addresses,
           NEW len \in Nat, ~FromNull(id, len),
           NEW alloc \in {0} \cup (Addresses \ DOMAIN blk)
    PROVE  Effect(id, blk, SetEmpty(id, blk, len, alloc), Value(0, Zeros(len)))
  <1> DEFINE s == Zeros(len)
             v == Value(0, s)
             r == SetEmpty(id, blk, len, alloc)
  <1>1. s \in Seq(Nat) /\ Len(s) = len /\ LenMax \in Nat /\ id.max \in Nat
    BY ZerosCells DEF Shows, Records, IdentConstants
  <1>2. v \in Values /\ Ended(v) /\ v.data = s /\ v.charset = 0
    BY ZerosValue
  <1> HIDE DEF s, v
  <1>3. CASE len > LenMax \/ (len > id.max /\ alloc = 0)
    <2>1. r = Result(id, blk, "failed")
      BY <1>3 DEF SetEmpty
    <2> QED
      BY <2>1 DEF Effect, Result, s, v
  <1>4. CASE len <= LenMax /\ len > id.max /\ alloc # 0
    <2>1. r = SetLong(id, blk, s, 0, alloc)
      BY <1>1, <1>4 DEF SetEmpty, s
    <2>2. Effect(id, blk, SetLong(id, blk, s, 0, alloc), v)
      BY <1>1, <1>2, <1>4, SetLongEffect
    <2> QED
      BY <2>1, <2>2 DEF s, v
  <1>5. CASE len <= LenMax /\ len <= id.max /\ len > 0
    BY <1>1, <1>5 DEF FromNull
  <1>6. CASE len <= LenMax /\ len = 0
    <2>1. s = <<>>
      BY <1>1, <1>6, EmptySeq
    <2>2. r = SetInline(id, blk, s, s, 0)
      BY <1>1, <1>6, <2>1 DEF SetEmpty, FromNull
    <2>3. Effect(id, blk, SetInline(id, blk, s, s, 0), v)
      <3>1. Len(s) <= id.max /\ \A k \in Len(s) + 1..Len(s) : s[k] = 0
        BY <1>1, <1>6
      <3> QED
        BY <1>1, <1>2, <3>1, SetInlineEffect
    <2> QED
      BY <2>2, <2>3 DEF s, v
  <1> QED
    BY <1>1, <1>3, <1>4, <1>5, <1>6

\* Another sequence in front of an identifier.
LEMMA PutRecord ==
    ASSUME NEW id \in Records, Len(id.cells) = id.max,
           NEW s \in Seq(Nat), Len(s) <= id.max
    PROVE  /\ Put(id, s) \in Records /\ Put(id, s).max = id.max
           /\ Len(Put(id, s).cells) = id.max
           /\ \A k \in 1..Len(s) : Put(id, s).cells[k] = s[k]
  <1> DEFINE t == s \o SubSeq(id.cells, Len(s) + 1, Len(id.cells))
  <1>1. id.cells \in Seq(Nat)
    BY DEF Records
  <1>2. t \in Seq(Nat) /\ Len(t) = id.max /\ \A k \in 1..Len(s) : t[k] = s[k]
    BY <1>1, ReplacedCells
  <1>3. Put(id, s) = [id EXCEPT !.cells = t]
    BY DEF Put
  <1> HIDE DEF t
  <1> QED
    BY <1>2, <1>3 DEF Records

\* The record that mpt_identifier_copy leaves without a block.
Labelled(id, v) == [id EXCEPT !.len = Len(v.data), !.charset = v.charset]

\* It is an identifier, with the same space.
LEMMA LabelledRecord ==
    ASSUME NEW id \in Records, NEW v \in Values
    PROVE  /\ Labelled(id, v) \in Records
           /\ Labelled(id, v).len = Len(v.data) /\ Labelled(id, v).charset = v.charset
           /\ Labelled(id, v).cells = id.cells /\ Labelled(id, v).max = id.max
  <1>1. Len(v.data) \in Nat /\ v.charset \in Charsets
    BY LenProperties DEF Values
  <1> QED
    BY <1>1 DEF Labelled, Records

\* mpt_identifier_copy of content that fits.
LEMMA CopyInlineEffect ==
    ASSUME IdentConstants, NEW id, NEW old, NEW blk, Shows(id, old, blk),
           DOMAIN blk \subseteq Addresses,
           NEW from, NEW v, Shows(from, v, blk), from.len <= id.max, ~OverBlock(id, from)
    PROVE  Effect(id, blk, CopyInline(id, blk, from), v)
  <1> DEFINE p == Put(id, v.data)
             new == Labelled(p, v)
             c == [new.cells EXCEPT ![ValSize + 1] = 0]
             clear == WithBase(new, 0)
  <1>1. /\ id \in Records /\ Len(id.cells) = id.max /\ ValSize < id.max /\ id.max \in Nat
        /\ v \in Values /\ Ended(v) /\ from.len = Len(v.data) /\ from.charset = v.charset
        /\ mpt_identifier_data(from, blk) = v.data /\ Own(id) \subseteq DOMAIN blk
        /\ ValSize \in Nat
    BY DEF Shows, Records, IdentConstants
  <1>2. v.data \in Seq(Nat) /\ Len(v.data) \in Nat
    BY <1>1, LenProperties DEF Values
  <1>3. p \in Records /\ p.max = id.max /\ Len(p.cells) = id.max
        /\ \A k \in 1..Len(v.data) : p.cells[k] = v.data[k]
    BY <1>1, <1>2, PutRecord
  <1> HIDE DEF p
  <1>4. new \in Records /\ new.len = Len(v.data) /\ new.charset = v.charset
        /\ new.cells = p.cells /\ new.max = p.max
    BY <1>1, <1>3, LabelledRecord
  <1>5. [Put(id, mpt_identifier_data(from, blk))
         EXCEPT !.len = from.len, !.charset = from.charset] = new
    BY <1>1 DEF Labelled, p
  <1> HIDE DEF new, Ended, Shows
  <1>6. CASE ~Long(id)
    <2>1. CopyInline(id, blk, from) = Result(new, blk, "done") /\ Own(id) = {}
      BY <1>5, <1>6 DEF CopyInline, Own
    <2>2. Own(new) = {} /\ Shows(new, v, blk)
      BY <1>1, <1>3, <1>4, InlineShows
    <2> QED
      BY <2>1, <2>2 DEF Effect, Result
  <1>7. CASE Long(id) /\ from.len > ValSize
    BY <1>7 DEF OverBlock
  <1>8. CASE Long(id) /\ from.len <= ValSize
    <2>1. CopyInline(id, blk, from) = Freed(clear, blk, Base(id))
      BY <1>1, <1>2, <1>5, <1>8 DEF CopyInline, OverBlock
    <2>2. /\ c \in Seq(Nat) /\ Len(c) = Len(new.cells) /\ \A k \in 1..ValSize : c[k] = new.cells[k]
      <3>1. new.cells \in Seq(Nat) /\ ValSize < Len(new.cells) /\ 0 \in Nat
        BY <1>1, <1>3, <1>4 DEF Records
      <3> QED
        BY <1>1, <3>1, BaseCell
    <2>3. clear = [new EXCEPT !.cells = c]
      BY DEF WithBase
    <2> HIDE DEF c, clear
    <2>4. clear \in Records /\ clear.cells = c /\ clear.len = new.len
          /\ clear.charset = new.charset /\ clear.max = new.max
      BY <1>4, <2>2, <2>3 DEF Records
    <2>5. \A k \in 1..Len(v.data) : clear.cells[k] = v.data[k]
      BY <1>1, <1>2, <1>3, <1>4, <1>8, <2>2, <2>4
    <2>6. Own(clear) = {} /\ Shows(clear, v, blk)
      BY <1>1, <1>3, <1>4, <2>2, <2>4, <2>5, InlineShows
    <2>7. Effect(id, blk, Freed(clear, blk, IF Long(id) THEN Base(id) ELSE 0), v)
      BY <2>6, InlineEffect
    <2> QED
      BY <1>8, <2>1, <2>7
  <1> QED
    BY <1>1, <1>2, <1>6, <1>7, <1>8

\* mpt_identifier_copy of content that needs a block.
LEMMA CopyLongEffect ==
    ASSUME IdentConstants, NEW id, NEW old, NEW blk, Shows(id, old, blk),
           DOMAIN blk \subseteq Addresses,
           NEW from, NEW v, Shows(from, v, blk), from.len > id.max,
           NEW addr \in Addresses, addr \notin DOMAIN blk
    PROVE  Effect(id, blk, CopyLong(id, blk, from, addr), v)
  <1> DEFINE p == Put(id, Zeros(ValSize))
             new == [WithBase(p, addr) EXCEPT !.len = Len(v.data), !.charset = v.charset]
             more == With(blk, addr, v.data)
  <1>1. /\ id \in Records /\ Len(id.cells) = id.max /\ ValSize < id.max /\ id.max \in Nat
        /\ v \in Values /\ Ended(v) /\ from.len = Len(v.data) /\ from.charset = v.charset
        /\ mpt_identifier_data(from, blk) = v.data /\ Own(id) \subseteq DOMAIN blk
        /\ ValSize \in Nat
    BY DEF Shows, Records, IdentConstants
  <1>2. Zeros(ValSize) \in Seq(Nat) /\ Len(Zeros(ValSize)) = ValSize
    BY <1>1, ZerosCells
  <1>3. p \in Records /\ p.max = id.max /\ Len(p.cells) = id.max
    BY <1>1, <1>2, PutRecord
  <1> HIDE DEF p, Ended, Shows
  <1>4. Own(new) = {addr} /\ Shows(new, v, more)
    BY <1>1, <1>3, LongShows
  <1>5. new = [WithBase(p, addr) EXCEPT !.len = from.len, !.charset = from.charset]
    BY <1>1
  <1> HIDE DEF new
  <1>6. DOMAIN more = DOMAIN blk \cup {addr} /\ \A a \in DOMAIN blk : more[a] = blk[a]
    BY DEF With
  <1> HIDE DEF more
  <1>7. Effect(id, blk, Freed(new, more, IF Long(id) THEN Base(id) ELSE 0), v)
    BY <1>1, <1>4, <1>6, FreedEffect
  <1> QED
    BY <1>1, <1>5, <1>7 DEF CopyLong, more, p

\* mpt_identifier_copy
LEMMA CopyEffect ==
    ASSUME IdentConstants, NEW id, NEW old, NEW blk, Shows(id, old, blk),
           DOMAIN blk \subseteq Addresses,
           NEW from, NEW v, Shows(from, v, blk), ~OverBlock(id, from),
           NEW alloc \in {0} \cup (Addresses \ DOMAIN blk)
    PROVE  Effect(id, blk, mpt_identifier_copy(id, blk, from, alloc), v)
  <1>1. from.len \in Nat /\ id.max \in Nat
    BY DEF Shows, Records
  <1>2. CASE from.len <= id.max
    BY <1>2, CopyInlineEffect DEF mpt_identifier_copy
  <1>3. CASE from.len > id.max /\ alloc = 0
    <2>1. mpt_identifier_copy(id, blk, from, alloc) = Result(id, blk, "failed")
      BY <1>1, <1>3 DEF mpt_identifier_copy
    <2> QED
      BY <2>1 DEF Effect, Result
  <1>4. CASE from.len > id.max /\ alloc # 0
    <2>1. mpt_identifier_copy(id, blk, from, alloc) = CopyLong(id, blk, from, alloc)
      BY <1>1, <1>4 DEF mpt_identifier_copy
    <2> QED
      BY <1>4, <2>1, CopyLongEffect
  <1> QED
    BY <1>1, <1>2, <1>3, <1>4

-----------------------------------------------------------------------------
(* New identifiers.                                                        *)

\* An identifier of sufficient size is empty at first.
LEMMA InitShows ==
    ASSUME IdentConstants, NEW size \in Nat, size > Header + ValSize, NEW blk
    PROVE  /\ Own(mpt_identifier_init(size)) = {}
           /\ Shows(mpt_identifier_init(size), Empty, blk)
  <1> DEFINE n == Smaller(size - Header, SizeMax - Header)
             new == mpt_identifier_init(size)
  <1>1. n \in Nat /\ ValSize < n
    BY DEF IdentConstants, Smaller
  <1>2. new = [len |-> 0, charset |-> 0, max |-> n, cells |-> Zeros(n)]
    BY DEF mpt_identifier_init
  <1> HIDE DEF n
  <1>3. Zeros(n) \in Seq(Nat) /\ Len(Zeros(n)) = n
    BY <1>1, ZerosCells
  <1> HIDE DEF new
  <1>4. new \in Records /\ new.len = 0 /\ new.charset = 0 /\ new.max = n /\ Len(new.cells) = n
    BY <1>1, <1>2, <1>3 DEF Records, Charsets
  <1>5. Empty \in Values /\ Ended(Empty) /\ Empty.charset = 0 /\ Empty.data = <<>>
    BY DEF Empty, Value, Values, Charsets, Ended, UTF8
  <1>6. Len(<<>>) = 0
    BY EmptySeq
  <1> HIDE DEF Ended
  <1>7. Own(new) = {} /\ Shows(new, Empty, blk)
    <2>1. Len(Empty.data) <= new.max /\ \A k \in 1..Len(Empty.data) : new.cells[k] = Empty.data[k]
      BY <1>1, <1>4, <1>5, <1>6
    <2> QED
      BY <1>1, <1>4, <1>5, <1>6, <2>1, InlineShows
  <1> QED
    BY <1>7 DEF new

\* mpt_identifier_new doubles the size and never halves it.
LEMMA NewLarge ==
    ASSUME IdentConstants, NEW len \in Nat
    PROVE  NewLength(len) \in Nat /\ NewLength(len) > Header + ValSize
  <1>1. /\ NewSize \in Nat /\ NewSize > 0 /\ SizeMax \in Nat /\ Header \in Nat /\ ValSize \in Nat
        /\ NewSize > Header + ValSize
    BY DEF IdentConstants
  <1>2. CASE len + Header <= NewSize \/ len + Header > SizeMax
    BY <1>1, <1>2 DEF NewLength
  <1>3. CASE ~(len + Header <= NewSize \/ len + Header > SizeMax)
    <2> DEFINE enough == {n \in 0..SizeMax : NewSize * 2^n >= len + Header}
               p == 2^SizeMax
               least == CHOOSE n \in enough : \A k \in enough : n <= k
               q == 2^least
    <2>1. p \in Nat /\ p > SizeMax
      BY <1>1 DEF IdentConstants
    <2> HIDE DEF p
    <2>2. NewSize * p >= len + Header
      BY <1>1, <1>3, <2>1
    <2>3. SizeMax \in enough
      BY <1>1, <2>2 DEF p
    <2>4. enough \in SUBSET Nat /\ enough # {} /\ enough \subseteq 0..SizeMax
      <3>1. enough \subseteq 0..SizeMax
        OBVIOUS
      <3> HIDE DEF enough
      <3> QED
        BY <1>1, <2>3, <3>1
    <2>5. NewLength(len) = NewSize * q
      BY <1>3 DEF NewLength
    <2> HIDE DEF enough
    <2>6. least \in enough
      BY <2>4, Lowest
    <2> HIDE DEF least
    <2>7. q \in Nat /\ q > 0
      <3>1. least \in 0..SizeMax
        BY <2>4, <2>6
      <3>2. q \in Nat /\ least < q
        BY <3>1 DEF IdentConstants
      <3> HIDE DEF q
      <3> QED
        BY <3>1, <3>2
    <2> HIDE DEF q
    <2>8. NewSize * q \in Nat /\ NewSize * q >= NewSize
      BY <1>1, <2>7
    <2> QED
      BY <1>1, <2>5, <2>8
  <1> QED
    BY <1>2, <1>3

-----------------------------------------------------------------------------
(* Comparing tells the content.                                            *)

\* Sequences of one length that differ nowhere are equal.
LEMMA DiffersNowhere ==
    ASSUME NEW s \in Seq(Nat), NEW t \in Seq(Nat), Len(t) <= Len(s)
    PROVE  Differs(s, t) = 0 <=> \A k \in 1..Len(t) : s[k] = t[k]
  <1> DEFINE at == {i \in 1..Smaller(Len(s), Len(t)) : s[i] # t[i]}
  <1>1. Smaller(Len(s), Len(t)) = Len(t) /\ Len(t) \in Nat
    BY LenProperties DEF Smaller
  <1>2. CASE at = {}
    <2>1. Differs(s, t) = 0
      BY <1>2 DEF Differs
    <2> QED
      BY <1>1, <1>2, <2>1
  <1>3. CASE at # {}
    <2>1. at \in SUBSET Nat /\ \A i \in at : i # 0 /\ i \in 1..Len(t) /\ s[i] # t[i]
      BY <1>1
    <2>2. Differs(s, t) = CHOOSE i \in at : \A j \in at : i <= j
      BY <1>3 DEF Differs
    <2> HIDE DEF at
    <2>3. Differs(s, t) \in at
      BY <1>3, <2>1, <2>2, Lowest
    <2> QED
      BY <1>3, <2>1, <2>3
  <1> QED
    BY <1>2, <1>3

\* mpt_identifier_compare finds the name that was assigned, and no other.
LEMMA ComparesName ==
    ASSUME IdentConstants, NEW id, NEW v, NEW blk, Shows(id, v, blk), NEW name \in IdentNames
    PROVE  mpt_identifier_compare(id, blk, name) = 0 <=> v = Value(UTF8, Append(name, 0))
  <1> DEFINE s == v.data
             t == Append(name, 0)
  <1>1. /\ s \in Seq(Nat) /\ id.charset = v.charset /\ id.len = Len(s)
        /\ v.charset \in Charsets /\ mpt_identifier_data(id, blk) = s
        /\ v = [charset |-> v.charset, data |-> s]
    BY DEF Shows, Values
  <1>2. v.charset = UTF8 => s # <<>> /\ s[Len(s)] = 0
    BY DEF Shows, Ended
  <1>3. name \in Seq(Nat) /\ Len(name) \in Nat /\ Len(s) \in Nat
    BY <1>1, LenProperties DEF IdentConstants
  <1>4. /\ t \in Seq(Nat) /\ Len(t) = Len(name) + 1
        /\ \A k \in 1..Len(name) : t[k] = name[k]
        /\ t[Len(name) + 1] = 0
    BY <1>3, Terminated
  <1> HIDE DEF s, t
  <1>5. v = Value(UTF8, t) <=> v.charset = UTF8 /\ s = t
    BY <1>1 DEF Value, s
  <1>6. CASE v.charset # UTF8
    BY <1>1, <1>5, <1>6 DEF mpt_identifier_compare, BadType, t
  <1>7. CASE v.charset = UTF8 /\ Len(name) + 1 # Len(s)
    <2>1. mpt_identifier_compare(id, blk, name) = MissingData
      <3>1. id.len # 0
        BY <1>1, <1>2, <1>3, <1>7, EmptySeq
      <3> QED
        BY <1>1, <1>7, <3>1 DEF mpt_identifier_compare
    <2> QED
      BY <1>4, <1>5, <1>7, <2>1 DEF MissingData, t
  <1>8. CASE v.charset = UTF8 /\ Len(name) + 1 = Len(s)
    <2>1. mpt_identifier_compare(id, blk, name) = Differs(s, name)
      <3>1. id.len # 0 /\ s[Len(name) + 1] = 0
        BY <1>1, <1>2, <1>3, <1>8
      <3> QED
        BY <1>1, <1>8, <3>1 DEF mpt_identifier_compare
    <2>2. Differs(s, name) = 0 <=> \A k \in 1..Len(name) : s[k] = name[k]
      BY <1>1, <1>3, <1>8, DiffersNowhere
    <2>3. s = t <=> \A k \in 1..Len(name) : s[k] = name[k]
      <3>1. ASSUME \A k \in 1..Len(name) : s[k] = name[k] PROVE s = t
        <4>1. \A k \in 1..Len(s) : s[k] = t[k]
          <5> SUFFICES ASSUME NEW k \in 1..Len(s) PROVE s[k] = t[k]
            OBVIOUS
          <5>1. k \in 1..Len(name) \/ k = Len(s)
            BY <1>3, <1>8
          <5>2. s[Len(s)] = 0 /\ t[Len(s)] = 0
            BY <1>2, <1>4, <1>8
          <5> QED
            BY <1>4, <3>1, <5>1, <5>2
        <4> QED
          BY <1>1, <1>4, <1>8, <4>1, SeqEqual
      <3> QED
        BY <1>4, <3>1
    <2> QED
      BY <1>5, <1>8, <2>1, <2>2, <2>3 DEF t
  <1> QED
    BY <1>6, <1>7, <1>8

\* Compared with data that has no name, an identifier has to be still zero.
LEMMA ComparesData ==
    ASSUME NEW id, NEW v, NEW blk, Shows(id, v, blk), NEW len \in Nat
    PROVE  CompareEmpty(id, blk, len) = 0
              <=> v.data = Zeros(len + 1) \/ (len = 0 /\ v.data = <<>>)
  <1> DEFINE s == v.data
             t == Zeros(len + 1)
  <1>1. s \in Seq(Nat) /\ id.len = Len(s) /\ mpt_identifier_data(id, blk) = s /\ Len(s) \in Nat
    BY LenProperties DEF Shows, Values
  <1>2. len + 1 \in Nat /\ t \in Seq(Nat) /\ Len(t) = len + 1
    BY ZerosCells
  <1>3. Len(s) = 0 <=> s = <<>>
    BY <1>1, EmptySeq
  <1> HIDE DEF s, t
  <1>4. CASE len = 0 /\ Len(s) = 0
    BY <1>1, <1>3, <1>4 DEF CompareEmpty, s
  <1>5. CASE ~(len = 0 /\ Len(s) = 0) /\ len + 1 # Len(s)
    BY <1>1, <1>2, <1>3, <1>5 DEF CompareEmpty, MissingData, s, t
  <1>6. CASE len + 1 = Len(s)
    <2>1. CompareEmpty(id, blk, len) = Differs(s, t)
      BY <1>1, <1>6 DEF CompareEmpty, t
    <2>2. Differs(s, t) = 0 <=> \A k \in 1..Len(t) : s[k] = t[k]
      <3>1. Len(t) <= Len(s)
        BY <1>1, <1>2, <1>6
      <3> QED
        BY <1>1, <1>2, <3>1, DiffersNowhere
    <2>3. s = t <=> \A k \in 1..Len(t) : s[k] = t[k]
      BY <1>1, <1>2, <1>6, SeqEqual
    <2>4. s # <<>>
      BY <1>3, <1>6
    <2> QED
      BY <2>1, <2>2, <2>3, <2>4 DEF s, t
  <1> QED
    BY <1>4, <1>5, <1>6

\* Two identifiers are equal when they show the same.
LEMMA ComparesIdentifiers ==
    ASSUME NEW id, NEW v, NEW cmp, NEW w, NEW blk, Shows(id, v, blk), Shows(cmp, w, blk)
    PROVE  mpt_identifier_inequal(id, cmp, blk) = 0 <=> v = w
  <1>1. /\ id.charset = v.charset /\ cmp.charset = w.charset
        /\ id.len = Len(v.data) /\ cmp.len = Len(w.data)
        /\ mpt_identifier_data(id, blk) = v.data /\ mpt_identifier_data(cmp, blk) = w.data
        /\ v.charset \in {0, 1} /\ w.charset \in {0, 1} /\ v.data \in Seq(Nat) /\ w.data \in Seq(Nat)
        /\ v = [charset |-> v.charset, data |-> v.data]
        /\ w = [charset |-> w.charset, data |-> w.data]
    BY DEF Shows, Values, Charsets, UTF8
  <1>2. Len(v.data) \in Nat /\ Len(w.data) \in Nat
    BY <1>1, LenProperties
  <1>3. v = w <=> v.charset = w.charset /\ v.data = w.data
    BY <1>1
  <1>4. CASE v.charset # w.charset
    BY <1>1, <1>3, <1>4 DEF mpt_identifier_inequal
  <1>5. CASE v.charset = w.charset /\ Len(v.data) # Len(w.data)
    BY <1>1, <1>2, <1>3, <1>5 DEF mpt_identifier_inequal
  <1>6. CASE v.charset = w.charset /\ Len(v.data) = Len(w.data)
    BY <1>1, <1>3, <1>6 DEF mpt_identifier_inequal
  <1> QED
    BY <1>4, <1>5, <1>6

-----------------------------------------------------------------------------
(* The invariant.                                                          *)

Blocks(i) == IF Live(i) THEN Own(idents[i]) ELSE {}

Kept ==
    /\ idents = [i \in Idents |-> idents[i]] /\ DOMAIN named = Idents
    /\ DOMAIN blocks \subseteq Addresses
    /\ \A i \in Used : Shows(idents[i], named[i], blocks)
    /\ DOMAIN blocks = lost \cup UNION {Blocks(i) : i \in Idents}
    /\ \A i \in Idents : Blocks(i) \cap lost = {}
    /\ \A i, j \in Idents : i # j => Blocks(i) \cap Blocks(j) = {}

IdentInv == ~fault /\ Kept

\* What an identifier shows depends only on its own block.
LEMMA ShowsKept ==
    ASSUME NEW id, NEW v, NEW blk, NEW more, Shows(id, v, blk),
           Own(id) \subseteq DOMAIN more, \A a \in Own(id) : more[a] = blk[a]
    PROVE  Shows(id, v, more)
  <1>1. mpt_identifier_data(id, more) = mpt_identifier_data(id, blk)
    <2>1. CASE Long(id)
      <3>1. Base(id) \in Own(id) /\ Own(id) \subseteq DOMAIN blk
        BY <2>1 DEF Own, Shows
      <3> QED
        BY <2>1, <3>1 DEF mpt_identifier_data
    <2>2. CASE ~Long(id)
      BY <2>2 DEF mpt_identifier_data
    <2> QED
      BY <2>1, <2>2
  <1> QED
    BY <1>1 DEF Shows

\* One identifier and the blocks change, the other ones do not notice.
LEMMA Rebuilt ==
    ASSUME Kept, NEW i \in Idents, NEW new, NEW v, NEW fresh,
           lost' = lost,
           idents' = [idents EXCEPT ![i] = new],
           named' = [named EXCEPT ![i] = v],
           fresh \cap DOMAIN blocks = {}, fresh \subseteq Addresses,
           DOMAIN blocks' = (DOMAIN blocks \ Blocks(i)) \cup fresh,
           \A a \in DOMAIN blocks \ Blocks(i) : blocks'[a] = blocks[a],
           \/ v = Unassigned /\ fresh = {}
           \/ v # Unassigned /\ Own(new) = fresh /\ Shows(new, v, blocks')
    PROVE  Kept'
  <1>1. /\ idents = [j \in Idents |-> idents[j]] /\ DOMAIN idents = Idents
        /\ DOMAIN named = Idents
        /\ DOMAIN blocks \subseteq Addresses
        /\ \A j \in Used : Shows(idents[j], named[j], blocks)
        /\ DOMAIN blocks = lost \cup UNION {Blocks(j) : j \in Idents}
        /\ \A j \in Idents : Blocks(j) \cap lost = {}
        /\ \A j, k \in Idents : j # k => Blocks(j) \cap Blocks(k) = {}
    BY DEF Kept
  <1>2. /\ idents' = [j \in Idents |-> idents'[j]] /\ DOMAIN named' = Idents
        /\ idents'[i] = new /\ named'[i] = v
        /\ \A j \in Idents : j # i => idents'[j] = idents[j] /\ named'[j] = named[j]
    BY <1>1
  <1>3. Blocks(i)' = fresh
    BY <1>2 DEF Blocks, Live
  <1>4. ASSUME NEW j \in Idents, j # i
        PROVE  Blocks(j)' = Blocks(j) /\ (Live(j)' <=> Live(j))
    BY <1>2, <1>4 DEF Blocks, Live, Own, Long, Base
  <1>5. \A j \in Idents : Blocks(j) \subseteq DOMAIN blocks
    BY <1>1
  <1>6. ASSUME NEW j \in Used' PROVE Shows(idents'[j], named'[j], blocks')
    <2>1. CASE j = i
      BY <1>2, <1>6, <2>1 DEF Used, Live
    <2>2. CASE j # i
      <3>1. j \in Idents /\ j \in Used /\ idents'[j] = idents[j] /\ named'[j] = named[j]
        BY <1>2, <1>4, <1>6, <2>2 DEF Used
      <3>2. Own(idents[j]) = Blocks(j)
        BY <3>1 DEF Used, Blocks
      <3>3. Blocks(j) \subseteq DOMAIN blocks \ Blocks(i)
        BY <1>1, <1>5, <2>2, <3>1
      <3>4. Shows(idents[j], named[j], blocks)
        BY <1>1, <3>1
      <3>5. Own(idents[j]) \subseteq DOMAIN blocks' /\ \A a \in Own(idents[j]) : blocks'[a] = blocks[a]
        BY <3>2, <3>3
      <3> QED
        BY <3>1, <3>4, <3>5, ShowsKept
    <2> QED
      BY <2>1, <2>2
  <1>7. DOMAIN blocks' \subseteq Addresses
    BY <1>1
  <1>8. DOMAIN blocks' = lost' \cup UNION {Blocks(j)' : j \in Idents}
    <2>1. ASSUME NEW a \in DOMAIN blocks'
          PROVE  a \in lost' \cup UNION {Blocks(j)' : j \in Idents}
      <3>1. CASE a \in fresh
        BY <1>3, <3>1
      <3>2. CASE a \in lost
        BY <3>2
      <3>3. CASE a \notin fresh /\ a \notin lost
        <4>1. PICK j \in Idents : a \in Blocks(j)
          BY <1>1, <3>3
        <4>2. j # i
          BY <3>3, <4>1
        <4> QED
          BY <1>4, <4>1, <4>2
      <3> QED
        BY <3>1, <3>2, <3>3
    <2>2. ASSUME NEW a \in lost' PROVE a \in DOMAIN blocks'
      BY <1>1, <2>2
    <2>3. ASSUME NEW j \in Idents, NEW a \in Blocks(j)' PROVE a \in DOMAIN blocks'
      <3>1. CASE j = i
        BY <1>3, <2>3, <3>1
      <3>2. CASE j # i
        BY <1>1, <1>4, <1>5, <2>3, <3>2
      <3> QED
        BY <3>1, <3>2
    <2> QED
      BY <2>1, <2>2, <2>3
  <1>9. \A j \in Idents : Blocks(j)' \cap lost' = {}
    <2> SUFFICES ASSUME NEW j \in Idents PROVE Blocks(j)' \cap lost' = {}
      OBVIOUS
    <2>1. CASE j = i
      BY <1>1, <1>3, <2>1
    <2>2. CASE j # i
      BY <1>1, <1>4, <2>2
    <2> QED
      BY <2>1, <2>2
  <1>10. \A j, k \in Idents : j # k => Blocks(j)' \cap Blocks(k)' = {}
    <2> SUFFICES ASSUME NEW j \in Idents, NEW k \in Idents, j # k
                 PROVE  Blocks(j)' \cap Blocks(k)' = {}
      OBVIOUS
    <2>1. CASE j = i
      BY <1>3, <1>4, <1>5, <2>1
    <2>2. CASE k = i
      BY <1>3, <1>4, <1>5, <2>2
    <2>3. CASE j # i /\ k # i
      BY <1>1, <1>4, <2>3
    <2> QED
      BY <2>1, <2>2, <2>3
  <1> QED
    BY <1>2, <1>6, <1>7, <1>8, <1>9, <1>10 DEF Kept

-----------------------------------------------------------------------------
(* Every operation keeps the invariant.                                    *)

\* An operation on identifier i has an effect as promised.
LEMMA Becoming ==
    ASSUME Kept, NEW i \in Idents, NEW id, NEW r, NEW v \in Values,
           Becomes(i, r, v), lost' = lost,
           Effect(id, blocks, r, v), Own(id) = Blocks(i),
           r.outcome = "failed" => Live(i) /\ id = idents[i]
    PROVE  IdentInv'
  <1>1. v # Unassigned
    BY DEF Values, Unassigned, Value, Charsets, UTF8
  <1>2. ~fault'
    BY DEF Becomes, Effect
  <1>3. CASE r.outcome = "failed"
    <2>1. r.id = idents[i] /\ r.blocks = blocks
      BY <1>3 DEF Effect
    <2>2. idents' = idents /\ blocks' = blocks /\ named' = named
      BY <1>3, <2>1 DEF Becomes, Kept
    <2> QED
      BY <1>2, <2>2 DEF IdentInv, Kept, Used, Live, Blocks
  <1>4. CASE r.outcome = "done"
    <2>1. idents' = [idents EXCEPT ![i] = r.id] /\ named' = [named EXCEPT ![i] = v]
          /\ blocks' = r.blocks
      BY <1>4 DEF Becomes
    <2>2. /\ Shows(r.id, v, blocks')
          /\ Own(r.id) \cap DOMAIN blocks = {} /\ Own(r.id) \subseteq Addresses
          /\ DOMAIN blocks' = (DOMAIN blocks \ Blocks(i)) \cup Own(r.id)
          /\ \A a \in DOMAIN blocks \ Blocks(i) : blocks'[a] = blocks[a]
      BY <1>4, <2>1 DEF Effect
    <2>3. Kept'
      BY <1>1, <2>1, <2>2, Rebuilt
    <2> QED
      BY <1>2, <2>3 DEF IdentInv
  <1> QED
    BY <1>3, <1>4 DEF Effect

\* An allocation fails or returns the address of a new block.
LEMMA NewAddress == Alloc \subseteq {0} \cup (Addresses \ DOMAIN blocks)
  BY DEF Alloc, Free

\* The smallest identifier, as it is made by its constructor.
LEMMA StructShows ==
    ASSUME IdentConstants, NEW blk
    PROVE  /\ Own(mpt_identifier_init(StructSize)) = {}
           /\ Shows(mpt_identifier_init(StructSize), Empty, blk)
  <1>1. StructSize \in Nat /\ StructSize > Header + ValSize
    BY DEF StructSize, IdentConstants
  <1> QED
    BY <1>1, InitShows

\* No value at all is a value.
LEMMA EmptyValue == Empty \in Values
  BY EmptySeq DEF Empty, Value, Values, Charsets

\* The invariant is kept by mpt_identifier_new.
LEMMA CreateStep ==
    ASSUME IdentConstants, Kept, NEW i \in Idents, Create(i)
    PROVE  IdentInv'
  <1>1. ~Live(i) /\ lost' = lost /\ Blocks(i) = {}
    BY DEF Create, Blocks
  <1>2. ASSUME NEW size \in Nat, size > Header + ValSize,
               Becomes(i, Result(mpt_identifier_init(size), blocks, "done"), Empty)
        PROVE  IdentInv'
    <2> DEFINE new == mpt_identifier_init(size)
               r == Result(new, blocks, "done")
    <2>1. Own(new) = {} /\ Shows(new, Empty, blocks)
      BY <1>2, InitShows
    <2> HIDE DEF new
    <2>2. r.id = new /\ r.blocks = blocks /\ r.outcome = "done"
      BY DEF Result
    <2> HIDE DEF r
    <2>3. Effect(new, blocks, r, Empty)
      BY <2>1, <2>2 DEF Effect
    <2>4. Becomes(i, r, Empty)
      BY <1>2 DEF r, new
    <2> QED
      BY <1>1, <2>1, <2>2, <2>3, <2>4, Becoming, EmptyValue
  <1>3. CASE Becomes(i, Result(mpt_identifier_init(StructSize), blocks, "done"), Empty)
    <2>1. StructSize \in Nat /\ StructSize > Header + ValSize
      BY DEF StructSize, IdentConstants
    <2> QED
      BY <1>2, <1>3, <2>1
  <1>4. CASE \E len \in Sizes :
               Becomes(i, Result(mpt_identifier_init(NewLength(len)), blocks, "done"), Empty)
    <2>1. PICK len \in Sizes :
               Becomes(i, Result(mpt_identifier_init(NewLength(len)), blocks, "done"), Empty)
      BY <1>4
    <2>2. len \in Nat
      BY DEF IdentConstants
    <2>3. NewLength(len) \in Nat /\ NewLength(len) > Header + ValSize
      BY <2>2, NewLarge
    <2> QED
      BY <1>2, <2>1, <2>3
  <1> QED
    BY <1>3, <1>4 DEF Create

\* The invariant is kept by identifier::set_name.
LEMMA SetNameStep ==
    ASSUME IdentConstants, Kept, NEW i \in Idents, SetName(i)
    PROVE  IdentInv'
  <1>1. PICK name \in IdentNames, alloc \in Alloc :
             Becomes(i, mpt_identifier_set(idents[i], blocks, name, alloc),
                     Value(UTF8, Append(name, 0)))
    BY DEF SetName
  <1> DEFINE v == Value(UTF8, Append(name, 0))
             r == mpt_identifier_set(idents[i], blocks, name, alloc)
  <1>2. Live(i) /\ i \in Used /\ lost' = lost /\ Own(idents[i]) = Blocks(i)
    BY DEF SetName, Used, Blocks
  <1>3. Shows(idents[i], named[i], blocks) /\ DOMAIN blocks \subseteq Addresses
    BY <1>2 DEF Kept
  <1>4. alloc \in {0} \cup (Addresses \ DOMAIN blocks)
    BY NewAddress
  <1>5. Effect(idents[i], blocks, r, v)
    BY <1>3, <1>4, NameEffect
  <1>6. v \in Values
    <2>1. name \in Seq(Nat)
      BY DEF IdentConstants
    <2>2. Append(name, 0) \in Seq(Nat)
      BY <2>1, Terminated
    <2> QED
      BY <2>2 DEF Value, Values, Charsets
  <1> HIDE DEF v, r
  <1>7. Becomes(i, r, v)
    BY <1>1 DEF r, v
  <1> QED
    BY <1>2, <1>5, <1>6, <1>7, Becoming

\* The invariant is kept by mpt_identifier_set without text.
LEMMA SetDataStep ==
    ASSUME IdentConstants, Kept, NEW i \in Idents, NEW len \in Sizes,
           ~FromNull(idents[i], len), SetData(i, len)
    PROVE  IdentInv'
  <1>1. PICK alloc \in Alloc :
             Becomes(i, SetEmpty(idents[i], blocks, len, alloc), Value(0, Zeros(len)))
    BY DEF SetData
  <1> DEFINE v == Value(0, Zeros(len))
             r == SetEmpty(idents[i], blocks, len, alloc)
  <1>2. Live(i) /\ i \in Used /\ lost' = lost /\ Own(idents[i]) = Blocks(i)
    BY DEF SetData, Used, Blocks
  <1>3. Shows(idents[i], named[i], blocks) /\ DOMAIN blocks \subseteq Addresses
    BY <1>2 DEF Kept
  <1>4. alloc \in {0} \cup (Addresses \ DOMAIN blocks) /\ len \in Nat
    BY NewAddress DEF IdentConstants
  <1>5. Effect(idents[i], blocks, r, v)
    BY <1>3, <1>4, DataEffect
  <1>6. v \in Values
    BY <1>4, ZerosValue
  <1> HIDE DEF v, r
  <1>7. Becomes(i, r, v)
    BY <1>1 DEF r, v
  <1> QED
    BY <1>2, <1>5, <1>6, <1>7, Becoming

\* The invariant is kept by identifier::operator=.
LEMMA AssignStep ==
    ASSUME IdentConstants, Kept, ~fault, NEW i \in Idents, NEW j \in Idents,
           ~OverBlock(idents[i], idents[j]), Assign(i, j)
    PROVE  IdentInv'
  <1>2. Live(i) /\ i \in Used /\ j \in Used /\ lost' = lost /\ Own(idents[i]) = Blocks(i)
    BY DEF Assign, Used, Blocks
  <1>3. /\ Shows(idents[i], named[i], blocks) /\ DOMAIN blocks \subseteq Addresses
        /\ Shows(idents[j], named[j], blocks)
    BY <1>2 DEF Kept
  <1>4. CASE i = j
    BY <1>2, <1>4 DEF Assign, IdentInv, Kept, Used, Live, Blocks
  <1>5. CASE i # j
    <2>0. PICK alloc \in Alloc :
            Becomes(i, mpt_identifier_copy(idents[i], blocks, idents[j], alloc), named[j])
      BY <1>5 DEF Assign
    <2> DEFINE r == mpt_identifier_copy(idents[i], blocks, idents[j], alloc)
    <2>1. alloc \in {0} \cup (Addresses \ DOMAIN blocks)
      BY NewAddress
    <2>2. Effect(idents[i], blocks, r, named[j])
      BY <1>3, <2>1, CopyEffect
    <2>3. named[j] \in Values
      BY <1>3 DEF Shows
    <2>4. Becomes(i, r, named[j])
      BY <2>0
    <2> HIDE DEF r
    <2> QED
      BY <1>2, <2>2, <2>3, <2>4, Becoming
  <1> QED
    BY <1>4, <1>5

\* A copy made in a new identifier.
LEMMA FreshCopy ==
    ASSUME IdentConstants, Kept, NEW j \in Idents, Live(j), NEW alloc \in Alloc
    PROVE  LET none == mpt_identifier_init(StructSize) IN
           Effect(none, blocks, mpt_identifier_copy(none, blocks, idents[j], alloc), named[j])
  <1> DEFINE none == mpt_identifier_init(StructSize)
  <1>1. Shows(none, Empty, blocks)
    BY StructShows
  <1>2. Shows(idents[j], named[j], blocks) /\ DOMAIN blocks \subseteq Addresses
    BY DEF Kept, Used
  <1>3. alloc \in {0} \cup (Addresses \ DOMAIN blocks)
    BY NewAddress
  <1>5. ~OverBlock(none, idents[j])
    <2>1. ~Long(none)
      <3> HIDE DEF none
      <3> QED
        BY StructShows DEF Own, none
    <2> HIDE DEF none
    <2> QED
      BY <2>1 DEF OverBlock
  <1> HIDE DEF none
  <1>4. Effect(none, blocks, mpt_identifier_copy(none, blocks, idents[j], alloc), named[j])
    BY <1>1, <1>2, <1>3, <1>5, CopyEffect
  <1> QED
    BY <1>4 DEF none

\* The invariant is kept by the copy constructor.
LEMMA CopyConstructStep ==
    ASSUME IdentConstants, Kept, NEW i \in Idents, CopyConstruct(i)
    PROVE  IdentInv'
  <1> DEFINE none == mpt_identifier_init(StructSize)
             c(j, alloc) == mpt_identifier_copy(none, blocks, idents[j], alloc)
  <1>1. PICK j \in Idents, alloc \in Alloc :
             /\ Live(j)
             /\ Becomes(i, [c(j, alloc) EXCEPT !.outcome = "done"],
                        IF c(j, alloc).outcome = "done" THEN named[j] ELSE Empty)
    BY DEF CopyConstruct
  <1> DEFINE r == c(j, alloc)
             d == [r EXCEPT !.outcome = "done"]
             v == IF r.outcome = "done" THEN named[j] ELSE Empty
  <1>2. ~Live(i) /\ lost' = lost /\ Blocks(i) = {}
    BY DEF CopyConstruct, Blocks
  <1>3. Effect(none, blocks, r, named[j])
    BY <1>1, FreshCopy
  <1>4. Own(none) = {} /\ Shows(none, Empty, blocks) /\ ~Long(none)
    <2>1. Own(none) = {} /\ Shows(none, Empty, blocks)
      BY StructShows
    <2> HIDE DEF none
    <2> QED
      BY <2>1 DEF Own
  <1>6. d.outcome = "done" /\ d.id = r.id /\ d.blocks = r.blocks
    <2>1. {"id", "blocks", "outcome"} \subseteq DOMAIN r
      <3> HIDE DEF none
      <3> QED
        BY <1>4 DEF mpt_identifier_copy, CopyInline, CopyLong, Freed, Result
    <2> HIDE DEF r
    <2> QED
      BY <2>1
  <1>7. Becomes(i, d, v)
    BY <1>1
  <1> HIDE DEF none, c, r, d
  <1>8. Effect(none, blocks, d, v)
    <2>1. CASE r.outcome = "done"
      BY <1>3, <1>6, <2>1 DEF Effect
    <2>2. CASE r.outcome = "failed"
      BY <1>3, <1>4, <1>6, <2>2 DEF Effect
    <2> QED
      BY <1>3, <2>1, <2>2 DEF Effect
  <1>9. v \in Values
    <2>1. r.outcome = "done" => named[j] \in Values
      BY <1>3 DEF Effect, Shows
    <2> QED
      BY <2>1, EmptyValue
  <1> HIDE DEF v
  <1> QED
    BY <1>2, <1>4, <1>6, <1>7, <1>8, <1>9, Becoming

\* The block of a copy that was given up stays allocated.
LEMMA TraitsInitStep ==
    ASSUME IdentConstants, Kept, ~fault, NEW i \in Idents, _identifier_init(i)
    PROVE  IdentInv'
  <1> DEFINE none == mpt_identifier_init(StructSize)
             c(j, alloc) == mpt_identifier_copy(none, blocks, idents[j], alloc)
  <1>1. PICK j \in Idents, alloc \in Alloc :
             /\ Live(j)
             /\ IF c(j, alloc).outcome = "done"
                THEN /\ blocks' = c(j, alloc).blocks
                     /\ lost' = lost \cup (DOMAIN c(j, alloc).blocks \ DOMAIN blocks)
                     /\ UNCHANGED <<idents, named, fault>>
                ELSE Becomes(i, [c(j, alloc) EXCEPT !.outcome = "done"], Empty) /\ UNCHANGED lost
    BY DEF _identifier_init
  <1> DEFINE r == c(j, alloc)
             d == [r EXCEPT !.outcome = "done"]
  <1>2. ~Live(i) /\ Blocks(i) = {}
    BY DEF _identifier_init, Blocks
  <1>3. Effect(none, blocks, r, named[j])
    BY <1>1, FreshCopy
  <1>4. Own(none) = {} /\ Shows(none, Empty, blocks) /\ ~Long(none)
    <2>1. Own(none) = {} /\ Shows(none, Empty, blocks)
      BY StructShows
    <2> HIDE DEF none
    <2> QED
      BY <2>1 DEF Own
  <1>5. r.outcome # "fault" /\ {"id", "blocks", "outcome"} \subseteq DOMAIN r
    <2> HIDE DEF none
    <2>1. r.outcome \in {"done", "failed"} /\ {"id", "blocks", "outcome"} \subseteq DOMAIN r
      BY <1>4 DEF mpt_identifier_copy, CopyInline, CopyLong, Freed, Result
    <2> QED
      BY <2>1
  <1>6. /\ r.outcome = "done" => /\ blocks' = r.blocks
                                 /\ lost' = lost \cup (DOMAIN r.blocks \ DOMAIN blocks)
                                 /\ UNCHANGED <<idents, named, fault>>
        /\ r.outcome # "done" => Becomes(i, d, Empty) /\ UNCHANGED lost
    BY <1>1
  <1> HIDE DEF none, c, r
  <1>7. CASE r.outcome = "failed"
    <2>1. d.outcome = "done" /\ d.id = r.id /\ d.blocks = r.blocks
      BY <1>5
    <2>2. Effect(none, blocks, d, Empty)
      BY <1>3, <1>4, <1>7, <2>1 DEF Effect
    <2> HIDE DEF d
    <2> QED
      BY <1>2, <1>4, <1>6, <1>7, <2>1, <2>2, Becoming, EmptyValue
  <1>8. CASE r.outcome = "done"
    <2> DEFINE fresh == Own(r.id)
    <2>1. /\ blocks' = r.blocks /\ UNCHANGED <<idents, named, fault>>
          /\ lost' = lost \cup (DOMAIN r.blocks \ DOMAIN blocks)
      BY <1>6, <1>8
    <2>2. /\ fresh \cap DOMAIN blocks = {} /\ fresh \subseteq Addresses
          /\ DOMAIN blocks' = DOMAIN blocks \cup fresh
          /\ \A a \in DOMAIN blocks : blocks'[a] = blocks[a]
      BY <1>3, <1>4, <1>8, <2>1 DEF Effect
    <2> HIDE DEF fresh
    <2>3. lost' = lost \cup fresh
      BY <2>1, <2>2
    <2>4. \A k \in Idents : Blocks(k)' = Blocks(k)
      BY <2>1 DEF Blocks, Live, Own, Long, Base
    <2>5. Used' = Used
      BY <2>1 DEF Used, Live
    <2>6. ASSUME NEW k \in Used PROVE Shows(idents[k], named[k], blocks')
      <3>1. Shows(idents[k], named[k], blocks)
        BY DEF Kept
      <3>2. Own(idents[k]) \subseteq DOMAIN blocks
        BY <3>1 DEF Shows
      <3> QED
        BY <2>2, <3>1, <3>2, ShowsKept
    <2>7. \A k \in Idents : Blocks(k) \subseteq DOMAIN blocks
      BY DEF Kept
    <2>8. DOMAIN blocks' = lost' \cup UNION {Blocks(k)' : k \in Idents}
      <3>1. UNION {Blocks(k)' : k \in Idents} = UNION {Blocks(k) : k \in Idents}
        BY <2>4
      <3> QED
        BY <2>2, <2>3, <3>1 DEF Kept
    <2>9. \A k \in Idents : Blocks(k)' \cap lost' = {}
      BY <2>2, <2>3, <2>4, <2>7 DEF Kept
    <2>10. \A k, m \in Idents : k # m => Blocks(k)' \cap Blocks(m)' = {}
      BY <2>4 DEF Kept
    <2>11. /\ idents' = [k \in Idents |-> idents'[k]] /\ DOMAIN named' = Idents
           /\ DOMAIN blocks' \subseteq Addresses
      BY <2>1, <2>2 DEF Kept
    <2>12. Kept'
      BY <2>1, <2>5, <2>6, <2>8, <2>9, <2>10, <2>11 DEF Kept
    <2> QED
      BY <2>1, <2>12 DEF IdentInv
  <1> QED
    BY <1>3, <1>5, <1>7, <1>8 DEF Effect

\* Both ways to give up an identifier free its block.
LEMMA DestroyStep ==
    ASSUME IdentConstants, Kept, NEW i \in Idents, Destroy(i)
    PROVE  IdentInv'
  <1>1. PICK r \in {SetEmpty(idents[i], blocks, 0, 0), _identifier_fini(idents[i], blocks)} :
             Becomes(i, [r EXCEPT !.id = None], Unassigned)
    BY DEF Destroy
  <1> DEFINE d == [r EXCEPT !.id = None]
             b == Base(idents[i])
  <1>2. Live(i) /\ i \in Used /\ lost' = lost /\ Blocks(i) = Own(idents[i])
    BY DEF Destroy, Used, Blocks
  <1>3. Shows(idents[i], named[i], blocks) /\ DOMAIN blocks \subseteq Addresses
    BY <1>2 DEF Kept
  <1>4. Own(idents[i]) \subseteq DOMAIN blocks /\ idents[i].max \in Nat /\ LenMax \in Nat
    BY <1>3 DEF Shows, Records, IdentConstants
  <1>5. /\ {"id", "blocks", "outcome"} \subseteq DOMAIN r
        /\ r.outcome = "done"
        /\ DOMAIN r.blocks = DOMAIN blocks \ Own(idents[i])
        /\ \A a \in DOMAIN blocks \ Own(idents[i]) : r.blocks[a] = blocks[a]
    <2>1. CASE Long(idents[i])
      <3>1. b \in DOMAIN blocks /\ b # 0 /\ Own(idents[i]) = {b}
        BY <1>3, <1>4, <2>1 DEF Own, IdentConstants
      <3>2. r.blocks = Without(blocks, b) /\ r.outcome = "done"
            /\ {"id", "blocks", "outcome"} \subseteq DOMAIN r
        BY <1>1, <1>4, <2>1, <3>1
           DEF SetEmpty, FromNull, SetInline, _identifier_fini, Freed, Result
      <3> QED
        BY <3>1, <3>2 DEF Without
    <2>2. CASE ~Long(idents[i])
      <3>1. Own(idents[i]) = {}
        BY <2>2 DEF Own
      <3>2. r.blocks = blocks /\ r.outcome = "done"
            /\ {"id", "blocks", "outcome"} \subseteq DOMAIN r
        BY <1>1, <1>4, <2>2
           DEF SetEmpty, FromNull, SetInline, _identifier_fini, Freed, Result
      <3> QED
        BY <3>1, <3>2
    <2> QED
      BY <2>1, <2>2
  <1>6. d.id = None /\ d.blocks = r.blocks /\ d.outcome = "done"
    BY <1>5
  <1>7. Becomes(i, d, Unassigned)
    BY <1>1
  <1> HIDE DEF d
  <1>8. idents' = [idents EXCEPT ![i] = None] /\ named' = [named EXCEPT ![i] = Unassigned]
        /\ blocks' = r.blocks
    BY <1>6, <1>7 DEF Becomes
  <1>9. DOMAIN blocks' = (DOMAIN blocks \ Blocks(i)) \cup {}
        /\ \A a \in DOMAIN blocks \ Blocks(i) : blocks'[a] = blocks[a]
    BY <1>2, <1>5, <1>8
  <1>10. Kept'
    <2> DEFINE fresh == {}
    <2>1. /\ fresh = {} /\ fresh \cap DOMAIN blocks = {} /\ fresh \subseteq Addresses
          /\ DOMAIN blocks' = (DOMAIN blocks \ Blocks(i)) \cup fresh
      BY <1>9
    <2> HIDE DEF fresh
    <2> QED
      BY <1>2, <1>8, <1>9, <2>1, Rebuilt
  <1>11. ~fault'
    BY <1>6, <1>7 DEF Becomes
  <1> QED
    BY <1>10, <1>11 DEF IdentInv

-----------------------------------------------------------------------------
\* Nothing is in use at the start.
LEMMA IdentInitial == ASSUME IdentConstants, IdentInit PROVE IdentInv
  <1>1. \A i \in Idents : ~Live(i)
    BY DEF IdentInit, Live
  <1>2. Used = {} /\ UNION {Blocks(i) : i \in Idents} = {}
    BY <1>1 DEF Used, Blocks
  <1>3. DOMAIN blocks = {}
    BY EmptySeq DEF IdentInit
  <1>4. idents = [i \in Idents |-> idents[i]] /\ DOMAIN named = Idents /\ lost = {}
    BY DEF IdentInit
  <1>5. \A i \in Idents : Blocks(i) = {}
    BY <1>1 DEF Blocks
  <1> QED
    BY <1>2, <1>3, <1>4, <1>5 DEF IdentInv, Kept, IdentInit

\* Every step keeps the invariant, but for the undefined ones.
LEMMA IdentStep ==
    IdentConstants /\ IdentInv /\ [IdentNext]_identVars /\ [~UndefinedCall]_identVars => IdentInv'
  <1> SUFFICES ASSUME IdentConstants, IdentInv, [IdentNext]_identVars,
                      [~UndefinedCall]_identVars
               PROVE  IdentInv'
    OBVIOUS
  <1>1. CASE UNCHANGED identVars
    BY <1>1 DEF identVars, IdentInv, Kept, Used, Live, Blocks
  <1>2. CASE IdentNext /\ ~UndefinedCall
    <2>1. Kept /\ ~fault
      BY DEF IdentInv
    <2>2. PICK i \in Idents : \/ Managed(i)
                              \/ \E len \in Sizes : SetData(i, len)
                              \/ \E j \in Idents : Assign(i, j)
      BY <1>2 DEF IdentNext
    <2>3. CASE Managed(i)
      BY <2>1, <2>3, CreateStep, SetNameStep, CopyConstructStep, TraitsInitStep, DestroyStep
         DEF Managed
    <2>4. CASE \E len \in Sizes : SetData(i, len)
      <3>1. PICK len \in Sizes : SetData(i, len)
        BY <2>4
      <3>2. ~FromNull(idents[i], len)
        BY <1>2, <3>1 DEF UndefinedCall
      <3> QED
        BY <2>1, <3>1, <3>2, SetDataStep
    <2>5. CASE \E j \in Idents : Assign(i, j)
      <3>1. PICK j \in Idents : Assign(i, j)
        BY <2>5
      <3>2. ~OverBlock(idents[i], idents[j])
        BY <1>2, <3>1 DEF UndefinedCall
      <3> QED
        BY <2>1, <3>1, <3>2, AssignStep
    <2> QED
      BY <2>2, <2>3, <2>4, <2>5
  <1> QED
    BY <1>1, <1>2

\* The invariant is what the identifiers promise.
LEMMA KeptSuffices == IdentConstants /\ IdentInv => IdentifierKept
  <1> SUFFICES ASSUME IdentConstants, ~fault, Kept PROVE IdentifierKept
    BY DEF IdentInv
  <1> DEFINE LongOnes == {k \in Used : Long(idents[k])}
  <1>1. \A i \in Used : Shows(idents[i], named[i], blocks)
    BY DEF Kept
  <1>2. \A i \in Used : mpt_identifier_data(idents[i], blocks) = named[i].data
    BY <1>1 DEF Shows
  <1>3. \A i \in Used, name \in IdentNames :
            mpt_identifier_compare(idents[i], blocks, name) = 0
                <=> named[i] = Value(UTF8, Append(name, 0))
    BY <1>1, ComparesName
  <1>4. \A i \in Used, len \in Sizes :
            CompareEmpty(idents[i], blocks, len) = 0
                <=> named[i].data = Zeros(len + 1) \/ (len = 0 /\ named[i].data = <<>>)
    <2> SUFFICES ASSUME NEW i \in Used, NEW len \in Sizes
                 PROVE  CompareEmpty(idents[i], blocks, len) = 0
                    <=> named[i].data = Zeros(len + 1) \/ (len = 0 /\ named[i].data = <<>>)
      OBVIOUS
    <2>1. len \in Nat
      BY DEF IdentConstants
    <2> QED
      BY <1>1, <2>1, ComparesData
  <1>5. \A i, j \in Used : mpt_identifier_inequal(idents[i], idents[j], blocks) = 0
                               <=> named[i] = named[j]
    BY <1>1, ComparesIdentifiers
  <1>6. \A i \in Idents : Blocks(i) = IF i \in LongOnes THEN {Base(idents[i])} ELSE {}
    BY DEF Blocks, Own, Used
  <1>7. LongOnes \subseteq Idents
    BY DEF Used
  <1>8. UNION {Blocks(i) : i \in Idents} = {Base(idents[i]) : i \in LongOnes}
    BY <1>6, <1>7
  <1> HIDE DEF LongOnes
  <1>9. DOMAIN blocks = lost \cup {Base(idents[i]) : i \in LongOnes}
    BY <1>8 DEF Kept
  <1>10. \A i, j \in LongOnes : /\ Base(idents[i]) \notin lost
                                /\ i # j => Base(idents[i]) # Base(idents[j])
    BY <1>6, <1>7 DEF Kept
  <1> QED
    BY <1>2, <1>3, <1>4, <1>5, <1>9, <1>10 DEF IdentifierKept, LongOnes

IdentSpec == IdentInit /\ [][IdentNext]_identVars

(* Every identifier shows what was assigned to it last, comparisons tell    *)
(* exactly that, every block is owned once and nothing undefined happens    *)
(* (mpt_identifier_set, mpt_identifier_copy, mpt_identifier_compare), for   *)
(* any sizes of the structure, names and numbers of identifiers and blocks, *)
(* in every use without the two calls of UndefinedCall: an inline copy that *)
(* is longer than _val over an identifier with a block, which overwrites    *)
(* the address it then frees (identifier.c:142-144), and inline data        *)
(* without a name, read from the null pointer (identifier.c:220).           *)
THEOREM IdentifiersAlwaysKept ==
    ASSUME IdentConstants
    PROVE  IdentSpec /\ [][~UndefinedCall]_identVars => []IdentifierKept
  <1>1. IdentInit => IdentInv
    BY IdentInitial
  <1>2. IdentInv /\ [IdentNext]_identVars /\ [~UndefinedCall]_identVars => IdentInv'
    BY IdentStep
  <1>3. IdentInv => IdentifierKept
    BY KeptSuffices
  <1> QED
    BY <1>1, <1>2, <1>3, PTL DEF IdentSpec
=============================================================================
