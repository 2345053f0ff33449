----------------------------- MODULE TypesProofs -----------------------------
(***************************************************************************)
(* Proofs about the type registry: numbers that were given out keep their  *)
(* traits, and names lead to their numbers.                                *)
(***************************************************************************)
EXTENDS Types, SequenceTheorems, Least

-----------------------------------------------------------------------------
(* Lists of chunks.                                                        *)

\* A list of one entry.
LEMMA OneEntry ==
    ASSUME NEW S, NEW e \in S
    PROVE  <<e>> \in Seq(S) /\ <<e>> # <<>>
  OBVIOUS

\* The chunk of a position and the place in it.
LEMMA Places ==
    ASSUME NEW p \in Nat
    PROVE  \E q \in Nat, r \in Nat : /\ p \div Chunk = q /\ p % Chunk = r /\ r < Chunk
                                    /\ p = Chunk * q + r
  <1>1. Chunk \in Nat /\ Chunk > 0
    BY RangesAssumption
  <1>2. /\ p \div Chunk \in Nat /\ p % Chunk \in Nat /\ p % Chunk < Chunk
        /\ p = Chunk * (p \div Chunk) + (p % Chunk)
    BY <1>1
  <1> QED
    BY <1>2

\* The position for a place in a chunk.
LEMMA PlaceAt ==
    ASSUME NEW q \in Nat, NEW r \in Nat, r < Chunk, NEW p, p = q * Chunk + r
    PROVE  p \in Nat /\ p \div Chunk = q /\ p % Chunk = r
  <1>1. Chunk \in Nat /\ Chunk > 0
    BY RangesAssumption
  <1> QED
    BY <1>1

\* The entries of a list of chunks are kept by another one.
Keeps(list, new) ==
    \A p \in Nat : InChunks(list, p) # <<>> => InChunks(new, p) = InChunks(list, p)

\* A place in a list holds an entry.
LEMMA ChunkEntry ==
    ASSUME NEW list, NEW p
    PROVE  /\ InChunks(list, p) # <<>> <=>
                 p \div Chunk < Len(list) /\ p % Chunk < Len(list[(p \div Chunk) + 1])
           /\ InChunks(list, p) # <<>> =>
                 InChunks(list, p) = <<list[(p \div Chunk) + 1][(p % Chunk) + 1]>>
  <1> DEFINE e == <<list[(p \div Chunk) + 1][(p % Chunk) + 1]>>
  <1>1. e # <<>>
    OBVIOUS
  <1> HIDE DEF e
  <1>2. InChunks(list, p) = IF p \div Chunk < Len(list) /\ p % Chunk < Len(list[(p \div Chunk) + 1])
                            THEN e ELSE <<>>
    BY DEF InChunks, e
  <1> QED
    BY <1>1, <1>2 DEF e

\* A position with an entry is below the room of all chunks.
LEMMA EntryBelow ==
    ASSUME NEW S, NEW list \in Seq(Seq(S)), NEW p \in Nat, InChunks(list, p) # <<>>
    PROVE  p \in 0..Len(list) * Chunk - 1
  <1> DEFINE n == Len(list)
  <1>0. PICK q \in Nat, r \in Nat : /\ p \div Chunk = q /\ p % Chunk = r /\ r < Chunk
                                  /\ p = Chunk * q + r
    BY Places
  <1>1. p = Chunk * q + r /\ r < Chunk /\ q < n
    BY <1>0, ChunkEntry
  <1>2. n \in Nat /\ Chunk \in Nat /\ Chunk > 0
    BY LenProperties, RangesAssumption
  <1> HIDE DEF n
  <1>3. Chunk * q + Chunk <= n * Chunk
    <2>1. n - (q + 1) \in Nat
      BY <1>1, <1>2
    <2>2. Chunk * (n - (q + 1)) >= 0
      BY <1>2, <2>1
    <2> QED
      BY <1>1, <1>2, <2>2
  <1>4. n * Chunk \in Nat
    BY <1>2
  <1>5. Chunk * q \in Nat
    BY <1>1, <1>2
  <1>6. p < n * Chunk
    <2> DEFINE a == Chunk * q
               b == n * Chunk
    <2> HIDE DEF a, b
    <2>1. a \in Nat /\ b \in Nat /\ a + Chunk <= b /\ p = a + r
      BY <1>1, <1>3, <1>4, <1>5 DEF a, b
    <2>2. p < b
      BY <1>1, <1>2, <2>1
    <2> QED
      BY <2>2 DEF b
  <1> QED
    BY <1>4, <1>6 DEF n

\* A new last chunk holds nothing yet.
LEMMA ExtendedKeeps ==
    ASSUME NEW S, NEW list \in Seq(Seq(S)), list # <<>>, NEW size
    PROVE  /\ Extended(list, size) \in Seq(Seq(S)) /\ Extended(list, size) # <<>>
           /\ Keeps(list, Extended(list, size))
           /\ \A p \in Nat : InChunks(Extended(list, size), p) # <<>> => InChunks(list, p) # <<>>
  <1>1. CASE Extended(list, size) = list
    BY <1>1 DEF Keeps
  <1>2. CASE Extended(list, size) # list
    <2> DEFINE new == Append(list, <<>>)
    <2>1. Extended(list, size) = new
      BY <1>2 DEF Extended
    <2>2. <<>> \in Seq(S) /\ Len(<<>>) = 0
      BY EmptySeq
    <2>3. /\ new \in Seq(Seq(S)) /\ new # <<>> /\ Len(new) = Len(list) + 1
          /\ \A i \in 1..Len(list) : new[i] = list[i]
          /\ new[Len(list) + 1] = <<>>
      BY <2>2, AppendProperties, SMTT(60)
    <2>4. Len(list) \in Nat /\ Len(new) = Len(list) + 1
      BY <2>3, LenProperties
    <2> HIDE DEF new
    <2>5. ASSUME NEW p \in Nat
          PROVE  (InChunks(new, p) # <<>> <=> InChunks(list, p) # <<>>)
                 /\ (InChunks(list, p) # <<>> => InChunks(new, p) = InChunks(list, p))
      <3>1. PICK q \in Nat, r \in Nat : p \div Chunk = q /\ p % Chunk = r
        BY Places
      <3>2. /\ InChunks(list, p) # <<>> <=> q < Len(list) /\ r < Len(list[q + 1])
            /\ InChunks(list, p) # <<>> => InChunks(list, p) = <<list[q + 1][r + 1]>>
            /\ InChunks(new, p) # <<>> <=> q < Len(new) /\ r < Len(new[q + 1])
            /\ InChunks(new, p) # <<>> => InChunks(new, p) = <<new[q + 1][r + 1]>>
        BY <3>1, ChunkEntry
      <3>3. CASE q < Len(list)
        <4>1. q + 1 \in 1..Len(list) /\ q < Len(new)
          BY <2>4, <3>3
        <4>2. new[q + 1] = list[q + 1]
          BY <2>3, <4>1
        <4> QED
          BY <3>2, <3>3, <4>1, <4>2
      <3>4. CASE ~(q < Len(list))
        <4>1. ~(q < Len(new) /\ r < Len(new[q + 1]))
          BY <2>2, <2>3, <2>4, <3>1, <3>4
        <4> QED
          BY <3>2, <3>4, <4>1
      <3> QED
        BY <3>3, <3>4
    <2> QED
      BY <2>1, <2>3, <2>5 DEF Keeps
  <1> QED
    BY <1>1, <1>2

\* One more entry in the last chunk: at a position that was free, below the
\* number of positions.
LEMMA InsertKeeps ==
    ASSUME NEW S, NEW list \in Seq(Seq(S)), list # <<>>, NEW e \in S, NEW size \in Nat,
           HasRoom(list, size)
    PROVE  LET new == Insert(list, e)
               at  == NextPos(list) IN
           /\ new \in Seq(Seq(S)) /\ new # <<>> /\ Keeps(list, new)
           /\ at \in Nat /\ at < size
           /\ InChunks(list, at) = <<>> /\ InChunks(new, at) = <<e>>
           /\ \A p \in Nat : InChunks(new, p) # <<>> /\ p # at => InChunks(list, p) # <<>>
  <1> DEFINE n == Len(list)
             last == list[n]
             longer == Append(last, e)
             new == Insert(list, e)
             at == NextPos(list)
  <1>1. n \in Nat /\ n > 0 /\ n \in 1..Len(list)
    BY LenProperties, EmptySeq
  <1>2. last \in Seq(S) /\ Len(last) \in Nat
    BY <1>1, ElementOfSeq, LenProperties
  <1>3. /\ longer \in Seq(S) /\ Len(longer) = Len(last) + 1
        /\ \A i \in 1..Len(last) : longer[i] = last[i]
        /\ longer[Len(last) + 1] = e
    BY <1>2, AppendProperties
  <1>4. Len(last) < Chunk /\ (n - 1) * Chunk + Len(last) < size /\ Chunk \in Nat
    BY RangesAssumption DEF HasRoom, Last
  <1>5. at = (n - 1) * Chunk + Len(last)
    BY DEF NextPos, Last
  <1>6. new = [list EXCEPT ![n] = longer]
    BY DEF Insert
  <1> HIDE DEF n, last, longer
  <1>7. /\ new \in Seq(Seq(S)) /\ Len(new) = n
        /\ \A i \in 1..n : new[i] = IF i = n THEN longer ELSE list[i]
    BY <1>1, <1>3, <1>6, ExceptSeq DEF n
  <1> HIDE DEF new
  <1>8. at \in Nat /\ at \div Chunk = n - 1 /\ at % Chunk = Len(last) /\ at < size
    <2>0. n - 1 \in Nat
      BY <1>1
    <2>1. PICK q \in Nat, r \in Nat : q = n - 1 /\ r = Len(last)
      <3> WITNESS n - 1 \in Nat, Len(last) \in Nat
      <3> QED
        OBVIOUS
    <2>2. r < Chunk /\ at = q * Chunk + r /\ at < size
      BY <1>4, <1>5, <2>1
    <2> HIDE DEF at
    <2>3. at \in Nat /\ at \div Chunk = q /\ at % Chunk = r
      BY ONLY q \in Nat, r \in Nat, <2>2, PlaceAt
    <2> QED
      BY <2>1, <2>2, <2>3
  <1> HIDE DEF at
  <1>9. ASSUME NEW p \in Nat
        PROVE  /\ p # at => (InChunks(new, p) # <<>> <=> InChunks(list, p) # <<>>)
               /\ InChunks(list, p) # <<>> => InChunks(new, p) = InChunks(list, p)
    <2>1. PICK q \in Nat, r \in Nat : p \div Chunk = q /\ p % Chunk = r /\ p = Chunk * q + r
      BY Places
    <2>2. /\ InChunks(list, p) # <<>> <=> q < n /\ r < Len(list[q + 1])
          /\ InChunks(list, p) # <<>> => InChunks(list, p) = <<list[q + 1][r + 1]>>
          /\ InChunks(new, p) # <<>> <=> q < Len(new) /\ r < Len(new[q + 1])
          /\ InChunks(new, p) # <<>> => InChunks(new, p) = <<new[q + 1][r + 1]>>
      BY <2>1, ChunkEntry DEF n
    <2>3. CASE q + 1 # n
      <3>1. q < n => new[q + 1] = list[q + 1]
        BY <1>1, <1>7, <2>1, <2>3
      <3> QED
        BY <1>7, <2>2, <3>1
    <2>4. CASE q + 1 = n
      <3>1. new[q + 1] = longer /\ list[q + 1] = last /\ q < n
        BY <1>1, <1>7, <2>1, <2>4 DEF last
      <3>2. r < Len(last) => longer[r + 1] = last[r + 1]
        <4>1. r < Len(last) => r + 1 \in 1..Len(last)
          BY <1>2
        <4> QED
          BY <1>3, <4>1
      <3>3. p # at => r # Len(last)
        <4>1. q = n - 1
          BY <1>1, <2>1, <2>4
        <4>2. p = (n - 1) * Chunk + r
          BY <1>1, <1>4, <2>1, <4>1
        <4> QED
          BY <1>5, <4>2 DEF at
      <3> QED
        BY <1>2, <1>3, <1>7, <2>1, <2>2, <3>1, <3>2, <3>3
    <2> QED
      BY <2>3, <2>4
  <1>10. InChunks(list, at) = <<>>
    <2>1. list[n - 1 + 1] = last
      BY <1>1 DEF last
    <2> QED
      BY <1>2, <1>8, <2>1, ChunkEntry
  <1>11. InChunks(new, at) = <<e>>
    <2>1. new[n - 1 + 1] = longer /\ n - 1 < Len(new) /\ Len(last) < Len(longer)
      BY <1>1, <1>2, <1>3, <1>7
    <2>2. InChunks(new, at) # <<>>
      BY <1>8, <2>1, ChunkEntry
    <2>3. InChunks(new, at) = <<longer[Len(last) + 1]>>
      BY <1>8, <2>1, <2>2, ChunkEntry
    <2> QED
      BY <1>3, <2>3
  <1>12. new # <<>>
    BY <1>1, <1>7, EmptySeq
  <1>13. Keeps(list, new)
    BY <1>9 DEF Keeps
  <1> QED
    BY <1>7, <1>8, <1>9, <1>10, <1>11, <1>12, <1>13 DEF new, at

\* Entries stay when a list takes several steps.
LEMMA KeepsTransitive ==
    ASSUME NEW a, NEW b, NEW c, Keeps(a, b), Keeps(b, c)
    PROVE  Keeps(a, c)
  BY DEF Keeps

-----------------------------------------------------------------------------
\* Everything the tables hold: names and traits are strings, those the program
\* brings along are named.
Texts == STRING \cup {Hole, Unnamed, PointerTraits, "metatype", "t1", "t2", "s4", "s8"}

(***************************************************************************)
(* The inductive invariant.  Tables hold text and stay below their limits; *)
(* every number that was given out is one of an entry of its own kind of   *)
(* table, and a name is in its table once.                                 *)
(***************************************************************************)
TablesInv ==
    /\ interfaces \in Seq(Texts) /\ Len(interfaces) <= InterfaceSize
    /\ interfaces # <<>> => Len(interfaces) >= InterfaceAdd - InterfaceBase
    /\ dynamic \in Seq(Texts) /\ Len(dynamic) <= DynamicSize
    /\ metas \in Seq(Seq(Texts))
    /\ generic \in Seq(Seq(Texts))

Grant == [id : Nat, traits : Texts, name : Texts]

OfInterface(g) ==
    /\ g.traits = PointerTraits /\ g.name # Hole
    /\ \E p \in Nat : /\ p < Len(interfaces) /\ p >= InterfaceAdd - InterfaceBase
                      /\ g.id = InterfaceBase + p /\ interfaces[p + 1] = g.name
OfBasic(g) ==
    /\ g.name = Unnamed
    /\ \E p \in Nat : p < Len(dynamic) /\ g.id = DynamicBase + p /\ dynamic[p + 1] = g.traits
OfMeta(g) ==
    /\ g.traits = PointerTraits
    /\ \E p \in Nat : /\ g.id = MetaBase + p /\ g.id <= MetaMax
                      /\ InChunks(MetaTable, p) = <<g.name>>
OfValue(g) ==
    /\ g.name = Unnamed
    /\ \E p \in Nat : /\ g.id = ValueAdd + p /\ g.id <= ValueMax
                      /\ InChunks(generic, p) = <<g.traits>>
Backed(g) == OfInterface(g) \/ OfBasic(g) \/ OfMeta(g) \/ OfValue(g)

NamedOnce(g) ==
    g.name # Unnamed =>
        /\ g.id < MetaBase => \A k \in NamedIn(InterfaceTable, g.name) : g.id = InterfaceBase + k - 1
        /\ g.id >= MetaBase => \A p \in NamedMetas(g.name) : g.id = MetaBase + p

GrantsInv ==
    /\ granted \in Seq(Grant)
    /\ \A g \in Range(granted) : Backed(g) /\ NamedOnce(g)
    /\ \A i, j \in 1..Len(granted) : granted[i].id = granted[j].id => i = j

TypesInv == TablesInv /\ GrantsInv

TypesSpec == TypesInit /\ [][TypesNext]_<<tables, granted>>

\* The tables in use, made when they are needed.
LEMMA TablesUsed ==
    ASSUME TablesInv
    PROVE  /\ InterfaceTable \in Seq(Texts) /\ MetaTable \in Seq(Seq(Texts))
           /\ GenericTable \in Seq(Seq(Texts)) /\ MetaTable # <<>> /\ GenericTable # <<>>
           /\ Len(InterfaceTable) >= InterfaceAdd - InterfaceBase
           /\ Len(InterfaceTable) <= InterfaceSize
           /\ interfaces = <<>> => Len(InterfaceTable) = InterfaceAdd - InterfaceBase
           /\ Keeps(generic, GenericTable)
  <1>1. InterfaceBase \in Nat /\ InterfaceAdd \in Nat /\ InterfaceMax \in Nat
        /\ InterfaceBase + Len(CoreInterfaces) <= InterfaceAdd /\ InterfaceAdd <= InterfaceMax
    BY RangesAssumption
  <1>2. CoreInterfaces \in Seq(Texts) /\ Len(CoreInterfaces) \in Nat
    <2>1. STRING \subseteq Texts
      BY DEF Texts
    <2>2. CoreInterfaces \in Seq(Texts)
      BY <2>1, NamesAssumption, SeqMonotonic
    <2> QED
      BY <2>2, LenProperties
  <1> DEFINE n == InterfaceAdd - InterfaceBase - Len(CoreInterfaces)
             rest == [i \in 1..n |-> Hole]
  <1>3. n \in Nat
    BY <1>1, <1>2
  <1>4. rest \in Seq(Texts) /\ Len(rest) = n
    <2> HIDE DEF n
    <2>1. rest \in [1..n -> Texts]
      <3>1. Hole \in Texts
        BY DEF Texts
      <3> QED
        BY <3>1
    <2>2. Len(rest) = n
      BY <1>3
    <2> QED
      BY <1>3, <2>1, <2>2, SeqDef
  <1> HIDE DEF rest
  <1>5. _interfaces_init = CoreInterfaces \o rest
    BY DEF _interfaces_init, rest
  <1>6. _interfaces_init \in Seq(Texts) /\ Len(_interfaces_init) = InterfaceAdd - InterfaceBase
    <2>1. CoreInterfaces \o rest \in Seq(Texts)
          /\ Len(CoreInterfaces \o rest) = Len(CoreInterfaces) + Len(rest)
      BY <1>2, <1>4, ConcatProperties
    <2> QED
      BY <1>1, <1>2, <1>4, <1>5, <2>1
  <1>7. /\ InterfaceTable \in Seq(Texts) /\ Len(InterfaceTable) >= InterfaceAdd - InterfaceBase
        /\ Len(InterfaceTable) <= InterfaceSize
        /\ interfaces = <<>> => Len(InterfaceTable) = InterfaceAdd - InterfaceBase
    BY <1>1, <1>6 DEF InterfaceTable, TablesInv, InterfaceSize
  <1>8. MetaTable \in Seq(Seq(Texts)) /\ MetaTable # <<>>
    <2>0. "metatype" \in Texts
      BY DEF Texts
    <2>1. <<"metatype">> \in Seq(Texts)
      BY <2>0, OneEntry
    <2>2. _meta_init \in Seq(Seq(Texts)) /\ _meta_init # <<>>
      BY <2>1, OneEntry DEF _meta_init
    <2> QED
      BY <2>2 DEF MetaTable, TablesInv
  <1>9. GenericTable \in Seq(Seq(Texts)) /\ GenericTable # <<>>
    <2>1. << <<>> >> \in Seq(Seq(Texts)) /\ << <<>> >> # <<>>
      <3>1. <<>> \in Seq(Texts)
        BY EmptySeq
      <3> QED
        BY <3>1, OneEntry
    <2> QED
      BY <2>1 DEF GenericTable, TablesInv
  <1>10. Keeps(generic, GenericTable)
    <2>1. CASE generic = <<>>
      <3>1. \A p \in Nat : ~(InChunks(generic, p) # <<>>)
        <4> SUFFICES ASSUME NEW p \in Nat, InChunks(generic, p) # <<>> PROVE FALSE
          OBVIOUS
        <4>1. p \div Chunk < 0
          BY <2>1, ChunkEntry
        <4> QED
          BY <4>1, Places
      <3> QED
        BY <3>1 DEF Keeps
    <2>2. CASE generic # <<>>
      BY <2>2 DEF Keeps, GenericTable
    <2> QED
      BY <2>1, <2>2
  <1> QED
    BY <1>7, <1>8, <1>9, <1>10

\* The places of a name in a list of chunks.
LEMMA ListNames ==
    ASSUME NEW list \in Seq(Seq(Texts)), NEW name, NEW p
    PROVE  p \in {q \in 0..Len(list) * Chunk - 1 : InChunks(list, q) = <<name>>}
           <=> p \in Nat /\ InChunks(list, p) = <<name>>
  <1>1. ASSUME p \in Nat, InChunks(list, p) = <<name>>
        PROVE  p \in 0..Len(list) * Chunk - 1
    <2>1. InChunks(list, p) # <<>>
      BY <1>1
    <2> QED
      BY <1>1, <2>1, EntryBelow
  <1>2. p \in 0..Len(list) * Chunk - 1 => p \in Nat
    <2>1. Len(list) * Chunk \in Nat
      BY LenProperties, RangesAssumption
    <2> QED
      BY <2>1
  <1> HIDE DEF InChunks
  <1> QED
    BY <1>1, <1>2

\* A name is registered for a metatype where a chunk holds it.
LEMMA MetaNames ==
    ASSUME TablesInv, NEW name, NEW p
    PROVE  p \in NamedMetas(name) <=> p \in Nat /\ InChunks(MetaTable, p) = <<name>>
  <1>1. MetaTable \in Seq(Seq(Texts))
    BY TablesUsed
  <1> QED
    BY <1>1, ListNames DEF NamedMetas

\* The same after a step.
LEMMA NextMetaNames ==
    ASSUME MetaTable' \in Seq(Seq(Texts)), NEW name, NEW p
    PROVE  p \in NamedMetas(name)' <=> p \in Nat /\ InChunks(MetaTable', p) = <<name>>
  <1> DEFINE list == MetaTable'
  <1>1. NamedMetas(name)' = {q \in 0..Len(list) * Chunk - 1 : InChunks(list, q) = <<name>>}
    BY DEF NamedMetas
  <1>2. list \in Seq(Seq(Texts))
    OBVIOUS
  <1> HIDE DEF list
  <1>3. p \in NamedMetas(name)' <=> p \in Nat /\ InChunks(list, p) = <<name>>
    BY <1>1, <1>2, ListNames
  <1> QED
    BY <1>3 DEF list

\* The ranges, one fact each.
LEMMA Ranges ==
    /\ InterfaceBase \in Nat /\ InterfaceAdd \in Nat /\ InterfaceMax \in Nat
    /\ DynamicBase \in Nat /\ DynamicMax \in Nat /\ MetaBase \in Nat /\ MetaMax \in Nat
    /\ ValueAdd \in Nat /\ ValueMax \in Nat
    /\ InterfaceAdd <= InterfaceMax /\ InterfaceMax < DynamicBase
    /\ InterfaceMax - InterfaceBase <= DynamicMax - DynamicBase
    /\ DynamicMax < MetaBase /\ MetaBase <= MetaMax
    /\ MetaMax < ValueAdd /\ ValueAdd <= ValueMax
    /\ InterfaceBase <= InterfaceAdd
  <1>1. CoreInterfaces \in Seq(STRING)
    BY NamesAssumption
  <1>2. Len(CoreInterfaces) \in Nat
    BY <1>1, LenProperties
  <1>3. /\ InterfaceBase \in Nat /\ InterfaceAdd \in Nat /\ InterfaceMax \in Nat
        /\ DynamicBase \in Nat /\ DynamicMax \in Nat /\ MetaBase \in Nat /\ MetaMax \in Nat
        /\ ValueAdd \in Nat /\ ValueMax \in Nat
    BY RangesAssumption, Zenon
  <1>4. /\ InterfaceAdd <= InterfaceMax /\ InterfaceMax < DynamicBase
        /\ InterfaceMax - InterfaceBase <= DynamicMax - DynamicBase
        /\ DynamicMax < MetaBase /\ MetaBase <= MetaMax
        /\ MetaMax < ValueAdd /\ ValueAdd <= ValueMax
        /\ InterfaceBase + Len(CoreInterfaces) <= InterfaceAdd
    BY RangesAssumption, Zenon
  <1> QED
    BY ONLY <1>2, <1>3, <1>4

\* The numbers of each kind of table.
LEMMA KindOfId ==
    ASSUME TablesInv, NEW g \in Grant
    PROVE  /\ OfInterface(g) => g.id \in InterfaceBase..InterfaceMax
           /\ OfBasic(g) => g.id \in DynamicBase..DynamicMax
           /\ OfMeta(g) => g.id \in MetaBase..MetaMax
           /\ OfValue(g) => g.id \in ValueAdd..ValueMax
  <1> USE Ranges
  <1>1. g.id \in Nat
    BY DEF Grant
  <1>2. OfInterface(g) => g.id \in InterfaceBase..InterfaceMax
    <2> SUFFICES ASSUME OfInterface(g) PROVE g.id \in InterfaceBase..InterfaceMax
      OBVIOUS
    <2>1. PICK p \in Nat : p < Len(interfaces) /\ g.id = InterfaceBase + p
      BY DEF OfInterface
    <2>2. Len(interfaces) \in Nat /\ Len(interfaces) <= InterfaceMax - InterfaceBase + 1
      BY LenProperties DEF TablesInv, InterfaceSize
    <2> QED
      BY <2>1, <2>2
  <1>3. OfBasic(g) => g.id \in DynamicBase..DynamicMax
    <2> SUFFICES ASSUME OfBasic(g) PROVE g.id \in DynamicBase..DynamicMax
      OBVIOUS
    <2>1. PICK p \in Nat : p < Len(dynamic) /\ g.id = DynamicBase + p
      BY DEF OfBasic
    <2>2. Len(dynamic) \in Nat /\ Len(dynamic) <= InterfaceMax - InterfaceBase + 1
      BY LenProperties DEF TablesInv, DynamicSize
    <2> QED
      BY <2>1, <2>2
  <1>4. OfMeta(g) => g.id \in MetaBase..MetaMax
    BY <1>1 DEF OfMeta
  <1>5. OfValue(g) => g.id \in ValueAdd..ValueMax
    BY <1>1 DEF OfValue
  <1> QED
    BY <1>2, <1>3, <1>4, <1>5

\* The traits of a number that was given out.
LEMMA TraitsKept ==
    ASSUME TablesInv, NEW g \in Grant, Backed(g)
    PROVE  g.id \notin Builtin /\ mpt_type_traits(g.id) = g.traits
  <1> USE Ranges
  <1>0. g.id \in Nat
    BY DEF Grant
  <1>1. g.id \notin Builtin
    <2>1. g.id \in InterfaceBase..MetaMax \cup ValueAdd..ValueMax
      BY <1>0, KindOfId DEF Backed
    <2> QED
      BY <2>1, RangesAssumption
  <1>2. CASE OfInterface(g)
    <2>1. PICK p \in Nat : /\ p < Len(interfaces) /\ p >= InterfaceAdd - InterfaceBase
                           /\ g.id = InterfaceBase + p /\ interfaces[p + 1] = g.name
      BY <1>2 DEF OfInterface
    <2>2. g.id \in InterfaceBase..InterfaceMax /\ g.id - InterfaceBase = p
      <3>1. g.id \in InterfaceBase..InterfaceMax
        BY <1>2, KindOfId
      <3> QED
        BY <2>1, <3>1
    <2>3. interfaces # <<>>
      BY <2>1, EmptySeq
    <2>4. InterfaceTable = interfaces
      BY <2>3 DEF InterfaceTable
    <2>5. mpt_interface_traits(g.id) = PointerTraits
      BY <1>2, <2>1, <2>2, <2>4 DEF mpt_interface_traits, OfInterface
    <2>6. mpt_type_traits(g.id) = mpt_interface_traits(g.id)
      BY <1>1, <2>2 DEF mpt_type_traits
    <2> QED
      BY <1>1, <1>2, <2>5, <2>6 DEF OfInterface
  <1>3. CASE OfBasic(g)
    <2>1. PICK p \in Nat : p < Len(dynamic) /\ g.id = DynamicBase + p /\ dynamic[p + 1] = g.traits
      BY <1>3 DEF OfBasic
    <2>2. g.id \in DynamicBase..DynamicMax /\ g.id - DynamicBase = p
      BY <1>3, <2>1, KindOfId
    <2>3. g.id \notin InterfaceBase..InterfaceMax
      BY <2>2
    <2>4. mpt_type_traits(g.id) = dynamic[g.id - DynamicBase + 1]
      BY <1>1, <2>1, <2>2, <2>3 DEF mpt_type_traits
    <2> QED
      BY <1>1, <2>1, <2>2, <2>4
  <1>4. CASE OfMeta(g)
    <2>1. PICK p \in Nat : /\ g.id = MetaBase + p /\ InChunks(MetaTable, p) = <<g.name>>
      BY <1>4 DEF OfMeta
    <2>2. g.id \in MetaBase..MetaMax /\ g.id - MetaBase = p
      BY <1>4, <2>1, KindOfId
    <2>3. g.id \notin InterfaceBase..InterfaceMax /\ g.id \notin DynamicBase..DynamicMax
      BY <2>2
    <2>4. mpt_type_traits(g.id) = mpt_metatype_traits(g.id)
      BY <1>1, <2>2, <2>3 DEF mpt_type_traits
    <2>5. InChunks(MetaTable, g.id - MetaBase) # <<>>
      <3>1. InChunks(MetaTable, p) # <<>>
        BY ONLY <2>1
      <3> QED
        BY ONLY <2>2, <3>1
    <2> QED
      BY <1>1, <1>4, <2>4, <2>5 DEF mpt_metatype_traits, OfMeta
  <1>5. CASE OfValue(g)
    <2>1. PICK p \in Nat : g.id = ValueAdd + p /\ InChunks(generic, p) = <<g.traits>>
      BY <1>5 DEF OfValue
    <2>2. g.id \in ValueAdd..ValueMax /\ g.id - ValueAdd = p
      BY <1>5, <2>1, KindOfId
    <2>3. /\ g.id \notin InterfaceBase..InterfaceMax /\ g.id \notin DynamicBase..DynamicMax
          /\ g.id \notin MetaBase..MetaMax /\ ~(g.id < ValueAdd)
      BY <2>2
    <2>4. InChunks(generic, g.id - ValueAdd) = <<g.traits>>
      BY <2>1, <2>2
    <2> HIDE DEF InChunks
    <2>5. mpt_type_traits(g.id) = InChunks(generic, g.id - ValueAdd)[1]
      BY <1>1, <2>3, <2>4 DEF mpt_type_traits
    <2> QED
      BY <1>1, <2>4, <2>5
  <1> QED
    BY <1>2, <1>3, <1>4, <1>5 DEF Backed

\* The number for a name that was registered.
LEMMA NameKept ==
    ASSUME TablesInv, NEW g \in Grant, Backed(g), NamedOnce(g), g.name # Unnamed,
           NEW lim \in BOOLEAN, Alias(g.name) = g.name \/ lim
    PROVE  mpt_named_traits(g.name, lim) = g.id \/ (g.id < MetaBase /\ NamedMetas(g.name) # {})
  <1> USE Ranges
  <1>0. g.id \in Nat
    BY DEF Grant
  <1> DEFINE m == NamedMetas(g.name)
             i == NamedIn(InterfaceTable, g.name)
             least(S) == CHOOSE p \in S : \A q \in S : p <= q
  <1>1. mpt_named_traits(g.name, lim) = ByName(g.name)
    BY DEF mpt_named_traits
  <1>2. ByName(g.name) = IF m # {} THEN MetaBase + least(m)
                         ELSE IF i # {} THEN InterfaceBase + least(i) - 1 ELSE 0
    BY DEF ByName
  <1>3. ASSUME NEW S, NEW x \in Nat, S = {x}
        PROVE  least(S) = x
    <2>1. x <= x /\ \A q \in S : x <= q
      BY <1>3
    <2> QED
      BY <1>3, <2>1
  <1> HIDE DEF least
  <1>4. CASE OfInterface(g)
    <2>1. PICK p \in Nat : /\ p < Len(interfaces) /\ p >= InterfaceAdd - InterfaceBase
                           /\ g.id = InterfaceBase + p /\ interfaces[p + 1] = g.name
      BY <1>4 DEF OfInterface
    <2>2. interfaces # <<>> /\ Len(interfaces) \in Nat
      BY <2>1, EmptySeq, LenProperties DEF TablesInv
    <2>3. p + 1 \in i
      BY <2>1, <2>2 DEF InterfaceTable, NamedIn
    <2>4. g.id \in InterfaceBase..InterfaceMax
      BY <1>4, KindOfId
    <2>5. g.id < MetaBase
      BY <2>4
    <2>6. \A k \in i : k \in Nat /\ g.id = InterfaceBase + k - 1
      <3>1. \A k \in i : g.id = InterfaceBase + k - 1
        BY <2>5 DEF NamedOnce
      <3> QED
        BY <3>1 DEF NamedIn
    <2>7. i = {p + 1}
      <3>1. \A k \in i : k = p + 1
        BY <2>1, <2>6
      <3> QED
        BY <2>3, <3>1
    <2>8. least(i) = p + 1
      BY <1>3, <2>7
    <2> HIDE DEF m, i
    <2>9. CASE m = {}
      BY <1>1, <1>2, <2>1, <2>3, <2>8, <2>9
    <2> QED
      BY <2>5, <2>9 DEF m
  <1>5. CASE OfMeta(g)
    <2>1. PICK p \in Nat : g.id = MetaBase + p /\ InChunks(MetaTable, p) = <<g.name>>
      BY <1>5 DEF OfMeta
    <2>2. p \in m
      BY <2>1, MetaNames
    <2>3. g.id >= MetaBase
      BY <2>1
    <2>4. \A q \in m : q \in Nat /\ g.id = MetaBase + q
      BY <2>3, MetaNames DEF NamedOnce
    <2>5. m = {p}
      <3>1. \A q \in m : q = p
        BY <2>1, <2>4
      <3> QED
        BY <2>2, <3>1
    <2>6. least(m) = p
      BY <1>3, <2>5
    <2> HIDE DEF m, i
    <2> QED
      BY <1>1, <1>2, <2>1, <2>2, <2>6
  <1> QED
    BY <1>4, <1>5 DEF Backed, OfBasic, OfValue

\* What callers hold is in their list.
LEMMA HeldGrants ==
    ASSUME NEW s \in Seq(Grant)
    PROVE  /\ Range(s) \subseteq Grant
           /\ \A g : g \in Range(s) <=> \E i \in 1..Len(s) : s[i] = g
  <1>1. DOMAIN s = 1..Len(s)
    BY LenProperties
  <1>2. \A g : g \in Range(s) <=> \E i \in 1..Len(s) : s[i] = g
    BY <1>1 DEF Range
  <1> QED
    BY <1>2, ElementOfSeq

(* The invariant implies what the registry promises. *)
LEMMA InvariantPromises == TypesInv => TypesKept
  <1> SUFFICES ASSUME TypesInv PROVE TypesKept
    OBVIOUS
  <1>1. TablesInv /\ granted \in Seq(Grant)
    BY DEF TypesInv, GrantsInv
  <1>2. ASSUME NEW g \in Range(granted)
        PROVE  g \in Grant /\ Backed(g) /\ NamedOnce(g)
    <2>1. g \in Grant
      BY <1>1, HeldGrants
    <2> QED
      BY <2>1 DEF TypesInv, GrantsInv
  <1>3. IdsKeepTraits
    BY <1>1, <1>2, TraitsKept DEF IdsKeepTraits, TypesInv, GrantsInv
  <1>4. NamesFound
    BY <1>1, <1>2, NameKept DEF NamesFound
  <1> QED
    BY <1>3, <1>4 DEF TypesKept

-----------------------------------------------------------------------------
(* Steps: entries stay, so do the numbers and names that rest on them.     *)

Stays ==
    /\ Len(interfaces) <= Len(interfaces')
    /\ \A i \in 1..Len(interfaces) : interfaces'[i] = interfaces[i]
    /\ Len(dynamic) <= Len(dynamic')
    /\ \A i \in 1..Len(dynamic) : dynamic'[i] = dynamic[i]
    /\ Keeps(MetaTable, MetaTable')
    /\ Keeps(generic, generic')

\* An entry that stays backs the same registration.
LEMMA BackedStays ==
    ASSUME TablesInv, TablesInv', Stays, NEW g, Backed(g)
    PROVE  Backed(g)'
  <1>0. /\ Len(interfaces) \in Nat /\ Len(interfaces') \in Nat
        /\ Len(dynamic) \in Nat /\ Len(dynamic') \in Nat
    BY LenProperties DEF TablesInv
  <1>1. CASE OfInterface(g)
    <2>1. PICK p \in Nat : /\ p < Len(interfaces) /\ p >= InterfaceAdd - InterfaceBase
                           /\ g.id = InterfaceBase + p /\ interfaces[p + 1] = g.name
      BY <1>1 DEF OfInterface
    <2>2. p < Len(interfaces') /\ interfaces'[p + 1] = interfaces[p + 1]
      BY <1>0, <2>1 DEF Stays
    <2> QED
      BY <1>1, <2>1, <2>2 DEF OfInterface, Backed
  <1>2. CASE OfBasic(g)
    <2>1. PICK p \in Nat : p < Len(dynamic) /\ g.id = DynamicBase + p /\ dynamic[p + 1] = g.traits
      BY <1>2 DEF OfBasic
    <2>2. p < Len(dynamic') /\ dynamic'[p + 1] = dynamic[p + 1]
      <3>1. p + 1 \in 1..Len(dynamic)
        BY <1>0, <2>1
      <3> QED
        BY <1>0, <2>1, <3>1 DEF Stays
    <2> QED
      BY <1>2, <2>1, <2>2 DEF OfBasic, Backed
  <1>3. CASE OfMeta(g)
    <2>1. PICK p \in Nat : /\ g.id = MetaBase + p /\ g.id <= MetaMax
                           /\ InChunks(MetaTable, p) = <<g.name>>
      BY <1>3 DEF OfMeta
    <2>2. InChunks(MetaTable, p) # <<>>
      BY ONLY <2>1
    <2>3. InChunks(MetaTable', p) = InChunks(MetaTable, p)
      BY <2>2 DEF Stays, Keeps
    <2> QED
      BY <1>3, <2>1, <2>3 DEF OfMeta, Backed
  <1>4. CASE OfValue(g)
    <2>1. PICK p \in Nat : /\ g.id = ValueAdd + p /\ g.id <= ValueMax
                           /\ InChunks(generic, p) = <<g.traits>>
      BY <1>4 DEF OfValue
    <2>2. InChunks(generic, p) # <<>>
      BY ONLY <2>1
    <2>3. InChunks(generic', p) = InChunks(generic, p)
      BY <2>2 DEF Stays, Keeps
    <2> QED
      BY <1>4, <2>1, <2>3 DEF OfValue, Backed
  <1> QED
    BY <1>1, <1>2, <1>3, <1>4 DEF Backed

\* No registration, no new name.
LEMMA NothingGranted ==
    ASSUME TypesInv, TablesInv', Stays, granted' = granted,
           \A g \in Range(granted) : NamedOnce(g)'
    PROVE  TypesInv'
  <1>1. \A g \in Range(granted) : Backed(g)'
    BY BackedStays DEF TypesInv, GrantsInv
  <1> QED
    BY <1>1 DEF TypesInv, GrantsInv

\* One registration with a number of its own.
LEMMA OneGranted ==
    ASSUME TypesInv, TablesInv', Stays, NEW g \in Grant, granted' = Append(granted, g),
           \A h \in Range(granted) : NamedOnce(h)' /\ h.id # g.id,
           Backed(g)', NamedOnce(g)'
    PROVE  TypesInv'
  <1>1. \A h \in Range(granted) : Backed(h)'
    BY BackedStays DEF TypesInv, GrantsInv
  <1>2. granted \in Seq(Grant)
    BY DEF TypesInv, GrantsInv
  <1> DEFINE n == Len(granted)
             new == Append(granted, g)
  <1>3. n \in Nat
    BY <1>2, LenProperties
  <1>4. /\ new \in Seq(Grant) /\ Len(new) = n + 1
        /\ \A i \in 1..n : new[i] = granted[i]
        /\ new[n + 1] = g
    BY <1>2, AppendProperties
  <1>5. \A i, j \in 1..n : granted[i].id = granted[j].id => i = j
    BY DEF TypesInv, GrantsInv
  <1>6. \A i \in 1..n : granted[i] \in Range(granted)
    BY <1>2, HeldGrants
  <1>7. granted' = new
    OBVIOUS
  <1> HIDE DEF n, new
  <1>8. \A h \in Range(new) : h = g \/ h \in Range(granted)
    <2> SUFFICES ASSUME NEW h \in Range(new) PROVE h = g \/ h \in Range(granted)
      OBVIOUS
    <2>1. PICK i \in 1..Len(new) : new[i] = h
      BY <1>4, HeldGrants
    <2> QED
      BY <1>3, <1>4, <1>6, <2>1
  <1>9. ASSUME NEW i \in 1..Len(new), NEW j \in 1..Len(new), new[i].id = new[j].id
        PROVE  i = j
    <2>1. (i = n + 1 \/ i \in 1..n) /\ (j = n + 1 \/ j \in 1..n)
      BY <1>3, <1>4
    <2> QED
      BY <1>4, <1>5, <1>6, <1>9, <2>1
  <1>10. \A h \in Range(new) : Backed(h)' /\ NamedOnce(h)'
    BY <1>1, <1>8
  <1>11. GrantsInv'
    BY <1>4, <1>7, <1>9, <1>10 DEF GrantsInv
  <1> QED
    BY <1>11 DEF TypesInv

\* Where the tables name nothing new, a name is there once as before.
LEMMA OnceStays ==
    ASSUME NEW g, NamedOnce(g),
           \A k : k \in NamedIn(InterfaceTable', g.name) => k \in NamedIn(InterfaceTable, g.name),
           \A p : p \in NamedMetas(g.name)' => p \in NamedMetas(g.name)
    PROVE  NamedOnce(g)'
  BY DEF NamedOnce

\* A table that is made for a lookup holds what it held before.
LEMMA TablesMade ==
    ASSUME TypesInv, interfaces' \in {interfaces, InterfaceTable}, metas' \in {metas, MetaTable}
    PROVE  /\ InterfaceTable' = InterfaceTable /\ MetaTable' = MetaTable
           /\ interfaces' \in Seq(Texts) /\ Len(interfaces') <= InterfaceSize
           /\ interfaces' # <<>> => Len(interfaces') >= InterfaceAdd - InterfaceBase
           /\ metas' \in Seq(Seq(Texts))
           /\ Len(interfaces) <= Len(interfaces')
           /\ \A i \in 1..Len(interfaces) : interfaces'[i] = interfaces[i]
           /\ Keeps(MetaTable, MetaTable')
  <1>0. TablesInv
    BY DEF TypesInv
  <1>1. InterfaceTable' = InterfaceTable
    BY DEF InterfaceTable
  <1>2. MetaTable' = MetaTable
    BY DEF MetaTable
  <1>3. /\ InterfaceTable \in Seq(Texts) /\ Len(InterfaceTable) <= InterfaceSize
        /\ Len(InterfaceTable) >= InterfaceAdd - InterfaceBase
        /\ MetaTable \in Seq(Seq(Texts))
    BY <1>0, TablesUsed
  <1>4. Len(<<>>) = 0 /\ Len(InterfaceTable) \in Nat /\ Len(interfaces) \in Nat
    BY <1>0, <1>3, LenProperties DEF TablesInv
  <1>5. interfaces # <<>> => interfaces' = interfaces
    BY DEF InterfaceTable
  <1>6. Len(interfaces) <= Len(interfaces') /\ \A i \in 1..Len(interfaces) : interfaces'[i] = interfaces[i]
    BY <1>4, <1>5
  <1>7. Keeps(MetaTable, MetaTable')
    BY <1>2 DEF Keeps
  <1> HIDE DEF InterfaceTable, MetaTable
  <1> QED
    BY <1>0, <1>1, <1>2, <1>3, <1>6, <1>7 DEF TablesInv

\* Lookups and refused registrations grant nothing.
LEMMA LookStep ==
    ASSUME TypesInv, interfaces' \in {interfaces, InterfaceTable}, metas' \in {metas, MetaTable},
           UNCHANGED <<dynamic, generic, granted>>
    PROVE  TypesInv'
  <1>1. TablesInv'
    BY TablesMade DEF TypesInv, TablesInv
  <1>2. Stays
    <2>1. Keeps(generic, generic')
      BY DEF Keeps
    <2>2. Len(dynamic) <= Len(dynamic') /\ \A i \in 1..Len(dynamic) : dynamic'[i] = dynamic[i]
      BY LenProperties DEF TypesInv, TablesInv
    <2> QED
      BY <2>1, <2>2, TablesMade DEF Stays
  <1>3. InterfaceTable' = InterfaceTable /\ MetaTable' = MetaTable
    BY TablesMade
  <1>4. ASSUME NEW g \in Range(granted)
        PROVE  NamedOnce(g)'
    <2>1. NamedMetas(g.name)' = NamedMetas(g.name)
      BY <1>3 DEF NamedMetas
    <2>2. NamedOnce(g)
      BY DEF TypesInv, GrantsInv
    <2> QED
      BY <1>3, <2>1, <2>2, OnceStays
  <1> QED
    BY <1>1, <1>2, <1>4, NothingGranted

\* Registration of a basic type.
LEMMA BasicStep ==
    ASSUME TypesInv, NEW size \in Texts, mpt_type_basic_add(size)
    PROVE  TypesInv'
  <1> DEFINE n == Len(dynamic)
             new == Append(dynamic, size)
             new_ == [id |-> DynamicBase + n, traits |-> size, name |-> Unnamed]
  <1>0. TablesInv /\ dynamic \in Seq(Texts)
    BY DEF TypesInv, TablesInv
  <1>1. n \in Nat /\ n < DynamicSize /\ DynamicSize \in Nat
    BY <1>0, LenProperties, Ranges DEF mpt_type_basic_add, DynamicSize
  <1>2. dynamic' = new /\ granted' = Append(granted, new_) /\ UNCHANGED <<interfaces, metas, generic>>
    BY DEF mpt_type_basic_add, Hand
  <1>3. /\ new \in Seq(Texts) /\ Len(new) = n + 1
        /\ \A i \in 1..n : new[i] = dynamic[i]
        /\ new[n + 1] = size
    BY <1>0, AppendProperties
  <1>4. new_ \in Grant
    <2>1. DynamicBase + n \in Nat /\ Unnamed \in Texts
      BY <1>1, Ranges DEF Texts
    <2> HIDE DEF n
    <2> QED
      BY <2>1 DEF Grant
  <1>8. PICK g \in Grant : /\ granted' = Append(granted, g)
                           /\ g.id = DynamicBase + n /\ g.traits = size /\ g.name = Unnamed
    <2>1. new_.id = DynamicBase + n /\ new_.traits = size /\ new_.name = Unnamed
      OBVIOUS
    <2> HIDE DEF new_
    <2> QED
      BY <1>2, <1>4, <2>1
  <1> HIDE DEF new, new_
  <1>5. TablesInv'
    <2>1. n + 1 <= DynamicSize
      BY <1>1
    <2> QED
      BY <1>0, <1>2, <1>3, <2>1 DEF TablesInv
  <1>6. InterfaceTable' = InterfaceTable /\ MetaTable' = MetaTable
    BY <1>2 DEF InterfaceTable, MetaTable
  <1>7. Stays
    <2>1. Keeps(generic, generic') /\ Keeps(MetaTable, MetaTable')
      BY <1>2, <1>6 DEF Keeps
    <2>2. Len(dynamic) <= Len(dynamic') /\ \A i \in 1..Len(dynamic) : dynamic'[i] = dynamic[i]
      BY <1>1, <1>2, <1>3
    <2>3. Len(interfaces) <= Len(interfaces')
      BY <1>0, <1>2, LenProperties DEF TablesInv
    <2> QED
      BY <1>2, <2>1, <2>2, <2>3 DEF Stays
  <1>9. Backed(g)'
    <2>1. n < Len(dynamic') /\ dynamic'[n + 1] = g.traits
      BY <1>1, <1>2, <1>3, <1>8
    <2> HIDE DEF n
    <2> QED
      BY <1>1, <1>8, <2>1 DEF Backed, OfBasic
  <1>10. NamedOnce(g)'
    BY <1>8 DEF NamedOnce
  <1>11. ASSUME NEW h \in Range(granted)
         PROVE  NamedOnce(h)' /\ h.id # g.id
    <2>1. h \in Grant /\ Backed(h) /\ NamedOnce(h)
      BY HeldGrants DEF TypesInv, GrantsInv
    <2>2. NamedMetas(h.name)' = NamedMetas(h.name)
      BY <1>6 DEF NamedMetas
    <2>3. NamedOnce(h)'
      BY <1>6, <2>1, <2>2, OnceStays
    <2>4. h.id # g.id
      <3>1. g.id \in DynamicBase..DynamicMax
        BY <1>1, <1>8, Ranges DEF DynamicSize
      <3>2. (~OfInterface(h) /\ ~OfMeta(h) /\ ~OfValue(h)) \/ h.id \notin DynamicBase..DynamicMax
        BY <1>0, <2>1, KindOfId, Ranges
      <3>3. OfBasic(h) => h.id # g.id
        BY <1>1, <1>8, Ranges DEF OfBasic
      <3> QED
        BY <2>1, <3>1, <3>2, <3>3 DEF Backed
    <2> QED
      BY <2>3, <2>4
  <1> HIDE DEF n
  <1> QED
    BY <1>5, <1>7, <1>8, <1>9, <1>10, <1>11, OneGranted

\* A list with one more entry, in a new last chunk where the last one was full.
LEMMA Grown ==
    ASSUME NEW S, NEW table \in Seq(Seq(S)), table # <<>>, NEW e \in S, NEW size \in Nat,
           NEW list, list = Extended(table, size)
    PROVE  /\ list \in Seq(Seq(S)) /\ list # <<>> /\ Keeps(table, list)
           /\ \A p \in Nat : InChunks(list, p) = InChunks(table, p)
           /\ HasRoom(list, size) =>
                /\ Insert(list, e) \in Seq(Seq(S)) /\ Insert(list, e) # <<>>
                /\ Keeps(table, Insert(list, e))
                /\ NextPos(list) \in Nat /\ NextPos(list) < size
                /\ InChunks(table, NextPos(list)) = <<>>
                /\ InChunks(Insert(list, e), NextPos(list)) = <<e>>
                /\ \A p \in Nat : p # NextPos(list) => InChunks(Insert(list, e), p) = InChunks(table, p)
  <1>1. /\ list \in Seq(Seq(S)) /\ list # <<>> /\ Keeps(table, list)
        /\ \A p \in Nat : InChunks(list, p) # <<>> => InChunks(table, p) # <<>>
    BY ExtendedKeeps
  <1>2. \A p \in Nat : InChunks(list, p) = InChunks(table, p)
    <2> HIDE DEF InChunks
    <2> QED
      BY <1>1 DEF Keeps
  <1>3. ASSUME HasRoom(list, size)
        PROVE  /\ Insert(list, e) \in Seq(Seq(S)) /\ Insert(list, e) # <<>>
               /\ Keeps(table, Insert(list, e))
               /\ NextPos(list) \in Nat /\ NextPos(list) < size
               /\ InChunks(table, NextPos(list)) = <<>>
               /\ InChunks(Insert(list, e), NextPos(list)) = <<e>>
               /\ \A p \in Nat : p # NextPos(list) => InChunks(Insert(list, e), p) = InChunks(table, p)
    <2> DEFINE new == Insert(list, e)
               at == NextPos(list)
    <2>1. /\ new \in Seq(Seq(S)) /\ new # <<>> /\ Keeps(list, new)
          /\ at \in Nat /\ at < size
          /\ InChunks(list, at) = <<>> /\ InChunks(new, at) = <<e>>
          /\ \A p \in Nat : InChunks(new, p) # <<>> /\ p # at => InChunks(list, p) # <<>>
      BY <1>1, <1>3, InsertKeeps
    <2> HIDE DEF new, at
    <2>2. Keeps(table, new)
      BY <1>1, <2>1, KeepsTransitive
    <2>3. \A p \in Nat : p # at => InChunks(new, p) = InChunks(table, p)
      BY <1>2, <2>1 DEF Keeps
    <2>4. InChunks(table, at) = <<>>
      BY <1>2, <2>1
    <2> QED
      BY <2>1, <2>2, <2>3, <2>4 DEF new, at
  <1> QED
    BY <1>1, <1>2, <1>3

\* Registration of a type for values.
LEMMA ValueStep ==
    ASSUME TypesInv, NEW traits \in Texts, mpt_type_add(traits)
    PROVE  TypesInv'
  <1> DEFINE size == ValueMax - ValueAdd + 1
  <1>0. TablesInv /\ size \in Nat /\ GenericTable \in Seq(Seq(Texts)) /\ GenericTable # <<>>
        /\ Keeps(generic, GenericTable)
    <2>1. TablesInv
      BY DEF TypesInv
    <2> QED
      BY <2>1, TablesUsed, Ranges
  <1>1. PICK list : /\ list = Extended(GenericTable, size)
                    /\ IF HasRoom(list, size)
                       THEN /\ generic' = Insert(list, traits)
                            /\ Hand(ValueAdd + NextPos(list), traits, Unnamed)
                            /\ UNCHANGED <<interfaces, dynamic, metas>>
                       ELSE generic' = list /\ UNCHANGED <<interfaces, dynamic, metas, granted>>
    BY DEF mpt_type_add
  <1> DEFINE new == Insert(list, traits)
             at == NextPos(list)
  <1> HIDE DEF size, new, at
  <1>2. /\ list \in Seq(Seq(Texts)) /\ Keeps(GenericTable, list)
        /\ HasRoom(list, size) =>
              /\ new \in Seq(Seq(Texts)) /\ Keeps(GenericTable, new)
              /\ at \in Nat /\ at < size
              /\ InChunks(GenericTable, at) = <<>>
              /\ InChunks(new, at) = <<traits>>
    BY <1>0, <1>1, Grown DEF new, at
  <1>3. UNCHANGED <<interfaces, dynamic, metas>>
    BY <1>1
  <1>4. generic' \in Seq(Seq(Texts)) /\ Keeps(generic, generic')
    <2>1. generic' = IF HasRoom(list, size) THEN new ELSE list
      BY <1>1 DEF new
    <2> QED
      BY <1>0, <1>2, <2>1, KeepsTransitive
  <1>5. TablesInv'
    BY <1>0, <1>3, <1>4 DEF TablesInv
  <1>6. InterfaceTable' = InterfaceTable /\ MetaTable' = MetaTable
    BY <1>3 DEF InterfaceTable, MetaTable
  <1>7. Stays
    <2>1. Keeps(MetaTable, MetaTable')
      BY <1>6 DEF Keeps
    <2>2. Len(interfaces) <= Len(interfaces') /\ Len(dynamic) <= Len(dynamic')
      BY <1>0, <1>3, LenProperties DEF TablesInv
    <2> QED
      BY <1>3, <1>4, <2>1, <2>2 DEF Stays
  <1>8. ASSUME NEW h \in Range(granted)
        PROVE  h \in Grant /\ Backed(h) /\ NamedOnce(h)'
    <2>1. h \in Grant /\ Backed(h) /\ NamedOnce(h)
      BY HeldGrants DEF TypesInv, GrantsInv
    <2>2. NamedMetas(h.name)' = NamedMetas(h.name)
      BY <1>6 DEF NamedMetas
    <2> QED
      BY <1>6, <2>1, <2>2, OnceStays
  <1>9. CASE ~HasRoom(list, size)
    <2>1. granted' = granted
      BY <1>1, <1>9
    <2> QED
      BY <1>5, <1>7, <1>8, <2>1, NothingGranted
  <1>10. CASE HasRoom(list, size)
    <2> DEFINE new_ == [id |-> ValueAdd + at, traits |-> traits, name |-> Unnamed]
    <2>1. granted' = Append(granted, new_) /\ generic' = new
      BY <1>1, <1>10 DEF Hand, new, at
    <2>2. new_ \in Grant
      <3>1. ValueAdd + at \in Nat /\ Unnamed \in Texts
        BY <1>2, <1>10, Ranges DEF Texts
      <3> QED
        BY <3>1 DEF Grant
    <2>3. PICK g \in Grant : /\ granted' = Append(granted, g)
                             /\ g.id = ValueAdd + at /\ g.traits = traits /\ g.name = Unnamed
      <3>1. new_.id = ValueAdd + at /\ new_.traits = traits /\ new_.name = Unnamed
        OBVIOUS
      <3> HIDE DEF new_
      <3> QED
        BY <2>1, <2>2, <3>1
    <2> HIDE DEF new_
    <2>4. g.id \in ValueAdd..ValueMax
      BY <1>2, <1>10, <2>3, Ranges DEF size
    <2>5. Backed(g)'
      <3>1. InChunks(generic', at) = <<g.traits>>
        BY <1>2, <1>10, <2>1, <2>3
      <3>2. PICK p \in Nat : p = at
        BY <1>2, <1>10
      <3>3. g.id = ValueAdd + p /\ g.id <= ValueMax /\ InChunks(generic', p) = <<g.traits>>
        BY <2>3, <2>4, <3>1, <3>2
      <3> QED
        BY <2>3, <3>3 DEF Backed, OfValue
    <2>6. NamedOnce(g)'
      BY <2>3 DEF NamedOnce
    <2>7. ASSUME NEW h \in Range(granted)
          PROVE  h.id # g.id
      <3>1. (~OfInterface(h) /\ ~OfBasic(h) /\ ~OfMeta(h)) \/ h.id \notin ValueAdd..ValueMax
        <4>1. h \in Grant /\ TablesInv
          BY <1>0, <1>8
        <4>2. /\ OfInterface(h) => h.id \in InterfaceBase..InterfaceMax
              /\ OfBasic(h) => h.id \in DynamicBase..DynamicMax
              /\ OfMeta(h) => h.id \in MetaBase..MetaMax
          BY <4>1, KindOfId
        <4> QED
          BY ONLY <4>2, Ranges
      <3>2. ASSUME OfValue(h), h.id = g.id PROVE FALSE
        <4>1. PICK p \in Nat : h.id = ValueAdd + p /\ InChunks(generic, p) = <<h.traits>>
          BY <3>2 DEF OfValue
        <4>2. p = at
          BY <1>2, <1>10, <2>3, <3>2, <4>1, Ranges
        <4>3. InChunks(generic, p) # <<>>
          BY ONLY <4>1
        <4>4. InChunks(GenericTable, p) = InChunks(generic, p)
          BY <1>0, <4>3 DEF Keeps
        <4> QED
          BY <1>2, <1>10, <4>2, <4>3, <4>4
      <3> QED
        BY <1>8, <2>4, <3>1, <3>2 DEF Backed
    <2> QED
      BY <1>5, <1>7, <1>8, <2>3, <2>5, <2>6, <2>7, OneGranted
  <1> QED
    BY <1>9, <1>10

\* Registration of a metatype, refused or not.
LEMMA MetaStep ==
    ASSUME TypesInv, NEW name \in Texts, NEW memory, mpt_type_metatype_add(name, memory)
    PROVE  TypesInv'
  <1> DEFINE size == MetaMax - MetaBase + 1
             refused == name \in ShortNames \/ (name # Unnamed /\ NamedMetas(name) # {})
  <1>0. TablesInv /\ size \in Nat /\ MetaTable \in Seq(Seq(Texts)) /\ MetaTable # <<>>
    <2>1. TablesInv
      BY DEF TypesInv
    <2> QED
      BY <2>1, TablesUsed, Ranges
  <1>1. CASE refused
    <2>1. metas' = MetaTable /\ UNCHANGED <<interfaces, dynamic, generic, granted>>
      BY <1>1 DEF mpt_type_metatype_add
    <2> QED
      BY <2>1, LookStep
  <1>2. CASE ~refused
    <2>1. PICK list : /\ list = Extended(MetaTable, size)
                      /\ IF HasRoom(list, size) /\ memory
                         THEN /\ metas' = Insert(list, name)
                              /\ Hand(MetaBase + NextPos(list), PointerTraits, name)
                              /\ UNCHANGED <<interfaces, dynamic, generic>>
                         ELSE metas' = list /\ UNCHANGED <<interfaces, dynamic, generic, granted>>
      BY <1>2 DEF mpt_type_metatype_add
    <2> DEFINE new == Insert(list, name)
               at == NextPos(list)
    <2> HIDE DEF size, new, at
    <2>2. /\ list \in Seq(Seq(Texts)) /\ list # <<>> /\ Keeps(MetaTable, list)
          /\ \A p \in Nat : InChunks(list, p) = InChunks(MetaTable, p)
          /\ HasRoom(list, size) =>
                /\ new \in Seq(Seq(Texts)) /\ new # <<>> /\ Keeps(MetaTable, new)
                /\ at \in Nat /\ at < size
                /\ InChunks(MetaTable, at) = <<>>
                /\ InChunks(new, at) = <<name>>
                /\ \A p \in Nat : p # at => InChunks(new, p) = InChunks(MetaTable, p)
      <3>1. list = Extended(MetaTable, size)
        BY <2>1
      <3>2. list \in Seq(Seq(Texts)) /\ list # <<>> /\ Keeps(MetaTable, list)
            /\ \A p \in Nat : InChunks(list, p) = InChunks(MetaTable, p)
        BY <1>0, <3>1, Grown
      <3>3. ASSUME HasRoom(list, size)
            PROVE  /\ new \in Seq(Seq(Texts)) /\ new # <<>> /\ Keeps(MetaTable, new)
                   /\ at \in Nat /\ at < size
                   /\ InChunks(MetaTable, at) = <<>>
                   /\ InChunks(new, at) = <<name>>
                   /\ \A p \in Nat : p # at => InChunks(new, p) = InChunks(MetaTable, p)
        BY <1>0, <3>1, <3>3, Grown DEF new, at
      <3> QED
        BY <3>2, <3>3
    <2>3. UNCHANGED <<interfaces, dynamic, generic>>
      BY <2>1
    <2>4. metas' = IF HasRoom(list, size) /\ memory THEN new ELSE list
      BY <2>1 DEF new
    <2>5. metas' \in Seq(Seq(Texts)) /\ MetaTable' = metas' /\ Keeps(MetaTable, MetaTable')
      <3>1. metas' # <<>>
        BY <2>2, <2>4
      <3>2. MetaTable' = metas'
        BY <3>1 DEF MetaTable
      <3> HIDE DEF MetaTable
      <3> QED
        BY <2>2, <2>4, <3>2
    <2>6. TablesInv'
      BY <1>0, <2>3, <2>5 DEF TablesInv
    <2>7. InterfaceTable' = InterfaceTable
      BY <2>3 DEF InterfaceTable
    <2>8. Stays
      <3>1. Keeps(generic, generic')
        BY <2>3 DEF Keeps
      <3>2. Len(interfaces) <= Len(interfaces') /\ Len(dynamic) <= Len(dynamic')
        BY <1>0, <2>3, LenProperties DEF TablesInv
      <3> QED
        BY <2>3, <2>5, <3>1, <3>2 DEF Stays
    <2>9. ASSUME NEW h \in Range(granted)
          PROVE  h \in Grant /\ Backed(h) /\ NamedOnce(h)
      BY HeldGrants DEF TypesInv, GrantsInv
    <2>10. CASE ~(HasRoom(list, size) /\ memory)
      <3>1. granted' = granted /\ metas' = list
        BY <2>1, <2>10
      <3>2. ASSUME NEW h \in Range(granted)
            PROVE  NamedOnce(h)'
        <4>1. \A p : p \in NamedMetas(h.name)' => p \in NamedMetas(h.name)
          BY <1>0, <2>2, <2>5, <3>1, MetaNames, NextMetaNames
        <4> QED
          BY <2>7, <2>9, <4>1, OnceStays
      <3> QED
        BY <2>6, <2>8, <3>1, <3>2, NothingGranted
    <2>11. CASE HasRoom(list, size) /\ memory
      <3> DEFINE new_ == [id |-> MetaBase + at, traits |-> PointerTraits, name |-> name]
      <3>1. granted' = Append(granted, new_) /\ metas' = new
        BY <2>1, <2>11 DEF Hand, new, at
      <3>2. new_ \in Grant
        <4>1. MetaBase + at \in Nat /\ PointerTraits \in Texts
          BY <2>2, <2>11, Ranges DEF Texts
        <4> QED
          BY <4>1 DEF Grant
      <3>3. PICK g \in Grant : /\ granted' = Append(granted, g)
                               /\ g.id = MetaBase + at /\ g.traits = PointerTraits /\ g.name = name
        <4>1. new_.id = MetaBase + at /\ new_.traits = PointerTraits /\ new_.name = name
          OBVIOUS
        <4> HIDE DEF new_
        <4> QED
          BY <3>1, <3>2, <4>1
      <3> HIDE DEF new_
      <3>4. g.id \in MetaBase..MetaMax
        BY <2>2, <2>11, <3>3, Ranges DEF size
      <3>5. PICK at_ \in Nat : at_ = at
        BY <2>2, <2>11
      <3>6. /\ InChunks(MetaTable, at_) = <<>> /\ InChunks(MetaTable', at_) = <<name>>
            /\ \A p \in Nat : p # at_ => InChunks(MetaTable', p) = InChunks(MetaTable, p)
        BY <2>2, <2>5, <2>11, <3>1, <3>5
      <3>7. Backed(g)'
        <4>1. g.id = MetaBase + at_ /\ g.id <= MetaMax /\ InChunks(MetaTable', at_) = <<g.name>>
          BY <3>3, <3>4, <3>5, <3>6
        <4> QED
          BY <3>3, <4>1 DEF Backed, OfMeta
      <3>8. \A n : \A p : p \in NamedMetas(n)' => p \in NamedMetas(n) \/ (n = name /\ p = at_)
        <4> SUFFICES ASSUME NEW n, NEW p, p \in NamedMetas(n)', p # at_ \/ n # name
                     PROVE  p \in NamedMetas(n)
          OBVIOUS
        <4>1. p \in Nat /\ InChunks(MetaTable', p) = <<n>>
          BY <2>5, NextMetaNames
        <4>2. p # at_
          BY <3>6, <4>1
        <4> QED
          BY <1>0, <3>6, <4>1, <4>2, MetaNames
      <3>9. NamedOnce(g)'
        <4>1. ASSUME name # Unnamed, NEW p, p \in NamedMetas(name)' PROVE p = at_
          BY <1>2, <3>8, <4>1
        <4>2. g.id >= MetaBase /\ ~(g.id < MetaBase) /\ MetaBase \in Nat
          BY <3>4, Ranges
        <4> QED
          BY <3>3, <3>5, <4>1, <4>2 DEF NamedOnce
      <3>10. ASSUME NEW h \in Range(granted)
             PROVE  NamedOnce(h)' /\ h.id # g.id
        <4>1. h \in Grant /\ TablesInv /\ Backed(h) /\ NamedOnce(h)
          BY <1>0, <2>9
        <4>2. (~OfInterface(h) /\ ~OfBasic(h) /\ ~OfValue(h)) \/ h.id \notin MetaBase..MetaMax
          <5>1. /\ OfInterface(h) => h.id \in InterfaceBase..InterfaceMax
                /\ OfBasic(h) => h.id \in DynamicBase..DynamicMax
                /\ OfValue(h) => h.id \in ValueAdd..ValueMax
            BY <4>1, KindOfId
          <5> QED
            BY ONLY <5>1, Ranges
        <4>3. ASSUME OfMeta(h), h.id = g.id PROVE FALSE
          <5>1. PICK p \in Nat : h.id = MetaBase + p /\ InChunks(MetaTable, p) = <<h.name>>
            BY <4>3 DEF OfMeta
          <5>2. p = at_
            BY <3>3, <3>5, <4>3, <5>1, Ranges
          <5>3. InChunks(MetaTable, p) # <<>>
            BY ONLY <5>1
          <5> QED
            BY <3>6, <5>2, <5>3
        <4>4. h.id # g.id
          BY <3>4, <4>1, <4>2, <4>3 DEF Backed
        <4>5. ASSUME h.name = name, name # Unnamed
              PROVE  NamedOnce(h)'
          <5>1. ~OfMeta(h)
            <6> SUFFICES ASSUME OfMeta(h) PROVE FALSE
              OBVIOUS
            <6>1. PICK p \in Nat : InChunks(MetaTable, p) = <<h.name>>
              BY DEF OfMeta
            <6>2. p \in NamedMetas(name)
              BY <1>0, <4>5, <6>1, MetaNames
            <6> QED
              BY <1>2, <4>5, <6>2
          <5>2. OfInterface(h)
            BY <4>1, <4>5, <5>1 DEF Backed, OfBasic, OfValue
          <5>3. h.id \in InterfaceBase..InterfaceMax
            BY <4>1, <5>2, KindOfId
          <5>4. ~(h.id >= MetaBase)
            BY <5>3, Ranges
          <5> QED
            BY <2>7, <4>1, <5>4 DEF NamedOnce
        <4>6. ASSUME h.name # name
              PROVE  NamedOnce(h)'
          BY <2>7, <3>8, <4>1, <4>6, OnceStays
        <4>7. ASSUME h.name = Unnamed
              PROVE  NamedOnce(h)'
          BY <4>7 DEF NamedOnce
        <4> QED
          BY <4>4, <4>5, <4>6, <4>7
      <3> QED
        BY <2>6, <2>8, <3>3, <3>7, <3>9, <3>10, OneGranted
    <2> QED
      BY <2>10, <2>11
  <1> QED
    BY <1>1, <1>2

\* Registration of an interface, refused or not.
LEMMA InterfaceStep ==
    ASSUME TypesInv, NEW name \in Texts, name # Hole, mpt_type_interface_add(name)
    PROVE  TypesInv'
  <1> DEFINE n == Len(InterfaceTable)
             new == Append(InterfaceTable, name)
             refused == name # Unnamed /\ (name \in ShortNames \/ NamedIn(InterfaceTable, name) # {})
  <1>0. TablesInv /\ InterfaceTable \in Seq(Texts)
    <2>1. TablesInv
      BY DEF TypesInv
    <2> QED
      BY <2>1, TablesUsed
  <1>1. CASE refused
    <2>1. interfaces' = InterfaceTable /\ UNCHANGED <<dynamic, metas, generic, granted>>
      BY <1>1 DEF mpt_type_interface_add
    <2> QED
      BY <2>1, LookStep
  <1>2. CASE ~refused
    <2> DEFINE new_ == [id |-> InterfaceBase + n, traits |-> PointerTraits, name |-> name]
    <2>1. interfaces' = new /\ granted' = Append(granted, new_) /\ UNCHANGED <<dynamic, metas, generic>>
      BY <1>2 DEF mpt_type_interface_add, Hand
    <2>2. n \in Nat /\ n < InterfaceSize /\ n >= InterfaceAdd - InterfaceBase /\ InterfaceSize \in Nat
      <3>1. n \in Nat /\ InterfaceSize \in Nat
        BY <1>0, LenProperties, Ranges DEF InterfaceSize
      <3>2. Len(interfaces) < InterfaceSize
        BY DEF mpt_type_interface_add
      <3>3. interfaces # <<>> => n = Len(interfaces)
        BY DEF InterfaceTable
      <3>4. interfaces = <<>> => n = InterfaceAdd - InterfaceBase
        BY <1>0, TablesUsed
      <3>5. n >= InterfaceAdd - InterfaceBase
        BY <1>0, TablesUsed
      <3>6. InterfaceAdd - InterfaceBase < InterfaceSize
        BY Ranges DEF InterfaceSize
      <3> HIDE DEF n
      <3> QED
        BY <3>1, <3>2, <3>3, <3>4, <3>5, <3>6
    <2>3. /\ new \in Seq(Texts) /\ Len(new) = n + 1
          /\ \A i \in 1..n : new[i] = InterfaceTable[i]
          /\ new[n + 1] = name
      BY <1>0, AppendProperties
    <2>4. PICK g \in Grant : /\ granted' = Append(granted, g)
                             /\ g.id = InterfaceBase + n /\ g.traits = PointerTraits /\ g.name = name
      <3>1. InterfaceBase + n \in Nat /\ PointerTraits \in Texts
        BY <2>2, Ranges DEF Texts
      <3> HIDE DEF n
      <3>2. new_ \in Grant
        BY <3>1 DEF Grant
      <3>3. new_.id = InterfaceBase + n /\ new_.traits = PointerTraits /\ new_.name = name
        OBVIOUS
      <3> HIDE DEF new_
      <3> QED
        BY <2>1, <3>2, <3>3
    <2> HIDE DEF new, new_
    <2>5. InterfaceTable' = new
      <3>1. new # <<>>
        BY <2>2, <2>3, EmptySeq
      <3> QED
        BY <2>1, <3>1 DEF InterfaceTable
    <2>6. MetaTable' = MetaTable
      BY <2>1 DEF MetaTable
    <2>7. PICK n_ \in Nat : n_ = n
      BY <2>2
    <2> HIDE DEF n
    <2>8. TablesInv'
      <3>1. n + 1 <= InterfaceSize /\ n + 1 >= InterfaceAdd - InterfaceBase
        BY <2>2, Ranges
      <3> QED
        BY <1>0, <2>1, <2>3, <3>1 DEF TablesInv
    <2>9. Stays
      <3>1. Keeps(generic, generic') /\ Keeps(MetaTable, MetaTable')
        BY <2>1, <2>6 DEF Keeps
      <3>2. Len(dynamic) <= Len(dynamic') /\ \A i \in 1..Len(dynamic) : dynamic'[i] = dynamic[i]
        BY <1>0, <2>1, LenProperties DEF TablesInv
      <3>3. Len(interfaces) <= Len(interfaces') /\ \A i \in 1..Len(interfaces) : interfaces'[i] = interfaces[i]
        <4>1. CASE interfaces = <<>>
          BY <2>1, <2>2, <2>3, <4>1, EmptySeq
        <4>2. CASE interfaces # <<>>
          <5>1. InterfaceTable = interfaces
            BY <4>2 DEF InterfaceTable
          <5> QED
            BY <2>1, <2>2, <2>3, <5>1 DEF n
        <4> QED
          BY <4>1, <4>2
      <3> QED
        BY <3>1, <3>2, <3>3 DEF Stays
    <2>10. g.id \in InterfaceBase..InterfaceMax
      BY <2>2, <2>4, Ranges DEF InterfaceSize
    <2>11. Backed(g)'
      <3>1. /\ n_ < Len(interfaces') /\ n_ >= InterfaceAdd - InterfaceBase
            /\ g.id = InterfaceBase + n_ /\ interfaces'[n_ + 1] = g.name
        BY <2>1, <2>2, <2>3, <2>4, <2>7
      <3> QED
        BY <2>4, <3>1 DEF Backed, OfInterface
    <2>12. ASSUME NEW text, NEW k, k \in NamedIn(InterfaceTable', text)
           PROVE  k \in NamedIn(InterfaceTable, text) \/ (text = name /\ k = n_ + 1)
      <3>1. k \in 1..n + 1 /\ new[k] = text
        BY <2>3, <2>5, <2>12 DEF NamedIn
      <3>2. CASE k = n + 1
        BY <2>3, <2>7, <3>1, <3>2
      <3>3. CASE k # n + 1
        <4>1. k \in 1..n
          BY <2>2, <3>1, <3>3
        <4> QED
          BY <2>3, <3>1, <4>1 DEF NamedIn, n
      <3> QED
        BY <3>2, <3>3
    <2>13. \A text : NamedMetas(text)' = NamedMetas(text)
      BY <2>6 DEF NamedMetas
    <2>14. NamedOnce(g)'
      <3>1. ASSUME name # Unnamed, NEW k, k \in NamedIn(InterfaceTable', name)
            PROVE  k = n_ + 1
        BY <1>2, <2>12, <3>1
      <3>2. ~(g.id >= MetaBase)
        BY <2>10, Ranges
      <3>3. g.id = InterfaceBase + (n_ + 1) - 1
        BY <2>4, <2>7, Ranges
      <3> QED
        BY <2>4, <3>1, <3>2, <3>3 DEF NamedOnce
    <2>15. ASSUME NEW h \in Range(granted)
           PROVE  NamedOnce(h)' /\ h.id # g.id
      <3>1. h \in Grant /\ TablesInv /\ Backed(h) /\ NamedOnce(h)
        BY <1>0, HeldGrants DEF TypesInv, GrantsInv
      <3>2. (~OfBasic(h) /\ ~OfMeta(h) /\ ~OfValue(h)) \/ h.id \notin InterfaceBase..InterfaceMax
        <4>1. /\ OfBasic(h) => h.id \in DynamicBase..DynamicMax
              /\ OfMeta(h) => h.id \in MetaBase..MetaMax
              /\ OfValue(h) => h.id \in ValueAdd..ValueMax
          BY <3>1, KindOfId
        <4> QED
          BY ONLY <4>1, Ranges
      <3>3. ASSUME OfInterface(h)
            PROVE  h.id # g.id /\ NamedIn(InterfaceTable, h.name) # {}
        <4>1. PICK p \in Nat : /\ p < Len(interfaces) /\ h.id = InterfaceBase + p
                               /\ interfaces[p + 1] = h.name
          BY <3>3 DEF OfInterface
        <4>2. interfaces # <<>> /\ Len(interfaces) \in Nat
          BY <1>0, <4>1, EmptySeq, LenProperties DEF TablesInv
        <4>3. InterfaceTable = interfaces
          BY <4>2 DEF InterfaceTable
        <4>4. p < n
          BY <4>1, <4>3 DEF n
        <4>5. h.id # g.id
          BY <2>2, <2>4, <4>1, <4>4, Ranges
        <4>6. p + 1 \in NamedIn(InterfaceTable, h.name)
          BY <4>1, <4>2, <4>3 DEF NamedIn
        <4> QED
          BY <4>5, <4>6
      <3>4. h.id # g.id
        BY <2>10, <3>1, <3>2, <3>3 DEF Backed
      <3>5. ASSUME h.name = name, name # Unnamed
            PROVE  NamedOnce(h)'
        <4>1. ~OfInterface(h)
          BY <1>2, <3>3, <3>5
        <4>2. OfMeta(h)
          BY <3>1, <3>5, <4>1 DEF Backed, OfBasic, OfValue
        <4>3. h.id \in MetaBase..MetaMax
          BY <3>1, <4>2, KindOfId
        <4>4. ~(h.id < MetaBase)
          BY <4>3, Ranges
        <4> QED
          BY <2>13, <3>1, <4>4 DEF NamedOnce
      <3>6. ASSUME h.name # name
            PROVE  NamedOnce(h)'
        BY <2>12, <2>13, <3>1, <3>6, OnceStays
      <3>7. ASSUME h.name = Unnamed
            PROVE  NamedOnce(h)'
        BY <3>7 DEF NamedOnce
      <3> QED
        BY <3>4, <3>5, <3>6, <3>7
    <2> QED
      BY <2>4, <2>8, <2>9, <2>11, <2>14, <2>15, OneGranted
  <1> QED
    BY <1>1, <1>2

-----------------------------------------------------------------------------
(* The invariant of all behaviours.                                        *)

\* Nothing is registered at the start, and again after exit.
LEMMA EmptyTables ==
    ASSUME NEW s, s = <<>>
    PROVE  /\ s \in Seq(Texts) /\ s \in Seq(Seq(Texts)) /\ s \in Seq(Grant)
           /\ Len(s) = 0 /\ Range(s) = {}
  <1>1. s \in Seq(Texts) /\ s \in Seq(Seq(Texts)) /\ s \in Seq(Grant) /\ Len(s) = 0
    BY EmptySeq
  <1>2. \A g : g \notin Range(s)
    <2>1. \A g : g \in Range(s) <=> \E i \in 1..Len(s) : s[i] = g
      BY <1>1, HeldGrants
    <2>2. 1..Len(s) = {}
      BY <1>1
    <2> QED
      BY <2>1, <2>2
  <1>3. Range(s) = {}
    BY <1>2
  <1> QED
    BY <1>1, <1>3

(* The invariant holds at the start. *)
LEMMA TypesInitial == TypesInit => TypesInv
  <1> SUFFICES ASSUME TypesInit PROVE TypesInv
    OBVIOUS
  <1>1. TablesInv
    BY EmptyTables, Ranges DEF TypesInit, TablesInv, InterfaceSize, DynamicSize
  <1>2. granted \in Seq(Grant) /\ Len(granted) = 0 /\ Range(granted) = {}
    BY EmptyTables DEF TypesInit
  <1>3. GrantsInv
    BY <1>2 DEF GrantsInv
  <1> QED
    BY <1>1, <1>3 DEF TypesInv

(* Every step of the registry keeps the invariant. *)
LEMMA TypesStep == TypesInv /\ [TypesNext]_<<tables, granted>> => TypesInv'
  <1> SUFFICES ASSUME TypesInv, [TypesNext]_<<tables, granted>> PROVE TypesInv'
    OBVIOUS
  <1>0. /\ \A n \in TypeNames \cup {Unnamed} : n \in Texts /\ n # Hole
        /\ \A t \in {"t1", "t2", "s4", "s8"} : t \in Texts
    <2>1. \A n \in TypeNames : n \in STRING /\ n # "hole"
      BY NamesAssumption
    <2>2. Unnamed # Hole
      BY DEF Unnamed, Hole
    <2> QED
      BY <2>1, <2>2 DEF Texts, Hole
  <1>1. CASE LookupType
    BY <1>1, LookStep DEF LookupType
  <1>2. ASSUME NEW n \in TypeNames, LookupName(n)
        PROVE  TypesInv'
    BY <1>2, LookStep DEF LookupName
  <1>3. ASSUME NEW t \in {"t1", "t2"}, mpt_type_add(t)
        PROVE  TypesInv'
    BY <1>0, <1>3, ValueStep
  <1>4. ASSUME NEW s \in {"s4", "s8"}, mpt_type_basic_add(s)
        PROVE  TypesInv'
    BY <1>0, <1>4, BasicStep
  <1>5. ASSUME NEW n \in TypeNames \cup {Unnamed}, NEW ok \in BOOLEAN, mpt_type_metatype_add(n, ok)
        PROVE  TypesInv'
    BY <1>0, <1>5, MetaStep
  <1>6. ASSUME NEW n \in TypeNames \cup {Unnamed}, mpt_type_interface_add(n)
        PROVE  TypesInv'
    BY <1>0, <1>6, InterfaceStep
  <1>7. CASE Fini
    <2>1. TablesInv'
      BY <1>7, EmptyTables, Ranges DEF Fini, TablesInv, InterfaceSize, DynamicSize
    <2>2. granted' \in Seq(Grant) /\ Len(granted') = 0 /\ Range(granted') = {}
      BY <1>7, EmptyTables DEF Fini
    <2>3. GrantsInv'
      BY <2>2 DEF GrantsInv
    <2> QED
      BY <2>1, <2>3 DEF TypesInv
  <1>8. CASE UNCHANGED <<tables, granted>>
    <2>1. interfaces' = interfaces /\ metas' = metas /\ UNCHANGED <<dynamic, generic, granted>>
      BY <1>8 DEF tables
    <2> QED
      BY <2>1, LookStep
  <1> QED
    BY <1>1, <1>2, <1>3, <1>4, <1>5, <1>6, <1>7, <1>8 DEF TypesNext

(***************************************************************************)
(* Whatever is registered and looked up in whatever order, every number    *)
(* that mpt_type_add, mpt_type_basic_add, mpt_type_metatype_add and        *)
(* mpt_type_interface_add returned keeps its traits until exit, belongs to *)
(* one registration only, and a registered name leads to its number.       *)
(***************************************************************************)
THEOREM TypesAlwaysKept == TypesSpec => []TypesKept
  <1>1. TypesInit => TypesInv
    BY TypesInitial
  <1>2. TypesInv /\ [TypesNext]_<<tables, granted>> => TypesInv'
    BY TypesStep
  <1>3. TypesInv => TypesKept
    BY InvariantPromises
  <1> QED
    BY <1>1, <1>2, <1>3, PTL DEF TypesSpec
=============================================================================
