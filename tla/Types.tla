-------------------------------- MODULE Types --------------------------------
(***************************************************************************)
(* The process wide tables of type traits (mptcore/types/type_traits.c):   *)
(* fixed entries for builtin types, tables for interfaces and basic types, *)
(* chunk lists for metatypes and generic values.  Tables are created when  *)
(* they are first used and released at exit.                               *)
(***************************************************************************)
EXTENDS Integers, Sequences, FiniteSets, SequencesExt

CONSTANTS
    Builtin,          \* ids with fixed traits: core, scalar, vector and reserved value types
    CoreInterfaces,   \* names of the interfaces the library brings along
    InterfaceBase, InterfaceAdd, InterfaceMax,
    DynamicBase, DynamicMax, MetaBase, MetaMax, ValueAdd, ValueMax,
    Chunk,            \* entries of one chunk
    TypeNames,        \* names a caller may register or ask for
    ShortNames,       \* those with less than four characters
    MaxGrants         \* bound: registrations between start and exit

\* Positions for basic types are at least as many as for interfaces.
ASSUME RangesAssumption ==
    /\ \A n \in {InterfaceBase, InterfaceAdd, InterfaceMax, DynamicBase, DynamicMax,
                 MetaBase, MetaMax, ValueAdd, ValueMax} : n \in Nat
    /\ Chunk \in Nat \ {0}
    /\ InterfaceBase + Len(CoreInterfaces) <= InterfaceAdd
    /\ InterfaceAdd <= InterfaceMax /\ InterfaceMax < DynamicBase
    /\ InterfaceMax - InterfaceBase <= DynamicMax - DynamicBase
    /\ DynamicMax < MetaBase /\ MetaBase <= MetaMax
    /\ MetaMax < ValueAdd /\ ValueAdd <= ValueMax
    /\ \A b \in Builtin : b \notin InterfaceBase..MetaMax \cup ValueAdd..ValueMax

ASSUME NamesAssumption ==
    /\ CoreInterfaces \in Seq(STRING)
    /\ TypeNames \subseteq STRING \ {"hole", "unnamed"}

VARIABLES
    interfaces,  \* interface_types: sequence of entries up to interface_pos
    dynamic,     \* dynamic_types: sizes up to dynamic_pos
    metas,       \* meta_types: sequence of chunks
    generic,     \* generic_types: sequence of chunks
    granted      \* what callers hold: records of id, traits and name, in order of registration

tables == <<interfaces, dynamic, metas, generic>>

Unnamed == "unnamed"
Hole == "hole"
NoTraits == "none"
PointerTraits == "pointer"
InterfaceSize == InterfaceMax - InterfaceBase + 1
\* The size of the table of basic types is taken from the interface range.
DynamicSize == InterfaceMax - InterfaceBase + 1

\* Interfaces of the library, followed by entries that stay empty.
_interfaces_init ==
    CoreInterfaces \o [i \in 1 .. InterfaceAdd - InterfaceBase - Len(CoreInterfaces) |-> Hole]
InterfaceTable == IF interfaces = <<>> THEN _interfaces_init ELSE interfaces

_meta_init == << <<"metatype">> >>
MetaTable == IF metas = <<>> THEN _meta_init ELSE metas
GenericTable == IF generic = <<>> THEN << <<>> >> ELSE generic

TypesInit ==
    /\ interfaces = <<>> /\ dynamic = <<>> /\ metas = <<>> /\ generic = <<>>
    /\ granted = <<>>
-----------------------------------------------------------------------------
\* Walk along the chunks: entry at a position, or nothing.
InChunks(list, pos) ==
    IF pos \div Chunk < Len(list) /\ pos % Chunk < Len(list[(pos \div Chunk) + 1])
    THEN <<list[(pos \div Chunk) + 1][(pos % Chunk) + 1]>>
    ELSE <<>>

mpt_interface_traits(type) ==
    LET pos == type - InterfaceBase IN
    IF pos < Len(InterfaceTable) /\ InterfaceTable[pos + 1] # Hole
    THEN PointerTraits ELSE NoTraits

mpt_metatype_traits(type) ==
    IF InChunks(MetaTable, type - MetaBase) = <<>> THEN NoTraits ELSE PointerTraits

mpt_type_traits(type) ==
    IF type \in Builtin THEN type
    ELSE IF type \in InterfaceBase .. InterfaceMax THEN mpt_interface_traits(type)
    ELSE IF type \in DynamicBase .. DynamicMax
    THEN IF type - DynamicBase < Len(dynamic) THEN dynamic[type - DynamicBase + 1] ELSE NoTraits
    ELSE IF type \in MetaBase .. MetaMax THEN mpt_metatype_traits(type)
    ELSE IF type < ValueAdd \/ InChunks(generic, type - ValueAdd) = <<>> THEN NoTraits
    ELSE InChunks(generic, type - ValueAdd)[1]

\* Positions of a name, metatypes come first.
NamedIn(list, name) == {i \in 1 .. Len(list) : list[i] = name}
NamedMetas(name) == {p \in 0 .. Len(MetaTable) * Chunk - 1 : InChunks(MetaTable, p) = <<name>>}
ByName(name) ==
    LET m == NamedMetas(name)
        i == NamedIn(InterfaceTable, name)
    IN  IF m # {} THEN MetaBase + (CHOOSE p \in m : \A q \in m : p <= q)
        ELSE IF i # {} THEN InterfaceBase + (CHOOSE p \in i : \A q \in i : p <= q) - 1
        ELSE 0

\* Names without length limit may be short forms.
Alias(name) ==
    CASE name = "log" -> "logger" [] name = "iter" -> "iterator"
      [] name = "out" -> "output" [] name = "meta" -> "metatype" [] OTHER -> name
mpt_named_traits(name, limited) == ByName(IF limited THEN name ELSE Alias(name))

\* The part of a description before its separator is a limited name.
mpt_alias_typeid(desc) == mpt_named_traits(desc.name, desc.symbol)
-----------------------------------------------------------------------------
Hand(id, traits, name) ==
    /\ Len(granted) < MaxGrants
    /\ granted' = Append(granted, [id |-> id, traits |-> traits, name |-> name])

\* Any lookup creates the table it needs; a name needs interfaces only if no
\* metatype has it.
LookupType ==
    /\ \/ metas' = MetaTable /\ UNCHANGED interfaces
       \/ interfaces' = InterfaceTable /\ UNCHANGED metas
    /\ UNCHANGED <<dynamic, generic, granted>>
LookupName(name) ==
    /\ metas' = MetaTable
    /\ interfaces' = IF NamedMetas(name) = {} THEN InterfaceTable ELSE interfaces
    /\ UNCHANGED <<dynamic, generic, granted>>

\* The list with room for one more entry: a full last chunk gets a successor
\* while positions remain.
Extended(list, size) ==
    IF Len(Last(list)) = Chunk /\ Len(list) * Chunk < size THEN Append(list, <<>>) ELSE list
HasRoom(list, size) ==
    /\ Len(Last(list)) < Chunk
    /\ (Len(list) - 1) * Chunk + Len(Last(list)) < size
Insert(list, e) == [list EXCEPT ![Len(list)] = Append(@, e)]

\* Mutant: a new chunk starts from the beginning of the range.
NextPos_Chunk(list) == Len(Last(list))
NextPos(list) == (Len(list) - 1) * Chunk + Len(Last(list))

mpt_type_add(traits) ==
    \E list \in {Extended(GenericTable, ValueMax - ValueAdd + 1)} :
        IF HasRoom(list, ValueMax - ValueAdd + 1)
        THEN /\ generic' = Insert(list, traits)
             /\ Hand(ValueAdd + NextPos(list), traits, Unnamed)
             /\ UNCHANGED <<interfaces, dynamic, metas>>
        ELSE generic' = list /\ UNCHANGED <<interfaces, dynamic, metas, granted>>

mpt_type_basic_add(size) ==
    /\ Len(dynamic) < DynamicSize
    /\ dynamic' = Append(dynamic, size)
    /\ Hand(DynamicBase + Len(dynamic), size, Unnamed)
    /\ UNCHANGED <<interfaces, metas, generic>>

\* The element may lack memory when its chunk is in place already.
mpt_type_metatype_add(name, memory) ==
    IF name \in ShortNames \/ (name # Unnamed /\ NamedMetas(name) # {})
    THEN metas' = MetaTable /\ UNCHANGED <<interfaces, dynamic, generic, granted>>
    ELSE \E list \in {Extended(MetaTable, MetaMax - MetaBase + 1)} :
        IF HasRoom(list, MetaMax - MetaBase + 1) /\ memory
        THEN /\ metas' = Insert(list, name)
             /\ Hand(MetaBase + NextPos(list), PointerTraits, name)
             /\ UNCHANGED <<interfaces, dynamic, generic>>
        ELSE metas' = list /\ UNCHANGED <<interfaces, dynamic, generic, granted>>

\* The limit is tested before the table may get its first entries.
mpt_type_interface_add(name) ==
    /\ Len(interfaces) < InterfaceSize
    /\ IF name # Unnamed /\ (name \in ShortNames \/ NamedIn(InterfaceTable, name) # {})
       THEN interfaces' = InterfaceTable /\ UNCHANGED granted
       ELSE /\ interfaces' = Append(InterfaceTable, name)
            /\ Hand(InterfaceBase + Len(InterfaceTable), PointerTraits, name)
    /\ UNCHANGED <<dynamic, metas, generic>>

\* Handlers of atexit release all tables, nothing granted is valid any more.
Fini ==
    /\ interfaces' = <<>> /\ dynamic' = <<>> /\ metas' = <<>> /\ generic' = <<>>
    /\ granted' = <<>>

TypesNext ==
    \/ LookupType
    \/ \E n \in TypeNames : LookupName(n)
    \/ \E t \in {"t1", "t2"} : mpt_type_add(t)
    \/ \E s \in {"s4", "s8"} : mpt_type_basic_add(s)
    \/ \E n \in TypeNames \cup {Unnamed}, ok \in BOOLEAN : mpt_type_metatype_add(n, ok)
    \/ \E n \in TypeNames \cup {Unnamed} : mpt_type_interface_add(n)
    \/ Fini
-----------------------------------------------------------------------------
\* The number mpt_type_add, mpt_type_basic_add, mpt_type_metatype_add or
\* mpt_type_interface_add returned belongs to one registration, is no builtin
\* type, and mpt_type_traits leads from it to the traits that were registered
\* however many chunks, refused names and failed allocations came in between.
IdsKeepTraits ==
    /\ \A g \in Range(granted) : g.id \notin Builtin /\ mpt_type_traits(g.id) = g.traits
    /\ \A i, j \in 1 .. Len(granted) : granted[i].id = granted[j].id => i = j

\* A registered name is found with its own number by mpt_named_traits, except
\* for an interface whose name a metatype has as well and for names that
\* mpt_named_traits takes for a short form.
NamesFound ==
    \A g \in Range(granted) :
        g.name # Unnamed =>
            LET shadowed == g.id < MetaBase /\ NamedMetas(g.name) # {} IN
            \A lim \in BOOLEAN :
                Alias(g.name) = g.name \/ lim =>
                    mpt_named_traits(g.name, lim) = g.id \/ shadowed

\* What mpt_type_add and its relatives returned stays valid until exit: each
\* number keeps its traits and each name leads to its number.
TypesKept == IdsKeepTraits /\ NamesFound
=============================================================================
