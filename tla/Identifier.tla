----------------------------- MODULE Identifier -----------------------------
(***************************************************************************)
(* Identifiers (mptcore/misc/identifier.c, mpt++/identifier.cpp): a name   *)
(* or other data of limited length, kept in the identifier itself as long  *)
(* as it fits and in a block of its own otherwise.                         *)
(*                                                                         *)
(* The address of the block, _base, lies inside the space for inline data: *)
(* cell 1..ValSize of the data are _val, the next one is _base, the        *)
(* identifiers with more space go on behind it.  A cell has a byte or the  *)
(* address of a block, a number beyond the bytes; 0 is the null pointer.   *)
(***************************************************************************)
EXTENDS Integers, Sequences, FiniteSets

CONSTANTS Idents,     \* storage for identifiers
          Addresses,  \* addresses of blocks
          IdentNames, \* names, sequences of bytes
          Sizes,      \* lengths asked for in mpt_identifier_new
          ValSize,    \* size of _val
          Header,     \* MPT_IDENT_HSZE
          NewSize,    \* smallest size of a new identifier
          SizeMax,    \* largest size of an identifier with inline data, 0x100
          LenMax      \* UINT16_MAX

VARIABLES idents, \* the identifiers: length, charset, size and cells
          blocks, \* content of the allocated blocks
          named,  \* what was last assigned to each identifier
          lost,   \* blocks of identifiers that were given up after a failure
          fault   \* the program has stopped at an undefined operation

identVars == <<idents, blocks, named, lost, fault>>

UTF8 == 1
StructSize == Header + ValSize + 1
None == [len |-> 0, charset |-> 0, max |-> 0, cells |-> <<>>]
Zeros(n) == [i \in 1..n |-> 0]
Smaller(a, b) == IF a < b THEN a ELSE b
Leading(s, n) == SubSeq(s, 1, n)

Long(id) == id.len > id.max
Base(id) == id.cells[ValSize + 1]
WithBase(id, addr) == [id EXCEPT !.cells[ValSize + 1] = addr]

\* s in front of the cells of id
Put(id, s) == [id EXCEPT !.cells = s \o SubSeq(@, Len(s) + 1, id.max)]

mpt_identifier_data(id, blk) ==
    IF Long(id) THEN (IF Base(id) \in DOMAIN blk THEN blk[Base(id)] ELSE <<>>)
    ELSE Leading(id.cells, id.len)

\* Size is at least the one of the structure.
mpt_identifier_init(size) ==
    LET n == Smaller(size - Header, SizeMax - Header) IN
    [len |-> 0, charset |-> 0, max |-> n, cells |-> Zeros(n)]

\* Doubled until it is enough, unless inline data is too small in any case.
NewLength(len) ==
    IF len + Header <= NewSize \/ len + Header > SizeMax THEN NewSize
    ELSE LET enough == {n \in 0..SizeMax : NewSize * 2^n >= len + Header} IN
         NewSize * 2^(CHOOSE n \in enough : \A k \in enough : n <= k)

-----------------------------------------------------------------------------
(* An operation results in the identifier, the blocks and its outcome:     *)
(* "done", "failed" or, for undefined operations, "fault".                 *)

Result(id, blk, outcome) == [id |-> id, blocks |-> blk, outcome |-> outcome]
Without(blk, addr) == [a \in DOMAIN blk \ {addr} |-> blk[a]]
With(blk, addr, s) == [a \in DOMAIN blk \cup {addr} |-> IF a = addr THEN s ELSE blk[a]]

Freed(id, blk, addr) ==
    IF addr = 0 THEN Result(id, blk, "done")
    ELSE IF addr \in DOMAIN blk THEN Result(id, Without(blk, addr), "done")
    ELSE Result(id, blk, "fault")

\* Data s of a name (text) or zeros; addr is the address of the block that
\* was allocated for it.
SetLong(id, blk, s, charset, addr) ==
    Freed([WithBase([id EXCEPT !.cells = Zeros(id.max)], addr)
           EXCEPT !.len = Len(s), !.charset = charset],
          With(blk, addr, s), IF Long(id) THEN Base(id) ELSE 0)

SetInline_Kept(id, blk, text, s, charset) ==
    Result([id EXCEPT !.cells = text \o Zeros(id.max - Len(text)),
                      !.len = Len(s), !.charset = charset], blk, "done")

SetInline(id, blk, text, s, charset) ==
    Freed([id EXCEPT !.cells = text \o Zeros(id.max - Len(text)),
                     !.len = Len(s), !.charset = charset],
          blk, IF Long(id) THEN Base(id) ELSE 0)

\* alloc: addresses an allocation may return, 0 when it fails.
mpt_identifier_set(id, blk, name, alloc) ==
    LET s == Append(name, 0) IN
    IF Len(s) > LenMax \/ (Len(s) > id.max /\ alloc = 0) THEN Result(id, blk, "failed")
    ELSE IF Len(s) > id.max THEN SetLong(id, blk, s, UTF8, alloc)
    ELSE SetInline(id, blk, name, s, UTF8)

\* Without a name, inline data of any length but 0 is read from the null pointer.
FromNull(id, len) == 0 < len /\ len <= id.max

\* Without a name: len bytes of other data, still zero.
SetEmpty(id, blk, len, alloc) ==
    IF len > LenMax \/ (len > id.max /\ alloc = 0) THEN Result(id, blk, "failed")
    ELSE IF len > id.max THEN SetLong(id, blk, Zeros(len), 0, alloc)
    ELSE IF FromNull(id, len) THEN Result(id, blk, "fault")
    ELSE SetInline(id, blk, <<>>, <<>>, 0)

\* Inline data is copied before the old block is freed: beyond _val it runs
\* into the address of the block, and what is freed then is no address.
OverBlock(id, from) == Long(id) /\ ValSize < from.len /\ from.len <= id.max

CopyInline(id, blk, from) ==
    LET new == [Put(id, mpt_identifier_data(from, blk))
                EXCEPT !.len = from.len, !.charset = from.charset] IN
    IF ~Long(id) THEN Result(new, blk, "done")
    ELSE IF OverBlock(id, from) THEN Result(new, blk, "fault")
    ELSE Freed(WithBase(new, 0), blk, Base(id))

CopyLong(id, blk, from, addr) ==
    Freed([WithBase(Put(id, Zeros(ValSize)), addr)
           EXCEPT !.len = from.len, !.charset = from.charset],
          With(blk, addr, mpt_identifier_data(from, blk)),
          IF Long(id) THEN Base(id) ELSE 0)

mpt_identifier_copy(id, blk, from, alloc) ==
    IF from.len <= id.max THEN CopyInline(id, blk, from)
    ELSE IF alloc = 0 THEN Result(id, blk, "failed")
    ELSE CopyLong(id, blk, from, alloc)

\* Block and data are cleared, not the length.
_identifier_fini(id, blk) ==
    IF Long(id) THEN Freed([id EXCEPT !.cells = Zeros(id.max)], blk, Base(id))
    ELSE Result(id, blk, "done")

\* 0 when equal; positions count from 1.
Differs(s, name) ==
    LET at == {i \in 1..Smaller(Len(s), Len(name)) : s[i] # name[i]} IN
    IF at = {} THEN 0 ELSE CHOOSE i \in at : \A j \in at : i <= j

BadType == -3
MissingData == -16

mpt_identifier_compare(id, blk, name) ==
    LET s == mpt_identifier_data(id, blk)
        at == Differs(s, name) IN
    IF id.charset # UTF8 THEN BadType
    ELSE IF name = <<>> /\ id.len = 0 THEN 0
    ELSE IF Len(name) + 1 # id.len THEN MissingData
    ELSE IF at # 0 THEN at
    ELSE IF s[Len(name) + 1] # 0 THEN Len(name)
    ELSE 0

\* Data without a name, of len + 1 bytes.
CompareEmpty(id, blk, len) ==
    LET s == mpt_identifier_data(id, blk) IN
    IF len = 0 /\ id.len = 0 THEN 0
    ELSE IF len + 1 # id.len THEN MissingData
    ELSE Differs(s, Zeros(len + 1))

mpt_identifier_inequal(id, cmp, blk) ==
    IF id.charset # cmp.charset THEN id.charset - cmp.charset
    ELSE IF id.len # cmp.len THEN id.len - cmp.len
    ELSE IF mpt_identifier_data(id, blk) # mpt_identifier_data(cmp, blk) THEN 1
    ELSE 0

-----------------------------------------------------------------------------
\* The sizes are numbers, those of the smallest identifiers leave room for the
\* address of a block, which is never the null pointer.
IdentConstants ==
    /\ IdentNames \subseteq Seq(Nat) /\ Sizes \subseteq Nat
    /\ Addresses \subseteq Nat \ {0}
    /\ {ValSize, Header, NewSize, SizeMax, LenMax} \subseteq Nat
    /\ NewSize > Header + ValSize /\ SizeMax > Header + ValSize
    /\ \A n \in 0..SizeMax : 2^n \in Nat /\ n < 2^n

Value(charset, s) == [charset |-> charset, data |-> s]
Empty == Value(0, <<>>)
Unassigned == Value(-1, <<>>)
\* The addresses are alike: an allocation takes the first one, or fails.
Free == {a \in Addresses : a \notin DOMAIN blocks}
Alloc == {a \in Free : \A b \in Free : a <= b} \cup {0}

IdentInit ==
    /\ idents = [i \in Idents |-> None]
    /\ blocks = <<>>
    /\ named = [i \in Idents |-> Unassigned]
    /\ lost = {}
    /\ fault = FALSE

\* Identifier i has the result r and is named v when the operation was done.
Becomes(i, r, v) ==
    /\ idents' = [idents EXCEPT ![i] = r.id]
    /\ blocks' = r.blocks
    /\ named' = IF r.outcome = "done" THEN [named EXCEPT ![i] = v] ELSE named
    /\ fault' = (r.outcome = "fault")

Live(i) == named[i] # Unassigned

\* identifier(total), and mpt_identifier_new when it does not fail.
Create(i) ==
    /\ ~Live(i)
    /\ \/ Becomes(i, Result(mpt_identifier_init(StructSize), blocks, "done"), Empty)
       \/ \E len \in Sizes :
             /\ len <= LenMax
             /\ Becomes(i, Result(mpt_identifier_init(NewLength(len)), blocks, "done"), Empty)
    /\ UNCHANGED lost

SetName(i) ==
    /\ Live(i)
    /\ \E name \in IdentNames, alloc \in Alloc :
          Becomes(i, mpt_identifier_set(idents[i], blocks, name, alloc),
                  Value(UTF8, Append(name, 0)))
    /\ UNCHANGED lost

SetData(i, len) ==
    /\ Live(i)
    /\ \E alloc \in Alloc :
          Becomes(i, SetEmpty(idents[i], blocks, len, alloc), Value(0, Zeros(len)))
    /\ UNCHANGED lost

\* operator=, mpt_identifier_copy; nothing is done for the same identifier.
Assign(i, j) ==
    /\ Live(i) /\ Live(j)
    /\ \/ i = j /\ UNCHANGED <<idents, blocks, named, fault>>
       \/ /\ i # j
          /\ \E alloc \in Alloc :
                Becomes(i, mpt_identifier_copy(idents[i], blocks, idents[j], alloc), named[j])
    /\ UNCHANGED lost

\* identifier(identifier), empty when there was no memory.
CopyConstruct(i) ==
    /\ ~Live(i)
    /\ \E j \in Idents, alloc \in Alloc :
          /\ Live(j)
          /\ LET r == mpt_identifier_copy(mpt_identifier_init(StructSize), blocks,
                                          idents[j], alloc) IN
             Becomes(i, [r EXCEPT !.outcome = "done"],
                     IF r.outcome = "done" THEN named[j] ELSE Empty)
    /\ UNCHANGED lost

\* A copy made by the traits is reported as failed, so it is given up with
\* its block; one that could not be made is reported as done.
_identifier_init(i) ==
    /\ ~Live(i) /\ lost = {}   \* bound: one block given up
    /\ \E j \in Idents, alloc \in Alloc :
          /\ Live(j)
          /\ LET r == mpt_identifier_copy(mpt_identifier_init(StructSize), blocks,
                                          idents[j], alloc) IN
             IF r.outcome = "done"
             THEN /\ blocks' = r.blocks
                  /\ lost' = lost \cup (DOMAIN r.blocks \ DOMAIN blocks)
                  /\ UNCHANGED <<idents, named, fault>>
             ELSE Becomes(i, [r EXCEPT !.outcome = "done"], Empty) /\ UNCHANGED lost

\* ~identifier clears the name, the traits only free its block.
Destroy(i) ==
    /\ Live(i)
    /\ \E r \in {SetEmpty(idents[i], blocks, 0, 0), _identifier_fini(idents[i], blocks)} :
          Becomes(i, [r EXCEPT !.id = None], Unassigned)
    /\ UNCHANGED lost

Managed(i) == Create(i) \/ SetName(i) \/ CopyConstruct(i) \/ _identifier_init(i) \/ Destroy(i)

IdentNext ==
    /\ ~fault
    /\ \E i \in Idents : \/ Managed(i)
                         \/ \E len \in Sizes : SetData(i, len)
                         \/ \E j \in Idents : Assign(i, j)

\* The two calls with an undefined result.  Nothing is known of what follows.
UndefinedCall ==
    \E i \in Idents : \/ \E len \in Sizes : FromNull(idents[i], len) /\ SetData(i, len)
                     \/ \E j \in Idents : OverBlock(idents[i], idents[j]) /\ Assign(i, j)

\* All other calls.
CarefulIdents ==
    /\ ~fault
    /\ \E i \in Idents : \/ Managed(i)
                         \/ \E len \in Sizes : ~FromNull(idents[i], len) /\ SetData(i, len)
                         \/ \E j \in Idents : ~OverBlock(idents[i], idents[j]) /\ Assign(i, j)

-----------------------------------------------------------------------------
Used == {i \in Idents : Live(i)}

(* Every identifier shows what was assigned to it last (mpt_identifier_set, *)
(* mpt_identifier_copy); comparing it with a name or another identifier     *)
(* tells the same; each allocated block belongs to exactly one identifier,  *)
(* so none is freed twice or forgotten but for the copies that the traits   *)
(* report as failed; and nothing undefined happens.  This holds for all     *)
(* calls but two (UndefinedCall): a copy that stays inline and is longer    *)
(* than _val, over an identifier with a block (identifier.c:142-144), and   *)
(* data without a name that stays inline (identifier.c:220).                *)
IdentifierKept ==
    /\ ~fault
    /\ \A i \in Used :
          /\ mpt_identifier_data(idents[i], blocks) = named[i].data
          /\ \A name \in IdentNames :
                mpt_identifier_compare(idents[i], blocks, name) = 0
                   <=> named[i] = Value(UTF8, Append(name, 0))
          /\ \A len \in Sizes :
                CompareEmpty(idents[i], blocks, len) = 0
                   <=> \/ named[i].data = Zeros(len + 1)
                       \/ len = 0 /\ named[i].data = <<>>
          /\ \A j \in Used :
                mpt_identifier_inequal(idents[i], idents[j], blocks) = 0
                   <=> named[i] = named[j]
    /\ DOMAIN blocks = lost \cup {Base(idents[i]) : i \in {k \in Used : Long(idents[k])}}
    /\ \A i, j \in {k \in Used : Long(idents[k])} :
          /\ Base(idents[i]) \notin lost
          /\ i # j => Base(idents[i]) # Base(idents[j])
=============================================================================
