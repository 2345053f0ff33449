--------------------------- MODULE CommandProofs ---------------------------
(***************************************************************************)
(* Proofs about the command array and its two users.                       *)
(*   - UniqueIds, inductive with TypeOK: overwriting a slot, appending one *)
(*     and closing the gaps each keep identifiers apart, and the           *)
(*     identifier a reservation picks has no handler;                      *)
(*   - HandlersOwned, for a dispatcher and for a connection: a context is  *)
(*     unused, finished, or in exactly one place;                          *)
(*   - ReservedIdIsNew and ImplementsRegistry, from what each operation    *)
(*     does to the set of entries.                                         *)
(***************************************************************************)
EXTENDS Dispatch, Least, FiniteSetTheorems, TLAPS

Unique(s) == \A i, j \in Active(s) : s[i].id = s[j].id => i = j

(* Overwriting a slot with an identifier no other active slot has. *)
LEMMA OverwriteUnique ==
    ASSUME NEW s \in Seq(SlotType), Unique(s),
           NEW i \in DOMAIN s, NEW id \in Nat, NEW c \in Handlers,
           \A j \in Active(s) : s[j].id = id => j = i
    PROVE  /\ Overwrite(s, i, Slot(id, c)) \in Seq(SlotType)
           /\ Len(Overwrite(s, i, Slot(id, c))) = Len(s)
           /\ Unique(Overwrite(s, i, Slot(id, c)))
  <1> DEFINE t == Overwrite(s, i, Slot(id, c))
  <1>1. Slot(id, c) \in SlotType
    BY DEF Slot, SlotType
  <1>2. t \in Seq(SlotType) /\ Len(t) = Len(s) /\ DOMAIN t = DOMAIN s
    BY <1>1 DEF Overwrite
  <1>3. \A j \in DOMAIN s : t[j] = IF j = i THEN Slot(id, c) ELSE s[j]
    BY DEF Overwrite
  <1>4. \A j \in Active(t) : j = i \/ (j \in Active(s) /\ t[j] = s[j])
    BY <1>2, <1>3 DEF Active
  <1>5. t[i].id = id
    BY <1>3 DEF Slot
  <1>6. Unique(t)
    BY <1>4, <1>5 DEF Unique
  <1> QED
    BY <1>2, <1>6

(* Appending a slot with an identifier without handler. *)
LEMMA AppendUnique ==
    ASSUME NEW s \in Seq(SlotType), Unique(s), NEW id \in Nat, NEW c \in Handlers,
           \A j \in Active(s) : s[j].id # id
    PROVE  /\ Append(s, Slot(id, c)) \in Seq(SlotType)
           /\ Len(Append(s, Slot(id, c))) = Len(s) + 1
           /\ Unique(Append(s, Slot(id, c)))
  <1> DEFINE t == Append(s, Slot(id, c))
             n == Len(s) + 1
  <1>1. Slot(id, c) \in SlotType
    BY DEF Slot, SlotType
  <1>2. t \in Seq(SlotType) /\ Len(t) = n /\ DOMAIN t = 1..n
    BY <1>1
  <1>3. \A j \in 1..n : t[j] = IF j = n THEN Slot(id, c) ELSE s[j]
    BY <1>1
  <1>4. \A j \in Active(t) : j = n \/ (j \in Active(s) /\ t[j] = s[j])
    BY <1>2, <1>3 DEF Active
  <1>5. t[n].id = id
    BY <1>3 DEF Slot
  <1>6. Unique(t)
    BY <1>4, <1>5 DEF Unique
  <1> QED
    BY <1>2, <1>6

(* An identifier that is not found has no handler. *)
LEMMA NotFound ==
    ASSUME NEW s \in Seq(SlotType), Unique(s), NEW id, mpt_command_find(s, id) = {}
    PROVE  id \notin ActiveIds(s)
  <1> SUFFICES ASSUME NEW j \in Active(s), s[j].id = id PROVE FALSE
    BY DEF ActiveIds
  <1>1. \A k \in Active(s) : s[k].id = id => j <= k
    <2>1. j \in Nat
      BY DEF Active
    <2> QED
      BY <2>1 DEF Unique
  <1> QED
    BY <1>1 DEF mpt_command_find

\* The slots with a handler can be counted.
LEMMA ActiveFinite ==
    ASSUME NEW s \in Seq(SlotType)
    PROVE  /\ IsFiniteSet(Active(s))
           /\ Cardinality(Active(s)) \in Nat
           /\ Cardinality(Active(s)) <= Len(s)
  <1>0. Len(s) \in Nat /\ 1 \in Int /\ Len(s) \in Int
    OBVIOUS
  <1>1. IsFiniteSet(1..Len(s)) /\ Cardinality(1..Len(s)) = Len(s)
    <2>1. /\ IsFiniteSet(1..Len(s))
          /\ Cardinality(1..Len(s)) = IF 1 > Len(s) THEN 0 ELSE Len(s) - 1 + 1
      BY <1>0, FS_Interval, Zenon
    <2> QED
      BY <1>0, <2>1
  <1>2. Active(s) \in SUBSET (1..Len(s))
    BY DEF Active
  <1> QED
    BY <1>1, <1>2, FS_Subset, FS_CardinalityType

(* Closing the gaps keeps the handlers, under the identifiers they had. *)
LEMMA PackedUnique ==
    ASSUME NEW s \in Seq(SlotType), Unique(s), NEW f \in Order(s)
    PROVE  /\ Packed(s, f) \in Seq(SlotType)
           /\ Len(Packed(s, f)) = Cardinality(Active(s))
           /\ Len(Packed(s, f)) <= Len(s)
           /\ Unique(Packed(s, f))
           /\ ActiveIds(Packed(s, f)) \subseteq ActiveIds(s)
  <1> DEFINE n == Cardinality(Active(s))
             t == Packed(s, f)
  <1>1. n \in Nat /\ n <= Len(s)
    BY ActiveFinite
  <1>2. f \in [1..n -> Active(s)] /\ \A i, j \in 1..n : i < j => f[i] < f[j]
    BY DEF Order
  <1>3. Active(s) \subseteq Nat
    BY DEF Active
  <1>4. t = [k \in 1..n |-> s[f[k]]]
    BY <1>2 DEF Packed
  <1>5. \A k \in 1..n : s[f[k]] \in SlotType
    BY <1>2 DEF Active
  <1>6. t \in Seq(SlotType) /\ Len(t) = n /\ DOMAIN t = 1..n
    BY <1>1, <1>4, <1>5
  <1>7. \A i, j \in 1..n : f[i] = f[j] => i = j
    <2> SUFFICES ASSUME NEW i \in 1..n, NEW j \in 1..n, f[i] = f[j], i # j PROVE FALSE
      OBVIOUS
    <2>1. i < j \/ j < i
      BY <1>1
    <2>2. f[i] \in Nat /\ f[j] \in Nat
      BY <1>2, <1>3
    <2> QED
      BY <1>2, <2>1, <2>2
  <1>8. Unique(t)
    BY <1>2, <1>4, <1>6, <1>7 DEF Unique, Active
  <1>9. ActiveIds(t) \subseteq ActiveIds(s)
    <2>1. \A k \in Active(t) : f[k] \in Active(s) /\ t[k].id = s[f[k]].id
      BY <1>2, <1>4, <1>6 DEF Active
    <2> HIDE DEF t
    <2> QED
      BY <2>1 DEF ActiveIds
  <1> QED
    BY <1>1, <1>6, <1>8, <1>9

(* The identifier a reservation picks is in the range and has no handler. *)
LEMMA FreeIdUnused ==
    ASSUME NEW s \in Seq(SlotType), NEW mid \in FreeId(s)
    PROVE  mid \in 1..MaxId /\ mid \notin ActiveIds(s)
  <1>1. mid \in 1..MaxId /\ mid \in Nat
    BY RangeAssumption DEF FreeId
  <1>2. \A i \in Active(s) : i \in DOMAIN s /\ s[i].id \in Nat
    <2>1. \A i \in DOMAIN s : s[i] \in SlotType
      OBVIOUS
    <2> QED
      BY <2>1 DEF Active, SlotType
  <1>3. CASE \A i \in DOMAIN s : s[i].id < MaxId
    <2>1. \A i \in DOMAIN s : s[i].id < mid
      BY <1>3 DEF FreeId
    <2> QED
      BY <1>1, <1>2, <2>1 DEF ActiveIds
  <1>4. CASE ~ \A i \in DOMAIN s : s[i].id < MaxId
    BY <1>1, <1>4 DEF FreeId
  <1> QED
    BY <1>3, <1>4

(* Type correctness of the parts every operation treats alike. *)
LEMMA EndTyped ==
    ASSUME TypeOK, NEW c
    PROVE  End(c) \in [Contexts -> Nat]
  BY DEF TypeOK, End

\* Each context is finalised a natural number of times.
LEMMA EndAllTyped ==
    ASSUME TypeOK
    PROVE  EndAll(slots) \in [Contexts -> Nat]
  <1>1. ASSUME NEW x \in Contexts
        PROVE  Cardinality({i \in DOMAIN slots : slots[i].cmd = x}) \in Nat
    <2>1. Len(slots) \in Nat /\ 1 \in Int /\ Len(slots) \in Int
      BY DEF TypeOK
    <2>2. IsFiniteSet(1..Len(slots))
      BY <2>1, FS_Interval, Zenon
    <2>3. {i \in DOMAIN slots : slots[i].cmd = x} \in SUBSET (1..Len(slots))
      BY DEF TypeOK
    <2> QED
      BY <2>2, <2>3, FS_Subset, FS_CardinalityType
  <1> QED
    BY <1>1 DEF TypeOK, EndAll

\* Memory is at least as much as asked for.
LEMMA AllocatedFits ==
    ASSUME NEW n \in Nat, NEW m \in Allocated(n)
    PROVE  m \in Nat /\ n <= m
  BY SlotsAssumption DEF Allocated

\* A call and its result.
LEMMA CalledTyped ==
    ASSUME NEW op \in Calls, NEW ret \in Nat
    PROVE  Called(op, ret) \in [op : Calls, ret : Nat]
  BY DEF Called

\* The array begins empty.
LEMMA InitInv == Init => TypeOK /\ UniqueIds
  <1> SUFFICES ASSUME Init PROVE TypeOK /\ UniqueIds
    OBVIOUS
  <1>1. Active(slots) = {}
    BY DEF Init, Active
  <1>2. ended \in [Contexts -> Nat]
    BY DEF Init
  <1>3. slots \in Seq(SlotType) /\ Len(slots) = 0
    BY DEF Init
  <1> QED
    <2>1. call \in [op : Calls, ret : Nat]
      BY CalledTyped DEF Init, Calls
    <2>2. UniqueIds
      BY <1>1 DEF UniqueIds
    <2>3. kind = "none" /\ size = 0 /\ given = {}
      BY DEF Init
    <2> QED
      BY <1>2, <1>3, <2>1, <2>2, <2>3 DEF TypeOK

(* mpt_command_set, for the four outcomes that store a handler. *)
LEMMA SetInv ==
    ASSUME TypeOK, Unique(slots), NEW id \in Ids, NEW c \in Fresh \cup {Null},
           mpt_command_set(id, c)
    PROVE  TypeOK' /\ Unique(slots')
  <1>0. /\ slots \in Seq(SlotType) /\ size \in Nat /\ Len(slots) <= size
        /\ Len(slots) \in Nat /\ id \in Nat /\ c \in Handlers
    BY IdsAssumption DEF TypeOK, Handlers, Fresh
  <1>1. given \subseteq Contexts /\ ({c} \cap Contexts) \subseteq Contexts
    BY DEF TypeOK
  <1>2. Called("set", 0) \in [op : Calls, ret : Nat] /\ Called("set", 1) \in [op : Calls, ret : Nat]
        /\ Called("set", 2) \in [op : Calls, ret : Nat] /\ Called("refused", 0) \in [op : Calls, ret : Nat]
    BY CalledTyped DEF Calls
  <1>3. CASE SetFound(id, c)
    <2>1. PICK i \in mpt_command_find(slots, id) :
            /\ slots' = Overwrite(slots, i, Slot(slots[i].id, c))
            /\ ended' = End(slots[i].cmd)
      BY <1>3 DEF SetFound
    <2>2. i \in DOMAIN slots /\ i \in Active(slots)
      BY DEF mpt_command_find, Active
    <2>3. slots[i].id \in Nat
      <3>1. slots[i] \in SlotType
        BY <1>0, <2>2
      <3> QED
        BY <3>1 DEF SlotType
    <2>4. \A j \in Active(slots) : slots[j].id = slots[i].id => j = i
      BY <2>2 DEF Unique
    <2>5. slots' \in Seq(SlotType) /\ Len(slots') = Len(slots) /\ Unique(slots')
      <3> DEFINE t == Overwrite(slots, i, Slot(slots[i].id, c))
      <3>1. t \in Seq(SlotType) /\ Len(t) = Len(slots) /\ Unique(t)
        BY <1>0, <2>2, <2>3, <2>4, OverwriteUnique
      <3>2. slots' = t
        BY <2>1
      <3> HIDE DEF t
      <3> QED
        BY <3>1, <3>2
    <2>6. ended' \in [Contexts -> Nat]
      BY <2>1, EndTyped
    <2>7. call' \in [op : Calls, ret : Nat] /\ kind' = kind /\ size' = size
      BY <1>2, <1>3 DEF SetFound
    <2>8. given' \subseteq Contexts
      BY <1>1, <1>3 DEF SetFound, Give
    <2> QED
      BY <1>0, <2>5, <2>6, <2>7, <2>8 DEF TypeOK
  <1>4. CASE SetFirst(id, c)
    <2>1. << >> \in Seq(SlotType) /\ Unique(<< >>) /\ Active(<< >>) = {} /\ Len(<< >>) = 0
      BY DEF Unique, Active
    <2>2. Append(<< >>, Slot(id, c)) = <<Slot(id, c)>>
      OBVIOUS
    <2>3. /\ Append(<< >>, Slot(id, c)) \in Seq(SlotType)
          /\ Len(Append(<< >>, Slot(id, c))) = Len(<< >>) + 1
          /\ Unique(Append(<< >>, Slot(id, c)))
      BY <1>0, <2>1, AppendUnique
    <2>4. slots' \in Seq(SlotType) /\ Len(slots') = 1 /\ Unique(slots')
      BY <1>4, <2>1, <2>2, <2>3 DEF SetFirst
    <2>5. size' \in Nat /\ 1 <= size'
      BY <1>4, AllocatedFits DEF SetFirst
    <2>6. call' \in [op : Calls, ret : Nat] /\ kind' = "typed" /\ ended' = ended
      BY <1>2, <1>4 DEF SetFirst
    <2>7. given' \subseteq Contexts
      BY <1>1, <1>4 DEF SetFirst, Give
    <2> QED
      BY <1>0, <2>4, <2>5, <2>6, <2>7 DEF TypeOK
  <1>5. CASE SetEmpty(id, c)
    <2>1. PICK i \in mpt_command_empty(slots) : slots' = Overwrite(slots, i, Slot(id, c))
      BY <1>5 DEF SetEmpty
    <2>2. i \in DOMAIN slots
      BY DEF mpt_command_empty
    <2>3. \A j \in Active(slots) : slots[j].id = id => j = i
      BY <1>0, <1>5, NotFound DEF SetEmpty, ActiveIds
    <2>4. slots' \in Seq(SlotType) /\ Len(slots') = Len(slots) /\ Unique(slots')
      <3> DEFINE t == Overwrite(slots, i, Slot(id, c))
      <3>1. t \in Seq(SlotType) /\ Len(t) = Len(slots) /\ Unique(t)
        BY <1>0, <2>2, <2>3, OverwriteUnique
      <3>2. slots' = t
        BY <2>1
      <3> HIDE DEF t
      <3> QED
        BY <3>1, <3>2
    <2>5. call' \in [op : Calls, ret : Nat] /\ kind' = kind /\ size' = size /\ ended' = ended
      BY <1>2, <1>5 DEF SetEmpty
    <2>6. given' \subseteq Contexts
      BY <1>1, <1>5 DEF SetEmpty, Give
    <2> QED
      BY <1>0, <2>4, <2>5, <2>6 DEF TypeOK
  <1>6. CASE SetAppend(id, c)
    <2>1. \A j \in Active(slots) : slots[j].id # id
      BY <1>0, <1>6, NotFound DEF SetAppend, ActiveIds
    <2>2. slots' \in Seq(SlotType) /\ Len(slots') = Len(slots) + 1 /\ Unique(slots')
      BY <1>0, <1>6, <2>1, AppendUnique DEF SetAppend
    <2>3. size' \in Nat /\ Len(slots) + 1 <= size'
      BY <1>0, <1>6, AllocatedFits DEF SetAppend, Fits
    <2>4. call' \in [op : Calls, ret : Nat] /\ kind' = kind /\ kind # "none" /\ ended' = ended
      BY <1>2, <1>6 DEF SetAppend
    <2>5. given' \subseteq Contexts
      BY <1>1, <1>6 DEF SetAppend, Give
    <2> QED
      BY <2>2, <2>3, <2>4, <2>5 DEF TypeOK
  <1>7. CASE SetFails(id, c)
    BY <1>2, <1>7 DEF SetFails, Keep, TypeOK, Unique, Active
  <1> QED
    BY <1>3, <1>4, <1>5, <1>6, <1>7 DEF mpt_command_set

(* Calls that only close the gaps of the array. *)
LEMMA PackedInv ==
    ASSUME TypeOK, Unique(slots), NEW f \in Order(slots), slots' = Packed(slots, f),
           kind' = kind, size' = size, given' = given, ended' = ended,
           call' \in [op : Calls, ret : Nat]
    PROVE  TypeOK' /\ Unique(slots')
  <1>0. slots \in Seq(SlotType) /\ size \in Nat /\ Len(slots) \in Nat /\ Len(slots) <= size
    BY DEF TypeOK
  <1>1. slots' \in Seq(SlotType) /\ Len(slots') <= Len(slots) /\ Unique(slots')
    BY <1>0, PackedUnique
  <1>2. Len(slots') \in Nat
    BY <1>1
  <1>3. Len(slots') <= size'
    BY <1>0, <1>1, <1>2
  <1> QED
    BY <1>1, <1>3 DEF TypeOK

\* `mpt_command_reserve` takes an identifier no slot has.
LEMMA ReserveInv ==
    ASSUME TypeOK, Unique(slots), NEW c \in Fresh \cup {Log}, mpt_command_reserve(c)
    PROVE  TypeOK' /\ Unique(slots')
  <1>0. /\ slots \in Seq(SlotType) /\ size \in Nat /\ Len(slots) <= size
        /\ Len(slots) \in Nat /\ c \in Handlers /\ Null \in Handlers
    BY DEF TypeOK, Handlers, Fresh
  <1>1. given \subseteq Contexts /\ ({c} \cap Contexts) \subseteq Contexts
    BY DEF TypeOK
  <1>2. \A n \in Nat : Called("reserve", n) \in [op : Calls, ret : Nat]
    BY CalledTyped DEF Calls
  <1>3. Called("refused", 0) \in [op : Calls, ret : Nat]
    BY CalledTyped DEF Calls
  <1>4. CASE ReserveFirst(c)
    <2>1. FirstSlots \in Nat /\ FirstSlots >= 1
      BY SlotsAssumption
    <2>2. Slot(1, c) \in SlotType /\ Slot(0, Null) \in SlotType /\ Slot(0, Null).cmd = Null
      BY <1>0 DEF Slot, SlotType
    <2>3. /\ slots' = [k \in 1..FirstSlots |-> IF k = 1 THEN Slot(1, c) ELSE Slot(0, Null)]
      BY <1>4 DEF ReserveFirst
    <2>4. slots' \in Seq(SlotType) /\ Len(slots') = FirstSlots /\ DOMAIN slots' = 1..FirstSlots
      BY <2>1, <2>2, <2>3
    <2>5. \A i \in Active(slots') : i = 1
      BY <2>2, <2>3, <2>4 DEF Active
    <2>6. Unique(slots')
      BY <2>5 DEF Unique
    <2>7. size' \in Nat /\ FirstSlots <= size'
      BY <1>4, <2>1, AllocatedFits DEF ReserveFirst
    <2>8. call' \in [op : Calls, ret : Nat] /\ kind' = "raw" /\ ended' = ended
      BY <1>2, <1>4 DEF ReserveFirst
    <2>9. given' \subseteq Contexts
      BY <1>1, <1>4 DEF ReserveFirst, Give
    <2> QED
      BY <2>4, <2>6, <2>7, <2>8, <2>9 DEF TypeOK
  <1>5. CASE ReserveNext(c)
    <2>1. PICK f \in Order(slots), mid \in FreeId(slots) :
            /\ slots' = Append(Packed(slots, f), Slot(mid, c))
            /\ IF Fits(Len(Packed(slots, f)) + 1)
               THEN size' = size ELSE size' \in Allocated(Len(Packed(slots, f)) + 1)
            /\ call' = Called("reserve", mid)
      BY <1>5 DEF ReserveNext
    <2> DEFINE t == Packed(slots, f)
    <2>2. t \in Seq(SlotType) /\ Len(t) \in Nat /\ Unique(t) /\ ActiveIds(t) \subseteq ActiveIds(slots)
      BY <1>0, PackedUnique
    <2>3. mid \in Nat /\ mid \notin ActiveIds(slots)
      BY <1>0, RangeAssumption, FreeIdUnused
    <2> HIDE DEF t
    <2>4. \A j \in Active(t) : t[j].id # mid
      BY <2>2, <2>3 DEF ActiveIds
    <2>5. slots' \in Seq(SlotType) /\ Len(slots') = Len(t) + 1 /\ Unique(slots')
      BY <1>0, <2>1, <2>2, <2>3, <2>4, AppendUnique DEF t
    <2>6. size' \in Nat /\ Len(t) + 1 <= size'
      BY <1>0, <2>1, <2>2, AllocatedFits DEF Fits, t
    <2>7. call' \in [op : Calls, ret : Nat]
      BY <1>2, <2>1, <2>3
    <2>8. kind' = "raw" /\ ended' = ended
      BY <1>5 DEF ReserveNext
    <2>9. given' \subseteq Contexts
      BY <1>1, <1>5 DEF ReserveNext, Give
    <2> QED
      BY <2>5, <2>6, <2>7, <2>8, <2>9 DEF TypeOK
  <1>6. CASE ReserveExhausted
    BY <1>2, <1>6, PackedInv DEF ReserveExhausted, Keep
  <1>7. CASE ReserveTyped
    BY <1>2, <1>7, PackedInv DEF ReserveTyped, Keep
  <1>8. CASE ReserveFails
    <2>1. CASE kind = "none"
      BY <1>3, <1>8, <2>1 DEF ReserveFails, Keep, TypeOK, Unique, Active
    <2>2. CASE kind # "none"
      BY <1>3, <1>8, <2>2, PackedInv DEF ReserveFails, Keep
    <2> QED
      BY <2>1, <2>2
  <1> QED
    BY <1>4, <1>5, <1>6, <1>7, <1>8 DEF mpt_command_reserve

(* mpt_command_clear, alone and before the buffer is dropped. *)
LEMMA ClearInv ==
    ASSUME TypeOK, mpt_command_clear \/ Fini
    PROVE  TypeOK' /\ Unique(slots')
  <1>1. slots' = << >> /\ slots' \in Seq(SlotType) /\ Len(slots') = 0 /\ Active(slots') = {}
    <2>1. slots' = << >>
      BY DEF mpt_command_clear, Fini
    <2> QED
      BY <2>1 DEF Active
  <1>2. ended' \in [Contexts -> Nat]
    BY EndAllTyped DEF mpt_command_clear, Fini
  <1>3. call' \in [op : Calls, ret : Nat]
    BY CalledTyped DEF mpt_command_clear, Fini, Calls
  <1>4. size' \in Nat /\ 0 <= size' /\ given' \subseteq Contexts /\ kind' \in {"none", "raw", "typed"}
    BY DEF mpt_command_clear, Fini, TypeOK
  <1>5. kind' = "none" => size' = 0
    BY DEF mpt_command_clear, Fini
  <1>6. Unique(slots')
    BY <1>1 DEF Unique
  <1> QED
    BY <1>1, <1>2, <1>3, <1>4, <1>5, <1>6 DEF TypeOK

(* mpt_stream_sync: an answered slot becomes unused, gaps may be closed. *)
LEMMA SyncInv ==
    ASSUME TypeOK, Unique(slots), NEW id, mpt_stream_sync(id)
    PROVE  TypeOK' /\ Unique(slots')
  <1>0. /\ slots \in Seq(SlotType) /\ size \in Nat /\ Len(slots) <= size
        /\ Len(slots) \in Nat /\ Null \in Handlers
    BY DEF TypeOK, Handlers
  <1>1. ASSUME NEW left \in Seq(SlotType), Unique(left), Len(left) = Len(slots),
               NEW last, Synced(left, last)
        PROVE  slots' \in Seq(SlotType) /\ Unique(slots') /\ Len(slots') <= size
    <2>1. CASE slots' = left
      BY <1>0, <1>1, <2>1
    <2>2. CASE \E f \in Order(left) : slots' = Packed(left, f)
      <3>1. PICK f \in Order(left) : slots' = Packed(left, f)
        BY <2>2
      <3>2. slots' \in Seq(SlotType) /\ Unique(slots') /\ Len(slots') <= Len(left)
        BY <1>1, <3>1, PackedUnique
      <3>3. Len(slots') \in Nat /\ Len(left) \in Nat
        BY <1>1, <3>2
      <3> QED
        BY <1>0, <1>1, <3>2, <3>3
    <2> QED
      BY <1>1, <2>1, <2>2 DEF Synced
  <1>2. ASSUME NEW s \in Seq(SlotType)
        PROVE  Called("sync", Cardinality(Active(s))) \in [op : Calls, ret : Nat]
    BY ActiveFinite, CalledTyped DEF Calls
  <1>3. PICK fails \in BOOLEAN : Answer(id, fails) \/ AnswerUnknown(id, fails)
    BY DEF mpt_stream_sync
  <1>4. CASE Answer(id, fails)
    <2>1. PICK i \in mpt_command_find(slots, id) :
            LET left == Overwrite(slots, i, Slot(slots[i].id, Null))
            IN  /\ Synced(left, fails \/ Active(left) = {})
                /\ ended' = End(slots[i].cmd)
                /\ call' = Called("sync", Cardinality(Active(left)))
                /\ UNCHANGED <<kind, size, given>>
      BY <1>4 DEF Answer
    <2> DEFINE left == Overwrite(slots, i, Slot(slots[i].id, Null))
    <2>2. i \in DOMAIN slots /\ i \in Active(slots)
      BY DEF mpt_command_find, Active
    <2>3. slots[i].id \in Nat
      <3>1. slots[i] \in SlotType
        BY <1>0, <2>2
      <3> QED
        BY <3>1 DEF SlotType
    <2>4. \A j \in Active(slots) : slots[j].id = slots[i].id => j = i
      BY <2>2 DEF Unique
    <2>5. left \in Seq(SlotType) /\ Len(left) = Len(slots) /\ Unique(left)
      BY <1>0, <2>2, <2>3, <2>4, OverwriteUnique
    <2>6. Synced(left, fails \/ Active(left) = {}) /\ ended' = End(slots[i].cmd)
          /\ call' = Called("sync", Cardinality(Active(left)))
          /\ kind' = kind /\ size' = size /\ given' = given
      BY <2>1
    <2> HIDE DEF left
    <2>7. slots' \in Seq(SlotType) /\ Unique(slots') /\ Len(slots') <= size
      BY <1>1, <2>5, <2>6
    <2>8. call' \in [op : Calls, ret : Nat]
      BY <1>2, <2>5, <2>6
    <2>9. ended' \in [Contexts -> Nat]
      BY <2>6, EndTyped
    <2> QED
      BY <2>6, <2>7, <2>8, <2>9 DEF TypeOK
  <1>5. CASE AnswerUnknown(id, fails)
    <2>1. slots' \in Seq(SlotType) /\ Unique(slots') /\ Len(slots') <= size
      BY <1>0, <1>1, <1>5 DEF AnswerUnknown
    <2>2. call' \in [op : Calls, ret : Nat]
      BY <1>0, <1>2, <1>5 DEF AnswerUnknown
    <2> QED
      BY <1>5, <2>1, <2>2 DEF AnswerUnknown, Keep, TypeOK
  <1> QED
    BY <1>3, <1>4, <1>5

(* Identifiers stay unique, for arrays, ranges and contexts of any size: each *)
(* identifier has at most one handler (mpt_command_get finds the one), and    *)
(* the slots in use stay inside the buffer.                                   *)
THEOREM CommandsUnique == Spec => [](TypeOK /\ UniqueIds)
  <1>0. UniqueIds <=> Unique(slots)
    BY DEF UniqueIds, Unique
  <1>1. Init => TypeOK /\ UniqueIds
    BY InitInv
  <1>2. (TypeOK /\ UniqueIds) /\ [Next]_vars => (TypeOK /\ UniqueIds)'
    <2> SUFFICES ASSUME TypeOK, UniqueIds, [Next]_vars
                 PROVE  TypeOK' /\ Unique(slots')
      BY DEF UniqueIds, Unique
    <2>0. Unique(slots)
      BY <1>0
    <2>1. CASE \E id \in Ids, c \in Fresh \cup {Null} : mpt_command_set(id, c)
      BY <2>0, <2>1, SetInv
    <2>2. CASE \E c \in Fresh \cup {Log} : mpt_command_reserve(c)
      BY <2>0, <2>2, ReserveInv
    <2>3. CASE mpt_command_clear \/ Fini
      BY <2>3, ClearInv
    <2>4. CASE \E id \in Ids \cup 1..MaxId : mpt_stream_sync(id)
      BY <2>0, <2>4, SyncInv
    <2>5. CASE UNCHANGED vars
      BY <2>0, <2>5 DEF vars, TypeOK, Unique, Active
    <2> QED
      BY <2>1, <2>2, <2>3, <2>4, <2>5 DEF Next
  <1> QED
    BY <1>1, <1>2, PTL DEF Spec

-----------------------------------------------------------------------------
(* Ownership of contexts.  A context has at most one place, so the numbers *)
(* of HandlersOwned are those of empty sets and of sets with one element.  *)

PlacesOf(s, c) == {i \in DOMAIN s : s[i].cmd = c}

\* Not handed over yet, finished, in one slot, or the handler for unknown ids.
Once(handed, n, places, fallback) ==
  \/ ~handed /\ n = 0 /\ places = {} /\ ~fallback
  \/ handed /\ n = 1 /\ places = {} /\ ~fallback
  \/ handed /\ n = 0 /\ (\E i : places = {i}) /\ ~fallback
  \/ handed /\ n = 0 /\ places = {} /\ fallback

Owned == \A c \in Contexts : Once(c \in given, ended[c], PlacesOf(slots, c), err = c)

\* The slots of a context can be counted.
LEMMA PlacesFinite ==
    ASSUME NEW s \in Seq(SlotType), NEW c
    PROVE  /\ IsFiniteSet(PlacesOf(s, c))
           /\ Cardinality(PlacesOf(s, c)) \in Nat
           /\ Cardinality(PlacesOf(s, c)) = 0 <=> PlacesOf(s, c) = {}
           /\ Cardinality(PlacesOf(s, c)) = 1 <=> \E i : PlacesOf(s, c) = {i}
  <1>1. IsFiniteSet(1..Len(s))
    <2>1. 1 \in Int /\ Len(s) \in Int
      OBVIOUS
    <2> QED
      BY <2>1, FS_Interval, Zenon
  <1>2. PlacesOf(s, c) \in SUBSET (1..Len(s))
    BY DEF PlacesOf
  <1>3. IsFiniteSet(PlacesOf(s, c))
    BY <1>1, <1>2, FS_Subset
  <1> QED
    BY <1>3, FS_CardinalityType, FS_EmptySet, FS_Singleton

\* The invariant counts places; `HandlersOwned` says the same.
LEMMA OwnedIsHandlersOwned ==
    ASSUME TypeOK
    PROVE  Owned <=> HandlersOwned
  <1> SUFFICES ASSUME NEW c \in Contexts
               PROVE  Once(c \in given, ended[c], PlacesOf(slots, c), err = c) <=>
                        ended[c] + Cardinality(PlacesOf(slots, c)) + (IF err = c THEN 1 ELSE 0)
                          = (IF c \in given THEN 1 ELSE 0)
    BY DEF Owned, HandlersOwned, PlacesOf
  <1> DEFINE n == Cardinality(PlacesOf(slots, c))
  <1>1. ended[c] \in Nat
    BY DEF TypeOK
  <1>2. n \in Nat /\ (n = 0 <=> PlacesOf(slots, c) = {}) /\ (n = 1 <=> \E i : PlacesOf(slots, c) = {i})
    BY PlacesFinite DEF TypeOK
  <1> HIDE DEF n
  <1>3. Once(c \in given, ended[c], PlacesOf(slots, c), err = c) <=>
          \/ c \notin given /\ ended[c] = 0 /\ n = 0 /\ err # c
          \/ c \in given /\ ended[c] = 1 /\ n = 0 /\ err # c
          \/ c \in given /\ ended[c] = 0 /\ n = 1 /\ err # c
          \/ c \in given /\ ended[c] = 0 /\ n = 0 /\ err = c
    BY <1>2 DEF Once
  <1>4. (ended[c] + n + (IF err = c THEN 1 ELSE 0) = (IF c \in given THEN 1 ELSE 0)) <=>
          \/ c \notin given /\ ended[c] = 0 /\ n = 0 /\ err # c
          \/ c \in given /\ ended[c] = 1 /\ n = 0 /\ err # c
          \/ c \in given /\ ended[c] = 0 /\ n = 1 /\ err # c
          \/ c \in given /\ ended[c] = 0 /\ n = 0 /\ err = c
    BY <1>1, <1>2
  <1> QED
    BY <1>3, <1>4 DEF n

(* What the changes of the array make of the places of a context. *)
LEMMA OverwritePlaces ==
    ASSUME NEW s \in Seq(SlotType), NEW i \in DOMAIN s, NEW id, NEW h, NEW c
    PROVE  PlacesOf(Overwrite(s, i, Slot(id, h)), c)
             = (PlacesOf(s, c) \ {i}) \cup (IF h = c THEN {i} ELSE {})
  BY DEF PlacesOf, Overwrite, Slot

\* A new slot is a place of its context.
LEMMA AppendPlaces ==
    ASSUME NEW s \in Seq(SlotType), NEW id \in Nat, NEW h \in Handlers, NEW c
    PROVE  PlacesOf(Append(s, Slot(id, h)), c)
             = PlacesOf(s, c) \cup (IF h = c THEN {Len(s) + 1} ELSE {})
  <1> DEFINE t == Append(s, Slot(id, h))
  <1>1. Slot(id, h) \in SlotType /\ Slot(id, h).cmd = h
    BY DEF Slot, SlotType
  <1>2. DOMAIN t = 1..(Len(s) + 1) /\ DOMAIN s = 1..Len(s) /\ Len(s) \in Nat
    BY <1>1
  <1>3. \A j \in 1..(Len(s) + 1) : t[j] = IF j = Len(s) + 1 THEN Slot(id, h) ELSE s[j]
    BY <1>1
  <1> HIDE DEF t
  <1>4. PlacesOf(t, c) = PlacesOf(s, c) \cup (IF h = c THEN {Len(s) + 1} ELSE {})
    BY <1>1, <1>2, <1>3 DEF PlacesOf
  <1> QED
    BY <1>4 DEF t

\* Closing gaps moves a context, and keeps it in one place.
LEMMA PackedPlaces ==
    ASSUME NEW s \in Seq(SlotType), NEW f \in Order(s), NEW c \in Contexts
    PROVE  /\ PlacesOf(s, c) = {} => PlacesOf(Packed(s, f), c) = {}
           /\ (\E i : PlacesOf(s, c) = {i}) => \E k : PlacesOf(Packed(s, f), c) = {k}
  <1> DEFINE n == Cardinality(Active(s))
             t == Packed(s, f)
  <1>1. n \in Nat
    BY ActiveFinite
  <1>2. /\ f \in [1..n -> Active(s)] /\ \A i, j \in 1..n : i < j => f[i] < f[j]
        /\ \A a \in Active(s) : \E k \in 1..n : f[k] = a
    BY DEF Order
  <1>3. t = [k \in 1..n |-> s[f[k]]]
    BY <1>2 DEF Packed
  <1>4. PlacesOf(t, c) = {k \in 1..n : f[k] \in PlacesOf(s, c)}
    <2>1. \A k \in 1..n : f[k] \in DOMAIN s
      BY <1>2 DEF Active
    <2> QED
      BY <1>3, <2>1 DEF PlacesOf
  <1>5. PlacesOf(s, c) \subseteq Active(s)
    BY HandlerAssumption DEF PlacesOf, Active
  <1>6. ASSUME NEW i, PlacesOf(s, c) = {i}
        PROVE  \E k : PlacesOf(t, c) = {k}
    <2>1. PICK k \in 1..n : f[k] = i
      BY <1>2, <1>5, <1>6
    <2>2. \A j \in 1..n : f[j] = i => j = k
      <3> SUFFICES ASSUME NEW j \in 1..n, f[j] = f[k], j # k PROVE FALSE
        BY <2>1
      <3>1. j < k \/ k < j
        BY <1>1
      <3>2. f[j] \in Nat /\ f[k] \in Nat
        BY <1>2 DEF Active
      <3> QED
        BY <1>2, <3>1, <3>2
    <2>3. PlacesOf(t, c) = {k}
      BY <1>4, <1>6, <2>1, <2>2
    <2> QED
      BY <2>3
  <1> HIDE DEF t
  <1>7. PlacesOf(s, c) = {} => PlacesOf(t, c) = {}
    BY <1>4
  <1> QED
    BY <1>6, <1>7 DEF t

(* One context, under each change: its place is overwritten, it is appended, *)
(* the gaps are closed, everything is finalised.                             *)
LEMMA OverwriteOnce ==
    ASSUME NEW s \in Seq(SlotType), NEW i \in DOMAIN s, NEW id, NEW h, NEW c,
           NEW g, NEW n, NEW e, Once(c \in g, n, PlacesOf(s, c), e), h = c => c \notin g
    PROVE  Once(c \in g \cup {h}, IF c = s[i].cmd THEN n + 1 ELSE n,
                PlacesOf(Overwrite(s, i, Slot(id, h)), c), e)
  <1> DEFINE P == PlacesOf(s, c)
             Q == PlacesOf(Overwrite(s, i, Slot(id, h)), c)
  <1>1. Q = (P \ {i}) \cup (IF h = c THEN {i} ELSE {})
    BY OverwritePlaces
  <1>2. c = s[i].cmd <=> i \in P
    BY DEF PlacesOf
  <1> HIDE DEF P, Q
  <1>3. CASE h = c
    <2>1. P = {} /\ n = 0 /\ ~e
      BY <1>3 DEF Once, P
    <2> QED
      BY <1>1, <1>2, <1>3, <2>1 DEF Once, Q
  <1>4. CASE h # c /\ i \in P
    <2>1. P = {i} /\ c \in g /\ n = 0 /\ ~e
      BY <1>4 DEF Once, P
    <2>2. Q = {} /\ n + 1 = 1
      BY <1>1, <1>4, <2>1
    <2> QED
      BY <1>2, <1>4, <2>1, <2>2 DEF Once, Q
  <1>5. CASE h # c /\ i \notin P
    <2>1. Q = P
      BY <1>1, <1>5
    <2> QED
      BY <1>2, <1>5, <2>1 DEF Once, P, Q
  <1> QED
    BY <1>3, <1>4, <1>5

\* A new slot is the one place of the context it is given.
LEMMA AppendOnce ==
    ASSUME NEW s \in Seq(SlotType), NEW id \in Nat, NEW h \in Handlers, NEW c,
           NEW g, NEW n, NEW e, Once(c \in g, n, PlacesOf(s, c), e), h = c => c \notin g
    PROVE  Once(c \in g \cup {h}, n, PlacesOf(Append(s, Slot(id, h)), c), e)
  <1> DEFINE P == PlacesOf(s, c)
             Q == PlacesOf(Append(s, Slot(id, h)), c)
  <1>1. Q = P \cup (IF h = c THEN {Len(s) + 1} ELSE {})
    BY AppendPlaces
  <1> HIDE DEF P, Q
  <1>2. CASE h = c
    BY <1>1, <1>2 DEF Once, P, Q
  <1>3. CASE h # c
    BY <1>1, <1>3 DEF Once, P, Q
  <1> QED
    BY <1>2, <1>3

\* Closing gaps ends no context.
LEMMA PackedOnce ==
    ASSUME NEW s \in Seq(SlotType), NEW f \in Order(s), NEW c \in Contexts,
           NEW g, NEW n, NEW e, Once(g, n, PlacesOf(s, c), e)
    PROVE  Once(g, n, PlacesOf(Packed(s, f), c), e)
  BY PackedPlaces DEF Once

\* A clear ends each context that has a place.
LEMMA EmptiedOnce ==
    ASSUME TypeOK, NEW c \in Contexts, NEW g, NEW e, ~e,
           Once(g, ended[c], PlacesOf(slots, c), e)
    PROVE  Once(g, EndAll(slots)[c], PlacesOf(<< >>, c), e)
  <1>1. EndAll(slots)[c] = ended[c] + Cardinality(PlacesOf(slots, c))
    BY DEF EndAll, PlacesOf
  <1>2. /\ Cardinality(PlacesOf(slots, c)) = 0 <=> PlacesOf(slots, c) = {}
        /\ Cardinality(PlacesOf(slots, c)) = 1 <=> \E i : PlacesOf(slots, c) = {i}
    BY PlacesFinite DEF TypeOK
  <1>3. PlacesOf(<< >>, c) = {}
    BY DEF PlacesOf
  <1>4. \/ ~g /\ EndAll(slots)[c] = 0
        \/ g /\ EndAll(slots)[c] = 1
    <2>1. \/ ~g /\ ended[c] = 0 /\ PlacesOf(slots, c) = {}
          \/ g /\ ended[c] = 1 /\ PlacesOf(slots, c) = {}
          \/ g /\ ended[c] = 0 /\ \E i : PlacesOf(slots, c) = {i}
      BY DEF Once
    <2>2. /\ ended[c] = 0 /\ PlacesOf(slots, c) = {} => EndAll(slots)[c] = 0
          /\ ended[c] = 1 /\ PlacesOf(slots, c) = {} => EndAll(slots)[c] = 1
          /\ ended[c] = 0 /\ (\E i : PlacesOf(slots, c) = {i}) => EndAll(slots)[c] = 1
      BY <1>1, <1>2
    <2> QED
      BY <2>1, <2>2, Zenon
  <1> QED
    BY <1>3, <1>4, Zenon DEF Once

(* What a caller hands over is new, so it is in no place yet. *)
LEMMA FreshHandler ==
    ASSUME NEW h \in Fresh \cup {Null, Log}, NEW c \in Contexts, Give(h)
    PROVE  /\ h \in Handlers
           /\ h = c => c \notin given
           /\ c \in given' <=> c \in given \cup {h}
  BY HandlerAssumption DEF Fresh, Give, Handlers

\* `mpt_command_set` ends the context it replaces and no other.
LEMMA SetOwned ==
    ASSUME TypeOK, Owned, NEW id \in Ids, NEW h \in Fresh \cup {Null},
           mpt_command_set(id, h), err' = err
    PROVE  Owned'
  <1> SUFFICES ASSUME NEW c \in Contexts
               PROVE  Once(c \in given', ended'[c], PlacesOf(slots', c), err = c)
    BY DEF Owned
  <1>0. slots \in Seq(SlotType) /\ id \in Nat /\ ended \in [Contexts -> Nat]
    BY IdsAssumption DEF TypeOK
  <1>1. Once(c \in given, ended[c], PlacesOf(slots, c), err = c)
    BY DEF Owned
  <1>2. ASSUME Give(h)
        PROVE  h \in Handlers /\ (h = c => c \notin given) /\ (c \in given' <=> c \in given \cup {h})
    BY <1>2, FreshHandler
  <1>3. CASE SetFound(id, h)
    <2>1. PICK i \in mpt_command_find(slots, id) :
            /\ slots' = Overwrite(slots, i, Slot(slots[i].id, h))
            /\ ended' = End(slots[i].cmd)
      BY <1>3 DEF SetFound
    <2>2. i \in DOMAIN slots
      BY DEF mpt_command_find, Active
    <2>3. ended'[c] = IF c = slots[i].cmd THEN ended[c] + 1 ELSE ended[c]
      BY <2>1 DEF End
    <2>4. Give(h)
      BY <1>3 DEF SetFound
    <2>5. Once(c \in given \cup {h}, ended'[c], PlacesOf(slots', c), err = c)
      BY <1>0, <1>1, <1>2, <2>1, <2>2, <2>3, <2>4, OverwriteOnce
    <2> QED
      BY <1>2, <2>4, <2>5
  <1>4. CASE SetEmpty(id, h)
    <2>1. PICK i \in mpt_command_empty(slots) : slots' = Overwrite(slots, i, Slot(id, h))
      BY <1>4 DEF SetEmpty
    <2>2. i \in DOMAIN slots /\ slots[i].cmd = Null
      BY DEF mpt_command_empty
    <2>3. ended'[c] = IF c = slots[i].cmd THEN ended[c] + 1 ELSE ended[c]
      BY <1>4, <2>2, HandlerAssumption DEF SetEmpty
    <2>4. Give(h)
      BY <1>4 DEF SetEmpty
    <2>5. Once(c \in given \cup {h}, ended'[c], PlacesOf(slots', c), err = c)
      BY <1>0, <1>1, <1>2, <2>1, <2>2, <2>3, <2>4, OverwriteOnce
    <2> QED
      BY <1>2, <2>4, <2>5
  <1>5. CASE SetFirst(id, h) \/ SetAppend(id, h)
    <2>1. slots' = Append(slots, Slot(id, h))
      <3>1. CASE SetFirst(id, h)
        <4>1. slots = << >>
          BY <1>0, <3>1 DEF SetFirst, TypeOK
        <4> QED
          BY <3>1, <4>1 DEF SetFirst
      <3> QED
        BY <1>5, <3>1 DEF SetAppend
    <2>2. Give(h) /\ ended' = ended
      BY <1>5 DEF SetFirst, SetAppend
    <2>3. Once(c \in given \cup {h}, ended'[c], PlacesOf(slots', c), err = c)
      BY <1>0, <1>1, <1>2, <2>1, <2>2, AppendOnce
    <2> QED
      BY <1>2, <2>2, <2>3
  <1>6. CASE SetFails(id, h)
    BY <1>1, <1>6 DEF SetFails, Keep
  <1> QED
    BY <1>3, <1>4, <1>5, <1>6 DEF mpt_command_set

\* `mpt_command_reserve` ends no context.
LEMMA ReserveOwned ==
    ASSUME TypeOK, Unique(slots), Owned, NEW h \in Fresh \cup {Log},
           mpt_command_reserve(h), err' = err
    PROVE  Owned'
  <1> SUFFICES ASSUME NEW c \in Contexts
               PROVE  Once(c \in given', ended'[c], PlacesOf(slots', c), err = c)
    BY DEF Owned
  <1>0. slots \in Seq(SlotType)
    BY DEF TypeOK
  <1>1. Once(c \in given, ended[c], PlacesOf(slots, c), err = c)
    BY DEF Owned
  <1>2. ASSUME Give(h)
        PROVE  h \in Handlers /\ (h = c => c \notin given) /\ (c \in given' <=> c \in given \cup {h})
    BY <1>2, FreshHandler
  <1>3. CASE ReserveFirst(h)
    <2>1. Give(h) /\ ended' = ended
      BY <1>3 DEF ReserveFirst
    <2>2. slots = << >>
      BY <1>0, <1>3 DEF ReserveFirst, TypeOK
    <2>3. Append(slots, Slot(1, h)) = <<Slot(1, h)>>
      BY <2>2
    <2>4. FirstSlots \in Nat /\ 1 \in 1..FirstSlots
      BY SlotsAssumption
    <2>5. PlacesOf(slots', c) = PlacesOf(<<Slot(1, h)>>, c)
      <3>1. slots' = [k \in 1..FirstSlots |-> IF k = 1 THEN Slot(1, h) ELSE Slot(0, Null)]
        BY <1>3 DEF ReserveFirst
      <3>2. \A k : k \in PlacesOf(slots', c) <=> k = 1 /\ h = c
        BY <2>4, <3>1, HandlerAssumption DEF PlacesOf, Slot
      <3>3. \A k : k \in PlacesOf(<<Slot(1, h)>>, c) <=> k = 1 /\ h = c
        BY DEF PlacesOf, Slot
      <3> QED
        BY <3>2, <3>3
    <2>6. Once(c \in given \cup {h}, ended[c], PlacesOf(Append(slots, Slot(1, h)), c), err = c)
      BY <1>0, <1>1, <1>2, <2>1, AppendOnce
    <2>7. Once(c \in given \cup {h}, ended'[c], PlacesOf(slots', c), err = c)
      BY <2>1, <2>3, <2>5, <2>6
    <2> QED
      BY <1>2, <2>1, <2>7
  <1>4. CASE ReserveNext(h)
    <2>1. PICK f \in Order(slots), mid \in FreeId(slots) :
            slots' = Append(Packed(slots, f), Slot(mid, h))
      BY <1>4 DEF ReserveNext
    <2>2. Give(h) /\ ended' = ended
      BY <1>4 DEF ReserveNext
    <2>3. Packed(slots, f) \in Seq(SlotType)
      BY <1>0, PackedUnique
    <2>4. mid \in Nat
      BY RangeAssumption DEF FreeId
    <2>5. Once(c \in given, ended[c], PlacesOf(Packed(slots, f), c), err = c)
      BY <1>0, <1>1, PackedOnce
    <2>6. Once(c \in given \cup {h}, ended[c],
               PlacesOf(Append(Packed(slots, f), Slot(mid, h)), c), err = c)
      BY <1>2, <2>2, <2>3, <2>4, <2>5, AppendOnce
    <2> QED
      BY <1>2, <2>1, <2>2, <2>6
  <1>5. CASE ReserveExhausted \/ ReserveTyped \/ ReserveFails
    <2>1. given' = given /\ ended' = ended
      BY <1>5 DEF ReserveExhausted, ReserveTyped, ReserveFails, Keep
    <2>2. slots' = slots \/ \E f \in Order(slots) : slots' = Packed(slots, f)
      BY <1>5 DEF ReserveExhausted, ReserveTyped, ReserveFails
    <2> QED
      BY <1>0, <1>1, <2>1, <2>2, PackedOnce
  <1> QED
    BY <1>3, <1>4, <1>5 DEF mpt_command_reserve

\* `mpt_command_clear` ends every context once.
LEMMA ClearOwned ==
    ASSUME TypeOK, Owned, mpt_command_clear \/ Fini, err \notin Contexts, err' = err
    PROVE  Owned'
  <1> SUFFICES ASSUME NEW c \in Contexts
               PROVE  Once(c \in given', ended'[c], PlacesOf(slots', c), err = c)
    BY DEF Owned
  <1>1. slots' = << >> /\ ended' = EndAll(slots) /\ given' = given
    BY DEF mpt_command_clear, Fini
  <1> QED
    BY <1>1, EmptiedOnce DEF Owned

\* An answered request is ended once and leaves its slot.
LEMMA SyncOwned ==
    ASSUME TypeOK, Unique(slots), Owned, NEW id, mpt_stream_sync(id), err' = err
    PROVE  Owned'
  <1> SUFFICES ASSUME NEW c \in Contexts
               PROVE  Once(c \in given', ended'[c], PlacesOf(slots', c), err = c)
    BY DEF Owned
  <1>0. slots \in Seq(SlotType) /\ Null \in Handlers /\ Null # c
    BY HandlerAssumption DEF TypeOK, Handlers
  <1>1. Once(c \in given, ended[c], PlacesOf(slots, c), err = c)
    BY DEF Owned
  <1>2. ASSUME NEW left \in Seq(SlotType), NEW last, Synced(left, last), NEW n,
               Once(c \in given, n, PlacesOf(left, c), err = c)
        PROVE  Once(c \in given, n, PlacesOf(slots', c), err = c)
    <2>1. slots' = left \/ \E f \in Order(left) : slots' = Packed(left, f)
      BY <1>2 DEF Synced
    <2> QED
      BY <1>2, <2>1, PackedOnce
  <1>3. PICK fails \in BOOLEAN : Answer(id, fails) \/ AnswerUnknown(id, fails)
    BY DEF mpt_stream_sync
  <1>4. CASE Answer(id, fails)
    <2>1. PICK i \in mpt_command_find(slots, id) :
            LET left == Overwrite(slots, i, Slot(slots[i].id, Null))
            IN  /\ Synced(left, fails \/ Active(left) = {})
                /\ ended' = End(slots[i].cmd)
                /\ UNCHANGED given
      BY <1>4 DEF Answer
    <2> DEFINE left == Overwrite(slots, i, Slot(slots[i].id, Null))
    <2>2. i \in DOMAIN slots /\ slots[i] \in SlotType
      BY <1>0 DEF mpt_command_find, Active
    <2>3. left \in Seq(SlotType)
      <3>1. Slot(slots[i].id, Null) \in SlotType
        BY <1>0, <2>2 DEF Slot, SlotType
      <3> QED
        BY <1>0, <2>2, <3>1 DEF Overwrite
    <2>4. ended'[c] = IF c = slots[i].cmd THEN ended[c] + 1 ELSE ended[c]
      BY <2>1 DEF End
    <2>5. Once(c \in given \cup {Null}, ended'[c], PlacesOf(left, c), err = c)
      BY <1>0, <1>1, <2>2, <2>4, OverwriteOnce
    <2>6. c \in given \cup {Null} <=> c \in given
      BY <1>0
    <2>7. Once(c \in given, ended'[c], PlacesOf(left, c), err = c)
      BY <2>5, <2>6
    <2>8. Synced(left, fails \/ Active(left) = {}) /\ given' = given
      BY <2>1
    <2> HIDE DEF left
    <2> QED
      BY <1>2, <2>3, <2>7, <2>8
  <1>5. CASE AnswerUnknown(id, fails)
    <2>1. Synced(slots, fails) /\ ended' = ended /\ given' = given
      BY <1>5 DEF AnswerUnknown, Keep
    <2> QED
      BY <1>0, <1>1, <1>2, <2>1
  <1> QED
    BY <1>3, <1>4, <1>5

-----------------------------------------------------------------------------
(* The dispatcher.  Its inductive invariant is that of its array, and that *)
(* contexts are owned once, the handler for unknown identifiers included.  *)

DispatchInv == TypeOK /\ UniqueIds /\ Owned

\* Steps of the dispatcher that leave the array and the fallback alone.
LEMMA CallUnchanged ==
    ASSUME NEW from, NEW id, NEW msg, NEW below, Call(from, id, msg, below)
    PROVE  UNCHANGED <<vars, err>>
  BY DEF Call, Finish

\* A handler that is unregistered, by itself too, ends once.
LEMMA UnregisterInv ==
    ASSUME TypeOK, Unique(slots), Owned, NEW id, Unregister(id)
    PROVE  TypeOK' /\ Unique(slots') /\ Owned'
  <1>1. PICK i \in mpt_command_find(slots, id) :
          /\ slots' = Overwrite(slots, i, Slot(slots[i].id, Null))
          /\ ended' = End(slots[i].cmd)
          /\ call' = Called("set", i - 1)
          /\ UNCHANGED <<kind, size, given, dispVars>>
    BY DEF Unregister
  <1>2. slots \in Seq(SlotType) /\ Len(slots) <= size /\ Null \in Handlers
    BY DEF TypeOK, Handlers
  <1>3. i \in DOMAIN slots /\ i \in Active(slots) /\ i - 1 \in Nat
    BY <1>2 DEF mpt_command_find, Active
  <1>4. slots[i].id \in Nat
    <2>1. slots[i] \in SlotType
      BY <1>2, <1>3
    <2> QED
      BY <2>1 DEF SlotType
  <1>5. slots' \in Seq(SlotType) /\ Len(slots') = Len(slots) /\ Unique(slots')
    <2> DEFINE t == Overwrite(slots, i, Slot(slots[i].id, Null))
    <2>1. \A j \in Active(slots) : slots[j].id = slots[i].id => j = i
      BY <1>3 DEF Unique
    <2>2. t \in Seq(SlotType) /\ Len(t) = Len(slots) /\ Unique(t)
      BY <1>2, <1>3, <1>4, <2>1, OverwriteUnique
    <2>3. slots' = t
      BY <1>1
    <2> HIDE DEF t
    <2> QED
      BY <2>2, <2>3
  <1>6. TypeOK'
    <2>1. ended' \in [Contexts -> Nat]
      BY <1>1, EndTyped
    <2>2. call' \in [op : Calls, ret : Nat]
      BY <1>1, <1>3, CalledTyped DEF Calls
    <2> QED
      BY <1>1, <1>2, <1>5, <2>1, <2>2 DEF TypeOK
  <1>7. ASSUME NEW c \in Contexts
        PROVE  Once(c \in given', ended'[c], PlacesOf(slots', c), err' = c)
    <2>1. Once(c \in given, ended[c], PlacesOf(slots, c), err = c)
      BY DEF Owned
    <2>2. ended'[c] = IF c = slots[i].cmd THEN ended[c] + 1 ELSE ended[c]
      BY <1>1 DEF End
    <2>3. Null # c
      BY HandlerAssumption
    <2>4. Once(c \in given \cup {Null}, ended'[c], PlacesOf(slots', c), err = c)
      BY <1>1, <1>2, <1>3, <2>1, <2>2, <2>3, OverwriteOnce
    <2>5. c \in given' <=> c \in given \cup {Null}
      BY <1>1, <2>3
    <2>6. err' = err
      BY <1>1 DEF dispVars
    <2> QED
      BY <2>4, <2>5, <2>6
  <1> QED
    BY <1>5, <1>6, <1>7 DEF Owned

\* The handler for unknown identifiers ends when it is replaced.
LEMMA SetErrorInv ==
    ASSUME TypeOK, Unique(slots), Owned, NEW h \in Fresh \cup {Null}, set_error(h)
    PROVE  TypeOK' /\ Unique(slots') /\ Owned'
  <1>1. TypeOK'
    <2>1. ended' \in [Contexts -> Nat]
      BY EndTyped DEF set_error
    <2>2. call' \in [op : Calls, ret : Nat]
      BY CalledTyped DEF set_error, Calls
    <2>3. given' \subseteq Contexts
      BY DEF set_error, Give, TypeOK
    <2> QED
      BY <2>1, <2>2, <2>3 DEF set_error, TypeOK
  <1>2. slots' = slots /\ err' = h /\ Give(h)
    BY DEF set_error
  <1>3. ASSUME NEW c \in Contexts
        PROVE  Once(c \in given', ended'[c], PlacesOf(slots', c), err' = c)
    <2>1. Once(c \in given, ended[c], PlacesOf(slots, c), err = c)
      BY DEF Owned
    <2>2. ended'[c] = IF err = c THEN ended[c] + 1 ELSE ended[c]
      BY DEF set_error, End
    <2>3. (h = c => c \notin given) /\ (c \in given' <=> c \in given \cup {h})
      BY <1>2, FreshHandler
    <2>4. CASE h = c
      BY <1>2, <2>1, <2>2, <2>3, <2>4 DEF Once
    <2>5. CASE h # c /\ err = c
      <3>1. ended[c] = 0 /\ c \in given /\ PlacesOf(slots, c) = {}
        BY <2>1, <2>5 DEF Once
      <3>2. ended'[c] = 1
        BY <2>2, <2>5, <3>1
      <3> QED
        BY <1>2, <2>3, <2>5, <3>1, <3>2 DEF Once
    <2>6. CASE h # c /\ err # c
      BY <1>2, <2>1, <2>2, <2>3, <2>6 DEF Once
    <2> QED
      BY <2>4, <2>5, <2>6
  <1> QED
    BY <1>1, <1>2, <1>3 DEF Owned

\* A dispatcher that is set up again has ended all handlers of the old one.
LEMMA RenewInv ==
    ASSUME TypeOK, Owned, Renew
    PROVE  TypeOK' /\ Unique(slots') /\ Owned'
  <1>1. /\ slots' = << >> /\ size' = 0 /\ kind' = "none" /\ given' = given
        /\ err' = Unknown /\ call' = Called("fini", 0)
        /\ ended' = [x \in Contexts |-> EndAll(slots)[x] + (IF err = x THEN 1 ELSE 0)]
    BY DEF Renew
  <1>2. EndAll(slots) \in [Contexts -> Nat]
    BY EndAllTyped
  <1>3. TypeOK'
    <2>1. ended' \in [Contexts -> Nat]
      BY <1>1, <1>2
    <2>2. call' \in [op : Calls, ret : Nat]
      BY <1>1, CalledTyped DEF Calls
    <2>3. slots' \in Seq(SlotType) /\ Len(slots') = 0
      BY <1>1
    <2> QED
      BY <1>1, <2>1, <2>2, <2>3 DEF TypeOK
  <1>4. Unique(slots')
    BY <1>1 DEF Unique, Active
  <1>5. ASSUME NEW c \in Contexts
        PROVE  Once(c \in given', ended'[c], PlacesOf(slots', c), err' = c)
    <2>1. Once(c \in given, ended[c], PlacesOf(slots, c), err = c)
      BY DEF Owned
    <2>2. Unknown # c
      BY UnknownAssumption DEF Handlers
    <2>3. PlacesOf(<< >>, c) = {}
      BY DEF PlacesOf
    <2>4. CASE err = c
      <3>1. c \in given /\ ended[c] = 0 /\ PlacesOf(slots, c) = {}
        BY <2>1, <2>4 DEF Once
      <3>2. EndAll(slots)[c] = 0
        <4>1. EndAll(slots)[c] = ended[c] + Cardinality(PlacesOf(slots, c))
          BY DEF EndAll, PlacesOf
        <4>2. Cardinality(PlacesOf(slots, c)) = 0
          BY <3>1, FS_EmptySet
        <4> QED
          BY <3>1, <4>1, <4>2
      <3>3. ended'[c] = 1
        BY <1>1, <2>4, <3>2
      <3> QED
        BY <1>1, <2>2, <2>3, <3>1, <3>3 DEF Once
    <2>5. CASE err # c
      <3>1. Once(c \in given, EndAll(slots)[c], PlacesOf(<< >>, c), err = c)
        BY <2>1, <2>5, EmptiedOnce
      <3>2. ended'[c] = EndAll(slots)[c]
        <4>1. EndAll(slots)[c] \in Nat
          BY <1>2
        <4> QED
          BY <1>1, <2>5, <4>1
      <3> QED
        BY <1>1, <2>2, <2>5, <3>1, <3>2 DEF Once
    <2> QED
      BY <2>4, <2>5
  <1> QED
    BY <1>3, <1>4, <1>5 DEF Owned

\* At the begin no context was handed in.
LEMMA InitOwned == Init /\ err = Unknown => Owned
  <1> SUFFICES ASSUME Init, err = Unknown, NEW c \in Contexts
               PROVE  Once(c \in given, ended[c], PlacesOf(slots, c), err = c)
    BY DEF Owned
  <1>1. slots = << >> /\ given = {} /\ ended[c] = 0
    BY DEF Init
  <1>2. PlacesOf(slots, c) = {} /\ Unknown # c
    BY <1>1, UnknownAssumption DEF PlacesOf, Handlers
  <1> QED
    BY <1>1, <1>2 DEF Once

(* The handlers of a dispatcher are owned exactly once while it is in use:  *)
(* registering, replacing and removing them, also from a handler that runs, *)
(* dispatching to them, and closing the dispatcher tell each of them once   *)
(* to let go (mpt_dispatch_set, mpt_dispatch_fini, dispatch::set_error).    *)
THEOREM DispatchOwned == DispatchSpec => [](TypeOK /\ UniqueIds /\ HandlersOwned)
  <1>1. DispatchInit => DispatchInv
    BY InitInv, InitOwned DEF DispatchInit, DispatchInv
  <1>2. DispatchInv /\ [DispatchNext]_allVars => DispatchInv'
    <2> SUFFICES ASSUME TypeOK, UniqueIds, Owned, [DispatchNext]_allVars
                 PROVE  TypeOK' /\ Unique(slots') /\ Owned'
      BY DEF DispatchInv, UniqueIds, Unique
    <2>0. Unique(slots)
      BY DEF UniqueIds, Unique
    <2>1. CASE UNCHANGED <<vars, err>>
      BY <2>0, <2>1, ZenonT(60) DEF vars, TypeOK, Unique, Active, Owned, PlacesOf
    <2>2. ASSUME NEW id \in Ids, NEW h \in Fresh, Register(id, h)
          PROVE  TypeOK' /\ Unique(slots') /\ Owned'
      <3>1. mpt_command_set(id, h) /\ err' = err
        BY <2>2 DEF Register, mpt_command_set, dispVars
      <3>2. h \in Fresh \cup {Null}
        BY <2>2
      <3> QED
        BY <2>0, <2>2, <3>1, <3>2, SetInv, SetOwned
    <2>3. ASSUME NEW id \in Ids, Unregister(id)
          PROVE  TypeOK' /\ Unique(slots') /\ Owned'
      BY <2>0, <2>3, UnregisterInv
    <2>4. ASSUME NEW h \in Fresh \cup {Null}, set_error(h)
          PROVE  TypeOK' /\ Unique(slots') /\ Owned'
      BY <2>0, <2>4, SetErrorInv
    <2>5. CASE Renew
      BY <2>5, RenewInv
    <2>6. CASE \/ \E id \in Ids : set_default(id)
               \/ \E out \in Outcomes : Return(out)
               \/ Reply
      BY <2>1, <2>6 DEF set_default, Return, Finish, Reply
    <2>7. CASE \E id \in Ids : Emit(id) \/ Hash(id) \/ Message(id)
      BY <2>1, <2>7, CallUnchanged DEF Emit, Hash, Message
    <2>8. CASE DefaultEvent
      BY <2>1, <2>8, CallUnchanged DEF DefaultEvent, BadDefault, NoDefault, RepeatDefault
    <2>9. CASE UNCHANGED allVars
      BY <2>1, <2>9 DEF allVars, dispVars
    <2> QED
      BY <2>2, <2>3, <2>4, <2>5, <2>6, <2>7, <2>8, <2>9 DEF DispatchNext, mpt_dispatch_set
  <1>3. DispatchInv => TypeOK /\ UniqueIds /\ HandlersOwned
    BY OwnedIsHandlersOwned DEF DispatchInv
  <1> QED
    BY <1>1, <1>2, <1>3, PTL DEF DispatchSpec

\* A command array without dispatcher, the one of a connection.
ConnectionSpec == Init /\ err = Unknown /\ [][Next /\ err' = err]_<<vars, err>>

(* So are the handlers that wait for the answers of a connection: reserving *)
(* an identifier, closing gaps and answers in any order lose none and call  *)
(* none twice (mpt_command_reserve, mpt_stream_sync, mpt_connection_fini).  *)
THEOREM ConnectionOwned == ConnectionSpec => []HandlersOwned
  <1> DEFINE Inv == DispatchInv /\ err = Unknown
  <1>1. Init /\ err = Unknown => Inv
    BY InitInv, InitOwned DEF DispatchInv
  <1>2. Inv /\ [Next /\ err' = err]_<<vars, err>> => Inv'
    <2> SUFFICES ASSUME TypeOK, UniqueIds, Owned, err = Unknown,
                        [Next /\ err' = err]_<<vars, err>>
                 PROVE  TypeOK' /\ Unique(slots') /\ Owned' /\ err' = Unknown
      BY DEF DispatchInv, UniqueIds, Unique
    <2>0. Unique(slots) /\ err' = err /\ err \notin Contexts
      BY UnknownAssumption DEF UniqueIds, Unique, Handlers
    <2>1. CASE UNCHANGED vars
      BY <2>0, <2>1, ZenonT(60) DEF vars, TypeOK, Unique, Active, Owned, PlacesOf
    <2>2. CASE \E id \in Ids, h \in Fresh \cup {Null} : mpt_command_set(id, h)
      BY <2>0, <2>2, SetInv, SetOwned
    <2>3. CASE \E h \in Fresh \cup {Log} : mpt_command_reserve(h)
      BY <2>0, <2>3, ReserveInv, ReserveOwned
    <2>4. CASE mpt_command_clear \/ Fini
      BY <2>0, <2>4, ClearInv, ClearOwned
    <2>5. CASE \E id \in Ids \cup 1..MaxId : mpt_stream_sync(id)
      BY <2>0, <2>5, SyncInv, SyncOwned
    <2> QED
      BY <2>1, <2>2, <2>3, <2>4, <2>5 DEF Next
  <1>3. Inv => HandlersOwned
    BY OwnedIsHandlersOwned DEF DispatchInv
  <1> HIDE DEF Inv
  <1> QED
    BY <1>1, <1>2, <1>3, PTL DEF ConnectionSpec

-----------------------------------------------------------------------------
(* The array as a map.  What a map from identifiers to handlers depends on *)
(* is the set of its entries: operations are described by what they do to  *)
(* that set, wherever in the array the entries are.                        *)

Entries(s) == {s[i] : i \in Active(s)}

MapOf(s) == [id \in ActiveIds(s) |-> (CHOOSE e \in Entries(s) : e.id = id).cmd]

\* The entry a handler makes: none if there is no handler.
EntryOf(id, c) == IF c = Null THEN {} ELSE {Slot(id, c)}

Others(s, id) == {e \in Entries(s) : e.id # id}

\* The map with another entry, and without one.
WithEntry(s, id, c) == [i \in ActiveIds(s) \cup {id} |-> IF i = id THEN c ELSE MapOf(s)[i]]
WithoutEntry(s, id) == [i \in ActiveIds(s) \ {id} |-> MapOf(s)[i]]

\* The map of an array without double identifiers has exactly its entries.
LEMMA EntriesOfMap ==
    ASSUME NEW s \in Seq(SlotType), Unique(s)
    PROVE  /\ ActiveIds(s) = {e.id : e \in Entries(s)}
           /\ \A e \in Entries(s) : MapOf(s)[e.id] = e.cmd
           /\ \A e \in Entries(s) : e = Slot(e.id, e.cmd)
           /\ \A d, e \in Entries(s) : d.id = e.id => d = e
  <1>1. ActiveIds(s) = {e.id : e \in Entries(s)}
    BY DEF ActiveIds, Entries
  <1>2. \A d, e \in Entries(s) : d.id = e.id => d = e
    BY DEF Unique, Entries
  <1>3. ASSUME NEW e \in Entries(s) PROVE MapOf(s)[e.id] = e.cmd
    <2>1. e.id \in ActiveIds(s)
      BY <1>1
    <2>2. (CHOOSE d \in Entries(s) : d.id = e.id) = e
      BY <1>2
    <2> QED
      BY <2>1, <2>2 DEF MapOf
  <1>4. ASSUME NEW e \in Entries(s) PROVE e = Slot(e.id, e.cmd)
    <2>1. e \in SlotType
      BY DEF Entries, Active
    <2> QED
      BY <2>1 DEF SlotType, Slot
  <1> QED
    BY <1>1, <1>2, <1>3, <1>4

\* An overwritten slot replaces the entry of its identifier.
LEMMA OverwriteEntries ==
    ASSUME NEW s \in Seq(SlotType), Unique(s), NEW i \in DOMAIN s, NEW id, NEW c,
           s[i].cmd # Null => s[i].id = id,
           \A j \in Active(s) : s[j].id = id => j = i
    PROVE  Entries(Overwrite(s, i, Slot(id, c))) = Others(s, id) \cup EntryOf(id, c)
  <1> DEFINE t == Overwrite(s, i, Slot(id, c))
  <1>1. DOMAIN t = DOMAIN s /\ \A j \in DOMAIN s : t[j] = IF j = i THEN Slot(id, c) ELSE s[j]
    BY DEF Overwrite
  <1>2. \A j \in DOMAIN s : j # i => (j \in Active(t) <=> j \in Active(s))
    BY <1>1 DEF Active
  <1>3. i \in Active(t) <=> c # Null
    BY <1>1 DEF Active, Slot
  <1>4. Active(t) \subseteq DOMAIN s /\ Active(s) \subseteq DOMAIN s
    BY <1>1 DEF Active
  <1>5. \A j \in Active(s) : s[j].id # id <=> j # i
    BY DEF Active
  <1> HIDE DEF t
  <1>6. ASSUME NEW e \in Entries(t) PROVE e \in Others(s, id) \cup EntryOf(id, c)
    BY <1>1, <1>2, <1>3, <1>4, <1>5, <1>6 DEF Entries, Others, EntryOf
  <1>7. ASSUME NEW e \in Others(s, id) PROVE e \in Entries(t)
    BY <1>1, <1>2, <1>4, <1>5, <1>7 DEF Entries, Others
  <1>8. ASSUME NEW e \in EntryOf(id, c) PROVE e \in Entries(t)
    BY <1>1, <1>3, <1>8 DEF Entries, EntryOf
  <1> QED
    BY <1>6, <1>7, <1>8 DEF t

\* A new slot adds its entry.
LEMMA AppendEntries ==
    ASSUME NEW s \in Seq(SlotType), NEW id \in Nat, NEW c \in Handlers
    PROVE  Entries(Append(s, Slot(id, c))) = Entries(s) \cup EntryOf(id, c)
  <1> DEFINE t == Append(s, Slot(id, c))
             n == Len(s) + 1
  <1>1. Slot(id, c) \in SlotType
    BY DEF Slot, SlotType
  <1>2. DOMAIN t = 1..n /\ DOMAIN s = 1..Len(s) /\ Len(s) \in Nat
    BY <1>1
  <1>3. \A j \in 1..n : t[j] = IF j = n THEN Slot(id, c) ELSE s[j]
    BY <1>1
  <1>4. \A j \in Active(t) : (j = n /\ c # Null) \/ (j \in Active(s) /\ t[j] = s[j])
    BY <1>2, <1>3 DEF Active, Slot
  <1>5. \A j \in Active(s) : j \in Active(t) /\ t[j] = s[j]
    BY <1>2, <1>3 DEF Active
  <1>6. c # Null => n \in Active(t) /\ t[n] = Slot(id, c)
    BY <1>2, <1>3 DEF Active, Slot
  <1>7. t[n] = Slot(id, c)
    BY <1>2, <1>3
  <1> HIDE DEF t, n
  <1> QED
    BY <1>4, <1>5, <1>6, <1>7 DEF Entries, EntryOf, t

\* Closing gaps changes no entry.
LEMMA PackedEntries ==
    ASSUME NEW s \in Seq(SlotType), NEW f \in Order(s)
    PROVE  Entries(Packed(s, f)) = Entries(s)
  <1> DEFINE t == Packed(s, f)
  <1>1. /\ f \in [1..Cardinality(Active(s)) -> Active(s)]
        /\ \A a \in Active(s) : \E i \in DOMAIN f : f[i] = a
    BY DEF Order
  <1>2. DOMAIN t = DOMAIN f /\ \A k \in DOMAIN f : t[k] = s[f[k]] /\ f[k] \in Active(s)
    BY <1>1 DEF Packed
  <1>3. \A k \in DOMAIN f : k \in Active(t)
    BY <1>2 DEF Active
  <1>4. Active(t) \subseteq DOMAIN f
    BY <1>2 DEF Active
  <1> HIDE DEF t
  <1> QED
    BY <1>1, <1>2, <1>3, <1>4 DEF Entries, t

\* An array without gaps is an array of slots.
LEMMA PackedTyped ==
    ASSUME NEW s \in Seq(SlotType), NEW f \in Order(s)
    PROVE  Packed(s, f) \in Seq(SlotType)
  <1>1. Cardinality(Active(s)) \in Nat
    BY ActiveFinite
  <1>2. Packed(s, f) = [k \in 1..Cardinality(Active(s)) |-> s[f[k]]]
    BY DEF Packed, Order
  <1>3. \A k \in 1..Cardinality(Active(s)) : s[f[k]] \in SlotType
    BY DEF Active, Order
  <1> QED
    BY <1>1, <1>2, <1>3

(* What a change of the entries does to the map. *)
LEMMA MapKept ==
    ASSUME NEW s \in Seq(SlotType), Unique(s), NEW t \in Seq(SlotType), Unique(t),
           Entries(t) = Entries(s)
    PROVE  MapOf(t) = MapOf(s)
  <1>1. ActiveIds(t) = ActiveIds(s)
    <2>1. ActiveIds(t) = {e.id : e \in Entries(t)} /\ ActiveIds(s) = {e.id : e \in Entries(s)}
      BY EntriesOfMap
    <2> QED
      BY <2>1
  <1>2. ASSUME NEW i \in ActiveIds(t) PROVE MapOf(t)[i] = MapOf(s)[i]
    BY EntriesOfMap
  <1>3. MapOf(t) = [i \in ActiveIds(t) |-> MapOf(t)[i]] /\ MapOf(s) = [i \in ActiveIds(s) |-> MapOf(s)[i]]
    BY DEF MapOf
  <1> QED
    BY <1>1, <1>2, <1>3

\* An entry more is a put of the map.
LEMMA MapWith ==
    ASSUME NEW s \in Seq(SlotType), Unique(s), NEW t \in Seq(SlotType), Unique(t),
           NEW id, NEW c, c # Null, Entries(t) = Others(s, id) \cup EntryOf(id, c)
    PROVE  MapOf(t) = WithEntry(s, id, c)
  <1>1. Slot(id, c) \in Entries(t) /\ \A e \in Entries(t) : e = Slot(id, c) \/ e \in Others(s, id)
    BY DEF EntryOf
  <1>2. Slot(id, c).id = id /\ Slot(id, c).cmd = c
    BY DEF Slot
  <1>3. \A e \in Others(s, id) : e \in Entries(t) /\ e \in Entries(s) /\ e.id # id
    BY DEF Others
  <1>4. ActiveIds(t) = ActiveIds(s) \cup {id}
    <2>1. \A e \in Entries(s) : e.id # id => e \in Others(s, id)
      BY DEF Others
    <2>2. ActiveIds(t) = {e.id : e \in Entries(t)} /\ ActiveIds(s) = {e.id : e \in Entries(s)}
      BY EntriesOfMap
    <2> QED
      BY <1>1, <1>2, <1>3, <2>1, <2>2
  <1>5. ASSUME NEW i \in ActiveIds(t)
        PROVE  MapOf(t)[i] = IF i = id THEN c ELSE MapOf(s)[i]
    <2>1. CASE i = id
      BY <1>1, <1>2, <2>1, EntriesOfMap
    <2>2. CASE i # id
      <3>1. PICK e \in Entries(t) : e.id = i
        BY EntriesOfMap
      <3>2. e \in Others(s, id) /\ e \in Entries(s)
        BY <1>1, <1>2, <1>3, <2>2, <3>1
      <3> QED
        BY <2>2, <3>1, <3>2, EntriesOfMap
    <2> QED
      BY <2>1, <2>2
  <1>6. MapOf(t) = [i \in ActiveIds(t) |-> MapOf(t)[i]]
    BY DEF MapOf
  <1> QED
    BY <1>4, <1>5, <1>6 DEF WithEntry

\* An entry less is a removal from the map.
LEMMA MapWithout ==
    ASSUME NEW s \in Seq(SlotType), Unique(s), NEW t \in Seq(SlotType), Unique(t),
           NEW id, Entries(t) = Others(s, id)
    PROVE  MapOf(t) = WithoutEntry(s, id)
  <1>1. ActiveIds(t) = ActiveIds(s) \ {id}
    <2>1. ActiveIds(t) = {e.id : e \in Entries(t)} /\ ActiveIds(s) = {e.id : e \in Entries(s)}
      BY EntriesOfMap
    <2> QED
      BY <2>1 DEF Others
  <1>2. ASSUME NEW i \in ActiveIds(t) PROVE MapOf(t)[i] = MapOf(s)[i]
    <2>1. PICK e \in Entries(t) : e.id = i
      BY EntriesOfMap
    <2>2. e \in Entries(s)
      BY DEF Others
    <2> QED
      BY <2>1, <2>2, EntriesOfMap
  <1>3. MapOf(t) = [i \in ActiveIds(t) |-> MapOf(t)[i]]
    BY DEF MapOf
  <1> QED
    BY <1>1, <1>2, <1>3 DEF WithoutEntry

(* The operations, by what they do to the entries. *)
LEMMA SetEntries ==
    ASSUME TypeOK, Unique(slots), NEW id \in Ids, NEW c \in Fresh \cup {Null},
           mpt_command_set(id, c)
    PROVE  \/ Entries(slots') = Entries(slots)
           \/ Entries(slots') = Others(slots, id) \cup EntryOf(id, c)
  <1>0. slots \in Seq(SlotType) /\ id \in Nat /\ c \in Handlers
    BY IdsAssumption DEF TypeOK, Handlers, Fresh
  <1>1. CASE SetFound(id, c)
    <2>1. PICK i \in mpt_command_find(slots, id) :
            slots' = Overwrite(slots, i, Slot(slots[i].id, c))
      BY <1>1 DEF SetFound
    <2>2. i \in DOMAIN slots /\ i \in Active(slots) /\ slots[i].id = id
      BY DEF mpt_command_find, Active
    <2> QED
      BY <1>0, <2>1, <2>2, OverwriteEntries DEF Unique
  <1>2. CASE SetFirst(id, c)
    <2>1. slots' = Append(<< >>, Slot(id, c)) /\ << >> \in Seq(SlotType)
      BY <1>2 DEF SetFirst
    <2>2. Entries(slots) = {} /\ Others(slots, id) = {} /\ Entries(<< >>) = {}
      <3>1. Len(slots) = 0
        BY <1>2 DEF SetFirst, TypeOK
      <3> QED
        BY <1>0, <3>1 DEF Entries, Others, Active
    <2>3. ASSUME NEW s \in Seq(SlotType), Entries(s) = {}
          PROVE  Entries(Append(s, Slot(id, c))) = EntryOf(id, c)
      <3>1. Entries(Append(s, Slot(id, c))) = Entries(s) \cup EntryOf(id, c)
        BY <1>0, AppendEntries
      <3> QED
        BY <2>3, <3>1
    <2>4. Entries(Append(<< >>, Slot(id, c))) = EntryOf(id, c)
      BY <2>1, <2>2, <2>3, Zenon
    <2>5. Entries(slots') = EntryOf(id, c)
      BY <2>1, <2>4, Zenon
    <2> QED
      BY <2>2, <2>5
  <1>3. CASE SetEmpty(id, c)
    <2>1. PICK i \in mpt_command_empty(slots) : slots' = Overwrite(slots, i, Slot(id, c))
      BY <1>3 DEF SetEmpty
    <2>2. i \in DOMAIN slots /\ slots[i].cmd = Null
      BY DEF mpt_command_empty
    <2>3. id \notin ActiveIds(slots)
      BY <1>0, <1>3, NotFound DEF SetEmpty
    <2> QED
      BY <1>0, <2>1, <2>2, <2>3, OverwriteEntries DEF ActiveIds
  <1>4. CASE SetAppend(id, c)
    <2>1. id \notin ActiveIds(slots)
      BY <1>0, <1>4, NotFound DEF SetAppend
    <2>2. Others(slots, id) = Entries(slots)
      BY <2>1 DEF Others, Entries, ActiveIds
    <2> QED
      BY <1>0, <1>4, <2>2, AppendEntries DEF SetAppend
  <1>5. CASE SetFails(id, c)
    BY <1>5 DEF SetFails
  <1> QED
    BY <1>1, <1>2, <1>3, <1>4, <1>5 DEF mpt_command_set

\* A reservation adds an entry with a new identifier, or none.
LEMMA ReserveEntries ==
    ASSUME TypeOK, NEW c \in Fresh \cup {Log}, mpt_command_reserve(c)
    PROVE  \/ /\ Entries(slots') = Entries(slots)
              /\ call'.op = "reserve" => call'.ret = 0
           \/ \E mid \in (1..MaxId) \ ActiveIds(slots) :
                /\ Entries(slots') = Entries(slots) \cup EntryOf(mid, c)
                /\ call'.ret = mid
  <1>0. slots \in Seq(SlotType) /\ c \in Handlers /\ c # Null
    BY HandlerAssumption DEF TypeOK, Handlers, Fresh
  <1>1. CASE ReserveFirst(c)
    <2>1. slots' = [k \in 1..FirstSlots |-> IF k = 1 THEN Slot(1, c) ELSE Slot(0, Null)]
      BY <1>1 DEF ReserveFirst
    <2>2. 1 \in 1..FirstSlots
      BY SlotsAssumption
    <2>3. Active(slots') = {1} /\ slots'[1] = Slot(1, c)
      BY <1>0, <2>1, <2>2 DEF Active, Slot
    <2>4. Active(slots) = {}
      <3>1. Len(slots) = 0
        BY <1>1 DEF ReserveFirst, TypeOK
      <3> QED
        BY <1>0, <3>1 DEF Active
    <2>5. Entries(slots') = Entries(slots) \cup EntryOf(1, c)
      BY <1>0, <2>3, <2>4 DEF Entries, EntryOf
    <2>6. 1 \in (1..MaxId) \ ActiveIds(slots)
      BY <2>4, RangeAssumption DEF ActiveIds
    <2>7. call'.ret = 1
      BY <1>1 DEF ReserveFirst, Called
    <2> QED
      BY <2>5, <2>6, <2>7
  <1>2. CASE ReserveNext(c)
    <2>1. PICK f \in Order(slots), mid \in FreeId(slots) :
            /\ slots' = Append(Packed(slots, f), Slot(mid, c))
            /\ call' = Called("reserve", mid)
      BY <1>2 DEF ReserveNext
    <2>2. mid \in (1..MaxId) \ ActiveIds(slots) /\ mid \in Nat
      BY <1>0, FreeIdUnused, RangeAssumption
    <2>3. Packed(slots, f) \in Seq(SlotType)
      BY <1>0, PackedTyped
    <2>4. Entries(slots') = Entries(slots) \cup EntryOf(mid, c)
      BY <1>0, <2>1, <2>2, <2>3, AppendEntries, PackedEntries
    <2> QED
      BY <2>1, <2>2, <2>4 DEF Called
  <1>3. CASE ReserveExhausted \/ ReserveTyped \/ ReserveFails
    <2>1. slots' = slots \/ \E f \in Order(slots) : slots' = Packed(slots, f)
      BY <1>3 DEF ReserveExhausted, ReserveTyped, ReserveFails
    <2>2. call' \in {Called("reserve", 0), Called("refused", 0)}
      BY <1>3 DEF ReserveExhausted, ReserveTyped, ReserveFails
    <2> QED
      BY <1>0, <2>1, <2>2, PackedEntries DEF Called
  <1> QED
    BY <1>1, <1>2, <1>3 DEF mpt_command_reserve

\* An answer removes the entry of its identifier, or none.
LEMMA SyncEntries ==
    ASSUME TypeOK, Unique(slots), NEW id, mpt_stream_sync(id)
    PROVE  \/ Entries(slots') = Entries(slots)
           \/ id \in ActiveIds(slots) /\ Entries(slots') = Others(slots, id)
  <1>0. slots \in Seq(SlotType)
    BY DEF TypeOK
  <1>1. ASSUME NEW left \in Seq(SlotType), NEW last, Synced(left, last)
        PROVE  Entries(slots') = Entries(left)
    BY <1>1, PackedEntries DEF Synced
  <1>2. PICK fails \in BOOLEAN : Answer(id, fails) \/ AnswerUnknown(id, fails)
    BY DEF mpt_stream_sync
  <1>3. CASE Answer(id, fails)
    <2>1. PICK i \in mpt_command_find(slots, id) :
            LET left == Overwrite(slots, i, Slot(slots[i].id, Null))
            IN  Synced(left, fails \/ Active(left) = {})
      BY <1>3 DEF Answer
    <2> DEFINE left == Overwrite(slots, i, Slot(slots[i].id, Null))
    <2>2. i \in DOMAIN slots /\ i \in Active(slots) /\ slots[i].id = id /\ slots[i] \in SlotType
      BY <1>0 DEF mpt_command_find, Active
    <2>3. left \in Seq(SlotType)
      <3>1. Slot(slots[i].id, Null) \in SlotType
        BY <2>2 DEF Slot, SlotType, Handlers
      <3> QED
        BY <1>0, <2>2, <3>1 DEF Overwrite
    <2>4. Entries(left) = Others(slots, id)
      <3>1. \A j \in Active(slots) : slots[j].id = id => j = i
        BY <2>2 DEF Unique
      <3>2. Entries(left) = Others(slots, id) \cup EntryOf(id, Null)
        BY <1>0, <2>2, <3>1, OverwriteEntries
      <3> QED
        BY <3>2 DEF EntryOf
    <2>5. Synced(left, fails \/ Active(left) = {})
      BY <2>1
    <2> HIDE DEF left
    <2> QED
      BY <1>1, <2>2, <2>3, <2>4, <2>5 DEF ActiveIds
  <1>4. CASE AnswerUnknown(id, fails)
    BY <1>0, <1>1, <1>4 DEF AnswerUnknown
  <1> QED
    BY <1>2, <1>3, <1>4

-----------------------------------------------------------------------------
(* A reservation is refused only when every identifier is in use: the rule *)
(* that picks one finds the lowest number with some property, and there is *)
(* such a number as long as one has that property.                         *)

(* A free identifier was found unless every one is in use. *)
LEMMA FreeIdFound ==
    ASSUME NEW s \in Seq(SlotType), FreeId(s) = {}
    PROVE  1..MaxId \subseteq ActiveIds(s)
  <1>0. MaxId \in Nat /\ 1 <= MaxId /\ \A i \in DOMAIN s : s[i].id \in Nat
    <2>1. \A i \in DOMAIN s : s[i] \in SlotType
      OBVIOUS
    <2> QED
      BY <2>1, RangeAssumption DEF SlotType
  <1>1. CASE \A i \in DOMAIN s : s[i].id < MaxId
    <2> DEFINE T == {mid \in 1..MaxId : \A i \in DOMAIN s : s[i].id < mid}
    <2>1. T \in SUBSET Nat /\ MaxId \in T
      BY <1>0, <1>1
    <2>2. PICK mid \in T : \A y \in T : mid <= y
      BY <2>1, Lowest
    <2>3. ASSUME mid # 1 PROVE \E i \in DOMAIN s : s[i].id = mid - 1
      <3>1. mid - 1 \in 1..MaxId /\ mid \in Nat /\ ~(mid <= mid - 1)
        BY <1>0, <2>3
      <3>2. mid - 1 \notin T
        BY <2>2, <3>1
      <3>3. PICK i \in DOMAIN s : ~(s[i].id < mid - 1)
        BY <3>1, <3>2
      <3>4. s[i].id < mid
        OBVIOUS
      <3> QED
        BY <1>0, <3>1, <3>3, <3>4
    <2>4. mid \in FreeId(s)
      BY <1>1, <2>3 DEF FreeId
    <2> QED
      BY <2>4
  <1>2. CASE ~ \A i \in DOMAIN s : s[i].id < MaxId
    <2> DEFINE T == (1..MaxId) \ ActiveIds(s)
    <2> SUFFICES ASSUME T # {} PROVE FALSE
      OBVIOUS
    <2>1. T \in SUBSET Nat
      BY <1>0
    <2>2. PICK mid \in T : \A y \in T : mid <= y
      BY <2>1, Lowest
    <2>3. \A y \in 1..(mid - 1) : y \in 1..MaxId /\ ~(mid <= y)
      BY <1>0
    <2>4. 1..(mid - 1) \subseteq ActiveIds(s)
      BY <2>2, <2>3
    <2>5. mid \in FreeId(s)
      BY <1>2, <2>4 DEF FreeId
    <2> QED
      BY <2>5
  <1> QED
    BY <1>1, <1>2

(* mpt_command_reserve never answers with an identifier that has a handler, *)
(* changes no other entry, and refuses an array of its own only if all      *)
(* identifiers of the message range have handlers.                          *)
THEOREM ReservationsNew == Spec => ReservedIdIsNew
  <1> DEFINE New ==
        call'.op = "reserve" =>
          IF call'.ret # 0
          THEN /\ call'.ret \in (1..MaxId) \ ActiveIds(slots)
               /\ Entries(slots') \ Entries(slots)
                    = {slots'[i] : i \in {j \in Active(slots') : slots'[j].id = call'.ret}}
               /\ Entries(slots) \subseteq Entries(slots')
          ELSE kind = "typed" \/ 1..MaxId \subseteq ActiveIds(slots)
  <1>1. TypeOK /\ UniqueIds /\ Next => New
    <2> SUFFICES ASSUME TypeOK, UniqueIds, Next, call'.op = "reserve" PROVE New
      OBVIOUS
    <2>0. slots \in Seq(SlotType)
      BY DEF TypeOK
    <2>1. PICK c \in Fresh \cup {Log} : mpt_command_reserve(c)
      BY DEF Next, mpt_command_set, SetFound, SetFirst, SetEmpty, SetAppend, SetFails,
             mpt_command_clear, Fini, mpt_stream_sync, Answer, AnswerUnknown, Called
    <2>2. CASE call'.ret = 0
      <3>1. kind = "typed" \/ FreeId(slots) = {}
        <4>1. CASE ReserveFirst(c)
          BY <2>2, <4>1 DEF ReserveFirst, Called
        <4>2. CASE ReserveNext(c)
          <5>1. PICK mid \in FreeId(slots) : call' = Called("reserve", mid)
            BY <4>2 DEF ReserveNext
          <5> QED
            BY <2>2, <5>1, RangeAssumption DEF Called, FreeId
        <4>3. CASE ReserveExhausted \/ ReserveTyped
          BY <4>3 DEF ReserveExhausted, ReserveTyped
        <4>4. CASE ReserveFails
          BY <4>4 DEF ReserveFails, Called
        <4> QED
          BY <2>1, <4>1, <4>2, <4>3, <4>4 DEF mpt_command_reserve
      <3> QED
        BY <2>0, <2>2, <3>1, FreeIdFound
    <2>3. CASE call'.ret # 0
      <3>1. PICK mid \in (1..MaxId) \ ActiveIds(slots) :
              /\ Entries(slots') = Entries(slots) \cup EntryOf(mid, c)
              /\ call'.ret = mid
        BY <2>1, <2>3, ReserveEntries
      <3>2. c # Null /\ EntryOf(mid, c) = {Slot(mid, c)} /\ Slot(mid, c).id = mid
        BY HandlerAssumption DEF Fresh, EntryOf, Slot
      <3>3. {slots'[i] : i \in {j \in Active(slots') : slots'[j].id = mid}}
              = {e \in Entries(slots') : e.id = mid}
        BY DEF Entries
      <3>4. \A e \in Entries(slots) : e.id # mid
        BY DEF Entries, ActiveIds
      <3> HIDE DEF Entries
      <3> QED
        BY <2>3, <3>1, <3>2, <3>3, <3>4
    <2> QED
      BY <2>2, <2>3
  <1>2. TypeOK /\ UniqueIds /\ [Next]_vars => [New]_vars
    BY <1>1
  <1>3. ReservedIdIsNew <=> [][New]_vars
    BY DEF ReservedIdIsNew, Entries
  <1> HIDE DEF New
  <1> QED
    BY <1>2, <1>3, CommandsUnique, PTL DEF Spec

-----------------------------------------------------------------------------
(* The refinement: every step of the array is a step of the map, or none.  *)

\* A handler stored under an identifier, and one removed.
PutStep(id, c) == MapOf(slots') = WithEntry(slots, id, c)
TakeStep(id) == MapOf(slots') = WithoutEntry(slots, id)

\* What becomes of the entries decides what becomes of the map.
LEMMA MapSteps ==
    ASSUME slots \in Seq(SlotType), Unique(slots), slots' \in Seq(SlotType), Unique(slots')
    PROVE  /\ Entries(slots') = Entries(slots) => MapOf(slots') = MapOf(slots)
           /\ \A id, c : c # Null /\ Entries(slots') = Others(slots, id) \cup EntryOf(id, c) =>
                PutStep(id, c)
           /\ \A id : Entries(slots') = Others(slots, id) => TakeStep(id)
  BY MapKept, MapWith, MapWithout DEF PutStep, TakeStep

\* A step of the map, seen from the array.
MapStep ==
  \/ \E id \in Ids, c \in Contexts : PutStep(id, c)
  \/ \E id \in 1..MaxId, c \in Contexts \cup {Log} : id \notin ActiveIds(slots) /\ PutStep(id, c)
  \/ \E id \in ActiveIds(slots) : TakeStep(id)
  \/ ActiveIds(slots') = {}
  \/ MapOf(slots') = MapOf(slots)

\* Every operation on the array is a step of the map.
LEMMA NextIsMapStep ==
    ASSUME TypeOK, UniqueIds, TypeOK', UniqueIds', Next
    PROVE  MapStep
  <1>0. /\ Unique(slots) /\ Unique(slots')
        /\ slots \in Seq(SlotType) /\ slots' \in Seq(SlotType)
    BY DEF TypeOK, UniqueIds, Unique
  <1>1. ASSUME NEW id \in Ids, NEW c \in Fresh \cup {Null}, mpt_command_set(id, c)
        PROVE  MapStep
    <2>1. CASE Entries(slots') = Entries(slots)
      BY <1>0, <2>1, MapSteps DEF MapStep
    <2>2. CASE Entries(slots') = Others(slots, id) \cup EntryOf(id, c) /\ c # Null
      <3>1. c \in Contexts
        BY <2>2 DEF Fresh
      <3>2. PutStep(id, c)
        BY <1>0, <2>2, MapSteps
      <3> QED
        BY <3>1, <3>2 DEF MapStep
    <2>3. CASE Entries(slots') = Others(slots, id) \cup EntryOf(id, c) /\ c = Null
      <3>1. Entries(slots') = Others(slots, id)
        BY <2>3 DEF EntryOf
      <3>2. TakeStep(id)
        BY <1>0, <3>1, MapSteps
      <3>3. CASE id \in ActiveIds(slots)
        BY <3>2, <3>3 DEF MapStep
      <3>4. CASE id \notin ActiveIds(slots)
        <4>1. Others(slots, id) = Entries(slots)
          BY <3>4 DEF Others, Entries, ActiveIds
        <4> QED
          BY <1>0, <3>1, <4>1, MapSteps DEF MapStep
      <3> QED
        BY <3>3, <3>4
    <2> QED
      BY <1>0, <1>1, <2>1, <2>2, <2>3, SetEntries
  <1>2. ASSUME NEW c \in Fresh \cup {Log}, mpt_command_reserve(c)
        PROVE  MapStep
    <2>1. CASE Entries(slots') = Entries(slots)
      BY <1>0, <2>1, MapSteps DEF MapStep
    <2>2. CASE Entries(slots') # Entries(slots)
      <3>1. PICK mid \in (1..MaxId) \ ActiveIds(slots) :
              Entries(slots') = Entries(slots) \cup EntryOf(mid, c)
        BY <1>2, <2>2, ReserveEntries
      <3>2. Others(slots, mid) = Entries(slots)
        BY DEF Others, Entries, ActiveIds
      <3>3. c \in Contexts \cup {Log} /\ c # Null
        BY HandlerAssumption DEF Fresh
      <3>4. PutStep(mid, c)
        BY <1>0, <3>1, <3>2, <3>3, MapSteps
      <3> QED
        BY <3>3, <3>4 DEF MapStep
    <2> QED
      BY <2>1, <2>2
  <1>3. ASSUME mpt_command_clear \/ Fini PROVE MapStep
    <2>1. slots' = << >>
      BY <1>3 DEF mpt_command_clear, Fini
    <2> QED
      BY <2>1 DEF MapStep, ActiveIds, Active
  <1>4. ASSUME NEW id, mpt_stream_sync(id) PROVE MapStep
    <2>1. CASE Entries(slots') = Entries(slots)
      BY <1>0, <2>1, MapSteps DEF MapStep
    <2>2. CASE id \in ActiveIds(slots) /\ Entries(slots') = Others(slots, id)
      <3>1. TakeStep(id)
        BY <1>0, <2>2, MapSteps
      <3> QED
        BY <2>2, <3>1 DEF MapStep
    <2> QED
      BY <1>0, <1>4, <2>1, <2>2, SyncEntries
  <1> QED
    BY <1>1, <1>2, <1>3, <1>4 DEF Next

(* The command array implements the registry: registration, reservation,    *)
(* replacement, compaction and answers act on it as on a map from           *)
(* identifiers to handlers, and gaps and positions show nowhere.            *)
THEOREM ArrayImplementsRegistry == Spec => ImplementsRegistry
  <1> DEFINE map_ == [id \in ActiveIds(slots) |->
                (CHOOSE e \in {slots[i] : i \in Active(slots)} : e.id = id).cmd]
  <1>1. map_ = MapOf(slots) /\ map_' = MapOf(slots') /\ DOMAIN map_ = ActiveIds(slots)
        /\ DOMAIN (map_)' = ActiveIds(slots')
    BY DEF MapOf, Entries, ActiveIds, Active
  <1>2. Init => R!Init
    BY DEF Init, R!Init, R!Used, ActiveIds, Active
  <1>3. MapStep => [R!Next]_map_
    <2> SUFFICES ASSUME MapStep PROVE R!Next \/ map_' = map_
      OBVIOUS
    <2>1. ASSUME NEW id, NEW c, PutStep(id, c) PROVE map_' = R!With(id, c)
      BY <1>1, <2>1 DEF PutStep, WithEntry, R!With, R!Used
    <2>2. ASSUME NEW id \in ActiveIds(slots), TakeStep(id) PROVE R!Take(id) /\ id \in R!Used
      BY <1>1, <2>2 DEF TakeStep, WithoutEntry, R!Take, R!Without, R!Used
    <2>3. ActiveIds(slots') = {} => R!Clear
      BY <1>1 DEF R!Clear, R!Used
    <2>4. R!Used = ActiveIds(slots)
      BY <1>1 DEF R!Used
    <2>5. CASE \E id \in Ids, c \in Contexts : PutStep(id, c)
      BY <2>1, <2>5 DEF R!Next, R!Put
    <2>6. CASE \E id \in 1..MaxId, c \in Contexts \cup {Log} : id \notin ActiveIds(slots) /\ PutStep(id, c)
      BY <2>1, <2>4, <2>6 DEF R!Next, R!Reserve
    <2>7. CASE \E id \in ActiveIds(slots) : TakeStep(id)
      BY <2>2, <2>7 DEF R!Next
    <2>8. CASE ActiveIds(slots') = {}
      BY <2>3, <2>8 DEF R!Next
    <2>9. CASE MapOf(slots') = MapOf(slots)
      BY <1>1, <2>9
    <2> QED
      BY <2>5, <2>6, <2>7, <2>8, <2>9 DEF MapStep
  <1>4. TypeOK /\ UniqueIds /\ TypeOK' /\ UniqueIds' /\ [Next]_vars => [R!Next]_map_
    <2>1. CASE Next
      BY <1>3, <2>1, NextIsMapStep
    <2>2. CASE UNCHANGED vars
      BY <2>2 DEF vars, ActiveIds, Active
    <2> QED
      BY <2>1, <2>2
  <1> HIDE DEF map_
  <1>5. Spec => R!Init /\ [][R!Next]_map_
    BY <1>2, <1>4, CommandsUnique, PTL DEF Spec
  <1> QED
    BY <1>5, PTL DEF ImplementsRegistry, R!Spec, map_

=============================================================================
