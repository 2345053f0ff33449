------------------------------ MODULE RawData ------------------------------
(***************************************************************************)
(* Values of plots in stages (cycles) and dimensions: the C instance of    *)
(* mptplot/rawdata_create.c and the C++ class cycle.  A stage is the       *)
(* sequence of its dimensions, a dimension its element type and elements;  *)
(* both appear when they are first used, also by reading.                  *)
(* A cloned cycle uses the stages of its original until one of the two     *)
(* needs a further stage.                                                  *)
(* Behind it the visible parts of plotted lines: mpt_linepart_linear finds *)
(* the next part of the values of one dimension inside its range,          *)
(* linepart::array keeps the parts of a line for all dimensions applied so *)
(* far.  A part covers 'raw' values, of which 'usr' ones from its start    *)
(* are drawn; with 'cut' and 'trim' only a fraction of the first and the   *)
(* last step is drawn.  'raw' may be less than 'usr': the value behind the *)
(* part also begins the next one.                                          *)
(***************************************************************************)
EXTENDS Integers, Sequences, SequencesExt, FiniteSetsExt

CONSTANTS Requests,    \* writes: [dim, type, vals, cycle, off]
          MaxCycles,   \* stages in use
          MaxDims,     \* dimensions in use
          MaxWrites,   \* writes to one instance
          CountMax,    \* UINT16_MAX, largest number of values of a part
          Lowest,      \* range of the dimensions of a line
          Highest,
          Sources,     \* values of its dimensions, in the order they are applied
          Counts       \* values a line is prepared for

NoType == "none"       \* store without a buffer

VARIABLES rd,      \* the C instance
          cyc,     \* a C++ cycle (1) and its clone (2)
          shared,  \* both use the same stages
          log,     \* per instance (C: 0): writes that reached a store, oldest first
          parts,   \* the parts of a line
          applied, \* values of the dimensions applied to it, oldest first
          total    \* values of the line

NewCycle == [open |-> TRUE, stages |-> <<>>, act |-> 0, limited |-> FALSE, dims |-> 0]

\* 'typed': the buffer of the stages was made by rd_modify
RawInit ==
    /\ rd \in [stages : {<<>>}, buf : {FALSE}, typed : {FALSE}, act : {0}, max : 0 .. MaxCycles]
    /\ cyc = <<NewCycle, [NewCycle EXCEPT !.open = FALSE]>>
    /\ shared = FALSE
    /\ log = [who \in 0 .. 2 |-> <<>>]

-----------------------------------------------------------------------------
(* One store *)

EmptyStore == [type |-> NoType, vals |-> <<>>]

\* Mutant: a write ends the data.
Overlaid_Cut(old, off, vals) ==
    [i \in 1 .. off + Len(vals) |->
        IF i > off THEN vals[i - off] ELSE IF i <= Len(old) THEN old[i] ELSE 0]

\* Elements of a store with new ones at an offset, zeros between.
Overlaid(old, off, vals) ==
    [i \in 1 .. Max({Len(old), off + Len(vals)}) |->
        IF i > off /\ i <= off + Len(vals) THEN vals[i - off]
        ELSE IF i <= Len(old) THEN old[i] ELSE 0]

\* mpt_array_set: other elements than those present are refused.
SetRefused(store, type) == store.type \notin {NoType, type}

\* value_store::reserve: room for so many elements, new ones are zero
reserve(store, n) == [type |-> "double", vals |-> Overlaid(store.vals, n, <<>>)]

-----------------------------------------------------------------------------
(* Stages *)

Padded(list, n, new) == [i \in 1 .. Max({Len(list), n}) |-> IF i <= Len(list) THEN list[i] ELSE new]

\* The stage with its dimension (counted from 0) in place.
mpt_stage_data(st, dim) == Padded(st, dim + 1, EmptyStore)
\* The stages with one of them in place, empty stages before it.
WithStage(list, nc) == Padded(list, nc + 1, <<>>)
WithDim(list, nc, dim) == [list EXCEPT ![nc + 1] = mpt_stage_data(@, dim)]

Wrote(who, nc, dim, off, vals) ==
    log' = [w \in DOMAIN log |-> IF w \in who
              THEN Append(log[w], [cycle |-> nc, dim |-> dim, off |-> off, vals |-> vals])
              ELSE log[w]]

-----------------------------------------------------------------------------
(* C instance *)

\* A limit allows stages up to it, without one only the next stage is made.
StageAllowed(nc) == IF rd.max # 0 THEN nc < rd.max ELSE nc <= Len(rd.stages)

rd_modify(dim, type, vals, cycle, off) ==
    LET nc    == IF cycle = 0 THEN rd.act ELSE cycle
        list  == WithDim(WithStage(rd.stages, nc), nc, dim)
        store == list[nc + 1][dim + 1] IN
    IF ~StageAllowed(nc) THEN UNCHANGED <<rd, log>>
    ELSE /\ rd' = [rd EXCEPT !.buf = TRUE, !.typed = IF rd.buf THEN @ ELSE TRUE,
                             !.stages = IF SetRefused(store, type) THEN list
                                        ELSE [list EXCEPT ![nc + 1][dim + 1] =
                                                [type |-> type, vals |-> Overlaid(store.vals, off, vals)]]]
         /\ IF SetRefused(store, type) THEN UNCHANGED log ELSE Wrote({0}, nc, dim, off, vals)

\* A placeholder is only added to a buffer without type; an existing stage is
\* reported but not made the current one.
rd_advance ==
    LET act == IF rd.act + 1 >= rd.max THEN 0 ELSE rd.act + 1 IN
    /\ IF rd.buf /\ (act < Len(rd.stages) \/ rd.typed) THEN UNCHANGED rd
       ELSE rd' = [rd EXCEPT !.buf = TRUE, !.act = act, !.stages = Append(@, <<>>)]
    /\ UNCHANGED log

StageFound(list, nc) == nc < Len(list)
Selected(act, nc) == IF nc < 0 THEN act ELSE nc

\* The stages a reader of a dimension leaves.
ReadStages(list, act, dim, nc) ==
    LET at == Selected(act, nc) IN
    IF StageFound(list, at) THEN WithDim(list, at, dim) ELSE list

rd_values(dim, nc) ==
    rd' = [rd EXCEPT !.stages = ReadStages(@, rd.act, dim, nc)] /\ UNCHANGED log

dimension_count(list, act, nc) ==
    LET at == Selected(act, nc) IN IF StageFound(list, at) THEN Len(list[at + 1]) ELSE -1

-----------------------------------------------------------------------------
(* C++ cycle *)

\* Stages of one cycle change: in place, also for the other one that uses them.
InPlace(c, list) ==
    /\ cyc' = [x \in 1 .. 2 |-> IF x = c \/ shared
                                THEN [cyc[x] EXCEPT !.stages = list] ELSE cyc[x]]
    /\ UNCHANGED shared
\* A further stage needs stages of its own.
Inserted(c, list) == cyc' = [cyc EXCEPT ![c].stages = list] /\ shared' = FALSE

\* 'cycle' counts from 1 here.  Data that is no number is refused when its
\* place is made already.
modify(c, dim, number, vals, cycle, off) ==
    LET nc    == IF cycle = 0 THEN cyc[c].act ELSE cycle - 1
        old   == cyc[c].stages
        list  == WithDim(WithStage(old, nc), nc, dim)
        room  == reserve(list[nc + 1][dim + 1], off + Len(vals))
        store == IF number THEN [room EXCEPT !.vals = Overlaid(@, off, vals)] ELSE room
        new   == [list EXCEPT ![nc + 1][dim + 1] = store]
        users == IF StageFound(old, nc) /\ shared THEN {1, 2} ELSE {c} IN
    IF \/ cyc[c].dims # 0 /\ dim >= cyc[c].dims
       \/ ~StageFound(old, nc) /\ cyc[c].limited
    THEN UNCHANGED <<cyc, shared, log>>
    ELSE /\ IF StageFound(old, nc) THEN InPlace(c, new) ELSE Inserted(c, new)
         /\ IF number THEN Wrote(users, nc, dim, off, vals)
            ELSE Wrote(users, nc, dim, off + Len(vals), <<>>)

values(c, dim, nc) ==
    /\ IF cyc[c].dims # 0 /\ dim >= cyc[c].dims THEN UNCHANGED <<cyc, shared>>
       ELSE InPlace(c, ReadStages(cyc[c].stages, cyc[c].act, dim, nc))
    /\ UNCHANGED log

\* to the next stage if there is one or may be one
advance(c) ==
    LET n    == cyc[c].act + 1
        old  == cyc[c].stages
        next == CASE StageFound(old, n) -> n
                  [] ~StageFound(old, n) /\ cyc[c].limited -> 0
                  [] OTHER -> IF dimension_count(old, cyc[c].act, -1) > 0 THEN n ELSE cyc[c].act IN
    cyc' = [cyc EXCEPT ![c].act = next] /\ UNCHANGED <<shared, log>>

\* Without a number the limit stays as it is.
limit_stages(c, max) ==
    LET curr == Len(cyc[c].stages)
        lim  == [cyc EXCEPT ![c].limited = TRUE] IN
    /\ CASE max = 0 \/ max < curr -> UNCHANGED <<cyc, shared>>
         [] max # 0 /\ max = curr -> cyc' = lim /\ UNCHANGED shared
         [] OTHER -> /\ cyc' = [lim EXCEPT ![c].stages = WithStage(@, max - 1)]
                     /\ shared' = FALSE
    /\ UNCHANGED log

limit_dimensions(c, md) == cyc' = [cyc EXCEPT ![c].dims = md] /\ UNCHANGED <<shared, log>>

clone ==
    /\ ~cyc[2].open
    /\ cyc' = [cyc EXCEPT ![2] = cyc[1]]
    /\ shared' = TRUE
    /\ log' = [log EXCEPT ![2] = log[1]]

unref ==
    /\ cyc[2].open
    /\ cyc' = [cyc EXCEPT ![2] = [NewCycle EXCEPT !.open = FALSE]]
    /\ shared' = FALSE
    /\ log' = [log EXCEPT ![2] = <<>>]

-----------------------------------------------------------------------------
Dims == 0 .. MaxDims - 1
Cycles == 0 .. MaxCycles

CNext ==
    /\ UNCHANGED <<cyc, shared>>
    /\ \/ \E r \in Requests :
             /\ Len(log[0]) < MaxWrites /\ r.cycle < MaxCycles
             /\ rd_modify(r.dim, r.type, r.vals, r.cycle, r.off)
       \/ Len(rd.stages) < MaxCycles /\ rd_advance
       \/ \E dim \in Dims, nc \in -1 .. MaxCycles - 1 : rd_values(dim, nc)

CycleNext ==
    /\ UNCHANGED rd
    /\ \/ \E c \in {x \in 1 .. 2 : cyc[x].open} :
             \/ \E r \in Requests :
                   /\ Len(log[1]) + Len(log[2]) < MaxWrites
                   /\ modify(c, r.dim, r.type = "double", r.vals, r.cycle, r.off)
             \/ \E nc \in -1 .. MaxCycles - 1 : values(c, MaxDims - 1, nc)
             \/ cyc[c].act + 1 < MaxCycles /\ advance(c)
             \/ \E max \in Cycles : (~cyc[2].open \/ c = 2) /\ limit_stages(c, max)
             \/ log[c] = <<>> /\ ~cyc[2].open /\ \E md \in Dims : limit_dimensions(c, md)
       \/ clone \/ unref

-----------------------------------------------------------------------------
\* What the writes to one dimension of one stage make of it.
Writes(w, nc, dim) ==
    SelectSeq(log[w], LAMBDA e : e.cycle = nc /\ e.dim = dim)
Expected(ws) ==
    [i \in 1 .. Max({0} \cup {e.off + Len(e.vals) : e \in ToSet(ws)}) |->
        LET cover == {k \in DOMAIN ws : i > ws[k].off /\ i <= ws[k].off + Len(ws[k].vals)}
        IN  IF cover = {} THEN 0 ELSE ws[Max(cover)].vals[i - ws[Max(cover)].off]]

Kept(w, list, act) ==
    \A nc \in 0 .. MaxCycles, dim \in Dims :
        LET ws   == Writes(w, nc, dim)
            read == ReadStages(list, act, dim, nc)
        IN  IF ws = <<>> THEN StageFound(list, nc) => read[nc + 1][dim + 1].vals = <<>>
            ELSE /\ dim < dimension_count(list, act, nc)
                 /\ read[nc + 1][dim + 1].vals = Expected(ws)

\* A dimension of a stage holds what was written to it, in the order of the
\* writes and with zeros where nothing was written, and no write to another
\* dimension or stage, no reading of a missing one, no limit and no clone with
\* stages of its own changes it.
ValuesAsStored ==
    /\ Kept(0, rd.stages, rd.act)
    /\ \A c \in 1 .. 2 : cyc[c].open => Kept(c, cyc[c].stages, cyc[c].act)

-----------------------------------------------------------------------------
(* Parts of a line *)

LinesInit == parts = <<>> /\ applied = <<>> /\ total = 0

Part(raw, usr) == [raw |-> raw, usr |-> usr, cut |-> 0, trim |-> 0]

-----------------------------------------------------------------------------
(* One dimension *)

Visible(v) == v \in Lowest .. Highest
Outside(v) == IF v < Lowest THEN Lowest - v ELSE v - Highest

\* A fraction num / den in (0, 1] as part of UINT16_MAX + 1.
mpt_linepart_code(num, den) == Min({CountMax, (num * (CountMax + 1)) \div den})

\* The fraction of the step between a hidden and a visible value that is hidden.
Hidden(out, in) ==
    mpt_linepart_code(Outside(out), IF out < in THEN in - out ELSE out - in)

\* A hidden value is part of the line beside a visible one.  Hidden values that
\* follow the part belong to it, but for the last before a visible one.
mpt_linepart_linear(from) ==
    LET len   == Min({Len(from), CountMax})
        enter == len >= 2 /\ ~Visible(from[1]) /\ Visible(from[2])
        first == IF enter THEN 3 ELSE 1
        stop  == Min({len + 1} \cup {i \in first .. len : ~Visible(from[i])})
        again == Min({len + 1} \cup {i \in stop + 1 .. len : Visible(from[i])})
        raw   == CASE stop > len -> len
                   [] stop <= len /\ again > len -> len
                   [] OTHER -> again - 2 IN
    [raw  |-> raw,
     usr  |-> IF stop <= len /\ stop > 1 THEN stop ELSE stop - 1,
     cut  |-> IF enter THEN Hidden(from[1], from[2]) ELSE 0,
     trim |-> IF stop <= len /\ stop > 1 THEN Hidden(from[stop], from[stop - 1]) ELSE 0]

-----------------------------------------------------------------------------
(* All dimensions *)

\* Mutant: hidden values in the first part are passed over.
Joins_Hidden(to, post) ==
    /\ to.raw + post.raw <= CountMax /\ to.usr + post.usr <= CountMax
    /\ to.trim = 0 /\ post.cut = 0
\* Parts without anything hidden between them are one part.
Joins(to, post) ==
    /\ to.raw + post.raw <= CountMax /\ to.usr + post.usr <= CountMax
    /\ to.trim = 0 /\ post.cut = 0 /\ to.usr = to.raw
mpt_linepart_join(to, post) == [to EXCEPT !.raw = @ + post.raw, !.usr = @ + post.usr]

Added(list, p) ==
    IF list # <<>> /\ Joins(Last(list), p)
    THEN Append(Front(list), mpt_linepart_join(Last(list), p)) ELSE Append(list, p)

Drop(s, n) == SubSeq(s, n + 1, Len(s))

\* The parts of the first dimension, if none were prepared.
RECURSIVE Fresh(_)
Fresh(from) ==
    IF from = <<>> THEN <<>>
    ELSE LET p == mpt_linepart_linear(from) IN <<p>> \o Fresh(Drop(from, p.raw))

\* 'todo' holds the parts from before, the first one reduced to what is left of
\* it; each is divided where the new values leave the range.
RECURSIVE Divided(_, _, _)
Divided(todo, from, done) ==
    IF todo = <<>> THEN done
    ELSE LET old   == Head(todo)
             usr   == Min({old.usr, Len(from)})
             p     == mpt_linepart_linear(SubSeq(from, 1, usr))
             begun == [p EXCEPT !.cut = Max({old.cut, p.cut})]
             ended == [begun EXCEPT !.raw = old.raw, !.trim = Max({old.trim, p.trim})]
             rest  == [old EXCEPT !.raw = @ - p.raw, !.usr = usr - p.raw, !.cut = 0] IN
         CASE old.usr = 0 \/ from = <<>> ->
                 Divided(Tail(todo), Drop(from, old.raw), Added(done, old))
           [] old.usr # 0 /\ from # <<>> /\ p.raw < old.raw ->
                 Divided(<<rest>> \o Tail(todo), Drop(from, p.raw), Added(done, begun))
           [] OTHER ->
                 Divided(Tail(todo), Drop(from, old.raw), Added(done, ended))

\* linepart::array::apply
Apply(from) ==
    /\ from # <<>>
    /\ parts' = IF parts = <<>> THEN Fresh(from) ELSE Divided(parts, from, <<>>)
    /\ applied' = Append(applied, from)
    /\ total' = IF parts = <<>> THEN Len(from) ELSE total

\* linepart::array::set: all values of a line are drawn, for as many parts as
\* needed; the present ones are counted for a negative length.  Elements that were
\* there before keep what an earlier apply made of their cut and trim.
length_raw(list) == FoldSeq(LAMBDA p, n : n + p.raw, 0, list)
Whole(list, len) ==
    LET max == CountMax - 2
        old(i) == IF i <= Len(list) THEN list[i] ELSE Part(0, 0) IN
    [i \in 1 .. (len + max - 1) \div max |->
        LET n == Min({max, len - (i - 1) * max}) IN [old(i) EXCEPT !.raw = n, !.usr = n]]
Set(len) ==
    /\ parts' = Whole(parts, IF len < 0 THEN length_raw(parts) ELSE len)
    /\ applied' = <<>>
    /\ total' = IF len < 0 THEN total ELSE len

LinesNext ==
    \/ applied = <<>> /\ parts = <<>> /\ \E n \in Counts : Set(n)
    \/ Len(applied) < Len(Sources) /\ \E v \in Sources[Len(applied) + 1] : Apply(v)
    \/ Len(applied) = Len(Sources) /\ Set(-1)

-----------------------------------------------------------------------------
\* values before a part
Start(k) == length_raw(SubSeq(parts, 1, k - 1))
Drawn(k) == Start(k) + 1 .. Start(k) + parts[k].usr
Known(i) == \A d \in DOMAIN applied : i <= Len(applied[d])
Shown(i) == \A d \in DOMAIN applied : Visible(applied[d][i])

\* Every value that is inside the ranges of all dimensions is drawn by one part,
\* hidden values are only drawn as the first or the last of a part, and the
\* parts take exactly the values of the line, each at least one, whatever its
\* length, wherever the dimensions leave their ranges and however often the line
\* is set and applied again.  Values behind the end
\* of a shorter dimension are not considered.
VisibleDrawn ==
    /\ \A i \in 1 .. total :
          Known(i) /\ Shown(i) => \E k \in DOMAIN parts : {x \in DOMAIN parts : i \in Drawn(x)} = {k}
    /\ \A k \in DOMAIN parts : \A i \in Drawn(k) :
          i \notin {Start(k) + 1, Start(k) + parts[k].usr} /\ Known(i) => Shown(i)
    /\ length_raw(parts) = total
    /\ \A k \in DOMAIN parts : parts[k].raw > 0
=============================================================================
