------------------------------- MODULE MCData -------------------------------
(***************************************************************************)
(* The parts that keep and convert data, each by itself: the type registry *)
(* as a machine, value iterators, identifiers, plot values and the visible *)
(* parts of lines as machines of their own, conversions, texts, messages   *)
(* and plot elements one call at a time.                                   *)
(***************************************************************************)
EXTENDS Types, Convert, Text, Message, Identifier

VARIABLES part,                               \* what is looked at
          iters, cursors, last,               \* see Iterators
          rd, cyc, shared, log,               \* see RawData
          parts, applied, total,              \* see RawData, parts of a line
          kind, bufs, box, held, shown, view  \* see Containers

MCBuiltin == {1, 24, 64, 99, 105, 2048}
MCCoreInterfaces == <<"logger", "iterator">>
MCTypeNames == {"iter", "axis", "log", "logger"}
MCWordBits == <<2, 3, 4, 5>>

O == INSTANCE Objects
B == INSTANCE Graphic WITH DimMax <- 2
L == INSTANCE Layout WITH SourceNumbers <- {-1, 0, 3, 5, 9, 10, 300}, HexDigits <- 8

-----------------------------------------------------------------------------
(* Descriptions of iterators as tokens, with numbers among them. *)

N(n) == <<"n", n>>
C(c) == <<c, 0>>
Args(name, list) == <<C(name), C("(")>> \o list \o <<C(")")>>
Linears == {Args("linear", <<N(2)>>), Args("linear", <<N(2), C(":"), N(1), N(4)>>),
            Args("linear", <<N(15)>>), <<C("linear"), C("("), N(2)>>, Args("lin", <<N(0)>>)}
Ranges == {Args("range", <<N(1), N(2)>>), Args("range", <<N(1), N(6), C(":"), N(2)>>),
           Args("range", <<N(3), N(1)>>), Args("range", <<N(2), N(2)>>)}
Factors == {Args("factor", s) : s \in
              {<<N(2)>>, <<N(3), C(":"), N(2)>>, <<N(3), C(":"), N(2), C(":"), N(3)>>,
               <<N(2), C(":"), N(2), C(":"), C(":"), N(1)>>,
               <<N(3), C(":"), N(0), C(":"), N(3), C(":"), N(1)>>,
               <<N(3), C(":"), N(0)>>, <<N(15)>>}}
Plain == {<<>>, <<N(4), N(5), N(6)>>, <<N(4), N(5), C("bad")>>, <<N(4), C("nan")>>, <<C("bad")>>}
Words == {<<>>, <<C(" ")>>, <<N(2)>>, <<N(2), C(" "), N(3)>>,
          <<N(2), C(" "), N(0), C(" "), N(4), C(" ")>>,
          <<C(" "), N(1), C(" "), C(" "), C("bad"), C(" "), N(3)>>,
          <<N(2), C(" "), N(3), C(" "), N(5), C(" "), N(1)>>}
Profiles == {<<C("linear"), N(1), N(5)>>, <<C("boundary"), N(1), N(2), N(3)>>,
             <<C("poly"), N(2), N(1), N(3)>>,
             <<C("poly"), N(2), N(1), N(3), C(":"), N(1), N(2)>>,
             <<C("linear"), N(1)>>, <<C("bad")>>}

I == INSTANCE Iterators WITH
        Descriptions <- Linears \cup Ranges \cup Factors \cup Plain,
        Lists <- Words, Grid <- <<1, 2, 4>>, Coeffs <- Profiles, MaxCount <- 15

\* Names that fit in every identifier, in those with more space and in the largest,
\* with and without reaching the address of the block.
MCNames == {<<>>, <<1, 2>>, <<1, 2, 3>>, <<2, 2, 3, 4, 5>>}
ASSUME IdentAssumption == IdentConstants

Write(dim, type, vals, cycle, off) ==
    [dim |-> dim, type |-> type, vals |-> vals, cycle |-> cycle, off |-> off]
\* The values of a line lie below, in and above the range in the first dimension,
\* in and above it in the second one; some dimensions are shorter than the line.
Rows(S, n) == UNION {[1 .. k -> S] : k \in 1 .. n}
R == INSTANCE RawData WITH
        Requests <- {Write(0, "double", <<1>>, 0, 1), Write(0, "double", <<2>>, 1, 0),
                     Write(0, "int", <<2, 3>>, 0, 0), Write(1, "double", <<3>>, 2, 1)},
        MaxCycles <- 2, MaxDims <- 2, MaxWrites <- 3,
        CountMax <- 5, Lowest <- 0, Highest <- 1,
        Sources <- <<Rows({-1, 0, 2}, 4), Rows({0, 2}, 4)>>, Counts <- {4}

E == INSTANCE Containers WITH
        Boxes <- {1, 2}, Places <- {1, 2, 3}, Keys <- {1}, Objects <- {1, 2},
        Granule <- 2, Header <- 1, MaxLen <- 2

-----------------------------------------------------------------------------
typeVars == <<tables, granted>>
iterators == <<iters, cursors, last>>
stores == <<rd, cyc, shared, log>>
lines == <<parts, applied, total>>
containers == <<kind, bufs, box, held, shown, view>>
vars == <<part, call, typeVars, iterators, identVars, stores, lines, containers>>

Init ==
    /\ part \in {"types", "calls", "iterators", "identifiers", "rawdata", "cycles", "lines", "containers"}
    /\ CallInit /\ TypesInit /\ I!IterInit /\ IdentInit /\ R!RawInit /\ R!LinesInit
    /\ E!ContainersInit
    /\ part = "rawdata" \/ rd.max = 0
    /\ part = "containers" \/ kind = "bytes"

TypesPart ==
    /\ part = "types" /\ TypesNext
    /\ UNCHANGED <<part, call, iterators, identVars, stores, lines, containers>>
CallsPart ==
    /\ part = "calls" /\ call = Idle
    /\ ConvertCalls \/ TextCalls \/ ModeCalls \/ MessageCalls \/ O!ObjectCalls \/ L!LayoutCalls
       \/ B!GraphicCalls
    /\ UNCHANGED <<part, typeVars, iterators, identVars, stores, lines, containers>>
IteratorsPart ==
    /\ part = "iterators" /\ I!IterNext
    /\ UNCHANGED <<part, call, typeVars, identVars, stores, lines, containers>>
IdentifiersPart ==
    /\ part = "identifiers" /\ CarefulIdents
    /\ UNCHANGED <<part, call, typeVars, iterators, stores, lines, containers>>
StoresPart ==
    /\ (part = "rawdata" /\ R!CNext) \/ (part = "cycles" /\ R!CycleNext)
    /\ UNCHANGED <<part, call, typeVars, iterators, identVars, lines, containers>>
LinesPart ==
    /\ part = "lines" /\ R!LinesNext
    /\ UNCHANGED <<part, call, typeVars, iterators, identVars, stores, containers>>
ContainersPart ==
    /\ part = "containers" /\ E!ContainersNext
    /\ UNCHANGED <<part, call, typeVars, iterators, identVars, stores, lines>>

Next ==
    \/ TypesPart \/ CallsPart \/ IteratorsPart
    \/ IdentifiersPart \/ StoresPart \/ LinesPart
    \/ ContainersPart

Spec == Init /\ [][Next]_vars

-----------------------------------------------------------------------------
(* Texts are read as keys, formats, numbers, file and socket modes and     *)
(* nothing that follows is taken with them (mpt_convert_key,               *)
(* mpt_valfmt_parse, mpt_string_dest, mpt_mode_parse).                     *)
TextsRead == TextRead /\ ModeAgrees

(* Properties of the plot elements change the part that was named only and *)
(* read back what the source said (mpt_line_set, mpt_axis_set and others),  *)
(* objects keep what nodes and messages say (mpt_object_set_nodes,         *)
(* mpt_message_property), and what arguments and other objects say but for *)
(* values of the very type asked for, which reset the property             *)
(* (mpt_object_args, mpt_object_set_value).                                *)
ElementProperties == L!ElementProperties /\ O!ObjectProperties

(* Iterators deliver the values they were made of, in order, each once,    *)
(* whatever mix of reading, advancing, resetting and cloning is called,    *)
(* except from a call on that ReadEnds, AdvanceFails, ResetFails or        *)
(* CloneFails of Iterators name, up to the next reset.                     *)
ValuesInOrder == I!ValuesInOrder

(* Raw data and cycles keep what was written to each stage and dimension,  *)
(* whichever appeared by writing, reading, limits or inserting behind a    *)
(* shared clone (rd_modify, rd_values, cycle::modify, cycle::clone); they  *)
(* go where their client bound them if it names one place, a second one is *)
(* merged into the first (mpt_mapping_add, mpt_mapping_del,                *)
(* mpt_output_bind_string); containers show what was put in them, whoever  *)
(* shares their buffer (typed_array::insert, item_array::compact).         *)
ValuesAsStored ==
    /\ part \in {"rawdata", "cycles"} => R!ValuesAsStored
    /\ part = "containers" => E!ContainersHold
    /\ B!BindingsHold

(* Parts of a line draw each value that is inside all ranges once and      *)
(* cover the line exactly (mpt_linepart_linear, linepart::array::apply).   *)
VisibleDrawn == part = "lines" => R!VisibleDrawn
=============================================================================
