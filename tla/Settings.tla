------------------------------ MODULE Settings -------------------------------
(***************************************************************************)
(* A configuration that keeps its elements in arrays of items              *)
(* (config::root of mpt++ on top of mpt_config_item_query and _reserve),   *)
(* and the functions that fill, clear and read any configuration:          *)
(* texts, arguments, the environment, messages and configuration files.    *)
(*                                                                         *)
(* A path is a sequence of names, a value a sequence of words.  An item    *)
(* whose name is Unused is a free slot for the next new element: only a    *)
(* name that finds no memory leaves one, a removed element keeps its name. *)
(***************************************************************************)
EXTENDS Integers, Sequences, SequencesExt

CONSTANTS AllPaths,     \* paths of elements
          Texts,        \* values of elements
          ArgLists,     \* arguments: sequences of [path, val], NoAssign, NoName
          Environs,     \* environments: sequences of [words, val]
          Lower,        \* lower case of the words in environment names
          MessageTexts, \* messages: sequences of words, each but the last ended
          Folders,      \* sequences of documents
          Behind,       \* names read in the slots behind the used ones
          MaxItems      \* bound of the slots in one array

VARIABLES items,  \* array of top level items
          conf,   \* the map from paths to values it stands for
          result  \* of the last call

settingsVars == <<items, conf, result>>

Unused == "unused"
NoValue == <<>>
Null == <<"null">>
NoAssign == [path |-> Null, val |-> NoValue]
NoName == [path |-> <<>>, val |-> NoValue]
BadArgument == <<"BadArgument">>
BadType == <<"BadType">>
BadOperation == <<"BadOperation">>
BadValue == <<"BadValue">>
MissingData == <<"MissingData">>
Ok == <<"ok">>

-----------------------------------------------------------------------------
(* The item arrays. *)

Item(name, value, elements) == [name |-> name, value |-> value, elements |-> elements]
At(list, name) == {i \in DOMAIN list : list[i].name = name}
First(S) == CHOOSE i \in S : \A j \in S : i <= j

\* The place of an element: one index per level, empty when it is missing.
RECURSIVE Find(_, _)
Find(list, path) ==
    IF path = <<>> \/ At(list, Head(path)) = {} THEN <<>>
    ELSE LET i == First(At(list, Head(path)))
             sub == Find(list[i].elements, Tail(path))
         IN IF Len(path) = 1 THEN <<i>> ELSE IF sub = <<>> THEN <<>> ELSE <<i>> \o sub

\* A query walks the allocated slots (_size), not only the used ones: a name
\* that memory behind them is taken for leads Nowhere in the configuration.
Nowhere == <<0>>
RECURSIVE Strays(_, _)
Strays(list, path) ==
    /\ path # <<>> /\ list # <<>>
    /\ IF At(list, Head(path)) = {} THEN Head(path) \in Behind
       ELSE Strays(list[First(At(list, Head(path)))].elements, Tail(path))
mpt_config_item_query(list, path) ==
    IF Strays(list, path) THEN Nowhere ELSE Find(list, path)

\* Elements left in a slot that is used again; the length of the outer array
\* is taken for theirs.
Cut(list, elements) ==
    IF Len(list) > Len(elements) THEN elements
    ELSE SubSeq(elements, Len(list) + 1, Len(elements))

\* Memory an assignment may not get: for its value, or, in the array of a
\* level, for a new slot or for a name too long for its item.
Fails == {<<0, "none">>, <<0, "value">>} \cup ({1, 2} \X {"slot", "name"})
NoFail == <<0, "none">>

\* The list with the element, or as the failed allocation leaves it.
RECURSIVE mpt_config_item_reserve(_, _, _)
mpt_config_item_reserve(list, path, fail) ==
    IF path = <<>> THEN list
    ELSE LET name == Head(path)
             match == At(list, name)
             free == At(list, Unused)
             lacks(what) == fail = <<1, what>>
             below(e) == mpt_config_item_reserve(e, Tail(path), <<fail[1] - 1, fail[2]>>)
             named(e) == IF lacks("name") THEN Item(Unused, NoValue, e)
                         ELSE Item(name, NoValue, below(e))
         IN CASE match # {} -> [list EXCEPT ![First(match)].elements = below(@)]
              [] match = {} /\ free # {} ->
                    [list EXCEPT ![First(free)] = named(Cut(list, @.elements))]
              [] OTHER -> IF lacks("slot") THEN list ELSE Append(list, named(<<>>))

RECURSIVE Get(_, _)
Get(list, place) ==
    IF Len(place) = 1 THEN list[place[1]] ELSE Get(list[place[1]].elements, Tail(place))

RECURSIVE Put(_, _, _)
Put(list, place, item) ==
    IF Len(place) = 1 THEN [list EXCEPT ![place[1]] = item]
    ELSE [list EXCEPT ![place[1]].elements = Put(@, Tail(place), item)]

-----------------------------------------------------------------------------
(* config::root: the new items and the result. *)

Done(list, ret) == [list |-> list, ret |-> ret]

SetValue(list, place, val) == Put(list, place, [Get(list, place) EXCEPT !.value = val])

Assigned(list, place, val) ==
    IF place = <<>> THEN Done(list, BadOperation) ELSE Done(SetValue(list, place, val), Ok)

AssignWith(list, path, val, fail) ==
    LET place == mpt_config_item_query(list, path)
        reserved == mpt_config_item_reserve(list, path, fail)
    IN CASE path \in {Null, <<>>} -> Done(list, BadArgument)
         [] path \notin {Null, <<>>} /\ val = Null ->
               Done(IF place \in {<<>>, Nowhere} THEN list
                    ELSE SetValue(list, place, NoValue), Ok)
         [] path \notin {Null, <<>>} /\ val # Null /\ fail = <<0, "value">> ->
               Done(list, BadType)
         [] OTHER -> Assigned(reserved, Find(reserved, path), val)
assign(list, path, val) == AssignWith(list, path, val, NoFail)

\* set_name(0) passes the length -1, which mpt_identifier_set refuses: the
\* element keeps its name, and with it its slot.
Emptied_Kept(item) == Item(item.name, NoValue, item.elements)
Emptied(item) == Item(item.name, NoValue, <<>>)

remove(list, path) ==
    LET place == mpt_config_item_query(list, path) IN
    CASE path = Null -> Done(list, Ok)
      [] path = <<>> -> Done(<<>>, Ok)
      [] path \notin {Null, <<>>} /\ place = <<>> -> Done(list, BadOperation)
      [] path \notin {Null, <<>>} /\ place = Nowhere -> Done(list, Ok)
      [] OTHER -> Done(Put(list, place, Emptied(Get(list, place))), Ok)

\* The value handed to the handler; no element of its own at the top.
query(list, path) ==
    LET place == mpt_config_item_query(list, path) IN
    CASE path = Null -> NoValue
      [] path # Null /\ place = <<>> -> MissingData
      [] path # Null /\ place = Nowhere -> <<"stray">>
      [] OTHER -> Get(list, place).value

-----------------------------------------------------------------------------
(* Functions for any configuration. *)

mpt_config_set(list, path, val) ==
    IF val = Null THEN remove(list, path) ELSE assign(list, path, val)

\* A missing value is an error of the conversion as well.
mpt_config_getp(list, path) ==
    IF query(list, path) = NoValue THEN MissingData ELSE query(list, path)

\* The logger of a configuration: its own, or its output.
mpt_config_logger(list, isLogger(_)) ==
    LET found == SelectSeq(<<Null, <<"logger">>, <<"output">>>>,
                           LAMBDA p : isLogger(mpt_config_getp(list, p)))
    IN IF found = <<>> THEN Null ELSE found[1]

\* Arguments "path=value"; "=value" assigns to the element with an empty
\* name.  A property without name ends the loop, as does, without a logger,
\* an assignment that fails: that of the k-th argument, none for k = 0.
RECURSIVE mpt_config_args(_, _, _, _)
mpt_config_args(list, args, info, k) ==
    IF args = <<>> THEN Done(list, Ok)
    ELSE LET a == Head(args)
             s == AssignWith(list, a.path, a.val, IF k = 1 THEN <<0, "value">> ELSE NoFail)
         IN CASE a = NoAssign -> mpt_config_args(list, Tail(args), info, k - 1)
              [] a = NoName -> Done(list, BadType)
              [] a \notin {NoAssign, NoName} /\ s.ret # Ok /\ ~info -> Done(s.list, BadValue)
              [] OTHER -> mpt_config_args(s.list, Tail(args), info, k - 1)

\* Arguments without text are left out, failures are only logged.
RECURSIVE mpt_config_clear(_, _)
mpt_config_clear(list, paths) ==
    IF paths = <<>> THEN Done(list, Ok)
    ELSE mpt_config_clear(IF Head(paths) = <<>> THEN list ELSE remove(list, Head(paths)).list,
                          Tail(paths))

\* Variables that match "mpt_*", their names in lower case and split.
Matches(var) == Len(var.words) > 1 /\ Lower[var.words[1]] = "mpt"
VarPath(var) == [i \in DOMAIN var.words |-> Lower[var.words[i]]]

RECURSIVE mpt_config_environ(_, _)
mpt_config_environ(list, env) ==
    IF env = <<>> THEN list
    ELSE mpt_config_environ(
            IF Matches(Head(env)) THEN assign(list, VarPath(Head(env)), Head(env).val).list
            ELSE list, Tail(env))

\* The first len words of a message are the path, the others the value.
mpt_message_assign(list, msg, len) ==
    CASE msg = Null -> assign(list, Null, Null)
      [] msg # Null /\ len >= Len(msg) -> Done(list, BadValue)
      [] OTHER -> assign(list, SubSeq(msg, 1, len), SubSeq(msg, len + 1, Len(msg)))

\* The text of each requested path is copied, but the path stays empty.
mpt_config_message_next(path) == <<>>

\* A status when no value was found, else the values.
mpt_config_reply(list, paths) ==
    IF paths = <<>> THEN <<"status">> \o Ok
    ELSE LET v == query(list, mpt_config_message_next(Head(paths)))
         IN IF v = MissingData THEN <<"status">> \o MissingData ELSE <<"values">> \o v

\* A document: options in their order and whether it ends without error.
RECURSIVE Options(_, _)
Options(list, opts) ==
    IF opts = <<>> THEN list
    ELSE Options(assign(list, Head(opts).path, Head(opts).val).list, Tail(opts))

\* Files of a directory up to the first one with an error.
RECURSIVE mpt_parse_folder(_, _)
mpt_parse_folder(list, docs) ==
    CASE docs = <<>> -> Done(list, Ok)
      [] docs # <<>> /\ ~Head(docs).ok -> Done(Options(list, Head(docs).opts), BadValue)
      [] OTHER -> mpt_parse_folder(Options(list, Head(docs).opts), Tail(docs))

\* First the directory, then the file whose options replace the others.
LoadFile(s, file) ==
    IF file = <<>> THEN s
    ELSE Done(Options(s.list, file[1].opts),
              IF file[1].ok THEN s.ret \cup {"file"} ELSE s.ret)
LoadFolder(s) == Done(s.list, IF s.ret = Ok THEN {"folder"} ELSE {})
mpt_config_load(list, dir, docs, file) ==
    LoadFile(IF ~dir THEN Done(list, {}) ELSE LoadFolder(mpt_parse_folder(list, docs)),
             file)
-----------------------------------------------------------------------------
(* The same on a map from paths to values, closed under prefixes. *)


MapAssign(m, a) ==
    IF a.path \in {Null, <<>>} THEN m
    ELSE [q \in DOMAIN m \cup (Prefixes(a.path) \ {<<>>}) |->
            IF q = a.path THEN a.val ELSE IF q \in DOMAIN m THEN m[q] ELSE NoValue]
MapRemove(m, p) == [q \in {q \in DOMAIN m : ~IsPrefix(p, q)} |-> m[q]]
MapAll(m, assigns) == FoldLeft(MapAssign, m, assigns)

\* Arguments in front of the first one that ends the loop, without the one
\* that is refused.
Accepted(args, info, k) ==
    LET ends == {i \in DOMAIN args : args[i] = NoName \/ (i = k /\ ~info /\ args[i] # NoAssign)}
        read == IF ends = {} THEN DOMAIN args ELSE 1 .. First(ends) - 1
    IN [i \in read |-> IF i = k THEN NoAssign ELSE args[i]]

\* Options of the documents up to the first one with an error.
Parsed(docs) ==
    LET bad == {i \in DOMAIN docs : ~docs[i].ok}
        used == IF bad = {} THEN docs ELSE SubSeq(docs, 1, First(bad))
    IN FlattenSeq([i \in DOMAIN used |-> used[i].opts])

NoResult == [got |-> Null, want |-> Null]
Becomes(s, m) == items' = s.list /\ conf' = m /\ result' = NoResult

Set == \E p \in AllPaths, v \in Texts \cup {Null} :
    Becomes(mpt_config_set(items, p, v),
            IF v = Null THEN MapRemove(conf, p) ELSE MapAssign(conf, [path |-> p, val |-> v]))
\* Only an assignment that lacks memory may refuse: it assigns nothing then.
SetFails == \E p \in AllPaths, v \in Texts, fail \in Fails :
    LET s == AssignWith(items, p, v, fail)
    IN Becomes(s, IF fail # NoFail /\ s.ret # Ok THEN conf
                  ELSE MapAssign(conf, [path |-> p, val |-> v]))
Reset == \E p \in AllPaths :
    Becomes(assign(items, p, Null),
            IF p \in DOMAIN conf THEN [conf EXCEPT ![p] = NoValue] ELSE conf)
RemoveAll == Becomes(remove(items, <<>>), <<>>)
Args == \E a \in ArgLists, info \in BOOLEAN : \E k \in 0 .. Len(a) :
    Becomes(mpt_config_args(items, a, info, k), MapAll(conf, Accepted(a, info, k)))
Clear == \E p, q \in AllPaths \cup {<<>>} :
    Becomes(mpt_config_clear(items, <<p, q>>),
            FoldLeft(LAMBDA m, x : IF x = <<>> THEN m ELSE MapRemove(m, x), conf, <<p, q>>))
Environ == \E env \in Environs :
    Becomes(Done(mpt_config_environ(items, env), Ok),
            MapAll(conf, [i \in DOMAIN SelectSeq(env, Matches) |->
                            [path |-> VarPath(SelectSeq(env, Matches)[i]),
                             val |-> SelectSeq(env, Matches)[i].val]]))
MessageAssign == \E msg \in MessageTexts \cup {Null}, len \in 0..3 :
    Becomes(mpt_message_assign(items, msg, len),
            IF msg = Null \/ len >= Len(msg) THEN conf
            ELSE MapAssign(conf, [path |-> SubSeq(msg, 1, len),
                                  val |-> SubSeq(msg, len + 1, Len(msg))]))
Load == \E docs \in Folders, file \in UNION {{<<>>}, {<<f[1]>> : f \in Folders \ {<<>>}}}, dir \in BOOLEAN :
    Becomes(mpt_config_load(items, dir, docs, file),
            MapAll(conf, (IF dir THEN Parsed(docs) ELSE <<>>) \o Parsed(file)))

Logs(v) == v = <<"log">>
Logger ==
    /\ result' = [got |-> mpt_config_logger(items, Logs),
                  want |-> LET known == SelectSeq(<<<<"logger">>, <<"output">>>>,
                                            LAMBDA p : p \in DOMAIN conf /\ Logs(conf[p]))
                           IN IF known = <<>> THEN Null ELSE known[1]]
    /\ UNCHANGED <<items, conf>>
\* No value is ever replied.
Reply == \E p \in AllPaths :
    /\ result' = [got |-> mpt_config_reply(items, <<p>>), want |-> <<"status", "MissingData">>]
    /\ UNCHANGED <<items, conf>>

SettingsInit == items = <<>> /\ conf = <<>> /\ result = NoResult

Fits(list) == Len(list) <= MaxItems /\ \A i \in DOMAIN list : Len(list[i].elements) <= MaxItems

SettingsNext ==
    /\ Set \/ SetFails \/ Reset \/ RemoveAll \/ Args \/ Clear \/ Environ \/ MessageAssign \/ Load
         \/ Logger \/ Reply
    /\ Fits(items')

-----------------------------------------------------------------------------
\* Whatever order elements are assigned, removed and assigned again in, by
\* single calls, arguments, the environment, messages or files, and wherever
\* one of them found no memory, reading a path (mpt_config_getp) gives the
\* value last assigned to it, and none once it or an element above it is
\* removed; every element assigned or passed on the way, and not removed, is
\* found (config::root::query).  A removed element is still found, without
\* value and elements.  The configuration finds its logger under the
\* documented names.
SettingsAsAssigned ==
    /\ \A p \in AllPaths :
         /\ mpt_config_getp(items, p) =
               IF p \in DOMAIN conf /\ conf[p] # NoValue THEN conf[p] ELSE MissingData
         /\ p \in DOMAIN conf => query(items, p) # MissingData
    /\ result.got = result.want
=============================================================================
