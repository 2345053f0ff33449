-------------------------------- MODULE Path --------------------------------
(***************************************************************************)
(* Paths of configuration elements (mptcore/config/path_*.c): text of the  *)
(* caller, or an array that collects characters behind the valid part      *)
(* before they become its next element.  Names end with the separator, the *)
(* last one with the assign character.  Binary paths are left out: nothing *)
(* in the libraries creates them.                                          *)
(***************************************************************************)
EXTENDS Integers, Sequences, FiniteSets, SequencesExt

CONSTANTS FirstMax,    \* largest length of the first element that is kept (UINT8_MAX)
          NameChars,   \* characters of names
          MaxName,     \* bound of the model: length of a name
          MaxElems,    \* bound of the model: elements of a path
          MaxPost      \* bound of the model: characters behind a path

ASSUME FirstAssumption == FirstMax \in Nat \ {0} /\ MaxName <= FirstMax

Sep == "."
NulChar == "nul"

NewPath == [kind |-> "none", base |-> <<>>, off |-> 0, len |-> 0, first |-> 0,
            keep |-> FALSE, assign |-> NulChar]
End(p) == p.off + p.len
\* Places of c in the part of s from i to j.
Places(s, c, i, j) == {k \in i .. j : k <= Len(s) /\ s[k] = c}
FirstOf(S) == CHOOSE n \in S : \A k \in S : n <= k
LastOf(S) == CHOOSE n \in S : \A k \in S : n >= k

mpt_path_fini(p) ==
    IF p.kind # "array" THEN p ELSE [p EXCEPT !.kind = "none", !.base = <<>>, !.off = 0, !.len = 0]

\* Text up to the assign character, or up to n characters of it; without an
\* assign character the place of the one behind the text belongs to the path.
mpt_path_set(p, text, n) ==
    LET val   == Append(text, NulChar)
        vlen  == IF n < 0 THEN Len(val) ELSE n
        ends  == Places(val, p.assign, 1, vlen)
        plen  == IF ends = {} THEN vlen ELSE FirstOf(ends)
        seps  == Places(val, Sep, 1, plen)
        first == IF seps = {} THEN 0 ELSE FirstOf(seps) - 1
    IN  [ret |-> Cardinality(seps) + (IF ends = {} THEN 0 ELSE 1),
         path |-> [kind |-> "text", base |-> val, off |-> 0,
                   len |-> plen + (IF ends = {} THEN 1 ELSE 0),
                   first |-> IF first > FirstMax THEN 0 ELSE first,
                   keep |-> FALSE, assign |-> p.assign]]

\* A character goes behind the path; what is not marked as valid is replaced.
mpt_path_addchar(p, c) ==
    CASE p.kind # "array" ->
            [p EXCEPT !.kind = "array", !.base = Append(SubSeq(@, 1, End(p)), c)]
      [] p.kind = "array" /\ End(p) < Len(p.base) /\ ~p.keep ->
            [p EXCEPT !.base[Len(p.base)] = c]
      [] OTHER -> [p EXCEPT !.base = Append(@, c)]

mpt_path_delchar(p) ==
    IF p.kind = "array" /\ Len(p.base) > End(p) THEN [p EXCEPT !.base = Front(@)] ELSE p

\* All characters behind the path are kept from now on.
mpt_path_valid(p) ==
    LET post == IF p.kind = "array" THEN Len(p.base) - End(p) ELSE 0 IN
    [ret |-> post, path |-> IF post > 0 THEN [p EXCEPT !.keep = TRUE] ELSE p]

mpt_path_invalidate(p) ==
    IF p.kind = "array" THEN [p EXCEPT !.base = SubSeq(@, 1, End(p)), !.keep = FALSE] ELSE p

\* The next characters become an element of the path, the one behind them its
\* end.  The length of the first element is kept in one byte.
mpt_path_add(p, add) ==
    LET end  == End(p)
        data == [i \in 1 .. end + add |-> IF i = end THEN Sep ELSE p.base[i]]
        rest == SubSeq(p.base, end + add + 2, Len(p.base)) IN
    CASE p.kind = "none" -> [ret |-> "MissingBuffer", path |-> p]
      [] p.kind # "none" /\ (Len(p.base) < end + add \/ Places(p.base, Sep, end + 1, end + add) # {}) ->
            [ret |-> "BadValue", path |-> p]
      [] OTHER -> [ret |-> "done",
                   path |-> [p EXCEPT !.base = Append(data, p.assign) \o rest,
                                      !.first = IF end = 0 THEN add % (FirstMax + 1) ELSE @,
                                      !.len = end + add + 1 - p.off,
                                      !.keep = FALSE]]

\* The last element and all behind it are removed; the search starts with the
\* character in front of the end of that element.
mpt_path_del(p) ==
    LET seps == Places(p.base, Sep, p.off + 1, End(p) - 1)
        len  == IF seps = {} THEN 0 ELSE LastOf(seps) - p.off IN
    IF p.len = 0 THEN [ret |-> -1, path |-> p]
    ELSE [ret |-> p.len - len - 1,
          path |-> [p EXCEPT !.len = len,
                             !.base = IF p.kind = "array" THEN SubSeq(@, 1, len) ELSE @,
                             !.first = IF len = 0 THEN 0 ELSE @,
                             !.keep = FALSE]]

\* Mutant: an unknown length is taken for a path of one element.
mpt_path_next_Known(p) ==
    LET len == IF p.first # 0 THEN p.first ELSE p.len - 1 IN
    IF p.len = 0 THEN [ret |-> -1, path |-> p]
    ELSE [ret |-> len, path |-> [p EXCEPT !.off = @ + len + 1, !.len = @ - len - 1, !.first = 0]]

\* The first element is removed, its length is known or searched for.
mpt_path_next(p) ==
    LET seps == Places(p.base, Sep, p.off + 1, End(p) - 1)
        len  == CASE p.first # 0 -> p.first
                  [] p.first = 0 /\ seps # {} -> FirstOf(seps) - p.off - 1
                  [] OTHER -> p.len - 1 IN
    IF p.len = 0 THEN [ret |-> -1, path |-> p]
    ELSE [ret |-> len, path |-> [p EXCEPT !.off = @ + len + 1, !.len = @ - len - 1, !.first = 0]]

\* The path is reduced to its last element; places are counted from the base.
mpt_path_last(p) ==
    LET seps == Places(p.base, Sep, 1, p.len - 1)
        pos  == IF seps = {} THEN 0 ELSE LastOf(seps) IN
    IF p.len = 0 THEN [ret |-> -1, path |-> p]
    ELSE [ret |-> p.len - 1 - pos,
          path |-> [p EXCEPT !.off = @ + pos, !.len = p.len - pos, !.first = p.len - 1 - pos]]

mpt_path_data(p) == IF p.kind = "none" THEN <<>> ELSE SubSeq(p.base, End(p) + 1, Len(p.base))

\* What a reader gets who takes one element after the other (mpt_path_fputs).
RECURSIVE mpt_path_fputs(_)
mpt_path_fputs(p) ==
    LET next == mpt_path_next(p) IN
    IF next.ret < 0 THEN <<>>
    ELSE <<SubSeq(p.base, p.off + 1, p.off + next.ret)>> \o mpt_path_fputs(next.path)
-----------------------------------------------------------------------------
VARIABLES path,    \* the path
          elems,   \* names that were added and not removed
          post     \* characters behind the path

pathVars == <<path, elems, post>>

PathInit == path = NewPath /\ elems = <<>> /\ post = <<>>

Names == UNION {[1 .. n -> NameChars] : n \in 0 .. MaxName}
\* Text of a path with these names.
Joined(names) == FlattenSeq([i \in 1 .. Len(names) |-> IF i = 1 THEN names[i] ELSE <<Sep>> \o names[i]])

SetText(names) ==
    /\ names # <<>>
    /\ path' = mpt_path_set(mpt_path_fini(path), Joined(names), -1).path
    /\ elems' = names /\ post' = <<>>
AddChar(c) ==
    /\ path.off = 0 /\ Len(post) < MaxPost
    /\ path' = mpt_path_addchar(path, c)
    /\ post' = IF path.kind = "array" /\ post # <<>> /\ ~path.keep
               THEN Append(Front(post), c)
               ELSE Append(IF path.kind = "array" THEN post ELSE <<>>, c)
    /\ UNCHANGED elems
DelChar ==
    /\ path.kind = "array" /\ post # <<>>
    /\ path' = mpt_path_delchar(path) /\ post' = Front(post)
    /\ UNCHANGED elems
Valid ==
    /\ path' = mpt_path_valid(path).path
    /\ UNCHANGED <<elems, post>>
Invalidate ==
    /\ path' = mpt_path_invalidate(path)
    /\ post' = <<>>
    /\ UNCHANGED elems
Add(n) ==
    /\ path.off = 0 /\ path.kind = "array" /\ Len(elems) < MaxElems /\ n <= MaxName
    /\ path' = mpt_path_add(path, n).path
    /\ IF mpt_path_add(path, n).ret = "done"
       THEN elems' = Append(elems, SubSeq(post, 1, n)) /\ post' = SubSeq(post, n + 2, Len(post))
       ELSE UNCHANGED <<elems, post>>
Del ==
    /\ path.off = 0 /\ path.kind = "array"
    /\ path' = mpt_path_del(path).path
    /\ IF elems = <<>> THEN UNCHANGED <<elems, post>> ELSE elems' = Front(elems) /\ post' = <<>>
Take ==
    /\ mpt_path_next(path).ret >= 0
    /\ path' = mpt_path_next(path).path
    /\ elems' = Tail(elems)
    /\ UNCHANGED post
Fini ==
    /\ path.kind = "array"
    /\ path' = mpt_path_fini(path)
    /\ elems' = <<>> /\ post' = <<>>

PathNext ==
    \/ \E n \in 1 .. MaxElems : \E names \in [1 .. n -> Names] : path = NewPath /\ SetText(names)
    \/ \E c \in NameChars \cup {Sep} : AddChar(c)
    \/ DelChar \/ Valid \/ Invalidate
    \/ \E n \in 0 .. MaxPost : Add(n)
    \/ Del \/ Take \/ Fini

\* The elements that mpt_path_next finds are those that were added or set and
\* not removed, mpt_path_last finds the last of them, and characters collected
\* behind an array path are kept while elements come and go.
PathHolds ==
    /\ mpt_path_fputs(path) = elems
    /\ elems # <<>> /\ path.off = 0 =>
          LET last == mpt_path_last(path) IN
          SubSeq(path.base, last.path.off + 1, last.path.off + last.ret) = elems[Len(elems)]
    /\ path.kind = "array" => mpt_path_data(path) = post
=============================================================================
