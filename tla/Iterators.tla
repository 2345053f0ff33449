------------------------------ MODULE Iterators ------------------------------
(***************************************************************************)
(* The iterators of mptcore and mptplot: generated values (linear, range,  *)
(* factor, boundary, polynom), numbers of a text, words of a file, of a    *)
(* string, of a buffer and of variable arguments.  All of them are used by *)
(* value, advance and reset, most can be cloned.                           *)
(*                                                                         *)
(* A number is a fraction <<n, d>> of integers, so that the steps of a     *)
(* linear iterator are exact.  A description or a list is a sequence of    *)
(* tokens <<kind, n>>: "n" a number, "bad" a word that is none, "nan" the  *)
(* text of NaN, " " a separator of a file, or a character.                 *)
(***************************************************************************)
EXTENDS Integers, Sequences

CONSTANTS Descriptions, \* texts given to mpt_iterator_create
          Lists,        \* words of texts, files, buffers and arguments
          Grid,         \* values of the data array of a profile
          Coeffs,       \* coefficients of polynoms
          MaxCount      \* UINT32_MAX

VARIABLES iters,   \* the iterator and its clone
          cursors, \* what was promised: the values and the current place
          last     \* the last result and the promised one

iterVars == <<iters, cursors, last>>

Void == [kind |-> "void"]  \* no iterator was created
Wild == [kind |-> "wild"]  \* content or place were taken from unset memory
None == <<>>
Type == <<"type">>
End == <<"end">>
One == <<"one">>
Unset == <<"unset">>
MissingData == <<"MissingData">>
BadValue == <<"BadValue">>
BadOperation == <<"BadOperation">>
Errors == {MissingData, BadValue, BadOperation}

Num(n) == <<n, 1>>
Token(t, i) == IF i \in DOMAIN t THEN t[i][1] ELSE "end"
Shape(t, s) == Len(s) <= Len(t) /\ \A i \in DOMAIN s : t[i][1] = s[i]
Arg(t, i) == t[i][2]
Plus(n) == (n + 1) % (MaxCount + 1)

-----------------------------------------------------------------------------
(* Creation. *)

mpt_iterator_boundary(len, left, inter, right) ==
    IF len < 2 THEN Void
    ELSE [kind |-> "boundary", left |-> left, inter |-> inter, right |-> right,
          elem |-> len, pos |-> 0]

\* unit is the common denominator of the values.
Linear(base, step, unit, elem) ==
    [kind |-> "linear", base |-> base, step |-> step, unit |-> unit,
     elem |-> elem, pos |-> 0]

mpt_iterator_linear(len, start, end) ==
    IF len < 2 THEN Void
    ELSE Linear(start * (len - 1), end - start, len - 1, len)

Factor(iter, base, fact, init) ==
    [kind |-> "factor", base |-> base, fact |-> fact, init |-> init,
     elem |-> Plus(iter), pos |-> 0, curr |-> init]

\* step is a fraction over unit; a zero step is 0.0 / 0.0 elements.
Range(min, max, step, unit) ==
    LET span == (max - min) * unit IN
    CASE step > span \/ 1000000 * step < span -> Void
      [] step = 0 -> Wild
      [] OTHER -> Linear(min * unit, step, unit, span \div step + 1)

LinearText(t) ==
    CASE Shape(t, <<"(", "n", ")">>) -> mpt_iterator_linear(Plus(Arg(t, 2)), 0, 1)
      [] Shape(t, <<"(", "n", ":", "n", "n", ")">>) ->
            mpt_iterator_linear(Plus(Arg(t, 2)), Arg(t, 4), Arg(t, 5))
      [] OTHER -> Void

RangeText(t) ==
    CASE Shape(t, <<"(", "n", "n", ")">>) ->
            Range(Arg(t, 2), Arg(t, 3), Arg(t, 3) - Arg(t, 2), 10)
      [] Shape(t, <<"(", "n", "n", ":", "n", ")">>) ->
            Range(Arg(t, 2), Arg(t, 3), Arg(t, 5), 1)
      [] OTHER -> Void

\* The factor defaults to the base, which must be positive then.
FactorText(t) ==
    CASE Shape(t, <<"(", "n", ")">>) -> Factor(Arg(t, 2), 10, 10, 0)
      [] Shape(t, <<"(", "n", ":", "n", ")">>) /\ Arg(t, 4) > 0 ->
            Factor(Arg(t, 2), Arg(t, 4), Arg(t, 4), 0)
      [] Shape(t, <<"(", "n", ":", "n", ":", "n", ")">>) /\ Arg(t, 6) > 0 ->
            Factor(Arg(t, 2), Arg(t, 4), Arg(t, 6), 0)
      [] Shape(t, <<"(", "n", ":", "n", ":", ":", "n", ")">>) /\ Arg(t, 4) > 0 ->
            Factor(Arg(t, 2), Arg(t, 4), Arg(t, 4), Arg(t, 7))
      [] Shape(t, <<"(", "n", ":", "n", ":", "n", ":", "n", ")">>) /\ Arg(t, 6) > 0 ->
            Factor(Arg(t, 2), Arg(t, 4), Arg(t, 6), Arg(t, 8))
      [] OTHER -> Void

mpt_iterator_values(t) ==
    IF Token(t, 1) \in {"n", "nan"}
    THEN [kind |-> "values", text |-> t, next |-> 2, curr |-> t[1]]
    ELSE Void

mpt_iterator_create(t) ==
    CASE t = <<>> -> Linear(0, 1, 10, 11)
      [] Token(t, 1) \in {"linear", "lin"} -> LinearText(Tail(t))
      [] Token(t, 1) \in {"factor", "fact", "fac"} -> FactorText(Tail(t))
      [] Token(t, 1) = "range" -> RangeText(Tail(t))
      [] OTHER -> mpt_iterator_values(t)

\* Up to count leading numbers, as many as the text has.
Leading(t) ==
    LET short == {i \in 1..(Len(t) + 1) : Token(t, i) # "n"}
    IN (CHOOSE i \in short : \A j \in short : i <= j) - 1
After(t, c) == IF \E i \in DOMAIN t : t[i][1] = c
               THEN SubSeq(t, (CHOOSE i \in DOMAIN t : t[i][1] = c) + 1, Len(t))
               ELSE <<>>

\* Coefficients [mult, shift]; the last one has no shift.
mpt_iterator_poly(t, grid) ==
    LET nc == Leading(t)
        shifts == After(t, ":")
        ns == Leading(shifts)
    IN IF nc = 0 THEN Void
       ELSE [kind |-> "poly", grid |-> grid, pos |-> 0, cached |-> None,
             coeff |-> [j \in 1..nc |->
                <<Arg(t, j), IF j < nc /\ j <= ns THEN Arg(shifts, j) ELSE 0>>]]

mpt_iterator_file(t) ==
    [kind |-> "file", text |-> t, at |-> 1, type |-> 0, val |-> None]

mpt_iterator_string(t) ==
    [kind |-> "string", text |-> t, val |-> 1, end |-> TRUE, restore |-> FALSE]

\* first: the element where a reset starts (mpt_meta_arguments skips one).
mpt_meta_buffer(t, first) ==
    [kind |-> "buffer", text |-> t, first |-> first,
     at |-> IF first <= Len(t) THEN first ELSE Len(t) + 1,
     str |-> IF first <= Len(t) THEN first ELSE 0]

mpt_meta_arguments(t) == mpt_meta_buffer(t, 2)

mpt_process_vararg(t) ==
    [kind |-> "vararg", text |-> t, fmt |-> IF t = <<>> THEN 1 ELSE 2,
     arg |-> 2, val |-> IF t = <<>> THEN None ELSE t[1]]

mpt_iterator_profile(grid, t) ==
    CASE grid = <<>> -> Void
      [] Token(t, 1) = "linear" /\ Leading(Tail(t)) >= 2 ->
            mpt_iterator_linear(Len(grid), Arg(t, 2), Arg(t, 3))
      [] Token(t, 1) = "boundary" /\ Leading(Tail(t)) >= 3 ->
            mpt_iterator_boundary(Len(grid), Arg(t, 2), Arg(t, 3), Arg(t, 4))
      [] Token(t, 1) = "poly" -> mpt_iterator_poly(Tail(t), grid)
      [] OTHER -> Void

-----------------------------------------------------------------------------
(* Values.  Fetch reads the current value as a number: a value, None, or   *)
(* an error, and the iterator afterwards (files are read, strings are cut  *)
(* and polynoms are kept by reading them).                                 *)

Got(it, res) == [it |-> it, res |-> res]

iterBoundaryValue(it) ==
    CASE it.pos >= it.elem -> None
      [] it.pos = 0 -> Num(it.left)
      [] it.pos > 0 /\ it.pos < it.elem - 1 -> Num(it.inter)
      [] OTHER -> Num(it.right)

iterLinearValue(it) ==
    IF it.pos >= it.elem THEN None ELSE <<it.base + it.pos * it.step, it.unit>>

iterFactorValue(it) == IF it.pos >= it.elem THEN None ELSE Num(it.curr)

Number(tok) == IF tok[1] = "n" THEN Num(tok[2]) ELSE <<tok[1]>>

iterValueValue(it) == IF it.next = 0 THEN None ELSE Number(it.curr)

PolyVal(c, x) ==
    LET prod[j \in 1..Len(c), k \in 0..Len(c)] ==
            IF k = 0 THEN c[j][1] ELSE prod[j, k - 1] * (x + c[j][2])
        sum[j \in 0..Len(c)] ==
            IF j = 0 THEN 0 ELSE sum[j - 1] + prod[j, Len(c) - j]
    IN sum[Len(c)]

iterPolyValue(it) ==
    CASE it.pos >= Len(it.grid) -> Got(it, None)
      [] it.cached # None -> Got(it, it.cached)
      [] OTHER -> LET v == Num(PolyVal(it.coeff, it.grid[it.pos + 1]))
                  IN Got([it EXCEPT !.cached = v], v)

\* The first word at or behind a place of the file.
WordAt(t, at) ==
    LET word == {i \in at..Len(t) : t[i][1] # " "}
    IN IF word = {} THEN Len(t) + 1 ELSE CHOOSE i \in word : \A j \in word : i <= j

fileGet(it) ==
    LET w == WordAt(it.text, it.at) IN
    CASE it.type = -1 -> Got(it, None)
      [] it.type = 1 -> Got(it, it.val)
      [] it.type = 0 /\ Token(it.text, w) = "end" -> Got([it EXCEPT !.at = w], BadValue)
      [] it.type = 0 /\ Token(it.text, w) = "bad" ->
            Got([it EXCEPT !.at = w, !.type = -1], None)
      [] OTHER -> Got([it EXCEPT !.at = w + 1, !.type = 1, !.val = Number(it.text[w])],
                      Number(it.text[w]))

parseConvertElement(it) ==
    CASE it.val = 0 -> Got(it, None)
      [] it.val > Len(it.text) -> Got([it EXCEPT !.restore = FALSE], MissingData)
      [] Token(it.text, it.val) = "bad" -> Got(it, BadValue)
      [] OTHER -> Got([it EXCEPT !.restore = it.end /\ it.val < Len(it.text)],
                      Number(it.text[it.val]))

bufferGet(it) ==
    IF it.at > Len(it.text) THEN None ELSE Number(it.text[it.str])

iteratorVarargValue(it) ==
    IF it.fmt = 0 \/ it.val = None THEN None ELSE Number(it.val)

Fetch(it) ==
    CASE it.kind = "boundary" -> Got(it, iterBoundaryValue(it))
      [] it.kind = "linear" -> Got(it, iterLinearValue(it))
      [] it.kind = "factor" -> Got(it, iterFactorValue(it))
      [] it.kind = "values" -> Got(it, iterValueValue(it))
      [] it.kind = "poly" -> iterPolyValue(it)
      [] it.kind = "file" -> fileGet(it)
      [] it.kind = "string" -> parseConvertElement(it)
      [] it.kind = "buffer" -> Got(it, bufferGet(it))
      [] it.kind = "vararg" -> Got(it, iteratorVarargValue(it))

-----------------------------------------------------------------------------
(* Advance: the iterator afterwards and Type, End or an error. *)

\* Counted iterators.
Counted(it, next) ==
    CASE it.pos >= it.elem -> Got(it, MissingData)
      [] it.pos < it.elem /\ it.pos + 1 = it.elem -> Got(next, End)
      [] OTHER -> Got(next, Type)

iterAdvance(it) == Counted(it, [it EXCEPT !.pos = @ + 1])

iterFactorAdvance(it) == Counted(it,
    [it EXCEPT !.pos = @ + 1,
               !.curr = IF it.pos = 0 THEN it.base ELSE @ * it.fact])

iterValueAdvance(it) ==
    LET tok == Token(it.text, it.next) IN
    CASE it.next = 0 -> Got(it, MissingData)
      [] it.next # 0 /\ tok = "end" -> Got([it EXCEPT !.next = 0], End)
      [] it.next # 0 /\ tok = "n" ->
            Got([it EXCEPT !.next = @ + 1, !.curr = it.text[it.next]], Type)
      [] it.next # 0 /\ tok = "nan" ->
            Got([it EXCEPT !.curr = it.text[it.next]], BadValue)
      [] OTHER -> Got(it, BadValue)

iterPolyAdvance(it) ==
    LET next == [it EXCEPT !.pos = @ + 1, !.cached = None] IN
    CASE it.pos >= Len(it.grid) -> Got(it, BadOperation)
      [] it.pos + 1 = Len(it.grid) -> Got(next, End)
      [] OTHER -> Got(next, Type)

\* The rest of a word is skipped, and the space behind it.
fileAdvance(it) ==
    LET start == IF it.type = 1 THEN it.at ELSE WordAt(it.text, it.at)
        gap == {i \in start..Len(it.text) : it.text[i][1] = " "}
        space == CHOOSE i \in gap : \A j \in gap : i <= j
    IN CASE it.type = -1 -> Got(it, MissingData)
         [] it.type # -1 /\ gap = {} ->
               Got([it EXCEPT !.at = Len(it.text) + 1, !.type = -1], End)
         [] OTHER -> Got([it EXCEPT !.at = space + 1, !.type = 0], Type)

\* Only a converted word has its end marked.
parseAdvance(it) ==
    CASE ~it.end -> Got(it, MissingData)
      [] it.end /\ it.val \in {0, Len(it.text) + 1} ->
            Got([it EXCEPT !.val = 0, !.end = FALSE], End)
      [] it.end /\ it.restore -> Got([it EXCEPT !.val = @ + 1, !.restore = FALSE], Type)
      [] OTHER -> Got([it EXCEPT !.val = 0], End)

bufferAdvance(it) ==
    CASE it.at > Len(it.text) -> Got([it EXCEPT !.str = 0], MissingData)
      [] it.at = Len(it.text) -> Got([it EXCEPT !.at = @ + 1, !.str = 0], End)
      [] OTHER -> Got([it EXCEPT !.at = @ + 1, !.str = it.at + 1], Type)

iteratorVarargNext(it) ==
    CASE it.fmt = 0 -> Got(it, MissingData)
      [] it.fmt > Len(it.text) -> Got([it EXCEPT !.fmt = 0], End)
      [] OTHER -> Got([it EXCEPT !.fmt = @ + 1, !.arg = @ + 1,
                                 !.val = it.text[it.arg]], Type)

Advance(it) ==
    CASE it.kind \in {"boundary", "linear"} -> iterAdvance(it)
      [] it.kind = "factor" -> iterFactorAdvance(it)
      [] it.kind = "values" -> iterValueAdvance(it)
      [] it.kind = "poly" -> iterPolyAdvance(it)
      [] it.kind = "file" -> fileAdvance(it)
      [] it.kind = "string" -> parseAdvance(it)
      [] it.kind = "buffer" -> bufferAdvance(it)
      [] it.kind = "vararg" -> iteratorVarargNext(it)

\* Read as a number and go on.  A failed advance is reported as 1 without
\* the value, and a string without a current value converts to nothing.
Consumed(it, f, a) ==
    CASE f.res = None /\ it.kind \notin {"string", "file"} ->
            [it |-> f.it, ret |-> MissingData, val |-> Unset]
      [] f.res \in {MissingData, BadValue, <<"bad">>, <<"nan">>} ->
            [it |-> f.it, ret |-> BadValue, val |-> Unset]
      [] a.res \in Errors -> [it |-> a.it, ret |-> One, val |-> Unset]
      [] OTHER -> [it |-> a.it, ret |-> Type,
                   val |-> IF f.res = None THEN Unset ELSE f.res]
ConsumedAt(it, f) == Consumed(it, f, Advance(f.it))
mpt_iterator_consume(it) == ConsumedAt(it, Fetch(it))

-----------------------------------------------------------------------------
(* Reset and clone. *)

iterFactorReset_Pos(it) == [it EXCEPT !.pos = 0]
iterFactorReset(it) == [it EXCEPT !.pos = 0, !.curr = it.init]

iterValueReset(it) ==
    IF it.text[1][1] = "n" THEN [it EXCEPT !.next = 2, !.curr = it.text[1]]
    ELSE [it EXCEPT !.curr = it.text[1]]

iterPolyReset(it) == [it EXCEPT !.pos = 0]
fileReset(it) == [it EXCEPT !.at = 1, !.type = 0]
parseReset(it) == [it EXCEPT !.val = 1, !.restore = FALSE]
bufferReset(it) == mpt_meta_buffer(it.text, it.first)
iteratorVarargReset(it) == [it EXCEPT !.fmt = 1, !.arg = 1]

Reset(it) ==
    CASE it.kind \in {"boundary", "linear"} -> [it EXCEPT !.pos = 0]
      [] it.kind = "factor" -> iterFactorReset(it)
      [] it.kind = "values" -> iterValueReset(it)
      [] it.kind = "poly" -> iterPolyReset(it)
      [] it.kind = "file" -> fileReset(it)
      [] it.kind = "string" -> parseReset(it)
      [] it.kind = "buffer" -> bufferReset(it)
      [] it.kind = "vararg" -> iteratorVarargReset(it)

\* The place is written behind the new iterator.
iterBoundaryClone(it) ==
    mpt_iterator_boundary(it.elem, it.left, it.inter, it.right)

iterClone(it) == it

\* The end is a null pointer, and no place in the text.
iterValueClone(it) == IF it.next = 0 THEN Wild ELSE it

\* A marked end is the end of the copied text.
parseClone(it) ==
    mpt_iterator_string(IF it.restore \/ it.val = 0 THEN <<>>
                        ELSE SubSeq(it.text, it.val, Len(it.text)))

\* Created at the first element, then moved; the text stays the first one.
bufferCopy(it) ==
    [mpt_meta_buffer(it.text, it.first) EXCEPT !.at = it.at]

Clone(it) ==
    CASE it.kind = "boundary" -> iterBoundaryClone(it)
      [] it.kind \in {"linear", "factor"} -> iterClone(it)
      [] it.kind = "values" -> iterValueClone(it)
      [] it.kind = "poly" -> Void
      [] it.kind = "file" -> it
      [] it.kind = "string" -> parseClone(it)
      [] it.kind = "buffer" -> bufferCopy(it)

-----------------------------------------------------------------------------
(* Parameters of an iterator taken from the words of a string iterator. *)

\* The first four words consumed one after the other.
Chain(t) ==
    LET chain[i \in 0..4] ==
            IF i = 0 THEN [it |-> mpt_iterator_string(t), ret |-> Type, val |-> Unset]
            ELSE mpt_iterator_consume(chain[i - 1].it)
    IN chain

NotSet(c, is) == \E i \in is : c[i].val = Unset
Whole(c, i) == c[i].val[1]

\* mpt_range_set: two numbers, the second one stays 1 when it is not stored.
mpt_range_set(c, i) ==
    CASE BadValue \in {c[i].ret, c[i + 1].ret} -> "failed"
      [] NotSet(c, {i}) \/ (c[i + 1].ret = Type /\ NotSet(c, {i + 1})) -> "unset"
      [] OTHER -> "set"

LinearWords(t) ==
    LET c == Chain(t) IN
    CASE c[1].ret # Type \/ mpt_range_set(c, 2) = "failed" -> Void
      [] mpt_range_set(c, 2) = "unset" -> Wild
      [] OTHER -> mpt_iterator_linear(Plus(Whole(c, 1)), Whole(c, 2),
                                      IF c[3].ret = Type THEN Whole(c, 3) ELSE 1)

RangeWords(t) ==
    LET c == Chain(t) IN
    CASE mpt_range_set(c, 1) = "failed" \/ c[3].ret = BadValue -> Void
      [] mpt_range_set(c, 1) = "unset" \/ (c[3].ret = Type /\ NotSet(c, {3})) -> Wild
      [] c[3].ret = One -> Range(Whole(c, 1), Whole(c, 2), Whole(c, 2) - Whole(c, 1), 10)
      [] OTHER -> Range(Whole(c, 1), Whole(c, 2), Whole(c, 3), 1)

\* Missing words leave the base, the factor or the start value unset.
FactorWords(t) ==
    LET c == Chain(t) IN
    CASE c[1].ret # Type -> Void
      [] c[1].ret = Type /\ c[2].ret = BadValue -> Factor(Whole(c, 1), 10, 10, 0)
      [] c[2].ret = Type /\ ~NotSet(c, {2}) /\ c[3].ret = BadValue ->
            Factor(Whole(c, 1), Whole(c, 2), 10, 0)
      [] c[3].ret = Type /\ ~NotSet(c, {2, 3}) /\ c[4].ret = BadValue ->
            Factor(Whole(c, 1), Whole(c, 2), Whole(c, 3), 0)
      [] NotSet(c, {2, 3, 4}) -> Wild
      [] OTHER -> Factor(Whole(c, 1), Whole(c, 2), Whole(c, 3), Whole(c, 4))

-----------------------------------------------------------------------------
(* The promised values of an iterator, and the place of the next one. *)

\* due: the promise holds for the iterator, see below.
Cursor(vals) == [vals |-> vals, at |-> 1, due |-> TRUE]
NoCursor == Cursor(<<>>)

Steps(count, start, end) ==
    [i \in 1..(count + 1) |-> <<start * count + (i - 1) * (end - start), count>>]
Powers(count, base, fact, init) ==
    [i \in 1..Plus(count) |-> IF i = 1 THEN Num(init) ELSE Num(base * fact^(i - 2))]
Numbers(t) == [i \in DOMAIN t |-> Number(t[i])]
Words(t) == SelectSeq(t, LAMBDA tok : tok[1] # " ")

\* The polynom as a sum of powers.
Polynom(t, x) ==
    LET c == mpt_iterator_poly(t, Grid).coeff
        pow[j \in DOMAIN c] == c[j][1] * (x + c[j][2])^(Len(c) - j)
        h[k \in 0..Len(c)] == IF k = 0 THEN 0 ELSE h[k - 1] + pow[k]
    IN h[Len(c)]

\* A description read as its documentation puts it.
Described(t) ==
    LET n(i) == Arg(t, i) IN
    CASE t = <<>> -> Steps(10, 0, 1)
      [] Shape(t, <<"linear", "(", "n", ")">>) -> Steps(n(3), 0, 1)
      [] Shape(t, <<"linear", "(", "n", ":">>) -> Steps(n(3), n(5), n(6))
      [] Shape(t, <<"range", "(", "n", "n", ")">>) -> Steps(10, n(3), n(4))
      [] Shape(t, <<"range", "(", "n", "n", ":">>) ->
            [i \in 1..((n(4) - n(3)) \div n(6) + 1) |-> Num(n(3) + (i - 1) * n(6))]
      [] Shape(t, <<"factor", "(", "n", ")">>) -> Powers(n(3), 10, 10, 0)
      [] Shape(t, <<"factor", "(", "n", ":", "n", ")">>) -> Powers(n(3), n(5), n(5), 0)
      [] Shape(t, <<"factor", "(", "n", ":", "n", ":", "n", ")">>) ->
            Powers(n(3), n(5), n(7), 0)
      [] Shape(t, <<"factor", "(", "n", ":", "n", ":", ":">>) ->
            Powers(n(3), n(5), n(5), n(8))
      [] Shape(t, <<"factor", "(", "n", ":", "n", ":", "n", ":">>) ->
            Powers(n(3), n(5), n(7), n(9))
      [] OTHER -> SubSeq(Numbers(t), 1, Leading(t))

Profiled(grid, t) ==
    LET n == Len(grid) IN
    CASE t[1][1] = "linear" -> Steps(n - 1, Arg(t, 2), Arg(t, 3))
      [] t[1][1] = "boundary" ->
            [i \in 1..n |-> Num(IF i = 1 THEN Arg(t, 2) ELSE IF i = n THEN Arg(t, 4) ELSE Arg(t, 3))]
      [] t[1][1] = "poly" -> [i \in 1..n |-> Num(Polynom(Tail(t), grid[i]))]

Op(op, got, want, due) == [op |-> op, got |-> got, want |-> want, due |-> due]

\* A count of elements that wrapped around.
CountWraps(it) == it.kind = "factor" /\ it.elem = 0

New(it, vals) ==
    /\ iters' = <<it, Void>>
    /\ cursors' = <<IF it.kind \in {"void", "wild"} THEN NoCursor
                   ELSE [Cursor(vals) EXCEPT !.due = ~CountWraps(it)], NoCursor>>
    /\ last' = Op("create", TRUE, TRUE, FALSE)

Create == \E t \in Descriptions :
    LET it == mpt_iterator_create(t)
    IN New(it, IF it.kind = "void" THEN <<>> ELSE Described(t))

Profile == \E t \in Coeffs :
    LET it == mpt_iterator_profile(Grid, t)
    IN New(it, IF it.kind = "void" THEN <<>> ELSE Profiled(Grid, t))

FromWords == \E t \in Lists :
    LET nums == Words(t)
        it == [lin |-> LinearWords(nums), fac |-> FactorWords(nums), ran |-> RangeWords(nums)]
        arg(i, default) == IF i <= Leading(nums) THEN Arg(nums, i) ELSE default
    IN \E kind \in DOMAIN it :
         New(it[kind],
             CASE it[kind].kind \in {"void", "wild"} -> <<>>
               [] kind = "lin" -> Steps(arg(1, 0), arg(2, 0), arg(3, 1))
               [] kind = "fac" -> Powers(arg(1, 0), arg(2, 10), arg(3, 10), arg(4, 0))
               [] kind = "ran" -> Described(<<<<"range", 0>>, <<"(", 0>>, nums[1], nums[2],
                                              <<":", 0>>, nums[3], <<")", 0>>>>))

Open == \E t \in Lists :
    LET nums == Words(t) IN
    \/ New(mpt_iterator_file(t), Numbers(nums))
    \/ New(mpt_iterator_string(nums), Numbers(nums))
    \/ New(mpt_process_vararg(nums), Numbers(nums))
    \/ New(mpt_meta_buffer(nums, 1), Numbers(nums))
    \/ New(mpt_meta_arguments(nums), SubSeq(Numbers(nums), 2, Len(nums)))

-----------------------------------------------------------------------------
(* The promise is the plain sequence: reading shows the value at the place *)
(* and moves nothing, advancing goes to the next one, a reset to the       *)
(* first, and a clone stands where its source does.  The code departs from *)
(* it in the cases below; from there on nothing is promised for this       *)
(* iterator until it is reset, unless the reset itself departs.            *)

IsNumber(v) == Len(v) = 2
Here(c) == IF c.at <= Len(c.vals) THEN c.vals[c.at] ELSE None
AtLast(c) == c.at = Len(c.vals)

\* A file ends at a word that is read and no number.
ReadEnds(it, c) == it.kind = "file" /\ Here(c) = <<"bad">>

\* A string loses all words when the one before was not read as a number; values of
\* a text stay before a word that is none; a file has a place behind its last
\* separator.
AdvanceFails(it, c) ==
    \/ it.kind = "string" /\ it.val \in 1 .. Len(it.text) - 1 /\ ~it.restore
    \/ it.kind = "values" /\ AtLast(c) /\ c.at < Len(it.text)
    \/ it.kind = "file" /\ AtLast(c) /\ Token(it.text, Len(it.text)) = " "

\* A polynom keeps the value that was read last as the first one; arguments of a
\* function keep the last one in front of the others; a string that was advanced
\* behind its end stays there, and the clone of one has the rest only.
ResetFails(it, c) ==
    \/ it.kind = "poly" /\ it.cached # None
    \/ it.kind = "vararg" /\ it.text # <<>>
    \/ it.kind = "string" /\ (~it.end \/ Len(it.text) # Len(c.vals))
    \/ CountWraps(it)

\* The clone of a boundary is at its first value, that of a buffer shows the first
\* text, that of a string ends with the word that was read.
CloneFails(it, c) ==
    \/ it.kind = "boundary" /\ c.at > 1
    \/ it.kind = "buffer" /\ c.at \in 2 .. Len(c.vals)
    \/ it.kind = "string" /\ it.restore

Unless(departs, c) == [c EXCEPT !.due = @ /\ ~departs]
Moved(c) == [c EXCEPT !.at = IF @ <= Len(c.vals) THEN @ + 1 ELSE @]
Restarted(c) == [c EXCEPT !.at = 1, !.due = TRUE]

Live == {h \in 1..2 : iters[h].kind \notin {"void", "wild"}}

\* What h was promised afterwards, and what is compared with that.
Promised(h, c, op, got, want) ==
    /\ cursors' = [cursors EXCEPT ![h] = c]
    /\ last' = Op(op, got, want, c.due)

Value(h) ==
    LET it == iters[h]   c == cursors[h] IN
    /\ iters' = [iters EXCEPT ![h] = Fetch(it).it]
    /\ Promised(h, Unless(ReadEnds(it, c), c), "value", Fetch(it).res, Here(c))

Advancing(h) ==
    LET it == iters[h]   c == cursors[h] IN
    /\ iters' = [iters EXCEPT ![h] = Advance(it).it]
    /\ Promised(h, Unless(AdvanceFails(it, c), Moved(c)), "advance",
                Advance(it).res = Type, c.at < Len(c.vals))

\* A value that is no number stays the current one.
Consume(h) ==
    LET it == iters[h]   c == cursors[h]
        number == IsNumber(Here(c))
        departs == ReadEnds(it, c) \/ (number /\ AdvanceFails(Fetch(it).it, c))
        used == mpt_iterator_consume(it)
    IN /\ iters' = [iters EXCEPT ![h] = used.it]
       /\ Promised(h, Unless(departs, IF number THEN Moved(c) ELSE c), "value", used.val, Here(c))

Resetting(h) ==
    LET it == iters[h]   c == cursors[h] IN
    /\ iters' = [iters EXCEPT ![h] = Reset(it)]
    /\ Promised(h, Unless(ResetFails(it, c), Restarted(c)), "reset", TRUE, TRUE)

Cloning ==
    /\ 1 \in Live /\ iters[2] = Void /\ iters[1].kind # "vararg"
    /\ iters' = [iters EXCEPT ![2] = Clone(iters[1])]
    /\ Promised(2, Unless(CloneFails(iters[1], cursors[1]), cursors[1]), "clone", TRUE, TRUE)

IterInit ==
    /\ iters = <<Void, Void>>
    /\ cursors = <<NoCursor, NoCursor>>
    /\ last = Op("none", TRUE, TRUE, FALSE)

IterNext ==
    \/ last.op = "none" /\ (Create \/ Profile \/ FromWords \/ Open)
    \/ \E h \in Live : Value(h) \/ Advancing(h) \/ Consume(h) \/ Resetting(h)
    \/ Cloning

-----------------------------------------------------------------------------
Agrees(got, want) ==
    IF IsNumber(want) THEN IsNumber(got) /\ got[1] * want[2] = want[1] * got[2]
    ELSE ~IsNumber(got)

\* Whatever is called in whatever order, on an iterator or on its clone, the
\* value read (value, mpt_iterator_consume) is the one its description, its text
\* or its words have at the current place, and advance reports a further one
\* exactly when there is one; save where ReadEnds, AdvanceFails, ResetFails or
\* CloneFails name what the code does instead, and until the next reset.
ValuesInOrder ==
    /\ last.due /\ last.op = "value" => Agrees(last.got, last.want)
    /\ last.due /\ last.op = "advance" => (last.got <=> last.want)

=============================================================================
