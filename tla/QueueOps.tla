------------------------------ MODULE QueueOps ------------------------------
(***************************************************************************)
(* The functions of mptcore/queue on one queue: a ring of 'max' storage    *)
(* cells, 'len' of them used, the oldest at 'off'.  Data that passes the   *)
(* storage end goes on at cell 0, so every function works on up to two     *)
(* segments.                                                               *)
(*                                                                         *)
(* A queue is one record, a function of the C interface one operator on it.*)
(* Cells hold bytes; Junk is memory nobody wrote.  realloc() always fails  *)
(* beyond MaxSize and answers as Alloc says below.                         *)
(***************************************************************************)
EXTENDS Integers, Sequences

CONSTANTS Byte,        \* byte values callers store
          Zero,        \* the byte memset() and string termination write
          Junk,        \* content of fresh or foreign memory
          MaxSize,     \* largest storage the allocator hands out
          Alloc,       \* answers realloc may give up to MaxSize (BOOLEANs)
          Unit,        \* sizeof(void *), the rounding unit of MPT_align
          SizeMax,     \* SIZE_MAX
          StackWords   \* values an uninitialised size_t on the stack may have

Cell == Byte \cup {Junk}

(* a queue structure *)
Ring(mem, len, max, off) == [mem |-> mem, len |-> len, max |-> max, off |-> off]

(* Storage address of the i-th queued byte, counted from 0. *)
At(s, i) == IF s.off + i < s.max THEN s.off + i ELSE s.off + i - s.max

(* The queued bytes as their user sees them. *)
Content(s) == [i \in 1..s.len |-> s.mem[At(s, i - 1)]]

-----------------------------------------------------------------------------
(* Segments *)

(* size of the first segment of 'len' bytes from the queue start *)
LowPart(s, len) == IF s.max - s.off < len THEN s.max - s.off ELSE len

mpt_queue_data(s) == LowPart(s, s.len)

MPT_queue_frag(s) == s.max - s.len < s.off

(* Sizes of the free segments: 'low' follows the data, 'high' starts at    *)
(* cell 0 and is only counted when the data is in one piece.               *)
mpt_queue_empty(s) ==
    LET space == s.max - s.len
    IN  IF space <= s.off THEN [start |-> s.len - (s.max - s.off),
                                low |-> space, high |-> 0]
                          ELSE [start |-> s.off + s.len,
                                low |-> space - s.off, high |-> s.off]

(* The first n queued bytes, copied segment by segment. *)
Fetch(s, n) ==
    LET low == LowPart(s, n)
    IN  [i \in 1..n |-> IF i <= low THEN s.mem[s.off + i - 1]
                                    ELSE s.mem[i - low - 1]]

(* The storage with the same cells overwritten by the bytes of d. *)
Fill(s, d) ==
    LET low == LowPart(s, Len(d))
    IN  [k \in 0..(s.max - 1) |->
            IF s.off <= k /\ k < s.off + low THEN d[k - s.off + 1]
            ELSE IF k < Len(d) - low THEN d[low + k + 1]
            ELSE s.mem[k]]

-----------------------------------------------------------------------------
(* Removing and moving data *)

(* mpt_queue_crop for the queue start, the only position C callers use *)
CropFront(s, n) ==
    LET low == mpt_queue_data(s)
    IN  Ring(s.mem, s.len - n, s.max, IF n >= low THEN n - low ELSE s.off + n)

(* what queue_set and queue_get do to reach position pos *)
Seek(s, pos) == IF pos = 0 THEN s ELSE CropFront(s, pos)

(* mpt_memrev: the first 'pre' of 'len' cells change place with the rest *)
mpt_memrev(mem, pre, len) ==
    [k \in DOMAIN mem |-> IF k < len - pre THEN mem[pre + k]
                          ELSE IF k < len THEN mem[k - (len - pre)]
                          ELSE mem[k]]

(* memmove of n cells from address 'from' to address 'to' *)
Move(mem, to, from, n) ==
    [k \in DOMAIN mem |-> IF to <= k /\ k < to + n THEN mem[k - to + from]
                                                   ELSE mem[k]]

(* mpt_queue_align to cell 0, the only target position in use: a split     *)
(* queue first closes its gap, then exchanges its two parts.               *)
mpt_queue_align(s) ==
    IF s.len = 0 THEN Ring(s.mem, 0, s.max, 0)
    ELSE IF MPT_queue_frag(s)
         THEN LET gap == s.max - s.len
                  mem == Move(s.mem, s.off - gap, s.off, s.max - s.off)
              IN  Ring(mpt_memrev(mem, s.off - gap, s.len), s.len, s.max, 0)
         ELSE Ring(Move(s.mem, 0, s.off, s.len), s.len, s.max, 0)

-----------------------------------------------------------------------------
(* Storage size *)

Released == Ring([k \in 0..-1 |-> Junk], 0, 0, 0)

(* realloc: old cells stay, new ones hold whatever the memory held *)
realloc(s, n) ==
    Ring([k \in 0..(n - 1) |-> IF k < s.max THEN s.mem[k] ELSE Junk],
         s.len, n, s.off)

Answers(n) == IF n > MaxSize THEN {FALSE} ELSE Alloc

(* Mutant: split data is not aligned before the storage grows. *)
Compact_GrowSplit(s, n) ==
    IF n < s.max
    THEN mpt_queue_align(IF n < s.len THEN CropFront(s, s.len - n) ELSE s)
    ELSE s

(* Mutant: data beyond the new size is not dropped. *)
Compact_NoCrop(s, n) ==
    IF n < s.max \/ (n > s.max /\ MPT_queue_frag(s)) THEN mpt_queue_align(s) ELSE s

(* What mpt_queue_resize does to the data before it reallocates. *)
Compact(s, n) ==
    IF n < s.max
    THEN mpt_queue_align(IF n < s.len THEN CropFront(s, s.len - n) ELSE s)
    ELSE IF n > s.max /\ MPT_queue_frag(s) THEN mpt_queue_align(s) ELSE s

(* 'got' tells whether the allocator delivers *)
mpt_queue_resize(s, n, got) ==
    IF n = 0 THEN Released
    ELSE IF n # s.max /\ got THEN realloc(Compact(s, n), n)
    ELSE Compact(s, n)

(* realloc has to work out for this size to succeed *)
ResizeFails(s, n, got) == n # 0 /\ n # s.max /\ ~got

MPT_align(n) == (n + (Unit - 1) - ((n - 1) % Unit)) % (SizeMax + 1)

(* Mutant: the data already queued is not counted. *)
Wanted_NewOnly(s, n) == MPT_align(n)

(* size mpt_queue_prepare asks for, in size_t arithmetic *)
Wanted(s, n) == MPT_align((n - (s.max - s.len) + s.max) % (SizeMax + 1))

(* The queues mpt_queue_prepare may leave, and whether it reports room. A  *)
(* request that fits is answered at once, one that overflows the size type *)
(* is refused; everything else ends in mpt_queue_resize.                   *)
Prepared(s, n) ==
    LET left == s.max - s.len
    IN  IF n <= left THEN {[queue |-> s, ok |-> TRUE]}
        ELSE IF SizeMax - left < n THEN {[queue |-> s, ok |-> FALSE]}
        ELSE {LET r == mpt_queue_resize(s, Wanted(s, n), got)
              IN  [queue |-> r, ok |-> /\ ~ResizeFails(s, Wanted(s, n), got)
                                       /\ r.len < r.max]
                 : got \in Answers(Wanted(s, n))}

-----------------------------------------------------------------------------
(* Adding data *)

(* mpt_qpost and mpt_queue_set at the end *)
Pushed(s, d) ==
    LET longer == Ring(s.mem, s.len + Len(d), s.max, s.off)
    IN  IF Len(d) <= s.max - s.len
        THEN [queue |-> Ring(Fill(Seek(longer, s.len), d),
                             longer.len, s.max, s.off), ok |-> TRUE]
        ELSE [queue |-> s, ok |-> FALSE]

(* mpt_qpre: reserve n cells in front, given the free sizes it computed *)
mpt_qpre(s, n, low, high) ==
    Ring(s.mem, s.len + n, s.max,
         IF high # 0 /\ high < n THEN s.max - (n - high)
         ELSE IF n < s.off THEN s.off - n
         ELSE s.off + s.max - n)

(* The free sizes mpt_qpre works with: mpt_queue_empty leaves them         *)
(* uninitialised when the queue is full.                                   *)
FreeSizes(s) ==
    IF s.max = s.len THEN [low : StackWords, high : StackWords]
    ELSE LET e == mpt_queue_empty(s) IN {[low |-> e.low, high |-> e.high]}

(* what mpt_qunshift may do to a queue: reserve in front, then fill *)
Unshifted(s, d) ==
    {LET r == mpt_qpre(s, Len(d), f.low, f.high)
     IN  IF Len(d) <= f.low + f.high
         THEN [queue |-> Ring(Fill(r, d), r.len, r.max, r.off), ok |-> TRUE]
         ELSE [queue |-> s, ok |-> FALSE] : f \in FreeSizes(s)}

(* readv() into the free segments, 'low' first: d is what the file had *)
Loaded(s, d) ==
    LET e == mpt_queue_empty(s)
    IN  Ring([k \in 0..(s.max - 1) |->
                IF e.start <= k /\ k < e.start + e.low /\ k - e.start < Len(d)
                THEN d[k - e.start + 1]
                ELSE IF k < e.high /\ k < Len(d) - e.low THEN d[e.low + k + 1]
                ELSE s.mem[k]], s.len + Len(d), s.max, s.off)
=============================================================================
