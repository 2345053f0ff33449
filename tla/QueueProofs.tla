---------------------------- MODULE QueueProofs ----------------------------
(***************************************************************************)
(* Proofs about the byte queue.  The first part says that each operation   *)
(* makes a well-formed queue of a well-formed queue; the second what it    *)
(* makes of the content; the third how a search sees the content.  The     *)
(* theorems at the end put them together, one step per call.               *)
(***************************************************************************)
EXTENDS QueueDevice, Least, SequenceTheorems, TLAPS

USE QueueAssumption DEF Cell

(* Removing n bytes from the front (mpt_queue_crop at position 0). *)
LEMMA CropFrontIsQueue ==
    ASSUME NEW s, IsQueue(s), NEW n \in 0..s.len
    PROVE  /\ IsQueue(CropFront(s, n))
           /\ CropFront(s, n).max = s.max
           /\ CropFront(s, n).len = s.len - n
  BY DEF IsQueue, CropFront, mpt_queue_data, LowPart, Ring

(* Overwriting cells gives storage of the same size. *)
LEMMA FillIsStorage ==
    ASSUME NEW s, IsQueue(s), NEW d \in Seq(Byte), Len(d) <= s.max
    PROVE  Fill(s, d) \in [0..(s.max - 1) -> Cell]
  BY SMTT(60) DEF IsQueue, Fill, LowPart

(* The two memory primitives stay inside the storage. *)
LEMMA MoveIsStorage ==
    ASSUME NEW n \in Nat, NEW mem \in [0..(n - 1) -> Cell],
           NEW to \in Nat, NEW from \in Nat, NEW k \in Nat, from + k <= n
    PROVE  Move(mem, to, from, k) \in [0..(n - 1) -> Cell]
  BY DEF Move

(* Exchanging two parts keeps the size of the storage. *)
LEMMA MemrevIsStorage ==
    ASSUME NEW n \in Nat, NEW mem \in [0..(n - 1) -> Cell],
           NEW len \in 0..n, NEW pre \in 0..len
    PROVE  mpt_memrev(mem, pre, len) \in [0..(n - 1) -> Cell]
  BY DEF mpt_memrev

(* Alignment keeps length and storage size (mpt_queue_align). *)
LEMMA AlignIsQueue ==
    ASSUME NEW s, IsQueue(s)
    PROVE  /\ IsQueue(mpt_queue_align(s))
           /\ mpt_queue_align(s).max = s.max
           /\ mpt_queue_align(s).len = s.len
           /\ mpt_queue_align(s).off = 0
  <1>0. /\ s.max \in Nat /\ s.len \in 0..s.max /\ s.off \in 0..s.max
        /\ s.mem \in [0..(s.max - 1) -> Cell]
    BY DEF IsQueue
  <1>1. CASE s.len = 0
    BY <1>1 DEF IsQueue, mpt_queue_align, Ring
  <1>2. CASE s.len # 0 /\ MPT_queue_frag(s)
    <2> DEFINE gap == s.max - s.len
               mem == Move(s.mem, s.off - gap, s.off, s.max - s.off)
               new == mpt_memrev(mem, s.off - gap, s.len)
    <2>1. gap \in Nat /\ s.off - gap \in Nat /\ s.off - gap <= s.len
      BY <1>2 DEF IsQueue, MPT_queue_frag
    <2>2. mem \in [0..(s.max - 1) -> Cell]
      <3>1. s.off \in Nat /\ s.max - s.off \in Nat /\ s.off + (s.max - s.off) <= s.max
        BY <1>0
      <3> QED
        BY <1>0, <2>1, <3>1, MoveIsStorage
    <2>3. new \in [0..(s.max - 1) -> Cell]
      <3>1. s.off - gap \in 0..s.len
        BY <1>0, <2>1
      <3> HIDE DEF mem
      <3> QED
        BY <1>0, <2>2, <3>1, MemrevIsStorage
    <2>4. mpt_queue_align(s) = Ring(new, s.len, s.max, 0)
      BY <1>2 DEF mpt_queue_align
    <2> QED
      BY <2>3, <2>4 DEF IsQueue, Ring
  <1>3. CASE s.len # 0 /\ ~MPT_queue_frag(s)
    <2>1. Move(s.mem, 0, s.off, s.len) \in [0..(s.max - 1) -> Cell]
      <3>1. s.off \in Nat /\ s.len \in Nat /\ s.off + s.len <= s.max
        BY <1>0, <1>3 DEF MPT_queue_frag
      <3> QED
        BY <1>0, <3>1, MoveIsStorage
    <2> QED
      BY <1>3, <2>1 DEF IsQueue, mpt_queue_align, Ring
  <1> QED
    BY <1>1, <1>2, <1>3

(* What mpt_queue_resize does before it reallocates: the data fits into    *)
(* the smaller storage, or lies in one piece when the storage grows.       *)
LEMMA CompactIsQueue ==
    ASSUME NEW s, IsQueue(s), NEW n \in Nat \ {0}
    PROVE  /\ IsQueue(Compact(s, n))
           /\ Compact(s, n).max = s.max
           /\ n < s.max => Compact(s, n).len <= n /\ Compact(s, n).off = 0
  <1>1. CASE n < s.max
    <2> DEFINE c == IF n < s.len THEN CropFront(s, s.len - n) ELSE s
    <2>1. IsQueue(c) /\ c.max = s.max /\ c.len <= n
      BY CropFrontIsQueue, SMTT(60) DEF IsQueue
    <2>2. Compact(s, n) = mpt_queue_align(c)
      BY <1>1 DEF Compact
    <2> HIDE DEF c
    <2> QED
      BY <1>1, <2>1, <2>2, AlignIsQueue
  <1>2. CASE ~(n < s.max)
    BY <1>2, AlignIsQueue DEF Compact, IsQueue
  <1> QED
    BY <1>1, <1>2

(* Storage of another size that holds the data is a queue again. *)
LEMMA ReallocIsQueue ==
    ASSUME NEW s, IsQueue(s), NEW n \in 1..MaxSize, s.len <= n, s.off <= n
    PROVE  IsQueue(realloc(s, n))
  BY DEF IsQueue, realloc, Ring

(* Every outcome of mpt_queue_resize. *)
LEMMA ResizeIsQueue ==
    ASSUME NEW s, IsQueue(s), NEW n \in Nat, NEW got \in Answers(n)
    PROVE  IsQueue(mpt_queue_resize(s, n, got))
  <1>1. CASE n = 0
    BY <1>1 DEF mpt_queue_resize, Released, IsQueue, Ring
  <1>2. CASE n # 0 /\ n # s.max /\ got
    <2>1. n \in 1..MaxSize
      <3>1. n > MaxSize => got = FALSE
        BY DEF Answers
      <3> QED
        BY <1>2, <3>1
    <2>2. /\ IsQueue(Compact(s, n))
          /\ Compact(s, n).len <= n /\ Compact(s, n).off <= n
      BY <1>2, <2>1, CompactIsQueue DEF IsQueue
    <2> QED
      BY <1>2, <2>1, <2>2, ReallocIsQueue DEF mpt_queue_resize
  <1>3. CASE n # 0 /\ ~(n # s.max /\ got)
    BY <1>3, CompactIsQueue DEF mpt_queue_resize
  <1> QED
    BY <1>1, <1>2, <1>3

(* The size asked for is a size_t, so resize applies to it. *)
LEMMA WantedIsSize ==
    ASSUME NEW s, IsQueue(s), NEW n \in Nat
    PROVE  Wanted(s, n) \in Nat
  <1>1. ((n - (s.max - s.len) + s.max) % (SizeMax + 1)) \in Nat
    BY DEF IsQueue
  <1>2. ASSUME NEW k \in Nat PROVE MPT_align(k) \in Nat
    <2>1. (k - 1) % Unit \in Int
      OBVIOUS
    <2>2. k + (Unit - 1) - ((k - 1) % Unit) \in Int
      BY <2>1
    <2> QED
      BY <2>2 DEF MPT_align
  <1> QED
    BY <1>1, <1>2 DEF Wanted

(* Every outcome of mpt_queue_prepare. *)
LEMMA PreparedIsQueue ==
    ASSUME NEW s, IsQueue(s), NEW n \in Nat, NEW r \in Prepared(s, n)
    PROVE  IsQueue(r.queue) /\ r.ok \in BOOLEAN
  <1> DEFINE left == s.max - s.len
             w    == Wanted(s, n)
  <1>1. CASE n <= left \/ SizeMax - left < n
    <2>1. CASE n <= left
      <3>1. r = [queue |-> s, ok |-> TRUE]
        BY <2>1 DEF Prepared
      <3> QED
        BY <3>1
    <2>2. CASE ~(n <= left) /\ SizeMax - left < n
      <3>1. r = [queue |-> s, ok |-> FALSE]
        BY <2>2 DEF Prepared
      <3> QED
        BY <3>1
    <2> QED
      BY <1>1, <2>1, <2>2
  <1>2. CASE ~(n <= left) /\ ~(SizeMax - left < n)
    <2>1. PICK got \in Answers(w) :
            r = [queue |-> mpt_queue_resize(s, w, got),
                 ok |-> /\ ~ResizeFails(s, w, got)
                        /\ mpt_queue_resize(s, w, got).len
                              < mpt_queue_resize(s, w, got).max]
      BY <1>2 DEF Prepared
    <2>2. IsQueue(mpt_queue_resize(s, w, got))
      BY ResizeIsQueue, WantedIsSize
    <2> QED
      BY <2>1, <2>2
  <1> QED
    BY <1>1, <1>2

(* A block one call passes. *)
LEMMA BlockIsSeq ==
    ASSUME NEW d \in Block
    PROVE  d \in Seq(Byte) /\ Len(d) \in Nat \ {0}
  BY DEF Block

(* Skipping to a position inside the data. *)
LEMMA SeekIsQueue ==
    ASSUME NEW s, IsQueue(s), NEW pos \in 0..s.len
    PROVE  IsQueue(Seek(s, pos)) /\ Seek(s, pos).max = s.max
  BY CropFrontIsQueue DEF Seek

(* Appending, with and without room for the block. *)
LEMMA PushedIsQueue ==
    ASSUME NEW s, IsQueue(s), NEW d \in Block
    PROVE  IsQueue(Pushed(s, d).queue) /\ Pushed(s, d).ok \in BOOLEAN
  <1> DEFINE longer == Ring(s.mem, s.len + Len(d), s.max, s.off)
  <1>1. CASE Len(d) <= s.max - s.len
    <2>1. IsQueue(longer) /\ longer.max = s.max /\ s.len \in 0..longer.len
      BY <1>1, BlockIsSeq DEF IsQueue, Ring
    <2>2. IsQueue(Seek(longer, s.len)) /\ Seek(longer, s.len).max = s.max
      BY <2>1, SeekIsQueue
    <2>3. Fill(Seek(longer, s.len), d) \in [0..(s.max - 1) -> Cell]
      BY <1>1, <2>2, FillIsStorage, BlockIsSeq, SMTT(60) DEF IsQueue
    <2>4. Pushed(s, d) = [queue |-> Ring(Fill(Seek(longer, s.len), d),
                                         s.len + Len(d), s.max, s.off),
                          ok |-> TRUE]
      BY <1>1 DEF Pushed, Ring
    <2> QED
      BY <1>1, <2>3, <2>4, BlockIsSeq DEF IsQueue, Ring
  <1>2. CASE ~(Len(d) <= s.max - s.len)
    BY <1>2 DEF Pushed
  <1> QED
    BY <1>1, <1>2

(* Prepending, unless it reserves cells in a full queue. *)
LEMMA UnshiftedIsQueue ==
    ASSUME NEW s, IsQueue(s), NEW d \in Block, NEW r \in Unshifted(s, d),
           ~(r.ok /\ r.queue.len = r.queue.max + Len(d))
    PROVE  IsQueue(r.queue) /\ r.ok \in BOOLEAN
  <1>1. PICK f \in FreeSizes(s) :
          LET p == mpt_qpre(s, Len(d), f.low, f.high)
          IN  r = IF Len(d) <= f.low + f.high
                  THEN [queue |-> Ring(Fill(p, d), p.len, p.max, p.off), ok |-> TRUE]
                  ELSE [queue |-> s, ok |-> FALSE]
    BY DEF Unshifted
  <1> DEFINE p == mpt_qpre(s, Len(d), f.low, f.high)
  <1>2. CASE Len(d) <= f.low + f.high
    <2>1. /\ s.len < s.max
          /\ f.low + f.high = s.max - s.len
          /\ f.high = (IF s.max - s.len <= s.off THEN 0 ELSE s.off)
      <3>1. s.max # s.len
        <4>1. SUFFICES ASSUME s.max = s.len PROVE FALSE
          OBVIOUS
        <4>2. r = [queue |-> Ring(Fill(p, d), p.len, p.max, p.off), ok |-> TRUE]
          BY <1>1, <1>2
        <4>3. p.len = s.len + Len(d) /\ p.max = s.max
          BY DEF mpt_qpre, Ring
        <4>4. r.ok /\ r.queue.len = r.queue.max + Len(d)
          <5> HIDE DEF p
          <5> QED
            BY <4>1, <4>2, <4>3 DEF Ring
        <4> QED
          BY <4>4
      <3>2. f = [low |-> mpt_queue_empty(s).low, high |-> mpt_queue_empty(s).high]
        BY <3>1 DEF FreeSizes
      <3> QED
        BY <3>1, <3>2 DEF mpt_queue_empty, IsQueue
    <2>2. IsQueue(p) /\ p.max = s.max
      BY <1>2, <2>1, BlockIsSeq, SMTT(60) DEF mpt_qpre, IsQueue, Ring
    <2>3. Fill(p, d) \in [0..(p.max - 1) -> Cell]
      BY <1>2, <2>1, <2>2, FillIsStorage, BlockIsSeq, SMTT(60) DEF IsQueue
    <2>4. r = [queue |-> Ring(Fill(p, d), p.len, p.max, p.off), ok |-> TRUE]
      BY <1>1, <1>2
    <2> HIDE DEF p
    <2> QED
      BY <2>2, <2>3, <2>4 DEF IsQueue, Ring
  <1>3. CASE ~(Len(d) <= f.low + f.high)
    BY <1>1, <1>3
  <1> QED
    BY <1>2, <1>3

(* Refused and successful calls record a Boolean result. *)
LEMMA CalledOK ==
    ASSUME NEW op, NEW ok \in BOOLEAN, NEW in, NEW out, Called(op, ok, in, out)
    PROVE  call'.ok \in BOOLEAN
  BY DEF Called

(* No call takes the used part or the start of a queue out of its storage. *)
LEMMA CallTyped ==
    ASSUME ~FullPrepended, TypeOK, [Next]_vars
    PROVE  TypeOK'
  <1>0. IsQueue(q) /\ q.len \in Nat /\ q.max \in Nat /\ q.len <= q.max
    BY DEF TypeOK, IsQueue
  <1> SUFFICES IsQueue(q)' /\ call'.ok \in BOOLEAN
    BY DEF TypeOK
  <1>R. ASSUME NEW op, NEW in, Refused(op, in)
        PROVE  IsQueue(q)' /\ call'.ok \in BOOLEAN
    BY <1>R, <1>0, CalledOK DEF Refused, IsQueue
  <1>1. ASSUME NEW d \in Block, mpt_qpush(d)
        PROVE  IsQueue(q)' /\ call'.ok \in BOOLEAN
    <2>1. IsQueue(Pushed(q, d).queue) /\ Pushed(q, d).ok \in BOOLEAN
      BY <1>0, PushedIsQueue
    <2> QED
      BY <1>1, <2>1, CalledOK DEF mpt_qpush, IsQueue
  <1>2. ASSUME NEW d \in Block, mpt_qunshift(d)
        PROVE  IsQueue(q)' /\ call'.ok \in BOOLEAN
    <2>1. PICK r \in Unshifted(q, d) :
            q' = r.queue /\ Called("prepend", r.ok, d, << >>)
      BY <1>2 DEF mpt_qunshift
    <2>2. IsQueue(r.queue) /\ r.ok \in BOOLEAN
      BY <1>0, <2>1, UnshiftedIsQueue DEF FullPrepended, Called
    <2> QED
      BY <2>1, <2>2, CalledOK DEF IsQueue
  <1>3. ASSUME NEW d \in Block, mpt_queue_load(d)
        PROVE  IsQueue(q)' /\ call'.ok \in BOOLEAN
    <2>1. CASE Refused("append", << >>)
      BY <2>1, <1>R
    <2>2. CASE Len(d) <= q.max - q.len /\ ~Refused("append", << >>)
      <3>1. Called("append", TRUE, d, << >>)
        BY <1>3, <2>2 DEF mpt_queue_load, Loaded
      <3>2. IsQueue(q)'
        <4> DEFINE e   == mpt_queue_empty(q)
                   new == [k \in 0..(q.max - 1) |->
              IF e.start <= k /\ k < e.start + e.low /\ k - e.start < Len(d)
              THEN d[k - e.start + 1]
              ELSE IF k < e.high /\ k < Len(d) - e.low THEN d[e.low + k + 1]
              ELSE q.mem[k]]
        <4>1. q' = Ring(new, q.len + Len(d), q.max, q.off)
          BY <1>3, <2>2 DEF mpt_queue_load, Loaded
        <4>2. e.start \in Int /\ e.low \in Nat /\ e.high \in Nat
          BY <1>0 DEF mpt_queue_empty, IsQueue
        <4>3. new \in [0..(q.max - 1) -> Cell]
          <5> HIDE DEF e
          <5>1. q.mem \in [0..(q.max - 1) -> Cell]
            BY <1>0 DEF IsQueue
          <5> QED
            BY <1>0, <4>2, <5>1, BlockIsSeq, SMTT(60)
        <4> HIDE DEF new
        <4>4. /\ q'.mem = new /\ q'.len = q.len + Len(d)
              /\ q'.max = q.max /\ q'.off = q.off
          BY <4>1 DEF Ring
        <4> QED
          BY <1>0, <2>2, <4>3, <4>4, BlockIsSeq DEF IsQueue
      <3> QED
        BY <3>1, <3>2, CalledOK
    <2> QED
      BY <1>3, <2>1, <2>2 DEF mpt_queue_load, Loaded
  <1>4. ASSUME NEW n \in 1..MaxSize, n <= q.len, q' = CropFront(q, n),
               NEW out, Called("remove", TRUE, << >>, out)
        PROVE  IsQueue(q)' /\ call'.ok \in BOOLEAN
    <2>1. n \in 0..q.len
      BY <1>0, <1>4
    <2>2. IsQueue(CropFront(q, n))
      BY <1>0, <2>1, CropFrontIsQueue
    <2>3. IsQueue(q)'
      BY <1>4, <2>2 DEF IsQueue
    <2>4. call'.ok \in BOOLEAN
      BY <1>4, CalledOK
    <2> QED
      BY <2>3, <2>4
  <1>5. ASSUME NEW n \in 1..MaxSize, NEW copy \in BOOLEAN, mpt_qshift(n, copy)
        PROVE  IsQueue(q)' /\ call'.ok \in BOOLEAN
    <2>1. CASE Refused("remove", << >>)
      BY <2>1, <1>R
    <2>2. CASE /\ n <= mpt_queue_data(q) \/ (copy /\ n <= q.len)
               /\ q' = CropFront(q, n)
               /\ Called("remove", TRUE, << >>,
                         IF copy THEN Fetch(q, n) ELSE << >>)
      <3>1. n <= q.len
        BY <1>0, <2>2 DEF mpt_queue_data, LowPart, IsQueue
      <3> QED
        BY <1>4, <2>2, <3>1
    <2> QED
      BY <1>5, <2>1, <2>2 DEF mpt_qshift
  <1>6. ASSUME NEW n \in 1..MaxSize, mpt_queue_crop(n)
        PROVE  IsQueue(q)' /\ call'.ok \in BOOLEAN
    <2>1. CASE Refused("remove", << >>)
      BY <2>1, <1>R
    <2>2. CASE n <= q.len /\ q' = CropFront(q, n) /\ Called("remove", TRUE, << >>, << >>)
      BY <2>2, <1>4
    <2> QED
      BY <1>6, <2>1, <2>2 DEF mpt_queue_crop
  <1>7. ASSUME NEW n \in 1..MaxSize, mpt_queue_save(n)
        PROVE  IsQueue(q)' /\ call'.ok \in BOOLEAN
    <2>1. n <= q.len /\ q' = CropFront(q, n) /\ Called("remove", TRUE, << >>, Fetch(q, n))
      BY <1>7 DEF mpt_queue_save
    <2> QED
      BY <2>1, <1>4
  <1>8. ASSUME NEW n \in Nat, Resize(n)
        PROVE  IsQueue(q)' /\ call'.ok \in BOOLEAN
    <2>1. PICK got \in Answers(n) :
            /\ q' = mpt_queue_resize(q, n, got)
            /\ Called("resize", ~ResizeFails(q, n, got), << >>, << >>)
      BY <1>8 DEF Resize
    <2>2. IsQueue(mpt_queue_resize(q, n, got))
      BY <1>0, ResizeIsQueue
    <2>3. (~ResizeFails(q, n, got)) \in BOOLEAN
      OBVIOUS
    <2> QED
      BY <2>1, <2>2, <2>3, CalledOK DEF IsQueue
  <1>9. ASSUME NEW n \in Requests, mpt_queue_prepare(n)
        PROVE  IsQueue(q)' /\ call'.ok \in BOOLEAN
    <2>1. PICK r \in Prepared(q, n) :
            q' = r.queue /\ Called("prepare", r.ok, << >>, << >>)
      BY <1>9 DEF mpt_queue_prepare
    <2>2. n \in Nat
      BY QueueAssumption
    <2>3. IsQueue(r.queue) /\ r.ok \in BOOLEAN
      BY <1>0, <2>2, PreparedIsQueue
    <2> QED
      BY <2>1, <2>3, CalledOK DEF IsQueue
  <1>10. ASSUME NEW pos \in 0..MaxSize, NEW d \in Block, mpt_queue_set(pos, d)
         PROVE  IsQueue(q)' /\ call'.ok \in BOOLEAN
    <2>1. CASE Refused("write", d)
      BY <2>1, <1>R
    <2>2. CASE /\ pos + Len(d) <= q.len
               /\ q' = Ring(Fill(Seek(q, pos), d), q.len, q.max, q.off)
               /\ Called("write", TRUE, d, << >>)
      <3>1. IsQueue(Seek(q, pos)) /\ Seek(q, pos).max = q.max
        BY <1>0, <2>2, SeekIsQueue, BlockIsSeq
      <3>2. Fill(Seek(q, pos), d) \in [0..(q.max - 1) -> Cell]
        BY <1>0, <2>2, <3>1, FillIsStorage, BlockIsSeq
      <3>3. IsQueue(q)'
        <4>1. /\ q'.mem = Fill(Seek(q, pos), d) /\ q'.len = q.len
              /\ q'.max = q.max /\ q'.off = q.off
          BY <2>2 DEF Ring
        <4> QED
          BY <1>0, <3>2, <4>1 DEF IsQueue
      <3> QED
        BY <2>2, <3>3, CalledOK
    <2> QED
      BY <1>10, <2>1, <2>2 DEF mpt_queue_set
  <1>11. ASSUME NEW pos \in 0..MaxSize, NEW n \in 1..MaxSize, mpt_queue_get(pos, n)
         PROVE  IsQueue(q)' /\ call'.ok \in BOOLEAN
    <2>1. CASE Refused("read", << >>)
      BY <2>1, <1>R
    <2>2. CASE UNCHANGED q /\ Called("read", TRUE, << >>, Fetch(Seek(q, pos), n))
      BY <1>0, <2>2, CalledOK DEF IsQueue
    <2> QED
      BY <1>11, <2>1, <2>2 DEF mpt_queue_get
  <1>12. CASE Align
    BY <1>0, <1>12, AlignIsQueue, CalledOK DEF Align, IsQueue
  <1>13. CASE mpt_queue_string
    <2>1. CASE Refused("string", << >>)
      BY <2>1, <1>R
    <2>2. CASE ~Refused("string", << >>)
      <3> DEFINE s == IF q.max - q.len <= q.off THEN mpt_queue_align(q) ELSE q
      <3>1. IsQueue(s)
        BY <1>0, AlignIsQueue
      <3>2. /\ q' = Ring([k \in DOMAIN s.mem |->
                            IF k = s.off + s.len THEN Zero ELSE s.mem[k]],
                         s.len, s.max, s.off)
            /\ Called("string", TRUE, << >>, << >>)
        BY <1>13, <2>2 DEF mpt_queue_string
      <3> HIDE DEF s
      <3>3. IsQueue(q)'
        BY <3>1, <3>2 DEF IsQueue, Ring
      <3> QED
        <4>1. call'.ok \in BOOLEAN
          BY <3>2, CalledOK
        <4> QED
          BY <3>3, <4>1
    <2> QED
      BY <2>1, <2>2
  <1>14. CASE UNCHANGED vars
    <2>1. q' = q /\ call' = call
      BY <1>14 DEF vars
    <2>2. call'.ok \in BOOLEAN
      BY <2>1 DEF TypeOK
    <2> QED
      BY <1>0, <2>1, <2>2 DEF IsQueue
  <1> QED
    BY <1>1, <1>2, <1>3, <1>5, <1>6, <1>7, <1>8, <1>9, <1>10, <1>11, <1>12,
       <1>13, <1>14 DEF Next

-----------------------------------------------------------------------------
(* What the operations make of the content *)

HIDE QueueAssumption DEF Cell

(* The content of a queue is a sequence of its length. *)
LEMMA ContentIsSeq ==
    ASSUME NEW s, IsQueue(s)
    PROVE  /\ Content(s) \in Seq(Cell)
           /\ Len(Content(s)) = s.len
           /\ \A i \in 1..s.len : Content(s)[i] = s.mem[At(s, i - 1)]
  <1>1. \A i \in 1..s.len : s.mem[At(s, i - 1)] \in Cell
    BY SMTT(60) DEF IsQueue, At
  <1>2. s.len \in Nat
    BY DEF IsQueue
  <1> QED
    BY <1>1, <1>2 DEF Content

(* Queues that show the same bytes. *)
LEMMA ShowsBytes ==
    ASSUME NEW s, IsQueue(s), NEW c \in Seq(Cell), Len(c) = s.len,
           \A i \in 1..s.len : s.mem[At(s, i - 1)] = c[i]
    PROVE  Content(s) = c
  BY ContentIsSeq, SeqEqual

(* What mpt_queue_crop leaves is the content behind the bytes it removes. *)
LEMMA CropContent ==
    ASSUME NEW s, IsQueue(s), NEW n \in 0..s.len
    PROVE  Content(CropFront(s, n)) = SubSeq(Content(s), n + 1, s.len)
  <1> DEFINE t == CropFront(s, n)
             c == SubSeq(Content(s), n + 1, s.len)
  <1>1. IsQueue(t) /\ t.len = s.len - n /\ t.max = s.max /\ t.mem = s.mem
    BY CropFrontIsQueue DEF CropFront, Ring
  <1>2. s.len \in Nat /\ n \in Nat /\ n <= s.len
    BY DEF IsQueue
  <1>3. /\ c \in Seq(Cell) /\ Len(c) = s.len - n
        /\ \A i \in 1..(s.len - n) : c[i] = Content(s)[n + i]
    <2>1. Content(s) \in Seq(Cell) /\ Len(Content(s)) = s.len
      BY ContentIsSeq
    <2> HIDE DEF Content
    <2> QED
      BY <1>2, <2>1
  <1>4. ASSUME NEW i \in 1..(s.len - n) PROVE At(t, i - 1) = At(s, n + i - 1)
    <2> DEFINE low == mpt_queue_data(s)
    <2>1. /\ s.max \in Nat /\ s.off \in 0..s.max /\ s.len \in 0..s.max /\ i \in Nat
          /\ 1 <= i /\ n + i <= s.len
      BY <1>2 DEF IsQueue
    <2>2. low = IF s.max - s.off < s.len THEN s.max - s.off ELSE s.len
      BY DEF mpt_queue_data, LowPart
    <2>3. t.off = IF n >= low THEN n - low ELSE s.off + n
      BY DEF CropFront, Ring
    <2> HIDE DEF low, t
    <2> QED
      BY <1>1, <1>2, <2>1, <2>2, <2>3, SMTT(30) DEF At
  <1>5. ASSUME NEW i \in 1..t.len PROVE t.mem[At(t, i - 1)] = c[i]
    <2>1. i \in 1..(s.len - n) /\ n + i \in 1..s.len
      BY <1>1, <1>2
    <2>2. Content(s)[n + i] = s.mem[At(s, n + i - 1)]
      BY <2>1, ContentIsSeq
    <2> HIDE DEF t, c
    <2> QED
      BY <1>1, <1>3, <1>4, <2>1, <2>2
  <1> HIDE DEF t, c
  <1> QED
    BY <1>1, <1>3, <1>5, ShowsBytes DEF t, c

(* mpt_queue_align moves the data without changing it. *)
LEMMA AlignContent ==
    ASSUME NEW s, IsQueue(s)
    PROVE  Content(mpt_queue_align(s)) = Content(s)
  <1> DEFINE t == mpt_queue_align(s)
  <1>0. /\ s.max \in Nat /\ s.len \in 0..s.max /\ s.off \in 0..s.max
        /\ s.mem \in [0..(s.max - 1) -> Cell]
    BY DEF IsQueue
  <1>1. IsQueue(t) /\ t.len = s.len /\ t.max = s.max /\ t.off = 0
    BY AlignIsQueue
  <1>2. ASSUME NEW i \in 1..s.len PROVE t.mem[i - 1] = s.mem[At(s, i - 1)]
    <2>1. CASE MPT_queue_frag(s)
      <3> DEFINE gap == s.max - s.len
                 mem == Move(s.mem, s.off - gap, s.off, s.max - s.off)
      <3>1. t.mem = mpt_memrev(mem, s.off - gap, s.len)
        BY <1>0, <1>2, <2>1 DEF mpt_queue_align, Ring
      <3>2. DOMAIN mem = 0..(s.max - 1)
        BY <1>0 DEF Move
      <3>3. t.mem[i - 1] = IF i - 1 < s.len - (s.off - gap)
                           THEN mem[(s.off - gap) + (i - 1)]
                           ELSE mem[(i - 1) - (s.len - (s.off - gap))]
        BY <1>0, <1>2, <3>1, <3>2 DEF mpt_memrev
      <3>4. ASSUME NEW k \in 0..(s.max - 1)
            PROVE  mem[k] = IF s.off - gap <= k /\ k < s.off - gap + (s.max - s.off)
                            THEN s.mem[k - (s.off - gap) + s.off] ELSE s.mem[k]
        BY <1>0 DEF Move
      <3>5. /\ gap \in Nat /\ i \in 1..s.len /\ gap < s.off /\ gap = s.max - s.len
            /\ s.max \in Nat /\ s.len \in Nat /\ s.off \in Nat /\ s.off <= s.max
        BY <1>0, <2>1 DEF MPT_queue_frag
      <3> HIDE DEF mem, gap, t
      <3>6. CASE s.off + (i - 1) < s.max
        <4>1. At(s, i - 1) = s.off + (i - 1)
          BY <3>6 DEF At
        <4>2. /\ (s.off - gap) + (i - 1) \in 0..(s.max - 1)
              /\ i - 1 < s.len - (s.off - gap)
          BY <3>5, <3>6
        <4>3. mem[(s.off - gap) + (i - 1)]
                = s.mem[(s.off - gap) + (i - 1) - (s.off - gap) + s.off]
          BY <3>4, <3>5, <3>6, <4>2
        <4>4. (s.off - gap) + (i - 1) - (s.off - gap) + s.off = s.off + (i - 1)
          BY <3>5
        <4> QED
          BY <3>3, <4>1, <4>2, <4>3, <4>4
      <3>7. CASE ~(s.off + (i - 1) < s.max)
        <4> DEFINE k == (i - 1) - (s.len - (s.off - gap))
        <4>1. At(s, i - 1) = k
          BY <3>5, <3>7 DEF At
        <4>2. k \in 0..(s.max - 1) /\ ~(i - 1 < s.len - (s.off - gap)) /\ k < s.off - gap
          BY <3>5, <3>7
        <4>3. mem[k] = s.mem[k]
          BY <3>4, <3>5, <4>2
        <4> QED
          BY <3>3, <4>1, <4>2, <4>3
      <3> QED
        BY <3>6, <3>7
    <2>2. CASE ~MPT_queue_frag(s)
      <3>1. t.mem = Move(s.mem, 0, s.off, s.len)
        BY <1>0, <1>2, <2>2 DEF mpt_queue_align, Ring
      <3>2. /\ s.max \in Nat /\ s.len \in Nat /\ s.off \in Nat
            /\ i \in 1..s.len /\ s.off + s.len <= s.max
        BY <1>0, <2>2 DEF MPT_queue_frag
      <3>3. At(s, i - 1) = i - 1 + s.off /\ i - 1 \in 0..(s.max - 1)
        BY <3>2 DEF At
      <3>4. Move(s.mem, 0, s.off, s.len)[i - 1] = s.mem[i - 1 - 0 + s.off]
        BY <1>0, <3>2, <3>3 DEF Move
      <3>5. i - 1 - 0 + s.off = i - 1 + s.off
        BY <3>2
      <3> QED
        BY <3>1, <3>3, <3>4, <3>5
    <2> QED
      BY <2>1, <2>2
  <1>3. ASSUME NEW i \in 1..t.len PROVE t.mem[At(t, i - 1)] = Content(s)[i]
    <2>1. At(t, i - 1) = i - 1
      BY <1>0, <1>1 DEF At
    <2> QED
      BY <1>0, <1>1, <1>2, <2>1, ContentIsSeq
  <1> HIDE DEF t
  <1> QED
    BY <1>1, <1>3, ContentIsSeq, ShowsBytes DEF t

(* What follows position pos of the storage that a call works on: cells    *)
(* are counted from the new start and wrap once around the storage.        *)
LEMMA AtSeek ==
    ASSUME NEW s, IsQueue(s), NEW pos \in 0..(s.len - 1), NEW j \in 0..(s.max - 1)
    PROVE  At(Seek(s, pos), j) = IF pos + j < s.max THEN At(s, pos + j)
                                                    ELSE At(s, pos + j - s.max)
  <1>1. /\ s.max \in Nat /\ s.off \in 0..s.max /\ s.len \in 0..s.max
        /\ j \in Nat /\ j < s.max /\ pos \in Nat /\ pos < s.len
    BY DEF IsQueue
  <1>2. CASE pos = 0
    BY <1>1, <1>2 DEF Seek
  <1>3. CASE pos # 0
    <2> DEFINE t == Seek(s, pos)
               low == mpt_queue_data(s)
    <2>1. low = IF s.max - s.off < s.len THEN s.max - s.off ELSE s.len
      BY DEF mpt_queue_data, LowPart
    <2>2. t.max = s.max /\ t.off = IF pos >= low THEN pos - low ELSE s.off + pos
      BY <1>3 DEF Seek, CropFront, Ring
    <2> HIDE DEF t, low
    <2>3. At(t, j) = IF pos + j < s.max THEN At(s, pos + j) ELSE At(s, pos + j - s.max)
      <3>1. CASE pos >= low
        BY <1>1, <2>1, <2>2, <3>1, SMTT(30) DEF At
      <3>2. CASE ~(pos >= low)
        BY <1>1, <2>1, <2>2, <3>2, SMTT(30) DEF At
      <3> QED
        BY <3>1, <3>2
    <2> QED
      BY <2>3 DEF t
  <1> QED
    BY <1>2, <1>3

(* Writing d at the start of a queue changes its first cells only, however *)
(* the storage wraps (queue_set of mpt_queue_set).                         *)
LEMMA FillCells ==
    ASSUME NEW s, IsQueue(s), NEW d \in Seq(Byte), Len(d) <= s.max,
           NEW i \in 0..(s.max - 1)
    PROVE  Fill(s, d)[At(s, i)] = IF i < Len(d) THEN d[i + 1] ELSE s.mem[At(s, i)]
  <1> DEFINE low == LowPart(s, Len(d))
             k   == At(s, i)
  <1>1. /\ s.max \in Nat /\ s.off \in Nat /\ s.off <= s.max
        /\ Len(d) \in Nat /\ i \in Nat /\ i < s.max
    BY DEF IsQueue
  <1>2. low = IF s.max - s.off < Len(d) THEN s.max - s.off ELSE Len(d)
    BY DEF LowPart
  <1>3. k = IF s.off + i < s.max THEN s.off + i ELSE s.off + i - s.max
    BY DEF At
  <1>4. k \in 0..(s.max - 1)
    BY <1>1, <1>3, SMTT(60)
  <1>5. Fill(s, d)[k] = IF s.off <= k /\ k < s.off + low THEN d[k - s.off + 1]
                        ELSE IF k < Len(d) - low THEN d[low + k + 1] ELSE s.mem[k]
    BY <1>4 DEF Fill
  <1> HIDE DEF low, k
  <1>6. CASE s.off + i < s.max
    <2>1. k = s.off + i /\ k - s.off + 1 = i + 1
      BY <1>1, <1>3, <1>6
    <2>2. i < Len(d) => s.off <= k /\ k < s.off + low
      BY <1>1, <1>2, <1>6, <2>1
    <2>3. ~(i < Len(d)) => ~(k < s.off + low) /\ ~(k < Len(d) - low)
      <3>1. ~(i < Len(d)) => low = Len(d)
        BY <1>1, <1>2, <1>6
      <3> QED
        BY <1>1, <2>1, <3>1
    <2> QED
      BY <1>5, <2>1, <2>2, <2>3 DEF k
  <1>7. CASE ~(s.off + i < s.max)
    <2>1. k = s.off + i - s.max /\ ~(s.off <= k)
      BY <1>1, <1>3, <1>7
    <2>2. i < Len(d) => low = s.max - s.off
      BY <1>1, <1>2, <1>7
    <2>3. i < Len(d) => k < Len(d) - low /\ low + k + 1 = i + 1
      BY <1>1, <1>7, <2>1, <2>2
    <2>4. ~(i < Len(d)) => ~(k < Len(d) - low)
      BY <1>1, <1>2, <1>7, <2>1
    <2> QED
      BY <1>5, <2>1, <2>3, <2>4 DEF k
  <1> QED
    BY <1>6, <1>7

(* Writing d at a position of the content. *)
LEMMA WriteCells ==
    ASSUME NEW s, IsQueue(s), NEW pos \in 0..(s.len - 1), NEW d \in Seq(Byte),
           pos + Len(d) <= s.len, NEW i \in 0..(s.max - 1)
    PROVE  Fill(Seek(s, pos), d)[At(s, i)]
             = IF pos <= i /\ i < pos + Len(d) THEN d[i - pos + 1] ELSE s.mem[At(s, i)]
  <1> DEFINE t == Seek(s, pos)
             j == IF pos <= i THEN i - pos ELSE i - pos + s.max
  <1>1. /\ s.max \in Nat /\ s.len \in Nat /\ s.len <= s.max /\ Len(d) \in Nat
        /\ i \in Nat /\ i < s.max /\ pos \in Nat /\ pos < s.len
    BY DEF IsQueue
  <1>2. IsQueue(t) /\ t.max = s.max /\ t.mem = s.mem
    BY <1>1, SeekIsQueue DEF Seek, CropFront, Ring
  <1>3. j \in 0..(s.max - 1)
    BY <1>1
  <1>4. /\ pos <= i => pos + j = i
        /\ ~(pos <= i) => pos + j - s.max = i /\ ~(pos + j < s.max)
    BY <1>1
  <1>5. At(t, j) = At(s, i)
    BY <1>1, <1>3, <1>4, AtSeek
  <1>6. Fill(t, d)[At(t, j)] = IF j < Len(d) THEN d[j + 1] ELSE t.mem[At(t, j)]
    <2>1. Len(d) <= t.max /\ j \in 0..(t.max - 1)
      BY <1>1, <1>2, <1>3
    <2> HIDE DEF t, j
    <2> QED
      BY <1>2, <2>1, FillCells
  <1>7. (j < Len(d)) = (pos <= i /\ i < pos + Len(d))
    BY <1>1, pos + Len(d) <= s.len
  <1>8. pos <= i => j + 1 = i - pos + 1
    BY <1>1
  <1> HIDE DEF t, j
  <1> QED
    BY <1>2, <1>5, <1>6, <1>7, <1>8 DEF t

(* The first n bytes, copied segment by segment. *)
LEMMA FetchContent ==
    ASSUME NEW s, IsQueue(s), NEW n \in 0..s.len
    PROVE  Fetch(s, n) = SubSeq(Content(s), 1, n)
  <1> DEFINE low == LowPart(s, n)
             c   == Content(s)
  <1>1. /\ s.max \in Nat /\ s.off \in Nat /\ s.off <= s.max
        /\ s.len \in Nat /\ s.len <= s.max /\ n \in Nat /\ n <= s.len
    BY DEF IsQueue
  <1>2. c \in Seq(Cell) /\ Len(c) = s.len
    BY ContentIsSeq
  <1>3. low = IF s.max - s.off < n THEN s.max - s.off ELSE n
    BY DEF LowPart
  <1>4. ASSUME NEW i \in 1..n PROVE Fetch(s, n)[i] = c[i]
    <2>1. c[i] = s.mem[At(s, i - 1)]
      BY <1>1, ContentIsSeq
    <2>2. Fetch(s, n)[i] = IF i <= low THEN s.mem[s.off + i - 1] ELSE s.mem[i - low - 1]
      BY DEF Fetch
    <2> HIDE DEF low, c
    <2>3. /\ i <= low => At(s, i - 1) = s.off + i - 1
          /\ ~(i <= low) => At(s, i - 1) = i - low - 1
      BY <1>1, <1>3 DEF At
    <2> QED
      BY <2>1, <2>2, <2>3
  <1>5. Fetch(s, n) = [i \in 1..n |-> c[i]]
    BY <1>4 DEF Fetch
  <1> HIDE DEF c
  <1>6. SubSeq(c, 1, n) = [i \in 1..n |-> c[i]]
    BY <1>1, <1>2
  <1> QED
    BY <1>5, <1>6 DEF c

(* A sequence put behind another, by place. *)
LEMMA JoinedAt ==
    ASSUME NEW a \in Seq(Cell), NEW b \in Seq(Cell)
    PROVE  /\ a \o b \in Seq(Cell) /\ Len(a \o b) = Len(a) + Len(b)
           /\ \A i \in 1..(Len(a) + Len(b)) :
                (a \o b)[i] = IF i <= Len(a) THEN a[i] ELSE b[i - Len(a)]
  OBVIOUS

(* A block as a sequence of cells. *)
LEMMA BlockIsCells ==
    ASSUME NEW d \in Block
    PROVE  d \in Seq(Byte) /\ d \in Seq(Cell) /\ Len(d) \in Nat /\ Len(d) > 0
  <1>1. PICK n \in 1..MaxBlock : d \in [1..n -> Byte]
    BY DEF Block
  <1>2. d \in Seq(Byte) /\ Len(d) = n /\ n \in Nat /\ n > 0
    BY <1>1
  <1>3. d \in Seq(Cell)
    <2>1. d = [i \in 1..n |-> d[i]]
      BY <1>1
    <2>2. \A i \in 1..n : d[i] \in Byte
      BY <1>1
    <2>3. \A i \in 1..n : d[i] \in Cell
      BY <2>2 DEF Cell
    <2> HIDE DEF Cell
    <2>4. d \in [1..n -> Cell]
      BY <2>1, <2>3
    <2> QED
      BY <1>1, <2>4
  <1> QED
    BY <1>2, <1>3

(* An append that fits puts the block behind the content. *)
LEMMA PushedContent ==
    ASSUME NEW s, IsQueue(s), NEW d \in Block, Len(d) <= s.max - s.len
    PROVE  /\ Content(Pushed(s, d).queue) = Content(s) \o d
           /\ Pushed(s, d).queue.max = s.max
           /\ Pushed(s, d).ok = TRUE
  <1> DEFINE longer == Ring(s.mem, s.len + Len(d), s.max, s.off)
             t == Pushed(s, d).queue
  <1>1. /\ s.max \in Nat /\ s.len \in Nat /\ Len(d) \in Nat /\ Len(d) > 0
        /\ s.len + Len(d) <= s.max
    BY BlockIsCells DEF IsQueue
  <1>2. Pushed(s, d) = [queue |-> Ring(Fill(Seek(longer, s.len), d),
                                       s.len + Len(d), s.max, s.off), ok |-> TRUE]
    BY DEF Pushed, Ring
  <1>3. /\ t.mem = Fill(Seek(longer, s.len), d) /\ t.len = s.len + Len(d)
        /\ t.max = s.max /\ t.off = s.off
    BY <1>2 DEF Ring
  <1>4. IsQueue(t)
    BY PushedIsQueue
  <1>5. IsQueue(longer) /\ longer.max = s.max /\ longer.len = s.len + Len(d)
        /\ longer.mem = s.mem /\ longer.off = s.off
    BY <1>1 DEF IsQueue, Ring
  <1>6. ASSUME NEW i \in 0..(s.max - 1)
        PROVE  t.mem[At(s, i)] = IF s.len <= i /\ i < s.len + Len(d)
                                 THEN d[i - s.len + 1] ELSE s.mem[At(s, i)]
    <2>1. At(longer, i) = At(s, i)
      BY <1>5 DEF At
    <2>2. s.len \in 0..(longer.len - 1) /\ s.len + Len(d) <= longer.len
          /\ i \in 0..(longer.max - 1)
      BY <1>1, <1>5
    <2> HIDE DEF longer, t
    <2>3. Fill(Seek(longer, s.len), d)[At(longer, i)]
            = IF s.len <= i /\ i < s.len + Len(d)
              THEN d[i - s.len + 1] ELSE longer.mem[At(longer, i)]
      BY <1>5, <2>2, WriteCells, BlockIsCells
    <2> QED
      BY <1>3, <1>5, <2>1, <2>3
  <1>7. ASSUME NEW i \in 1..t.len PROVE t.mem[At(t, i - 1)] = (Content(s) \o d)[i]
    <2>1. At(t, i - 1) = At(s, i - 1) /\ i - 1 \in 0..(s.max - 1) /\ i \in 1..(s.len + Len(d))
      BY <1>1, <1>3 DEF At
    <2>2. (Content(s) \o d)[i] = IF i <= s.len THEN Content(s)[i] ELSE d[i - s.len]
      BY <1>1, <2>1, ContentIsSeq, JoinedAt, BlockIsCells
    <2>3. i <= s.len => Content(s)[i] = s.mem[At(s, i - 1)]
      BY <1>1, <2>1, ContentIsSeq
    <2>4. (i - 1) - s.len + 1 = i - s.len /\ (i <= s.len <=> ~(s.len <= i - 1))
          /\ i - 1 < s.len + Len(d)
      BY <1>1, <2>1
    <2> HIDE DEF t
    <2> QED
      BY <1>6, <2>1, <2>2, <2>3, <2>4
  <1> HIDE DEF t
  <1>8. Content(t) = Content(s) \o d
    <2>1. Content(s) \o d \in Seq(Cell) /\ Len(Content(s) \o d) = t.len
      <3>1. Content(s) \in Seq(Cell) /\ d \in Seq(Cell) /\ Len(Content(s)) = s.len
        BY ContentIsSeq, BlockIsCells
      <3>2. Content(s) \o d \in Seq(Cell) /\ Len(Content(s) \o d) = Len(Content(s)) + Len(d)
        BY <3>1, JoinedAt
      <3> QED
        BY <1>3, <3>1, <3>2 DEF t
    <2> QED
      BY <1>4, <1>7, <2>1, ShowsBytes
  <1> QED
    BY <1>2, <1>3, <1>8 DEF t

(* A prepend puts the block in front of the content, or changes nothing. *)
LEMMA UnshiftedContent ==
    ASSUME NEW s, IsQueue(s), NEW d \in Block, NEW r \in Unshifted(s, d),
           ~(r.ok /\ r.queue.len = r.queue.max + Len(d))
    PROVE  \/ r.ok = FALSE /\ r.queue = s
           \/ /\ r.ok = TRUE /\ Len(d) <= s.max - s.len /\ r.queue.max = s.max
              /\ Content(r.queue) = d \o Content(s)
  <1>1. PICK f \in FreeSizes(s) :
          LET p == mpt_qpre(s, Len(d), f.low, f.high)
          IN  r = IF Len(d) <= f.low + f.high
                  THEN [queue |-> Ring(Fill(p, d), p.len, p.max, p.off), ok |-> TRUE]
                  ELSE [queue |-> s, ok |-> FALSE]
    BY DEF Unshifted
  <1> DEFINE p == mpt_qpre(s, Len(d), f.low, f.high)
             t == r.queue
  <1>0. /\ s.max \in Nat /\ s.len \in Nat /\ s.len <= s.max /\ s.off \in 0..s.max
        /\ Len(d) \in Nat /\ Len(d) > 0 /\ d \in Seq(Byte)
    BY BlockIsCells DEF IsQueue
  <1>2. CASE Len(d) <= f.low + f.high
    <2>1. /\ s.len < s.max
          /\ f.low + f.high = s.max - s.len
          /\ f.high = (IF s.max - s.len <= s.off THEN 0 ELSE s.off)
      <3>1. s.max # s.len
        <4>1. SUFFICES ASSUME s.max = s.len PROVE FALSE
          OBVIOUS
        <4>2. r = [queue |-> Ring(Fill(p, d), p.len, p.max, p.off), ok |-> TRUE]
          BY <1>1, <1>2
        <4>3. p.len = s.len + Len(d) /\ p.max = s.max
          BY DEF mpt_qpre, Ring
        <4>4. r.ok /\ r.queue.len = r.queue.max + Len(d)
          <5> HIDE DEF p
          <5> QED
            BY <4>1, <4>2, <4>3 DEF Ring
        <4> QED
          BY <4>4
      <3>2. f = [low |-> mpt_queue_empty(s).low, high |-> mpt_queue_empty(s).high]
        BY <3>1 DEF FreeSizes
      <3> QED
        BY <3>1, <3>2 DEF mpt_queue_empty, IsQueue
    <2>2. r = [queue |-> Ring(Fill(p, d), p.len, p.max, p.off), ok |-> TRUE]
      BY <1>1, <1>2
    <2>3. /\ p.mem = s.mem /\ p.len = s.len + Len(d) /\ p.max = s.max
          /\ p.off = IF f.high # 0 /\ f.high < Len(d) THEN s.max - (Len(d) - f.high)
                     ELSE IF Len(d) < s.off THEN s.off - Len(d)
                     ELSE s.off + s.max - Len(d)
      BY DEF mpt_qpre, Ring
    <2> HIDE DEF p
    <2>4. /\ t.mem = Fill(p, d) /\ t.len = s.len + Len(d) /\ t.max = s.max /\ t.off = p.off
          /\ r.ok = TRUE
      BY <2>2, <2>3 DEF Ring
    <2>5. Len(d) <= s.max - s.len
      BY <1>2, <2>1
    <2>6. p.off \in 0..s.max
      <3>1. CASE f.high # 0 /\ f.high < Len(d)
        BY <1>0, <2>1, <2>3, <2>5, <3>1
      <3>2. CASE ~(f.high # 0 /\ f.high < Len(d))
        BY <1>0, <2>1, <2>3, <2>5, <3>2, SMTT(60)
      <3> QED
        BY <3>1, <3>2
    <2>7. IsQueue(p)
      BY <1>0, <2>3, <2>5, <2>6 DEF IsQueue
    <2>8. IsQueue(t)
      BY UnshiftedIsQueue
    <2>9. ASSUME NEW i \in 0..(s.len - 1) PROVE At(p, Len(d) + i) = At(s, i)
      <3>1. i \in Nat /\ i < s.len
        BY <1>0
      <3>2. CASE f.high # 0 /\ f.high < Len(d)
        <4>1. p.off = s.max - Len(d) + s.off /\ s.off < Len(d)
          BY <1>0, <2>1, <2>3, <3>2
        <4>2. s.off + i < s.max
          BY <1>0, <2>1, <2>5, <3>1, <3>2, <4>1
        <4>3. p.off + (Len(d) + i) - p.max = s.off + i /\ ~(p.off + (Len(d) + i) < p.max)
          BY <1>0, <2>3, <3>1, <4>1
        <4> QED
          BY <4>2, <4>3 DEF At
      <3>3. CASE ~(f.high # 0 /\ f.high < Len(d)) /\ Len(d) < s.off
        <4>1. p.off = s.off - Len(d)
          BY <2>3, <3>3
        <4> QED
          BY <1>0, <2>3, <3>1, <4>1 DEF At
      <3>4. CASE ~(f.high # 0 /\ f.high < Len(d)) /\ ~(Len(d) < s.off)
        <4>1. p.off = s.off + s.max - Len(d)
          BY <2>3, <3>4
        <4>2. s.off + i < s.max
          BY <1>0, <2>5, <3>1, <3>4
        <4>3. p.off + (Len(d) + i) - p.max = s.off + i /\ ~(p.off + (Len(d) + i) < p.max)
          BY <1>0, <2>3, <3>1, <4>1
        <4> QED
          BY <4>2, <4>3 DEF At
      <3> QED
        BY <3>2, <3>3, <3>4
    <2>10. ASSUME NEW i \in 0..(s.max - 1)
           PROVE  t.mem[At(p, i)] = IF i < Len(d) THEN d[i + 1] ELSE s.mem[At(p, i)]
      <3>1. Len(d) <= p.max /\ i \in 0..(p.max - 1)
        BY <1>0, <2>3, <2>5
      <3> QED
        BY <1>0, <2>3, <2>4, <2>7, <3>1, FillCells
    <2>11. ASSUME NEW i \in 1..t.len PROVE t.mem[At(t, i - 1)] = (d \o Content(s))[i]
      <3>1. At(t, i - 1) = At(p, i - 1) /\ i - 1 \in 0..(s.max - 1)
            /\ i \in 1..(Len(d) + s.len)
        BY <1>0, <2>3, <2>4, <2>5 DEF At
      <3>2. (d \o Content(s))[i] = IF i <= Len(d) THEN d[i] ELSE Content(s)[i - Len(d)]
        BY <3>1, ContentIsSeq, JoinedAt, BlockIsCells
      <3> HIDE DEF t
      <3>3. CASE i <= Len(d)
        <4>1. i - 1 < Len(d) /\ i - 1 + 1 = i
          BY <1>0, <3>1, <3>3
        <4> QED
          BY <2>10, <3>1, <3>2, <3>3, <4>1
      <3>4. CASE ~(i <= Len(d))
        <4> DEFINE j == i - Len(d) - 1
        <4>1. /\ ~(i - 1 < Len(d)) /\ j \in 0..(s.len - 1) /\ Len(d) + j = i - 1
              /\ i - Len(d) \in 1..s.len /\ i - Len(d) - 1 = j
          BY <1>0, <3>1, <3>4
        <4>2. At(p, i - 1) = At(s, j)
          BY <2>9, <4>1
        <4>3. Content(s)[i - Len(d)] = s.mem[At(s, j)]
          BY <4>1, ContentIsSeq
        <4> QED
          BY <2>10, <3>1, <3>2, <3>4, <4>1, <4>2, <4>3
      <3> QED
        BY <3>3, <3>4
    <2>12. Content(t) = d \o Content(s)
      <3>1. d \o Content(s) \in Seq(Cell) /\ Len(d \o Content(s)) = t.len
        <4>1. Content(s) \in Seq(Cell) /\ d \in Seq(Cell) /\ Len(Content(s)) = s.len
          BY ContentIsSeq, BlockIsCells
        <4>2. d \o Content(s) \in Seq(Cell) /\ Len(d \o Content(s)) = Len(d) + Len(Content(s))
          BY <4>1, JoinedAt
        <4> QED
          BY <1>0, <2>4, <4>1, <4>2
      <3> HIDE DEF t
      <3> QED
        BY <2>8, <2>11, <3>1, ShowsBytes
    <2> QED
      BY <2>4, <2>5, <2>12
  <1>3. CASE ~(Len(d) <= f.low + f.high)
    BY <1>1, <1>3
  <1> QED
    BY <1>2, <1>3

(* The room behind the data takes what a file delivers, wherever it lies.  *)
LEMMA LoadedContent ==
    ASSUME NEW s, IsQueue(s), NEW d \in Block, Len(d) <= s.max - s.len
    PROVE  /\ IsQueue(Loaded(s, d)) /\ Loaded(s, d).max = s.max
           /\ Content(Loaded(s, d)) = Content(s) \o d
  <1> DEFINE e == mpt_queue_empty(s)
             t == Loaded(s, d)
             new == [k \in 0..(s.max - 1) |->
                IF e.start <= k /\ k < e.start + e.low /\ k - e.start < Len(d)
                THEN d[k - e.start + 1]
                ELSE IF k < e.high /\ k < Len(d) - e.low THEN d[e.low + k + 1]
                ELSE s.mem[k]]
  <1>0. /\ s.max \in Nat /\ s.len \in Nat /\ s.len <= s.max /\ s.off \in Nat /\ s.off <= s.max
        /\ Len(d) \in Nat /\ Len(d) > 0 /\ d \in Seq(Byte) /\ s.mem \in [0..(s.max - 1) -> Cell]
        /\ s.max <= MaxSize
    BY BlockIsCells DEF IsQueue
  <1>1. /\ s.max - s.len <= s.off =>
             e.start = s.len - (s.max - s.off) /\ e.low = s.max - s.len /\ e.high = 0
        /\ ~(s.max - s.len <= s.off) =>
             e.start = s.off + s.len /\ e.low = s.max - s.len - s.off /\ e.high = s.off
    BY DEF mpt_queue_empty
  <1> HIDE DEF e
  <1>2. e.start \in Int /\ e.low \in Nat /\ e.high \in Nat
    BY <1>0, <1>1, SMTT(60)
  <1>3. new \in [0..(s.max - 1) -> Cell]
    <2> DEFINE val(k) == IF e.start <= k /\ k < e.start + e.low /\ k - e.start < Len(d)
                         THEN d[k - e.start + 1]
                         ELSE IF k < e.high /\ k < Len(d) - e.low THEN d[e.low + k + 1]
                         ELSE s.mem[k]
    <2>1. ASSUME NEW k \in 0..(s.max - 1) PROVE val(k) \in Cell
      <3>0. d \in Seq(Cell)
        BY BlockIsCells
      <3>1. k \in Nat /\ s.mem[k] \in Cell
        BY <1>0
      <3> HIDE DEF Cell
      <3>2. CASE e.start <= k /\ k < e.start + e.low /\ k - e.start < Len(d)
        <4>1. k - e.start + 1 \in 1..Len(d)
          BY <1>0, <1>2, <3>1, <3>2, SMTT(60)
        <4>2. d[k - e.start + 1] \in Cell
          BY <3>0, <4>1
        <4> QED
          BY <3>2, <4>2
      <3>3. CASE ~(e.start <= k /\ k < e.start + e.low /\ k - e.start < Len(d))
                 /\ k < e.high /\ k < Len(d) - e.low
        <4>1. e.low + k + 1 \in 1..Len(d)
          <5>1. k < Len(d) - e.low
            BY <3>3
          <5> QED
            BY <1>0, <1>2, <3>1, <5>1, SMTT(60)
        <4>2. d[e.low + k + 1] \in Cell
          BY <3>0, <4>1
        <4> QED
          BY <3>3, <4>2
      <3> QED
        BY <3>1, <3>2, <3>3
    <2>2. new = [k \in 0..(s.max - 1) |-> val(k)]
      OBVIOUS
    <2> HIDE DEF val, new, Cell
    <2> QED
      BY <2>1, <2>2
  <1>4. t.mem = new /\ t.len = s.len + Len(d) /\ t.max = s.max /\ t.off = s.off
    BY DEF Loaded, Ring, e
  <1>5. IsQueue(t)
    <2> HIDE DEF new, t
    <2>1. s.len + Len(d) \in 0..s.max /\ s.max \in 0..MaxSize /\ s.off \in 0..s.max
      BY <1>0
    <2> QED
      BY <1>3, <1>4, <2>1 DEF IsQueue
  <1>6. ASSUME NEW k \in 0..(s.max - 1)
        PROVE  new[k] = IF e.start <= k /\ k < e.start + e.low /\ k - e.start < Len(d)
                        THEN d[k - e.start + 1]
                        ELSE IF k < e.high /\ k < Len(d) - e.low THEN d[e.low + k + 1]
                        ELSE s.mem[k]
    OBVIOUS
  <1>7. ASSUME NEW i \in 0..(s.len + Len(d) - 1)
        PROVE  new[At(s, i)] = IF i < s.len THEN s.mem[At(s, i)] ELSE d[i - s.len + 1]
    <2> HIDE DEF new
    <2> DEFINE k == At(s, i)
    <2>1. k = IF s.off + i < s.max THEN s.off + i ELSE s.off + i - s.max
      BY DEF At
    <2> HIDE DEF k
    <2>2. i \in Nat /\ i < s.len + Len(d) /\ i < s.max /\ s.len + Len(d) <= s.max
      BY <1>0
    <2>3. k \in 0..(s.max - 1)
      <3>1. CASE s.off + i < s.max
        BY <1>0, <2>1, <2>2, <3>1
      <3>2. CASE ~(s.off + i < s.max)
        BY <1>0, <2>1, <2>2, <3>2, SMTT(60)
      <3> QED
        BY <3>1, <3>2
    <2>4. CASE s.max - s.len <= s.off
      <3>1. CASE s.off + i < s.max
        <4>1. i < s.len \/ s.len = 0
          BY <1>0, <2>4, <3>1
        <4>2. k = s.off + i
          BY <2>1, <3>1
        <4>3. i < s.len
          BY <1>0, <2>2, <2>4, <3>1, <4>1
        <4>4. ~(k < e.start + e.low) /\ ~(k < e.high)
          BY <1>0, <1>1, <2>2, <2>4, <4>2, SMTT(60)
        <4> QED
          BY <1>6, <2>3, <4>3, <4>4 DEF k
      <3>2. CASE ~(s.off + i < s.max)
        <4>1. k = s.off + i - s.max
          BY <2>1, <3>2
        <4>2. ~(k < e.high)
          BY <1>1, <2>3, <2>4
        <4>3. i < s.len => ~(e.start <= k)
          BY <1>0, <1>1, <2>2, <2>4, <4>1
        <4>4. ~(i < s.len) => /\ e.start <= k /\ k < e.start + e.low
                              /\ k - e.start < Len(d) /\ k - e.start + 1 = i - s.len + 1
          <5>1. k - e.start = i - s.len
            BY <1>0, <1>1, <2>2, <2>4, <4>1, SMTT(60)
          <5>2. e.low = s.max - s.len
            BY <1>1, <2>4
          <5>3. k \in Nat /\ k = e.start + (i - s.len)
            BY <1>0, <1>2, <2>2, <2>3, <5>1
          <5>4. ~(i < s.len) => e.start <= k /\ k < e.start + e.low
            BY <1>0, <1>2, <2>2, <5>2, <5>3, SMTT(60)
          <5>5. ~(i < s.len) => k - e.start < Len(d)
            BY <1>0, <2>2, <5>1
          <5> QED
            BY <5>1, <5>4, <5>5
        <4> QED
          BY <1>6, <2>3, <4>2, <4>3, <4>4 DEF k
      <3> QED
        BY <3>1, <3>2
    <2>5. CASE ~(s.max - s.len <= s.off)
      <3>1. CASE s.off + i < s.max
        <4>1. k = s.off + i
          BY <2>1, <3>1
        <4>2. i < s.len => ~(e.start <= k) /\ ~(k < e.high)
          BY <1>0, <1>1, <2>2, <2>5, <4>1
        <4>3. ~(i < s.len) => /\ e.start <= k /\ k < e.start + e.low
                              /\ k - e.start < Len(d) /\ k - e.start + 1 = i - s.len + 1
          <5>1. /\ e.start = s.off + s.len /\ e.low = s.max - s.len - s.off
            BY <1>1, <2>5
          <5>2. k - e.start = i - s.len /\ e.start + e.low = s.max
            BY <1>0, <2>2, <4>1, <5>1, SMTT(60)
          <5>3. ~(i < s.len) => e.start <= k
            BY <1>0, <2>2, <4>1, <5>1
          <5>4. k < s.max
            BY <3>1, <4>1
          <5>5. i - s.len < Len(d)
            BY <1>0, <2>2
          <5> QED
            BY <5>2, <5>3, <5>4, <5>5
        <4> QED
          BY <1>6, <2>3, <4>2, <4>3 DEF k
      <3>2. CASE ~(s.off + i < s.max)
        <4>1. k = s.off + i - s.max /\ ~(i < s.len)
          BY <1>0, <2>1, <2>2, <2>5, <3>2
        <4>2. /\ ~(e.start <= k)
              /\ k < e.high /\ k < Len(d) - e.low /\ e.low + k + 1 = i - s.len + 1
          <5>1. /\ e.start = s.off + s.len /\ e.low = s.max - s.len - s.off /\ e.high = s.off
            BY <1>1, <2>5
          <5>2. ~(e.start <= k) /\ k < e.high
            BY <1>0, <2>2, <4>1, <5>1, SMTT(60)
          <5>3. e.low + k = i - s.len
            BY <1>0, <2>2, <4>1, <5>1, SMTT(60)
          <5>4. k \in Nat /\ e.low \in Nat /\ i - s.len < Len(d)
            BY <1>0, <1>2, <2>2, <2>3
          <5>5. k < Len(d) - e.low
            BY <1>0, <5>3, <5>4
          <5> QED
            BY <5>2, <5>3, <5>5
        <4> QED
          BY <1>6, <2>3, <4>1, <4>2 DEF k
      <3> QED
        BY <3>1, <3>2
    <2> QED
      BY <2>4, <2>5
  <1>8. ASSUME NEW i \in 1..t.len PROVE t.mem[At(t, i - 1)] = (Content(s) \o d)[i]
    <2>1. At(t, i - 1) = At(s, i - 1) /\ i - 1 \in 0..(s.len + Len(d) - 1)
          /\ i \in 1..(s.len + Len(d))
      BY <1>0, <1>4 DEF At
    <2>2. (Content(s) \o d)[i] = IF i <= s.len THEN Content(s)[i] ELSE d[i - s.len]
      BY <1>0, <2>1, ContentIsSeq, JoinedAt, BlockIsCells, SMTT(60)
    <2>3. i <= s.len => Content(s)[i] = s.mem[At(s, i - 1)]
      BY <1>0, <2>1, ContentIsSeq
    <2>4. (i - 1) - s.len + 1 = i - s.len /\ (i <= s.len <=> i - 1 < s.len)
      BY <1>0, <2>1
    <2> HIDE DEF new, t
    <2> QED
      BY <1>4, <1>7, <2>1, <2>2, <2>3, <2>4
  <1> HIDE DEF t
  <1>9. Content(t) = Content(s) \o d
    <2>1. Content(s) \in Seq(Cell) /\ d \in Seq(Cell) /\ Len(Content(s)) = s.len
      BY ContentIsSeq, BlockIsCells
    <2>2. Content(s) \o d \in Seq(Cell) /\ Len(Content(s) \o d) = Len(Content(s)) + Len(d)
      BY ONLY <2>1, JoinedAt, SMTT(60)
    <2> DEFINE c == Content(s) \o d
    <2>3. c \in Seq(Cell) /\ Len(c) = t.len
      BY <1>4, <2>1, <2>2
    <2>4. \A i \in 1..t.len : t.mem[At(t, i - 1)] = c[i]
      BY <1>8
    <2> HIDE DEF c, new
    <2>5. Content(t) = c
      BY ONLY <1>5, <2>3, <2>4, ShowsBytes
    <2> QED
      BY <2>5 DEF c
  <1> QED
    BY <1>4, <1>5, <1>9 DEF t

(* The newest bytes are what is left when the oldest are dropped. *)
LEMMA NewestContent ==
    ASSUME NEW s, IsQueue(s), NEW n \in 0..s.len
    PROVE  Content(CropFront(s, s.len - n))
             = SubSeq(Content(s), Len(Content(s)) - n + 1, Len(Content(s)))
  <1>1. s.len \in Nat /\ n \in Nat /\ n <= s.len
    BY DEF IsQueue
  <1>2. s.len - n \in 0..s.len
    BY <1>1
  <1>3. Len(Content(s)) = s.len
    BY ContentIsSeq
  <1> QED
    BY <1>2, <1>3, CropContent

(* Dropping nothing. *)
LEMMA AllContent ==
    ASSUME NEW s, IsQueue(s)
    PROVE  /\ SubSeq(Content(s), 1, Len(Content(s))) = Content(s)
           /\ Len(Content(s)) = s.len
  <1>1. Content(s) \in Seq(Cell) /\ Len(Content(s)) = s.len
    BY ContentIsSeq
  <1> HIDE DEF Content
  <1> QED
    BY <1>1

(* What is dropped before the storage shrinks are the oldest bytes. *)
LEMMA CompactContent ==
    ASSUME NEW s, IsQueue(s), NEW n \in Nat \ {0}
    PROVE  Content(Compact(s, n))
             = IF n < s.len THEN SubSeq(Content(s), Len(Content(s)) - n + 1, Len(Content(s)))
                            ELSE Content(s)
  <1>1. s.len \in Nat /\ s.max \in Nat /\ s.len <= s.max
    BY DEF IsQueue
  <1>2. CASE n < s.len
    <2>1. Compact(s, n) = mpt_queue_align(CropFront(s, s.len - n))
      BY <1>1, <1>2 DEF Compact
    <2>2. IsQueue(CropFront(s, s.len - n))
      BY <1>1, <1>2, CropFrontIsQueue
    <2>3. n \in 0..s.len
      BY <1>1, <1>2
    <2> QED
      BY <1>2, <2>1, <2>2, <2>3, AlignContent, NewestContent
  <1>3. CASE ~(n < s.len)
    <2>1. Compact(s, n) = mpt_queue_align(s) \/ Compact(s, n) = s
      BY <1>3 DEF Compact
    <2> QED
      BY <1>3, <2>1, AlignContent
  <1> QED
    BY <1>2, <1>3

(* Old cells stay where they are when data in one piece, or storage that   *)
(* shrinks to it, is reallocated.                                          *)
LEMMA ReallocContent ==
    ASSUME NEW s, IsQueue(s), NEW n \in 1..MaxSize, s.off + s.len <= s.max,
           s.off + s.len <= n
    PROVE  Content(realloc(s, n)) = Content(s)
  <1> DEFINE t == realloc(s, n)
  <1>1. /\ s.max \in Nat /\ s.len \in Nat /\ s.len <= s.max /\ s.off \in Nat
    BY DEF IsQueue
  <1>2. IsQueue(t) /\ t.len = s.len /\ t.max = n /\ t.off = s.off
    <2>1. s.len <= n /\ s.off <= n
      BY <1>1
    <2> QED
      BY <2>1, ReallocIsQueue DEF realloc, Ring
  <1>3. ASSUME NEW i \in 1..s.len PROVE t.mem[At(t, i - 1)] = s.mem[At(s, i - 1)]
    <2>1. At(t, i - 1) = s.off + (i - 1) /\ At(s, i - 1) = s.off + (i - 1)
      BY <1>1, <1>2 DEF At
    <2>2. s.off + (i - 1) \in 0..(n - 1) /\ s.off + (i - 1) < s.max
      BY <1>1
    <2> QED
      BY <2>1, <2>2 DEF realloc, Ring
  <1>4. ASSUME NEW i \in 1..t.len PROVE t.mem[At(t, i - 1)] = Content(s)[i]
    BY <1>2, <1>3, ContentIsSeq
  <1> HIDE DEF t
  <1> QED
    BY <1>2, <1>4, ContentIsSeq, ShowsBytes DEF t

(* Every outcome of mpt_queue_resize keeps the newest bytes that fit. *)
LEMMA ResizeContent ==
    ASSUME NEW s, IsQueue(s), NEW n \in Nat, NEW got \in Answers(n)
    PROVE  /\ Content(mpt_queue_resize(s, n, got))
                = IF n < s.len THEN D!Newest(Content(s), n) ELSE Content(s)
           /\ mpt_queue_resize(s, n, got).max = IF ResizeFails(s, n, got) THEN s.max ELSE n
  <1> DEFINE t == mpt_queue_resize(s, n, got)
             c == Content(s)
  <1>0. /\ s.max \in Nat /\ s.len \in Nat /\ s.len <= s.max
        /\ c \in Seq(Cell) /\ Len(c) = s.len
    BY ContentIsSeq DEF IsQueue
  <1>1. CASE n = 0
    <2>1. t = Released /\ t.max = 0 /\ t.len = 0
      BY <1>1 DEF mpt_queue_resize, Released, Ring
    <2>2. IsQueue(t)
      BY <2>1, ResizeIsQueue
    <2>3. Content(t) \in Seq(Cell) /\ Len(Content(t)) = 0
      BY <2>1, <2>2, ContentIsSeq
    <2>4. Content(t) = << >>
      BY <2>3
    <2> HIDE DEF c, t
    <2>5. IF n < s.len THEN D!Newest(c, n) = << >> ELSE c = << >>
      BY <1>0, <1>1 DEF D!Newest
    <2>6. t.max = IF ResizeFails(s, n, got) THEN s.max ELSE n
      BY <1>1, <2>1 DEF ResizeFails
    <2> QED
      BY <2>4, <2>5, <2>6 DEF t, c
  <1>2. CASE n # 0
    <2> DEFINE p == Compact(s, n)
    <2>1. Content(p) = IF n < s.len THEN D!Newest(c, n) ELSE c
      BY <1>2, CompactContent DEF D!Newest
    <2>2. /\ IsQueue(p) /\ p.max = s.max
          /\ n < s.max => p.len <= n /\ p.off = 0
      BY <1>2, CompactIsQueue
    <2>3. CASE n # s.max /\ got
      <3>1. t = realloc(p, n)
        BY <1>2, <2>3 DEF mpt_queue_resize
      <3>2. n \in 1..MaxSize
        <4>1. n > MaxSize => got = FALSE
          BY DEF Answers
        <4> QED
          BY <1>2, <2>3, <4>1, QueueAssumption
      <3>3. p.off + p.len <= p.max /\ p.off + p.len <= n
        <4>1. CASE n < s.max
          BY <2>2, <4>1 DEF IsQueue
        <4>2. CASE ~(n < s.max)
          <5>1. n > s.max
            BY <1>0, <2>3, <4>2
          <5>2. CASE MPT_queue_frag(s)
            <6>1. p = mpt_queue_align(s)
              BY <1>0, <5>1, <5>2 DEF Compact
            <6>2. p.off = 0 /\ p.len = s.len /\ p.max = s.max
              BY <6>1, AlignIsQueue
            <6> QED
              BY <1>0, <5>1, <6>2
          <5>3. CASE ~MPT_queue_frag(s)
            <6>1. p = s
              BY <1>0, <5>1, <5>3 DEF Compact
            <6>2. s.off + s.len <= s.max
              BY <5>3 DEF MPT_queue_frag, IsQueue
            <6>3. s.off \in Nat
              BY DEF IsQueue
            <6> HIDE DEF p
            <6> QED
              BY <1>0, <5>1, <6>1, <6>2, <6>3
          <5> QED
            BY <5>2, <5>3
        <4> QED
          BY <4>1, <4>2
      <3> HIDE DEF p
      <3>4. Content(t) = Content(p)
        BY <2>2, <3>1, <3>2, <3>3, ReallocContent
      <3>5. t.max = n
        BY <3>1 DEF realloc, Ring
      <3>6. ~ResizeFails(s, n, got)
        BY <2>3 DEF ResizeFails
      <3> QED
        BY <2>1, <3>4, <3>5, <3>6
    <2>4. CASE ~(n # s.max /\ got)
      <3>1. t = p
        BY <1>2, <2>4 DEF mpt_queue_resize
      <3>2. t.max = IF ResizeFails(s, n, got) THEN s.max ELSE n
        <4>1. t.max = s.max
          BY <2>2, <3>1
        <4>2. ResizeFails(s, n, got) \/ n = s.max
          BY <1>2, <2>4 DEF ResizeFails
        <4> HIDE DEF t
        <4> QED
          BY <4>1, <4>2
      <3> QED
        BY <2>1, <3>1, <3>2
    <2> QED
      BY <2>3, <2>4
  <1> QED
    BY <1>1, <1>2

(* A size below the limit is not changed by size_t arithmetic. *)
LEMMA SmallSize ==
    ASSUME NEW a \in Nat, NEW b \in Nat, a < b
    PROVE  a % b = a
  OBVIOUS

(* The size that is asked for has room for what is there and what comes.   *)
LEMMA WantedGrows ==
    ASSUME NEW s, IsQueue(s), NEW n \in Nat, n + MaxSize + Unit <= SizeMax + 1
    PROVE  /\ Wanted(s, n) = MPT_align(s.len + n)
           /\ Wanted(s, n) \in Nat
           /\ Wanted(s, n) >= s.len + n
  <1> DEFINE k == s.len + n
             m == (k - 1) % Unit
  <1>0. /\ s.max \in Nat /\ s.len \in Nat /\ s.len <= s.max /\ s.max <= MaxSize
        /\ MaxSize \in Nat /\ Unit \in Nat /\ Unit > 0 /\ SizeMax \in Nat
    BY QueueAssumption DEF IsQueue
  <1>1. k \in Nat /\ k < SizeMax + 1
    BY <1>0
  <1>2. n - (s.max - s.len) + s.max = k
    BY <1>0
  <1>3. Wanted(s, n) = MPT_align(k)
    BY <1>0, <1>1, <1>2, SmallSize DEF Wanted
  <1>4. m \in 0..(Unit - 1)
    BY <1>0
  <1>5. k + (Unit - 1) - m \in Nat /\ k + (Unit - 1) - m < SizeMax + 1
        /\ k + (Unit - 1) - m >= k
    <2> HIDE DEF m
    <2> QED
      BY <1>0, <1>4
  <1>6. (k + (Unit - 1) - m) % (SizeMax + 1) = k + (Unit - 1) - m
    <2> HIDE DEF m, k
    <2> QED
      BY <1>0, <1>5, SmallSize
  <1> QED
    BY <1>3, <1>5, <1>6 DEF MPT_align

(* Making room changes nothing that is queued, and makes enough.           *)
LEMMA PreparedContent ==
    ASSUME NEW s, IsQueue(s), NEW n \in Nat, n + MaxSize + Unit <= SizeMax + 1,
           NEW r \in Prepared(s, n)
    PROVE  /\ Content(r.queue) = Content(s)
           /\ r.queue.len = s.len
           /\ r.ok => n <= r.queue.max - r.queue.len /\ s.max <= r.queue.max
           /\ ~r.ok => r.queue.max = s.max
  <1> DEFINE left == s.max - s.len
             w    == Wanted(s, n)
  <1>0. /\ s.max \in Nat /\ s.len \in Nat /\ s.len <= s.max /\ s.max <= MaxSize
        /\ MaxSize \in Nat /\ Unit \in Nat /\ Unit > 0 /\ SizeMax \in Nat
    BY QueueAssumption DEF IsQueue
  <1>1. CASE n <= left
    <2>1. r = [queue |-> s, ok |-> TRUE]
      BY <1>1 DEF Prepared
    <2> QED
      BY <1>0, <1>1, <2>1
  <1>2. CASE ~(n <= left)
    <2>1. ~(SizeMax - left < n)
      BY <1>0
    <2>2. PICK got \in Answers(w) :
            r = [queue |-> mpt_queue_resize(s, w, got),
                 ok |-> /\ ~ResizeFails(s, w, got)
                        /\ mpt_queue_resize(s, w, got).len
                              < mpt_queue_resize(s, w, got).max]
      BY <1>2, <2>1 DEF Prepared
    <2> DEFINE t == mpt_queue_resize(s, w, got)
    <2>3. w \in Nat /\ w >= s.len + n /\ w > s.max /\ ~(w < s.len)
      <3>1. w \in Nat /\ w >= s.len + n
        BY WantedGrows
      <3> HIDE DEF w
      <3> QED
        BY <1>0, <1>2, <3>1
    <2> HIDE DEF w
    <2>4. /\ Content(t) = Content(s)
          /\ t.max = IF ResizeFails(s, w, got) THEN s.max ELSE w
      BY <2>3, ResizeContent
    <2>5. IsQueue(t)
      BY <2>3, ResizeIsQueue
    <2>6. t.len = s.len
      BY <2>4, <2>5, ContentIsSeq
    <2> HIDE DEF t
    <2>7. r.queue = t /\ r.ok = (~ResizeFails(s, w, got) /\ t.len < t.max)
      BY <2>2 DEF t
    <2>8. CASE ResizeFails(s, w, got)
      BY <2>4, <2>6, <2>7, <2>8
    <2>9. CASE ~ResizeFails(s, w, got)
      <3>1. t.max = w /\ t.len < t.max
        BY <1>0, <2>3, <2>4, <2>6, <2>9
      <3>2. r.ok
        BY <2>7, <2>9, <3>1
      <3>3. n <= t.max - t.len /\ s.max <= t.max
        BY <1>0, <2>3, <2>6, <3>1
      <3> QED
        BY <2>4, <2>6, <2>7, <3>2, <3>3
    <2> QED
      BY <2>8, <2>9
  <1> QED
    BY <1>1, <1>2

(* Data overwritten in place (mpt_queue_set). *)
LEMMA SetContent ==
    ASSUME NEW s, IsQueue(s), NEW pos \in Nat, NEW d \in Block, pos + Len(d) <= s.len
    PROVE  Content(Ring(Fill(Seek(s, pos), d), s.len, s.max, s.off))
             = [i \in 1..s.len |-> IF pos < i /\ i <= pos + Len(d)
                                   THEN d[i - pos] ELSE Content(s)[i]]
  <1> DEFINE t == Ring(Fill(Seek(s, pos), d), s.len, s.max, s.off)
  <1>0. /\ s.max \in Nat /\ s.len \in Nat /\ s.len <= s.max
        /\ Len(d) \in Nat /\ Len(d) > 0 /\ d \in Seq(Byte) /\ pos \in 0..(s.len - 1)
    BY BlockIsCells DEF IsQueue
  <1>1. t.mem = Fill(Seek(s, pos), d) /\ t.len = s.len /\ t.max = s.max /\ t.off = s.off
    BY DEF Ring
  <1> HIDE DEF t
  <1>2. ASSUME NEW i \in 1..s.len
        PROVE  t.mem[At(t, i - 1)] = IF pos < i /\ i <= pos + Len(d)
                                     THEN d[i - pos] ELSE Content(s)[i]
    <2>1. At(t, i - 1) = At(s, i - 1)
      BY <1>1 DEF At
    <2>2. i - 1 \in 0..(s.max - 1)
      BY <1>0
    <2>3. t.mem[At(s, i - 1)] = IF pos <= i - 1 /\ i - 1 < pos + Len(d)
                                THEN d[(i - 1) - pos + 1] ELSE s.mem[At(s, i - 1)]
      BY <1>0, <1>1, <2>2, WriteCells
    <2>4. (pos <= i - 1 <=> pos < i) /\ (i - 1 < pos + Len(d) <=> i <= pos + Len(d))
          /\ (i - 1) - pos + 1 = i - pos
      BY <1>0
    <2>5. Content(s)[i] = s.mem[At(s, i - 1)]
      BY ContentIsSeq
    <2> QED
      BY <2>1, <2>3, <2>4, <2>5
  <1>3. Content(t) = [i \in 1..s.len |-> t.mem[At(t, i - 1)]]
    BY <1>1 DEF Content
  <1> QED
    BY <1>2, <1>3 DEF t

(* Data read in place (mpt_queue_get). *)
LEMMA GetContent ==
    ASSUME NEW s, IsQueue(s), NEW pos \in Nat, NEW n \in Nat, pos + n <= s.len
    PROVE  Fetch(Seek(s, pos), n) = SubSeq(Content(s), pos + 1, pos + n)
  <1> DEFINE c == Content(s)
             t == Seek(s, pos)
  <1>0. s.len \in Nat /\ c \in Seq(Cell) /\ Len(c) = s.len /\ pos \in 0..s.len
    BY ContentIsSeq DEF IsQueue
  <1>1. IsQueue(t) /\ t.len = s.len - pos
    BY <1>0, SeekIsQueue, CropFrontIsQueue DEF Seek
  <1>2. Content(t) = SubSeq(c, pos + 1, s.len)
    <2>1. CASE pos = 0
      <3>1. t = s
        BY <2>1 DEF Seek
      <3>2. SubSeq(c, 1, Len(c)) = c
        BY AllContent
      <3> QED
        BY <1>0, <2>1, <3>1, <3>2
    <2>2. CASE pos # 0
      BY <1>0, <2>2, CropContent DEF Seek
    <2> QED
      BY <2>1, <2>2
  <1>3. Fetch(t, n) = SubSeq(SubSeq(c, pos + 1, s.len), 1, n)
    <2>1. n \in 0..t.len
      BY <1>0, <1>1
    <2> HIDE DEF t, c
    <2> QED
      BY <1>1, <1>2, <2>1, FetchContent
  <1> HIDE DEF t, c
  <1>4. SubSeq(SubSeq(c, pos + 1, s.len), 1, n) = SubSeq(c, pos + 1, pos + n)
    BY <1>0
  <1> QED
    BY <1>3, <1>4 DEF t, c

(* The terminator behind the data leaves the data alone (mpt_queue_string).*)
Terminated(t) == Ring([k \in DOMAIN t.mem |-> IF k = t.off + t.len THEN Zero ELSE t.mem[k]],
                      t.len, t.max, t.off)

(* A terminator behind the data is not part of the content. *)
LEMMA TerminatedContent ==
    ASSUME NEW t, IsQueue(t), t.off + t.len < t.max
    PROVE  /\ IsQueue(Terminated(t)) /\ Terminated(t).max = t.max
           /\ Terminated(t).off + Terminated(t).len < Terminated(t).max
           /\ Terminated(t).mem[Terminated(t).off + Terminated(t).len] = Zero
           /\ Content(Terminated(t)) = Content(t)
  <1> DEFINE r == Terminated(t)
  <1>0. /\ t.max \in Nat /\ t.len \in Nat /\ t.len <= t.max /\ t.off \in Nat
        /\ t.mem \in [0..(t.max - 1) -> Cell]
    BY DEF IsQueue
  <1>1. /\ r.len = t.len /\ r.max = t.max /\ r.off = t.off
        /\ r.mem = [k \in DOMAIN t.mem |-> IF k = t.off + t.len THEN Zero ELSE t.mem[k]]
    BY DEF Terminated, Ring
  <1> HIDE DEF r
  <1>2. r.mem \in [0..(r.max - 1) -> Cell]
    <2>1. Zero \in Cell
      BY QueueAssumption DEF Cell
    <2> QED
      BY <1>0, <1>1, <2>1
  <1>3. IsQueue(r)
    BY <1>1, <1>2 DEF IsQueue
  <1>4. ASSUME NEW k \in 0..(t.max - 1)
        PROVE  r.mem[k] = IF k = t.off + t.len THEN Zero ELSE t.mem[k]
    BY <1>0, <1>1
  <1>5. ASSUME NEW i \in 1..r.len PROVE r.mem[At(r, i - 1)] = Content(t)[i]
    <2>1. At(r, i - 1) = t.off + (i - 1) /\ At(t, i - 1) = t.off + (i - 1)
      BY <1>0, <1>1 DEF At
    <2>2. t.off + (i - 1) \in 0..(t.max - 1) /\ t.off + (i - 1) # t.off + t.len
      BY <1>0, <1>1
    <2>3. r.mem[t.off + (i - 1)] = t.mem[t.off + (i - 1)]
      BY <1>4, <2>2
    <2>4. Content(t)[i] = t.mem[At(t, i - 1)]
      BY <1>1, ContentIsSeq
    <2> QED
      BY <2>1, <2>3, <2>4
  <1>6. Content(r) = Content(t)
    <2> DEFINE c == Content(t)
    <2>1. c \in Seq(Cell) /\ Len(c) = r.len
      BY <1>1, ContentIsSeq
    <2>2. \A i \in 1..r.len : r.mem[At(r, i - 1)] = c[i]
      BY <1>5
    <2> HIDE DEF c
    <2>3. Content(r) = c
      BY ONLY <1>3, <2>1, <2>2, ShowsBytes
    <2> QED
      BY <2>3 DEF c
  <1>7. r.mem[r.off + r.len] = Zero
    <2>1. r.off + r.len \in 0..(t.max - 1) /\ r.off + r.len = t.off + t.len
      BY <1>0, <1>1
    <2> QED
      BY <1>4, <2>1
  <1> QED
    BY <1>1, <1>3, <1>6, <1>7 DEF r

(* mpt_queue_string, refused and done. *)
LEMMA StringContent ==
    ASSUME IsQueue(q), mpt_queue_string
    PROVE  \/ UNCHANGED q /\ call' = [op |-> "string", ok |-> FALSE, in |-> << >>, out |-> << >>]
           \/ /\ call' = [op |-> "string", ok |-> TRUE, in |-> << >>, out |-> << >>]
              /\ IsQueue(q') /\ q'.max = q.max
              /\ Content(q') = Content(q)
              /\ q'.off + q'.len < q'.max /\ q'.mem[q'.off + q'.len] = Zero
  <1>0. /\ q.max \in Nat /\ q.len \in Nat /\ q.len <= q.max /\ q.off \in Nat
    BY DEF IsQueue
  <1>1. CASE Refused("string", << >>)
    BY <1>1 DEF Refused, Called
  <1>2. CASE ~Refused("string", << >>)
    <2> DEFINE t == IF q.max - q.len <= q.off THEN mpt_queue_align(q) ELSE q
    <2>1. /\ q.max - q.len # 0 /\ q' = Terminated(t)
          /\ call' = [op |-> "string", ok |-> TRUE, in |-> << >>, out |-> << >>]
      BY <1>2 DEF mpt_queue_string, Called, Terminated
    <2>2. IsQueue(t) /\ t.len = q.len /\ t.max = q.max /\ Content(t) = Content(q)
      BY AlignIsQueue, AlignContent
    <2>3. t.off + t.len < t.max
      <3>1. CASE q.max - q.len <= q.off
        <4>1. t.off = 0
          BY <3>1, AlignIsQueue
        <4> HIDE DEF t
        <4> QED
          BY <1>0, <2>1, <2>2, <4>1
      <3>2. CASE ~(q.max - q.len <= q.off)
        BY <1>0, <3>2
      <3> QED
        BY <3>1, <3>2
    <2> HIDE DEF t
    <2>4. /\ IsQueue(Terminated(t)) /\ Terminated(t).max = t.max
          /\ Terminated(t).off + Terminated(t).len < Terminated(t).max
          /\ Terminated(t).mem[Terminated(t).off + Terminated(t).len] = Zero
          /\ Content(Terminated(t)) = Content(t)
      BY <2>2, <2>3, TerminatedContent
    <2> QED
      BY <2>1, <2>2, <2>4
  <1> QED
    BY <1>1, <1>2

-----------------------------------------------------------------------------
(* The search for an element *)

(* Whole elements of a length. *)
LEMMA Elements ==
    ASSUME NEW a \in Nat, NEW b \in Nat \ {0}
    PROVE  /\ a \div b \in Nat
           /\ (a \div b) * b <= a
           /\ a < (a \div b) * b + b
           /\ a % b = a - (a \div b) * b
  OBVIOUS

(* An element of a piece lies inside of it. *)
LEMMA ElementFits ==
    ASSUME NEW a \in Nat, NEW b \in Nat \ {0}, NEW i \in Nat
    PROVE  i < a \div b <=> i * b + b <= a
  <1> DEFINE m == a \div b
  <1>1. m \in Nat /\ m * b <= a /\ a < m * b + b
    BY Elements
  <1> HIDE DEF m
  <1>2. ASSUME i < m PROVE i * b + b <= a
    <2>1. PICK k \in Nat : m = i + 1 + k
      <3>1. m - i - 1 \in Nat /\ m = i + 1 + (m - i - 1)
        BY <1>1, <1>2
      <3> QED
        BY <3>1
    <2>2. m * b = i * b + b + k * b /\ k * b \in Nat /\ i * b \in Nat
      BY <2>1
    <2> QED
      BY <1>1, <2>2
  <1>3. ASSUME ~(i < m) PROVE ~(i * b + b <= a)
    <2>1. PICK k \in Nat : i = m + k
      <3>1. i - m \in Nat /\ i = m + (i - m)
        BY <1>1, <1>3
      <3> QED
        BY <3>1
    <2>2. i * b = m * b + k * b /\ k * b \in Nat /\ m * b \in Nat
      BY <1>1, <2>1
    <2> QED
      BY <1>1, <2>2
  <1> QED
    BY <1>2, <1>3 DEF m

(* The element a position lies at. *)
LEMMA ElementAt ==
    ASSUME NEW a \in Nat, NEW b \in Nat \ {0}, a % b = 0
    PROVE  \E m \in Nat : a = m * b
  <1>1. a \div b \in Nat /\ a % b = a - (a \div b) * b
    BY Elements
  <1>2. (a \div b) * b \in Nat
    BY <1>1
  <1>3. a = (a \div b) * b
    BY <1>1, <1>2
  <1> QED
    BY <1>1, <1>3

(* A number is a multiple of another when the remainder is zero. *)
LEMMA MultipleOf ==
    ASSUME NEW m \in Nat, NEW b \in Nat \ {0}
    PROVE  m * b \in Nat /\ (m * b) % b = 0
  <1> DEFINE a == m * b
  <1>1. a \in Nat
    OBVIOUS
  <1>2. a \div b \in Nat /\ a % b = a - (a \div b) * b /\ (a \div b) * b <= a
        /\ a < (a \div b) * b + b
    BY <1>1, Elements
  <1> DEFINE k == a \div b
  <1>3. k = m
    <2>1. k \in Nat /\ k * b <= m * b /\ m * b < k * b + b
      BY <1>2
    <2> HIDE DEF k
    <2>2. CASE k < m
      <3>1. PICK j \in Nat : m = k + 1 + j
        <4>1. m - k - 1 \in Nat /\ m = k + 1 + (m - k - 1)
          BY <2>1, <2>2
        <4> QED
          BY <4>1
      <3>2. m * b = k * b + b + j * b /\ j * b \in Nat /\ k * b \in Nat
        BY <2>1, <3>1
      <3> QED
        BY <2>1, <3>2
    <2>3. CASE m < k
      <3>1. PICK j \in Nat : k = m + 1 + j
        <4>1. k - m - 1 \in Nat /\ k = m + 1 + (k - m - 1)
          BY <2>1, <2>3
        <4> QED
          BY <4>1
      <3>2. k * b = m * b + b + j * b /\ j * b \in Nat /\ m * b \in Nat
        BY <2>1, <3>1
      <3> QED
        BY <2>1, <3>2
    <2> QED
      BY <2>1, <2>2, <2>3
  <1>4. a % b = a - k * b /\ k * b = a
    BY <1>2, <1>3
  <1> HIDE DEF k
  <1> QED
    BY <1>1, <1>4

(* Larger elements lie at larger positions. *)
LEMMA ElementOrder ==
    ASSUME NEW i \in Nat, NEW j \in Nat, NEW b \in Nat \ {0}
    PROVE  i * b \in Nat /\ j * b \in Nat /\ (i * b < j * b <=> i < j)
  <1>1. i * b \in Nat /\ j * b \in Nat
    OBVIOUS
  <1>2. ASSUME i < j PROVE i * b < j * b
    <2>1. PICK k \in Nat : j = i + 1 + k
      <3>1. j - i - 1 \in Nat /\ j = i + 1 + (j - i - 1)
        BY <1>2
      <3> QED
        BY <3>1
    <2>2. j * b = i * b + b + k * b /\ k * b \in Nat
      BY <2>1
    <2> QED
      BY <1>1, <2>2
  <1>3. ASSUME ~(i < j) PROVE ~(i * b < j * b)
    <2>1. PICK k \in Nat : i = j + k
      <3>1. i - j \in Nat /\ i = j + (i - j)
        BY <1>3
      <3> QED
        BY <3>1
    <2>2. i * b = j * b + k * b /\ k * b \in Nat
      BY <2>1
    <2> QED
      BY <1>1, <2>2
  <1> QED
    BY <1>1, <1>2, <1>3

(* The search in one piece of storage. *)
Matched(mem, from, count, esz, v, at) ==
    \/ /\ at = NotFound
       /\ \A i \in Nat : i < count => mem[from + i * esz] # v
    \/ \E i \in Nat :
          /\ i < count /\ at = from + i * esz /\ mem[at] = v
          /\ \A j \in Nat : j < i => mem[from + j * esz] # v

(* The search in one piece finds its first matching element. *)
LEMMA FirstMatchIs ==
    ASSUME NEW mem, NEW from \in Nat, NEW count \in Nat, NEW esz \in Nat \ {0}, NEW v
    PROVE  Matched(mem, from, count, esz, v, FirstMatch(mem, from, count, esz, v))
  <1> DEFINE hits == {i \in 0..(count - 1) : mem[from + i * esz] = v}
  <1>1. CASE hits = {}
    <2>1. FirstMatch(mem, from, count, esz, v) = NotFound
      BY <1>1 DEF FirstMatch
    <2>2. ASSUME NEW i \in Nat, i < count PROVE mem[from + i * esz] # v
      <3>1. i \in 0..(count - 1)
        BY <2>2
      <3> QED
        BY <1>1, <3>1
    <2> QED
      BY <2>1, <2>2 DEF Matched
  <1>2. CASE hits # {}
    <2> DEFINE i == CHOOSE i \in hits : \A j \in hits : i <= j
    <2>1. hits \in SUBSET Nat
      OBVIOUS
    <2> HIDE DEF hits
    <2>2. \E x \in hits : \A j \in hits : x <= j
      BY <1>2, <2>1, Lowest
    <2>3. i \in hits /\ \A j \in hits : i <= j
      BY <2>2
    <2>4. FirstMatch(mem, from, count, esz, v) = from + esz * i
      BY <1>2 DEF FirstMatch, hits
    <2> HIDE DEF i
    <2>5. i \in 0..(count - 1) /\ mem[from + i * esz] = v
      BY <2>3 DEF hits
    <2>6. i \in Nat /\ i < count /\ esz * i = i * esz
      BY <2>5
    <2>7. ASSUME NEW j \in Nat, j < i PROVE mem[from + j * esz] # v
      <3>1. j \notin hits
        BY <2>3, <2>6, <2>7
      <3>2. j \in 0..(count - 1)
        BY <2>6, <2>7
      <3> QED
        BY <3>1, <3>2 DEF hits
    <2>8. FirstMatch(mem, from, count, esz, v) = from + i * esz
      BY <2>4, <2>6
    <2> QED
      BY <2>5, <2>6, <2>7, <2>8 DEF Matched
  <1> QED
    BY <1>1, <1>2

(* Positions whole elements start at. *)
Starts(s, esz) == {i \in 0..(s.len - 1) : i % esz = 0 /\ i + esz <= s.len}

(* The byte at which an element starts. *)
LEMMA StartIsElement ==
    ASSUME NEW s, IsQueue(s), NEW esz \in Nat \ {0}, NEW p \in Starts(s, esz)
    PROVE  /\ p \in Nat /\ p < s.len /\ p + esz <= s.len
           /\ Content(s)[p + 1] = s.mem[At(s, p)]
           /\ \E m \in Nat : p = m * esz
  <1>0. s.len \in Nat
    BY DEF IsQueue
  <1>1. p \in 0..(s.len - 1) /\ p % esz = 0 /\ p + esz <= s.len
    BY DEF Starts
  <1>2. p \in Nat /\ p < s.len /\ p + 1 \in 1..s.len /\ (p + 1) - 1 = p
    BY <1>0, <1>1
  <1>3. Content(s)[p + 1] = s.mem[At(s, p)]
    BY <1>2, ContentIsSeq
  <1> QED
    BY <1>1, <1>2, <1>3, ElementAt

(* The i-th whole element starts at i times its size. *)
LEMMA ElementIsStart ==
    ASSUME NEW s, IsQueue(s), NEW esz \in Nat \ {0}, NEW m \in Nat, m * esz + esz <= s.len
    PROVE  m * esz \in Starts(s, esz)
  <1>1. m * esz \in Nat /\ (m * esz) % esz = 0
    BY MultipleOf
  <1>2. s.len \in Nat
    BY DEF IsQueue
  <1> DEFINE p == m * esz
  <1> HIDE DEF p
  <1>3. p \in 0..(s.len - 1)
    BY <1>1, <1>2 DEF p
  <1> QED
    BY <1>1, <1>3 DEF Starts, p

(* Where the position of a result is. *)
Position(s, at) == IF at < s.off THEN at + s.max - s.off ELSE at - s.off

FindsFirst(s, esz, v) ==
    LET at == mpt_queue_find(s, esz, v)
    IN  /\ at >= 0 => /\ Position(s, at) \in Starts(s, esz)
                      /\ Content(s)[Position(s, at) + 1] = v
                      /\ \A i \in Starts(s, esz) :
                            i < Position(s, at) => Content(s)[i + 1] # v
        /\ at = NotFound => \A i \in Starts(s, esz) : Content(s)[i + 1] # v

(* Data in one piece. *)
LEMMA FindInPiece ==
    ASSUME NEW s, IsQueue(s), NEW esz \in Nat \ {0}, NEW v,
           ~(s.len < esz), ~MPT_queue_frag(s)
    PROVE  FindsFirst(s, esz, v)
  <1> DEFINE at == mpt_queue_find(s, esz, v)
             n  == s.len \div esz
  <1>0. /\ s.max \in Nat /\ s.len \in Nat /\ s.len <= s.max /\ s.off \in Nat
        /\ s.off + s.len <= s.max
    BY DEF IsQueue, MPT_queue_frag
  <1>1. at = FirstMatch(s.mem, s.off, n, esz, v)
    BY DEF mpt_queue_find
  <1>2. n \in Nat
    BY <1>0, Elements
  <1>3. ASSUME NEW p \in Starts(s, esz)
        PROVE  \E m \in Nat : p = m * esz /\ m < n /\ Content(s)[p + 1] = s.mem[s.off + m * esz]
    <2>1. PICK m \in Nat : p = m * esz
      BY StartIsElement
    <2>2. p \in Nat /\ p < s.len /\ p + esz <= s.len /\ Content(s)[p + 1] = s.mem[At(s, p)]
      BY StartIsElement
    <2>3. m < n
      BY <1>0, <2>1, <2>2, ElementFits
    <2>4. At(s, p) = s.off + p
      BY <1>0, <2>2 DEF At
    <2> QED
      BY <2>1, <2>2, <2>3, <2>4
  <1> HIDE DEF at, n
  <1>4. CASE at = NotFound /\ \A i \in Nat : i < n => s.mem[s.off + i * esz] # v
    <2>1. \A p \in Starts(s, esz) : Content(s)[p + 1] # v
      BY <1>3, <1>4
    <2>2. ~(at >= 0)
      BY <1>4 DEF NotFound
    <2> QED
      BY <2>1, <2>2 DEF FindsFirst, at
  <1>5. CASE \E i \in Nat : /\ i < n /\ at = s.off + i * esz /\ s.mem[at] = v
                            /\ \A j \in Nat : j < i => s.mem[s.off + j * esz] # v
    <2>1. PICK i \in Nat : /\ i < n /\ at = s.off + i * esz /\ s.mem[at] = v
                           /\ \A j \in Nat : j < i => s.mem[s.off + j * esz] # v
      BY <1>5
    <2> DEFINE p == i * esz
    <2>2. p \in Nat /\ p + esz <= s.len
      BY <1>0, <2>1, ElementFits, ElementOrder DEF n
    <2>3. p \in Starts(s, esz)
      BY <2>2, ElementIsStart
    <2>4. Position(s, at) = p
      <3> HIDE DEF p
      <3>1. at = s.off + p
        BY <2>1 DEF p
      <3> QED
        BY <1>0, <2>2, <3>1 DEF Position
    <2>5. Content(s)[p + 1] = v
      <3>1. Content(s)[p + 1] = s.mem[At(s, p)] /\ p < s.len
        BY <2>3, StartIsElement
      <3> HIDE DEF p
      <3>2. At(s, p) = s.off + p
        BY <1>0, <2>2, <3>1 DEF At
      <3> QED
        BY <2>1, <3>1, <3>2 DEF p
    <2>6. ASSUME NEW k \in Starts(s, esz), k < p PROVE Content(s)[k + 1] # v
      <3>1. PICK m \in Nat : k = m * esz /\ m < n
                             /\ Content(s)[k + 1] = s.mem[s.off + m * esz]
        BY <1>3
      <3>2. m < i
        BY <2>6, <3>1, ElementOrder
      <3> QED
        BY <2>1, <3>1, <3>2
    <2>7. at # NotFound
      <3> HIDE DEF p
      <3>1. at = s.off + p
        BY <2>1 DEF p
      <3> QED
        BY <1>0, <2>2, <3>1 DEF NotFound
    <2> HIDE DEF p
    <2> QED
      BY <2>3, <2>4, <2>5, <2>6, <2>7 DEF FindsFirst, at
  <1>6. \/ /\ at = NotFound
           /\ \A i \in Nat : i < n => s.mem[s.off + i * esz] # v
        \/ \E i \in Nat :
              /\ i < n /\ at = s.off + i * esz /\ s.mem[at] = v
              /\ \A j \in Nat : j < i => s.mem[s.off + j * esz] # v
    <2>1. Matched(s.mem, s.off, n, esz, v, at)
      BY <1>0, <1>1, <1>2, FirstMatchIs
    <2> QED
      BY <2>1 DEF Matched
  <1> QED
    BY <1>4, <1>5, <1>6

(* Data in two pieces. *)
LEMMA FindInSplit ==
    ASSUME NEW s, IsQueue(s), NEW esz \in Nat \ {0}, NEW v,
           ~(s.len < esz), MPT_queue_frag(s)
    PROVE  FindsFirst(s, esz, v)
  <1> DEFINE at  == mpt_queue_find(s, esz, v)
             low == s.max - s.off
             hit == FirstMatch(s.mem, s.off, low \div esz, esz, v)
             n   == low \div esz
             m0  == (s.len - low) \div esz
             up  == FirstMatch(s.mem, 0, m0, esz, v)
  <1>0. /\ s.max \in Nat /\ s.len \in Nat /\ s.len <= s.max /\ s.off \in Nat /\ s.off <= s.max
        /\ s.max - s.len < s.off
    BY DEF IsQueue, MPT_queue_frag
  <1>1. at = IF hit # NotFound THEN hit ELSE IF low % esz # 0 THEN Unsupported ELSE up
    BY DEF mpt_queue_find
  <1>2. low \in Nat /\ s.len - low \in Nat /\ s.len - low <= s.off
    <2>1. s.max - s.off \in Nat
      BY <1>0
    <2>2. s.len - (s.max - s.off) \in Nat
      BY <1>0
    <2>3. s.len - (s.max - s.off) <= s.off
      BY <1>0
    <2> QED
      BY <2>1, <2>2, <2>3
  <1>3. n \in Nat /\ m0 \in Nat
    BY <1>2, Elements
  <1>4. Matched(s.mem, s.off, n, esz, v, hit)
    BY <1>0, <1>3, FirstMatchIs
  <1>5. Matched(s.mem, 0, m0, esz, v, up)
    BY <1>3, FirstMatchIs
  <1>6. ASSUME NEW p \in Starts(s, esz)
        PROVE  \E m \in Nat :
                 /\ p = m * esz /\ p \in Nat /\ p + esz <= s.len
                 /\ p < low => Content(s)[p + 1] = s.mem[s.off + m * esz]
                 /\ ~(p < low) => Content(s)[p + 1] = s.mem[p - low]
    <2>1. PICK m \in Nat : p = m * esz
      BY StartIsElement
    <2>2. p \in Nat /\ p < s.len /\ p + esz <= s.len /\ Content(s)[p + 1] = s.mem[At(s, p)]
      BY StartIsElement
    <2>3. p < low => At(s, p) = s.off + p
      BY <1>0, <2>2 DEF At
    <2>4. ~(p < low) => At(s, p) = p - low
      BY <1>0, <2>2 DEF At
    <2> QED
      BY <2>1, <2>2, <2>3, <2>4
  <1> HIDE DEF hit, up, n, m0
  <1>7. CASE hit # NotFound
    <2>1. PICK i \in Nat : /\ i < n /\ hit = s.off + i * esz /\ s.mem[hit] = v
                           /\ \A j \in Nat : j < i => s.mem[s.off + j * esz] # v
      BY <1>4, <1>7 DEF Matched
    <2>2. at = hit
      BY <1>1, <1>7
    <2> DEFINE p == i * esz
    <2>3. p \in Nat /\ p + esz <= low
      BY <1>2, <2>1, ElementFits, ElementOrder DEF n
    <2> HIDE DEF p, at, low
    <2>4. p < low /\ p + esz <= s.len
      BY <1>0, <1>2, <2>3 DEF low
    <2>5. p \in Starts(s, esz)
      BY <2>4, ElementIsStart DEF p
    <2>6. at = s.off + p
      BY <2>1, <2>2 DEF p
    <2>7. Position(s, at) = p
      BY <1>0, <2>3, <2>6 DEF Position
    <2>8. Content(s)[p + 1] = v
      <3>1. Content(s)[p + 1] = s.mem[At(s, p)] /\ p < s.len
        BY <2>5, StartIsElement
      <3>2. At(s, p) = s.off + p
        BY <1>0, <2>3, <2>4, <3>1 DEF At, low
      <3> QED
        BY <2>1, <2>2, <2>6, <3>1, <3>2
    <2>9. ASSUME NEW k \in Starts(s, esz), k < p PROVE Content(s)[k + 1] # v
      <3>1. PICK m \in Nat : /\ k = m * esz /\ k \in Nat
                             /\ k < low => Content(s)[k + 1] = s.mem[s.off + m * esz]
        BY <1>6 DEF low
      <3>2. m < i
        BY <2>9, <3>1, ElementOrder DEF p
      <3>3. k < low
        BY <1>2, <2>3, <2>4, <2>9, <3>1 DEF low
      <3> QED
        BY <2>1, <3>1, <3>2, <3>3
    <2>10. at # NotFound
      BY <1>0, <2>3, <2>6 DEF NotFound
    <2> QED
      BY <2>5, <2>7, <2>8, <2>9, <2>10 DEF FindsFirst, at
  <1>8. CASE hit = NotFound /\ low % esz # 0
    <2>1. at = Unsupported
      BY <1>1, <1>8
    <2>2. at # NotFound /\ ~(at >= 0)
      BY <2>1 DEF Unsupported, NotFound
    <2> QED
      BY <2>2 DEF FindsFirst, at
  <1>9. CASE hit = NotFound /\ low % esz = 0
    <2>1. at = up
      BY <1>1, <1>9
    <2>2. \A i \in Nat : i < n => s.mem[s.off + i * esz] # v
      <3>1. ASSUME NEW i \in Nat PROVE hit # s.off + i * esz
        <4>1. i * esz \in Nat
          OBVIOUS
        <4> DEFINE p == i * esz
        <4> HIDE DEF p
        <4>2. hit # s.off + p
          BY <1>0, <1>9, <4>1 DEF NotFound, p
        <4> QED
          BY <4>2 DEF p
      <3> QED
        BY <1>4, <3>1 DEF Matched
    <2>3. PICK l \in Nat : low = l * esz
      BY <1>2, <1>9, ElementAt
    <2> HIDE DEF at, low
    <2>4. low \in Nat /\ s.len - low \in Nat /\ s.len - low <= s.off /\ s.max = s.off + low
      BY <1>0, <1>2 DEF low
    <2>5. ASSUME NEW k \in Starts(s, esz), k < low PROVE Content(s)[k + 1] # v
      <3>1. PICK m \in Nat : /\ k = m * esz /\ k \in Nat
                             /\ k < low => Content(s)[k + 1] = s.mem[s.off + m * esz]
        BY <1>6 DEF low
      <3>2. m < l
        BY <2>3, <2>5, <3>1, ElementOrder
      <3>3. l = n
        <4>1. l < n + 1 /\ ~(l < n)
          <5>1. ~(l < n)
            <6>1. l < low \div esz <=> l * esz + esz <= low
              BY <2>4, ElementFits
            <6> QED
              BY <2>3, <2>4, <6>1 DEF n, low
          <5>2. l # 0 => l - 1 < n
            <6>1. ASSUME l # 0 PROVE l - 1 < n
              <7>1. l - 1 \in Nat /\ (l - 1) * esz + esz = l * esz
                BY <6>1
              <7>2. l - 1 < low \div esz <=> (l - 1) * esz + esz <= low
                BY <2>4, <7>1, ElementFits
              <7> QED
                BY <2>3, <2>4, <7>1, <7>2 DEF n, low
            <6> QED
              BY <6>1
          <5> QED
            BY <1>3, <5>1, <5>2
        <4> QED
          BY <1>3, <4>1
      <3> QED
        BY <2>2, <2>5, <3>1, <3>2, <3>3
    <2>6. ASSUME NEW k \in Starts(s, esz), ~(k < low)
          PROVE  \E j \in Nat : /\ j < m0 /\ k - low = j * esz
                                /\ Content(s)[k + 1] = s.mem[0 + j * esz]
      <3>1. PICK m \in Nat : /\ k = m * esz /\ k \in Nat /\ k + esz <= s.len
                             /\ ~(k < low) => Content(s)[k + 1] = s.mem[k - low]
        BY <1>6 DEF low
      <3>2. ~(m < l)
        BY <2>3, <2>6, <3>1, ElementOrder
      <3>3. PICK j \in Nat : m = l + j
        <4>1. m - l \in Nat /\ m = l + (m - l)
          BY <3>2
        <4> QED
          BY <4>1
      <3>4. m * esz = l * esz + j * esz /\ j * esz \in Nat /\ l * esz \in Nat
        BY <3>3
      <3> DEFINE p == j * esz
      <3>A. k = low + p /\ p \in Nat
        BY <2>3, <3>1, <3>4
      <3> HIDE DEF p
      <3>5. k - low = p /\ p + esz <= s.len - low /\ p \in Nat
        <4>1. s.len \in Nat /\ esz \in Nat /\ k + esz <= s.len
          BY <1>0, <3>1
        <4> QED
          BY <2>4, <3>A, <4>1
      <3>6. j < m0
        BY <2>4, <3>5, ElementFits DEF m0, p, low
      <3>7. 0 + j * esz = p
        BY <3>5 DEF p
      <3> QED
        BY <2>6, <3>1, <3>5, <3>6, <3>7 DEF p
    <2>7. CASE up = NotFound /\ \A i \in Nat : i < m0 => s.mem[0 + i * esz] # v
      <3>1. \A k \in Starts(s, esz) : Content(s)[k + 1] # v
        BY <2>5, <2>6, <2>7
      <3>2. ~(at >= 0)
        BY <2>1, <2>7 DEF NotFound
      <3> QED
        BY <3>1, <3>2 DEF FindsFirst, at
    <2>8. CASE \E i \in Nat : /\ i < m0 /\ up = 0 + i * esz /\ s.mem[up] = v
                              /\ \A j \in Nat : j < i => s.mem[0 + j * esz] # v
      <3>1. PICK i \in Nat : /\ i < m0 /\ up = 0 + i * esz /\ s.mem[up] = v
                             /\ \A j \in Nat : j < i => s.mem[0 + j * esz] # v
        BY <2>8
      <3> DEFINE p == low + i * esz
      <3>2. i * esz \in Nat /\ i * esz + esz <= s.len - low
        BY <2>4, <3>1, ElementFits, ElementOrder DEF m0, low
      <3>3. up = i * esz
        BY <3>1, <3>2
      <3>4. p = (l + i) * esz /\ l + i \in Nat
        BY <2>3
      <3> HIDE DEF p
      <3>5. p = low + up /\ up \in Nat /\ up + esz <= s.len - low
        BY <3>2, <3>3 DEF p
      <3>6. p + esz <= s.len /\ p < s.len /\ p \in Nat /\ ~(p < low)
        BY <1>0, <2>4, <3>5
      <3>7. p \in Starts(s, esz)
        BY <3>4, <3>6, ElementIsStart
      <3>8. Position(s, at) = p
        BY <1>0, <2>1, <2>4, <3>5 DEF Position
      <3>9. Content(s)[p + 1] = v
        <4>1. Content(s)[p + 1] = s.mem[At(s, p)]
          BY <3>7, StartIsElement
        <4>2. At(s, p) = up
          BY <1>0, <2>4, <3>5, <3>6 DEF At
        <4> QED
          BY <3>1, <4>1, <4>2
      <3>10. ASSUME NEW k \in Starts(s, esz), k < p PROVE Content(s)[k + 1] # v
        <4>1. CASE k < low
          BY <2>5, <4>1
        <4>2. CASE ~(k < low)
          <5>1. PICK j \in Nat : /\ j < m0 /\ k - low = j * esz
                                 /\ Content(s)[k + 1] = s.mem[0 + j * esz]
            BY <2>6, <4>2
          <5>2. k \in Nat
            BY StartIsElement
          <5>3. k - low < i * esz
            BY <2>4, <3>2, <3>3, <3>5, <3>10, <5>2
          <5>4. j < i
            BY <5>1, <5>3, ElementOrder
          <5> QED
            BY <3>1, <5>1, <5>4
        <4> QED
          BY <4>1, <4>2
      <3>11. at # NotFound
        BY <2>1, <3>5 DEF NotFound
      <3> QED
        BY <3>7, <3>8, <3>9, <3>10, <3>11 DEF FindsFirst, at
    <2> QED
      BY <1>5, <2>7, <2>8 DEF Matched
  <1> QED
    BY <1>7, <1>8, <1>9

(* Every layout of the data. *)
LEMMA FindsFirstAlways ==
    ASSUME NEW s, IsQueue(s), NEW esz \in Nat \ {0}, NEW v
    PROVE  FindsFirst(s, esz, v)
  <1>1. CASE s.len < esz
    <2>1. mpt_queue_find(s, esz, v) = NotFound
      BY <1>1 DEF mpt_queue_find
    <2>2. ASSUME NEW p \in Starts(s, esz) PROVE FALSE
      <3>1. p \in Nat /\ p + esz <= s.len
        BY StartIsElement
      <3>2. s.len \in Nat
        BY DEF IsQueue
      <3> QED
        BY <1>1, <3>1, <3>2
    <2>3. ~(NotFound >= 0)
      BY DEF NotFound
    <2> QED
      BY <2>1, <2>2, <2>3 DEF FindsFirst
  <1> QED
    BY <1>1, FindInPiece, FindInSplit

-----------------------------------------------------------------------------
(* The ring as a Deque *)

(* Sizes that are asked for leave room below the largest size_t for what   *)
(* is there and for rounding.                                              *)
SizesFit == \A n \in Requests \cup 1..MaxBlock : n + MaxSize + Unit <= SizeMax + 1

(* A call that is refused changes nothing a user of the Deque sees. *)
LEMMA DequeRefuse ==
    ASSUME ~wrapped, ~wrapped', IsQueue(q), NEW op, NEW in,
           call' = [op |-> op, ok |-> FALSE, in |-> in, out |-> << >>],
           Content(q') = Content(q), q'.max = q.max
    PROVE  D!Next
  <1>1. /\ Len(Content(q)) \in 0..Len(Content(q))
        /\ D!Newest(Content(q), Len(Content(q))) = Content(q)
    <2>1. Len(Content(q)) = q.len /\ q.len \in Nat
      BY AllContent DEF IsQueue
    <2>2. Len(Content(q)) - Len(Content(q)) + 1 = 1
      BY <2>1
    <2>3. SubSeq(Content(q), 1, Len(Content(q))) = Content(q)
      BY AllContent
    <2> QED
      BY <2>1, <2>2, <2>3 DEF D!Newest
  <1>2. D!Refuse(Len(Content(q)))
    BY <1>1 DEF D!Refuse
  <1> QED
    BY <1>1, <1>2 DEF D!Next

(* A block behind the content is an append of the Deque. *)
LEMMA DequeAppend ==
    ASSUME ~wrapped, ~wrapped', IsQueue(q), NEW d \in Block, Len(d) <= q.max - q.len,
           call' = [op |-> "append", ok |-> TRUE, in |-> d, out |-> << >>],
           Content(q') = Content(q) \o d, q'.max = q.max
    PROVE  D!Next
  <1>1. Len(Content(q) \o d) <= q.max
    <2>1. Content(q) \in Seq(Cell) /\ d \in Seq(Cell) /\ Len(Content(q)) = q.len
      BY ContentIsSeq, BlockIsCells
    <2>2. Len(Content(q) \o d) = q.len + Len(d)
      BY ONLY <2>1, JoinedAt, SMTT(60)
    <2>3. q.len \in Nat /\ q.max \in Nat /\ Len(d) \in Nat
      BY BlockIsCells DEF IsQueue
    <2> QED
      BY <2>2, <2>3
  <1>2. D!AddBack
    BY <1>1 DEF D!AddBack
  <1> QED
    BY <1>2 DEF D!Next

(* A block in front of the content is a prepend of the Deque. *)
LEMMA DequePrepend ==
    ASSUME ~wrapped, ~wrapped', IsQueue(q), NEW d \in Block, Len(d) <= q.max - q.len,
           call' = [op |-> "prepend", ok |-> TRUE, in |-> d, out |-> << >>],
           Content(q') = d \o Content(q), q'.max = q.max
    PROVE  D!Next
  <1>1. Len(d \o Content(q)) <= q.max
    <2>1. Content(q) \in Seq(Cell) /\ d \in Seq(Cell) /\ Len(Content(q)) = q.len
      BY ContentIsSeq, BlockIsCells
    <2>2. Len(d \o Content(q)) = Len(d) + q.len
      BY ONLY <2>1, JoinedAt, SMTT(60)
    <2>3. q.len \in Nat /\ q.max \in Nat /\ Len(d) \in Nat
      BY BlockIsCells DEF IsQueue
    <2> QED
      BY <2>2, <2>3
  <1>2. D!AddFront
    BY <1>1 DEF D!AddFront
  <1> QED
    BY <1>2 DEF D!Next

(* The n oldest bytes leave; the caller may get them. *)
LEMMA DequeRemove ==
    ASSUME ~wrapped, ~wrapped', IsQueue(q), NEW n \in Nat, n <= q.len, NEW out,
           out = << >> \/ out = Fetch(q, n),
           call' = [op |-> "remove", ok |-> TRUE, in |-> << >>, out |-> out],
           q' = CropFront(q, n)
    PROVE  D!Next
  <1>1. n \in 0..q.len /\ Len(Content(q)) = q.len
    BY ContentIsSeq DEF IsQueue
  <1>2. /\ Content(q') = SubSeq(Content(q), n + 1, Len(Content(q)))
        /\ q'.max = q.max
    BY <1>1, CropContent, CropFrontIsQueue
  <1>3. out \in {<< >>, SubSeq(Content(q), 1, n)}
    BY <1>1, FetchContent
  <1>4. D!Remove(n)
    BY <1>2, <1>3 DEF D!Remove
  <1> QED
    BY <1>1, <1>4 DEF D!Next

(* Bytes written in place are an overwrite of the Deque. *)
LEMMA DequeWrite ==
    ASSUME ~wrapped, ~wrapped', IsQueue(q), NEW pos \in Nat, NEW d \in Block,
           pos + Len(d) <= q.len,
           call' = [op |-> "write", ok |-> TRUE, in |-> d, out |-> << >>],
           q' = Ring(Fill(Seek(q, pos), d), q.len, q.max, q.off)
    PROVE  D!Next
  <1>1. Len(Content(q)) = q.len /\ q.len \in Nat /\ Len(d) \in Nat
    BY ContentIsSeq, BlockIsCells DEF IsQueue
  <1>2. pos \in 0..Len(Content(q))
    BY <1>1
  <1>3. Content(q') = [i \in 1..Len(Content(q)) |->
                         IF pos < i /\ i <= pos + Len(d) THEN d[i - pos] ELSE Content(q)[i]]
    BY <1>1, SetContent
  <1>4. q'.max = q.max
    BY DEF Ring
  <1>5. D!Overwrite(pos)
    <2> DEFINE c == Content(q)
               e == Content(q')
    <2>1. e = [i \in 1..Len(c) |-> IF pos < i /\ i <= pos + Len(d) THEN d[i - pos] ELSE c[i]]
      BY <1>3
    <2>2. pos + Len(d) <= Len(c)
      BY <1>1
    <2> QED
      BY <1>4, <2>1, <2>2 DEF D!Overwrite
  <1> QED
    BY <1>2, <1>5 DEF D!Next

(* Bytes read in place are those the Deque delivers. *)
LEMMA DequeRead ==
    ASSUME ~wrapped, ~wrapped', IsQueue(q), NEW pos \in Nat, NEW n \in Nat,
           pos + n <= q.len, q' = q,
           call' = [op |-> "read", ok |-> TRUE, in |-> << >>, out |-> Fetch(Seek(q, pos), n)]
    PROVE  D!Next
  <1>1. Len(Content(q)) = q.len /\ q.len \in Nat
    BY ContentIsSeq DEF IsQueue
  <1>2. pos \in 0..Len(Content(q)) /\ n \in 0..Len(Content(q)) /\ pos + n <= Len(Content(q))
    BY <1>1
  <1>3. Fetch(Seek(q, pos), n) = SubSeq(Content(q), pos + 1, pos + n)
    BY GetContent
  <1>4. D!Read(pos, n)
    BY <1>2, <1>3 DEF D!Read
  <1> QED
    BY <1>2, <1>4 DEF D!Next

(* Storage of another size, or the data moved inside of it. *)
LEMMA DequeRecap ==
    ASSUME ~wrapped, ~wrapped', NEW op \in {"resize", "prepare", "align", "string"},
           call' = [op |-> op, ok |-> TRUE, in |-> << >>, out |-> << >>],
           Content(q') = IF q'.max < Len(Content(q)) THEN D!Newest(Content(q), q'.max)
                                                     ELSE Content(q)
    PROVE  D!Next
  <1>1. D!Recap
    BY DEF D!Recap
  <1> QED
    BY <1>1 DEF D!Next

(* Every C call is a step of the Deque. *)
LEMMA DequeNext ==
    ASSUME ~FullPrepended, SizesFit, IsQueue(q), ~wrapped, ~wrapped', Next
    PROVE  D!Next
  <1>0. /\ q.max \in Nat /\ q.len \in Nat /\ q.len <= q.max /\ q.off \in Nat
        /\ Len(Content(q)) = q.len
    BY ContentIsSeq DEF IsQueue
  <1>R. ASSUME NEW op, NEW in, Refused(op, in) PROVE D!Next
    BY <1>R, DequeRefuse DEF Refused, Called
  <1>1. ASSUME NEW d \in Block, mpt_qpush(d) PROVE D!Next
    <2>1. CASE Len(d) <= q.max - q.len
      <3>1. /\ Content(Pushed(q, d).queue) = Content(q) \o d
            /\ Pushed(q, d).queue.max = q.max
            /\ Pushed(q, d).ok = TRUE
        BY <2>1, PushedContent
      <3>2. /\ q' = Pushed(q, d).queue
            /\ call' = [op |-> "append", ok |-> TRUE, in |-> d, out |-> << >>]
        BY <1>1, <3>1 DEF mpt_qpush, Called
      <3> QED
        BY <2>1, <3>1, <3>2, DequeAppend
    <2>2. CASE ~(Len(d) <= q.max - q.len)
      <3>1. Pushed(q, d).queue = q /\ Pushed(q, d).ok = FALSE
        BY <2>2 DEF Pushed
      <3>2. q' = q /\ Called("append", FALSE, d, << >>)
        BY <1>1, <3>1 DEF mpt_qpush
      <3>3. Refused("append", d)
        BY <3>2 DEF Refused
      <3> QED
        BY <3>3, <1>R
    <2> QED
      BY <2>1, <2>2
  <1>2. ASSUME NEW d \in Block, mpt_qunshift(d) PROVE D!Next
    <2>1. PICK r \in Unshifted(q, d) : q' = r.queue /\ Called("prepend", r.ok, d, << >>)
      BY <1>2 DEF mpt_qunshift
    <2>2. CASE r.ok = FALSE /\ r.queue = q
      <3>1. Refused("prepend", d)
        BY <2>1, <2>2 DEF Refused
      <3> QED
        BY <3>1, <1>R
    <2>3. CASE /\ r.ok = TRUE /\ Len(d) <= q.max - q.len /\ r.queue.max = q.max
               /\ Content(r.queue) = d \o Content(q)
      BY <2>1, <2>3, DequePrepend DEF Called
    <2> QED
      BY <2>1, <2>2, <2>3, UnshiftedContent DEF FullPrepended, Called
  <1>3. ASSUME NEW d \in Block, mpt_queue_load(d) PROVE D!Next
    <2>1. CASE Refused("append", << >>)
      BY <2>1, <1>R
    <2>2. CASE ~Refused("append", << >>)
      <3>1. Len(d) <= q.max - q.len /\ q' = Loaded(q, d) /\ Called("append", TRUE, d, << >>)
        BY <1>3, <2>2 DEF mpt_queue_load
      <3>2. Loaded(q, d).max = q.max /\ Content(Loaded(q, d)) = Content(q) \o d
        BY <3>1, LoadedContent
      <3> QED
        BY <3>1, <3>2, DequeAppend DEF Called
    <2> QED
      BY <2>1, <2>2
  <1>4. ASSUME NEW n \in 1..MaxSize, NEW copy \in BOOLEAN, mpt_qshift(n, copy) PROVE D!Next
    <2>1. CASE Refused("remove", << >>)
      BY <2>1, <1>R
    <2>2. CASE ~Refused("remove", << >>)
      <3>1. /\ n <= mpt_queue_data(q) \/ (copy /\ n <= q.len)
            /\ q' = CropFront(q, n)
            /\ Called("remove", TRUE, << >>, IF copy THEN Fetch(q, n) ELSE << >>)
        BY <1>4, <2>2 DEF mpt_qshift
      <3>2. n \in Nat /\ n <= q.len
        BY <1>0, <3>1 DEF mpt_queue_data, LowPart, IsQueue
      <3> DEFINE out == IF copy THEN Fetch(q, n) ELSE << >>
      <3>3. out = << >> \/ out = Fetch(q, n)
        OBVIOUS
      <3>4. call' = [op |-> "remove", ok |-> TRUE, in |-> << >>, out |-> out]
        BY <3>1 DEF Called
      <3> HIDE DEF out
      <3> QED
        BY <3>1, <3>2, <3>3, <3>4, DequeRemove
    <2> QED
      BY <2>1, <2>2
  <1>5. ASSUME NEW n \in 1..MaxSize, mpt_queue_crop(n) PROVE D!Next
    <2>1. CASE Refused("remove", << >>)
      BY <2>1, <1>R
    <2>2. CASE ~Refused("remove", << >>)
      <3>1. n <= q.len /\ q' = CropFront(q, n) /\ Called("remove", TRUE, << >>, << >>)
        BY <1>5, <2>2 DEF mpt_queue_crop
      <3>2. n \in Nat
        OBVIOUS
      <3> QED
        BY <3>1, <3>2, DequeRemove DEF Called
    <2> QED
      BY <2>1, <2>2
  <1>6. ASSUME NEW n \in 1..MaxSize, mpt_queue_save(n) PROVE D!Next
    <2>1. n <= q.len /\ q' = CropFront(q, n) /\ Called("remove", TRUE, << >>, Fetch(q, n))
      BY <1>6 DEF mpt_queue_save
    <2>2. n \in Nat
      OBVIOUS
    <2> QED
      BY <2>1, <2>2, DequeRemove DEF Called
  <1>7. ASSUME NEW n \in 0..(MaxSize + 1), Resize(n) PROVE D!Next
    <2>1. PICK got \in Answers(n) :
            /\ q' = mpt_queue_resize(q, n, got)
            /\ Called("resize", ~ResizeFails(q, n, got), << >>, << >>)
      BY <1>7 DEF Resize
    <2>2. n \in Nat
      OBVIOUS
    <2>3. /\ Content(q') = IF n < q.len THEN D!Newest(Content(q), n) ELSE Content(q)
          /\ q'.max = IF ResizeFails(q, n, got) THEN q.max ELSE n
      BY <2>1, <2>2, ResizeContent
    <2>4. CASE ~ResizeFails(q, n, got)
      <3>1. q'.max = n
        BY <2>3, <2>4
      <3>2. call' = [op |-> "resize", ok |-> TRUE, in |-> << >>, out |-> << >>]
        BY <2>1, <2>4 DEF Called
      <3> QED
        BY <1>0, <2>3, <3>1, <3>2, DequeRecap
    <2>5. CASE ResizeFails(q, n, got)
      <3>1. q'.max = q.max
        BY <2>3, <2>5
      <3>2. call' = [op |-> "resize", ok |-> FALSE, in |-> << >>, out |-> << >>]
        BY <2>1, <2>5 DEF Called
      <3>3. CASE n < q.len
        <4>1. n \in 0..Len(Content(q))
          BY <1>0, <2>2, <3>3
        <4>2. D!Refuse(n)
          BY <2>3, <3>1, <3>2, <3>3 DEF D!Refuse
        <4> QED
          BY <4>1, <4>2 DEF D!Next
      <3>4. CASE ~(n < q.len)
        BY <2>3, <3>1, <3>2, <3>4, DequeRefuse
      <3> QED
        BY <3>3, <3>4
    <2> QED
      BY <2>4, <2>5
  <1>8. ASSUME NEW n \in Requests, mpt_queue_prepare(n) PROVE D!Next
    <2>1. PICK r \in Prepared(q, n) : q' = r.queue /\ Called("prepare", r.ok, << >>, << >>)
      BY <1>8 DEF mpt_queue_prepare
    <2>2. n \in Nat /\ n + MaxSize + Unit <= SizeMax + 1
      BY QueueAssumption DEF SizesFit
    <2>3. /\ Content(r.queue) = Content(q)
          /\ r.ok => q.max <= r.queue.max
          /\ ~r.ok => r.queue.max = q.max
      BY <2>2, PreparedContent
    <2>4. IsQueue(r.queue) /\ r.ok \in BOOLEAN
      BY <2>2, PreparedIsQueue
    <2>5. CASE r.ok
      <3>1. ~(q'.max < Len(Content(q)))
        <4>1. r.queue.max \in Nat
          BY <2>4 DEF IsQueue
        <4> QED
          BY <1>0, <2>1, <2>3, <2>5, <4>1
      <3>2. call' = [op |-> "prepare", ok |-> TRUE, in |-> << >>, out |-> << >>]
        BY <2>1, <2>4, <2>5 DEF Called
      <3> QED
        BY <2>1, <2>3, <3>1, <3>2, DequeRecap
    <2>6. CASE ~r.ok
      <3>1. call' = [op |-> "prepare", ok |-> FALSE, in |-> << >>, out |-> << >>]
        BY <2>1, <2>4, <2>6 DEF Called
      <3> QED
        BY <2>1, <2>3, <2>6, <3>1, DequeRefuse
    <2> QED
      BY <2>5, <2>6
  <1>9. ASSUME NEW pos \in 0..MaxSize, NEW d \in Block, mpt_queue_set(pos, d) PROVE D!Next
    <2>1. CASE Refused("write", d)
      BY <2>1, <1>R
    <2>2. CASE ~Refused("write", d)
      <3>1. /\ pos + Len(d) <= q.len
            /\ q' = Ring(Fill(Seek(q, pos), d), q.len, q.max, q.off)
            /\ Called("write", TRUE, d, << >>)
        BY <1>9, <2>2 DEF mpt_queue_set
      <3>2. pos \in Nat
        OBVIOUS
      <3> QED
        BY <3>1, <3>2, DequeWrite DEF Called
    <2> QED
      BY <2>1, <2>2
  <1>10. ASSUME NEW pos \in 0..MaxSize, NEW n \in 1..MaxSize, mpt_queue_get(pos, n) PROVE D!Next
    <2>1. CASE Refused("read", << >>)
      BY <2>1, <1>R
    <2>2. CASE ~Refused("read", << >>)
      <3>1. /\ pos + n <= q.len /\ q' = q
            /\ Called("read", TRUE, << >>, Fetch(Seek(q, pos), n))
        BY <1>10, <2>2 DEF mpt_queue_get
      <3>2. pos \in Nat /\ n \in Nat
        OBVIOUS
      <3> QED
        BY <3>1, <3>2, DequeRead DEF Called
    <2> QED
      BY <2>1, <2>2
  <1>11. CASE Align
    <2>1. /\ q' = mpt_queue_align(q)
          /\ call' = [op |-> "align", ok |-> TRUE, in |-> << >>, out |-> << >>]
      BY <1>11 DEF Align, Called
    <2>2. Content(q') = Content(q) /\ q'.max = q.max
      BY <2>1, AlignContent, AlignIsQueue
    <2> QED
      BY <1>0, <2>1, <2>2, DequeRecap
  <1>12. CASE mpt_queue_string
    <2>1. CASE UNCHANGED q
               /\ call' = [op |-> "string", ok |-> FALSE, in |-> << >>, out |-> << >>]
      BY <2>1, DequeRefuse
    <2>2. CASE /\ call' = [op |-> "string", ok |-> TRUE, in |-> << >>, out |-> << >>]
               /\ Content(q') = Content(q) /\ q'.max = q.max
      BY <1>0, <2>2, DequeRecap
    <2> QED
      BY <1>12, <2>1, <2>2, StringContent
  <1> QED
    BY <1>1, <1>2, <1>3, <1>4, <1>5, <1>6, <1>7, <1>8, <1>9, <1>10, <1>11, <1>12 DEF Next

(* What an empty queue shows. *)
LEMMA DequeInit ==
    ASSUME Init, wrapped \in BOOLEAN
    PROVE  D!Init
  <1>1. q = Released /\ q.max = 0 /\ q.len = 0
        /\ call = [op |-> "none", ok |-> TRUE, in |-> << >>, out |-> << >>]
    BY DEF Init, Released, Ring
  <1>2. IsQueue(q)
    BY <1>1, QueueAssumption DEF IsQueue, Released, Ring
  <1>3. Content(q) \in Seq(Cell) /\ Len(Content(q)) = 0
    BY <1>1, <1>2, ContentIsSeq
  <1>4. Content(q) = << >>
    BY <1>3
  <1> QED
    BY <1>1, <1>4 DEF D!Init

(* The wrapper pops, discards and peeks inside the storage as well. *)
LEMMA DeviceTyped ==
    ASSUME ~FullPrepended, TypeOK, DeviceNext
    PROVE  TypeOK' \/ Next
  <1>0. /\ IsQueue(q) /\ q.len \in Nat /\ q.max \in Nat /\ q.len <= q.max
        /\ q.off \in Nat /\ q.off <= q.max
    BY DEF TypeOK, IsQueue
  <1>1. ASSUME NEW d \in Block, Push(d) PROVE TypeOK'
    <2>1. PICK r \in Prepared(q, Len(d)) :
            /\ q' = Pushed(r.queue, d).queue
            /\ Called("append", Pushed(r.queue, d).ok, d, << >>)
      BY <1>1 DEF Push
    <2>2. IsQueue(r.queue)
      BY <1>0, BlockIsSeq, PreparedIsQueue
    <2>3. IsQueue(Pushed(r.queue, d).queue) /\ Pushed(r.queue, d).ok \in BOOLEAN
      BY <2>2, PushedIsQueue
    <2> QED
      BY <2>1, <2>3, CalledOK DEF TypeOK, IsQueue
  <1>2. ASSUME NEW d \in Block, Unshift(d) PROVE TypeOK'
    <2>1. PICK r \in Prepared(q, Len(d)) : \E u \in Unshifted(r.queue, d) :
            q' = u.queue /\ Called("prepend", u.ok, d, << >>)
      BY <1>2 DEF Unshift
    <2>2. PICK u \in Unshifted(r.queue, d) : q' = u.queue /\ Called("prepend", u.ok, d, << >>)
      BY <2>1
    <2>3. IsQueue(r.queue)
      BY <1>0, BlockIsSeq, PreparedIsQueue
    <2>4. IsQueue(u.queue) /\ u.ok \in BOOLEAN
      BY <2>2, <2>3, UnshiftedIsQueue DEF FullPrepended, Called
    <2> QED
      BY <2>2, <2>4, CalledOK DEF TypeOK, IsQueue
  <1>3. ASSUME NEW n \in 1..MaxSize, NEW copy \in BOOLEAN, Shift(n, copy) PROVE Next
    BY <1>3 DEF Shift, Next
  <1>R. ASSUME NEW op, NEW in, Refused(op, in) PROVE TypeOK'
    BY <1>R, <1>0, CalledOK DEF Refused, TypeOK, IsQueue
  <1>4. ASSUME NEW n \in 1..MaxSize, Pop(n) PROVE TypeOK'
    <2> DEFINE p == mpt_qpop(q, n)
    <2>1. CASE Refused("pop", << >>)
      BY <2>1, <1>R
    <2>2. CASE /\ p.ok /\ q' = Ring(q.mem, q.len - p.taken, q.max, q.off)
               /\ Called("pop", TRUE, << >>, p.out)
      <3> DEFINE low == mpt_queue_data(q)
      <3>1. low = IF q.max - q.off < q.len THEN q.max - q.off ELSE q.len
        BY DEF mpt_queue_data, LowPart
      <3>2. low \in Nat /\ low <= q.len /\ n \in Nat
        BY <1>0, <3>1
      <3>3. p.taken \in Nat /\ p.taken <= q.len
        <4>1. CASE q.len - low = 0
          <5>1. p.taken = n /\ (p.ok <=> n <= low)
            BY <4>1 DEF mpt_qpop
          <5> HIDE DEF p, low
          <5> QED
            BY <1>0, <2>2, <3>2, <5>1
        <4>2. CASE q.len - low # 0 /\ n > q.len - low
          <5>1. p.taken = n - (q.len - low) /\ (p.ok <=> n - (q.len - low) <= low)
            BY <4>2 DEF mpt_qpop
          <5> HIDE DEF p, low
          <5> QED
            BY <1>0, <2>2, <3>2, <4>2, <5>1
        <4>3. CASE q.len - low # 0 /\ ~(n > q.len - low)
          <5>1. p.taken = n
            BY <4>3 DEF mpt_qpop
          <5> HIDE DEF p, low
          <5> QED
            BY <1>0, <3>2, <4>3, <5>1
        <4> QED
          BY <4>1, <4>2, <4>3
      <3> HIDE DEF p, low
      <3>4. q'.mem = q.mem /\ q'.len = q.len - p.taken /\ q'.max = q.max /\ q'.off = q.off
        BY <2>2 DEF Ring
      <3>5. q.len - p.taken \in 0..q.max
        BY <1>0, <3>3
      <3> QED
        BY <1>0, <2>2, <3>4, <3>5, CalledOK DEF TypeOK, IsQueue
    <2> QED
      BY <1>4, <2>1, <2>2 DEF Pop
  <1>5. ASSUME NEW n \in 1..MaxSize, Discard(n) PROVE TypeOK'
    <2>1. CASE Refused("discard", << >>)
      BY <2>1, <1>R
    <2>2. CASE ~Refused("discard", << >>)
      <3> DEFINE pos == q.len - n
                 low == mpt_queue_data(q)
                 mem == IF pos # 0 /\ pos < low /\ low < q.len
                        THEN [k \in DOMAIN q.mem |-> Junk] ELSE q.mem
      <3>1. /\ n <= q.len
            /\ q' = IF pos = 0 THEN CropFront(q, n) ELSE Ring(mem, pos, q.max, q.off)
            /\ Called("discard", TRUE, << >>, << >>)
        BY <1>5, <2>2 DEF Discard
      <3>2. IsQueue(q')
        <4>1. CASE pos = 0
          <5>1. n \in 0..q.len
            BY <1>0, <3>1
          <5> QED
            BY <1>0, <3>1, <4>1, <5>1, CropFrontIsQueue
        <4>2. CASE pos # 0
          <5>1. q.mem \in [0..(q.max - 1) -> Cell]
            BY <1>0 DEF IsQueue
          <5>2. mem \in [0..(q.max - 1) -> Cell]
            BY <5>1 DEF Cell
          <5> HIDE DEF mem
          <5>3. q'.mem = mem /\ q'.len = pos /\ q'.max = q.max /\ q'.off = q.off
            BY <3>1, <4>2 DEF Ring
          <5>4. pos \in 0..q.max
            BY <1>0, <3>1
          <5> QED
            BY <1>0, <5>2, <5>3, <5>4 DEF IsQueue
        <4> QED
          BY <4>1, <4>2
      <3> QED
        BY <3>1, <3>2, CalledOK DEF TypeOK, IsQueue
    <2> QED
      BY <2>1, <2>2
  <1>6. ASSUME NEW n \in 0..MaxSize, Peek(n) PROVE TypeOK'
    <2>1. q' = q \/ q' = mpt_queue_align(q)
      BY <1>6 DEF Peek
    <2>2. IsQueue(q')
      BY <1>0, <2>1, AlignIsQueue
    <2>3. call'.ok = TRUE
      BY <1>6 DEF Peek, Called
    <2> QED
      BY <2>2, <2>3 DEF TypeOK, IsQueue
  <1>7. ASSUME NEW n \in Requests, mpt_queue_prepare(n) PROVE Next
    BY <1>7 DEF Next
  <1> QED
    BY <1>1, <1>2, <1>3, <1>4, <1>5, <1>6, <1>7 DEF DeviceNext

(* The room that was made serves an append, and a prepend. *)
LEMMA RoomServes ==
    ASSUME NEW s, IsQueue(s), NEW d \in Block, Len(d) <= s.max - s.len
    PROVE  Pushed(s, d).ok /\ \A u \in Unshifted(s, d) : u.ok
  <1>0. s.max \in Nat /\ s.len \in Nat /\ s.off \in Nat /\ Len(d) \in Nat \ {0}
    BY BlockIsSeq DEF IsQueue
  <1>1. Pushed(s, d).ok
    BY PushedContent
  <1>2. ASSUME NEW u \in Unshifted(s, d) PROVE u.ok
    <2>1. PICK f \in FreeSizes(s) :
            LET p == mpt_qpre(s, Len(d), f.low, f.high)
            IN  u = IF Len(d) <= f.low + f.high
                    THEN [queue |-> Ring(Fill(p, d), p.len, p.max, p.off), ok |-> TRUE]
                    ELSE [queue |-> s, ok |-> FALSE]
      BY <1>2 DEF Unshifted
    <2>2. s.max # s.len
      BY <1>0
    <2>3. f = [low |-> mpt_queue_empty(s).low, high |-> mpt_queue_empty(s).high]
      BY <2>2 DEF FreeSizes
    <2>4. f.low + f.high = s.max - s.len
      BY <1>0, <2>3 DEF mpt_queue_empty
    <2>5. Len(d) <= f.low + f.high
      BY <2>4
    <2> QED
      BY <2>1, <2>5
  <1> QED
    BY <1>1, <1>2

(* When the allocator delivers there is room. *)
LEMMA RoomIsMade ==
    ASSUME NEW s, IsQueue(s), NEW n \in Nat \ {0}, n + MaxSize + Unit <= SizeMax + 1,
           MPT_align(s.len + n) <= MaxSize, TRUE \in Alloc
    PROVE  \E r \in Prepared(s, n) : r.ok
  <1> DEFINE left == s.max - s.len
             w    == Wanted(s, n)
  <1>0. /\ s.max \in Nat /\ s.len \in Nat /\ s.len <= s.max /\ s.max <= MaxSize
        /\ MaxSize \in Nat /\ Unit \in Nat /\ Unit > 0 /\ SizeMax \in Nat
    BY QueueAssumption DEF IsQueue
  <1>1. CASE n <= left
    BY <1>1 DEF Prepared
  <1>2. CASE ~(n <= left)
    <2>1. ~(SizeMax - left < n)
      BY <1>0
    <2>2. w = MPT_align(s.len + n) /\ w \in Nat /\ w >= s.len + n
      BY WantedGrows
    <2>3. TRUE \in Answers(w)
      <3>1. ~(w > MaxSize)
        BY <1>0, <2>2
      <3> QED
        BY <3>1 DEF Answers
    <2> DEFINE t == mpt_queue_resize(s, w, TRUE)
               r == [queue |-> t, ok |-> ~ResizeFails(s, w, TRUE) /\ t.len < t.max]
    <2>4. r \in Prepared(s, n)
      BY <1>2, <2>1, <2>3 DEF Prepared
    <2>5. ~ResizeFails(s, w, TRUE)
      BY DEF ResizeFails
    <2>6. t.max = w
      BY <2>2, <2>3, <2>5, ResizeContent
    <2>7. r.queue.len = s.len
      BY <2>4, PreparedContent
    <2>8. t.len = s.len
      BY <2>7
    <2>9. t.len < t.max
      <3> HIDE DEF w, t
      <3> QED
        BY <1>0, <2>2, <2>6, <2>8
    <2>10. r.ok
      BY <2>5, <2>9
    <2> QED
      BY <2>4, <2>10
  <1> QED
    BY <1>1, <1>2

(* The room mpt_queue_prepare makes serves any block. *)
LEMMA Suffices ==
    ASSUME SizesFit, IsQueue(q)
    PROVE  PrepareSuffices
  <1> SUFFICES ASSUME NEW d \in Block
               PROVE  /\ \A r \in Prepared(q, Len(d)) :
                            r.ok => /\ Pushed(r.queue, d).ok
                                    /\ \A u \in Unshifted(r.queue, d) : u.ok
                      /\ MPT_align(q.len + Len(d)) <= MaxSize /\ TRUE \in Alloc =>
                            \E r \in Prepared(q, Len(d)) : r.ok
    BY DEF PrepareSuffices
  <1>1. Len(d) \in Nat \ {0} /\ Len(d) + MaxSize + Unit <= SizeMax + 1
    <2>1. Len(d) \in 1..MaxBlock
      BY QueueAssumption DEF Block
    <2> QED
      BY <2>1, QueueAssumption DEF SizesFit
  <1>2. ASSUME NEW r \in Prepared(q, Len(d)), r.ok
        PROVE  Pushed(r.queue, d).ok /\ \A u \in Unshifted(r.queue, d) : u.ok
    <2>1. Len(d) <= r.queue.max - r.queue.len
      BY <1>1, <1>2, PreparedContent
    <2>2. IsQueue(r.queue)
      BY <1>1, PreparedIsQueue
    <2> QED
      BY <2>1, <2>2, RoomServes
  <1> QED
    BY <1>1, <1>2, RoomIsMade

(* The search finds the first matching element of the content. *)
LEMMA Finds ==
    ASSUME IsQueue(q)
    PROVE  FindFirst
  <1> SUFFICES ASSUME NEW esz \in 1..MaxSize, NEW v \in Byte
               PROVE
        LET at  == mpt_queue_find(q, esz, v)
            pos == IF at < q.off THEN at + q.max - q.off ELSE at - q.off
            starts == {i \in 0..(q.len - 1) : i % esz = 0 /\ i + esz <= q.len}
        IN  /\ at >= 0 => /\ pos \in starts
                          /\ Content(q)[pos + 1] = v
                          /\ \A i \in starts : i < pos => Content(q)[i + 1] # v
            /\ at = NotFound => \A i \in starts : Content(q)[i + 1] # v
    BY DEF FindFirst
  <1>1. esz \in Nat \ {0}
    OBVIOUS
  <1>2. FindsFirst(q, esz, v)
    BY <1>1, FindsFirstAlways
  <1> QED
    BY <1>2 DEF FindsFirst, Position, Starts

(* What a peek shows is the front of the queue. *)
LEMMA PeekShows ==
    ASSUME IsQueue(q), NEW n \in 0..MaxSize, Peek(n)
    PROVE  /\ Len(call'.out) <= q.len
           /\ call'.out = SubSeq(Content(q), 1, Len(call'.out))
           /\ Content(q') = Content(q)
           /\ (n = 0 \/ n > q.len) => Len(call'.out) = q.len
           /\ n <= q.len => Len(call'.out) >= n
  <1> DEFINE want == IF n = 0 THEN q.len ELSE n
             low  == mpt_queue_data(q)
             s    == IF want > low /\ MPT_queue_frag(q) THEN mpt_queue_align(q) ELSE q
             size == IF want <= low THEN low ELSE q.len
             out  == [i \in 1..size |-> s.mem[s.off + i - 1]]
  <1>0. /\ q.max \in Nat /\ q.len \in Nat /\ q.len <= q.max /\ q.off \in Nat
        /\ q.off <= q.max /\ n \in Nat
    BY DEF IsQueue
  <1>1. q' = s /\ call'.out = out
    BY DEF Peek, Called
  <1>2. low = IF q.max - q.off < q.len THEN q.max - q.off ELSE q.len
    BY DEF mpt_queue_data, LowPart
  <1>3. IsQueue(s) /\ s.len = q.len /\ s.max = q.max /\ Content(s) = Content(q)
    BY AlignIsQueue, AlignContent
  <1>4. size \in Nat /\ size <= q.len /\ s.off + size <= s.max
    <2>0. low \in Nat /\ low <= q.len /\ q.off + low <= q.max
      BY <1>0, <1>2
    <2>1. CASE want <= low
      <3>1. s = q /\ size = low
        BY <1>0, <2>0, <2>1
      <3> QED
        BY <2>0, <3>1
    <2>2. CASE ~(want <= low) /\ MPT_queue_frag(q)
      <3>1. s = mpt_queue_align(q) /\ size = q.len
        BY <1>0, <2>0, <2>2
      <3>2. s.off = 0
        BY <3>1, AlignIsQueue
      <3> HIDE DEF s, size
      <3> QED
        BY <1>0, <1>3, <3>1, <3>2
    <2>3. CASE ~(want <= low) /\ ~MPT_queue_frag(q)
      <3>1. s = q /\ size = q.len
        BY <2>3
      <3> QED
        BY <1>0, <2>3, <3>1 DEF MPT_queue_frag
    <2> QED
      BY <2>1, <2>2, <2>3
  <1>5. /\ n = 0 \/ n > q.len => size = q.len
        /\ n <= q.len => size >= n
    BY <1>0, <1>2
  <1> HIDE DEF want, low, s, size
  <1>6. Len(out) = size
    BY <1>4
  <1>7. Content(q) \in Seq(Cell) /\ Len(Content(q)) = q.len
    BY ContentIsSeq
  <1>8. ASSUME NEW i \in 1..size PROVE s.mem[s.off + i - 1] = Content(q)[i]
    <2>1. i \in 1..s.len
      BY <1>0, <1>3, <1>4
    <2>2. Content(s)[i] = s.mem[At(s, i - 1)]
      BY <1>3, <2>1, ContentIsSeq
    <2>3. At(s, i - 1) = s.off + i - 1
      <3>1. s.off \in Nat /\ s.max \in Nat
        BY <1>3 DEF IsQueue
      <3> QED
        BY <1>4, <3>1 DEF At
    <2> QED
      BY <1>3, <2>2, <2>3
  <1>9. out = SubSeq(Content(q), 1, size)
    <2> DEFINE c == Content(q)
    <2>1. SubSeq(c, 1, size) = [i \in 1..size |-> c[i]]
      <3> HIDE DEF c
      <3>1. c \in Seq(Cell) /\ size \in 0..Len(c)
        BY <1>0, <1>4, <1>7 DEF c
      <3> QED
        BY <3>1, SubSeqProperties
    <2> QED
      BY <1>8, <2>1
  <1>10. call'.out = out /\ Len(call'.out) = size
    BY <1>1, <1>6
  <1> HIDE DEF out
  <1> QED
    BY <1>1, <1>3, <1>4, <1>5, <1>9, <1>10

-----------------------------------------------------------------------------
(***************************************************************************)
(* No sequence of calls takes the used part or the start of a queue out of *)
(* its storage, for storage of any size, through the C functions or through*)
(* io::queue, as long as none of them prepends to a queue without a free   *)
(* cell and is not refused: then mpt_qpre has taken the words it found on  *)
(* the stack for free sizes, and the used part exceeds the storage.        *)
(***************************************************************************)
THEOREM QueueTyped ==
    UseSpec /\ [][~FullPrepended]_allVars => []TypeOK
  <1>1. UseInit => TypeOK
    BY QueueAssumption DEF UseInit, Init, TypeOK, IsQueue, Released, Ring
  <1>2. TypeOK /\ [UseNext]_allVars /\ [~FullPrepended]_allVars => TypeOK'
    <2> SUFFICES ASSUME TypeOK, [UseNext]_allVars, [~FullPrepended]_allVars PROVE TypeOK'
      OBVIOUS
    <2>1. CASE Next /\ ~FullPrepended
      BY <2>1, CallTyped
    <2>2. CASE DeviceNext /\ ~FullPrepended
      BY <2>2, DeviceTyped, CallTyped
    <2>3. CASE UNCHANGED allVars
      BY <2>3 DEF allVars, vars, TypeOK
    <2> QED
      BY <2>1, <2>2, <2>3 DEF UseNext
  <1> QED
    BY <1>1, <1>2, PTL DEF UseSpec

(***************************************************************************)
(* mpt_queue_find returns the first matching element of the content, and   *)
(* reports "no match" only when there is none, wherever the data wraps.    *)
(***************************************************************************)
THEOREM FoundFirst ==
    UseSpec /\ [][~FullPrepended]_allVars => []FindFirst
  <1>1. TypeOK => FindFirst
    BY Finds DEF TypeOK
  <1> QED
    BY <1>1, QueueTyped, PTL

(***************************************************************************)
(* The room mpt_queue_prepare reports serves the call io::queue makes      *)
(* after it, and it is made when the allocator delivers, as long as the    *)
(* sizes that are asked for do not wrap size_t.                            *)
(***************************************************************************)
THEOREM RoomSuffices ==
    ASSUME SizesFit
    PROVE  UseSpec /\ [][~FullPrepended]_allVars => []PrepareSuffices
  <1>1. TypeOK => PrepareSuffices
    BY Suffices DEF TypeOK
  <1> QED
    BY <1>1, QueueTyped, PTL

(* Only mpt_queue_string reports a string. *)
LEMMA StringShown ==
    ASSUME IsQueue(q), UseNext, call'.op = "string", call'.ok
    PROVE  mpt_queue_string
  BY DEF UseNext, Next, DeviceNext, mpt_qpush, mpt_qunshift, mpt_queue_load, mpt_qshift,
         mpt_queue_crop, mpt_queue_save, Resize, mpt_queue_prepare, mpt_queue_set,
         mpt_queue_get, Align, Push, Unshift, Shift, Pop, Discard, Peek, Called, Refused

(***************************************************************************)
(* mpt_queue_string and io::queue::peek hand out the content from its      *)
(* oldest byte on, wherever the data wraps, and leave it unchanged.        *)
(***************************************************************************)
THEOREM FrontIsShown ==
    UseSpec /\ [][~FullPrepended]_allVars => FrontInPlace
  <1>1. TypeOK /\ [UseNext]_allVars => [FrontShown]_vars
    <2> SUFFICES ASSUME TypeOK, UseNext PROVE FrontShown
      BY DEF allVars
    <2>0. IsQueue(q)
      BY DEF TypeOK
    <2>1. ASSUME call'.op = "string", call'.ok
          PROVE  /\ q'.off + q'.len < q'.max
                 /\ q'.mem[q'.off + q'.len] = Zero
                 /\ Content(q') = Content(q)
      <3>1. mpt_queue_string
        BY <2>0, <2>1, StringShown
      <3> QED
        BY <2>0, <2>1, <3>1, StringContent
    <2> QED
      BY <2>0, <2>1, PeekShows DEF FrontShown
  <1> QED
    BY <1>1, QueueTyped, PTL DEF UseSpec, FrontInPlace

(***************************************************************************)
(* The ring is a byte sequence with a capacity to whoever calls the C      *)
(* functions: every call is a step of the Deque, as long as sizes do not   *)
(* wrap size_t (SizesFit) and no prepend to a queue without a free cell    *)
(* goes on with what it found on the stack (FullPrepended).                *)
(***************************************************************************)
THEOREM RingImplementsDeque ==
    ASSUME SizesFit
    PROVE  UseSpec /\ [][~FullPrepended]_allVars => ImplementsDeque
  <1>1. UseInit => D!Init
    BY DequeInit DEF UseInit
  <1>2. TypeOK /\ [UseNext]_allVars /\ [~FullPrepended]_allVars => [D!Next]_(D!vars)
    <2> SUFFICES ASSUME TypeOK, [UseNext]_allVars, [~FullPrepended]_allVars
                 PROVE  D!Next \/ UNCHANGED D!vars
      OBVIOUS
    <2>1. CASE UNCHANGED allVars
      BY <2>1 DEF allVars, vars, D!vars
    <2>2. CASE UseNext /\ wrapped
      BY <2>2 DEF UseNext, D!vars
    <2>3. CASE UseNext /\ ~FullPrepended /\ ~wrapped
      <3>1. ~wrapped' /\ Next
        BY <2>3 DEF UseNext
      <3>2. IsQueue(q)
        BY DEF TypeOK
      <3> QED
        BY <2>3, <3>1, <3>2, DequeNext
    <2> QED
      BY <2>1, <2>2, <2>3
  <1> QED
    BY <1>1, <1>2, QueueTyped, PTL DEF UseSpec, ImplementsDeque, D!Spec
=============================================================================
