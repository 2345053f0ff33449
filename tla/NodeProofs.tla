------------------------------ MODULE NodeProofs ------------------------------
(***************************************************************************)
(* Proofs about nodes: their four members describe ordered trees.          *)
(***************************************************************************)
EXTENDS Node, SequenceTheorems, Least

-----------------------------------------------------------------------------
(* Functions that are defined by steps from 0 to a number.                 *)

\* What holds for 0 and is kept by each step holds up to the last number.
LEMMA UpTo ==
    ASSUME NEW N \in Nat, NEW P, 0 \in P, \A k \in 0..N : k < N /\ k \in P => k + 1 \in P
    PROVE  \A k \in 0..N : k \in P
  <1> DEFINE T == {k \in 0..N : k \notin P}
  <1>1. SUFFICES ASSUME T # {} PROVE FALSE
    OBVIOUS
  <1>2. T \in SUBSET Nat
    OBVIOUS
  <1>3. PICK x \in T : \A y \in T : x <= y
    <2> HIDE DEF T
    <2> QED
      BY <1>1, <1>2, Lowest
  <1>4. x \in Nat /\ x <= N /\ x # 0
    OBVIOUS
  <1>5. PICK k \in Nat : x = k + 1
    BY <1>4
  <1>6. k \in 0..N /\ k < N /\ k \in P
    BY <1>3, <1>4, <1>5
  <1> QED
    BY <1>5, <1>6

Stepped(c, N, S, s, step) ==
    c \in [0..N -> S] /\ c[0] = s /\ \A k \in 1..N : c[k] = step[<<k, c[k-1]>>]

\* A sequence of steps exists.
LEMMA Iterates ==
    ASSUME NEW N \in Nat, NEW S, NEW s \in S, NEW step \in [Nat \X S -> S]
    PROVE  \E c : Stepped(c, N, S, s, step)
  <1> DEFINE Good(c, n) == c \in [0..n -> S] /\ c[0] = s /\ \A k \in 1..n : c[k] = step[<<k, c[k-1]>>]
             P == {n \in Nat : \E c \in [0..n -> S] : Good(c, n)}
  <1>1. 0 \in P
    <2>1. Good([k \in 0..0 |-> s], 0)
      OBVIOUS
    <2> QED
      BY <2>1
  <1>2. ASSUME NEW k \in 0..N, k < N, k \in P PROVE k + 1 \in P
    <2>1. PICK c \in [0..k -> S] : Good(c, k)
      BY <1>2
    <2> DEFINE d == [j \in 0..k+1 |-> IF j <= k THEN c[j] ELSE step[<<k + 1, c[k]>>]]
    <2>2. d \in [0..k+1 -> S]
      BY <2>1
    <2>3. d[0] = s
      BY <2>1
    <2>4. ASSUME NEW j \in 1..k+1 PROVE d[j] = step[<<j, d[j-1]>>]
      <3>1. CASE j <= k
        BY <3>1, <2>1
      <3>2. CASE ~(j <= k)
        <4>1. j = k + 1 /\ j - 1 = k
          BY <3>2
        <4>2. d[k + 1] = step[<<k + 1, c[k]>>]
          <5>1. k + 1 \in 0..k+1 /\ ~(k + 1 <= k)
            OBVIOUS
          <5> QED
            BY <5>1
        <4>3. d[k] = c[k]
          OBVIOUS
        <4> HIDE DEF d
        <4> QED
          BY <4>1, <4>2, <4>3
      <3> QED
        BY <3>1, <3>2
    <2>5. k + 1 \in Nat
      OBVIOUS
    <2> HIDE DEF d
    <2> QED
      BY <2>2, <2>3, <2>4, <2>5
  <1>3. \A k \in 0..N : k \in P
    <2> HIDE DEF P
    <2> QED
      BY <1>1, <1>2, UpTo
  <1>4. N \in P
    <2> HIDE DEF P
    <2> QED
      BY <1>3
  <1> QED
    BY <1>4 DEF Stepped

-----------------------------------------------------------------------------
(* Chains: the nodes from one on, following one member.                    *)

Memory == Cardinality(Node)

\* The nodes can be counted.
LEMMA MemoryCounted == Memory \in Nat
  BY MemoryAssumption, FS_CardinalityType DEF Memory

\* One step along a chain.
Longer(f, s) == IF s = <<>> \/ f[Last(s)] = Nil THEN s ELSE Append(s, f[Last(s)])
Begun(n) == IF n = Nil THEN <<>> ELSE <<n>>

\* A list that is followed one node further is a sequence of nodes.
LEMMA LongerTyped ==
    ASSUME NEW f \in [Node -> Link], NEW s \in Seq(Node)
    PROVE  Longer(f, s) \in Seq(Node)
  <1>1. CASE s # <<>> /\ f[Last(s)] # Nil
    <2>1. Last(s) \in Node
      BY <1>1, LenProperties, ElementOfSeq, EmptySeq DEF Last
    <2>2. f[Last(s)] \in Node
      BY <1>1, <2>1 DEF Link
    <2> QED
      BY <1>1, <2>2, AppendProperties DEF Longer
  <1> QED
    BY <1>1 DEF Longer

\* A chain is what the steps from its first node on lead to.
LEMMA ChainSteps ==
    ASSUME NEW f \in [Node -> Link], NEW n \in Link
    PROVE  \E c : /\ c[0] = Begun(n)
                  /\ \A k \in 1..Memory : c[k] = Longer(f, c[k-1])
                  /\ Chain(f, n) = c[Memory]
  <1> DEFINE Steps(c) == c = [k \in 0 .. Cardinality(DOMAIN f) |->
                IF k = 0 THEN IF n = Nil THEN <<>> ELSE <<n>>
                ELSE LET s == c[k-1] IN
                     IF s = <<>> \/ f[Last(s)] = Nil THEN s ELSE Append(s, f[Last(s)])]
             step == [x \in Nat \X Seq(Node) |-> Longer(f, x[2])]
  <1>1. step \in [Nat \X Seq(Node) -> Seq(Node)]
    BY LongerTyped
  <1>2. Begun(n) \in Seq(Node)
    BY DEF Begun, Link
  <1>3. \A k \in Nat, s \in Seq(Node) : step[<<k, s>>] = Longer(f, s)
    OBVIOUS
  <1>4. PICK c : Stepped(c, Memory, Seq(Node), Begun(n), step)
    <2> HIDE DEF step
    <2> QED
      BY <1>1, <1>2, MemoryCounted, Iterates
  <1>5. \A k \in 1..Memory : c[k] = Longer(f, c[k-1])
    <2> SUFFICES ASSUME NEW k \in 1..Memory PROVE c[k] = Longer(f, c[k-1])
      OBVIOUS
    <2>1. k - 1 \in 0..Memory /\ k \in Nat
      BY MemoryCounted
    <2> HIDE DEF step
    <2> QED
      BY <1>3, <1>4, <2>1 DEF Stepped
  <1>6. Cardinality(DOMAIN f) = Memory
    BY DEF Memory
  <1>7. Steps(c)
    <2>1. c = [k \in 0..Memory |-> c[k]]
      BY <1>4 DEF Stepped
    <2>2. \A k \in 0..Memory : c[k] = IF k = 0 THEN IF n = Nil THEN <<>> ELSE <<n>>
                ELSE LET s == c[k-1] IN
                     IF s = <<>> \/ f[Last(s)] = Nil THEN s ELSE Append(s, f[Last(s)])
      <3> SUFFICES ASSUME NEW k \in 0..Memory
                   PROVE  c[k] = IF k = 0 THEN IF n = Nil THEN <<>> ELSE <<n>>
                                 ELSE Longer(f, c[k-1])
        BY DEF Longer
      <3>1. k = 0 \/ k \in 1..Memory
        BY MemoryCounted
      <3> HIDE DEF step, Steps
      <3> QED
        BY <1>4, <1>5, <3>1 DEF Begun, Stepped
    <2> QED
      BY <1>6, <2>1, <2>2
  <1>8. Steps(CHOOSE d : Steps(d))
    <2> HIDE DEF Steps
    <2> QED
      BY <1>7
  <1>9. PICK d : d = CHOOSE e : Steps(e)
    OBVIOUS
  <1>10. Steps(d)
    <2> HIDE DEF Steps
    <2> QED
      BY <1>8, <1>9
  <1>11. Chain(f, n) = d[Memory]
    BY <1>6, <1>9 DEF Chain
  <1>12. d[0] = Begun(n) /\ \A k \in 1..Memory : d[k] = Longer(f, d[k-1])
    <2>1. d = [k \in 0 .. Memory |-> IF k = 0 THEN Begun(n) ELSE Longer(f, d[k-1])]
      BY <1>6, <1>10 DEF Begun, Longer
    <2>2. 0 \in 0..Memory /\ \A k \in 1..Memory : k \in 0..Memory /\ k # 0
      BY MemoryCounted
    <2> HIDE DEF Steps, step
    <2> QED
      BY <2>1, <2>2, Zenon
  <1> QED
    BY <1>11, <1>12

\* Each node of a sequence is followed by the one its member names.
IsChain(f, s, n) ==
    /\ s \in Seq(Node)
    /\ s = <<>> <=> n = Nil
    /\ n # Nil => s[1] = n
    /\ \A i \in 1..Len(s) : i < Len(s) => s[i+1] = f[s[i]]

\* It is still a chain, one longer unless its last node leads nowhere.
LEMMA LongerChain ==
    ASSUME NEW f \in [Node -> Link], NEW n \in Link, NEW s, IsChain(f, s, n)
    PROVE  /\ IsChain(f, Longer(f, s), n)
           /\ Longer(f, s) = s \/ Len(Longer(f, s)) = Len(s) + 1
           /\ Longer(f, s) = s => n = Nil \/ f[Last(s)] = Nil
  <1>1. CASE s = <<>> \/ f[Last(s)] = Nil
    BY <1>1 DEF Longer, IsChain
  <1>2. CASE s # <<>> /\ f[Last(s)] # Nil
    <2>1. s \in Seq(Node) /\ Len(s) \in Nat /\ Len(s) >= 1
      BY <1>2, LenProperties, EmptySeq DEF IsChain
    <2>2. Last(s) = s[Len(s)] /\ s[Len(s)] \in Node
      BY <2>1, ElementOfSeq DEF Last
    <2>3. f[s[Len(s)]] \in Node
      BY <1>2, <2>2 DEF Link
    <2> DEFINE t == Append(s, f[s[Len(s)]])
    <2>4. /\ t \in Seq(Node) /\ Len(t) = Len(s) + 1 /\ t[Len(s) + 1] = f[s[Len(s)]]
          /\ \A i \in 1..Len(s) : t[i] = s[i]
      BY <2>1, <2>3, AppendProperties
    <2>5. Longer(f, s) = t
      BY <1>2, <2>2 DEF Longer
    <2> HIDE DEF t
    <2>6. IsChain(f, t, n)
      <3>1. t # <<>> /\ n # Nil /\ t[1] = n
        BY <1>2, <2>1, <2>4, EmptySeq DEF IsChain
      <3>2. \A i \in 1..Len(t) : i < Len(t) => t[i+1] = f[t[i]]
        <4> SUFFICES ASSUME NEW i \in 1..Len(t), i < Len(t) PROVE t[i+1] = f[t[i]]
          OBVIOUS
        <4>1. i \in 1..Len(s) /\ t[i] = s[i]
          BY <2>1, <2>4
        <4>2. CASE i = Len(s)
          BY <2>4, <4>1, <4>2
        <4>3. CASE i # Len(s)
          <5>1. i < Len(s) /\ i + 1 \in 1..Len(s)
            BY <2>1, <4>1, <4>3
          <5>2. t[i+1] = s[i+1] /\ s[i+1] = f[s[i]]
            BY <2>4, <4>1, <5>1 DEF IsChain
          <5> QED
            BY <4>1, <5>2
        <4> QED
          BY <4>2, <4>3
      <3> QED
        BY <2>4, <3>1, <3>2 DEF IsChain
    <2> QED
      BY <2>1, <2>4, <2>5, <2>6
  <1> QED
    BY <1>1, <1>2

\* A chain goes on until it ends or is longer than the memory has nodes.
LEMMA ChainShape ==
    ASSUME NEW f \in [Node -> Link], NEW n \in Link
    PROVE  /\ IsChain(f, Chain(f, n), n)
           /\ n # Nil => f[Last(Chain(f, n))] = Nil \/ Len(Chain(f, n)) = Memory + 1
  <1>1. PICK c : /\ c[0] = Begun(n)
                 /\ \A k \in 1..Memory : c[k] = Longer(f, c[k-1])
                 /\ Chain(f, n) = c[Memory]
    BY ChainSteps
  <1> DEFINE Good(s, k) == IsChain(f, s, n) /\ (n # Nil => f[Last(s)] = Nil \/ Len(s) = k + 1)
             P == {k \in Nat : Good(c[k], k)}
  <1>2. 0 \in P
    <2>1. CASE n = Nil
      <3>1. c[0] = <<>> /\ <<>> \in Seq(Node) /\ Len(<<>>) = 0
        BY <1>1, <2>1 DEF Begun
      <3>2. IsChain(f, c[0], n)
        BY <2>1, <3>1 DEF IsChain
      <3> QED
        BY <2>1, <3>2
    <2>2. CASE n # Nil
      <3>1. n \in Node /\ c[0] = <<n>>
        BY <1>1, <2>2 DEF Begun, Link
      <3>2. <<n>> \in Seq(Node) /\ <<n>> # <<>> /\ Len(<<n>>) = 1 /\ <<n>>[1] = n
        BY <3>1
      <3>3. IsChain(f, <<n>>, n)
        BY <2>2, <3>2 DEF IsChain
      <3> QED
        BY <3>1, <3>2, <3>3
    <2> QED
      BY <2>1, <2>2
  <1>3. ASSUME NEW k \in 0..Memory, k < Memory, k \in P PROVE k + 1 \in P
    <2>1. k + 1 \in 1..Memory /\ k + 1 - 1 = k /\ k + 1 \in Nat
      BY <1>3, MemoryCounted
    <2>2. c[k+1] = Longer(f, c[k])
      BY <1>1, <2>1
    <2>3. Good(c[k], k) /\ k \in Nat
      BY <1>3
    <2> DEFINE s == c[k]  t == c[k+1]
    <2> HIDE DEF s, t
    <2>4. IsChain(f, t, n) /\ (t = s \/ Len(t) = Len(s) + 1) /\ (t = s => n = Nil \/ f[Last(s)] = Nil)
      BY <2>2, <2>3, LongerChain DEF s, t
    <2>5. n # Nil => f[Last(t)] = Nil \/ Len(t) = k + 1 + 1
      <3> SUFFICES ASSUME n # Nil, t # s PROVE f[Last(t)] = Nil \/ Len(t) = k + 1 + 1
        BY <2>4
      <3>1. f[Last(s)] # Nil
        BY <2>2 DEF Longer, s, t
      <3>2. Len(s) = k + 1
        BY <2>3, <3>1 DEF s
      <3> QED
        BY <2>4, <3>2
    <2> QED
      BY <2>1, <2>4, <2>5 DEF t
  <1>4. \A k \in 0..Memory : k \in P
    <2> HIDE DEF P
    <2> QED
      BY <1>2, <1>3, MemoryCounted, UpTo
  <1>5. Good(c[Memory], Memory)
    <2>1. Memory \in P
      <3> HIDE DEF P
      <3> QED
        BY <1>4, MemoryCounted
    <2> QED
      BY <2>1
  <1> QED
    BY <1>1, <1>5

\* The nodes of a chain.
Reach(f, n) == ToSet(Chain(f, n))

\* Following a member never leaves T.
Closed(f, T) == \A x \in T : f[x] # Nil => f[x] \in T

\* A chain stays in a set that its member does not leave.
LEMMA ChainInside ==
    ASSUME NEW f \in [Node -> Link], NEW n \in Link, NEW s, IsChain(f, s, n),
           NEW T, Closed(f, T), n # Nil => n \in T
    PROVE  \A i \in 1..Len(s) : s[i] \in T
  <1> SUFFICES ASSUME s # <<>> PROVE \A i \in 1..Len(s) : s[i] \in T
    BY LenProperties DEF IsChain
  <1> DEFINE P == {k \in Nat : k < Len(s) => s[k+1] \in T}
  <1>1. s \in Seq(Node) /\ Len(s) \in Nat /\ s[1] = n /\ n \in T
    BY LenProperties DEF IsChain
  <1>2. 0 \in P
    BY <1>1
  <1>3. ASSUME NEW k \in 0..Len(s), k < Len(s), k \in P PROVE k + 1 \in P
    <2> SUFFICES ASSUME k + 1 < Len(s) PROVE s[k+1+1] \in T
      BY <1>1
    <2>1. s[k+1] \in T /\ k + 1 \in 1..Len(s)
      BY <1>1, <1>3
    <2>2. s[k+1+1] = f[s[k+1]]
      BY <2>1 DEF IsChain
    <2>3. k + 1 + 1 \in 1..Len(s)
      BY <1>1
    <2>4. s[k+1+1] \in Node
      BY <1>1, <2>3, ElementOfSeq
    <2> QED
      BY <2>1, <2>2, <2>4, NilAssumption DEF Closed
  <1>4. \A k \in 0..Len(s) : k \in P
    <2> HIDE DEF P
    <2> QED
      BY <1>1, <1>2, <1>3, UpTo
  <1>5. ASSUME NEW i \in 1..Len(s) PROVE s[i] \in T
    <2>1. PICK k \in Nat : i = k + 1
      BY <1>1
    <2>2. k \in 0..Len(s) /\ k < Len(s)
      BY <1>1, <2>1
    <2>3. k \in P
      <3> HIDE DEF P
      <3> QED
        BY <1>4, <2>2
    <2> QED
      BY <2>1, <2>2, <2>3
  <1> QED
    BY <1>5

\* A set that following a member does not leave keeps the chains that begin in it.
LEMMA ReachLeast ==
    ASSUME NEW f \in [Node -> Link], NEW n \in Link, NEW T, Closed(f, T), n # Nil => n \in T
    PROVE  Reach(f, n) \subseteq T
  <1> DEFINE s == Chain(f, n)
  <1>1. IsChain(f, s, n)
    BY ChainShape
  <1>2. s \in Seq(Node)
    BY <1>1 DEF IsChain
  <1> HIDE DEF s
  <1>3. DOMAIN s = 1..Len(s)
    BY <1>2, LenProperties
  <1>4. \A i \in 1..Len(s) : s[i] \in T
    BY <1>1, ChainInside
  <1> QED
    BY <1>3, <1>4 DEF Reach, ToSet, s

\* Each non-empty part of T has a node that no other one in it names.
Sourced(f, T) == \A C \in SUBSET T : C # {} => \E x \in C : \A y \in C : f[y] # x

\* No chain passes a node twice.
LEMMA ChainDistinct ==
    ASSUME NEW f \in [Node -> Link], NEW n \in Link, NEW s, IsChain(f, s, n),
           NEW T, Closed(f, T), n # Nil => n \in T, Sourced(f, T),
           NEW i \in 1..Len(s), NEW j \in 1..Len(s), s[i] = s[j]
    PROVE  i = j
  <1>1. s \in Seq(Node) /\ Len(s) \in Nat
    BY LenProperties DEF IsChain
  <1>2. \A k \in 1..Len(s) : s[k] \in T
    BY ChainInside
  <1>3. ASSUME NEW a \in 1..Len(s), NEW b \in 1..Len(s), a < b, s[a] = s[b] PROVE FALSE
    <2> DEFINE C == {s[k] : k \in a..b-1}
    <2>1. C \in SUBSET T
      BY <1>1, <1>2
    <2>2. s[a] \in C
      BY <1>1, <1>3
    <2>3. PICK x \in C : \A y \in C : f[y] # x
      <3> HIDE DEF C
      <3> QED
        BY <2>1, <2>2 DEF Sourced
    <2>4. PICK k \in a..b-1 : x = s[k]
      OBVIOUS
    <2>5. \A m \in a..b-1 : f[s[m]] # x
      BY <2>3
    <2>6. CASE k = a
      <3>1. PICK m \in 1..Len(s) : b = m + 1
        BY <1>1, <1>3
      <3>2. m \in a..b-1 /\ m < Len(s)
        BY <1>1, <1>3, <3>1
      <3>3. s[b] = f[s[m]]
        BY <3>1, <3>2 DEF IsChain
      <3> QED
        BY <1>3, <2>4, <2>5, <2>6, <3>2, <3>3
    <2>7. CASE k # a
      <3>1. PICK m \in 1..Len(s) : k = m + 1 /\ m < Len(s) /\ m \in a..b-1
        <4>1. k - 1 \in 1..Len(s) /\ k = k - 1 + 1 /\ k - 1 < Len(s) /\ k - 1 \in a..b-1
          BY <1>1, <1>3, <2>7
        <4> QED
          BY <4>1
      <3>2. s[k] = f[s[m]]
        BY <3>1 DEF IsChain
      <3> QED
        BY <2>4, <2>5, <3>1, <3>2
    <2> QED
      BY <2>6, <2>7
  <1>4. i \in Nat /\ j \in Nat /\ (i < j \/ j < i \/ i = j)
    BY <1>1
  <1> QED
    BY <1>3, <1>4

\* A chain that passes no node twice comes to an end.
LEMMA ChainEnds ==
    ASSUME NEW f \in [Node -> Link], NEW n \in Link,
           NEW T, Closed(f, T), n # Nil => n \in T, Sourced(f, T)
    PROVE  /\ Len(Chain(f, n)) <= Memory
           /\ n # Nil => f[Last(Chain(f, n))] = Nil
  <1> DEFINE s == Chain(f, n)
  <1>1. IsChain(f, s, n) /\ (n # Nil => f[Last(s)] = Nil \/ Len(s) = Memory + 1)
    BY ChainShape
  <1> HIDE DEF s
  <1>2. s \in Seq(Node) /\ Len(s) \in Nat /\ DOMAIN s = 1..Len(s)
    BY <1>1, LenProperties DEF IsChain
  <1>3. s \in Injection(1..Len(s), Node)
    <2>1. s \in [1..Len(s) -> Node]
      BY <1>2, LenProperties
    <2>2. \A i, j \in 1..Len(s) : s[i] = s[j] => i = j
      BY <1>1, ChainDistinct
    <2> QED
      BY <2>1, <2>2, Zenon DEF Injection, IsInjective
  <1>4. Cardinality(1..Len(s)) = Len(s)
    <2>1. 1 \in Int /\ Len(s) \in Int
      BY <1>2
    <2>2. Cardinality(1..Len(s)) = IF 1 > Len(s) THEN 0 ELSE Len(s) - 1 + 1
      BY <2>1, FS_Interval
    <2> QED
      BY <1>2, <2>2
  <1>5. Len(s) <= Memory
    BY <1>3, <1>4, MemoryAssumption, FS_Injection DEF Memory
  <1>6. Len(s) # Memory + 1
    <2>1. \A L, M \in Nat : L <= M => L # M + 1
      OBVIOUS
    <2> QED
      BY <1>2, <1>5, <2>1, MemoryCounted
  <1> QED
    BY <1>1, <1>5, <1>6 DEF s

\* In a finite set without rings, what a chain reaches is closed: it goes on to the end.
LEMMA ReachClosed ==
    ASSUME NEW f \in [Node -> Link], NEW n \in Link,
           NEW T, Closed(f, T), n # Nil => n \in T, Sourced(f, T)
    PROVE  /\ Reach(f, n) \subseteq Node /\ Reach(f, n) \subseteq T
           /\ Closed(f, Reach(f, n)) /\ (n # Nil => n \in Reach(f, n))
           /\ n = Nil => Reach(f, n) = {}
  <1> DEFINE s == Chain(f, n)
  <1>1. IsChain(f, s, n) /\ (n # Nil => f[Last(s)] = Nil)
    BY ChainShape, ChainEnds
  <1> HIDE DEF s
  <1>2. s \in Seq(Node) /\ Len(s) \in Nat /\ DOMAIN s = 1..Len(s)
    BY <1>1, LenProperties DEF IsChain
  <1>3. Reach(f, n) = {s[i] : i \in 1..Len(s)}
    BY <1>2 DEF Reach, ToSet, s
  <1>4. Reach(f, n) \subseteq Node
    BY <1>2, <1>3, ElementOfSeq
  <1>5. Closed(f, Reach(f, n))
    <2> SUFFICES ASSUME NEW i \in 1..Len(s), f[s[i]] # Nil PROVE f[s[i]] \in Reach(f, n)
      BY <1>3 DEF Closed
    <2>1. n # Nil
      BY <1>1, <1>2 DEF IsChain
    <2>2. i # Len(s)
      BY <1>1, <2>1 DEF Last
    <2>3. i < Len(s) /\ i + 1 \in 1..Len(s)
      <3>1. \A L \in Nat : \A k \in 1..L : k # L => k < L /\ k + 1 \in 1..L
        OBVIOUS
      <3> QED
        BY <1>2, <2>2, <3>1
    <2>4. s[i+1] = f[s[i]]
      BY <1>1, <2>3 DEF IsChain
    <2> QED
      BY <1>3, <2>3, <2>4
  <1>6. n # Nil => n \in Reach(f, n)
    <2> SUFFICES ASSUME n # Nil PROVE n \in Reach(f, n)
      OBVIOUS
    <2>1. s # <<>> /\ s[1] = n
      BY <1>1 DEF IsChain
    <2>2. 1 \in 1..Len(s)
      BY <1>2, <2>1, EmptySeq
    <2> QED
      BY <1>3, <2>1, <2>2
  <1>7. n = Nil => Reach(f, n) = {}
    <2> SUFFICES ASSUME n = Nil PROVE s = <<>>
      BY <1>3
    <2> QED
      BY <1>1 DEF IsChain
  <1> QED
    BY <1>4, <1>5, <1>6, <1>7, ReachLeast

-----------------------------------------------------------------------------
(* Trees: a set of nodes with all nodes below.                             *)

KidSet(h, x) == ToSet(Kids(h, x))
Wider(h, T) == T \cup UNION {ToSet(Kids(h, n)) : n \in T}
Linking(h) == h.next \in [Node -> Link] /\ h.children \in [Node -> Link]

\* Children are what the first of them reaches.
LEMMA KidSetReached ==
    ASSUME NEW h, Linking(h), NEW x \in Node
    PROVE  KidSet(h, x) = Reach(h.next, h.children[x]) /\ KidSet(h, x) \subseteq Node
  <1>1. h.children[x] \in Link
    BY DEF Linking
  <1>2. KidSet(h, x) = Reach(h.next, h.children[x])
    BY DEF KidSet, Kids, ListFrom, Reach
  <1>3. Closed(h.next, Node)
    BY DEF Closed, Linking, Link
  <1> QED
    BY <1>1, <1>2, <1>3, ReachLeast DEF Linking, Link

\* A set of nodes with the children of each is a set of nodes.
LEMMA WiderTyped ==
    ASSUME NEW h, Linking(h), NEW T \in SUBSET Node
    PROVE  Wider(h, T) \in SUBSET Node
  <1>1. \A n \in T : ToSet(Kids(h, n)) \subseteq Node
    BY KidSetReached DEF KidSet
  <1> QED
    BY <1>1 DEF Wider

\* The nodes below a set are found in as many steps as there are nodes.
LEMMA ClosureSteps ==
    ASSUME NEW h, Linking(h), NEW S \in SUBSET Node
    PROVE  \E c : /\ c[0] = S
                  /\ \A k \in 1..Memory : c[k] = Wider(h, c[k-1])
                  /\ Closure(h, S) = c[Memory]
  <1> DEFINE Steps(c) == c = [k \in 0 .. Cardinality(Node) |->
                IF k = 0 THEN S
                ELSE LET T == c[k-1] IN T \cup UNION {ToSet(Kids(h, n)) : n \in T}]
             step == [x \in Nat \X SUBSET Node |-> Wider(h, x[2])]
  <1>1. step \in [Nat \X SUBSET Node -> SUBSET Node]
    BY WiderTyped
  <1>3. \A k \in Nat, T \in SUBSET Node : step[<<k, T>>] = Wider(h, T)
    OBVIOUS
  <1>4. PICK c : Stepped(c, Memory, SUBSET Node, S, step)
    <2> HIDE DEF step
    <2> QED
      BY <1>1, MemoryCounted, Iterates
  <1>5. \A k \in 1..Memory : c[k] = Wider(h, c[k-1])
    <2> SUFFICES ASSUME NEW k \in 1..Memory PROVE c[k] = Wider(h, c[k-1])
      OBVIOUS
    <2>1. k - 1 \in 0..Memory /\ k \in Nat
      BY MemoryCounted
    <2> HIDE DEF step
    <2>2. c[k-1] \in SUBSET Node
      BY <1>4, <2>1 DEF Stepped
    <2> QED
      BY <1>3, <1>4, <2>1, <2>2 DEF Stepped
  <1>7. Steps(c)
    <2>1. c = [k \in 0..Memory |-> c[k]]
      BY <1>4 DEF Stepped
    <2>2. \A k \in 0..Memory : c[k] = IF k = 0 THEN S
                ELSE LET T == c[k-1] IN T \cup UNION {ToSet(Kids(h, n)) : n \in T}
      <3> SUFFICES ASSUME NEW k \in 0..Memory
                   PROVE  c[k] = IF k = 0 THEN S ELSE Wider(h, c[k-1])
        BY DEF Wider
      <3>1. k = 0 \/ k \in 1..Memory
        BY MemoryCounted
      <3> HIDE DEF step, Steps
      <3> QED
        BY <1>4, <1>5, <3>1 DEF Stepped
    <2> QED
      BY <2>1, <2>2 DEF Memory
  <1>8. Steps(CHOOSE d : Steps(d))
    <2> HIDE DEF Steps
    <2> QED
      BY <1>7
  <1>9. PICK d : d = CHOOSE e : Steps(e)
    OBVIOUS
  <1>10. Steps(d)
    <2> HIDE DEF Steps
    <2> QED
      BY <1>8, <1>9
  <1>11. Closure(h, S) = d[Memory]
    BY <1>9 DEF Closure, Memory
  <1>12. d[0] = S /\ \A k \in 1..Memory : d[k] = Wider(h, d[k-1])
    <2>1. d = [k \in 0 .. Memory |-> IF k = 0 THEN S ELSE Wider(h, d[k-1])]
      BY <1>10 DEF Wider, Memory
    <2>2. 0 \in 0..Memory /\ \A k \in 1..Memory : k \in 0..Memory /\ k # 0
      BY MemoryCounted
    <2> HIDE DEF Steps, step
    <2> QED
      BY <2>1, <2>2, Zenon
  <1> QED
    BY <1>11, <1>12

\* Nothing that is below a node of T is outside.
Whole(h, T) == \A x \in T : KidSet(h, x) \subseteq T

\* They are in each set that contains the first ones and all children of its nodes.
LEMMA ClosureLeast ==
    ASSUME NEW h, Linking(h), NEW S \in SUBSET Node, NEW T, S \subseteq T, Whole(h, T)
    PROVE  Closure(h, S) \subseteq T
  <1>1. PICK c : /\ c[0] = S
                 /\ \A k \in 1..Memory : c[k] = Wider(h, c[k-1])
                 /\ Closure(h, S) = c[Memory]
    BY ClosureSteps
  <1> DEFINE P == {k \in Nat : c[k] \subseteq T}
  <1>2. 0 \in P
    BY <1>1
  <1>3. ASSUME NEW k \in 0..Memory, k < Memory, k \in P PROVE k + 1 \in P
    <2>1. k + 1 \in 1..Memory /\ k + 1 - 1 = k /\ k + 1 \in Nat
      BY <1>3, MemoryCounted
    <2>2. c[k+1] = Wider(h, c[k])
      BY <1>1, <2>1
    <2> QED
      BY <1>3, <2>1, <2>2 DEF Wider, Whole, KidSet
  <1>4. \A k \in 0..Memory : k \in P
    <2> HIDE DEF P
    <2> QED
      BY <1>2, <1>3, MemoryCounted, UpTo
  <1>5. Memory \in P
    <2> HIDE DEF P
    <2> QED
      BY <1>4, MemoryCounted
  <1> QED
    BY <1>1, <1>5

\* As many steps as there are nodes are enough: no child is left out.
LEMMA ClosureClosed ==
    ASSUME NEW h, Linking(h), NEW S \in SUBSET Node
    PROVE  S \subseteq Closure(h, S) /\ Closure(h, S) \subseteq Node /\ Whole(h, Closure(h, S))
  <1>1. PICK c : /\ c[0] = S
                 /\ \A k \in 1..Memory : c[k] = Wider(h, c[k-1])
                 /\ Closure(h, S) = c[Memory]
    BY ClosureSteps
  <1> DEFINE Good(T, k) == /\ S \subseteq T /\ T \subseteq Node
                           /\ Wider(h, T) = T \/ Cardinality(T) >= k
             P == {k \in Nat : Good(c[k], k)}
  <1>2. 0 \in P
    <2>1. IsFiniteSet(S)
      BY MemoryAssumption, FS_Subset
    <2> QED
      BY <1>1, <2>1, FS_CardinalityType
  <1>3. ASSUME NEW k \in 0..Memory, k < Memory, k \in P PROVE k + 1 \in P
    <2>1. k + 1 \in 1..Memory /\ k + 1 - 1 = k /\ k + 1 \in Nat
      BY <1>3, MemoryCounted
    <2>2. c[k+1] = Wider(h, c[k])
      BY <1>1, <2>1
    <2> DEFINE T == c[k]  U == c[k+1]
    <2>3. S \subseteq T /\ T \in SUBSET Node /\ (Wider(h, T) = T \/ Cardinality(T) >= k)
      BY <1>3
    <2> HIDE DEF T, U
    <2>4. U = Wider(h, T)
      BY <2>2 DEF T, U
    <2>5. U \in SUBSET Node /\ T \subseteq U
      BY <2>3, <2>4, WiderTyped DEF Wider
    <2>6. CASE Wider(h, T) = T
      BY <2>1, <2>3, <2>4, <2>6 DEF U
    <2>7. CASE Wider(h, T) # T
      <3>1. IsFiniteSet(U) /\ T \in SUBSET U /\ T # U
        BY <2>4, <2>5, <2>7, MemoryAssumption, FS_Subset
      <3>2. Cardinality(T) <= Cardinality(U) /\ Cardinality(T) # Cardinality(U) /\ IsFiniteSet(T)
        BY <3>1, FS_Subset
      <3>3. Cardinality(T) \in Nat /\ Cardinality(U) \in Nat
        BY <3>1, <3>2, FS_CardinalityType
      <3>4. Cardinality(U) >= k + 1
        BY <2>3, <2>7, <3>2, <3>3
      <3> QED
        BY <2>1, <2>3, <2>5, <3>4 DEF U
    <2> QED
      BY <2>6, <2>7
  <1>4. \A k \in 0..Memory : k \in P
    <2> HIDE DEF P
    <2> QED
      BY <1>2, <1>3, MemoryCounted, UpTo
  <1>5. Memory \in P
    <2> HIDE DEF P
    <2> QED
      BY <1>4, MemoryCounted
  <1> DEFINE C == Closure(h, S)
  <1>6. S \subseteq C /\ C \in SUBSET Node /\ (Wider(h, C) = C \/ Cardinality(C) >= Memory)
    BY <1>1, <1>5
  <1> HIDE DEF C
  <1>7. Wider(h, C) = C
    <2> SUFFICES ASSUME Cardinality(C) >= Memory PROVE Wider(h, C) = C
      BY <1>6
    <2>1. Cardinality(C) <= Memory /\ IsFiniteSet(C)
      BY <1>6, MemoryAssumption, FS_Subset DEF Memory
    <2>2. Cardinality(C) \in Nat
      BY <2>1, FS_CardinalityType
    <2>3. Cardinality(Node) = Cardinality(C)
      BY <2>1, <2>2, MemoryCounted DEF Memory
    <2>4. C = Node
      BY <1>6, <2>3, MemoryAssumption, FS_Subset
    <2> QED
      BY <2>4, WiderTyped DEF Wider
  <1> QED
    BY <1>6, <1>7 DEF Wider, Whole, KidSet, C

-----------------------------------------------------------------------------
(* The invariant.                                                          *)

Heaps == [live : SUBSET Node, name : [Node -> Names \cup {Nil}], meta : [Node -> {Nil}],
          next : [Node -> Link], prev : [Node -> Link], parent : [Node -> Link],
          children : [Node -> Link]]

\* Nodes that no node of the same set leads to exist in each set: there are no
\* rings of neighbours, and no node is below itself.
Acyclic(h) ==
    \A C \in SUBSET h.live : C # {} =>
        \E x \in C : \A y \in C : h.next[y] # x /\ h.children[y] # x

\* Apart from copied trees, first children and their parents point to each other.
OwnersAgree(h) ==
    \A p, c \in h.live : p \notin Raw(h) =>
        (h.children[p] = c <=> h.parent[c] = p /\ h.prev[c] = Nil)

\* A copied tree has two levels, is linked nowhere and shares no node.
RawApart(h) ==
    \A r \in Raw(h) :
        /\ Isolated(h, r) /\ h.prev[h.children[r]] = Nil
        /\ \A x \in KidSet(h, r) : h.children[x] = Nil
        /\ \A x \in h.live : h.parent[x] # r
        /\ \A q \in h.live : h.children[q] = h.children[r] => q = r

Linked(h) ==
    /\ h \in Heaps
    /\ LinksLive(h) /\ PairsAgree(h) /\ ParentsAgree(h)
    /\ OwnersAgree(h) /\ RawApart(h) /\ Acyclic(h)

\* The members of a live node are live nodes or empty.
LEMMA LinkedTypes ==
    ASSUME NEW h, Linked(h)
    PROVE  /\ Linking(h) /\ h.live \subseteq Node
           /\ h.prev \in [Node -> Link] /\ h.parent \in [Node -> Link]
           /\ \A x \in h.live : /\ h.next[x] \in h.live \cup {Nil} /\ h.prev[x] \in h.live \cup {Nil}
                                /\ h.parent[x] \in h.live \cup {Nil}
                                /\ h.children[x] \in h.live \cup {Nil}
           /\ Nil \notin h.live
  BY NilAssumption DEF Linked, Heaps, Linking, LinksLive

\* At most one node leads to another, as its neighbour or its parent.
LEMMA OnePredecessor ==
    ASSUME NEW h, Linked(h), NEW a \in h.live, NEW b \in h.live, NEW y \in h.live
    PROVE  /\ h.next[a] = y <=> h.prev[y] = a
           /\ h.next[a] = y /\ h.next[b] = y => a = b
           /\ h.children[b] = y => h.prev[y] = Nil /\ h.next[a] # y
           /\ h.children[a] = y /\ h.children[b] = y => a = b
  <1>1. h.next[a] = y <=> h.prev[y] = a
    BY DEF Linked, PairsAgree
  <1>2. h.next[b] = y <=> h.prev[y] = b
    BY DEF Linked, PairsAgree
  <1>3. h.children[b] = y => h.prev[y] = Nil
    <2>1. CASE b \in Raw(h)
      BY <2>1 DEF Linked, RawApart
    <2>2. CASE b \notin Raw(h)
      BY <2>2 DEF Linked, OwnersAgree
    <2> QED
      BY <2>1, <2>2
  <1>4. a # Nil
    BY LinkedTypes
  <1>5. h.children[a] = y /\ h.children[b] = y => a = b
    <2>1. CASE a \in Raw(h)
      BY <2>1 DEF Linked, RawApart
    <2>2. CASE b \in Raw(h)
      BY <2>2 DEF Linked, RawApart
    <2>3. CASE a \notin Raw(h) /\ b \notin Raw(h)
      BY <2>3 DEF Linked, OwnersAgree
    <2> QED
      BY <2>1, <2>2, <2>3
  <1> QED
    BY <1>1, <1>2, <1>3, <1>4, <1>5

\* Lists of live nodes end.
LEMMA ListsEnd ==
    ASSUME NEW h, Linked(h)
    PROVE  Closed(h.next, h.live) /\ Sourced(h.next, h.live)
  BY LinkedTypes DEF Linked, Acyclic, Closed, Sourced

\* Children are live, and their list is complete.
LEMMA KidsIn ==
    ASSUME NEW h, Linked(h), NEW x \in h.live
    PROVE  /\ KidSet(h, x) \subseteq h.live /\ Closed(h.next, KidSet(h, x))
           /\ h.children[x] # Nil => h.children[x] \in KidSet(h, x)
           /\ h.children[x] = Nil => KidSet(h, x) = {}
  <1>1. x \in Node /\ Linking(h)
    BY LinkedTypes
  <1>2. h.next \in [Node -> Link] /\ h.children[x] \in Link
    BY <1>1 DEF Linking
  <1>3. KidSet(h, x) = Reach(h.next, h.children[x])
    BY <1>1, KidSetReached
  <1>4. h.children[x] # Nil => h.children[x] \in h.live
    BY LinkedTypes
  <1> QED
    BY <1>2, <1>3, <1>4, ListsEnd, ReachClosed

\* A set of nodes that contains the first one of a list and is not left along it
\* contains the list.
LEMMA KidsLeast ==
    ASSUME NEW h, Linked(h), NEW x \in h.live, NEW T, Closed(h.next, T),
           h.children[x] # Nil => h.children[x] \in T
    PROVE  KidSet(h, x) \subseteq T
  <1>1. x \in Node /\ Linking(h)
    BY LinkedTypes
  <1>2. h.next \in [Node -> Link] /\ h.children[x] \in Link
    BY <1>1 DEF Linking
  <1>3. KidSet(h, x) = Reach(h.next, h.children[x])
    BY <1>1, KidSetReached
  <1> QED
    BY <1>2, <1>3, ReachLeast

\* The children of a node name it as their parent, and nobody else does.
LEMMA KidsOwn ==
    ASSUME NEW h, Linked(h), NEW x \in h.live
    PROVE  /\ x \in Raw(h) => \A y \in KidSet(h, x) : h.parent[y] = Nil
           /\ x \notin Raw(h) => \A y \in h.live : y \in KidSet(h, x) <=> h.parent[y] = x
           /\ x \in Raw(h) => \A y \in h.live : h.parent[y] # x
  <1> DEFINE up == h.parent[h.children[x]]
             T == {y \in h.live : h.parent[y] = up}
  <1>1. \A y \in KidSet(h, x) : h.parent[y] = up
    <2>1. Closed(h.next, T)
      BY LinkedTypes DEF Linked, ParentsAgree, Closed
    <2>2. h.children[x] # Nil => h.children[x] \in T
      BY LinkedTypes
    <2> HIDE DEF T
    <2>3. KidSet(h, x) \subseteq T
      BY <2>1, <2>2, KidsLeast
    <2> QED
      BY <2>3 DEF T
  <1>2. x \in Raw(h) => up = Nil
    BY DEF Raw
  <1>3. ASSUME x \notin Raw(h), NEW y \in KidSet(h, x) PROVE h.parent[y] = x
    <2>1. h.children[x] \in h.live
      BY LinkedTypes, KidsIn
    <2>2. h.parent[h.children[x]] = x
      BY <1>3, <2>1 DEF Linked, OwnersAgree
    <2> QED
      BY <1>1, <2>2
  <1>4. ASSUME x \notin Raw(h), NEW y \in h.live, h.parent[y] = x, y \notin KidSet(h, x) PROVE FALSE
    <2> DEFINE C == {z \in h.live : h.parent[z] = x /\ z \notin KidSet(h, x)}
    <2>1. PICK z \in C : \A w \in C : h.next[w] # z
      <3>1. C \in SUBSET h.live /\ y \in C
        BY <1>4
      <3> HIDE DEF C
      <3> QED
        BY <3>1 DEF Linked, Acyclic
    <2>2. z \in h.live /\ h.parent[z] = x /\ z \notin KidSet(h, x)
      OBVIOUS
    <2>3. CASE h.prev[z] = Nil
      <3>1. h.children[x] = z
        BY <1>4, <2>2, <2>3 DEF Linked, OwnersAgree
      <3> QED
        BY <2>2, <3>1, KidsIn, LinkedTypes
    <2>4. CASE h.prev[z] # Nil
      <3>1. PICK w \in h.live : w = h.prev[z]
        BY <2>2, <2>4, LinkedTypes
      <3>2. h.next[w] = z /\ z # Nil
        BY <2>2, <3>1, LinkedTypes DEF Linked, PairsAgree
      <3>3. h.parent[w] = x
        BY <2>2, <3>2 DEF Linked, ParentsAgree
      <3>4. w \in KidSet(h, x)
        BY <2>1, <3>2, <3>3
      <3> QED
        BY <2>2, <3>2, <3>4, KidsIn DEF Closed
    <2> QED
      BY <2>3, <2>4
  <1>5. x \in Raw(h) => \A y \in h.live : h.parent[y] # x
    BY DEF Linked, RawApart
  <1> QED
    BY <1>1, <1>2, <1>3, <1>4, <1>5

-----------------------------------------------------------------------------
(* What is below a node.                                                   *)

Below(h, n) == Closure(h, KidSet(h, n))

\* Neither member that leads down leaves T.
Down(h, T) == Closed(h.next, T) /\ Closed(h.children, T)

\* Where no member leads down and out, no child is outside.
LEMMA DownWhole ==
    ASSUME NEW h, Linked(h), NEW T, T \subseteq h.live, Down(h, T)
    PROVE  Whole(h, T)
  BY KidsLeast DEF Down, Whole, Closed

\* What is below a node is live and complete.
LEMMA BelowWhole ==
    ASSUME NEW h, Linked(h), NEW n \in h.live
    PROVE  KidSet(h, n) \subseteq Below(h, n) /\ Below(h, n) \subseteq h.live /\ Whole(h, Below(h, n))
  <1>1. Linking(h) /\ KidSet(h, n) \in SUBSET Node /\ KidSet(h, n) \subseteq h.live
    BY LinkedTypes, KidsIn
  <1>2. Whole(h, h.live)
    BY KidsIn DEF Whole
  <1> QED
    BY <1>1, <1>2, ClosureLeast, ClosureClosed DEF Below

\* It is in each set that the members do not lead out of and that has the first child.
LEMMA BelowLeast ==
    ASSUME NEW h, Linked(h), NEW n \in h.live, NEW T, T \subseteq h.live, Down(h, T),
           h.children[n] # Nil => h.children[n] \in T
    PROVE  Below(h, n) \subseteq T
  <1>1. Linking(h) /\ KidSet(h, n) \in SUBSET Node
    BY LinkedTypes, KidsIn
  <1>2. KidSet(h, n) \subseteq T
    BY KidsLeast DEF Down
  <1> QED
    BY <1>1, <1>2, DownWhole, ClosureLeast DEF Below

\* The nodes below n are its children and what they lead to, each by another one.
LEMMA BelowProps ==
    ASSUME NEW h, Linked(h), NEW n \in h.live
    PROVE  /\ Below(h, n) \subseteq h.live /\ Down(h, Below(h, n))
           /\ h.children[n] # Nil => h.children[n] \in Below(h, n)
           /\ h.children[n] = Nil => Below(h, n) = {}
           /\ n \notin Below(h, n)
           /\ \A y \in Below(h, n) :
                 y # h.children[n] => \E z \in Below(h, n) : h.next[z] = y \/ h.children[z] = y
  <1> DEFINE B == Below(h, n)
  <1>1. KidSet(h, n) \subseteq B /\ B \subseteq h.live /\ Whole(h, B)
    BY BelowWhole
  <1>2. KidSet(h, n) \subseteq h.live /\ Closed(h.next, KidSet(h, n))
        /\ (h.children[n] # Nil => h.children[n] \in KidSet(h, n))
        /\ (h.children[n] = Nil => KidSet(h, n) = {})
    BY KidsIn
  <1>3. Linking(h) /\ KidSet(h, n) \in SUBSET Node
    BY <1>2, LinkedTypes
  <1>4. Closed(h.next, B)
    <2> DEFINE D == {x \in B : h.next[x] # Nil => h.next[x] \in B}
    <2>1. KidSet(h, n) \subseteq D
      BY <1>1, <1>2 DEF Closed
    <2>2. Whole(h, D)
      <3> SUFFICES ASSUME NEW x \in D, NEW y \in KidSet(h, x) PROVE y \in D
        BY DEF Whole
      <3>1. KidSet(h, x) \subseteq B /\ Closed(h.next, KidSet(h, x))
        BY <1>1, KidsIn DEF Whole
      <3> QED
        BY <3>1 DEF Closed
    <2> HIDE DEF D
    <2>3. B \subseteq D
      BY <1>3, <2>1, <2>2, ClosureLeast DEF Below
    <2> QED
      BY <2>3 DEF D, Closed
  <1>5. Closed(h.children, B)
    BY <1>1, KidsIn DEF Closed, Whole
  <1>6. h.children[n] # Nil => h.children[n] \in B
    BY <1>1, <1>2
  <1> HIDE DEF B
  <1>7. h.children[n] = Nil => B = {}
    <2> SUFFICES ASSUME h.children[n] = Nil PROVE B \subseteq {}
      OBVIOUS
    <2>1. Down(h, {})
      BY DEF Down, Closed
    <2> QED
      BY <2>1, BelowLeast DEF B
  <1>8. ASSUME NEW y \in B, y # h.children[n], \A z \in B : h.next[z] # y /\ h.children[z] # y
        PROVE FALSE
    <2> DEFINE D == B \ {y}
    <2>1. Down(h, D)
      BY <1>4, <1>5, <1>8 DEF Down, Closed
    <2>2. D \subseteq h.live /\ (h.children[n] # Nil => h.children[n] \in D)
      BY <1>1, <1>6, <1>8
    <2> HIDE DEF D
    <2>3. B \subseteq D
      BY <2>1, <2>2, BelowLeast DEF B
    <2> QED
      BY <1>8, <2>3 DEF D
  <1>9. n \notin B
    <2> SUFFICES ASSUME n \in B PROVE FALSE
      OBVIOUS
    <2>1. PICK x \in B : \A y \in B : h.next[y] # x /\ h.children[y] # x
      BY <1>1 DEF Linked, Acyclic, B
    <2> QED
      BY <1>8, <2>1
  <1> QED
    BY <1>1, <1>4, <1>5, <1>6, <1>7, <1>8, <1>9 DEF B, Down

\* A tree is its root and what is below.
LEMMA TreeIs ==
    ASSUME NEW h, Linked(h), NEW n \in h.live
    PROVE  Tree(h, n) = {n} \cup Below(h, n)
  <1>1. Linking(h) /\ {n} \in SUBSET Node /\ KidSet(h, n) \in SUBSET Node
    BY LinkedTypes, KidsIn
  <1>2. KidSet(h, n) \subseteq Below(h, n) /\ Whole(h, Below(h, n))
    BY BelowWhole
  <1>3. Tree(h, n) \subseteq {n} \cup Below(h, n)
    <2>1. Whole(h, {n} \cup Below(h, n))
      BY <1>2 DEF Whole
    <2> QED
      BY <1>1, <2>1, ClosureLeast DEF Tree
  <1>4. n \in Tree(h, n) /\ Whole(h, Tree(h, n))
    BY <1>1, ClosureClosed DEF Tree
  <1>5. Below(h, n) \subseteq Tree(h, n)
    <2>1. KidSet(h, n) \subseteq Tree(h, n)
      BY <1>4 DEF Whole
    <2> QED
      BY <1>1, <1>4, <2>1, ClosureLeast DEF Below
  <1> QED
    BY <1>3, <1>4, <1>5

\* The invariant says what the run checks: nothing is below itself.
LEMMA LinkedSuffices ==
    ASSUME Linked(heap)
    PROVE  WellLinked
  <1>1. \A n \in heap.live : n \notin Closure(heap, ToSet(Kids(heap, n)))
    BY BelowProps DEF Below, KidSet
  <1> QED
    BY <1>1 DEF Linked, OwnersAgree, WellLinked

-----------------------------------------------------------------------------
(* Nodes that may be used: those outside of copied trees.                  *)

Settled(h) == h.live \ Pending(h)

\* Copies to be relinked are trees without parents and their children.
LEMMA PendingIs ==
    ASSUME NEW h, Linked(h)
    PROVE  /\ Raw(h) \subseteq h.live /\ Raw(h) \subseteq Pending(h)
           /\ \A x \in Pending(h) : x \in Raw(h) \/ \E r \in Raw(h) : x \in KidSet(h, r)
           /\ \A r \in Raw(h) : KidSet(h, r) \subseteq Pending(h)
           /\ Pending(h) \subseteq h.live
  BY KidsIn DEF Pending, Raw, KidSet

\* No member leads from a settled node to one that is not.
LEMMA SettledApart ==
    ASSUME NEW h, Linked(h), NEW x \in Settled(h)
    PROVE  /\ h.next[x] \in Settled(h) \cup {Nil} /\ h.prev[x] \in Settled(h) \cup {Nil}
           /\ h.parent[x] \in Settled(h) \cup {Nil} /\ h.children[x] \in Settled(h) \cup {Nil}
  <1>1. x \in h.live /\ x \notin Raw(h) /\ \A r \in Raw(h) : x \notin KidSet(h, r)
    BY PendingIs DEF Settled
  <1>2. ASSUME NEW y \in Pending(h) PROVE h.next[x] # y
    <2> SUFFICES ASSUME h.next[x] = y PROVE FALSE
      OBVIOUS
    <2>1. y \in h.live /\ h.prev[y] = x /\ x # Nil
      BY <1>1, <1>2, PendingIs, OnePredecessor, LinkedTypes
    <2>2. CASE y \in Raw(h)
      BY <2>1, <2>2 DEF Linked, RawApart, Isolated
    <2>3. ASSUME NEW r \in Raw(h), y \in KidSet(h, r) PROVE FALSE
      <3> DEFINE T == KidSet(h, r) \ {y}
      <3>1. r \in h.live /\ Closed(h.next, KidSet(h, r)) /\ KidSet(h, r) \subseteq h.live
        BY PendingIs, KidsIn
      <3>2. Closed(h.next, T)
        <4> SUFFICES ASSUME NEW z \in T, h.next[z] = y PROVE FALSE
          BY <3>1 DEF Closed
        <4>1. z = x
          BY <1>1, <2>1, <3>1, OnePredecessor
        <4> QED
          BY <1>1, <4>1
      <3>3. h.children[r] # y
        BY <1>1, <2>1, <3>1, OnePredecessor
      <3>4. h.children[r] # Nil => h.children[r] \in T
        BY <3>1, <3>3, KidsIn
      <3> HIDE DEF T
      <3>5. KidSet(h, r) \subseteq T
        BY <3>1, <3>2, <3>4, KidsLeast
      <3> QED
        BY <2>3, <3>5 DEF T
    <2> QED
      BY <1>2, <2>2, <2>3, PendingIs
  <1>3. ASSUME NEW y \in Pending(h) PROVE h.prev[x] # y
    <2> SUFFICES ASSUME h.prev[x] = y PROVE FALSE
      OBVIOUS
    <2>1. y \in h.live /\ h.next[y] = x /\ x # Nil
      BY <1>1, <1>3, PendingIs, OnePredecessor, LinkedTypes
    <2>2. CASE y \in Raw(h)
      BY <2>1, <2>2 DEF Linked, RawApart, Isolated
    <2>3. ASSUME NEW r \in Raw(h), y \in KidSet(h, r) PROVE FALSE
      BY <1>1, <2>1, <2>3, PendingIs, KidsIn DEF Closed
    <2> QED
      BY <1>3, <2>2, <2>3, PendingIs
  <1>4. ASSUME NEW y \in Pending(h) PROVE h.parent[x] # y
    <2> SUFFICES ASSUME h.parent[x] = y PROVE FALSE
      OBVIOUS
    <2>1. y \in h.live
      BY PendingIs
    <2>2. y \notin Raw(h) /\ x \in KidSet(h, y)
      BY <1>1, <2>1, KidsOwn
    <2>3. PICK r \in Raw(h) : y \in KidSet(h, r)
      BY <1>4, <2>2, PendingIs
    <2>4. h.children[y] = Nil
      BY <2>3 DEF Linked, RawApart
    <2> QED
      BY <2>1, <2>2, <2>4, KidsIn
  <1>5. ASSUME NEW y \in Pending(h) PROVE h.children[x] # y
    <2> SUFFICES ASSUME h.children[x] = y PROVE FALSE
      OBVIOUS
    <2>1. y \in h.live /\ h.parent[y] = x /\ x # Nil
      BY <1>1, <1>5, PendingIs, LinkedTypes DEF Linked, OwnersAgree
    <2>2. CASE y \in Raw(h)
      BY <2>1, <2>2 DEF Linked, RawApart, Isolated
    <2>3. ASSUME NEW r \in Raw(h), y \in KidSet(h, r) PROVE FALSE
      BY <2>1, <2>3, PendingIs, KidsOwn
    <2> QED
      BY <1>5, <2>2, <2>3, PendingIs
  <1> QED
    BY <1>1, <1>2, <1>3, <1>4, <1>5, LinkedTypes DEF Settled

\* What is below a settled node is settled.
LEMMA SettledBelow ==
    ASSUME NEW h, Linked(h), NEW n \in Settled(h)
    PROVE  Below(h, n) \subseteq Settled(h)
  <1>1. n \in h.live /\ Settled(h) \subseteq h.live
    BY DEF Settled
  <1>2. Down(h, Settled(h))
    BY SettledApart DEF Down, Closed
  <1> QED
    BY <1>1, <1>2, SettledApart, BelowLeast

\* Nothing leads to a settled node that is linked nowhere.
LEMMA FreeNode ==
    ASSUME NEW h, Linked(h), NEW n \in Settled(h), Isolated(h, n), NEW x \in h.live
    PROVE  h.next[x] # n /\ h.prev[x] # n /\ h.children[x] # n
  <1>1. n \in h.live /\ n # Nil /\ x # Nil /\ h.next[n] = Nil /\ h.prev[n] = Nil /\ h.parent[n] = Nil
    BY LinkedTypes DEF Settled, Isolated
  <1>2. h.next[x] # n /\ h.prev[x] # n
    BY <1>1, OnePredecessor
  <1>3. CASE x \in Raw(h)
    <2>1. h.children[x] # Nil => h.children[x] \in Pending(h)
      BY <1>3, PendingIs, KidsIn
    <2> QED
      BY <1>1, <1>2, <2>1 DEF Settled
  <1>4. CASE x \notin Raw(h)
    BY <1>1, <1>2, <1>4 DEF Linked, OwnersAgree
  <1> QED
    BY <1>2, <1>3, <1>4

\* Copied trees stay as they are if their members do.
LEMMA RawKept ==
    ASSUME NEW h, Linked(h), NEW g, g \in Heaps, Raw(g) \subseteq Raw(h),
           \A r \in Raw(g) : \A x \in {r} \cup KidSet(h, r) :
               /\ g.next[x] = h.next[x] /\ g.prev[x] = h.prev[x]
               /\ g.parent[x] = h.parent[x] /\ g.children[x] = h.children[x],
           \A r \in Raw(g), x \in g.live : g.parent[x] # r,
           \A r \in Raw(g), q \in g.live : g.children[q] = g.children[r] => q = r
    PROVE  RawApart(g) /\ Pending(g) \subseteq Pending(h)
  <1>1. ASSUME NEW r \in Raw(g) PROVE KidSet(g, r) \subseteq KidSet(h, r)
    <2>1. r \in h.live /\ r \in Node /\ Linking(g) /\ Linking(h)
      BY LinkedTypes, PendingIs DEF Heaps, Linking
    <2>2. KidSet(g, r) = Reach(g.next, g.children[r]) /\ KidSet(h, r) \subseteq h.live
      BY <2>1, KidSetReached, KidsIn
    <2>3. Closed(g.next, KidSet(h, r))
      BY <2>1, KidsIn DEF Closed
    <2>4. g.children[r] = h.children[r] /\ g.children[r] \in Link /\ g.next \in [Node -> Link]
      BY <2>1 DEF Linking
    <2>5. g.children[r] # Nil => g.children[r] \in KidSet(h, r)
      BY <2>1, <2>4, KidsIn
    <2> QED
      BY <2>2, <2>3, <2>4, <2>5, ReachLeast
  <1>2. ASSUME NEW r \in Raw(g)
        PROVE  /\ Isolated(g, r) /\ g.prev[g.children[r]] = Nil
               /\ \A x \in KidSet(g, r) : g.children[x] = Nil
    <2>1. r \in Raw(h) /\ r \in h.live /\ g.children[r] = h.children[r] /\ h.children[r] # Nil
      BY PendingIs DEF Raw
    <2>2. h.children[r] \in KidSet(h, r)
      BY <2>1, KidsIn
    <2>3. g.prev[g.children[r]] = Nil
      BY <2>1, <2>2 DEF Linked, RawApart
    <2>4. Isolated(g, r)
      BY <2>1 DEF Linked, RawApart, Isolated
    <2>5. \A x \in KidSet(g, r) : g.children[x] = Nil
      BY <1>1, <2>1 DEF Linked, RawApart
    <2> QED
      BY <2>3, <2>4, <2>5
  <1> QED
    BY <1>1, <1>2 DEF RawApart, Pending, KidSet

-----------------------------------------------------------------------------
(* Insertion.                                                              *)

\* What insertion behind p does to the members.
PutAfter(h, g, p, n) ==
    /\ g \in Heaps /\ g.live = h.live /\ g.children = h.children
    /\ \A x \in Node :
          /\ g.next[x] = IF x = p THEN n ELSE IF x = n THEN h.next[p] ELSE h.next[x]
          /\ g.prev[x] = IF x = h.next[p] THEN n ELSE IF x = n THEN p ELSE h.prev[x]
          /\ g.parent[x] = IF x = n THEN h.parent[p] ELSE h.parent[x]

\* A member set at one node; at no node when there is none.
LEMMA PutTyped ==
    ASSUME NEW f \in [Node -> Link], NEW x, NEW v \in Link
    PROVE  /\ Put(f, x, v) \in [Node -> Link]
           /\ \A y \in Node : Put(f, x, v)[y] = IF y = x THEN v ELSE f[y]
  BY DEF Put

\* `mpt_gnode_after` sets the members of three nodes only.
LEMMA AfterPuts ==
    ASSUME NEW h, h \in Heaps, NEW p \in Node, NEW n \in Node, p # n
    PROVE  PutAfter(h, mpt_gnode_after(h, p, n), p, n)
  <1> DEFINE nx == h.next[p]
             a == Put(Put(h.next, n, nx), p, n)
             b == Put(Put(h.prev, n, p), nx, n)
             c == Put(h.parent, n, h.parent[p])
             g == mpt_gnode_after(h, p, n)
  <1>1. h.next \in [Node -> Link] /\ h.prev \in [Node -> Link] /\ h.parent \in [Node -> Link]
        /\ nx \in Link /\ p \in Link /\ n \in Link /\ h.parent[p] \in Link /\ p # Nil
    BY NilAssumption DEF Heaps, Link
  <1>2. a \in [Node -> Link] /\ \A x \in Node : a[x] = IF x = p THEN n ELSE IF x = n THEN nx ELSE h.next[x]
    <2> HIDE DEF nx
    <2> QED
      BY <1>1, PutTyped
  <1>3. b \in [Node -> Link] /\ \A x \in Node : b[x] = IF x = nx THEN n ELSE IF x = n THEN p ELSE h.prev[x]
    <2> HIDE DEF nx
    <2> QED
      BY <1>1, PutTyped
  <1>4. c \in [Node -> Link] /\ \A x \in Node : c[x] = IF x = n THEN h.parent[p] ELSE h.parent[x]
    BY <1>1, PutTyped
  <1>5. g = [h EXCEPT !.next = a, !.prev = b, !.parent = c]
    BY <1>1 DEF mpt_gnode_after
  <1> HIDE DEF a, b, c
  <1>6. g \in Heaps /\ g.live = h.live /\ g.children = h.children /\ g.next = a /\ g.prev = b /\ g.parent = c
    BY <1>1, <1>2, <1>3, <1>4, <1>5 DEF Heaps
  <1> QED
    BY <1>2, <1>3, <1>4, <1>6 DEF PutAfter

\* A node that is linked nowhere may be placed behind one that is not below it.
LEMMA AfterLinked ==
    ASSUME NEW h, Linked(h), NEW p \in Settled(h), NEW n \in Settled(h), Isolated(h, n),
           p \notin Tree(h, n), NEW g, PutAfter(h, g, p, n)
    PROVE  Linked(g) /\ Pending(g) \subseteq Pending(h)
  <1> DEFINE B == Below(h, n)  nx == h.next[p]
  <1>1. p \in h.live /\ n \in h.live /\ p # n /\ p \notin B
    BY TreeIs DEF Settled
  <1>2. h.next[n] = Nil /\ h.prev[n] = Nil /\ h.parent[n] = Nil
    BY DEF Isolated
  <1>3. /\ h.live \subseteq Node /\ Nil \notin h.live
        /\ \A x \in h.live : /\ h.next[x] \in h.live \cup {Nil} /\ h.prev[x] \in h.live \cup {Nil}
                             /\ h.parent[x] \in h.live \cup {Nil}
                             /\ h.children[x] \in h.live \cup {Nil}
    BY LinkedTypes
  <1>4. \A x \in h.live : h.next[x] # n /\ h.prev[x] # n /\ h.children[x] # n
    BY FreeNode
  <1>5. nx \in h.live \cup {Nil} /\ nx # n /\ nx # p
    <2>1. nx # p
      <3> SUFFICES ASSUME nx = p PROVE FALSE
        OBVIOUS
      <3>1. {p} \in SUBSET h.live /\ {p} # {} /\ \A x \in {p} : h.next[x] = p
        BY <1>1
      <3> QED
        BY <3>1 DEF Linked, Acyclic
    <2> QED
      BY <1>1, <1>3, <1>4, <2>1
  <1>6. g \in Heaps /\ g.live = h.live /\ g.children = h.children
        /\ \A x \in h.live :
              /\ g.next[x] = IF x = p THEN n ELSE IF x = n THEN nx ELSE h.next[x]
              /\ g.prev[x] = IF x = nx THEN n ELSE IF x = n THEN p ELSE h.prev[x]
              /\ g.parent[x] = IF x = n THEN h.parent[p] ELSE h.parent[x]
    BY <1>3 DEF PutAfter
  <1>7. LinksLive(g)
    BY <1>1, <1>3, <1>5, <1>6 DEF LinksLive
  <1>8. PairsAgree(g)
    <2> SUFFICES ASSUME NEW x \in h.live, NEW y \in h.live PROVE g.next[x] = y <=> g.prev[y] = x
      BY <1>6 DEF PairsAgree
    <2>1. \A u, v \in h.live : h.next[u] = v <=> h.prev[v] = u
      BY DEF Linked, PairsAgree
    <2> HIDE DEF nx
    <2>2. h.next[p] = nx
      BY DEF nx
    <2> QED
      BY <1>1, <1>2, <1>3, <1>4, <1>5, <1>6, <2>1, <2>2
  <1>9. ParentsAgree(g)
    <2> SUFFICES ASSUME NEW x \in h.live, g.next[x] # Nil PROVE g.parent[g.next[x]] = g.parent[x]
      BY <1>6 DEF ParentsAgree
    <2>1. \A u \in h.live : h.next[u] # Nil => h.parent[h.next[u]] = h.parent[u]
      BY DEF Linked, ParentsAgree
    <2> QED
      BY <1>1, <1>2, <1>3, <1>4, <1>5, <1>6, <2>1
  <1>10. Raw(g) = Raw(h)
    BY <1>3, <1>4, <1>6 DEF Raw
  <1>11. OwnersAgree(g)
    <2> SUFFICES ASSUME NEW q \in h.live, NEW c \in h.live, q \notin Raw(h)
                 PROVE  g.children[q] = c <=> g.parent[c] = q /\ g.prev[c] = Nil
      BY <1>6, <1>10 DEF OwnersAgree
    <2>1. h.children[q] = c <=> h.parent[c] = q /\ h.prev[c] = Nil
      BY DEF Linked, OwnersAgree
    <2>2. c = nx => h.prev[c] = p
      BY <1>1, OnePredecessor
    <2> QED
      BY <1>1, <1>2, <1>3, <1>4, <1>6, <2>1, <2>2
  <1>12. RawApart(g) /\ Pending(g) \subseteq Pending(h)
    <2>1. ASSUME NEW r \in Raw(g), NEW x \in {r} \cup KidSet(h, r)
          PROVE  /\ g.next[x] = h.next[x] /\ g.prev[x] = h.prev[x]
                 /\ g.parent[x] = h.parent[x] /\ g.children[x] = h.children[x]
      <3>1. x \in Pending(h) /\ x \in h.live
        BY <1>10, <2>1, PendingIs
      <3>2. x # p /\ x # n /\ x # nx
        BY <3>1, <1>3, SettledApart DEF Settled
      <3> QED
        BY <1>6, <3>1, <3>2
    <2>2. ASSUME NEW r \in Raw(g), NEW x \in g.live PROVE g.parent[x] # r
      <3>1. r \in Raw(h) /\ \A y \in h.live : h.parent[y] # r
        BY <1>10 DEF Linked, RawApart
      <3> QED
        BY <1>1, <1>6, <3>1
    <2>3. ASSUME NEW r \in Raw(g), NEW q \in g.live, g.children[q] = g.children[r] PROVE q = r
      BY <1>6, <1>10, <2>3 DEF Linked, RawApart
    <2> QED
      BY <1>6, <1>10, <2>1, <2>2, <2>3, RawKept
  <1>13. Acyclic(g)
    <2> SUFFICES ASSUME NEW C \in SUBSET h.live, C # {}
                 PROVE  \E x \in C : \A y \in C : g.next[y] # x /\ g.children[y] # x
      BY <1>6 DEF Acyclic
    <2>1. Down(h, B) /\ B \subseteq h.live
      BY <1>1, BelowProps
    <2>2. \A x \in B : h.next[x] # Nil => h.next[x] \in B
      BY <2>1 DEF Down, Closed
    <2>3. \A x \in B \cup {n} : h.children[x] # Nil => h.children[x] \in B
      BY <1>1, <2>1, BelowProps DEF Down, Closed
    <2>4. \A D \in SUBSET h.live : D # {} => \E x \in D : \A y \in D : h.next[y] # x /\ h.children[y] # x
      BY DEF Linked, Acyclic
    <2>5. nx \notin B
      <3> SUFFICES ASSUME nx \in B PROVE FALSE
        OBVIOUS
      <3>1. h.prev[nx] = p /\ nx \in h.live
        BY <1>1, <1>3, <2>1, OnePredecessor
      <3>2. PICK z \in h.live : (z \in B /\ h.next[z] = nx) \/ h.children[z] = nx
        BY <1>1, <2>1, BelowProps
      <3>3. z = p
        BY <1>1, <1>3, <3>1, <3>2, OnePredecessor
      <3> QED
        BY <1>1, <1>3, <3>1, <3>2, <3>3, OnePredecessor
    <2>6. CASE C \subseteq B \cup {n}
      <3>1. PICK x \in C : \A y \in C : h.next[y] # x /\ h.children[y] # x
        BY <2>4
      <3> QED
        BY <1>1, <1>6, <2>5, <2>6, <3>1, <1>4, <1>5
    <2>7. CASE ~(C \subseteq B \cup {n})
      <3> DEFINE D == C \ (B \cup {n})
      <3>1. PICK x \in D : \A y \in D : h.next[y] # x /\ h.children[y] # x
        <4>1. D \in SUBSET h.live /\ D # {}
          BY <2>7
        <4> HIDE DEF D
        <4> QED
          BY <2>4, <4>1
      <3>2. \A y \in C \ D : h.next[y] # x /\ h.children[y] # x
        BY <1>2, <1>3, <2>2, <2>3, <3>1
      <3>3. \A y \in C : y # n => g.next[y] # x
        BY <1>6, <3>1, <3>2
      <3>4. \A y \in C : g.children[y] # x
        BY <1>6, <3>1, <3>2
      <3>5. CASE g.next[n] # x \/ n \notin C
        BY <3>3, <3>4, <3>5
      <3>6. CASE g.next[n] = x /\ n \in C
        <4>1. x = nx
          BY <1>1, <1>6, <3>6
        <4>2. p \notin C
          BY <1>1, <3>1, <4>1
        <4>3. \A y \in C : g.next[y] # n /\ g.children[y] # n
          BY <1>4, <1>5, <1>6, <4>2
        <4> QED
          BY <3>6, <4>3
      <3> QED
        BY <3>5, <3>6
    <2> QED
      BY <2>6, <2>7
  <1> QED
    BY <1>6, <1>7, <1>8, <1>9, <1>11, <1>12, <1>13 DEF Linked

\* What insertion in front of p does to the members.
PutBefore(h, g, p, n) ==
    /\ g \in Heaps /\ g.live = h.live
    /\ \A x \in Node :
          /\ g.next[x] = IF x = h.prev[p] THEN n ELSE IF x = n THEN p ELSE h.next[x]
          /\ g.prev[x] = IF x = p THEN n ELSE IF x = n THEN h.prev[p] ELSE h.prev[x]
          /\ g.parent[x] = IF x = n THEN h.parent[p] ELSE h.parent[x]
          /\ g.children[x] = IF h.prev[p] = Nil /\ x = h.parent[p] THEN n ELSE h.children[x]

\* `mpt_gnode_before` sets those of two neighbours, the node and the parent.
LEMMA BeforePuts ==
    ASSUME NEW h, h \in Heaps, NEW p \in Node, NEW n \in Node, p # n
    PROVE  PutBefore(h, mpt_gnode_before(h, p, n), p, n)
  <1> DEFINE pv == h.prev[p]
             a == Put(Put(h.next, n, p), pv, n)
             b == Put(Put(h.prev, n, pv), p, n)
             c == Put(h.parent, n, h.parent[p])
             d == IF pv # Nil THEN h.children ELSE Put(h.children, h.parent[p], n)
             g == mpt_gnode_before(h, p, n)
  <1>1. h.next \in [Node -> Link] /\ h.prev \in [Node -> Link] /\ h.parent \in [Node -> Link]
        /\ h.children \in [Node -> Link]
        /\ pv \in Link /\ p \in Link /\ n \in Link /\ h.parent[p] \in Link /\ p # Nil
    BY NilAssumption DEF Heaps, Link
  <1>2. a \in [Node -> Link] /\ \A x \in Node : a[x] = IF x = pv THEN n ELSE IF x = n THEN p ELSE h.next[x]
    <2> HIDE DEF pv
    <2> QED
      BY <1>1, PutTyped
  <1>3. b \in [Node -> Link] /\ \A x \in Node : b[x] = IF x = p THEN n ELSE IF x = n THEN pv ELSE h.prev[x]
    <2> HIDE DEF pv
    <2> QED
      BY <1>1, PutTyped
  <1>4. c \in [Node -> Link] /\ \A x \in Node : c[x] = IF x = n THEN h.parent[p] ELSE h.parent[x]
    BY <1>1, PutTyped
  <1>5. d \in [Node -> Link] /\ \A x \in Node : d[x] = IF pv = Nil /\ x = h.parent[p] THEN n ELSE h.children[x]
    BY <1>1, PutTyped
  <1>6. g = [h EXCEPT !.next = a, !.prev = b, !.parent = c, !.children = d]
    BY <1>1 DEF mpt_gnode_before
  <1> HIDE DEF a, b, c, d, g
  <1>7. g \in Heaps /\ g.live = h.live /\ g.children = d /\ g.next = a /\ g.prev = b /\ g.parent = c
    <2>1. a \in [Node -> Link] /\ b \in [Node -> Link] /\ c \in [Node -> Link] /\ d \in [Node -> Link]
      BY <1>2, <1>3, <1>4, <1>5
    <2> QED
      BY <2>1, <1>6 DEF Heaps
  <1>8. \A x \in Node : g.next[x] = IF x = h.prev[p] THEN n ELSE IF x = n THEN p ELSE h.next[x]
    BY <1>2, <1>7
  <1>9. \A x \in Node : g.prev[x] = IF x = p THEN n ELSE IF x = n THEN h.prev[p] ELSE h.prev[x]
    BY <1>3, <1>7
  <1>10. \A x \in Node : g.parent[x] = IF x = n THEN h.parent[p] ELSE h.parent[x]
    BY <1>4, <1>7
  <1>11. \A x \in Node : g.children[x] = IF h.prev[p] = Nil /\ x = h.parent[p] THEN n ELSE h.children[x]
    BY <1>5, <1>7
  <1>12. PutBefore(h, g, p, n)
    BY <1>7, <1>8, <1>9, <1>10, <1>11 DEF PutBefore
  <1> QED
    BY <1>12 DEF g

\* A node that is linked nowhere may be placed in front of one that is not below it.
LEMMA BeforeLinked ==
    ASSUME NEW h, Linked(h), NEW p \in Settled(h), NEW n \in Settled(h), Isolated(h, n),
           p \notin Tree(h, n), NEW g, PutBefore(h, g, p, n)
    PROVE  Linked(g) /\ Pending(g) \subseteq Pending(h)
  <1> DEFINE B == Below(h, n)  pv == h.prev[p]  up == h.parent[p]
  <1>1. p \in h.live /\ n \in h.live /\ p # n /\ p \notin B
    BY TreeIs DEF Settled
  <1>2. h.next[n] = Nil /\ h.prev[n] = Nil /\ h.parent[n] = Nil
    BY DEF Isolated
  <1>3. /\ h.live \subseteq Node /\ Nil \notin h.live
        /\ \A x \in h.live : /\ h.next[x] \in h.live \cup {Nil} /\ h.prev[x] \in h.live \cup {Nil}
                             /\ h.parent[x] \in h.live \cup {Nil}
                             /\ h.children[x] \in h.live \cup {Nil}
    BY LinkedTypes
  <1>4. \A x \in h.live : h.next[x] # n /\ h.prev[x] # n /\ h.children[x] # n
    BY FreeNode
  <1>5. pv \in h.live \cup {Nil} /\ pv # n /\ pv # p /\ up \in h.live \cup {Nil}
    <2>1. pv # p
      <3> SUFFICES ASSUME pv = p PROVE FALSE
        OBVIOUS
      <3>1. h.next[p] = p
        BY <1>1, OnePredecessor
      <3>2. {p} \in SUBSET h.live /\ {p} # {} /\ \A x \in {p} : h.next[x] = p
        BY <1>1, <3>1
      <3> QED
        BY <3>2 DEF Linked, Acyclic
    <2> QED
      BY <1>1, <1>3, <1>4, <2>1
  <1>6. g \in Heaps /\ g.live = h.live
        /\ \A x \in h.live :
              /\ g.next[x] = IF x = pv THEN n ELSE IF x = n THEN p ELSE h.next[x]
              /\ g.prev[x] = IF x = p THEN n ELSE IF x = n THEN pv ELSE h.prev[x]
              /\ g.parent[x] = IF x = n THEN up ELSE h.parent[x]
              /\ g.children[x] = IF pv = Nil /\ x = up THEN n ELSE h.children[x]
    BY <1>3 DEF PutBefore
  <1>7. LinksLive(g)
    BY <1>1, <1>3, <1>5, <1>6 DEF LinksLive
  <1>8. PairsAgree(g)
    <2> SUFFICES ASSUME NEW x \in h.live, NEW y \in h.live PROVE g.next[x] = y <=> g.prev[y] = x
      BY <1>6 DEF PairsAgree
    <2>1. \A u, v \in h.live : h.next[u] = v <=> h.prev[v] = u
      BY DEF Linked, PairsAgree
    <2> HIDE DEF pv
    <2>2. h.prev[p] = pv
      BY DEF pv
    <2> QED
      BY <1>1, <1>2, <1>3, <1>4, <1>5, <1>6, <2>1, <2>2
  <1>9. ParentsAgree(g)
    <2> SUFFICES ASSUME NEW x \in h.live, g.next[x] # Nil PROVE g.parent[g.next[x]] = g.parent[x]
      BY <1>6 DEF ParentsAgree
    <2>1. \A u \in h.live : h.next[u] # Nil => h.parent[h.next[u]] = h.parent[u]
      BY DEF Linked, ParentsAgree
    <2>2. pv # Nil => h.next[pv] = p
      BY <1>1, <1>5, OnePredecessor
    <2> QED
      BY <1>1, <1>2, <1>3, <1>4, <1>5, <1>6, <2>1, <2>2
  <1>10. up \notin Pending(h) /\ up \notin Raw(h)
    BY <1>3, SettledApart, PendingIs DEF Settled
  <1>11. pv = Nil /\ up # Nil => h.children[up] = p
    BY <1>1, <1>5, <1>10 DEF Linked, OwnersAgree
  <1>12. Raw(g) = Raw(h)
    <2> SUFFICES ASSUME NEW x \in h.live
                 PROVE  (g.children[x] # Nil /\ g.parent[g.children[x]] = Nil)
                          <=> (h.children[x] # Nil /\ h.parent[h.children[x]] = Nil)
      BY <1>6 DEF Raw
    <2>1. CASE pv = Nil /\ x = up
      BY <1>1, <1>3, <1>6, <1>11, <2>1
    <2>2. CASE ~(pv = Nil /\ x = up)
      BY <1>3, <1>4, <1>6, <2>2
    <2> QED
      BY <2>1, <2>2
  <1>13. OwnersAgree(g)
    <2> SUFFICES ASSUME NEW q \in h.live, NEW c \in h.live, q \notin Raw(h)
                 PROVE  g.children[q] = c <=> g.parent[c] = q /\ g.prev[c] = Nil
      BY <1>6, <1>12 DEF OwnersAgree
    <2>1. h.children[q] = c <=> h.parent[c] = q /\ h.prev[c] = Nil
      BY DEF Linked, OwnersAgree
    <2>2. CASE c = n
      BY <1>1, <1>3, <1>4, <1>6, <2>2
    <2>3. CASE c = p
      <3>1. g.prev[p] = n /\ n # Nil
        BY <1>1, <1>3, <1>6
      <3>2. g.children[q] # p
        BY <1>1, <1>6, <2>1, <2>3
      <3> QED
        BY <2>3, <3>1, <3>2
    <2>4. CASE c # n /\ c # p
      <3>1. g.parent[c] = h.parent[c] /\ g.prev[c] = h.prev[c]
        BY <1>6, <2>4
      <3>2. CASE pv = Nil /\ q = up
        <4>1. g.children[q] # c /\ h.children[q] # c
          BY <1>3, <1>6, <1>11, <2>4, <3>2
        <4> QED
          BY <2>1, <3>1, <4>1
      <3>3. CASE ~(pv = Nil /\ q = up)
        BY <1>6, <2>1, <3>1, <3>3
      <3> QED
        BY <3>2, <3>3
    <2> QED
      BY <2>2, <2>3, <2>4
  <1>14. RawApart(g) /\ Pending(g) \subseteq Pending(h)
    <2>1. ASSUME NEW r \in Raw(g), NEW x \in {r} \cup KidSet(h, r)
          PROVE  /\ g.next[x] = h.next[x] /\ g.prev[x] = h.prev[x]
                 /\ g.parent[x] = h.parent[x] /\ g.children[x] = h.children[x]
      <3>1. x \in Pending(h) /\ x \in h.live
        BY <1>12, <2>1, PendingIs
      <3>2. x # p /\ x # n /\ x # pv /\ x # up
        BY <3>1, <1>3, SettledApart DEF Settled
      <3> QED
        BY <1>6, <3>1, <3>2
    <2>2. ASSUME NEW r \in Raw(g), NEW x \in g.live PROVE g.parent[x] # r
      <3>1. r \in Raw(h) /\ \A y \in h.live : h.parent[y] # r
        BY <1>12 DEF Linked, RawApart
      <3> QED
        BY <1>1, <1>6, <3>1
    <2>3. ASSUME NEW r \in Raw(g), NEW q \in g.live, g.children[q] = g.children[r] PROVE q = r
      <3>1. r \in Raw(h) /\ r \in h.live /\ r # up /\ q \in h.live
        BY <1>6, <1>10, <1>12, <2>3, PendingIs
      <3>2. g.children[r] = h.children[r] /\ h.children[r] # n
        BY <1>4, <1>6, <3>1
      <3>3. g.children[q] = h.children[q]
        BY <1>6, <2>3, <3>1, <3>2
      <3> QED
        BY <2>3, <3>1, <3>2, <3>3 DEF Linked, RawApart
    <2> QED
      BY <1>6, <1>12, <2>1, <2>2, <2>3, RawKept
  <1>15. Acyclic(g)
    <2> SUFFICES ASSUME NEW C \in SUBSET h.live, C # {}
                 PROVE  \E x \in C : \A y \in C : g.next[y] # x /\ g.children[y] # x
      BY <1>6 DEF Acyclic
    <2>1. Down(h, B) /\ B \subseteq h.live
      BY <1>1, BelowProps
    <2>2. \A x \in B : h.next[x] # Nil => h.next[x] \in B
      BY <2>1 DEF Down, Closed
    <2>3. \A x \in B \cup {n} : h.children[x] # Nil => h.children[x] \in B
      BY <1>1, <2>1, BelowProps DEF Down, Closed
    <2>4. \A D \in SUBSET h.live : D # {} => \E x \in D : \A y \in D : h.next[y] # x /\ h.children[y] # x
      BY DEF Linked, Acyclic
    <2>5. pv \notin B \cup {n}
      <3> SUFFICES ASSUME pv \in B PROVE FALSE
        BY <1>5
      <3>1. h.next[pv] = p /\ p # Nil
        BY <1>1, <1>3, <2>1, OnePredecessor
      <3> QED
        BY <1>1, <2>2, <3>1
    <2>6. pv = Nil => up \notin B \cup {n}
      BY <1>1, <1>3, <1>11, <2>1, <2>3
    <2>7. CASE C \subseteq B \cup {n}
      <3>1. PICK x \in C : \A y \in C : h.next[y] # x /\ h.children[y] # x
        BY <2>4
      <3> QED
        BY <1>1, <1>6, <2>5, <2>6, <2>7, <3>1
    <2>8. CASE ~(C \subseteq B \cup {n})
      <3> DEFINE D == C \ (B \cup {n})
      <3>1. PICK x \in D : \A y \in D : h.next[y] # x /\ h.children[y] # x
        <4>1. D \in SUBSET h.live /\ D # {}
          BY <2>8
        <4> HIDE DEF D
        <4> QED
          BY <2>4, <4>1
      <3>2. \A y \in C \ D : h.next[y] # x /\ h.children[y] # x
        BY <1>2, <1>3, <2>2, <2>3, <3>1
      <3>3. \A y \in C : y # n => g.next[y] # x
        BY <1>6, <3>1, <3>2
      <3>4. \A y \in C : g.children[y] # x
        BY <1>6, <3>1, <3>2
      <3>5. CASE g.next[n] # x \/ n \notin C
        BY <3>3, <3>4, <3>5
      <3>6. CASE g.next[n] = x /\ n \in C
        <4>1. x = p
          BY <1>1, <1>5, <1>6, <3>6
        <4>2. pv \notin C
          <5>1. pv # Nil => h.next[pv] = p
            BY <1>1, <1>5, OnePredecessor
          <5> QED
            BY <1>3, <2>5, <3>1, <4>1, <5>1
        <4>3. pv = Nil => up \notin C
          BY <1>3, <1>11, <2>6, <3>1, <4>1
        <4>4. \A y \in C : g.next[y] # n /\ g.children[y] # n
          BY <1>1, <1>4, <1>6, <4>2, <4>3
        <4> QED
          BY <3>6, <4>4
      <3> QED
        BY <3>5, <3>6
    <2> QED
      BY <2>7, <2>8
  <1> QED
    BY <1>6, <1>7, <1>8, <1>9, <1>13, <1>14, <1>15 DEF Linked

\* The first child of a node without children.
LEMMA FirstChildLinked ==
    ASSUME NEW h, Linked(h), NEW p \in Settled(h), NEW n \in Settled(h), Isolated(h, n),
           p \notin Tree(h, n), h.children[p] = Nil
    PROVE  Linked(FirstChild(h, p, n)) /\ Pending(FirstChild(h, p, n)) \subseteq Pending(h)
  <1> DEFINE B == Below(h, n)
             a == Put(h.children, p, n)
             b == Put(h.parent, n, p)
             g == FirstChild(h, p, n)
  <1>1. p \in h.live /\ n \in h.live /\ p # n /\ p \notin B
    BY TreeIs DEF Settled
  <1>2. h.next[n] = Nil /\ h.prev[n] = Nil /\ h.parent[n] = Nil
    BY DEF Isolated
  <1>3. /\ h.live \subseteq Node /\ Nil \notin h.live
        /\ \A x \in h.live : /\ h.next[x] \in h.live \cup {Nil} /\ h.prev[x] \in h.live \cup {Nil}
                             /\ h.parent[x] \in h.live \cup {Nil}
                             /\ h.children[x] \in h.live \cup {Nil}
    BY LinkedTypes
  <1>4. \A x \in h.live : h.next[x] # n /\ h.prev[x] # n /\ h.children[x] # n
    BY FreeNode
  <1>5. h \in Heaps /\ p \in Link /\ n \in Link /\ h.children \in [Node -> Link] /\ h.parent \in [Node -> Link]
    BY <1>1, <1>3 DEF Linked, Heaps, Link
  <1>6. a \in [Node -> Link] /\ \A x \in Node : a[x] = IF x = p THEN n ELSE h.children[x]
    BY <1>5, PutTyped
  <1>7. b \in [Node -> Link] /\ \A x \in Node : b[x] = IF x = n THEN p ELSE h.parent[x]
    BY <1>5, PutTyped
  <1>8. g = [h EXCEPT !.children = a, !.parent = b]
    BY DEF FirstChild
  <1> HIDE DEF a, b, g
  <1>9. g \in Heaps /\ g.live = h.live /\ g.next = h.next /\ g.prev = h.prev
        /\ \A x \in h.live : /\ g.children[x] = IF x = p THEN n ELSE h.children[x]
                             /\ g.parent[x] = IF x = n THEN p ELSE h.parent[x]
    <2>1. g \in Heaps /\ g.live = h.live /\ g.next = h.next /\ g.prev = h.prev
          /\ g.children = a /\ g.parent = b
      BY <1>5, <1>6, <1>7, <1>8 DEF Heaps
    <2> QED
      BY <1>3, <1>6, <1>7, <2>1
  <1>10. LinksLive(g)
    BY <1>1, <1>3, <1>9 DEF LinksLive
  <1>11. PairsAgree(g)
    BY <1>9 DEF Linked, PairsAgree
  <1>12. ParentsAgree(g)
    BY <1>2, <1>3, <1>4, <1>9 DEF Linked, ParentsAgree
  <1>13. p \notin Raw(h) /\ \A x \in h.live : h.parent[x] # p
    <2>1. p \notin Raw(h)
      BY PendingIs DEF Settled
    <2>2. KidSet(h, p) = {}
      BY <1>1, KidsIn
    <2> QED
      BY <1>1, <2>1, <2>2, KidsOwn
  <1>14. Raw(g) = Raw(h)
    <2> SUFFICES ASSUME NEW x \in h.live
                 PROVE  (g.children[x] # Nil /\ g.parent[g.children[x]] = Nil)
                          <=> (h.children[x] # Nil /\ h.parent[h.children[x]] = Nil)
      BY <1>9 DEF Raw
    <2> QED
      BY <1>1, <1>3, <1>4, <1>9
  <1>15. OwnersAgree(g)
    <2> SUFFICES ASSUME NEW q \in h.live, NEW c \in h.live, q \notin Raw(h)
                 PROVE  g.children[q] = c <=> g.parent[c] = q /\ g.prev[c] = Nil
      BY <1>9, <1>14 DEF OwnersAgree
    <2>1. h.children[q] = c <=> h.parent[c] = q /\ h.prev[c] = Nil
      BY DEF Linked, OwnersAgree
    <2> QED
      BY <1>1, <1>2, <1>4, <1>9, <1>13, <2>1
  <1>16. RawApart(g) /\ Pending(g) \subseteq Pending(h)
    <2>1. ASSUME NEW r \in Raw(g), NEW x \in {r} \cup KidSet(h, r)
          PROVE  /\ g.next[x] = h.next[x] /\ g.prev[x] = h.prev[x]
                 /\ g.parent[x] = h.parent[x] /\ g.children[x] = h.children[x]
      <3>1. x \in Pending(h) /\ x \in h.live
        BY <1>14, <2>1, PendingIs
      <3>2. x # p /\ x # n
        BY <3>1 DEF Settled
      <3> QED
        BY <1>9, <3>1, <3>2
    <2>2. ASSUME NEW r \in Raw(g), NEW x \in g.live PROVE g.parent[x] # r
      <3>1. r \in Raw(h) /\ \A y \in h.live : h.parent[y] # r
        BY <1>14 DEF Linked, RawApart
      <3> QED
        BY <1>9, <1>13, <3>1
    <2>3. ASSUME NEW r \in Raw(g), NEW q \in g.live, g.children[q] = g.children[r] PROVE q = r
      <3>1. r \in Raw(h) /\ r \in h.live /\ r # p /\ q \in h.live
        BY <1>9, <1>13, <1>14, <2>3, PendingIs
      <3>2. g.children[r] = h.children[r] /\ h.children[r] # n
        BY <1>4, <1>9, <3>1
      <3>3. g.children[q] = h.children[q]
        BY <1>9, <2>3, <3>1, <3>2
      <3> QED
        BY <2>3, <3>1, <3>2, <3>3 DEF Linked, RawApart
    <2> QED
      BY <1>9, <1>14, <2>1, <2>2, <2>3, RawKept
  <1>17. Acyclic(g)
    <2> SUFFICES ASSUME NEW C \in SUBSET h.live, C # {}
                 PROVE  \E x \in C : \A y \in C : g.next[y] # x /\ g.children[y] # x
      BY <1>9 DEF Acyclic
    <2>1. Down(h, B) /\ B \subseteq h.live
      BY <1>1, BelowProps
    <2>2. \A x \in B : h.next[x] # Nil => h.next[x] \in B
      BY <2>1 DEF Down, Closed
    <2>3. \A x \in B \cup {n} : h.children[x] # Nil => h.children[x] \in B
      BY <1>1, <2>1, BelowProps DEF Down, Closed
    <2>4. \A D \in SUBSET h.live : D # {} => \E x \in D : \A y \in D : h.next[y] # x /\ h.children[y] # x
      BY DEF Linked, Acyclic
    <2>5. CASE C \subseteq B \cup {n}
      BY <1>1, <1>9, <2>4, <2>5
    <2>6. CASE ~(C \subseteq B \cup {n})
      <3> DEFINE D == C \ (B \cup {n})
      <3>1. PICK x \in D : \A y \in D : h.next[y] # x /\ h.children[y] # x
        <4>1. D \in SUBSET h.live /\ D # {}
          BY <2>6
        <4> HIDE DEF D
        <4> QED
          BY <2>4, <4>1
      <3>2. \A y \in C \ D : h.next[y] # x /\ h.children[y] # x
        BY <1>2, <1>3, <2>2, <2>3, <3>1
      <3> QED
        BY <1>9, <3>1, <3>2
    <2> QED
      BY <2>5, <2>6
  <1> QED
    BY <1>9, <1>10, <1>11, <1>12, <1>15, <1>16, <1>17 DEF Linked, g

-----------------------------------------------------------------------------
(* New nodes, and nodes that are taken out.                                *)

\* A new node is linked nowhere, and nothing changes for the others.
LEMMA NewLinked ==
    ASSUME NEW h, Linked(h), NEW n \in Node \ h.live, NEW name \in Names \cup {Nil}
    PROVE  /\ Linked(mpt_node_new(h, n, name))
           /\ Pending(mpt_node_new(h, n, name)) \subseteq Pending(h)
           /\ \A g : g = mpt_node_new(h, n, name) =>
                 /\ g.live = h.live \cup {n}
                 /\ Isolated(g, n) /\ g.children[n] = Nil
                 /\ \A x \in h.live : /\ g.next[x] = h.next[x] /\ g.prev[x] = h.prev[x]
                                      /\ g.parent[x] = h.parent[x] /\ g.children[x] = h.children[x]
  <1> DEFINE a == Put(h.next, n, Nil)  b == Put(h.prev, n, Nil)
             c == Put(h.parent, n, Nil)  d == Put(h.children, n, Nil)
             e == Put(h.name, n, name)  f == Put(h.meta, n, Nil)
  <1>1. PICK g : g = mpt_node_new(h, n, name)
    OBVIOUS
  <1>2. /\ h.live \subseteq Node /\ Nil \notin h.live
        /\ \A x \in h.live : /\ h.next[x] \in h.live \cup {Nil} /\ h.prev[x] \in h.live \cup {Nil}
                             /\ h.parent[x] \in h.live \cup {Nil}
                             /\ h.children[x] \in h.live \cup {Nil}
    BY LinkedTypes
  <1>3. h \in Heaps /\ Nil \in Link /\ n \in Node /\ n # Nil
    BY NilAssumption DEF Linked, Link
  <1>4. /\ a \in [Node -> Link] /\ \A x \in Node : a[x] = IF x = n THEN Nil ELSE h.next[x]
        /\ b \in [Node -> Link] /\ \A x \in Node : b[x] = IF x = n THEN Nil ELSE h.prev[x]
        /\ c \in [Node -> Link] /\ \A x \in Node : c[x] = IF x = n THEN Nil ELSE h.parent[x]
        /\ d \in [Node -> Link] /\ \A x \in Node : d[x] = IF x = n THEN Nil ELSE h.children[x]
    <2>1. h.next \in [Node -> Link] /\ h.prev \in [Node -> Link] /\ h.parent \in [Node -> Link]
          /\ h.children \in [Node -> Link]
      BY <1>3 DEF Heaps
    <2> QED
      BY <1>3, <2>1, PutTyped
  <1>5. e \in [Node -> Names \cup {Nil}] /\ f \in [Node -> {Nil}]
    BY <1>3 DEF Heaps, Put
  <1>6. g = [h EXCEPT !.live = @ \cup {n}, !.name = e, !.meta = f, !.next = a, !.prev = b,
                      !.parent = c, !.children = d]
    BY <1>1 DEF mpt_node_new
  <1> HIDE DEF a, b, c, d, e, f
  <1>7. g \in Heaps /\ g.live = h.live \cup {n} /\ g.next = a /\ g.prev = b /\ g.parent = c /\ g.children = d
    BY <1>3, <1>4, <1>5, <1>6 DEF Heaps
  <1>8. /\ g.next[n] = Nil /\ g.prev[n] = Nil /\ g.parent[n] = Nil /\ g.children[n] = Nil
        /\ \A x \in h.live : /\ g.next[x] = h.next[x] /\ g.prev[x] = h.prev[x]
                             /\ g.parent[x] = h.parent[x] /\ g.children[x] = h.children[x]
    BY <1>2, <1>3, <1>4, <1>7
  <1>9. LinksLive(g)
    BY <1>2, <1>7, <1>8 DEF LinksLive
  <1>10. PairsAgree(g)
    BY <1>2, <1>3, <1>7, <1>8 DEF PairsAgree, Linked
  <1>11. ParentsAgree(g)
    BY <1>2, <1>3, <1>7, <1>8 DEF ParentsAgree, Linked
  <1>12. Raw(g) = Raw(h)
    BY <1>2, <1>7, <1>8 DEF Raw
  <1>13. OwnersAgree(g)
    <2> SUFFICES ASSUME NEW q \in g.live, NEW y \in g.live, q \notin Raw(h)
                 PROVE  g.children[q] = y <=> g.parent[y] = q /\ g.prev[y] = Nil
      BY <1>12 DEF OwnersAgree
    <2>1. q \in h.live /\ y \in h.live => (h.children[q] = y <=> h.parent[y] = q /\ h.prev[y] = Nil)
      BY DEF Linked, OwnersAgree
    <2> QED
      BY <1>2, <1>3, <1>7, <1>8, <2>1
  <1>14. RawApart(g) /\ Pending(g) \subseteq Pending(h)
    <2>1. ASSUME NEW r \in Raw(g), NEW x \in {r} \cup KidSet(h, r)
          PROVE  /\ g.next[x] = h.next[x] /\ g.prev[x] = h.prev[x]
                 /\ g.parent[x] = h.parent[x] /\ g.children[x] = h.children[x]
      BY <1>8, <1>12, <2>1, PendingIs
    <2>2. ASSUME NEW r \in Raw(g), NEW x \in g.live PROVE g.parent[x] # r
      <3>1. r \in h.live /\ \A y \in h.live : h.parent[y] # r
        BY <1>12, PendingIs DEF Linked, RawApart
      <3> QED
        BY <1>2, <1>7, <1>8, <3>1
    <2>3. ASSUME NEW r \in Raw(g), NEW q \in g.live, g.children[q] = g.children[r] PROVE q = r
      <3>1. r \in Raw(h) /\ r \in h.live /\ g.children[r] # Nil
        BY <1>12, PendingIs DEF Raw
      <3>2. q \in h.live
        BY <1>7, <1>8, <2>3, <3>1
      <3> QED
        BY <1>8, <2>3, <3>1, <3>2 DEF Linked, RawApart
    <2> QED
      BY <1>7, <1>12, <2>1, <2>2, <2>3, RawKept
  <1>15. Acyclic(g)
    <2> SUFFICES ASSUME NEW C \in SUBSET g.live, C # {}
                 PROVE  \E x \in C : \A y \in C : g.next[y] # x /\ g.children[y] # x
      BY DEF Acyclic
    <2>1. CASE n \in C
      BY <1>2, <1>3, <1>7, <1>8, <2>1
    <2>2. CASE n \notin C
      <3>1. C \in SUBSET h.live
        BY <1>7, <2>2
      <3>2. PICK x \in C : \A y \in C : h.next[y] # x /\ h.children[y] # x
        BY <3>1 DEF Linked, Acyclic
      <3> QED
        BY <1>8, <3>1, <3>2
    <2> QED
      BY <2>1, <2>2
  <1> QED
    BY <1>1, <1>7, <1>8, <1>9, <1>10, <1>11, <1>13, <1>14, <1>15 DEF Linked, Isolated

\* Taking a node out closes its list.
LEMMA UnlinkLinked ==
    ASSUME NEW h, Linked(h), NEW n \in Settled(h)
    PROVE  Linked(mpt_node_unlink(h, n)) /\ Pending(mpt_node_unlink(h, n)) \subseteq Pending(h)
  <1> DEFINE nx == h.next[n]  pv == h.prev[n]  up == h.parent[n]
             a == Put(Put(h.next, pv, nx), n, Nil)
             b == Put(Put(h.prev, nx, pv), n, Nil)
             c == Put(h.parent, n, Nil)
             d == IF pv # Nil THEN h.children ELSE Put(h.children, up, nx)
  <1>1. PICK g : g = mpt_node_unlink(h, n)
    OBVIOUS
  <1>2. /\ h.live \subseteq Node /\ Nil \notin h.live /\ n \in h.live
        /\ \A x \in h.live : /\ h.next[x] \in h.live \cup {Nil} /\ h.prev[x] \in h.live \cup {Nil}
                             /\ h.parent[x] \in h.live \cup {Nil}
                             /\ h.children[x] \in h.live \cup {Nil}
    BY LinkedTypes DEF Settled
  <1>3. /\ nx \in Settled(h) \cup {Nil} /\ pv \in Settled(h) \cup {Nil}
        /\ up \in Settled(h) \cup {Nil} /\ Settled(h) \subseteq h.live
        /\ \A r \in Raw(h) : r \notin Settled(h) /\ \A x \in KidSet(h, r) : x \notin Settled(h)
    BY SettledApart, PendingIs DEF Settled
  <1>4. h \in Heaps /\ Nil \in Link /\ nx \in Link /\ pv \in Link /\ up \in Link
    BY <1>2, <1>3 DEF Linked, Link
  <1>5. /\ a \in [Node -> Link] /\ b \in [Node -> Link] /\ c \in [Node -> Link] /\ d \in [Node -> Link]
        /\ \A x \in Node : /\ a[x] = IF x = n THEN Nil ELSE IF x = pv THEN nx ELSE h.next[x]
                           /\ b[x] = IF x = n THEN Nil ELSE IF x = nx THEN pv ELSE h.prev[x]
                           /\ c[x] = IF x = n THEN Nil ELSE h.parent[x]
                           /\ d[x] = IF pv = Nil /\ x = up THEN nx ELSE h.children[x]
    <2>1. h.next \in [Node -> Link] /\ h.prev \in [Node -> Link] /\ h.parent \in [Node -> Link]
          /\ h.children \in [Node -> Link]
      BY <1>4 DEF Heaps
    <2>2. a \in [Node -> Link] /\ \A x \in Node : a[x] = IF x = n THEN Nil ELSE IF x = pv THEN nx ELSE h.next[x]
      <3> HIDE DEF nx, pv
      <3> QED
        BY <1>4, <2>1, PutTyped
    <2>3. b \in [Node -> Link] /\ \A x \in Node : b[x] = IF x = n THEN Nil ELSE IF x = nx THEN pv ELSE h.prev[x]
      <3> HIDE DEF nx, pv
      <3> QED
        BY <1>4, <2>1, PutTyped
    <2>4. c \in [Node -> Link] /\ \A x \in Node : c[x] = IF x = n THEN Nil ELSE h.parent[x]
      BY <1>4, <2>1, PutTyped
    <2>5. d \in [Node -> Link] /\ \A x \in Node : d[x] = IF pv = Nil /\ x = up THEN nx ELSE h.children[x]
      <3> HIDE DEF nx, pv, up
      <3> QED
        BY <1>4, <2>1, PutTyped
    <2> QED
      BY <2>2, <2>3, <2>4, <2>5
  <1>6. g = [h EXCEPT !.next = a, !.prev = b, !.children = d, !.parent = c]
    BY <1>1 DEF mpt_node_unlink
  <1> HIDE DEF a, b, c, d
  <1>7. g \in Heaps /\ g.live = h.live /\ g.next = a /\ g.prev = b /\ g.parent = c /\ g.children = d
    BY <1>4, <1>5, <1>6 DEF Heaps
  <1>8. \A x \in h.live : /\ g.next[x] = IF x = n THEN Nil ELSE IF x = pv THEN nx ELSE h.next[x]
                          /\ g.prev[x] = IF x = n THEN Nil ELSE IF x = nx THEN pv ELSE h.prev[x]
                          /\ g.parent[x] = IF x = n THEN Nil ELSE h.parent[x]
                          /\ g.children[x] = IF pv = Nil /\ x = up THEN nx ELSE h.children[x]
    BY <1>2, <1>5, <1>7
  <1>9. n # Nil /\ nx # n /\ pv # n
    <2>1. nx # n
      <3> SUFFICES ASSUME nx = n PROVE FALSE
        OBVIOUS
      <3>1. {n} \in SUBSET h.live /\ {n} # {} /\ \A x \in {n} : h.next[x] = n
        BY <1>2
      <3> QED
        BY <3>1 DEF Linked, Acyclic
    <2>2. pv # n
      BY <1>2, <2>1, OnePredecessor
    <2> QED
      BY <1>2, <2>1, <2>2
  <1>10. /\ nx # Nil => h.prev[nx] = n /\ h.parent[nx] = up
         /\ pv # Nil => h.next[pv] = n /\ h.parent[pv] = up
         /\ pv = Nil /\ up # Nil => h.children[up] = n
         /\ \A x \in h.live : h.children[x] = n => pv = Nil /\ x = up
    <2>1. nx # Nil => h.prev[nx] = n /\ h.parent[nx] = up
      BY <1>2, OnePredecessor DEF Linked, ParentsAgree
    <2>2. pv # Nil => h.next[pv] = n /\ h.parent[pv] = up
      <3>1. pv # Nil => h.next[pv] = n
        BY <1>2, OnePredecessor
      <3> QED
        BY <1>2, <3>1 DEF Linked, ParentsAgree
    <2>3. pv = Nil /\ up # Nil => h.children[up] = n
      BY <1>2, <1>3 DEF Linked, OwnersAgree
    <2>4. ASSUME NEW x \in h.live, h.children[x] = n PROVE pv = Nil /\ x = up
      <3>1. x \notin Raw(h)
        BY <1>2, <1>3, <2>4, KidsIn
      <3> QED
        BY <1>2, <2>4, <3>1 DEF Linked, OwnersAgree
    <2> QED
      BY <2>1, <2>2, <2>3, <2>4
  <1>11. LinksLive(g)
    BY <1>2, <1>3, <1>7, <1>8 DEF LinksLive
  <1>12. PairsAgree(g)
    <2> SUFFICES ASSUME NEW x \in h.live, NEW y \in h.live PROVE g.next[x] = y <=> g.prev[y] = x
      BY <1>7 DEF PairsAgree
    <2>1. \A u, v \in h.live : h.next[u] = v <=> h.prev[v] = u
      BY DEF Linked, PairsAgree
    <2>2. h.next[n] = nx /\ h.prev[n] = pv
      OBVIOUS
    <2> HIDE DEF nx, pv
    <2> QED
      BY <1>2, <1>8, <1>9, <2>1, <2>2
  <1>13. ParentsAgree(g)
    <2> SUFFICES ASSUME NEW x \in h.live, g.next[x] # Nil PROVE g.parent[g.next[x]] = g.parent[x]
      BY <1>7 DEF ParentsAgree
    <2>1. \A u \in h.live : h.next[u] # Nil => h.parent[h.next[u]] = h.parent[u]
      BY DEF Linked, ParentsAgree
    <2>2. x # n => h.next[x] # n \/ x = pv
      BY <1>2, OnePredecessor
    <2> QED
      BY <1>2, <1>8, <1>9, <1>10, <2>1, <2>2
  <1>14. Raw(g) = Raw(h)
    <2> SUFFICES ASSUME NEW x \in h.live
                 PROVE  (g.children[x] # Nil /\ g.parent[g.children[x]] = Nil)
                          <=> (h.children[x] # Nil /\ h.parent[h.children[x]] = Nil)
      BY <1>7 DEF Raw
    <2>1. CASE pv = Nil /\ x = up
      <3>1. h.children[x] # Nil /\ h.parent[h.children[x]] # Nil
        BY <1>2, <1>10, <2>1
      <3>2. g.children[x] = nx
        BY <1>8, <2>1
      <3>3. nx # Nil => g.parent[nx] # Nil
        BY <1>2, <1>8, <1>9, <1>10, <2>1
      <3> QED
        BY <3>1, <3>2, <3>3
    <2>2. CASE ~(pv = Nil /\ x = up)
      BY <1>2, <1>8, <1>10, <2>2
    <2> QED
      BY <2>1, <2>2
  <1>15. OwnersAgree(g)
    <2> SUFFICES ASSUME NEW q \in h.live, NEW y \in h.live, q \notin Raw(h)
                 PROVE  g.children[q] = y <=> g.parent[y] = q /\ g.prev[y] = Nil
      BY <1>7, <1>14 DEF OwnersAgree
    <2>1. h.children[q] = y <=> h.parent[y] = q /\ h.prev[y] = Nil
      BY DEF Linked, OwnersAgree
    <2> HIDE DEF nx, pv, up
    <2>2. CASE y = n
      BY <1>2, <1>8, <1>9, <1>10, <2>2
    <2>3. CASE y = nx
      BY <1>2, <1>8, <1>9, <1>10, <2>1, <2>3
    <2>4. CASE y # n /\ y # nx
      BY <1>2, <1>8, <1>9, <1>10, <2>1, <2>4
    <2> QED
      BY <2>2, <2>3, <2>4
  <1>16. RawApart(g) /\ Pending(g) \subseteq Pending(h)
    <2>1. ASSUME NEW r \in Raw(g), NEW x \in {r} \cup KidSet(h, r)
          PROVE  /\ g.next[x] = h.next[x] /\ g.prev[x] = h.prev[x]
                 /\ g.parent[x] = h.parent[x] /\ g.children[x] = h.children[x]
      <3>1. x \in Pending(h) /\ x \in h.live
        BY <1>14, <2>1, PendingIs
      <3>2. x # n /\ x # nx /\ x # pv /\ x # up
        BY <3>1, <1>2, <1>3 DEF Settled
      <3> QED
        BY <1>8, <3>1, <3>2
    <2>2. ASSUME NEW r \in Raw(g), NEW x \in g.live PROVE g.parent[x] # r
      <3>1. r \in h.live /\ \A y \in h.live : h.parent[y] # r
        BY <1>14, PendingIs DEF Linked, RawApart
      <3> QED
        BY <1>2, <1>7, <1>8, <3>1
    <2>3. ASSUME NEW r \in Raw(g), NEW q \in g.live, g.children[q] = g.children[r] PROVE q = r
      <3>1. r \in Raw(h) /\ r \in h.live /\ q \in h.live /\ r # up
        BY <1>2, <1>3, <1>7, <1>14, <2>3, PendingIs
      <3>2. g.children[r] = h.children[r] /\ h.children[r] # Nil /\ h.children[r] \in KidSet(h, r)
        BY <1>8, <3>1, KidsIn DEF Raw
      <3>3. h.children[r] # nx
        BY <1>2, <1>3, <3>1, <3>2
      <3>4. g.children[q] = h.children[q]
        BY <1>8, <2>3, <3>1, <3>2, <3>3
      <3> QED
        BY <2>3, <3>1, <3>2, <3>4 DEF Linked, RawApart
    <2> QED
      BY <1>7, <1>14, <2>1, <2>2, <2>3, RawKept
  <1>17. Acyclic(g)
    <2> SUFFICES ASSUME NEW C \in SUBSET h.live, C # {}
                 PROVE  \E x \in C : \A y \in C : g.next[y] # x /\ g.children[y] # x
      BY <1>7 DEF Acyclic
    <2>1. \A D \in SUBSET h.live : D # {} => \E x \in D : \A y \in D : h.next[y] # x /\ h.children[y] # x
      BY DEF Linked, Acyclic
    <2>2. CASE n \in C
      <3>1. \A y \in h.live : g.next[y] # n /\ g.children[y] # n
        <4>1. \A y \in h.live : h.next[y] = n => y = pv
          BY <1>2, OnePredecessor
        <4> QED
          BY <1>2, <1>8, <1>9, <1>10, <4>1
      <3> QED
        BY <2>2, <3>1
    <2>3. CASE n \notin C
      <3> DEFINE D == C \cup {n}
      <3>1. PICK x \in D : \A y \in D : h.next[y] # x /\ h.children[y] # x
        <4>1. D \in SUBSET h.live /\ D # {}
          BY <1>2
        <4> HIDE DEF D
        <4> QED
          BY <2>1, <4>1
      <3>2. CASE x # n
        <4>1. x \in C /\ x # nx /\ x # Nil
          BY <1>2, <3>1, <3>2
        <4> QED
          BY <1>8, <3>1, <4>1
      <3>3. CASE x = n
        <4>1. pv \notin C /\ (pv = Nil => up \notin C)
          BY <1>2, <1>10, <3>1, <3>3
        <4>2. PICK z \in C : \A y \in C : h.next[y] # z /\ h.children[y] # z
          BY <2>1
        <4> QED
          BY <1>2, <1>8, <2>3, <4>1, <4>2
      <3> QED
        BY <3>2, <3>3
    <2> QED
      BY <2>2, <2>3
  <1> QED
    BY <1>1, <1>7, <1>11, <1>12, <1>13, <1>15, <1>16, <1>17 DEF Linked

-----------------------------------------------------------------------------
(* Insertion at a position.                                                *)

\* The nodes that n may be placed next to.
Beyond(h, n) == Settled(h) \ Tree(h, n)

\* Lists outside of a tree that is linked nowhere stay outside.
LEMMA BeyondClosed ==
    ASSUME NEW h, Linked(h), NEW n \in Settled(h), Isolated(h, n)
    PROVE  Closed(h.next, Beyond(h, n)) /\ Closed(h.prev, Beyond(h, n)) /\ Beyond(h, n) \subseteq h.live
  <1> DEFINE B == Below(h, n)  T == Beyond(h, n)
  <1>1. n \in h.live /\ Nil \notin h.live /\ Settled(h) \subseteq h.live
    BY LinkedTypes DEF Settled
  <1>2. T = Settled(h) \ ({n} \cup B)
    BY <1>1, TreeIs DEF Beyond
  <1>3. Down(h, B) /\ B \subseteq h.live
    BY <1>1, BelowProps
  <1>4. ASSUME NEW x \in T, h.next[x] # Nil PROVE h.next[x] \in T
    <2>1. x \in h.live /\ h.next[x] \in Settled(h) /\ h.next[x] # n /\ h.next[x] \in h.live
      BY <1>1, <1>2, <1>4, SettledApart, FreeNode
    <2>2. ASSUME h.next[x] \in B PROVE FALSE
      <3>1. h.prev[h.next[x]] = x /\ x # Nil
        BY <1>1, <2>1, OnePredecessor
      <3>2. PICK z \in h.live : (z \in B /\ h.next[z] = h.next[x]) \/ h.children[z] = h.next[x]
        BY <1>1, <1>3, <2>2, BelowProps
      <3>3. z = x
        BY <2>1, <3>1, <3>2, OnePredecessor
      <3> QED
        BY <1>2, <2>1, <3>1, <3>2, <3>3, OnePredecessor
    <2> QED
      BY <1>2, <2>1, <2>2
  <1>5. ASSUME NEW x \in T, h.prev[x] # Nil PROVE h.prev[x] \in T
    <2>1. x \in h.live /\ h.prev[x] \in Settled(h) /\ h.prev[x] # n /\ h.prev[x] \in h.live
      BY <1>1, <1>2, <1>5, SettledApart, FreeNode
    <2>2. h.next[h.prev[x]] = x /\ x # Nil
      BY <1>1, <2>1, OnePredecessor
    <2>3. h.prev[x] \notin B
      BY <1>2, <1>3, <2>2 DEF Down, Closed
    <2> QED
      BY <1>2, <2>1, <2>3
  <1> HIDE DEF T
  <1> QED
    BY <1>1, <1>4, <1>5 DEF Closed, T, Beyond

\* All nodes of a chain are in a set that is not left along it.
LEMMA ChainWithin ==
    ASSUME NEW f \in [Node -> Link], NEW n \in Node, NEW T, Closed(f, T), n \in T
    PROVE  /\ Chain(f, n) \in Seq(Node) /\ Len(Chain(f, n)) \in Nat \ {0}
           /\ \A i \in 1..Len(Chain(f, n)) : Chain(f, n)[i] \in T
           /\ Last(Chain(f, n)) \in T
  <1> DEFINE s == Chain(f, n)
  <1>1. n \in Link /\ n # Nil
    BY NilAssumption DEF Link
  <1>2. IsChain(f, s, n)
    BY <1>1, ChainShape
  <1> HIDE DEF s
  <1>3. s \in Seq(Node) /\ s # <<>> /\ Len(s) \in Nat
    BY <1>1, <1>2, LenProperties DEF IsChain
  <1>4. Len(s) # 0
    BY <1>3, EmptySeq
  <1>5. \A i \in 1..Len(s) : s[i] \in T
    BY <1>1, <1>2, ChainInside
  <1>6. Len(s) \in 1..Len(s)
    <2>1. \A L \in Nat : L # 0 => L \in 1..L
      OBVIOUS
    <2> QED
      BY <1>3, <1>4, <2>1
  <1> QED
    BY <1>3, <1>4, <1>5, <1>6 DEF s, Last

\* A node found by its position is one of the list.
LEMMA NthWithin ==
    ASSUME NEW s, NEW T, Len(s) \in Nat, \A i \in 1..Len(s) : s[i] \in T, NEW i \in Nat \ {0}
    PROVE  Nth(s, i) \in T \cup {Nil}
  <1>1. \A L \in Nat : i > L \/ i \in 1..L
    OBVIOUS
  <1> QED
    BY <1>1 DEF Nth

\* A node found by its name is one of the list.
LEMMA NamedWithin ==
    ASSUME NEW h, NEW s, NEW T, \A i \in 1..Len(s) : s[i] \in T, NEW i, NEW name
    PROVE  NthNamed(h, s, i, name) \in T \cup {Nil}
  <1> DEFINE hits == {k \in 1 .. Len(s) : h.name[s[k]] = name}
             found == {s[k] : k \in {j \in hits : Cardinality({m \in hits : m <= j}) = i}}
  <1>1. found \subseteq T
    OBVIOUS
  <1>2. NthNamed(h, s, i, name) = IF found = {} THEN Nil ELSE CHOOSE x \in found : TRUE
    BY DEF NthNamed
  <1> HIDE DEF found
  <1> QED
    BY <1>1, <1>2

\* A search from a node finds one that n may be placed next to, if any.
LEMMA FoundWithin ==
    ASSUME NEW h, Linked(h), NEW n \in Settled(h), Isolated(h, n),
           NEW x \in Beyond(h, n), NEW pos \in Int, NEW byName \in BOOLEAN
    PROVE  Get(h, byName, x, pos, n) \in Beyond(h, n) \cup {Nil}
  <1> DEFINE T == Beyond(h, n)
  <1>1. Closed(h.next, T) /\ Closed(h.prev, T) /\ T \subseteq h.live
    BY BeyondClosed
  <1> HIDE DEF T
  <1>2. h.next \in [Node -> Link] /\ h.prev \in [Node -> Link] /\ T \subseteq Node /\ x \in Node /\ x \in T
    BY <1>1, LinkedTypes DEF Linking, T
  <1>3. ASSUME NEW f \in {h.next, h.prev}, NEW y \in T
        PROVE  /\ Chain(f, y) \in Seq(Node) /\ Len(Chain(f, y)) \in Nat \ {0}
               /\ \A i \in 1..Len(Chain(f, y)) : Chain(f, y)[i] \in T
               /\ Last(Chain(f, y)) \in T
    BY <1>1, <1>2, ChainWithin
  <1>4. CASE ~byName
    <2>1. Get(h, byName, x, pos, n) = mpt_gnode_pos(h, x, pos)
      BY <1>4 DEF Get
    <2>2. CASE pos < 0
      <3>1. 1 - pos \in Nat \ {0}
        BY <2>2
      <3>2. Nth(Chain(h.prev, x), 1 - pos) \in T \cup {Nil}
        BY <1>2, <1>3, <3>1, NthWithin
      <3> QED
        BY <2>1, <2>2, <3>2 DEF mpt_gnode_pos, T
    <2>3. CASE pos = 0
      BY <1>2, <1>3, <2>1, <2>3 DEF mpt_gnode_pos, ListFrom, T
    <2>4. CASE pos > 0
      <3>1. pos \in Nat \ {0}
        BY <2>4
      <3>2. Nth(Chain(h.next, x), pos) \in T \cup {Nil}
        BY <1>2, <1>3, <3>1, NthWithin
      <3> QED
        BY <2>1, <2>4, <3>2 DEF mpt_gnode_pos, ListFrom, T
    <2> QED
      BY <2>2, <2>3, <2>4
  <1>5. CASE byName
    <2>1. Get(h, byName, x, pos, n) = mpt_node_locate(h, x, pos, h.name[n])
      BY <1>5 DEF Get
    <2>2. CASE pos > 0
      BY <1>2, <1>3, <2>1, <2>2, NamedWithin DEF mpt_node_locate, ListFrom, T
    <2>3. CASE pos = 0
      <3>1. Last(Chain(h.next, x)) \in T
        BY <1>2, <1>3
      <3> DEFINE s == Chain(h.prev, Last(Chain(h.next, x)))
      <3>2. \A i \in 1..Len(s) : s[i] \in T
        BY <1>3, <3>1
      <3> HIDE DEF s
      <3>3. NthNamed(h, s, 1, h.name[n]) \in T \cup {Nil}
        BY <3>2, NamedWithin
      <3> QED
        BY <2>1, <2>3, <3>3 DEF mpt_node_locate, ListFrom, T, s
    <2>4. CASE pos < 0
      <3> DEFINE s == Chain(h.prev, x)
      <3>1. s \in Seq(Node) /\ Len(s) \in Nat \ {0} /\ \A i \in 1..Len(s) : s[i] \in T
        BY <1>2, <1>3
      <3> HIDE DEF s
      <3>2. s # <<>>
        BY <3>1, EmptySeq
      <3>3. \A i \in 1..Len(Tail(s)) : Tail(s)[i] \in T
        <4>1. Len(Tail(s)) = Len(s) - 1 /\ \A i \in 1..Len(Tail(s)) : Tail(s)[i] = s[i+1]
          BY <3>1, <3>2, HeadTailProperties
        <4>2. \A L \in Nat \ {0} : \A i \in 1..L-1 : i + 1 \in 1..L
          OBVIOUS
        <4> QED
          BY <3>1, <4>1, <4>2
      <3>4. NthNamed(h, Tail(s), -pos, h.name[n]) \in T \cup {Nil}
        BY <3>3, NamedWithin
      <3> QED
        BY <2>1, <2>4, <3>4 DEF mpt_node_locate, T, s
    <2> QED
      BY <2>2, <2>3, <2>4
  <1> QED
    BY <1>4, <1>5

\* What holds after a call that inserts n.
Placed(h, g) == Linked(g) /\ Pending(g) \subseteq Pending(h)

\* Insertion beside a node outside of the inserted tree, or beside none.
LEMMA BesideLinked ==
    ASSUME NEW h, Linked(h), NEW n \in Settled(h), Isolated(h, n), NEW p \in Beyond(h, n) \cup {Nil}
    PROVE  Placed(h, mpt_gnode_after(h, p, n)) /\ Placed(h, mpt_gnode_before(h, p, n))
  <1>1. CASE p = Nil
    BY <1>1 DEF mpt_gnode_after, mpt_gnode_before, Placed
  <1>2. CASE p \in Beyond(h, n)
    <2>1. p \in Settled(h) /\ p \notin Tree(h, n) /\ n \in h.live /\ p \in h.live
      BY <1>2 DEF Beyond, Settled
    <2>2. p \in Node /\ n \in Node /\ h \in Heaps /\ p # n
      BY <2>1, LinkedTypes, TreeIs DEF Linked
    <2> QED
      BY <2>1, <2>2, AfterPuts, BeforePuts, AfterLinked, BeforeLinked DEF Placed
  <1> QED
    BY <1>1, <1>2

\* Wherever a node goes by its position, the result is a linked tree.
LEMMA InsertLinked ==
    ASSUME NEW h, Linked(h), NEW n \in Settled(h), Isolated(h, n),
           NEW first \in Settled(h), first \notin Tree(h, n), NEW pos \in Int, NEW byName \in BOOLEAN
    PROVE  Placed(h, node_insert(h, first, pos, n, byName))
  <1> DEFINE T == Beyond(h, n)
             start == Get(h, byName, first, IF pos > 0 THEN 1 ELSE 0, n)
             found == Beside(h, byName, start, pos, n)
  <1>1. first \in T
    BY DEF Beyond
  <1>2. \A x \in T, k \in Int : Get(h, byName, x, k, n) \in T \cup {Nil}
    BY FoundWithin
  <1>3. start \in T \cup {Nil}
    <2>1. (IF pos > 0 THEN 1 ELSE 0) \in Int
      OBVIOUS
    <2> HIDE DEF T
    <2> QED
      BY <1>1, <1>2, <2>1
  <1> HIDE DEF start, T
  <1>4. found \in T \cup {Nil}
    BY <1>2, <1>3 DEF Beside
  <1> HIDE DEF found
  <1>5. \A p \in T \cup {Nil} : Placed(h, mpt_gnode_after(h, p, n)) /\ Placed(h, mpt_gnode_before(h, p, n))
    BY BesideLinked DEF T
  <1>6. mpt_gnode_pos(h, first, 0) \in T \cup {Nil}
    <2>1. PICK any \in BOOLEAN : ~any
      OBVIOUS
    <2>2. Get(h, any, first, 0, n) \in T \cup {Nil}
      BY <1>1, FoundWithin DEF T
    <2> QED
      BY <2>1, <2>2 DEF Get
  <1>7. node_insert(h, first, pos, n, byName) = InsertNear(h, first, pos, n, byName, start, found)
    BY DEF node_insert, start, found
  <1>8. Get(h, byName, first, 1, n) \in T \cup {Nil} /\ Get(h, byName, first, 0, n) \in T \cup {Nil}
    BY <1>1, <1>2
  <1>9. Placed(h, InsertNear(h, first, pos, n, byName, start, found))
    BY <1>4, <1>5, <1>6, <1>8 DEF InsertNear
  <1> QED
    BY <1>7, <1>9

-----------------------------------------------------------------------------
(* Release of trees.                                                       *)

\* The nodes of S are no longer there, and n has no children.
Dropped(h, g, n, S) ==
    /\ g \in Heaps /\ g.live = h.live \ S
    /\ \A x \in g.live : /\ g.next[x] = h.next[x] /\ g.prev[x] = h.prev[x]
                         /\ g.parent[x] = h.parent[x]
                         /\ g.children[x] = IF x = n THEN Nil ELSE h.children[x]

\* What is below a node goes, and the node too if it is linked nowhere: no
\* member of the others leads there.
LEMMA DropLinked ==
    ASSUME NEW h, Linked(h), NEW n \in h.live, n \in Settled(h) \/ n \in Raw(h),
           NEW S, Below(h, n) \subseteq S, S \subseteq Below(h, n) \cup {n},
           n \in S => Isolated(h, n), NEW g, Dropped(h, g, n, S)
    PROVE  Linked(g)
  <1> DEFINE B == Below(h, n)
  <1>1. /\ h.live \subseteq Node /\ Nil \notin h.live
        /\ \A x \in h.live : /\ h.next[x] \in h.live \cup {Nil} /\ h.prev[x] \in h.live \cup {Nil}
                             /\ h.parent[x] \in h.live \cup {Nil}
                             /\ h.children[x] \in h.live \cup {Nil}
    BY LinkedTypes
  <1>2. /\ B \subseteq h.live /\ Down(h, B) /\ Whole(h, B) /\ KidSet(h, n) \subseteq B
        /\ \A y \in B : y # h.children[n] => \E z \in B : h.next[z] = y \/ h.children[z] = y
    BY BelowProps, BelowWhole
  <1>3. B \subseteq S /\ S \subseteq B \cup {n} /\ g.live = h.live \ S /\ g \in Heaps
        /\ \A x \in g.live : /\ g.next[x] = h.next[x] /\ g.prev[x] = h.prev[x]
                             /\ g.parent[x] = h.parent[x]
                             /\ g.children[x] = IF x = n THEN Nil ELSE h.children[x]
    BY DEF Dropped
  <1> HIDE DEF B
  <1>4. n \in S => h.next[n] = Nil /\ h.prev[n] = Nil /\ h.parent[n] = Nil
    BY DEF Isolated
  <1>5. ASSUME NEW x \in g.live PROVE h.next[x] \notin S /\ h.prev[x] \notin S
    <2>1. x \in h.live /\ x \notin B /\ x # Nil
      BY <1>1, <1>3
    <2>2. ASSUME h.next[x] \in B PROVE FALSE
      <3>1. h.next[x] \in h.live
        BY <1>2, <2>2
      <3>2. h.next[x] # h.children[n]
        BY <2>1, <3>1, OnePredecessor
      <3>3. PICK z \in B : h.next[z] = h.next[x] \/ h.children[z] = h.next[x]
        BY <1>2, <2>2, <3>2
      <3>4. z = x
        BY <1>2, <2>1, <3>1, <3>3, OnePredecessor
      <3> QED
        BY <2>1, <3>4
    <2>3. h.next[x] = n => n \notin S
      BY <1>4, <2>1, OnePredecessor
    <2>4. h.prev[x] \notin B
      <3>1. h.prev[x] \in h.live => h.next[h.prev[x]] = x
        BY <2>1, OnePredecessor
      <3> QED
        BY <1>2, <2>1, <3>1 DEF Down, Closed
    <2>5. h.prev[x] = n => n \notin S
      BY <1>4, <2>1, OnePredecessor
    <2> QED
      BY <1>3, <2>2, <2>3, <2>4, <2>5
  <1>6. ASSUME NEW x \in g.live PROVE h.parent[x] \notin S /\ h.parent[x] # n
    <2>1. x \in h.live /\ x \notin B /\ x # Nil
      BY <1>1, <1>3
    <2>2. ASSUME h.parent[x] \in B \cup {n} PROVE FALSE
      <3>1. h.parent[x] \in h.live
        BY <1>2, <2>2
      <3>2. x \in KidSet(h, h.parent[x])
        BY <2>1, <3>1, KidsOwn
      <3> QED
        BY <1>2, <2>1, <2>2, <3>2 DEF Whole
    <2> QED
      BY <1>3, <2>2
  <1>7. ASSUME NEW x \in g.live, x # n PROVE h.children[x] \notin S
    <2>1. x \in h.live /\ x \notin B /\ x # Nil
      BY <1>1, <1>3
    <2>2. ASSUME h.children[x] \in B PROVE FALSE
      <3>1. h.children[x] \in h.live
        BY <1>2, <2>2
      <3>2. h.children[x] # h.children[n]
        BY <1>7, <2>1, <3>1, OnePredecessor
      <3>3. PICK z \in B : h.next[z] = h.children[x] \/ h.children[z] = h.children[x]
        BY <1>2, <2>2, <3>2
      <3>4. z = x
        BY <1>2, <2>1, <3>1, <3>3, OnePredecessor
      <3> QED
        BY <2>1, <3>4
    <2>3. ASSUME h.children[x] = n, n \in S PROVE FALSE
      <3>1. x \in Raw(h)
        BY <1>4, <2>1, <2>3 DEF Linked, OwnersAgree
      <3>2. n \in KidSet(h, x) /\ n \in Pending(h)
        BY <1>1, <2>1, <2>3, <3>1, KidsIn, PendingIs
      <3>3. h.children[n] = Nil
        BY <3>1, <3>2 DEF Linked, RawApart
      <3> QED
        BY <3>2, <3>3 DEF Settled, Raw
    <2> QED
      BY <1>3, <2>2, <2>3
  <1>8. LinksLive(g)
    BY <1>1, <1>3, <1>5, <1>6, <1>7 DEF LinksLive
  <1>9. PairsAgree(g)
    BY <1>3 DEF Linked, PairsAgree
  <1>10. ParentsAgree(g)
    <2> SUFFICES ASSUME NEW x \in g.live, h.next[x] # Nil PROVE g.parent[h.next[x]] = g.parent[x]
      BY <1>3 DEF ParentsAgree
    <2>1. h.next[x] \in g.live
      BY <1>1, <1>3, <1>5
    <2> QED
      BY <1>3, <2>1 DEF Linked, ParentsAgree
  <1>11. \A x \in g.live : x \in Raw(g) <=> x \in Raw(h) /\ x # n
    <2> SUFFICES ASSUME NEW x \in g.live PROVE x \in Raw(g) <=> x \in Raw(h) /\ x # n
      OBVIOUS
    <2>1. CASE x = n
      BY <1>3, <2>1 DEF Raw
    <2>2. CASE x # n
      <3>1. h.children[x] # Nil => h.children[x] \in g.live
        BY <1>1, <1>3, <1>7, <2>2
      <3> QED
        BY <1>3, <2>2, <3>1 DEF Raw
    <2> QED
      BY <2>1, <2>2
  <1>12. OwnersAgree(g)
    <2> SUFFICES ASSUME NEW q \in g.live, NEW y \in g.live, q \notin Raw(g)
                 PROVE  g.children[q] = y <=> g.parent[y] = q /\ g.prev[y] = Nil
      BY DEF OwnersAgree
    <2>1. CASE q = n
      BY <1>1, <1>3, <1>6, <2>1
    <2>2. CASE q # n
      <3>1. h.children[q] = y <=> h.parent[y] = q /\ h.prev[y] = Nil
        BY <1>3, <1>11, <2>2 DEF Linked, OwnersAgree
      <3> QED
        BY <1>3, <2>2, <3>1
    <2> QED
      BY <2>1, <2>2
  <1>13. RawApart(g)
    <2>1. Raw(g) \subseteq g.live /\ \A r \in Raw(g) : r \in Raw(h) /\ r # n /\ r \in h.live
      BY <1>3, <1>11 DEF Raw
    <2>2. ASSUME NEW r \in Raw(g) PROVE KidSet(h, r) \subseteq g.live
      <3>1. Closed(h.next, g.live)
        BY <1>1, <1>3, <1>5 DEF Closed
      <3>2. h.children[r] # Nil => h.children[r] \in g.live
        BY <1>1, <1>3, <1>7, <2>1, <2>2
      <3> QED
        BY <2>1, <2>2, <3>1, <3>2, KidsLeast
    <2>3. ASSUME NEW r \in Raw(g), NEW x \in {r} \cup KidSet(h, r)
          PROVE  /\ g.next[x] = h.next[x] /\ g.prev[x] = h.prev[x]
                 /\ g.parent[x] = h.parent[x] /\ g.children[x] = h.children[x]
      <3>1. x \in g.live /\ r \in Raw(h)
        BY <2>1, <2>2, <2>3
      <3>2. x = n => h.children[n] = Nil
        BY <2>1, <2>3, <3>1 DEF Linked, RawApart
      <3> QED
        BY <1>3, <3>1, <3>2
    <2>4. ASSUME NEW r \in Raw(g), NEW x \in g.live PROVE g.parent[x] # r
      <3>1. \A y \in h.live : h.parent[y] # r
        BY <2>1 DEF Linked, RawApart
      <3> QED
        BY <1>3, <3>1
    <2>5. ASSUME NEW r \in Raw(g), NEW q \in g.live, g.children[q] = g.children[r] PROVE q = r
      <3>1. g.children[r] = h.children[r] /\ h.children[r] # Nil
        BY <1>3, <2>1 DEF Raw
      <3>2. g.children[q] = h.children[q]
        BY <1>3, <2>5, <3>1
      <3> QED
        BY <1>3, <2>1, <2>5, <3>1, <3>2 DEF Linked, RawApart
    <2> QED
      BY <1>3, <2>1, <2>3, <2>4, <2>5, RawKept
  <1>14. Acyclic(g)
    <2> SUFFICES ASSUME NEW C \in SUBSET g.live, C # {}
                 PROVE  \E x \in C : \A y \in C : g.next[y] # x /\ g.children[y] # x
      BY DEF Acyclic
    <2>1. PICK x \in C : \A y \in C : h.next[y] # x /\ h.children[y] # x
      BY <1>3 DEF Linked, Acyclic
    <2> QED
      BY <1>1, <1>3, <2>1
  <1> QED
    BY <1>3, <1>8, <1>9, <1>10, <1>12, <1>13, <1>14 DEF Linked

\* Released nodes are gone, the members of the others are as before.
LEMMA ReleaseIs ==
    ASSUME NEW h, h \in Heaps, NEW S
    PROVE  /\ Release(h, S) \in Heaps /\ Release(h, S).live = h.live \ S
           /\ \A x \in h.live \ S : /\ Release(h, S).next[x] = h.next[x]
                                    /\ Release(h, S).prev[x] = h.prev[x]
                                    /\ Release(h, S).parent[x] = h.parent[x]
                                    /\ Release(h, S).children[x] = h.children[x]
  <1> DEFINE Cut(f) == [x \in Node |-> IF x \in S THEN Nil ELSE f[x]]
  <1>1. PICK g : g = Release(h, S)
    OBVIOUS
  <1>2. g = [h EXCEPT !.live = h.live \ S, !.name = Cut(h.name), !.meta = Cut(h.meta),
                      !.next = Cut(h.next), !.prev = Cut(h.prev), !.parent = Cut(h.parent),
                      !.children = Cut(h.children)]
    BY <1>1 DEF Release
  <1>3. /\ Cut(h.name) \in [Node -> Names \cup {Nil}] /\ Cut(h.meta) \in [Node -> {Nil}]
        /\ Cut(h.next) \in [Node -> Link] /\ Cut(h.prev) \in [Node -> Link]
        /\ Cut(h.parent) \in [Node -> Link] /\ Cut(h.children) \in [Node -> Link]
        /\ h.live \subseteq Node
    BY DEF Heaps, Link
  <1>4. \A f : \A x \in Node \ S : Cut(f)[x] = f[x]
    OBVIOUS
  <1> HIDE DEF Cut
  <1>5. g \in Heaps /\ g.live = h.live \ S /\ g.next = Cut(h.next) /\ g.prev = Cut(h.prev)
        /\ g.parent = Cut(h.parent) /\ g.children = Cut(h.children)
    BY <1>2, <1>3 DEF Heaps
  <1>6. \A x \in h.live \ S : /\ g.next[x] = h.next[x] /\ g.prev[x] = h.prev[x]
                              /\ g.parent[x] = h.parent[x] /\ g.children[x] = h.children[x]
    <2> SUFFICES ASSUME NEW x \in h.live \ S
                 PROVE /\ g.next[x] = h.next[x] /\ g.prev[x] = h.prev[x]
                       /\ g.parent[x] = h.parent[x] /\ g.children[x] = h.children[x]
      OBVIOUS
    <2> QED
      BY <1>3, <1>4, <1>5
  <1> QED
    BY <1>1, <1>5, <1>6

\* mpt_node_clear and mpt_node_destroy leave linked trees behind.
LEMMA ClearLinked ==
    ASSUME NEW h, Linked(h), NEW n \in h.live, n \in Settled(h) \/ n \in Raw(h)
    PROVE  Linked(mpt_node_clear(h, n))
  <1> DEFINE d == Put(h.children, n, Nil)
             f == [h EXCEPT !.children = d]
             B == Below(h, n)
  <1>1. h \in Heaps /\ Nil \in Link /\ n \in Node /\ h.live \subseteq Node
    BY LinkedTypes DEF Linked, Link
  <1>2. d \in [Node -> Link] /\ \A x \in Node : d[x] = IF x = n THEN Nil ELSE h.children[x]
    BY <1>1, PutTyped DEF Heaps
  <1> HIDE DEF d
  <1>3. f \in Heaps /\ f.live = h.live /\ f.next = h.next /\ f.prev = h.prev
        /\ f.parent = h.parent /\ f.children = d
    BY <1>1, <1>2 DEF Heaps
  <1>4. mpt_node_clear(h, n) = Release(f, B)
    BY DEF mpt_node_clear, Below, KidSet, d
  <1> HIDE DEF f
  <1>5. PICK g : g = Release(f, B)
    OBVIOUS
  <1>6. n \notin B
    BY BelowProps
  <1>7. g \in Heaps /\ g.live = f.live \ B
        /\ \A x \in f.live \ B : /\ g.next[x] = f.next[x] /\ g.prev[x] = f.prev[x]
                                 /\ g.parent[x] = f.parent[x] /\ g.children[x] = f.children[x]
    BY <1>3, <1>5, ReleaseIs
  <1>8. Dropped(h, g, n, B)
    BY <1>1, <1>2, <1>3, <1>7 DEF Dropped
  <1> QED
    BY <1>4, <1>5, <1>6, <1>8, DropLinked

\* `mpt_node_destroy` releases a node that is linked nowhere with all below it.
LEMMA DestroyLinked ==
    ASSUME NEW h, Linked(h), NEW n \in h.live, n \in Settled(h) \/ n \in Raw(h)
    PROVE  Linked(mpt_node_destroy(h, n))
  <1>1. CASE ~Isolated(h, n)
    BY <1>1 DEF mpt_node_destroy
  <1>2. CASE Isolated(h, n)
    <2> DEFINE S == {n} \cup Below(h, n)
    <2>1. mpt_node_destroy(h, n) = Release(h, S)
      BY <1>2, TreeIs DEF mpt_node_destroy
    <2>2. PICK g : g = Release(h, S)
      OBVIOUS
    <2>3. h \in Heaps
      BY DEF Linked
    <2>4. Dropped(h, g, n, S)
      <3> HIDE DEF S
      <3>1. n \in S
        BY DEF S
      <3> QED
        BY <2>2, <2>3, <3>1, ReleaseIs DEF Dropped
    <2> QED
      BY <1>2, <2>1, <2>2, <2>4, DropLinked
  <1> QED
    BY <1>1, <1>2

-----------------------------------------------------------------------------
(* Exchange of two nodes or of their children.                             *)

\* Each of the two stands for the other.
Other(p, s, x) == IF x = p THEN s ELSE IF x = s THEN p ELSE x

\* What is below two nodes, neither of which is below the other.
Under(h, p, s) == Below(h, p) \cup Below(h, s)

\* What is below two separate trees is led to from them alone.
LEMMA UnderProps ==
    ASSUME NEW h, Linked(h), NEW p \in Settled(h), NEW s \in Settled(h),
           p \notin Tree(h, s), s \notin Tree(h, p)
    PROVE  /\ p # s /\ p \in h.live /\ s \in h.live /\ p \notin Raw(h) /\ s \notin Raw(h)
           /\ p \notin Under(h, p, s) /\ s \notin Under(h, p, s)
           /\ \A x \in Under(h, p, s) : /\ h.next[x] \in Under(h, p, s) \cup {Nil}
                                        /\ h.children[x] \in Under(h, p, s) \cup {Nil}
           /\ \A x \in {p, s} : h.children[x] \in Under(h, p, s) \cup {Nil}
           /\ \A r \in Raw(h) : r \notin {p, s} /\ \A x \in KidSet(h, r) : x \notin {p, s}
  <1>1. p \in h.live /\ s \in h.live /\ p \notin Raw(h) /\ s \notin Raw(h)
    BY PendingIs DEF Settled
  <1>2. p # s /\ p \notin Under(h, p, s) /\ s \notin Under(h, p, s)
    BY <1>1, TreeIs, BelowProps DEF Under
  <1>3. \A x \in {p, s} : Down(h, Below(h, x)) /\ h.children[x] \in Below(h, x) \cup {Nil}
    BY <1>1, BelowProps
  <1>4. \A r \in Raw(h) : r \notin {p, s} /\ \A x \in KidSet(h, r) : x \notin {p, s}
    BY PendingIs DEF Settled
  <1> QED
    BY <1>1, <1>2, <1>3, <1>4 DEF Under, Down, Closed

\* What mpt_gnode_swap does to the members.
LEMMA SwapIs ==
    ASSUME NEW h, Linked(h), NEW p \in Settled(h), NEW s \in Settled(h), p # s,
           NEW g, g = mpt_gnode_swap(h, p, s)
    PROVE  /\ g \in Heaps /\ g.live = h.live /\ g.next = h.next /\ g.prev = h.prev
           /\ \A x \in h.live : /\ g.children[x] = h.children[Other(p, s, x)]
                                /\ g.parent[x] = Other(p, s, h.parent[x])
  <1> DEFINE pc == KidSet(h, p)  sc == KidSet(h, s)
             a == Put(Put(h.children, s, h.children[p]), p, h.children[s])
             b == [x \in Node |-> IF x \in sc THEN p ELSE IF x \in pc THEN s ELSE h.parent[x]]
  <1>1. p \in h.live /\ s \in h.live /\ p \notin Raw(h) /\ s \notin Raw(h) /\ h.live \subseteq Node
        /\ h.children \in [Node -> Link] /\ h.parent \in [Node -> Link] /\ h \in Heaps
    BY PendingIs, LinkedTypes DEF Settled, Linking, Linked
  <1>2. p \in Node /\ s \in Node /\ p \in Link /\ s \in Link
        /\ h.children[p] \in Link /\ h.children[s] \in Link
    BY <1>1 DEF Link
  <1>3. a \in [Node -> Link] /\ \A x \in Node : a[x] = h.children[Other(p, s, x)]
    <2>1. a \in [Node -> Link]
          /\ \A x \in Node : a[x] = IF x = p THEN h.children[s] ELSE IF x = s THEN h.children[p]
                                    ELSE h.children[x]
      BY <1>1, <1>2, PutTyped
    <2> HIDE DEF a
    <2> QED
      BY <2>1 DEF Other
  <1>4. b \in [Node -> Link]
    BY <1>1, <1>2
  <1>5. \A x \in h.live : b[x] = Other(p, s, h.parent[x])
    <2>1. \A x \in h.live : (x \in pc <=> h.parent[x] = p) /\ (x \in sc <=> h.parent[x] = s)
      BY <1>1, KidsOwn
    <2> HIDE DEF pc, sc
    <2> QED
      BY <1>1, <2>1 DEF Other
  <1>6. g = [h EXCEPT !.children = a, !.parent = b]
    BY DEF mpt_gnode_swap, KidSet
  <1> HIDE DEF a, b
  <1>7. g \in Heaps /\ g.live = h.live /\ g.next = h.next /\ g.prev = h.prev
        /\ g.children = a /\ g.parent = b
    BY <1>1, <1>3, <1>4, <1>6 DEF Heaps
  <1> QED
    BY <1>1, <1>3, <1>5, <1>7

\* Two nodes, neither below the other, may exchange their children.
LEMMA SwapLinked ==
    ASSUME NEW h, Linked(h), NEW p \in Settled(h), NEW s \in Settled(h),
           p \notin Tree(h, s), s \notin Tree(h, p)
    PROVE  Linked(mpt_gnode_swap(h, p, s))
  <1> DEFINE K == Under(h, p, s)
  <1>1. PICK g : g = mpt_gnode_swap(h, p, s)
    OBVIOUS
  <1>2. /\ p # s /\ p \in h.live /\ s \in h.live /\ p \notin Raw(h) /\ s \notin Raw(h)
        /\ p \notin K /\ s \notin K
        /\ \A x \in K : h.next[x] \in K \cup {Nil} /\ h.children[x] \in K \cup {Nil}
        /\ \A x \in {p, s} : h.children[x] \in K \cup {Nil}
        /\ \A r \in Raw(h) : r \notin {p, s} /\ \A x \in KidSet(h, r) : x \notin {p, s}
    BY UnderProps
  <1>3. /\ Nil \notin h.live
        /\ \A x \in h.live : /\ h.next[x] \in h.live \cup {Nil} /\ h.prev[x] \in h.live \cup {Nil}
                             /\ h.parent[x] \in h.live \cup {Nil}
                             /\ h.children[x] \in h.live \cup {Nil}
    BY LinkedTypes
  <1>4. /\ g \in Heaps /\ g.live = h.live /\ g.next = h.next /\ g.prev = h.prev
        /\ \A x \in h.live : /\ g.children[x] = h.children[Other(p, s, x)]
                             /\ g.parent[x] = Other(p, s, h.parent[x])
    BY <1>1, <1>2, SwapIs
  <1> HIDE DEF K
  <1>5. LinksLive(g)
    BY <1>2, <1>3, <1>4 DEF LinksLive, Other
  <1>6. PairsAgree(g)
    BY <1>4 DEF Linked, PairsAgree
  <1>7. ParentsAgree(g)
    BY <1>3, <1>4 DEF Linked, ParentsAgree
  <1>8. \A x \in {p, s} : h.children[x] # Nil => h.parent[h.children[x]] = x
    BY <1>2, <1>3 DEF Linked, OwnersAgree
  <1>9. Raw(g) = Raw(h)
    <2> SUFFICES ASSUME NEW x \in h.live
                 PROVE  (g.children[x] # Nil /\ g.parent[g.children[x]] = Nil)
                          <=> (h.children[x] # Nil /\ h.parent[h.children[x]] = Nil)
      BY <1>4 DEF Raw
    <2> QED
      BY <1>2, <1>3, <1>4, <1>8 DEF Other
  <1>10. OwnersAgree(g)
    <2> SUFFICES ASSUME NEW q \in h.live, NEW y \in h.live, q \notin Raw(h)
                 PROVE  g.children[q] = y <=> g.parent[y] = q /\ g.prev[y] = Nil
      BY <1>4, <1>9 DEF OwnersAgree
    <2>1. \A x \in h.live \ Raw(h) : h.children[x] = y <=> h.parent[y] = x /\ h.prev[y] = Nil
      BY DEF Linked, OwnersAgree
    <2> QED
      BY <1>2, <1>3, <1>4, <2>1 DEF Other
  <1>11. RawApart(g)
    <2>1. ASSUME NEW r \in Raw(g), NEW x \in {r} \cup KidSet(h, r)
          PROVE  /\ g.next[x] = h.next[x] /\ g.prev[x] = h.prev[x]
                 /\ g.parent[x] = h.parent[x] /\ g.children[x] = h.children[x]
      <3>1. r \in Raw(h) /\ x \in h.live /\ x \notin {p, s} /\ r \in h.live
        BY <1>2, <1>9, <2>1, PendingIs
      <3>2. h.parent[x] = Nil
        BY <2>1, <3>1, KidsOwn DEF Linked, RawApart, Isolated
      <3> QED
        BY <1>2, <1>3, <1>4, <3>1, <3>2 DEF Other
    <2>2. ASSUME NEW r \in Raw(g), NEW x \in g.live PROVE g.parent[x] # r
      <3>1. r \in Raw(h) /\ r \in h.live /\ \A y \in h.live : h.parent[y] # r
        BY <1>9, PendingIs DEF Linked, RawApart
      <3> QED
        BY <1>2, <1>4, <3>1 DEF Other
    <2>3. ASSUME NEW r \in Raw(g), NEW q \in g.live, g.children[q] = g.children[r] PROVE q = r
      <3>1. r \in Raw(h) /\ r \in h.live /\ q \in h.live
        BY <1>4, <1>9, PendingIs
      <3>2. h.children[Other(p, s, q)] = h.children[r]
        BY <1>2, <1>4, <2>3, <3>1 DEF Other
      <3>3. Other(p, s, q) = r
        BY <1>2, <3>1, <3>2 DEF Linked, RawApart, Other
      <3> QED
        BY <1>2, <3>1, <3>3 DEF Other
    <2> QED
      BY <1>4, <1>9, <2>1, <2>2, <2>3, RawKept
  <1>12. Acyclic(g)
    <2> SUFFICES ASSUME NEW C \in SUBSET h.live, C # {}
                 PROVE  \E x \in C : \A y \in C : g.next[y] # x /\ g.children[y] # x
      BY <1>4 DEF Acyclic
    <2>1. \A D \in SUBSET h.live : D # {} => \E x \in D : \A y \in D : h.next[y] # x /\ h.children[y] # x
      BY DEF Linked, Acyclic
    <2>2. CASE C \subseteq K
      <3>1. PICK x \in C : \A y \in C : h.next[y] # x /\ h.children[y] # x
        BY <2>1
      <3> QED
        BY <1>2, <1>4, <2>2, <3>1 DEF Other
    <2>3. CASE ~(C \subseteq K)
      <3> DEFINE D == C \ K
      <3>1. PICK x \in D : \A y \in D : h.next[y] # x /\ h.children[y] # x
        <4>1. D \in SUBSET h.live /\ D # {}
          BY <2>3
        <4> HIDE DEF D
        <4> QED
          BY <2>1, <4>1
      <3>2. ASSUME NEW y \in C PROVE g.next[y] # x /\ g.children[y] # x
        <4>1. CASE y \in K
          BY <1>2, <1>3, <1>4, <3>1, <4>1 DEF Other
        <4>2. CASE y \in {p, s}
          BY <1>2, <1>3, <1>4, <3>1, <4>2 DEF Other
        <4>3. CASE y \notin K /\ y \notin {p, s}
          BY <1>4, <3>1, <4>3 DEF Other
        <4> QED
          BY <4>1, <4>2, <4>3
      <3> QED
        BY <3>1, <3>2
    <2> QED
      BY <2>2, <2>3
  <1> QED
    BY <1>1, <1>4, <1>5, <1>6, <1>7, <1>10, <1>11, <1>12 DEF Linked

\* Two nodes have changed places, with what is below them.
Exchanged(h, g, p, s) ==
    /\ g \in Heaps /\ g.live = h.live
    /\ \A x \in h.live : /\ g.next[x] = Other(p, s, h.next[Other(p, s, x)])
                         /\ g.prev[x] = Other(p, s, h.prev[Other(p, s, x)])
                         /\ g.parent[x] = h.parent[Other(p, s, x)]
                         /\ g.children[x] = Other(p, s, h.children[x])

\* Two separate nodes that change places, each with what is below it, leave trees.
LEMMA ExchangeLinked ==
    ASSUME NEW h, Linked(h), NEW p \in Settled(h), NEW s \in Settled(h),
           p \notin Tree(h, s), s \notin Tree(h, p), NEW g, Exchanged(h, g, p, s)
    PROVE  Linked(g)
  <1> DEFINE K == Under(h, p, s)  O(x) == Other(p, s, x)
  <1>1. /\ p # s /\ p \in h.live /\ s \in h.live /\ p \notin Raw(h) /\ s \notin Raw(h)
        /\ p \notin K /\ s \notin K
        /\ \A x \in K : h.next[x] \in K \cup {Nil} /\ h.children[x] \in K \cup {Nil}
        /\ \A x \in {p, s} : h.children[x] \in K \cup {Nil}
        /\ \A r \in Raw(h) : r \notin {p, s} /\ \A x \in KidSet(h, r) : x \notin {p, s}
    BY UnderProps
  <1>2. /\ Nil \notin h.live
        /\ \A x \in h.live : /\ h.next[x] \in h.live \cup {Nil} /\ h.prev[x] \in h.live \cup {Nil}
                             /\ h.parent[x] \in h.live \cup {Nil}
                             /\ h.children[x] \in h.live \cup {Nil}
    BY LinkedTypes
  <1>3. /\ g \in Heaps /\ g.live = h.live
        /\ \A x \in h.live : /\ g.next[x] = O(h.next[O(x)]) /\ g.prev[x] = O(h.prev[O(x)])
                             /\ g.parent[x] = h.parent[O(x)] /\ g.children[x] = O(h.children[x])
    BY DEF Exchanged
  <1>4. /\ \A x, y : O(x) = y <=> x = O(y)
        /\ \A x \in h.live : O(x) \in h.live
        /\ O(Nil) = Nil
        /\ O(p) = s /\ O(s) = p
        /\ \A x : x \notin {p, s} => O(x) = x
    BY <1>1, <1>2 DEF Other
  <1> HIDE DEF K, O
  <1>5. LinksLive(g)
    BY <1>2, <1>3, <1>4 DEF LinksLive
  <1>6. PairsAgree(g)
    <2> SUFFICES ASSUME NEW x \in h.live, NEW y \in h.live PROVE g.next[x] = y <=> g.prev[y] = x
      BY <1>3 DEF PairsAgree
    <2>1. h.next[O(x)] = O(y) <=> h.prev[O(y)] = O(x)
      BY <1>4 DEF Linked, PairsAgree
    <2> QED
      BY <1>3, <1>4, <2>1
  <1>7. ParentsAgree(g)
    <2> SUFFICES ASSUME NEW x \in h.live, g.next[x] # Nil PROVE g.parent[g.next[x]] = g.parent[x]
      BY <1>3 DEF ParentsAgree
    <2>1. PICK y \in h.live : y = O(x)
      BY <1>4
    <2>2. h.next[y] # Nil /\ h.next[y] \in h.live
      BY <1>2, <1>3, <1>4, <2>1
    <2>3. h.parent[h.next[y]] = h.parent[y]
      BY <2>2 DEF Linked, ParentsAgree
    <2>4. g.next[x] = O(h.next[y]) /\ O(h.next[y]) \in h.live /\ O(O(h.next[y])) = h.next[y]
      BY <1>3, <1>4, <2>1, <2>2
    <2> QED
      BY <1>3, <2>1, <2>3, <2>4
  <1>8. Raw(g) = Raw(h)
    <2> SUFFICES ASSUME NEW x \in h.live
                 PROVE  (g.children[x] # Nil /\ g.parent[g.children[x]] = Nil)
                          <=> (h.children[x] # Nil /\ h.parent[h.children[x]] = Nil)
      BY <1>3 DEF Raw
    <2>1. g.children[x] = O(h.children[x])
      BY <1>3
    <2>2. CASE h.children[x] = Nil
      BY <1>4, <2>1, <2>2
    <2>3. CASE h.children[x] # Nil
      <3>1. h.children[x] \in h.live
        BY <1>2, <2>3
      <3>2. g.children[x] \in h.live /\ O(g.children[x]) = h.children[x]
        BY <1>4, <2>1, <3>1
      <3> QED
        BY <1>2, <1>3, <2>3, <3>2
    <2> QED
      BY <2>2, <2>3
  <1>9. OwnersAgree(g)
    <2> SUFFICES ASSUME NEW q \in h.live, NEW y \in h.live, q \notin Raw(h)
                 PROVE  g.children[q] = y <=> g.parent[y] = q /\ g.prev[y] = Nil
      BY <1>3, <1>8 DEF OwnersAgree
    <2>1. h.children[q] = O(y) <=> h.parent[O(y)] = q /\ h.prev[O(y)] = Nil
      BY <1>4 DEF Linked, OwnersAgree
    <2> QED
      BY <1>3, <1>4, <2>1
  <1>10. RawApart(g)
    <2>1. ASSUME NEW r \in Raw(g), NEW x \in {r} \cup KidSet(h, r)
          PROVE  /\ g.next[x] = h.next[x] /\ g.prev[x] = h.prev[x]
                 /\ g.parent[x] = h.parent[x] /\ g.children[x] = h.children[x]
      <3>1. r \in Raw(h) /\ x \in h.live /\ x \notin {p, s} /\ r \in h.live /\ x \notin Settled(h)
        BY <1>1, <1>8, <2>1, PendingIs DEF Settled
      <3>2. h.next[x] \notin {p, s}
        <4> SUFFICES ASSUME NEW y \in {p, s}, h.next[x] = y PROVE FALSE
          OBVIOUS
        <4>1. h.prev[y] = x /\ y \in Settled(h) /\ x # Nil
          BY <1>1, <1>2, <3>1, OnePredecessor
        <4> QED
          BY <3>1, <4>1, SettledApart
      <3>3. h.prev[x] \notin {p, s}
        <4> SUFFICES ASSUME NEW y \in {p, s}, h.prev[x] = y PROVE FALSE
          OBVIOUS
        <4>1. h.next[y] = x /\ y \in Settled(h) /\ x # Nil
          BY <1>1, <1>2, <3>1, OnePredecessor
        <4> QED
          BY <3>1, <4>1, SettledApart
      <3>4. h.children[x] \notin {p, s}
        <4>1. CASE x = r
          BY <1>1, <1>2, <3>1, <4>1, KidsIn
        <4>2. CASE x \in KidSet(h, r)
          BY <1>1, <1>2, <3>1, <4>2 DEF Linked, RawApart
        <4> QED
          BY <2>1, <4>1, <4>2
      <3> QED
        BY <1>3, <1>4, <3>1, <3>2, <3>3, <3>4
    <2>2. ASSUME NEW r \in Raw(g), NEW x \in g.live PROVE g.parent[x] # r
      <3>1. \A y \in h.live : h.parent[y] # r
        BY <1>8 DEF Linked, RawApart
      <3> QED
        BY <1>3, <1>4, <3>1
    <2>3. ASSUME NEW r \in Raw(g), NEW q \in g.live, g.children[q] = g.children[r] PROVE q = r
      <3>1. r \in Raw(h) /\ r \in h.live /\ q \in h.live
        BY <1>3, <1>8, PendingIs
      <3>2. h.children[q] = h.children[r]
        BY <1>3, <1>4, <2>3, <3>1
      <3> QED
        BY <3>1, <3>2 DEF Linked, RawApart
    <2> QED
      BY <1>3, <1>8, <2>1, <2>2, <2>3, RawKept
  <1>11. Acyclic(g)
    <2> SUFFICES ASSUME NEW C \in SUBSET h.live, C # {}
                 PROVE  \E x \in C : \A y \in C : g.next[y] # x /\ g.children[y] # x
      BY <1>3 DEF Acyclic
    <2>1. \A D \in SUBSET h.live : D # {} => \E x \in D : \A y \in D : h.next[y] # x /\ h.children[y] # x
      BY DEF Linked, Acyclic
    <2>2. ASSUME NEW y \in K, y \in h.live PROVE g.next[y] = h.next[y] /\ g.children[y] = h.children[y]
      <3>1. y \notin {p, s} /\ h.next[y] \notin {p, s} /\ h.children[y] \notin {p, s}
        BY <1>1, <1>2
      <3> QED
        BY <1>3, <1>4, <2>2, <3>1
    <2>3. CASE C \subseteq K
      <3>1. PICK x \in C : \A y \in C : h.next[y] # x /\ h.children[y] # x
        BY <2>1
      <3> QED
        BY <2>2, <2>3, <3>1
    <2>4. CASE ~(C \subseteq K)
      <3> DEFINE D == {O(x) : x \in C \ K}
      <3>1. PICK z \in D : \A y \in D : h.next[y] # z /\ h.children[y] # z
        <4>1. D \in SUBSET h.live /\ D # {}
          BY <1>4, <2>4
        <4> HIDE DEF D
        <4> QED
          BY <2>1, <4>1
      <3>2. PICK x \in C \ K : z = O(x)
        BY <3>1
      <3>3. x = O(z) /\ z \notin K /\ x \in h.live /\ x # Nil /\ z # Nil
        BY <1>1, <1>2, <1>4, <3>2
      <3>4. ASSUME NEW y \in C PROVE g.next[y] # x /\ g.children[y] # x
        <4>1. CASE y \in K
          BY <1>1, <2>2, <3>2, <3>3, <4>1
        <4>2. CASE y \notin K
          <5>1. O(y) \in D /\ y \in h.live
            BY <4>2
          <5>2. g.next[y] # x
            BY <1>3, <1>4, <3>1, <3>2, <5>1
          <5>3. g.children[y] = x => h.children[y] = z
            BY <1>3, <1>4, <3>2, <5>1
          <5>4. h.children[y] # z
            <6>1. CASE y \in {p, s}
              BY <1>1, <3>3, <6>1
            <6>2. CASE y \notin {p, s}
              BY <1>4, <3>1, <5>1, <6>2
            <6> QED
              BY <6>1, <6>2
          <5> QED
            BY <5>2, <5>3, <5>4
        <4> QED
          BY <4>1, <4>2
      <3> QED
        BY <3>2, <3>4
    <2> QED
      BY <2>3, <2>4
  <1> QED
    BY <1>3, <1>5, <1>6, <1>7, <1>9, <1>10, <1>11 DEF Linked

\* What one half of mpt_gnode_switch does to the members.
PlaceTaken(h, g, n, old, nx, pv, up) ==
    /\ g \in Heaps /\ g.live = h.live
    /\ \A x \in Node :
          /\ g.next[x] = IF x = pv THEN n ELSE IF x = n THEN nx ELSE h.next[x]
          /\ g.prev[x] = IF x = nx THEN n ELSE IF x = n THEN pv ELSE h.prev[x]
          /\ g.parent[x] = IF nx = Nil /\ x = n THEN up ELSE h.parent[x]
          /\ g.children[x] = IF nx = Nil /\ x = up /\ h.children[x] = old THEN n ELSE h.children[x]

\* A node that takes the place of another is what its new neighbours and parent lead to.
LEMMA TakeIs ==
    ASSUME NEW h, h \in Heaps, NEW n \in Node, NEW old, NEW nx \in Link, NEW pv \in Link, NEW up \in Link
    PROVE  PlaceTaken(h, TakePlace(h, n, old, nx, pv, up), n, old, nx, pv, up)
  <1> DEFINE a == Put(Put(h.next, n, nx), pv, n)
             b == Put(Put(h.prev, n, pv), nx, n)
             c == Put(h.parent, n, up)
             d == IF up # Nil /\ h.children[up] = old THEN Put(h.children, up, n) ELSE h.children
             f == [h EXCEPT !.next = a, !.prev = b]
  <1>1. h.next \in [Node -> Link] /\ h.prev \in [Node -> Link] /\ h.parent \in [Node -> Link]
        /\ h.children \in [Node -> Link] /\ n \in Link /\ n # Nil
    BY NilAssumption DEF Heaps, Link
  <1>2. /\ a \in [Node -> Link] /\ \A x \in Node : a[x] = IF x = pv THEN n ELSE IF x = n THEN nx ELSE h.next[x]
        /\ b \in [Node -> Link] /\ \A x \in Node : b[x] = IF x = nx THEN n ELSE IF x = n THEN pv ELSE h.prev[x]
        /\ c \in [Node -> Link] /\ \A x \in Node : c[x] = IF x = n THEN up ELSE h.parent[x]
    BY <1>1, PutTyped
  <1>3. /\ d \in [Node -> Link]
        /\ \A x \in Node : d[x] = IF x = up /\ h.children[x] = old THEN n ELSE h.children[x]
    BY <1>1, NilAssumption, PutTyped
  <1>4. TakePlace(h, n, old, nx, pv, up) =
            IF nx # Nil THEN f ELSE [f EXCEPT !.parent = c, !.children = d]
    BY DEF TakePlace
  <1> HIDE DEF a, b, c, d
  <1>5. f \in Heaps /\ f.live = h.live /\ f.next = a /\ f.prev = b /\ f.parent = h.parent
        /\ f.children = h.children
    BY <1>2 DEF Heaps
  <1>6. CASE nx # Nil
    BY <1>2, <1>4, <1>5, <1>6 DEF PlaceTaken
  <1>7. CASE nx = Nil
    <2> DEFINE g == [f EXCEPT !.parent = c, !.children = d]
    <2>1. g \in Heaps /\ g.live = h.live /\ g.next = a /\ g.prev = b /\ g.parent = c /\ g.children = d
      BY <1>2, <1>3, <1>5 DEF Heaps
    <2>2. TakePlace(h, n, old, nx, pv, up) = g
      BY <1>4, <1>7
    <2> HIDE DEF g, f
    <2> QED
      BY <1>2, <1>3, <1>7, <2>1, <2>2 DEF PlaceTaken
  <1> QED
    BY <1>6, <1>7

\* Where both halves of mpt_gnode_switch are complete, the two nodes have
\* changed places.
LEMMA SwitchIs ==
    ASSUME Linked(heap), NEW p \in Settled(heap), NEW s \in Settled(heap), p # s, Switchable(p, s)
    PROVE  Exchanged(heap, mpt_gnode_switch(heap, p, s), p, s)
  <1>1. PICK h : h = heap
    OBVIOUS
  <1> DEFINE nxp == h.next[p]  pvp == h.prev[p]  upp == h.parent[p]
             nxs == h.next[s]  pvs == h.prev[s]  ups == h.parent[s]
             f == TakePlace(h, p, s, nxs, pvs, ups)
             g == TakePlace(f, s, p, nxp, pvp, upp)
             O(x) == Other(p, s, x)
  <1>2. /\ h.live \subseteq Node /\ Nil \notin h.live /\ p \in h.live /\ s \in h.live /\ h \in Heaps
        /\ \A x \in h.live : /\ h.next[x] \in h.live \cup {Nil} /\ h.prev[x] \in h.live \cup {Nil}
                             /\ h.parent[x] \in h.live \cup {Nil}
                             /\ h.children[x] \in h.live \cup {Nil}
    BY <1>1, LinkedTypes DEF Settled, Linked
  <1>3. /\ h.live \cup {Nil} \subseteq Link /\ p \in Node /\ s \in Node
        /\ nxp \in Link /\ pvp \in Link /\ upp \in Link /\ nxs \in Link /\ pvs \in Link /\ ups \in Link
    BY <1>2 DEF Link
  <1>4. Linked(h)
    BY <1>1
  <1>5. /\ nxp # s /\ nxs # p
        /\ nxp # Nil => upp = ups /\ (pvp # Nil \/ upp = Nil)
        /\ nxs # Nil => upp = ups /\ (pvs # Nil \/ ups = Nil)
    BY <1>1 DEF Switchable
  <1>6. PlaceTaken(h, f, p, s, nxs, pvs, ups)
    BY <1>2, <1>3, TakeIs
  <1>7. PlaceTaken(f, g, s, p, nxp, pvp, upp)
    <2>1. f \in Heaps
      BY <1>6 DEF PlaceTaken
    <2> HIDE DEF f
    <2> QED
      BY <1>3, <2>1, TakeIs
  <1>8. mpt_gnode_switch(heap, p, s) = g
    BY <1>1 DEF mpt_gnode_switch
  <1> HIDE DEF f, g
  <1>9. pvs # p /\ pvp # s /\ nxp # p /\ nxs # s /\ pvp # p /\ pvs # s
    <2>1. pvs # p /\ pvp # s
      BY <1>2, <1>4, <1>5, OnePredecessor
    <2>2. \A x \in h.live : h.next[x] # x
      <3> SUFFICES ASSUME NEW x \in h.live, h.next[x] = x PROVE FALSE
        OBVIOUS
      <3>1. {x} \in SUBSET h.live /\ {x} # {} /\ \A y \in {x} : h.next[y] = x
        OBVIOUS
      <3> QED
        BY <1>4, <3>1 DEF Linked, Acyclic
    <2>3. \A x \in h.live : h.prev[x] # x
      BY <1>2, <1>4, <2>2, OnePredecessor
    <2> QED
      BY <1>2, <2>1, <2>2, <2>3
  <1>10. \A x \in h.live : /\ h.next[x] = p <=> x = pvp
                           /\ h.next[x] = s <=> x = pvs
                           /\ h.prev[x] = p <=> x = nxp
                           /\ h.prev[x] = s <=> x = nxs
    BY <1>2, <1>4, OnePredecessor
  <1>11. \A x \in h.live : /\ h.children[x] = p => x = upp /\ pvp = Nil
                           /\ h.children[x] = s => x = ups /\ pvs = Nil
    <2> SUFFICES ASSUME NEW x \in h.live, NEW y \in {p, s}, h.children[x] = y
                 PROVE  x = h.parent[y] /\ h.prev[y] = Nil
      OBVIOUS
    <2>1. x \notin Raw(h)
      <3> SUFFICES ASSUME x \in Raw(h) PROVE FALSE
        OBVIOUS
      <3>1. y \in Pending(h)
        BY <1>2, <1>4, PendingIs, KidsIn
      <3> QED
        BY <1>1, <3>1 DEF Settled
    <2> QED
      BY <1>2, <1>4, <2>1 DEF Linked, OwnersAgree
  <1>12. ASSUME upp = ups, upp # Nil, h.children[upp] \in {p, s}
         PROVE  nxp # Nil \/ nxs # Nil
    <2> SUFFICES ASSUME nxp = Nil, nxs = Nil PROVE FALSE
      OBVIOUS
    <2>1. upp \in h.live /\ upp \notin Raw(h)
      BY <1>1, <1>2, <1>12, SettledApart, PendingIs DEF Settled
    <2>2. p \in KidSet(h, upp) /\ s \in KidSet(h, upp)
      BY <1>2, <1>4, <1>12, <2>1, KidsOwn
    <2>3. \A y \in {p, s} : Closed(h.next, {y})
      BY DEF Closed
    <2>4. KidSet(h, upp) \subseteq {h.children[upp]}
      BY <1>4, <1>12, <2>1, <2>3, KidsLeast
    <2> QED
      BY <2>2, <2>4
  <1>13. /\ g \in Heaps /\ g.live = h.live
         /\ \A x \in h.live :
              /\ f.next[x] = IF x = pvs THEN p ELSE IF x = p THEN nxs ELSE h.next[x]
              /\ f.prev[x] = IF x = nxs THEN p ELSE IF x = p THEN pvs ELSE h.prev[x]
              /\ f.parent[x] = IF nxs = Nil /\ x = p THEN ups ELSE h.parent[x]
              /\ f.children[x] = IF nxs = Nil /\ x = ups /\ h.children[x] = s THEN p ELSE h.children[x]
              /\ g.next[x] = IF x = pvp THEN s ELSE IF x = s THEN nxp ELSE f.next[x]
              /\ g.prev[x] = IF x = nxp THEN s ELSE IF x = s THEN pvp ELSE f.prev[x]
              /\ g.parent[x] = IF nxp = Nil /\ x = s THEN upp ELSE f.parent[x]
              /\ g.children[x] = IF nxp = Nil /\ x = upp /\ f.children[x] = p THEN s ELSE f.children[x]
    BY <1>2, <1>6, <1>7 DEF PlaceTaken
  <1>14. \A x \in h.live : O(x) = IF x = p THEN s ELSE IF x = s THEN p ELSE x
    BY DEF Other
  <1>15. ASSUME NEW x \in h.live
         PROVE  g.next[x] = O(h.next[O(x)]) /\ g.prev[x] = O(h.prev[O(x)])
    <2>1. CASE x = p
      BY <1>2, <1>5, <1>9, <1>13, <2>1 DEF Other
    <2>2. CASE x = s
      BY <1>2, <1>5, <1>9, <1>13, <2>2 DEF Other
    <2>3. CASE x # p /\ x # s
      BY <1>2, <1>5, <1>9, <1>10, <1>13, <2>3 DEF Other
    <2> QED
      BY <2>1, <2>2, <2>3
  <1>16. ASSUME NEW x \in h.live
         PROVE  g.parent[x] = h.parent[O(x)]
    BY <1>5, <1>13 DEF Other
  <1>17. ASSUME NEW x \in h.live
         PROVE  g.children[x] = O(h.children[x])
    <2>1. CASE h.children[x] = p
      <3>1. x = upp /\ pvp = Nil /\ upp # Nil /\ nxp = Nil
        BY <1>2, <1>5, <1>11, <2>1
      <3>2. f.children[x] = p
        BY <1>13, <2>1
      <3> QED
        BY <1>13, <2>1, <3>1, <3>2 DEF Other
    <2>2. CASE h.children[x] = s
      <3>1. x = ups /\ pvs = Nil /\ ups # Nil /\ nxs = Nil
        BY <1>2, <1>5, <1>11, <2>2
      <3>2. f.children[x] = p
        BY <1>13, <2>2, <3>1
      <3>3. ~(nxp = Nil /\ x = upp)
        BY <1>12, <2>2, <3>1
      <3> QED
        BY <1>13, <2>2, <3>2, <3>3 DEF Other
    <2>3. CASE h.children[x] # p /\ h.children[x] # s
      BY <1>13, <2>3 DEF Other
    <2> QED
      BY <2>1, <2>2, <2>3
  <1>18. Exchanged(h, g, p, s)
    BY <1>13, <1>15, <1>16, <1>17 DEF Exchanged
  <1> QED
    BY <1>1, <1>8, <1>18

-----------------------------------------------------------------------------
(* Copies of lists.                                                        *)

\* A new node leaves members of the right types.
LEMMA NewTyped ==
    ASSUME NEW h, h \in Heaps, NEW n \in Node, NEW name \in Names \cup {Nil}
    PROVE  mpt_node_new(h, n, name) \in Heaps
  <1> DEFINE a == Put(h.next, n, Nil)  b == Put(h.prev, n, Nil)
             c == Put(h.parent, n, Nil)  d == Put(h.children, n, Nil)
             e == Put(h.name, n, name)  f == Put(h.meta, n, Nil)
  <1>1. /\ a \in [Node -> Link] /\ b \in [Node -> Link] /\ c \in [Node -> Link] /\ d \in [Node -> Link]
        /\ e \in [Node -> Names \cup {Nil}] /\ f \in [Node -> {Nil}]
    BY DEF Heaps, Put, Link
  <1>2. PICK g : g = mpt_node_new(h, n, name)
    OBVIOUS
  <1>3. g = [h EXCEPT !.live = @ \cup {n}, !.name = e, !.meta = f, !.next = a, !.prev = b,
                      !.parent = c, !.children = d]
    BY <1>2 DEF mpt_node_new
  <1> HIDE DEF a, b, c, d, e, f
  <1>4. g \in Heaps
    BY <1>1, <1>3 DEF Heaps
  <1> QED
    BY <1>2, <1>4

\* A copy is a new node with the name of the other.
LEMMA CloneIs ==
    ASSUME NEW h, h \in Heaps, NEW n \in Node, NEW copy \in Node
    PROVE  /\ mpt_node_clone(h, n, copy) = mpt_node_new(h, copy, h.name[n])
           /\ h.name[n] \in Names \cup {Nil}
           /\ mpt_node_clone(h, n, copy) \in Heaps
  <1>1. h.name[n] \in Names \cup {Nil} /\ h.meta[n] = Nil
    BY DEF Heaps
  <1>2. PICK g : g = mpt_node_new(h, copy, h.name[n])
    OBVIOUS
  <1>3. g \in Heaps
    BY <1>1, <1>2, NewTyped
  <1>4. g.meta[copy] = Nil
    BY <1>3 DEF Heaps
  <1>5. Put(g.meta, copy, Nil) = g.meta
    BY <1>3, <1>4 DEF Heaps, Put
  <1>6. [g EXCEPT !.meta = g.meta] = g
    BY <1>3 DEF Heaps
  <1>7. mpt_node_clone(h, n, copy) = [g EXCEPT !.meta = Put(g.meta, copy, Nil)]
    BY <1>1, <1>2 DEF mpt_node_clone
  <1> QED
    BY <1>1, <1>2, <1>3, <1>5, <1>6, <1>7

CloneStep(h, list, copy, k) ==
    LET g == mpt_node_clone(h, list[k], copy[k])
    IN  IF k = 1 THEN g ELSE mpt_gnode_after(g, copy[k-1], copy[k])

\* Different nodes that are not in use, as many as the list has.
CopiesFor(h, list, copy) ==
    /\ list \in Seq(Node) /\ copy \in [1..Len(list) -> Node \ h.live]
    /\ \A i, j \in 1..Len(list) : copy[i] = copy[j] => i = j

\* So does each step of a copy.
LEMMA CloneStepTyped ==
    ASSUME NEW h, NEW list, NEW copy, CopiesFor(h, list, copy),
           NEW f \in Heaps, NEW k \in 1..Len(list)
    PROVE  CloneStep(f, list, copy, k) \in Heaps
  <1>1. list \in Seq(Node) /\ Len(list) \in Nat /\ list[k] \in Node /\ copy[k] \in Node
    BY LenProperties, ElementOfSeq DEF CopiesFor
  <1>2. PICK g : g = mpt_node_clone(f, list[k], copy[k])
    OBVIOUS
  <1>3. g \in Heaps
    BY <1>1, <1>2, CloneIs
  <1>4. CASE k = 1
    BY <1>2, <1>3, <1>4 DEF CloneStep
  <1>5. CASE k # 1
    <2>1. k - 1 \in 1..Len(list) /\ k - 1 # k
      BY <1>1, <1>5
    <2>2. copy[k-1] \in Node /\ copy[k-1] # copy[k]
      BY <2>1 DEF CopiesFor
    <2>3. mpt_gnode_after(g, copy[k-1], copy[k]) \in Heaps
      BY <1>1, <1>3, <2>2, AfterPuts DEF PutAfter
    <2> QED
      BY <1>2, <1>5, <2>3 DEF CloneStep
  <1> QED
    BY <1>4, <1>5

\* The copy of a list is what copying its nodes one after the other leads to.
LEMMA CloneSteps ==
    ASSUME NEW h \in Heaps, NEW list, NEW copy, CopiesFor(h, list, copy)
    PROVE  \E c : /\ c[0] = h
                  /\ \A k \in 1..Len(list) : c[k] = CloneStep(c[k-1], list, copy, k)
                  /\ mpt_list_clone(h, list, copy) = c[Len(list)]
  <1>1. PICK N \in Nat : N = Len(list)
    BY LenProperties DEF CopiesFor
  <1> DEFINE Steps(c) == c = [k \in 0 .. Len(list) |->
                IF k = 0 THEN h
                ELSE LET g == mpt_node_clone(c[k-1], list[k], copy[k])
                     IN  IF k = 1 THEN g ELSE mpt_gnode_after(g, copy[k-1], copy[k])]
             step == [x \in Nat \X Heaps |->
                        IF x[1] \in 1..N THEN CloneStep(x[2], list, copy, x[1]) ELSE x[2]]
  <1>2. step \in [Nat \X Heaps -> Heaps]
    <2>1. \A k \in 1..N, f \in Heaps : CloneStep(f, list, copy, k) \in Heaps
      BY <1>1, CloneStepTyped
    <2> QED
      BY <2>1
  <1>3. \A k \in 1..N, f \in Heaps : step[<<k, f>>] = CloneStep(f, list, copy, k)
    <2> SUFFICES ASSUME NEW k \in 1..N, NEW f \in Heaps
                 PROVE step[<<k, f>>] = CloneStep(f, list, copy, k)
      OBVIOUS
    <2>1. <<k, f>> \in Nat \X Heaps /\ <<k, f>>[1] = k /\ <<k, f>>[2] = f
      OBVIOUS
    <2> QED
      BY <2>1
  <1>4. PICK c : Stepped(c, N, Heaps, h, step)
    <2> HIDE DEF step
    <2> QED
      BY <1>2, Iterates
  <1>5. \A k \in 1..N : c[k] = CloneStep(c[k-1], list, copy, k)
    <2> SUFFICES ASSUME NEW k \in 1..N PROVE c[k] = CloneStep(c[k-1], list, copy, k)
      OBVIOUS
    <2>1. k - 1 \in 0..N /\ k \in Nat
      OBVIOUS
    <2> HIDE DEF step
    <2>2. c[k-1] \in Heaps
      BY <1>4, <2>1 DEF Stepped
    <2> QED
      BY <1>3, <1>4, <2>1, <2>2 DEF Stepped
  <1>6. Steps(c)
    <2>1. c = [k \in 0..N |-> c[k]]
      BY <1>4 DEF Stepped
    <2>2. \A k \in 0..N : c[k] = IF k = 0 THEN h
                ELSE LET g == mpt_node_clone(c[k-1], list[k], copy[k])
                     IN  IF k = 1 THEN g ELSE mpt_gnode_after(g, copy[k-1], copy[k])
      <3> SUFFICES ASSUME NEW k \in 0..N
                   PROVE  c[k] = IF k = 0 THEN h ELSE CloneStep(c[k-1], list, copy, k)
        BY DEF CloneStep
      <3>1. k = 0 \/ k \in 1..N
        OBVIOUS
      <3> HIDE DEF step, Steps
      <3> QED
        BY <1>4, <1>5, <3>1 DEF Stepped
    <2> HIDE DEF step
    <2> QED
      BY <1>1, <2>1, <2>2
  <1>7. Steps(CHOOSE d : Steps(d))
    <2> HIDE DEF Steps
    <2> QED
      BY <1>6
  <1>8. PICK d : d = CHOOSE e : Steps(e)
    OBVIOUS
  <1>9. Steps(d)
    <2> HIDE DEF Steps
    <2> QED
      BY <1>7, <1>8
  <1>10. mpt_list_clone(h, list, copy) = d[Len(list)]
    BY <1>8 DEF mpt_list_clone
  <1>11. d[0] = h /\ \A k \in 1..Len(list) : d[k] = CloneStep(d[k-1], list, copy, k)
    <2>1. d = [k \in 0 .. N |-> IF k = 0 THEN h ELSE CloneStep(d[k-1], list, copy, k)]
      BY <1>1, <1>9 DEF CloneStep
    <2>2. 0 \in 0..N /\ \A k \in 1..N : k \in 0..N /\ k # 0
      OBVIOUS
    <2> HIDE DEF Steps, step
    <2>3. d[0] = h /\ \A k \in 1..N : d[k] = CloneStep(d[k-1], list, copy, k)
      BY <2>1, <2>2, Zenon
    <2> QED
      BY <1>1, <2>3
  <1> QED
    BY <1>10, <1>11

\* The first k nodes of a list are copied, into a list of their own.
Cloned(h, g, copy, k) ==
    /\ Linked(g) /\ Pending(g) \subseteq Pending(h)
    /\ g.live = h.live \cup {copy[i] : i \in 1..k}
    /\ \A x \in h.live : /\ g.next[x] = h.next[x] /\ g.prev[x] = h.prev[x]
                         /\ g.parent[x] = h.parent[x] /\ g.children[x] = h.children[x]
    /\ \A i \in 1..k : /\ g.children[copy[i]] = Nil /\ g.parent[copy[i]] = Nil
                       /\ g.next[copy[i]] \in {copy[j] : j \in 1..k} \cup {Nil}
    /\ k > 0 => g.prev[copy[1]] = Nil /\ g.next[copy[k]] = Nil

\* A copied list grows by one node at a time, linked to the last one only.
LEMMA CloneOne ==
    ASSUME NEW h, Linked(h), NEW list, NEW copy, CopiesFor(h, list, copy),
           NEW f, NEW k \in Nat, k < Len(list), Cloned(h, f, copy, k)
    PROVE  Cloned(h, CloneStep(f, list, copy, k + 1), copy, k + 1)
  <1> DEFINE n == copy[k+1]  old == {copy[i] : i \in 1..k}
  <1>1. Len(list) \in Nat /\ k + 1 \in 1..Len(list) /\ list[k+1] \in Node
    <2>1. list \in Seq(Node) /\ Len(list) \in Nat
      BY LenProperties DEF CopiesFor
    <2>2. k + 1 \in 1..Len(list)
      BY <2>1
    <2> QED
      BY <2>1, <2>2, ElementOfSeq
  <1>2. /\ \A i \in 1..Len(list) : copy[i] \in Node \ h.live
        /\ \A i, j \in 1..Len(list) : copy[i] = copy[j] => i = j
    BY DEF CopiesFor
  <1>3. \A i \in 1..k : i \in 1..Len(list) /\ i # k + 1
    BY <1>1
  <1>4. /\ Linked(f) /\ Pending(f) \subseteq Pending(h) /\ f.live = h.live \cup old /\ f \in Heaps
        /\ \A x \in h.live : /\ f.next[x] = h.next[x] /\ f.prev[x] = h.prev[x]
                             /\ f.parent[x] = h.parent[x] /\ f.children[x] = h.children[x]
        /\ \A i \in 1..k : /\ f.children[copy[i]] = Nil /\ f.parent[copy[i]] = Nil
                           /\ f.next[copy[i]] \in old \cup {Nil}
        /\ k > 0 => f.prev[copy[1]] = Nil /\ f.next[copy[k]] = Nil
    BY DEF Cloned, Linked
  <1>5. n \in Node \ f.live /\ n \notin old /\ n \notin h.live
    BY <1>1, <1>2, <1>3, <1>4
  <1>6. {copy[i] : i \in 1..k+1} = old \cup {n}
    <2>1. \A i \in 1..k+1 : i \in 1..k \/ i = k + 1
      OBVIOUS
    <2>2. k + 1 \in 1..k+1 /\ \A i \in 1..k : i \in 1..k+1
      OBVIOUS
    <2> QED
      BY <2>1, <2>2
  <1>7. PICK m : m = mpt_node_clone(f, list[k+1], n)
    OBVIOUS
  <1>8. m = mpt_node_new(f, n, f.name[list[k+1]]) /\ f.name[list[k+1]] \in Names \cup {Nil}
    BY <1>1, <1>4, <1>5, <1>7, CloneIs
  <1>9. /\ Linked(m) /\ Pending(m) \subseteq Pending(f) /\ m.live = f.live \cup {n}
        /\ Isolated(m, n) /\ m.children[n] = Nil
        /\ \A x \in f.live : /\ m.next[x] = f.next[x] /\ m.prev[x] = f.prev[x]
                             /\ m.parent[x] = f.parent[x] /\ m.children[x] = f.children[x]
    BY <1>4, <1>5, <1>8, NewLinked
  <1> HIDE DEF n, old
  <1>10. \A i \in 1..k : copy[i] \in f.live /\ copy[i] \in old /\ copy[i] # n
    BY <1>4, <1>5 DEF old
  <1>11. CASE k = 0
    <2>1. 1..k = {} /\ old = {} /\ n = copy[1] /\ \A i \in 1..k+1 : copy[i] = n
      BY <1>11 DEF old, n
    <2>2. CloneStep(f, list, copy, k + 1) = m
      BY <1>7, <1>11, <2>1 DEF CloneStep
    <2>3. Pending(m) \subseteq Pending(h)
      BY <1>4, <1>9
    <2>4. m.live = h.live \cup {copy[i] : i \in 1..k+1}
      BY <1>4, <1>6, <1>9
    <2>5. \A x \in h.live : /\ m.next[x] = h.next[x] /\ m.prev[x] = h.prev[x]
                            /\ m.parent[x] = h.parent[x] /\ m.children[x] = h.children[x]
      BY <1>4, <1>9
    <2>6. \A i \in 1..k+1 : /\ m.children[copy[i]] = Nil /\ m.parent[copy[i]] = Nil
                            /\ m.next[copy[i]] = Nil
      BY <1>9, <2>1 DEF Isolated
    <2>7. m.prev[copy[1]] = Nil /\ m.next[copy[k+1]] = Nil
      BY <1>9, <2>1 DEF Isolated, n
    <2> QED
      BY <1>9, <2>2, <2>3, <2>4, <2>5, <2>6, <2>7 DEF Cloned
  <1>12. CASE k # 0
    <2> DEFINE p == copy[k]
    <2>1. k \in 1..k /\ 1 \in 1..k /\ k > 0 /\ k + 1 # 1 /\ k + 1 - 1 = k
      BY <1>12
    <2>2. p \in old /\ p \in f.live /\ p # n /\ p \in Node /\ copy[1] \in f.live /\ copy[1] # n /\ p \notin h.live
      BY <1>1, <1>2, <1>3, <1>10, <2>1
    <2> HIDE DEF p
    <2>3. p \in Settled(m) /\ n \in Settled(m) /\ n \in m.live
      <3>1. Pending(m) \subseteq h.live
        BY <1>4, <1>9, PendingIs
      <3> QED
        BY <1>5, <1>9, <2>2, <3>1 DEF Settled
    <2>4. p \notin Tree(m, n)
      BY <1>9, <2>2, <2>3, TreeIs, BelowProps
    <2>5. PICK g : g = mpt_gnode_after(m, p, n)
      OBVIOUS
    <2>6. PutAfter(m, g, p, n)
      BY <1>5, <1>9, <2>2, <2>5, AfterPuts DEF Linked
    <2>7. Linked(g) /\ Pending(g) \subseteq Pending(m)
      BY <1>9, <2>3, <2>4, <2>6, AfterLinked
    <2>8. CloneStep(f, list, copy, k + 1) = g
      BY <1>7, <2>1, <2>5 DEF CloneStep, n, p
    <2>9. m.next[p] = Nil
      BY <1>4, <1>9, <2>1, <2>2 DEF p
    <2>10. /\ g.live = f.live \cup {n} /\ f.live \subseteq Node /\ Nil \notin f.live /\ n # Nil
           /\ \A x \in f.live : /\ g.next[x] = IF x = p THEN n ELSE f.next[x]
                                /\ g.prev[x] = f.prev[x]
                                /\ g.parent[x] = f.parent[x] /\ g.children[x] = f.children[x]
           /\ g.next[n] = Nil /\ g.parent[n] = f.parent[p] /\ g.children[n] = Nil
      <3>1. f.live \subseteq Node /\ Nil \notin f.live /\ n # Nil /\ n \in Node
        BY <1>4, <1>5, LinkedTypes, NilAssumption
      <3> QED
        BY <1>5, <1>9, <2>2, <2>6, <2>9, <3>1 DEF PutAfter
    <2>11. g.live = h.live \cup {copy[i] : i \in 1..k+1}
      BY <1>4, <1>6, <2>10
    <2>12. \A x \in h.live : /\ g.next[x] = h.next[x] /\ g.prev[x] = h.prev[x]
                             /\ g.parent[x] = h.parent[x] /\ g.children[x] = h.children[x]
      BY <1>4, <2>2, <2>10
    <2>13. ASSUME NEW i \in 1..k+1
           PROVE  /\ g.children[copy[i]] = Nil /\ g.parent[copy[i]] = Nil
                  /\ g.next[copy[i]] \in (old \cup {n}) \cup {Nil}
      <3>1. CASE i \in 1..k
        BY <1>4, <1>10, <2>10, <3>1
      <3>2. CASE i = k + 1
        <4>1. f.parent[p] = Nil
          BY <1>4, <2>1 DEF p
        <4> QED
          BY <2>10, <3>2, <4>1 DEF n
      <3> QED
        BY <3>1, <3>2
    <2>14. g.prev[copy[1]] = Nil /\ g.next[copy[k+1]] = Nil
      BY <1>4, <2>1, <2>2, <2>10 DEF n
    <2>15. Pending(g) \subseteq Pending(h)
      BY <1>4, <1>9, <2>7
    <2> QED
      BY <1>6, <2>7, <2>8, <2>11, <2>12, <2>13, <2>14, <2>15 DEF Cloned
  <1> QED
    BY <1>11, <1>12

\* mpt_list_clone makes a list of new nodes without children and parent.
LEMMA ListCloneLinked ==
    ASSUME NEW h, Linked(h), NEW list, NEW copy, CopiesFor(h, list, copy)
    PROVE  Cloned(h, mpt_list_clone(h, list, copy), copy, Len(list))
  <1>1. h \in Heaps
    BY DEF Linked
  <1>2. PICK c : /\ c[0] = h
                 /\ \A k \in 1..Len(list) : c[k] = CloneStep(c[k-1], list, copy, k)
                 /\ mpt_list_clone(h, list, copy) = c[Len(list)]
    BY <1>1, CloneSteps
  <1>3. PICK N \in Nat : N = Len(list)
    BY LenProperties DEF CopiesFor
  <1> DEFINE P == {k \in Nat : Cloned(h, c[k], copy, k)}
  <1>4. 0 \in P
    <2>1. Cloned(h, h, copy, 0)
      <3>1. {copy[i] : i \in 1..0} = {}
        OBVIOUS
      <3> QED
        BY <3>1 DEF Cloned
    <2> QED
      BY <1>2, <2>1
  <1>5. ASSUME NEW k \in 0..N, k < N, k \in P PROVE k + 1 \in P
    <2>1. k + 1 \in 1..N /\ k + 1 - 1 = k /\ k + 1 \in Nat /\ k \in Nat
      BY <1>5
    <2>2. c[k+1] = CloneStep(c[k], list, copy, k + 1)
      BY <1>2, <1>3, <2>1
    <2>3. Cloned(h, c[k], copy, k)
      BY <1>5
    <2>4. Cloned(h, c[k+1], copy, k + 1)
      BY <1>3, <1>5, <2>1, <2>2, <2>3, CloneOne
    <2> QED
      BY <2>1, <2>4
  <1>6. \A k \in 0..N : k \in P
    <2> HIDE DEF P
    <2> QED
      BY <1>4, <1>5, UpTo
  <1>7. N \in P
    <2> HIDE DEF P
    <2> QED
      BY <1>6
  <1> QED
    BY <1>2, <1>3, <1>7

\* mpt_tree_clone puts a copied list below a new node; the nodes of the list
\* do not know it yet.
LEMMA TreeCloneLinked ==
    ASSUME NEW h, Linked(h), NEW n \in Node, NEW top \in Node \ h.live,
           NEW f, f = mpt_node_clone(h, n, top),
           NEW list, NEW copy, CopiesFor(f, list, copy), list # <<>>,
           NEW e, e = mpt_list_clone(f, list, copy)
    PROVE  Linked([e EXCEPT !.children = Put(@, top, copy[1])])
  <1> DEFINE new == {copy[i] : i \in 1..Len(list)}
             a == Put(e.children, top, copy[1])
  <1>1. PICK g : g = [e EXCEPT !.children = a]
    OBVIOUS
  <1>2. Len(list) \in Nat /\ 1 \in 1..Len(list)
    <2>1. Len(list) \in Nat /\ Len(list) # 0
      BY LenProperties, EmptySeq DEF CopiesFor
    <2> QED
      BY <2>1
  <1>3. h \in Heaps /\ top # Nil
    BY NilAssumption DEF Linked
  <1>4. /\ Linked(f) /\ Pending(f) \subseteq Pending(h) /\ f.live = h.live \cup {top}
        /\ Isolated(f, top) /\ f.children[top] = Nil /\ top \in f.live
    <2>1. f = mpt_node_new(h, top, h.name[n]) /\ h.name[n] \in Names \cup {Nil}
      BY <1>3, CloneIs
    <2> QED
      BY <2>1, NewLinked
  <1>5. Cloned(f, e, copy, Len(list))
    BY <1>4, ListCloneLinked
  <1>6. /\ Linked(e) /\ Pending(e) \subseteq Pending(f) /\ e.live = f.live \cup new /\ e \in Heaps
        /\ e.next[top] = Nil /\ e.prev[top] = Nil /\ e.parent[top] = Nil /\ e.children[top] = Nil
        /\ \A x \in new : e.children[x] = Nil /\ e.parent[x] = Nil /\ e.next[x] \in new \cup {Nil}
        /\ e.prev[copy[1]] = Nil
    BY <1>2, <1>4, <1>5 DEF Cloned, Linked, Isolated
  <1>7. new \cap f.live = {} /\ copy[1] \in new /\ new \subseteq Node
    BY <1>2 DEF CopiesFor
  <1>8. PICK first : first = copy[1]
    OBVIOUS
  <1>9. /\ first \in new /\ first \in e.live /\ first # Nil /\ first # top /\ top \in e.live
        /\ top \notin new /\ first \in Node /\ first \in Link
    BY <1>4, <1>6, <1>7, <1>8, NilAssumption DEF Link
  <1>10. /\ e.live \subseteq Node /\ Nil \notin e.live
         /\ \A x \in e.live : /\ e.next[x] \in e.live \cup {Nil} /\ e.prev[x] \in e.live \cup {Nil}
                              /\ e.parent[x] \in e.live \cup {Nil}
                              /\ e.children[x] \in e.live \cup {Nil}
    BY <1>6, LinkedTypes
  <1>11. top \in Settled(e) /\ first \in Settled(e) /\ new \cap Pending(e) = {}
    <2>1. Pending(e) \subseteq h.live /\ h.live \subseteq f.live
      BY <1>4, <1>6, PendingIs
    <2> QED
      BY <1>7, <1>9, <2>1 DEF Settled
  <1>12. a \in [Node -> Link] /\ \A x \in Node : a[x] = IF x = top THEN first ELSE e.children[x]
    BY <1>6, <1>8, <1>9, PutTyped DEF Heaps
  <1> HIDE DEF a, new
  <1>13. /\ g \in Heaps /\ g.live = e.live /\ g.next = e.next /\ g.prev = e.prev /\ g.parent = e.parent
         /\ \A x \in e.live : g.children[x] = IF x = top THEN first ELSE e.children[x]
    <2>1. g \in Heaps /\ g.live = e.live /\ g.next = e.next /\ g.prev = e.prev /\ g.parent = e.parent
          /\ g.children = a
      BY <1>1, <1>6, <1>12 DEF Heaps
    <2> QED
      BY <1>10, <1>12, <2>1
  <1>14. \A x \in e.live : e.next[x] # top /\ e.children[x] # top
    BY <1>6, <1>11, FreeNode DEF Isolated
  <1>15. \A x \in e.live : e.children[x] # first
    <2> SUFFICES ASSUME NEW x \in e.live, e.children[x] = first PROVE FALSE
      OBVIOUS
    <2>1. x \notin Raw(e)
      <3> SUFFICES ASSUME x \in Raw(e) PROVE FALSE
        OBVIOUS
      <3>1. first \in Pending(e)
        BY <1>6, <1>9, PendingIs, KidsIn
      <3> QED
        BY <1>11, <3>1 DEF Settled
    <2>2. e.parent[first] = x
      BY <1>6, <1>9, <2>1 DEF Linked, OwnersAgree
    <2> QED
      BY <1>6, <1>9, <1>10, <2>2
  <1>16. \A x \in e.live : e.parent[x] # top
    <2>1. KidSet(e, top) = {} /\ top \notin Raw(e)
      BY <1>6, <1>9, <1>11, KidsIn, PendingIs DEF Settled
    <2> QED
      BY <1>6, <1>9, <2>1, KidsOwn
  <1>17. LinksLive(g)
    BY <1>9, <1>10, <1>13 DEF LinksLive
  <1>18. PairsAgree(g)
    BY <1>6, <1>13 DEF Linked, PairsAgree
  <1>19. ParentsAgree(g)
    BY <1>6, <1>13 DEF Linked, ParentsAgree
  <1>20. Raw(g) = Raw(e) \cup {top} /\ top \notin Raw(e)
    BY <1>6, <1>9, <1>13 DEF Raw
  <1>21. OwnersAgree(g)
    <2> SUFFICES ASSUME NEW q \in e.live, NEW y \in e.live, q \notin Raw(e), q # top
                 PROVE  g.children[q] = y <=> g.parent[y] = q /\ g.prev[y] = Nil
      BY <1>13, <1>20 DEF OwnersAgree
    <2>1. e.children[q] = y <=> e.parent[y] = q /\ e.prev[y] = Nil
      BY <1>6 DEF Linked, OwnersAgree
    <2> QED
      BY <1>13, <2>1
  <1>22. ASSUME NEW r \in Raw(e)
         PROVE  /\ Isolated(g, r) /\ g.prev[g.children[r]] = Nil
                /\ \A x \in KidSet(g, r) : g.children[x] = Nil
                /\ \A x \in g.live : g.parent[x] # r
                /\ \A q \in g.live : g.children[q] = g.children[r] => q = r
    <2>1. r \in e.live /\ r # top /\ g.children[r] = e.children[r] /\ e.children[r] \in KidSet(e, r)
      BY <1>6, <1>13, <1>20, PendingIs, KidsIn DEF Raw
    <2>2. KidSet(g, r) = KidSet(e, r)
      BY <1>13, <2>1 DEF KidSet, Kids, ListFrom
    <2>3. KidSet(e, r) \subseteq e.live /\ KidSet(e, r) \subseteq Pending(e)
      BY <1>6, <2>1, KidsIn, PendingIs
    <2>4. \A x \in KidSet(e, r) : x # top /\ x \in e.live
      BY <1>11, <2>3 DEF Settled
    <2>5. Isolated(e, r) /\ e.prev[e.children[r]] = Nil /\ \A x \in KidSet(e, r) : e.children[x] = Nil
      BY <1>6 DEF Linked, RawApart
    <2>6. \A q \in e.live : e.children[q] = e.children[r] => q = r
      BY <1>6 DEF Linked, RawApart
    <2>7. \A x \in e.live : e.parent[x] # r
      BY <1>6 DEF Linked, RawApart
    <2> QED
      BY <1>13, <1>15, <2>1, <2>2, <2>4, <2>5, <2>6, <2>7 DEF Isolated
  <1>23. /\ Isolated(g, top) /\ g.prev[g.children[top]] = Nil
         /\ \A x \in KidSet(g, top) : g.children[x] = Nil
         /\ \A x \in g.live : g.parent[x] # top
         /\ \A q \in g.live : g.children[q] = g.children[top] => q = top
    <2>1. g.children[top] = first
      BY <1>9, <1>13
    <2>2. Isolated(g, top) /\ g.prev[first] = Nil
      BY <1>6, <1>8, <1>13 DEF Isolated
    <2>3. KidSet(g, top) \subseteq new
      <3>1. Linking(g) /\ top \in Node /\ first \in Link /\ g.next \in [Node -> Link]
        BY <1>9, <1>13 DEF Heaps, Linking
      <3>2. KidSet(g, top) = Reach(g.next, first)
        BY <2>1, <3>1, KidSetReached
      <3>3. Closed(g.next, new)
        BY <1>6, <1>13 DEF Closed
      <3> QED
        BY <1>9, <3>1, <3>2, <3>3, ReachLeast
    <2>4. \A x \in new : g.children[x] = Nil
      BY <1>6, <1>9, <1>13
    <2> QED
      BY <1>13, <1>15, <1>16, <2>1, <2>2, <2>3, <2>4
  <1>24. RawApart(g)
    BY <1>20, <1>22, <1>23 DEF RawApart
  <1>25. Acyclic(g)
    <2> SUFFICES ASSUME NEW C \in SUBSET e.live, C # {}
                 PROVE  \E x \in C : \A y \in C : g.next[y] # x /\ g.children[y] # x
      BY <1>13 DEF Acyclic
    <2>1. PICK x \in C : \A y \in C : e.next[y] # x /\ e.children[y] # x
      BY <1>6 DEF Linked, Acyclic
    <2>2. CASE top \in C
      BY <1>9, <1>13, <1>14, <2>2
    <2>3. CASE top \notin C
      BY <1>13, <2>1, <2>3
    <2> QED
      BY <2>2, <2>3
  <1>26. Linked(g)
    BY <1>13, <1>17, <1>18, <1>19, <1>21, <1>24, <1>25 DEF Linked
  <1> QED
    BY <1>1, <1>26 DEF a

-----------------------------------------------------------------------------
(* Relinking.                                                              *)

\* Nothing changes where a member is set to what it was, or at no node.
LEMMA PutSame ==
    ASSUME NEW f \in [Node -> Link], NEW x, NEW v, x \notin Node \/ f[x] = v
    PROVE  Put(f, x, v) = f
  BY DEF Put

\* A step of the walk of `mpt_gnode_relink` leaves members of the right types.
LEMMA FollowTyped ==
    ASSUME NEW h, h \in Heaps, NEW m \in Node
    PROVE  Follow(h, m) \in Heaps
  <1> DEFINE a == Put(h.parent, h.next[m], h.parent[m])  b == Put(h.prev, h.next[m], m)
  <1>1. a \in [Node -> Link] /\ b \in [Node -> Link]
    BY PutTyped DEF Heaps, Link
  <1>2. PICK g : g = Follow(h, m)
    OBVIOUS
  <1>3. g = [h EXCEPT !.parent = a, !.prev = b]
    BY <1>2 DEF Follow
  <1> HIDE DEF a, b
  <1>4. g \in Heaps
    BY <1>1, <1>3 DEF Heaps
  <1> QED
    BY <1>2, <1>4

\* Where the walk is, and the heap it has changed.
Walks == [h : Heaps, node : Link]
Walk(n, v) == IF v.node \in {Nil, n} THEN v ELSE RelinkStep(v)

\* So does the walk.
LEMMA WalkTyped ==
    ASSUME NEW n \in Node, NEW v \in Walks
    PROVE  Walk(n, v) \in Walks
  <1> SUFFICES ASSUME v.node \notin {Nil, n} PROVE RelinkStep(v) \in Walks
    BY DEF Walk
  <1> DEFINE m == v.node  c == v.h.children[m]
             a == Put(v.h.parent, c, m)
             down == [v.h EXCEPT !.parent = a]
             g == IF c = Nil THEN v.h ELSE Follow(down, m)
             last == IF c = Nil THEN m ELSE c
  <1>1. m \in Node /\ v.h \in Heaps /\ m \in Link
    BY DEF Walks, Link
  <1>2. c \in Link
    BY <1>1 DEF Heaps
  <1>3. a \in [Node -> Link]
    BY <1>1, PutTyped DEF Heaps
  <1> HIDE DEF m, a
  <1>4. down \in Heaps
    BY <1>1, <1>3 DEF Heaps
  <1>5. g \in Heaps
    BY <1>1, <1>4, FollowTyped
  <1>6. last \in Node
    BY <1>1, <1>2 DEF Link
  <1>7. RelinkStep(v) = IF g.next[last] # Nil THEN [h |-> Follow(g, last), node |-> g.next[last]]
                        ELSE [h |-> g, node |-> IF g.parent[last] = Nil THEN Nil ELSE g.next[g.parent[last]]]
    BY DEF RelinkStep, m, a
  <1> HIDE DEF g, last
  <1>8. Follow(g, last) \in Heaps
    BY <1>5, <1>6, FollowTyped
  <1>9. g.next[last] \in Link /\ g.parent[last] \in Link
    BY <1>5, <1>6 DEF Heaps
  <1>10. g.parent[last] # Nil => g.next[g.parent[last]] \in Link
    BY <1>5, <1>9 DEF Heaps, Link
  <1>11. Nil \in Link
    BY DEF Link
  <1> QED
    BY <1>5, <1>7, <1>8, <1>9, <1>10, <1>11 DEF Walks

\* mpt_gnode_relink ends where the steps of its walk lead.
LEMMA WalkSteps ==
    ASSUME NEW h \in Heaps, NEW n \in Node
    PROVE  \E w : /\ w[0] = [h |-> [h EXCEPT !.parent = Put(@, h.children[n], n)],
                             node |-> h.children[n]]
                  /\ \A k \in 1..Memory : w[k] = Walk(n, w[k-1])
                  /\ mpt_gnode_relink(h, n) = w[Memory].h
  <1> DEFINE init == [h |-> [h EXCEPT !.parent = Put(@, h.children[n], n)], node |-> h.children[n]]
             Steps(c) == c = [k \in 0 .. Cardinality(Node) |->
                IF k = 0 THEN init
                ELSE LET v == c[k-1] IN IF v.node \in {Nil, n} THEN v ELSE RelinkStep(v)]
             step == [x \in Nat \X Walks |-> Walk(n, x[2])]
  <1>1. step \in [Nat \X Walks -> Walks]
    BY WalkTyped
  <1>2. init \in Walks
    <2>1. Put(h.parent, h.children[n], n) \in [Node -> Link] /\ h.children[n] \in Link
      BY PutTyped DEF Heaps, Link
    <2>2. [h EXCEPT !.parent = Put(@, h.children[n], n)] \in Heaps
      BY <2>1 DEF Heaps
    <2> QED
      BY <2>1, <2>2 DEF Walks
  <1> HIDE DEF init
  <1>3. \A k \in Nat, v \in Walks : step[<<k, v>>] = Walk(n, v)
    OBVIOUS
  <1>4. PICK c : Stepped(c, Memory, Walks, init, step)
    <2> HIDE DEF step
    <2> QED
      BY <1>1, <1>2, MemoryCounted, Iterates
  <1>5. \A k \in 1..Memory : c[k] = Walk(n, c[k-1])
    <2> SUFFICES ASSUME NEW k \in 1..Memory PROVE c[k] = Walk(n, c[k-1])
      OBVIOUS
    <2>1. k - 1 \in 0..Memory /\ k \in Nat
      BY MemoryCounted
    <2> HIDE DEF step
    <2>2. c[k-1] \in Walks
      BY <1>4, <2>1 DEF Stepped
    <2> QED
      BY <1>3, <1>4, <2>1, <2>2 DEF Stepped
  <1>6. Steps(c)
    <2>1. c = [k \in 0..Memory |-> c[k]]
      BY <1>4 DEF Stepped
    <2>2. \A k \in 0..Memory : c[k] = IF k = 0 THEN init
                ELSE LET v == c[k-1] IN IF v.node \in {Nil, n} THEN v ELSE RelinkStep(v)
      <3> SUFFICES ASSUME NEW k \in 0..Memory
                   PROVE  c[k] = IF k = 0 THEN init ELSE Walk(n, c[k-1])
        BY DEF Walk
      <3>1. k = 0 \/ k \in 1..Memory
        BY MemoryCounted
      <3> HIDE DEF step, Steps
      <3> QED
        BY <1>4, <1>5, <3>1 DEF Stepped
    <2> HIDE DEF step
    <2> QED
      BY <2>1, <2>2 DEF Memory
  <1>7. Steps(CHOOSE d : Steps(d))
    <2> HIDE DEF Steps
    <2> QED
      BY <1>6
  <1>8. PICK d : d = CHOOSE e : Steps(e)
    OBVIOUS
  <1>9. Steps(d)
    <2> HIDE DEF Steps
    <2> QED
      BY <1>7, <1>8
  <1>10. mpt_gnode_relink(h, n) = d[Memory].h
    BY <1>8 DEF mpt_gnode_relink, Memory, init
  <1>11. d[0] = init /\ \A k \in 1..Memory : d[k] = Walk(n, d[k-1])
    <2>1. d = [k \in 0 .. Memory |-> IF k = 0 THEN init ELSE Walk(n, d[k-1])]
      BY <1>9 DEF Walk, Memory
    <2>2. 0 \in 0..Memory /\ \A k \in 1..Memory : k \in 0..Memory /\ k # 0
      BY MemoryCounted
    <2> HIDE DEF Steps, step
    <2> QED
      BY <2>1, <2>2, Zenon
  <1> QED
    BY <1>10, <1>11 DEF init

\* Among linked nodes the walk finds everything as it would set it.
LEMMA RelinkSettled ==
    ASSUME NEW h, Linked(h), NEW n \in Settled(h)
    PROVE  mpt_gnode_relink(h, n) = h
  <1>1. h \in Heaps /\ n \in Node /\ n \in h.live /\ h.live \subseteq Node /\ Nil \notin h.live
        /\ h.parent \in [Node -> Link] /\ h.prev \in [Node -> Link] /\ Nil \notin Node
    BY LinkedTypes, NilAssumption DEF Linked, Settled
  <1>2. PICK w : /\ w[0] = [h |-> [h EXCEPT !.parent = Put(@, h.children[n], n)],
                            node |-> h.children[n]]
                 /\ \A k \in 1..Memory : w[k] = Walk(n, w[k-1])
                 /\ mpt_gnode_relink(h, n) = w[Memory].h
    BY <1>1, WalkSteps
  <1>3. ASSUME NEW m \in Settled(h)
        PROVE  /\ m \in h.live
               /\ h.next[m] \in Settled(h) \cup {Nil} /\ h.parent[m] \in Settled(h) \cup {Nil}
               /\ h.children[m] \in Settled(h) \cup {Nil}
               /\ h.next[m] # Nil => h.parent[h.next[m]] = h.parent[m] /\ h.prev[h.next[m]] = m
               /\ h.children[m] # Nil => h.parent[h.children[m]] = m
    <2>1. m \in h.live /\ m \notin Raw(h)
      BY PendingIs DEF Settled
    <2>2. h.next[m] # Nil => h.parent[h.next[m]] = h.parent[m] /\ h.prev[h.next[m]] = m
      <3>1. h.next[m] \in h.live \cup {Nil}
        BY <2>1, LinkedTypes
      <3> QED
        BY <2>1, <3>1, OnePredecessor DEF Linked, ParentsAgree
    <2>3. h.children[m] # Nil => h.parent[h.children[m]] = m
      <3>1. h.children[m] \in h.live \cup {Nil}
        BY <2>1, LinkedTypes
      <3> QED
        BY <2>1, <3>1 DEF Linked, OwnersAgree
    <2> QED
      BY <2>1, <2>2, <2>3, SettledApart
  <1>4. ASSUME NEW m \in Settled(h) PROVE Follow(h, m) = h
    <2>1. Put(h.parent, h.next[m], h.parent[m]) = h.parent /\ Put(h.prev, h.next[m], m) = h.prev
      BY <1>1, <1>3, PutSame
    <2> QED
      BY <1>1, <2>1 DEF Follow, Heaps
  <1>5. ASSUME NEW m \in Settled(h) PROVE [h EXCEPT !.parent = Put(@, h.children[m], m)] = h
    <2>1. Put(h.parent, h.children[m], m) = h.parent
      BY <1>1, <1>3, PutSame
    <2> QED
      BY <1>1, <2>1 DEF Heaps
  <1> DEFINE P == {k \in Nat : w[k].h = h /\ w[k].node \in Settled(h) \cup {Nil}}
  <1>6. 0 \in P
    BY <1>2, <1>3, <1>5
  <1>7. ASSUME NEW k \in 0..Memory, k < Memory, k \in P PROVE k + 1 \in P
    <2>1. k + 1 \in 1..Memory /\ k + 1 - 1 = k /\ k + 1 \in Nat
      BY <1>7, MemoryCounted
    <2>2. PICK v : v = w[k]
      OBVIOUS
    <2>3. w[k+1] = Walk(n, v) /\ v.h = h /\ v.node \in Settled(h) \cup {Nil}
      BY <1>2, <1>7, <2>1, <2>2
    <2>4. CASE v.node \in {Nil, n}
      BY <2>1, <2>3, <2>4 DEF Walk
    <2>5. CASE v.node \notin {Nil, n}
      <3>1. PICK m \in Settled(h) : m = v.node
        BY <2>3, <2>5
      <3> DEFINE c == h.children[m]  last == IF c = Nil THEN m ELSE c
                 g == IF c = Nil THEN h ELSE Follow([h EXCEPT !.parent = Put(@, c, m)], m)
      <3>2. g = h
        BY <1>4, <1>5
      <3>3. last \in Settled(h)
        BY <1>3
      <3>4. RelinkStep(v) = IF g.next[last] # Nil THEN [h |-> Follow(g, last), node |-> g.next[last]]
                            ELSE [h |-> g, node |-> IF g.parent[last] = Nil THEN Nil
                                                    ELSE g.next[g.parent[last]]]
        BY <2>3, <3>1 DEF RelinkStep
      <3> HIDE DEF g, last
      <3>5. h.next[last] \in Settled(h) \cup {Nil} /\ h.parent[last] \in Settled(h) \cup {Nil}
        BY <1>3, <3>3
      <3>6. h.parent[last] # Nil => h.next[h.parent[last]] \in Settled(h) \cup {Nil}
        BY <1>3, <3>5
      <3>7. RelinkStep(v).h = h /\ RelinkStep(v).node \in Settled(h) \cup {Nil}
        BY <1>4, <3>2, <3>3, <3>4, <3>5, <3>6
      <3> QED
        BY <2>1, <2>3, <2>5, <3>7 DEF Walk
    <2> QED
      BY <2>4, <2>5
  <1>8. \A k \in 0..Memory : k \in P
    <2> HIDE DEF P
    <2> QED
      BY <1>6, <1>7, MemoryCounted, UpTo
  <1>9. Memory \in P
    <2> HIDE DEF P
    <2> QED
      BY <1>8, MemoryCounted
  <1> QED
    BY <1>2, <1>9

\* The nodes of K have n as their parent, and nothing else has changed.
Adopted(h, n, K) == [h EXCEPT !.parent = [x \in Node |-> IF x \in K THEN n ELSE h.parent[x]]]

\* The first k nodes of a sequence.
Upper(s, k) == {s[i] : i \in 1..k}

\* Children that get their parent, and no other change.
LEMMA AdoptedIs ==
    ASSUME NEW h, h \in Heaps, NEW n \in Node, NEW K
    PROVE  /\ Adopted(h, n, K) \in Heaps /\ Adopted(h, n, K).live = h.live
           /\ Adopted(h, n, K).next = h.next /\ Adopted(h, n, K).prev = h.prev
           /\ Adopted(h, n, K).children = h.children
           /\ \A x \in Node : Adopted(h, n, K).parent[x] = IF x \in K THEN n ELSE h.parent[x]
  <1> DEFINE a == [x \in Node |-> IF x \in K THEN n ELSE h.parent[x]]
  <1>1. a \in [Node -> Link]
    BY DEF Heaps, Link
  <1>2. \A x \in Node : a[x] = IF x \in K THEN n ELSE h.parent[x]
    OBVIOUS
  <1>3. PICK g : g = Adopted(h, n, K)
    OBVIOUS
  <1>4. g = [h EXCEPT !.parent = a]
    BY <1>3 DEF Adopted
  <1> HIDE DEF a
  <1>5. g \in Heaps /\ g.live = h.live /\ g.next = h.next /\ g.prev = h.prev
        /\ g.children = h.children /\ g.parent = a
    BY <1>1, <1>4 DEF Heaps
  <1> QED
    BY <1>2, <1>3, <1>5

\* One more node adopted.
LEMMA AdoptMore ==
    ASSUME NEW h, h \in Heaps, NEW n \in Node, NEW K, NEW x \in Node, NEW M, M = K \cup {x}
    PROVE  [Adopted(h, n, K) EXCEPT !.parent = Put(@, x, n)] = Adopted(h, n, M)
  <1> DEFINE a == [y \in Node |-> IF y \in K THEN n ELSE h.parent[y]]
             b == [y \in Node |-> IF y \in M THEN n ELSE h.parent[y]]
  <1>1. Put(a, x, n) = b
    BY DEF Put
  <1>2. Adopted(h, n, K) = [h EXCEPT !.parent = a] /\ Adopted(h, n, M) = [h EXCEPT !.parent = b]
    BY DEF Adopted
  <1> HIDE DEF a, b
  <1> QED
    BY <1>1, <1>2 DEF Heaps

\* Without children nothing changes.
LEMMA NothingAdopted ==
    ASSUME NEW h, h \in Heaps, NEW n \in Node
    PROVE  Adopted(h, n, {}) = h
  <1>1. [x \in Node |-> IF x \in {} THEN n ELSE h.parent[x]] = h.parent
    BY DEF Heaps
  <1> QED
    BY <1>1 DEF Adopted, Heaps

\* After a tree was copied the walk gives its children their parent.
LEMMA RelinkRaw ==
    ASSUME NEW h, Linked(h), NEW n \in Raw(h)
    PROVE  mpt_gnode_relink(h, n) = Adopted(h, n, KidSet(h, n))
  <1> DEFINE c == h.children[n]  s == Chain(h.next, c)
             R(k) == Adopted(h, n, Upper(s, k))
  <1>1. /\ h \in Heaps /\ n \in Node /\ n \in h.live /\ h.live \subseteq Node /\ Nil \notin h.live
        /\ h.next \in [Node -> Link] /\ h.prev \in [Node -> Link] /\ c \in h.live /\ c \in Link
    <2>1. n \in h.live /\ c \in h.live
      BY LinkedTypes, PendingIs DEF Raw
    <2> QED
      BY <2>1, LinkedTypes DEF Linked, Linking, Link
  <1>2. /\ h.next[n] = Nil /\ c # Nil /\ \A x \in KidSet(h, n) : h.children[x] = Nil
    BY DEF Linked, RawApart, Isolated, Raw
  <1>3. /\ IsChain(h.next, s, c) /\ Len(s) <= Memory /\ h.next[Last(s)] = Nil
    <2>1. Closed(h.next, h.live) /\ Sourced(h.next, h.live)
      BY ListsEnd
    <2> QED
      BY <1>1, <1>2, <2>1, ChainShape, ChainEnds
  <1>4. KidSet(h, n) = ToSet(s)
    BY DEF KidSet, Kids, ListFrom
  <1> HIDE DEF s
  <1>5. PICK L \in Nat : L = Len(s) /\ L # 0 /\ L <= Memory
    <2>1. s \in Seq(Node) /\ s # <<>>
      BY <1>2, <1>3 DEF IsChain
    <2> QED
      BY <1>3, <2>1, LenProperties, EmptySeq
  <1>6. /\ s[1] = c /\ h.next[s[L]] = Nil
        /\ \A i \in 1..L : s[i] \in Node /\ s[i] \in KidSet(h, n)
        /\ \A i \in 1..L : i < L => s[i+1] = h.next[s[i]]
    <2>1. s \in Seq(Node) /\ s # <<>> /\ DOMAIN s = 1..L
      BY <1>2, <1>3, <1>5, LenProperties DEF IsChain
    <2>2. \A i \in 1..L : s[i] \in Node /\ s[i] \in KidSet(h, n)
      BY <1>4, <1>5, <2>1, ElementOfSeq DEF ToSet
    <2> QED
      BY <1>2, <1>3, <1>5, <2>2 DEF IsChain, Last
  <1>7. KidSet(h, n) = Upper(s, L)
    <2>1. DOMAIN s = 1..L
      BY <1>3, <1>5, LenProperties DEF IsChain
    <2> QED
      BY <1>4, <2>1 DEF ToSet, Upper
  <1>8. KidSet(h, n) \subseteq h.live
    BY <1>1, KidsIn
  <1>9. PICK w : /\ w[0] = [h |-> [h EXCEPT !.parent = Put(@, h.children[n], n)],
                            node |-> h.children[n]]
                 /\ \A k \in 1..Memory : w[k] = Walk(n, w[k-1])
                 /\ mpt_gnode_relink(h, n) = w[Memory].h
    BY <1>1, WalkSteps
  <1> HIDE DEF c
  <1> DEFINE P == {k \in Nat : w[k] = IF k < L THEN [h |-> R(k + 1), node |-> s[k + 1]]
                                      ELSE [h |-> R(L), node |-> Nil]}
  <1>10. 0 \in P
    <2>1. [h EXCEPT !.parent = Put(@, c, n)] = R(1)
      <3>1. Upper(s, 1) = {} \cup {c} /\ c \in Node
        BY <1>1, <1>6 DEF Upper
      <3>2. [Adopted(h, n, {}) EXCEPT !.parent = Put(@, c, n)] = Adopted(h, n, Upper(s, 1))
        BY <1>1, <3>1, AdoptMore
      <3> QED
        BY <1>1, <3>2, NothingAdopted
    <2>2. w[0] = [h |-> R(1), node |-> s[1]]
      BY <1>6, <1>9, <2>1 DEF c
    <2> QED
      BY <1>5, <2>2
  <1>11. ASSUME NEW k \in 0..Memory, k < Memory, k \in P PROVE k + 1 \in P
    <2>1. k + 1 \in 1..Memory /\ k + 1 - 1 = k /\ k + 1 \in Nat /\ k \in Nat
      BY <1>11, MemoryCounted
    <2>2. PICK v : v = w[k]
      OBVIOUS
    <2>3. w[k+1] = Walk(n, v)
      BY <1>9, <2>1, <2>2
    <2>4. v = IF k < L THEN [h |-> R(k + 1), node |-> s[k + 1]] ELSE [h |-> R(L), node |-> Nil]
      BY <1>11, <2>2
    <2>5. CASE ~(k < L)
      <3>1. ~(k + 1 < L)
        BY <2>1, <2>5
      <3>2. v.node = Nil
        BY <2>4, <2>5
      <3>3. w[k+1] = [h |-> R(L), node |-> Nil]
        BY <2>3, <2>4, <2>5, <3>2 DEF Walk
      <3> QED
        BY <2>1, <3>1, <3>3
    <2>6. CASE k < L
      <3>1. k + 1 \in 1..L
        BY <2>1, <2>6
      <3>2. PICK m \in Node : m = s[k+1]
        BY <1>6, <3>1
      <3>3. m \in h.live /\ m \in KidSet(h, n) /\ h.children[m] = Nil /\ m # n /\ m # Nil
        BY <1>1, <1>2, <1>6, <1>8, <3>1, <3>2 DEF c
      <3>4. PICK f : f = R(k + 1)
        OBVIOUS
      <3>5. /\ f \in Heaps /\ f.next = h.next /\ f.prev = h.prev /\ f.children = h.children
            /\ f.parent[m] = n
        <4>1. m \in Upper(s, k + 1)
          BY <2>1, <3>1, <3>2 DEF Upper
        <4> QED
          BY <1>1, <3>4, <4>1, AdoptedIs
      <3> HIDE DEF R
      <3>6. v = [h |-> f, node |-> m]
        BY <2>4, <2>6, <3>2, <3>4
      <3>7. Walk(n, v) = RelinkStep(v)
        BY <3>3, <3>6 DEF Walk
      <3>8. RelinkStep(v) = IF f.next[m] # Nil THEN [h |-> Follow(f, m), node |-> f.next[m]]
                            ELSE [h |-> f, node |-> IF f.parent[m] = Nil THEN Nil
                                                    ELSE f.next[f.parent[m]]]
        BY <3>3, <3>5, <3>6 DEF RelinkStep
      <3>9. CASE k + 1 = L
        <4>1. f.next[m] = Nil /\ f.next[f.parent[m]] = Nil
          BY <1>2, <1>6, <3>2, <3>5, <3>9
        <4>2. RelinkStep(v) = [h |-> f, node |-> Nil]
          BY <3>8, <4>1
        <4>3. ~(k + 1 < L)
          BY <3>9
        <4> QED
          BY <2>1, <2>3, <3>4, <3>7, <3>9, <4>2, <4>3
      <3>10. CASE k + 1 # L
        <4>1. k + 1 < L /\ k + 1 + 1 \in 1..L
          BY <2>1, <3>1, <3>10
        <4>2. PICK y \in Node : y = s[k+1+1]
          BY <1>6, <4>1
        <4>3. y = h.next[m] /\ y \in h.live /\ y # Nil
          BY <1>1, <1>6, <1>8, <3>1, <3>2, <4>1, <4>2
        <4>4. h.prev[y] = m
          BY <3>3, <4>3, OnePredecessor
        <4>5. Put(f.prev, y, m) = f.prev
          BY <3>5, <4>4, PutSame DEF Heaps
        <4>6. Follow(f, m) = [f EXCEPT !.parent = Put(@, y, n)]
          <5>1. Follow(f, m) = [f EXCEPT !.parent = Put(f.parent, y, n), !.prev = f.prev]
            BY <3>5, <4>3, <4>5 DEF Follow
          <5> QED
            BY <3>5, <5>1 DEF Heaps
        <4>7. Follow(f, m) = R(k + 1 + 1)
          <5>1. Upper(s, k + 1 + 1) = Upper(s, k + 1) \cup {y}
            <6>1. \A i \in 1..k+1+1 : i \in 1..k+1 \/ i = k + 1 + 1
              OBVIOUS
            <6>2. k + 1 + 1 \in 1..k+1+1 /\ \A i \in 1..k+1 : i \in 1..k+1+1
              OBVIOUS
            <6> QED
              BY <4>2, <6>1, <6>2 DEF Upper
          <5> QED
            BY <1>1, <3>4, <4>6, <5>1, AdoptMore DEF R
        <4>8. RelinkStep(v) = [h |-> R(k + 1 + 1), node |-> s[k+1+1]]
          BY <3>5, <3>8, <4>2, <4>3, <4>7
        <4> QED
          BY <2>1, <2>3, <3>7, <4>1, <4>8
      <3> QED
        BY <3>9, <3>10
    <2> QED
      BY <2>5, <2>6
  <1>12. \A k \in 0..Memory : k \in P
    <2> HIDE DEF P
    <2> QED
      BY <1>10, <1>11, MemoryCounted, UpTo
  <1>13. Memory \in P
    <2> HIDE DEF P
    <2> QED
      BY <1>12, MemoryCounted
  <1>14. w[Memory] = [h |-> R(L), node |-> Nil]
    <2>1. Memory \in Nat /\ ~(Memory < L)
      BY <1>5, MemoryCounted
    <2> QED
      BY <1>13, <2>1
  <1> QED
    BY <1>7, <1>9, <1>14

\* Each child but the first one is the next of another.
LEMMA KidsPreceded ==
    ASSUME NEW h, Linked(h), NEW n \in h.live, NEW y \in KidSet(h, n), y # h.children[n]
    PROVE  \E z \in KidSet(h, n) : h.next[z] = y
  <1> SUFFICES ASSUME \A z \in KidSet(h, n) : h.next[z] # y PROVE FALSE
    OBVIOUS
  <1> DEFINE T == KidSet(h, n) \ {y}
  <1>1. Closed(h.next, T)
    BY KidsIn DEF Closed
  <1>2. h.children[n] # Nil => h.children[n] \in T
    BY KidsIn
  <1> HIDE DEF T
  <1>3. KidSet(h, n) \subseteq T
    BY <1>1, <1>2, KidsLeast
  <1> QED
    BY <1>3 DEF T

\* A copied tree is linked like all the others once it is relinked.
LEMMA AdoptLinked ==
    ASSUME NEW h, Linked(h), NEW n \in Raw(h)
    PROVE  Linked(Adopted(h, n, KidSet(h, n)))
  <1> DEFINE K == KidSet(h, n)  c == h.children[n]
  <1>1. PICK g : g = Adopted(h, n, K)
    OBVIOUS
  <1>2. /\ h.live \subseteq Node /\ Nil \notin h.live /\ n \in h.live /\ n # Nil /\ c \in h.live
        /\ \A x \in h.live : /\ h.next[x] \in h.live \cup {Nil} /\ h.prev[x] \in h.live \cup {Nil}
                             /\ h.parent[x] \in h.live \cup {Nil}
                             /\ h.children[x] \in h.live \cup {Nil}
    BY LinkedTypes, PendingIs DEF Raw
  <1>3. /\ K \subseteq h.live /\ Closed(h.next, K) /\ c \in K
    BY <1>2, KidsIn
  <1>4. /\ h.prev[c] = Nil /\ \A x \in K : h.children[x] = Nil
        /\ \A x \in h.live : h.parent[x] # n
        /\ \A q \in h.live : h.children[q] = c => q = n
    BY DEF Linked, RawApart
  <1>5. n \notin K
    BY <1>2, <1>4
  <1>6. \A y \in K : y # c => \E z \in K : h.next[z] = y
    BY <1>2, KidsPreceded
  <1> HIDE DEF K, c
  <1>7. /\ g \in Heaps /\ g.live = h.live /\ g.next = h.next /\ g.prev = h.prev
        /\ g.children = h.children
        /\ \A x \in h.live : g.parent[x] = IF x \in K THEN n ELSE h.parent[x]
    <2>1. h \in Heaps /\ n \in Node
      BY <1>2 DEF Linked
    <2> QED
      BY <1>1, <1>2, <2>1, AdoptedIs
  <1>8. ASSUME NEW x \in h.live, h.next[x] \in K PROVE x \in K
    <2>1. h.prev[h.next[x]] = x /\ h.next[x] \in h.live
      BY <1>3, <1>8, OnePredecessor
    <2>2. PICK z \in K : h.next[z] = h.next[x]
      BY <1>2, <1>4, <1>6, <1>8, <2>1
    <2> QED
      BY <1>3, <2>1, <2>2, OnePredecessor
  <1>9. ASSUME NEW x \in h.live, h.children[x] \in K PROVE x = n
    <2>1. h.children[x] = c
      <3> SUFFICES ASSUME h.children[x] # c PROVE FALSE
        OBVIOUS
      <3>1. PICK z \in K : h.next[z] = h.children[x]
        BY <1>6, <1>9
      <3> QED
        BY <1>3, <1>9, <3>1, OnePredecessor
    <2> QED
      BY <1>4, <2>1
  <1>10. LinksLive(g)
    BY <1>2, <1>7 DEF LinksLive
  <1>11. PairsAgree(g)
    BY <1>7 DEF Linked, PairsAgree
  <1>12. ParentsAgree(g)
    <2> SUFFICES ASSUME NEW x \in h.live, h.next[x] # Nil PROVE g.parent[h.next[x]] = g.parent[x]
      BY <1>7 DEF ParentsAgree
    <2>1. h.next[x] \in h.live /\ h.parent[h.next[x]] = h.parent[x]
      BY <1>2 DEF Linked, ParentsAgree
    <2>2. x \in K <=> h.next[x] \in K
      BY <1>3, <1>8 DEF Closed
    <2> QED
      BY <1>7, <2>1, <2>2
  <1>13. Raw(g) = Raw(h) \ {n}
    <2> SUFFICES ASSUME NEW x \in h.live
                 PROVE  (h.children[x] # Nil /\ g.parent[h.children[x]] = Nil)
                          <=> (h.children[x] # Nil /\ h.parent[h.children[x]] = Nil) /\ x # n
      BY <1>7 DEF Raw
    <2>1. CASE x = n
      BY <1>2, <1>3, <1>7, <2>1 DEF c
    <2>2. CASE x # n
      BY <1>2, <1>7, <1>9, <2>2
    <2> QED
      BY <2>1, <2>2
  <1>14. OwnersAgree(g)
    <2> SUFFICES ASSUME NEW q \in h.live, NEW y \in h.live, q \notin Raw(g)
                 PROVE  h.children[q] = y <=> g.parent[y] = q /\ h.prev[y] = Nil
      BY <1>7 DEF OwnersAgree
    <2>1. CASE q = n
      <3>1. y \in K /\ h.prev[y] = Nil => y = c
        <4> SUFFICES ASSUME y \in K, h.prev[y] = Nil, y # c PROVE FALSE
          OBVIOUS
        <4>1. PICK z \in K : h.next[z] = y
          BY <1>6
        <4> QED
          BY <1>2, <1>3, <4>1, OnePredecessor
      <3> QED
        BY <1>3, <1>4, <1>7, <2>1, <3>1 DEF c
    <2>2. CASE q # n
      <3>1. h.children[q] = y <=> h.parent[y] = q /\ h.prev[y] = Nil
        BY <1>13, <2>2 DEF Linked, OwnersAgree
      <3> QED
        BY <1>7, <1>9, <2>2, <3>1
    <2> QED
      BY <2>1, <2>2
  <1>15. RawApart(g)
    <2>1. ASSUME NEW r \in Raw(g), NEW x \in {r} \cup KidSet(h, r)
          PROVE  /\ g.next[x] = h.next[x] /\ g.prev[x] = h.prev[x]
                 /\ g.parent[x] = h.parent[x] /\ g.children[x] = h.children[x]
      <3>1. r \in Raw(h) /\ r # n /\ r \in h.live /\ x \in h.live
        BY <1>13, <2>1, PendingIs
      <3>2. r \notin K
        BY <1>4, <3>1 DEF Raw
      <3>3. KidSet(h, r) \cap K = {}
        <4> DEFINE T == KidSet(h, r) \ K
        <4>1. Closed(h.next, T)
          BY <1>2, <1>8, <3>1, KidsIn DEF Closed
        <4>2. h.children[r] # Nil => h.children[r] \in T
          BY <1>9, <3>1, KidsIn
        <4> HIDE DEF T
        <4>3. KidSet(h, r) \subseteq T
          BY <3>1, <4>1, <4>2, KidsLeast
        <4> QED
          BY <4>3 DEF T
      <3> QED
        BY <1>7, <2>1, <3>1, <3>2, <3>3
    <2>2. ASSUME NEW r \in Raw(g), NEW x \in g.live PROVE g.parent[x] # r
      <3>1. r # n /\ \A y \in h.live : h.parent[y] # r
        BY <1>13 DEF Linked, RawApart
      <3> QED
        BY <1>7, <3>1
    <2>3. ASSUME NEW r \in Raw(g), NEW q \in g.live, g.children[q] = g.children[r] PROVE q = r
      BY <1>7, <1>13, <2>3 DEF Linked, RawApart
    <2> QED
      BY <1>7, <1>13, <2>1, <2>2, <2>3, RawKept
  <1>16. Acyclic(g)
    BY <1>7 DEF Linked, Acyclic
  <1>17. Linked(g)
    BY <1>7, <1>10, <1>11, <1>12, <1>14, <1>15, <1>16 DEF Linked
  <1> QED
    BY <1>1, <1>17 DEF K

\* `mpt_gnode_relink` turns a copied tree into one like the others, and leaves those
\* alone.
LEMMA RelinkLinked ==
    ASSUME NEW h, Linked(h), NEW n, n \in Settled(h) \/ n \in Raw(h)
    PROVE  Linked(mpt_gnode_relink(h, n))
  BY RelinkSettled, RelinkRaw, AdoptLinked

-----------------------------------------------------------------------------
(* The steps of the specification.                                         *)

\* What a caller may insert is settled, linked nowhere and not above the place.
LEMMA FreshIs ==
    ASSUME Linked(heap), NEW n, NEW place, Fresh(n, place)
    PROVE  n \in Settled(heap) /\ Isolated(heap, n) /\ place \notin Tree(heap, n)
  BY DEF Fresh, Usable, Settled

\* No tree is linked wrongly before the first call.
LEMMA StartsLinked ==
    ASSUME Init
    PROVE  Linked(heap)
  <1>1. heap = EmptyHeap
    BY DEF Init
  <1>2. heap.live = {} /\ heap \in Heaps
    BY <1>1 DEF EmptyHeap, Heaps, Link
  <1>3. Raw(heap) = {}
    BY <1>2 DEF Raw
  <1>4. LinksLive(heap) /\ PairsAgree(heap) /\ ParentsAgree(heap) /\ OwnersAgree(heap)
    BY <1>2 DEF LinksLive, PairsAgree, ParentsAgree, OwnersAgree
  <1>5. RawApart(heap) /\ Acyclic(heap)
    BY <1>2, <1>3 DEF RawApart, Acyclic
  <1> QED
    BY <1>2, <1>4, <1>5 DEF Linked

\* Calls that concern one node.
LEMMA OneKept ==
    ASSUME Linked(heap), NEW n \in Node,
           \/ \E name \in Names : New(n, name)
           \/ Unlink(n) \/ Clear(n) \/ Destroy(n) \/ Relink(n)
    PROVE  Linked(heap')
  <1>1. CASE \E name \in Names : New(n, name)
    <2>1. PICK name \in Names : New(n, name)
      BY <1>1
    <2> QED
      BY <2>1, NewLinked DEF New
  <1>2. CASE Unlink(n)
    BY <1>2, UnlinkLinked DEF Unlink, Usable, Settled
  <1>3. CASE Clear(n)
    BY <1>3, ClearLinked DEF Clear, Usable, Settled
  <1>4. CASE Destroy(n)
    BY <1>4, DestroyLinked DEF Destroy, Usable, Settled
  <1>5. CASE Relink(n)
    BY <1>5, RelinkLinked DEF Relink, Usable, Settled
  <1> QED
    BY <1>1, <1>2, <1>3, <1>4, <1>5

\* Calls that insert a node.
LEMMA InsertKept ==
    ASSUME Linked(heap), NEW n \in Node, NEW p \in Node,
           \/ After(p, n) \/ Before(p, n)
           \/ \E pos \in Positions, byName \in BOOLEAN :
                  Add(p, pos, n, byName) \/ Insert(p, pos, n, byName)
    PROVE  Linked(heap')
  <1>1. CASE After(p, n) \/ Before(p, n)
    <2>1. p \in Settled(heap) /\ Fresh(n, p)
      BY <1>1 DEF After, Before, Usable, Settled
    <2>2. p \in Beyond(heap, n) /\ n \in Settled(heap) /\ Isolated(heap, n)
      BY <2>1, FreshIs DEF Beyond
    <2> QED
      BY <1>1, <2>2, BesideLinked DEF After, Before, Placed
  <1>2. ASSUME NEW pos \in Positions, NEW byName \in BOOLEAN, Add(p, pos, n, byName)
        PROVE  Linked(heap')
    <2>1. p \in Settled(heap) /\ Fresh(n, p) /\ pos \in Int
      BY <1>2, BoundAssumption DEF Add, CanAdd, Usable, Settled, Positions
    <2> QED
      BY <1>2, <2>1, FreshIs, InsertLinked DEF Add, Placed
  <1>3. ASSUME NEW pos \in Positions, NEW byName \in BOOLEAN, Insert(p, pos, n, byName)
        PROVE  Linked(heap')
    <2>1. p \in Settled(heap) /\ Fresh(n, p) /\ pos \in Int
      BY <1>3, BoundAssumption DEF Insert, Usable, Settled, Positions
    <2>2. n \in Settled(heap) /\ Isolated(heap, n) /\ p \notin Tree(heap, n)
      BY <2>1, FreshIs
    <2>3. CASE heap.children[p] = Nil
      BY <1>3, <2>1, <2>2, <2>3, FirstChildLinked DEF Insert
    <2>4. CASE heap.children[p] # Nil
      <3> DEFINE c == heap.children[p]
      <3>1. c \in Settled(heap)
        BY <2>1, <2>4, SettledApart
      <3>2. c \notin Tree(heap, n)
        <4>1. n \in heap.live /\ p \in heap.live /\ c \in heap.live
          BY <2>1, <2>2, <3>1 DEF Settled
        <4>2. p # n /\ p \notin Below(heap, n)
          BY <2>2, <4>1, TreeIs
        <4>3. c # n
          BY <2>2, <4>1, FreeNode
        <4>4. ASSUME c \in Below(heap, n) PROVE FALSE
          <5>1. c # heap.children[n]
            BY <4>1, <4>2, OnePredecessor
          <5>2. PICK z \in Below(heap, n) : heap.next[z] = c \/ heap.children[z] = c
            BY <4>1, <4>4, <5>1, BelowProps
          <5>3. z \in heap.live
            BY <4>1, <5>2, BelowProps
          <5> QED
            BY <4>1, <4>2, <5>2, <5>3, OnePredecessor
        <4> QED
          BY <4>1, <4>3, <4>4, TreeIs
      <3> QED
        BY <1>3, <2>1, <2>2, <2>4, <3>1, <3>2, InsertLinked DEF Insert, Placed
    <2> QED
      BY <2>3, <2>4
  <1> QED
    BY <1>1, <1>2, <1>3

\* Calls that exchange two nodes or their children.
LEMMA ExchangeKept ==
    ASSUME Linked(heap), AnySwitch = FALSE, NEW n \in Node, NEW p \in Node,
           Swap(p, n) \/ Switch(p, n)
    PROVE  Linked(heap')
  <1>1. /\ p \in Settled(heap) /\ n \in Settled(heap)
        /\ p \notin Tree(heap, n) /\ n \notin Tree(heap, p)
    BY DEF Swap, Switch, CanSwitch, Apart, Usable, Settled
  <1>2. CASE Swap(p, n)
    BY <1>1, <1>2, SwapLinked DEF Swap
  <1>3. CASE Switch(p, n)
    <2>1. Switchable(p, n) /\ heap' = mpt_gnode_switch(heap, p, n)
      BY <1>3 DEF Switch, CanSwitch
    <2>2. p # n
      BY <1>1, UnderProps
    <2>3. PICK g : g = mpt_gnode_switch(heap, p, n)
      OBVIOUS
    <2>4. Exchanged(heap, g, p, n)
      BY <1>1, <2>1, <2>2, <2>3, SwitchIs
    <2> QED
      BY <1>1, <2>1, <2>3, <2>4, ExchangeLinked
  <1> QED
    BY <1>2, <1>3

\* Calls that copy a list or a tree.
LEMMA CloneKept ==
    ASSUME Linked(heap), NEW n \in Node,
           \/ n \in heap.live /\ \E copy \in Copies(Len(ListFrom(heap, n))) : ListClone(n, copy)
           \/ n \in heap.live /\ \E copy \in Copies(Len(Kids(heap, n)) + 1) :
                  TreeClone(n, Last(copy), Front(copy))
    PROVE  Linked(heap')
  <1>1. heap.next \in [Node -> Link] /\ heap \in Heaps /\ heap.children[n] \in Link /\ n \in Link
    BY LinkedTypes DEF Linking, Linked, Link
  <1>2. ASSUME NEW copy \in Copies(Len(ListFrom(heap, n))), ListClone(n, copy)
        PROVE  Linked(heap')
    <2>1. ListFrom(heap, n) \in Seq(Node)
      BY <1>1, ChainShape DEF ListFrom, IsChain
    <2>2. CopiesFor(heap, ListFrom(heap, n), copy)
      BY <2>1 DEF CopiesFor, Copies, IsInjective
    <2> QED
      BY <1>2, <2>2, ListCloneLinked DEF ListClone, Cloned
  <1>3. ASSUME NEW c \in Copies(Len(Kids(heap, n)) + 1), TreeClone(n, Last(c), Front(c))
        PROVE  Linked(heap')
    <2> DEFINE list == Kids(heap, n)
    <2>1. list \in Seq(Node) /\ list # <<>>
      BY <1>1, <1>3, ChainShape DEF TreeClone, Kids, ListFrom, IsChain
    <2>2. PICK L \in Nat : L = Len(list)
      BY <2>1, LenProperties
    <2> HIDE DEF list
    <2>3. /\ c \in [1..L+1 -> Node \ heap.live]
          /\ \A i, j \in 1..L+1 : c[i] = c[j] => i = j
      BY <2>2 DEF Copies, IsInjective, list
    <2>4. Len(c) = L + 1 /\ \A i \in 1..L : i \in 1..L+1 /\ i # L + 1
      <3>1. L + 1 \in Nat
        BY <2>2
      <3> QED
        BY <2>3, <3>1, LenProperties
    <2>5. PICK top \in Node \ heap.live : top = Last(c) /\ top = c[L+1]
      <3>1. L + 1 \in 1..L+1
        BY <2>2
      <3> QED
        BY <2>3, <2>4, <3>1 DEF Last
    <2>6. PICK copy : copy = Front(c)
      OBVIOUS
    <2>7. copy \in Seq(Node) /\ Len(copy) = L /\ \A i \in 1..L : copy[i] = c[i]
      <3>1. copy = SubSeq(c, 1, L)
        <4>1. Len(c) - 1 = L
          BY <2>2, <2>4
        <4> QED
          BY <2>6, <4>1 DEF Front
      <3>2. 1 \in Int /\ L \in Int /\ \A i \in 1..L : c[i] \in Node
        BY <2>3, <2>4
      <3>3. copy \in Seq(Node) /\ Len(copy) = (IF 1 <= L THEN L - 1 + 1 ELSE 0)
            /\ \A i \in 1..L-1+1 : copy[i] = c[1+i-1]
        BY <3>1, <3>2, SubSeqProperties
      <3>4. (IF 1 <= L THEN L - 1 + 1 ELSE 0) = L /\ 1..L-1+1 = 1..L /\ \A i \in 1..L : 1+i-1 = i
        BY <2>2
      <3> QED
        BY <3>3, <3>4
    <2>8. PICK f : f = mpt_node_clone(heap, n, top)
      OBVIOUS
    <2>9. f.live = heap.live \cup {top}
      <3>1. f = mpt_node_new(heap, top, heap.name[n]) /\ heap.name[n] \in Names \cup {Nil}
        BY <1>1, <2>5, <2>8, CloneIs
      <3> QED
        BY <2>5, <3>1, NewLinked
    <2>10. CopiesFor(f, list, copy)
      <3>1. copy \in [1..L -> Node]
        BY <2>7, LenProperties
      <3>2. \A i \in 1..L : copy[i] \in Node \ f.live
        BY <2>3, <2>4, <2>5, <2>7, <2>9
      <3>3. \A i, j \in 1..L : copy[i] = copy[j] => i = j
        BY <2>3, <2>4, <2>7
      <3> QED
        BY <2>1, <2>2, <3>1, <3>2, <3>3 DEF CopiesFor
    <2>11. PICK e : e = mpt_list_clone(f, list, copy)
      OBVIOUS
    <2>12. heap' = [e EXCEPT !.children = Put(@, top, copy[1])]
      BY <1>3, <2>5, <2>6, <2>8, <2>11 DEF TreeClone, list
    <2>13. Linked([e EXCEPT !.children = Put(@, top, copy[1])])
      BY <2>1, <2>5, <2>8, <2>10, <2>11, TreeCloneLinked
    <2> QED
      BY <2>12, <2>13
  <1> QED
    BY <1>2, <1>3

\* Every call of a function keeps the trees, as long as `mpt_gnode_switch` is only asked
\* for nodes that are `Switchable`.
LEMMA StepsKeepLinks ==
    ASSUME AnySwitch = FALSE
    PROVE  Linked(heap) /\ [Next]_heap => Linked(heap')
  <1> SUFFICES ASSUME Linked(heap), [Next]_heap PROVE Linked(heap')
    OBVIOUS
  <1>1. CASE UNCHANGED heap
    BY <1>1
  <1>2. ASSUME NEW n \in Node,
               \/ \E name \in Names : New(n, name)
               \/ Unlink(n) \/ Clear(n) \/ Destroy(n) \/ Relink(n)
        PROVE  Linked(heap')
    BY <1>2, OneKept
  <1>3. ASSUME NEW n \in Node,
               \/ n \in heap.live /\ \E copy \in Copies(Len(ListFrom(heap, n))) : ListClone(n, copy)
               \/ n \in heap.live /\ \E copy \in Copies(Len(Kids(heap, n)) + 1) :
                      TreeClone(n, Last(copy), Front(copy))
        PROVE  Linked(heap')
    BY <1>3, CloneKept
  <1>4. ASSUME NEW n \in Node, NEW p \in Node, Swap(p, n) \/ Switch(p, n)
        PROVE  Linked(heap')
    BY <1>4, ExchangeKept
  <1>5. ASSUME NEW n \in Node, NEW p \in Node,
               \/ After(p, n) \/ Before(p, n)
               \/ \E pos \in Positions, byName \in BOOLEAN :
                      Add(p, pos, n, byName) \/ Insert(p, pos, n, byName)
        PROVE  Linked(heap')
    BY <1>5, InsertKept
  <1> QED
    BY <1>1, <1>2, <1>3, <1>4, <1>5 DEF Next

\* Whatever sequence of calls builds, changes, copies and releases trees, the
\* four members of their nodes describe ordered trees (mptcore/node).  The
\* assumption leaves out calls of mpt_gnode_switch for nodes that are not Switchable.
THEOREM NodesWellLinked ==
    ASSUME AnySwitch = FALSE
    PROVE  Spec => []WellLinked
  <1>1. Init => Linked(heap)
    BY StartsLinked
  <1>2. Linked(heap) /\ [Next]_heap => Linked(heap)'
    BY StepsKeepLinks
  <1>3. Linked(heap) => WellLinked
    BY LinkedSuffices
  <1> QED
    BY <1>1, <1>2, <1>3, PTL DEF Spec

\* Under the same condition, no list is a ring and each way along successors and
\* first children ends: the loops of mpt_gnode_pos, mpt_node_locate and
\* mpt_gnode_relink do.
THEOREM NodesEnd ==
    ASSUME AnySwitch = FALSE
    PROVE  Spec => []Acyclic(heap)
  <1>1. Init => Linked(heap)
    BY StartsLinked
  <1>2. Linked(heap) /\ [Next]_heap => Linked(heap)'
    BY StepsKeepLinks
  <1>3. Linked(heap) => Acyclic(heap)
    BY DEF Linked
  <1> QED
    BY <1>1, <1>2, <1>3, PTL DEF Spec
=============================================================================
