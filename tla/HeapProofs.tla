----------------------------- MODULE HeapProofs -----------------------------
(***************************************************************************)
(* Proofs about module Heap, for any sizes of pages and headers, any       *)
(* requests and any amount of memory.  HeapOK says what is right about a   *)
(* list of blocks; each operation on the list is shown to keep it, then    *)
(* the loop of kmalloc that grows the heap, then the actions.              *)
(***************************************************************************)
EXTENDS Heap, ListFacts, FiniteSetTheorems

\* What is assumed of the sizes in vmm.c.
LEMMA Sized ==
  /\ HDR \in Nat \ {0} /\ ALIGN \in Nat \ {0} /\ PAGE_SIZE \in Nat \ {0}
  /\ Multiple(HDR, ALIGN) /\ Multiple(PAGE_SIZE, ALIGN) /\ HDR < PAGE_SIZE
<1>1. HDR \in Nat \ {0} /\ ALIGN \in Nat \ {0} /\ PAGE_SIZE \in Nat \ {0} /\ HDR < PAGE_SIZE
  BY HeapAssumption
<1>2. HDR % ALIGN = 0 /\ PAGE_SIZE % ALIGN = 0
  BY HeapAssumption
<1> QED BY <1>1, <1>2, MultipleIs

\* The blocks whose addresses and sizes are aligned.
AlignedBlocks == {b \in Blocks : Multiple(b.addr, ALIGN) /\ Multiple(b.size, ALIGN)}

\* A list of aligned blocks that covers the heap up to end.
Tiling(bs, end) ==
  /\ bs \in Seq(AlignedBlocks)
  /\ Len(bs) >= 1
  /\ bs[1].addr = 0
  /\ \A i \in 1..(Len(bs) - 1) : End(bs[i]) = bs[i + 1].addr
  /\ End(bs[Len(bs)]) = end

\* The fields of a block and where it ends.
LEMMA BlockFacts ==
  ASSUME NEW b \in AlignedBlocks
  PROVE  /\ b.addr \in Nat /\ b.size \in Nat /\ b.free \in BOOLEAN
         /\ Multiple(b.addr, ALIGN) /\ Multiple(b.size, ALIGN)
         /\ End(b) = b.addr + HDR + b.size
BY DEF AlignedBlocks, Blocks, End

\* A block with other contents of its header.
LEMMA NewBlock ==
  ASSUME NEW a, NEW s, NEW f \in BOOLEAN, Multiple(a, ALIGN), Multiple(s, ALIGN)
  PROVE  [addr |-> a, size |-> s, free |-> f] \in AlignedBlocks
<1>1. a \in Nat /\ s \in Nat
  BY Zenon, Sized, MultipleSum
<1> QED BY <1>1 DEF AlignedBlocks, Blocks

\* What an assignment to one field of a record leaves.
LEMMA ChangedRecord ==
  ASSUME NEW Z, NEW b \in [addr : Nat, size : Z, free : BOOLEAN], NEW s, NEW f
  PROVE  /\ [b EXCEPT !.free = f] = [addr |-> b.addr, size |-> b.size, free |-> f]
         /\ [b EXCEPT !.size = s] = [addr |-> b.addr, size |-> s, free |-> b.free]
OBVIOUS

\* The same of a block: kmalloc sets free, a merge sets size.
LEMMA ChangedBlock ==
  ASSUME NEW b \in AlignedBlocks, NEW s, NEW f
  PROVE  /\ [b EXCEPT !.free = f] = [addr |-> b.addr, size |-> b.size, free |-> f]
         /\ [b EXCEPT !.size = s] = [addr |-> b.addr, size |-> s, free |-> b.free]
<1>1. b \in [addr : Nat, size : Nat, free : BOOLEAN]
  BY DEF AlignedBlocks, Blocks
<1> QED BY Zenon, <1>1, ChangedRecord

\* A block that kmalloc splits.
LEMMA CutBlock ==
  ASSUME NEW b \in AlignedBlocks, NEW s, NEW f
  PROVE  [b EXCEPT !.size = s, !.free = f] = [addr |-> b.addr, size |-> s, free |-> f]
<1>1. b \in [addr : Nat, size : Nat, free : BOOLEAN]
  BY DEF AlignedBlocks, Blocks
<1>2. [b EXCEPT !.size = s] = [addr |-> b.addr, size |-> s, free |-> b.free]
  BY Zenon, ChangedBlock
<1> DEFINE c == [addr |-> b.addr, size |-> s, free |-> b.free]
<1>3. c \in [addr : Nat, size : {s}, free : BOOLEAN] /\ c.addr = b.addr /\ c.size = s
  BY <1>1
<1>4. [b EXCEPT !.size = s, !.free = f] = [[b EXCEPT !.size = s] EXCEPT !.free = f]
  BY Zenon
<1>5. [b EXCEPT !.size = s] = c
  BY Zenon, <1>2
<1> HIDE DEF c
<1>6. [c EXCEPT !.free = f] = [addr |-> c.addr, size |-> c.size, free |-> f]
  BY Zenon, <1>3, ChangedRecord
<1> QED BY Zenon, <1>3, <1>4, <1>5, <1>6

\* Blocks lie one after the other.
LEMMA Apart ==
  ASSUME NEW bs, NEW end, Tiling(bs, end)
  PROVE  \A i, j \in 1..Len(bs) : i < j => End(bs[i]) <= bs[j].addr
<1> DEFINE n == Len(bs)
           A(i) == bs[i].addr
           Z(i) == End(bs[i])
           Good(j) == \A i \in 1..n : i < j => Z(i) <= A(j)
           S == {j \in Nat : j \in 1..n => Good(j)}
<1>1. n \in Nat /\ HDR \in Nat /\ \A i \in 1..n : A(i) \in Nat /\ Z(i) \in Nat /\ A(i) <= Z(i)
  <2>1. n \in Nat /\ \A i \in 1..n : bs[i] \in AlignedBlocks
    BY DEF Tiling
  <2>2. ASSUME NEW i \in 1..n PROVE A(i) \in Nat /\ Z(i) \in Nat /\ A(i) <= Z(i)
    <3> DEFINE a == bs[i].addr
               s == bs[i].size
    <3>1. a \in Nat /\ s \in Nat /\ Z(i) = a + HDR + s /\ HDR \in Nat
      BY <2>1, BlockFacts, Sized
    <3> HIDE DEF a, s, Z
    <3>2. Z(i) \in Nat /\ a <= Z(i) /\ a \in Nat
      BY <3>1
    <3> QED BY <3>2 DEF a
  <2> QED BY <2>1, <2>2, Sized
<1>2. \A i \in 1..(n - 1) : Z(i) = A(i + 1)
  BY DEF Tiling
<1> HIDE DEF n, A, Z
<1>3. 0 \in S
  BY <1>1
<1>4. ASSUME NEW j \in Nat, j \in S PROVE j + 1 \in S
  <2> SUFFICES ASSUME j + 1 \in 1..n PROVE Good(j + 1)
    OBVIOUS
  <2>1. CASE j = 0
    BY <2>1, <1>1
  <2>2. CASE j # 0
    <3>1. j \in 1..n /\ j \in 1..(n - 1)
      BY <2>2, <1>1
    <3>2. Good(j) /\ Z(j) = A(j + 1) /\ A(j) <= Z(j)
      BY <3>1, <1>4, <1>1, <1>2
    <3>3. ASSUME NEW i \in 1..n, i < j + 1 PROVE Z(i) <= A(j + 1)
      <4>1. CASE i = j
        BY <4>1, <3>1, <3>2, <1>1
      <4>2. CASE i < j
        <5>1. Z(i) <= A(j)
          BY <4>2, <3>2
        <5>2. Z(i) \in Nat /\ A(j) \in Nat /\ Z(j) \in Nat
          BY <3>1, <1>1
        <5>3. Z(i) <= Z(j)
          BY <5>1, <5>2, <3>2
        <5> QED BY <5>3, <3>2
      <4> QED BY <3>3, <4>1, <4>2, <1>1
    <3> QED BY <3>3
  <2> QED BY <2>1, <2>2
<1>5. \A j \in Nat : j \in S => j + 1 \in S
  BY <1>4
<1>6. Nat \subseteq S
  <2> HIDE DEF S
  <2> QED BY <1>3, <1>5, Induction
<1>7. \A j \in 1..n : Good(j)
  BY <1>6, <1>1
<1> QED BY <1>7 DEF n, A, Z

\* No two blocks have the same address.
LEMMA OwnAddress ==
  ASSUME NEW bs, NEW end, Tiling(bs, end), NEW i \in 1..Len(bs), NEW j \in 1..Len(bs),
         bs[i].addr = bs[j].addr
  PROVE  i = j
<1> DEFINE n == Len(bs)
           A(k) == bs[k].addr
           Z(k) == End(bs[k])
<1>1. n \in Nat
  BY DEF Tiling
<1>2. ASSUME NEW k \in 1..n PROVE A(k) \in Nat /\ Z(k) \in Nat /\ A(k) < Z(k)
  <2> DEFINE a == bs[k].addr
             s == bs[k].size
  <2>1. bs[k] \in AlignedBlocks
    BY DEF Tiling
  <2>2. a \in Nat /\ s \in Nat /\ Z(k) = a + HDR + s /\ HDR \in Nat \ {0}
    BY <2>1, BlockFacts, Sized
  <2> HIDE DEF a, s, Z
  <2>3. Z(k) \in Nat /\ a < Z(k) /\ a \in Nat
    BY <2>2
  <2> QED BY <2>3 DEF a
<1>3. \A k, l \in 1..n : k < l => Z(k) <= A(l)
  BY Apart
<1>4. i \in 1..n /\ j \in 1..n /\ A(i) = A(j)
  OBVIOUS
<1> HIDE DEF n, A, Z
<1>5. ~(i < j)
  <2>1. ASSUME i < j PROVE Z(i) <= A(i)
    BY <2>1, <1>3, <1>4
  <2> QED BY <2>1, <1>2, <1>4
<1>6. ~(j < i)
  <2>1. ASSUME j < i PROVE Z(j) <= A(j)
    BY <2>1, <1>3, <1>4
  <2> QED BY <2>1, <1>2, <1>4
<1> QED BY <1>1, <1>4, <1>5, <1>6

-----------------------------------------------------------------------------

\* Block i has become c.
LEMMA ReplaceShape ==
  ASSUME NEW E, NEW bs \in Seq(E), NEW i \in 1..Len(bs), NEW c \in E
  PROVE  /\ [bs EXCEPT ![i] = c] \in Seq(E)
         /\ Len([bs EXCEPT ![i] = c]) = Len(bs)
         /\ \A j \in 1..Len(bs) : [bs EXCEPT ![i] = c][j] = IF j = i THEN c ELSE bs[j]
OBVIOUS

\* A block may change while it keeps its place; only the last may grow.
LEMMA ReplaceTiled ==
  ASSUME NEW bs, NEW end, Tiling(bs, end), NEW i \in 1..Len(bs), NEW c \in AlignedBlocks,
         c.addr = bs[i].addr, NEW e,
         i < Len(bs) => e = end /\ End(c) = End(bs[i]), i = Len(bs) => End(c) = e,
         NEW r, r = [bs EXCEPT ![i] = c]
  PROVE  Tiling(r, e)
<1> DEFINE n == Len(bs)
<1>1. bs \in Seq(AlignedBlocks) /\ n \in Nat /\ n >= 1
  BY DEF Tiling
<1>2. /\ r \in Seq(AlignedBlocks)
      /\ Len(r) = n
      /\ \A j \in 1..n : r[j] = IF j = i THEN c ELSE bs[j]
  BY <1>1, ReplaceShape
<1>3. \A j \in 1..n : r[j].addr = bs[j].addr
  BY <1>2
<1>4. 1 \in 1..n /\ n \in 1..n /\ \A j \in 1..(n - 1) : j \in 1..n /\ j + 1 \in 1..n /\ j < n
  BY <1>1
<1>5. r[1].addr = 0
  BY <1>3, <1>4 DEF Tiling
<1>6. ASSUME NEW j \in 1..(n - 1) PROVE End(r[j]) = r[j + 1].addr
  <2>1. End(r[j]) = End(bs[j])
    BY <1>2, <1>4
  <2>2. End(bs[j]) = bs[j + 1].addr
    BY DEF Tiling
  <2> QED BY <2>1, <2>2, <1>3, <1>4
<1>7. End(r[n]) = e
  <2>1. CASE i = n
    BY <2>1, <1>2, <1>4
  <2>2. CASE i # n
    <3>1. i < n
      BY <2>2, <1>1
    <3>2. e = end /\ r[n] = bs[n]
      BY <3>1, <2>2, <1>2, <1>4
    <3> QED BY <3>2 DEF Tiling
  <2> QED BY <2>1, <2>2
<1> QED BY Zenon, <1>1, <1>2, <1>5, <1>6, <1>7 DEF Tiling

\* Block i is cut in two.
LEMMA LinkTiled ==
  ASSUME NEW bs, NEW end, Tiling(bs, end), NEW i \in 1..Len(bs),
         NEW c \in AlignedBlocks, NEW d \in AlignedBlocks,
         c.addr = bs[i].addr, End(c) = d.addr, End(d) = End(bs[i]),
         NEW q, q = [bs EXCEPT ![i] = c], NEW r, Inserted(AlignedBlocks, r, q, d, i)
  PROVE  Tiling(r, end)
<1> DEFINE n == Len(bs)
<1>1. bs \in Seq(AlignedBlocks) /\ n \in Nat /\ n >= 1 /\ i \in 1..n
  BY DEF Tiling
<1>0. n \in Nat /\ n >= 1 /\ i \in 1..n
  BY <1>1
<1>2. Len(q) = n /\ \A j \in 1..n : q[j] = IF j = i THEN c ELSE bs[j]
  BY <1>1, ReplaceShape
<1>3. /\ r \in Seq(AlignedBlocks)
      /\ Len(r) = n + 1
      /\ \A j \in 1..i : r[j] = q[j]
      /\ r[i + 1] = d
      /\ \A j \in (i + 2)..(n + 1) : r[j] = q[j - 1]
  BY <1>2 DEF Inserted
<1>4. /\ bs[1].addr = 0
      /\ \A j \in 1..(n - 1) : End(bs[j]) = bs[j + 1].addr
      /\ End(bs[n]) = end
  BY DEF Tiling
<1> HIDE DEF n
<1>5. \A j \in 1..i : r[j].addr = bs[j].addr /\ (j < i => r[j] = bs[j])
  <2>1. \A j \in 1..i : j \in 1..n
    BY <1>0
  <2> QED BY <1>2, <1>3, <2>1
<1>6. ASSUME NEW j \in (i + 2)..(n + 1) PROVE r[j] = bs[j - 1]
  <2>1. j - 1 \in 1..n /\ j - 1 # i
    BY <1>0
  <2> QED BY <1>2, <1>3, <2>1
<1>7. r[i] = c
  BY <1>1, <1>2, <1>3
<1>8. r[1].addr = 0
  <2>1. 1 \in 1..i
    BY <1>0
  <2> QED BY <2>1, <1>4, <1>5
<1>9. ASSUME NEW j \in 1..n PROVE End(r[j]) = r[j + 1].addr
  <2>1. CASE j < i
    <3>1. j \in 1..i /\ j + 1 \in 1..i /\ j \in 1..(n - 1)
      BY <2>1, <1>0
    <3> QED BY <2>1, <3>1, <1>4, <1>5
  <2>2. CASE j = i
    BY <2>2, <1>3, <1>7
  <2>3. CASE j = i + 1
    <3>1. i + 2 \in (i + 2)..(n + 1) /\ (i + 2) - 1 = i + 1 /\ i \in 1..(n - 1) /\ (i + 1) + 1 = i + 2
      BY <2>3, <1>0
    <3>2. r[i + 2] = bs[i + 1]
      BY <3>1, <1>6
    <3> QED BY Zenon, <2>3, <3>1, <3>2, <1>3, <1>4
  <2>4. CASE j > i + 1
    <3>1. /\ j \in (i + 2)..(n + 1) /\ j + 1 \in (i + 2)..(n + 1)
          /\ j - 1 \in 1..(n - 1) /\ (j - 1) + 1 = j /\ (j + 1) - 1 = j
      BY <2>4, <1>0
    <3>2. r[j] = bs[j - 1] /\ r[j + 1] = bs[j]
      BY <3>1, <1>6
    <3> QED BY Zenon, <3>1, <3>2, <1>4
  <2> QED BY <2>1, <2>2, <2>3, <2>4, <1>1
<1>10. End(r[n + 1]) = end
  <2>1. CASE i = n
    BY <2>1, <1>3, <1>4
  <2>2. CASE i # n
    <3>1. n + 1 \in (i + 2)..(n + 1) /\ (n + 1) - 1 = n
      BY <2>2, <1>0
    <3> QED BY <3>1, <1>4, <1>6
  <2> QED BY <2>1, <2>2
<1>11. Len(r) >= 1 /\ Len(r) - 1 = n
  <2>1. Len(r) = n + 1
    BY <1>3
  <2> QED BY <1>0, <2>1
<1> QED BY <1>3, <1>8, <1>9, <1>10, <1>11 DEF Tiling

\* Block i and the next become one.
LEMMA UnlinkTiled ==
  ASSUME NEW bs, NEW end, Tiling(bs, end), NEW i \in 1..(Len(bs) - 1), NEW c \in AlignedBlocks,
         c.addr = bs[i].addr, End(c) = End(bs[i + 1]),
         NEW q, q = [bs EXCEPT ![i] = c], NEW r, Removed(AlignedBlocks, r, q, i)
  PROVE  Tiling(r, end)
<1> DEFINE n == Len(bs)
<1>1. bs \in Seq(AlignedBlocks) /\ n \in Nat /\ n >= 1 /\ i \in 1..(n - 1) /\ i \in 1..n
  BY DEF Tiling
<1>0. n \in Nat /\ n >= 1 /\ i \in 1..(n - 1) /\ i \in 1..n
  BY <1>1
<1>2. Len(q) = n /\ \A j \in 1..n : q[j] = IF j = i THEN c ELSE bs[j]
  BY <1>1, ReplaceShape
<1>3. /\ r \in Seq(AlignedBlocks)
      /\ Len(r) = n - 1
      /\ \A j \in 1..i : r[j] = q[j]
      /\ \A j \in (i + 1)..(n - 1) : r[j] = q[j + 1]
  BY <1>2 DEF Removed
<1>4. /\ bs[1].addr = 0
      /\ \A j \in 1..(n - 1) : End(bs[j]) = bs[j + 1].addr
      /\ End(bs[n]) = end
  BY DEF Tiling
<1> HIDE DEF n
<1>5. \A j \in 1..i : r[j].addr = bs[j].addr /\ (j < i => r[j] = bs[j])
  <2>1. \A j \in 1..i : j \in 1..n
    BY <1>0
  <2> QED BY <1>2, <1>3, <2>1
<1>6. ASSUME NEW j \in (i + 1)..(n - 1) PROVE r[j] = bs[j + 1]
  <2>1. j + 1 \in 1..n /\ j + 1 # i
    BY <1>0
  <2> QED BY <1>2, <1>3, <2>1
<1>7. r[i] = c
  BY <1>1, <1>2, <1>3
<1>8. r[1].addr = 0
  <2>1. 1 \in 1..i
    BY <1>0
  <2> QED BY <2>1, <1>4, <1>5
<1>9. ASSUME NEW j \in 1..(n - 2) PROVE End(r[j]) = r[j + 1].addr
  <2>1. CASE j < i
    <3>1. j \in 1..i /\ j + 1 \in 1..i /\ j \in 1..(n - 1)
      BY <2>1, <1>0
    <3> QED BY <2>1, <3>1, <1>4, <1>5
  <2>2. CASE j = i
    <3>1. i + 1 \in (i + 1)..(n - 1) /\ i + 1 \in 1..(n - 1)
      BY <2>2, <1>0
    <3>2. r[i + 1] = bs[(i + 1) + 1]
      BY <3>1, <1>6
    <3>3. End(bs[i + 1]) = bs[(i + 1) + 1].addr
      BY <3>1, <1>4
    <3> QED BY <2>2, <3>2, <3>3, <1>7
  <2>4. CASE j > i
    <3>1. j \in (i + 1)..(n - 1) /\ j + 1 \in (i + 1)..(n - 1) /\ j + 1 \in 1..(n - 1)
      BY <2>4, <1>0
    <3>2. r[j] = bs[j + 1] /\ r[j + 1] = bs[(j + 1) + 1]
      BY <3>1, <1>6
    <3> QED BY <3>1, <3>2, <1>4
  <2> QED BY <2>1, <2>2, <2>4, <1>1
<1>10. End(r[n - 1]) = end
  <2>1. CASE i = n - 1
    <3>1. i + 1 = n
      BY <2>1, <1>0
    <3> QED BY <2>1, <3>1, <1>4, <1>7
  <2>2. CASE i # n - 1
    <3>1. n - 1 \in (i + 1)..(n - 1) /\ (n - 1) + 1 = n
      BY <2>2, <1>0
    <3> QED BY <3>1, <1>4, <1>6
  <2> QED BY <2>1, <2>2
<1>11. Len(r) >= 1 /\ Len(r) - 1 = n - 2
  <2>1. Len(r) = n - 1
    BY <1>3
  <2> QED BY <1>0, <2>1
<1> QED BY <1>3, <1>8, <1>9, <1>10, <1>11 DEF Tiling

-----------------------------------------------------------------------------

\* The blocks in use.
Used(bs) == {b \in AlignedBlocks : InList(bs, b) /\ ~b.free}

\* What is in use when block b becomes c.
Exchanged(V, U, b, c) == V = (U \ {b}) \cup {x \in {c} : ~c.free}

\* Replacing a block replaces it among the blocks in use.
LEMMA ReplaceUsed ==
  ASSUME NEW bs, NEW end, Tiling(bs, end), NEW i \in 1..Len(bs), NEW c \in AlignedBlocks,
         NEW r, r = [bs EXCEPT ![i] = c]
  PROVE  Exchanged(Used(r), Used(bs), bs[i], c)
<1> DEFINE n == Len(bs)
<1>1. bs \in Seq(AlignedBlocks)
  BY DEF Tiling
<1>2. Len(r) = n /\ \A j \in 1..n : r[j] = IF j = i THEN c ELSE bs[j]
  BY <1>1, ReplaceShape
<1>3. \A j \in 1..n : bs[j] = bs[i] => j = i
  BY OwnAddress
<1>4. ASSUME NEW x PROVE InList(r, x) <=> (InList(bs, x) /\ x # bs[i]) \/ x = c
  BY <1>2, <1>3 DEF InList
<1> QED BY Zenon, <1>4 DEF Used, Exchanged

\* The rest that kmalloc splits off is not in use.
LEMMA InsertUsed ==
  ASSUME NEW q \in Seq(AlignedBlocks), NEW k \in 0..Len(q), NEW d, d.free,
         NEW r, Inserted(AlignedBlocks, r, q, d, k)
  PROVE  Used(r) = Used(q)
<1>1. \A x : InList(r, x) <=> InList(q, x) \/ x = d
  BY InsertedMembers
<1> QED BY <1>1 DEF Used

\* The block that kfree merges away was not in use.
LEMMA RemoveUsed ==
  ASSUME NEW q \in Seq(AlignedBlocks), NEW k \in 0..(Len(q) - 1), q[k + 1].free,
         NEW r, Removed(AlignedBlocks, r, q, k)
  PROVE  Used(r) = Used(q)
<1>1. \A x : InList(q, x) <=> InList(r, x) \/ x = q[k + 1]
  BY RemovedMembers
<1> QED BY <1>1 DEF Used

\* The callers hold the blocks U, each as one allocation of at most its size.
Held(U, lv) ==
  /\ \A b \in U : \E m \in lv : m.ptr = b.addr + HDR
  /\ \A m \in lv : \E b \in U : b.addr + HDR = m.ptr /\ b.size >= m.size
  /\ \A m1, m2 \in lv : m1.ptr = m2.ptr => m1 = m2

\* One block more in use, and one allocation more.
LEMMA HeldMore ==
  ASSUME NEW U, U \subseteq AlignedBlocks, NEW lv, Held(U, lv), NEW c \in AlignedBlocks,
         \A b \in U : b.addr # c.addr, NEW request, c.size >= request
  PROVE  Held(U \cup {c}, lv \cup {[ptr |-> c.addr + HDR, size |-> request]})
<1> DEFINE new == [ptr |-> c.addr + HDR, size |-> request]
<1>1. new.ptr = c.addr + HDR /\ new.size = request
  OBVIOUS
<1> HIDE DEF new
<1>2. \A m \in lv : m.ptr # new.ptr
  <2> SUFFICES ASSUME NEW m \in lv, m.ptr = new.ptr PROVE FALSE
    OBVIOUS
  <2>1. PICK b \in U : b.addr + HDR = m.ptr
    BY DEF Held
  <2> DEFINE x == b.addr
             y == c.addr
  <2>2. x \in Nat /\ y \in Nat /\ x # y /\ HDR \in Nat /\ x + HDR = y + HDR
    BY <1>1, <2>1, BlockFacts, Sized
  <2> HIDE DEF x, y
  <2> QED BY <2>2
<1>3. \A b \in U \cup {c} : \E m \in lv \cup {new} : m.ptr = b.addr + HDR
  BY <1>1 DEF Held
<1>4. \A m \in lv \cup {new} : \E b \in U \cup {c} : b.addr + HDR = m.ptr /\ b.size >= m.size
  BY <1>1 DEF Held
<1>5. \A m1, m2 \in lv \cup {new} : m1.ptr = m2.ptr => m1 = m2
  BY <1>2 DEF Held
<1> QED BY <1>3, <1>4, <1>5 DEF Held, new

\* kfree: one block less in use, and the allocation at its address gone.
LEMMA HeldLess ==
  ASSUME NEW U, U \subseteq AlignedBlocks, NEW lv, Held(U, lv), NEW c \in U,
         \A b \in U : b.addr = c.addr => b = c, NEW p, p = c.addr + HDR
  PROVE  Held(U \ {c}, {m \in lv : m.ptr # p})
<1>1. ASSUME NEW b \in U, b.addr + HDR = p PROVE b = c
  <2> DEFINE x == b.addr
             y == c.addr
  <2>1. x \in Nat /\ y \in Nat /\ HDR \in Nat /\ x + HDR = y + HDR
    BY <1>1, BlockFacts, Sized
  <2>2. x = y
    <3> HIDE DEF x, y
    <3> QED BY <2>1
  <2> QED BY <2>2
<1> DEFINE L == {m \in lv : m.ptr # p}
<1>2. \A b \in U \ {c} : \E m \in L : m.ptr = b.addr + HDR
  BY <1>1 DEF Held
<1>3. \A m \in L : \E b \in U \ {c} : b.addr + HDR = m.ptr /\ b.size >= m.size
  BY DEF Held
<1>4. \A m1, m2 \in L : m1.ptr = m2.ptr => m1 = m2
  BY DEF Held
<1> QED BY <1>2, <1>3, <1>4 DEF Held

\* No two neighbours are free.
NoTwoFree(bs) == \A i \in 1..(Len(bs) - 1) : ~(bs[i].free /\ bs[i + 1].free)

HeapOK(bs, end, lv) == Tiling(bs, end) /\ NoTwoFree(bs) /\ Held(Used(bs), lv)

\* kmalloc takes block i, which is free and large enough.
LEMMA TakeOK ==
  ASSUME NEW bs, NEW end, NEW lv, HeapOK(bs, end, lv), NEW i \in 1..Len(bs), bs[i].free,
         NEW size, Multiple(size, ALIGN), size <= bs[i].size, NEW request, request <= size,
         request \in Nat
  PROVE  HeapOK(Take(bs, i, size), end, lv \cup {[ptr |-> bs[i].addr + HDR, size |-> request]})
<1> DEFINE b == bs[i]
           n == Len(bs)
           r == Take(bs, i, size)
           new == [ptr |-> b.addr + HDR, size |-> request]
<1>1. /\ Tiling(bs, end) /\ NoTwoFree(bs) /\ Held(Used(bs), lv)
      /\ bs \in Seq(AlignedBlocks) /\ n \in Nat /\ i \in 1..n
  BY DEF HeapOK, Tiling
<1>0. n \in Nat /\ i \in 1..n
  BY <1>1
<1>2. /\ b \in AlignedBlocks
      /\ b.addr \in Nat /\ b.size \in Nat /\ End(b) = b.addr + HDR + b.size
      /\ Multiple(b.addr, ALIGN) /\ Multiple(b.size, ALIGN)
  BY <1>1, BlockFacts
<1>3. size \in Nat /\ HDR \in Nat /\ ALIGN \in Nat /\ Multiple(HDR, ALIGN)
  BY Zenon, Sized, MultipleSum
<1>5. \A x \in Used(bs) : x.addr # b.addr
  <2> SUFFICES ASSUME NEW x \in Used(bs), x.addr = b.addr PROVE FALSE
    OBVIOUS
  <2>1. PICK j \in 1..n : bs[j] = x
    BY DEF Used, InList
  <2>2. j = i
    BY <1>1, <2>1, OwnAddress
  <2> QED BY <2>1, <2>2 DEF Used
<1>6. Used(bs) \subseteq AlignedBlocks /\ Used(bs) \ {b} = Used(bs)
  BY DEF Used
\* The block as it is taken: whole, or cut to size.
<1>7. ASSUME NEW c \in AlignedBlocks, c.addr = b.addr, ~c.free, c.size >= size
      PROVE  Held(Used([bs EXCEPT ![i] = c]), lv \cup {new})
  <2> DEFINE q == [bs EXCEPT ![i] = c]
  <2> HIDE DEF q
  <2>1. Exchanged(Used(q), Used(bs), b, c)
    BY <1>1, ReplaceUsed DEF q
  <2>3. Used(q) = Used(bs) \cup {c}
    BY <2>1, <1>6, <1>7 DEF Exchanged
  <2>4. \A x \in Used(bs) : x.addr # c.addr
    BY <1>5, <1>7
  <2>5. c.size >= request
    <3> DEFINE y == c.size
    <3>1. y \in Nat /\ y >= size
      BY <1>7, BlockFacts
    <3> HIDE DEF y
    <3>2. y >= request
      BY <3>1, <1>3
    <3> QED BY <3>2 DEF y
  <2>6. Held(Used(bs) \cup {c}, lv \cup {[ptr |-> c.addr + HDR, size |-> request]})
    BY <1>1, <1>6, <2>4, <2>5, HeldMore
  <2> QED BY Zenon, <2>3, <2>6, <1>7 DEF q
<1>8. CASE b.size >= size + HDR + ALIGN
  <2> DEFINE c == [addr |-> b.addr, size |-> size, free |-> FALSE]
             d == [addr |-> b.addr + HDR + size, size |-> b.size - size - HDR, free |-> TRUE]
             q == [bs EXCEPT ![i] = c]
  <2>1. [b EXCEPT !.size = size, !.free = FALSE] = c
    <3> HIDE DEF b
    <3> QED BY Zenon, <1>2, CutBlock
  <2>2. r = LinkAfter(q, i, d)
    BY Zenon, <1>8, <2>1 DEF Take
  <2>3. c \in AlignedBlocks
    BY Zenon, <1>2, NewBlock
  <2>4. d \in AlignedBlocks
    <3> DEFINE x == b.addr
               y == b.size
    <3>1. Multiple(x + HDR, ALIGN) /\ Multiple((x + HDR) + size, ALIGN)
      BY <1>2, <1>3, MultipleSum
    <3>2. x \in Nat /\ y \in Nat /\ size + HDR <= y
      <4>1. x \in Nat /\ y \in Nat /\ y >= size + HDR + ALIGN
        BY <1>2, <1>8
      <4> HIDE DEF x, y
      <4> QED BY <4>1, <1>3
    <3>3. Multiple(size + HDR, ALIGN) /\ Multiple(y - (size + HDR), ALIGN)
      BY Zenon, <1>2, <1>3, <3>2, MultipleSum
    <3>4. y - (size + HDR) = y - size - HDR
      <4> HIDE DEF y
      <4> QED BY <3>2, <1>3
    <3>5. Multiple(y - size - HDR, ALIGN)
      BY <3>3, <3>4
    <3> QED BY Zenon, <3>1, <3>5, NewBlock
  <2>5. c.addr = b.addr /\ ~c.free /\ c.size = size /\ d.free
    OBVIOUS
  <2>6. End(c) = d.addr
    BY DEF End
  <2>7. End(d) = End(b)
    <3> DEFINE x == b.addr
               y == b.size
    <3>1. End(d) = (x + HDR + size) + HDR + (y - size - HDR) /\ End(b) = x + HDR + y
      BY DEF End
    <3>2. x \in Nat /\ y \in Nat
      BY <1>2
    <3> HIDE DEF x, y, d
    <3> QED BY <3>1, <3>2, <1>3
  <2> HIDE DEF c, d
  <2>8. q \in Seq(AlignedBlocks) /\ Len(q) = n /\ \A j \in 1..n : q[j] = IF j = i THEN c ELSE bs[j]
    BY <1>1, <2>3, ReplaceShape
  <2> HIDE DEF q
  <2>9. Inserted(AlignedBlocks, r, q, d, i)
    <3>1. i \in 0..Len(q)
      BY <1>0, <2>8
    <3>2. Inserted(AlignedBlocks, SubSeq(q, 1, i) \o <<d>> \o SubSeq(q, i + 1, Len(q)), q, d, i)
      BY <2>4, <2>8, <3>1, InsertShape
    <3> QED BY <2>2, <3>2 DEF LinkAfter
  <2>10. Tiling(r, end)
    BY <1>1, <2>3, <2>4, <2>5, <2>6, <2>7, <2>9, LinkTiled DEF q
  <2>11. Used(r) = Used(q)
    <3>1. i \in 0..Len(q)
      BY <1>0, <2>8
    <3> QED BY <2>5, <2>8, <2>9, <3>1, InsertUsed
  <2>12. Held(Used(q), lv \cup {new})
    <3>1. c.size >= size
      BY <2>5, <1>3
    <3> QED BY Zenon, <3>1, <2>3, <2>5, <1>7 DEF q
  <2>13. NoTwoFree(r)
    <3>1. /\ Len(r) = n + 1
          /\ \A j \in 1..i : r[j] = q[j]
          /\ \A j \in (i + 2)..(n + 1) : r[j] = q[j - 1]
      BY <2>8, <2>9 DEF Inserted
    <3>2. \A j \in 1..(n - 1) : ~(bs[j].free /\ bs[j + 1].free)
      BY <1>1 DEF NoTwoFree
    <3> HIDE DEF n, r
    <3>3. ASSUME NEW j \in 1..n PROVE ~(r[j].free /\ r[j + 1].free)
      <4>1. CASE j = i \/ j + 1 = i
        <5>1. i \in 1..i
          BY <1>0
        <5>2. r[i] = c
          BY <5>1, <3>1, <2>8 DEF n
        <5> QED BY <4>1, <5>2, <2>5
      <4>2. CASE j + 1 < i
        <5>1. j \in 1..i /\ j + 1 \in 1..i /\ j \in 1..n /\ j + 1 \in 1..n /\ j # i /\ j + 1 # i
              /\ j \in 1..(n - 1)
          BY <4>2, <1>0 DEF n
        <5>2. r[j] = bs[j] /\ r[j + 1] = bs[j + 1]
          BY <5>1, <3>1, <2>8
        <5> QED BY <5>1, <5>2, <3>2
      <4>3. CASE j > i
        <5>1. j + 1 \in (i + 2)..(n + 1) /\ (j + 1) - 1 = j /\ j \in 1..n /\ j # i /\ j - 1 \in 1..(n - 1)
              /\ (j - 1) + 1 = j
          BY <4>3, <1>0 DEF n
        <5>2. r[j + 1] = bs[j]
          BY Zenon, <5>1, <3>1, <2>8
        <5>3. CASE j = i + 1
          <6>1. i \in 1..(n - 1) /\ j = i + 1
            BY <5>1, <5>3, <1>0
          <6>2. ~bs[j].free
            BY <6>1, <3>2
          <6> QED BY <5>2, <6>2
        <5>4. CASE j # i + 1
          <6>1. j \in (i + 2)..(n + 1) /\ j - 1 \in 1..n /\ j - 1 # i
            BY <4>3, <5>4, <5>1, <1>0
          <6>2. r[j] = bs[j - 1]
            BY <6>1, <3>1, <2>8
          <6> QED BY <5>1, <5>2, <6>2, <3>2
        <5> QED BY <5>3, <5>4
      <4> QED BY <4>1, <4>2, <4>3, <1>1
    <3>4. Len(r) - 1 = n
      BY <3>1, <1>0 DEF n
    <3> QED BY <3>3, <3>4 DEF NoTwoFree
  <2> QED BY <2>10, <2>11, <2>12, <2>13 DEF HeapOK
<1>9. CASE ~(b.size >= size + HDR + ALIGN)
  <2> DEFINE c == [addr |-> b.addr, size |-> b.size, free |-> FALSE]
  <2>1. [b EXCEPT !.free = FALSE] = c
    <3> HIDE DEF b
    <3> QED BY Zenon, <1>2, ChangedBlock
  <2>2. r = [bs EXCEPT ![i] = c]
    BY Zenon, <1>9, <2>1 DEF Take
  <2>3. c \in AlignedBlocks
    BY Zenon, <1>2, NewBlock
  <2>4. c.addr = b.addr /\ ~c.free /\ c.size = b.size /\ End(c) = End(b)
    BY DEF End
  <2> HIDE DEF c
  <2>5. Tiling(r, end)
    <3>1. i = Len(bs) => End(c) = end
      BY <1>1, <2>4 DEF Tiling
    <3>2. c.addr = bs[i].addr /\ End(c) = End(bs[i])
      BY <2>4
    <3> HIDE DEF r, b
    <3> QED BY Zenon, <1>1, <2>2, <2>3, <3>1, <3>2, ReplaceTiled
  <2>6. Held(Used(r), lv \cup {new})
    <3>1. c.size >= size
      BY <2>4, <1>2, <1>3
    <3> QED BY Zenon, <3>1, <2>2, <2>3, <2>4, <1>7
  <2>7. NoTwoFree(r)
    <3>1. Len(r) = n /\ \A j \in 1..n : r[j] = IF j = i THEN c ELSE bs[j]
      BY <1>1, <2>2, <2>3, ReplaceShape
    <3>2. \A j \in 1..(n - 1) : j \in 1..n /\ j + 1 \in 1..n
      BY <1>0
    <3>3. \A j \in 1..(n - 1) : ~(bs[j].free /\ bs[j + 1].free)
      BY <1>1 DEF NoTwoFree
    <3> HIDE DEF r, n
    <3>4. \A j \in 1..(n - 1) : ~(r[j].free /\ r[j + 1].free)
      BY Zenon, <3>1, <3>2, <3>3, <2>4
    <3> QED BY <3>1, <3>4 DEF NoTwoFree
  <2> QED BY <2>5, <2>6, <2>7 DEF HeapOK
<1> QED BY <1>8, <1>9

\* Block i and the block after it, both free, have become one.
Merged(r, bs, i, end) ==
  /\ Tiling(r, end)
  /\ Used(r) = Used(bs)
  /\ Len(r) = Len(bs) - 1
  /\ \A j \in 1..(i - 1) : r[j] = bs[j]
  /\ r[i].free /\ r[i].addr = bs[i].addr
  /\ \A j \in (i + 1)..(Len(bs) - 1) : r[j] = bs[j + 1]

\* What a merge in kfree does to the list.
LEMMA MergeMerges ==
  ASSUME NEW bs, NEW end, Tiling(bs, end), NEW i \in 1..(Len(bs) - 1),
         bs[i].free, bs[i + 1].free
  PROVE  Merged(Merge(bs, i), bs, i, end)
<1> DEFINE n == Len(bs)
           a == bs[i]
           b == bs[i + 1]
           c == [addr |-> a.addr, size |-> a.size + HDR + b.size, free |-> a.free]
           q == [bs EXCEPT ![i] = c]
           r == Merge(bs, i)
<1>1. bs \in Seq(AlignedBlocks) /\ n \in Nat /\ i \in 1..n /\ i + 1 \in 1..n /\ i \in 1..(n - 1)
  BY DEF Tiling
<1>0. n \in Nat /\ i \in 1..n /\ i + 1 \in 1..n /\ i \in 1..(n - 1)
  BY <1>1
<1>2. a \in AlignedBlocks /\ b \in AlignedBlocks
  BY <1>1
<1>3. /\ a.addr \in Nat /\ a.size \in Nat /\ b.addr \in Nat /\ b.size \in Nat
      /\ Multiple(a.addr, ALIGN) /\ Multiple(a.size, ALIGN) /\ Multiple(b.size, ALIGN)
      /\ HDR \in Nat /\ Multiple(HDR, ALIGN) /\ ALIGN \in Nat
      /\ a.free \in BOOLEAN
  BY <1>2, BlockFacts, Sized
<1>4. [bs EXCEPT ![i].size = @ + HDR + b.size] = q
  <2>1. [a EXCEPT !.size = a.size + HDR + b.size] = c
    <3> HIDE DEF a, b
    <3> QED BY Zenon, <1>2, ChangedBlock
  <2> QED BY Zenon, <2>1, <1>1
<1>5. r = SubSeq(q, 1, i) \o SubSeq(q, i + 2, Len(q))
  BY Zenon, <1>4 DEF Merge, UnlinkAfter
<1>6. c \in AlignedBlocks
  <2>1. Multiple(a.size + HDR, ALIGN)
    BY <1>3, MultipleSum
  <2>2. Multiple(a.size + HDR + b.size, ALIGN)
    BY <1>3, <2>1, MultipleSum
  <2> QED BY Zenon, <1>3, <2>2, NewBlock
<1>7. c.addr = a.addr /\ c.free
  OBVIOUS
<1>8. End(c) = End(b)
  <2> DEFINE x == a.addr
             y == a.size
             z == b.size
  <2>1. End(c) = x + HDR + (y + HDR + z) /\ End(b) = b.addr + HDR + z /\ End(a) = x + HDR + y
    BY DEF End
  <2>2. End(a) = b.addr
    BY DEF Tiling
  <2>3. x \in Nat /\ y \in Nat /\ z \in Nat /\ HDR \in Nat
    BY <1>3
  <2>4. x + HDR + (y + HDR + z) = (x + HDR + y) + HDR + z
    <3> HIDE DEF x, y, z
    <3> QED BY <2>3
  <2> QED BY <2>1, <2>2, <2>4
<1> HIDE DEF c, r
<1>9. /\ q \in Seq(AlignedBlocks)
      /\ Len(q) = n
      /\ \A j \in 1..n : q[j] = IF j = i THEN c ELSE bs[j]
  BY <1>1, <1>6, ReplaceShape
<1> HIDE DEF q
<1>10. i \in 0..(Len(q) - 1)
  BY <1>0, <1>9
<1>11. Removed(AlignedBlocks, r, q, i)
  BY <1>5, <1>9, <1>10, RemoveShape
<1>12. Tiling(r, end)
  BY <1>6, <1>7, <1>8, <1>11, UnlinkTiled DEF q
<1>13. Used(r) = Used(bs)
  <2>1. Exchanged(Used(q), Used(bs), a, c)
    BY <1>1, <1>6, ReplaceUsed DEF q
  <2>2. Used(q) = Used(bs)
    BY <2>1, <1>7 DEF Exchanged, Used
  <2>3. q[i + 1].free
    <3>1. i + 1 # i
      BY <1>1
    <3> QED BY <3>1, <1>1, <1>9
  <2>4. Used(r) = Used(q)
    BY <1>9, <1>10, <1>11, <2>3, RemoveUsed
  <2> QED BY <2>2, <2>4
<1>14. /\ Len(r) = n - 1
       /\ \A j \in 1..i : r[j] = q[j]
       /\ \A j \in (i + 1)..(n - 1) : r[j] = q[j + 1]
  BY <1>9, <1>11 DEF Removed
<1>15. r[i] = c
  BY <1>1, <1>9, <1>14
<1>16. ASSUME NEW j \in 1..(i - 1) PROVE r[j] = bs[j]
  <2>1. j \in 1..i /\ j \in 1..n /\ j # i
    BY <1>0
  <2> QED BY <2>1, <1>9, <1>14
<1>17. ASSUME NEW j \in (i + 1)..(n - 1) PROVE r[j] = bs[j + 1]
  <2>1. j + 1 \in 1..n /\ j + 1 # i
    BY <1>0
  <2> QED BY <2>1, <1>9, <1>14
<1>18. Merged(r, bs, i, end)
  BY <1>7, <1>12, <1>13, <1>14, <1>15, <1>16, <1>17 DEF Merged
<1> QED BY <1>18 DEF r

\* kfree releases block i, which the caller holds at p.
LEMMA ReleaseOK ==
  ASSUME NEW bs, NEW end, NEW lv, HeapOK(bs, end, lv), NEW i \in 1..Len(bs),
         NEW m \in lv, bs[i].addr + HDR = m.ptr
  PROVE  HeapOK(Release(bs, i), end, {x \in lv : x.ptr # m.ptr})
<1> DEFINE n == Len(bs)
           b == bs[i]
           c == [addr |-> b.addr, size |-> b.size, free |-> TRUE]
           freed == [bs EXCEPT ![i].free = TRUE]
           next == IF i < Len(freed) /\ freed[i + 1].free THEN Merge(freed, i) ELSE freed
           prev == i > 1 /\ next[i - 1].free /\ End(next[i - 1]) = next[i].addr
           r == IF prev THEN Merge(next, i - 1) ELSE next
           L == {x \in lv : x.ptr # m.ptr}
<1>1. /\ Tiling(bs, end) /\ NoTwoFree(bs) /\ Held(Used(bs), lv)
      /\ bs \in Seq(AlignedBlocks) /\ n \in Nat /\ i \in 1..n
  BY DEF HeapOK, Tiling
<1>0. n \in Nat /\ i \in 1..n
  BY <1>1
<1>2. b \in AlignedBlocks
  BY <1>1
<1>3. Release(bs, i) = r
  BY DEF Release
<1>4. freed = [bs EXCEPT ![i] = c]
  <2>1. [b EXCEPT !.free = TRUE] = c
    <3> HIDE DEF b
    <3> QED BY Zenon, <1>2, ChangedBlock
  <2> QED BY Zenon, <2>1, <1>1
<1>5. c \in AlignedBlocks /\ c.addr = b.addr /\ c.free /\ End(c) = End(b)
  <2>1. Multiple(b.addr, ALIGN) /\ Multiple(b.size, ALIGN)
    BY <1>2, BlockFacts
  <2>2. c \in AlignedBlocks
    BY Zenon, <2>1, NewBlock
  <2> QED BY <2>2 DEF End
\* The block the caller holds is this one.
<1>6. b \in Used(bs) /\ \A x \in Used(bs) : x.addr = b.addr => x = b
  <2>1. ASSUME NEW x \in Used(bs), x.addr = b.addr PROVE x = b
    <3>1. PICK j \in 1..n : bs[j] = x
      BY DEF Used, InList
    <3>2. j = i
      BY <1>1, <2>1, <3>1, OwnAddress
    <3> QED BY <3>1, <3>2
  <2>2. PICK x \in Used(bs) : x.addr + HDR = m.ptr
    BY <1>1 DEF Held
  <2>3. x.addr = b.addr
    <3> DEFINE y == x.addr
               z == b.addr
    <3>1. y \in Nat /\ z \in Nat /\ HDR \in Nat /\ y + HDR = z + HDR
      <4>1. x \in AlignedBlocks
        BY DEF Used
      <4> QED BY <4>1, <1>2, <2>2, BlockFacts, Sized
    <3>2. y = z
      <4> HIDE DEF y, z
      <4> QED BY <3>1
    <3> QED BY <3>2
  <2> QED BY <2>1, <2>2, <2>3
<1> HIDE DEF b, c, freed
<1>7. /\ Len(freed) = n
      /\ \A j \in 1..n : freed[j] = IF j = i THEN c ELSE bs[j]
  BY <1>1, <1>5, <1>4, ReplaceShape
<1>8. Tiling(freed, end)
  <2>1. i = Len(bs) => End(c) = end
    BY <1>1, <1>5 DEF Tiling, b
  <2>2. c.addr = bs[i].addr /\ End(c) = End(bs[i])
    BY <1>5 DEF b
  <2> QED BY Zenon, <1>1, <1>5, <1>4, <2>1, <2>2, ReplaceTiled
<1>9. Held(Used(freed), L)
  <2>1. Exchanged(Used(freed), Used(bs), b, c)
    BY Zenon, <1>1, <1>5, <1>4, ReplaceUsed DEF b
  <2>2. Used(freed) = Used(bs) \ {b}
    BY <2>1, <1>5 DEF Exchanged
  <2>3. Used(bs) \subseteq AlignedBlocks /\ m.ptr = b.addr + HDR
    BY DEF Used, b
  <2>4. Held(Used(bs) \ {b}, L)
    BY <1>1, <1>6, <2>3, HeldLess
  <2> QED BY <2>2, <2>4
<1>10. \A j \in 1..(n - 1) : ~(bs[j].free /\ bs[j + 1].free)
  BY <1>1 DEF NoTwoFree
\* After the first merge, only the block before i may be free next to a free one.
<1>11. /\ Tiling(next, end)
       /\ Used(next) = Used(freed)
       /\ i \in 1..Len(next)
       /\ next[i].free
       /\ \A j \in 1..(Len(next) - 1) : j + 1 # i => ~(next[j].free /\ next[j + 1].free)
  <2>1. CASE i < n /\ freed[i + 1].free
    <3>1. next = Merge(freed, i)
      BY <2>1, <1>7
    <3>2. i \in 1..(Len(freed) - 1) /\ freed[i].free /\ i \in 1..(n - 1)
      BY <2>1, <1>1, <1>5, <1>7
    <3>3. Merged(next, freed, i, end)
      BY <2>1, <3>1, <3>2, <1>8, MergeMerges
    <3> HIDE DEF next
    <3>4. /\ Tiling(next, end) /\ Used(next) = Used(freed) /\ Len(next) = n - 1 /\ next[i].free
          /\ \A j \in 1..(i - 1) : next[j] = freed[j]
          /\ \A j \in (i + 1)..(n - 1) : next[j] = freed[j + 1]
      BY <3>3, <1>7 DEF Merged
    <3>5. bs[i + 1].free
      <4>1. i + 1 \in 1..n /\ i + 1 # i
        BY <2>1, <1>0
      <4> QED BY <2>1, <4>1, <1>7
    <3> HIDE DEF n
    <3>6. ASSUME NEW j \in 1..(n - 2), j + 1 # i PROVE ~(next[j].free /\ next[j + 1].free)
      <4>1. CASE j + 1 < i
        <5>1. /\ j \in 1..(i - 1) /\ j + 1 \in 1..(i - 1) /\ j \in 1..n /\ j + 1 \in 1..n
              /\ j # i /\ j + 1 # i /\ j \in 1..(n - 1)
          BY <4>1, <3>2, <1>0
        <5>2. next[j] = bs[j] /\ next[j + 1] = bs[j + 1]
          BY <5>1, <3>4, <1>7
        <5> QED BY <5>1, <5>2, <1>10
      <4>2. CASE j >= i
        <5>1. /\ j + 1 \in (i + 1)..(n - 1) /\ (j + 1) + 1 \in 1..n /\ (j + 1) + 1 # i
              /\ j + 1 \in 1..(n - 1) /\ j + 1 \in 1..n /\ j + 1 # i
          BY <4>2, <3>2, <1>0
        <5>2. next[j + 1] = bs[(j + 1) + 1]
          BY <5>1, <3>4, <1>7
        <5>3. ~(bs[j + 1].free /\ bs[(j + 1) + 1].free)
          BY <5>1, <1>10
        <5>4. CASE j = i
          BY <5>2, <5>3, <5>4, <3>5
        <5>5. CASE j # i
          <6>1. j \in (i + 1)..(n - 1)
            BY <5>5, <4>2, <3>2, <1>0
          <6>2. next[j] = bs[j + 1]
            BY <5>1, <6>1, <3>4, <1>7
          <6> QED BY <5>2, <5>3, <6>2
        <5> QED BY <5>4, <5>5
      <4> QED BY <3>6, <4>1, <4>2, <3>2, <1>1
    <3>7. Len(next) - 1 = n - 2 /\ i \in 1..Len(next)
      BY <3>4, <3>2, <1>0
    <3> QED BY <3>4, <3>6, <3>7
  <2>2. CASE ~(i < n /\ freed[i + 1].free)
    <3>1. next = freed
      BY <2>2, <1>7
    <3>2. freed[i].free
      BY <1>1, <1>5, <1>7
    <3> HIDE DEF next, n
    <3>3. ASSUME NEW j \in 1..(n - 1), j + 1 # i PROVE ~(freed[j].free /\ freed[j + 1].free)
      <4>1. j \in 1..n /\ j + 1 \in 1..n /\ (j = i => i < n)
        BY <1>0
      <4>2. CASE j = i
        BY <2>2, <4>1, <4>2
      <4>3. CASE j # i
        <5>1. freed[j] = bs[j] /\ freed[j + 1] = bs[j + 1]
          BY <3>3, <4>1, <4>3, <1>7
        <5> QED BY <5>1, <1>10
      <4> QED BY <4>2, <4>3
    <3> QED BY <3>1, <3>2, <3>3, <1>1, <1>7, <1>8
  <2> QED BY Zenon, <2>1, <2>2
<1> HIDE DEF next
<1> DEFINE k == Len(next)
<1>12. next \in Seq(AlignedBlocks) /\ k \in Nat /\ i \in 1..k
  BY <1>11 DEF Tiling
<1>13. Tiling(r, end) /\ Used(r) = Used(next) /\ NoTwoFree(r)
  <2>1. CASE prev
    <3>1. r = Merge(next, i - 1)
      BY <2>1
    <3>2. /\ i - 1 \in 1..(k - 1) /\ (i - 1) + 1 = i
          /\ next[i - 1].free /\ next[(i - 1) + 1].free
      <4>1. i > 1 /\ next[i - 1].free /\ next[i].free
        BY <2>1, <1>11
      <4>2. i - 1 \in 1..(k - 1) /\ (i - 1) + 1 = i
        BY <4>1, <1>12
      <4> QED BY <4>1, <4>2
    <3> DEFINE h == i - 1
    <3> HIDE DEF r, prev
    <3>3. Merged(r, next, h, end)
      BY <3>1, <3>2, <1>11, MergeMerges
    <3>4. /\ Tiling(r, end) /\ Used(r) = Used(next) /\ Len(r) = k - 1
          /\ \A j \in 1..(h - 1) : r[j] = next[j]
          /\ \A j \in (h + 1)..(k - 1) : r[j] = next[j + 1]
      BY <3>3 DEF Merged
    <3>5. h \in Nat /\ h \in 1..(k - 1) /\ h + 1 = i
      BY <3>2, <1>12
    <3>6. \A j \in 1..(k - 1) : j + 1 # i => ~(next[j].free /\ next[j + 1].free)
      BY <1>11
    <3> HIDE DEF h, k
    <3>7. ASSUME NEW j \in 1..(k - 2) PROVE ~(r[j].free /\ r[j + 1].free)
      <4>1. CASE j + 1 < h
        <5>1. j \in 1..(h - 1) /\ j + 1 \in 1..(h - 1) /\ j \in 1..(k - 1) /\ j + 1 # i
          BY <4>1, <3>5, <1>12
        <5> QED BY <5>1, <3>4, <3>6
      <4>2. CASE j + 1 = h
        <5>1. j \in 1..(h - 1) /\ j \in 1..(k - 1) /\ j + 1 # i
          BY <4>2, <3>5, <1>12
        <5>2. r[j] = next[j] /\ next[j + 1].free
          BY <5>1, <4>2, <3>2, <3>4 DEF h
        <5> QED BY <5>1, <5>2, <3>6
      <4>3. CASE j >= h
        <5>1. /\ j + 1 \in (h + 1)..(k - 1) /\ j + 1 \in 1..(k - 1) /\ (j + 1) + 1 # i
          BY <4>3, <3>5, <1>12
        <5>2. r[j + 1] = next[(j + 1) + 1] /\ ~(next[j + 1].free /\ next[(j + 1) + 1].free)
          BY <5>1, <3>4, <3>6
        <5>3. CASE j = h
          <6>1. next[j + 1].free
            BY <5>3, <3>5, <1>11
          <6> QED BY <5>2, <6>1
        <5>4. CASE j # h
          <6>1. j \in (h + 1)..(k - 1)
            BY <5>4, <4>3, <3>5, <1>12
          <6>2. r[j] = next[j + 1]
            BY <6>1, <3>4
          <6> QED BY <5>2, <6>2
        <5> QED BY <5>3, <5>4
      <4> QED BY <4>1, <4>2, <4>3, <3>5, <1>12
    <3>8. Len(r) - 1 = k - 2
      BY <3>4, <1>12
    <3> QED BY <3>4, <3>7, <3>8 DEF NoTwoFree
  <2>2. CASE ~prev
    <3>1. r = next
      BY <2>2
    <3>2. ASSUME NEW j \in 1..(k - 1) PROVE ~(next[j].free /\ next[j + 1].free)
      <4>1. CASE j + 1 = i
        <5>1. i > 1 /\ i - 1 = j
          BY <4>1, <1>12
        <5>2. End(next[j]) = next[j + 1].addr
          BY <1>11 DEF Tiling
        <5> QED BY <2>2, <4>1, <5>1, <5>2
      <4>2. CASE j + 1 # i
        BY <4>2, <1>11
      <4> QED BY <4>1, <4>2
    <3> HIDE DEF r
    <3> QED BY <3>1, <3>2, <1>11 DEF NoTwoFree
  <2> QED BY Zenon, <2>1, <2>2
<1> HIDE DEF r
<1>14. HeapOK(r, end, L)
  BY <1>9, <1>11, <1>13 DEF HeapOK
<1> QED BY <1>3, <1>14

-----------------------------------------------------------------------------

\* heap_expand_locked joins the new page to a last block that is free.
LEMMA JoinPage ==
  ASSUME NEW bs, NEW end, NEW lv, HeapOK(bs, end, lv), bs[Len(bs)].free
  PROVE  HeapOK([bs EXCEPT ![Len(bs)].size = @ + HDR + (PAGE_SIZE - HDR)], end + PAGE_SIZE, lv)
<1> DEFINE n == Len(bs)
           b == bs[n]
           s == b.size + HDR + (PAGE_SIZE - HDR)
           c == [addr |-> b.addr, size |-> s, free |-> b.free]
           r == [bs EXCEPT ![n].size = @ + HDR + (PAGE_SIZE - HDR)]
<1>1. /\ Tiling(bs, end) /\ NoTwoFree(bs) /\ Held(Used(bs), lv)
      /\ bs \in Seq(AlignedBlocks) /\ n \in Nat /\ n \in 1..n /\ End(b) = end
  BY DEF HeapOK, Tiling
<1>2. b \in AlignedBlocks
  BY <1>1
<1>3. /\ b.addr \in Nat /\ b.size \in Nat /\ b.free \in BOOLEAN
      /\ Multiple(b.addr, ALIGN) /\ Multiple(b.size, ALIGN)
      /\ HDR \in Nat /\ PAGE_SIZE \in Nat /\ ALIGN \in Nat
      /\ HDR < PAGE_SIZE /\ Multiple(HDR, ALIGN) /\ Multiple(PAGE_SIZE, ALIGN)
  BY <1>2, BlockFacts, Sized
<1>4. r = [bs EXCEPT ![n] = c]
  <2>1. [b EXCEPT !.size = s] = c
    <3> HIDE DEF b, s
    <3> QED BY Zenon, <1>2, ChangedBlock
  <2> QED BY Zenon, <2>1, <1>1
<1>5. s = b.size + PAGE_SIZE
  <2> DEFINE y == b.size
  <2>1. y \in Nat
    BY <1>3
  <2>2. y + HDR + (PAGE_SIZE - HDR) = y + PAGE_SIZE
    <3> HIDE DEF y
    <3> QED BY <2>1, <1>3
  <2> QED BY <2>2
<1>6. c \in AlignedBlocks
  <2>1. Multiple(b.size + PAGE_SIZE, ALIGN)
    BY <1>3, MultipleSum
  <2> HIDE DEF s
  <2> QED BY Zenon, <1>3, <1>5, <2>1, NewBlock
<1>7. c.addr = b.addr /\ c.free = b.free
  OBVIOUS
<1>8. End(c) = end + PAGE_SIZE
  <2> DEFINE x == b.addr
             y == b.size
  <2>1. End(c) = x + HDR + (y + PAGE_SIZE) /\ end = x + HDR + y
    BY <1>1, <1>5 DEF End
  <2>2. x \in Nat /\ y \in Nat
    BY <1>3
  <2> HIDE DEF x, y, c
  <2> QED BY <2>1, <2>2, <1>3
<1> HIDE DEF b, c, r
<1>9. Len(r) = n /\ \A j \in 1..n : r[j] = IF j = n THEN c ELSE bs[j]
  BY <1>1, <1>4, <1>6, ReplaceShape
<1>10. Tiling(r, end + PAGE_SIZE)
  <2>1. ~(n < n) /\ c.addr = bs[n].addr
    BY <1>1, <1>7 DEF b
  <2> DEFINE e == end + PAGE_SIZE
  <2> HIDE DEF e
  <2>2. End(c) = e
    BY <1>8 DEF e
  <2>3. Tiling(r, e)
    BY Zenon, <1>1, <1>4, <1>6, <2>1, <2>2, ReplaceTiled
  <2> QED BY <2>3 DEF e
<1>11. NoTwoFree(r)
  <2>1. \A j \in 1..(n - 1) : j \in 1..n /\ j + 1 \in 1..n
    BY <1>1
  <2>2. \A j \in 1..n : r[j].free = bs[j].free
    BY Zenon, <1>7, <1>9 DEF b
  <2> QED BY <1>1, <1>9, <2>1, <2>2 DEF NoTwoFree
<1>12. Used(r) = Used(bs)
  <2>1. Exchanged(Used(r), Used(bs), b, c)
    BY Zenon, <1>1, <1>4, <1>6, ReplaceUsed DEF b
  <2> QED BY <2>1, <1>7 DEF Exchanged, Used, b
<1>13. HeapOK(r, end + PAGE_SIZE, lv)
  BY <1>1, <1>10, <1>11, <1>12 DEF HeapOK
<1> QED BY <1>13 DEF r

\* It appends the new page to a last block that is in use.
LEMMA AppendPage ==
  ASSUME NEW bs, NEW end, NEW lv, HeapOK(bs, end, lv), ~bs[Len(bs)].free
  PROVE  HeapOK(Append(bs, [addr |-> end, size |-> PAGE_SIZE - HDR, free |-> TRUE]),
                end + PAGE_SIZE, lv)
<1> DEFINE n == Len(bs)
           b == bs[n]
           c == [addr |-> end, size |-> PAGE_SIZE - HDR, free |-> TRUE]
           r == Append(bs, c)
<1>1. /\ Tiling(bs, end) /\ NoTwoFree(bs) /\ Held(Used(bs), lv)
      /\ bs \in Seq(AlignedBlocks) /\ n \in Nat /\ n \in 1..n /\ End(b) = end
  BY DEF HeapOK, Tiling
<1>2. b \in AlignedBlocks
  BY <1>1
<1>3. /\ b.addr \in Nat /\ b.size \in Nat
      /\ Multiple(b.addr, ALIGN) /\ Multiple(b.size, ALIGN)
      /\ HDR \in Nat /\ PAGE_SIZE \in Nat /\ ALIGN \in Nat
      /\ HDR < PAGE_SIZE /\ Multiple(HDR, ALIGN) /\ Multiple(PAGE_SIZE, ALIGN)
  BY <1>2, BlockFacts, Sized
<1>4. end = b.addr + HDR + b.size /\ end \in Nat
  <2>1. end = b.addr + HDR + b.size
    BY <1>1 DEF End
  <2> HIDE DEF b
  <2> QED BY <2>1, <1>3
<1>5. c \in AlignedBlocks
  <2>1. Multiple(b.addr + HDR, ALIGN)
    BY <1>3, MultipleSum
  <2>2. Multiple(end, ALIGN)
    BY <1>3, <1>4, <2>1, MultipleSum
  <2>4. HDR <= PAGE_SIZE
    BY <1>3
  <2>3. Multiple(PAGE_SIZE - HDR, ALIGN)
    BY Zenon, <1>3, <2>4, MultipleSum
  <2> QED BY Zenon, <2>2, <2>3, NewBlock
<1>6. c.addr = end /\ c.free /\ End(c) = end + HDR + (PAGE_SIZE - HDR)
  BY DEF End
<1>7. End(c) = end + PAGE_SIZE
  <2>1. end + HDR + (PAGE_SIZE - HDR) = end + PAGE_SIZE
    <3> HIDE DEF b
    <3>1. end \in Nat /\ HDR \in Nat /\ PAGE_SIZE \in Nat
      BY <1>3, <1>4
    <3> QED BY <3>1
  <2> QED BY <1>6, <2>1
<1> HIDE DEF c
<1>8. /\ r \in Seq(AlignedBlocks)
      /\ Len(r) = n + 1
      /\ \A j \in 1..n : r[j] = bs[j]
      /\ r[n + 1] = c
  BY <1>1, <1>5
<1> HIDE DEF r
<1>9. ASSUME NEW j \in 1..n
      PROVE  End(r[j]) = r[j + 1].addr /\ ~(r[j].free /\ r[j + 1].free)
  <2>1. CASE j = n
    BY <2>1, <1>1, <1>6, <1>8
  <2>2. CASE j # n
    <3>1. j \in 1..(n - 1) /\ j + 1 \in 1..n
      BY <2>2, <1>1
    <3>2. r[j] = bs[j] /\ r[j + 1] = bs[j + 1]
      BY <3>1, <1>8
    <3> QED BY <3>1, <3>2, <1>1 DEF Tiling, NoTwoFree
  <2> QED BY <2>1, <2>2
<1>10. Len(r) - 1 = n /\ Len(r) >= 1
  BY <1>1, <1>8
<1>11. Tiling(r, end + PAGE_SIZE)
  <2>1. 1 \in 1..n /\ bs[1].addr = 0
    BY <1>1 DEF Tiling
  <2>2. r[1].addr = 0
    BY <2>1, <1>8
  <2>3. End(r[Len(r)]) = end + PAGE_SIZE
    BY <1>7, <1>8
  <2> QED BY <1>8, <1>9, <1>10, <2>2, <2>3 DEF Tiling
<1>12. NoTwoFree(r)
  BY <1>9, <1>10 DEF NoTwoFree
<1>13. Used(r) = Used(bs)
  <2>1. \A i \in 1..(n + 1) : i \in 1..n \/ i = n + 1
    BY <1>1
  <2>2. \A i \in 1..n : i \in 1..(n + 1)
    BY <1>1
  <2>3. ASSUME NEW x, ~x.free PROVE InList(r, x) <=> InList(bs, x)
    BY <1>6, <1>8, <2>1, <2>2, <2>3 DEF InList
  <2> QED BY <2>3 DEF Used
<1>14. HeapOK(r, end + PAGE_SIZE, lv)
  BY <1>1, <1>11, <1>12, <1>13 DEF HeapOK
<1> QED BY <1>14 DEF r, c

\* The states of the loop of kmalloc.
Heaps(lv) ==
  {h \in [blocks : Seq(AlignedBlocks), end : Nat, frames : Nat, fault : BOOLEAN] :
     HeapOK(h.blocks, h.end, lv)}

\* A good list of blocks, with any number of pages left, is a good heap.
LEMMA HeapIs ==
  ASSUME NEW bs, NEW end, NEW lv, HeapOK(bs, end, lv), NEW f \in Nat, NEW w \in BOOLEAN
  PROVE  /\ end \in Nat
         /\ [blocks |-> bs, end |-> end, frames |-> f, fault |-> w] \in Heaps(lv)
<1>1. bs \in Seq(AlignedBlocks) /\ Len(bs) \in 1..Len(bs) /\ End(bs[Len(bs)]) = end
  BY DEF HeapOK, Tiling
<1> DEFINE x == bs[Len(bs)].addr
           y == bs[Len(bs)].size
<1>2. x \in Nat /\ y \in Nat /\ end = x + HDR + y /\ HDR \in Nat
  BY <1>1, BlockFacts, Sized
<1> HIDE DEF x, y
<1>3. end \in Nat
  BY <1>2
<1> QED BY <1>1, <1>3 DEF Heaps

\* heap_expand_locked keeps the heap good.
LEMMA ExpandOK ==
  ASSUME NEW lv, NEW h \in Heaps(lv)
  PROVE  heap_expand_locked(h) \in Heaps(lv)
<1> DEFINE need == 1 + Tables(h.end \div PAGE_SIZE)
           last == h.blocks[Len(h.blocks)]
           new  == [addr |-> h.end, size |-> PAGE_SIZE - HDR, free |-> TRUE]
           join == last.free /\ End(last) = h.end
           bs == IF join
                 THEN [h.blocks EXCEPT ![Len(h.blocks)].size = @ + HDR + new.size]
                 ELSE Append(h.blocks, new)
<1>1. /\ h \in [blocks : Seq(AlignedBlocks), end : Nat, frames : Nat, fault : BOOLEAN]
      /\ HeapOK(h.blocks, h.end, lv)
      /\ h = [blocks |-> h.blocks, end |-> h.end, frames |-> h.frames, fault |-> h.fault]
  BY DEF Heaps
<1>2. need \in Nat
  BY DEF Tables
<1>3. heap_expand_locked(h) =
        IF need > h.frames
        THEN [h EXCEPT !.frames = 0, !.fault = TRUE]
        ELSE [h EXCEPT !.frames = @ - need, !.end = @ + PAGE_SIZE, !.blocks = bs]
  BY DEF heap_expand_locked
<1>4. HeapOK(bs, h.end + PAGE_SIZE, lv)
  <2>1. End(last) = h.end
    BY <1>1 DEF HeapOK, Tiling
  <2>2. CASE last.free
    <3>1. new.size = PAGE_SIZE - HDR
      OBVIOUS
    <3>2. bs = [h.blocks EXCEPT ![Len(h.blocks)].size = @ + HDR + (PAGE_SIZE - HDR)]
      BY <2>1, <2>2, <3>1
    <3> QED BY <1>1, <2>2, <3>2, JoinPage
  <2>3. CASE ~last.free
    <3>1. bs = Append(h.blocks, new)
      BY <2>3
    <3> QED BY <1>1, <2>3, <3>1, AppendPage
  <2> QED BY <2>2, <2>3
<1> HIDE DEF need, bs
<1>5. CASE need > h.frames
  <2>1. heap_expand_locked(h)
          = [blocks |-> h.blocks, end |-> h.end, frames |-> 0, fault |-> TRUE]
    BY Zenon, <1>1, <1>3, <1>5
  <2>2. [blocks |-> h.blocks, end |-> h.end, frames |-> 0, fault |-> TRUE] \in Heaps(lv)
    BY Zenon, <1>1, HeapIs
  <2> QED BY <2>1, <2>2
<1>6. CASE ~(need > h.frames)
  <2> DEFINE e == h.end + PAGE_SIZE
             f == h.frames - need
  <2>1. heap_expand_locked(h) = [blocks |-> bs, end |-> e, frames |-> f, fault |-> h.fault]
    BY Zenon, <1>1, <1>3, <1>6
  <2>2. f \in Nat /\ h.fault \in BOOLEAN
    BY <1>1, <1>2, <1>6
  <2> HIDE DEF f, e
  <2>3. HeapOK(bs, e, lv)
    BY <1>4 DEF e
  <2>4. [blocks |-> bs, end |-> e, frames |-> f, fault |-> h.fault] \in Heaps(lv)
    BY <2>2, <2>3, HeapIs
  <2> QED BY <2>1, <2>4
<1> QED BY <1>5, <1>6

\* One turn of the loop, and the heap after n turns.
Turn(h, size) ==
  IF Fitting(h.blocks, size) # {} \/ h.frames = 0 \/ h.fault THEN h ELSE heap_expand_locked(h)

IsGrown(f, now, size) ==
  f = [n \in 0..Frames |-> IF n = 0 THEN now ELSE Turn(f[n - 1], size)]

\* The loop of kmalloc that expands the heap is defined.
LEMMA GrownExists ==
  ASSUME NEW lv, NEW now \in Heaps(lv), NEW size
  PROVE  \E f : IsGrown(f, now, size)
<1> DEFINE T == Heaps(lv)
           F == [p \in (1..Frames) \X T |-> Turn(p[2], size)]
<1>1. \A h \in T : Turn(h, size) \in T
  BY ExpandOK DEF Turn
<1>2. Frames \in Nat /\ now \in T
  BY HeapAssumption
<1> HIDE DEF T
<1>3. F \in [(1..Frames) \X T -> T]
  BY <1>1
<1>4. \A n \in 1..Frames, h \in T : F[<<n, h>>] = Turn(h, size)
  OBVIOUS
<1> HIDE DEF F
<1>5. PICK g \in [0..Frames -> T] : IsLoop(g, Frames, now, F)
  BY <1>2, <1>3, LoopExists
<1>6. DOMAIN g = 0..Frames /\ g[0] = now /\ \A n \in 1..Frames : g[n] = F[<<n, g[n - 1]>>]
  BY <1>5 DEF IsLoop
<1>7. \A n \in 1..Frames : n - 1 \in 0..Frames
  BY <1>2
<1>8. \A n \in 1..Frames : g[n] = Turn(g[n - 1], size)
  BY Zenon, <1>4, <1>5, <1>6, <1>7
<1>9. \A n \in 0..Frames : n = 0 \/ n \in 1..Frames
  BY <1>2
<1>10. g = [n \in 0..Frames |-> IF n = 0 THEN now ELSE Turn(g[n - 1], size)]
  BY <1>5, <1>6, <1>8, <1>9
<1> QED BY Zenon, <1>10 DEF IsGrown

\* The heap is good after every turn of the loop.
LEMMA GrownOK ==
  ASSUME NEW lv, NEW now \in Heaps(lv), NEW size, NEW f, IsGrown(f, now, size)
  PROVE  f[Frames] \in Heaps(lv)
<1> DEFINE T == Heaps(lv)
           S == {n \in Nat : n <= Frames => f[n] \in T}
<1>1. \A h \in T : Turn(h, size) \in T
  BY ExpandOK DEF Turn
<1>2. Frames \in Nat /\ now \in T
  BY HeapAssumption
<1> HIDE DEF T
<1>3. f[0] = now /\ \A n \in 1..Frames : f[n] = Turn(f[n - 1], size)
  <2>1. \A n \in 0..Frames : f[n] = IF n = 0 THEN now ELSE Turn(f[n - 1], size)
    BY Zenon DEF IsGrown
  <2>2. 0 \in 0..Frames /\ \A n \in 1..Frames : n \in 0..Frames /\ n # 0
    BY <1>2
  <2> QED BY <2>1, <2>2
<1>4. 0 \in S
  BY <1>2, <1>3
<1>5. ASSUME NEW n \in Nat, n \in S PROVE n + 1 \in S
  <2> SUFFICES ASSUME n + 1 <= Frames PROVE f[n + 1] \in T
    OBVIOUS
  <2>1. n + 1 \in 1..Frames /\ (n + 1) - 1 = n /\ n <= Frames
    BY <1>2
  <2> QED BY <1>1, <1>3, <1>5, <2>1
<1>6. \A n \in Nat : n \in S => n + 1 \in S
  BY <1>5
<1>7. Nat \subseteq S
  <2> HIDE DEF S
  <2> QED BY <1>4, <1>6, Induction
<1>8. f[Frames] \in T
  BY <1>2, <1>7
<1> QED BY <1>8 DEF T

(***************************************************************************)
(* The inductive invariant: what HeapInv says, with all blocks aligned and *)
(* the allocations of the callers one to one with the blocks in use.       *)
(***************************************************************************)
HeapIInv ==
  /\ HeapOK(blocks, heap_end_virt, live)
  /\ frames \in Nat
  /\ heap_lock \in BOOLEAN
  /\ live \subseteq [ptr : Nat, size : Nat]

\* And so it is when kmalloc stops expanding it.
LEMMA ExpandedOK ==
  ASSUME HeapIInv, NEW size
  PROVE  Expanded(size) \in Heaps(live)
<1> DEFINE now == [blocks |-> blocks, end |-> heap_end_virt, frames |-> frames, fault |-> FALSE]
           f == CHOOSE f : IsGrown(f, now, size)
<1>1. now \in Heaps(live)
  BY Zenon, HeapIs DEF HeapIInv
<1>2. Expanded(size) = f[Frames]
  BY DEF Expanded, IsGrown, Turn
<1> HIDE DEF now
<1>3. IsGrown(f, now, size)
  BY <1>1, GrownExists
<1> HIDE DEF f
<1> QED BY <1>1, <1>2, <1>3, GrownOK

\* Requests are rounded up to a multiple of the alignment.
LEMMA RoundOK ==
  ASSUME NEW request \in Nat
  PROVE  Multiple(Round(request), ALIGN) /\ request <= Round(request)
<1> DEFINE m == (request + ALIGN - 1) \div ALIGN
<1>1. ALIGN \in Nat \ {0}
  BY Sized
<1>2. m \in 0..request /\ Covers(m, request, ALIGN)
  BY <1>1, RoundedUp
<1>3. Round(request) = m * ALIGN
  BY DEF Round
<1> HIDE DEF m
<1>4. m \in Nat /\ m * ALIGN >= request /\ m * ALIGN \in Nat
  BY <1>1, <1>2 DEF Covers
<1>5. request <= m * ALIGN
  BY <1>4
<1> QED BY <1>3, <1>4, <1>5 DEF Multiple

\* heap_init makes one free block.
LEMMA HeapInitInv == HeapInit => HeapIInv
<1> SUFFICES ASSUME HeapInit PROVE HeapIInv
  OBVIOUS
<1> DEFINE e == HEAP_INITIAL_PAGES * PAGE_SIZE
           b == [addr |-> 0, size |-> e - HDR, free |-> TRUE]
<1>1. HEAP_INITIAL_PAGES \in Nat \ {0} /\ Frames \in Nat /\ Frames >= BootFrames
  BY HeapAssumption
<1>2. BootFrames \in Nat
  <2> DEFINE P == {page \in 1..(HEAP_INITIAL_PAGES - 1) : Tables(page) = 1}
  <2>1. IsFiniteSet(P)
    <3>1. IsFiniteSet(1..(HEAP_INITIAL_PAGES - 1))
      BY <1>1, FS_Interval
    <3> QED BY Zenon, <3>1, FS_Subset
  <2>2. Cardinality(P) \in Nat
    BY <2>1, FS_CardinalityType
  <2>3. BootFrames = HEAP_INITIAL_PAGES + Tables(0) + Cardinality(P)
    BY DEF BootFrames
  <2>4. Tables(0) = 3
    BY DEF Tables
  <2> HIDE DEF P
  <2> QED BY <2>2, <2>3, <2>4, <1>1
<1>3. Multiple(e, ALIGN) /\ HDR <= e /\ e \in Nat
  <2>1. PICK k \in Nat : PAGE_SIZE = k * ALIGN
    BY Sized DEF Multiple
  <2>2. ALIGN \in Nat /\ HDR \in Nat /\ PAGE_SIZE \in Nat /\ HDR < PAGE_SIZE
    BY Sized
  <2>3. e = (HEAP_INITIAL_PAGES * k) * ALIGN /\ HEAP_INITIAL_PAGES * k \in Nat
    BY <1>1, <2>1, <2>2
  <2>4. e = (HEAP_INITIAL_PAGES - 1) * PAGE_SIZE + PAGE_SIZE
    BY <1>1, <2>2
  <2>5. (HEAP_INITIAL_PAGES - 1) * PAGE_SIZE \in Nat
    BY <1>1, <2>2
  <2> HIDE DEF e
  <2>6. e \in Nat /\ HDR <= e
    BY <2>2, <2>4, <2>5
  <2> QED BY <2>3, <2>6 DEF Multiple
<1>4. /\ heap_end_virt = e /\ blocks = <<b>> /\ frames = Frames - BootFrames
      /\ heap_lock = FALSE /\ live = {}
  BY DEF HeapInit
<1> HIDE DEF e
<1>5. b \in AlignedBlocks
  <2>1. Multiple(e - HDR, ALIGN)
    BY Zenon, <1>3, Sized, MultipleSum
  <2>2. Multiple(0, ALIGN)
    <3>1. 0 = 0 * ALIGN /\ 0 \in Nat
      BY Sized
    <3> QED BY <3>1 DEF Multiple
  <2> QED BY Zenon, <2>1, <2>2, NewBlock
<1>6. b.addr = 0 /\ b.free /\ End(b) = 0 + HDR + (e - HDR)
  BY DEF End
<1>7. End(b) = e
  <2>1. HDR \in Nat
    BY Sized
  <2> HIDE DEF b
  <2> QED BY <2>1, <1>3, <1>6
<1> HIDE DEF b
<1>8. /\ blocks \in Seq(AlignedBlocks)
      /\ Len(blocks) = 1
      /\ blocks[1] = b
  BY <1>4, <1>5
<1>9. Tiling(blocks, e)
  BY <1>6, <1>7, <1>8 DEF Tiling
<1>10. NoTwoFree(blocks)
  BY <1>8 DEF NoTwoFree
<1>11. Used(blocks) = {}
  BY <1>6, <1>8 DEF Used, InList
<1>12. HeapOK(blocks, heap_end_virt, live)
  BY <1>4, <1>9, <1>10, <1>11 DEF HeapOK, Held
<1>13. frames \in Nat
  BY <1>1, <1>2, <1>4
<1> QED BY Zenon, <1>4, <1>12, <1>13 DEF HeapIInv

\* kmalloc keeps the invariant: when a block fits, when it is split, when the
\* heap grows first, and when memory runs out.
LEMMA KmallocInv ==
  ASSUME HeapIInv, NEW request \in Sizes, kmalloc(request)
  PROVE  HeapIInv'
<1> DEFINE size == Round(request)
           h == Expanded(size)
           fit == Fitting(h.blocks, size)
           i == Min(fit)
<1>1. request \in Nat
  BY HeapAssumption
<1>2. Multiple(size, ALIGN) /\ request <= size
  BY <1>1, RoundOK
<1>3. h \in Heaps(live)
  BY ExpandedOK
<1>4. /\ heap_lock' = h.fault /\ frames' = h.frames /\ heap_end_virt' = h.end
      /\ IF fit # {} /\ ~h.fault
         THEN /\ blocks' = Take(h.blocks, i, size)
              /\ live' = live \cup {[ptr |-> h.blocks[i].addr + HDR, size |-> request]}
         ELSE blocks' = h.blocks /\ live' = live
  BY Zenon DEF kmalloc
<1> HIDE DEF size, h
<1>5. /\ h.blocks \in Seq(AlignedBlocks) /\ h.frames \in Nat /\ h.fault \in BOOLEAN
      /\ HeapOK(h.blocks, h.end, live)
  BY <1>3 DEF Heaps
<1>6. live \subseteq [ptr : Nat, size : Nat]
  BY DEF HeapIInv
<1>7. CASE fit # {} /\ ~h.fault
  <2> DEFINE bs == h.blocks
             new == [ptr |-> bs[i].addr + HDR, size |-> request]
  <2>1. fit = {j \in 1..Len(bs) : Fits(bs[j], size)}
    BY Zenon DEF Fitting
  <2>2. i \in fit
    <3> HIDE DEF fit, bs
    <3>1. fit \subseteq Nat
      BY <2>1
    <3>2. \E x \in fit : \A y \in fit : x <= y
      BY Zenon, <1>7, <3>1, LeastMember
    <3> QED BY <3>2 DEF Min
  <2> HIDE DEF i, bs
  <2>3. i \in 1..Len(bs) /\ bs[i].free /\ bs[i].size >= size
    BY <2>1, <2>2 DEF Fits
  <2>4. bs[i].addr \in Nat /\ bs[i].size \in Nat
    <3>1. bs \in Seq(AlignedBlocks)
      BY <1>5 DEF bs
    <3> QED BY <2>3, <3>1, BlockFacts
  <2>5. size \in Nat
    BY Zenon, <1>2, Sized, MultipleSum
  <2>6. size <= bs[i].size
    <3> DEFINE y == bs[i].size
    <3>1. y \in Nat /\ y >= size
      BY <2>3, <2>4
    <3> HIDE DEF y
    <3>2. size <= y
      BY <3>1, <2>5
    <3> QED BY <3>2 DEF y
  <2>7. HeapOK(Take(bs, i, size), h.end, live \cup {new})
    <3>1. HeapOK(bs, h.end, live)
      BY <1>5 DEF bs
    <3> QED BY Zenon, <1>1, <1>2, <2>3, <2>6, <3>1, TakeOK
  <2>8. blocks' = Take(bs, i, size) /\ live' = live \cup {new}
    BY <1>4, <1>7 DEF bs
  <2>9. new \in [ptr : Nat, size : Nat]
    <3> DEFINE x == bs[i].addr
    <3>1. x \in Nat /\ HDR \in Nat
      BY <2>4, Sized
    <3>2. x + HDR \in Nat
      <4> HIDE DEF x
      <4> QED BY <3>1
    <3> QED BY <3>2, <1>1
  <2> HIDE DEF new
  <2>10. live' \subseteq [ptr : Nat, size : Nat]
    BY <1>6, <2>8, <2>9
  <2>11. HeapOK(blocks', heap_end_virt', live')
    BY <1>4, <2>7, <2>8
  <2> QED BY Zenon, <1>4, <1>5, <2>10, <2>11 DEF HeapIInv
<1>8. CASE ~(fit # {} /\ ~h.fault)
  <2>1. blocks' = h.blocks /\ live' = live
    BY <1>4, <1>8
  <2> HIDE DEF fit
  <2> QED BY <1>4, <1>5, <1>6, <2>1 DEF HeapIInv
<1> QED BY <1>7, <1>8

\* kfree of a held allocation keeps the invariant.
LEMMA KfreeInv ==
  ASSUME HeapIInv, NEW m \in live, kfree(m.ptr)
  PROVE  HeapIInv'
<1>1. PICK i \in 1..Len(blocks) : blocks[i].addr + HDR = m.ptr /\ blocks' = Release(blocks, i)
  BY DEF kfree
<1>2. /\ live' = {x \in live : x.ptr # m.ptr}
      /\ heap_end_virt' = heap_end_virt /\ frames' = frames /\ heap_lock' = heap_lock
  BY DEF kfree
<1>3. HeapOK(Release(blocks, i), heap_end_virt, {x \in live : x.ptr # m.ptr})
  BY <1>1, ReleaseOK DEF HeapIInv
<1> QED BY <1>1, <1>2, <1>3 DEF HeapIInv

\* Every step keeps the invariant.
LEMMA HeapNextInv == HeapIInv /\ [HeapNext]_heapVars => HeapIInv'
<1> SUFFICES ASSUME HeapIInv, [HeapNext]_heapVars PROVE HeapIInv'
  OBVIOUS
<1>1. ASSUME NEW size \in Sizes, kmalloc(size) PROVE HeapIInv'
  BY <1>1, KmallocInv
<1>2. ASSUME NEW m \in live, kfree(m.ptr) PROVE HeapIInv'
  BY <1>2, KfreeInv
<1>3. CASE pmm_alloc_page
  <2>1. frames' \in Nat
    BY <1>3 DEF pmm_alloc_page, HeapIInv
  <2>2. blocks' = blocks /\ heap_end_virt' = heap_end_virt /\ heap_lock' = heap_lock /\ live' = live
    BY <1>3 DEF pmm_alloc_page
  <2> QED BY <2>1, <2>2 DEF HeapIInv
<1>4. CASE UNCHANGED heapVars
  BY <1>4 DEF heapVars, HeapIInv
<1> QED BY <1>1, <1>2, <1>3, <1>4 DEF HeapNext

\* Two sets with a one-to-one correspondence are equally large.
LEMMA SameCount ==
  ASSUME NEW S, IsFiniteSet(S), NEW T, NEW f \in [S -> T],
         \A x, y \in S : f[x] = f[y] => x = y, \A t \in T : \E x \in S : f[x] = t
  PROVE  Cardinality(T) = Cardinality(S)
<1>1. f \in Bijection(S, T)
  BY DEF Bijection, Injection, Surjection, IsInjective
<1> QED BY <1>1, FS_Bijection DEF ExistsBijection

\* The invariant gives the two properties of the run.
LEMMA HeapIInvInv == HeapIInv => HeapInv
<1> SUFFICES ASSUME HeapIInv PROVE HeapInv
  OBVIOUS
<1>1. Tiling(blocks, heap_end_virt) /\ NoTwoFree(blocks)
  BY DEF HeapIInv, HeapOK
<1>2. heap_end_virt \in Nat
  BY Zenon, HeapIs DEF HeapIInv
<1>3. blocks \in Seq(AlignedBlocks) /\ AlignedBlocks \subseteq Blocks
  BY <1>1 DEF Tiling, AlignedBlocks
<1>4. blocks \in Seq(Blocks) /\ blocks # <<>>
  <2>1. blocks \in Seq(Blocks)
    BY <1>3
  <2>2. Len(blocks) >= 1
    BY <1>1 DEF Tiling
  <2> QED BY <2>1, <2>2
<1>5. HeapTypeOK
  BY <1>2, <1>4 DEF HeapTypeOK, HeapIInv
<1>6. Tiled
  BY <1>1, <1>4 DEF Tiled, Tiling
<1>7. Coalesced
  BY <1>1 DEF Coalesced, NoTwoFree
<1> QED BY <1>5, <1>6, <1>7 DEF HeapInv

\* The one-to-one correspondence gives equal numbers.
LEMMA HeapIInvInUse == HeapIInv => InUseIsLive
<1> SUFFICES ASSUME HeapIInv PROVE InUseIsLive
  OBVIOUS
<1> DEFINE n == Len(blocks)
           J == {j \in 1..n : ~blocks[j].free}
           U == {blocks[i] : i \in J}
           f == [j \in J |-> blocks[j]]
           g == [j \in J |-> CHOOSE m \in live : m.ptr = blocks[j].addr + HDR]
<1>1. Tiling(blocks, heap_end_virt) /\ Held(Used(blocks), live)
  BY DEF HeapIInv, HeapOK
<1>2. blocks \in Seq(AlignedBlocks) /\ n \in Nat
  BY <1>1 DEF Tiling
<1>3. Used(blocks) = U
  BY <1>2 DEF Used, InList
<1>4. IsFiniteSet(J)
  <2>1. IsFiniteSet(1..n)
    BY <1>2, FS_Interval
  <2> QED BY <2>1, FS_Subset
<1>5. \A i, j \in J : blocks[i].addr = blocks[j].addr => i = j
  BY <1>1, OwnAddress
<1>6. Cardinality(U) = Cardinality(J)
  <2>1. f \in [J -> U]
    OBVIOUS
  <2>2. \A i, j \in J : f[i] = f[j] => i = j
    BY <1>5
  <2>3. \A b \in U : \E j \in J : f[j] = b
    OBVIOUS
  <2> HIDE DEF f, J, U
  <2> QED BY <1>4, <2>1, <2>2, <2>3, SameCount
<1>7. Cardinality(live) = Cardinality(J)
  <2>1. ASSUME NEW j \in J PROVE \E m \in live : m.ptr = blocks[j].addr + HDR
    <3>1. blocks[j] \in Used(blocks)
      BY <1>3
    <3> QED BY <1>1, <3>1 DEF Held
  <2>2. \A j \in J : g[j] \in live /\ g[j].ptr = blocks[j].addr + HDR
    BY <2>1
  <2>3. g \in [J -> live]
    BY Zenon, <2>2
  <2>4. ASSUME NEW i \in J, NEW j \in J, g[i] = g[j] PROVE i = j
    <3> DEFINE x == blocks[i].addr
               y == blocks[j].addr
    <3>1. blocks[i] \in AlignedBlocks /\ blocks[j] \in AlignedBlocks
      BY <1>2
    <3>2. x \in Nat /\ y \in Nat /\ HDR \in Nat
      BY <3>1, BlockFacts, Sized
    <3>3. x + HDR = y + HDR
      BY Zenon, <2>2, <2>4
    <3>4. x = y
      <4> HIDE DEF x, y, g
      <4> QED BY <3>2, <3>3
    <3> QED BY <1>5, <3>4
  <2>5. ASSUME NEW m \in live PROVE \E j \in J : g[j] = m
    <3>1. PICK b \in U : b.addr + HDR = m.ptr
      BY <1>1, <1>3 DEF Held
    <3>2. PICK j \in J : blocks[j] = b
      OBVIOUS
    <3>3. g[j].ptr = m.ptr /\ g[j] \in live
      BY <2>2, <3>1, <3>2
    <3> HIDE DEF g
    <3>4. g[j] = m
      BY <1>1, <3>3 DEF Held
    <3> QED BY <3>4
  <2> HIDE DEF g, J
  <2> QED BY <1>4, <2>3, <2>4, <2>5, SameCount
<1>8. ASSUME NEW m \in live
      PROVE  \E b \in U : b.addr + HDR = m.ptr /\ b.size >= m.size /\ m.ptr % ALIGN = 0
  <2>1. PICK b \in U : b.addr + HDR = m.ptr /\ b.size >= m.size
    BY <1>1, <1>3 DEF Held
  <2>2. b \in AlignedBlocks
    BY <1>2
  <2>3. Multiple(b.addr, ALIGN) /\ Multiple(HDR, ALIGN) /\ ALIGN \in Nat \ {0}
    BY <2>2, BlockFacts, Sized
  <2>4. Multiple(m.ptr, ALIGN) /\ m.ptr \in Nat
    <3>1. Multiple(b.addr + HDR, ALIGN) /\ b.addr \in Nat /\ HDR \in Nat
      BY <2>3, MultipleSum
    <3>2. b.addr + HDR \in Nat
      BY <3>1
    <3> QED BY Zenon, <2>1, <3>1, <3>2
  <2>5. m.ptr % ALIGN = 0
    BY <2>3, <2>4, MultipleIs
  <2> QED BY <2>1, <2>5
<1> HIDE DEF J
<1> QED BY <1>6, <1>7, <1>8 DEF InUseIsLive, J

-----------------------------------------------------------------------------

\* The invariant holds whatever is allocated and freed, also when kmalloc
\* grows the heap and when memory runs out on the way.
THEOREM HeapAlways == HeapSpec => []HeapIInv
<1> QED BY HeapInitInv, HeapNextInv, PTL DEF HeapSpec

\* The list of blocks of vmm.c tiles the heap up to heap_end_virt, and no two
\* neighbours are free: merging without a look at the addresses is right.
THEOREM HeapCorrect == HeapSpec => []HeapInv
<1> QED BY HeapAlways, HeapIInvInv, PTL

\* The blocks in use are those that kmalloc has returned and kfree has not had
\* back, aligned and as large as was asked for.
THEOREM AllocationsHeld == HeapSpec => []InUseIsLive
<1> QED BY HeapAlways, HeapIInvInUse, PTL
=============================================================================
