------------------------- MODULE ReadyListPmmProofs -------------------------
(***************************************************************************)
(* Proofs about two data structures of the kernel that rest on no other    *)
(* module: the pointer list of scheduler.c and the free pages of pmm.c.    *)
(*                                                                         *)
(* ReadyList, for any sets of threads: until elf.c adds a thread twice the *)
(* thread_t.next pointers have no cycle, so that every walk to the tail    *)
(* ends, and the list implements the queue of module ReadyQueue.           *)
(*                                                                         *)
(* Pmm, for every page size, memory map and size of free_stack: no page    *)
(* has two owners, every page is usable memory, and none is lost after     *)
(* pmm_init.  The invariant adds to these how far pmm_init has come (the   *)
(* pages of entries still to be scanned are on no list), and that          *)
(* free_stack has room for every page in use.                              *)
(***************************************************************************)
EXTENDS ReadyList, Pmm, ListFacts, FiniteSetTheorems, SequenceTheorems

\* Where a pointer that has come to place k of q points.
Place(q, k) == IF k \in 1..Len(q) THEN q[k] ELSE NULL

\* The threads met from pointer p on are those of q, and after them NULL.
Chain(l, p, q) ==
  /\ q \in Seq(Threads)
  /\ p = Place(q, 1)
  /\ \A k \in 1..Len(q) : l.next[q[k]] = Place(q, k + 1)

\* What is assumed of the threads.
LEMMA ThreadFacts ==
  /\ IsFiniteSet(Threads) /\ Cardinality(Threads) \in Nat
  /\ NULL \notin Threads /\ idle \in Threads /\ idle \notin Workers
  /\ Workers \subseteq Threads /\ \A t \in Threads : t \in Workers \/ t = idle
<1>1. IsFiniteSet(Threads)
  BY ListAssumption, FS_AddElement DEF Threads
<1>2. Cardinality(Threads) \in Nat
  BY <1>1, FS_CardinalityType
<1> QED BY <1>1, <1>2, ListAssumption DEF Threads

\* The loop of Walk: it exists, and walks along the chain.
StepFrom(l, p) == IF p = NULL THEN NULL ELSE l.next[p]

IsWalk(f, l, p, n) == f = [k \in 0..n |-> IF k = 0 THEN p ELSE StepFrom(l, f[k - 1])]

\* The recursive function of Walk is defined.
LEMMA WalkExists ==
  ASSUME NEW l \in Links, NEW p \in Pointers, NEW N \in Nat
  PROVE  \E f : IsWalk(f, l, p, N)
<1> DEFINE F == [a \in (1..N) \X Pointers |-> StepFrom(l, a[2])]
<1>1. \A q \in Pointers : StepFrom(l, q) \in Pointers
  BY DEF StepFrom, Pointers, Links
<1>2. F \in [(1..N) \X Pointers -> Pointers]
  BY <1>1
<1>3. \A n \in 1..N, q \in Pointers : F[<<n, q>>] = StepFrom(l, q)
  OBVIOUS
<1> HIDE DEF F
<1>4. PICK g \in [0..N -> Pointers] : IsLoop(g, N, p, F)
  BY <1>2, LoopExists
<1>5. DOMAIN g = 0..N /\ g[0] = p /\ \A n \in 1..N : g[n] = F[<<n, g[n - 1]>>]
  BY <1>4 DEF IsLoop
<1>6. \A n \in 1..N : n - 1 \in 0..N
  OBVIOUS
<1>7. \A n \in 1..N : g[n] = StepFrom(l, g[n - 1])
  BY Zenon, <1>3, <1>4, <1>5, <1>6
<1>8. \A n \in 0..N : n = 0 \/ n \in 1..N
  OBVIOUS
<1>9. g = [n \in 0..N |-> IF n = 0 THEN p ELSE StepFrom(l, g[n - 1])]
  BY <1>4, <1>5, <1>7, <1>8
<1> QED BY Zenon, <1>9 DEF IsWalk

\* Along a chain, a walk meets its threads in order, and then NULL.
LEMMA WalkFollows ==
  ASSUME NEW l, NEW p, NEW N \in Nat, NEW q, Chain(l, p, q), NEW f, IsWalk(f, l, p, N)
  PROVE  \A k \in 0..N : f[k] = Place(q, k + 1)
<1> DEFINE S == {k \in Nat : k <= N => f[k] = Place(q, k + 1)}
<1>1. /\ q \in Seq(Threads) /\ Len(q) \in Nat /\ p = Place(q, 1)
      /\ \A k \in 1..Len(q) : q[k] \in Threads /\ l.next[q[k]] = Place(q, k + 1)
  BY DEF Chain
<1>2. f[0] = p /\ \A k \in 1..N : f[k] = StepFrom(l, f[k - 1])
  <2>1. \A k \in 0..N : f[k] = IF k = 0 THEN p ELSE StepFrom(l, f[k - 1])
    BY Zenon DEF IsWalk
  <2>2. 0 \in 0..N /\ \A k \in 1..N : k \in 0..N /\ k # 0
    OBVIOUS
  <2> QED BY <2>1, <2>2
<1>3. 0 \in S
  BY <1>1, <1>2
<1>4. ASSUME NEW k \in Nat, k \in S, k + 1 <= N PROVE f[k + 1] = Place(q, k + 2)
  <2>1. f[k] = Place(q, k + 1) /\ k + 1 \in 1..N /\ (k + 1) - 1 = k
    BY <1>4
  <2>2. f[k + 1] = StepFrom(l, Place(q, k + 1))
    BY <2>1, <1>2
  <2>3. CASE k + 1 \in 1..Len(q)
    <3>1. Place(q, k + 1) = q[k + 1] /\ q[k + 1] # NULL
      BY <2>3, <1>1, ThreadFacts DEF Place
    <3>2. l.next[q[k + 1]] = Place(q, (k + 1) + 1)
      BY <2>3, <1>1
    <3>3. (k + 1) + 1 = k + 2
      OBVIOUS
    <3> QED BY <2>2, <3>1, <3>2, <3>3 DEF StepFrom
  <2>4. CASE k + 1 \notin 1..Len(q)
    <3>1. k + 2 \notin 1..Len(q)
      BY <2>4, <1>1
    <3> QED BY <2>2, <2>4, <3>1 DEF Place, StepFrom
  <2> QED BY <2>3, <2>4
<1>5. \A k \in Nat : k \in S => k + 1 \in S
  <2>1. \A k \in Nat : (k + 1) + 1 = k + 2 /\ (k + 1 <= N => k <= N)
    OBVIOUS
  <2> QED BY <1>4, <2>1
<1>6. Nat \subseteq S
  <2> HIDE DEF S
  <2> QED BY <1>3, <1>5, Induction
<1> QED BY <1>6

\* A chain is what Walk returns if it may go far enough.
LEMMA WalkIsChain ==
  ASSUME NEW l \in Links, NEW p \in Pointers, NEW N \in Nat, NEW q, Chain(l, p, q), Len(q) <= N
  PROVE  Walk(l, p, N) = q
<1> DEFINE W == CHOOSE f : IsWalk(f, l, p, N)
           r == [k \in {i \in 1..N : W[i - 1] # NULL} |-> W[k - 1]]
<1>1. Walk(l, p, N) = r
  BY Zenon DEF Walk, IsWalk, StepFrom
<1>2. IsWalk(W, l, p, N)
  <2>1. \E f : IsWalk(f, l, p, N)
    BY Zenon, WalkExists
  <2> QED BY Zenon, <2>1
<1> HIDE DEF W
<1>3. \A k \in 0..N : W[k] = Place(q, k + 1)
  BY <1>2, WalkFollows
<1>4. /\ q \in Seq(Threads) /\ Len(q) \in Nat /\ q = [k \in 1..Len(q) |-> q[k]]
      /\ \A k \in 1..Len(q) : q[k] \in Threads /\ q[k] # NULL
  BY ThreadFacts DEF Chain
<1>5. \A k \in 1..N : W[k - 1] = Place(q, k)
  <2>1. \A k \in 1..N : k - 1 \in 0..N /\ (k - 1) + 1 = k
    OBVIOUS
  <2> QED BY <1>3, <2>1
<1>6. {i \in 1..N : W[i - 1] # NULL} = 1..Len(q)
  BY <1>4, <1>5 DEF Place
<1>7. \A k \in 1..Len(q) : W[k - 1] = q[k]
  BY <1>4, <1>5 DEF Place
<1> QED BY <1>1, <1>4, <1>6, <1>7

\* A list without repetition is no longer than there are threads.
LEMMA ListBound ==
  ASSUME NEW q \in Seq(Threads), \A i, j \in 1..Len(q) : q[i] = q[j] => i = j
  PROVE  Len(q) \in Nat /\ Len(q) <= Cardinality(Threads)
<1> DEFINE n == Len(q)
<1>1. n \in Nat /\ q \in [1..n -> Threads]
  OBVIOUS
<1>2. SUFFICES ASSUME Cardinality(Threads) < n PROVE FALSE
  BY <1>1, ThreadFacts
<1>3. IsFiniteSet(1..n) /\ Cardinality(1..n) = n
  <2>1. IsFiniteSet(1..n) /\ Cardinality(1..n) = IF 1 > n THEN 0 ELSE n - 1 + 1
    BY <1>1, FS_Interval
  <2> QED BY <2>1, <1>1
<1> HIDE DEF n
<1>4. \E x, y \in 1..n : x # y /\ q[x] = q[y]
  BY <1>1, <1>2, <1>3, ThreadFacts, FS_PigeonHole
<1> QED BY <1>4 DEF n

-----------------------------------------------------------------------------

(***************************************************************************)
(* Lists without cycles.  Every pointer leads to a thread of lower rank.   *)
(***************************************************************************)

Sinks(l, rank) == \A t \in Threads : l.next[t] # NULL => rank[l.next[t]] < rank[t]

Acyclic(l) == \E rank \in [Threads -> Nat] : Sinks(l, rank)

Falling(q, rank) == \A i, j \in 1..Len(q) : i < j => rank[q[j]] < rank[q[i]]

\* A thread in front of a chain, and a chain without its first thread.
LEMMA ChainPush ==
  ASSUME NEW l \in Links, NEW p \in Threads, NEW q, Chain(l, l.next[p], q)
  PROVE  Chain(l, p, <<p>> \o q)
<1> DEFINE r == <<p>> \o q
           n == Len(q)
<1>1. /\ q \in Seq(Threads) /\ n \in Nat /\ l.next[p] = Place(q, 1)
      /\ \A k \in 1..n : l.next[q[k]] = Place(q, k + 1)
  BY DEF Chain
<1>2. /\ r \in Seq(Threads) /\ Len(r) = n + 1 /\ r[1] = p
      /\ \A k \in 2..(n + 1) : r[k] = q[k - 1]
  BY <1>1
<1> HIDE DEF r
<1>3. \A k \in Nat \ {0} : Place(r, k + 1) = Place(q, k)
  <2> SUFFICES ASSUME NEW k \in Nat \ {0} PROVE Place(r, k + 1) = Place(q, k)
    OBVIOUS
  <2>1. CASE k \in 1..n
    <3>1. k + 1 \in 2..(n + 1) /\ k + 1 \in 1..Len(r) /\ (k + 1) - 1 = k
      BY <2>1, <1>1, <1>2
    <3> QED BY <2>1, <3>1, <1>2 DEF Place
  <2>2. CASE k \notin 1..n
    <3>1. k + 1 \notin 1..Len(r)
      BY <2>2, <1>1, <1>2
    <3> QED BY <2>2, <3>1 DEF Place
  <2> QED BY <2>1, <2>2
<1>4. p = Place(r, 1)
  BY <1>1, <1>2 DEF Place
<1>5. ASSUME NEW k \in 1..Len(r) PROVE l.next[r[k]] = Place(r, k + 1)
  <2>1. CASE k = 1
    <3>1. r[k] = p /\ k \in Nat \ {0} /\ l.next[p] = Place(q, k)
      BY <2>1, <1>1, <1>2
    <3> QED BY Zenon, <3>1, <1>3
  <2>2. CASE k # 1
    <3>1. k \in 2..(n + 1) /\ k - 1 \in 1..n /\ (k - 1) + 1 = k /\ k \in Nat \ {0}
      BY <2>2, <1>1, <1>2
    <3>2. l.next[q[k - 1]] = Place(q, k)
      BY <3>1, <1>1
    <3> QED BY Zenon, <3>1, <3>2, <1>2, <1>3
  <2> QED BY <2>1, <2>2
<1>6. Chain(l, p, r)
  BY <1>2, <1>4, <1>5 DEF Chain
<1> QED BY <1>6 DEF r

\* A chain without its first thread starts where that one points.
LEMMA ChainPop ==
  ASSUME NEW l, NEW p, NEW q, Chain(l, p, q), q # <<>>
  PROVE  p = Head(q) /\ p \in Threads /\ Chain(l, l.next[p], Tail(q))
<1> DEFINE r == Tail(q)
           n == Len(q)
<1>1. /\ q \in Seq(Threads) /\ n \in Nat \ {0} /\ p = Place(q, 1)
      /\ \A k \in 1..n : l.next[q[k]] = Place(q, k + 1)
  BY DEF Chain
<1>2. p = Head(q) /\ p = q[1] /\ p \in Threads
  BY <1>1 DEF Place
<1>3. /\ r \in Seq(Threads) /\ Len(r) = n - 1
      /\ \A k \in 1..(n - 1) : r[k] = q[k + 1]
  BY <1>1
<1> HIDE DEF r
<1>4. \A k \in Nat \ {0} : Place(q, k + 1) = Place(r, k)
  BY <1>1, <1>3 DEF Place
<1>5. l.next[p] = Place(r, 1)
  <2>1. 1 \in 1..n /\ 1 \in Nat \ {0}
    BY <1>1
  <2> QED BY <2>1, <1>1, <1>2, <1>4
<1>6. ASSUME NEW k \in 1..Len(r) PROVE l.next[r[k]] = Place(r, k + 1)
  <2>1. k + 1 \in 1..n /\ k \in 1..(n - 1) /\ k + 1 \in Nat \ {0}
    BY <1>1, <1>3
  <2> QED BY Zenon, <2>1, <1>1, <1>3, <1>4
<1>7. Chain(l, l.next[p], r)
  BY <1>3, <1>5, <1>6 DEF Chain
<1> QED BY <1>2, <1>7 DEF r

\* Chains depend on the pointers of their threads only.
LEMMA ChainSame ==
  ASSUME NEW l, NEW k, NEW p, NEW q, Chain(l, p, q),
         \A i \in 1..Len(q) : k.next[q[i]] = l.next[q[i]]
  PROVE  Chain(k, p, q)
BY DEF Chain

\* In a list without cycles every walk ends, and meets no thread twice.
LEMMA WalksEnd ==
  ASSUME NEW l \in Links, NEW rank \in [Threads -> Nat], Sinks(l, rank), NEW p \in Pointers
  PROVE  \E q : Chain(l, p, q) /\ Falling(q, rank)
<1> DEFINE G(x) == \E q : Chain(l, x, q) /\ Falling(q, rank)
           S == {n \in Nat : \A x \in Threads : rank[x] < n => G(x)}
<1>1. G(NULL)
  <2>1. Chain(l, NULL, <<>>) /\ Falling(<<>>, rank)
    BY DEF Chain, Place, Falling
  <2> QED BY <2>1
<1>2. ASSUME NEW x \in Threads, G(l.next[x]) PROVE G(x)
  <2>1. PICK q : Chain(l, l.next[x], q) /\ Falling(q, rank)
    BY <1>2
  <2> DEFINE r == <<x>> \o q
             n == Len(q)
  <2>2. Chain(l, x, r)
    BY <2>1, ChainPush
  <2>3. /\ q \in Seq(Threads) /\ n \in Nat /\ l.next[x] = Place(q, 1)
        /\ \A i \in 1..n : q[i] \in Threads /\ rank[q[i]] \in Nat
    BY <2>1 DEF Chain
  <2>4. \A i \in 1..n : rank[q[i]] < rank[x]
    <3> SUFFICES ASSUME NEW i \in 1..n PROVE rank[q[i]] < rank[x]
      OBVIOUS
    <3>1. 1 \in 1..n /\ l.next[x] = q[1] /\ q[1] # NULL
      BY <2>3, ThreadFacts DEF Place
    <3>2. rank[q[1]] < rank[x]
      BY <3>1 DEF Sinks
    <3>3. i = 1 \/ rank[q[i]] < rank[q[1]]
      BY <2>1, <3>1 DEF Falling
    <3>4. rank[q[i]] \in Nat /\ rank[q[1]] \in Nat /\ rank[x] \in Nat
      BY <2>3, <3>1
    <3> QED BY <3>2, <3>3, <3>4
  <2>5. /\ Len(r) = n + 1 /\ r[1] = x
        /\ \A k \in 2..(n + 1) : r[k] = q[k - 1]
    BY <2>3
  <2> HIDE DEF r
  <2>6. ASSUME NEW i \in 1..Len(r), NEW j \in 1..Len(r), i < j PROVE rank[r[j]] < rank[r[i]]
    <3>1. j \in 2..(n + 1) /\ j - 1 \in 1..n /\ r[j] = q[j - 1]
      BY <2>3, <2>5, <2>6
    <3>2. CASE i = 1
      BY <3>1, <3>2, <2>4, <2>5
    <3>3. CASE i # 1
      <4>1. i \in 2..(n + 1) /\ i - 1 \in 1..n /\ r[i] = q[i - 1] /\ i - 1 < j - 1
        BY <3>1, <3>3, <2>3, <2>5, <2>6
      <4> QED BY <3>1, <4>1, <2>1 DEF Falling
    <3> QED BY <3>2, <3>3
  <2>7. Falling(r, rank)
    BY <2>6 DEF Falling
  <2> QED BY <2>2, <2>7
<1> HIDE DEF G
<1>3. 0 \in S
  OBVIOUS
<1>4. ASSUME NEW n \in Nat, n \in S, NEW x \in Threads, rank[x] < n + 1 PROVE G(x)
  <2>1. l.next[x] \in Pointers
    BY DEF Links
  <2>2. CASE l.next[x] = NULL
    BY <2>2, <1>1, <1>2
  <2>3. CASE l.next[x] # NULL
    <3>1. l.next[x] \in Threads /\ rank[l.next[x]] < rank[x]
      BY <2>1, <2>3 DEF Sinks, Pointers
    <3>2. rank[l.next[x]] < n
      BY <3>1, <1>4
    <3>3. G(l.next[x])
      BY <3>1, <3>2, <1>4
    <3> QED BY <3>3, <1>2
  <2> QED BY <2>2, <2>3
<1>5. \A n \in Nat : n \in S => n + 1 \in S
  BY <1>4
<1>6. Nat \subseteq S
  <2> HIDE DEF S
  <2> QED BY <1>3, <1>5, Induction
<1>7. G(p)
  <2>1. CASE p = NULL
    BY <2>1, <1>1
  <2>2. CASE p # NULL
    <3>1. p \in Threads /\ rank[p] \in Nat
      BY <2>2 DEF Pointers
    <3>2. rank[p] + 1 \in Nat /\ rank[p] < rank[p] + 1
      BY <3>1
    <3> QED BY <3>1, <3>2, <1>6
  <2> QED BY <2>1, <2>2
<1> QED BY <1>7 DEF G

\* So no walk goes on for ever.
LEMMA AcyclicTerminates ==
  ASSUME NEW l \in Links, Acyclic(l), NEW p \in Pointers
  PROVE  Len(Walk(l, p, Cardinality(Threads) + 1)) <= Cardinality(Threads)
<1>1. PICK rank \in [Threads -> Nat] : Sinks(l, rank)
  BY DEF Acyclic
<1>2. PICK q : Chain(l, p, q) /\ Falling(q, rank)
  BY <1>1, WalksEnd
<1>3. q \in Seq(Threads) /\ Len(q) \in Nat /\ \A i \in 1..Len(q) : rank[q[i]] \in Nat
  BY <1>1, <1>2 DEF Chain
<1>4. \A i, j \in 1..Len(q) : q[i] = q[j] => i = j
  <2> SUFFICES ASSUME NEW i \in 1..Len(q), NEW j \in 1..Len(q), q[i] = q[j], i # j PROVE FALSE
    OBVIOUS
  <2>1. i < j \/ j < i
    BY <1>3
  <2>2. rank[q[i]] < rank[q[j]] \/ rank[q[j]] < rank[q[i]]
    BY <2>1, <1>2 DEF Falling
  <2> QED BY <2>2, <1>3
<1>5. Len(q) <= Cardinality(Threads)
  BY <1>3, <1>4, ListBound
<1> DEFINE N == Cardinality(Threads) + 1
<1>6. N \in Nat /\ Len(q) <= N
  BY <1>3, <1>5, ThreadFacts
<1> HIDE DEF N
<1>7. Walk(l, p, N) = q
  BY <1>2, <1>6, WalkIsChain
<1> QED BY <1>5, <1>7 DEF N

-----------------------------------------------------------------------------

(***************************************************************************)
(* The list links the threads R once, in the order of q, and no pointer    *)
(* leads to a thread outside B: those that were created.                   *)
(***************************************************************************)
GoodList(l, q, R, B) ==
  /\ l \in Links
  /\ Acyclic(l)
  /\ Chain(l, l.head, q)
  /\ Lists(q, R)
  /\ R \subseteq B /\ B \subseteq Threads
  /\ \A x \in Threads : l.next[x] = NULL \/ l.next[x] \in B

\* The walk from the head of a good list meets exactly q, and ends.
LEMMA GoodLinked ==
  ASSUME NEW l, NEW q, NEW R, NEW B, GoodList(l, q, R, B)
  PROVE  Linked(l) = q /\ Ends(l) /\ q \in Seq(Threads) /\ Len(q) \in Nat
<1>1. /\ l \in Links /\ l.head \in Pointers /\ Chain(l, l.head, q)
      /\ q \in Seq(Threads) /\ Len(q) \in Nat
      /\ \A i, j \in 1..Len(q) : q[i] = q[j] => i = j
  BY DEF GoodList, Chain, Lists, Links
<1>2. Len(q) <= Cardinality(Threads)
  BY <1>1, ListBound
<1> DEFINE N == Cardinality(Threads) + 1
<1>3. N \in Nat /\ Len(q) <= N
  BY <1>1, <1>2, ThreadFacts
<1> HIDE DEF N
<1>4. Walk(l, l.head, N) = q
  BY <1>1, <1>3, WalkIsChain
<1>5. Linked(l) = q
  BY <1>4 DEF Linked, N
<1> QED BY <1>1, <1>2, <1>5 DEF Ends

\* The threads of a good list.
LEMMA GoodMembers ==
  ASSUME NEW l, NEW q, NEW R, NEW B, GoodList(l, q, R, B)
  PROVE  /\ \A i \in 1..Len(q) : q[i] \in R
         /\ \A x \in R : \E i \in 1..Len(q) : q[i] = x
         /\ l.head \in R \cup {NULL} /\ (l.head = NULL <=> q = <<>>)
<1>1. /\ q \in Seq(R) /\ \A x \in R : \E i \in 1..Len(q) : q[i] = x
      /\ l.head = Place(q, 1) /\ R \subseteq Threads
  BY Zenon DEF GoodList, Lists, Chain
<1>2. Len(q) \in Nat /\ \A i \in 1..Len(q) : q[i] \in R /\ q[i] # NULL
  BY <1>1, ThreadFacts
<1>3. q = <<>> <=> Len(q) = 0
  BY <1>1
<1>4. CASE 1 \in 1..Len(q)
  BY <1>1, <1>2, <1>3, <1>4 DEF Place
<1>5. CASE 1 \notin 1..Len(q)
  BY <1>1, <1>2, <1>3, <1>5 DEF Place
<1> QED BY <1>1, <1>2, <1>4, <1>5

\* scheduler_add_thread of a new thread, to which no pointer leads.
LEMMA PushGood ==
  ASSUME NEW l, NEW q, NEW R, NEW B, GoodList(l, q, R, B), NEW t \in Threads, t \notin B
  PROVE  GoodList(Push(l, t), <<t>> \o q, R \cup {t}, B \cup {t})
<1> DEFINE k == Push(l, t)
<1>1. /\ l \in Links /\ l.head \in Pointers /\ l.next \in [Threads -> Pointers]
      /\ R \subseteq B /\ B \subseteq Threads
  BY DEF GoodList, Links
<1>2. /\ k \in Links /\ k.head = t /\ k.next[t] = l.head
      /\ \A x \in Threads : x # t => k.next[x] = l.next[x]
  BY <1>1 DEF Push, Links, Pointers
<1> HIDE DEF k
<1>3. l.head # t /\ l.head \in B \cup {NULL} /\ \A i \in 1..Len(q) : q[i] \in Threads /\ q[i] # t
  BY <1>1, ThreadFacts, GoodMembers
<1>4. Chain(k, t, <<t>> \o q)
  <2>1. Chain(k, l.head, q)
    BY <1>2, <1>3, ChainSame DEF GoodList
  <2> QED BY <2>1, <1>2, ChainPush
<1>5. \A x \in Threads : l.next[x] # t /\ (l.next[x] = NULL \/ l.next[x] \in B)
  BY ThreadFacts DEF GoodList
<1>6. Acyclic(k)
  <2>1. PICK rank \in [Threads -> Nat] : Sinks(l, rank)
    BY DEF GoodList, Acyclic
  <2> DEFINE top == IF l.head = NULL THEN 0 ELSE rank[l.head] + 1
             new == [rank EXCEPT ![t] = top]
  <2>2. top \in Nat /\ (l.head # NULL => rank[l.head] < top)
    BY <1>1 DEF Pointers
  <2>3. new \in [Threads -> Nat] /\ new[t] = top /\ \A x \in Threads : x # t => new[x] = rank[x]
    BY <2>2
  <2> HIDE DEF new, top
  <2>4. ASSUME NEW x \in Threads, k.next[x] # NULL PROVE new[k.next[x]] < new[x]
    <3>1. CASE x = t
      <4>1. k.next[x] = l.head /\ l.head \in Threads /\ l.head # t
        BY <3>1, <2>4, <1>1, <1>2, <1>3 DEF Pointers
      <4> QED BY <3>1, <4>1, <2>2, <2>3, <2>4
    <3>2. CASE x # t
      <4>1. k.next[x] = l.next[x] /\ l.next[x] \in Threads /\ l.next[x] # t
        BY <3>2, <2>4, <1>1, <1>2, <1>5
      <4> QED BY <3>2, <4>1, <2>1, <2>3, <2>4 DEF Sinks
    <3> QED BY <3>1, <3>2
  <2>5. Sinks(k, new)
    BY <2>4 DEF Sinks
  <2> QED BY <2>3, <2>5 DEF Acyclic
<1>7. Lists(<<t>> \o q, R \cup {t})
  BY <1>1, ListsPush DEF GoodList
<1>8. \A x \in Threads : k.next[x] = NULL \/ k.next[x] \in B \cup {t}
  BY <1>2, <1>3, <1>5
<1>9. GoodList(k, <<t>> \o q, R \cup {t}, B \cup {t})
  BY <1>1, <1>2, <1>4, <1>6, <1>7, <1>8 DEF GoodList
<1> QED BY <1>9 DEF k

\* The pointer of a thread that is not linked is cleared.
LEMMA CutGood ==
  ASSUME NEW l, NEW q, NEW R, NEW B, GoodList(l, q, R, B), NEW t \in Threads, t \notin R
  PROVE  GoodList(Cut(l, t), q, R, B) /\ Cut(l, t).next[t] = NULL
<1> DEFINE k == Cut(l, t)
<1>1. l \in Links /\ l.head \in Pointers /\ l.next \in [Threads -> Pointers]
  BY DEF GoodList, Links
<1>2. /\ k \in Links /\ k.head = l.head /\ k.next[t] = NULL
      /\ \A x \in Threads : x # t => k.next[x] = l.next[x]
  BY <1>1 DEF Cut, Links, Pointers
<1> HIDE DEF k
<1>3. \A i \in 1..Len(q) : q[i] \in Threads /\ q[i] # t
  <2>1. \A i \in 1..Len(q) : q[i] \in R
    BY Zenon, GoodMembers
  <2>2. R \subseteq Threads
    BY DEF GoodList
  <2> QED BY <2>1, <2>2
<1>4. Chain(k, k.head, q)
  BY <1>2, <1>3, ChainSame DEF GoodList
<1>5. Acyclic(k)
  <2>1. PICK rank \in [Threads -> Nat] : Sinks(l, rank)
    BY DEF GoodList, Acyclic
  <2>2. Sinks(k, rank)
    BY <2>1, <1>2 DEF Sinks
  <2> QED BY <2>2 DEF Acyclic
<1>6. \A x \in Threads : k.next[x] = NULL \/ k.next[x] \in B
  BY <1>2 DEF GoodList
<1>7. GoodList(k, q, R, B)
  BY <1>2, <1>4, <1>5, <1>6 DEF GoodList
<1> QED BY <1>2, <1>7 DEF k

\* The walk to the tail, and the link made there.
LEMMA AppendGood ==
  ASSUME NEW l, NEW q, NEW R, NEW B, GoodList(l, q, R, B), NEW t \in B, t \notin R
  PROVE  GoodList(AppendTail(l, t), Append(q, t), R \cup {t}, B) /\ Ends(Cut(l, t))
<1> DEFINE c == Cut(l, t)
           n == Len(q)
           k == AppendTail(l, t)
<1>0. t \in Threads
  BY DEF GoodList
<1>1. GoodList(c, q, R, B) /\ c.next[t] = NULL
  BY <1>0, CutGood
<1>2. Linked(c) = q /\ Ends(c) /\ q \in Seq(Threads) /\ n \in Nat
  BY <1>1, GoodLinked
<1>3. /\ \A i \in 1..n : q[i] \in R /\ q[i] \in Threads /\ q[i] # t
      /\ c.head = NULL <=> q = <<>>
      /\ \A i, j \in 1..n : q[i] = q[j] => i = j
  <2> HIDE DEF c
  <2>1. (\A i \in 1..n : q[i] \in R) /\ (c.head = NULL <=> q = <<>>)
    BY <1>1, GoodMembers
  <2>2. R \subseteq Threads /\ \A i, j \in 1..n : q[i] = q[j] => i = j
    BY DEF GoodList, Lists
  <2> QED BY <2>1, <2>2
<1>4. /\ c \in Links /\ c.head \in Pointers /\ c.next \in [Threads -> Pointers]
      /\ c.head = Place(q, 1) /\ \A i \in 1..n : c.next[q[i]] = Place(q, i + 1)
  BY <1>1 DEF GoodList, Links, Chain
<1>5. k = IF c.head = NULL THEN [c EXCEPT !.head = t] ELSE [c EXCEPT !.next[q[n]] = t]
  BY <1>2 DEF AppendTail
<1> HIDE DEF c, k
<1>6. /\ Append(q, t) \in Seq(Threads) /\ Len(Append(q, t)) = n + 1
      /\ \A i \in 1..n : Append(q, t)[i] = q[i]
      /\ Append(q, t)[n + 1] = t
  BY <1>0, <1>2
<1> DEFINE r == Append(q, t)
<1> HIDE DEF r
<1>7. /\ r \in Seq(Threads) /\ Len(r) = n + 1 /\ r[n + 1] = t
      /\ \A i \in 1..n : r[i] = q[i]
  BY <1>6 DEF r
<1>8. /\ k \in Links /\ k.head = r[1] /\ k.next[t] = NULL
      /\ n # 0 => k.next[q[n]] = t
      /\ \A x \in Threads : k.next[x] = c.next[x] \/ (n # 0 /\ x = q[n] /\ k.next[x] = t)
      /\ \A i \in 1..n : i # n => k.next[q[i]] = c.next[q[i]]
  <2>1. CASE n = 0
    <3>1. k = [c EXCEPT !.head = t]
      BY <2>1, <1>2, <1>3, <1>5
    <3>2. k \in Links /\ k.head = t /\ k.next = c.next
      BY <3>1, <1>0, <1>4 DEF Links, Pointers
    <3> QED BY <2>1, <3>2, <1>1, <1>7
  <2>2. CASE n # 0
    <3>1. k = [c EXCEPT !.next[q[n]] = t] /\ n \in 1..n /\ q # <<>>
      BY <2>2, <1>2, <1>3, <1>5
    <3> DEFINE z == q[n]
    <3>2. z \in Threads /\ z # t /\ \A i \in 1..n : i # n => q[i] # z
      BY <3>1, <1>3
    <3>3. k = [c EXCEPT !.next[z] = t]
      BY <3>1
    <3> HIDE DEF z
    <3>4. /\ k \in Links /\ k.head = c.head /\ k.next[z] = t
          /\ \A x \in Threads : x # z => k.next[x] = c.next[x]
      BY <3>2, <3>3, <1>0, <1>4 DEF Links, Pointers
    <3>5. c.head = r[1]
      <4>1. 1 \in 1..n
        BY <3>1, <1>2
      <4> QED BY <4>1, <1>4, <1>7 DEF Place
    <3>6. k.next[t] = NULL
      BY <3>2, <3>4, <1>0, <1>1
    <3> QED BY <2>2, <3>2, <3>4, <3>5, <3>6, <1>3 DEF z
  <2> QED BY <2>1, <2>2
<1>9. Chain(k, k.head, r)
  <2>1. k.head = Place(r, 1)
    BY <1>2, <1>7, <1>8 DEF Place
  <2>2. ASSUME NEW i \in 1..Len(r) PROVE k.next[r[i]] = Place(r, i + 1)
    <3>1. CASE i = n + 1
      <4>1. i + 1 \notin 1..Len(r) /\ r[i] = t
        BY <3>1, <1>2, <1>7
      <4> QED BY <4>1, <1>8 DEF Place
    <3>2. CASE i = n
      <4>1. i + 1 \in 1..Len(r) /\ i + 1 = n + 1 /\ n \in 1..n /\ n # 0
        BY <3>2, <2>2, <1>2, <1>7
      <4>2. r[i] = q[n] /\ Place(r, i + 1) = t
        BY <3>2, <4>1, <1>7 DEF Place
      <4> QED BY <4>1, <4>2, <1>8
    <3>3. CASE i # n /\ i # n + 1
      <4>1. i \in 1..n /\ i + 1 \in 1..n /\ i + 1 \in 1..Len(r)
        BY <3>3, <2>2, <1>2, <1>7
      <4>2. Place(r, i + 1) = Place(q, i + 1)
        BY <4>1, <1>7 DEF Place
      <4>3. k.next[r[i]] = c.next[q[i]]
        BY <3>3, <4>1, <1>7, <1>8
      <4> QED BY <4>1, <4>2, <4>3, <1>4
    <3> QED BY <3>1, <3>2, <3>3
  <2> QED BY <2>1, <2>2, <1>7 DEF Chain
<1>10. Acyclic(k)
  <2>1. PICK rank \in [Threads -> Nat] : Sinks(c, rank)
    BY <1>1 DEF GoodList, Acyclic
  <2> DEFINE new == [x \in Threads |-> IF x = t THEN 0 ELSE rank[x] + 1]
  <2>2. /\ new \in [Threads -> Nat] /\ new[t] = 0
        /\ \A x \in Threads : x # t => new[x] = rank[x] + 1
    BY <1>0
  <2> HIDE DEF new
  <2>3. ASSUME NEW x \in Threads, k.next[x] # NULL PROVE new[k.next[x]] < new[x]
    <3>1. x # t /\ new[x] = rank[x] + 1 /\ rank[x] \in Nat
      BY <2>2, <2>3, <1>8
    <3>2. CASE k.next[x] = t
      BY <3>1, <3>2, <2>2
    <3>3. CASE k.next[x] # t
      <4>1. k.next[x] = c.next[x] /\ c.next[x] # NULL
        BY <3>3, <2>3, <1>8
      <4>2. c.next[x] \in Threads /\ c.next[x] # t
        BY <3>3, <4>1, <1>4 DEF Pointers
      <4>3. rank[c.next[x]] < rank[x] /\ rank[c.next[x]] \in Nat
        BY <4>1, <4>2, <2>1 DEF Sinks
      <4>4. new[c.next[x]] = rank[c.next[x]] + 1
        BY <4>2, <2>2
      <4> DEFINE a == rank[c.next[x]]
                 b == rank[x]
      <4>5. a + 1 < b + 1
        <5>1. a \in Nat /\ b \in Nat /\ a < b
          BY <4>3, <3>1
        <5> HIDE DEF a, b
        <5> QED BY <5>1
      <4> QED BY <3>1, <4>1, <4>4, <4>5
    <3> QED BY <3>2, <3>3
  <2>4. Sinks(k, new)
    BY <2>3 DEF Sinks
  <2> QED BY <2>2, <2>4 DEF Acyclic
<1>11. Lists(r, R \cup {t})
  BY <1>1, ListsAppend DEF GoodList, r
<1>12. \A x \in Threads : k.next[x] = NULL \/ k.next[x] \in B
  BY <1>1, <1>8 DEF GoodList
<1>13. GoodList(k, r, R \cup {t}, B)
  <2>1. R \cup {t} \subseteq B /\ B \subseteq Threads /\ k \in Links
    BY <1>8 DEF GoodList
  <2> QED BY <2>1, <1>9, <1>10, <1>11, <1>12 DEF GoodList
<1> QED BY <1>2, <1>13 DEF c, k, r

\* schedule() takes the thread at the head.
LEMMA PopGood ==
  ASSUME NEW l, NEW q, NEW R, NEW B, GoodList(l, q, R, B), q # <<>>
  PROVE  /\ l.head = Head(q) /\ l.head \in R
         /\ GoodList([l EXCEPT !.head = l.next[l.head]], Tail(q), R \ {l.head}, B)
<1> DEFINE k == [l EXCEPT !.head = l.next[l.head]]
<1>1. l.head = Head(q) /\ l.head \in Threads /\ Chain(l, l.next[l.head], Tail(q))
  BY ChainPop DEF GoodList
<1>2. l \in Links /\ l.next \in [Threads -> Pointers]
  BY DEF GoodList, Links
<1>3. k \in Links /\ k.head = l.next[l.head] /\ k.next = l.next
  BY <1>1, <1>2 DEF Links
<1> HIDE DEF k
<1>4. l.head \in R /\ Lists(Tail(q), R \ {l.head})
  BY <1>1, ListsPop DEF GoodList
<1>5. Chain(k, k.head, Tail(q))
  BY <1>1, <1>3 DEF Chain
<1>6. Acyclic(k) /\ \A x \in Threads : k.next[x] = NULL \/ k.next[x] \in B
  BY <1>3 DEF GoodList, Acyclic, Sinks
<1>7. R \ {l.head} \subseteq B /\ B \subseteq Threads
  BY DEF GoodList
<1>8. GoodList(k, Tail(q), R \ {l.head}, B)
  BY <1>3, <1>4, <1>5, <1>6, <1>7 DEF GoodList
<1> QED BY <1>1, <1>4, <1>8 DEF k

\* Every pointer an append writes is one to a thread, or NULL.
LEMMA AppendTyped ==
  ASSUME NEW l \in Links, NEW t \in Threads
  PROVE  Cut(l, t) \in Links /\ AppendTail(l, t) \in Links
<1> DEFINE c == Cut(l, t)
<1>1. NULL \in Pointers /\ t \in Pointers
  BY DEF Pointers
<1>2. c \in Links
  BY <1>1 DEF Cut, Links
<1> HIDE DEF c
<1>3. [c EXCEPT !.head = t] \in Links
  BY <1>1, <1>2 DEF Links
<1>4. \A x : [c EXCEPT !.next[x] = t] \in Links
  BY <1>1, <1>2 DEF Links
<1>5. AppendTail(l, t) \in {c, [c EXCEPT !.head = t],
                           [c EXCEPT !.next[Linked(c)[Len(Linked(c))]] = t]}
  BY Zenon DEF AppendTail, c
<1> QED BY <1>2, <1>3, <1>4, <1>5 DEF c

-----------------------------------------------------------------------------

(***************************************************************************)
(* Thread states and list together.                                        *)
(***************************************************************************)

States == {"unborn", "ready", "running", "blocked", "exited"}
Ready(st) == {t \in Workers : st[t] = "ready"}
Born(st) == {t \in Workers : st[t] # "unborn"}

Memories == [st : [Threads -> States], l : Links, spin : BOOLEAN]

\* The list of memory m links the READY workers, in the order of q.
GoodMemory(m, q) ==
  /\ m \in Memories
  /\ ~m.spin
  /\ GoodList(m.l, q, Ready(m.st), Born(m.st))

\* The inductive invariant until elf.c adds a thread twice: the list is good, and
\* a worker is RUNNING exactly while it is the current thread.
OnceInv ==
  /\ ListTypeOK
  /\ ~spinning /\ ~doubled
  /\ GoodList(list, Linked(list), Ready(state), Born(state))
  /\ \A t \in Workers : state[t] = "running" <=> t = current_thread
  /\ state[idle] \in {"ready", "running"}

\* thread_unblock appends the thread at the tail.
LEMMA UnblockGood ==
  ASSUME NEW m, NEW q, GoodMemory(m, q), NEW t \in Workers, m.st[t] = "blocked"
  PROVE  /\ GoodMemory(Unblocked(m, t), Append(q, t))
         /\ Unblocked(m, t).st = [m.st EXCEPT ![t] = "ready"]
<1> DEFINE s == [m.st EXCEPT ![t] = "ready"]
           a == AppendTail(m.l, t)
           e == ~Ends(Cut(m.l, t))
<1>1. m.st \in [Threads -> States] /\ ~m.spin /\ t \in Threads
  BY ThreadFacts DEF GoodMemory, Memories
<1>2. Unblocked(m, t) = [st |-> s, l |-> a, spin |-> e]
  BY <1>1 DEF Unblocked
<1>3. s \in [Threads -> States] /\ Ready(s) = Ready(m.st) \cup {t} /\ Born(s) = Born(m.st)
  BY <1>1, ThreadFacts DEF States, Ready, Born
<1>4. t \in Born(m.st) /\ t \notin Ready(m.st)
  BY DEF Ready, Born
<1>5. GoodList(a, Append(q, t), Ready(m.st) \cup {t}, Born(m.st)) /\ Ends(Cut(m.l, t))
  BY <1>4, AppendGood DEF GoodMemory
<1>6. a \in Links /\ e = FALSE
  BY <1>5 DEF GoodList
<1>7. GoodList(a, Append(q, t), Ready(s), Born(s))
  BY <1>3, <1>5
<1> HIDE DEF s, a, e
<1> DEFINE u == [st |-> s, l |-> a, spin |-> e]
<1>8. u.st = s /\ u.l = a /\ u.spin = FALSE
  BY <1>6
<1>9. u \in Memories
  BY Zenon, <1>3, <1>6 DEF Memories
<1> HIDE DEF u
<1>10. GoodMemory(u, Append(q, t))
  BY <1>7, <1>8, <1>9 DEF GoodMemory
<1> QED BY Zenon, <1>2, <1>8, <1>10 DEF s, u

\* The loop of thread_unblock calls of a tick.
IsWakeLoop(f, ts, m) ==
  f = [n \in 0..Len(ts) |-> IF n = 0 THEN m ELSE Unblocked(f[n - 1], ts[n])]

\* The pointers stay threads or NULL, also in a cyclic list.
LEMMA UnblockTyped ==
  ASSUME NEW x \in Memories, NEW t \in Workers
  PROVE  Unblocked(x, t) \in Memories
<1>1. x.st \in [Threads -> States] /\ x.l \in Links /\ t \in Threads
  BY ThreadFacts DEF Memories
<1>2. AppendTail(x.l, t) \in Links
  BY <1>1, AppendTyped
<1>3. [x.st EXCEPT ![t] = "ready"] \in [Threads -> States]
  BY <1>1 DEF States
<1> DEFINE u == [st   |-> [x.st EXCEPT ![t] = "ready"],
                 l    |-> AppendTail(x.l, t),
                 spin |-> ~Ends(Cut(x.l, t))]
<1>4. u \in Memories
  BY Zenon, <1>2, <1>3 DEF Memories
<1> HIDE DEF u
<1>5. Unblocked(x, t) = x \/ Unblocked(x, t) = u
  BY DEF Unblocked, u
<1> QED BY <1>4, <1>5

\* The loop of timer_tick over the threads it wakes is defined.
LEMMA WakeLoopExists ==
  ASSUME NEW m \in Memories, NEW ts \in Seq(Workers)
  PROVE  \E f : IsWakeLoop(f, ts, m)
<1> DEFINE T == Memories
           N == Len(ts)
           F == [a \in (1..N) \X T |-> Unblocked(a[2], ts[a[1]])]
<1>1. \A x \in T, t \in Workers : Unblocked(x, t) \in T
  BY UnblockTyped
<1>2. m \in T /\ N \in Nat /\ \A n \in 1..N : ts[n] \in Workers
  OBVIOUS
<1> HIDE DEF T
<1>3. F \in [(1..N) \X T -> T]
  BY <1>1, <1>2
<1>4. \A n \in 1..N, x \in T : F[<<n, x>>] = Unblocked(x, ts[n])
  OBVIOUS
<1> HIDE DEF F
<1>5. PICK g \in [0..N -> T] : IsLoop(g, N, m, F)
  BY Zenon, <1>2, <1>3, LoopExists
<1>6. DOMAIN g = 0..N /\ g[0] = m /\ \A n \in 1..N : g[n] = F[<<n, g[n - 1]>>]
  BY <1>5 DEF IsLoop
<1>7. \A n \in 1..N : n - 1 \in 0..N
  BY <1>2
<1>8. \A n \in 1..N : g[n] = Unblocked(g[n - 1], ts[n])
  BY Zenon, <1>4, <1>5, <1>6, <1>7
<1>9. \A n \in 0..N : n = 0 \/ n \in 1..N
  BY <1>2
<1>10. g = [n \in 0..N |-> IF n = 0 THEN m ELSE Unblocked(g[n - 1], ts[n])]
  BY <1>5, <1>6, <1>8, <1>9
<1> QED BY Zenon, <1>10 DEF IsWakeLoop

\* What the loop computes is a memory, whatever the list.
LEMMA WakeLoopTyped ==
  ASSUME NEW m \in Memories, NEW ts \in Seq(Workers), NEW f, IsWakeLoop(f, ts, m)
  PROVE  f[Len(ts)] \in Memories
<1> DEFINE N == Len(ts)
           S == {n \in Nat : n <= N => f[n] \in Memories}
<1>1. N \in Nat /\ \A n \in 1..N : ts[n] \in Workers
  OBVIOUS
<1>2. f[0] = m /\ \A n \in 1..N : f[n] = Unblocked(f[n - 1], ts[n])
  <2>1. \A n \in 0..N : f[n] = IF n = 0 THEN m ELSE Unblocked(f[n - 1], ts[n])
    BY Zenon DEF IsWakeLoop
  <2>2. 0 \in 0..N /\ \A n \in 1..N : n \in 0..N /\ n # 0
    BY <1>1
  <2> QED BY <2>1, <2>2
<1>3. 0 \in S
  BY <1>2
<1>4. ASSUME NEW n \in Nat, n \in S PROVE n + 1 \in S
  <2> SUFFICES ASSUME n + 1 <= N PROVE f[n + 1] \in Memories
    OBVIOUS
  <2>1. n + 1 \in 1..N /\ (n + 1) - 1 = n /\ f[n] \in Memories
    BY <1>1, <1>4
  <2>2. f[n + 1] = Unblocked(f[n], ts[n + 1]) /\ ts[n + 1] \in Workers
    BY Zenon, <2>1, <1>1, <1>2
  <2> QED BY Zenon, <2>1, <2>2, UnblockTyped
<1>5. Nat \subseteq S
  <2> HIDE DEF S
  <2> QED BY <1>3, <1>4, Induction
<1> QED BY <1>1, <1>5

\* What the loop computes: the threads of ts are READY and linked, in order.
LEMMA WakeLoopGood ==
  ASSUME NEW m, NEW q, GoodMemory(m, q), NEW ts \in Seq(Workers),
         \A i \in 1..Len(ts) : m.st[ts[i]] = "blocked",
         \A i, j \in 1..Len(ts) : ts[i] = ts[j] => i = j,
         NEW f, IsWakeLoop(f, ts, m)
  PROVE  /\ GoodMemory(f[Len(ts)], q \o ts)
         /\ f[Len(ts)].st = [t \in Threads |-> IF \E i \in 1..Len(ts) : ts[i] = t
                                               THEN "ready" ELSE m.st[t]]
<1> DEFINE N == Len(ts)
           W(n) == [t \in Threads |-> IF \E i \in 1..n : ts[i] = t THEN "ready" ELSE m.st[t]]
           Q(n) == q \o SubSeq(ts, 1, n)
           P(n) == f[n].st = W(n) /\ GoodMemory(f[n], Q(n))
           S == {n \in Nat : n <= N => P(n)}
<1>1. N \in Nat /\ q \in Seq(Threads) /\ m.st \in [Threads -> States] /\ ts \in Seq(Threads)
  <2>1. q \in Seq(Threads)
    BY GoodLinked DEF GoodMemory
  <2>2. ts \in Seq(Threads)
    BY SeqOver, ThreadFacts
  <2> QED BY <2>1, <2>2 DEF GoodMemory, Memories
<1>2. f[0] = m /\ \A n \in 1..N : f[n] = Unblocked(f[n - 1], ts[n])
  <2>1. \A n \in 0..N : f[n] = IF n = 0 THEN m ELSE Unblocked(f[n - 1], ts[n])
    BY Zenon DEF IsWakeLoop
  <2>2. 0 \in 0..N /\ \A n \in 1..N : n \in 0..N /\ n # 0
    BY <1>1
  <2> QED BY <2>1, <2>2
<1>3. P(0)
  <2>1. SubSeq(ts, 1, 0) = <<>>
    BY <1>1
  <2>2. Q(0) = q
    BY <2>1, <1>1
  <2>3. W(0) = m.st
    BY <1>1
  <2> QED BY Zenon, <2>2, <2>3, <1>2
<1>4. ASSUME NEW n \in Nat, n + 1 <= N, P(n) PROVE P(n + 1)
  <2> DEFINE t == ts[n + 1]
             x == f[n]
  <2>1. n + 1 \in 1..N /\ t \in Workers /\ t \in Threads /\ m.st[t] = "blocked"
    BY <1>1, <1>4, ThreadFacts
  <2>2. f[n + 1] = Unblocked(x, t)
    <3>1. (n + 1) - 1 = n
      OBVIOUS
    <3> QED BY Zenon, <2>1, <3>1, <1>2
  <2>3. ~\E i \in 1..n : ts[i] = t
    BY <2>1, <1>1, <1>4
  <2>4. x.st = W(n) /\ x.st[t] = "blocked"
    BY <2>1, <2>3, <1>4
  <2>5. GoodMemory(f[n + 1], Append(Q(n), t)) /\ f[n + 1].st = [x.st EXCEPT ![t] = "ready"]
    <3>1. GoodMemory(x, Q(n))
      BY <1>4
    <3> HIDE DEF x, Q, t
    <3> QED BY <2>1, <2>2, <2>4, <3>1, UnblockGood
  <2>6. [x.st EXCEPT ![t] = "ready"] = W(n + 1)
    <3>1. \A u \in Threads : (\E i \in 1..(n + 1) : ts[i] = u) <=> (\E i \in 1..n : ts[i] = u) \/ u = t
      <4>1. 1..(n + 1) = (1..n) \cup {n + 1}
        OBVIOUS
      <4> QED BY <4>1
    <3> HIDE DEF t, x
    <3> QED BY <2>1, <2>4, <3>1
  <2>7. Append(Q(n), t) = Q(n + 1)
    <3>1. /\ SubSeq(ts, 1, n) \in Seq(Threads)
          /\ SubSeq(ts, 1, n + 1) = Append(SubSeq(ts, 1, n), t)
      BY <2>1, <1>1, <1>4
    <3> DEFINE z == SubSeq(ts, 1, n)
    <3> HIDE DEF z, t
    <3>2. q \o Append(z, t) = Append(q \o z, t)
      BY <3>1, <2>1, <1>1 DEF z
    <3> QED BY Zenon, <3>1, <3>2 DEF z
  <2> QED BY Zenon, <2>5, <2>6, <2>7
<1>5. \A n \in Nat : n \in S => n + 1 \in S
  <2> HIDE DEF P
  <2>1. \A n \in Nat : n + 1 <= N => n <= N
    BY <1>1
  <2> QED BY <1>4, <2>1
<1>6. 0 \in S
  BY <1>3
<1>7. Nat \subseteq S
  <2> HIDE DEF S
  <2> QED BY <1>5, <1>6, Induction
<1>8. P(N)
  <2> HIDE DEF P
  <2> QED BY <1>1, <1>7
<1>9. Q(N) = q \o ts
  <2>1. SubSeq(ts, 1, N) = ts
    BY <1>1
  <2> QED BY <2>1
<1> QED BY Zenon, <1>8, <1>9

-----------------------------------------------------------------------------

\* What a step has to show of the state it reaches.
LEMMA ReachedInv ==
  ASSUME NEW q, GoodList(list', q, Ready(state'), Born(state')),
         state' \in [Threads -> States], current_thread' \in Threads,
         spinning' = FALSE, doubled' = FALSE,
         \A t \in Workers : state'[t] = "running" <=> t = current_thread',
         state'[idle] \in {"ready", "running"}
  PROVE  /\ OnceInv' /\ Queue(list') = q
         /\ (IF ~doubled' THEN "none" ELSE IF Ends(list') THEN "cut" ELSE "tail") = "none"
<1>1. Linked(list') = q /\ Ends(list')
  BY GoodLinked
<1>2. list' \in Links
  BY DEF GoodList
<1>3. ListTypeOK'
  BY Zenon, <1>2 DEF ListTypeOK, States
<1> QED BY <1>1, <1>3 DEF OnceInv, Queue

\* The queue with one more thread at its end.
LEMMA ConcatOne ==
  ASSUME NEW q \in Seq(Threads), NEW t \in Threads
  PROVE  q \o <<t>> = Append(q, t)
OBVIOUS

\* schedule() on a good list does what the queue of ReadyQueue does.
LEMMA ScheduleGood ==
  ASSUME NEW m, NEW q, GoodMemory(m, q), current_thread \in Threads,
         \A t \in Workers : m.st[t] = "running" => t = current_thread,
         m.st[idle] \in {"ready", "running"},
         spinning = FALSE, doubled' = FALSE, schedule(m)
  PROVE  OnceInv' /\ RQ!schedule(m.st, q, "none")
<1> DEFINE cur     == current_thread
           next    == IF m.l.head = NULL THEN idle ELSE m.l.head
           popped  == IF m.l.head = NULL THEN m.l ELSE [m.l EXCEPT !.head = m.l.next[next]]
           requeue == m.st[cur] = "running" /\ cur # idle
           spin    == requeue /\ ~Ends(Cut(popped, cur))
           st      == IF requeue THEN [m.st EXCEPT ![cur] = "ready"] ELSE m.st
           rest    == IF q = <<>> THEN <<>> ELSE Tail(q)
           R       == Ready(m.st) \ {next}
           B       == Born(m.st)
           r       == IF requeue THEN Append(rest, cur) ELSE rest
<1>1. /\ m.st \in [Threads -> States] /\ ~m.spin
      /\ GoodList(m.l, q, Ready(m.st), B)
  BY DEF GoodMemory, Memories
<1>2. ~spin => /\ list' = IF requeue THEN AppendTail(popped, cur) ELSE popped
               /\ state' = [st EXCEPT ![next] = "running"]
               /\ current_thread' = next
               /\ spinning' = spinning
  BY Zenon, <1>1 DEF schedule
<1>3. m.l.head = NULL <=> q = <<>>
  BY <1>1, GoodMembers
<1>4. /\ next = (IF q = <<>> THEN idle ELSE Head(q))
      /\ next \in Ready(m.st) \cup {idle}
      /\ GoodList(popped, rest, R, B)
  <2>1. CASE q = <<>>
    <3>1. next = idle /\ popped = m.l /\ rest = q
      BY <2>1, <1>3
    <3>2. R = Ready(m.st)
      BY <3>1, ThreadFacts DEF Ready
    <3> QED BY Zenon, <2>1, <3>1, <3>2, <1>1
  <2>2. CASE q # <<>>
    <3>1. next = m.l.head /\ popped = [m.l EXCEPT !.head = m.l.next[m.l.head]] /\ rest = Tail(q)
      BY <2>2, <1>3
    <3>2. /\ m.l.head = Head(q) /\ m.l.head \in Ready(m.st)
          /\ GoodList([m.l EXCEPT !.head = m.l.next[m.l.head]], Tail(q),
                      Ready(m.st) \ {m.l.head}, B)
      BY Zenon, <2>2, <1>1, PopGood
    <3> QED BY Zenon, <2>2, <3>1, <3>2
  <2> QED BY <2>1, <2>2
<1>5. next \in Threads /\ (requeue => next # cur /\ cur \in Workers)
  BY <1>4, ThreadFacts DEF Ready
<1> HIDE DEF next, popped, rest
<1>6. spin = FALSE /\ GoodList(list', r, IF requeue THEN R \cup {cur} ELSE R, B)
  <2>1. CASE requeue
    <3>1. cur \in B /\ cur \notin R
      BY <2>1, <1>5 DEF Ready, Born
    <3>2. GoodList(AppendTail(popped, cur), Append(rest, cur), R \cup {cur}, B)
          /\ Ends(Cut(popped, cur))
      <4> HIDE DEF R, B
      <4> QED BY <3>1, <1>4, AppendGood
    <3>3. spin = FALSE
      BY <3>2
    <3>4. list' = AppendTail(popped, cur) /\ r = Append(rest, cur)
      BY Zenon, <2>1, <3>3, <1>2
    <3> QED BY Zenon, <2>1, <3>2, <3>3, <3>4
  <2>2. CASE ~requeue
    <3>1. spin = FALSE
      BY <2>2
    <3> QED BY Zenon, <2>2, <3>1, <1>2, <1>4
  <2> QED BY Zenon, <2>1, <2>2
<1> HIDE DEF spin
<1>7. /\ state' = [t \in Threads |-> IF t = next THEN "running"
                                     ELSE IF t = cur /\ requeue THEN "ready" ELSE m.st[t]]
      /\ current_thread' = next
      /\ spinning' = FALSE
  <2>1. state' = [st EXCEPT ![next] = "running"] /\ current_thread' = next /\ spinning' = FALSE
    BY Zenon, <1>2, <1>6
  <2>2. CASE requeue
    BY <2>1, <2>2, <1>1, <1>5
  <2>3. CASE ~requeue
    BY <2>1, <2>3, <1>1, <1>5
  <2> QED BY Zenon, <2>1, <2>2, <2>3
<1>8. Ready(state') = IF requeue THEN R \cup {cur} ELSE R
  BY <1>5, <1>7, ThreadFacts DEF Ready
<1>9. Born(state') = B
  BY <1>4, <1>5, <1>7, ThreadFacts DEF Born, Ready
<1>10. /\ state' \in [Threads -> States] /\ current_thread' \in Threads
       /\ \A t \in Workers : state'[t] = "running" <=> t = current_thread'
       /\ state'[idle] \in {"ready", "running"}
  BY <1>1, <1>5, <1>7, ThreadFacts DEF States
<1>11. /\ OnceInv' /\ Queue(list') = r
       /\ (IF ~doubled' THEN "none" ELSE IF Ends(list') THEN "cut" ELSE "tail") = "none"
  <2>1. GoodList(list', r, Ready(state'), Born(state'))
    BY <1>6, <1>8, <1>9
  <2> HIDE DEF r
  <2> QED BY Zenon, <2>1, <1>7, <1>10, ReachedInv
<1>12. RQ!schedule(m.st, q, "none")
  <2>1. rest = IF q = <<>> \/ ("none" = "tail" /\ Len(q) = 1) THEN q ELSE Tail(q)
    BY DEF rest
  <2>2. r = IF requeue THEN RQ!Appended(rest, <<cur>>, "none") ELSE rest
    <3>1. rest \in Seq(Threads)
      BY <1>4, GoodLinked
    <3>2. RQ!Appended(rest, <<cur>>, "none") = rest \o <<cur>>
      BY DEF RQ!Appended
    <3>3. rest \o <<cur>> = Append(rest, cur)
      BY <3>1, ConcatOne
    <3> QED BY <3>2, <3>3
  <2>3. RQ!WalkEnds(rest, <<cur>>, "none")
    BY DEF RQ!WalkEnds
  <2> HIDE DEF r
  <2> QED BY Zenon, <2>1, <2>2, <2>3, <1>4, <1>7, <1>11
          DEF RQ!schedule, RQ!Threads, RQ!Workers, Threads, Workers
<1> QED BY <1>11, <1>12

\* scheduler_init leaves an empty list.
LEMMA ListInitInv ==
  ASSUME ListInit
  PROVE  OnceInv /\ RQ!RQInit
<1>1. /\ list \in Links /\ list.head = NULL /\ \A t \in Threads : list.next[t] = NULL
      /\ state \in [Threads -> States] /\ state = [t \in Threads |-> IF t = idle THEN "ready" ELSE "unborn"]
      /\ current_thread = idle /\ spinning = FALSE /\ doubled = FALSE
  BY DEF ListInit, Links, Pointers, States
<1>2. Ready(state) = {} /\ Born(state) = {}
  BY <1>1, ThreadFacts DEF Ready, Born
<1>3. Acyclic(list)
  <2> DEFINE rank == [t \in Threads |-> 0]
  <2>1. rank \in [Threads -> Nat] /\ Sinks(list, rank)
    BY <1>1 DEF Sinks
  <2> QED BY <2>1 DEF Acyclic
<1>4. Chain(list, list.head, <<>>)
  BY <1>1 DEF Chain, Place
<1>5. Lists(<<>>, Ready(state))
  BY <1>2, ListsEmpty
<1>6. GoodList(list, <<>>, Ready(state), Born(state))
  BY <1>1, <1>2, <1>3, <1>4, <1>5 DEF GoodList
<1>7. Linked(list) = <<>> /\ Queue(list) = <<>>
  BY <1>6, GoodLinked DEF Queue
<1>8. OnceInv
  BY Zenon, <1>1, <1>6, <1>7, ThreadFacts DEF OnceInv, ListTypeOK, States
<1>9. RQ!RQInit
  BY <1>1, <1>7 DEF RQ!RQInit, RQ!Threads, RQ!Workers, Threads, Workers
<1> QED BY <1>8, <1>9

\* Every operation keeps the invariant and is an operation of the queue.
LEMMA ListNextInv ==
  ASSUME OnceInv, ListNext
  PROVE  OnceInv' /\ RQ!RQNext
<1> DEFINE q == Linked(list)
           M == Memory(state, list)
<1>1. /\ GoodList(list, q, Ready(state), Born(state)) /\ doubled = FALSE
      /\ state \in [Threads -> States] /\ list \in Links
      /\ current_thread \in Threads /\ spinning = FALSE
      /\ \A t \in Workers : state[t] = "running" <=> t = current_thread
      /\ state[idle] \in {"ready", "running"}
  BY DEF OnceInv, ListTypeOK, States
<1>2. RQ!Workers = Workers /\ RQ!Threads = Threads
  BY DEF RQ!Workers, RQ!Threads, Workers, Threads
<1> HIDE DEF q
<1>0. /\ Queue(list) = q
      /\ (IF ~doubled THEN "none" ELSE IF Ends(list) THEN "cut" ELSE "tail") = "none"
  BY <1>1, GoodLinked DEF Queue, q
<1>3. ASSUME NEW t \in Workers, Create(t) PROVE OnceInv' /\ RQ!RQNext
  <2>1. /\ state[t] = "unborn" /\ state' = [state EXCEPT ![t] = "ready"]
        /\ list' = Push(list, t) /\ current_thread' = current_thread
        /\ spinning' = spinning /\ doubled' = doubled
    BY <1>3 DEF Create
  <2>2. /\ t \in Threads /\ t \notin Born(state) /\ state' \in [Threads -> States]
        /\ Ready(state') = Ready(state) \cup {t} /\ Born(state') = Born(state) \cup {t}
    BY <2>1, <1>1, ThreadFacts DEF Ready, Born, States
  <2>3. GoodList(list', <<t>> \o q, Ready(state'), Born(state'))
    <3>1. GoodList(list, q, Ready(state), Born(state)) /\ t \in Threads /\ t \notin Born(state)
      BY <1>1, <2>2
    <3>2. GoodList(Push(list, t), <<t>> \o q, Ready(state) \cup {t}, Born(state) \cup {t})
      BY Zenon, <3>1, PushGood
    <3> QED BY Zenon, <3>2, <2>1, <2>2
  <2>4. /\ \A u \in Workers : state'[u] = "running" <=> u = current_thread'
        /\ state'[idle] \in {"ready", "running"}
    BY <2>1, <1>1, ThreadFacts
  <2>5. /\ OnceInv' /\ Queue(list') = <<t>> \o q
        /\ (IF ~doubled' THEN "none" ELSE IF Ends(list') THEN "cut" ELSE "tail") = "none"
    BY Zenon, <2>1, <2>2, <2>3, <2>4, <1>1, ReachedInv
  <2>6. RQ!scheduler_add_thread(t)
    BY <2>1, <2>5, <1>0 DEF RQ!scheduler_add_thread
  <2> QED BY <2>5, <2>6, <1>2 DEF RQ!RQNext
<1>4. GoodMemory(M, q) /\ M.st = state /\ M.l = list
  BY <1>1 DEF GoodMemory, Memory, Memories
<1> HIDE DEF M
<1>5. ASSUME NEW t \in Workers, thread_unblock(t) PROVE OnceInv' /\ RQ!RQNext
  <2> DEFINE u == Unblocked(M, t)
  <2>0. state[t] = "blocked" /\ doubled' = doubled
    BY <1>5 DEF thread_unblock
  <2>2. GoodMemory(u, Append(q, t)) /\ u.st = [state EXCEPT ![t] = "ready"]
    BY <2>0, <1>4, UnblockGood
  <2>1. /\ state[t] = "blocked" /\ state' = u.st /\ list' = u.l /\ spinning' = spinning
        /\ current_thread' = current_thread /\ doubled' = FALSE
    <3>1. ~u.spin
      BY <2>2 DEF GoodMemory
    <3> QED BY Zenon, <3>1, <2>0, <1>1, <1>5 DEF thread_unblock, M
  <2>3. GoodList(list', Append(q, t), Ready(state'), Born(state')) /\ spinning' = FALSE
        /\ state' \in [Threads -> States]
    <3>1. u.st \in [Threads -> States]
      BY <2>2 DEF GoodMemory, Memories
    <3> QED BY Zenon, <3>1, <2>1, <2>2, <1>1 DEF GoodMemory
  <2>4. /\ \A v \in Workers : state'[v] = "running" <=> v = current_thread'
        /\ state'[idle] \in {"ready", "running"} /\ current_thread' \in Threads
    BY Zenon, <2>1, <2>2, <1>1, ThreadFacts
  <2>5. /\ OnceInv' /\ Queue(list') = Append(q, t)
        /\ (IF ~doubled' THEN "none" ELSE IF Ends(list') THEN "cut" ELSE "tail") = "none"
    BY Zenon, <2>1, <2>3, <2>4, ReachedInv
  <2>6. RQ!thread_unblock(t)
    <3>1. RQ!WalkEnds(q, <<t>>, "none")
      BY DEF RQ!WalkEnds
    <3>2. RQ!Appended(q, <<t>>, "none") = Append(q, t)
      <4>1. q \in Seq(Threads) /\ t \in Threads
        BY <1>1, GoodLinked, ThreadFacts
      <4> QED BY <4>1, ConcatOne DEF RQ!Appended
    <3> QED BY Zenon, <3>1, <3>2, <2>1, <2>2, <2>5, <1>0 DEF RQ!thread_unblock
  <2> QED BY <2>5, <2>6, <1>2 DEF RQ!RQNext
<1>6. ASSUME NEW s \in {"blocked", "exited"}, NEW k, current_thread # idle,
             k = list \/ k = Cut(list, current_thread),
             schedule(Memory([state EXCEPT ![current_thread] = s], k)), doubled' = doubled
      PROVE  OnceInv' /\ RQ!schedule([state EXCEPT ![current_thread] = s], q, "none")
  <2> DEFINE z == [state EXCEPT ![current_thread] = s]
             m == Memory(z, k)
  <2>1. /\ current_thread \in Workers /\ current_thread \notin Ready(state)
        /\ z \in [Threads -> States] /\ Ready(z) = Ready(state) /\ Born(z) = Born(state)
    BY <1>1, <1>6, ThreadFacts DEF States, Ready, Born
  <2>2. GoodList(k, q, Ready(z), Born(z))
    BY <2>1, <1>1, <1>6, CutGood
  <2>3. (\A t \in Workers : z[t] = "running" => t = current_thread) /\ z[idle] \in {"ready", "running"}
    BY <1>1, <1>6, ThreadFacts
  <2> HIDE DEF z
  <2>4. GoodMemory(m, q) /\ m.st = z
    BY Zenon, <2>1, <2>2 DEF GoodMemory, GoodList, Memory, Memories
  <2>5. schedule(m) /\ doubled' = FALSE
    BY <1>1, <1>6 DEF z
  <2> HIDE DEF m
  <2>6. OnceInv' /\ RQ!schedule(z, q, "none")
    BY Zenon, <2>3, <2>4, <2>5, <1>1, ScheduleGood
  <2> QED BY <2>6 DEF z
<1>7. ASSUME thread_block PROVE OnceInv' /\ RQ!RQNext
  <2>1. RQ!thread_block /\ OnceInv'
    BY Zenon, <1>0, <1>6, <1>7 DEF thread_block, RQ!thread_block
  <2> QED BY <2>1 DEF RQ!RQNext
<1>8. ASSUME thread_exit PROVE OnceInv' /\ RQ!RQNext
  <2>1. /\ current_thread # idle /\ OnceInv'
        /\ RQ!schedule([state EXCEPT ![current_thread] = "exited"], q, "none")
    BY Zenon, <1>6, <1>8 DEF thread_exit
  <2>2. RQ!thread_exit
    <3>1. \A b \in BOOLEAN : (IF "none" = "tail" /\ b THEN "cut" ELSE "none") = "none"
      OBVIOUS
    <3> QED BY Zenon, <2>1, <3>1, <1>0 DEF RQ!thread_exit
  <2> QED BY <2>1, <2>2 DEF RQ!RQNext
<1>9. ASSUME NEW ts \in WakeLists, Reschedule(ts) PROVE OnceInv' /\ RQ!RQNext
  <2> DEFINE C == {t \in Workers : state[t] = "blocked"}
             f == CHOOSE g : IsWakeLoop(g, ts, M)
             m == f[Len(ts)]
  <2>1. PICK n \in 0..Cardinality(C) :
          ts \in [1..n -> C] /\ \A i, j \in 1..n : ts[i] = ts[j] => i = j
    BY Zenon, <1>9 DEF WakeLists
  <2>2. /\ n \in Nat /\ ts \in Seq(Workers) /\ Len(ts) = n
        /\ \A i \in 1..n : state[ts[i]] = "blocked"
    BY <2>1
  <2>3. IsWakeLoop(f, ts, M)
    <3>1. \E g : IsWakeLoop(g, ts, M)
      BY <2>2, <1>4, WakeLoopExists DEF GoodMemory
    <3> QED BY Zenon, <3>1
  <2>4. schedule(m) /\ doubled' = doubled
    BY Zenon, <1>9 DEF Reschedule, IsWakeLoop, M
  <2> HIDE DEF f
  <2>5. GoodMemory(m, q \o ts)
        /\ m.st = [t \in Threads |-> IF \E i \in 1..Len(ts) : ts[i] = t THEN "ready" ELSE state[t]]
    BY <2>1, <2>2, <2>3, <1>4, WakeLoopGood
  <2>6. m.st = RQ!Woken(ts)
    BY <2>5, <1>2 DEF RQ!Woken
  <2>7. /\ \A t \in Workers : m.st[t] = "running" => t = current_thread
        /\ m.st[idle] \in {"ready", "running"}
    BY <2>5, <1>1, ThreadFacts
  <2> HIDE DEF m
  <2>8. OnceInv' /\ RQ!schedule(m.st, q \o ts, "none")
    BY Zenon, <2>4, <2>5, <2>7, <1>1, ScheduleGood
  <2>9. RQ!Reschedule(ts)
    <3>1. RQ!WalkEnds(q, ts, "none") /\ RQ!Appended(q, ts, "none") = q \o ts
      BY DEF RQ!WalkEnds, RQ!Appended
    <3> QED BY Zenon, <3>1, <2>6, <2>8, <1>0 DEF RQ!Reschedule
  <2>10. ts \in RQ!WakeLists
    <3> DEFINE D == {t \in RQ!Threads : state[t] = "blocked"}
               U(S, k) == {us \in [1..k -> S] : \A i, j \in 1..k : us[i] = us[j] => i = j}
    <3>1. D = C
      BY <1>1, <1>2, ThreadFacts
    <3>2. ts \in U(C, n)
      BY <2>1
    <3>3. RQ!WakeLists = UNION {U(D, k) : k \in 0..Cardinality(D)}
      BY DEF RQ!WakeLists, RQ!Cardinality, Cardinality
    <3> HIDE DEF U, C, D
    <3> QED BY <3>1, <3>2, <3>3
  <2> QED BY <2>8, <2>9, <2>10 DEF RQ!RQNext
<1> QED BY <1>3, <1>5, <1>7, <1>8, <1>9 DEF ListNext

-----------------------------------------------------------------------------

(***************************************************************************)
(* Lists that elf.c has made cyclic: their pointers keep their types.      *)
(***************************************************************************)

\* schedule() on any list.
LEMMA ScheduleTyped ==
  ASSUME ListTypeOK, NEW m \in Memories, schedule(m), doubled' \in BOOLEAN
  PROVE  ListTypeOK'
<1> DEFINE cur     == current_thread
           next    == IF m.l.head = NULL THEN idle ELSE m.l.head
           popped  == IF m.l.head = NULL THEN m.l ELSE [m.l EXCEPT !.head = m.l.next[next]]
           requeue == m.st[cur] = "running" /\ cur # idle
           st      == IF requeue THEN [m.st EXCEPT ![cur] = "ready"] ELSE m.st
<1>1. /\ list \in Links /\ state \in [Threads -> States]
      /\ cur \in Threads /\ spinning \in BOOLEAN
  BY DEF ListTypeOK, States
<1>2. m.st \in [Threads -> States] /\ m.l \in Links
  BY DEF Memories
<1>3. next \in Threads
  BY <1>2, ThreadFacts DEF Links, Pointers
<1>4. popped \in Links
  <2>1. m.l.next[next] \in Pointers
    BY <1>2, <1>3 DEF Links
  <2> QED BY <1>2, <2>1 DEF Links
<1>5. st \in [Threads -> States] /\ [st EXCEPT ![next] = "running"] \in [Threads -> States]
  BY <1>1, <1>2 DEF States
<1>6. AppendTail(popped, cur) \in Links
  <2> HIDE DEF popped
  <2> QED BY <1>1, <1>4, AppendTyped
<1>7. \/ Spin
      \/ /\ list' = IF requeue THEN AppendTail(popped, cur) ELSE popped
         /\ state' = [st EXCEPT ![next] = "running"]
         /\ current_thread' = next
         /\ spinning' = spinning
  BY Zenon DEF schedule
<1> HIDE DEF popped, st, next
<1>8. /\ list' \in Links /\ state' \in [Threads -> States]
      /\ current_thread' \in Threads /\ spinning' \in BOOLEAN
  BY <1>1, <1>3, <1>4, <1>5, <1>6, <1>7 DEF Spin
<1> QED BY Zenon, <1>8 DEF ListTypeOK, States

\* Every operation, elf_load and sys_exec included, keeps the types.
LEMMA ListNextTyped ==
  ASSUME ListTypeOK, ElfNext
  PROVE  ListTypeOK'
<1>1. /\ list \in Links /\ state \in [Threads -> States] /\ doubled \in BOOLEAN
      /\ current_thread \in Threads /\ spinning \in BOOLEAN
  BY DEF ListTypeOK, States
<1>2. ASSUME NEW l \in Links, NEW t \in Threads PROVE Push(l, t) \in Links
  BY <1>2 DEF Push, Links, Pointers
<1>3. ASSUME NEW l \in Links, NEW st \in [Threads -> States] PROVE Memory(st, l) \in Memories
  BY Zenon, <1>3 DEF Memory, Memories
<1>4. \A t \in Threads, s \in States : [state EXCEPT ![t] = s] \in [Threads -> States]
  BY <1>1
<1>5. /\ \A t \in Workers : t \in Threads
      /\ Uthreads \subseteq Workers /\ {"ready", "blocked", "exited"} \subseteq States
  BY ThreadFacts DEF Workers, States
<1>6. ASSUME NEW t \in Workers, Create(t) \/ elf_load(t) PROVE ListTypeOK'
  <2>1. /\ state' = [state EXCEPT ![t] = "ready"] /\ doubled' \in BOOLEAN
        /\ list' = Push(list, t) \/ list' = Push(Push(list, t), t)
        /\ current_thread' = current_thread /\ spinning' = spinning
    BY <1>1, <1>6 DEF Create, elf_load
  <2>2. list' \in Links
    BY <2>1, <1>1, <1>2, <1>5
  <2>3. state' \in [Threads -> States]
    BY <2>1, <1>4, <1>5
  <2> QED BY Zenon, <2>1, <2>2, <2>3, <1>1 DEF ListTypeOK, States
<1>7. ASSUME NEW t \in Workers, thread_unblock(t) PROVE ListTypeOK'
  <2> DEFINE u == Unblocked(Memory(state, list), t)
  <2>1. u \in Memories
    BY <1>1, <1>3, UnblockTyped
  <2>2. u.st \in [Threads -> States] /\ u.l \in Links
    BY <2>1 DEF Memories
  <2>3. /\ doubled' = doubled
        /\ \/ Spin
           \/ state' = u.st /\ list' = u.l /\ current_thread' = current_thread /\ spinning' = spinning
    BY Zenon, <1>7 DEF thread_unblock
  <2> HIDE DEF u
  <2>4. /\ list' \in Links /\ state' \in [Threads -> States]
        /\ current_thread' \in Threads /\ spinning' \in BOOLEAN /\ doubled' \in BOOLEAN
    BY <2>2, <2>3, <1>1 DEF Spin
  <2> QED BY Zenon, <2>4 DEF ListTypeOK, States
<1>8. ASSUME thread_block PROVE ListTypeOK'
  <2>1. Memory([state EXCEPT ![current_thread] = "blocked"], list) \in Memories
    BY Zenon, <1>1, <1>3, <1>4, <1>5
  <2> QED BY <2>1, <1>1, <1>8, ScheduleTyped DEF thread_block
<1>9. ASSUME thread_exit PROVE ListTypeOK'
  <2>1. Cut(list, current_thread) \in Links
    BY <1>1, AppendTyped
  <2>2. Memory([state EXCEPT ![current_thread] = "exited"], Cut(list, current_thread)) \in Memories
    BY <2>1, <1>1, <1>3, <1>4, <1>5
  <2> QED BY <2>2, <1>1, <1>9, ScheduleTyped DEF thread_exit
<1>10. ASSUME NEW ts \in WakeLists, Reschedule(ts) PROVE ListTypeOK'
  <2> DEFINE M == Memory(state, list)
             C == {t \in Workers : state[t] = "blocked"}
             f == CHOOSE g : IsWakeLoop(g, ts, M)
  <2>1. PICK n \in 0..Cardinality(C) :
          ts \in [1..n -> C] /\ \A i, j \in 1..n : ts[i] = ts[j] => i = j
    BY Zenon, <1>10 DEF WakeLists
  <2>2. ts \in Seq(Workers)
    BY <2>1
  <2>3. M \in Memories
    BY <1>1, <1>3
  <2>4. schedule(f[Len(ts)]) /\ doubled' = doubled
    BY Zenon, <1>10 DEF Reschedule, IsWakeLoop
  <2> HIDE DEF M
  <2>5. IsWakeLoop(f, ts, M)
    <3>1. \E g : IsWakeLoop(g, ts, M)
      BY <2>2, <2>3, WakeLoopExists
    <3> QED BY Zenon, <3>1
  <2> HIDE DEF f
  <2>6. f[Len(ts)] \in Memories
    BY <2>2, <2>3, <2>5, WakeLoopTyped
  <2> QED BY <2>4, <2>6, <1>1, ScheduleTyped
<1>11. ASSUME NEW t \in Uthreads, sys_exec(t) PROVE ListTypeOK'
  <2> DEFINE l == Cut(Push(Push(list, t), t), current_thread)
             st == [state EXCEPT ![t] = "ready", ![current_thread] = "exited"]
  <2>1. Push(list, t) \in Links /\ t \in Threads
    BY <1>1, <1>2, <1>5
  <2>2. Push(Push(list, t), t) \in Links
    BY <2>1, <1>2
  <2>3. l \in Links
    BY <2>2, <1>1, AppendTyped
  <2>4. st \in [Threads -> States]
    BY <1>1 DEF States
  <2>5. schedule(Memory(st, l)) /\ doubled' = TRUE
    BY Zenon, <1>11 DEF sys_exec
  <2> HIDE DEF l, st
  <2>6. Memory(st, l) \in Memories
    BY <2>3, <2>4, <1>3
  <2> QED BY <2>5, <2>6, ScheduleTyped
<1> QED BY <1>5, <1>6, <1>7, <1>8, <1>9, <1>10, <1>11 DEF ElfNext, ListNext

-----------------------------------------------------------------------------

\* The inductive invariant: types, and a good list until elf.c adds a thread twice.
ListIInv == ListTypeOK /\ (~doubled => OnceInv)

\* The invariant holds throughout, with elf_load and sys_exec at any time.
THEOREM ListAlways == ElfSpec => []ListIInv
<1>1. ListInit => ListIInv
  BY ListInitInv DEF ListIInv, OnceInv
<1>2. ListIInv /\ [ElfNext]_vars => ListIInv'
  <2>1. ASSUME ListIInv, UNCHANGED vars PROVE ListIInv'
    <3>1. /\ list' = list /\ state' = state /\ current_thread' = current_thread
          /\ spinning' = spinning /\ doubled' = doubled
      BY <2>1 DEF vars
    <3> QED BY <2>1, <3>1 DEF ListIInv, OnceInv, ListTypeOK
  <2>2. ASSUME ListIInv, ElfNext, ~doubled' PROVE OnceInv'
    <3>1. ListNext
      BY <2>2 DEF ElfNext, elf_load, sys_exec
    <3>2. ~doubled
      BY <2>2, <3>1 DEF ListNext, Create, thread_unblock, thread_block, thread_exit, Reschedule
    <3> QED BY <2>2, <3>1, <3>2, ListNextInv DEF ListIInv
  <2> QED BY <2>1, <2>2, ListNextTyped DEF ListIInv
<1> QED BY <1>1, <1>2, PTL DEF ElfSpec

\* Until elf.c adds a thread twice, the pointers of scheduler.c never form a cycle,
\* also outside the list, and every walk to the tail ends; whatever threads there
\* are.
THEOREM WalksTerminate == ElfSpec => []ListInv
<1>1. ListIInv => ListInv
  <2> SUFFICES ASSUME ListIInv PROVE ListInv
    OBVIOUS
  <2>1. ListTypeOK /\ (~doubled => ~spinning /\ list \in Links /\ Acyclic(list))
    BY DEF ListIInv, OnceInv, GoodList
  <2>2. ~doubled =>
          \A t \in Threads : Len(Walk(list, t, Cardinality(Threads) + 1)) <= Cardinality(Threads)
    BY <2>1, AcyclicTerminates DEF Pointers
  <2> QED BY <2>1, <2>2 DEF ListInv, Terminates
<1> QED BY <1>1, ListAlways, PTL

\* Where each thread is added once, the pointer list implements the queue of
\* ReadyQueue: no thread is lost from it and none is linked twice.
THEOREM ListImplementsQueue == ListSpec => ImplementsQueue
<1>1. ListInit => RQ!RQInit /\ OnceInv
  BY ListInitInv
<1>2. OnceInv /\ [ListNext]_vars => OnceInv'
  <2>1. ASSUME OnceInv, UNCHANGED vars PROVE OnceInv'
    <3>1. /\ list' = list /\ state' = state /\ current_thread' = current_thread
          /\ spinning' = spinning /\ doubled' = doubled
      BY <2>1 DEF vars
    <3> QED BY <2>1, <3>1 DEF OnceInv, ListTypeOK
  <2> QED BY <2>1, ListNextInv
<1>3. OnceInv /\ [ListNext]_vars => [RQ!RQNext]_(RQ!rqVars)
  <2>1. ASSUME UNCHANGED vars PROVE UNCHANGED RQ!rqVars
    BY <2>1 DEF vars, RQ!rqVars
  <2> QED BY <2>1, ListNextInv
<1> QED BY <1>1, <1>2, <1>3, PTL DEF ListSpec, ImplementsQueue, RQ!RQSpec

-----------------------------------------------------------------------------
\* The free pages of pmm.c.

Aligned(a) == \E q \in Nat : a = q * PAGE_SIZE

\* Division by the page size, which is not a number the provers know.
LEMMA DivBounds ==
  ASSUME NEW n \in Nat \ {0}, NEW a \in Nat
  PROVE  /\ a \div n \in Nat
         /\ (a \div n) * n <= a
         /\ a < (a \div n) * n + n
OBVIOUS

\* Multiples of a number are ordered as the factors are.
LEMMA MulLess ==
  ASSUME NEW n \in Nat \ {0}, NEW a \in Nat, NEW b \in Nat, a * n < b * n
  PROVE  a < b
OBVIOUS

\* The next multiple.
LEMMA MulNext ==
  ASSUME NEW n \in Nat \ {0}, NEW a \in Nat, NEW b \in Nat, a < b
  PROVE  a * n + n = (a + 1) * n /\ (a + 1) * n <= b * n
OBVIOUS

\* A multiple leaves no remainder.
LEMMA MulMod ==
  ASSUME NEW n \in Nat \ {0}, NEW a \in Nat
  PROVE  (a * n) % n = 0 /\ a * n \in Nat
OBVIOUS

\* Rounding down goes to the page that holds the address.
LEMMA RoundDownBounds ==
  ASSUME NEW a \in Nat
  PROVE  /\ RoundDown(a) \in Nat
         /\ RoundDown(a) <= a
         /\ a < RoundDown(a) + PAGE_SIZE
         /\ Aligned(RoundDown(a))
<1>1. PAGE_SIZE \in Nat \ {0}
  BY MemMapAssumption
<1>2. RoundDown(a) <= a /\ a < RoundDown(a) + PAGE_SIZE /\ a \div PAGE_SIZE \in Nat
  BY <1>1, DivBounds DEF RoundDown
<1> QED BY <1>1, <1>2, MulMod DEF RoundDown, Aligned

\* Between two aligned addresses there is room for a page.
LEMMA NextAligned ==
  ASSUME NEW a, NEW b, Aligned(a), Aligned(b), a < b
  PROVE  a + PAGE_SIZE <= b /\ Aligned(a + PAGE_SIZE)
<1>1. PAGE_SIZE \in Nat \ {0}
  BY MemMapAssumption
<1>2. PICK q \in Nat, r \in Nat : a = q * PAGE_SIZE /\ b = r * PAGE_SIZE
  BY DEF Aligned
<1>3. q < r
  BY <1>1, <1>2, MulLess
<1>4. a + PAGE_SIZE = (q + 1) * PAGE_SIZE /\ (q + 1) * PAGE_SIZE <= b
  BY <1>1, <1>2, <1>3, MulNext
<1> QED BY <1>2, <1>4 DEF Aligned

\* Where the scan of an entry begins and ends.
LEMMA EntryBounds ==
  ASSUME NEW e \in Entries
  PROVE  /\ MemMap[e].base \in Nat /\ Limit(e) \in Nat /\ MemMap[e].usable \in BOOLEAN
         /\ First(e) \in Nat /\ MemMap[e].base <= First(e) /\ Aligned(First(e))
         /\ End(e) \in Nat /\ End(e) <= Limit(e) /\ Aligned(End(e))
<1>1. MemMap[e] \in [base : Nat, length : Nat, usable : BOOLEAN]
  <2>1. MemMap \in Seq([base : Nat, length : Nat, usable : BOOLEAN]) /\ e \in 1..Len(MemMap)
    BY MemMapAssumption DEF Entries
  <2> QED BY Zenon, <2>1, ElementOfSeq
<1>2. /\ MemMap[e].base \in Nat /\ Limit(e) \in Nat /\ MemMap[e].usable \in BOOLEAN
      /\ MemMap[e].base + PAGE_SIZE - 1 \in Nat
  BY <1>1, MemMapAssumption DEF Limit
<1>3. /\ RoundDown(MemMap[e].base + PAGE_SIZE - 1) \in Nat
      /\ MemMap[e].base + PAGE_SIZE - 1 < RoundDown(MemMap[e].base + PAGE_SIZE - 1) + PAGE_SIZE
      /\ Aligned(RoundDown(MemMap[e].base + PAGE_SIZE - 1))
  BY <1>2, RoundDownBounds
<1>4. MemMap[e].base <= First(e)
  <2>1. \A b, r, s \in Nat : b + s - 1 < r + s => b <= r
    OBVIOUS
  <2>2. PAGE_SIZE \in Nat
    BY MemMapAssumption
  <2> QED BY <1>2, <1>3, <2>1, <2>2 DEF First
<1>5. End(e) \in Nat /\ End(e) <= Limit(e) /\ Aligned(End(e))
  BY <1>2, RoundDownBounds DEF End
<1> QED BY <1>2, <1>3, <1>4, <1>5 DEF First

-----------------------------------------------------------------------------

\* PmmTypeOK without the bound on free_stack, which follows from RoomInv.
PmmTypes ==
  /\ entry \in Nat
  /\ base \in Nat
  /\ free_stack \in Seq(Nat)
  /\ used \subseteq Nat

\* Page p was found in entry e by the scan so far.
Found(p, e) ==
  /\ MemMap[e].usable
  /\ MemMap[e].base <= p
  /\ p + PAGE_SIZE <= Limit(e)
  /\ e <= entry
  /\ e = entry => p < base

\* Where the scan stands, and where every page known so far was found.
ScanInv ==
  /\ entry \in Entries => Aligned(base) /\ base >= First(entry) /\ used = {}
  /\ \A p \in Free \cup used : Aligned(p) /\ \E e \in Entries : Found(p, e)

\* There is room for every page in use to come back.
RoomInv ==
  /\ IsFiniteSet(used)
  /\ Len(free_stack) + Cardinality(used) <= MAX_FREE_LIST

PmmInv == PmmTypes /\ PageHasOneOwner /\ ScanInv /\ RoomInv

\* Before the scan there are no pages.
LEMMA PmmInitInv == PmmInit => PmmInv
<1> SUFFICES ASSUME PmmInit PROVE PmmInv
  OBVIOUS
<1>1. Len(MemMap) \in Nat /\ (Len(MemMap) > 0 => 1 \in Entries)
  BY MemMapAssumption DEF Entries
<1>2. PmmTypes /\ Free = {}
  BY <1>1, EntryBounds DEF PmmInit, PmmTypes, Free
<1>3. ScanInv
  <2>1. 1 \in Entries => Len(MemMap) > 0 /\ Aligned(First(1)) /\ First(1) \in Nat
    BY <1>1, EntryBounds DEF Entries
  <2> QED BY <1>2, <2>1 DEF PmmInit, ScanInv
<1>4. RoomInv
  BY FS_EmptySet, MemMapAssumption DEF PmmInit, RoomInv
<1> QED BY <1>2, <1>3, <1>4 DEF PmmInit, PmmInv, PageHasOneOwner

\* The page the scan comes to is on no list yet.
LEMMA ScanFindsNew ==
  ASSUME PmmInv, pmm_init_page
  PROVE  /\ base \notin Free
         /\ base + PAGE_SIZE <= Limit(entry)
         /\ Aligned(base + PAGE_SIZE)
         /\ MemMap[entry].base <= base
         /\ MemMap[entry].usable
<1> USE DEF PmmInv
<1>1. entry \in Entries /\ MemMap[entry].usable /\ base < End(entry) /\ base \in Nat
  BY DEF pmm_init_page, HasPage, PmmTypes
<1>2. /\ MemMap[entry].base \in Nat /\ MemMap[entry].base <= base
      /\ End(entry) \in Nat /\ End(entry) <= Limit(entry) /\ Limit(entry) \in Nat
      /\ Aligned(base)
  <2>1. base >= First(entry) /\ Aligned(base)
    BY <1>1 DEF ScanInv
  <2> QED BY <1>1, <2>1, EntryBounds
<1>3. base + PAGE_SIZE <= End(entry) /\ Aligned(base + PAGE_SIZE)
  BY <1>1, <1>2, EntryBounds, NextAligned
<1>4. base + PAGE_SIZE <= Limit(entry)
  BY <1>1, <1>2, <1>3, MemMapAssumption
<1>5. ASSUME base \in Free PROVE FALSE
  <2>1. PICK e \in Entries : Found(base, e)
    BY <1>5 DEF ScanInv
  <2>2. e # entry
    BY <1>1, <2>1 DEF Found
  <2>3. Limit(e) <= MemMap[entry].base \/ Limit(entry) <= MemMap[e].base
    BY <1>1, <2>1, <2>2, MemMapAssumption DEF Found
  <2>4. Limit(e) \in Nat /\ MemMap[e].base \in Nat
    BY EntryBounds
  <2>5. PAGE_SIZE \in Nat /\ PAGE_SIZE > 0
    BY MemMapAssumption
  <2>6. MemMap[e].base <= base /\ base + PAGE_SIZE <= Limit(e)
    BY <2>1 DEF Found
  <2> QED BY <1>1, <1>2, <1>4, <2>3, <2>4, <2>5, <2>6
<1> QED BY <1>1, <1>2, <1>3, <1>4, <1>5

\* A turn of pmm_init that pushes a page.
LEMMA InitPageInv == PmmInv /\ pmm_init_page => PmmInv'
<1> SUFFICES ASSUME PmmInv, pmm_init_page PROVE PmmInv'
  OBVIOUS
<1> USE DEF PmmInv
<1>1. /\ entry \in Entries /\ base \in Nat /\ free_stack \in Seq(Nat) /\ used \subseteq Nat
      /\ entry' = entry /\ used' = used /\ base' = base + PAGE_SIZE
      /\ free_stack' = Append(free_stack, base)
      /\ Len(free_stack) < MAX_FREE_LIST /\ used = {}
      /\ PAGE_SIZE \in Nat /\ PAGE_SIZE > 0
  BY MemMapAssumption DEF pmm_init_page, HasPage, PmmTypes, ScanInv
<1>2. /\ Len(free_stack') = Len(free_stack) + 1 /\ Len(free_stack) \in Nat
      /\ \A i \in 1..Len(free_stack) : free_stack'[i] = free_stack[i]
      /\ free_stack'[Len(free_stack) + 1] = base
  BY <1>1
<1>3. Free' = Free \cup {base}
  BY <1>2 DEF Free
<1>4. PmmTypes'
  BY <1>1 DEF PmmTypes
<1>5. PageHasOneOwner'
  <2>1. \A i \in 1..Len(free_stack) : free_stack[i] # base
    BY ScanFindsNew DEF Free
  <2>2. ASSUME NEW i \in 1..Len(free_stack'), NEW j \in 1..Len(free_stack'),
               free_stack'[i] = free_stack'[j]
        PROVE  i = j
    <3>1. CASE i \in 1..Len(free_stack) /\ j \in 1..Len(free_stack)
      BY <1>2, <2>2, <3>1 DEF PageHasOneOwner
    <3>2. CASE i = Len(free_stack) + 1 \/ j = Len(free_stack) + 1
      BY <1>2, <2>1, <2>2, <3>2
    <3> QED BY <1>2, <3>1, <3>2
  <2> QED BY <1>1, <2>2 DEF PageHasOneOwner
<1>6. ScanInv'
  <2>1. Aligned(base) /\ base >= First(entry) /\ First(entry) \in Nat
    BY <1>1, EntryBounds DEF ScanInv
  <2>2. base' >= First(entry)' /\ Aligned(base)'
    BY <1>1, <2>1, ScanFindsNew DEF First, RoundDown, Aligned
  <2>3. \A p : p = base => Found(p, entry)'
    BY <1>1, ScanFindsNew, EntryBounds DEF Found, Limit, PmmTypes
  <2>4. \A p \in Nat, e \in Entries : Found(p, e) => Found(p, e)'
    BY <1>1 DEF Found, Limit
  <2>5. \A p \in Free : p \in Nat
    BY <1>1, <1>2, ElementOfSeq DEF Free
  <2>6. \A p \in (Free \cup used)' : Aligned(p)' /\ (\E e \in Entries : Found(p, e))'
    <3> SUFFICES ASSUME NEW p \in Free \cup {base}
                 PROVE  Aligned(p) /\ \E e \in Entries : Found(p, e)'
      BY Zenon, <1>1, <1>3 DEF Aligned, Entries
    <3>1. CASE p = base
      BY <1>1, <2>1, <2>3, <3>1
    <3>2. CASE p \in Free
      BY <2>4, <2>5, <3>2 DEF ScanInv
    <3> QED BY <3>1, <3>2
  <2> QED BY <1>1, <2>2, <2>6 DEF ScanInv
<1>7. RoomInv'
  BY <1>1, <1>2, FS_EmptySet, MemMapAssumption DEF RoomInv
<1> QED BY <1>4, <1>5, <1>6, <1>7

\* The step of pmm_init to the next entry: what it left behind stays found.
LEMMA InitEntryInv == PmmInv /\ pmm_init_entry => PmmInv'
<1> SUFFICES ASSUME PmmInv, pmm_init_entry PROVE PmmInv'
  OBVIOUS
<1> USE DEF PmmInv
<1>1. /\ entry \in Entries /\ entry \in Nat /\ base \in Nat /\ entry' = entry + 1
      /\ UNCHANGED <<free_stack, used>> /\ used = {}
      /\ entry' \in Entries => base' = First(entry')
      /\ entry' \notin Entries => base' = 0
  BY DEF pmm_init_entry, PmmTypes, ScanInv
<1>2. base' \in Nat /\ Free' = Free
  BY <1>1, EntryBounds DEF Free
<1>3. PmmTypes' /\ PageHasOneOwner' /\ RoomInv'
  BY <1>1, <1>2 DEF PmmTypes, PageHasOneOwner, RoomInv, Free
<1>4. ScanInv'
  <2>1. entry' \in Entries => Aligned(base)' /\ base' >= First(entry')
    BY <1>1, EntryBounds DEF Aligned
  <2>2. \A p, e : e \in Entries /\ Found(p, e) => Found(p, e)'
    BY <1>1 DEF Found, Entries, Limit
  <2> QED BY <1>1, <1>2, <2>1, <2>2 DEF ScanInv, Aligned, Entries, First
<1> QED BY <1>3, <1>4

\* A page taken from the top of the stack.
LEMMA AllocInv ==
  ASSUME PmmInv, pmm_alloc_page
  PROVE  PmmInv' /\ (Free \cup used)' = Free \cup used
<1> USE DEF PmmInv
<1> DEFINE n == Len(free_stack)
           p == free_stack[n]
<1>1. /\ entry \notin Entries /\ entry \in Nat /\ base \in Nat /\ free_stack \in Seq(Nat)
      /\ used \subseteq Nat /\ free_stack # <<>>
      /\ UNCHANGED <<entry, base>> /\ used' = used \cup {p}
      /\ free_stack' = SubSeq(free_stack, 1, n - 1)
  BY DEF pmm_alloc_page, Booted, PmmTypes
<1>2. /\ n \in Nat /\ n > 0 /\ p \in Nat
      /\ free_stack' \in Seq(Nat) /\ Len(free_stack') = n - 1
      /\ \A i \in 1..(n - 1) : free_stack'[i] = free_stack[i]
  <2>1. n \in Nat /\ n > 0
    BY <1>1
  <2>2. p \in Nat
    BY <1>1, <2>1, ElementOfSeq
  <2>3. \A i \in 1..(n - 1) : i \in 1..n
    BY <2>1
  <2>4. /\ free_stack' \in Seq(Nat) /\ Len(free_stack') = n - 1
        /\ \A i \in 1..(n - 1) : free_stack'[i] = free_stack[i]
    <3>1. n - 1 \in Int /\ 1 \in Int /\ \A i \in 1..(n - 1) : free_stack[i] \in Nat
      BY <1>1, <2>1, <2>3, ElementOfSeq
    <3> HIDE DEF n
    <3>2. /\ SubSeq(free_stack, 1, n - 1) \in Seq(Nat)
          /\ Len(SubSeq(free_stack, 1, n - 1)) = IF 1 <= n - 1 THEN n - 1 - 1 + 1 ELSE 0
          /\ \A i \in 1..(n - 1 - 1 + 1) : SubSeq(free_stack, 1, n - 1)[i] = free_stack[1 + i - 1]
      BY <3>1, SubSeqProperties
    <3>3. n - 1 - 1 + 1 = n - 1 /\ \A i \in 1..(n - 1) : 1 + i - 1 = i
      BY <2>1
    <3> QED BY <1>1, <2>1, <3>2, <3>3
  <2> QED BY <2>1, <2>2, <2>4
<1>3. Free = Free' \cup {p}
  <2>1. Free = {free_stack[i] : i \in 1..(n - 1)} \cup {free_stack[n]}
    BY <1>2 DEF Free
  <2>2. Free' = {free_stack[i] : i \in 1..(n - 1)}
    BY <1>2 DEF Free
  <2> QED BY <2>1, <2>2
<1>4. p \notin Free' /\ p \notin used
  <2>1. \A i \in 1..(n - 1) : free_stack[i] # p
    BY <1>2 DEF PageHasOneOwner
  <2>2. p \in Free
    BY <1>3
  <2> QED BY <1>2, <2>1, <2>2 DEF PageHasOneOwner, Free
<1>5. PmmTypes'
  BY Zenon, <1>1, <1>2 DEF PmmTypes
<1>6. PageHasOneOwner'
  <2>1. \A i, j \in 1..(n - 1) : free_stack'[i] = free_stack'[j] => i = j
    <3>1. \A i, j \in 1..n : free_stack[i] = free_stack[j] => i = j
      BY DEF PageHasOneOwner
    <3>2. \A i \in 1..(n - 1) : i \in 1..n
      BY <1>2
    <3> QED BY <1>2, <3>1, <3>2
  <2>2. Free' \cap used' = {}
    BY <1>1, <1>3, <1>4 DEF PageHasOneOwner
  <2> QED BY <1>2, <2>1, <2>2 DEF PageHasOneOwner
<1>7. (Free \cup used)' = Free \cup used
  BY <1>1, <1>3
<1>8. ScanInv'
  BY <1>1, <1>7 DEF ScanInv, Found, Limit, Entries, Aligned
<1>9. RoomInv'
  <2>1. IsFiniteSet(used') /\ Cardinality(used') = Cardinality(used) + 1
    BY Zenon, <1>1, <1>4, FS_AddElement DEF RoomInv
  <2>2. Cardinality(used) \in Nat
    BY FS_CardinalityType DEF RoomInv
  <2> QED BY <1>2, <2>1, <2>2, MemMapAssumption DEF RoomInv
<1> QED BY <1>5, <1>6, <1>7, <1>8, <1>9

\* A page put back: the stack has room for it.
LEMMA FreeInv ==
  ASSUME PmmInv, NEW p \in used, pmm_free_page(p)
  PROVE  PmmInv' /\ (Free \cup used)' = Free \cup used
<1> USE DEF PmmInv
<1> DEFINE n == Len(free_stack)
<1>1. /\ entry \notin Entries /\ entry \in Nat /\ base \in Nat /\ free_stack \in Seq(Nat)
      /\ used \subseteq Nat /\ n \in Nat
      /\ UNCHANGED <<entry, base>> /\ used' = used \ {p}
  BY DEF pmm_free_page, Booted, PmmTypes
<1>2. /\ IsFiniteSet(used') /\ Cardinality(used') = Cardinality(used) - 1
      /\ Cardinality(used) \in Nat /\ Cardinality(used') \in Nat
  BY <1>1, FS_RemoveElement, FS_CardinalityType DEF RoomInv
<1>3. n < MAX_FREE_LIST
  BY <1>1, <1>2, MemMapAssumption DEF RoomInv
<1>4. free_stack' = Append(free_stack, p) /\ p \in Nat
  BY <1>1, <1>3 DEF pmm_free_page
<1>5. /\ Len(free_stack') = n + 1
      /\ \A i \in 1..n : free_stack'[i] = free_stack[i]
      /\ free_stack'[n + 1] = p
  BY <1>1, <1>4
<1>6. Free' = Free \cup {p} /\ p \notin Free
  BY <1>1, <1>5 DEF Free, PageHasOneOwner
<1>7. PmmTypes'
  BY <1>1, <1>4 DEF PmmTypes
<1>8. PageHasOneOwner'
  <2>1. \A i \in 1..n : free_stack[i] # p
    BY <1>6 DEF Free
  <2>2. ASSUME NEW i \in 1..(n + 1), NEW j \in 1..(n + 1), free_stack'[i] = free_stack'[j]
        PROVE  i = j
    <3>1. CASE i \in 1..n /\ j \in 1..n
      BY <1>5, <2>2, <3>1 DEF PageHasOneOwner
    <3>2. CASE i = n + 1 \/ j = n + 1
      BY <1>1, <1>5, <2>1, <2>2, <3>2
    <3> QED BY <1>1, <3>1, <3>2
  <2>3. Free' \cap used' = {}
    BY <1>1, <1>6 DEF PageHasOneOwner
  <2> QED BY <1>5, <2>2, <2>3 DEF PageHasOneOwner
<1>9. (Free \cup used)' = Free \cup used
  BY <1>1, <1>6
<1>10. ScanInv'
  BY <1>1, <1>9 DEF ScanInv, Found, Limit, Entries, Aligned
<1>11. RoomInv'
  BY <1>1, <1>2, <1>5, MemMapAssumption DEF RoomInv
<1> QED BY <1>7, <1>8, <1>9, <1>10, <1>11

-----------------------------------------------------------------------------

\* The allocator keeps its invariant.
THEOREM PmmInvariant == PmmSpec => []PmmInv
<1>1. PmmInv /\ [PmmNext]_pmmVars => PmmInv'
  <2> SUFFICES ASSUME PmmInv, [PmmNext]_pmmVars PROVE PmmInv'
    OBVIOUS
  <2>1. CASE pmm_init_page
    BY <2>1, InitPageInv
  <2>2. CASE pmm_init_entry
    BY <2>2, InitEntryInv
  <2>3. CASE pmm_alloc_page
    BY <2>3, AllocInv
  <2>4. CASE \E p \in used : pmm_free_page(p)
    BY <2>4, FreeInv
  <2>5. CASE UNCHANGED pmmVars
    <3>1. entry' = entry /\ base' = base /\ free_stack' = free_stack /\ used' = used
      BY <2>5 DEF pmmVars
    <3>2. PmmTypes' /\ PageHasOneOwner' /\ RoomInv'
      BY <3>1 DEF PmmInv, PmmTypes, PageHasOneOwner, RoomInv, Free
    <3>3. ScanInv'
      BY <3>1 DEF PmmInv, ScanInv, Found, Free
    <3> QED BY <3>2, <3>3 DEF PmmInv
  <2> QED BY <2>1, <2>2, <2>3, <2>4, <2>5 DEF PmmNext
<1> QED BY <1>1, PmmInitInv, PTL DEF PmmSpec

\* The variables keep their types and free_stack its bounds.
THEOREM PmmTypeCorrect == PmmSpec => []PmmTypeOK
<1>1. PmmInv => PmmTypeOK
  BY FS_CardinalityType, MemMapAssumption DEF PmmInv, PmmTypes, RoomInv, PmmTypeOK
<1> QED BY <1>1, PmmInvariant, PTL

\* No page is handed out twice (pmm_alloc_page, pmm_free_page).
THEOREM OneOwner == PmmSpec => []PageHasOneOwner
BY PmmInvariant, PTL DEF PmmInv

\* Every page pmm_alloc_page can return is aligned and lies inside usable
\* memory (the rounding in pmm_init).
THEOREM OnlyUsablePages == PmmSpec => []PagesUsable
<1>1. PmmInv => PagesUsable
  <2> SUFFICES ASSUME PmmInv, NEW p \in Free \cup used
               PROVE  /\ p # 0
                      /\ p % PAGE_SIZE = 0
                      /\ \E e \in Entries : /\ MemMap[e].usable
                                            /\ MemMap[e].base <= p
                                            /\ p + PAGE_SIZE <= Limit(e)
    BY DEF PagesUsable
  <2>1. PICK e \in Entries : Found(p, e)
    BY DEF PmmInv, ScanInv
  <2>2. p # 0
    BY <2>1, EntryBounds, MemMapAssumption DEF Found
  <2>3. p % PAGE_SIZE = 0
    BY Zenon, MulMod, MemMapAssumption DEF PmmInv, ScanInv, Aligned
  <2> QED BY <2>1, <2>2, <2>3 DEF Found
<1> QED BY <1>1, PmmInvariant, PTL

\* After pmm_init no page is lost: pmm_free_page never finds free_stack full.
THEOREM NoPageLost == PmmSpec => PagesConserved
<1>1. PmmInv /\ [PmmNext]_pmmVars => [Booted => (Free \cup used)' = Free \cup used]_pmmVars
  <2> SUFFICES ASSUME PmmInv, PmmNext, Booted PROVE (Free \cup used)' = Free \cup used
    OBVIOUS
  <2>1. CASE pmm_init_page \/ pmm_init_entry
    BY <2>1 DEF Booted, pmm_init_page, pmm_init_entry
  <2>2. CASE pmm_alloc_page
    BY <2>2, AllocInv
  <2>3. CASE \E p \in used : pmm_free_page(p)
    BY <2>3, FreeInv
  <2> QED BY <2>1, <2>2, <2>3 DEF PmmNext
<1> QED BY <1>1, PmmInvariant, PTL DEF PmmSpec, PagesConserved
=============================================================================
