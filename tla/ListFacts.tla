------------------------------ MODULE ListFacts ------------------------------
(***************************************************************************)
(* A list that links each element of a set exactly once, and how the list  *)
(* operations of the kernel (push, append, pop, splice) keep it so; and    *)
(* induction and loops, for what the model computes with recursive         *)
(* functions.                                                              *)
(***************************************************************************)
EXTENDS Integers, Sequences, WellFoundedInduction, TLAPS

Lists(q, R) ==
  /\ q \in Seq(R)
  /\ \A i, j \in 1..Len(q) : q[i] = q[j] => i = j
  /\ \A t \in R : \E i \in 1..Len(q) : q[i] = t

\* A sequence whose elements are in S is a sequence over S.
LEMMA SeqOver ==
  ASSUME NEW R, NEW S, NEW s \in Seq(R), \A i \in 1..Len(s) : s[i] \in S
  PROVE  s \in Seq(S)
<1>1. Len(s) \in Nat /\ s = [i \in 1..Len(s) |-> s[i]]
  OBVIOUS
<1>2. s \in [1..Len(s) -> S]
  BY <1>1
<1> QED BY <1>1, <1>2

\* The empty list links the empty set, and no other.
LEMMA ListsEmpty ==
  ASSUME NEW R
  PROVE  Lists(<<>>, R) <=> R = {}
BY DEF Lists

\* Appending at the tail: thread_unblock, and schedule() for the thread it
\* takes the CPU from.
LEMMA ListsAppend ==
  ASSUME NEW R, NEW q, Lists(q, R), NEW t, t \notin R
  PROVE  Lists(Append(q, t), R \cup {t})
<1>1. /\ q \in Seq(R \cup {t})
      /\ Append(q, t) \in Seq(R \cup {t})
      /\ Len(Append(q, t)) = Len(q) + 1
      /\ \A i \in 1..Len(q) : Append(q, t)[i] = q[i] /\ q[i] \in R
      /\ Append(q, t)[Len(q) + 1] = t
      /\ Len(q) \in Nat
  BY DEF Lists
<1>2. ASSUME NEW i \in 1..(Len(q) + 1), NEW j \in 1..(Len(q) + 1),
             Append(q, t)[i] = Append(q, t)[j]
      PROVE  i = j
  <2>1. CASE i <= Len(q) /\ j <= Len(q)
    <3>1. i \in 1..Len(q) /\ j \in 1..Len(q) /\ q[i] = q[j]
      BY <2>1, <1>1, <1>2
    <3> QED BY <3>1 DEF Lists
  <2>2. CASE i = Len(q) + 1 \/ j = Len(q) + 1
    BY <2>2, <1>1, <1>2
  <2> QED BY <2>1, <2>2, <1>1
<1>3. \A u \in R \cup {t} : \E i \in 1..Len(Append(q, t)) : Append(q, t)[i] = u
  <2>1. \E i \in 1..Len(Append(q, t)) : Append(q, t)[i] = t
    BY <1>1
  <2>2. ASSUME NEW u \in R
        PROVE  \E i \in 1..Len(Append(q, t)) : Append(q, t)[i] = u
    BY <1>1 DEF Lists
  <2> QED BY <2>1, <2>2
<1> QED BY <1>1, <1>2, <1>3 DEF Lists

\* Splicing two lists of different elements: a run of thread_unblock calls.
LEMMA ListsConcat ==
  ASSUME NEW R, NEW S, NEW q, NEW p, Lists(q, R), Lists(p, S), R \cap S = {}
  PROVE  Lists(q \o p, R \cup S)
<1> DEFINE m == Len(q)
           n == Len(p)
<1>1. /\ q \in Seq(R \cup S)
      /\ p \in Seq(R \cup S)
      /\ m \in Nat
      /\ n \in Nat
      /\ \A i \in 1..m : q[i] \in R
      /\ \A i \in 1..n : p[i] \in S
  BY DEF Lists
<1>2. /\ q \o p \in Seq(R \cup S)
      /\ Len(q \o p) = m + n
      /\ \A i \in 1..m : (q \o p)[i] = q[i]
      /\ \A i \in (m + 1)..(m + n) : (q \o p)[i] = p[i - m]
  BY <1>1
<1>3. ASSUME NEW i \in 1..(m + n), NEW j \in 1..(m + n), (q \o p)[i] = (q \o p)[j]
      PROVE  i = j
  <2>1. CASE i <= m /\ j <= m
    BY <2>1, <1>1, <1>2, <1>3 DEF Lists
  <2>2. CASE i > m /\ j > m
    <3>1. i - m \in 1..n /\ j - m \in 1..n /\ p[i - m] = p[j - m]
      BY <2>2, <1>1, <1>2, <1>3
    <3>2. i - m = j - m
      BY <3>1 DEF Lists
    <3> QED BY <3>2, <1>1
  <2>3. CASE (i <= m /\ j > m) \/ (i > m /\ j <= m)
    BY <2>3, <1>1, <1>2, <1>3
  <2> QED BY <2>1, <2>2, <2>3, <1>1
<1>4. ASSUME NEW t \in R PROVE \E i \in 1..(m + n) : (q \o p)[i] = t
  BY <1>1, <1>2 DEF Lists
<1>5. ASSUME NEW t \in S PROVE \E i \in 1..(m + n) : (q \o p)[i] = t
  <2>1. PICK k \in 1..n : p[k] = t
    BY DEF Lists
  <2>2. k + m \in 1..(m + n) /\ (q \o p)[k + m] = t
    BY <2>1, <1>1, <1>2
  <2> QED BY <2>2
<1> QED BY <1>1, <1>2, <1>3, <1>4, <1>5 DEF Lists

\* A list of one element.
LEMMA ListsSingle ==
  ASSUME NEW t
  PROVE  Lists(<<t>>, {t})
BY DEF Lists

\* Pushing at the head: scheduler_add_thread and the IPC wait queues.
LEMMA ListsPush ==
  ASSUME NEW R, NEW q, Lists(q, R), NEW t, t \notin R
  PROVE  Lists(<<t>> \o q, R \cup {t})
<1>1. Lists(<<t>>, {t})
  BY ListsSingle
<1>2. Lists(<<t>> \o q, {t} \cup R)
  BY <1>1, ListsConcat
<1>3. {t} \cup R = R \cup {t}
  OBVIOUS
<1> QED BY <1>2, <1>3

\* Popping the head: schedule() and the IPC wait queues.
LEMMA ListsPop ==
  ASSUME NEW R, NEW q, Lists(q, R), q # <<>>
  PROVE  Head(q) \in R /\ Lists(Tail(q), R \ {Head(q)})
<1>1. /\ Head(q) = q[1]
      /\ Len(q) \in Nat \ {0}
      /\ Tail(q) \in Seq(R)
      /\ Len(Tail(q)) = Len(q) - 1
      /\ \A i \in 1..(Len(q) - 1) : Tail(q)[i] = q[i + 1]
      /\ \A i \in 1..Len(q) : q[i] \in R
  BY DEF Lists
<1>2. \A i \in 1..Len(Tail(q)) : Tail(q)[i] \in R \ {Head(q)}
  BY <1>1 DEF Lists
<1>3. Tail(q) \in Seq(R \ {Head(q)})
  BY <1>1, <1>2, SeqOver
<1>4. \A i, j \in 1..Len(Tail(q)) : Tail(q)[i] = Tail(q)[j] => i = j
  BY <1>1 DEF Lists
<1>5. ASSUME NEW t \in R \ {Head(q)} PROVE \E i \in 1..Len(Tail(q)) : Tail(q)[i] = t
  <2>1. PICK k \in 1..Len(q) : q[k] = t
    BY DEF Lists
  <2>2. k - 1 \in 1..Len(Tail(q)) /\ Tail(q)[k - 1] = t
    BY <2>1, <1>1
  <2> QED BY <2>2
<1> QED BY <1>1, <1>3, <1>4, <1>5 DEF Lists

-----------------------------------------------------------------------------

\* A non-empty set of naturals has a least member.
LEMMA LeastMember ==
  ASSUME NEW I, I \subseteq Nat, I # {}
  PROVE  \E x \in I : \A y \in I : x <= y
<1> DEFINE R == OpToRel(<, Nat)
<1>1. \A x, y \in Nat : <<y, x>> \in R <=> y < x
  BY DEF OpToRel
<1> HIDE DEF R
<1>2. IsWellFoundedOn(R, Nat)
  BY NatLessThanWellFounded DEF R
<1>3. PICK x \in I : \A y \in I : ~(<<y, x>> \in R)
  BY <1>2, WFMin
<1>4. ASSUME NEW y \in I PROVE x <= y
  <2>1. x \in Nat /\ y \in Nat
    OBVIOUS
  <2>2. ~(y < x)
    BY <1>1, <1>3, <2>1
  <2> QED BY <2>1, <2>2
<1> QED BY <1>4

\* Induction, for the property of being a member of a set.
LEMMA Induction ==
  ASSUME NEW S, 0 \in S, \A n \in Nat : n \in S => n + 1 \in S
  PROVE  Nat \subseteq S
<1> DEFINE I == Nat \ S
<1>1. SUFFICES ASSUME I # {} PROVE FALSE
  OBVIOUS
<1>2. PICK x \in I : \A y \in I : x <= y
  BY <1>1, LeastMember
<1>3. x \in Nat \ {0}
  BY <1>2
<1>4. x - 1 \in Nat /\ ~(x <= x - 1) /\ (x - 1) + 1 = x
  BY <1>3
<1>5. x - 1 \in S
  BY <1>2, <1>4
<1> QED BY <1>2, <1>4, <1>5

\* A loop of n turns: turn k takes the value v to F[<<k, v>>].
IsLoop(g, n, a, F) ==
  /\ DOMAIN g = 0..n
  /\ g[0] = a
  /\ \A k \in 1..n : g[k] = F[<<k, g[k - 1]>>]

\* Such a loop computes something: the recursive function that stands for it exists.
LEMMA LoopExists ==
  ASSUME NEW T, NEW a \in T, NEW N \in Nat, NEW F \in [(1..N) \X T -> T]
  PROVE  \E g \in [0..N -> T] : IsLoop(g, N, a, F)
<1> DEFINE S == {n \in Nat : n <= N => \E g \in [0..n -> T] : IsLoop(g, n, a, F)}
<1>1. 0 \in S
  <2> DEFINE g == [k \in 0..0 |-> a]
  <2>1. g \in [0..0 -> T] /\ IsLoop(g, 0, a, F)
    BY DEF IsLoop
  <2> QED BY <2>1
<1>2. ASSUME NEW n \in Nat, n \in S, n + 1 <= N
      PROVE  \E g \in [0..(n + 1) -> T] : IsLoop(g, n + 1, a, F)
  <2>1. PICK g \in [0..n -> T] : IsLoop(g, n, a, F)
    BY <1>2
  <2> DEFINE h == [k \in 0..(n + 1) |-> IF k = n + 1 THEN F[<<n + 1, g[n]>>] ELSE g[k]]
  <2>2. g[n] \in T /\ F[<<n + 1, g[n]>>] \in T
    <3>1. g[n] \in T /\ n + 1 \in 1..N
      BY <1>2, <2>1
    <3> QED BY <3>1
  <2>3. h \in [0..(n + 1) -> T]
    BY <2>1, <2>2
  <2>4. h[n + 1] = F[<<n + 1, g[n]>>] /\ \A k \in 0..n : h[k] = g[k]
    OBVIOUS
  <2>5. ASSUME NEW k \in 1..(n + 1) PROVE h[k] = F[<<k, h[k - 1]>>]
    <3>1. k - 1 \in 0..n /\ h[k - 1] = g[k - 1]
      BY <2>4
    <3>2. CASE k = n + 1
      <4>1. k - 1 = n
        BY <3>2
      <4> QED BY <3>1, <3>2, <4>1, <2>4
    <3>3. CASE k # n + 1
      <4>1. k \in 1..n /\ h[k] = g[k]
        BY <3>3, <2>4
      <4> QED BY <3>1, <4>1, <2>1 DEF IsLoop
    <3> QED BY <3>2, <3>3
  <2>6. h[0] = a
    BY <2>1, <2>4 DEF IsLoop
  <2>7. IsLoop(h, n + 1, a, F)
    BY <2>3, <2>5, <2>6 DEF IsLoop
  <2> QED BY <2>3, <2>7
<1>3. \A n \in Nat : n \in S => n + 1 \in S
  BY <1>2
<1>4. N \in S
  <2> HIDE DEF S
  <2> QED BY <1>1, <1>3, Induction
<1> QED BY <1>4

-----------------------------------------------------------------------------

(***************************************************************************)
(* A loop over a list that takes some of its entries.                      *)
(***************************************************************************)

\* r holds the entries of q at the positions I up to n, in their order: h says where in q
\* each entry of r was.
Picks(h, r, q, I, n) ==
  /\ h \in [1..Len(r) -> 1..n]
  /\ \A k \in 1..Len(r) : h[k] \in I /\ r[k] = q[h[k]]
  /\ \A k, l \in 1..Len(r) : k < l => h[k] < h[l]
  /\ \A i \in 1..n : i \in I => \E k \in 1..Len(r) : h[k] = i

\* A turn of the loop that takes the entry.
LEMMA PickNext ==
  ASSUME NEW E, NEW q \in Seq(E), NEW I, NEW n \in 1..Len(q), n \in I,
         NEW r \in Seq(E), NEW h, Picks(h, r, q, I, n - 1)
  PROVE  \E g : Picks(g, Append(r, q[n]), q, I, n)
<1> DEFINE m == Len(r)
           s == Append(r, q[n])
           g == [k \in 1..(m + 1) |-> IF k = m + 1 THEN n ELSE h[k]]
<1>1. /\ m \in Nat
      /\ Len(s) = m + 1
      /\ s[m + 1] = q[n]
      /\ \A k \in 1..m : s[k] = r[k]
  OBVIOUS
<1>2. /\ \A k \in 1..m : h[k] \in 1..(n - 1) /\ h[k] \in I /\ r[k] = q[h[k]]
      /\ \A k, l \in 1..m : k < l => h[k] < h[l]
      /\ \A i \in 1..(n - 1) : i \in I => \E k \in 1..m : h[k] = i
  BY DEF Picks
<1>3. g[m + 1] = n /\ \A k \in 1..m : g[k] = h[k]
  BY <1>1
<1>4. g \in [1..(m + 1) -> 1..n]
  BY <1>1, <1>2
<1> HIDE DEF m, s, g
<1>5. ASSUME NEW k \in 1..(m + 1) PROVE g[k] \in I /\ s[k] = q[g[k]]
  <2>1. CASE k = m + 1
    BY <2>1, <1>1, <1>3
  <2>2. CASE k # m + 1
    <3>1. k \in 1..m
      BY <2>2, <1>1
    <3> QED BY <3>1, <1>1, <1>2, <1>3
  <2> QED BY <2>1, <2>2
<1>6. ASSUME NEW k \in 1..(m + 1), NEW l \in 1..(m + 1), k < l PROVE g[k] < g[l]
  <2>1. k \in 1..m
    BY <1>6, <1>1
  <2>2. CASE l = m + 1
    <3>1. g[k] \in 1..(n - 1) /\ g[l] = n
      BY <2>1, <2>2, <1>2, <1>3
    <3> QED BY <3>1
  <2>3. CASE l # m + 1
    <3>1. l \in 1..m
      BY <2>3, <1>1
    <3> QED BY <3>1, <2>1, <1>2, <1>3, <1>6
  <2> QED BY <2>2, <2>3
<1>7. ASSUME NEW i \in 1..n, i \in I PROVE \E k \in 1..(m + 1) : g[k] = i
  <2>1. CASE i = n
    <3>1. m + 1 \in 1..(m + 1)
      BY <1>1
    <3> QED BY <2>1, <1>3, <3>1
  <2>2. CASE i # n
    <3>1. i \in 1..(n - 1)
      BY <2>2
    <3>2. PICK k \in 1..m : h[k] = i
      BY <3>1, <1>2, <1>7
    <3>3. k \in 1..(m + 1)
      BY <1>1
    <3> QED BY <3>2, <3>3, <1>3
  <2> QED BY <2>1, <2>2
<1>8. Picks(g, s, q, I, n)
  BY <1>1, <1>4, <1>5, <1>6, <1>7 DEF Picks
<1> QED BY <1>8 DEF s

\* A turn that leaves the entry where it is.
LEMMA PickSkip ==
  ASSUME NEW q, NEW I, NEW n \in Nat \ {0}, n \notin I, NEW r, NEW h, Picks(h, r, q, I, n - 1)
  PROVE  Picks(h, r, q, I, n)
<1>1. /\ h \in [1..Len(r) -> 1..(n - 1)]
      /\ \A i \in 1..(n - 1) : i \in I => \E k \in 1..Len(r) : h[k] = i
  BY DEF Picks
<1>2. h \in [1..Len(r) -> 1..n]
  BY <1>1
<1>3. \A i \in 1..n : i \in I => i \in 1..(n - 1)
  OBVIOUS
<1>4. \A i \in 1..n : i \in I => \E k \in 1..Len(r) : h[k] = i
  BY <1>1, <1>3
<1> QED BY <1>2, <1>4 DEF Picks

\* The list after n turns of the loop.
IsFilter(f, q, I) ==
  f = [n \in 0..Len(q) |->
         IF n = 0 THEN <<>> ELSE IF n \in I THEN Append(f[n - 1], q[n]) ELSE f[n - 1]]

\* What the loop computes: the list without the other entries, in the same order.
LEMMA FilterExists ==
  ASSUME NEW E, NEW q \in Seq(E), NEW I
  PROVE  \E f : IsFilter(f, q, I)
<1> DEFINE N == Len(q)
           T == Seq(E)
           F == [a \in (1..N) \X T |-> IF a[1] \in I THEN Append(a[2], q[a[1]]) ELSE a[2]]
<1>1. N \in Nat /\ <<>> \in T
  OBVIOUS
<1>2. \A n \in 1..N, v \in T :
         F[<<n, v>>] = (IF n \in I THEN Append(v, q[n]) ELSE v) /\ F[<<n, v>>] \in T
  OBVIOUS
<1>3. F \in [(1..N) \X T -> T]
  OBVIOUS
<1> HIDE DEF F
<1>4. PICK g \in [0..N -> T] : IsLoop(g, N, <<>>, F)
  BY <1>1, <1>3, LoopExists
<1>5. g = [n \in 0..N |-> IF n = 0 THEN <<>> ELSE IF n \in I THEN Append(g[n - 1], q[n]) ELSE g[n - 1]]
  <2>1. ASSUME NEW n \in 0..N
        PROVE  g[n] = IF n = 0 THEN <<>> ELSE IF n \in I THEN Append(g[n - 1], q[n]) ELSE g[n - 1]
    <3>1. CASE n = 0
      BY <3>1, <1>4 DEF IsLoop
    <3>2. CASE n # 0
      <4>1. n \in 1..N /\ n - 1 \in 0..N
        BY <3>2, <1>1
      <4>2. g[n - 1] \in T
        BY <4>1
      <4>3. g[n] = F[<<n, g[n - 1]>>]
        BY <4>1, <1>4 DEF IsLoop
      <4> QED BY <3>2, <4>1, <4>2, <4>3, <1>2
    <3> QED BY <3>1, <3>2
  <2> QED BY <2>1
<1> QED BY <1>5 DEF IsFilter

\* What a filter selects is a subsequence: the places in I, in order.
LEMMA FilterPicks ==
  ASSUME NEW E, NEW q \in Seq(E), NEW I, NEW f, IsFilter(f, q, I)
  PROVE  f[Len(q)] \in Seq(E) /\ \E h : Picks(h, f[Len(q)], q, I, Len(q))
<1> DEFINE N == Len(q)
           T == Seq(E)
<1>1. N \in Nat /\ <<>> \in T
  OBVIOUS
<1>6. f = [n \in 0..N |-> IF n = 0 THEN <<>> ELSE IF n \in I THEN Append(f[n - 1], q[n]) ELSE f[n - 1]]
  BY DEF IsFilter
<1>8. f[0] = <<>>
  BY <1>1, <1>6
<1>9. ASSUME NEW n \in 1..N
      PROVE  f[n] = IF n \in I THEN Append(f[n - 1], q[n]) ELSE f[n - 1]
  <2> DEFINE b == [i \in 0..N |->
                     IF i = 0 THEN <<>> ELSE IF i \in I THEN Append(f[i - 1], q[i]) ELSE f[i - 1]]
  <2>1. n \in 0..N /\ n # 0
    BY <1>1
  <2>2. b[n] = IF n \in I THEN Append(f[n - 1], q[n]) ELSE f[n - 1]
    BY <2>1, Zenon
  <2>3. f = b
    BY <1>6, Zenon
  <2> HIDE DEF b
  <2> QED BY <2>2, <2>3, Zenon
<1> DEFINE Good(n) == f[n] \in T /\ \E h : Picks(h, f[n], q, I, n)
           S == {n \in Nat : n <= N => Good(n)}
<1>10. 0 \in S
  <2>1. Picks(<<>>, <<>>, q, I, 0)
    BY DEF Picks
  <2> QED BY <1>1, <1>8, <2>1
<1>11. ASSUME NEW n \in Nat, n \in S, n + 1 <= N
       PROVE  Good(n + 1)
  <2>1. /\ n + 1 \in 1..N
        /\ (n + 1) - 1 = n
        /\ f[n] \in T
        /\ \E h : Picks(h, f[n], q, I, n)
    BY <1>11, <1>1
  <2>2. PICK h : Picks(h, f[n], q, I, n)
    BY <2>1
  <2>3. f[n + 1] = IF n + 1 \in I THEN Append(f[n], q[n + 1]) ELSE f[n]
    BY <1>9, <2>1
  <2>4. CASE n + 1 \in I
    <3>1. \E g1 : Picks(g1, Append(f[n], q[n + 1]), q, I, n + 1)
      BY <2>1, <2>2, <2>4, PickNext
    <3>2. q[n + 1] \in E
      BY <2>1
    <3> QED BY <2>1, <2>3, <2>4, <3>1, <3>2
  <2>5. CASE n + 1 \notin I
    <3>1. Picks(h, f[n], q, I, n + 1)
      <4>1. n + 1 \in Nat \ {0} /\ Picks(h, f[n], q, I, (n + 1) - 1)
        BY <2>1, <2>2
      <4> QED BY <2>5, <4>1, PickSkip
    <3> QED BY <2>1, <2>3, <2>5, <3>1
  <2> QED BY <2>4, <2>5
<1>12. \A n \in Nat : n \in S => n + 1 \in S
  <2> HIDE DEF Good
  <2> QED BY <1>11
<1>13. N \in S
  <2> HIDE DEF S
  <2> QED BY <1>1, <1>10, <1>12, Induction
<1> QED BY <1>1, <1>13

InList(q, e) == \E i \in 1..Len(q) : q[i] = e

\* A list sorted by the numbers d, and one whose entries have different keys.
Ordered(q, d) == \A i, j \in 1..Len(q) : i < j => d[q[i]] <= d[q[j]]
Distinct(q, key) == \A i, j \in 1..Len(q) : key[q[i]] = key[q[j]] => i = j

\* Where a loop that looks for the place of v in a sorted list stops.
Stops(k, q, d, v) ==
  /\ \A i \in 1..k : d[q[i]] < v
  /\ k < Len(q) => d[q[k + 1]] >= v

\* A walk for the first later value stops somewhere.
LEMMA StopExists ==
  ASSUME NEW E, NEW q \in Seq(E), NEW d \in [E -> Nat], NEW v \in Nat
  PROVE  \E k \in 0..Len(q) : Stops(k, q, d, v)
<1> DEFINE J == {i \in 1..Len(q) : d[q[i]] >= v}
           Stop(k) == /\ \A i \in 1..k : d[q[i]] < v
                      /\ k < Len(q) => d[q[k + 1]] >= v
<1>1. Len(q) \in Nat /\ \A i \in 1..Len(q) : d[q[i]] \in Nat
  OBVIOUS
<1>2. \E k \in 0..Len(q) : Stop(k)
  <2>1. CASE J = {}
    <3>1. ASSUME NEW i \in 1..Len(q) PROVE d[q[i]] < v
      <4> DEFINE w == d[q[i]]
      <4>1. ~(w >= v) /\ w \in Nat
        BY <2>1, <1>1
      <4> HIDE DEF w
      <4>2. w < v
        BY <4>1
      <4> QED BY <4>2 DEF w
    <3> DEFINE n == Len(q)
    <3>2. n \in 0..n /\ ~(n < n)
      <4>1. n \in Nat
        BY <1>1
      <4> HIDE DEF n
      <4> QED BY <4>1
    <3>3. Stop(n)
      BY <3>1, <3>2
    <3> QED BY <3>2, <3>3
  <2>2. CASE J # {}
    <3>1. J \subseteq Nat
      BY <1>1
    <3>2. PICK x \in J : \A y \in J : x <= y
      BY <2>2, <3>1, LeastMember
    <3>3. x \in 1..Len(q) /\ x - 1 \in 0..Len(q) /\ (x - 1) + 1 = x
      BY <1>1, <3>2
    <3>4. ASSUME NEW i \in 1..(x - 1) PROVE d[q[i]] < v
      <4>1. i \in 1..Len(q) /\ ~(x <= i)
        BY <3>3, <1>1
      <4>2. i \notin J
        BY <3>2, <4>1
      <4> QED BY <4>1, <4>2, <1>1
    <3>5. Stop(x - 1)
      BY <3>2, <3>3, <3>4
    <3> QED BY <3>3, <3>5
  <2> QED BY <2>1, <2>2
<1> QED BY <1>2 DEF Stops

\* Two lists joined.
Joined(E, r, c, b) ==
  /\ r \in Seq(E)
  /\ Len(r) = Len(c) + Len(b)
  /\ \A i \in 1..Len(c) : r[i] = c[i]
  /\ \A i \in (Len(c) + 1)..(Len(c) + Len(b)) : r[i] = b[i - Len(c)]

\* Two lists, one after the other.
LEMMA Join ==
  ASSUME NEW E, NEW c \in Seq(E), NEW b \in Seq(E)
  PROVE  Joined(E, c \o b, c, b)
<1> DEFINE r == c \o b
<1>1. Len(c) \in Nat /\ Len(b) \in Nat
  OBVIOUS
<1>2. r \in Seq(E) /\ Len(r) = Len(c) + Len(b)
  OBVIOUS
<1>3. ASSUME NEW i \in 1..Len(c) PROVE r[i] = c[i]
  OBVIOUS
<1>4. ASSUME NEW i \in (Len(c) + 1)..(Len(c) + Len(b)) PROVE r[i] = b[i - Len(c)]
  OBVIOUS
<1> HIDE DEF r
<1>5. Joined(E, r, c, b)
  BY <1>2, <1>3, <1>4 DEF Joined
<1> QED BY <1>5 DEF r

\* The list around the place where an entry was inserted.
Inserted(E, r, q, e, k) ==
  /\ r \in Seq(E)
  /\ Len(r) = Len(q) + 1
  /\ \A i \in 1..k : r[i] = q[i]
  /\ r[k + 1] = e
  /\ \A i \in (k + 2)..(Len(q) + 1) : r[i] = q[i - 1]

\* Linking an element after place k.
LEMMA InsertShape ==
  ASSUME NEW E, NEW q \in Seq(E), NEW e \in E, NEW k \in 0..Len(q)
  PROVE  Inserted(E, SubSeq(q, 1, k) \o <<e>> \o SubSeq(q, k + 1, Len(q)), q, e, k)
<1> DEFINE r == SubSeq(q, 1, k) \o <<e>> \o SubSeq(q, k + 1, Len(q))
           n == Len(q)
           a == SubSeq(q, 1, k)
           b == SubSeq(q, k + 1, n)
<1>1. n \in Nat /\ k \in Nat /\ k <= n
  OBVIOUS
<1>2. a \in Seq(E) /\ Len(a) = k /\ \A i \in 1..k : a[i] = q[i]
  BY <1>1
<1>3. b \in Seq(E) /\ Len(b) = n - k /\ \A i \in 1..(n - k) : b[i] = q[k + i]
  BY <1>1
<1> HIDE DEF n, a, b
<1> DEFINE c == a \o <<e>>
<1>4. /\ c \in Seq(E)
      /\ Len(c) = k + 1
      /\ \A i \in 1..k : c[i] = a[i]
      /\ c[k + 1] = e
  BY <1>1, <1>2
<1> HIDE DEF c
<1>5. r = c \o b
  BY DEF c, a, b, n
<1> HIDE DEF r
<1>6. /\ r \in Seq(E)
      /\ Len(r) = n + 1
      /\ \A i \in 1..(k + 1) : r[i] = c[i]
      /\ \A i \in (k + 2)..(n + 1) : r[i] = b[i - (k + 1)]
  <2>1. /\ r \in Seq(E)
        /\ Len(r) = Len(c) + Len(b)
        /\ \A i \in 1..Len(c) : r[i] = c[i]
        /\ \A i \in (Len(c) + 1)..(Len(c) + Len(b)) : r[i] = b[i - Len(c)]
    <3>1. c \in Seq(E) /\ b \in Seq(E)
      BY <1>3, <1>4
    <3>2. Joined(E, c \o b, c, b)
      BY <3>1, Join
    <3> QED BY <3>2, <1>5 DEF Joined
  <2>2. Len(c) = k + 1 /\ (k + 1) + 1 = k + 2 /\ Len(c) + Len(b) = n + 1
    BY <1>1, <1>3, <1>4
  <2> QED BY <2>1, <2>2
<1>7. ASSUME NEW i \in (k + 2)..(n + 1) PROVE r[i] = q[i - 1]
  <2>1. i - (k + 1) \in 1..(n - k) /\ k + (i - (k + 1)) = i - 1
    BY <1>1
  <2> QED BY <2>1, <1>3, <1>6
<1>8. \A i \in 1..k : i \in 1..(k + 1)
  BY <1>1
<1>9. k + 1 \in 1..(k + 1)
  BY <1>1
<1>10. Inserted(E, r, q, e, k)
  BY <1>2, <1>4, <1>6, <1>7, <1>8, <1>9 DEF Inserted, n
<1> QED BY <1>10 DEF r

\* Which entries a list has after an insertion.
LEMMA InsertedMembers ==
  ASSUME NEW E, NEW q \in Seq(E), NEW e, NEW k \in 0..Len(q), NEW r, Inserted(E, r, q, e, k)
  PROVE  \A x : InList(r, x) <=> InList(q, x) \/ x = e
<1> DEFINE n == Len(q)
<1>0. n \in Nat /\ k \in 0..n
  OBVIOUS
<1>3. /\ Len(r) = n + 1
      /\ \A i \in 1..k : r[i] = q[i]
      /\ r[k + 1] = e
      /\ \A i \in (k + 2)..(n + 1) : r[i] = q[i - 1]
  BY DEF Inserted
<1> HIDE DEF n
<1>1. ASSUME NEW i \in 1..n PROVE \E j \in 1..(n + 1) : r[j] = q[i]
  <2>1. CASE i <= k
    BY <1>0, <1>3, <2>1
  <2>2. CASE i > k
    <3>1. i + 1 \in (k + 2)..(n + 1) /\ i + 1 \in 1..(n + 1) /\ (i + 1) - 1 = i
      BY <1>0, <2>2
    <3> QED BY <3>1, <1>3
  <2> QED BY <1>0, <2>1, <2>2
<1>2. ASSUME NEW j \in 1..(n + 1) PROVE r[j] = e \/ \E i \in 1..n : r[j] = q[i]
  <2>1. CASE j <= k
    BY <1>0, <1>3, <2>1
  <2>2. CASE j = k + 1
    BY <1>3, <2>2
  <2>3. CASE j > k + 1
    <3>1. j \in (k + 2)..(n + 1) /\ j - 1 \in 1..n
      BY <1>0, <2>3
    <3> QED BY <3>1, <1>3
  <2> QED BY <1>0, <2>1, <2>2, <2>3
<1>4. k + 1 \in 1..(n + 1)
  BY <1>0
<1>5. \E j \in 1..(n + 1) : r[j] = e
  BY <1>3, <1>4
<1>6. ASSUME NEW x PROVE (\E j \in 1..(n + 1) : r[j] = x) <=> (\E i \in 1..n : q[i] = x) \/ x = e
  BY <1>1, <1>2, <1>5
<1> QED BY <1>3, <1>6 DEF InList, n

\* r is the list q without its entry k + 1.
Removed(E, r, q, k) ==
  /\ r \in Seq(E)
  /\ Len(r) = Len(q) - 1
  /\ \A i \in 1..k : r[i] = q[i]
  /\ \A i \in (k + 1)..(Len(q) - 1) : r[i] = q[i + 1]

\* Unlinking the element after place k.
LEMMA RemoveShape ==
  ASSUME NEW E, NEW q \in Seq(E), NEW k \in 0..(Len(q) - 1)
  PROVE  Removed(E, SubSeq(q, 1, k) \o SubSeq(q, k + 2, Len(q)), q, k)
<1> DEFINE n == Len(q)
           a == SubSeq(q, 1, k)
           b == SubSeq(q, k + 2, n)
           r == a \o b
<1>1. n \in Nat /\ k \in Nat /\ k + 1 <= n
  OBVIOUS
<1>2. a \in Seq(E) /\ Len(a) = k /\ \A i \in 1..k : a[i] = q[i]
  BY <1>1
<1>3. b \in Seq(E) /\ Len(b) = n - k - 1 /\ \A i \in 1..(n - k - 1) : b[i] = q[k + 1 + i]
  BY <1>1
<1> HIDE DEF n, a, b
<1>4. Joined(E, r, a, b)
  BY <1>2, <1>3, Join
<1>5. /\ r \in Seq(E)
      /\ Len(r) = k + (n - k - 1)
      /\ \A i \in 1..k : r[i] = a[i]
      /\ \A i \in (k + 1)..(k + (n - k - 1)) : r[i] = b[i - k]
  BY <1>2, <1>3, <1>4 DEF Joined
<1> HIDE DEF r
<1>6. Len(r) = n - 1
  BY <1>1, <1>5
<1>7. ASSUME NEW i \in (k + 1)..(n - 1) PROVE r[i] = q[i + 1]
  <2>1. i \in (k + 1)..(k + (n - k - 1)) /\ i - k \in 1..(n - k - 1) /\ k + 1 + (i - k) = i + 1
    BY <1>1
  <2>2. r[i] = b[i - k]
    BY <1>5, <2>1
  <2>3. b[i - k] = q[k + 1 + (i - k)]
    BY <1>3, <2>1
  <2> QED BY <2>1, <2>2, <2>3
<1> QED BY <1>2, <1>5, <1>6, <1>7 DEF Removed, r, a, b, n

\* Only the unlinked element is lost.
LEMMA RemovedMembers ==
  ASSUME NEW E, NEW q \in Seq(E), NEW k \in 0..(Len(q) - 1), NEW r, Removed(E, r, q, k)
  PROVE  \A x : InList(q, x) <=> InList(r, x) \/ x = q[k + 1]
<1> DEFINE n == Len(q)
<1>0. n \in Nat /\ k \in 0..(n - 1)
  OBVIOUS
<1>3. /\ Len(r) = n - 1
      /\ \A i \in 1..k : r[i] = q[i]
      /\ \A i \in (k + 1)..(n - 1) : r[i] = q[i + 1]
  BY DEF Removed
<1> HIDE DEF n
<1>1. ASSUME NEW i \in 1..n PROVE q[i] = q[k + 1] \/ \E j \in 1..(n - 1) : r[j] = q[i]
  <2>1. CASE i <= k
    BY <1>0, <1>3, <2>1
  <2>2. CASE i > k + 1
    <3>1. i - 1 \in (k + 1)..(n - 1) /\ i - 1 \in 1..(n - 1) /\ (i - 1) + 1 = i
      BY <1>0, <2>2
    <3> QED BY <3>1, <1>3
  <2> QED BY <1>0, <2>1, <2>2
<1>2. ASSUME NEW j \in 1..(n - 1) PROVE \E i \in 1..n : r[j] = q[i]
  <2>1. CASE j <= k
    BY <1>0, <1>3, <2>1
  <2>3. CASE j > k
    <3>1. j \in (k + 1)..(n - 1) /\ j + 1 \in 1..n
      BY <1>0, <2>3
    <3> QED BY <3>1, <1>3
  <2> QED BY <1>0, <2>1, <2>3
<1>4. k + 1 \in 1..n
  BY <1>0
<1>5. ASSUME NEW x PROVE (\E i \in 1..n : q[i] = x) <=> (\E j \in 1..(n - 1) : r[j] = x) \/ x = q[k + 1]
  BY <1>1, <1>2, <1>4
<1> QED BY <1>3, <1>5 DEF InList, n

\* Inserting where the loop stops keeps a list sorted, and adds the new entry.
LEMMA InsertKeeps ==
  ASSUME NEW E, NEW d \in [E -> Nat], NEW key, NEW q \in Seq(E), NEW e \in E,
         Ordered(q, d), Distinct(q, key), \A x \in E : InList(q, x) => key[x] # key[e],
         NEW k \in 0..Len(q), Stops(k, q, d, d[e]), NEW r, Inserted(E, r, q, e, k)
  PROVE  /\ Ordered(r, d)
         /\ Distinct(r, key)
         /\ \A x : InList(r, x) <=> InList(q, x) \/ x = e
<1> DEFINE n == Len(q)
           v == d[e]
           D(i) == d[q[i]]
           H(i) == key[q[i]]
<1>0. n \in Nat
  OBVIOUS
<1>1. \A i, j \in 1..n : i < j => D(i) <= D(j)
  BY DEF Ordered
<1>10. \A i, j \in 1..n : H(i) = H(j) => i = j
  BY DEF Distinct
<1>11. v \in Nat /\ \A i \in 1..n : D(i) \in Nat
  OBVIOUS
<1>12. \A i \in 1..n : H(i) # key[e]
  BY DEF InList
<1>2. /\ \A i \in 1..k : D(i) < v
      /\ k < n => D(k + 1) >= v
  BY DEF Stops
<1>3. /\ Len(r) = n + 1
      /\ \A i \in 1..k : r[i] = q[i]
      /\ r[k + 1] = e
      /\ \A i \in (k + 2)..(n + 1) : r[i] = q[i - 1]
  BY DEF Inserted
<1>13. k \in Nat /\ k <= n
  BY <1>0
<1>14. /\ \A i \in 1..k : d[r[i]] = D(i) /\ key[r[i]] = H(i)
       /\ \A i \in (k + 2)..(n + 1) : d[r[i]] = D(i - 1) /\ key[r[i]] = H(i - 1)
       /\ d[r[k + 1]] = v /\ key[r[k + 1]] = key[e]
  BY <1>3
<1> HIDE DEF n, v, D, H
\* Each place of r is one of q, or the new one.
<1>4. ASSUME NEW i \in 1..(n + 1)
      PROVE  \/ i = k + 1
             \/ i \in 1..k /\ i \in 1..n
             \/ i \in (k + 2)..(n + 1) /\ i - 1 \in 1..n /\ i - 1 > k
  BY <1>0, <1>13
<1>5. ASSUME NEW i \in 1..n, i > k PROVE D(i) >= v
  <2>1. k + 1 \in 1..n /\ k < n /\ (k + 1 = i \/ k + 1 < i)
    BY <1>0, <1>13, <1>5
  <2>2. D(k + 1) >= v /\ D(k + 1) \in Nat /\ D(i) \in Nat
    BY <2>1, <1>2, <1>11
  <2> DEFINE a == D(k + 1)
             b == D(i)
  <2>3. a <= b
    BY <2>1, <2>2, <1>1
  <2> HIDE DEF a, b
  <2>4. b >= v
    <3>1. a \in Nat /\ b \in Nat /\ v \in Nat /\ a >= v
      BY <2>2, <1>11 DEF a, b
    <3> QED BY <3>1, <2>3
  <2> QED BY <2>4 DEF b
<1>6. ASSUME NEW i \in 1..(n + 1), NEW j \in 1..(n + 1), i < j
      PROVE  d[r[i]] <= d[r[j]]
  <2>1. CASE i \in 1..k /\ i \in 1..n
    <3>1. d[r[i]] = D(i) /\ D(i) < v /\ D(i) \in Nat
      BY <2>1, <1>2, <1>11, <1>14
    <3>2. CASE j \in 1..k /\ j \in 1..n
      <4>1. d[r[j]] = D(j) /\ D(i) <= D(j)
        BY <2>1, <3>2, <1>1, <1>6, <1>14
      <4> QED BY <3>1, <4>1
    <3>3. CASE j = k + 1
      BY <3>1, <3>3, <1>11, <1>14
    <3>4. CASE j \in (k + 2)..(n + 1) /\ j - 1 \in 1..n /\ j - 1 > k
      <4>1. d[r[j]] = D(j - 1) /\ D(j - 1) >= v /\ D(j - 1) \in Nat
        BY <3>4, <1>5, <1>11, <1>14
      <4> QED BY <3>1, <4>1, <1>11
    <3> QED BY <3>2, <3>3, <3>4, <1>4
  <2>2. CASE i = k + 1
    <3>1. j \in (k + 2)..(n + 1) /\ j - 1 \in 1..n /\ j - 1 > k
      BY <2>2, <1>0, <1>6, <1>13
    <3>2. d[r[j]] = D(j - 1) /\ D(j - 1) >= v
      BY <3>1, <1>5, <1>14
    <3>3. d[r[i]] = v /\ D(j - 1) \in Nat
      BY <2>2, <3>1, <1>11, <1>14
    <3> QED BY <3>2, <3>3, <1>11
  <2>3. CASE i \in (k + 2)..(n + 1) /\ i - 1 \in 1..n
    <3>1. j \in (k + 2)..(n + 1) /\ j - 1 \in 1..n /\ i - 1 < j - 1
      BY <2>3, <1>0, <1>6, <1>13
    <3>2. d[r[j]] = D(j - 1) /\ d[r[i]] = D(i - 1)
      BY <2>3, <3>1, <1>14
    <3> QED BY <2>3, <3>1, <3>2, <1>1
  <2> QED BY <2>1, <2>2, <2>3, <1>4
<1>15. ASSUME NEW i \in 1..(n + 1)
       PROVE  \/ i = k + 1 /\ key[r[i]] = key[e]
              \/ \E a \in 1..n : key[r[i]] = H(a) /\ i = IF a <= k THEN a ELSE a + 1
  <2>1. CASE i \in 1..k /\ i \in 1..n
    BY <2>1, <1>14
  <2>2. CASE i \in (k + 2)..(n + 1) /\ i - 1 \in 1..n /\ i - 1 > k
    <3>1. key[r[i]] = H(i - 1) /\ ~(i - 1 <= k) /\ i = (i - 1) + 1
      BY <2>2, <1>13, <1>14
    <3> QED BY <2>2, <3>1
  <2> QED BY <2>1, <2>2, <1>4, <1>14
<1>7. ASSUME NEW i \in 1..(n + 1), NEW j \in 1..(n + 1), key[r[i]] = key[r[j]]
      PROVE  i = j
  <2>1. CASE i = k + 1 /\ key[r[i]] = key[e]
    BY <2>1, <1>7, <1>12, <1>15
  <2>2. CASE j = k + 1 /\ key[r[j]] = key[e]
    BY <2>2, <1>7, <1>12, <1>15
  <2>3. ASSUME NEW a \in 1..n, key[r[i]] = H(a), i = IF a <= k THEN a ELSE a + 1,
               NEW b \in 1..n, key[r[j]] = H(b), j = IF b <= k THEN b ELSE b + 1
        PROVE  i = j
    <3>1. a = b
      BY <2>3, <1>7, <1>10
    <3> QED BY <3>1, <2>3
  <2> QED BY <2>1, <2>2, <2>3, <1>15
<1>8. \A x : InList(r, x) <=> InList(q, x) \/ x = e
  BY InsertedMembers
<1>9. Ordered(r, d) /\ Distinct(r, key)
  BY <1>3, <1>6, <1>7 DEF Ordered, Distinct
<1> QED BY <1>8, <1>9

\* Taking entries out of a list keeps the others sorted.
LEMMA PicksKeep ==
  ASSUME NEW E, NEW d, NEW key, NEW q \in Seq(E), NEW r \in Seq(E), NEW I, NEW h,
         Picks(h, r, q, I, Len(q)), Ordered(q, d), Distinct(q, key)
  PROVE  /\ Ordered(r, d)
         /\ Distinct(r, key)
         /\ \A x : InList(r, x) <=> \E i \in 1..Len(q) : i \in I /\ q[i] = x
<1> DEFINE n == Len(q)
           m == Len(r)
<1>1. /\ \A i, j \in 1..n : i < j => d[q[i]] <= d[q[j]]
      /\ \A i, j \in 1..n : key[q[i]] = key[q[j]] => i = j
  BY DEF Ordered, Distinct
<1>4. /\ \A k \in 1..m : h[k] \in 1..n
      /\ \A k \in 1..m : h[k] \in I
      /\ \A k \in 1..m : r[k] = q[h[k]]
      /\ \A k, l \in 1..m : k < l => h[k] < h[l]
      /\ \A i \in 1..n : i \in I => \E k \in 1..m : h[k] = i
  BY DEF Picks
<1>5. m \in Nat
  OBVIOUS
<1> HIDE DEF m, n
<1>6. ASSUME NEW k \in 1..m, NEW l \in 1..m, k < l PROVE d[r[k]] <= d[r[l]]
  <2>1. h[k] \in 1..n /\ h[l] \in 1..n /\ h[k] < h[l]
    BY <1>4, <1>6
  <2>2. d[q[h[k]]] <= d[q[h[l]]]
    BY <2>1, <1>1
  <2>3. r[k] = q[h[k]] /\ r[l] = q[h[l]]
    BY <1>4
  <2> QED BY <2>2, <2>3
<1>7. ASSUME NEW k \in 1..m, NEW l \in 1..m, key[r[k]] = key[r[l]] PROVE k = l
  <2>0. h[k] \in 1..n /\ h[l] \in 1..n /\ r[k] = q[h[k]] /\ r[l] = q[h[l]]
    BY <1>4
  <2>1. h[k] = h[l] /\ h[k] \in 1..n
    BY <2>0, <1>1, <1>7
  <2>2. ~(k < l) /\ ~(l < k)
    BY <2>1, <1>4
  <2> QED BY <2>2
<1>8. Ordered(r, d) /\ Distinct(r, key)
  BY <1>6, <1>7 DEF Ordered, Distinct, m
<1>9. ASSUME NEW x PROVE InList(r, x) <=> \E i \in 1..n : i \in I /\ q[i] = x
  BY <1>4 DEF InList, m
<1> QED BY <1>8, <1>9 DEF n

-----------------------------------------------------------------------------

(***************************************************************************)
(* Division and remainders.                                                *)
(***************************************************************************)

\* Division, by a number the provers do not know.
LEMMA DivIs ==
  ASSUME NEW n \in Nat \ {0}, NEW a \in Nat
  PROVE  /\ a \div n \in Nat
         /\ (a \div n) * n <= a
         /\ a < (a \div n) * n + n
OBVIOUS

\* Products are ordered as their factors are.
LEMMA ProductOrder ==
  ASSUME NEW n \in Nat \ {0}, NEW a \in Int, NEW b \in Int
  PROVE  a * n < b * n <=> a < b
OBVIOUS

\* A factor on one side and the other.
LEMMA ProductStep ==
  ASSUME NEW n \in Nat, NEW a \in Int
  PROVE  (a - 1) * n = a * n - n /\ (a + 1) * n = a * n + n /\ a * n \in Int
OBVIOUS

\* Remainders of numbers below twice the divisor.
IsRemainder(r, a, w) ==
  /\ r \in Nat
  /\ r < w
  /\ a < w => r = a
  /\ w <= a /\ a < 2 * w => r = a - w

\* The operator % computes the remainder.
LEMMA Remainder ==
  ASSUME NEW w \in Nat \ {0}, NEW a \in Nat
  PROVE  IsRemainder(a % w, a, w)
<1> DEFINE d == a \div w
           r == a % w
<1>1. r \in Nat /\ r < w
  OBVIOUS
<1>2. a = d * w + r /\ d \in Nat
  OBVIOUS
<1> HIDE DEF d, r
<1>3. ASSUME a < w PROVE r = a
  <2>1. d * w < 1 * w
    BY <1>1, <1>2, <1>3
  <2>2. d = 0
    BY <2>1, <1>2, ProductOrder
  <2>3. 0 * w = 0
    OBVIOUS
  <2> QED BY <2>2, <2>3, <1>1, <1>2
<1>4. ASSUME w <= a, a < 2 * w PROVE r = a - w
  <2>1. d * w < 2 * w
    BY <1>1, <1>2, <1>4
  <2>2. 0 * w < d * w
    BY <1>1, <1>2, <1>4
  <2>3. d = 1
    BY <2>1, <2>2, <1>2, ProductOrder
  <2>4. 1 * w = w
    OBVIOUS
  <2> QED BY <2>3, <2>4, <1>1, <1>2
<1>5. IsRemainder(r, a, w)
  BY <1>1, <1>3, <1>4 DEF IsRemainder
<1> QED BY <1>5 DEF r

\* Rounding up: the least number of units P that is not shorter than ns.
Covers(n, ns, P) == n * P >= ns /\ (n = 0 \/ (n - 1) * P < ns)

\* Rounding up takes the least number of periods that covers ns.
LEMMA RoundedUp ==
  ASSUME NEW ns \in Nat, NEW P \in Nat \ {0}
  PROVE  /\ (ns + P - 1) \div P \in 0..ns
         /\ Covers((ns + P - 1) \div P, ns, P)
         /\ \A n \in 0..ns : Covers(n, ns, P) => n = (ns + P - 1) \div P
<1> DEFINE m == (ns + P - 1) \div P
           Fits(n) == n * P >= ns /\ (n = 0 \/ (n - 1) * P < ns)
<1>1. P \in Nat \ {0} /\ ns + P - 1 \in Nat
  OBVIOUS
<1>2. m \in Nat /\ m * P <= ns + P - 1 /\ ns + P - 1 < m * P + P
  BY <1>1, DivIs
<1> HIDE DEF m
<1>3. m * P \in Int /\ (m - 1) * P = m * P - P
  BY <1>1, <1>2, ProductStep
<1>4. Fits(m)
  BY <1>1, <1>2, <1>3
<1>5. m <= ns
  <2>1. ASSUME ns < m PROVE FALSE
    <3>1. ns * P < m * P /\ (ns + 1) * P = ns * P + P /\ ns * P \in Int
      BY <1>1, <1>2, <2>1, ProductOrder, ProductStep
    <3>2. ~(m * P < (ns + 1) * P)
      BY <1>1, <1>2, <2>1, ProductOrder
    <3>3. ns <= ns * P
      BY <1>1
    <3> QED BY <3>1, <3>2, <3>3, <1>1, <1>2, <1>3
  <2> QED BY <2>1, <1>2
<1>6. ASSUME NEW n \in 0..ns, Fits(n) PROVE n = m
  <2>1. n * P \in Int /\ (n - 1) * P = n * P - P
    BY <1>1, ProductStep
  <2>2. n - 1 < m \/ n = 0
    <3>1. ASSUME (n - 1) * P < ns PROVE n - 1 < m
      <4>1. (n - 1) * P < m * P
        BY <3>1, <1>1, <1>3, <1>4, <2>1
      <4> QED BY <4>1, <1>1, <1>2, ProductOrder
    <3> QED BY <3>1, <1>6
  <2>3. m - 1 < n \/ m = 0
    <3>1. ASSUME (m - 1) * P < ns PROVE m - 1 < n
      <4>1. (m - 1) * P < n * P
        BY <3>1, <1>1, <1>3, <1>6, <2>1
      <4> QED BY <4>1, <1>1, <1>2, ProductOrder
    <3> QED BY <3>1, <1>4
  <2> QED BY <2>2, <2>3, <1>2
<1>7. m \in 0..ns
  BY <1>2, <1>5
<1> QED BY <1>4, <1>6, <1>7 DEF m, Covers

\* Multiples of a unit.
Multiple(n, A) == \E k \in Nat : n = k * A

\* A multiple has remainder 0.
LEMMA MultipleIs ==
  ASSUME NEW A \in Nat \ {0}, NEW n \in Nat
  PROVE  n % A = 0 <=> Multiple(n, A)
<1> DEFINE d == n \div A
           r == n % A
<1>0. r \in Nat /\ r < A
  OBVIOUS
<1>1. n = d * A + r /\ d \in Nat
  OBVIOUS
<1> HIDE DEF d, r
<1>2. d * A \in Int
  BY <1>1
<1>3. ASSUME r = 0 PROVE n = d * A
  BY <1>1, <1>2, <1>3
<1>4. ASSUME NEW k \in Nat, n = k * A PROVE r = 0
  <2>1. k * A = d * A + r /\ r \in Nat /\ r < A /\ d \in Nat
    BY <1>0, <1>1, <1>4
  <2>2. k * A < (d + 1) * A
    BY <2>1, ProductStep
  <2>3. k < d + 1
    BY <2>1, <2>2, ProductOrder
  <2>4. ~(k * A < d * A)
    BY <2>1
  <2>5. ~(k < d)
    BY <2>1, <2>4, ProductOrder
  <2>6. k = d
    BY <2>1, <2>3, <2>5
  <2> QED BY <2>1, <2>6, <1>2
<1> QED BY <1>1, <1>3, <1>4 DEF Multiple, d, r

\* Sums and differences of multiples are multiples.
LEMMA MultipleSum ==
  ASSUME NEW A \in Nat, NEW a, NEW b, Multiple(a, A), Multiple(b, A)
  PROVE  /\ a \in Nat /\ b \in Nat
         /\ Multiple(a + b, A)
         /\ b <= a => Multiple(a - b, A)
<1>1. PICK j \in Nat : a = j * A
  BY DEF Multiple
<1>2. PICK k \in Nat : b = k * A
  BY DEF Multiple
<1>3. j * A \in Nat /\ k * A \in Nat /\ (j + k) * A = j * A + k * A /\ j + k \in Nat
  OBVIOUS
<1>4. Multiple(a + b, A)
  BY <1>1, <1>2, <1>3 DEF Multiple
<1>5. ASSUME b <= a PROVE Multiple(a - b, A)
  <2>1. CASE k <= j
    <3>1. j - k \in Nat /\ (j - k) * A = j * A - k * A
      BY <2>1
    <3> QED BY <1>1, <1>2, <3>1 DEF Multiple
  <2>2. CASE k > j
    <3>1. k - j \in Nat /\ (k - j) * A = k * A - j * A /\ (k - j) * A \in Nat
      BY <2>2
    <3>2. a = b
      BY <1>1, <1>2, <1>3, <1>5, <3>1
    <3>3. a - b = 0 * A /\ 0 \in Nat
      BY <1>2, <1>3, <3>2
    <3> QED BY <3>3 DEF Multiple
  <2> QED BY <2>1, <2>2
<1> QED BY <1>1, <1>2, <1>3, <1>4, <1>5
=============================================================================
