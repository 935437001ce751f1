----------------------------- MODULE ListProofs -----------------------------
(***************************************************************************)
(* Facts about the lists of the program, of every length: a list with some *)
(* elements deleted (Lists), and the event queue (Scheduler).  Induction   *)
(* is by the first position at which a claim fails.                        *)
(***************************************************************************)
EXTENDS Lists, Scheduler, WellFoundedInduction, TLAPS

(* A nonempty set of positions has a first one.                            *)
LEMMA FirstPosition ==
    ASSUME NEW T, T \subseteq Nat, T # {}
    PROVE  \E x \in T : \A y \in T : x <= y
<1>1. \E x \in T : \A y \in T : ~(<<y, x>> \in OpToRel(<, Nat))
  BY NatLessThanWellFounded, WFMin
<1>2. PICK x \in T : \A y \in T : ~(<<y, x>> \in OpToRel(<, Nat))
  BY <1>1
<1>3. ASSUME NEW y \in T PROVE x <= y
  <2>1. x \in Nat /\ y \in Nat
    OBVIOUS
  <2>2. ~(<<y, x>> \in OpToRel(<, Nat))
    BY <1>2
  <2>3. ~(y < x)
    BY <2>1, <2>2 DEF OpToRel
  <2> QED
    BY <2>1, <2>3
<1> QED
  BY <1>2, <1>3

(* A set that has 0 and, with each number below N, the next, has 0..N.     *)
LEMMA UpTo ==
    ASSUME NEW N \in Nat, NEW H, 0 \in H,
           \A n \in 0..(N - 1) : n \in H => n + 1 \in H
    PROVE  0..N \subseteq H
<1> DEFINE T == (0..N) \ H
<1>1. SUFFICES ASSUME T # {} PROVE FALSE
  OBVIOUS
<1>2. T \subseteq Nat
  OBVIOUS
<1>3. PICK x \in T : \A y \in T : x <= y
  BY <1>1, <1>2, FirstPosition
<1>4. x \in Nat /\ x # 0 /\ x <= N /\ x \notin H
  OBVIOUS
<1>5. x - 1 \in 0..(N - 1) /\ x - 1 \in 0..N /\ (x - 1) + 1 = x /\ ~(x <= x - 1)
  BY <1>4
<1>6. x - 1 \in H
  BY <1>3, <1>5
<1> QED
  BY <1>4, <1>5, <1>6

(* f is defined on 0..N by its value at 0 and a step from each value to    *)
(* the next.                                                               *)
DefinedBy(f, N, V, start, step) ==
    f \in [0..N -> V] /\ f[0] = start /\ \A n \in 1..N : f[n] = step[n][f[n - 1]]

(* A function that starts in V and takes each step in V stays in V.        *)
LEMMA StaysIn ==
    ASSUME NEW N \in Nat, NEW V, NEW step \in [1..N -> [V -> V]], NEW k,
           k[0] \in V, \A n \in 1..N : k[n - 1] \in V => k[n] = step[n][k[n - 1]]
    PROVE  \A n \in 0..N : k[n] \in V
<1> DEFINE H == {n \in 0..N : k[n] \in V}
<1>1. 0 \in H
  OBVIOUS
<1>2. ASSUME NEW n \in 0..(N - 1), n \in H PROVE n + 1 \in H
  <2>1. n + 1 \in 1..N /\ n + 1 \in 0..N /\ (n + 1) - 1 = n
    OBVIOUS
  <2>2. k[n + 1] = step[n + 1][k[n]] /\ k[n] \in V
    BY <1>2, <2>1
  <2> QED
    BY <2>1, <2>2
<1>3. 0..N \subseteq H
  <2> HIDE DEF H
  <2> QED
    BY <1>1, <1>2, UpTo
<1> QED
  BY <1>3

(* There is such a function.                                               *)
LEMMA Recursion ==
    ASSUME NEW N \in Nat, NEW V, NEW start \in V, NEW step \in [1..N -> [V -> V]]
    PROVE  \E f : DefinedBy(f, N, V, start, step)
<1> DEFINE Good(m, f) == f[0] = start /\ \A n \in 1..m : f[n] = step[n][f[n - 1]]
           H == {m \in 0..N : \E f \in [0..m -> V] : Good(m, f)}
<1>1. 0 \in H
  <2> DEFINE f == [n \in 0..0 |-> start]
  <2>1. f \in [0..0 -> V] /\ Good(0, f)
    OBVIOUS
  <2> HIDE DEF f, Good
  <2> QED
    BY <2>1
<1>2. ASSUME NEW m \in 0..(N - 1), m \in H PROVE m + 1 \in H
  <2>1. PICK g \in [0..m -> V] : Good(m, g)
    BY <1>2
  <2> DEFINE f == [n \in 0..(m + 1) |-> IF n <= m THEN g[n] ELSE step[m + 1][g[m]]]
  <2>2. m \in Nat /\ m + 1 \in 1..N /\ m \in 0..m
    OBVIOUS
  <2>3. g[m] \in V /\ step[m + 1][g[m]] \in V
    BY <2>2
  <2>4. f \in [0..(m + 1) -> V]
    BY <2>2, <2>3
  <2>5. f[0] = start
    BY <2>1, <2>2
  <2>6. ASSUME NEW n \in 1..(m + 1) PROVE f[n] = step[n][f[n - 1]]
    <3>1. n - 1 \in 0..(m + 1) /\ n - 1 <= m /\ f[n - 1] = g[n - 1]
      BY <2>2
    <3>2. CASE n <= m
      <4>1. n \in 1..m /\ f[n] = g[n]
        BY <2>2, <3>2
      <4> QED
        BY <2>1, <3>1, <4>1
    <3>3. CASE n = m + 1
      <4>1. n - 1 = m /\ ~(m + 1 <= m) /\ n \in 0..(m + 1)
        BY <2>2, <3>3
      <4> QED
        BY <3>1, <3>3, <4>1
    <3> QED
      BY <2>2, <3>2, <3>3
  <2>7. Good(m + 1, f)
    BY <2>5, <2>6
  <2> HIDE DEF f, Good
  <2> QED
    BY <2>2, <2>4, <2>7
<1>3. N \in H
  <2> HIDE DEF H
  <2>1. 0..N \subseteq H
    BY <1>1, <1>2, UpTo
  <2> QED
    BY <2>1
<1> QED
  BY <1>3 DEF DefinedBy
-----------------------------------------------------------------------------
(* Kept, step by step: k[n] is what is kept of the first n elements.       *)
KeptSoFar(k, q, S, T) ==
    /\ k \in [0..Len(q) -> Seq(T)]
    /\ k[0] = <<>> /\ k[Len(q)] = Kept(q, S)
    /\ \A n \in 1..Len(q) :
          k[n] = IF n \in S THEN Append(k[n - 1], q[n]) ELSE k[n - 1]

(* What is kept of a list is built one element at a time.                  *)
LEMMA KeptSteps ==
    ASSUME NEW T, NEW q \in Seq(T), NEW S
    PROVE  \E k : KeptSoFar(k, q, S, T)
<1> DEFINE N == Len(q)
           next(n, s) == IF n \in S THEN Append(s, q[n]) ELSE s
           step == [n \in 1..N |-> [s \in Seq(T) |-> next(n, s)]]
           Eq(f) == f = [n \in 0..N |-> IF n = 0 THEN <<>>
                                         ELSE IF n \in S THEN Append(f[n - 1], q[n])
                                         ELSE f[n - 1]]
           k == CHOOSE f : Eq(f)
<1>1. N \in Nat
  OBVIOUS
<1>2. step \in [1..N -> [Seq(T) -> Seq(T)]]
  OBVIOUS
<1>3. <<>> \in Seq(T)
  OBVIOUS
<1>4. PICK f \in [0..N -> Seq(T)] : f[0] = <<>> /\ \A n \in 1..N : f[n] = step[n][f[n - 1]]
  <2> DEFINE V == Seq(T)
             start == <<>>
  <2>1. start \in V /\ step \in [1..N -> [V -> V]]
    BY <1>2, <1>3
  <2> HIDE DEF step, N, V, start
  <2>2. \E f : DefinedBy(f, N, V, start, step)
    BY <1>1, <2>1, Recursion
  <2> QED
    BY <2>2 DEF V, start, DefinedBy
<1>5. ASSUME NEW n \in 1..N PROVE f[n] = next(n, f[n - 1])
  <2>1. n - 1 \in 0..N
    BY <1>1
  <2> QED
    BY <1>4, <2>1
<1>6. Eq(f)
  <2>1. ASSUME NEW n \in 0..N
        PROVE  f[n] = IF n = 0 THEN <<>> ELSE IF n \in S THEN Append(f[n - 1], q[n])
                      ELSE f[n - 1]
    <3>1. CASE n = 0
      BY <1>4, <3>1
    <3>2. CASE n # 0
      <4>1. n \in 1..N
        BY <1>1, <3>2
      <4> QED
        BY <1>5, <3>2, <4>1
    <3> QED
      BY <3>1, <3>2
  <2> QED
    BY <2>1
<1>7. Eq(k)
  <2> HIDE DEF Eq
  <2> QED
    BY <1>6
<1>8. Kept(q, S) = k[N]
  BY DEF Kept
<1> HIDE DEF k, N
<1>9. k[0] = <<>> /\ \A n \in 1..N : k[n] = next(n, k[n - 1])
  <2> DEFINE body(n) == IF n = 0 THEN <<>> ELSE IF n \in S THEN Append(k[n - 1], q[n])
                        ELSE k[n - 1]
  <2>1. k = [n \in 0..N |-> body(n)]
    BY <1>7, Zenon
  <2>2. \A n \in 0..N : k[n] = body(n)
    <3> HIDE DEF body
    <3> QED
      BY <2>1
  <2>3. 0 \in 0..N /\ \A n \in 1..N : n \in 0..N /\ n # 0
    BY <1>1
  <2> QED
    BY <2>2, <2>3, Zenon
<1>10. \A n \in 0..N : k[n] \in Seq(T)
  <2> DEFINE H == {n \in 0..N : k[n] \in Seq(T)}
  <2>1. 0 \in H
    <3>1. k[0] \in Seq(T)
      BY <1>3, <1>9, Zenon
    <3>2. 0 \in 0..N
      BY <1>1
    <3> QED
      BY <3>1, <3>2, Zenon
  <2>2. ASSUME NEW n \in 0..(N - 1), n \in H PROVE n + 1 \in H
    <3>1. n + 1 \in 1..N /\ n + 1 \in 0..N /\ (n + 1) - 1 = n
      BY <1>1
    <3>2. k[n + 1] = next(n + 1, k[n])
      BY <1>9, <3>1
    <3>3. q[n + 1] \in T
      BY <3>1 DEF N
    <3>4. \A s \in Seq(T) : next(n + 1, s) \in Seq(T)
      BY <3>3
    <3>5. k[n] \in Seq(T)
      BY <2>2, Zenon
    <3> HIDE DEF next
    <3>6. k[n + 1] \in Seq(T)
      BY <3>2, <3>4, <3>5, Zenon
    <3> QED
      BY <3>1, <3>6, Zenon
  <2>3. 0..N \subseteq H
    <3> HIDE DEF H
    <3> QED
      BY <1>1, <2>1, <2>2, UpTo
  <2> QED
    BY <2>3
<1>11. k \in [0..N -> Seq(T)]
  BY <1>7, <1>10
<1> QED
  BY <1>8, <1>9, <1>11, Zenon DEF N, KeptSoFar

(* The elements of Kept(q, S) are those of q at the positions in S, in the *)
(* order of q.                                                             *)
IsKept(r, q, S, at) ==
    /\ at \in [1..Len(r) -> S \intersect 1..Len(q)]
    /\ \A i, j \in 1..Len(r) : i < j => at[i] < at[j]
    /\ \A n \in S \intersect 1..Len(q) : \E i \in 1..Len(r) : at[i] = n
    /\ \A i \in 1..Len(r) : r[i] = q[at[i]]

(* A list with elements deleted holds the others, each once, in order.     *)
LEMMA KeptFacts ==
    ASSUME NEW T, NEW q \in Seq(T), NEW S
    PROVE  Kept(q, S) \in Seq(T) /\ \E at : IsKept(Kept(q, S), q, S, at)
<1> DEFINE N == Len(q)
           Good(n, r, at) ==
               /\ at \in [1..Len(r) -> S \intersect 1..n]
               /\ \A i, j \in 1..Len(r) : i < j => at[i] < at[j]
               /\ \A m \in S \intersect 1..n : \E i \in 1..Len(r) : at[i] = m
               /\ \A i \in 1..Len(r) : r[i] = q[at[i]]
<1>0. PICK k : KeptSoFar(k, q, S, T)
  BY KeptSteps, Zenon
<1>1. N \in Nat
  OBVIOUS
<1>2. /\ k \in [0..N -> Seq(T)]
      /\ k[0] = <<>> /\ k[N] = Kept(q, S)
      /\ \A n \in 1..N : k[n] = IF n \in S THEN Append(k[n - 1], q[n]) ELSE k[n - 1]
  BY <1>0 DEF KeptSoFar
<1> DEFINE H == {n \in 0..N : \E at : Good(n, k[n], at)}
<1>3. 0 \in H
  <2> DEFINE at == [i \in 1..0 |-> 0]
  <2>1. Good(0, <<>>, at)
    OBVIOUS
  <2> HIDE DEF at, Good
  <2> QED
    BY <1>1, <1>2, <2>1
<1>4. ASSUME NEW n \in 0..(N - 1), n \in H PROVE n + 1 \in H
  <2> DEFINE r == k[n]
             L == Len(r)
  <2>1. PICK at : Good(n, r, at)
    BY <1>4
  <2>2. n + 1 \in 1..N /\ (n + 1) - 1 = n /\ n \in 0..N /\ n \in Nat /\ n + 1 \in 0..N
    BY <1>1
  <2>3. r \in Seq(T) /\ L \in Nat
    BY <1>2, <2>2
  <2>4. CASE n + 1 \notin S
    <3>1. k[n + 1] = r
      BY <1>2, <2>2, <2>4
    <3>2. S \intersect 1..(n + 1) = S \intersect 1..n
      BY <2>2, <2>4
    <3>3. Good(n + 1, r, at)
      BY <2>1, <3>2
    <3> HIDE DEF Good
    <3> QED
      BY <2>2, <3>1, <3>3
  <2>5. CASE n + 1 \in S
    <3> DEFINE t == Append(r, q[n + 1])
               bt == [i \in 1..(L + 1) |-> IF i <= L THEN at[i] ELSE n + 1]
    <3>1. k[n + 1] = t
      BY <1>2, <2>2, <2>5
    <3>2. q[n + 1] \in T
      BY <2>2
    <3>3. /\ Len(t) = L + 1 /\ t[L + 1] = q[n + 1]
          /\ \A i \in 1..L : t[i] = r[i]
      BY <2>3, <3>2
    <3> HIDE DEF r, t, L
    <3>4. /\ at \in [1..L -> S \intersect 1..n]
          /\ \A i, j \in 1..L : i < j => at[i] < at[j]
          /\ \A m \in S \intersect 1..n : \E i \in 1..L : at[i] = m
          /\ \A i \in 1..L : r[i] = q[at[i]]
      BY <2>1 DEF L
    <3>5. \A i \in 1..(L + 1) : i \in 1..L \/ i = L + 1
      BY <2>3
    <3>6. (\A i \in 1..L : i \in 1..(L + 1) /\ bt[i] = at[i]) /\ bt[L + 1] = n + 1
      BY <2>3
    <3>7. bt \in [1..(L + 1) -> S \intersect 1..(n + 1)]
      BY <2>2, <2>3, <2>5, <3>4
    <3> HIDE DEF bt
    <3>8. \A i, j \in 1..(L + 1) : i < j => bt[i] < bt[j]
      <4> TAKE i, j \in 1..(L + 1)
      <4> HAVE i < j
      <4>1. i \in 1..L /\ bt[i] = at[i] /\ at[i] \in 1..n
        BY <2>3, <3>4, <3>5, <3>6
      <4>2. CASE j \in 1..L
        BY <3>4, <3>6, <4>1, <4>2
      <4>3. CASE j = L + 1
        BY <2>2, <3>6, <4>1, <4>3
      <4> QED
        BY <3>5, <4>2, <4>3
    <3>9. ASSUME NEW m \in S \intersect 1..(n + 1)
          PROVE  \E i \in 1..(L + 1) : bt[i] = m
      <4>1. CASE m = n + 1
        BY <2>3, <3>6, <4>1
      <4>2. CASE m # n + 1
        <5>1. m \in S \intersect 1..n
          BY <2>2, <4>2
        <5> QED
          BY <3>4, <3>6, <5>1
      <4> QED
        BY <4>1, <4>2
    <3>10. \A i \in 1..(L + 1) : t[i] = q[bt[i]]
      BY <3>3, <3>4, <3>5, <3>6
    <3>11. Good(n + 1, t, bt)
      BY <3>3, <3>7, <3>8, <3>9, <3>10
    <3> HIDE DEF Good
    <3> QED
      BY <2>2, <3>1, <3>11
  <2> QED
    BY <2>4, <2>5
<1>5. N \in H
  <2> HIDE DEF H
  <2>1. 0..N \subseteq H
    BY <1>1, <1>3, <1>4, UpTo
  <2> QED
    BY <1>1, <2>1
<1>6. PICK at : Good(N, Kept(q, S), at)
  BY <1>2, <1>5
<1>7. IsKept(Kept(q, S), q, S, at)
  BY <1>6 DEF IsKept
<1>8. Kept(q, S) \in Seq(T)
  BY <1>1, <1>2
<1> QED
  BY <1>7, <1>8

-----------------------------------------------------------------------------
(* The operations on the event queue (Scheduler), for every queue *)

(* LL_LOWER_BOUND always finds its position.                               *)
LEMMA LowerBoundSpec ==
    ASSUME NEW q \in Seq(Event), NEW ev \in Event
    PROVE  LET n == LowerBound(q, ev)
           IN  /\ n \in 0..Len(q)
               /\ \A i \in 1..n : q[i].time < ev.time
               /\ n < Len(q) => ~(q[n + 1].time < ev.time)
<1> DEFINE P(n) == /\ \A i \in 1..n : q[i].time < ev.time
                   /\ n < Len(q) => ~(q[n + 1].time < ev.time)
           T == {i \in 1..Len(q) : ~(q[i].time < ev.time)}
<1>0. Len(q) \in Nat
  OBVIOUS
<1>1. \E n \in 0..Len(q) : P(n)
  <2>1. CASE T = {}
    <3>1. P(Len(q))
      BY <1>0, <2>1
    <3> QED
      BY <1>0, <3>1
  <2>2. CASE T # {}
    <3>1. PICK x \in T : \A y \in T : x <= y
      <4>1. T \subseteq Nat
        OBVIOUS
      <4> QED
        BY <2>2, <4>1, FirstPosition
    <3>2. x - 1 \in 0..Len(q)
      BY <1>0
    <3>3. P(x - 1)
      BY <1>0, <3>1
    <3> QED
      BY <3>2, <3>3
  <2> QED
    BY <2>1, <2>2
<1>2. LowerBound(q, ev) = CHOOSE n \in 0..Len(q) : P(n)
  BY DEF LowerBound
<1>3. LowerBound(q, ev) \in 0..Len(q) /\ P(LowerBound(q, ev))
  <2> HIDE DEF P
  <2> QED
    BY <1>1, <1>2
<1> QED
  BY <1>3

(* scheduler_insert, position by position.                                 *)
LEMMA InsertSpec ==
    ASSUME NEW q \in Seq(Event), NEW ev \in Event
    PROVE  LET n == LowerBound(q, ev)
               r == scheduler_insert(q, ev)
           IN  /\ n \in 0..Len(q)
               /\ r \in Seq(Event)
               /\ Len(r) = Len(q) + 1
               /\ \A i \in 1..n : r[i] = q[i]
               /\ r[n + 1] = ev
               /\ \A i \in (n + 2)..(Len(q) + 1) : r[i] = q[i - 1]
<1> DEFINE n == LowerBound(q, ev)
           a == SubSeq(q, 1, n)
           b == SubSeq(q, n + 1, Len(q))
           r == scheduler_insert(q, ev)
<1>1. n \in 0..Len(q) /\ Len(q) \in Nat
  BY LowerBoundSpec
<1>2. r = a \o <<ev>> \o b
  BY DEF scheduler_insert
<1> HIDE DEF n, r
<1>3. a \in Seq(Event) /\ Len(a) = n /\ \A i \in 1..n : a[i] = q[i]
  BY <1>1
<1>4. /\ b \in Seq(Event) /\ Len(b) = Len(q) - n
      /\ \A i \in 1..(Len(q) - n) : b[i] = q[n + i]
  BY <1>1
<1> HIDE DEF a, b
<1> DEFINE c == a \o <<ev>>
<1>5. /\ c \in Seq(Event) /\ Len(c) = n + 1
      /\ \A i \in 1..n : c[i] = q[i]
      /\ c[n + 1] = ev
  <2>1. <<ev>> \in Seq(Event) /\ Len(<<ev>>) = 1 /\ <<ev>>[1] = ev
    OBVIOUS
  <2>2. c \in Seq(Event) /\ Len(c) = n + 1
    BY <1>1, <1>3, <2>1
  <2>3. \A i \in 1..n : c[i] = a[i]
    BY <1>1, <1>3, <2>1
  <2>4. c[n + 1] = ev
    BY <1>1, <1>3, <2>1
  <2> QED
    BY <1>3, <2>2, <2>3, <2>4
<1>6. r = c \o b
  BY <1>2
<1> HIDE DEF c
<1>7. r \in Seq(Event) /\ Len(r) = Len(q) + 1
  BY <1>1, <1>4, <1>5, <1>6
<1>8. \A i \in 1..(n + 1) : r[i] = c[i]
  BY <1>1, <1>4, <1>5, <1>6
<1>9. (\A i \in 1..n : r[i] = q[i]) /\ r[n + 1] = ev
  <2>1. n + 1 \in 1..(n + 1) /\ \A i \in 1..n : i \in 1..(n + 1)
    BY <1>1
  <2> QED
    BY <1>5, <1>8, <2>1
<1>10. ASSUME NEW i \in (n + 2)..(Len(q) + 1) PROVE r[i] = q[i - 1]
  <2>1. r[i] = b[i - (n + 1)]
    BY <1>1, <1>4, <1>5, <1>6, SMTT(30)
  <2>2. i - (n + 1) \in 1..(Len(q) - n)
    BY <1>1
  <2>3. n + (i - (n + 1)) = i - 1
    BY <1>1
  <2>4. \A k \in 1..(Len(q) - n) : b[k] = q[n + k]
    BY <1>4
  <2>5. b[i - (n + 1)] = q[i - 1]
    BY <2>2, <2>3, <2>4
  <2> QED
    BY <2>1, <2>5
<1> QED
  BY <1>1, <1>7, <1>9, <1>10 DEF n, r

(* An insertion adds its event, keeps the order of the others and puts the *)
(* new event in front of those that are not earlier.                       *)
LEMMA InsertFacts ==
    ASSUME NEW q \in Seq(Event), NEW ev \in Event, Sorted(q)
    PROVE  LET r == scheduler_insert(q, ev)
           IN  /\ r \in Seq(Event)
               /\ Range(r) = Range(q) \union {ev}
               /\ Sorted(r)
               /\ \A e, f : Before(r, e, f) =>
                     \/ Before(q, e, f)
                     \/ e = ev /\ f \in Range(q) /\ ev.time <= f.time
                     \/ f = ev /\ e \in Range(q) /\ e.time < ev.time
<1> DEFINE n == LowerBound(q, ev)
           r == scheduler_insert(q, ev)
<1>1. /\ n \in 0..Len(q) /\ Len(q) \in Nat
      /\ \A i \in 1..n : q[i].time < ev.time
      /\ n < Len(q) => ~(q[n + 1].time < ev.time)
  BY LowerBoundSpec
<1>2. /\ r \in Seq(Event) /\ Len(r) = Len(q) + 1
      /\ \A i \in 1..n : r[i] = q[i]
      /\ r[n + 1] = ev
      /\ \A i \in (n + 2)..(Len(q) + 1) : r[i] = q[i - 1]
  BY InsertSpec
<1> HIDE DEF n, r
<1>3. \A i \in 1..Len(q) : q[i] \in Event /\ q[i].time \in Nat
  <2>1. \A e \in Event : e.time \in Nat
    BY DEF Event
  <2>2. \A i \in 1..Len(q) : q[i] \in Event
    OBVIOUS
  <2> QED
    BY <2>1, <2>2
<1>4. ev.time \in Nat
  BY DEF Event
<1>5. \A i \in (n + 1)..Len(q) : ev.time <= q[i].time
  <2> TAKE i \in (n + 1)..Len(q)
  <2>1. n < Len(q) /\ i \in 1..Len(q) /\ n + 1 \in 1..Len(q)
    BY <1>1
  <2>2. ev.time <= q[n + 1].time
    BY <1>1, <1>3, <1>4, <2>1
  <2>3. q[n + 1].time <= q[i].time
    BY <1>1, <1>3, <2>1 DEF Sorted
  <2> QED
    BY <1>3, <1>4, <2>1, <2>2, <2>3
<1>6. ASSUME NEW i \in 1..Len(r), NEW j \in 1..Len(r), i < j
      PROVE  \/ \E a, b \in 1..Len(q) : a < b /\ r[i] = q[a] /\ r[j] = q[b]
             \/ r[i] = ev /\ \E b \in (n + 1)..Len(q) : r[j] = q[b]
             \/ r[j] = ev /\ \E a \in 1..n : r[i] = q[a]
  <2>1. CASE j <= n
    <3>1. i \in 1..n /\ j \in 1..n /\ i \in 1..Len(q) /\ j \in 1..Len(q)
      BY <1>1, <1>2, <1>6, <2>1
    <3>2. r[i] = q[i] /\ r[j] = q[j]
      BY <1>2, <3>1
    <3> QED
      BY <1>6, <3>1, <3>2
  <2>2. CASE j = n + 1
    <3>1. i \in 1..n /\ r[j] = ev
      BY <1>1, <1>2, <1>6, <2>2
    <3>2. r[i] = q[i]
      BY <1>2, <3>1
    <3> QED
      BY <3>1, <3>2
  <2>3. CASE j > n + 1
    <3>1. r[j] = q[j - 1] /\ j - 1 \in (n + 1)..Len(q)
      BY <1>1, <1>2, <2>3
    <3>2. CASE i <= n
      <4>1. r[i] = q[i] /\ i \in 1..Len(q) /\ i < j - 1
        BY <1>1, <1>2, <2>3, <3>2
      <4>2. j - 1 \in 1..Len(q)
        BY <1>1, <3>1
      <4> QED
        BY <3>1, <4>1, <4>2
    <3>3. CASE i = n + 1
      BY <1>1, <1>2, <1>6, <3>1, <3>3
    <3>4. CASE i > n + 1
      <4>1. r[i] = q[i - 1] /\ i - 1 \in 1..Len(q) /\ i - 1 < j - 1
        BY <1>1, <1>2, <1>6, <3>4
      <4>2. j - 1 \in 1..Len(q)
        BY <1>1, <3>1
      <4> QED
        BY <3>1, <4>1, <4>2
    <3> QED
      BY <1>1, <3>2, <3>3, <3>4
  <2> QED
    BY <1>1, <1>2, <2>1, <2>2, <2>3
<1>7. Range(r) = Range(q) \union {ev}
  <2>1. ASSUME NEW i \in 1..Len(r) PROVE r[i] \in Range(q) \union {ev}
    <3>1. CASE i <= n
      BY <1>1, <1>2, <3>1 DEF Range
    <3>2. CASE i = n + 1
      BY <1>2, <3>2
    <3>3. CASE i > n + 1
      <4>1. r[i] = q[i - 1] /\ i - 1 \in 1..Len(q)
        BY <1>1, <1>2, <3>3
      <4> QED
        BY <4>1 DEF Range
    <3> QED
      BY <1>1, <3>1, <3>2, <3>3
  <2>2. ASSUME NEW i \in 1..Len(q) PROVE q[i] \in Range(r)
    <3>1. CASE i <= n
      <4>1. r[i] = q[i] /\ i \in 1..Len(r)
        BY <1>1, <1>2, <3>1
      <4> QED
        BY <1>2, <4>1 DEF Range
    <3>2. CASE i > n
      <4>1. i + 1 \in (n + 2)..(Len(q) + 1) /\ (i + 1) - 1 = i
        BY <1>1, <3>2
      <4>2. r[i + 1] = q[i]
        BY <1>2, <4>1
      <4>3. i + 1 \in 1..Len(r)
        BY <1>1, <1>2
      <4> QED
        BY <1>2, <4>2, <4>3 DEF Range
    <3> QED
      BY <1>1, <3>1, <3>2
  <2>3. ev \in Range(r)
    BY <1>1, <1>2 DEF Range
  <2>4. Range(r) \subseteq Range(q) \union {ev}
    BY <1>2, <2>1 DEF Range
  <2>5. Range(q) \subseteq Range(r)
    BY <2>2 DEF Range
  <2> QED
    BY <2>3, <2>4, <2>5
<1>8. Sorted(r)
  <2> SUFFICES ASSUME NEW i \in 1..Len(r), NEW j \in 1..Len(r), i < j
               PROVE  r[i].time <= r[j].time
    BY DEF Sorted
  <2>1. CASE \E a, b \in 1..Len(q) : a < b /\ r[i] = q[a] /\ r[j] = q[b]
    BY <2>1 DEF Sorted
  <2>2. CASE r[i] = ev /\ \E b \in (n + 1)..Len(q) : r[j] = q[b]
    BY <1>5, <2>2
  <2>3. CASE r[j] = ev /\ \E a \in 1..n : r[i] = q[a]
    BY <1>1, <1>3, <1>4, <2>3
  <2> QED
    BY <1>6, <2>1, <2>2, <2>3
<1>9. ASSUME NEW e, NEW f, Before(r, e, f)
      PROVE  \/ Before(q, e, f)
             \/ e = ev /\ f \in Range(q) /\ ev.time <= f.time
             \/ f = ev /\ e \in Range(q) /\ e.time < ev.time
  <2>1. PICK i \in 1..Len(r), j \in 1..Len(r) : i < j /\ r[i] = e /\ r[j] = f
    BY <1>9 DEF Before
  <2>2. CASE \E a, b \in 1..Len(q) : a < b /\ r[i] = q[a] /\ r[j] = q[b]
    BY <2>1, <2>2 DEF Before
  <2>3. CASE r[i] = ev /\ \E b \in (n + 1)..Len(q) : r[j] = q[b]
    BY <1>1, <1>5, <2>1, <2>3 DEF Range
  <2>4. CASE r[j] = ev /\ \E a \in 1..n : r[i] = q[a]
    BY <1>1, <2>1, <2>4 DEF Range
  <2> QED
    BY <1>6, <2>1, <2>2, <2>3, <2>4
<1> QED
  BY <1>2, <1>7, <1>8, <1>9 DEF r

(* Distinct, seen through Before.                                          *)
LEMMA DistinctBefore ==
    ASSUME NEW q \in Seq(Event)
    PROVE  Distinct(q) <=> \A e, f : Before(q, e, f) => e.id # f.id
<1>0. Len(q) \in Nat
  OBVIOUS
<1>1. ASSUME Distinct(q), NEW e, NEW f, Before(q, e, f) PROVE e.id # f.id
  BY <1>0, <1>1 DEF Distinct, Before
<1>2. ASSUME \A e, f : Before(q, e, f) => e.id # f.id,
             NEW i \in 1..Len(q), NEW j \in 1..Len(q), q[i].id = q[j].id
      PROVE  i = j
  <2>1. ~(i < j)
    <3> SUFFICES ASSUME i < j PROVE FALSE
      OBVIOUS
    <3>1. Before(q, q[i], q[j])
      BY DEF Before
    <3> QED
      BY <1>2, <3>1
  <2>2. ~(j < i)
    <3> SUFFICES ASSUME j < i PROVE FALSE
      OBVIOUS
    <3>1. Before(q, q[j], q[i])
      BY DEF Before
    <3> QED
      BY <1>2, <3>1
  <2> QED
    BY <1>0, <2>1, <2>2
<1> QED
  BY <1>1, <1>2 DEF Distinct

(* What is in front of the head, and behind it.                            *)
LEMMA HeadFacts ==
    ASSUME NEW q \in Seq(Event), q # <<>>
    PROVE  LET h == scheduler_retrieve(q)
           IN  /\ h \in Range(q) /\ h \in Event
               /\ \A f \in Range(q) : f = h \/ Before(q, h, f)
               /\ Sorted(q) => \A f \in Range(q) : h.time <= f.time
               /\ Distinct(q) => \A e : ~Before(q, e, h)
<1> DEFINE h == scheduler_retrieve(q)
<1>0. Len(q) \in Nat /\ Len(q) >= 1 /\ h = q[1] /\ q[1] \in Event
  BY DEF scheduler_retrieve
<1> HIDE DEF h
<1>1. h \in Range(q) /\ h \in Event
  BY <1>0 DEF Range
<1>2. ASSUME NEW f \in Range(q) PROVE f = h \/ Before(q, h, f)
  <2>1. PICK i \in 1..Len(q) : q[i] = f
    BY DEF Range
  <2> QED
    BY <1>0, <2>1 DEF Before
<1>3. ASSUME Sorted(q), NEW f \in Range(q) PROVE h.time <= f.time
  <2>1. PICK i \in 1..Len(q) : q[i] = f
    BY DEF Range
  <2>2. h.time \in Nat
    BY <1>1 DEF Event
  <2> QED
    BY <1>0, <1>3, <2>1, <2>2 DEF Sorted
<1>4. ASSUME Distinct(q), NEW e PROVE ~Before(q, e, h)
  BY <1>0, <1>4 DEF Distinct, Before
<1> QED
  BY <1>1, <1>2, <1>3, <1>4 DEF h

(* The list without its k-th element.                                      *)
Without(q, k) == SubSeq(q, 1, k - 1) \o SubSeq(q, k + 1, Len(q))

(* Taking one position out keeps the order of the others.                  *)
LEMMA WithoutFacts ==
    ASSUME NEW q \in Seq(Event), NEW k \in 1..Len(q)
    PROVE  LET r == Without(q, k)
           IN  /\ r \in Seq(Event) /\ Len(r) = Len(q) - 1
               /\ \A i \in 1..Len(r) : r[i] = q[IF i < k THEN i ELSE i + 1]
<1> DEFINE a == SubSeq(q, 1, k - 1)
           b == SubSeq(q, k + 1, Len(q))
           r == Without(q, k)
<1>0. Len(q) \in Nat /\ r = a \o b
  BY DEF Without
<1>1. a \in Seq(Event) /\ Len(a) = k - 1 /\ \A i \in 1..(k - 1) : a[i] = q[i]
  BY <1>0
<1>2. /\ b \in Seq(Event) /\ Len(b) = Len(q) - k
      /\ \A i \in 1..(Len(q) - k) : b[i] = q[k + i]
  BY <1>0
<1> HIDE DEF a, b, r
<1>3. r \in Seq(Event) /\ Len(r) = Len(q) - 1
  <2>1. r \in Seq(Event) /\ Len(r) = Len(a) + Len(b)
    <3>1. \A c, d \in Seq(Event) : c \o d \in Seq(Event) /\ Len(c \o d) = Len(c) + Len(d)
      OBVIOUS
    <3> QED
      BY <1>0, <1>1, <1>2, <3>1
  <2> QED
    BY <1>0, <1>1, <1>2, <2>1
<1>4. ASSUME NEW i \in 1..Len(r) PROVE r[i] = q[IF i < k THEN i ELSE i + 1]
  <2>1. CASE i < k
    BY <1>0, <1>1, <1>2, <1>3, <2>1
  <2>2. CASE i >= k
    <3>1. r[i] = b[i - (k - 1)] /\ i - (k - 1) \in 1..(Len(q) - k)
      BY <1>0, <1>1, <1>2, <1>3, <2>2
    <3>2. k + (i - (k - 1)) = i + 1
      BY <1>3
    <3> QED
      BY <1>2, <2>2, <3>1, <3>2
  <2> QED
    BY <1>3, <2>1, <2>2
<1> QED
  BY <1>3, <1>4 DEF r

(* A queue with some events taken out.                                     *)
Thinned(r, q) == /\ r \in Seq(Event)
                 /\ Range(r) \subseteq Range(q)
                 /\ Sorted(q) => Sorted(r)
                 /\ \A e, f : Before(r, e, f) => Before(q, e, f)

(* What taking the k-th event out of the list does to it.                  *)
LEMMA RemoveFacts ==
    ASSUME NEW q \in Seq(Event), NEW k \in 1..Len(q)
    PROVE  /\ Thinned(Without(q, k), q)
           /\ Distinct(q) => Range(Without(q, k)) = Range(q) \ {q[k]}
<1> DEFINE r == Without(q, k)
           at(i) == IF i < k THEN i ELSE i + 1
<1>0. Len(q) \in Nat
  OBVIOUS
<1>1. /\ r \in Seq(Event) /\ Len(r) = Len(q) - 1
      /\ \A i \in 1..Len(r) : r[i] = q[at(i)]
  BY WithoutFacts
<1> HIDE DEF r
<1>2. /\ \A i \in 1..Len(r) : at(i) \in 1..Len(q) /\ at(i) # k
      /\ \A i, j \in 1..Len(r) : i < j => at(i) < at(j)
  BY <1>0, <1>1
<1>3. ASSUME NEW i \in 1..Len(q), i # k
      PROVE  \E j \in 1..Len(r) : at(j) = i
  <2>1. CASE i < k
    BY <1>0, <1>1, <2>1
  <2>2. CASE i > k
    <3>1. i - 1 \in 1..Len(r) /\ at(i - 1) = i
      BY <1>0, <1>1, <2>2
    <3> QED
      BY <3>1
  <2> QED
    BY <1>0, <1>3, <2>1, <2>2
<1> HIDE DEF at
<1>4. Range(r) \subseteq Range(q)
  BY <1>1, <1>2 DEF Range
<1>5. ASSUME Sorted(q) PROVE Sorted(r)
  BY <1>1, <1>2, <1>5 DEF Sorted
<1>6. ASSUME NEW e, NEW f, Before(r, e, f) PROVE Before(q, e, f)
  BY <1>1, <1>2, <1>6 DEF Before
<1>7. ASSUME Distinct(q) PROVE Range(r) = Range(q) \ {q[k]}
  <2>1. ASSUME NEW i \in 1..Len(r) PROVE r[i] # q[k]
    BY <1>1, <1>2, <1>7 DEF Distinct
  <2>2. ASSUME NEW i \in 1..Len(q), i # k PROVE q[i] \in Range(r)
    <3>1. PICK j \in 1..Len(r) : at(j) = i
      BY <1>3, <2>2
    <3>2. r[j] = q[i]
      BY <1>1, <3>1
    <3> QED
      BY <1>1, <3>2 DEF Range
  <2>3. \A x \in Range(r) : x # q[k]
    BY <1>1, <2>1 DEF Range
  <2>4. \A x \in Range(q) \ {q[k]} : x \in Range(r)
    BY <2>2 DEF Range
  <2> QED
    BY <1>4, <2>3, <2>4
<1> QED
  BY <1>1, <1>4, <1>5, <1>6, <1>7 DEF Thinned, r

(* scheduler_dispatch takes the head out and nothing else.                 *)
LEMMA DispatchFacts ==
    ASSUME NEW q \in Seq(Event), q # <<>>
    PROVE  LET r == scheduler_dispatch(q)
           IN  /\ Thinned(r, q)
               /\ Distinct(q) => Range(r) = Range(q) \ {scheduler_retrieve(q)}
<1>1. Len(q) \in Nat /\ Len(q) >= 1 /\ 1 \in 1..Len(q)
  OBVIOUS
<1>2. scheduler_dispatch(q) = Without(q, 1)
  <2> DEFINE t == Tail(q)
             r == Without(q, 1)
  <2>1. t \in Seq(Event) /\ Len(t) = Len(q) - 1
        /\ \A i \in 1..Len(t) : t[i] = q[i + 1]
    BY <1>1
  <2>2. r \in Seq(Event) /\ Len(r) = Len(q) - 1
        /\ \A i \in 1..Len(r) : r[i] = q[IF i < 1 THEN i ELSE i + 1]
    BY <1>1, WithoutFacts
  <2> HIDE DEF t, r
  <2>3. \A i \in 1..Len(t) : t[i] = r[i]
    <3> TAKE i \in 1..Len(t)
    <3>1. i \in 1..Len(r) /\ ~(i < 1)
      BY <1>1, <2>1, <2>2
    <3> QED
      BY <2>1, <2>2, <3>1
  <2>4. t = r
    BY <2>1, <2>2, <2>3
  <2> QED
    BY <2>4 DEF scheduler_dispatch, t, r
<1>3. scheduler_retrieve(q) = q[1]
  BY DEF scheduler_retrieve
<1> QED
  BY <1>1, <1>2, <1>3, RemoveFacts

(* scheduler_delete takes its event out and nothing else, wherever it is.  *)
LEMMA DeleteFacts ==
    ASSUME NEW q \in Seq(Event), NEW ev \in Range(q)
    PROVE  LET r == scheduler_delete(q, ev)
           IN  /\ Thinned(r, q)
               /\ Distinct(q) => Range(r) = Range(q) \ {ev}
<1>1. \E n \in 1..Len(q) : q[n] = ev
  BY DEF Range
<1> DEFINE k == CHOOSE n \in 1..Len(q) : q[n] = ev
<1>2. k \in 1..Len(q) /\ q[k] = ev
  BY <1>1
<1>3. scheduler_delete(q, ev) = Without(q, k)
  BY <1>1 DEF scheduler_delete, Without
<1> HIDE DEF k
<1> QED
  BY <1>2, <1>3, RemoveFacts
=============================================================================
