---------------------------- MODULE BgpPeerProofs ----------------------------
(***************************************************************************)
(* The decision process of the BGP peer, for any list of routes, and the   *)
(* tables that it keeps, for any neighbors, prefixes, paths and            *)
(* configuration: first what each step of the selection keeps of a list,   *)
(* then what the selection and the choice between two routes return, then  *)
(* the invariant of the tables.                                            *)
(***************************************************************************)
EXTENDS BgpPeer, ListProofs

(* A route as the decision process sees it.                                *)
IsRoute(r) == /\ r.as_path \in Seq(Nat) /\ r.as_path # <<>>
              /\ r.med \in Nat /\ r.next_hop \in Nat

Routes(q) == q \in Seq(Range(q)) /\ \A k \in 1..Len(q) : IsRoute(q[k])

(* r has the elements of q at the positions in S, each once.               *)
Picks(r, q, S, at) ==
    /\ at \in [1..Len(r) -> S]
    /\ \A i, j \in 1..Len(r) : at[i] = at[j] => i = j
    /\ \A k \in S : \E i \in 1..Len(r) : at[i] = k
    /\ \A i \in 1..Len(r) : r[i] = q[at[i]]

(* Picking one more element, or the elements of two sets.                  *)
LEMMA PicksBoth ==
    ASSUME NEW T, NEW r \in Seq(T), NEW s \in Seq(T), NEW q, NEW R, NEW S, NEW at, NEW bt,
           Picks(r, q, R, at), Picks(s, q, S, bt), R \intersect S = {}
    PROVE  \E ct : Picks(r \o s, q, R \union S, ct)
<1> DEFINE t == r \o s
           m == Len(r)
           n == Len(s)
           ct == [i \in 1..(m + n) |-> IF i <= m THEN at[i] ELSE bt[i - m]]
<1>1. m \in Nat /\ n \in Nat
  OBVIOUS
<1>2. /\ t \in Seq(T) /\ Len(t) = m + n
      /\ \A i \in 1..m : t[i] = r[i]
      /\ \A i \in (m + 1)..(m + n) : t[i] = s[i - m]
  OBVIOUS
<1>3. /\ at \in [1..m -> R] /\ (\A i, j \in 1..m : at[i] = at[j] => i = j)
      /\ (\A k \in R : \E i \in 1..m : at[i] = k) /\ \A i \in 1..m : r[i] = q[at[i]]
  BY DEF Picks
<1>4. /\ bt \in [1..n -> S] /\ (\A i, j \in 1..n : bt[i] = bt[j] => i = j)
      /\ (\A k \in S : \E i \in 1..n : bt[i] = k) /\ \A i \in 1..n : s[i] = q[bt[i]]
  BY DEF Picks
<1> HIDE DEF t, m, n
<1>5. \A i \in 1..(m + n) : \/ i \in 1..m /\ i <= m
                            \/ i \in (m + 1)..(m + n) /\ ~(i <= m) /\ i - m \in 1..n
  BY <1>1
<1>6. (\A i \in 1..m : i \in 1..(m + n) /\ i <= m /\ ct[i] = at[i])
  BY <1>1
<1>7. \A i \in 1..(m + n) : ~(i <= m) => ct[i] = bt[i - m]
  OBVIOUS
<1>8. \A i \in 1..n : i + m \in 1..(m + n) /\ ct[i + m] = bt[i]
  BY <1>1
<1>9. ct \in [1..(m + n) -> R \union S]
  BY <1>1, <1>3, <1>4, <1>5
<1> HIDE DEF ct
<1>10. \A i, j \in 1..(m + n) : ct[i] = ct[j] => i = j
  <2> TAKE i, j \in 1..(m + n)
  <2> HAVE ct[i] = ct[j]
  <2>1. CASE i <= m /\ j <= m
    BY <1>3, <1>5, <1>6, <2>1
  <2>2. CASE ~(i <= m) /\ ~(j <= m)
    <3>1. i - m \in 1..n /\ j - m \in 1..n /\ bt[i - m] = bt[j - m]
      BY <1>5, <1>7, <2>2
    <3>2. i - m = j - m
      BY <1>4, <3>1
    <3> QED
      BY <1>1, <3>2
  <2>3. CASE i <= m /\ ~(j <= m)
    BY <1>3, <1>4, <1>5, <1>6, <1>7, <2>3
  <2>4. CASE ~(i <= m) /\ j <= m
    BY <1>3, <1>4, <1>5, <1>6, <1>7, <2>4
  <2> QED
    BY <2>1, <2>2, <2>3, <2>4
<1>11. \A k \in R \union S : \E i \in 1..(m + n) : ct[i] = k
  <2> TAKE k \in R \union S
  <2>1. CASE k \in R
    BY <1>3, <1>6, <2>1
  <2>2. CASE k \in S
    BY <1>4, <1>8, <2>2
  <2> QED
    BY <2>1, <2>2
<1>12. \A i \in 1..(m + n) : t[i] = q[ct[i]]
  <2> TAKE i \in 1..(m + n)
  <2>1. CASE i <= m
    BY <1>2, <1>3, <1>5, <1>6, <2>1
  <2>2. CASE ~(i <= m)
    BY <1>2, <1>4, <1>5, <1>7, <2>2
  <2> QED
    BY <2>1, <2>2
<1>13. Picks(t, q, R \union S, ct)
  BY <1>2, <1>9, <1>10, <1>11, <1>12 DEF Picks
<1> QED
  BY <1>13 DEF t

(* Shortest, step by step.                                                 *)
ShortestSoFar(k, q, T) ==
    /\ k \in [0..Len(q) -> Seq(T)]
    /\ k[0] = <<>> /\ k[Len(q)] = Shortest(q)
    /\ \A n \in 1..Len(q) : k[n] = KeepShortest(k[n - 1], q[n])

(* There is such a function: the recursion of Shortest has a value at      *)
(* every position.                                                         *)
LEMMA ShortestSteps ==
    ASSUME NEW T, NEW q \in Seq(T)
    PROVE  \E k : ShortestSoFar(k, q, T)
<1> DEFINE N == Len(q)
           V == Seq(T)
           step == [n \in 1..N |-> [s \in V |-> KeepShortest(s, q[n])]]
           body(f, n) == IF n = 0 THEN <<>> ELSE KeepShortest(f[n - 1], q[n])
           Eq(f) == f = [n \in 0..N |-> body(f, n)]
           k == CHOOSE f : Eq(f)
<1>1. N \in Nat /\ <<>> \in V
  OBVIOUS
<1>2. \A n \in 1..N, s \in V : KeepShortest(s, q[n]) \in V
  BY DEF KeepShortest
<1>3. step \in [1..N -> [V -> V]]
  <2> HIDE DEF V, N
  <2> QED
    BY <1>2
<1>4. Shortest(q) = k[N]
  BY DEF Shortest
<1> HIDE DEF N, V, k
<1>5. PICK f : DefinedBy(f, N, V, <<>>, step)
  <2> HIDE DEF step
  <2> QED
    BY <1>1, <1>3, Recursion
<1>6. Eq(f)
  <2>1. f \in [0..N -> V] /\ f[0] = <<>> /\ \A n \in 1..N : f[n] = step[n][f[n - 1]]
    BY <1>5 DEF DefinedBy
  <2>2. ASSUME NEW n \in 0..N PROVE f[n] = body(f, n)
    <3>1. CASE n = 0
      BY <2>1, <3>1
    <3>2. CASE n # 0
      <4>1. n \in 1..N /\ n - 1 \in 0..N
        BY <1>1, <3>2
      <4> QED
        BY <2>1, <3>2, <4>1
    <3> QED
      BY <3>1, <3>2
  <2> HIDE DEF body
  <2> QED
    BY <2>1, <2>2
<1>7. Eq(k)
  <2> HIDE DEF Eq
  <2> QED
    BY <1>6 DEF k
<1>8. \A n \in 0..N : k[n] = body(k, n)
  <2> DEFINE b(n) == body(k, n)
  <2>1. k = [n \in 0..N |-> b(n)]
    BY <1>7, Zenon
  <2> HIDE DEF b
  <2>2. \A n \in 0..N : k[n] = b(n)
    BY <2>1
  <2> QED
    BY <2>2, Zenon DEF b
<1>9. k[0] = <<>>
  <2>1. 0 \in 0..N
    BY <1>1
  <2> QED
    BY <1>8, <2>1, Zenon
<1>10. ASSUME NEW n \in 1..N PROVE k[n] = KeepShortest(k[n - 1], q[n])
  <2>1. n \in 0..N /\ n # 0
    BY <1>1
  <2> QED
    BY <1>8, <2>1, Zenon
<1>11. \A n \in 0..N : k[n] \in V
  <2>1. \A n \in 1..N : k[n - 1] \in V => k[n] = step[n][k[n - 1]]
    BY <1>10
  <2>2. k[0] \in V
    BY <1>1, <1>9, Zenon
  <2> HIDE DEF step
  <2> QED
    BY <1>1, <1>3, <2>1, <2>2, StaysIn
<1>12. k \in [0..N -> V]
  BY <1>7, <1>11
<1> QED
  BY <1>4, <1>9, <1>10, <1>12, Zenon DEF N, V, ShortestSoFar

(* The positions among the first n with the shortest paths.                *)
ShortestAt(q, n) ==
    {k \in 1..n : \A j \in 1..n : aspath_length(q[k].as_path) <= aspath_length(q[j].as_path)}

(* Shortest keeps the routes with the shortest paths, each once.           *)
LEMMA ShortestFacts ==
    ASSUME NEW T, NEW q \in Seq(T), \A r \in T : IsRoute(r)
    PROVE  /\ Shortest(q) \in Seq(T)
           /\ \E at : Picks(Shortest(q), q, ShortestAt(q, Len(q)), at)
<1> DEFINE N == Len(q)
           size(k) == aspath_length(q[k].as_path)
<1>1. N \in Nat /\ \A k \in 1..N : q[k] \in T /\ size(k) \in Nat
  BY DEF IsRoute, aspath_length
<1>2. PICK k : ShortestSoFar(k, q, T)
  BY ShortestSteps, Zenon
<1>3. /\ k \in [0..N -> Seq(T)] /\ k[0] = <<>> /\ k[N] = Shortest(q)
      /\ \A n \in 1..N : k[n] = KeepShortest(k[n - 1], q[n])
  BY <1>2 DEF ShortestSoFar
<1> DEFINE H == {n \in 0..N : \E at : Picks(k[n], q, ShortestAt(q, n), at)}
<1>4. 0 \in H
  <2> DEFINE at == [i \in 1..0 |-> 0]
  <2>1. Picks(<<>>, q, ShortestAt(q, 0), at)
    BY DEF Picks, ShortestAt
  <2> HIDE DEF at
  <2> QED
    BY <1>1, <1>3, <2>1
<1>5. ASSUME NEW n \in 0..(N - 1), n \in H PROVE n + 1 \in H
  <2> DEFINE r == k[n]
             S == ShortestAt(q, n)
             e == q[n + 1]
             one == [i \in 1..1 |-> n + 1]
  <2>1. n + 1 \in 1..N /\ (n + 1) - 1 = n /\ n \in 0..N /\ n \in Nat /\ n + 1 \in 0..N
    BY <1>1
  <2>2. PICK at : Picks(r, q, S, at)
    BY <1>5
  <2>3. r \in Seq(T) /\ e \in T /\ k[n + 1] = KeepShortest(r, e)
    BY <1>3, <2>1
  <2>4. <<e>> \in Seq(T) /\ Len(<<e>>) = 1 /\ <<e>>[1] = e
    BY <2>3
  <2>5. Picks(<<e>>, q, {n + 1}, one)
    BY <2>1, <2>4 DEF Picks
  <2> HIDE DEF one
  <2>6. ASSUME ShortestAt(q, n + 1) = {n + 1}, k[n + 1] = <<e>>
        PROVE  n + 1 \in H
    BY <2>1, <2>5, <2>6
  <2>7. \A j \in 1..(n + 1) : j \in 1..n \/ j = n + 1
    BY <2>1
  <2>8. \A j \in 1..n : j \in 1..(n + 1) /\ j \in 1..N /\ j # n + 1
    BY <2>1
  <2>a. \A j : j \in S <=> j \in 1..n /\ \A i \in 1..n : size(j) <= size(i)
    BY DEF ShortestAt
  <2>b. \A j : j \in ShortestAt(q, n + 1) <=>
                 j \in 1..(n + 1) /\ \A i \in 1..(n + 1) : size(j) <= size(i)
    BY DEF ShortestAt
  <2>9. CASE r = <<>>
    <3>1. S = {}
      BY <2>2, <2>9 DEF Picks
    <3>2. n = 0
      <4>1. SUFFICES ASSUME n # 0 PROVE FALSE
        OBVIOUS
      <4> DEFINE L == {size(j) : j \in 1..n}
      <4>2. L \subseteq Nat /\ L # {}
        <5>1. 1 \in 1..n
          BY <2>1, <4>1
        <5>2. \A j \in 1..n : size(j) \in Nat
          BY <1>1, <2>8
        <5> HIDE DEF size
        <5> QED
          BY <5>1, <5>2
      <4>3. PICK x \in L : \A y \in L : x <= y
        BY <4>2, FirstPosition
      <4>4. PICK j \in 1..n : x = size(j)
        OBVIOUS
      <4>5. j \in S
        BY <4>3, <4>4 DEF ShortestAt
      <4> QED
        BY <3>1, <4>5
    <3>3. ShortestAt(q, n + 1) = {n + 1}
      BY <1>1, <2>1, <3>2 DEF ShortestAt
    <3>4. k[n + 1] = <<e>>
      BY <2>3, <2>9 DEF KeepShortest
    <3> QED
      BY <2>6, <3>3, <3>4
  <2>10. CASE r # <<>>
    <3>1. 1 \in 1..Len(r)
      BY <2>3, <2>10
    <3>2. PICK m \in S : r[1] = q[m]
      BY <2>2, <3>1 DEF Picks
    <3>3. m \in 1..n /\ \A j \in 1..n : size(m) <= size(j)
      BY <3>2 DEF ShortestAt
    <3>4. aspath_length(r[1].as_path) = size(m) /\ aspath_length(e.as_path) = size(n + 1)
      BY <3>2
    <3>5. size(m) \in Nat /\ size(n + 1) \in Nat /\ \A j \in 1..n : size(j) \in Nat
      BY <1>1, <2>1, <2>8, <3>3
    <3>6. /\ \A j \in S : j \in 1..n /\ size(j) = size(m)
          /\ \A j \in 1..n : size(j) = size(m) => j \in S
      BY <3>3, <3>5 DEF ShortestAt
    <3>7. CASE size(n + 1) < size(m)
      <4>1. k[n + 1] = <<e>>
        BY <2>3, <2>10, <3>4, <3>5, <3>7 DEF KeepShortest
      <4>2. \A j \in 1..n : size(n + 1) < size(j)
        BY <3>3, <3>5, <3>7
      <4>3. ShortestAt(q, n + 1) = {n + 1}
        <5> HIDE DEF size
        <5>1. n + 1 \in ShortestAt(q, n + 1)
          BY <2>1, <2>7, <2>b, <3>5, <4>2
        <5>2. ASSUME NEW j \in ShortestAt(q, n + 1) PROVE j = n + 1
          BY <2>1, <2>7, <2>b, <3>5, <4>2
        <5> QED
          BY <5>1, <5>2
      <4> QED
        BY <2>6, <4>1, <4>3
    <3>8. CASE size(n + 1) = size(m)
      <4>1. k[n + 1] = r \o <<e>>
        <5>1. k[n + 1] = Append(r, e)
          BY <2>3, <2>10, <3>4, <3>5, <3>8 DEF KeepShortest
        <5>2. \A s \in Seq(T), x \in T : Append(s, x) = s \o <<x>>
          OBVIOUS
        <5> QED
          BY <2>3, <5>1, <5>2
      <4>2. ShortestAt(q, n + 1) = S \union {n + 1}
        <5> HIDE DEF size
        <5>1. n + 1 \in ShortestAt(q, n + 1)
          BY <2>1, <2>7, <2>b, <3>3, <3>5, <3>8, SMTT(30)
        <5>2. ASSUME NEW j \in S PROVE j \in ShortestAt(q, n + 1)
          BY <2>7, <2>8, <2>a, <2>b, <3>5, <3>6, <3>8, SMTT(30)
        <5>3. ASSUME NEW j \in ShortestAt(q, n + 1), j # n + 1 PROVE j \in S
          BY <2>7, <2>8, <2>a, <2>b, <5>3, SMTT(30)
        <5> HIDE DEF S
        <5> QED
          BY <5>1, <5>2, <5>3, Zenon
      <4>3. S \intersect {n + 1} = {}
        BY <2>8, <3>6
      <4>4. \E ct : Picks(r \o <<e>>, q, S \union {n + 1}, ct)
        <5> HIDE DEF r, S, e
        <5> QED
          BY <2>2, <2>3, <2>4, <2>5, <4>3, PicksBoth
      <4> QED
        BY <2>1, <4>1, <4>2, <4>4
    <3>9. CASE size(m) < size(n + 1)
      <4>1. k[n + 1] = r
        BY <2>3, <2>10, <3>4, <3>5, <3>9 DEF KeepShortest
      <4>2. ShortestAt(q, n + 1) = S
        <5> HIDE DEF size, S
        <5>1. ASSUME NEW j \in S PROVE j \in ShortestAt(q, n + 1)
          BY <2>7, <2>8, <2>a, <2>b, <3>5, <3>6, <3>9
        <5>2. ASSUME NEW j \in ShortestAt(q, n + 1) PROVE j \in S
          <6>1. j # n + 1
            BY <2>8, <2>b, <3>3, <3>5, <3>9
          <6> QED
            BY <2>7, <2>8, <2>a, <2>b, <6>1
        <5> QED
          BY <5>1, <5>2
      <4> QED
        BY <2>1, <2>2, <4>1, <4>2
    <3> QED
      BY <3>5, <3>7, <3>8, <3>9
  <2> QED
    BY <2>9, <2>10
<1>6. N \in H
  <2> HIDE DEF H
  <2>1. 0..N \subseteq H
    BY <1>1, <1>4, <1>5, UpTo
  <2> QED
    BY <1>1, <2>1
<1>7. Shortest(q) \in Seq(T)
  BY <1>1, <1>3
<1> QED
  BY <1>3, <1>6, <1>7

(* The positions of an AS with the lowest MED of it.                       *)
LowestMedAt(q, as) ==
    {k \in FromAs(q, as) : \A j \in FromAs(q, as) : q[k].med <= q[j].med}

(* LowestMed keeps the routes of one AS that have its lowest MED.          *)
LEMMA LowestMedFacts ==
    ASSUME NEW T, NEW q \in Seq(T), NEW as
    PROVE  /\ LowestMed(q, as) \in Seq(T)
           /\ \E at : Picks(LowestMed(q, as), q, LowestMedAt(q, as), at)
<1> DEFINE S == LowestMedAt(q, as)
           r == Kept(q, S)
<1>1. LowestMed(q, as) = r
  BY DEF LowestMed, LowestMedAt
<1>2. S \intersect 1..Len(q) = S
  BY DEF LowestMedAt, FromAs
<1> HIDE DEF S
<1>3. r \in Seq(T) /\ \E at : IsKept(r, q, S, at)
  BY KeptFacts
<1> HIDE DEF r
<1>4. PICK at : IsKept(r, q, S, at)
  BY <1>3
<1>5. Len(r) \in Nat
  BY <1>3
<1>6. at \in [1..Len(r) -> S] /\ \A i \in 1..Len(r) : at[i] \in 1..Len(q)
  BY <1>2, <1>4 DEF IsKept
<1>7. \A i, j \in 1..Len(r) : at[i] = at[j] => i = j
  <2> TAKE i, j \in 1..Len(r)
  <2>1. at[i] \in Nat /\ at[j] \in Nat
    BY <1>6
  <2>2. (i < j => at[i] < at[j]) /\ (j < i => at[j] < at[i])
    BY <1>4 DEF IsKept
  <2> QED
    BY <1>5, <2>1, <2>2
<1>8. Picks(r, q, S, at)
  BY <1>2, <1>4, <1>6, <1>7 DEF IsKept, Picks
<1> QED
  BY <1>1, <1>3, <1>8 DEF S

(* One of the routes has the highest AS.                                   *)
LEMMA HighestAsFacts ==
    ASSUME NEW T, NEW q \in Seq(T), q # <<>>, \A r \in T : IsRoute(r)
    PROVE  /\ HighestAs(q) \in Nat
           /\ \A k \in 1..Len(q) : get_advertised_as(q[k].as_path) \in 0..HighestAs(q)
<1> DEFINE N == Len(q)
           from(k) == get_advertised_as(q[k].as_path)
           Top(m) == \E k \in 1..m : \A j \in 1..m : from(j) <= from(k)
           H == {n \in 0..(N - 1) : Top(n + 1)}
<1>1. N \in Nat /\ N >= 1
  OBVIOUS
<1>2. \A k \in 1..N : from(k) \in Nat
  <2> TAKE k \in 1..N
  <2>1. q[k] \in T
    OBVIOUS
  <2>2. q[k].as_path \in Seq(Nat) /\ q[k].as_path # <<>>
    BY <2>1 DEF IsRoute
  <2> QED
    BY <2>2 DEF get_advertised_as
<1>3. HighestAs(q) = CHOOSE a \in {from(k) : k \in 1..N} : \A k \in 1..N : from(k) <= a
  BY DEF HighestAs
<1> HIDE DEF from, N
<1>4. 0 \in H
  BY <1>1, <1>2
<1>5. ASSUME NEW n \in 0..((N - 1) - 1), n \in H PROVE n + 1 \in H
  <2>1. PICK k \in 1..(n + 1) : \A j \in 1..(n + 1) : from(j) <= from(k)
    BY <1>5
  <2>2. /\ n + 1 \in 0..(N - 1) /\ (n + 1) + 1 \in 1..N
        /\ \A j \in 1..(n + 1) : j \in 1..((n + 1) + 1) /\ j \in 1..N
        /\ (n + 1) + 1 \in 1..((n + 1) + 1)
        /\ \A j \in 1..((n + 1) + 1) : j \in 1..(n + 1) \/ j = (n + 1) + 1
    BY <1>1
  <2>3. Top((n + 1) + 1)
    <3>1. CASE from((n + 1) + 1) <= from(k)
      BY <2>1, <2>2, <3>1
    <3>2. CASE ~(from((n + 1) + 1) <= from(k))
      <4>1. \A j \in 1..((n + 1) + 1) : from(j) <= from((n + 1) + 1)
        BY <1>2, <2>1, <2>2, <3>2, SMTT(30)
      <4> QED
        BY <2>2, <4>1
    <3> QED
      BY <3>1, <3>2
  <2> QED
    BY <2>2, <2>3
<1>6. Top(N)
  <2>1. N - 1 \in Nat /\ (N - 1) + 1 = N /\ N - 1 \in 0..(N - 1)
    BY <1>1
  <2>2. 0..(N - 1) \subseteq H
    <3> HIDE DEF H
    <3> QED
      BY <1>4, <1>5, <2>1, UpTo
  <2> QED
    BY <2>1, <2>2
<1>7. PICK top \in 1..N : \A j \in 1..N : from(j) <= from(top)
  BY <1>6
<1> DEFINE A == {from(k) : k \in 1..N}
           a == CHOOSE x \in A : \A k \in 1..N : from(k) <= x
<1>8. from(top) \in A
  OBVIOUS
<1>9. a \in A /\ \A k \in 1..N : from(k) <= a
  <2> HIDE DEF A
  <2> QED
    BY <1>7, <1>8
<1>10. a \in Nat /\ a = HighestAs(q)
  BY <1>2, <1>3, <1>9
<1> HIDE DEF a
<1>11. \A k \in 1..N : from(k) \in 0..HighestAs(q)
  BY <1>2, <1>9, <1>10
<1> QED
  BY <1>10, <1>11 DEF from, N

(* PostMed, step by step.                                                  *)
PostMedSoFar(p, q, T) ==
    /\ p \in [0..HighestAs(q) -> Seq(T)]
    /\ p[0] = LowestMed(q, 0) /\ p[HighestAs(q)] = PostMed(q)
    /\ \A n \in 1..HighestAs(q) : p[n] = p[n - 1] \o LowestMed(q, n)

(* There is such a function: the recursion of PostMed has a value at       *)
(* every AS.                                                               *)
LEMMA PostMedSteps ==
    ASSUME NEW T, NEW q \in Seq(T), HighestAs(q) \in Nat
    PROVE  \E p : PostMedSoFar(p, q, T)
<1> DEFINE N == HighestAs(q)
           V == Seq(T)
           of(n) == LowestMed(q, n)
           step == [n \in 1..N |-> [s \in V |-> s \o of(n)]]
           body(f, n) == IF n = 0 THEN of(0) ELSE f[n - 1] \o of(n)
           Eq(f) == f = [n \in 0..N |-> body(f, n)]
           k == CHOOSE f : Eq(f)
<1>1. N \in Nat /\ \A n : of(n) \in V
  BY LowestMedFacts
<1>2. PostMed(q) = k[N]
  BY DEF PostMed
<1> HIDE DEF N, k, of
<1>3. step \in [1..N -> [V -> V]]
  <2>1. \A n \in 1..N, s \in V : s \o of(n) \in V
    BY <1>1
  <2> HIDE DEF V
  <2> QED
    BY <2>1
<1> HIDE DEF V
<1>5. PICK f : DefinedBy(f, N, V, of(0), step)
  <2> HIDE DEF step
  <2> QED
    BY <1>1, <1>3, Recursion
<1>6. Eq(f)
  <2>1. f \in [0..N -> V] /\ f[0] = of(0) /\ \A n \in 1..N : f[n] = step[n][f[n - 1]]
    BY <1>5 DEF DefinedBy
  <2>2. ASSUME NEW n \in 0..N PROVE f[n] = body(f, n)
    <3>1. CASE n = 0
      BY <2>1, <3>1
    <3>2. CASE n # 0
      <4>1. n \in 1..N /\ n - 1 \in 0..N
        BY <1>1, <3>2
      <4> QED
        BY <2>1, <3>2, <4>1
    <3> QED
      BY <3>1, <3>2
  <2> HIDE DEF body
  <2> QED
    BY <2>1, <2>2
<1>7. Eq(k)
  <2> HIDE DEF Eq
  <2> QED
    BY <1>6 DEF k
<1>8. \A n \in 0..N : k[n] = body(k, n)
  <2> DEFINE b(n) == body(k, n)
  <2>1. k = [n \in 0..N |-> b(n)]
    BY <1>7, Zenon
  <2> HIDE DEF b
  <2>2. \A n \in 0..N : k[n] = b(n)
    BY <2>1
  <2> QED
    BY <2>2, Zenon DEF b
<1>9. k[0] = of(0)
  <2>1. 0 \in 0..N
    BY <1>1
  <2> QED
    BY <1>8, <2>1, Zenon
<1>10. ASSUME NEW n \in 1..N PROVE k[n] = k[n - 1] \o of(n)
  <2>1. n \in 0..N /\ n # 0
    BY <1>1
  <2> QED
    BY <1>8, <2>1, Zenon
<1>11. \A n \in 0..N : k[n] \in V
  <2>1. \A n \in 1..N : k[n - 1] \in V => k[n] = step[n][k[n - 1]]
    BY <1>10
  <2>2. k[0] \in V
    BY <1>1, <1>9, Zenon
  <2> HIDE DEF step
  <2> QED
    BY <1>1, <1>3, <2>1, <2>2, StaysIn
<1>12. k \in [0..N -> V]
  BY <1>7, <1>11
<1> QED
  BY <1>2, <1>9, <1>10, <1>12, Zenon DEF N, V, of, PostMedSoFar

(* The positions with the lowest MED of their AS, up to AS a.              *)
PostMedAt(q, a) ==
    {k \in 1..Len(q) : /\ get_advertised_as(q[k].as_path) <= a
                       /\ k \in LowestMedAt(q, get_advertised_as(q[k].as_path))}

(* PostMed keeps the routes with the lowest MED of their AS, each once.    *)
LEMMA PostMedFacts ==
    ASSUME NEW T, NEW q \in Seq(T), q # <<>>, \A r \in T : IsRoute(r)
    PROVE  /\ PostMed(q) \in Seq(T)
           /\ \E at : Picks(PostMed(q), q, PostMedAt(q, HighestAs(q)), at)
<1> DEFINE N == HighestAs(q)
           from(k) == get_advertised_as(q[k].as_path)
           of(a) == LowestMed(q, a)
           M(a) == LowestMedAt(q, a)
           P(a) == PostMedAt(q, a)
<1>1. N \in Nat /\ \A k \in 1..Len(q) : from(k) \in Nat
  BY HighestAsFacts
<1>2. PICK p : PostMedSoFar(p, q, T)
  BY <1>1, PostMedSteps
<1>3. /\ p \in [0..N -> Seq(T)] /\ p[0] = of(0) /\ p[N] = PostMed(q)
      /\ \A n \in 1..N : p[n] = p[n - 1] \o of(n)
  BY <1>2 DEF PostMedSoFar
<1>4. \A a : of(a) \in Seq(T) /\ \E at : Picks(of(a), q, M(a), at)
  BY LowestMedFacts
<1>5. \A a, k : k \in M(a) => k \in 1..Len(q) /\ from(k) = a
  BY DEF LowestMedAt, FromAs
<1>6. \A a, k : k \in P(a) <=> k \in 1..Len(q) /\ from(k) <= a /\ k \in M(from(k))
  BY DEF PostMedAt
<1> HIDE DEF N, from, of, M, P
<1> DEFINE H == {n \in 0..N : \E at : Picks(p[n], q, P(n), at)}
<1>7. 0 \in H
  <2>1. P(0) = M(0)
    <3>1. ASSUME NEW k \in P(0) PROVE k \in M(0)
      <4>1. from(k) <= 0 /\ from(k) \in Nat /\ k \in M(from(k))
        BY <1>1, <1>6
      <4>2. from(k) = 0
        BY <4>1
      <4> QED
        BY <4>1, <4>2
    <3>2. ASSUME NEW k \in M(0) PROVE k \in P(0)
      BY <1>1, <1>5, <1>6
    <3> QED
      BY <3>1, <3>2
  <2> QED
    BY <1>1, <1>3, <1>4, <2>1
<1>8. ASSUME NEW n \in 0..(N - 1), n \in H PROVE n + 1 \in H
  <2>1. n + 1 \in 1..N /\ (n + 1) - 1 = n /\ n \in 0..N /\ n \in Nat /\ n + 1 \in 0..N
    BY <1>1
  <2>2. PICK at : Picks(p[n], q, P(n), at)
    BY <1>8
  <2>3. PICK bt : Picks(of(n + 1), q, M(n + 1), bt)
    BY <1>4
  <2>4. p[n] \in Seq(T) /\ of(n + 1) \in Seq(T) /\ p[n + 1] = p[n] \o of(n + 1)
    BY <1>3, <1>4, <2>1
  <2>5. P(n) \intersect M(n + 1) = {}
    BY <1>5, <1>6, <2>1
  <2>6. P(n + 1) = P(n) \union M(n + 1)
    <3>1. ASSUME NEW k \in P(n + 1) PROVE k \in P(n) \union M(n + 1)
      <4>1. k \in 1..Len(q) /\ from(k) <= n + 1 /\ from(k) \in Nat /\ k \in M(from(k))
        BY <1>1, <1>6
      <4>2. from(k) <= n \/ from(k) = n + 1
        BY <2>1, <4>1
      <4> QED
        BY <1>6, <4>1, <4>2
    <3>2. ASSUME NEW k \in P(n) PROVE k \in P(n + 1)
      BY <1>1, <1>6, <2>1
    <3>3. ASSUME NEW k \in M(n + 1) PROVE k \in P(n + 1)
      BY <1>5, <1>6, <2>1
    <3> QED
      BY <3>1, <3>2, <3>3
  <2>7. \E ct : Picks(p[n] \o of(n + 1), q, P(n) \union M(n + 1), ct)
    BY <2>2, <2>3, <2>4, <2>5, PicksBoth
  <2> QED
    BY <2>1, <2>4, <2>6, <2>7
<1>9. N \in H
  <2> HIDE DEF H
  <2>1. 0..N \subseteq H
    BY <1>1, <1>7, <1>8, UpTo
  <2> QED
    BY <1>1, <2>1
<1>10. PostMed(q) \in Seq(T)
  BY <1>1, <1>3
<1> QED
  BY <1>3, <1>9, <1>10 DEF N, P

-----------------------------------------------------------------------------
(* What the rules leave, among the positions with the shortest paths.      *)
LEMMA UndominatedFacts ==
    ASSUME NEW T, NEW q \in Seq(T), \A r \in T : IsRoute(r), NEW k \in 1..Len(q)
    PROVE  k \in Undominated(q) <=>
             /\ k \in ShortestAt(q, Len(q))
             /\ \A j \in ShortestAt(q, Len(q)) :
                   get_advertised_as(q[j].as_path) = get_advertised_as(q[k].as_path)
                      => q[k].med <= q[j].med
<1> DEFINE N == Len(q)
           size(i) == aspath_length(q[i].as_path)
           from(i) == get_advertised_as(q[i].as_path)
           med(i) == q[i].med
<1>1. \A i \in 1..N : size(i) \in Nat /\ med(i) \in Nat
  BY DEF IsRoute, aspath_length
<1>2. \A i, j \in 1..N : Better(q[i], q[j]) <=>
          \/ size(i) < size(j)
          \/ size(i) = size(j) /\ from(i) = from(j) /\ med(i) < med(j)
  BY DEF Better, aspath_length, get_advertised_as
<1>3. \A i : i \in Undominated(q) <=> i \in 1..N /\ \A j \in 1..N : ~Better(q[j], q[i])
  BY DEF Undominated
<1>4. \A i : i \in ShortestAt(q, N) <=> i \in 1..N /\ \A j \in 1..N : size(i) <= size(j)
  BY DEF ShortestAt
<1> HIDE DEF size, from, med
<1>5. ASSUME k \in Undominated(q)
      PROVE  /\ k \in ShortestAt(q, N)
             /\ \A j \in ShortestAt(q, N) : from(j) = from(k) => med(k) <= med(j)
  <2>1. \A j \in 1..N : size(k) <= size(j)
    BY <1>1, <1>2, <1>3, <1>5
  <2>2. \A j \in ShortestAt(q, N) : j \in 1..N /\ size(j) = size(k)
    BY <1>1, <1>4, <2>1
  <2> QED
    BY <1>1, <1>2, <1>3, <1>4, <1>5, <2>1, <2>2
<1>6. ASSUME k \in ShortestAt(q, N),
             \A j \in ShortestAt(q, N) : from(j) = from(k) => med(k) <= med(j)
      PROVE  k \in Undominated(q)
  <2>1. SUFFICES ASSUME NEW j \in 1..N, Better(q[j], q[k]) PROVE FALSE
    BY <1>3
  <2>2. size(k) <= size(j)
    BY <1>4, <1>6
  <2>3. size(j) = size(k) /\ from(j) = from(k) /\ med(j) < med(k)
    BY <1>1, <1>2, <2>1, <2>2
  <2>4. j \in ShortestAt(q, N)
    BY <1>4, <1>6, <2>3
  <2> QED
    BY <1>1, <1>6, <2>3, <2>4
<1> QED
  BY <1>5, <1>6 DEF from, med

(* What the MED rule leaves.                                               *)
LEMMA PostMedAtFacts ==
    ASSUME NEW T, NEW q \in Seq(T), q # <<>>, \A r \in T : IsRoute(r), NEW k \in 1..Len(q)
    PROVE  k \in PostMedAt(q, HighestAs(q)) <=>
             \A j \in 1..Len(q) :
                get_advertised_as(q[j].as_path) = get_advertised_as(q[k].as_path)
                   => q[k].med <= q[j].med
<1>1. /\ get_advertised_as(q[k].as_path) \in 0..HighestAs(q)
      /\ HighestAs(q) \in Nat
  BY HighestAsFacts
<1>2. get_advertised_as(q[k].as_path) <= HighestAs(q)
  BY <1>1
<1> QED
  BY <1>2 DEF PostMedAt, LowestMedAt, FromAs

(* Something is left of a list that is not empty.                          *)
LEMMA SomethingLeft ==
    ASSUME NEW T, NEW q \in Seq(T), q # <<>>, \A r \in T : IsRoute(r)
    PROVE  /\ ShortestAt(q, Len(q)) # {}
           /\ PostMedAt(q, HighestAs(q)) # {}
<1> DEFINE N == Len(q)
           size(i) == aspath_length(q[i].as_path)
           med(i) == q[i].med
<1>1. N \in Nat /\ 1 \in 1..N /\ \A i \in 1..N : size(i) \in Nat /\ med(i) \in Nat
  BY DEF IsRoute, aspath_length
<1>2. PICK k \in 1..N : \A j \in 1..N : size(k) <= size(j)
  <2> HIDE DEF size
  <2> DEFINE L == {size(j) : j \in 1..N}
  <2>1. L \subseteq Nat /\ L # {}
    BY <1>1
  <2>2. PICK x \in L : \A y \in L : x <= y
    BY <2>1, FirstPosition
  <2> QED
    BY <2>2
<1>3. PICK m \in 1..N : \A j \in 1..N : med(m) <= med(j)
  <2> HIDE DEF med
  <2> DEFINE L == {med(j) : j \in 1..N}
  <2>1. L \subseteq Nat /\ L # {}
    BY <1>1
  <2>2. PICK x \in L : \A y \in L : x <= y
    BY <2>1, FirstPosition
  <2> QED
    BY <2>2
<1>4. k \in ShortestAt(q, N)
  BY <1>2 DEF ShortestAt
<1>5. m \in PostMedAt(q, HighestAs(q))
  BY <1>3, PostMedAtFacts
<1> QED
  BY <1>4, <1>5

(* Picking from what was picked.                                           *)
LEMMA PicksTwice ==
    ASSUME NEW r, NEW s, NEW q, NEW R, NEW S, NEW U, NEW at, NEW bt,
           Picks(s, q, S, at), Picks(r, s, R, bt), R \subseteq 1..Len(s),
           \A i \in 1..Len(s) : i \in R <=> at[i] \in U, U \subseteq S
    PROVE  \E ct : Picks(r, q, U, ct)
<1> DEFINE ct == [i \in 1..Len(r) |-> at[bt[i]]]
<1>1. /\ at \in [1..Len(s) -> S] /\ (\A i, j \in 1..Len(s) : at[i] = at[j] => i = j)
      /\ (\A k \in S : \E i \in 1..Len(s) : at[i] = k) /\ \A i \in 1..Len(s) : s[i] = q[at[i]]
  BY DEF Picks
<1>2. /\ bt \in [1..Len(r) -> R] /\ (\A i, j \in 1..Len(r) : bt[i] = bt[j] => i = j)
      /\ (\A k \in R : \E i \in 1..Len(r) : bt[i] = k) /\ \A i \in 1..Len(r) : r[i] = s[bt[i]]
  BY DEF Picks
<1>3. \A i \in 1..Len(r) : bt[i] \in R /\ bt[i] \in 1..Len(s) /\ ct[i] = at[bt[i]]
  BY <1>2
<1>4. ct \in [1..Len(r) -> U]
  BY <1>3
<1> HIDE DEF ct
<1>5. \A i, j \in 1..Len(r) : ct[i] = ct[j] => i = j
  BY <1>1, <1>2, <1>3, SMTT(30)
<1>6. ASSUME NEW k \in U PROVE \E i \in 1..Len(r) : ct[i] = k
  <2>1. PICK n \in 1..Len(s) : at[n] = k
    BY <1>1
  <2>2. n \in R
    BY <2>1
  <2> QED
    BY <1>2, <1>3, <2>1, <2>2
<1>7. ASSUME NEW i \in 1..Len(r) PROVE r[i] = q[ct[i]]
  <2>1. r[i] = s[bt[i]] /\ bt[i] \in 1..Len(s) /\ ct[i] = at[bt[i]]
    BY <1>2, <1>3
  <2>2. s[bt[i]] = q[at[bt[i]]]
    BY <1>1, <2>1
  <2> QED
    BY <2>1, <2>2
<1>8. Picks(r, q, U, ct)
  BY <1>4, <1>5, <1>6, <1>7 DEF Picks
<1> QED
  BY <1>8

(* The routes that best_path_selection returns are the ones that the       *)
(* rules leave, each once.                                                 *)
LEMMA SelectionPicks ==
    ASSUME NEW T, NEW q \in Seq(T), q # <<>>, \A r \in T : IsRoute(r)
    PROVE  LET sel == best_path_selection(q)
           IN  /\ sel.routes \in Seq(T) /\ sel.routes # <<>>
               /\ sel.tie <=> Len(sel.routes) > 1
               /\ \E at : Picks(sel.routes, q, Undominated(q), at)
<1> DEFINE sel == best_path_selection(q)
           best == Shortest(q)
           post == PostMed(best)
           S == ShortestAt(q, Len(q))
           U == Undominated(q)
           R == PostMedAt(best, HighestAs(best))
           from(k) == get_advertised_as(q[k].as_path)
<1>1. best \in Seq(T) /\ \E at : Picks(best, q, S, at)
  BY ShortestFacts
<1>2. S # {} /\ S \subseteq 1..Len(q)
  BY SomethingLeft DEF ShortestAt
<1>3. U \subseteq 1..Len(q)
  BY DEF Undominated
<1>4. \A k \in 1..Len(q) : k \in U <=>
         k \in S /\ \A j \in S : from(j) = from(k) => q[k].med <= q[j].med
  BY UndominatedFacts
<1>5. sel = IF Len(best) = 1 THEN [routes |-> best, tie |-> FALSE]
            ELSE [routes |-> post, tie |-> Len(post) # 1]
  BY DEF best_path_selection
<1> HIDE DEF sel, S, U
<1>6. PICK at : Picks(best, q, S, at)
  BY <1>1
<1>7. /\ at \in [1..Len(best) -> S] /\ (\A k \in S : \E i \in 1..Len(best) : at[i] = k)
      /\ \A i \in 1..Len(best) : best[i] = q[at[i]]
  BY <1>6 DEF Picks
<1>8. best # <<>> /\ Len(best) \in Nat /\ Len(best) >= 1
  <2>1. Len(best) \in Nat
    BY <1>1
  <2>2. PICK i \in 1..Len(best) : TRUE
    BY <1>2, <1>7
  <2>3. Len(best) >= 1
    BY <2>1, <2>2
  <2> QED
    BY <1>1, <2>1, <2>3
<1>9. CASE Len(best) = 1
  <2>1. sel.routes = best /\ sel.tie = FALSE
    BY <1>5, <1>9
  <2>2. S = {at[1]}
    BY <1>7, <1>9
  <2>3. \A r \in T : r.med \in Nat
    BY DEF IsRoute
  <2>4. \A k \in 1..Len(q) : q[k].med \in Nat
    BY <2>3
  <2>5. U = S
    BY <1>2, <1>3, <1>4, <2>2, <2>4
  <2>6. ~sel.tie /\ ~(Len(sel.routes) > 1)
    <3>1. ~(1 > 1)
      OBVIOUS
    <3> QED
      BY <1>9, <2>1, <3>1, Zenon
  <2>7. sel.routes \in Seq(T) /\ sel.routes # <<>> /\ \E bt : Picks(sel.routes, q, U, bt)
    BY <1>1, <1>6, <1>8, <2>1, <2>5
  <2> QED
    BY <2>6, <2>7 DEF sel, U
<1>10. CASE Len(best) # 1
  <2>1. sel.routes = post /\ sel.tie = (Len(post) # 1)
    BY <1>5, <1>10
  <2>2. post \in Seq(T) /\ \E bt : Picks(post, best, R, bt)
    <3> HIDE DEF best
    <3> QED
      BY <1>1, <1>8, PostMedFacts
  <2>3. R # {}
    <3> HIDE DEF best
    <3> QED
      BY <1>1, <1>8, SomethingLeft
  <2>4. \A i \in 1..Len(best) : i \in R <=>
          \A j \in 1..Len(best) :
             get_advertised_as(best[j].as_path) = get_advertised_as(best[i].as_path)
                => best[i].med <= best[j].med
    <3> HIDE DEF best
    <3> QED
      BY <1>1, <1>8, PostMedAtFacts
  <2>5. R \subseteq 1..Len(best)
    BY DEF PostMedAt
  <2> HIDE DEF R, best, post
  <2>6. \A i \in 1..Len(best) : i \in R <=> at[i] \in U
    <3> TAKE i \in 1..Len(best)
    <3>1. at[i] \in S /\ at[i] \in 1..Len(q) /\ best[i] = q[at[i]]
      BY <1>2, <1>7
    <3>2. i \in R <=> \A j \in 1..Len(best) : from(at[j]) = from(at[i]) => q[at[i]].med <= q[at[j]].med
      <4>1. \A j \in 1..Len(best) : /\ get_advertised_as(best[j].as_path) = from(at[j])
                                    /\ best[j].med = q[at[j]].med
        BY <1>7
      <4> HIDE DEF from
      <4> QED
        BY <2>4, <4>1, SMTT(30)
    <3> HIDE DEF from
    <3>3. (\A j \in 1..Len(best) : from(at[j]) = from(at[i]) => q[at[i]].med <= q[at[j]].med)
          <=> \A m \in S : from(m) = from(at[i]) => q[at[i]].med <= q[m].med
      BY <1>7
    <3> QED
      BY <1>4, <3>1, <3>2, <3>3
  <2>7. U \subseteq S
    BY <1>3, <1>4
  <2>8. PICK bt : Picks(post, best, R, bt)
    BY <2>2
  <2>9. \E ct : Picks(post, q, U, ct)
    BY <1>6, <2>5, <2>6, <2>7, <2>8, PicksTwice
  <2>10. Len(post) \in Nat /\ Len(post) >= 1 /\ post # <<>>
    <3>1. PICK i \in 1..Len(post) : TRUE
      BY <2>3, <2>8 DEF Picks
    <3>2. Len(post) \in Nat
      BY <2>2
    <3>3. Len(post) >= 1
      BY <3>1, <3>2
    <3> QED
      BY <2>2, <3>2, <3>3
  <2>11. sel.tie <=> Len(sel.routes) > 1
    <3>1. Len(post) # 1 <=> Len(post) > 1
      <4>1. \A n \in Nat : n >= 1 => (n # 1 <=> n > 1)
        OBVIOUS
      <4> QED
        BY <2>10, <4>1, Zenon
    <3> QED
      BY <2>1, <3>1, Zenon
  <2> QED
    BY <2>1, <2>2, <2>9, <2>10, <2>11 DEF sel, U
<1> QED
  BY <1>9, <1>10

(* Whatever the list, best_path_selection returns the routes that no       *)
(* other route dominates under its rules, each of them once, and says      *)
(* that there is a tie when they are several.                              *)
THEOREM SelectsBestOfAny ==
    \A q : q # <<>> /\ Routes(q) => SelectionRight(q)
<1> SUFFICES ASSUME NEW q, q # <<>>, Routes(q) PROVE SelectionRight(q)
  OBVIOUS
<1> DEFINE T == Range(q)
           r == best_path_selection(q).routes
           U == Undominated(q)
<1>1. q \in Seq(T) /\ \A x \in T : IsRoute(x)
  BY DEF Routes, Range
<1>2. /\ best_path_selection(q).tie <=> Len(r) > 1
      /\ \E at : Picks(r, q, U, at)
  <2> HIDE DEF T
  <2> QED
    BY <1>1, SelectionPicks
<1>3. PICK at : Picks(r, q, U, at)
  BY <1>2
<1> HIDE DEF r, U
<1>4. at \in Bijection(1..Len(r), U) /\ \A i \in 1..Len(r) : r[i] = q[at[i]]
  BY <1>3 DEF Picks, Bijection, Injection, Surjection, IsInjective
<1> QED
  BY <1>2, <1>4 DEF SelectionRight, r, U

-----------------------------------------------------------------------------
(* The bound on the routes that share the traffic of a prefix.             *)
Bound == IF MaxPaths \in {NoMax, 0} THEN 1 ELSE MaxPaths

(* At least one route is kept.                                             *)
LEMMA BoundFacts == Bound \in Nat /\ Bound >= 1
BY PeerAssumption DEF Bound

(* lowest_router_id returns one of the routes.                             *)
LEMMA RouterIdFacts ==
    ASSUME NEW T, NEW q \in Seq(T), q # <<>>, \A r \in T : IsRoute(r)
    PROVE  \E k \in 1..Len(q) : lowest_router_id(q) = q[k]
<1> DEFINE N == Len(q)
           hop(i) == q[i].next_hop
           M == LowestHop(q)
           k == CHOOSE i \in M : \A j \in M : i <= j
<1>1. N \in Nat /\ 1 \in 1..N /\ \A i \in 1..N : hop(i) \in Nat
  BY DEF IsRoute
<1>2. \A i : i \in M <=> i \in 1..N /\ \A j \in 1..N : hop(i) <= hop(j)
  BY DEF LowestHop
<1>3. PICK m \in 1..N : \A j \in 1..N : hop(m) <= hop(j)
  <2> HIDE DEF hop
  <2> DEFINE L == {hop(j) : j \in 1..N}
  <2>1. L \subseteq Nat /\ L # {}
    BY <1>1
  <2>2. PICK x \in L : \A y \in L : x <= y
    BY <2>1, FirstPosition
  <2> QED
    BY <2>2
<1>4. M \subseteq Nat /\ M # {}
  BY <1>2, <1>3
<1>5. lowest_router_id(q) = q[k]
  BY DEF lowest_router_id
<1> HIDE DEF M
<1>6. \E i \in M : \A j \in M : i <= j
  BY <1>4, FirstPosition
<1>7. k \in M
  BY <1>6
<1> HIDE DEF k
<1> QED
  BY <1>2, <1>5, <1>7

(* Of an announced route and the best one, the rules choose one whose path *)
(* is no longer than either; a tie is between paths of one length.         *)
LEMMA Chosen ==
    ASSUME NEW T, \A x \in T : IsRoute(x), NEW r \in T, NEW cur \in T
    PROVE  LET sel == best_path_selection(<<r, cur>>)
               new == IF sel.tie THEN lowest_router_id(sel.routes)
                      ELSE sel.routes[Len(sel.routes)]
           IN  /\ new \in {r, cur}
               /\ Len(new.as_path) <= Len(r.as_path) /\ Len(new.as_path) <= Len(cur.as_path)
               /\ sel.tie => Len(r.as_path) = Len(cur.as_path)
<1> DEFINE q == <<r, cur>>
           sel == best_path_selection(q)
           s == sel.routes
           new == IF sel.tie THEN lowest_router_id(s) ELSE s[Len(s)]
           U == Undominated(q)
<1>1. q \in Seq(T) /\ q # <<>> /\ Len(q) = 2 /\ q[1] = r /\ q[2] = cur
  OBVIOUS
<1>2. Len(r.as_path) \in Nat /\ Len(cur.as_path) \in Nat
  BY DEF IsRoute
<1>3. /\ s \in Seq(T) /\ s # <<>> /\ (sel.tie <=> Len(s) > 1)
      /\ \E at : Picks(s, q, U, at)
  <2> HIDE DEF q
  <2> QED
    BY <1>1, SelectionPicks
<1>4. \A k \in U : /\ q[k] \in {r, cur}
                    /\ Len(q[k].as_path) <= Len(r.as_path)
                    /\ Len(q[k].as_path) <= Len(cur.as_path)
  <2> TAKE k \in U
  <2>1. k \in 1..2 /\ \A j \in 1..2 : ~Better(q[j], q[k])
    BY <1>1 DEF Undominated
  <2>2. q[k] \in {r, cur} /\ ~Better(r, q[k]) /\ ~Better(cur, q[k])
    BY <1>1, <2>1
  <2> QED
    BY <1>2, <2>2, SMTT(30) DEF Better
<1>5. U \subseteq 1..2
  BY <1>1 DEF Undominated
<1> HIDE DEF q, U
<1>6. PICK at : Picks(s, q, U, at)
  BY <1>3
<1>7. /\ at \in [1..Len(s) -> U] /\ (\A i, j \in 1..Len(s) : at[i] = at[j] => i = j)
      /\ \A i \in 1..Len(s) : s[i] = q[at[i]]
  BY <1>6 DEF Picks
<1>8. Len(s) \in Nat /\ Len(s) >= 1 /\ Len(s) \in 1..Len(s)
  BY <1>3
<1>9. \E k \in 1..Len(s) : new = s[k]
  <2>1. \E k \in 1..Len(s) : lowest_router_id(s) = s[k]
    <3> HIDE DEF s
    <3> QED
      BY <1>3, RouterIdFacts
  <2> QED
    BY <1>8, <2>1
<1>10. PICK k \in U : new = q[k]
  BY <1>7, <1>9
<1>11. ASSUME sel.tie PROVE Len(r.as_path) = Len(cur.as_path)
  <2>1. Len(s) > 1
    BY <1>3, <1>11
  <2>2. 1 \in 1..Len(s) /\ 2 \in 1..Len(s)
    BY <1>8, <2>1
  <2>3. at[1] \in U /\ at[2] \in U /\ at[1] # at[2]
    BY <1>7, <2>2, SMTT(30)
  <2>4. 1 \in U /\ 2 \in U
    <3>1. \A x \in 1..2 : x = 1 \/ x = 2
      OBVIOUS
    <3> QED
      BY <1>5, <2>3, <3>1
  <2>5. Len(q[1].as_path) <= Len(cur.as_path) /\ Len(q[2].as_path) <= Len(r.as_path)
    BY <1>4, <2>4
  <2> QED
    BY <1>1, <1>2, <2>5
<1> HIDE DEF new, sel
<1>12. /\ new \in {r, cur}
       /\ Len(new.as_path) <= Len(r.as_path) /\ Len(new.as_path) <= Len(cur.as_path)
  BY <1>4, <1>10
<1> QED
  BY <1>11, <1>12 DEF new, sel, q

(* The routes that a tie leaves are the new one and old ones behind it.    *)
LEMMA Preferred ==
    ASSUME NEW S, NEW routes \in Seq(S), routes # <<>>, NEW new \in S,
           Len(routes) <= Bound
    PROVE  /\ Prefer(routes, new) \in Seq(S) /\ Prefer(routes, new) # <<>>
           /\ Prefer(routes, new)[1] = new
           /\ Len(Prefer(routes, new)) <= Bound
<1> DEFINE one == <<new>>
           all == one \o routes
           n == Len(routes)
<1>1. one \in Seq(S) /\ Len(one) = 1 /\ one # <<>> /\ one[1] = new
  OBVIOUS
<1>2. n \in Nat /\ n >= 1 /\ Bound \in Nat /\ Bound >= 1
  BY BoundFacts
<1>3. all \in Seq(S) /\ Len(all) = n + 1 /\ all[1] = new /\ all # <<>>
  BY <1>1, <1>2
<1> HIDE DEF one, all, n
<1>4. /\ SubSeq(all, 1, n) \in Seq(S) /\ Len(SubSeq(all, 1, n)) = n
      /\ SubSeq(all, 1, n)[1] = new
  BY <1>2, <1>3
<1>5. SubSeq(all, 1, n) # <<>>
  <2>1. \A w \in Seq(S) : Len(w) >= 1 => w # <<>>
    OBVIOUS
  <2> QED
    BY <1>2, <1>4, <2>1
<1>6. CASE MaxPaths \in {NoMax, 0}
  BY <1>1, <1>2, <1>6 DEF Prefer, one
<1>7. CASE MaxPaths \notin {NoMax, 0} /\ n + 1 <= MaxPaths
  BY <1>3, <1>7 DEF Prefer, Bound, one, all, n
<1>8. CASE MaxPaths \notin {NoMax, 0} /\ ~(n + 1 <= MaxPaths)
  BY <1>4, <1>5, <1>8 DEF Prefer, one, all, n
<1> QED
  BY <1>6, <1>7, <1>8

(* The AS paths of a list of routes have one length.                       *)
OneLength(q) == \A i, j \in 1..Len(q) : Len(q[i].as_path) = Len(q[j].as_path)

(* What a decision d is, taken when r arrives and routes are in use.       *)
Decides(d, routes, r, T) ==
    /\ d.local \in Seq(T)
    /\ OneLength(d.local) /\ Len(d.local) <= Bound
    /\ ~d.raised =>
         /\ d.local # <<>> /\ Len(d.local[1].as_path) <= Len(r.as_path)
         /\ routes # <<>> => Len(d.local[1].as_path) <= Len(routes[1].as_path)
    /\ ~d.raised /\ ~d.nested =>
         /\ d.local[1] = r \/ (routes # <<>> /\ d.local[1] = routes[1])
         /\ d.local \in Seq({routes[j] : j \in 1..Len(routes)} \union d.sent)

(* What a decision that does not raise leaves of the routes of a prefix.   *)
LEMMA Decided ==
    ASSUME NEW T, \A x \in T : IsRoute(x), NEW routes \in Seq(T), NEW r \in T,
           OneLength(routes), Len(routes) <= Bound
    PROVE  Decides(decision_process_local(routes, r), routes, r, T)
<1> SUFFICES LET d == decision_process_local(routes, r)
             IN  /\ d.local \in Seq(T)
                 /\ OneLength(d.local) /\ Len(d.local) <= Bound
                 /\ ~d.raised =>
                      /\ d.local # <<>> /\ Len(d.local[1].as_path) <= Len(r.as_path)
                      /\ routes # <<>> => Len(d.local[1].as_path) <= Len(routes[1].as_path)
                 /\ ~d.raised /\ ~d.nested =>
                      /\ d.local[1] = r \/ (routes # <<>> /\ d.local[1] = routes[1])
                      /\ d.local \in Seq({routes[j] : j \in 1..Len(routes)} \union d.sent)
  BY DEF Decides
<1> DEFINE d == decision_process_local(routes, r)
           size(x) == Len(x.as_path)
           cur == routes[1]
           sel == best_path_selection(<<r, cur>>)
           new == IF sel.tie THEN lowest_router_id(sel.routes)
                  ELSE sel.routes[Len(sel.routes)]
           changed == ~bgp_routes_are_equal(new, cur)
           Old == {routes[j] : j \in 1..Len(routes)}
           Fine(l) == /\ l \in Seq(T) /\ OneLength(l) /\ Len(l) <= Bound
                      /\ l # <<>> /\ size(l[1]) <= size(r)
                      /\ routes # <<>> => size(l[1]) <= size(cur)
           Kind(l, sent) == /\ l[1] = r \/ (routes # <<>> /\ l[1] = cur)
                            /\ l \in Seq(Old \union sent)
<1>1. Bound \in Nat /\ Bound >= 1 /\ Len(routes) \in Nat
  BY BoundFacts
<1>2. \A x \in T : size(x) \in Nat
  BY DEF IsRoute
<1>3. routes \in Seq(Old)
  OBVIOUS
<1>4. ASSUME NEW l, NEW sent, NEW nested, d = Local(l, sent, nested, FALSE),
             Fine(l), Kind(l, sent) \/ nested = TRUE
      PROVE  /\ d.local \in Seq(T) /\ OneLength(d.local) /\ Len(d.local) <= Bound
             /\ d.local # <<>> /\ size(d.local[1]) <= size(r)
             /\ routes # <<>> => size(d.local[1]) <= size(cur)
             /\ ~d.nested =>
                   /\ d.local[1] = r \/ (routes # <<>> /\ d.local[1] = cur)
                   /\ d.local \in Seq(Old \union d.sent)
  <2>1. d.local = l /\ d.sent = sent /\ d.nested = nested
    BY <1>4, SMTT(30) DEF Local
  <2> HIDE DEF d, Old
  <2> QED
    BY <1>4, <2>1
<1>5. CASE routes = <<>>
  <2>1. d = Local(<<r>>, {r}, FALSE, FALSE)
    BY <1>5 DEF decision_process_local
  <2>2. <<r>> \in Seq(T) /\ <<r>> # <<>> /\ Len(<<r>>) = 1 /\ <<r>>[1] = r
    OBVIOUS
  <2>3. Fine(<<r>>)
    BY <1>1, <1>2, <1>5, <2>2 DEF OneLength
  <2>4. <<r>> \in Seq(Old \union {r})
    OBVIOUS
  <2> QED
    BY <1>4, <2>1, <2>2, <2>3, <2>4
<1>6. CASE routes # <<>>
  <2>1. cur \in T /\ 1 \in 1..Len(routes)
    BY <1>1, <1>6
  <2>2. /\ new \in {r, cur} /\ size(new) <= size(r) /\ size(new) <= size(cur)
        /\ sel.tie => size(r) = size(cur)
    BY <2>1, Chosen
  <2>3. \/ d = Local(<<new>>, {}, TRUE, FALSE)
        \/ ~changed /\ d = Local(routes, {}, FALSE, FALSE)
        \/ sel.tie /\ changed /\ d = Local(Prefer(routes, new), {new}, FALSE, FALSE)
        \/ d = Local(routes, {}, FALSE, TRUE)
        \/ sel.tie /\ ~changed /\ MaxPaths # NoMax /\ d = KeepBehind(routes, r)
    BY <1>6 DEF decision_process_local
  <2> DEFINE tie == sel.tie
  <2> HIDE DEF d, new, tie
  <2>4. CASE d = Local(<<new>>, {}, TRUE, FALSE)
    <3>1. <<new>> \in Seq(T) /\ <<new>> # <<>> /\ Len(<<new>>) = 1 /\ <<new>>[1] = new
      BY <2>1, <2>2
    <3>2. Fine(<<new>>)
      BY <1>1, <2>2, <3>1 DEF OneLength
    <3> QED
      BY <1>4, <2>4, <3>2 DEF d
  <2>5. ASSUME ~changed PROVE Fine(routes) /\ Kind(routes, {})
    <3>1. size(cur) <= size(r)
      BY <2>2, <2>5 DEF bgp_routes_are_equal
    <3>2. size(cur) <= size(cur)
      BY <1>2, <2>1
    <3>3. routes \in Seq(Old \union {})
      BY <1>3
    <3> QED
      BY <1>6, <3>1, <3>2, <3>3
  <2>6. CASE ~changed /\ d = Local(routes, {}, FALSE, FALSE)
    BY <1>4, <2>5, <2>6 DEF d
  <2> DEFINE S == {x \in T : size(x) = size(r)}
  <2>7. ASSUME sel.tie PROVE routes \in Seq(S) /\ new \in S /\ r \in S
    <3>1. size(r) = size(cur)
      BY <2>2, <2>7
    <3>2. \A j \in 1..Len(routes) : routes[j] \in T /\ size(routes[j]) = size(cur)
      BY <2>1 DEF OneLength
    <3>3. routes \in Seq(S)
      BY <3>1, <3>2
    <3> QED
      BY <2>1, <2>2, <3>1, <3>3
  <2>8. \A l \in Seq(S) : l \in Seq(T) /\ OneLength(l)
    BY DEF OneLength
  <2>9. CASE sel.tie /\ changed /\ d = Local(Prefer(routes, new), {new}, FALSE, FALSE)
    <3> DEFINE l == Prefer(routes, new)
               O == Old \union {new}
    <3>1. l \in Seq(S) /\ l # <<>> /\ l[1] = new /\ Len(l) <= Bound
      <4> HIDE DEF S
      <4> QED
        BY <1>6, <2>7, <2>9, Preferred
    <3>2. routes \in Seq(O) /\ new \in O
      BY <1>3, SMTT(30)
    <3>3. l \in Seq(O)
      <4> HIDE DEF O
      <4> QED
        BY <1>6, <3>2, Preferred
    <3> HIDE DEF l, S
    <3>4. Fine(l)
      BY <2>2, <2>8, <3>1
    <3>5. Kind(l, {new})
      BY <1>6, <2>2, <3>1, <3>3
    <3> QED
      BY <1>4, <2>9, <3>4, <3>5 DEF d, l
  <2>10. CASE d = Local(routes, {}, FALSE, TRUE)
    <3>1. d.local = routes /\ d.raised = TRUE
      BY <2>10 DEF Local
    <3> QED
      BY <3>1 DEF d
  <2>11. CASE sel.tie /\ ~changed /\ MaxPaths # NoMax /\ d = KeepBehind(routes, r)
    <3>1. CASE Len(routes) + 1 <= MaxPaths
      <4> DEFINE l == Append(routes, r)
                 O == Old \union {r}
      <4>1. d = Local(l, {r}, FALSE, FALSE)
        BY <2>11, <3>1 DEF KeepBehind
      <4>2. l \in Seq(S) /\ l # <<>> /\ Len(l) = Len(routes) + 1 /\ l[1] = cur
        <5> HIDE DEF S
        <5> QED
          BY <1>6, <2>1, <2>7, <2>11, SMTT(30)
      <4>3. Len(l) <= Bound
        BY <1>1, <2>11, <3>1, <4>2, PeerAssumption, SMTT(30) DEF Bound
      <4>4. l \in Seq(O)
        BY <1>3
      <4> HIDE DEF l, S
      <4>5. Fine(l)
        BY <2>5, <2>8, <2>11, <4>2, <4>3
      <4>6. Kind(l, {r})
        BY <1>6, <4>2, <4>4
      <4> QED
        BY <1>4, <4>1, <4>5, <4>6 DEF d, l
    <3>2. CASE ~(Len(routes) + 1 <= MaxPaths)
      <4>1. d = Local(routes, {}, FALSE, FALSE)
        BY <2>11, <3>2 DEF KeepBehind
      <4> QED
        BY <2>6, <2>11, <4>1
    <3> QED
      BY <3>1, <3>2
  <2> QED
    BY <2>3, <2>4, <2>6, <2>9, <2>10, <2>11
<1> QED
  BY <1>5, <1>6

-----------------------------------------------------------------------------
(* The routes for a prefix that the peer takes from its neighbors.         *)
Carried(p) ==
    UNION {{[prefix |-> p, neighbor |-> n, next_hop |-> n,
             as_path |-> a.as_path, med |-> a.med] :
                a \in {b \in Attributes[n] : ~LoopDetected(b.as_path)}} :
              n \in Neighbors}

(* Such routes have a path that is not empty and has no loop.              *)
LEMMA CarriedFacts ==
    ASSUME NEW p
    PROVE  \A r \in Carried(p) : IsRoute(r) /\ ~LoopDetected(r.as_path)
BY PeerAssumption, SMTT(30) DEF Carried, IsRoute

(* A neighbor's announcement without a loop makes such routes.             *)
LEMMA CarriedRoute ==
    ASSUME NEW n \in Neighbors, NEW a \in Attributes[n], ~LoopDetected(a.as_path), NEW p
    PROVE  [prefix |-> p, neighbor |-> n, next_hop |-> n,
            as_path |-> a.as_path, med |-> a.med] \in Carried(p)
<1> DEFINE good == {b \in Attributes[n] : ~LoopDetected(b.as_path)}
           rt(x) == [prefix |-> p, neighbor |-> n, next_hop |-> n,
                     as_path |-> x.as_path, med |-> x.med]
<1>1. a \in good
  OBVIOUS
<1>2. rt(a) \in {rt(x) : x \in good}
  BY <1>1
<1> QED
  BY <1>2, Zenon DEF Carried

(* The tables have their domains, and hold routes of the neighbors; those  *)
(* that share the traffic of a prefix have paths of one length and are no  *)
(* more than max_paths allows.                                             *)
TableInv ==
    /\ DOMAIN local = Nets /\ DOMAIN output = Nets /\ DOMAIN input = Neighbors
    /\ \A n \in Neighbors : DOMAIN input[n] = Nets
    /\ \A n \in Neighbors, p \in Nets : input[n][p] \subseteq Carried(p)
    /\ \A p \in Nets : /\ local[p] \in Seq(Carried(p))
                       /\ OneLength(local[p]) /\ Len(local[p]) <= Bound

(* While the thread runs: every local route was sent to the simulator,     *)
(* output has the best of them, and no neighbor offers a shorter one.      *)
InUse(p) ==
    /\ local[p] \in Seq(fib)
    /\ local[p] = <<>> <=> output[p] = <<>>
    /\ local[p] # <<>> => bgp_routes_are_equal(local[p][1], output[p][1])
    /\ \A n \in Neighbors : \A r \in input[n][p] :
          local[p] # <<>> /\ Len(local[p][1].as_path) <= Len(r.as_path)

(* An announcement goes to neighbors other than the sender, and carries    *)
(* the route with the peer's AS in front.                                  *)
ToldRight(t) ==
    /\ t.to # t.route.neighbor
    /\ \E p \in Nets : t.route \in Carried(p)
    /\ t.path = <<asn>> \o t.route.as_path

PeerInv ==
    /\ TableInv
    /\ ~dead => \A p \in Nets : InUse(p)
    /\ \A t \in told : ToldRight(t)

(* An announcement: either the thread ends with it, or every prefix gets   *)
(* its decided routes, output the best of them, and the neighbors are told *)
(* of those that changed.                                                  *)
LEMMA AnnounceStep ==
    ASSUME PeerInv, NEW n \in Neighbors, NEW ps \in SUBSET Nets,
           NEW a \in Attributes[n], Announce(n, ps, a)
    PROVE  PeerInv'
<1> DEFINE route(p) == [prefix |-> p, neighbor |-> n, next_hop |-> n,
                        as_path |-> a.as_path, med |-> a.med]
           dec == [p \in ps |-> decision_process_local(local[p], route(p))]
           raising == {p \in ps : dec[p].raised}
           stops == \E p \in ps : dec[p].raised \/ dec[p].nested
<1>1. CASE LoopDetected(a.as_path)
  <2>1. UNCHANGED <<input, local, output, told, fib, dead>>
    BY <1>1 DEF Announce
  <2> QED
    BY <2>1 DEF PeerInv, TableInv, InUse, bgp_routes_are_equal
<1>2. CASE ~LoopDetected(a.as_path)
  <2>1. /\ ~dead /\ dead' = stops
        /\ input' = [input EXCEPT ![n] =
                        [p \in Nets |-> IF p \in ps THEN {route(p)} ELSE @[p]]]
        /\ fib' = fib \union IF stops THEN {} ELSE UNION {dec[p].sent : p \in ps}
        /\ output' = [p \in Nets |-> IF p \in ps /\ ~stops
                                     THEN StoreOutput(local'[p], output[p]) ELSE output[p]]
        /\ told' = told \union IF stops THEN {}
                     ELSE UNION {announce_route(n, p, local'[p][1]) :
                                    p \in {q \in ps : Changed(local'[q], output[q])}}
    BY <1>2 DEF Announce
  <2>2. PICK decided \in SUBSET (ps \ raising) :
          /\ raising = {} => decided = ps
          /\ local' = [p \in Nets |-> IF p \in decided THEN dec[p].local ELSE local[p]]
    BY <1>2 DEF Announce
  <2>3. \A p : route(p) \in Carried(p) /\ route(p).neighbor = n
    BY <1>2, CarriedRoute
  <2>4. /\ DOMAIN local = Nets /\ DOMAIN output = Nets /\ DOMAIN input = Neighbors
        /\ \A m \in Neighbors : DOMAIN input[m] = Nets
        /\ \A m \in Neighbors, p \in Nets : input[m][p] \subseteq Carried(p)
        /\ \A p \in Nets : /\ local[p] \in Seq(Carried(p))
                           /\ OneLength(local[p]) /\ Len(local[p]) <= Bound
        /\ \A p \in Nets : InUse(p)
        /\ \A t \in told : ToldRight(t)
    BY <2>1 DEF PeerInv, TableInv
  <2>5. ASSUME NEW p \in ps
        PROVE  /\ dec[p].local \in Seq(Carried(p))
               /\ OneLength(dec[p].local) /\ Len(dec[p].local) <= Bound
               /\ ~dec[p].raised =>
                    /\ dec[p].local # <<>> /\ Len(dec[p].local[1].as_path) <= Len(route(p).as_path)
                    /\ local[p] # <<>> =>
                          Len(dec[p].local[1].as_path) <= Len(local[p][1].as_path)
               /\ ~dec[p].raised /\ ~dec[p].nested =>
                    /\ \/ dec[p].local[1] = route(p)
                       \/ local[p] # <<>> /\ dec[p].local[1] = local[p][1]
                    /\ dec[p].local \in
                          Seq({local[p][j] : j \in 1..Len(local[p])} \union dec[p].sent)
    <3>1. /\ local[p] \in Seq(Carried(p)) /\ OneLength(local[p]) /\ Len(local[p]) <= Bound
          /\ route(p) \in Carried(p) /\ \A x \in Carried(p) : IsRoute(x)
      BY <2>3, <2>4, CarriedFacts
    <3>2. dec[p] = decision_process_local(local[p], route(p))
      OBVIOUS
    <3> HIDE DEF route, dec
    <3>3. Decides(dec[p], local[p], route(p), Carried(p))
      BY <3>1, <3>2, Decided
    <3> QED
      BY <3>3 DEF Decides
  <2> HIDE DEF dec
  <2>6. TableInv'
    <3>1. DOMAIN local' = Nets /\ DOMAIN output' = Nets /\ DOMAIN input' = Neighbors
      BY <2>1, <2>2, <2>4
    <3>2. \A m \in Neighbors : DOMAIN input'[m] = Nets
      BY <2>1, <2>4
    <3>3. \A m \in Neighbors, p \in Nets : input'[m][p] = input[m][p] \/ input'[m][p] = {route(p)}
      <4> HIDE DEF route
      <4> QED
        BY <2>1, <2>4
    <3>4. ASSUME NEW m \in Neighbors, NEW p \in Nets PROVE input'[m][p] \subseteq Carried(p)
      <4> HIDE DEF route
      <4>1. input'[m][p] = input[m][p] \/ input'[m][p] = {route(p)}
        BY <3>3
      <4>2. input[m][p] \subseteq Carried(p) /\ route(p) \in Carried(p)
        BY <2>3, <2>4
      <4> QED
        BY <4>1, <4>2, Zenon
    <3>5. ASSUME NEW p \in Nets
          PROVE  /\ local'[p] \in Seq(Carried(p))
                 /\ OneLength(local'[p]) /\ Len(local'[p]) <= Bound
      <4>1. CASE p \in decided
        <5>1. local'[p] = dec[p].local /\ p \in ps
          BY <2>2, <4>1
        <5> QED
          BY <2>5, <5>1
      <4>2. CASE p \notin decided
        <5>1. local'[p] = local[p]
          BY <2>2, <4>2
        <5> QED
          BY <2>4, <5>1
      <4> QED
        BY <4>1, <4>2
    <3> QED
      BY <3>1, <3>2, <3>4, <3>5 DEF TableInv
  <2>7. CASE stops
    <3>1. told' = told /\ dead'
      BY <2>1, <2>7
    <3> QED
      BY <2>4, <2>6, <3>1 DEF PeerInv
  <2>8. CASE ~stops
    <3>1. /\ local' = [p \in Nets |-> IF p \in ps THEN dec[p].local ELSE local[p]]
          /\ fib' = fib \union UNION {dec[p].sent : p \in ps}
          /\ output' = [p \in Nets |-> IF p \in ps
                                       THEN StoreOutput(local'[p], output[p]) ELSE output[p]]
          /\ \A t \in told' \ told : \E p \in ps :
                Changed(local'[p], output[p]) /\ t \in announce_route(n, p, local'[p][1])
      BY <2>1, <2>2, <2>8
    <3>2. \A p \in ps : ~dec[p].raised /\ ~dec[p].nested
      BY <2>8
    <3> HIDE DEF stops, raising
    <3>3. ASSUME NEW p \in Nets, p \notin ps PROVE InUse(p)'
      <4>1. local'[p] = local[p] /\ output'[p] = output[p] /\ fib \subseteq fib'
        BY <3>1, <3>3
      <4>2. \A m \in Neighbors : input'[m][p] = input[m][p]
        BY <2>1, <2>4, <3>3
      <4>3. local[p] \in Seq(fib')
        <5>1. local[p] \in Seq(fib)
          BY <2>4 DEF InUse
        <5> QED
          BY <4>1, <5>1, SMTT(30)
      <4> QED
        BY <2>4, <4>1, <4>2, <4>3 DEF InUse, bgp_routes_are_equal
    <3>4. ASSUME NEW p \in ps PROVE InUse(p)'
      <4> DEFINE l == dec[p].local
      <4>1. p \in Nets /\ local'[p] = l /\ output'[p] = StoreOutput(l, output[p])
        BY <3>1
      <4>2. /\ l # <<>> /\ Len(l[1].as_path) <= Len(route(p).as_path)
            /\ local[p] # <<>> => Len(l[1].as_path) <= Len(local[p][1].as_path)
            /\ l \in Seq({local[p][j] : j \in 1..Len(local[p])} \union dec[p].sent)
        BY <2>5, <3>2
      <4>3. l \in Seq(fib')
        <5>1. local[p] \in Seq(fib)
          BY <2>4, <4>1 DEF InUse
        <5>2. {local[p][j] : j \in 1..Len(local[p])} \union dec[p].sent \subseteq fib'
          BY <3>1, <5>1, SMTT(30)
        <5> HIDE DEF l
        <5> QED
          BY <4>2, <5>2, SMTT(30)
      <4> HIDE DEF l
      <4>4. \/ output'[p] = <<l[1]>>
            \/ /\ output'[p] = output[p] /\ output[p] # <<>>
               /\ bgp_routes_are_equal(l[1], output[p][1])
        BY <4>1 DEF StoreOutput, Changed
      <4>5. output'[p] # <<>> /\ bgp_routes_are_equal(l[1], output'[p][1])
        BY <4>4, SMTT(30) DEF bgp_routes_are_equal
      <4>6. ASSUME NEW m \in Neighbors, NEW r \in input'[m][p]
            PROVE  Len(l[1].as_path) <= Len(r.as_path)
        <5>1. input'[m][p] = {route(p)} \/ input'[m][p] = input[m][p]
          <6> HIDE DEF route
          <6> QED
            BY <2>1, <2>4, <4>1
        <5>2. CASE r = route(p)
          BY <4>2, <5>2
        <5>3. CASE r \in input[m][p]
          <6>1. local[p] # <<>> /\ Len(local[p][1].as_path) <= Len(r.as_path)
            BY <2>4, <4>1, <5>3 DEF InUse
          <6>2. Len(l[1].as_path) <= Len(local[p][1].as_path)
            BY <4>2, <6>1
          <6>3. l \in Seq(Carried(p)) /\ local[p] \in Seq(Carried(p)) /\ r \in Carried(p)
            BY <2>4, <2>5, <4>1, <5>3 DEF l
          <6>4. \A x \in Carried(p) : Len(x.as_path) \in Nat
            BY CarriedFacts, SMTT(30) DEF IsRoute
          <6>5. l[1] \in Carried(p) /\ local[p][1] \in Carried(p)
            BY <4>2, <6>1, <6>3, SMTT(30)
          <6> DEFINE x == Len(l[1].as_path)
                     y == Len(local[p][1].as_path)
                     z == Len(r.as_path)
          <6>6. x \in Nat /\ y \in Nat /\ z \in Nat
            BY <6>3, <6>4, <6>5, Zenon
          <6>7. x <= y /\ y <= z
            BY <6>1, <6>2, Zenon
          <6> HIDE DEF x, y, z
          <6>8. x <= z
            BY <6>6, <6>7, SMTT(30)
          <6> QED
            BY <6>8 DEF x, z
        <5> QED
          BY <5>1, <5>2, <5>3
      <4> QED
        BY <4>1, <4>2, <4>3, <4>5, <4>6 DEF InUse, bgp_routes_are_equal
    <3>5. ASSUME NEW t \in told', t \notin told PROVE ToldRight(t)
      <4>1. PICK p \in ps : Changed(local'[p], output[p]) /\ t \in announce_route(n, p, local'[p][1])
        BY <3>1, <3>5
      <4>2. p \in Nets /\ local'[p] = dec[p].local
        BY <3>1
      <4>3. local'[p][1] = route(p)
        <5>1. \/ dec[p].local[1] = route(p)
              \/ local[p] # <<>> /\ dec[p].local[1] = local[p][1]
          BY <2>5, <3>2
        <5>2. ASSUME local[p] # <<>>, local'[p][1] = local[p][1] PROVE FALSE
          <6>1. output[p] # <<>> /\ bgp_routes_are_equal(local[p][1], output[p][1])
            BY <2>4, <4>2, <5>2 DEF InUse
          <6> QED
            BY <4>1, <5>2, <6>1 DEF Changed, bgp_routes_are_equal
        <5> QED
          BY <4>2, <5>1, <5>2
      <4>4. route(p) \in Carried(p) /\ route(p).neighbor = n
        BY <2>3
      <4> DEFINE best == local'[p][1]
      <4> HIDE DEF route, best
      <4>5. best \in Carried(p) /\ best.neighbor = n /\ t \in announce_route(n, p, best)
        BY <4>1, <4>3, <4>4 DEF best
      <4>6. t.to # n /\ t.route = best /\ t.path = <<asn>> \o best.as_path
        BY <4>5, SMTT(30) DEF announce_route
      <4> QED
        BY <4>2, <4>5, <4>6 DEF ToldRight
    <3> QED
      BY <2>4, <2>6, <3>3, <3>4, <3>5 DEF PeerInv, ToldRight
  <2> QED
    BY <2>7, <2>8
<1> QED
  BY <1>1, <1>2

(* A withdrawal takes routes out of input only.                            *)
LEMMA WithdrawStep ==
    ASSUME PeerInv, NEW n \in Neighbors, NEW ps \in SUBSET Nets, Withdraw(n, ps)
    PROVE  PeerInv'
<1>1. /\ ~dead /\ UNCHANGED <<local, output, told, fib>>
      /\ input' = [input EXCEPT ![n] = [p \in Nets |-> IF p \in ps THEN {} ELSE @[p]]]
  BY DEF Withdraw
<1>2. DOMAIN input = Neighbors /\ \A m \in Neighbors : DOMAIN input[m] = Nets
  BY DEF PeerInv, TableInv
<1>3. DOMAIN input' = Neighbors /\ \A m \in Neighbors : DOMAIN input'[m] = Nets
  BY <1>1, <1>2
<1>4. \A m \in Neighbors, p \in Nets : input'[m][p] \subseteq input[m][p]
  BY <1>1, <1>2
<1>5. TableInv'
  BY <1>1, <1>3, <1>4 DEF PeerInv, TableInv
<1>6. \A p \in Nets : InUse(p)'
  BY <1>1, <1>4 DEF PeerInv, InUse, bgp_routes_are_equal
<1> QED
  BY <1>1, <1>5, <1>6 DEF PeerInv, ToldRight

(* Every step keeps the invariant.                                         *)
LEMMA PeerStep == PeerInv /\ [Next]_vars => PeerInv'
<1> SUFFICES ASSUME PeerInv, [Next]_vars PROVE PeerInv'
  OBVIOUS
<1>1. ASSUME UNCHANGED <<input, local, output, told, fib, dead>> PROVE PeerInv'
  BY <1>1 DEF PeerInv, TableInv, InUse, bgp_routes_are_equal
<1>2. CASE UNCHANGED vars
  BY <1>1, <1>2 DEF vars
<1>3. CASE Next
  <2>1. PICK n \in Neighbors :
          \/ SessionUp(n)
          \/ SessionDown(n)
          \/ \E ps \in SUBSET Nets \ {{}} :
                \/ \E a \in Attributes[n] : Announce(n, ps, a)
                \/ Withdraw(n, ps)
    BY <1>3 DEF Next
  <2>2. CASE SessionUp(n) \/ SessionDown(n)
    BY <1>1, <2>2 DEF SessionUp, SessionDown
  <2>3. ASSUME NEW ps \in SUBSET Nets \ {{}}, NEW a \in Attributes[n], Announce(n, ps, a)
        PROVE  PeerInv'
    BY <2>3, AnnounceStep
  <2>4. ASSUME NEW ps \in SUBSET Nets \ {{}}, Withdraw(n, ps)
        PROVE  PeerInv'
    BY <2>4, WithdrawStep
  <2> QED
    BY <2>1, <2>2, <2>3, <2>4
<1> QED
  BY <1>2, <1>3

(* The tables fit together in every state.                                 *)
THEOREM PeerInvariant == Spec => []PeerInv
<1>1. Init => PeerInv
  <2> SUFFICES ASSUME Init PROVE PeerInv
    OBVIOUS
  <2>1. TableInv
    BY BoundFacts DEF Init, TableInv, OneLength
  <2>2. \A p \in Nets : InUse(p)
    BY DEF Init, InUse
  <2> QED
    BY <2>1, <2>2 DEF Init, PeerInv
<1> QED
  BY <1>1, PeerStep, PTL DEF Spec

(* As long as the thread runs, the route last stored in output and told to *)
(* the neighbors is the best route in use.                                 *)
THEOREM OutputFollowsLocalHolds == Spec => []OutputFollowsLocal
<1>1. PeerInv => OutputFollowsLocal
  BY DEF PeerInv, InUse, OutputFollowsLocal
<1> QED
  BY <1>1, PeerInvariant, PTL

(* As long as the thread runs, every route that carries traffic was sent   *)
(* to the simulator.                                                       *)
THEOREM FibHasLocalHolds == Spec => []FibHasLocal
<1>1. PeerInv => FibHasLocal
  BY SMTT(30) DEF PeerInv, InUse, FibHasLocal
<1> QED
  BY <1>1, PeerInvariant, PTL

(* As long as the thread runs, no neighbor offers a route with a shorter   *)
(* path than the best one in use.                                          *)
THEOREM BestInUseHolds == Spec => []BestInUse
<1>1. PeerInv => BestInUse
  <2> SUFFICES ASSUME PeerInv, ~dead, NEW p \in Nets, NEW n \in Neighbors, NEW r \in input[n][p]
               PROVE  ~(Len(r.as_path) < Len(local[p][1].as_path))
    BY DEF BestInUse
  <2>1. local[p] # <<>> /\ Len(local[p][1].as_path) <= Len(r.as_path)
    BY DEF PeerInv, InUse
  <2>2. r \in Carried(p) /\ local[p] \in Seq(Carried(p))
    BY DEF PeerInv, TableInv
  <2>3. \A x \in Carried(p) : Len(x.as_path) \in Nat
    BY CarriedFacts, SMTT(30) DEF IsRoute
  <2>4. local[p][1] \in Carried(p)
    BY <2>1, <2>2, SMTT(30)
  <2> QED
    BY <2>1, <2>2, <2>3, <2>4, SMTT(30)
<1> QED
  BY <1>1, PeerInvariant, PTL

(* No neighbor is told of a route that it sent.                            *)
THEOREM NotToldBackHolds == Spec => []NotToldBack
<1>1. PeerInv => NotToldBack
  BY DEF PeerInv, ToldRight, NotToldBack
<1> QED
  BY <1>1, PeerInvariant, PTL

(* The routes of a prefix have paths of one length and are no more than    *)
(* max_paths allows, with or without an exception.                         *)
THEOREM SharedEquallyHolds == Spec => []SharedEqually
<1>1. PeerInv => SharedEqually
  <2> SUFFICES ASSUME PeerInv, NEW p \in Nets
               PROVE  /\ \A i, j \in DOMAIN local[p] :
                            Len(local[p][i].as_path) = Len(local[p][j].as_path)
                      /\ Len(local[p]) <= IF MaxPaths \in {NoMax, 0} THEN 1 ELSE MaxPaths
    BY DEF SharedEqually
  <2>1. local[p] \in Seq(Carried(p)) /\ OneLength(local[p]) /\ Len(local[p]) <= Bound
    BY DEF PeerInv, TableInv
  <2>2. DOMAIN local[p] = 1..Len(local[p])
    BY <2>1, SMTT(30)
  <2> QED
    BY <2>1, <2>2 DEF OneLength, Bound
<1> QED
  BY <1>1, PeerInvariant, PTL

(* An announced path has the peer's AS at its head only.                   *)
THEOREM LoopFreeHolds == Spec => []LoopFree
<1>1. PeerInv => LoopFree
  <2> SUFFICES ASSUME PeerInv, ~AllowAsIn, NEW t \in told, NEW k \in 2..Len(t.path)
               PROVE  t.path[k] # asn
    BY DEF LoopFree
  <2>1. PICK p \in Nets : t.route \in Carried(p)
    BY DEF PeerInv, ToldRight
  <2> DEFINE path == t.route.as_path
  <2>2. t.path = <<asn>> \o path
    BY DEF PeerInv, ToldRight
  <2>3. path \in Seq(Nat) /\ ~LoopDetected(path)
    BY <2>1, CarriedFacts DEF IsRoute
  <2> HIDE DEF path
  <2>4. k - 1 \in 1..Len(path) /\ t.path[k] = path[k - 1]
    BY <2>2, <2>3, SMTT(30)
  <2> QED
    BY <2>3, <2>4, SMTT(30) DEF LoopDetected
<1> QED
  BY <1>1, PeerInvariant, PTL
=============================================================================
