--------------------------- MODULE FlowTableProofs ---------------------------
(***************************************************************************)
(* What holds of a flow table of any size, for any masks, priorities,      *)
(* timeouts and times: one mini table for each mask (OneTablePerMask), a   *)
(* lookup that returns the best flow its one probe of each mini table can  *)
(* see (LookupBest), operations that delete no live flow                   *)
(* (OnlyExpiredDeleted), and non-strict commands that reach exactly the    *)
(* flows their match covers (NonStrictExact).                              *)
(*                                                                         *)
(* The operations go through the mini tables one by one and take the empty *)
(* ones off the list; what they promise is about the flows of all of them. *)
(* Between the two stands the list of lists: Joined, and Mapped, in which  *)
(* every element of a list becomes a list of its own.                      *)
(***************************************************************************)
EXTENDS FlowTable, ListProofs

(* Joined, step by step: k[n] is the first n lists one after the other.    *)
JoinedSoFar(k, s, V) ==
    /\ k \in [0..Len(s) -> Seq(V)]
    /\ k[0] = <<>> /\ k[Len(s)] = Joined(s)
    /\ \A n \in 1..Len(s) : k[n] = k[n - 1] \o s[n]

(* There is such a function: the recursion of Joined has a value at every  *)
(* position.                                                               *)
LEMMA JoinedSteps ==
    ASSUME NEW V, NEW s \in Seq(Seq(V))
    PROVE  \E k : JoinedSoFar(k, s, V)
<1> DEFINE N == Len(s)
           W == Seq(V)
           step == [n \in 1..N |-> [x \in W |-> x \o s[n]]]
           Eq(f) == f = [n \in 0..N |-> IF n = 0 THEN <<>> ELSE f[n - 1] \o s[n]]
           k == CHOOSE f : Eq(f)
<1>1. N \in Nat /\ <<>> \in W /\ \A n \in 1..N : s[n] \in W
  OBVIOUS
<1>2. \A x, y \in W : x \o y \in W
  OBVIOUS
<1>3. step \in [1..N -> [W -> W]]
  <2> HIDE DEF N, W
  <2> QED
    BY <1>1, <1>2
<1>4. PICK f : DefinedBy(f, N, W, <<>>, step)
  <2> HIDE DEF step, N, W
  <2> QED
    BY <1>1, <1>3, Recursion
<1>5. f \in [0..N -> W] /\ f[0] = <<>> /\ \A n \in 1..N : f[n] = step[n][f[n - 1]]
  BY <1>4 DEF DefinedBy
<1> HIDE DEF W
<1>6. ASSUME NEW n \in 1..N PROVE f[n] = f[n - 1] \o s[n]
  <2>1. n - 1 \in 0..N
    BY <1>1
  <2>2. f[n - 1] \in W
    BY <1>5, <2>1
  <2> QED
    BY <1>5, <2>2
<1>7. Eq(f)
  <2>1. ASSUME NEW n \in 0..N
        PROVE  f[n] = IF n = 0 THEN <<>> ELSE f[n - 1] \o s[n]
    <3>1. CASE n = 0
      BY <1>5, <3>1
    <3>2. CASE n # 0
      <4>1. n \in 1..N
        BY <1>1, <3>2
      <4> QED
        BY <1>6, <3>2, <4>1
    <3> QED
      BY <3>1, <3>2
  <2> QED
    BY <1>5, <2>1
<1>8. Eq(k)
  <2> HIDE DEF Eq
  <2> QED
    BY <1>7
<1>9. Joined(s) = k[N]
  BY DEF Joined
<1> HIDE DEF k, N
<1>10. k[0] = <<>> /\ \A n \in 1..N : k[n] = k[n - 1] \o s[n]
  <2> DEFINE body(n) == IF n = 0 THEN <<>> ELSE k[n - 1] \o s[n]
  <2>1. k = [n \in 0..N |-> body(n)]
    BY <1>8, Zenon
  <2>2. \A n \in 0..N : k[n] = body(n)
    <3> HIDE DEF body
    <3> QED
      BY <2>1
  <2>3. 0 \in 0..N /\ \A n \in 1..N : n \in 0..N /\ n # 0
    BY <1>1
  <2> QED
    BY <2>2, <2>3, Zenon
<1>11. \A n \in 0..N : k[n] \in W
  <2>1. ASSUME NEW n \in 1..N, k[n - 1] \in W PROVE k[n] = step[n][k[n - 1]]
    BY <1>10, <2>1
  <2>2. k[0] \in W
    BY <1>1, <1>10, Zenon
  <2> HIDE DEF step
  <2> QED
    BY <1>1, <1>3, <2>1, <2>2, StaysIn
<1>12. k \in [0..N -> W]
  BY <1>8, <1>11
<1> QED
  BY <1>9, <1>10, <1>12, Zenon DEF N, W, JoinedSoFar

(* What takes the steps of Joined ends with its result.                    *)
LEMMA JoinedUnique ==
    ASSUME NEW V, NEW s \in Seq(Seq(V)), NEW f, f[0] = <<>>,
           \A n \in 1..Len(s) : f[n] = f[n - 1] \o s[n]
    PROVE  f[Len(s)] = Joined(s)
<1> DEFINE N == Len(s)
<1>1. PICK k : JoinedSoFar(k, s, V)
  BY JoinedSteps, Zenon
<1>2. k[0] = <<>> /\ k[N] = Joined(s) /\ \A n \in 1..N : k[n] = k[n - 1] \o s[n]
  BY <1>1, Zenon DEF JoinedSoFar
<1>0. N \in Nat /\ \A n \in 1..N : f[n] = f[n - 1] \o s[n]
  <2>1. N \in Nat
    OBVIOUS
  <2> QED
    BY <2>1, Zenon
<1> DEFINE H == {n \in 0..N : f[n] = k[n]}
<1> HIDE DEF N
<1>3. 0 \in H
  BY <1>0, <1>2
<1>4. ASSUME NEW n \in 0..(N - 1), n \in H PROVE n + 1 \in H
  <2>1. n + 1 \in 1..N /\ (n + 1) - 1 = n /\ n + 1 \in 0..N
    BY <1>0, <1>2
  <2>2. f[n + 1] = f[n] \o s[n + 1] /\ k[n + 1] = k[n] \o s[n + 1]
    BY <1>0, <1>2, <2>1
  <2> QED
    BY <1>4, <2>1, <2>2
<1>5. 0..N \subseteq H
  <2> HIDE DEF H, N
  <2> QED
    BY <1>0, <1>3, <1>4, UpTo
<1>6. N \in H
  <2>1. N \in 0..N
    BY <1>0, <1>2
  <2> QED
    BY <1>5, <2>1
<1> QED
  BY <1>2, <1>6 DEF N

(* The result is a list, and one more list goes to its end.                *)
LEMMA JoinedFacts ==
    ASSUME NEW V, NEW s \in Seq(Seq(V))
    PROVE  /\ Joined(s) \in Seq(V)
           /\ s = <<>> => Joined(s) = <<>>
           /\ \A x \in Seq(V) : Joined(Append(s, x)) = Joined(s) \o x
<1> DEFINE N == Len(s)
<1>1. PICK k : JoinedSoFar(k, s, V)
  BY JoinedSteps, Zenon
<1>2. /\ N \in Nat /\ k \in [0..N -> Seq(V)]
      /\ k[0] = <<>> /\ k[N] = Joined(s) /\ \A n \in 1..N : k[n] = k[n - 1] \o s[n]
  <2>1. N \in Nat
    OBVIOUS
  <2> QED
    BY <1>1, <2>1, Zenon DEF JoinedSoFar
<1>3. Joined(s) \in Seq(V)
  <2>1. N \in 0..N
    BY <1>2
  <2> QED
    BY <1>2, <2>1
<1>4. s = <<>> => Joined(s) = <<>>
  BY <1>2
<1>5. ASSUME NEW x \in Seq(V) PROVE Joined(Append(s, x)) = Joined(s) \o x
  <2> DEFINE t == Append(s, x)
             f == [n \in 0..(N + 1) |-> IF n <= N THEN k[n] ELSE k[N] \o x]
  <2>1. /\ t \in Seq(Seq(V)) /\ Len(t) = N + 1 /\ t[N + 1] = x
        /\ \A n \in 1..N : t[n] = s[n]
    <3> DEFINE W == Seq(V)
    <3>1. s \in Seq(W) /\ x \in W
      OBVIOUS
    <3> HIDE DEF W
    <3>2. /\ t \in Seq(W) /\ Len(t) = N + 1 /\ t[N + 1] = x
          /\ \A n \in 1..N : t[n] = s[n]
      BY <3>1
    <3> QED
      BY <3>2 DEF W
  <2> HIDE DEF t, N
  <2>2. f[0] = <<>> /\ f[N + 1] = k[N] \o x /\ \A n \in 0..N : f[n] = k[n]
    BY <1>2
  <2>3. ASSUME NEW n \in 1..Len(t) PROVE f[n] = f[n - 1] \o t[n]
    <3>1. CASE n = N + 1
      <4>1. n - 1 = N /\ N \in 0..N
        BY <1>2, <3>1
      <4>2. f[n - 1] = k[N]
        BY <2>2, <4>1
      <4> QED
        BY <2>1, <2>2, <3>1, <4>2
    <3>2. CASE n # N + 1
      <4>1. n \in 1..N /\ n \in 0..N /\ n - 1 \in 0..N
        BY <1>2, <2>1, <3>2
      <4>2. f[n] = k[n] /\ f[n - 1] = k[n - 1]
        BY <2>2, <4>1
      <4> QED
        BY <1>2, <2>1, <4>1, <4>2
    <3> QED
      BY <3>1, <3>2
  <2> HIDE DEF f
  <2>4. f[Len(t)] = Joined(t)
    BY <2>1, <2>2, <2>3, JoinedUnique
  <2>5. f[N + 1] = Joined(t)
    BY <2>1, <2>4
  <2> QED
    BY <1>2, <2>2, <2>5 DEF t
<1> QED
  BY <1>3, <1>4, <1>5

(* The lists that h has for the elements of q, one after the other.        *)
Mapped(q, h) == Joined([k \in 1..Len(q) |-> h[q[k]]])

(* The result is a list.                                                   *)
LEMMA MappedSeq ==
    ASSUME NEW A, NEW V, NEW h \in [A -> Seq(V)], NEW q \in Seq(A)
    PROVE  /\ [k \in 1..Len(q) |-> h[q[k]]] \in Seq(Seq(V))
           /\ Mapped(q, h) \in Seq(V)
<1> DEFINE W == Seq(V)
<1>1. h \in [A -> W]
  OBVIOUS
<1>2. [k \in 1..Len(q) |-> h[q[k]]] \in Seq(W)
  <2> HIDE DEF W
  <2> QED
    BY <1>1
<1> QED
  BY <1>2, JoinedFacts DEF Mapped, W

(* Nothing comes of the empty list.                                        *)
LEMMA MappedEmpty ==
    ASSUME NEW V, NEW h
    PROVE  Mapped(<<>>, h) = <<>>
<1> DEFINE r == <<>>
           s == [k \in 1..Len(r) |-> h[r[k]]]
<1>1. s = <<>>
  OBVIOUS
<1>2. s \in Seq(Seq(V))
  BY <1>1
<1> HIDE DEF s
<1>3. Joined(s) = <<>>
  BY <1>1, <1>2, JoinedFacts
<1> QED
  BY <1>3 DEF Mapped, s

(* The elements of two lists, one after the other.                         *)
LEMMA CatElements ==
    ASSUME NEW V, NEW p \in Seq(V), NEW q \in Seq(V)
    PROVE  /\ p \o q \in Seq(V) /\ Len(p \o q) = Len(p) + Len(q)
           /\ \A i \in 1..(Len(p) + Len(q)) :
                 (p \o q)[i] = IF i <= Len(p) THEN p[i] ELSE q[i - Len(p)]
OBVIOUS

(* It does not matter which two of three lists are joined first.           *)
Associative(V) == \A p, q, r \in Seq(V) : (p \o q) \o r = p \o (q \o r)

(* Joining lists is associative.                                           *)
LEMMA CatAssoc ==
    ASSUME NEW V
    PROVE  Associative(V)
<1> SUFFICES ASSUME NEW p \in Seq(V), NEW q \in Seq(V), NEW r \in Seq(V)
             PROVE  (p \o q) \o r = p \o (q \o r)
  BY Zenon DEF Associative
<1> DEFINE l == Len(p)
           m == Len(q)
           n == Len(r)
           pq == p \o q
           qr == q \o r
           a == pq \o r
           b == p \o qr
<1>0. l \in Nat /\ m \in Nat /\ n \in Nat
  OBVIOUS
<1>1. /\ pq \in Seq(V) /\ Len(pq) = l + m
      /\ \A i \in 1..(l + m) : pq[i] = IF i <= l THEN p[i] ELSE q[i - l]
  BY CatElements
<1>2. /\ qr \in Seq(V) /\ Len(qr) = m + n
      /\ \A i \in 1..(m + n) : qr[i] = IF i <= m THEN q[i] ELSE r[i - m]
  BY CatElements
<1> HIDE DEF pq, qr
<1>9. \A x, y \in Seq(V) :
        /\ x \o y \in Seq(V) /\ Len(x \o y) = Len(x) + Len(y)
        /\ \A i \in 1..(Len(x) + Len(y)) :
              (x \o y)[i] = IF i <= Len(x) THEN x[i] ELSE y[i - Len(x)]
  BY CatElements
<1>3. /\ a \in Seq(V) /\ Len(a) = Len(pq) + n
      /\ \A i \in 1..(Len(pq) + n) : a[i] = IF i <= Len(pq) THEN pq[i] ELSE r[i - Len(pq)]
  BY <1>1, <1>9, Zenon
<1>4. /\ b \in Seq(V) /\ Len(b) = l + Len(qr)
      /\ \A i \in 1..(l + Len(qr)) : b[i] = IF i <= l THEN p[i] ELSE qr[i - l]
  BY <1>2, <1>9, Zenon
<1> HIDE DEF a, b, l, m, n
<1>5. (l + m) + n = l + (m + n)
  BY <1>0
<1>6. ASSUME NEW i \in 1..Len(a) PROVE a[i] = b[i]
  <2>1. /\ i \in 1..(Len(pq) + n) /\ i \in 1..((l + m) + n)
        /\ i \in 1..(l + Len(qr)) /\ i \in 1..(l + (m + n))
    BY <1>1, <1>2, <1>3, <1>5
  <2>2. a[i] = IF i <= l + m THEN pq[i] ELSE r[i - (l + m)]
    BY <1>1, <1>3, <2>1
  <2>3. b[i] = IF i <= l THEN p[i] ELSE qr[i - l]
    BY <1>4, <2>1
  <2>4. CASE i <= l
    <3>1. i <= l + m /\ i \in 1..(l + m)
      BY <1>0, <2>1, <2>4
    <3> QED
      BY <1>1, <2>2, <2>3, <2>4, <3>1
  <2>5. CASE ~(i <= l) /\ i <= l + m
    <3>1. i \in 1..(l + m) /\ i - l \in 1..(m + n) /\ i - l <= m
      BY <1>0, <2>1, <2>5
    <3> QED
      BY <1>1, <1>2, <2>2, <2>3, <2>5, <3>1
  <2>6. CASE ~(i <= l + m)
    <3>1. ~(i <= l) /\ i - l \in 1..(m + n) /\ ~(i - l <= m) /\ (i - l) - m = i - (l + m)
      BY <1>0, <2>1, <2>6
    <3> QED
      BY <1>2, <2>2, <2>3, <2>6, <3>1
  <2> QED
    BY <2>4, <2>5, <2>6
<1>7. Len(a) = Len(b)
  BY <1>1, <1>2, <1>3, <1>4, <1>5
<1>8. a = b
  <2>1. a \in [1..Len(a) -> V] /\ b \in [1..Len(b) -> V]
    BY <1>3, <1>4
  <2> QED
    BY <1>6, <1>7, <2>1, SMTT(30)
<1> QED
  BY <1>8 DEF a, b, pq, qr

(* Appending to the second of two lists appends to the joined list.        *)
AppendsLast(V) ==
    \A p, q \in Seq(V) : \A x \in V :
       p \o q \in Seq(V) /\ p \o Append(q, x) = Append(p \o q, x)

(* An element goes to the end of the second list.                          *)
LEMMA CatAppend ==
    ASSUME NEW V
    PROVE  AppendsLast(V)
<1> SUFFICES ASSUME NEW p \in Seq(V), NEW q \in Seq(V), NEW x \in V
             PROVE  p \o q \in Seq(V) /\ p \o Append(q, x) = Append(p \o q, x)
  BY Zenon DEF AppendsLast
<1> DEFINE o == <<x>>
           pq == p \o q
<1>1. o \in Seq(V) /\ Append(q, x) = q \o o
  OBVIOUS
<1>2. pq \in Seq(V)
  BY CatElements
<1> HIDE DEF pq, o
<1>3. Append(pq, x) = pq \o o
  BY <1>2 DEF o
<1>4. (p \o q) \o o = p \o (q \o o)
  <2>1. Associative(V)
    BY CatAssoc, Zenon
  <2> QED
    BY <1>1, <2>1, Zenon DEF Associative
<1> QED
  BY <1>1, <1>2, <1>3, <1>4 DEF pq

(* One more element adds its list at the end.                              *)
LEMMA MappedAppend ==
    ASSUME NEW A, NEW V, NEW h \in [A -> Seq(V)], NEW q \in Seq(A), NEW x \in A
    PROVE  Mapped(Append(q, x), h) = Mapped(q, h) \o h[x]
<1> DEFINE r == Append(q, x)
           s == [k \in 1..Len(q) |-> h[q[k]]]
           t == [k \in 1..Len(r) |-> h[r[k]]]
           W == Seq(V)
<1>1. /\ r \in Seq(A) /\ Len(r) = Len(q) + 1 /\ r[Len(q) + 1] = x
      /\ \A k \in 1..Len(q) : r[k] = q[k]
  OBVIOUS
<1>2. s \in Seq(W) /\ t \in Seq(W) /\ Len(s) = Len(q) /\ Len(t) = Len(r) /\ h[x] \in W
  <2>1. s \in Seq(W) /\ t \in Seq(W)
    BY <1>1, MappedSeq
  <2> QED
    BY <1>1, <2>1
<1>3. t = Append(s, h[x])
  <2>1. Len(q) \in Nat
    OBVIOUS
  <2>2. \A k \in 1..Len(r) : t[k] = IF k = Len(q) + 1 THEN h[x] ELSE h[q[k]]
    <3> HIDE DEF r
    <3> TAKE k \in 1..Len(r)
    <3>1. t[k] = h[r[k]]
      OBVIOUS
    <3>2. k = Len(q) + 1 \/ k \in 1..Len(q)
      BY <1>1, <2>1
    <3> QED
      BY <1>1, <3>1, <3>2
  <2>3. \A k \in 1..Len(q) : s[k] = h[q[k]]
    OBVIOUS
  <2> DEFINE u == Append(s, h[x])
  <2> HIDE DEF s, t, r, W
  <2>4. /\ u \in Seq(W) /\ Len(u) = Len(q) + 1 /\ u[Len(q) + 1] = h[x]
        /\ \A k \in 1..Len(q) : u[k] = s[k]
    BY <1>2
  <2> HIDE DEF u
  <2>5. \A k \in 1..Len(t) : t[k] = u[k]
    <3> TAKE k \in 1..Len(t)
    <3>1. k = Len(q) + 1 \/ (k # Len(q) + 1 /\ k \in 1..Len(q))
      BY <1>1, <1>2, <2>1
    <3> QED
      BY <1>1, <1>2, <2>2, <2>3, <2>4, <3>1
  <2>6. t = u
    BY <1>1, <1>2, <2>4, <2>5
  <2> QED
    BY <2>6 DEF u
<1> HIDE DEF s, t
<1>4. Joined(t) = Joined(s) \o h[x]
  BY <1>2, <1>3, JoinedFacts DEF W
<1> QED
  BY <1>4 DEF Mapped, s, t, r

-----------------------------------------------------------------------------
(* Mapped goes through the two parts of a list.                            *)
LEMMA MappedCat ==
    ASSUME NEW A, NEW V, NEW h \in [A -> Seq(V)], NEW q \in Seq(A), NEW r \in Seq(A)
    PROVE  Mapped(q \o r, h) = Mapped(q, h) \o Mapped(r, h)
<1> DEFINE N == Len(r)
           front(n) == SubSeq(r, 1, n)
           M(x) == Mapped(x, h)
           H == {n \in 0..N : M(q \o front(n)) = M(q) \o M(front(n))}
<1>1. N \in Nat
  OBVIOUS
<1>2. \A x \in Seq(A) : M(x) \in Seq(V)
  BY MappedSeq
<1>8. \A x, y \in Seq(A) : \A z \in A :
         x \o y \in Seq(A) /\ x \o Append(y, z) = Append(x \o y, z)
  <2>1. AppendsLast(A)
    BY CatAppend, Zenon
  <2> QED
    BY <2>1, Zenon DEF AppendsLast
<1>9. \A x, y, z \in Seq(V) : (x \o y) \o z = x \o (y \o z)
  <2>1. Associative(V)
    BY CatAssoc, Zenon
  <2> QED
    BY <2>1, Zenon DEF Associative
<1>3. 0 \in H
  <2>1. front(0) = <<>> /\ q \o <<>> = q
    OBVIOUS
  <2>2. M(<<>>) = <<>>
    BY MappedEmpty
  <2>3. M(q) \o <<>> = M(q)
    <3>1. M(q) \in Seq(V)
      BY <1>2
    <3> HIDE DEF M
    <3> QED
      BY <3>1
  <2> HIDE DEF front, M
  <2>4. M(q \o front(0)) = M(q) \o M(front(0))
    BY <2>1, <2>2, <2>3
  <2> QED
    BY <1>1, <2>4
<1>4. ASSUME NEW n \in 0..(N - 1), n \in H PROVE n + 1 \in H
  <2> DEFINE p == front(n)
             x == r[n + 1]
  <2>1. p \in Seq(A) /\ x \in A /\ front(n + 1) = Append(p, x) /\ n + 1 \in 0..N
    BY <1>1
  <2> HIDE DEF front, p, x, N
  <2>2. q \o Append(p, x) = Append(q \o p, x) /\ q \o p \in Seq(A)
    BY <1>8, <2>1, Zenon
  <2>3. M(Append(q \o p, x)) = M(q \o p) \o h[x] /\ M(Append(p, x)) = M(p) \o h[x]
    <3>1. \A y \in Seq(A) : Mapped(Append(y, x), h) = Mapped(y, h) \o h[x]
      BY <2>1, MappedAppend, ZenonT(60)
    <3> QED
      BY <2>1, <2>2, <3>1, Zenon DEF M
  <2>4. M(q \o p) = M(q) \o M(p)
    BY <1>4 DEF p
  <2>5. M(q) \in Seq(V) /\ M(p) \in Seq(V) /\ h[x] \in Seq(V)
    BY <1>2, <2>1
  <2> HIDE DEF M
  <2> DEFINE y == h[x]
             mq == M(q)
             mp == M(p)
  <2>6. (mq \o mp) \o y = mq \o (mp \o y)
    <3>1. mq \in Seq(V) /\ mp \in Seq(V) /\ y \in Seq(V)
      BY <2>5
    <3> HIDE DEF y, mq, mp
    <3> QED
      BY <1>9, <3>1, Zenon
  <2>7. M(q \o front(n + 1)) = M(q) \o M(front(n + 1))
    BY <2>1, <2>2, <2>3, <2>4, <2>6
  <2> QED
    BY <2>1, <2>7
<1>5. 0..N \subseteq H
  <2> HIDE DEF H, N
  <2> QED
    BY <1>1, <1>3, <1>4, UpTo
<1>6. M(q \o front(N)) = M(q) \o M(front(N))
  <2>1. N \in H
    <3>1. N \in 0..N
      BY <1>1
    <3> QED
      BY <1>5, <3>1
  <2> QED
    BY <2>1
<1>7. front(N) = r
  OBVIOUS
<1> QED
  BY <1>6, <1>7

(* A list of one element gives its list.                                   *)
LEMMA MappedOne ==
    ASSUME NEW A, NEW V, NEW h \in [A -> Seq(V)], NEW x \in A
    PROVE  Mapped(<<x>>, h) = h[x]
<1> DEFINE e == <<>>
<1>1. e \in Seq(A) /\ Append(e, x) = <<x>>
  OBVIOUS
<1>2. Mapped(e, h) = <<>> /\ Mapped(Append(e, x), h) = Mapped(e, h) \o h[x]
  <2>1. Mapped(e, h) = <<>>
    BY MappedEmpty
  <2> HIDE DEF e
  <2> QED
    BY <1>1, <2>1, MappedAppend
<1>3. h[x] \in Seq(V)
  OBVIOUS
<1>4. <<>> \o h[x] = h[x]
  BY <1>3
<1> QED
  BY <1>1, <1>2, <1>4, Zenon

(* Mapped goes through the lists of a list.                                *)
LEMMA MappedJoined ==
    ASSUME NEW A, NEW V, NEW h \in [A -> Seq(V)], NEW s \in Seq(Seq(A))
    PROVE  Mapped(Joined(s), h) = Joined([n \in 1..Len(s) |-> Mapped(s[n], h)])
<1> DEFINE N == Len(s)
           t == [n \in 1..N |-> Mapped(s[n], h)]
<1>1. PICK k : JoinedSoFar(k, s, A)
  BY JoinedSteps, Zenon
<1>2. /\ N \in Nat /\ k \in [0..N -> Seq(A)]
      /\ k[0] = <<>> /\ k[N] = Joined(s) /\ \A n \in 1..N : k[n] = k[n - 1] \o s[n]
  <2>1. N \in Nat
    OBVIOUS
  <2> QED
    BY <1>1, <2>1, Zenon DEF JoinedSoFar
<1>3. \A n \in 1..N : s[n] \in Seq(A)
  OBVIOUS
<1> DEFINE f == [n \in 0..N |-> Mapped(k[n], h)]
<1> HIDE DEF N
<1>4. t \in Seq(Seq(V)) /\ Len(t) = N
  <2>1. \A n \in 1..N : Mapped(s[n], h) \in Seq(V)
    BY <1>3, MappedSeq
  <2> DEFINE W == Seq(V)
             m(n) == Mapped(s[n], h)
  <2> HIDE DEF W, m
  <2>2. \A n \in 1..N : m(n) \in W
    BY <2>1 DEF W, m
  <2>3. [n \in 1..N |-> m(n)] \in Seq(W) /\ Len([n \in 1..N |-> m(n)]) = N
    BY <1>2, <2>2
  <2> QED
    BY <2>3 DEF W, m
<1>5. f[0] = <<>>
  <2>1. Mapped(<<>>, h) = <<>>
    BY MappedEmpty
  <2>2. 0 \in 0..N
    BY <1>2
  <2>3. f[0] = Mapped(k[0], h)
    BY <2>2
  <2> QED
    BY <1>2, <2>1, <2>3
<1>6. ASSUME NEW n \in 1..N PROVE f[n] = f[n - 1] \o t[n]
  <2>1. n \in 0..N /\ n - 1 \in 0..N
    BY <1>2
  <2>2. f[n] = Mapped(k[n], h) /\ f[n - 1] = Mapped(k[n - 1], h) /\ t[n] = Mapped(s[n], h)
    BY <2>1
  <2>3. k[n] = k[n - 1] \o s[n] /\ k[n - 1] \in Seq(A) /\ s[n] \in Seq(A)
    BY <1>2, <1>3, <2>1
  <2> HIDE DEF f, t
  <2>4. Mapped(k[n - 1] \o s[n], h) = Mapped(k[n - 1], h) \o Mapped(s[n], h)
    BY <2>3, MappedCat, ZenonT(60)
  <2> QED
    BY <2>2, <2>3, <2>4
<1>7. f[N] = Mapped(Joined(s), h)
  <2>1. N \in 0..N
    BY <1>2
  <2> QED
    BY <1>2, <2>1
<1> HIDE DEF f, t
<1>8. f[Len(t)] = Joined(t)
  BY <1>4, <1>5, <1>6, JoinedUnique
<1> QED
  BY <1>4, <1>7, <1>8 DEF t, N

(* Kept, as the lists of at most one element that it joins.                *)
LEMMA KeptJoined ==
    ASSUME NEW T, NEW q \in Seq(T), NEW S
    PROVE  LET s == [n \in 1..Len(q) |-> IF n \in S THEN <<q[n]>> ELSE <<>>]
           IN  s \in Seq(Seq(T)) /\ Len(s) = Len(q) /\ Kept(q, S) = Joined(s)
<1> DEFINE N == Len(q)
           s == [n \in 1..N |-> IF n \in S THEN <<q[n]>> ELSE <<>>]
<1>1. PICK k : KeptSoFar(k, q, S, T)
  BY KeptSteps, Zenon
<1>2. /\ N \in Nat /\ k \in [0..N -> Seq(T)]
      /\ k[0] = <<>> /\ k[N] = Kept(q, S)
      /\ \A n \in 1..N : k[n] = IF n \in S THEN Append(k[n - 1], q[n]) ELSE k[n - 1]
  BY <1>1 DEF KeptSoFar
<1>3. \A n \in 1..N : q[n] \in T
  OBVIOUS
<1>4. s \in Seq(Seq(T)) /\ Len(s) = N
  <2> DEFINE W == Seq(T)
  <2>1. \A n \in 1..N : <<q[n]>> \in W /\ <<>> \in W
    BY <1>3
  <2> HIDE DEF W, N
  <2>2. s \in Seq(W) /\ Len(s) = N
    BY <1>2, <2>1
  <2> QED
    BY <2>2 DEF W
<1>5. ASSUME NEW n \in 1..N PROVE k[n] = k[n - 1] \o s[n]
  <2>1. n - 1 \in 0..N
    BY <1>2
  <2>2. k[n - 1] \in Seq(T) /\ q[n] \in T
    BY <1>2, <1>3, <2>1
  <2>3. Append(k[n - 1], q[n]) = k[n - 1] \o <<q[n]>> /\ k[n - 1] = k[n - 1] \o <<>>
    <3> DEFINE x == k[n - 1]
               y == q[n]
    <3>1. x \in Seq(T) /\ y \in T
      BY <2>2
    <3> HIDE DEF x, y
    <3>2. Append(x, y) = x \o <<y>> /\ x = x \o <<>>
      BY <3>1
    <3> QED
      BY <3>2 DEF x, y
  <2>4. s[n] = IF n \in S THEN <<q[n]>> ELSE <<>>
    OBVIOUS
  <2> HIDE DEF s
  <2> QED
    BY <1>2, <2>3, <2>4
<1> HIDE DEF s
<1>6. k[Len(s)] = Joined(s)
  BY <1>2, <1>4, <1>5, JoinedUnique
<1> QED
  BY <1>2, <1>4, <1>6 DEF s

(* The lists that h has for the elements of q at the positions in S.       *)
MappedAt(q, S, h) == Joined([n \in 1..Len(q) |-> IF n \in S THEN h[q[n]] ELSE <<>>])

(* These are what Mapped makes of the elements that Kept keeps.            *)
LEMMA MappedKept ==
    ASSUME NEW A, NEW V, NEW h \in [A -> Seq(V)], NEW q \in Seq(A), NEW S
    PROVE  Mapped(Kept(q, S), h) = MappedAt(q, S, h)
<1> DEFINE s == [n \in 1..Len(q) |-> IF n \in S THEN <<q[n]>> ELSE <<>>]
           t == [n \in 1..Len(q) |-> IF n \in S THEN h[q[n]] ELSE <<>>]
<1>1. s \in Seq(Seq(A)) /\ Len(s) = Len(q) /\ Kept(q, S) = Joined(s)
  BY KeptJoined
<1>2. \A n \in 1..Len(q) : q[n] \in A /\ s[n] = IF n \in S THEN <<q[n]>> ELSE <<>>
  OBVIOUS
<1> HIDE DEF s
<1>3. Mapped(Joined(s), h) = Joined([n \in 1..Len(s) |-> Mapped(s[n], h)])
  BY <1>1, MappedJoined
<1>4. ASSUME NEW n \in 1..Len(q)
      PROVE  Mapped(s[n], h) = IF n \in S THEN h[q[n]] ELSE <<>>
  <2>1. Mapped(<<q[n]>>, h) = h[q[n]]
    BY <1>2, MappedOne
  <2>2. Mapped(<<>>, h) = <<>>
    BY MappedEmpty
  <2> QED
    BY <1>2, <2>1, <2>2
<1>5. [n \in 1..Len(s) |-> Mapped(s[n], h)] = t
  BY <1>1, <1>4, Zenon
<1> QED
  BY <1>1, <1>3, <1>5, Zenon DEF MappedAt

-----------------------------------------------------------------------------
(* The flows of the mini table with a mask.                                *)
FlowsFor(mask) == {f \in Flow : f.mask = mask}

(* What every table is: TypeOK and OneTablePerMask, of any table.          *)
OneEach(t) == \A n, k \in 1..Len(t) : t[n].mask = t[k].mask => n = k

Sound(t) ==
    /\ t \in Seq(MiniTable) /\ OneEach(t)
    /\ \A n \in 1..Len(t) : t[n].flows # <<>> /\ t[n].flows \in Seq(FlowsFor(t[n].mask))

(* The mini tables with new flows, before the empty ones go.               *)
WithFlows(t, fs) == [n \in 1..Len(t) |-> [mask |-> t[n].mask, flows |-> fs[n]]]

(* The flows of each mini table can be any that have its mask.             *)
LEMMA WithFlowsFacts ==
    ASSUME NEW t \in Seq(MiniTable), NEW fs,
           \A n \in 1..Len(t) : fs[n] \in Seq(FlowsFor(t[n].mask))
    PROVE  LET u == WithFlows(t, fs)
           IN  /\ u \in Seq(MiniTable) /\ Len(u) = Len(t)
               /\ \A n \in 1..Len(t) : u[n].mask = t[n].mask /\ u[n].flows = fs[n]
               /\ SetFlows(t, fs) = Kept(u, {n \in 1..Len(t) : fs[n] # <<>>})
<1> DEFINE u == WithFlows(t, fs)
           M == MiniTable
<1>1. \A n \in 1..Len(t) : t[n].mask \in SUBSET Bits /\ fs[n] \in Seq(Flow)
  <2> TAKE n \in 1..Len(t)
  <2>1. t[n] \in MiniTable
    OBVIOUS
  <2>2. FlowsFor(t[n].mask) \subseteq Flow
    BY DEF FlowsFor
  <2>3. fs[n] \in Seq(Flow)
    BY <2>2
  <2> QED
    BY <2>1, <2>3 DEF MiniTable
<1>2. \A n \in 1..Len(t) : [mask |-> t[n].mask, flows |-> fs[n]] \in M
  BY <1>1 DEF MiniTable
<1>3. Len(t) \in Nat /\ DOMAIN t = 1..Len(t)
  OBVIOUS
<1>4. u \in Seq(M) /\ Len(u) = Len(t)
  <2> HIDE DEF M
  <2> QED
    BY <1>2, <1>3 DEF WithFlows
<1>5. \A n \in 1..Len(t) : u[n] = [mask |-> t[n].mask, flows |-> fs[n]]
  BY DEF WithFlows
<1>6. \A n \in 1..Len(t) : u[n].mask = t[n].mask /\ u[n].flows = fs[n]
  <2> TAKE n \in 1..Len(t)
  <2> DEFINE a == t[n].mask
             b == fs[n]
             m == u[n]
  <2>1. m = [mask |-> a, flows |-> b]
    BY <1>5
  <2> HIDE DEF a, b, m
  <2>2. m.mask = a /\ m.flows = b
    BY <2>1
  <2> QED
    BY <2>2 DEF a, b, m
<1>7. SetFlows(t, fs) = Kept(u, {n \in 1..Len(t) : fs[n] # <<>>})
  <2>1. SetFlows(t, fs) = Kept(u, {n \in DOMAIN u : u[n].flows # <<>>})
    BY <1>3, Zenon DEF SetFlows, DropEmpty, WithFlows
  <2>2. DOMAIN u = 1..Len(t)
    BY DEF WithFlows
  <2> HIDE DEF u
  <2>3. {n \in DOMAIN u : u[n].flows # <<>>} = {n \in 1..Len(t) : fs[n] # <<>>}
    BY <1>6, <2>2
  <2> QED
    BY <2>1, <2>3
<1> QED
  BY <1>4, <1>6, <1>7

(* SetFlows leaves one mini table for each mask, and none that is empty.   *)
LEMMA SetFlowsSound ==
    ASSUME NEW t \in Seq(MiniTable), OneEach(t), NEW fs,
           \A n \in 1..Len(t) : fs[n] \in Seq(FlowsFor(t[n].mask))
    PROVE  Sound(SetFlows(t, fs))
<1> DEFINE u == WithFlows(t, fs)
           S == {n \in 1..Len(t) : fs[n] # <<>>}
           r == Kept(u, S)
<1>1. /\ u \in Seq(MiniTable) /\ Len(u) = Len(t) /\ SetFlows(t, fs) = r
      /\ \A n \in 1..Len(t) : u[n].mask = t[n].mask /\ u[n].flows = fs[n]
  BY WithFlowsFacts
<1> HIDE DEF u, S
<1>2. r \in Seq(MiniTable) /\ \E at : IsKept(r, u, S, at)
  BY <1>1, KeptFacts
<1>3. PICK at : IsKept(r, u, S, at)
  BY <1>2
<1> HIDE DEF r
<1>4. /\ at \in [1..Len(r) -> S \intersect 1..Len(t)]
      /\ \A i, j \in 1..Len(r) : i < j => at[i] < at[j]
      /\ \A i \in 1..Len(r) : r[i] = u[at[i]]
  BY <1>1, <1>3 DEF IsKept
<1>5. \A i \in 1..Len(r) : /\ at[i] \in 1..Len(t) /\ fs[at[i]] # <<>>
                           /\ r[i].mask = t[at[i]].mask /\ r[i].flows = fs[at[i]]
  BY <1>1, <1>4 DEF S
<1>6. OneEach(r)
  <2> SUFFICES ASSUME NEW i \in 1..Len(r), NEW j \in 1..Len(r), r[i].mask = r[j].mask
               PROVE  i = j
    BY DEF OneEach
  <2>0. /\ at[i] \in 1..Len(t) /\ at[j] \in 1..Len(t)
        /\ t[at[i]].mask = t[at[j]].mask
    BY <1>5
  <2>1. at[i] = at[j]
    BY <2>0, Zenon DEF OneEach
  <2>2. at[i] \in Nat /\ at[j] \in Nat /\ i \in Nat /\ j \in Nat
    BY <1>2, <1>5
  <2>3. ~(i < j) /\ ~(j < i)
    BY <1>4, <2>1, <2>2
  <2> QED
    BY <2>2, <2>3
<1> QED
  BY <1>1, <1>2, <1>5, <1>6 DEF Sound

(* The flows that SetFlows leaves are the lists it is given, in order.     *)
LEMMA SetFlowsFlows ==
    ASSUME NEW t \in Seq(MiniTable), NEW fs,
           \A n \in 1..Len(t) : fs[n] \in Seq(FlowsFor(t[n].mask))
    PROVE  Flows(SetFlows(t, fs)) = Joined([n \in 1..Len(t) |-> fs[n]])
<1> DEFINE u == WithFlows(t, fs)
           S == {n \in 1..Len(t) : fs[n] # <<>>}
           r == Kept(u, S)
           h == [m \in MiniTable |-> m.flows]
<1>1. /\ u \in Seq(MiniTable) /\ Len(u) = Len(t) /\ SetFlows(t, fs) = r
      /\ \A n \in 1..Len(t) : u[n].mask = t[n].mask /\ u[n].flows = fs[n]
  BY WithFlowsFacts
<1> HIDE DEF u
<1>2. r \in Seq(MiniTable)
  BY <1>1, KeptFacts
<1>3. h \in [MiniTable -> Seq(Flow)]
  BY DEF MiniTable
<1>4. Flows(r) = Mapped(r, h)
  <2> HIDE DEF r
  <2>1. DOMAIN r = 1..Len(r) /\ \A n \in 1..Len(r) : h[r[n]] = r[n].flows
    BY <1>2
  <2> HIDE DEF h
  <2>2. [n \in DOMAIN r |-> r[n].flows] = [n \in 1..Len(r) |-> h[r[n]]]
    BY <2>1
  <2> QED
    BY <2>2 DEF Flows, Mapped
<1>5. Mapped(r, h) = Joined([n \in 1..Len(u) |-> IF n \in S THEN h[u[n]] ELSE <<>>])
  <2> HIDE DEF h, S
  <2>1. Mapped(r, h) = MappedAt(u, S, h)
    BY <1>1, <1>3, MappedKept
  <2> QED
    BY <2>1 DEF MappedAt
<1>6. ASSUME NEW n \in 1..Len(t) PROVE (IF n \in S THEN h[u[n]] ELSE <<>>) = fs[n]
  <2>1. u[n] \in MiniTable /\ u[n].flows = fs[n]
    BY <1>1
  <2>2. h[u[n]] = fs[n]
    BY <2>1
  <2> QED
    BY <2>2
<1>7. [n \in 1..Len(u) |-> IF n \in S THEN h[u[n]] ELSE <<>>] = [n \in 1..Len(t) |-> fs[n]]
  <2> HIDE DEF h, S
  <2> QED
    BY <1>1, <1>6
<1> QED
  BY <1>1, <1>4, <1>5, <1>7, Zenon

-----------------------------------------------------------------------------
(* Find returns the last position with the key.                            *)
LEMMA FindFacts ==
    ASSUME NEW flows \in Seq(Flow), NEW key
    PROVE  LET k == Find(flows, key)
           IN  \/ k = 0 /\ \A n \in 1..Len(flows) : flows[n].key # key
               \/ /\ k \in 1..Len(flows) /\ k # 0 /\ flows[k].key = key
                  /\ \A n \in 1..Len(flows) : k < n => flows[n].key # key
<1> DEFINE N == Len(flows)
           same == {n \in 1..N : flows[n].key = key}
           top == {n \in 1..N : \A k \in same : k <= n}
<1>1. N \in Nat /\ DOMAIN flows = 1..N
  OBVIOUS
<1>2. CASE same = {}
  <2>1. Find(flows, key) = 0
    BY <1>1, <1>2 DEF Find
  <2> QED
    BY <1>2, <2>1
<1>3. CASE same # {}
  <2> HIDE DEF N
  <2>1. N \in top /\ top \subseteq Nat
    BY <1>1, <1>3
  <2>2. PICK x \in top : \A y \in top : x <= y
    BY <2>1, FirstPosition
  <2>3. x \in same
    <3> SUFFICES ASSUME x \notin same PROVE FALSE
      OBVIOUS
    <3>1. \A k \in same : k \in 1..N /\ k <= x /\ k # x
      BY <2>2
    <3>2. x \in 1..N /\ x - 1 \in 1..N
      BY <1>1, <1>3, <3>1
    <3>3. x - 1 \in top
      BY <1>1, <3>1, <3>2
    <3> QED
      BY <2>2, <3>2, <3>3
  <2> DEFINE k == CHOOSE n \in same : \A j \in same : j <= n
  <2>4. k \in same /\ \A j \in same : j <= k
    BY <2>2, <2>3
  <2>5. Find(flows, key) = k
    BY <1>1, <1>3 DEF Find
  <2> HIDE DEF k
  <2>6. \A n \in 1..N : k < n => flows[n].key # key
    BY <1>1, <2>4
  <2> QED
    BY <1>1, <2>4, <2>5, <2>6 DEF N
<1> QED
  BY <1>2, <1>3

(* Winner is the first of the live hits with the highest priority.         *)
LEMMA WinnerFacts ==
    ASSUME NEW t, NEW N \in Nat, DOMAIN t = 1..N, NEW key, NEW time,
           \A n \in 1..N : IsLiveHit(t[n], key, time)
                              => t[n].flows[Hit(t[n], key)].priority \in Nat
    PROVE  LET w == Winner(t, key, time)
           IN  \/ w = 0 /\ \A n \in 1..N : ~IsLiveHit(t[n], key, time)
               \/ /\ w \in 1..N /\ IsLiveHit(t[w], key, time)
                  /\ \A n \in 1..N : IsLiveHit(t[n], key, time) =>
                        t[n].flows[Hit(t[n], key)].priority <= t[w].flows[Hit(t[w], key)].priority
<1> DEFINE hits == {n \in 1..N : IsLiveHit(t[n], key, time)}
           pr(n) == t[n].flows[Hit(t[n], key)].priority
           Best(n, m) == /\ n \in hits /\ n <= m
                         /\ \A k \in hits : k <= m => \/ pr(k) < pr(n)
                                                      \/ (pr(k) = pr(n) /\ n <= k)
           H == {m \in 0..N : (\E n \in hits : n <= m) => \E n : Best(n, m)}
<1>1. \A n \in hits : pr(n) \in Nat /\ n \in 1..N
  OBVIOUS
<1>2. CASE hits = {}
  BY <1>2 DEF Winner
<1>3. CASE hits # {}
  <2> HIDE DEF hits, pr
  <2>1. 0 \in H
    BY <1>1, SMTT(30)
  <2>2. ASSUME NEW m \in 0..(N - 1), m \in H PROVE m + 1 \in H
    <3>1. m \in Nat /\ m + 1 \in 0..N /\ \A k \in hits : k <= m + 1 => k <= m \/ k = m + 1
      BY <1>1
    <3>2. CASE m + 1 \notin hits
      <4>1. \A k \in hits : k <= m + 1 => k <= m
        BY <3>1, <3>2
      <4>2. ASSUME NEW n, Best(n, m) PROVE Best(n, m + 1)
        BY <1>1, <3>1, <4>1, <4>2
      <4> QED
        BY <2>2, <3>1, <4>1, <4>2
    <3>3. CASE m + 1 \in hits /\ ~\E n \in hits : n <= m
      <4>1. Best(m + 1, m + 1)
        BY <1>1, <3>1, <3>3
      <4> QED
        BY <3>1, <4>1
    <3>4. CASE m + 1 \in hits /\ \E n \in hits : n <= m
      <4>1. PICK n : Best(n, m)
        BY <2>2, <3>4
      <4>2. CASE pr(n) < pr(m + 1)
        <5>1. Best(m + 1, m + 1)
          BY <1>1, <3>1, <3>4, <4>1, <4>2
        <5> QED
          BY <3>1, <5>1
      <4>3. CASE ~(pr(n) < pr(m + 1))
        <5>1. Best(n, m + 1)
          BY <1>1, <3>1, <3>4, <4>1, <4>3
        <5> QED
          BY <3>1, <5>1
      <4> QED
        BY <4>2, <4>3
    <3> QED
      BY <3>2, <3>3, <3>4
  <2>3. 0..N \subseteq H
    <3> HIDE DEF H
    <3> QED
      BY <2>1, <2>2, UpTo
  <2>4. PICK b : Best(b, N)
    <3>1. N \in 0..N /\ \E n \in hits : n <= N
      BY <1>1, <1>3
    <3> QED
      BY <2>3, <3>1
  <2> DEFINE Top(n) == \A k \in hits : pr(k) < pr(n) \/ (pr(k) = pr(n) /\ n <= k)
             w == CHOOSE n \in hits : Top(n)
  <2>5. b \in hits /\ Top(b)
    BY <1>1, <2>4
  <2>6. w \in hits /\ Top(w)
    <3> HIDE DEF Top
    <3> QED
      BY <2>5
  <2>7. Winner(t, key, time) = w
    BY <1>3 DEF Winner, hits, pr
  <2> HIDE DEF w
  <2>8. \A k \in hits : pr(k) <= pr(w)
    BY <1>1, <2>6
  <2> QED
    BY <1>1, <2>6, <2>7, <2>8 DEF hits, pr
<1> QED
  BY <1>2, <1>3

-----------------------------------------------------------------------------
(* Lists with the same results, element by element, have the same result.  *)
LEMMA MappedSame ==
    ASSUME NEW q, NEW r, NEW h, Len(r) = Len(q),
           \A n \in 1..Len(q) : h[r[n]] = h[q[n]]
    PROVE  Mapped(r, h) = Mapped(q, h)
<1>1. [n \in 1..Len(r) |-> h[r[n]]] = [n \in 1..Len(q) |-> h[q[n]]]
  OBVIOUS
<1> QED
  BY <1>1, Zenon DEF Mapped

(* What is not kept does not matter when nothing comes of it.              *)
LEMMA MappedWithout ==
    ASSUME NEW A, NEW V, NEW h \in [A -> Seq(V)], NEW q \in Seq(A), NEW S,
           \A n \in 1..Len(q) : n \notin S => h[q[n]] = <<>>
    PROVE  Mapped(Kept(q, S), h) = Mapped(q, h)
<1>1. Mapped(Kept(q, S), h) = MappedAt(q, S, h)
  BY MappedKept
<1>2. \A n \in 1..Len(q) : (IF n \in S THEN h[q[n]] ELSE <<>>) = h[q[n]]
  OBVIOUS
<1>3. [n \in 1..Len(q) |-> IF n \in S THEN h[q[n]] ELSE <<>>]
        = [n \in 1..Len(q) |-> h[q[n]]]
  BY <1>2
<1> QED
  BY <1>1, <1>3, Zenon DEF Mapped, MappedAt

(* One new element for each old one.                                       *)
Changed(q, c) == [k \in 1..Len(q) |-> c[q[k]]]

OneFor(A, c) == [x \in A |-> <<c[x]>>]

(* Changing every element of a list is Mapped with one-element lists.      *)
LEMMA MappedEach ==
    ASSUME NEW A, NEW V, NEW c \in [A -> V], NEW q \in Seq(A)
    PROVE  Changed(q, c) = Mapped(q, OneFor(A, c))
<1> DEFINE N == Len(q)
           e(k) == c[q[k]]
           h == [x \in A |-> <<c[x]>>]
           s == [k \in 1..N |-> h[q[k]]]
           f == [n \in 0..N |-> [k \in 1..n |-> e(k)]]
<1>1. N \in Nat /\ \A k \in 1..N : e(k) \in V /\ q[k] \in A
  OBVIOUS
<1>2. h \in [A -> Seq(V)]
  OBVIOUS
<1>3. s \in Seq(Seq(V)) /\ Len(s) = N
  <2>1. s \in Seq(Seq(V))
    <3> HIDE DEF h
    <3> QED
      BY <1>2, MappedSeq
  <2> QED
    BY <1>1, <2>1
<1>4. \A n \in 1..N : s[n] = <<e(n)>>
  BY <1>1
<1> HIDE DEF s, N, e
<1>5. f[0] = <<>> /\ f[N] = [k \in 1..N |-> e(k)]
  BY <1>1
<1>6. ASSUME NEW n \in 1..N PROVE f[n] = f[n - 1] \o s[n]
  <2> DEFINE a == [k \in 1..n |-> e(k)]
             b == [k \in 1..(n - 1) |-> e(k)]
  <2>1. n \in 0..N /\ n - 1 \in 0..N /\ n \in Nat /\ n - 1 \in Nat
    BY <1>1
  <2>2. f[n] = a /\ f[n - 1] = b
    BY <2>1
  <2>3. /\ a \in Seq(V) /\ Len(a) = n /\ b \in Seq(V) /\ Len(b) = n - 1
        /\ (\A k \in 1..n : a[k] = e(k)) /\ \A k \in 1..(n - 1) : b[k] = e(k)
    BY <1>1, <2>1
  <2>4. e(n) \in V
    BY <1>1
  <2> HIDE DEF a, b, f
  <2>5. a = b \o <<e(n)>>
    BY <2>1, <2>3, <2>4
  <2> QED
    BY <1>4, <2>2, <2>5
<1> HIDE DEF f
<1>7. f[Len(s)] = Joined(s)
  BY <1>1, <1>3, <1>5, <1>6, JoinedUnique
<1> QED
  BY <1>3, <1>5, <1>7, Zenon DEF Mapped, Changed, OneFor, s, h, e, N

-----------------------------------------------------------------------------
(* The flows of a table, as the lists of its mini tables.                  *)
LEMMA FlowsFacts ==
    ASSUME NEW t \in Seq(MiniTable)
    PROVE  LET s == [n \in 1..Len(t) |-> t[n].flows]
           IN  /\ s \in Seq(Seq(Flow)) /\ Len(s) = Len(t)
               /\ Flows(t) = Joined(s) /\ Flows(t) \in Seq(Flow)
<1> DEFINE s == [n \in 1..Len(t) |-> t[n].flows]
           W == Seq(Flow)
<1>1. Len(t) \in Nat /\ DOMAIN t = 1..Len(t) /\ \A n \in 1..Len(t) : t[n].flows \in W
  <2>1. Len(t) \in Nat /\ DOMAIN t = 1..Len(t) /\ \A n \in 1..Len(t) : t[n] \in MiniTable
    OBVIOUS
  <2>2. \A m \in MiniTable : m.flows \in W
    BY Zenon DEF MiniTable
  <2> QED
    BY <2>1, <2>2
<1>2. s \in Seq(W) /\ Len(s) = Len(t)
  <2> HIDE DEF W
  <2> QED
    BY <1>1
<1>3. Flows(t) = Joined(s)
  BY <1>1, Zenon DEF Flows
<1> HIDE DEF s
<1>4. Joined(s) \in Seq(Flow)
  BY <1>2, JoinedFacts
<1> QED
  BY <1>2, <1>3, <1>4 DEF s

(* Mapped of all flows of a table goes through its mini tables.            *)
LEMMA FlowsMapped ==
    ASSUME NEW t \in Seq(MiniTable), NEW V, NEW h \in [Flow -> Seq(V)]
    PROVE  Mapped(Flows(t), h) = Joined([n \in 1..Len(t) |-> Mapped(t[n].flows, h)])
<1> DEFINE s == [n \in 1..Len(t) |-> t[n].flows]
<1>1. s \in Seq(Seq(Flow)) /\ Len(s) = Len(t) /\ Flows(t) = Joined(s)
  BY FlowsFacts
<1>2. \A n \in 1..Len(t) : s[n] = t[n].flows
  OBVIOUS
<1> HIDE DEF s
<1>3. Mapped(Joined(s), h) = Joined([n \in 1..Len(s) |-> Mapped(s[n], h)])
  BY <1>1, MappedJoined
<1>4. [n \in 1..Len(s) |-> Mapped(s[n], h)] = [n \in 1..Len(t) |-> Mapped(t[n].flows, h)]
  BY <1>1, <1>2
<1> QED
  BY <1>1, <1>3, <1>4, Zenon

(* The lists of flows that go in the mini tables of t.                     *)
Fits(t, fs) == \A n \in 1..Len(t) : fs[n] \in Seq(FlowsFor(t[n].mask))

(* If nothing changes in the results of any mini table, nothing changes in *)
(* the results of the table.                                               *)
LEMMA SetFlowsSame ==
    ASSUME NEW t \in Seq(MiniTable), OneEach(t), NEW fs, Fits(t, fs), NEW V,
           NEW h \in [Flow -> Seq(V)],
           \A n \in 1..Len(t) : Mapped(fs[n], h) = Mapped(t[n].flows, h)
    PROVE  Mapped(Flows(SetFlows(t, fs)), h) = Mapped(Flows(t), h)
<1> DEFINE s == [n \in 1..Len(t) |-> fs[n]]
<1>1. Flows(SetFlows(t, fs)) = Joined(s)
  BY SetFlowsFlows DEF Fits
<1>2. s \in Seq(Seq(Flow)) /\ Len(s) = Len(t) /\ \A n \in 1..Len(t) : s[n] = fs[n]
  <2> DEFINE W == Seq(Flow)
  <2>1. ASSUME NEW n \in 1..Len(t) PROVE fs[n] \in W
    <3>1. FlowsFor(t[n].mask) \subseteq Flow
      BY DEF FlowsFor
    <3> QED
      BY <3>1 DEF Fits
  <2> HIDE DEF W
  <2>2. s \in Seq(W) /\ Len(s) = Len(t) /\ \A n \in 1..Len(t) : s[n] = fs[n]
    BY <2>1
  <2> QED
    BY <2>2 DEF W
<1> HIDE DEF s
<1>3. Mapped(Joined(s), h) = Joined([n \in 1..Len(s) |-> Mapped(s[n], h)])
  BY <1>2, MappedJoined
<1>4. [n \in 1..Len(s) |-> Mapped(s[n], h)] = [n \in 1..Len(t) |-> Mapped(t[n].flows, h)]
  BY <1>2
<1>5. Mapped(Flows(t), h) = Joined([n \in 1..Len(t) |-> Mapped(t[n].flows, h)])
  BY FlowsMapped
<1> QED
  BY <1>1, <1>3, <1>4, <1>5, Zenon

(* If every mini table becomes the result of its flows, the flows of the   *)
(* table become the result of its flows.                                   *)
LEMMA SetFlowsMapped ==
    ASSUME NEW t \in Seq(MiniTable), NEW fs, Fits(t, fs), NEW h \in [Flow -> Seq(Flow)],
           \A n \in 1..Len(t) : fs[n] = Mapped(t[n].flows, h)
    PROVE  Flows(SetFlows(t, fs)) = Mapped(Flows(t), h)
<1>1. Flows(SetFlows(t, fs)) = Joined([n \in 1..Len(t) |-> fs[n]])
  BY SetFlowsFlows DEF Fits
<1>2. Mapped(Flows(t), h) = Joined([n \in 1..Len(t) |-> Mapped(t[n].flows, h)])
  BY FlowsMapped
<1>3. [n \in 1..Len(t) |-> fs[n]] = [n \in 1..Len(t) |-> Mapped(t[n].flows, h)]
  OBVIOUS
<1> QED
  BY <1>1, <1>2, <1>3, Zenon

-----------------------------------------------------------------------------
(* Changes of one flow that leave its match alone.                         *)
LEMMA ChangedFlow ==
    ASSUME NEW mask, NEW f \in FlowsFor(mask)
    PROVE  /\ \A time \in Nat : [f EXCEPT !.last_used = time] \in FlowsFor(mask)
           /\ \A a \in Instructions : [f EXCEPT !.insts = a] \in FlowsFor(mask)
<1>1. f \in Flow /\ f.mask = mask
  BY DEF FlowsFor
<1>2. ASSUME NEW time \in Nat PROVE [f EXCEPT !.last_used = time] \in FlowsFor(mask)
  <2>1. [f EXCEPT !.last_used = time] \in Flow
    BY <1>1 DEF Flow
  <2>2. [f EXCEPT !.last_used = time].mask = mask
    BY <1>1 DEF Flow
  <2> QED
    BY <2>1, <2>2 DEF FlowsFor
<1>3. ASSUME NEW a \in Instructions PROVE [f EXCEPT !.insts = a] \in FlowsFor(mask)
  <2>1. [f EXCEPT !.insts = a] \in Flow
    BY <1>1 DEF Flow
  <2>2. [f EXCEPT !.insts = a].mask = mask
    BY <1>1 DEF Flow
  <2> QED
    BY <2>1, <2>2 DEF FlowsFor
<1> QED
  BY <1>2, <1>3

(* The flows of a sound table.                                             *)
LEMMA SoundFlows ==
    ASSUME NEW t, Sound(t)
    PROVE  /\ t \in Seq(MiniTable) /\ Len(t) \in Nat /\ DOMAIN t = 1..Len(t)
           /\ OneEach(t)
           /\ \A n \in 1..Len(t) :
                 /\ t[n] \in MiniTable /\ t[n].flows \in Seq(FlowsFor(t[n].mask))
                 /\ t[n].flows \in Seq(Flow) /\ t[n].flows # <<>>
                 /\ Len(t[n].flows) \in Nat /\ DOMAIN t[n].flows = 1..Len(t[n].flows)
                 /\ \A k \in 1..Len(t[n].flows) :
                       /\ t[n].flows[k] \in FlowsFor(t[n].mask) /\ t[n].flows[k] \in Flow
                       /\ t[n].flows[k].mask = t[n].mask
<1>1. t \in Seq(MiniTable) /\ OneEach(t)
  BY Zenon DEF Sound
<1>2. Len(t) \in Nat /\ DOMAIN t = 1..Len(t) /\ \A n \in 1..Len(t) : t[n] \in MiniTable
  BY <1>1
<1>3. ASSUME NEW n \in 1..Len(t)
      PROVE  /\ t[n].flows \in Seq(FlowsFor(t[n].mask))
             /\ t[n].flows \in Seq(Flow) /\ t[n].flows # <<>>
             /\ Len(t[n].flows) \in Nat /\ DOMAIN t[n].flows = 1..Len(t[n].flows)
             /\ \A k \in 1..Len(t[n].flows) :
                       /\ t[n].flows[k] \in FlowsFor(t[n].mask) /\ t[n].flows[k] \in Flow
                       /\ t[n].flows[k].mask = t[n].mask
  <2> DEFINE q == t[n].flows
             mask == t[n].mask
  <2>1. q \in Seq(FlowsFor(mask)) /\ q # <<>>
    BY Zenon DEF Sound
  <2>2. FlowsFor(mask) \subseteq Flow /\ \A f \in FlowsFor(mask) : f.mask = mask
    BY DEF FlowsFor
  <2> HIDE DEF q, mask
  <2>3. q \in Seq(Flow) /\ Len(q) \in Nat /\ DOMAIN q = 1..Len(q)
    BY <2>1, <2>2
  <2>4. \A k \in 1..Len(q) : q[k] \in FlowsFor(mask)
    BY <2>1
  <2> QED
    BY <2>1, <2>2, <2>3, <2>4 DEF q, mask
<1> QED
  BY <1>1, <1>2, <1>3

(* One flow of a list is replaced.                                         *)
LEMMA ReplacedFlow ==
    ASSUME NEW A, NEW q \in Seq(A), NEW k \in 1..Len(q), NEW g \in A
    PROVE  /\ [q EXCEPT ![k] = g] \in Seq(A)
           /\ Len([q EXCEPT ![k] = g]) = Len(q)
           /\ \A n \in 1..Len(q) : [q EXCEPT ![k] = g][n] = IF n = k THEN g ELSE q[n]
OBVIOUS

-----------------------------------------------------------------------------
(* What the operations make of the flows of the mini table n.              *)
LookupLeft(t, key, time, n) ==
    IF n = Winner(t, key, time) THEN [t[n].flows EXCEPT ![Hit(t[n], key)].last_used = time]
    ELSE IF Hit(t[n], key) # 0 /\ Expired(t[n].flows[Hit(t[n], key)], time)
         THEN DelFlow(t[n].flows, Hit(t[n], key))
    ELSE t[n].flows

LookupFlows(t, key, time) == [n \in DOMAIN t |-> LookupLeft(t, key, time, n)]

(* The name under which LiveNames keeps a flow that has not expired.       *)
Name == [key : SUBSET Bits, mask : SUBSET Bits, priority : Priorities, remove_at : Nat]

NameOf(f) == [key |-> f.key, mask |-> f.mask, priority |-> f.priority,
              remove_at |-> f.remove_at]

Live(time) == [f \in Flow |-> IF Expired(f, time) THEN <<>> ELSE <<NameOf(f)>>]

(* LiveNames goes through the list flow by flow.                           *)
LEMMA LiveNamesMapped ==
    ASSUME NEW time
    PROVE  /\ Live(time) \in [Flow -> Seq(Name)]
           /\ \A f \in Flow : Live(time)[f] = IF Expired(f, time) THEN <<>> ELSE <<NameOf(f)>>
           /\ \A q \in Seq(Flow) : LiveNames(q, time) = Mapped(q, Live(time))
<1>1. \A f \in Flow : NameOf(f) \in Name
  BY DEF NameOf, Name, Flow
<1>2. \A f \in Flow : (IF Expired(f, time) THEN <<>> ELSE <<NameOf(f)>>) \in Seq(Name)
  BY <1>1
<1>3. Live(time) \in [Flow -> Seq(Name)]
  BY <1>2, Zenon DEF Live
<1>4. \A f \in Flow : Live(time)[f] = IF Expired(f, time) THEN <<>> ELSE <<NameOf(f)>>
  BY Zenon DEF Live
<1>5. ASSUME NEW q \in Seq(Flow) PROVE LiveNames(q, time) = Mapped(q, Live(time))
  <2>1. DOMAIN q = 1..Len(q) /\ \A k \in 1..Len(q) : q[k] \in Flow
    OBVIOUS
  <2>2. \A k \in 1..Len(q) :
            Live(time)[q[k]] = IF Expired(q[k], time) THEN <<>> ELSE <<NameOf(q[k])>>
    BY <1>4, <2>1
  <2>3. [k \in DOMAIN q |-> IF Expired(q[k], time) THEN <<>> ELSE <<NameOf(q[k])>>]
          = [k \in 1..Len(q) |-> Live(time)[q[k]]]
    BY <2>1, <2>2
  <2> QED
    BY <2>3, Zenon DEF LiveNames, Mapped, NameOf
<1> QED
  BY <1>3, <1>4, <1>5

(* fs has the live flows of each mini table of t, in order.                *)
KeepsLive(t, fs, time) ==
    \A n \in 1..Len(t) : Mapped(fs[n], Live(time)) = Mapped(t[n].flows, Live(time))

(* An operation that keeps the live flows of each mini table keeps those   *)
(* of the table.                                                           *)
LEMMA KeptLive ==
    ASSUME NEW t, Sound(t), NEW fs, Fits(t, fs), NEW time, KeepsLive(t, fs, time)
    PROVE  LiveNames(Flows(SetFlows(t, fs)), time) = LiveNames(Flows(t), time)
<1>1. t \in Seq(MiniTable) /\ OneEach(t)
  BY Zenon DEF Sound
<1>2. Live(time) \in [Flow -> Seq(Name)]
  BY LiveNamesMapped
<1>3. Mapped(Flows(SetFlows(t, fs)), Live(time)) = Mapped(Flows(t), Live(time))
  BY <1>1, <1>2, SetFlowsSame DEF KeepsLive
<1>4. Sound(SetFlows(t, fs))
  BY <1>1, SetFlowsSound DEF Fits
<1>5. Flows(t) \in Seq(Flow) /\ Flows(SetFlows(t, fs)) \in Seq(Flow)
  <2>1. SetFlows(t, fs) \in Seq(MiniTable)
    BY <1>4, Zenon DEF Sound
  <2> QED
    BY <1>1, <2>1, FlowsFacts
<1> QED
  BY <1>3, <1>5, LiveNamesMapped

-----------------------------------------------------------------------------
(* The hit of a mini table, when it has one, is one of its flows.          *)
LEMMA HitFacts ==
    ASSUME NEW t, Sound(t), NEW key, NEW n \in 1..Len(t), Hit(t[n], key) # 0
    PROVE  /\ Hit(t[n], key) \in 1..Len(t[n].flows)
           /\ t[n].flows[Hit(t[n], key)].key = apply_all_mask(key, t[n].mask)
<1>1. t[n].flows \in Seq(Flow)
  BY SoundFlows
<1> QED
  BY <1>1, FindFacts DEF Hit

(* The winner, when there is one, is a live hit.                           *)
LEMMA WinnerLive ==
    ASSUME NEW t, Sound(t), NEW key, NEW time
    PROVE  LET w == Winner(t, key, time)
           IN  \/ w = 0 /\ \A n \in 1..Len(t) : ~IsLiveHit(t[n], key, time)
               \/ /\ w \in 1..Len(t) /\ w # 0 /\ IsLiveHit(t[w], key, time)
                  /\ \A n \in 1..Len(t) : IsLiveHit(t[n], key, time) =>
                        t[n].flows[Hit(t[n], key)].priority <= t[w].flows[Hit(t[w], key)].priority
<1>1. Len(t) \in Nat /\ DOMAIN t = 1..Len(t)
  BY SoundFlows
<1>2. ASSUME NEW n \in 1..Len(t), IsLiveHit(t[n], key, time)
      PROVE  t[n].flows[Hit(t[n], key)].priority \in Nat
  <2>1. Hit(t[n], key) \in 1..Len(t[n].flows)
    BY <1>2, HitFacts DEF IsLiveHit
  <2>2. t[n].flows[Hit(t[n], key)] \in Flow
    BY <2>1, SoundFlows
  <2>3. \A f \in Flow : f.priority \in Nat
    BY ConstantsAssumption DEF Flow
  <2> QED
    BY <2>2, <2>3
<1>3. \A n \in 1..Len(t) : n # 0
  BY <1>1
<1> HIDE DEF Sound
<1> QED
  BY <1>1, <1>2, <1>3, WinnerFacts

-----------------------------------------------------------------------------
(* A deleted flow leaves no trace when it has expired.                     *)
LEMMA DeletedFlow ==
    ASSUME NEW mask, NEW q \in Seq(FlowsFor(mask)), NEW k
    PROVE  /\ DelFlow(q, k) \in Seq(FlowsFor(mask))
           /\ \A time : (k \in 1..Len(q) /\ Expired(q[k], time))
                 => Mapped(DelFlow(q, k), Live(time)) = Mapped(q, Live(time))
<1> DEFINE A == FlowsFor(mask)
           S == DOMAIN q \ {k}
<1>1. DelFlow(q, k) = Kept(q, S)
  BY Zenon DEF DelFlow
<1>2. Kept(q, S) \in Seq(A)
  <2> HIDE DEF S, A
  <2>1. q \in Seq(A)
    BY DEF A
  <2> QED
    BY <2>1, KeptFacts
<1>3. ASSUME NEW time, k \in 1..Len(q), Expired(q[k], time)
      PROVE  Mapped(Kept(q, S), Live(time)) = Mapped(q, Live(time))
  <2>1. q \in Seq(Flow) /\ DOMAIN q = 1..Len(q)
    <3>1. A \subseteq Flow
      BY DEF FlowsFor
    <3> HIDE DEF A
    <3>2. q \in Seq(A)
      BY DEF A
    <3> QED
      BY <3>1, <3>2
  <2>2. q[k] \in Flow
    BY <1>3, <2>1
  <2>3. Live(time)[q[k]] = <<>>
    BY <1>3, <2>2, LiveNamesMapped
  <2>4. \A n \in 1..Len(q) : n \notin S => Live(time)[q[n]] = <<>>
    BY <2>1, <2>3
  <2>5. Live(time) \in [Flow -> Seq(Name)]
    BY LiveNamesMapped
  <2> HIDE DEF S
  <2> QED
    BY <2>1, <2>4, <2>5, MappedWithout
<1> QED
  BY <1>1, <1>2, <1>3

(* A lookup that marks the live flow at k as used keeps the flows of the   *)
(* mini table and their names.                                             *)
LEMMA UsedFlow ==
    ASSUME NEW mask, NEW q \in Seq(FlowsFor(mask)), NEW k \in 1..Len(q),
           NEW time \in Nat, ~Expired(q[k], time)
    PROVE  LET r == [q EXCEPT ![k].last_used = time]
           IN  r \in Seq(FlowsFor(mask)) /\ Mapped(r, Live(time)) = Mapped(q, Live(time))
<1> DEFINE g == [q[k] EXCEPT !.last_used = time]
           r == [q EXCEPT ![k] = g]
           A == FlowsFor(mask)
<1>1. q[k] \in A /\ q[k] \in Flow
  BY DEF FlowsFor
<1>2. g \in A /\ g \in Flow
  <2>1. g \in A
    BY <1>1, ChangedFlow
  <2> QED
    BY <2>1 DEF FlowsFor
<1>3. NameOf(g) = NameOf(q[k])
  BY <1>1 DEF NameOf, Flow
<1>4. ~Expired(g, time)
  <2>1. /\ g.hard_timeout = q[k].hard_timeout /\ g.remove_at = q[k].remove_at
        /\ g.last_used = time /\ g.idle_timeout \in Nat
    BY <1>1, ConstantsAssumption DEF Flow
  <2> HIDE DEF g
  <2> QED
    BY <2>1 DEF Expired
<1>5. Live(time)[g] = Live(time)[q[k]]
  BY <1>1, <1>2, <1>3, <1>4, LiveNamesMapped
<1> HIDE DEF g, A
<1>6. /\ r \in Seq(A) /\ Len(r) = Len(q)
      /\ \A n \in 1..Len(q) : r[n] = IF n = k THEN g ELSE q[n]
  <2>1. q \in Seq(A)
    BY DEF A
  <2> QED
    BY <1>2, <2>1, ReplacedFlow
<1>7. Mapped(r, Live(time)) = Mapped(q, Live(time))
  <2> HIDE DEF r
  <2>1. \A n \in 1..Len(q) : Live(time)[r[n]] = Live(time)[q[n]]
    BY <1>5, <1>6
  <2> QED
    BY <1>6, <2>1, MappedSame
<1> QED
  BY <1>6, <1>7 DEF g, A

SetInsts(q, k, a) == [q EXCEPT ![k].insts = a]

(* New instructions for the flow at k leave its match and its timeouts.    *)
LEMMA ModifiedFlow ==
    ASSUME NEW mask, NEW q \in Seq(FlowsFor(mask)), NEW k \in 1..Len(q),
           NEW time, NEW a \in Instructions
    PROVE  /\ SetInsts(q, k, a) \in Seq(FlowsFor(mask))
           /\ Mapped(SetInsts(q, k, a), Live(time)) = Mapped(q, Live(time))
<1> DEFINE g == [q[k] EXCEPT !.insts = a]
           r == [q EXCEPT ![k] = g]
           A == FlowsFor(mask)
<1>1. q[k] \in A /\ q[k] \in Flow
  BY DEF FlowsFor
<1>2. g \in A /\ g \in Flow
  <2>1. g \in A
    BY <1>1, ChangedFlow
  <2> QED
    BY <2>1 DEF FlowsFor
<1>3. NameOf(g) = NameOf(q[k])
  BY <1>1 DEF NameOf, Flow
<1>4. Expired(g, time) <=> Expired(q[k], time)
  <2>1. /\ g.hard_timeout = q[k].hard_timeout /\ g.remove_at = q[k].remove_at
        /\ g.last_used = q[k].last_used /\ g.idle_timeout = q[k].idle_timeout
    BY <1>1 DEF Flow
  <2> HIDE DEF g
  <2> QED
    BY <2>1 DEF Expired
<1>5. Live(time)[g] = Live(time)[q[k]]
  BY <1>1, <1>2, <1>3, <1>4, LiveNamesMapped
<1> HIDE DEF g, A
<1>6. /\ r \in Seq(A) /\ Len(r) = Len(q)
      /\ \A n \in 1..Len(q) : r[n] = IF n = k THEN g ELSE q[n]
  <2>1. q \in Seq(A)
    BY DEF A
  <2> QED
    BY <1>2, <2>1, ReplacedFlow
<1>7. Mapped(r, Live(time)) = Mapped(q, Live(time))
  <2> HIDE DEF r
  <2>1. \A n \in 1..Len(q) : Live(time)[r[n]] = Live(time)[q[n]]
    BY <1>5, <1>6
  <2> QED
    BY <1>6, <2>1, MappedSame
<1> QED
  BY <1>6, <1>7 DEF g, A, SetInsts

-----------------------------------------------------------------------------
(* flow_table_lookup leaves every table its mask, and every flow that has  *)
(* not expired in its place.                                               *)
LEMMA LookupFits ==
    ASSUME NEW t, Sound(t), NEW key, NEW time \in Nat
    PROVE  LET fs == LookupFlows(t, key, time)
           IN  /\ flow_table_lookup(t, key, time) = SetFlows(t, fs)
               /\ Fits(t, fs) /\ KeepsLive(t, fs, time)
<1> DEFINE fs == LookupFlows(t, key, time)
<1>1. flow_table_lookup(t, key, time) = SetFlows(t, fs)
  BY Zenon DEF flow_table_lookup, LookupFlows, LookupLeft
<1>2. ASSUME NEW n \in 1..Len(t)
      PROVE  /\ fs[n] \in Seq(FlowsFor(t[n].mask))
             /\ Mapped(fs[n], Live(time)) = Mapped(t[n].flows, Live(time))
  <2> DEFINE q == t[n].flows
             k == Hit(t[n], key)
  <2>1. fs[n] = LookupLeft(t, key, time, n)
    <3>1. DOMAIN t = 1..Len(t)
      BY SoundFlows
    <3> QED
      BY <3>1, Zenon DEF LookupFlows
  <2>2. q \in Seq(FlowsFor(t[n].mask))
    BY SoundFlows
  <2>3. k # 0 => k \in 1..Len(q)
    BY HitFacts
  <2>4. CASE n = Winner(t, key, time)
    <3>1. k # 0 /\ ~Expired(q[k], time)
      <4>1. n # 0
        BY SoundFlows, SMTT(30)
      <4> QED
        BY <2>4, <4>1, WinnerLive DEF IsLiveHit
    <3>2. fs[n] = [q EXCEPT ![k].last_used = time]
      BY <2>1, <2>4, Zenon DEF LookupLeft
    <3> HIDE DEF k, q
    <3> QED
      BY <2>2, <2>3, <3>1, <3>2, UsedFlow, SMTT(40) DEF q
  <2>5. CASE n # Winner(t, key, time) /\ k # 0 /\ Expired(q[k], time)
    <3>1. fs[n] = DelFlow(q, k)
      BY <2>1, <2>5, Zenon DEF LookupLeft
    <3> HIDE DEF k, q
    <3>2. /\ DelFlow(q, k) \in Seq(FlowsFor(t[n].mask))
          /\ Mapped(DelFlow(q, k), Live(time)) = Mapped(q, Live(time))
      BY <2>2, <2>3, <2>5, DeletedFlow, Zenon
    <3> QED
      BY <3>1, <3>2, Zenon DEF q
  <2>6. CASE n # Winner(t, key, time) /\ ~(k # 0 /\ Expired(q[k], time))
    <3>1. fs[n] = q
      BY <2>1, <2>6, Zenon DEF LookupLeft
    <3> QED
      BY <2>2, <3>1
  <2> QED
    BY <2>4, <2>5, <2>6
<1> QED
  BY <1>1, <1>2, Zenon DEF Fits, KeepsLive

(* add_flow: the mini table of the mask gets one more flow, or is new.     *)
LEMMA AddSound ==
    ASSUME NEW t, Sound(t), NEW f \in FlowMod, NEW time \in Nat
    PROVE  Sound(add_flow(t, f, time))
<1> DEFINE new == [f EXCEPT !.remove_at = f.hard_timeout + time, !.last_used = time]
           fs == [n \in DOMAIN t |-> IF t[n].mask = f.mask THEN Append(t[n].flows, new)
                                     ELSE t[n].flows]
           m == [mask |-> f.mask, flows |-> <<new>>]
<1>1. f \in Flow /\ f.hard_timeout \in Nat
  <2>1. f \in Flow
    <3>1. PICK x \in Matches, p \in Priorities, h \in Timeouts, i \in Timeouts, a \in Instructions :
            f = [key |-> x.key, mask |-> x.mask, priority |-> p, hard_timeout |-> h,
                 idle_timeout |-> i, remove_at |-> 0, last_used |-> 0, insts |-> a]
      BY SMTT(30) DEF FlowMod
    <3>2. x.key \in SUBSET Bits /\ x.mask \in SUBSET Bits
      BY ConstantsAssumption
    <3> QED
      BY <3>1, <3>2 DEF Flow
  <2> QED
    BY <2>1, ConstantsAssumption DEF Flow
<1>2. new \in Flow /\ new.mask = f.mask /\ f.mask \in SUBSET Bits
  <2>1. f.hard_timeout + time \in Nat
    BY <1>1
  <2> QED
    BY <1>1, <2>1 DEF Flow
<1>3. new \in FlowsFor(f.mask)
  BY <1>2 DEF FlowsFor
<1>4. DOMAIN t = 1..Len(t) /\ t \in Seq(MiniTable) /\ OneEach(t) /\ Len(t) \in Nat
  BY SoundFlows
<1> HIDE DEF new
<1>5. CASE \E n \in DOMAIN t : t[n].mask = f.mask
  <2>1. add_flow(t, f, time) = SetFlows(t, fs)
    BY <1>5, Zenon DEF add_flow, new
  <2>2. ASSUME NEW n \in 1..Len(t) PROVE fs[n] \in Seq(FlowsFor(t[n].mask))
    <3>1. t[n].flows \in Seq(FlowsFor(t[n].mask))
      BY SoundFlows
    <3>2. fs[n] = IF t[n].mask = f.mask THEN Append(t[n].flows, new) ELSE t[n].flows
      BY <1>4
    <3>3. CASE t[n].mask = f.mask
      <4>1. new \in FlowsFor(t[n].mask)
        BY <1>3, <3>3
      <4>2. Append(t[n].flows, new) \in Seq(FlowsFor(t[n].mask))
        BY <3>1, <4>1
      <4> QED
        BY <3>2, <3>3, <4>2
    <3> QED
      BY <3>1, <3>2, <3>3
  <2> HIDE DEF fs
  <2> QED
    BY <1>4, <2>1, <2>2, SetFlowsSound
<1>6. CASE ~\E n \in DOMAIN t : t[n].mask = f.mask
  <2>1. add_flow(t, f, time) = Append(t, m)
    BY <1>6, Zenon DEF add_flow, new
  <2>2. /\ m \in MiniTable /\ m.mask = f.mask /\ m.flows # <<>>
        /\ m.flows \in Seq(FlowsFor(m.mask))
    BY <1>2, <1>3 DEF MiniTable
  <2> DEFINE u == Append(t, m)
  <2> HIDE DEF m
  <2>3. /\ u \in Seq(MiniTable) /\ Len(u) = Len(t) + 1 /\ u[Len(t) + 1] = m
        /\ \A n \in 1..Len(t) : u[n] = t[n]
    BY <1>4, <2>2, SMTT(30)
  <2> HIDE DEF u
  <2>4. \A n \in 1..Len(u) : n \in 1..Len(t) \/ n = Len(t) + 1
    BY <1>4, <2>3
  <2>5. OneEach(u)
    <3> SUFFICES ASSUME NEW n \in 1..Len(u), NEW k \in 1..Len(u), u[n].mask = u[k].mask
                 PROVE  n = k
      BY DEF OneEach
    <3>1. CASE n \in 1..Len(t) /\ k \in 1..Len(t)
      BY <1>4, <2>3, <3>1 DEF OneEach
    <3>2. \A i \in 1..Len(t) : u[i].mask # u[Len(t) + 1].mask
      BY <1>4, <1>6, <2>2, <2>3
    <3> QED
      BY <2>4, <3>1, <3>2
  <2>6. ASSUME NEW n \in 1..Len(u)
        PROVE  u[n].flows # <<>> /\ u[n].flows \in Seq(FlowsFor(u[n].mask))
    <3>1. CASE n \in 1..Len(t)
      BY <2>3, <3>1, SoundFlows
    <3> QED
      BY <2>2, <2>3, <2>4, <3>1
  <2> QED
    BY <2>1, <2>3, <2>5, <2>6, Zenon DEF Sound, u
<1> QED
  BY <1>5, <1>6

-----------------------------------------------------------------------------
(* The flows of the mini table n alone are replaced.                       *)
FlowsOf(t, n, q) == [i \in DOMAIN t |-> IF i = n THEN q ELSE t[i].flows]

(* Only the mini table n has to be looked at when its flows alone change.  *)
LEMMA FlowsOfFits ==
    ASSUME NEW t, Sound(t), NEW n \in 1..Len(t), NEW q \in Seq(FlowsFor(t[n].mask))
    PROVE  /\ SetFlowsOf(t, n, q) = SetFlows(t, FlowsOf(t, n, q))
           /\ Fits(t, FlowsOf(t, n, q))
           /\ \A time : Mapped(q, Live(time)) = Mapped(t[n].flows, Live(time))
                           => KeepsLive(t, FlowsOf(t, n, q), time)
<1>1. DOMAIN t = 1..Len(t) /\ \A i \in 1..Len(t) : t[i].flows \in Seq(FlowsFor(t[i].mask))
  BY SoundFlows
<1>2. SetFlowsOf(t, n, q) = SetFlows(t, FlowsOf(t, n, q))
  BY Zenon DEF SetFlowsOf, FlowsOf
<1>3. \A i \in 1..Len(t) : FlowsOf(t, n, q)[i] = IF i = n THEN q ELSE t[i].flows
  BY <1>1, Zenon DEF FlowsOf
<1>4. Fits(t, FlowsOf(t, n, q))
  BY <1>1, <1>3, Zenon DEF Fits
<1>5. ASSUME NEW time, Mapped(q, Live(time)) = Mapped(t[n].flows, Live(time))
      PROVE  KeepsLive(t, FlowsOf(t, n, q), time)
  BY <1>3, <1>5, Zenon DEF KeepsLive
<1> QED
  BY <1>2, <1>4, <1>5

(* A strict hit is a flow of the table.                                    *)
LEMMA StrictHitFacts ==
    ASSUME NEW t, Sound(t), NEW f, StrictHit(t, f) # {}
    PROVE  LET n == CHOOSE n \in StrictHit(t, f) : TRUE
           IN  n \in 1..Len(t) /\ Find(t[n].flows, f.key) \in 1..Len(t[n].flows)
<1> DEFINE n == CHOOSE n \in StrictHit(t, f) : TRUE
<1>1. n \in StrictHit(t, f)
  OBVIOUS
<1> HIDE DEF n
<1>2. n \in 1..Len(t) /\ Find(t[n].flows, f.key) # 0
  BY <1>1, SoundFlows DEF StrictHit
<1>3. t[n].flows \in Seq(Flow)
  BY <1>2, SoundFlows
<1>4. Find(t[n].flows, f.key) \in 1..Len(t[n].flows)
  BY <1>2, <1>3, FindFacts
<1> QED
  BY <1>2, <1>4 DEF n

(* The parts of a command.                                                 *)
LEMMA CommandFacts ==
    ASSUME NEW f \in Command
    PROVE  f.insts \in Instructions /\ f.key \in SUBSET Bits /\ f.mask \in SUBSET Bits
<1>1. PICK x \in Matches, p \in Priorities, a \in Instructions :
          f = [key |-> x.key, mask |-> x.mask, priority |-> p, insts |-> a]
  BY SMTT(30) DEF Command
<1> QED
  BY <1>1, ConstantsAssumption

(* An operation that leaves a sound table and its live flows.              *)
KeepsSound(t, u, time) == Sound(u) /\ LiveNames(Flows(u), time) = LiveNames(Flows(t), time)

(* SetFlows with lists that fit and keep the live flows.                   *)
LEMMA FitsKeeps ==
    ASSUME NEW t, Sound(t), NEW fs, Fits(t, fs), NEW time, KeepsLive(t, fs, time)
    PROVE  KeepsSound(t, SetFlows(t, fs), time)
<1>1. t \in Seq(MiniTable) /\ OneEach(t)
  BY Zenon DEF Sound
<1>2. Sound(SetFlows(t, fs))
  BY <1>1, SetFlowsSound DEF Fits
<1>3. LiveNames(Flows(SetFlows(t, fs)), time) = LiveNames(Flows(t), time)
  BY KeptLive, Zenon
<1> QED
  BY <1>2, <1>3, Zenon DEF KeepsSound

(* SetFlows with lists that fit.                                           *)
LEMMA FitsSound ==
    ASSUME NEW t, Sound(t), NEW fs, Fits(t, fs)
    PROVE  Sound(SetFlows(t, fs))
<1>1. t \in Seq(MiniTable) /\ OneEach(t)
  BY Zenon DEF Sound
<1> QED
  BY <1>1, SetFlowsSound DEF Fits

(* flow_table_lookup leaves a sound table and every live flow.             *)
LEMMA LookupKeeps ==
    ASSUME NEW t, Sound(t), NEW key, NEW time \in Nat
    PROVE  KeepsSound(t, flow_table_lookup(t, key, time), time)
<1> DEFINE fs == LookupFlows(t, key, time)
<1>1. flow_table_lookup(t, key, time) = SetFlows(t, fs) /\ Fits(t, fs) /\ KeepsLive(t, fs, time)
  BY LookupFits
<1>2. KeepsSound(t, SetFlows(t, fs), time)
  BY <1>1, FitsKeeps
<1> QED
  BY <1>1, <1>2, Zenon

(* mod_flow_strict keeps the table sound and loses no flow that has not    *)
(* expired: it changes the instructions of one flow, or deletes that one   *)
(* when it has expired.                                                    *)
LEMMA ModStrictKeeps ==
    ASSUME NEW t, Sound(t), NEW f \in Command, NEW time
    PROVE  KeepsSound(t, mod_flow_strict(t, f, time), time)
<1>1. CASE StrictHit(t, f) = {}
  <2>1. mod_flow_strict(t, f, time) = t
    BY <1>1, Zenon DEF mod_flow_strict
  <2> QED
    BY <2>1, Zenon DEF KeepsSound
<1>2. CASE StrictHit(t, f) # {}
  <2> DEFINE n == CHOOSE n \in StrictHit(t, f) : TRUE
             q == t[n].flows
             k == Find(q, f.key)
             r == IF Expired(q[k], time) THEN DelFlow(q, k) ELSE [q EXCEPT ![k].insts = f.insts]
             A == FlowsFor(t[n].mask)
  <2>1. n \in 1..Len(t) /\ k \in 1..Len(q)
    BY <1>2, StrictHitFacts
  <2>2. mod_flow_strict(t, f, time) = SetFlowsOf(t, n, r)
    BY <1>2, Zenon DEF mod_flow_strict
  <2> HIDE DEF n
  <2>3. q \in Seq(A)
    BY <2>1, SoundFlows
  <2> HIDE DEF k, q
  <2>4. r \in Seq(A) /\ Mapped(r, Live(time)) = Mapped(q, Live(time))
    <3>1. CASE Expired(q[k], time)
      <4>1. DelFlow(q, k) \in Seq(A) /\ Mapped(DelFlow(q, k), Live(time)) = Mapped(q, Live(time))
        BY <2>1, <2>3, <3>1, DeletedFlow, Zenon
      <4> QED
        BY <3>1, <4>1
    <3>2. CASE ~Expired(q[k], time)
      <4> DEFINE a == f.insts
                 mask == t[n].mask
                 r2 == SetInsts(q, k, a)
      <4>1. a \in Instructions
        BY CommandFacts
      <4>2. q \in Seq(FlowsFor(mask))
        BY <2>3
      <4>3. r = r2
        BY <3>2 DEF SetInsts
      <4> HIDE DEF a, mask, r
      <4>4. r2 \in Seq(FlowsFor(mask)) /\ Mapped(r2, Live(time)) = Mapped(q, Live(time))
        BY <2>1, <4>1, <4>2, ModifiedFlow
      <4> HIDE DEF r2
      <4> QED
        BY <4>3, <4>4 DEF mask
    <3> QED
      BY <3>1, <3>2
  <2> HIDE DEF r
  <2>5. SetFlowsOf(t, n, r) = SetFlows(t, FlowsOf(t, n, r)) /\ Fits(t, FlowsOf(t, n, r))
    BY <2>1, <2>4, FlowsOfFits
  <2>6. KeepsLive(t, FlowsOf(t, n, r), time)
    BY <2>1, <2>4, FlowsOfFits DEF q
  <2>7. KeepsSound(t, SetFlows(t, FlowsOf(t, n, r)), time)
    BY <2>5, <2>6, FitsKeeps
  <2> QED
    BY <2>2, <2>5, <2>7, Zenon
<1> QED
  BY <1>1, <1>2

(* del_flow_strict keeps the table sound.                                  *)
LEMMA DelStrictSound ==
    ASSUME NEW t, Sound(t), NEW f
    PROVE  Sound(del_flow_strict(t, f))
<1>1. CASE StrictHit(t, f) = {}
  BY <1>1, Zenon DEF del_flow_strict
<1>2. CASE StrictHit(t, f) # {}
  <2> DEFINE n == CHOOSE n \in StrictHit(t, f) : TRUE
             q == t[n].flows
             r == DelFlow(q, Find(q, f.key))
  <2>1. n \in 1..Len(t)
    BY <1>2, StrictHitFacts
  <2>2. del_flow_strict(t, f) = SetFlowsOf(t, n, r)
    BY <1>2, Zenon DEF del_flow_strict
  <2> HIDE DEF n
  <2>3. q \in Seq(FlowsFor(t[n].mask))
    BY <2>1, SoundFlows
  <2>4. r \in Seq(FlowsFor(t[n].mask))
    <3> HIDE DEF q
    <3> QED
      BY <2>3, DeletedFlow, Zenon
  <2> HIDE DEF r
  <2>5. SetFlowsOf(t, n, r) = SetFlows(t, FlowsOf(t, n, r)) /\ Fits(t, FlowsOf(t, n, r))
    BY <2>1, <2>4, FlowsOfFits
  <2>6. Sound(SetFlows(t, FlowsOf(t, n, r)))
    BY <2>5, FitsSound
  <2> QED
    BY <2>2, <2>5, <2>6, Zenon
<1> QED
  BY <1>1, <1>2

-----------------------------------------------------------------------------
(* Purge deletes expired flows only.                                       *)
PurgedFlows(t, key, mask, time) == [n \in DOMAIN t |-> Purge(key, mask, t[n], time)]

(* Purge leaves flows of the mini table's mask, and every live one.        *)
LEMMA PurgeFacts ==
    ASSUME NEW key, NEW mask, NEW m, m.flows \in Seq(FlowsFor(m.mask)), NEW time
    PROVE  /\ Purge(key, mask, m, time) \in Seq(FlowsFor(m.mask))
           /\ Mapped(Purge(key, mask, m, time), Live(time)) = Mapped(m.flows, Live(time))
<1> DEFINE q == m.flows
           A == FlowsFor(m.mask)
           S == {k \in DOMAIN q : ~(Covers(key, mask, m, q[k]) /\ Expired(q[k], time))}
<1>1. Purge(key, mask, m, time) = Kept(q, S)
  BY Zenon DEF Purge
<1>2. q \in Seq(A)
  OBVIOUS
<1>3. A \subseteq Flow
  BY DEF FlowsFor
<1> HIDE DEF A
<1>4. q \in Seq(Flow) /\ DOMAIN q = 1..Len(q) /\ \A k \in 1..Len(q) : q[k] \in Flow
  BY <1>2, <1>3
<1> HIDE DEF q
<1>5. ASSUME NEW k \in 1..Len(q), k \notin S PROVE Live(time)[q[k]] = <<>>
  <2>1. Expired(q[k], time)
    BY <1>4, <1>5
  <2> QED
    BY <1>4, <2>1, LiveNamesMapped
<1>6. Live(time) \in [Flow -> Seq(Name)]
  BY LiveNamesMapped
<1> HIDE DEF S
<1>7. Kept(q, S) \in Seq(A)
  BY <1>2, KeptFacts
<1>8. Mapped(Kept(q, S), Live(time)) = Mapped(q, Live(time))
  BY <1>4, <1>5, <1>6, MappedWithout
<1> QED
  BY <1>1, <1>7, <1>8 DEF q, A

(* flow_table_stats keeps the table sound and deletes expired flows only.  *)
LEMMA StatsKeeps ==
    ASSUME NEW t, Sound(t), NEW key, NEW mask, NEW time
    PROVE  KeepsSound(t, flow_table_stats(t, key, mask, time), time)
<1> DEFINE fs == PurgedFlows(t, key, mask, time)
<1>1. flow_table_stats(t, key, mask, time) = SetFlows(t, fs)
  BY Zenon DEF flow_table_stats, PurgedFlows
<1>2. \A n \in 1..Len(t) : fs[n] = Purge(key, mask, t[n], time)
  <2>1. DOMAIN t = 1..Len(t)
    BY SoundFlows
  <2> QED
    BY <2>1, Zenon DEF PurgedFlows
<1>3. \A n \in 1..Len(t) : t[n].flows \in Seq(FlowsFor(t[n].mask))
  BY SoundFlows
<1> HIDE DEF fs
<1>4. ASSUME NEW n \in 1..Len(t)
      PROVE  /\ fs[n] \in Seq(FlowsFor(t[n].mask))
             /\ Mapped(fs[n], Live(time)) = Mapped(t[n].flows, Live(time))
  <2> DEFINE m == t[n]
  <2>1. m.flows \in Seq(FlowsFor(m.mask))
    BY <1>3
  <2> HIDE DEF m
  <2>2. /\ Purge(key, mask, m, time) \in Seq(FlowsFor(m.mask))
        /\ Mapped(Purge(key, mask, m, time), Live(time)) = Mapped(m.flows, Live(time))
    BY <2>1, PurgeFacts, SMTT(30)
  <2> QED
    BY <1>2, <2>2, Zenon DEF m
<1>5. Fits(t, fs) /\ KeepsLive(t, fs, time)
  BY <1>4, Zenon DEF Fits, KeepsLive
<1>6. KeepsSound(t, SetFlows(t, fs), time)
  BY <1>5, FitsKeeps
<1> QED
  BY <1>1, <1>6, Zenon

-----------------------------------------------------------------------------
(* In its own mini table, a flow is covered when it is inside the match.   *)
LEMMA CoversInside ==
    ASSUME NEW f, NEW m, NEW g, g.mask = m.mask
    PROVE  Covers(f.key, f.mask, m, g) <=> Inside(f, g)
<1>1. m.mask \intersect f.mask = f.mask <=> f.mask \subseteq m.mask
  OBVIOUS
<1> QED
  BY <1>1 DEF Covers, Inside, apply_all_mask

(* What a non-strict delete makes of each flow, and a modify.              *)
DelOf(f) == [g \in Flow |-> IF Inside(f, g) THEN <<>> ELSE <<g>>]

ModOf(f, time) ==
    [g \in Flow |-> IF ~Inside(f, g) THEN <<g>> ELSE IF Expired(g, time) THEN <<>>
                    ELSE <<[g EXCEPT !.insts = f.insts]>>]

NewFlow(f) == [g \in Flow |-> IF Inside(f, g) THEN [g EXCEPT !.insts = f.insts] ELSE g]

(* Undeleted goes through the list flow by flow.                           *)
LEMMA DelOfFacts ==
    ASSUME NEW f
    PROVE  /\ DelOf(f) \in [Flow -> Seq(Flow)]
           /\ \A g \in Flow : DelOf(f)[g] = IF Inside(f, g) THEN <<>> ELSE <<g>>
           /\ \A q \in Seq(Flow) : Undeleted(f, q) = Mapped(q, DelOf(f))
<1>1. \A g \in Flow : (IF Inside(f, g) THEN <<>> ELSE <<g>>) \in Seq(Flow)
  OBVIOUS
<1>2. DelOf(f) \in [Flow -> Seq(Flow)]
  BY <1>1, Zenon DEF DelOf
<1>3. \A g \in Flow : DelOf(f)[g] = IF Inside(f, g) THEN <<>> ELSE <<g>>
  BY Zenon DEF DelOf
<1>4. ASSUME NEW q \in Seq(Flow) PROVE Undeleted(f, q) = Mapped(q, DelOf(f))
  <2>1. DOMAIN q = 1..Len(q) /\ \A k \in 1..Len(q) : q[k] \in Flow
    OBVIOUS
  <2>2. [k \in DOMAIN q |-> IF Inside(f, q[k]) THEN <<>> ELSE <<q[k]>>]
          = [k \in 1..Len(q) |-> DelOf(f)[q[k]]]
    BY <1>3, <2>1
  <2> QED
    BY <2>2, Zenon DEF Undeleted, Mapped
<1> QED
  BY <1>2, <1>3, <1>4

(* A modify leaves a flow of the same match, live as long as before.       *)
LEMMA NewFlowFacts ==
    ASSUME NEW f \in Command
    PROVE  /\ NewFlow(f) \in [Flow -> Flow]
           /\ \A g \in Flow : /\ NewFlow(f)[g] = IF Inside(f, g) THEN [g EXCEPT !.insts = f.insts]
                                                 ELSE g
                              /\ NewFlow(f)[g].mask = g.mask
                              /\ \A time : Live(time)[NewFlow(f)[g]] = Live(time)[g]
<1> DEFINE e(g) == IF Inside(f, g) THEN [g EXCEPT !.insts = f.insts] ELSE g
<1>1. ASSUME NEW g \in Flow
      PROVE  /\ e(g) \in Flow /\ e(g).mask = g.mask
             /\ \A time : Live(time)[e(g)] = Live(time)[g]
  <2> DEFINE h == [g EXCEPT !.insts = f.insts]
  <2>1. f.insts \in Instructions
    BY CommandFacts
  <2>2. h \in Flow /\ h.mask = g.mask
    BY <2>1 DEF Flow
  <2>3. NameOf(h) = NameOf(g)
    BY DEF NameOf, Flow
  <2>4. /\ h.hard_timeout = g.hard_timeout /\ h.remove_at = g.remove_at
        /\ h.last_used = g.last_used /\ h.idle_timeout = g.idle_timeout
    BY DEF Flow
  <2> HIDE DEF h
  <2>5. ASSUME NEW time PROVE Live(time)[h] = Live(time)[g]
    <3>1. Expired(h, time) <=> Expired(g, time)
      BY <2>4 DEF Expired
    <3> QED
      BY <2>2, <2>3, <3>1, LiveNamesMapped
  <2>6. e(g) = h \/ e(g) = g
    BY DEF h
  <2> HIDE DEF e
  <2> QED
    BY <2>2, <2>5, <2>6
<1>2. \A g \in Flow : NewFlow(f)[g] = e(g)
  BY Zenon DEF NewFlow
<1>3. NewFlow(f) \in [Flow -> Flow]
  BY <1>1, Zenon DEF NewFlow
<1> QED
  BY <1>1, <1>2, <1>3

(* Modified goes through the list flow by flow.                            *)
LEMMA ModOfFacts ==
    ASSUME NEW f \in Command, NEW time
    PROVE  /\ ModOf(f, time) \in [Flow -> Seq(Flow)]
           /\ \A g \in Flow :
                 ModOf(f, time)[g] = IF Inside(f, g) /\ Expired(g, time) THEN <<>>
                                     ELSE <<NewFlow(f)[g]>>
           /\ \A q \in Seq(Flow) : Modified(f, q, time) = Mapped(q, ModOf(f, time))
<1> DEFINE e(g) == IF ~Inside(f, g) THEN <<g>> ELSE IF Expired(g, time) THEN <<>>
                   ELSE <<[g EXCEPT !.insts = f.insts]>>
<1>1. \A g \in Flow : e(g) = IF Inside(f, g) /\ Expired(g, time) THEN <<>>
                             ELSE <<NewFlow(f)[g]>>
  BY NewFlowFacts
<1>2. \A g \in Flow : NewFlow(f)[g] \in Flow
  BY NewFlowFacts
<1> HIDE DEF e
<1>3. \A g \in Flow : e(g) \in Seq(Flow)
  <2>1. <<>> \in Seq(Flow) /\ \A x \in Flow : <<x>> \in Seq(Flow)
    OBVIOUS
  <2> QED
    BY <1>1, <1>2, <2>1, Zenon
<1>4. \A g \in Flow : ModOf(f, time)[g] = e(g)
  BY Zenon DEF ModOf, e
<1>5. ModOf(f, time) \in [Flow -> Seq(Flow)]
  BY <1>3, Zenon DEF ModOf, e
<1>6. ASSUME NEW q \in Seq(Flow) PROVE Modified(f, q, time) = Mapped(q, ModOf(f, time))
  <2>1. DOMAIN q = 1..Len(q) /\ \A k \in 1..Len(q) : q[k] \in Flow
    OBVIOUS
  <2>2. [k \in DOMAIN q |-> e(q[k])] = [k \in 1..Len(q) |-> ModOf(f, time)[q[k]]]
    BY <1>4, <2>1
  <2> QED
    BY <2>2, Zenon DEF Modified, Mapped, e
<1> QED
  BY <1>1, <1>4, <1>5, <1>6

-----------------------------------------------------------------------------
(* del_flow_non_strict.                                                    *)
DelLeft(f, m) == Kept(m.flows, {k \in DOMAIN m.flows : ~Covers(f.key, f.mask, m, m.flows[k])})

(* In one mini table a non-strict delete leaves what it should.            *)
LEMMA DelLeftFacts ==
    ASSUME NEW f, NEW m, m.flows \in Seq(FlowsFor(m.mask))
    PROVE  DelLeft(f, m) \in Seq(FlowsFor(m.mask)) /\ DelLeft(f, m) = Mapped(m.flows, DelOf(f))
<1> DEFINE q == m.flows
           A == FlowsFor(m.mask)
           S == {k \in DOMAIN q : ~Covers(f.key, f.mask, m, q[k])}
<1>1. q \in Seq(A) /\ A \subseteq Flow /\ \A g \in A : g.mask = m.mask
  BY DEF FlowsFor
<1>2. DelLeft(f, m) = Kept(q, S)
  BY Zenon DEF DelLeft
<1> HIDE DEF A, q
<1>3. /\ q \in Seq(Flow) /\ DOMAIN q = 1..Len(q)
      /\ \A k \in 1..Len(q) : q[k] \in A /\ q[k] \in Flow
  BY <1>1
<1>4. \A k \in 1..Len(q) :
          (IF k \in S THEN <<q[k]>> ELSE <<>>) = DelOf(f)[q[k]]
  <2> TAKE k \in 1..Len(q)
  <2>1. q[k].mask = m.mask /\ q[k] \in Flow
    BY <1>1, <1>3
  <2>2. k \in S <=> ~Inside(f, q[k])
    BY <1>3, <2>1, CoversInside
  <2> QED
    BY <2>1, <2>2, DelOfFacts
<1> HIDE DEF S
<1>5. Kept(q, S) \in Seq(A)
  BY <1>1, KeptFacts
<1>6. Kept(q, S) = Joined([k \in 1..Len(q) |-> IF k \in S THEN <<q[k]>> ELSE <<>>])
  BY <1>3, KeptJoined
<1>7. [k \in 1..Len(q) |-> IF k \in S THEN <<q[k]>> ELSE <<>>]
        = [k \in 1..Len(q) |-> DelOf(f)[q[k]]]
  BY <1>4
<1>8. Kept(q, S) = Mapped(q, DelOf(f))
  BY <1>6, <1>7, Zenon DEF Mapped
<1> QED
  BY <1>2, <1>5, <1>8 DEF q, A

(* del_flow_non_strict leaves a sound table, without exactly the flows     *)
(* inside the match.                                                       *)
LEMMA DelNonStrict ==
    ASSUME NEW t, Sound(t), NEW f
    PROVE  /\ Sound(del_flow_non_strict(t, f))
           /\ Flows(del_flow_non_strict(t, f)) = Undeleted(f, Flows(t))
<1> DEFINE fs == [n \in DOMAIN t |-> DelLeft(f, t[n])]
<1>1. del_flow_non_strict(t, f) = SetFlows(t, fs)
  BY Zenon DEF del_flow_non_strict, DelLeft
<1>2. t \in Seq(MiniTable) /\ DOMAIN t = 1..Len(t)
  BY SoundFlows
<1>3. \A n \in 1..Len(t) : fs[n] = DelLeft(f, t[n])
  BY <1>2
<1> HIDE DEF fs
<1>4. ASSUME NEW n \in 1..Len(t)
      PROVE  fs[n] \in Seq(FlowsFor(t[n].mask)) /\ fs[n] = Mapped(t[n].flows, DelOf(f))
  <2> DEFINE m == t[n]
  <2>1. m.flows \in Seq(FlowsFor(m.mask))
    BY SoundFlows
  <2> HIDE DEF m
  <2>2. DelLeft(f, m) \in Seq(FlowsFor(m.mask)) /\ DelLeft(f, m) = Mapped(m.flows, DelOf(f))
    BY <2>1, DelLeftFacts
  <2> QED
    BY <1>3, <2>2, Zenon DEF m
<1>5. Fits(t, fs)
  BY <1>4, Zenon DEF Fits
<1>6. Sound(SetFlows(t, fs))
  BY <1>5, FitsSound
<1>7. Flows(SetFlows(t, fs)) = Mapped(Flows(t), DelOf(f))
  BY <1>2, <1>4, <1>5, SetFlowsMapped, DelOfFacts
<1>8. Flows(t) \in Seq(Flow)
  BY <1>2, FlowsFacts
<1>9. Undeleted(f, Flows(t)) = Mapped(Flows(t), DelOf(f))
  BY <1>8, DelOfFacts
<1> QED
  BY <1>1, <1>6, <1>7, <1>9, Zenon

-----------------------------------------------------------------------------
(* mod_flow_non_strict.                                                    *)
ModLeft(f, m, time) ==
    LET left == Purge(f.key, f.mask, m, time)
    IN  [k \in DOMAIN left |-> IF Covers(f.key, f.mask, m, left[k])
                               THEN [left[k] EXCEPT !.insts = f.insts] ELSE left[k]]

(* In one mini table a non-strict modify leaves what it should.            *)
LEMMA ModLeftFacts ==
    ASSUME NEW f \in Command, NEW m, m.flows \in Seq(FlowsFor(m.mask)), NEW time
    PROVE  /\ ModLeft(f, m, time) \in Seq(FlowsFor(m.mask))
           /\ ModLeft(f, m, time) = Mapped(m.flows, ModOf(f, time))
           /\ Mapped(ModLeft(f, m, time), Live(time)) = Mapped(m.flows, Live(time))
<1> DEFINE q == m.flows
           A == FlowsFor(m.mask)
           S == {k \in DOMAIN q : ~(Covers(f.key, f.mask, m, q[k]) /\ Expired(q[k], time))}
           left == Purge(f.key, f.mask, m, time)
           c == NewFlow(f)
           r == [k \in 1..Len(left) |-> c[left[k]]]
           each == [x \in Flow |-> <<c[x]>>]
<1>1. q \in Seq(A) /\ A \subseteq Flow /\ \A g \in A : g.mask = m.mask
  BY DEF FlowsFor
<1>2. left \in Seq(A) /\ Mapped(left, Live(time)) = Mapped(q, Live(time))
  BY PurgeFacts, SMTT(30)
<1>3. left = Kept(q, S)
  BY Zenon DEF Purge
<1>4. /\ c \in [Flow -> Flow]
      /\ \A g \in Flow : /\ c[g] = IF Inside(f, g) THEN [g EXCEPT !.insts = f.insts] ELSE g
                         /\ c[g].mask = g.mask /\ Live(time)[c[g]] = Live(time)[g]
  BY NewFlowFacts
<1>5. \A g \in A : c[g] \in A
  BY <1>1, <1>4 DEF FlowsFor
<1> HIDE DEF A, q, left, c
<1>6. /\ left \in Seq(Flow) /\ DOMAIN left = 1..Len(left) /\ Len(left) \in Nat
      /\ \A k \in 1..Len(left) : left[k] \in A /\ left[k] \in Flow
  BY <1>1, <1>2, SMTT(30)
<1>7. /\ q \in Seq(Flow) /\ DOMAIN q = 1..Len(q)
      /\ \A k \in 1..Len(q) : q[k] \in A /\ q[k] \in Flow
  BY <1>1, SMTT(30)
<1>8. ModLeft(f, m, time) = r
  <2> DEFINE e(k) == IF Covers(f.key, f.mask, m, left[k])
                     THEN [left[k] EXCEPT !.insts = f.insts] ELSE left[k]
  <2>1. ASSUME NEW k \in 1..Len(left) PROVE e(k) = c[left[k]]
    <3>1. left[k] \in Flow /\ left[k].mask = m.mask
      BY <1>1, <1>6
    <3>2. Covers(f.key, f.mask, m, left[k]) <=> Inside(f, left[k])
      BY <3>1, CoversInside
    <3> QED
      BY <1>4, <3>1, <3>2
  <2>2. ModLeft(f, m, time) = [k \in DOMAIN left |-> e(k)]
    BY Zenon DEF ModLeft, left
  <2> HIDE DEF e
  <2>3. [k \in DOMAIN left |-> e(k)] = r
    BY <1>6, <2>1
  <2> QED
    BY <2>2, <2>3, Zenon
<1>9. r \in Seq(A) /\ Len(r) = Len(left) /\ \A k \in 1..Len(left) : r[k] = c[left[k]]
  <2>1. \A k \in 1..Len(left) : c[left[k]] \in A
    BY <1>5, <1>6
  <2> QED
    BY <1>6, <2>1, SMTT(30)
<1>10. Mapped(r, Live(time)) = Mapped(q, Live(time))
  <2> HIDE DEF r
  <2>1. \A k \in 1..Len(left) : Live(time)[r[k]] = Live(time)[left[k]]
    BY <1>4, <1>6, <1>9
  <2>2. Mapped(r, Live(time)) = Mapped(left, Live(time))
    BY <1>9, <2>1, MappedSame
  <2> QED
    BY <1>2, <2>2, Zenon
<1>11. r = Mapped(q, ModOf(f, time))
  <2>1. r = Mapped(left, each)
    <3>1. Changed(left, c) = Mapped(left, OneFor(Flow, c))
      BY <1>4, <1>6, MappedEach
    <3> QED
      BY <3>1, Zenon DEF Changed, OneFor
  <2>2. each \in [Flow -> Seq(Flow)] /\ \A x \in Flow : each[x] = <<c[x]>>
    BY <1>4
  <2>3. \A k \in 1..Len(q) :
            (IF k \in S THEN each[q[k]] ELSE <<>>) = ModOf(f, time)[q[k]]
    <3> TAKE k \in 1..Len(q)
    <3>1. q[k] \in Flow /\ q[k].mask = m.mask
      BY <1>1, <1>7
    <3>2. Covers(f.key, f.mask, m, q[k]) <=> Inside(f, q[k])
      BY <3>1, CoversInside
    <3>3. k \in S <=> ~(Inside(f, q[k]) /\ Expired(q[k], time))
      BY <1>7, <3>2
    <3>4. ModOf(f, time)[q[k]] = IF Inside(f, q[k]) /\ Expired(q[k], time) THEN <<>>
                                 ELSE <<c[q[k]]>>
      BY <3>1, ModOfFacts DEF c
    <3> HIDE DEF S, each
    <3> QED
      BY <2>2, <3>1, <3>3, <3>4
  <2> HIDE DEF r, each, S
  <2>4. Mapped(Kept(q, S), each) = MappedAt(q, S, each)
    BY <1>7, <2>2, MappedKept
  <2>5. [k \in 1..Len(q) |-> IF k \in S THEN each[q[k]] ELSE <<>>]
          = [k \in 1..Len(q) |-> ModOf(f, time)[q[k]]]
    BY <2>3
  <2>6. MappedAt(q, S, each) = Mapped(q, ModOf(f, time))
    BY <2>5, Zenon DEF Mapped, MappedAt
  <2> QED
    BY <1>3, <2>1, <2>4, <2>6
<1> HIDE DEF r
<1> QED
  BY <1>8, <1>9, <1>10, <1>11 DEF q, A

(* mod_flow_non_strict leaves a sound table in which exactly the live      *)
(* flows inside the match are changed.                                     *)
LEMMA ModNonStrict ==
    ASSUME NEW t, Sound(t), NEW f \in Command, NEW time
    PROVE  /\ KeepsSound(t, mod_flow_non_strict(t, f, time), time)
           /\ Flows(mod_flow_non_strict(t, f, time)) = Modified(f, Flows(t), time)
<1> DEFINE fs == [n \in DOMAIN t |-> ModLeft(f, t[n], time)]
<1>1. mod_flow_non_strict(t, f, time) = SetFlows(t, fs)
  BY Zenon DEF mod_flow_non_strict, ModLeft
<1>2. t \in Seq(MiniTable) /\ DOMAIN t = 1..Len(t)
  BY SoundFlows
<1>3. \A n \in 1..Len(t) : fs[n] = ModLeft(f, t[n], time)
  BY <1>2
<1> HIDE DEF fs
<1>4. ASSUME NEW n \in 1..Len(t)
      PROVE  /\ fs[n] \in Seq(FlowsFor(t[n].mask))
             /\ fs[n] = Mapped(t[n].flows, ModOf(f, time))
             /\ Mapped(fs[n], Live(time)) = Mapped(t[n].flows, Live(time))
  <2> DEFINE m == t[n]
  <2>1. m.flows \in Seq(FlowsFor(m.mask))
    BY SoundFlows
  <2> HIDE DEF m
  <2>2. /\ ModLeft(f, m, time) \in Seq(FlowsFor(m.mask))
        /\ ModLeft(f, m, time) = Mapped(m.flows, ModOf(f, time))
        /\ Mapped(ModLeft(f, m, time), Live(time)) = Mapped(m.flows, Live(time))
    BY <2>1, ModLeftFacts
  <2>3. fs[n] = ModLeft(f, m, time)
    BY <1>3, Zenon DEF m
  <2> QED
    BY <2>2, <2>3 DEF m
<1>5. Fits(t, fs) /\ KeepsLive(t, fs, time)
  BY <1>4, Zenon DEF Fits, KeepsLive
<1>6. KeepsSound(t, SetFlows(t, fs), time)
  BY <1>5, FitsKeeps
<1>7. Flows(SetFlows(t, fs)) = Mapped(Flows(t), ModOf(f, time))
  BY <1>2, <1>4, <1>5, SetFlowsMapped, ModOfFacts
<1>8. Flows(t) \in Seq(Flow)
  BY <1>2, FlowsFacts
<1>9. Modified(f, Flows(t), time) = Mapped(Flows(t), ModOf(f, time))
  BY <1>8, ModOfFacts
<1> QED
  BY <1>1, <1>6, <1>7, <1>9, Zenon

-----------------------------------------------------------------------------
(* The inductive invariant.                                                *)
TableInv == Sound(ft)

(* No operation of the flow table (flow_table.c) leaves a mini             *)
(* table that is empty, shares its mask with another, or holds a flow of   *)
(* another mask.                                                           *)
THEOREM TableSound == Spec => []TableInv
<1>1. Init => TableInv
  <2> SUFFICES ASSUME ft = <<>> PROVE Sound(ft)
    BY DEF Init, TableInv
  <2>1. ft \in Seq(MiniTable) /\ Len(ft) = 0
    OBVIOUS
  <2>2. 1..0 = {}
    OBVIOUS
  <2> QED
    BY <2>1, <2>2 DEF Sound, OneEach
<1>2. TableInv /\ [Next]_ft => TableInv'
  <2> SUFFICES ASSUME Sound(ft), [Next]_ft PROVE Sound(ft')
    BY DEF TableInv
  <2>1. \A time \in Time : time \in Nat
    BY ConstantsAssumption DEF Time
  <2>2. CASE Lookup
    <3>1. PICK key \in SUBSET Bits, time \in Time : ft' = flow_table_lookup(ft, key, time)
      BY <2>2 DEF Lookup
    <3>2. KeepsSound(ft, flow_table_lookup(ft, key, time), time)
      BY <2>1, LookupKeeps
    <3> QED
      BY <3>1, <3>2 DEF KeepsSound
  <2>3. CASE Add
    <3>1. PICK f \in FlowMod, time \in Time : ft' = add_flow(ft, f, time)
      BY <2>3 DEF Add
    <3> QED
      BY <2>1, <3>1, AddSound
  <2>4. CASE ModifyStrict
    <3>1. PICK f \in Command, time \in Time : ft' = mod_flow_strict(ft, f, time)
      BY <2>4 DEF ModifyStrict
    <3>2. KeepsSound(ft, mod_flow_strict(ft, f, time), time)
      BY ModStrictKeeps
    <3> QED
      BY <3>1, <3>2 DEF KeepsSound
  <2>5. CASE Modify
    <3>1. PICK f \in Command, time \in Time : ft' = mod_flow_non_strict(ft, f, time)
      BY <2>5 DEF Modify
    <3>2. KeepsSound(ft, mod_flow_non_strict(ft, f, time), time)
      BY ModNonStrict
    <3> QED
      BY <3>1, <3>2 DEF KeepsSound
  <2>6. CASE DeleteStrict
    <3>1. PICK f \in Command : ft' = del_flow_strict(ft, f)
      BY <2>6 DEF DeleteStrict
    <3> QED
      BY <3>1, DelStrictSound
  <2>7. CASE Delete
    <3>1. PICK f \in Command : ft' = del_flow_non_strict(ft, f)
      BY <2>7 DEF Delete
    <3> QED
      BY <3>1, DelNonStrict
  <2>8. CASE Stats
    <3>1. PICK time \in Time : ft' = flow_table_stats(ft, {}, {}, time)
      BY <2>8 DEF Stats
    <3>2. KeepsSound(ft, flow_table_stats(ft, {}, {}, time), time)
      BY StatsKeeps
    <3> QED
      BY <3>1, <3>2 DEF KeepsSound
  <2>9. CASE UNCHANGED ft
    BY <2>9
  <2> QED
    BY <2>2, <2>3, <2>4, <2>5, <2>6, <2>7, <2>8, <2>9 DEF Next
<1> QED
  BY <1>1, <1>2, PTL DEF Spec

(* A mask has one mini table, with only flows of that mask and at least    *)
(* one of them, whatever operations the table has gone through.            *)
THEOREM OneTablePerMaskHolds == Spec => [](TypeOK /\ OneTablePerMask)
<1>1. TableInv => TypeOK /\ OneTablePerMask
  <2> SUFFICES ASSUME Sound(ft) PROVE TypeOK /\ OneTablePerMask
    BY DEF TableInv
  <2>1. TypeOK
    BY Zenon DEF Sound, TypeOK
  <2>2. OneTablePerMask
    <3>1. DOMAIN ft = 1..Len(ft) /\ OneEach(ft)
      BY SoundFlows, Zenon
    <3>2. ASSUME NEW n \in DOMAIN ft
          PROVE  /\ ft[n].flows # <<>>
                 /\ \A k \in DOMAIN ft[n].flows : ft[n].flows[k].mask = ft[n].mask
      <4>1. n \in 1..Len(ft)
        BY <3>1
      <4> QED
        BY <4>1, SoundFlows, Zenon
    <3> QED
      BY <3>1, <3>2, Zenon DEF OneTablePerMask, OneEach
  <2> QED
    BY <2>1, <2>2
<1> QED
  BY <1>1, TableSound, PTL

(* flow_table_lookup returns a live flow that matches, and no better live  *)
(* flow that matches is left out unless a later flow with the same match   *)
(* hides it.                                                               *)
THEOREM LookupBestHolds == Spec => []LookupBest
<1>1. TableInv => LookupBest
  <2> SUFFICES ASSUME Sound(ft), NEW key \in SUBSET Bits, NEW time \in Time
               PROVE  LET res == LookupResult(ft, key, time)
                      IN  /\ \A f \in res : MatchesPacket(f, key) /\ ~Expired(f, time)
                          /\ \A n \in DOMAIN ft : \A k \in DOMAIN ft[n].flows :
                               LET g == ft[n].flows[k]
                               IN  \/ ~MatchesPacket(g, key) \/ Expired(g, time)
                                   \/ \E f \in res : g.priority <= f.priority
                                   \/ \E j \in DOMAIN ft[n].flows :
                                         k < j /\ SameMatch(g, ft[n].flows[j])
    BY DEF LookupBest, TableInv
  <2> DEFINE res == LookupResult(ft, key, time)
             w == Winner(ft, key, time)
             hit(n) == ft[n].flows[Hit(ft[n], key)]
  <2>1. DOMAIN ft = 1..Len(ft) /\ \A n \in 1..Len(ft) : DOMAIN ft[n].flows = 1..Len(ft[n].flows)
    BY SoundFlows
  <2>2. res = IF w = 0 THEN {} ELSE {hit(w)}
    BY Zenon DEF LookupResult
  <2>3. \/ w = 0 /\ \A n \in 1..Len(ft) : ~IsLiveHit(ft[n], key, time)
        \/ /\ w \in 1..Len(ft) /\ w # 0 /\ IsLiveHit(ft[w], key, time)
           /\ \A n \in 1..Len(ft) : IsLiveHit(ft[n], key, time) =>
                 hit(n).priority <= hit(w).priority
    BY WinnerLive
  <2> HIDE DEF w, res
  <2>4. ASSUME NEW f \in res PROVE MatchesPacket(f, key) /\ ~Expired(f, time)
    <3>1. w # 0 /\ f = hit(w)
      BY <2>2, <2>4
    <3>2. w \in 1..Len(ft) /\ Hit(ft[w], key) # 0 /\ ~Expired(hit(w), time)
      BY <2>3, <3>1 DEF IsLiveHit
    <3>3. /\ Hit(ft[w], key) \in 1..Len(ft[w].flows)
          /\ hit(w).key = apply_all_mask(key, ft[w].mask)
      BY <3>2, HitFacts
    <3>4. hit(w).mask = ft[w].mask
      BY <3>2, <3>3, SoundFlows
    <3> QED
      BY <3>1, <3>2, <3>3, <3>4 DEF MatchesPacket
  <2>5. ASSUME NEW n \in DOMAIN ft, NEW k \in DOMAIN ft[n].flows,
               MatchesPacket(ft[n].flows[k], key), ~Expired(ft[n].flows[k], time)
        PROVE  \/ \E f \in res : ft[n].flows[k].priority <= f.priority
               \/ \E j \in DOMAIN ft[n].flows :
                     k < j /\ SameMatch(ft[n].flows[k], ft[n].flows[j])
    <3> DEFINE q == ft[n].flows
               h == Hit(ft[n], key)
               x == apply_all_mask(key, ft[n].mask)
    <3>1. n \in 1..Len(ft) /\ k \in 1..Len(q)
      BY <2>1
    <3>2. q \in Seq(Flow) /\ Len(q) \in Nat /\ \A i \in 1..Len(q) : q[i].mask = ft[n].mask
      BY <3>1, SoundFlows
    <3>3. q[k].key = x
      BY <2>5, <3>1, <3>2 DEF MatchesPacket
    <3>4. \/ h = 0 /\ \A i \in 1..Len(q) : q[i].key # x
          \/ /\ h \in 1..Len(q) /\ h # 0 /\ q[h].key = x
             /\ \A i \in 1..Len(q) : h < i => q[i].key # x
      BY <3>2, FindFacts DEF Hit
    <3>5. h \in 1..Len(q) /\ h # 0 /\ q[h].key = x /\ ~(h < k)
      BY <3>1, <3>3, <3>4
    <3>6. CASE h = k
      <4>1. IsLiveHit(ft[n], key, time)
        BY <2>5, <3>5, <3>6 DEF IsLiveHit
      <4>2. w # 0 /\ q[k].priority <= hit(w).priority
        BY <2>3, <3>1, <3>6, <4>1
      <4> QED
        BY <2>2, <4>2
    <3>7. CASE h # k
      <4>1. k < h
        BY <3>1, <3>2, <3>5, <3>7, SMTT(30)
      <4>2. SameMatch(q[k], q[h])
        BY <3>1, <3>2, <3>3, <3>5 DEF SameMatch
      <4> QED
        BY <2>1, <3>1, <3>5, <4>1, <4>2
    <3> QED
      BY <3>6, <3>7
  <2> QED
    BY <2>4, <2>5 DEF res
<1> QED
  BY <1>1, TableSound, PTL

(* Looking up, modifying and counting flows delete no flow before one of   *)
(* its timeouts has passed, and keep the order of the others.              *)
THEOREM OnlyExpiredDeletedHolds == Spec => []OnlyExpiredDeleted
<1>1. TableInv => OnlyExpiredDeleted
  <2> SUFFICES ASSUME Sound(ft), NEW time \in Time
               PROVE  /\ \A key \in SUBSET Bits :
                            LosesOnlyExpired(flow_table_lookup(ft, key, time), time)
                      /\ \A f \in Command :
                            /\ LosesOnlyExpired(mod_flow_strict(ft, f, time), time)
                            /\ LosesOnlyExpired(mod_flow_non_strict(ft, f, time), time)
                      /\ LosesOnlyExpired(flow_table_stats(ft, {}, {}, time), time)
    BY DEF OnlyExpiredDeleted, TableInv
  <2>1. time \in Nat
    BY ConstantsAssumption DEF Time
  <2>2. \A u : KeepsSound(ft, u, time) => LosesOnlyExpired(u, time)
    BY Zenon DEF KeepsSound, LosesOnlyExpired
  <2>3. \A key \in SUBSET Bits : LosesOnlyExpired(flow_table_lookup(ft, key, time), time)
    BY <2>1, <2>2, LookupKeeps
  <2>4. ASSUME NEW f \in Command
        PROVE  /\ LosesOnlyExpired(mod_flow_strict(ft, f, time), time)
               /\ LosesOnlyExpired(mod_flow_non_strict(ft, f, time), time)
    BY <2>2, ModStrictKeeps, ModNonStrict
  <2>5. LosesOnlyExpired(flow_table_stats(ft, {}, {}, time), time)
    BY <2>2, StatsKeeps
  <2> QED
    BY <2>3, <2>4, <2>5
<1> QED
  BY <1>1, TableSound, PTL

(* A non-strict delete takes exactly the flows whose match is at least as  *)
(* specific as the one given, and a non-strict modify changes exactly      *)
(* those that have not expired, although the code tests the mini table's   *)
(* mask and the flow's key apart.                                          *)
THEOREM NonStrictExactHolds == Spec => []NonStrictExact
<1>1. TableInv => NonStrictExact
  <2> SUFFICES ASSUME Sound(ft), NEW f \in Command
               PROVE  /\ Flows(del_flow_non_strict(ft, f)) = Undeleted(f, Flows(ft))
                      /\ \A time \in Time : Flows(mod_flow_non_strict(ft, f, time))
                                              = Modified(f, Flows(ft), time)
    BY DEF NonStrictExact, TableInv
  <2> QED
    BY DelNonStrict, ModNonStrict
<1> QED
  BY <1>1, TableSound, PTL
=============================================================================
