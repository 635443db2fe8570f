------------------------ MODULE VmMessageQueueProofs ------------------------
(***************************************************************************)
(* Proofs about VmMessageQueue, for any tasks, recipient lists, ids,       *)
(* delays and conditions, and any width of the millisecond counter.        *)
(***************************************************************************)
EXTENDS VmMessageQueue, SequenceTheorems, FiniteSetTheorems, WellFoundedInduction, TLAPS

-----------------------------------------------------------------------------
(* First elements, insertion and removal.                                  *)

LEMMA LeastNumber ==
    ASSUME NEW S \in SUBSET Nat, S # {}
    PROVE  /\ Min(S) \in S
           /\ \A k \in S : Min(S) <= k
<1>1. PICK m \in S : \A k \in S : ~(<<k, m>> \in OpToRel(<, Nat))
  BY WFMin, NatLessThanWellFounded
<1>2. \A k \in S : m <= k
  <2>1. \A k \in S : ~(k < m) BY <1>1 DEF OpToRel
  <2> QED BY <2>1
<1> QED BY <1>2 DEF Min

LEMMA InsertProperties ==
    ASSUME NEW S, NEW s \in Seq(S), NEW e \in S, NEW i \in 1..Len(s) + 1
    PROVE  /\ InsertAt(s, i, e) \in Seq(S)
           /\ Len(InsertAt(s, i, e)) = Len(s) + 1
           /\ \A j \in 1..Len(s) + 1 :
                 InsertAt(s, i, e)[j] = IF j < i THEN s[j] ELSE IF j = i THEN e ELSE s[j - 1]
<1> DEFINE a == SubSeq(s, 1, i - 1)
           b == SubSeq(s, i, Len(s))
           c == a \o <<e>>
<1>1. Len(s) \in Nat /\ \A j \in 1..Len(s) : s[j] \in S BY LenProperties, ElementOfSeq
<1>2. a \in Seq(S) /\ Len(a) = i - 1 /\ \A j \in 1..i - 1 : a[j] = s[j]
  <2>1. \A j \in 1..i - 1 : s[j] \in S BY <1>1
  <2> QED BY <1>1, <2>1, SubSeqProperties
<1>3. b \in Seq(S) /\ Len(b) = Len(s) - i + 1 /\ \A j \in 1..Len(s) - i + 1 : b[j] = s[i + j - 1]
  <2>1. \A j \in i..Len(s) : s[j] \in S BY <1>1
  <2> QED BY <1>1, <2>1, SubSeqProperties
<1>4. <<e>> \in Seq(S) /\ Len(<<e>>) = 1 /\ <<e>>[1] = e OBVIOUS
<1>5. InsertAt(s, i, e) = c \o b BY DEF InsertAt
<1> HIDE DEF a, b
<1>6. c \in Seq(S) /\ Len(c) = i /\ \A j \in 1..i : c[j] = IF j < i THEN s[j] ELSE e
  <2>1. /\ c \in Seq(S) /\ Len(c) = Len(a) + Len(<<e>>)
        /\ \A j \in 1..Len(a) + Len(<<e>>) : c[j] = IF j <= Len(a) THEN a[j] ELSE <<e>>[j - Len(a)]
    BY <1>2, <1>4, ConcatProperties
  <2> QED BY <1>1, <1>2, <1>4, <2>1
<1> HIDE DEF c
<1>7. /\ c \o b \in Seq(S) /\ Len(c \o b) = Len(c) + Len(b)
      /\ \A j \in 1..Len(c) + Len(b) : (c \o b)[j] = IF j <= Len(c) THEN c[j] ELSE b[j - Len(c)]
  BY <1>3, <1>6, ConcatProperties
<1>8. ASSUME NEW j \in 1..Len(s) + 1
      PROVE  (c \o b)[j] = IF j < i THEN s[j] ELSE IF j = i THEN e ELSE s[j - 1]
  <2>1. CASE j <= i
    <3>1. j \in 1..Len(c) /\ j \in 1..Len(c) + Len(b) BY <1>1, <1>3, <1>6, <2>1
    <3>2. (c \o b)[j] = c[j] BY <1>7, <3>1
    <3>3. j \in 1..i BY <1>6, <3>1
    <3>4. c[j] = IF j < i THEN s[j] ELSE e BY ONLY <1>6, <3>3
    <3>5. j < i \/ j = i BY <1>1, <2>1
    <3> QED BY ONLY <3>2, <3>4, <3>5
  <2>2. CASE j > i
    <3>1. j - i \in 1..Len(s) - i + 1 BY <1>1, <2>2
    <3>2. b[j - i] = s[i + (j - i) - 1] BY <1>3, <3>1
    <3> QED BY <1>1, <1>3, <1>6, <1>7, <2>2, <3>2
  <2>3. j <= i \/ j > i BY <1>1
  <2> QED BY <2>1, <2>2, <2>3
<1>9. c \o b \in Seq(S) /\ Len(c \o b) = Len(s) + 1 BY <1>1, <1>3, <1>6, <1>7
<1> QED BY ONLY <1>5, <1>8, <1>9

LEMMA RemoveProperties ==
    ASSUME NEW S, NEW s \in Seq(S), NEW i \in 1..Len(s)
    PROVE  /\ RemoveAt(s, i) \in Seq(S)
           /\ Len(RemoveAt(s, i)) = Len(s) - 1
           /\ \A j \in 1..Len(s) - 1 : RemoveAt(s, i)[j] = IF j < i THEN s[j] ELSE s[j + 1]
<1> DEFINE a == SubSeq(s, 1, i - 1)
           b == SubSeq(s, i + 1, Len(s))
<1>1. Len(s) \in Nat /\ \A j \in 1..Len(s) : s[j] \in S BY LenProperties, ElementOfSeq
<1>2. a \in Seq(S) /\ Len(a) = i - 1 /\ \A j \in 1..i - 1 : a[j] = s[j]
  <2>1. \A j \in 1..i - 1 : s[j] \in S BY <1>1
  <2> QED BY <1>1, <2>1, SubSeqProperties
<1>3. b \in Seq(S) /\ Len(b) = Len(s) - i /\ \A j \in 1..Len(s) - i : b[j] = s[i + j]
  <2>1. \A j \in i + 1..Len(s) : s[j] \in S BY <1>1
  <2>2. /\ b \in Seq(S) /\ Len(b) = IF i + 1 <= Len(s) THEN Len(s) - (i + 1) + 1 ELSE 0
        /\ \A j \in 1..Len(s) - (i + 1) + 1 : b[j] = s[i + 1 + j - 1]
    BY <1>1, <2>1, SubSeqProperties
  <2>3. \A j \in 1..Len(s) - i : i + 1 + j - 1 = i + j BY <1>1
  <2> HIDE DEF b
  <2> QED BY <1>1, <2>2, <2>3
<1>4. RemoveAt(s, i) = a \o b BY DEF RemoveAt
<1> HIDE DEF a, b
<1>5. /\ a \o b \in Seq(S) /\ Len(a \o b) = Len(a) + Len(b)
      /\ \A j \in 1..Len(a) + Len(b) : (a \o b)[j] = IF j <= Len(a) THEN a[j] ELSE b[j - Len(a)]
  BY <1>2, <1>3, ConcatProperties
<1>6. ASSUME NEW j \in 1..Len(s) - 1
      PROVE  (a \o b)[j] = IF j < i THEN s[j] ELSE s[j + 1]
  <2>1. CASE j < i BY <1>1, <1>2, <1>3, <1>5, <2>1
  <2>2. CASE j >= i
    <3>1. j - (i - 1) \in 1..Len(s) - i BY <1>1, <2>2
    <3>2. b[j - (i - 1)] = s[i + (j - (i - 1))] BY <1>3, <3>1
    <3>3. i + (j - (i - 1)) = j + 1 BY <1>1
    <3> QED BY <1>1, <1>2, <1>3, <1>5, <2>2, <3>2, <3>3
  <2>3. j < i \/ j >= i BY <1>1
  <2> QED BY <2>1, <2>2, <2>3
<1>7. a \o b \in Seq(S) /\ Len(a \o b) = Len(s) - 1 BY <1>1, <1>2, <1>3, <1>5
<1> QED BY ONLY <1>4, <1>6, <1>7

\* A task is taken out of a list of recipients.
LEMMA RemoveFirstProperties ==
    ASSUME NEW S, NEW s \in Seq(S), IsInjective(s), NEW t, Contains(s, t)
    PROVE  /\ RemoveFirst(s, t) \in Seq(S) /\ Len(RemoveFirst(s, t)) = Len(s) - 1
           /\ IsInjective(RemoveFirst(s, t))
           /\ \A u : Contains(RemoveFirst(s, t), u) <=> Contains(s, u) /\ u # t
<1> DEFINE I == {i \in 1..Len(s) : s[i] = t}
           k == Min(I)
           r == RemoveAt(s, k)
<1>1. Len(s) \in Nat /\ DOMAIN s = 1..Len(s) BY LenProperties
<1>2. k \in 1..Len(s) /\ s[k] = t
  <2>1. I \in SUBSET Nat /\ I # {} BY <1>1 DEF Contains
  <2>2. k \in I BY <2>1, LeastNumber
  <2> QED BY <2>2
<1>3. RemoveFirst(s, t) = r
  <2>1. I # {} BY <1>2
  <2>2. SelectInSeq(s, LAMBDA v : v = t) = k BY <2>1 DEF SelectInSeq
  <2> QED BY <1>2, <2>2 DEF RemoveFirst
<1> HIDE DEF k
<1>4. /\ r \in Seq(S) /\ Len(r) = Len(s) - 1
      /\ \A j \in 1..Len(s) - 1 : r[j] = IF j < k THEN s[j] ELSE s[j + 1]
  BY <1>2, RemoveProperties
<1> HIDE DEF r
<1>5. DOMAIN r = 1..Len(s) - 1 BY <1>4, LenProperties
<1> DEFINE From(j) == IF j < k THEN j ELSE j + 1
<1>6. \A j \in 1..Len(s) - 1 : r[j] = s[From(j)] /\ From(j) \in 1..Len(s) /\ From(j) # k
  BY <1>1, <1>2, <1>4
<1>7. \A i, j \in 1..Len(s) : s[i] = s[j] => i = j BY <1>1 DEF IsInjective
<1>8. IsInjective(r)
  <2>1. \A i, j \in 1..Len(s) - 1 : From(i) = From(j) => i = j BY <1>1, <1>2
  <2>2. \A i, j \in 1..Len(s) - 1 : r[i] = r[j] => i = j BY <1>6, <1>7, <2>1
  <2> QED BY <1>5, <2>2 DEF IsInjective
<1>9. ASSUME NEW u PROVE Contains(r, u) <=> Contains(s, u) /\ u # t
  <2>1. ASSUME Contains(r, u) PROVE Contains(s, u) /\ u # t
    <3>1. PICK j \in 1..Len(s) - 1 : r[j] = u BY <1>4, <2>1 DEF Contains
    <3>2. s[From(j)] = u /\ From(j) \in 1..Len(s) /\ From(j) # k BY <1>6, <3>1
    <3> QED BY <1>2, <1>7, <3>2 DEF Contains
  <2>2. ASSUME Contains(s, u), u # t PROVE Contains(r, u)
    <3>1. PICK i \in 1..Len(s) : s[i] = u BY <2>2 DEF Contains
    <3>2. i # k BY <1>2, <2>2, <3>1
    <3>3. CASE i < k BY <1>1, <1>2, <1>4, <3>1, <3>3 DEF Contains
    <3>4. CASE i > k
      <4>1. i - 1 \in 1..Len(s) - 1 /\ ~(i - 1 < k) /\ (i - 1) + 1 = i BY <1>1, <1>2, <3>4
      <4>2. r[i - 1] = s[i] BY <1>4, <4>1
      <4> QED BY <1>4, <3>1, <4>1, <4>2 DEF Contains
    <3> QED BY <1>1, <1>2, <3>2, <3>3, <3>4
  <2> QED BY <2>1, <2>2
<1> QED BY <1>3, <1>4, <1>8, <1>9
-----------------------------------------------------------------------------
(* What is left of a queue when messages without recipients are freed.     *)
(* Kept is a recursive function on the queue: that there is one, and what  *)
(* it returns, is by induction on the length.                              *)

IsKept(f, q, n) ==
    f = [i \in 0..n |->
            IF i = 0 THEN <<>>
            ELSE IF q[i].to = <<>> THEN f[i - 1] ELSE Append(f[i - 1], q[i])]

LEMMA KeptExists ==
    ASSUME NEW q, NEW n \in Nat
    PROVE  \E f : IsKept(f, q, n)
<1> DEFINE S == {k \in Nat : ~ \E f : IsKept(f, q, k)}
           Grow(g, i) == IF q[i].to = <<>> THEN g ELSE Append(g, q[i])
<1>1. SUFFICES ASSUME S # {} PROVE FALSE OBVIOUS
<1> DEFINE m == Min(S)
<1>2. m \in S /\ \A k \in S : m <= k
  <2>1. S \in SUBSET Nat OBVIOUS
  <2> HIDE DEF S
  <2> QED BY <1>1, <2>1, LeastNumber
<1> HIDE DEF m
<1>3. m \in Nat /\ ~ \E f : IsKept(f, q, m) BY <1>2
<1>4. m # 0
  <2> DEFINE g == [i \in 0..0 |-> <<>>]
  <2>1. IsKept(g, q, 0) BY DEF IsKept
  <2> QED BY <1>3, <2>1
<1>5. PICK f : IsKept(f, q, m - 1)
  <2>1. m - 1 \in Nat /\ ~(m <= m - 1) BY <1>3, <1>4
  <2>2. m - 1 \notin S BY <1>2, <2>1
  <2> QED BY <2>1, <2>2
<1> HIDE DEF S
<1> DEFINE g == [i \in 0..m |-> IF i = m THEN Grow(f[m - 1], m) ELSE f[i]]
<1>6. ASSUME NEW i \in 0..m
      PROVE  g[i] = IF i = 0 THEN <<>> ELSE Grow(g[i - 1], i)
  <2>1. CASE i = m
    <3>1. g[m] = Grow(f[m - 1], m) /\ g[m - 1] = f[m - 1] BY <1>3, <1>4
    <3> HIDE DEF g
    <3> QED BY <1>4, <2>1, <3>1
  <2>2. CASE i # m
    <3>1. i \in 0..m - 1 /\ g[i] = f[i] /\ (i # 0 => g[i - 1] = f[i - 1]) BY <1>3, <2>2
    <3> HIDE DEF g
    <3>2. f[i] = IF i = 0 THEN <<>> ELSE Grow(f[i - 1], i) BY <1>5, <3>1 DEF IsKept
    <3> QED BY <3>1, <3>2
  <2> QED BY <2>1, <2>2
<1>7. g = [i \in 0..m |-> g[i]] OBVIOUS
<1> HIDE DEF g
<1>8. IsKept(g, q, m) BY <1>6, <1>7 DEF IsKept
<1> QED BY <1>3, <1>8

\* k is what the first n messages of q leave: those with recipients, in order.
Picks(p, k, q, n) ==
    /\ p \in [1..Len(k) -> 1..n]
    /\ \A i, j \in 1..Len(k) : i < j => p[i] < p[j]
    /\ \A i \in 1..Len(k) : k[i] = q[p[i]] /\ q[p[i]].to # <<>>
    /\ \A j \in 1..n : q[j].to # <<>> => \E i \in 1..Len(k) : p[i] = j

LEMMA PicksGrow ==
    ASSUME NEW S, NEW q \in Seq(S), NEW n \in 1..Len(q), NEW k \in Seq(S), NEW p, Picks(p, k, q, n - 1)
    PROVE  \E r : Picks(r, IF q[n].to = <<>> THEN k ELSE Append(k, q[n]), q, n)
<1>0. Len(q) \in Nat /\ Len(k) \in Nat /\ q[n] \in S BY LenProperties, ElementOfSeq
<1>1. CASE q[n].to = <<>>
  <2>1. p \in [1..Len(k) -> 1..n] BY <1>0 DEF Picks
  <2>2. \A j \in 1..n : q[j].to # <<>> => j \in 1..n - 1 BY <1>0, <1>1
  <2>3. Picks(p, k, q, n) BY <2>1, <2>2 DEF Picks
  <2> QED BY <1>1, <2>3
<1>2. CASE q[n].to # <<>>
  <2> DEFINE a == Append(k, q[n])
             r == [i \in 1..Len(k) + 1 |-> IF i = Len(k) + 1 THEN n ELSE p[i]]
  <2>1. /\ Len(a) = Len(k) + 1 /\ a[Len(k) + 1] = q[n]
        /\ \A i \in 1..Len(k) : a[i] = k[i]
    BY <1>0, AppendProperties
  <2>2. /\ r[Len(k) + 1] = n
        /\ \A i \in 1..Len(k) : r[i] = p[i] /\ r[i] \in 1..n - 1
    BY <1>0 DEF Picks
  <2>3. r \in [1..Len(k) + 1 -> 1..n] BY <1>0 DEF Picks
  <2> HIDE DEF a, r
  <2>4. \A i \in 1..Len(k) + 1 : i = Len(k) + 1 \/ i \in 1..Len(k) BY <1>0
  <2>5. ASSUME NEW i \in 1..Len(k) + 1, NEW j \in 1..Len(k) + 1, i < j PROVE r[i] < r[j]
    <3>1. i \in 1..Len(k) BY <1>0, <2>5
    <3>2. CASE j = Len(k) + 1 BY <1>0, <2>2, <3>1, <3>2
    <3>3. CASE j \in 1..Len(k) BY <2>2, <2>5, <3>1, <3>3 DEF Picks
    <3> QED BY <2>4, <3>2, <3>3
  <2>6. ASSUME NEW i \in 1..Len(k) + 1 PROVE a[i] = q[r[i]] /\ q[r[i]].to # <<>>
    <3>1. CASE i = Len(k) + 1 BY <1>2, <2>1, <2>2, <3>1
    <3>2. CASE i \in 1..Len(k) BY <2>1, <2>2, <3>2 DEF Picks
    <3> QED BY <2>4, <3>1, <3>2
  <2>7. ASSUME NEW j \in 1..n, q[j].to # <<>> PROVE \E i \in 1..Len(k) + 1 : r[i] = j
    <3>1. CASE j = n BY <1>0, <2>2, <3>1
    <3>2. CASE j # n
      <4>1. j \in 1..n - 1 BY <1>0, <3>2
      <4>2. PICK i \in 1..Len(k) : p[i] = j BY <2>7, <4>1 DEF Picks
      <4> QED BY <1>0, <2>2, <4>2
    <3> QED BY <3>1, <3>2
  <2>8. Picks(r, a, q, n) BY <2>1, <2>3, <2>5, <2>6, <2>7 DEF Picks
  <2> QED BY <1>2, <2>8 DEF a
<1> QED BY <1>1, <1>2

LEMMA KeptPicks ==
    ASSUME NEW S, NEW q \in Seq(S)
    PROVE  /\ Kept(q) \in Seq(S)
           /\ \E p : Picks(p, Kept(q), q, Len(q))
<1>0. Len(q) \in Nat /\ \A i \in 1..Len(q) : q[i] \in S BY LenProperties, ElementOfSeq
<1> DEFINE f == CHOOSE f : IsKept(f, q, Len(q))
<1>1. IsKept(f, q, Len(q)) BY <1>0, KeptExists
<1>2. Kept(q) = f[Len(q)] BY DEF Kept, IsKept
<1> HIDE DEF f
<1> DEFINE Grow(g, i) == IF q[i].to = <<>> THEN g ELSE Append(g, q[i])
           Good(n) == f[n] \in Seq(S) /\ \E p : Picks(p, f[n], q, n)
           T == {n \in 0..Len(q) : ~Good(n)}
<1>3. f[0] = <<>> /\ \A i \in 1..Len(q) : f[i] = Grow(f[i - 1], i)
  <2>1. 0 \in 0..Len(q) /\ \A i \in 1..Len(q) : i \in 0..Len(q) /\ i # 0 BY <1>0
  <2>2. \A i \in 0..Len(q) :
           f[i] = IF i = 0 THEN <<>> ELSE IF q[i].to = <<>> THEN f[i - 1] ELSE Append(f[i - 1], q[i])
    BY <1>1 DEF IsKept
  <2> QED BY <2>1, <2>2
<1>4. Good(0)
  <2> DEFINE p == [i \in 1..0 |-> 0]
  <2>1. f[0] \in Seq(S) /\ Len(f[0]) = 0 BY <1>3, EmptySeq
  <2>2. Picks(p, f[0], q, 0) BY <2>1 DEF Picks
  <2> QED BY <2>1, <2>2
<1>5. ASSUME NEW n \in 1..Len(q), Good(n - 1) PROVE Good(n)
  <2>1. PICK p : Picks(p, f[n - 1], q, n - 1) BY <1>5
  <2>2. \E r : Picks(r, Grow(f[n - 1], n), q, n) BY <1>5, <2>1, PicksGrow
  <2>3. Grow(f[n - 1], n) \in Seq(S) BY <1>0, <1>5, AppendProperties
  <2> HIDE DEF Grow
  <2> QED BY <1>3, <2>2, <2>3
<1>6. T = {}
  <2>1. SUFFICES ASSUME T # {} PROVE FALSE OBVIOUS
  <2> DEFINE m == Min(T)
  <2>2. m \in T /\ \A k \in T : m <= k
    <3>1. T \in SUBSET Nat OBVIOUS
    <3> HIDE DEF T
    <3> QED BY <2>1, <3>1, LeastNumber
  <2> HIDE DEF m, Good
  <2>3. m \in 0..Len(q) /\ ~Good(m) BY <2>2
  <2>4. m \in 1..Len(q) /\ m - 1 \in 0..Len(q) /\ ~(m <= m - 1) BY <1>0, <1>4, <2>3
  <2>5. Good(m - 1) BY <2>2, <2>4
  <2> QED BY <1>5, <2>3, <2>4, <2>5
<1> HIDE DEF Good
<1>7. Good(Len(q)) BY <1>0, <1>6
<1> QED BY <1>2, <1>7 DEF Good
-----------------------------------------------------------------------------
(* Times: as long as two times are less than half a round apart, VM_DIFF   *)
(* of the counter's values is their difference.                            *)

LEMMA DivMod ==
    ASSUME NEW M \in Nat \ {0}, NEW a \in Int
    PROVE  /\ a % M \in 0..M - 1 /\ a \div M \in Int
           /\ a = (a \div M) * M + (a % M)
BY SMT

LEMMA SmallMultiple ==
    ASSUME NEW M \in Nat \ {0}, NEW k \in Int, k * M < M, -M < k * M
    PROVE  k = 0
<1>1. CASE k >= 1 BY <1>1, k * M >= M, SMT
<1>2. CASE k <= -1 BY <1>2, k * M <= -M, SMT
<1> QED BY <1>1, <1>2, SMT

LEMMA Wrap == W \in Nat \ {0}
BY Numbers, SMT

LEMMA DiffOfNear ==
    ASSUME NEW t \in Nat, NEW u \in Nat, 2 * (t - u) < W, 2 * (u - t) < W
    PROVE  Diff(t % W, u % W) = t - u
<1> DEFINE h == W \div 2
           x == ((t % W) - (u % W)) + h
           k == ((t \div W) - (u \div W)) + (x \div W)
<1>1. h \in Nat /\ 2 * h <= W /\ W < 2 * h + 2 BY Wrap, SMT
<1> HIDE DEF h
<1>2. /\ t = (t \div W) * W + (t % W) /\ t \div W \in Int /\ t % W \in 0..W - 1
      /\ u = (u \div W) * W + (u % W) /\ u \div W \in Int /\ u % W \in 0..W - 1
  BY Wrap, DivMod
<1>3. x \in Int BY <1>1, <1>2
<1>4. x = (x \div W) * W + (x % W) /\ x \div W \in Int /\ x % W \in 0..W - 1
  <2> HIDE DEF x
  <2> QED BY <1>3, Wrap, DivMod
<1>5. (t - u) + h = ((t \div W) - (u \div W)) * W + x
  <2>1. \A a, b \in Int : (a - b) * W = a * W - b * W BY Wrap, SMT
  <2>2. ((t \div W) - (u \div W)) * W = (t \div W) * W - (u \div W) * W BY <1>2, <2>1
  <2> DEFINE tw == (t \div W) * W
             uw == (u \div W) * W
  <2>3. tw \in Int /\ uw \in Int BY <1>2, Wrap, SMT
  <2>4. t = tw + (t % W) /\ u = uw + (u % W) /\ t % W \in Int /\ u % W \in Int BY <1>2
  <2>5. ((t \div W) - (u \div W)) * W = tw - uw BY <2>2
  <2>6. x = (t % W) - (u % W) + h OBVIOUS
  <2> HIDE DEF tw, uw, x
  <2>7. (t - u) + h = (tw - uw) + x BY <1>1, <2>3, <2>4, <2>6
  <2> QED BY <2>5, <2>7
<1> HIDE DEF x
<1>6. ((t - u) + h) - (x % W) = k * W /\ k \in Int BY <1>2, <1>3, <1>4, <1>5, Wrap, SMT
<1>7. (t - u) + h \in 0..W - 1 BY <1>1, Wrap, SMT
<1> HIDE DEF k
<1>8. k * W < W /\ -W < k * W BY <1>4, <1>6, <1>7, Wrap, SMT
<1>9. k = 0 BY <1>6, <1>8, SmallMultiple, Wrap
<1>10. x % W = (t - u) + h BY <1>1, <1>4, <1>6, <1>9, Wrap, SMT
<1> QED BY <1>1, <1>10 DEF Diff, x, h
-----------------------------------------------------------------------------
(* The invariant of the queue: every message has recipients, each once; no *)
(* two have the same number; all are due within half a round of each other *)
(* and of whatever is sent next; and they are in the order they are due,   *)
(* and of those due together in the order they were sent.                  *)

BaseTypes ==
    /\ queue \in Seq(Message) /\ left \in Seq(Tasks)
    /\ event \in BOOLEAN /\ timer \in Nat \cup {NoTimer}
    /\ blocked \subseteq Conditions /\ registered \subseteq Tasks
    /\ now \in Nat /\ sent \in Nat
    /\ owed \subseteq Tasks \X Ids \X (Values \cup {NoValue})

Addressed(q) == \A i \in 1..Len(q) : q[i].to # <<>> /\ IsInjective(q[i].to)

NumbersOnce(q) ==
    /\ \A i \in 1..Len(q) : q[i].num > 0 /\ q[i].num <= sent
    /\ \A i, j \in 1..Len(q) : q[i].num = q[j].num => i = j

TimesNear(q) ==
    \A i \in 1..Len(q) :
        /\ q[i].due = q[i].at % W
        /\ 2 * (q[i].at - now) < W
        /\ \A d \in Delays : 2 * (now + d - q[i].at) < W

Before(m, n) == m.at < n.at \/ (m.at = n.at /\ m.num < n.num)

InOrder(q) == \A i, j \in 1..Len(q) : i < j => Before(q[i], q[j])

QueueInv ==
    /\ BaseTypes
    /\ Addressed(queue) /\ NumbersOnce(queue) /\ TimesNear(queue) /\ InOrder(queue)

LEMMA QueueTypes ==
    ASSUME BaseTypes
    PROVE  /\ Len(queue) \in Nat /\ DOMAIN queue = 1..Len(queue)
           /\ \A i \in 1..Len(queue) :
                 /\ queue[i] \in Message /\ queue[i].num \in Nat /\ queue[i].id \in Ids
                 /\ queue[i].at \in Nat /\ queue[i].to \in Seq(Tasks)
<1>1. Len(queue) \in Nat /\ DOMAIN queue = 1..Len(queue) BY LenProperties DEF BaseTypes
<1>2. \A i \in 1..Len(queue) : queue[i] \in Message BY ElementOfSeq DEF BaseTypes
<1> QED BY <1>1, <1>2 DEF Message

\* A message as the application or the system sends it.
Sendable(m) ==
    /\ m \in Message /\ m.num = sent + 1
    /\ m.to # <<>> /\ IsInjective(m.to)
    /\ \E d \in Delays : m.at = now + d
    /\ m.due = m.at % W

LEMMA MessagesAreSendable ==
    ASSUME BaseTypes, NEW id \in Ids, NEW v \in Values \cup {NoValue}, NEW to \in Seq(Tasks),
           to # <<>>, IsInjective(to), NEW c \in Conditions \cup {NoCondition}, NEW d \in Delays
    PROVE  Sendable(Msg(id, v, to, c, d))
<1>1. now + d \in Nat /\ sent + 1 \in Nat BY Numbers DEF BaseTypes
<1>2. (now + d) % W \in 0..W - 1
  <2>1. now + d \in Int BY <1>1
  <2> QED BY <2>1, Wrap, DivMod
<1>3. Msg(id, v, to, c, d) \in Message BY <1>1, <1>2 DEF Msg, Message
<1> QED BY <1>3 DEF Msg, Sendable

LEMMA PlaceProperties ==
    ASSUME QueueInv, NEW m, Sendable(m)
    PROVE  /\ Place(m) \in 1..Len(queue) + 1
           /\ \A j \in 1..Len(queue) : j < Place(m) => queue[j].at <= m.at
           /\ Place(m) <= Len(queue) => queue[Place(m)].at > m.at
<1> DEFINE a == Append(queue, m)
           I == {i \in 1..Len(a) : a[i] = m \/ Diff(m.due, a[i].due) < 0}
<1>1. Len(queue) \in Nat /\ \A i \in 1..Len(queue) : queue[i].at \in Nat /\ queue[i].num \in Nat
  BY QueueTypes DEF QueueInv
<1>2. Len(a) = Len(queue) + 1 /\ a[Len(queue) + 1] = m /\ \A i \in 1..Len(queue) : a[i] = queue[i]
  BY AppendProperties DEF QueueInv, BaseTypes, Sendable
<1> HIDE DEF a
<1>3. Len(queue) + 1 \in I BY <1>1, <1>2
<1>4. Place(m) = Min(I) BY <1>3 DEF Place, SelectInSeq, a
<1>5. Min(I) \in I /\ \A k \in I : Min(I) <= k
  <2>1. I \in SUBSET Nat /\ I # {} BY <1>3
  <2> QED BY <2>1, LeastNumber
<1>6. Place(m) \in 1..Len(queue) + 1 BY <1>2, <1>4, <1>5
<1>7. m.at \in Nat /\ now \in Nat /\ sent \in Nat BY DEF Sendable, Message, QueueInv, BaseTypes
<1>8. ASSUME NEW i \in 1..Len(queue) PROVE i \in I <=> queue[i].at > m.at
  <2>1. queue[i] # m BY <1>1, <1>7 DEF QueueInv, NumbersOnce, Sendable
  <2>2. PICK d \in Delays : m.at = now + d BY DEF Sendable
  <2>3. 2 * (now + d - queue[i].at) < W BY DEF QueueInv, TimesNear
  <2>4. 2 * (queue[i].at - now) < W /\ d \in Nat BY <2>2, Numbers DEF QueueInv, TimesNear
  <2>5. 2 * (queue[i].at - m.at) < W BY <1>1, <1>7, <2>2, <2>4, Wrap, SMT
  <2>6. Diff(m.due, queue[i].due) = m.at - queue[i].at
    <3>1. 2 * (m.at - queue[i].at) < W BY <1>1, <1>7, <2>2, <2>3, <2>4
    <3>2. Diff(m.at % W, queue[i].at % W) = m.at - queue[i].at
      BY <1>1, <1>7, <2>5, <3>1, DiffOfNear
    <3> QED BY <3>2 DEF QueueInv, TimesNear, Sendable
  <2>7. i \in 1..Len(a) /\ a[i] = queue[i] BY <1>1, <1>2
  <2>8. i \in I <=> m.at - queue[i].at < 0 BY <2>1, <2>6, <2>7
  <2> QED BY <1>1, <1>7, <2>8
<1> HIDE DEF I
<1>9. ASSUME NEW j \in 1..Len(queue), j < Place(m) PROVE queue[j].at <= m.at
  <2>1. j \notin I BY <1>4, <1>5, <1>6, <1>9
  <2> QED BY <1>1, <1>7, <1>8, <2>1
<1>10. Place(m) <= Len(queue) => queue[Place(m)].at > m.at
  BY <1>1, <1>4, <1>5, <1>6, <1>8
<1> QED BY <1>6, <1>9, <1>10

LEMMA InsertKeeps ==
    ASSUME QueueInv, NEW m, Sendable(m),
           queue' = InsertAt(queue, Place(m), m), sent' = sent + 1, now' = now
    PROVE  /\ queue' \in Seq(Message)
           /\ Addressed(queue)' /\ NumbersOnce(queue)' /\ TimesNear(queue)' /\ InOrder(queue)'
<1> DEFINE k == Place(m)
<1>1. /\ Len(queue) \in Nat /\ sent \in Nat /\ now \in Nat
      /\ \A i \in 1..Len(queue) : queue[i].at \in Nat /\ queue[i].num \in Nat
  BY QueueTypes DEF QueueInv, BaseTypes
<1>2. m \in Message /\ m.at \in Nat /\ m.num = sent + 1 BY DEF Sendable, Message
<1>3. /\ k \in 1..Len(queue) + 1
      /\ \A j \in 1..Len(queue) : j < k => queue[j].at <= m.at
      /\ k <= Len(queue) => queue[k].at > m.at
  BY PlaceProperties
<1> HIDE DEF k
<1>4. /\ queue' \in Seq(Message) /\ Len(queue') = Len(queue) + 1
      /\ \A j \in 1..Len(queue) + 1 :
            queue'[j] = IF j < k THEN queue[j] ELSE IF j = k THEN m ELSE queue[j - 1]
  <2>1. queue \in Seq(Message) BY DEF QueueInv, BaseTypes
  <2>2. queue' = InsertAt(queue, k, m) BY DEF k
  <2> DEFINE r == InsertAt(queue, k, m)
  <2>3. /\ r \in Seq(Message) /\ Len(r) = Len(queue) + 1
        /\ \A j \in 1..Len(queue) + 1 :
              r[j] = IF j < k THEN queue[j] ELSE IF j = k THEN m ELSE queue[j - 1]
    BY <1>2, <1>3, <2>1, InsertProperties
  <2> HIDE DEF r
  <2>4. queue' = r BY <2>2 DEF r
  <2> QED BY <2>3, <2>4
\* where an element of the new queue comes from: the old one, or m
<1> DEFINE From(j) == IF j < k THEN j ELSE j - 1
<1>5. ASSUME NEW j \in 1..Len(queue'), j # k
      PROVE  From(j) \in 1..Len(queue) /\ queue'[j] = queue[From(j)]
  <2>1. j \in 1..Len(queue) + 1 BY <1>4
  <2>2. CASE j < k BY <1>1, <1>3, <1>4, <2>1, <2>2
  <2>3. CASE j > k
    <3>1. j - 1 \in 1..Len(queue) /\ ~(j < k) BY <1>1, <1>3, <2>1, <2>3
    <3> QED BY <1>4, <1>5, <2>1, <3>1
  <2> QED BY <1>1, <1>3, <1>5, <2>1, <2>2, <2>3
<1>6. k \in 1..Len(queue') /\ queue'[k] = m BY <1>1, <1>3, <1>4
<1>7. Addressed(queue)'
  <2>1. ASSUME NEW j \in 1..Len(queue')
        PROVE  queue'[j].to # <<>> /\ IsInjective(queue'[j].to)
    <3>1. CASE j = k BY <1>6, <3>1 DEF Sendable
    <3>2. CASE j # k BY <1>5, <3>2 DEF QueueInv, Addressed
    <3> QED BY <3>1, <3>2
  <2> QED BY <2>1 DEF Addressed
<1>8. \A i \in 1..Len(queue) : queue[i].num > 0 /\ queue[i].num <= sent
  BY DEF QueueInv, NumbersOnce
<1>9. NumbersOnce(queue)'
  <2>1. ASSUME NEW j \in 1..Len(queue') PROVE queue'[j].num > 0 /\ queue'[j].num <= sent'
    <3>1. CASE j = k BY <1>1, <1>2, <1>6, <3>1
    <3>2. CASE j # k BY <1>1, <1>5, <1>8, <3>2
    <3> QED BY <3>1, <3>2
  <2>2. ASSUME NEW i \in 1..Len(queue'), NEW j \in 1..Len(queue'), queue'[i].num = queue'[j].num
        PROVE  i = j
    <3>1. CASE i = k /\ j # k
      <4>1. queue[From(j)].num <= sent /\ queue[From(j)].num = sent + 1 /\ queue[From(j)].num \in Nat
        BY <1>1, <1>2, <1>5, <1>6, <1>8, <2>2, <3>1
      <4> QED BY <1>1, <4>1
    <3>2. CASE i # k /\ j = k
      <4>1. queue[From(i)].num <= sent /\ queue[From(i)].num = sent + 1 /\ queue[From(i)].num \in Nat
        BY <1>1, <1>2, <1>5, <1>6, <1>8, <2>2, <3>2
      <4> QED BY <1>1, <4>1
    <3>3. CASE i # k /\ j # k
      <4>1. From(i) = From(j) BY <1>5, <2>2, <3>3 DEF QueueInv, NumbersOnce
      <4> QED BY <1>1, <1>3, <1>4, <3>3, <4>1
    <3> QED BY <3>1, <3>2, <3>3
  <2> QED BY <2>1, <2>2 DEF NumbersOnce
<1>10. TimesNear(queue)'
  <2>1. PICK d \in Delays : m.at = now + d BY DEF Sendable
  <2>2. ASSUME NEW j \in 1..Len(queue')
        PROVE  /\ queue'[j].due = queue'[j].at % W
               /\ 2 * (queue'[j].at - now) < W
               /\ \A e \in Delays : 2 * (now + e - queue'[j].at) < W
    <3>1. CASE j = k
      <4>1. m.due = m.at % W BY DEF Sendable
      <4>2. d \in Nat /\ 2 * d < W /\ \A e \in Delays : e \in Nat /\ 2 * e < W BY Numbers
      <4>3. 2 * (m.at - now) < W BY <1>1, <2>1, <4>2
      <4>4. \A e \in Delays : 2 * (now + e - m.at) < W BY <1>1, <2>1, <4>2, Wrap
      <4> QED BY <1>6, <3>1, <4>1, <4>3, <4>4
    <3>2. CASE j # k BY <1>5, <3>2 DEF QueueInv, TimesNear
    <3> QED BY <3>1, <3>2
  <2> QED BY <2>2 DEF TimesNear
<1>11. InOrder(queue)'
  <2>1. ASSUME NEW i \in 1..Len(queue), NEW j \in 1..Len(queue), i < j PROVE Before(queue[i], queue[j])
    BY <2>1 DEF QueueInv, InOrder
  <2>2. ASSUME NEW i \in 1..Len(queue'), NEW j \in 1..Len(queue'), i < j
        PROVE  Before(queue'[i], queue'[j])
    <3>1. CASE j = k
      <4>1. i # k /\ From(i) = i BY <1>4, <2>2, <3>1
      <4>2. queue'[i] = queue[i] /\ i \in 1..Len(queue) BY <1>5, <4>1
      <4> QED BY <1>1, <1>2, <1>3, <1>6, <1>8, <2>2, <3>1, <4>2 DEF Before
    <3>2. CASE i = k
      <4>1. j # k /\ From(j) = j - 1 BY <1>4, <2>2, <3>2
      <4>2. queue'[j] = queue[j - 1] /\ j - 1 \in 1..Len(queue) BY <1>5, <4>1
      <4>3. k <= j - 1 /\ k \in 1..Len(queue) BY <1>1, <1>3, <2>2, <3>2, <4>2
      <4>4. queue[k].at <= queue[j - 1].at
        <5>1. CASE k = j - 1 BY <1>1, <4>2, <5>1
        <5>2. CASE k < j - 1 BY <1>1, <2>1, <4>2, <4>3, <5>2 DEF Before
        <5> QED BY <1>1, <4>3, <5>1, <5>2
      <4>5. m.at < queue[j - 1].at BY <1>1, <1>2, <1>3, <4>2, <4>3, <4>4
      <4> QED BY <1>6, <3>2, <4>2, <4>5 DEF Before
    <3>3. CASE i # k /\ j # k
      <4>1. From(i) < From(j) BY <1>1, <1>3, <1>4, <2>2, <3>3
      <4>2. Before(queue[From(i)], queue[From(j)]) BY <1>5, <2>1, <3>3, <4>1
      <4> QED BY <1>5, <3>3, <4>2
    <3> QED BY <3>1, <3>2, <3>3
  <2> QED BY <2>2 DEF InOrder
<1> QED BY <1>4, <1>7, <1>9, <1>10, <1>11

\* r is what some messages of q, in their order, have become.
Thins(p, r, q) ==
    /\ p \in [1..Len(r) -> 1..Len(q)]
    /\ \A i, j \in 1..Len(r) : i < j => p[i] < p[j]
    /\ \A i \in 1..Len(r) :
          /\ r[i].num = q[p[i]].num /\ r[i].id = q[p[i]].id /\ r[i].cond = q[p[i]].cond
          /\ r[i].due = q[p[i]].due /\ r[i].at = q[p[i]].at

LEMMA ThinKeeps ==
    ASSUME QueueInv, queue' \in Seq(Message), NEW p, Thins(p, queue', queue),
           sent' = sent, now' = now
    PROVE  NumbersOnce(queue)' /\ TimesNear(queue)' /\ InOrder(queue)'
<1>1. Len(queue) \in Nat /\ Len(queue') \in Nat BY QueueTypes, LenProperties DEF QueueInv
<1>2. \A i \in 1..Len(queue') : p[i] \in 1..Len(queue) BY DEF Thins
<1>3. \A i, j \in 1..Len(queue') : p[i] = p[j] => i = j
  <2>1. ASSUME NEW i \in 1..Len(queue'), NEW j \in 1..Len(queue'), p[i] = p[j] PROVE i = j
    <3>1. ~(i < j) /\ ~(j < i) BY <1>1, <1>2, <2>1 DEF Thins
    <3> QED BY <1>1, <3>1
  <2> QED BY <2>1
<1>4. NumbersOnce(queue)'
  <2>1. \A i \in 1..Len(queue') : queue'[i].num > 0 /\ queue'[i].num <= sent'
    BY <1>2 DEF QueueInv, NumbersOnce, Thins
  <2>2. \A i, j \in 1..Len(queue') : queue'[i].num = queue'[j].num => i = j
    BY <1>2, <1>3 DEF QueueInv, NumbersOnce, Thins
  <2> QED BY <2>1, <2>2 DEF NumbersOnce
<1>5. TimesNear(queue)' BY <1>2 DEF QueueInv, TimesNear, Thins
<1>6. InOrder(queue)' BY <1>2 DEF QueueInv, InOrder, Thins, Before
<1> QED BY <1>4, <1>5, <1>6

LEMMA RemoveThins ==
    ASSUME QueueInv, NEW i \in 1..Len(queue)
    PROVE  /\ RemoveAt(queue, i) \in Seq(Message)
           /\ Len(RemoveAt(queue, i)) = Len(queue) - 1
           /\ \E p : /\ Thins(p, RemoveAt(queue, i), queue)
                     /\ \A j \in 1..Len(queue) - 1 :
                           p[j] # i /\ RemoveAt(queue, i)[j] = queue[p[j]]
                     /\ \A k \in 1..Len(queue) : k # i => \E j \in 1..Len(queue) - 1 : p[j] = k
<1> DEFINE r == RemoveAt(queue, i)
           p == [j \in 1..Len(queue) - 1 |-> IF j < i THEN j ELSE j + 1]
<1>1. Len(queue) \in Nat BY QueueTypes DEF QueueInv
<1>2. /\ r \in Seq(Message) /\ Len(r) = Len(queue) - 1
      /\ \A j \in 1..Len(queue) - 1 : r[j] = IF j < i THEN queue[j] ELSE queue[j + 1]
  BY RemoveProperties DEF QueueInv, BaseTypes
<1> HIDE DEF r
<1>3. \A j \in 1..Len(queue) - 1 :
         p[j] = (IF j < i THEN j ELSE j + 1) /\ p[j] \in 1..Len(queue) /\ p[j] # i
  BY <1>1
<1>4. p \in [1..Len(queue) - 1 -> 1..Len(queue)] BY <1>1
<1> HIDE DEF p
<1>5. \A j \in 1..Len(queue) - 1 : r[j] = queue[p[j]] BY <1>2, <1>3
<1>6. \A j, k \in 1..Len(queue) - 1 : j < k => p[j] < p[k] BY <1>1, <1>3
<1>7. Thins(p, r, queue) BY <1>2, <1>4, <1>5, <1>6 DEF Thins
<1>8. ASSUME NEW k \in 1..Len(queue), k # i PROVE \E j \in 1..Len(queue) - 1 : p[j] = k
  <2>1. CASE k < i BY <1>1, <1>3, <2>1
  <2>2. CASE k > i
    <3>1. k - 1 \in 1..Len(queue) - 1 /\ p[k - 1] = k BY <1>1, <1>3, <2>2
    <3> QED BY <3>1
  <2> QED BY <1>1, <1>8, <2>1, <2>2
<1>9. \A j \in 1..Len(queue) - 1 : p[j] # i /\ r[j] = queue[p[j]] BY <1>3, <1>5
<1> QED BY <1>2, <1>7, <1>8, <1>9 DEF r

\* What a cancellation for t makes of the message at i.
Marked(i, t, ids, upto) ==
    IF i <= upto /\ Hit(queue[i], t, ids) THEN Without(queue[i], t) ELSE queue[i]

LEMMA WithoutTask ==
    ASSUME NEW m \in Message, IsInjective(m.to), NEW t, Contains(m.to, t)
    PROVE  /\ Without(m, t) \in Message
           /\ Without(m, t).num = m.num /\ Without(m, t).id = m.id /\ Without(m, t).value = m.value
           /\ Without(m, t).cond = m.cond /\ Without(m, t).due = m.due /\ Without(m, t).at = m.at
           /\ Without(m, t).to = RemoveFirst(m.to, t) /\ IsInjective(Without(m, t).to)
           /\ \A u : Contains(Without(m, t).to, u) <=> Contains(m.to, u) /\ u # t
<1>1. m.to \in Seq(Tasks) BY DEF Message
<1>2. /\ RemoveFirst(m.to, t) \in Seq(Tasks) /\ IsInjective(RemoveFirst(m.to, t))
      /\ \A u : Contains(RemoveFirst(m.to, t), u) <=> Contains(m.to, u) /\ u # t
  BY <1>1, RemoveFirstProperties
<1> DEFINE to == RemoveFirst(m.to, t)
<1>3. Without(m, t) = [m EXCEPT !.to = to] BY DEF Without
<1> HIDE DEF to
<1>4. to \in Seq(Tasks) BY <1>2 DEF to
<1>5. [m EXCEPT !.to = to] \in Message BY <1>4 DEF Message
<1>6. LET n == [m EXCEPT !.to = to] IN
        /\ n.num = m.num /\ n.id = m.id /\ n.value = m.value
        /\ n.cond = m.cond /\ n.due = m.due /\ n.at = m.at /\ n.to = to
  BY DEF Message
<1> QED BY <1>2, <1>3, <1>5, <1>6 DEF to

LEMMA CancelledThins ==
    ASSUME QueueInv, NEW t, NEW ids, NEW upto
    PROVE  LET c == Cancelled(t, ids, upto)
           IN  /\ c \in Seq(Message) /\ Addressed(c)
               /\ \E p : /\ Thins(p, c, queue)
                         /\ \A i \in 1..Len(c) : c[i] = Marked(p[i], t, ids, upto)
                         /\ \A j \in 1..Len(queue) :
                               Marked(j, t, ids, upto).to # <<>> => \E i \in 1..Len(c) : p[i] = j
<1> DEFINE q == [i \in 1..Len(queue) |-> Marked(i, t, ids, upto)]
           c == Cancelled(t, ids, upto)
<1>1. /\ Len(queue) \in Nat /\ DOMAIN queue = 1..Len(queue)
      /\ \A i \in 1..Len(queue) : queue[i] \in Message
  BY QueueTypes DEF QueueInv
<1>2. c = Kept(q) BY <1>1 DEF Cancelled, Marked
<1>3. ASSUME NEW i \in 1..Len(queue)
      PROVE  LET m == Marked(i, t, ids, upto) IN
             /\ m \in Message /\ IsInjective(m.to)
             /\ m.num = queue[i].num /\ m.id = queue[i].id /\ m.cond = queue[i].cond
             /\ m.due = queue[i].due /\ m.at = queue[i].at
  <2>1. IsInjective(queue[i].to) BY DEF QueueInv, Addressed
  <2>2. CASE i <= upto /\ Hit(queue[i], t, ids)
    BY <1>1, <2>1, <2>2, WithoutTask DEF Marked, Hit
  <2>3. CASE ~(i <= upto /\ Hit(queue[i], t, ids))
    BY <1>1, <2>1, <2>3 DEF Marked
  <2> QED BY <2>2, <2>3
<1>4. q \in Seq(Message) /\ Len(q) = Len(queue)
  <2>1. q \in [1..Len(queue) -> Message] BY <1>3
  <2> HIDE DEF q
  <2>2. q \in Seq(Message) BY <1>1, <2>1, SeqDef
  <2>3. 1..Len(q) = 1..Len(queue) /\ Len(q) \in Nat BY <2>1, <2>2, LenProperties
  <2> QED BY <1>1, <2>2, <2>3
<1>5. \A i \in 1..Len(queue) : q[i] = Marked(i, t, ids, upto) OBVIOUS
<1> HIDE DEF q, c
<1>6. c \in Seq(Message) BY <1>2, <1>4, KeptPicks
<1>7. PICK p : Picks(p, c, q, Len(queue)) BY <1>2, <1>4, KeptPicks
<1>8. \A i \in 1..Len(c) :
         p[i] \in 1..Len(queue) /\ c[i] = Marked(p[i], t, ids, upto) /\ c[i].to # <<>>
  BY <1>5, <1>7 DEF Picks
<1>9. Addressed(c) BY <1>3, <1>8 DEF Addressed
<1>10. Thins(p, c, queue)
  <2>1. /\ p \in [1..Len(c) -> 1..Len(queue)]
        /\ \A i, j \in 1..Len(c) : i < j => p[i] < p[j]
    BY <1>7 DEF Picks
  <2>2. ASSUME NEW i \in 1..Len(c)
        PROVE  /\ c[i].num = queue[p[i]].num /\ c[i].id = queue[p[i]].id
               /\ c[i].cond = queue[p[i]].cond
               /\ c[i].due = queue[p[i]].due /\ c[i].at = queue[p[i]].at
    BY <1>3, <1>8
  <2> QED BY <2>1, <2>2 DEF Thins
<1>11. \A j \in 1..Len(queue) :
          Marked(j, t, ids, upto).to # <<>> => \E i \in 1..Len(c) : p[i] = j
  BY <1>5, <1>7 DEF Picks
<1>12. \A i \in 1..Len(c) : c[i] = Marked(p[i], t, ids, upto) BY <1>8
<1> QED BY <1>6, <1>9, <1>10, <1>11, <1>12 DEF c

\* A message combined with one in the queue only gives it its payload.
LEMMA CombinedProperties ==
    ASSUME BaseTypes, NEW m, m.value \in Values \cup {NoValue}, Already(m)
    PROVE  /\ Combined(m) \in Seq(Message) /\ Len(Combined(m)) = Len(queue)
           /\ \E i \in 1..Len(queue) :
                 /\ Similar(queue[i], m) \/ Replaceable(queue[i], m)
                 /\ Combined(m)[i].value = m.value
                 /\ \A j \in 1..Len(queue) : j # i => Combined(m)[j] = queue[j]
           /\ \A j \in 1..Len(queue) :
                 LET n == Combined(m)[j] IN
                 /\ n.num = queue[j].num /\ n.id = queue[j].id /\ n.to = queue[j].to
                 /\ n.cond = queue[j].cond /\ n.due = queue[j].due /\ n.at = queue[j].at
<1> DEFINE I == {k \in 1..Len(queue) : Similar(queue[k], m) \/ Replaceable(queue[k], m)}
           i == Min(I)
           n == [queue[i] EXCEPT !.value = m.value]
           c == [queue EXCEPT ![i] = n]
<1>1. /\ Len(queue) \in Nat /\ DOMAIN queue = 1..Len(queue)
      /\ \A k \in 1..Len(queue) : queue[k] \in Message
  BY QueueTypes
<1>2. I # {} BY <1>1 DEF Already
<1>3. i \in 1..Len(queue) /\ (Similar(queue[i], m) \/ Replaceable(queue[i], m))
  <2>1. I \in SUBSET Nat BY <1>1
  <2>2. i \in I BY <1>2, <2>1, LeastNumber
  <2> QED BY <2>2
<1>4. Combined(m) = c
  <2>1. SelectInSeq(queue, LAMBDA k : Similar(k, m) \/ Replaceable(k, m)) = i
    BY <1>2 DEF SelectInSeq
  <2> QED BY <2>1 DEF Combined
<1> HIDE DEF i
<1>5. queue[i] \in Message BY <1>1, <1>3
<1>6. /\ n \in Message /\ n.value = m.value
      /\ n.num = queue[i].num /\ n.id = queue[i].id /\ n.to = queue[i].to
      /\ n.cond = queue[i].cond /\ n.due = queue[i].due /\ n.at = queue[i].at
  BY <1>5 DEF Message
<1> HIDE DEF n
<1>7. /\ c \in Seq(Message) /\ Len(c) = Len(queue)
      /\ \A j \in 1..Len(queue) : c[j] = IF j = i THEN n ELSE queue[j]
  BY <1>3, <1>6, ExceptSeq DEF BaseTypes
<1> HIDE DEF c
<1> QED BY <1>3, <1>4, <1>6, <1>7
-----------------------------------------------------------------------------
(* The invariant of the queue is kept by every action.                     *)

LEMMA NextMessageProperties ==
    ASSUME BaseTypes
    PROVE  /\ NextMessage = 0 => \A i \in 1..Len(queue) : ~Clear(queue[i])
           /\ NextMessage # 0 =>
                 /\ NextMessage \in 1..Len(queue) /\ Clear(queue[NextMessage])
                 /\ \A i \in 1..Len(queue) : i < NextMessage => ~Clear(queue[i])
<1> DEFINE I == {k \in 1..Len(queue) : Clear(queue[k])}
<1>1. Len(queue) \in Nat BY QueueTypes
<1>2. NextMessage = IF I # {} THEN Min(I) ELSE 0 BY DEF NextMessage, SelectInSeq
<1>3. CASE I = {} BY <1>2, <1>3
<1>4. CASE I # {}
  <2>1. I \in SUBSET Nat BY <1>1
  <2>2. Min(I) \in I /\ \A k \in I : Min(I) <= k BY <1>4, <2>1, LeastNumber
  <2>3. NextMessage = Min(I) BY <1>2, <1>4
  <2>4. NextMessage \in 1..Len(queue) /\ Clear(queue[NextMessage]) BY <2>2, <2>3
  <2>5. \A i \in 1..Len(queue) : i < NextMessage => ~Clear(queue[i])
    <3>1. \A i \in I : ~(i < NextMessage) BY <1>1, <2>2, <2>3, <2>4
    <3> QED BY <3>1
  <2> QED BY <1>1, <2>4, <2>5
<1> QED BY <1>3, <1>4

\* How long a message has to wait, as the scheduler finds it.
LEMMA DueProperties ==
    ASSUME QueueInv, NEW i \in 1..Len(queue)
    PROVE  /\ Diff(queue[i].due, now % W) = queue[i].at - now
           /\ IsDue(i) <=> queue[i].at <= now
           /\ ~IsDue(i) => TimerFor(i) \in Nat /\ TimerFor(i) <= queue[i].at
<1>1. queue[i].at \in Nat /\ now \in Nat BY QueueTypes DEF QueueInv, BaseTypes
<1>2. 2 * (queue[i].at - now) < W /\ 2 * (now - queue[i].at) < W
  <2>1. 2 * (now + 0 - queue[i].at) < W BY Numbers DEF QueueInv, TimesNear
  <2> QED BY <1>1, <2>1 DEF QueueInv, TimesNear
<1>3. Diff(queue[i].at % W, now % W) = queue[i].at - now BY <1>1, <1>2, DiffOfNear
<1>4. Diff(queue[i].due, now % W) = queue[i].at - now
  <2>1. queue[i].due = queue[i].at % W BY DEF QueueInv, TimesNear
  <2> QED BY <1>3, <2>1
<1>5. IsDue(i) <=> queue[i].at <= now
  <2>1. IsDue(i) <=> queue[i].at - now <= 0 BY <1>4 DEF IsDue
  <2> QED BY <1>1, <2>1
<1>6. ASSUME ~IsDue(i) PROVE TimerFor(i) \in Nat /\ TimerFor(i) <= queue[i].at
  <2>1. TimerFor(i) = now + IF queue[i].at - now > Limit THEN Limit ELSE queue[i].at - now
    BY <1>4 DEF TimerFor
  <2>2. Limit \in Nat BY Numbers
  <2> QED BY <1>1, <1>5, <1>6, <2>1, <2>2
<1> QED BY <1>4, <1>5, <1>6

\* What the actions do to the queue.
LEMMA SendKeeps ==
    ASSUME QueueInv, NEW m, Sendable(m), SendLater(m), now' = now
    PROVE  /\ queue' \in Seq(Message) /\ event' \in BOOLEAN /\ sent' \in Nat
           /\ Addressed(queue)' /\ NumbersOnce(queue)' /\ TimesNear(queue)' /\ InOrder(queue)'
<1>1. CASE UNCHANGED <<queue, event, sent>>
  BY <1>1 DEF QueueInv, BaseTypes, Addressed, NumbersOnce, TimesNear, InOrder
<1>2. CASE queue' = InsertAt(queue, Place(m), m) /\ event' = TRUE /\ sent' = sent + 1
  BY <1>2, InsertKeeps DEF QueueInv, BaseTypes
<1> QED BY <1>1, <1>2 DEF SendLater

LEMMA CancelKeeps ==
    ASSUME QueueInv, NEW t, NEW ids, NEW upto, queue' = Cancelled(t, ids, upto),
           sent' = sent, now' = now
    PROVE  /\ queue' \in Seq(Message)
           /\ Addressed(queue)' /\ NumbersOnce(queue)' /\ TimesNear(queue)' /\ InOrder(queue)'
<1>1. queue' \in Seq(Message) /\ Addressed(queue)' /\ \E p : Thins(p, queue', queue)
  BY CancelledThins DEF Addressed
<1> QED BY <1>1, ThinKeeps

LEMMA RemoveKeeps ==
    ASSUME QueueInv, NEW i \in 1..Len(queue), queue' = RemoveAt(queue, i),
           sent' = sent, now' = now
    PROVE  /\ queue' \in Seq(Message)
           /\ Addressed(queue)' /\ NumbersOnce(queue)' /\ TimesNear(queue)' /\ InOrder(queue)'
<1> DEFINE r == RemoveAt(queue, i)
<1>0. /\ r \in Seq(Message) /\ Len(r) = Len(queue) - 1
      /\ \E p : /\ Thins(p, r, queue)
                /\ \A j \in 1..Len(queue) - 1 : r[j] = queue[p[j]]
  <2>1. /\ r \in Seq(Message) /\ Len(r) = Len(queue) - 1
        /\ \E p : /\ Thins(p, r, queue)
                  /\ \A j \in 1..Len(queue) - 1 : p[j] # i /\ r[j] = queue[p[j]]
                  /\ \A k \in 1..Len(queue) : k # i => \E j \in 1..Len(queue) - 1 : p[j] = k
    BY RemoveThins
  <2> HIDE DEF r
  <2> QED BY <2>1
<1>r. queue' = r OBVIOUS
<1> HIDE DEF r
<1>1. PICK p : /\ Thins(p, queue', queue)
               /\ \A j \in 1..Len(queue) - 1 : queue'[j] = queue[p[j]]
  BY <1>0, <1>r
<1>2. queue' \in Seq(Message) /\ Len(queue') = Len(queue) - 1 BY <1>0, <1>r
<1>3. Addressed(queue)'
  <2>1. ASSUME NEW j \in 1..Len(queue') PROVE queue'[j].to # <<>> /\ IsInjective(queue'[j].to)
    <3>1. p[j] \in 1..Len(queue) /\ queue'[j] = queue[p[j]] BY <1>1, <1>2 DEF Thins
    <3> QED BY <3>1 DEF QueueInv, Addressed
  <2> QED BY <2>1 DEF Addressed
<1> QED BY <1>1, <1>2, <1>3, ThinKeeps

LEMMA CombineKeeps ==
    ASSUME QueueInv, NEW m, Sendable(m), Already(m), queue' = Combined(m), sent' = sent, now' = now
    PROVE  /\ queue' \in Seq(Message)
           /\ Addressed(queue)' /\ NumbersOnce(queue)' /\ TimesNear(queue)' /\ InOrder(queue)'
<1> DEFINE p == [j \in 1..Len(queue) |-> j]
<1>1. m.value \in Values \cup {NoValue} BY DEF Sendable, Message
<1>2. /\ queue' \in Seq(Message) /\ Len(queue') = Len(queue)
      /\ \A j \in 1..Len(queue) :
            /\ queue'[j].num = queue[j].num /\ queue'[j].id = queue[j].id
            /\ queue'[j].to = queue[j].to /\ queue'[j].cond = queue[j].cond
            /\ queue'[j].due = queue[j].due /\ queue'[j].at = queue[j].at
  <2>1. BaseTypes BY DEF QueueInv
  <2> DEFINE c == Combined(m)
  <2>2. /\ c \in Seq(Message) /\ Len(c) = Len(queue)
        /\ \A j \in 1..Len(queue) :
              /\ c[j].num = queue[j].num /\ c[j].id = queue[j].id
              /\ c[j].to = queue[j].to /\ c[j].cond = queue[j].cond
              /\ c[j].due = queue[j].due /\ c[j].at = queue[j].at
    BY <1>1, <2>1, CombinedProperties
  <2> HIDE DEF c
  <2>3. queue' = c BY DEF c
  <2> QED BY <2>2, <2>3
<1>3. Thins(p, queue', queue) BY <1>2 DEF Thins
<1>4. Addressed(queue)' BY <1>2 DEF QueueInv, Addressed
<1> QED BY <1>2, <1>3, <1>4, ThinKeeps

LEMMA SameQueue ==
    ASSUME QueueInv, UNCHANGED <<queue, sent, now>>
    PROVE  /\ queue' \in Seq(Message)
           /\ Addressed(queue)' /\ NumbersOnce(queue)' /\ TimesNear(queue)' /\ InOrder(queue)'
BY DEF QueueInv, BaseTypes, Addressed, NumbersOnce, TimesNear, InOrder

LEMMA DeliveryKeeps ==
    ASSUME QueueInv, NEW i \in 1..Len(queue), StartDelivery(i), UNCHANGED <<sent, now>>
    PROVE  /\ queue' \in Seq(Message)
           /\ Addressed(queue)' /\ NumbersOnce(queue)' /\ TimesNear(queue)' /\ InOrder(queue)'
           /\ left' \in Seq(Tasks) /\ left' # <<>>
<1>1. left' \in Seq(Tasks) /\ left' # <<>>
  BY QueueTypes DEF StartDelivery, QueueInv, Addressed
<1>2. queue' = RemoveAt(queue, i) BY DEF StartDelivery
<1> QED BY <1>1, <1>2, RemoveKeeps

\* The messages the actions send.
LEMMA SentAreSendable ==
    ASSUME QueueInv
    PROVE  /\ \A to \in Recipients, id \in AppIds :
                 /\ \A d \in Delays : Sendable(Msg(id, NoValue, to, NoCondition, d))
                 /\ \A c \in Conditions : Sendable(Msg(id, NoValue, to, c, 0))
           /\ \A t \in Tasks, id \in Notices \cup Updates : \A v \in Contents(id) :
                 Sendable(Msg(id, v, <<t>>, NoCondition, 0))
<1>1. 0 \in Delays BY Numbers
<1>2. BaseTypes BY DEF QueueInv
<1>3. ASSUME NEW to \in Recipients, NEW id \in AppIds
      PROVE  /\ \A d \in Delays : Sendable(Msg(id, NoValue, to, NoCondition, d))
             /\ \A c \in Conditions : Sendable(Msg(id, NoValue, to, c, 0))
  <2>1. to \in Seq(Tasks) /\ to # <<>> /\ IsInjective(to) BY ListsOfTasks
  <2>2. id \in Ids BY DEF Ids
  <2> QED BY <1>1, <1>2, <2>1, <2>2, MessagesAreSendable
<1>4. ASSUME NEW t \in Tasks, NEW id \in Notices \cup Updates, NEW v \in Contents(id)
      PROVE  Sendable(Msg(id, v, <<t>>, NoCondition, 0))
  <2>1. <<t>> \in Seq(Tasks) /\ <<t>> # <<>> /\ IsInjective(<<t>>) BY DEF IsInjective
  <2>2. id \in Ids BY DEF Ids
  <2>3. v \in Values \cup {NoValue} BY DEF Contents
  <2> QED BY <1>1, <1>2, <2>1, <2>2, <2>3, MessagesAreSendable
<1> QED BY <1>3, <1>4

LEMMA QueueStep ==
    ASSUME QueueInv, [Next]_vars
    PROVE  QueueInv'
<1> DEFINE Part == /\ queue' \in Seq(Message)
                   /\ Addressed(queue)' /\ NumbersOnce(queue)' /\ TimesNear(queue)' /\ InOrder(queue)'
<1>0. BaseTypes BY DEF QueueInv
<1>1. CASE RunScheduler
  <2>1. UNCHANGED <<blocked, registered, now, sent>> /\ event' = FALSE BY <1>1 DEF RunScheduler
  <2>2. CASE NextMessage = 0 /\ timer' = NoTimer /\ UNCHANGED <<queue, delivered, left, owed>>
    BY <1>0, <2>1, <2>2, SameQueue DEF QueueInv, BaseTypes
  <2>3. CASE /\ NextMessage # 0 /\ ~IsDue(NextMessage)
             /\ timer' = TimerFor(NextMessage) /\ UNCHANGED <<queue, delivered, left, owed>>
    <3>1. timer' \in Nat BY <1>0, <2>3, NextMessageProperties, DueProperties
    <3> QED BY <1>0, <2>1, <2>3, <3>1, SameQueue DEF QueueInv, BaseTypes
  <2>4. CASE NextMessage # 0 /\ IsDue(NextMessage) /\ StartDelivery(NextMessage)
    <3>1. Part /\ left' \in Seq(Tasks)
      BY <1>0, <2>1, <2>4, NextMessageProperties, DeliveryKeeps
    <3>2. owed' \subseteq owed /\ timer' = NoTimer BY <2>4 DEF StartDelivery
    <3> QED BY <1>0, <2>1, <3>1, <3>2 DEF QueueInv, BaseTypes
  <2> QED BY <1>1, <2>2, <2>3, <2>4 DEF RunScheduler
<1>2. CASE Return
  <2>1. left' \in Seq(Tasks) /\ event' \in BOOLEAN
    BY <1>0, <1>2, HeadTailProperties DEF Return, BaseTypes
  <2> QED BY <1>0, <1>2, <2>1, SameQueue DEF Return, QueueInv, BaseTypes
<1>3. ASSUME NEW to \in Recipients, NEW id \in AppIds,
             \/ \E d \in Delays : MessageSendLater(to, id, d)
             \/ \E c \in Conditions : MessageSendConditionally(to, id, c)
      PROVE  QueueInv'
  <2>1. /\ \E m : Sendable(m) /\ SendLater(m)
        /\ UNCHANGED <<left, timer, blocked, registered, now, owed>>
    BY <1>3, SentAreSendable DEF MessageSendLater, MessageSendConditionally, NotSending
  <2>2. Part /\ event' \in BOOLEAN /\ sent' \in Nat BY <2>1, SendKeeps
  <2> QED BY <1>0, <2>1, <2>2 DEF QueueInv, BaseTypes
<1>4. ASSUME NEW t \in Tasks, NEW id \in AppIds, MessageCancelFirst(t, id) \/ MessageCancelAll(t, id)
      PROVE  QueueInv'
  <2>1. /\ \E ids, upto : queue' = Cancelled(t, ids, upto)
        /\ UNCHANGED <<left, event, timer, blocked, registered, now, sent, owed>>
    BY <1>4 DEF MessageCancelFirst, MessageCancelAll, Unscheduled
  <2>2. Part BY <2>1, CancelKeeps
  <2> QED BY <1>0, <2>1, <2>2 DEF QueueInv, BaseTypes
<1>5. ASSUME NEW t \in Tasks, MessageFlushTask(t) PROVE QueueInv'
  <2>1. /\ queue' = Cancelled(t, Ids, Len(queue))
        /\ UNCHANGED <<left, event, timer, blocked, now, sent>>
        /\ registered' \subseteq registered /\ owed' \subseteq owed
    BY <1>5 DEF MessageFlushTask, Unscheduled
  <2>2. Part BY <2>1, CancelKeeps
  <2> QED BY <1>0, <2>1, <2>2 DEF QueueInv, BaseTypes
<1>6. ASSUME \/ \E t \in Tasks : Register(t) \/ \E num \in 1..sent : MessageFree(t, num)
             \/ MessageRetain
             \/ \E c \in Conditions : SetCondition(c)
      PROVE  QueueInv'
  <2>1. /\ UNCHANGED <<queue, left, event, timer, now, sent, owed>>
        /\ registered' \subseteq Tasks /\ blocked' \subseteq Conditions
    BY <1>0, <1>6 DEF Register, MessageFree, MessageRetain, SetCondition, Unscheduled, BaseTypes
  <2> QED BY <1>0, <2>1, SameQueue DEF QueueInv, BaseTypes
<1>7. ASSUME NEW t \in Tasks, NEW id \in Notices \cup Updates, NEW dup \in BOOLEAN, NEW v \in Contents(id),
             Raise(t, id, v, dup)
      PROVE  QueueInv'
  <2> DEFINE m == Msg(id, v, <<t>>, NoCondition, 0)
  <2>1. Sendable(m) BY SentAreSendable
  <2> HIDE DEF m
  <2>2. /\ \/ Already(m) /\ queue' = Combined(m) /\ UNCHANGED <<event, sent>>
           \/ SendLater(m)
        /\ UNCHANGED <<left, timer, blocked, registered, now>>
        /\ owed' \subseteq owed \cup {<<t, id, v>>}
    BY <1>7 DEF Raise, NotSending, m
  <2>3. Part /\ event' \in BOOLEAN /\ sent' \in Nat
    <3>1. CASE SendLater(m) BY <2>1, <2>2, <3>1, SendKeeps
    <3>2. CASE Already(m) /\ queue' = Combined(m) /\ UNCHANGED <<event, sent>>
      BY <1>0, <2>1, <2>2, <3>2, CombineKeeps DEF BaseTypes
    <3> QED BY <2>2, <3>1, <3>2
  <2>4. <<t, id, v>> \in Tasks \X Ids \X (Values \cup {NoValue}) BY DEF Ids, Contents
  <2> QED BY <1>0, <2>2, <2>3, <2>4 DEF QueueInv, BaseTypes
<1>8. CASE Tick
  <2>1. /\ now' = now + 1
        /\ UNCHANGED <<queue, left, event, timer, blocked, registered, sent, owed>>
        /\ \A i \in 1..Len(queue), d \in Delays : 2 * (now + 1 + d - queue[i].at) < W
    BY <1>0, <1>8, QueueTypes DEF Tick
  <2>2. now \in Nat /\ \A i \in 1..Len(queue) : queue[i].at \in Nat BY <1>0, QueueTypes DEF BaseTypes
  <2>3. TimesNear(queue)'
    <3>1. ASSUME NEW i \in 1..Len(queue) PROVE 2 * (queue[i].at - (now + 1)) < W
      BY <2>2, Wrap DEF QueueInv, TimesNear
    <3> QED BY <2>1, <3>1 DEF QueueInv, TimesNear
  <2> QED BY <1>0, <2>1, <2>2, <2>3 DEF QueueInv, BaseTypes, Addressed, NumbersOnce, InOrder
<1>9. CASE UNCHANGED vars
  BY <1>0, <1>9, SameQueue DEF vars, QueueInv, BaseTypes
<1> QED BY <1>1, <1>2, <1>3, <1>4, <1>5, <1>6, <1>7, <1>8, <1>9 DEF Next

LEMMA QueueInit == Init => QueueInv
<1> SUFFICES ASSUME Init PROVE QueueInv OBVIOUS
<1>1. queue \in Seq(Message) /\ left \in Seq(Tasks) /\ Len(queue) = 0 BY EmptySeq DEF Init
<1>2. \A i \in 1..Len(queue) : FALSE BY <1>1
<1>3. BaseTypes BY <1>1, Numbers DEF Init, BaseTypes
<1> QED BY <1>2, <1>3 DEF QueueInv, Addressed, NumbersOnce, TimesNear, InOrder

\* The queue is in order, numbered and within half a round of the counter,
\* whatever is sent, combined, cancelled and delivered (insert, VM_DIFF).
THEOREM QueueInductive == Spec => []QueueInv
BY QueueInit, QueueStep, PTL DEF Spec
-----------------------------------------------------------------------------
(* The scheduler wakes up in time, and delivers in order.                  *)

\* Handlers only run, and messages are only delivered, by these steps.
LEMMA BetweenHandlers ==
    ASSUME QueueInv, [Next]_vars
    PROVE  \/ RunScheduler
           \/ left # <<>> /\ (left' # <<>> \/ event' = TRUE) /\ Return
           \/ left # <<>> /\ left' = left
           \/ /\ left = <<>> /\ left' = left
              /\ UNCHANGED <<delivered, timer, blocked>>
              /\ \/ UNCHANGED <<queue, event>>
                 \/ event' = TRUE
                 \/ /\ event' = event
                    /\ \E m : Sendable(m) /\ Already(m) /\ queue' = Combined(m)
<1>1. CASE RunScheduler BY <1>1
<1>2. CASE Return BY <1>2 DEF Return
<1>3. ASSUME NEW to \in Recipients, NEW id \in AppIds,
             \/ \E d \in Delays : MessageSendLater(to, id, d)
             \/ \E c \in Conditions : MessageSendConditionally(to, id, c)
      PROVE  left # <<>> /\ left' = left
  BY <1>3 DEF MessageSendLater, MessageSendConditionally, NotSending
<1>4. ASSUME NEW t \in Tasks,
             \/ \E id \in AppIds : MessageCancelFirst(t, id) \/ MessageCancelAll(t, id)
             \/ MessageFlushTask(t) \/ Register(t)
             \/ \E num \in 1..sent : MessageFree(t, num)
      PROVE  left # <<>> /\ left' = left
  BY <1>4 DEF MessageCancelFirst, MessageCancelAll, MessageFlushTask, Register, MessageFree, Unscheduled
<1>5. ASSUME MessageRetain \/ \E c \in Conditions : SetCondition(c)
      PROVE  left # <<>> /\ left' = left
  BY <1>5 DEF MessageRetain, SetCondition, Unscheduled
<1>6. ASSUME NEW t \in Tasks, NEW id \in Notices \cup Updates, NEW dup \in BOOLEAN, NEW v \in Contents(id),
             Raise(t, id, v, dup)
      PROVE  /\ left = <<>> /\ left' = left /\ UNCHANGED <<delivered, timer, blocked>>
             /\ \/ UNCHANGED <<queue, event>>
                \/ event' = TRUE
                \/ /\ event' = event
                   /\ \E m : Sendable(m) /\ Already(m) /\ queue' = Combined(m)
  <2> DEFINE m == Msg(id, v, <<t>>, NoCondition, 0)
  <2>1. Sendable(m) BY SentAreSendable
  <2> HIDE DEF m
  <2>2. /\ \/ Already(m) /\ queue' = Combined(m) /\ UNCHANGED <<event, sent>>
           \/ SendLater(m)
        /\ left = <<>> /\ left' = left /\ UNCHANGED <<delivered, timer, blocked>>
    BY <1>6 DEF Raise, NotSending, m
  <2>3. SendLater(m) => UNCHANGED <<queue, event>> \/ event' = TRUE BY DEF SendLater
  <2> QED BY <2>1, <2>2, <2>3
<1>7. CASE Tick \/ UNCHANGED vars BY <1>7 DEF Tick, vars
<1> QED BY <1>1, <1>2, <1>3, <1>4, <1>5, <1>6, <1>7 DEF Next

LEMMA WakeupStep ==
    ASSUME QueueInv, NoLostWakeup, [Next]_vars
    PROVE  NoLostWakeup'
<1>0. /\ Len(queue) \in Nat /\ DOMAIN queue = 1..Len(queue)
      /\ \A i \in 1..Len(queue) : queue[i].at \in Nat
  BY QueueTypes DEF QueueInv
<1>1. CASE RunScheduler
  <2>1. event' = FALSE /\ blocked' = blocked BY <1>1 DEF RunScheduler
  <2>2. CASE NextMessage = 0 /\ queue' = queue
    BY <1>0, <2>1, <2>2, NextMessageProperties DEF QueueInv, NoLostWakeup, Clear
  <2>3. CASE /\ NextMessage # 0 /\ ~IsDue(NextMessage)
             /\ timer' = TimerFor(NextMessage) /\ queue' = queue
    <3> DEFINE k == NextMessage
    <3>1. k \in 1..Len(queue) /\ \A i \in 1..Len(queue) : i < k => ~Clear(queue[i])
      BY <2>3, NextMessageProperties DEF QueueInv
    <3>2. timer' \in Nat /\ timer' <= queue[k].at BY <2>3, <3>1, DueProperties
    <3> HIDE DEF k
    <3>3. ASSUME NEW i \in 1..Len(queue), Clear(queue[i]) PROVE timer' <= queue[i].at
      <4>1. CASE i = k BY <3>2, <4>1
      <4>2. CASE k < i
        <5>1. queue[k].at <= queue[i].at BY <1>0, <3>1, <4>2 DEF QueueInv, InOrder, Before
        <5> QED BY <1>0, <3>1, <3>2, <5>1
      <4>3. ~(i < k) BY <3>1, <3>3
      <4> QED BY <1>0, <3>1, <4>1, <4>2, <4>3
    <3>4. timer' # NoTimer BY <3>2, Numbers
    <3> QED BY <1>0, <2>1, <2>3, <3>3, <3>4 DEF NoLostWakeup, Clear
  <2>4. CASE NextMessage # 0 /\ StartDelivery(NextMessage)
    <3>1. left' # <<>>
      BY <2>4, QueueTypes, NextMessageProperties DEF StartDelivery, QueueInv, Addressed
    <3> QED BY <3>1 DEF NoLostWakeup
  <2> QED BY <1>1, <2>2, <2>3, <2>4 DEF RunScheduler
<1>2. CASE left # <<>> /\ (left' = left \/ left' # <<>> \/ event' = TRUE)
  BY <1>2 DEF NoLostWakeup
<1>3. CASE left = <<>> /\ left' = left /\ UNCHANGED <<timer, blocked, queue, event>>
  BY <1>3 DEF NoLostWakeup, Clear
<1>4. CASE event' = TRUE BY <1>4 DEF NoLostWakeup
<1>5. ASSUME left = <<>>, left' = left, UNCHANGED <<timer, blocked, event>>,
             NEW m, Sendable(m), Already(m), queue' = Combined(m)
      PROVE  NoLostWakeup'
  <2>1. m.value \in Values \cup {NoValue} /\ BaseTypes BY <1>5 DEF Sendable, Message, QueueInv
  <2>2. /\ DOMAIN queue' = 1..Len(queue)
        /\ \A j \in 1..Len(queue) : queue'[j].cond = queue[j].cond /\ queue'[j].at = queue[j].at
    <3> DEFINE c == Combined(m)
    <3>1. /\ c \in Seq(Message) /\ Len(c) = Len(queue)
          /\ \A j \in 1..Len(queue) : c[j].cond = queue[j].cond /\ c[j].at = queue[j].at
      BY <1>5, <2>1, CombinedProperties
    <3> HIDE DEF c
    <3>2. queue' = c BY <1>5 DEF c
    <3> QED BY <3>1, <3>2, LenProperties
  <2> QED BY <1>0, <1>5, <2>2 DEF NoLostWakeup, Clear
<1> QED BY <1>1, <1>2, <1>3, <1>4, <1>5, BetweenHandlers

\* While no handler runs, a message that may be delivered has the scheduler
\* coming for it in time (vm_message_next, start_timer).
THEOREM WakesInTime == Spec => []NoLostWakeup
<1>1. Init => NoLostWakeup
  <2> SUFFICES ASSUME Init PROVE NoLostWakeup OBVIOUS
  <2>1. DOMAIN queue = {} BY EmptySeq, QueueInit, QueueTypes DEF Init, QueueInv
  <2> QED BY <2>1 DEF NoLostWakeup
<1>2. QueueInv /\ NoLostWakeup /\ [Next]_vars => NoLostWakeup' BY WakeupStep
<1> QED BY <1>1, <1>2, QueueInductive, PTL DEF Spec
-----------------------------------------------------------------------------
(* Delivered messages and who retains them.                                *)

Entry == [num : Nat, id : Ids, refs : Nat \ {0}]

Holders(num) == {h \in held : h[2] = num}

\* Delivered messages have numbers of their own, that no queued message has.
DeliveredOnce ==
    /\ \A i \in 1..Len(delivered) : delivered[i].num <= sent
    /\ \A i, j \in 1..Len(delivered) : delivered[i].num = delivered[j].num => i = j
    /\ \A i \in 1..Len(queue), j \in 1..Len(delivered) : queue[i].num # delivered[j].num

RetainInv ==
    /\ delivered \in Seq(Entry)
    /\ held \subseteq Tasks \X Nat /\ IsFiniteSet(held)
    /\ left # <<>> => delivered # <<>>
    /\ DeliveredOnce
    /\ RetainedIsKept

LEMMA ReleaseProperties ==
    ASSUME delivered \in Seq(Entry), NEW i \in 1..Len(delivered)
    PROVE  LET d == Release(delivered, i)
           IN  /\ d \in Seq(Entry)
               /\ delivered[i].refs = 1 =>
                     /\ Len(d) = Len(delivered) - 1
                     /\ \A j \in 1..Len(delivered) - 1 :
                           d[j] = IF j < i THEN delivered[j] ELSE delivered[j + 1]
               /\ delivered[i].refs # 1 =>
                     /\ Len(d) = Len(delivered)
                     /\ d[i].num = delivered[i].num /\ d[i].refs = delivered[i].refs - 1
                     /\ \A j \in 1..Len(delivered) : j # i => d[j] = delivered[j]
<1> DEFINE x == delivered[i].refs - 1
           e == [delivered[i] EXCEPT !.refs = x]
           d == [delivered EXCEPT ![i] = e]
<1>1. delivered[i] \in Entry BY ElementOfSeq
<1>2. CASE delivered[i].refs = 1
  BY <1>2, RemoveProperties DEF Release
<1>3. CASE delivered[i].refs # 1
  <2>1. Release(delivered, i) = d BY <1>3 DEF Release
  <2>2. e.num = delivered[i].num /\ e.refs = delivered[i].refs - 1 /\ e \in Entry
    <3>1. delivered[i].refs \in Nat \ {0} BY <1>1 DEF Entry
    <3>2. x \in Nat \ {0} BY <1>3, <3>1
    <3>3. x = delivered[i].refs - 1 OBVIOUS
    <3> HIDE DEF x
    <3> QED BY <1>1, <3>2, <3>3 DEF Entry
  <2> HIDE DEF e
  <2>3. /\ d \in Seq(Entry) /\ Len(d) = Len(delivered)
        /\ \A j \in 1..Len(delivered) : d[j] = IF j = i THEN e ELSE delivered[j]
    BY <2>2, ExceptSeq
  <2> HIDE DEF d
  <2> QED BY <1>3, <2>1, <2>2, <2>3
<1> QED BY <1>2, <1>3

LEMMA DeliveryEntry ==
    ASSUME QueueInv, delivered \in Seq(Entry), NEW i \in 1..Len(queue), StartDelivery(i)
    PROVE  /\ delivered' \in Seq(Entry) /\ Len(delivered') = Len(delivered) + 1
           /\ delivered'[1].num = queue[i].num /\ delivered'[1].refs = 1
           /\ \A j \in 1..Len(delivered) : delivered'[j + 1] = delivered[j]
<1> DEFINE e == [num |-> queue[i].num, id |-> queue[i].id, refs |-> 1]
           d == <<e>> \o delivered
<1>1. e \in Entry /\ e.num = queue[i].num /\ e.refs = 1 BY QueueTypes DEF QueueInv, Entry
<1>2. delivered' = d BY DEF StartDelivery
<1> HIDE DEF e
<1>3. <<e>> \in Seq(Entry) /\ Len(<<e>>) = 1 /\ <<e>>[1] = e BY <1>1
<1>4. Len(delivered) \in Nat BY LenProperties
<1>5. /\ d \in Seq(Entry) /\ Len(d) = Len(<<e>>) + Len(delivered)
      /\ \A j \in 1..Len(<<e>>) + Len(delivered) :
            d[j] = IF j <= Len(<<e>>) THEN <<e>>[j] ELSE delivered[j - Len(<<e>>)]
  BY <1>3, <1>4, ConcatProperties
<1> HIDE DEF d
<1>6. d[1] = e /\ Len(d) = Len(delivered) + 1 BY <1>3, <1>4, <1>5
<1>7. ASSUME NEW j \in 1..Len(delivered) PROVE d[j + 1] = delivered[j]
  <2>1. j + 1 \in 1..Len(<<e>>) + Len(delivered) /\ ~(j + 1 <= 1) /\ (j + 1) - 1 = j
    BY <1>3, <1>4
  <2> QED BY <1>3, <1>5, <2>1
<1> QED BY <1>1, <1>2, <1>5, <1>6, <1>7

LEMMA DeliveredTypes ==
    ASSUME RetainInv
    PROVE  /\ Len(delivered) \in Nat /\ DOMAIN delivered = 1..Len(delivered)
           /\ \A i \in 1..Len(delivered) :
                 /\ delivered[i] \in Entry /\ delivered[i].num \in Nat
                 /\ delivered[i].refs \in Nat /\ delivered[i].refs > 0
           /\ left # <<>> => 1 \in 1..Len(delivered)
<1>1. Len(delivered) \in Nat /\ DOMAIN delivered = 1..Len(delivered) BY LenProperties DEF RetainInv
<1>2. \A i \in 1..Len(delivered) : delivered[i] \in Entry BY ElementOfSeq DEF RetainInv
<1>3. delivered # <<>> => Len(delivered) \in Nat \ {0} BY EmptySeq DEF RetainInv
<1> QED BY <1>1, <1>2, <1>3 DEF Entry, RetainInv

LEMMA HoldersFinite ==
    ASSUME IsFiniteSet(held), NEW n
    PROVE  IsFiniteSet(Holders(n)) /\ Cardinality(Holders(n)) \in Nat
BY FS_Subset, FS_CardinalityType DEF Holders

\* What a release leaves of the delivered list: p says where it comes from.
ReleasedFrom(p, i) ==
    /\ p \in [1..Len(delivered') -> 1..Len(delivered)]
    /\ \A j, k \in 1..Len(delivered') : p[j] = p[k] => j = k
    /\ \A j \in 1..Len(delivered') :
          /\ delivered'[j].num = delivered[p[j]].num
          /\ delivered'[j].refs = IF p[j] = i THEN delivered[i].refs - 1 ELSE delivered[p[j]].refs
          /\ p[j] = i => delivered[i].refs # 1
          /\ i # 1 \/ delivered[i].refs # 1 => (p[j] = 1 <=> j = 1)
    /\ \A k \in 1..Len(delivered) :
          k # i \/ delivered[i].refs # 1 => \E j \in 1..Len(delivered') : p[j] = k

LEMMA ReleaseKeeps ==
    ASSUME RetainInv, NEW i \in 1..Len(delivered), delivered' = Release(delivered, i)
    PROVE  delivered' \in Seq(Entry) /\ \E p : ReleasedFrom(p, i)
<1>1. Len(delivered) \in Nat /\ delivered \in Seq(Entry) BY DeliveredTypes DEF RetainInv
<1> DEFINE d == Release(delivered, i)
<1>2. /\ d \in Seq(Entry)
      /\ delivered[i].refs = 1 =>
            /\ Len(d) = Len(delivered) - 1
            /\ \A j \in 1..Len(delivered) - 1 :
                  d[j] = IF j < i THEN delivered[j] ELSE delivered[j + 1]
      /\ delivered[i].refs # 1 =>
            /\ Len(d) = Len(delivered)
            /\ d[i].num = delivered[i].num /\ d[i].refs = delivered[i].refs - 1
            /\ \A j \in 1..Len(delivered) : j # i => d[j] = delivered[j]
  BY <1>1, ReleaseProperties
<1>3. delivered' = d OBVIOUS
<1> HIDE DEF d
<1>4. CASE delivered[i].refs # 1
  <2> DEFINE p == [j \in 1..Len(delivered) |-> j]
  <2>1. \A j \in 1..Len(delivered) : p[j] = j OBVIOUS
  <2>2. p \in [1..Len(delivered) -> 1..Len(delivered)] OBVIOUS
  <2> HIDE DEF p
  <2>3. ReleasedFrom(p, i) BY <1>2, <1>3, <1>4, <2>1, <2>2 DEF ReleasedFrom
  <2> QED BY <1>2, <1>3, <2>3
<1>5. CASE delivered[i].refs = 1
  <2> DEFINE p == [j \in 1..Len(delivered) - 1 |-> IF j < i THEN j ELSE j + 1]
  <2>1. \A j \in 1..Len(delivered) - 1 :
           /\ p[j] = (IF j < i THEN j ELSE j + 1)
           /\ p[j] \in 1..Len(delivered) /\ p[j] # i
           /\ i # 1 => (p[j] = 1 <=> j = 1)
    BY <1>1
  <2>2. p \in [1..Len(delivered) - 1 -> 1..Len(delivered)] BY <1>1
  <2> HIDE DEF p
  <2>3. \A j, k \in 1..Len(delivered) - 1 : p[j] = p[k] => j = k BY <1>1, <2>1
  <2>4. Len(delivered') = Len(delivered) - 1 BY <1>2, <1>3, <1>5
  <2>5. \A j \in 1..Len(delivered) - 1 : delivered'[j] = delivered[p[j]]
    BY <1>2, <1>3, <1>5, <2>1
  <2>6. ASSUME NEW k \in 1..Len(delivered), k # i PROVE \E j \in 1..Len(delivered) - 1 : p[j] = k
    <3>1. CASE k < i BY <1>1, <2>1, <3>1
    <3>2. CASE k > i
      <4>1. k - 1 \in 1..Len(delivered) - 1 /\ p[k - 1] = k BY <1>1, <2>1, <3>2
      <4> QED BY <4>1
    <3> QED BY <1>1, <2>6, <3>1, <3>2
  <2>7. ReleasedFrom(p, i)
    BY <1>5, <2>1, <2>2, <2>3, <2>4, <2>5, <2>6 DEF ReleasedFrom
  <2> QED BY <1>2, <1>3, <2>7
<1> QED BY <1>4, <1>5

\* Every queued message was queued before the step, or is new.
NumbersFrom == \A i \in 1..Len(queue') :
    queue'[i].num > sent \/ \E j \in 1..Len(queue) : queue'[i].num = queue[j].num

LEMMA InsertNumbers ==
    ASSUME QueueInv, NEW m, Sendable(m), queue' = InsertAt(queue, Place(m), m)
    PROVE  /\ NumbersFrom
           /\ \A i \in 1..Len(queue) : \E j \in 1..Len(queue') : queue'[j] = queue[i]
           /\ \A j \in 1..Len(queue') : queue'[j] = m \/ \E i \in 1..Len(queue) : queue'[j] = queue[i]
           /\ \E j \in 1..Len(queue') : queue'[j] = m
<1> DEFINE k == Place(m)
<1>1. Len(queue) \in Nat /\ sent \in Nat BY QueueTypes DEF QueueInv, BaseTypes
<1>2. m \in Message /\ m.num > sent BY <1>1 DEF Sendable
<1>3. k \in 1..Len(queue) + 1 BY PlaceProperties
<1>4. queue' = InsertAt(queue, k, m) OBVIOUS
<1> HIDE DEF k
<1>5. /\ Len(queue') = Len(queue) + 1
      /\ \A j \in 1..Len(queue) + 1 :
            queue'[j] = IF j < k THEN queue[j] ELSE IF j = k THEN m ELSE queue[j - 1]
  BY <1>2, <1>3, <1>4, InsertProperties DEF QueueInv, BaseTypes
<1>6. ASSUME NEW i \in 1..Len(queue) PROVE \E j \in 1..Len(queue') : queue'[j] = queue[i]
  <2>1. CASE i < k BY <1>1, <1>5, <2>1
  <2>2. CASE i >= k
    <3>1. i + 1 \in 1..Len(queue) + 1 /\ ~(i + 1 < k) /\ i + 1 # k /\ (i + 1) - 1 = i
      BY <1>1, <1>3, <2>2
    <3>2. queue'[i + 1] = queue[i] BY <1>5, <3>1
    <3> QED BY <1>5, <3>1, <3>2
  <2>3. i < k \/ i >= k BY <1>1, <1>3
  <2> QED BY <2>1, <2>2, <2>3
<1>7. ASSUME NEW j \in 1..Len(queue')
      PROVE  queue'[j] = m \/ \E i \in 1..Len(queue) : queue'[j] = queue[i]
  <2>1. CASE j < k BY <1>1, <1>3, <1>5, <2>1
  <2>2. CASE j = k BY <1>5, <2>2
  <2>3. CASE j > k
    <3>1. j - 1 \in 1..Len(queue) BY <1>1, <1>3, <1>5, <2>3
    <3>2. queue'[j] = queue[j - 1] BY <1>1, <1>3, <1>5, <2>3
    <3> QED BY <3>1, <3>2
  <2>4. j < k \/ j = k \/ j > k BY <1>1, <1>3, <1>5
  <2> QED BY <2>1, <2>2, <2>3, <2>4
<1>8. \E j \in 1..Len(queue') : queue'[j] = m BY <1>1, <1>3, <1>5
<1> QED BY <1>2, <1>6, <1>7, <1>8 DEF NumbersFrom

LEMMA SendNumbers ==
    ASSUME QueueInv, NEW m, Sendable(m), SendLater(m)
    PROVE  NumbersFrom /\ sent' \in Nat /\ sent' >= sent
<1>1. sent \in Nat BY DEF QueueInv, BaseTypes
<1>2. CASE UNCHANGED <<queue, sent>> BY <1>1, <1>2 DEF NumbersFrom
<1>3. CASE queue' = InsertAt(queue, Place(m), m) /\ sent' = sent + 1
  BY <1>1, <1>3, InsertNumbers
<1> QED BY <1>2, <1>3 DEF SendLater

LEMMA ThinNumbers ==
    ASSUME NEW p, Thins(p, queue', queue)
    PROVE  NumbersFrom
<1>1. \A i \in 1..Len(queue') : p[i] \in 1..Len(queue) /\ queue'[i].num = queue[p[i]].num
  BY DEF Thins
<1> QED BY <1>1 DEF NumbersFrom

LEMMA CancelNumbers ==
    ASSUME QueueInv, NEW t, NEW ids, NEW upto, queue' = Cancelled(t, ids, upto)
    PROVE  NumbersFrom
<1>1. \E p : Thins(p, queue', queue) BY CancelledThins
<1> QED BY <1>1, ThinNumbers

\* The delivered list, its references and their holders are unchanged.
LEMMA SameDelivered ==
    ASSUME QueueInv, RetainInv, NumbersFrom, sent' \in Nat, sent' >= sent,
           UNCHANGED <<delivered, held>>, left # <<>> <=> left' # <<>>
    PROVE  RetainInv'
<1>1. sent \in Nat /\ \A i \in 1..Len(delivered) : delivered[i].num \in Nat
  BY DeliveredTypes DEF QueueInv, BaseTypes
<1>2. \A i \in 1..Len(delivered) : delivered[i].num <= sent' BY <1>1 DEF RetainInv, DeliveredOnce
<1>3. ASSUME NEW i \in 1..Len(queue'), NEW j \in 1..Len(delivered)
      PROVE  queue'[i].num # delivered[j].num
  <2>1. CASE queue'[i].num > sent BY <1>1, <2>1 DEF RetainInv, DeliveredOnce
  <2>2. CASE \E k \in 1..Len(queue) : queue'[i].num = queue[k].num
    BY <2>2 DEF RetainInv, DeliveredOnce
  <2> QED BY <2>1, <2>2 DEF NumbersFrom
<1>4. DeliveredOnce' BY <1>2, <1>3 DEF RetainInv, DeliveredOnce
<1>5. RetainedIsKept' BY DEF RetainInv, RetainedIsKept
<1> QED BY <1>4, <1>5 DEF RetainInv

\* The reference the running handler has to message i of the delivered list.
Running(i) == IF i = 1 /\ left # <<>> THEN 1 ELSE 0

LEMMA References ==
    ASSUME RetainInv
    PROVE  /\ \A i \in 1..Len(delivered) :
                 delivered[i].refs = Cardinality(Holders(delivered[i].num)) + Running(i)
           /\ \A h \in held : \E i \in 1..Len(delivered) : delivered[i].num = h[2]
BY DeliveredTypes DEF RetainInv, RetainedIsKept, Holders, Running

LEMMA DeliveryRetains ==
    ASSUME QueueInv, RetainInv, NEW i \in 1..Len(queue), StartDelivery(i),
           left = <<>>, UNCHANGED <<held, sent>>
    PROVE  RetainInv'
<1>0. delivered \in Seq(Entry) BY DEF RetainInv
<1>1. /\ delivered' \in Seq(Entry) /\ Len(delivered') = Len(delivered) + 1
      /\ delivered'[1].num = queue[i].num /\ delivered'[1].refs = 1
      /\ \A j \in 1..Len(delivered) : delivered'[j + 1] = delivered[j]
  BY <1>0, DeliveryEntry
<1>2. /\ Len(delivered) \in Nat /\ DOMAIN delivered' = 1..Len(delivered) + 1
      /\ \A j \in 1..Len(delivered) : delivered[j].num \in Nat /\ delivered[j].refs \in Nat
  BY <1>1, DeliveredTypes, LenProperties
<1>3. left' # <<>> BY DEF StartDelivery, QueueInv, Addressed
<1>4. PICK p : /\ Thins(p, queue', queue)
               /\ \A j \in 1..Len(queue') : p[j] # i /\ queue'[j] = queue[p[j]]
  <2> DEFINE r == RemoveAt(queue, i)
  <2>1. /\ Len(r) = Len(queue) - 1
        /\ \E p : /\ Thins(p, r, queue)
                  /\ \A j \in 1..Len(queue) - 1 : p[j] # i /\ r[j] = queue[p[j]]
                  /\ \A k \in 1..Len(queue) : k # i => \E j \in 1..Len(queue) - 1 : p[j] = k
    BY RemoveThins
  <2>2. queue' = r BY DEF StartDelivery
  <2> HIDE DEF r
  <2> QED BY <2>1, <2>2
<1>5. \A j \in 1..Len(queue') : p[j] \in 1..Len(queue) /\ queue'[j].num = queue[p[j]].num
  BY <1>4 DEF Thins
<1>6. \A j \in 1..Len(queue') : queue'[j].num # queue[i].num
  BY <1>4, <1>5 DEF QueueInv, NumbersOnce
<1>7. \A j \in 1..Len(delivered) : delivered[j].num # queue[i].num /\ delivered[j].num <= sent
  BY DEF RetainInv, DeliveredOnce
<1>8. \A j \in 1..Len(delivered') : j = 1 \/ (j - 1 \in 1..Len(delivered) /\ delivered'[j] = delivered[j - 1])
  <2>1. \A j \in 1..Len(delivered') : j # 1 => j - 1 \in 1..Len(delivered) /\ (j - 1) + 1 = j
    BY <1>1, <1>2
  <2> QED BY <1>1, <2>1
<1>9. DeliveredOnce'
  <2>1. \A j \in 1..Len(delivered') : delivered'[j].num <= sent'
    BY <1>1, <1>7, <1>8 DEF QueueInv, NumbersOnce
  <2>2. ASSUME NEW j \in 1..Len(delivered'), NEW k \in 1..Len(delivered'),
               delivered'[j].num = delivered'[k].num
        PROVE  j = k
    <3>1. CASE j = 1 \/ k = 1
      <4>1. \A l \in 1..Len(delivered') : l # 1 => delivered'[l].num # queue[i].num BY <1>7, <1>8
      <4>2. delivered'[1].num = queue[i].num BY <1>1
      <4> QED BY <2>2, <3>1, <4>1, <4>2
    <3>2. CASE j # 1 /\ k # 1
      <4>1. /\ j - 1 \in 1..Len(delivered) /\ delivered'[j] = delivered[j - 1]
            /\ k - 1 \in 1..Len(delivered) /\ delivered'[k] = delivered[k - 1]
        BY <1>8, <3>2
      <4>2. delivered[j - 1].num = delivered[k - 1].num BY <2>2, <4>1
      <4>3. j - 1 = k - 1 BY <4>1, <4>2 DEF RetainInv, DeliveredOnce
      <4>4. j \in Int /\ k \in Int BY <1>1, <1>2
      <4> QED BY <4>3, <4>4
    <3> QED BY <3>1, <3>2
  <2>3. ASSUME NEW j \in 1..Len(queue'), NEW k \in 1..Len(delivered')
        PROVE  queue'[j].num # delivered'[k].num
    <3>1. CASE k = 1 BY <1>1, <1>6, <3>1
    <3>2. CASE k # 1
      <4>1. p[j] \in 1..Len(queue) /\ queue'[j].num = queue[p[j]].num BY <1>5
      <4>2. k - 1 \in 1..Len(delivered) /\ delivered'[k] = delivered[k - 1] BY <1>8, <3>2
      <4>3. queue[p[j]].num # delivered[k - 1].num BY <4>1, <4>2 DEF RetainInv, DeliveredOnce
      <4> QED BY <4>1, <4>2, <4>3
    <3> QED BY <3>1, <3>2
  <2> QED BY <2>1, <2>2, <2>3 DEF DeliveredOnce
<1>10. RetainedIsKept'
  <2>1. \A h \in held : h[2] # queue[i].num BY <1>7, References
  <2>2. ASSUME NEW j \in 1..Len(delivered')
        PROVE  delivered'[j].refs = Cardinality({h \in held : h[2] = delivered'[j].num})
                                       + (IF j = 1 /\ left' # <<>> THEN 1 ELSE 0)
    <3>1. CASE j = 1
      <4>1. {h \in held : h[2] = delivered'[j].num} = {} BY <1>1, <2>1, <3>1
      <4>2. Cardinality({h \in held : h[2] = delivered'[j].num}) = 0 BY <4>1, FS_EmptySet
      <4>3. delivered'[j].refs = 1 /\ left' # <<>> BY <1>1, <1>3, <3>1
      <4> QED BY <3>1, <4>2, <4>3
    <3>2. CASE j # 1
      <4> DEFINE k == j - 1
      <4>1. k \in 1..Len(delivered) /\ delivered'[j] = delivered[k] BY <1>8, <3>2
      <4>2. delivered[k].refs = Cardinality(Holders(delivered[k].num)) + 0
        BY <4>1, References DEF Running
      <4> QED BY <3>2, <4>1, <4>2 DEF Holders
    <3> QED BY <3>1, <3>2
  <2>3. ASSUME NEW h \in held PROVE \E j \in 1..Len(delivered') : delivered'[j].num = h[2]
    <3>1. PICK k \in 1..Len(delivered) : delivered[k].num = h[2] BY References
    <3>2. k + 1 \in 1..Len(delivered') /\ delivered'[k + 1] = delivered[k] BY <1>1, <1>2
    <3> QED BY <3>1, <3>2
  <2> QED BY <1>1, <1>2, <2>2, <2>3 DEF RetainedIsKept
<1> QED BY <1>0, <1>1, <1>2, <1>9, <1>10, EmptySeq DEF RetainInv

\* The numbers of what a release leaves.
LEMMA ReleasedOnce ==
    ASSUME RetainInv, NEW i, NEW p, ReleasedFrom(p, i), UNCHANGED <<queue, sent>>
    PROVE  DeliveredOnce'
<1>1. \A j \in 1..Len(delivered') :
         p[j] \in 1..Len(delivered) /\ delivered'[j].num = delivered[p[j]].num
  BY DEF ReleasedFrom
<1>2. \A j, k \in 1..Len(delivered') : p[j] = p[k] => j = k BY DEF ReleasedFrom
<1>3. ASSUME NEW j \in 1..Len(delivered'), NEW k \in 1..Len(delivered'),
             delivered'[j].num = delivered'[k].num
      PROVE  j = k
  <2>1. p[j] \in 1..Len(delivered) /\ p[k] \in 1..Len(delivered) BY <1>1
  <2>2. delivered[p[j]].num = delivered[p[k]].num BY <1>1, <1>3
  <2>3. p[j] = p[k] BY <2>1, <2>2 DEF RetainInv, DeliveredOnce
  <2> QED BY <1>2, <2>3
<1>4. \A j \in 1..Len(delivered') : delivered'[j].num <= sent
  BY <1>1 DEF RetainInv, DeliveredOnce
<1>5. \A k \in 1..Len(queue), j \in 1..Len(delivered') : queue[k].num # delivered'[j].num
  BY <1>1 DEF RetainInv, DeliveredOnce
<1>6. queue' = queue /\ sent' = sent OBVIOUS
<1> QED BY ONLY <1>3, <1>4, <1>5, <1>6 DEF DeliveredOnce

LEMMA ReturnRetains ==
    ASSUME QueueInv, RetainInv, Return
    PROVE  RetainInv'
<1>1. CASE left' # <<>>
  <2>1. NumbersFrom BY DEF Return, NumbersFrom
  <2> QED BY <1>1, <2>1, SameDelivered DEF Return, QueueInv, BaseTypes
<1>2. CASE left' = <<>>
  <2>1. delivered' = Release(delivered, 1) /\ UNCHANGED <<queue, held, sent>> /\ left # <<>>
    BY <1>2 DEF Return
  <2>2. 1 \in 1..Len(delivered) BY <2>1, DeliveredTypes
  <2>3. delivered' \in Seq(Entry) /\ \E p : ReleasedFrom(p, 1) BY <2>1, <2>2, ReleaseKeeps
  <2>4. PICK p : ReleasedFrom(p, 1) BY <2>3
  <2>5. DeliveredOnce' BY <2>1, <2>4, ReleasedOnce
  <2>6. \A j \in 1..Len(delivered) : delivered[j].refs \in Nat BY DeliveredTypes
  <2>c. \A n : IsFiniteSet(Holders(n)) /\ Cardinality(Holders(n)) \in Nat
    BY HoldersFinite DEF RetainInv
  <2>7. ASSUME NEW j \in 1..Len(delivered')
        PROVE  delivered'[j].refs = Cardinality(Holders(delivered'[j].num))
    <3>1. p[j] \in 1..Len(delivered) /\ delivered'[j].num = delivered[p[j]].num BY <2>4 DEF ReleasedFrom
    <3>2. CASE p[j] = 1
      <4>1. delivered'[j].refs = delivered[1].refs - 1 BY <2>4, <3>2 DEF ReleasedFrom
      <4>2. delivered[1].refs = Cardinality(Holders(delivered[1].num)) + 1
        BY <2>1, <2>2, References DEF Running
      <4> QED BY <2>c, <3>1, <3>2, <4>1, <4>2
    <3>3. CASE p[j] # 1
      <4>1. delivered'[j].refs = delivered[p[j]].refs BY <2>4, <3>3 DEF ReleasedFrom
      <4>2. delivered[p[j]].refs = Cardinality(Holders(delivered[p[j]].num)) + 0
        BY <3>1, <3>3, References DEF Running
      <4> QED BY <2>c, <3>1, <4>1, <4>2
    <3> QED BY <3>2, <3>3
  <2>8. ASSUME NEW h \in held PROVE \E j \in 1..Len(delivered') : delivered'[j].num = h[2]
    <3>1. PICK k \in 1..Len(delivered) : delivered[k].num = h[2] BY References
    <3>2. k # 1 \/ delivered[1].refs # 1
      <4>1. SUFFICES ASSUME k = 1, delivered[1].refs = 1 PROVE FALSE OBVIOUS
      <4>2. 1 = Cardinality(Holders(h[2])) + 1 BY <2>1, <2>2, <3>1, <4>1, References DEF Running
      <4>3. Holders(h[2]) = {} BY <2>c, <4>2, FS_EmptySet
      <4> QED BY <4>3 DEF Holders
    <3>3. PICK j \in 1..Len(delivered') : p[j] = k BY <2>4, <3>2 DEF ReleasedFrom
    <3> QED BY <2>4, <3>1, <3>3 DEF ReleasedFrom
  <2>9. DOMAIN delivered' = 1..Len(delivered') BY <2>3, LenProperties
  <2>10. \A j \in 1..Len(delivered') : Cardinality(Holders(delivered'[j].num)) + 0 = delivered'[j].refs
    BY <2>c, <2>7
  <2>11. RetainedIsKept'
    BY <1>2, <2>1, <2>8, <2>9, <2>10 DEF RetainedIsKept, Holders
  <2> QED BY <1>2, <2>1, <2>3, <2>5, <2>11 DEF RetainInv
<1> QED BY <1>1, <1>2

LEMMA MessageRetainKeeps ==
    ASSUME QueueInv, RetainInv, MessageRetain
    PROVE  RetainInv'
<1> DEFINE n == delivered[1].num
           h == <<Head(left), n>>
           e == [delivered[1] EXCEPT !.refs = @ + 1]
           d == [delivered EXCEPT ![1] = e]
<1>1. /\ left # <<>> /\ h \notin held /\ held' = held \cup {h} /\ delivered' = d
      /\ queue' = queue /\ left' = left /\ sent' = sent
  BY DEF MessageRetain, Unscheduled
<1>2. /\ Len(delivered) \in Nat /\ 1 \in 1..Len(delivered) /\ delivered[1] \in Entry
      /\ DOMAIN delivered = 1..Len(delivered)
  BY <1>1, DeliveredTypes
<1>3. e \in Entry /\ e.num = n /\ e.refs = delivered[1].refs + 1 BY <1>2 DEF Entry
<1>4. n \in Nat BY <1>2 DEF Entry
<1> HIDE DEF e
<1>5. /\ d \in Seq(Entry) /\ Len(d) = Len(delivered)
      /\ \A j \in 1..Len(delivered) : d[j] = IF j = 1 THEN e ELSE delivered[j]
  BY <1>2, <1>3, ExceptSeq DEF RetainInv
<1> HIDE DEF d
<1>6. /\ DOMAIN delivered' = 1..Len(delivered) /\ Len(delivered') = Len(delivered)
      /\ \A j \in 1..Len(delivered) : delivered'[j].num = delivered[j].num
      /\ delivered'[1].refs = delivered[1].refs + 1
      /\ \A j \in 1..Len(delivered) : j # 1 => delivered'[j].refs = delivered[j].refs
  BY <1>1, <1>2, <1>3, <1>5, LenProperties
<1>7. held' \subseteq Tasks \X Nat /\ IsFiniteSet(held')
  <2>1. Head(left) \in Tasks BY <1>1, HeadTailProperties DEF QueueInv, BaseTypes
  <2>2. IsFiniteSet(held') BY <1>1, FS_AddElement DEF RetainInv
  <2> QED BY <1>1, <1>4, <2>1, <2>2 DEF RetainInv
<1>8. DeliveredOnce' BY <1>1, <1>6 DEF RetainInv, DeliveredOnce
<1>c. \A m : IsFiniteSet(Holders(m)) /\ Cardinality(Holders(m)) \in Nat
  BY HoldersFinite DEF RetainInv
<1>9. ASSUME NEW j \in 1..Len(delivered)
      PROVE  delivered'[j].refs = Cardinality({g \in held' : g[2] = delivered'[j].num}) + Running(j)
  <2>1. delivered[j].refs = Cardinality(Holders(delivered[j].num)) + Running(j) BY References
  <2>2. Running(j) \in Nat BY DEF Running
  <2>3. CASE j = 1
    <3>1. {g \in held' : g[2] = delivered'[j].num} = Holders(n) \cup {h}
      BY <1>1, <1>6, <2>3 DEF Holders
    <3>2. h \notin Holders(n) BY <1>1 DEF Holders
    <3>3. Cardinality(Holders(n) \cup {h}) = Cardinality(Holders(n)) + 1
      BY <1>c, <3>2, FS_AddElement
    <3>4. delivered'[j].refs = delivered[j].refs + 1 /\ delivered[j].num = n BY <1>6, <2>3
    <3>5. Cardinality({g \in held' : g[2] = delivered'[j].num}) = Cardinality(Holders(n)) + 1
      BY <3>1, <3>3
    <3>6. delivered[j].refs = Cardinality(Holders(n)) + Running(j) BY <2>1, <3>4
    <3>7. Cardinality(Holders(n)) \in Nat BY <1>c
    <3> QED BY ONLY <2>2, <3>4, <3>5, <3>6, <3>7
  <2>4. CASE j # 1
    <3>1. delivered[j].num # n BY <1>2, <2>4 DEF RetainInv, DeliveredOnce
    <3>2. {g \in held' : g[2] = delivered'[j].num} = Holders(delivered[j].num)
      BY <1>1, <1>6, <3>1 DEF Holders
    <3> QED BY <1>6, <2>1, <2>4, <3>2
  <2> QED BY <2>3, <2>4
<1>10. \A g \in held' : \E j \in 1..Len(delivered) : delivered'[j].num = g[2]
  BY <1>1, <1>2, <1>6, References
<1> HIDE DEF h, n
<1>11. RetainedIsKept' BY <1>1, <1>6, <1>9, <1>10 DEF RetainedIsKept, Running
<1>12. delivered' \in Seq(Entry) /\ (left' # <<>> => delivered' # <<>>)
  BY <1>1, <1>2, <1>5, <1>6, EmptySeq
<1> QED BY <1>7, <1>8, <1>11, <1>12 DEF RetainInv

LEMMA MessageFreeKeeps ==
    ASSUME QueueInv, RetainInv, NEW t \in Tasks, NEW num \in 1..sent, MessageFree(t, num)
    PROVE  RetainInv'
<1> DEFINE i == PlaceOf(num)
           h == <<t, num>>
<1>1. /\ left # <<>> /\ h \in held /\ held' = held \ {h} /\ delivered' = Release(delivered, i)
      /\ queue' = queue /\ left' = left /\ sent' = sent
  BY DEF MessageFree, Unscheduled
<1>2. /\ Len(delivered) \in Nat /\ 1 \in 1..Len(delivered)
      /\ \A j \in 1..Len(delivered) : delivered[j].refs \in Nat
  BY <1>1, DeliveredTypes
<1>3. i \in 1..Len(delivered) /\ delivered[i].num = num
  <2> DEFINE I == {j \in 1..Len(delivered) : delivered[j].num = num}
  <2>1. I # {} BY <1>1, References
  <2>2. I \in SUBSET Nat BY <1>2
  <2>3. i = Min(I) BY <2>1 DEF PlaceOf, SelectInSeq
  <2>4. Min(I) \in I BY <2>1, <2>2, LeastNumber
  <2> HIDE DEF i
  <2> QED BY <2>3, <2>4
<1> HIDE DEF i
<1>4. delivered' \in Seq(Entry) /\ \E p : ReleasedFrom(p, i) BY <1>1, <1>3, ReleaseKeeps
<1>5. PICK p : ReleasedFrom(p, i) BY <1>4
<1>6. DeliveredOnce' BY <1>1, <1>5, ReleasedOnce
<1>7. held' \subseteq Tasks \X Nat /\ IsFiniteSet(held')
  BY <1>1, FS_RemoveElement DEF RetainInv
<1>c. \A m : IsFiniteSet(Holders(m)) /\ Cardinality(Holders(m)) \in Nat
  BY HoldersFinite DEF RetainInv
<1>8. h \in Holders(num) BY <1>1 DEF Holders
<1>9. /\ Cardinality(Holders(num) \ {h}) = Cardinality(Holders(num)) - 1
      /\ IsFiniteSet(Holders(num) \ {h}) /\ Cardinality(Holders(num) \ {h}) \in Nat
  BY <1>c, <1>8, FS_RemoveElement, FS_CardinalityType
<1>10. delivered[i].refs = Cardinality(Holders(num)) + Running(i) BY <1>3, References
<1>11. i # 1 \/ delivered[i].refs # 1
  BY <1>1, <1>c, <1>9, <1>10 DEF Running
<1>12. {g \in held' : g[2] = num} = Holders(num) \ {h} BY <1>1 DEF Holders
<1>13. ASSUME NEW m, m # num PROVE {g \in held' : g[2] = m} = Holders(m)
  BY <1>1, <1>13 DEF Holders
<1>14. ASSUME NEW j \in 1..Len(delivered')
       PROVE  delivered'[j].refs = Cardinality({g \in held' : g[2] = delivered'[j].num}) + Running(j)
  <2>1. p[j] \in 1..Len(delivered) /\ delivered'[j].num = delivered[p[j]].num BY <1>5 DEF ReleasedFrom
  <2>2. Running(j) = Running(p[j]) BY <1>5, <1>11 DEF ReleasedFrom, Running
  <2>3. Running(p[j]) \in Nat BY DEF Running
  <2>4. CASE p[j] = i
    <3>1. delivered'[j].refs = delivered[i].refs - 1 BY <1>5, <2>4 DEF ReleasedFrom
    <3>2. Cardinality({g \in held' : g[2] = delivered'[j].num}) = Cardinality(Holders(num)) - 1
      BY <1>3, <1>9, <1>12, <2>1, <2>4
    <3>3. delivered[i].refs = Cardinality(Holders(num)) + Running(j) /\ Running(j) \in Nat
      BY <1>10, <2>2, <2>3, <2>4
    <3>4. Cardinality(Holders(num)) \in Nat BY <1>c
    <3> QED BY ONLY <3>1, <3>2, <3>3, <3>4
  <2>5. CASE p[j] # i
    <3>1. delivered'[j].refs = delivered[p[j]].refs BY <1>5, <2>5 DEF ReleasedFrom
    <3>2. delivered[p[j]].num # num BY <1>3, <2>1, <2>5 DEF RetainInv, DeliveredOnce
    <3>3. {g \in held' : g[2] = delivered'[j].num} = Holders(delivered[p[j]].num)
      BY <1>13, <2>1, <3>2
    <3>4. delivered[p[j]].refs = Cardinality(Holders(delivered[p[j]].num)) + Running(p[j])
      BY <2>1, References
    <3> QED BY <2>2, <3>1, <3>3, <3>4
  <2> QED BY <2>4, <2>5
<1>15. ASSUME NEW g \in held' PROVE \E j \in 1..Len(delivered') : delivered'[j].num = g[2]
  <2>1. g \in held /\ g # h BY <1>1
  <2>2. PICK k \in 1..Len(delivered) : delivered[k].num = g[2] BY <2>1, References
  <2>3. k # i \/ delivered[i].refs # 1
    <3>1. SUFFICES ASSUME k = i, delivered[i].refs = 1 PROVE FALSE OBVIOUS
    <3>2. g \in Holders(num) \ {h} BY <1>3, <2>1, <2>2, <3>1 DEF Holders
    <3>3. Running(i) \in Nat BY DEF Running
    <3>4. Cardinality(Holders(num) \ {h}) = 0 BY <1>c, <1>9, <1>10, <3>1, <3>3
    <3>5. Holders(num) \ {h} = {} BY <1>9, <3>4, FS_EmptySet
    <3> QED BY <3>2, <3>5
  <2>4. PICK j \in 1..Len(delivered') : p[j] = k BY <1>5, <2>3 DEF ReleasedFrom
  <2> QED BY <1>5, <2>2, <2>4 DEF ReleasedFrom
<1>16. Len(delivered') \in Nat /\ DOMAIN delivered' = 1..Len(delivered') BY <1>4, LenProperties
<1>17. delivered' # <<>>
  <2>1. PICK j \in 1..Len(delivered') : p[j] = 1 BY <1>2, <1>5, <1>11 DEF ReleasedFrom
  <2> QED BY <1>16, <2>1, EmptySeq
<1> HIDE DEF h
<1>18. RetainedIsKept' BY <1>1, <1>14, <1>15, <1>16 DEF RetainedIsKept, Running
<1> QED BY <1>4, <1>6, <1>7, <1>17, <1>18 DEF RetainInv

LEMMA RetainStep ==
    ASSUME QueueInv, RetainInv, [Next]_vars
    PROVE  RetainInv'
<1>0. sent \in Nat /\ (queue' = queue => NumbersFrom) BY DEF QueueInv, BaseTypes, NumbersFrom
<1>1. CASE RunScheduler
  <2>1. left = <<>> /\ UNCHANGED <<held, sent>> BY <1>1 DEF RunScheduler
  <2>2. CASE UNCHANGED <<queue, delivered, left>> BY <1>0, <2>1, <2>2, SameDelivered
  <2>3. CASE NextMessage # 0 /\ StartDelivery(NextMessage)
    <3>1. NextMessage \in 1..Len(queue) BY <2>3, NextMessageProperties DEF QueueInv
    <3> QED BY <2>1, <2>3, <3>1, DeliveryRetains
  <2> QED BY <1>1, <2>2, <2>3 DEF RunScheduler
<1>2. CASE Return BY <1>2, ReturnRetains
<1>3. ASSUME NEW to \in Recipients, NEW id \in AppIds,
             \/ \E d \in Delays : MessageSendLater(to, id, d)
             \/ \E c \in Conditions : MessageSendConditionally(to, id, c)
      PROVE  RetainInv'
  <2>1. /\ \E m : Sendable(m) /\ SendLater(m)
        /\ UNCHANGED <<left, delivered, held>>
    BY <1>3, SentAreSendable DEF MessageSendLater, MessageSendConditionally, NotSending
  <2>2. NumbersFrom /\ sent' \in Nat /\ sent' >= sent BY <2>1, SendNumbers
  <2> QED BY <2>1, <2>2, SameDelivered
<1>4. ASSUME NEW t \in Tasks,
             MessageFlushTask(t) \/ \E id \in AppIds : MessageCancelFirst(t, id) \/ MessageCancelAll(t, id)
      PROVE  RetainInv'
  <2>1. /\ \E ids, upto : queue' = Cancelled(t, ids, upto)
        /\ UNCHANGED <<left, delivered, held, sent>>
    BY <1>4 DEF MessageFlushTask, MessageCancelFirst, MessageCancelAll, Unscheduled
  <2>2. NumbersFrom BY <2>1, CancelNumbers
  <2> QED BY <1>0, <2>1, <2>2, SameDelivered
<1>5. ASSUME Tick \/ UNCHANGED vars \/ (\E t \in Tasks : Register(t)) \/ \E c \in Conditions : SetCondition(c)
      PROVE  RetainInv'
  <2>1. UNCHANGED <<queue, left, delivered, held, sent>>
    BY <1>5 DEF Tick, vars, Register, SetCondition, Unscheduled
  <2> QED BY <1>0, <2>1, SameDelivered
<1>6. CASE MessageRetain BY <1>6, MessageRetainKeeps
<1>7. ASSUME NEW t \in Tasks, NEW num \in 1..sent, MessageFree(t, num) PROVE RetainInv'
  BY <1>7, MessageFreeKeeps
<1>8. ASSUME NEW t \in Tasks, NEW id \in Notices \cup Updates, NEW dup \in BOOLEAN, NEW v \in Contents(id),
             Raise(t, id, v, dup)
      PROVE  RetainInv'
  <2> DEFINE m == Msg(id, v, <<t>>, NoCondition, 0)
  <2>1. Sendable(m) BY SentAreSendable
  <2> HIDE DEF m
  <2>2. /\ \/ Already(m) /\ queue' = Combined(m) /\ sent' = sent
           \/ SendLater(m)
        /\ UNCHANGED <<left, delivered, held>>
    BY <1>8 DEF Raise, NotSending, m
  <2>3. CASE SendLater(m)
    <3>1. NumbersFrom /\ sent' \in Nat /\ sent' >= sent BY <2>1, <2>3, SendNumbers
    <3> QED BY <2>2, <3>1, SameDelivered
  <2>4. CASE Already(m) /\ queue' = Combined(m) /\ sent' = sent
    <3>1. m.value \in Values \cup {NoValue} /\ BaseTypes BY <2>1 DEF Sendable, Message, QueueInv
    <3> DEFINE c == Combined(m)
    <3>2. Len(c) = Len(queue) /\ \A j \in 1..Len(queue) : c[j].num = queue[j].num
      BY <2>4, <3>1, CombinedProperties
    <3>3. queue' = c BY <2>4
    <3> HIDE DEF c
    <3>4. NumbersFrom BY <3>2, <3>3 DEF NumbersFrom
    <3> QED BY <1>0, <2>2, <2>4, <3>4, SameDelivered
  <2> QED BY <2>2, <2>3, <2>4
<1> QED BY <1>1, <1>2, <1>3, <1>4, <1>5, <1>6, <1>7, <1>8 DEF Next

LEMMA RetainInit == Init => RetainInv
<1> SUFFICES ASSUME Init PROVE RetainInv OBVIOUS
<1>1. delivered \in Seq(Entry) /\ Len(delivered) = 0 /\ DOMAIN delivered = 1..0 /\ held = {} /\ left = <<>>
  BY EmptySeq DEF Init
<1>2. \A i \in 1..Len(delivered) : FALSE BY <1>1
<1>3. \A i \in DOMAIN delivered : FALSE BY <1>1
<1>4. IsFiniteSet(held) BY <1>1, FS_EmptySet
<1> QED BY <1>1, <1>2, <1>3, <1>4 DEF RetainInv, DeliveredOnce, RetainedIsKept

\* Every delivered message is counted: what holds it, the handler running and
\* the tasks that retained it, is what it has references for.
THEOREM RetainInductive == Spec => [](QueueInv /\ RetainInv)
<1>1. QueueInv /\ RetainInv /\ [Next]_vars => RetainInv' BY RetainStep
<1> QED BY <1>1, RetainInit, QueueInductive, PTL DEF Spec

\* The variables have their types, whatever is sent, cancelled and retained.
THEOREM TypeCorrect == Spec => []QueueTypeOK
<1>1. QueueInv /\ RetainInv => QueueTypeOK
  BY DEF QueueInv, BaseTypes, RetainInv, QueueTypeOK, Entry
<1> QED BY <1>1, RetainInductive, PTL

\* A retained message keeps its place and one reference for each holder, and
\* no release, in whatever order, frees another's (release_message).
THEOREM RetainedStay == Spec => []RetainedIsKept
<1>1. RetainInv => RetainedIsKept BY DEF RetainInv
<1> QED BY <1>1, RetainInductive, PTL

\* Messages are delivered when they are due and in the order they are due and
\* were sent, blocked ones aside (insert, vm_message_next).
THEOREM InOrderDelivered == Spec => DeliveredInOrder
<1> DEFINE A == \A i \in DOMAIN queue :
          (left = <<>> /\ left' # <<>> /\ queue[i].num = delivered'[1].num) =>
              /\ queue[i].at <= now
              /\ \A j \in DOMAIN queue \ {i} : Clear(queue[j]) =>
                    \/ queue[j].at > queue[i].at
                    \/ queue[j].at = queue[i].at /\ queue[j].num > queue[i].num
<1>1. ASSUME QueueInv, RetainInv, [Next]_vars PROVE A
  <2>0. /\ Len(queue) \in Nat /\ DOMAIN queue = 1..Len(queue)
        /\ \A i \in 1..Len(queue) : queue[i].at \in Nat /\ queue[i].num \in Nat
    BY <1>1, QueueTypes DEF QueueInv
  <2>1. ASSUME NEW i \in 1..Len(queue), left = <<>>, left' # <<>>, queue[i].num = delivered'[1].num
        PROVE  /\ queue[i].at <= now
               /\ \A j \in 1..Len(queue) \ {i} : Clear(queue[j]) =>
                     \/ queue[j].at > queue[i].at
                     \/ queue[j].at = queue[i].at /\ queue[j].num > queue[i].num
    <3> DEFINE k == NextMessage
    <3>1. k # 0 /\ IsDue(k) /\ StartDelivery(k)
      BY <1>1, <2>1, BetweenHandlers DEF RunScheduler
    <3>2. k \in 1..Len(queue) /\ \A j \in 1..Len(queue) : j < k => ~Clear(queue[j])
      BY <1>1, <3>1, NextMessageProperties DEF QueueInv
    <3> HIDE DEF k
    <3>3. delivered'[1].num = queue[k].num BY <1>1, <3>1, <3>2, DeliveryEntry DEF RetainInv
    <3>4. i = k BY <1>1, <2>1, <3>2, <3>3 DEF QueueInv, NumbersOnce
    <3>5. queue[i].at <= now BY <1>1, <3>1, <3>2, <3>4, DueProperties
    <3>6. ASSUME NEW j \in 1..Len(queue) \ {i}, Clear(queue[j]) PROVE Before(queue[i], queue[j])
      <4>1. i < j BY <2>0, <3>2, <3>4, <3>6
      <4> QED BY <1>1, <4>1 DEF QueueInv, InOrder
    <3> QED BY <2>0, <3>5, <3>6 DEF Before
  <2> QED BY <2>0, <2>1
<1>2. QueueInv /\ RetainInv /\ [Next]_vars => [A]_vars BY <1>1
<1> QED BY <1>2, RetainInductive, PTL DEF Spec, DeliveredInOrder
-----------------------------------------------------------------------------
(* Cancelling for one task leaves a message to the others.                 *)

\* Message i is still queued, for the task t as well.
Stays(i, t) ==
    \E j \in 1..Len(queue') : queue'[j].num = queue[i].num /\ Contains(queue'[j].to, t)

LEMMA NoneContained == ASSUME NEW t, Contains(<<>>, t) PROVE FALSE
BY DEF Contains

LEMMA SendStays ==
    ASSUME QueueInv, NEW m, Sendable(m), SendLater(m), NEW i \in 1..Len(queue), NEW t,
           Contains(queue[i].to, t)
    PROVE  Stays(i, t)
<1>1. CASE queue' = queue BY <1>1 DEF Stays
<1>2. CASE queue' = InsertAt(queue, Place(m), m)
  <2>1. \E j \in 1..Len(queue') : queue'[j] = queue[i] BY <1>2, InsertNumbers
  <2> QED BY <2>1 DEF Stays
<1> QED BY <1>1, <1>2 DEF SendLater

LEMMA CancelStays ==
    ASSUME QueueInv, NEW u, NEW ids, NEW upto, queue' = Cancelled(u, ids, upto),
           NEW i \in 1..Len(queue), NEW t, Contains(queue[i].to, t),
           t # u \/ queue[i].id \notin ids
    PROVE  Stays(i, t)
<1> DEFINE m == Marked(i, u, ids, upto)
<1>1. queue[i] \in Message /\ IsInjective(queue[i].to) BY QueueTypes DEF QueueInv, Addressed
<1>2. Contains(m.to, t) /\ m.num = queue[i].num
  <2>1. CASE i <= upto /\ Hit(queue[i], u, ids)
    <3>1. m = Without(queue[i], u) BY <2>1 DEF Marked
    <3>2. t # u /\ Contains(queue[i].to, u) BY <2>1 DEF Hit
    <3> HIDE DEF m
    <3> QED BY <1>1, <3>1, <3>2, WithoutTask
  <2>2. CASE ~(i <= upto /\ Hit(queue[i], u, ids)) BY <2>2 DEF Marked
  <2> QED BY <2>1, <2>2
<1>3. m.to # <<>> BY <1>2, NoneContained
<1> DEFINE c == Cancelled(u, ids, upto)
<1>4. \E p : /\ \A j \in 1..Len(c) : c[j] = Marked(p[j], u, ids, upto)
             /\ \A j \in 1..Len(queue) :
                   Marked(j, u, ids, upto).to # <<>> => \E k \in 1..Len(c) : p[k] = j
  BY CancelledThins
<1>5. queue' = c OBVIOUS
<1> HIDE DEF c
<1>6. PICK p : /\ \A j \in 1..Len(c) : c[j] = Marked(p[j], u, ids, upto)
               /\ \A j \in 1..Len(queue) :
                     Marked(j, u, ids, upto).to # <<>> => \E k \in 1..Len(c) : p[k] = j
  BY <1>4
<1>7. PICK k \in 1..Len(c) : p[k] = i BY <1>3, <1>6
<1>8. c[k] = m BY <1>6, <1>7
<1> QED BY <1>2, <1>5, <1>7, <1>8 DEF Stays

LEMMA DeliveryStays ==
    ASSUME QueueInv, NEW k \in 1..Len(queue), StartDelivery(k),
           NEW i \in 1..Len(queue), i # k, NEW t, Contains(queue[i].to, t)
    PROVE  Stays(i, t)
<1> DEFINE r == RemoveAt(queue, k)
<1>1. /\ Len(r) = Len(queue) - 1
      /\ \E p : /\ Thins(p, r, queue)
                /\ \A j \in 1..Len(queue) - 1 : p[j] # k /\ r[j] = queue[p[j]]
                /\ \A l \in 1..Len(queue) : l # k => \E j \in 1..Len(queue) - 1 : p[j] = l
  BY RemoveThins
<1>2. queue' = r BY DEF StartDelivery
<1> HIDE DEF r
<1>3. \E j \in 1..Len(r) : r[j] = queue[i] BY <1>1
<1> QED BY <1>2, <1>3 DEF Stays

LEMMA CombineStays ==
    ASSUME QueueInv, NEW m, Sendable(m), Already(m), queue' = Combined(m),
           NEW i \in 1..Len(queue), NEW t, Contains(queue[i].to, t)
    PROVE  Stays(i, t)
<1>1. m.value \in Values \cup {NoValue} /\ BaseTypes BY DEF Sendable, Message, QueueInv
<1> DEFINE c == Combined(m)
<1>2. Len(c) = Len(queue) /\ \A j \in 1..Len(queue) : c[j].num = queue[j].num /\ c[j].to = queue[j].to
  BY <1>1, CombinedProperties
<1>3. queue' = c OBVIOUS
<1> HIDE DEF c
<1> QED BY <1>2, <1>3 DEF Stays

\* A recipient loses a queued message only by its delivery or by a cancel for
\* that recipient and that id (MessageCancelFirst, MessageFlushTask).
THEOREM OthersKeep == Spec => OthersKeepTheirs
<1> DEFINE Excused(i, t) == \/ delivered' # delivered /\ delivered'[1].num = queue[i].num
                            \/ MessageCancelFirst(t, queue[i].id)
                            \/ MessageCancelAll(t, queue[i].id)
                            \/ MessageFlushTask(t)
           A == \A i \in DOMAIN queue, t \in Tasks :
                  (/\ Contains(queue[i].to, t)
                   /\ ~\E j \in DOMAIN queue' : queue'[j].num = queue[i].num /\ Contains(queue'[j].to, t))
                  => \/ delivered' # delivered /\ delivered'[1].num = queue[i].num
                     \/ MessageCancelFirst(t, queue[i].id)
                     \/ MessageCancelAll(t, queue[i].id)
                     \/ MessageFlushTask(t)
<1>1. ASSUME QueueInv, RetainInv, [Next]_vars, NEW i \in 1..Len(queue), NEW t \in Tasks,
             Contains(queue[i].to, t)
      PROVE  Stays(i, t) \/ Excused(i, t)
  <2>1. CASE RunScheduler
    <3>1. CASE queue' = queue BY <1>1, <3>1 DEF Stays
    <3>2. CASE NextMessage # 0 /\ StartDelivery(NextMessage)
      <4> DEFINE k == NextMessage
      <4>1. k \in 1..Len(queue) /\ StartDelivery(k) BY <1>1, <3>2, NextMessageProperties DEF QueueInv
      <4> HIDE DEF k
      <4>2. CASE i # k BY <1>1, <4>1, <4>2, DeliveryStays
      <4>3. CASE i = k
        <5>1. /\ Len(delivered') = Len(delivered) + 1 /\ delivered'[1].num = queue[k].num
              /\ Len(delivered) \in Nat
          BY <1>1, <4>1, DeliveryEntry, LenProperties DEF RetainInv
        <5>2. delivered' # delivered BY <5>1
        <5> QED BY <4>3, <5>1, <5>2
      <4> QED BY <4>2, <4>3
    <3> QED BY <2>1, <3>1, <3>2 DEF RunScheduler
  <2>2. ASSUME NEW to \in Recipients, NEW id \in AppIds,
               \/ \E d \in Delays : MessageSendLater(to, id, d)
               \/ \E c \in Conditions : MessageSendConditionally(to, id, c)
        PROVE  Stays(i, t)
    <3>1. \E m : Sendable(m) /\ SendLater(m)
      BY <1>1, <2>2, SentAreSendable DEF MessageSendLater, MessageSendConditionally
    <3> QED BY <1>1, <3>1, SendStays
  <2>3. ASSUME NEW u \in Tasks, NEW id \in AppIds, MessageCancelFirst(u, id) \/ MessageCancelAll(u, id)
        PROVE  Stays(i, t) \/ Excused(i, t)
    <3>1. PICK upto : queue' = Cancelled(u, {id}, upto)
      BY <2>3 DEF MessageCancelFirst, MessageCancelAll
    <3>2. CASE t # u \/ queue[i].id # id BY <1>1, <3>1, <3>2, CancelStays
    <3>3. CASE t = u /\ queue[i].id = id BY <2>3, <3>3
    <3> QED BY <3>2, <3>3
  <2>4. ASSUME NEW u \in Tasks, MessageFlushTask(u) PROVE Stays(i, t) \/ Excused(i, t)
    <3>1. CASE t # u BY <1>1, <2>4, <3>1, CancelStays DEF MessageFlushTask
    <3>2. CASE t = u BY <2>4, <3>2
    <3> QED BY <3>1, <3>2
  <2>5. ASSUME NEW u \in Tasks, NEW id \in Notices \cup Updates, NEW dup \in BOOLEAN, NEW v \in Contents(id),
               Raise(u, id, v, dup)
        PROVE  Stays(i, t)
    <3> DEFINE m == Msg(id, v, <<u>>, NoCondition, 0)
    <3>1. Sendable(m) BY <1>1, SentAreSendable
    <3> HIDE DEF m
    <3>2. SendLater(m) \/ (Already(m) /\ queue' = Combined(m)) BY <2>5 DEF Raise, m
    <3> QED BY <1>1, <3>1, <3>2, SendStays, CombineStays
  <2>6. ASSUME \/ Return \/ MessageRetain \/ Tick \/ UNCHANGED vars
               \/ \E u \in Tasks : Register(u) \/ \E num \in 1..sent : MessageFree(u, num)
               \/ \E c \in Conditions : SetCondition(c)
        PROVE  Stays(i, t)
    <3>1. queue' = queue
      BY <2>6 DEF Return, MessageRetain, Tick, vars, Register, MessageFree, SetCondition
    <3> QED BY <1>1, <3>1 DEF Stays
  <2> HIDE DEF Excused
  <2> QED BY <1>1, <2>1, <2>2, <2>3, <2>4, <2>5, <2>6 DEF Next
<1>2. ASSUME QueueInv, RetainInv, [Next]_vars PROVE A
  <2>1. DOMAIN queue = 1..Len(queue) BY <1>2, QueueTypes DEF QueueInv
  <2>2. DOMAIN queue' = 1..Len(queue')
    BY <1>2, QueueStep, LenProperties DEF QueueInv, BaseTypes
  <2> QED BY <1>1, <1>2, <2>1, <2>2 DEF Stays
<1>3. QueueInv /\ RetainInv /\ [Next]_vars => [A]_vars BY <1>2
<1> QED BY <1>3, RetainInductive, PTL DEF Spec, OthersKeepTheirs
-----------------------------------------------------------------------------
(* What the system raised is queued until it is handled.                   *)

System == Notices \cup Updates

Carries(m, o) == m.to = <<o[1]>> /\ m.id = o[2] /\ m.value = o[3]

SystemMessages(q) ==
    \A i \in 1..Len(q) : q[i].id \in System =>
        q[i].value \in Contents(q[i].id) /\ \E t \in Tasks : q[i].to = <<t>>

UpdatesOnce(q) ==
    \A i, j \in 1..Len(q) :
        q[i].id \in Updates /\ q[i].id = q[j].id /\ q[i].to = q[j].to => i = j

RaisedInv ==
    /\ owed \subseteq Tasks \X System \X (Values \cup {NoValue})
    /\ SystemMessages(queue) /\ UpdatesOnce(queue)
    /\ RaisedIsQueued

Owing(m) == <<m.to[1], m.id, m.value>>

LEMMA RaisedProperties ==
    ASSUME QueueInv
    PROVE  RaisedIsQueued <=>
              /\ \A o \in owed : \E i \in 1..Len(queue) : Carries(queue[i], o)
              /\ \A i \in 1..Len(queue) : queue[i].id \in Updates => Owing(queue[i]) \in owed
<1>1. DOMAIN queue = 1..Len(queue) BY QueueTypes DEF QueueInv
<1> QED BY <1>1 DEF RaisedIsQueued, Carries, Owing

\* A message is dropped only for one that holds the same (similar).
LEMMA SimilarHoldTheSame ==
    ASSUME SystemMessages(queue), NEW i \in 1..Len(queue), queue[i].id \in System,
           NEW m, m.value \in Contents(m.id), Similar(queue[i], m)
    PROVE  queue[i].value = m.value
<1>1. queue[i].value \in Contents(queue[i].id) BY DEF SystemMessages
<1>2. queue[i].id = m.id BY DEF Similar
<1>3. CASE m.id \in Bare BY <1>1, <1>2, <1>3 DEF Contents
<1>4. CASE m.id \notin Bare BY <1>2, <1>4 DEF Similar
<1> QED BY <1>3, <1>4

\* A step that raises nothing and changes no message of the system it leaves.
LEMMA NothingRaised ==
    ASSUME QueueInv, QueueInv', RaisedInv, owed' \subseteq owed,
           \A j \in 1..Len(queue') : queue'[j].id \in System =>
              \E i \in 1..Len(queue) :
                 /\ queue'[j] = queue[i]
                 /\ queue[i].id \in Updates => Owing(queue[i]) \in owed',
           \A o \in owed', i \in 1..Len(queue) : Carries(queue[i], o) =>
              \E j \in 1..Len(queue') : Carries(queue'[j], o)
    PROVE  RaisedInv'
<1>1. owed' \subseteq Tasks \X System \X (Values \cup {NoValue}) BY DEF RaisedInv
<1>2. SystemMessages(queue)' BY DEF RaisedInv, SystemMessages
<1>3. UpdatesOnce(queue)'
  <2>1. ASSUME NEW j \in 1..Len(queue'), NEW k \in 1..Len(queue'),
               queue'[j].id \in Updates, queue'[j].id = queue'[k].id, queue'[j].to = queue'[k].to
        PROVE  j = k
    <3>1. queue'[j].id \in System /\ queue'[k].id \in System BY <2>1 DEF System
    <3>2. PICK a \in 1..Len(queue), b \in 1..Len(queue) : queue'[j] = queue[a] /\ queue'[k] = queue[b]
      BY <3>1
    <3>3. a = b BY <2>1, <3>2 DEF RaisedInv, UpdatesOnce
    <3> QED BY <3>2, <3>3 DEF QueueInv, NumbersOnce
  <2> QED BY <2>1 DEF UpdatesOnce
<1>4. \A o \in owed' : \E j \in 1..Len(queue') : Carries(queue'[j], o)
  BY RaisedProperties DEF RaisedInv
<1>5. \A j \in 1..Len(queue') : queue'[j].id \in Updates => Owing(queue'[j]) \in owed'
  BY DEF System
<1>6. RaisedIsQueued'
  <2>1. DOMAIN queue' = 1..Len(queue') BY LenProperties DEF QueueInv, BaseTypes
  <2> QED BY <1>4, <1>5, <2>1 DEF RaisedIsQueued, Carries, Owing
<1> QED BY <1>1, <1>2, <1>3, <1>6 DEF RaisedInv

LEMMA DeliveryRaised ==
    ASSUME QueueInv, QueueInv', RaisedInv, NEW k \in 1..Len(queue), StartDelivery(k)
    PROVE  RaisedInv'
<1> DEFINE r == RemoveAt(queue, k)
<1>1. /\ Len(r) = Len(queue) - 1
      /\ \E p : /\ Thins(p, r, queue)
                /\ \A j \in 1..Len(queue) - 1 : p[j] # k /\ r[j] = queue[p[j]]
                /\ \A l \in 1..Len(queue) : l # k => \E j \in 1..Len(queue) - 1 : p[j] = l
  BY RemoveThins
<1>2. queue' = r /\ owed' = owed \ {Owing(queue[k])} BY DEF StartDelivery, Owing
<1> HIDE DEF r
<1>p. PICK p : /\ Thins(p, r, queue)
               /\ \A j \in 1..Len(queue) - 1 : p[j] # k /\ r[j] = queue[p[j]]
               /\ \A l \in 1..Len(queue) : l # k => \E j \in 1..Len(queue) - 1 : p[j] = l
  BY <1>1
<1>3. /\ Thins(p, queue', queue)
      /\ \A j \in 1..Len(queue') : p[j] # k /\ queue'[j] = queue[p[j]]
      /\ \A l \in 1..Len(queue) : l # k => \E j \in 1..Len(queue') : p[j] = l
  BY <1>1, <1>2, <1>p
<1>4. ASSUME NEW j \in 1..Len(queue'), queue'[j].id \in System
      PROVE  \E i \in 1..Len(queue) : /\ queue'[j] = queue[i]
                                      /\ queue[i].id \in Updates => Owing(queue[i]) \in owed'
  <2> DEFINE i == p[j]
  <2>1. i \in 1..Len(queue) /\ i # k /\ queue'[j] = queue[i] BY <1>3 DEF Thins
  <2> HIDE DEF i
  <2>2. ASSUME queue[i].id \in Updates PROVE Owing(queue[i]) \in owed'
    <3>1. Owing(queue[i]) \in owed BY <2>1, <2>2, RaisedProperties DEF RaisedInv
    <3>2. SUFFICES ASSUME Owing(queue[i]) = Owing(queue[k]) PROVE FALSE BY <1>2, <3>1
    <3>3. queue[i].id = queue[k].id /\ queue[i].to[1] = queue[k].to[1] BY <3>2 DEF Owing
    <3>4. queue[i].id \in System /\ queue[k].id \in System BY <2>2, <3>3 DEF System
    <3>5. PICK t \in Tasks, u \in Tasks : queue[i].to = <<t>> /\ queue[k].to = <<u>>
      BY <2>1, <3>4 DEF RaisedInv, SystemMessages
    <3>6. queue[i].to = queue[k].to BY <3>3, <3>5
    <3> QED BY <2>1, <2>2, <3>3, <3>6 DEF RaisedInv, UpdatesOnce
  <2> QED BY <2>1, <2>2
<1>5. ASSUME NEW o \in owed', NEW i \in 1..Len(queue), Carries(queue[i], o)
      PROVE  \E j \in 1..Len(queue') : Carries(queue'[j], o)
  <2>1. i # k
    <3>1. SUFFICES ASSUME i = k PROVE FALSE OBVIOUS
    <3>2. o \in Tasks \X System \X (Values \cup {NoValue}) BY <1>2 DEF RaisedInv
    <3>3. Owing(queue[k]) = o BY <1>5, <3>1, <3>2 DEF Carries, Owing
    <3> QED BY <1>2, <3>3
  <2> QED BY <1>3, <1>5, <2>1
<1>6. owed' \subseteq owed BY <1>2
<1> QED BY <1>4, <1>5, <1>6, NothingRaised

\* Cancelling does not touch a message of the system whose task keeps it.
LEMMA CancelSystem ==
    ASSUME QueueInv, RaisedInv, NEW u, NEW ids, NEW upto, queue' = Cancelled(u, ids, upto)
    PROVE  /\ \A j \in 1..Len(queue') : queue'[j].id \in System =>
                 \E i \in 1..Len(queue) : /\ queue'[j] = queue[i]
                                          /\ i <= upto => ~Hit(queue[i], u, ids)
           /\ \A i \in 1..Len(queue) : ~Hit(queue[i], u, ids) =>
                 \E j \in 1..Len(queue') : queue'[j] = queue[i]
<1> DEFINE c == Cancelled(u, ids, upto)
<1>1. /\ Addressed(c)
      /\ \E p : /\ Thins(p, c, queue)
                /\ \A j \in 1..Len(c) : c[j] = Marked(p[j], u, ids, upto)
                /\ \A j \in 1..Len(queue) :
                      Marked(j, u, ids, upto).to # <<>> => \E k \in 1..Len(c) : p[k] = j
  BY CancelledThins
<1>2. queue' = c OBVIOUS
<1> HIDE DEF c
<1>3. PICK p : /\ Thins(p, c, queue)
               /\ \A j \in 1..Len(c) : c[j] = Marked(p[j], u, ids, upto)
               /\ \A j \in 1..Len(queue) :
                     Marked(j, u, ids, upto).to # <<>> => \E k \in 1..Len(c) : p[k] = j
  BY <1>1
<1>4. ASSUME NEW j \in 1..Len(c), c[j].id \in System
      PROVE  \E i \in 1..Len(queue) : c[j] = queue[i] /\ (i <= upto => ~Hit(queue[i], u, ids))
  <2> DEFINE i == p[j]
  <2>1. i \in 1..Len(queue) /\ c[j].id = queue[i].id /\ c[j] = Marked(i, u, ids, upto)
    BY <1>3 DEF Thins
  <2> HIDE DEF i
  <2>2. ~(i <= upto /\ Hit(queue[i], u, ids))
    <3>1. SUFFICES ASSUME Hit(queue[i], u, ids), c[j] = Without(queue[i], u) PROVE FALSE
      BY <2>1 DEF Marked
    <3>2. PICK t \in Tasks : queue[i].to = <<t>> BY <1>4, <2>1 DEF RaisedInv, SystemMessages
    <3>3. queue[i] \in Message /\ IsInjective(queue[i].to) /\ Contains(queue[i].to, u)
      BY <2>1, <3>1, QueueTypes DEF QueueInv, Addressed, Hit
    <3>4. c[j].to = RemoveFirst(queue[i].to, u) BY <3>1, <3>3, WithoutTask
    <3>5. queue[i].to \in Seq(Tasks) /\ Len(queue[i].to) = 1 BY <3>2
    <3> DEFINE s == queue[i].to
               r == RemoveFirst(s, u)
    <3>6. r \in Seq(Tasks) /\ Len(r) = Len(s) - 1
      <4> HIDE DEF r
      <4>1. s \in Seq(Tasks) /\ IsInjective(s) /\ Contains(s, u) BY <3>3, <3>5
      <4> HIDE DEF s
      <4> QED BY <4>1, RemoveFirstProperties DEF r
    <3> HIDE DEF r
    <3>7. r = <<>> BY <3>5, <3>6, EmptySeq
    <3> QED BY <1>1, <3>4, <3>7 DEF Addressed, r
  <2> QED BY <2>1, <2>2 DEF Marked
<1>5. ASSUME NEW i \in 1..Len(queue), ~Hit(queue[i], u, ids)
      PROVE  \E j \in 1..Len(c) : c[j] = queue[i]
  <2>1. Marked(i, u, ids, upto) = queue[i] BY <1>5 DEF Marked
  <2>2. queue[i].to # <<>> BY DEF QueueInv, Addressed
  <2> QED BY <1>3, <2>1, <2>2
<1> QED BY <1>2, <1>4, <1>5

LEMMA CancelRaised ==
    ASSUME QueueInv, QueueInv', RaisedInv, NEW u \in Tasks,
           MessageFlushTask(u) \/ \E id \in AppIds : MessageCancelFirst(u, id) \/ MessageCancelAll(u, id)
    PROVE  RaisedInv'
<1>1. PICK ids, upto :
         /\ queue' = Cancelled(u, ids, upto)
         /\ \/ ids \subseteq AppIds /\ owed' = owed
            \/ upto = Len(queue) /\ ids = Ids /\ owed' = {o \in owed : o[1] # u}
  BY DEF MessageFlushTask, MessageCancelFirst, MessageCancelAll, Unscheduled
<1>2. /\ \A j \in 1..Len(queue') : queue'[j].id \in System =>
            \E i \in 1..Len(queue) : /\ queue'[j] = queue[i]
                                     /\ i <= upto => ~Hit(queue[i], u, ids)
      /\ \A i \in 1..Len(queue) : ~Hit(queue[i], u, ids) =>
            \E j \in 1..Len(queue') : queue'[j] = queue[i]
  BY <1>1, CancelSystem
<1>3. \A i \in 1..Len(queue) : queue[i].id \in Ids BY QueueTypes DEF QueueInv
<1>4. owed' \subseteq owed BY <1>1
<1>5. ASSUME NEW i \in 1..Len(queue), queue[i].id \in Updates, i <= upto => ~Hit(queue[i], u, ids)
      PROVE  Owing(queue[i]) \in owed'
  <2>1. Owing(queue[i]) \in owed BY <1>5, RaisedProperties DEF RaisedInv
  <2>2. CASE owed' = owed BY <2>1, <2>2
  <2>3. CASE upto = Len(queue) /\ ids = Ids /\ owed' = {o \in owed : o[1] # u}
    <3>1. Len(queue) \in Nat BY QueueTypes DEF QueueInv
    <3>2. ~Contains(queue[i].to, u) BY <1>3, <1>5, <2>3, <3>1 DEF Hit
    <3>3. PICK t \in Tasks : queue[i].to = <<t>> BY <1>5 DEF RaisedInv, SystemMessages, System
    <3>4. t # u BY <3>2, <3>3 DEF Contains
    <3>5. Owing(queue[i])[1] = t BY <3>3 DEF Owing
    <3> QED BY <2>1, <2>3, <3>4, <3>5
  <2> QED BY <1>1, <2>2, <2>3
<1>6. ASSUME NEW j \in 1..Len(queue'), queue'[j].id \in System
      PROVE  \E i \in 1..Len(queue) : /\ queue'[j] = queue[i]
                                      /\ queue[i].id \in Updates => Owing(queue[i]) \in owed'
  BY <1>2, <1>5, <1>6
<1>7. ASSUME NEW o \in owed', NEW i \in 1..Len(queue), Carries(queue[i], o)
      PROVE  \E j \in 1..Len(queue') : Carries(queue'[j], o)
  <2>1. ~Hit(queue[i], u, ids)
    <3>1. CASE ids \subseteq AppIds
      <4>1. queue[i].id \in System BY <1>4, <1>7 DEF Carries, RaisedInv
      <4> QED BY <3>1, <4>1, IdsDiffer DEF Hit, System
    <3>2. CASE owed' = {g \in owed : g[1] # u}
      <4>1. o[1] # u /\ queue[i].to = <<o[1]>> BY <1>7, <3>2 DEF Carries
      <4> QED BY <4>1 DEF Hit, Contains
    <3> QED BY <1>1, <3>1, <3>2
  <2> QED BY <1>2, <1>7, <2>1
<1> QED BY <1>4, <1>6, <1>7, NothingRaised

LEMMA SendRaised ==
    ASSUME QueueInv, QueueInv', RaisedInv, NEW m, Sendable(m), m.id \in AppIds, SendLater(m),
           owed' = owed
    PROVE  RaisedInv'
<1>1. CASE queue' = queue
  <2>1. \A i \in 1..Len(queue) : queue[i].id \in Updates => Owing(queue[i]) \in owed'
    BY RaisedProperties DEF RaisedInv
  <2> QED BY <1>1, <2>1, NothingRaised
<1>2. CASE queue' = InsertAt(queue, Place(m), m)
  <2>1. /\ \A i \in 1..Len(queue) : \E j \in 1..Len(queue') : queue'[j] = queue[i]
        /\ \A j \in 1..Len(queue') : queue'[j] = m \/ \E i \in 1..Len(queue) : queue'[j] = queue[i]
    BY <1>2, InsertNumbers
  <2>2. m.id \notin System BY IdsDiffer DEF System
  <2>3. \A i \in 1..Len(queue) : queue[i].id \in Updates => Owing(queue[i]) \in owed'
    BY RaisedProperties DEF RaisedInv
  <2>4. ASSUME NEW j \in 1..Len(queue'), queue'[j].id \in System
        PROVE  \E i \in 1..Len(queue) : /\ queue'[j] = queue[i]
                                        /\ queue[i].id \in Updates => Owing(queue[i]) \in owed'
    BY <2>1, <2>2, <2>3, <2>4
  <2>5. ASSUME NEW o \in owed', NEW i \in 1..Len(queue), Carries(queue[i], o)
        PROVE  \E j \in 1..Len(queue') : Carries(queue'[j], o)
    BY <2>1, <2>5
  <2> QED BY <2>4, <2>5, NothingRaised
<1> QED BY <1>1, <1>2 DEF SendLater

\* What the system raises, as one message, and what it owes after.
LEMMA RaiseStep ==
    ASSUME QueueInv, QueueInv', RaisedInv,
           NEW t \in Tasks, NEW id \in Notices \cup Updates, NEW dup \in BOOLEAN, NEW v \in Contents(id),
           Raise(t, id, v, dup)
    PROVE  RaisedInv'
<1> DEFINE m == Msg(id, v, <<t>>, NoCondition, 0)
           o0 == <<t, id, v>>
<1>1. Sendable(m) BY SentAreSendable
<1>2. /\ m.id = id /\ m.value = v /\ m.to = <<t>>
      /\ m.value \in Contents(m.id) /\ id \in System /\ SystemMessages(queue)
  BY DEF Msg, System, RaisedInv
<1>3. /\ owed' = {o \in owed : id \in Updates => o[1] # t \/ o[2] # id} \cup {o0}
      /\ \/ /\ Already(m) /\ queue' = Combined(m)
         \/ /\ SendLater(m) /\ (id \in Updates => ~Already(m))
  BY DEF Raise
<1> HIDE DEF m
<1>4. owed' \subseteq Tasks \X System \X (Values \cup {NoValue}) BY <1>3 DEF RaisedInv, System, Contents
<1>5. DOMAIN queue' = 1..Len(queue') BY LenProperties DEF QueueInv, BaseTypes
<1>6. o0[1] = t /\ o0[2] = id /\ o0[3] = v /\ o0 \in owed' BY <1>3
<1>7. Carries(m, o0) /\ Owing(m) = o0 BY <1>2 DEF Carries, Owing
<1>8. /\ \A o \in owed : \E i \in 1..Len(queue) : Carries(queue[i], o)
      /\ \A i \in 1..Len(queue) : queue[i].id \in Updates => Owing(queue[i]) \in owed
  BY RaisedProperties DEF RaisedInv
<1>9. ASSUME NEW i \in 1..Len(queue), queue[i].id \in Updates, queue[i].id # id \/ queue[i].to # <<t>>
      PROVE  Owing(queue[i]) \in owed'
  <2>1. PICK u \in Tasks : queue[i].to = <<u>> BY <1>9 DEF RaisedInv, SystemMessages, System
  <2> DEFINE o == Owing(queue[i])
  <2>2. o[1] = u /\ o[2] = queue[i].id BY <2>1 DEF Owing
  <2>3. o \in owed BY <1>8, <1>9
  <2> HIDE DEF o
  <2>4. o[1] # t \/ o[2] # id BY <1>9, <2>1, <2>2
  <2>5. o \in owed' BY <1>3, <2>3, <2>4
  <2> QED BY <2>5 DEF o
<1> HIDE DEF o0
<1>10. CASE Already(m) /\ queue' = Combined(m)
  <2> DEFINE c == Combined(m)
  <2>1. m.value \in Values \cup {NoValue} /\ BaseTypes BY <1>1 DEF Sendable, Message, QueueInv
  <2>2. /\ Len(c) = Len(queue)
        /\ \E i \in 1..Len(queue) :
              /\ Similar(queue[i], m) \/ Replaceable(queue[i], m)
              /\ c[i].value = m.value
              /\ \A j \in 1..Len(queue) : j # i => c[j] = queue[j]
        /\ \A j \in 1..Len(queue) : c[j].num = queue[j].num /\ c[j].id = queue[j].id /\ c[j].to = queue[j].to
    BY <1>10, <2>1, CombinedProperties
  <2>3. queue' = c BY <1>10
  <2> HIDE DEF c
  <2>4. PICK i \in 1..Len(queue) :
              /\ Similar(queue[i], m) \/ Replaceable(queue[i], m)
              /\ c[i].value = m.value
              /\ \A j \in 1..Len(queue) : j # i => c[j] = queue[j]
    BY <2>2
  <2>5. queue[i].to = <<t>> /\ queue[i].id = id BY <1>2, <2>4 DEF Similar, Replaceable
  <2>6. c[i].to = <<t>> /\ c[i].id = id /\ c[i].value = v BY <1>2, <2>2, <2>4, <2>5
  <2>7. Carries(c[i], o0) /\ Owing(c[i]) = o0 BY <1>6, <2>6 DEF Carries, Owing, o0
  <2>8. SystemMessages(queue)'
    <3>1. ASSUME NEW j \in 1..Len(queue), c[j].id \in System
          PROVE  c[j].value \in Contents(c[j].id) /\ \E u \in Tasks : c[j].to = <<u>>
      <4>1. CASE j = i BY <2>6, <4>1
      <4>2. CASE j # i BY <2>4, <3>1, <4>2 DEF RaisedInv, SystemMessages
      <4> QED BY <4>1, <4>2
    <3> QED BY <2>2, <2>3, <3>1 DEF SystemMessages
  <2>9. UpdatesOnce(queue)' BY <2>2, <2>3 DEF RaisedInv, UpdatesOnce
  <2>10. ASSUME NEW o \in owed' PROVE \E j \in 1..Len(queue) : Carries(c[j], o)
    <3>1. CASE o = o0 BY <2>7, <3>1
    <3>2. CASE o # o0
      <4>1. o \in owed /\ (id \in Updates => o[1] # t \/ o[2] # id) BY <1>3, <3>2
      <4>2. PICK j \in 1..Len(queue) : Carries(queue[j], o) BY <1>8, <4>1
      <4>3. CASE j # i BY <2>4, <4>2, <4>3
      <4>4. CASE j = i
        <5>1. id \notin Updates
          <6>1. o[2] = id /\ <<o[1]>> = <<t>> BY <2>5, <4>2, <4>4 DEF Carries
          <6> QED BY <4>1, <6>1
        <5>2. queue[i].value = v BY <1>2, <2>4, <2>5, <5>1, SimilarHoldTheSame DEF Replaceable, System
        <5> QED BY <2>2, <2>6, <4>2, <4>4, <5>2 DEF Carries
      <4> QED BY <4>3, <4>4
    <3> QED BY <3>1, <3>2
  <2>11. ASSUME NEW j \in 1..Len(queue), c[j].id \in Updates PROVE Owing(c[j]) \in owed'
    <3>1. CASE j = i BY <1>6, <2>7, <3>1
    <3>2. CASE j # i
      <4>1. c[j] = queue[j] BY <2>4, <3>2
      <4>2. queue[j].id # id \/ queue[j].to # <<t>>
        BY <2>5, <2>11, <3>2, <4>1 DEF RaisedInv, UpdatesOnce
      <4> QED BY <1>9, <2>11, <4>1, <4>2
    <3> QED BY <3>1, <3>2
  <2>12. RaisedIsQueued'
    BY <1>5, <2>2, <2>3, <2>10, <2>11 DEF RaisedIsQueued, Carries, Owing
  <2> QED BY <1>4, <2>8, <2>9, <2>12 DEF RaisedInv
<1>11. CASE SendLater(m) /\ (id \in Updates => ~Already(m))
  <2>1. ASSUME NEW i \in 1..Len(queue), queue[i].id \in Updates PROVE Owing(queue[i]) \in owed'
    <3>1. queue[i].id # id \/ queue[i].to # <<t>>
      <4>1. SUFFICES ASSUME queue[i].id = id, queue[i].to = <<t>> PROVE FALSE OBVIOUS
      <4>2. Replaceable(queue[i], m) BY <1>2, <2>1, <4>1 DEF Replaceable
      <4>3. Already(m) BY <4>2, QueueTypes DEF Already, QueueInv
      <4> QED BY <1>11, <2>1, <4>1, <4>3
    <3> QED BY <1>9, <2>1, <3>1
  <2>2. ASSUME NEW o \in owed', o # o0 PROVE \E i \in 1..Len(queue) : Carries(queue[i], o)
    BY <1>3, <1>8, <2>2
  <2>3. CASE queue' = queue /\ Place(m) > 1 /\ Similar(queue[Place(m) - 1], m)
    <3> DEFINE k == Place(m) - 1
    <3>1. k \in 1..Len(queue)
      <4>1. Place(m) \in 1..Len(queue) + 1 BY <1>1, PlaceProperties
      <4>2. Len(queue) \in Nat BY QueueTypes DEF QueueInv
      <4> QED BY <2>3, <4>1, <4>2
    <3>2. Carries(queue[k], o0)
      <4>1. queue[k].id = id /\ queue[k].to = <<t>> BY <1>2, <2>3 DEF Similar
      <4>2. queue[k].value = v BY <1>2, <2>3, <3>1, <4>1, SimilarHoldTheSame DEF System
      <4> QED BY <1>6, <4>1, <4>2 DEF Carries
    <3> HIDE DEF k
    <3>3. \A o \in owed' : \E i \in 1..Len(queue) : Carries(queue[i], o) BY <2>2, <3>1, <3>2
    <3>4. RaisedIsQueued' BY <1>5, <2>1, <2>3, <3>3 DEF RaisedIsQueued, Carries, Owing
    <3> QED BY <1>4, <2>3, <3>4 DEF RaisedInv, SystemMessages, UpdatesOnce
  <2>4. CASE queue' = InsertAt(queue, Place(m), m)
    <3>1. /\ \A i \in 1..Len(queue) : \E j \in 1..Len(queue') : queue'[j] = queue[i]
          /\ \A j \in 1..Len(queue') : queue'[j] = m \/ \E i \in 1..Len(queue) : queue'[j] = queue[i]
          /\ \E j \in 1..Len(queue') : queue'[j] = m
      BY <1>1, <2>4, InsertNumbers
    <3>2. SystemMessages(queue)'
      <4>1. SystemMessages(queue) BY DEF RaisedInv
      <4>2. ASSUME NEW j \in 1..Len(queue'), queue'[j].id \in System
            PROVE  queue'[j].value \in Contents(queue'[j].id) /\ \E u \in Tasks : queue'[j].to = <<u>>
        <5>1. CASE queue'[j] = m BY <1>2, <5>1
        <5>2. CASE \E l \in 1..Len(queue) : queue'[j] = queue[l] BY <4>1, <4>2, <5>2 DEF SystemMessages
        <5> QED BY <3>1, <5>1, <5>2
      <4> QED BY <4>2 DEF SystemMessages
    <3>3. UpdatesOnce(queue)'
      <4>1. ASSUME NEW j \in 1..Len(queue'), NEW l \in 1..Len(queue'),
                   queue'[j].id \in Updates, queue'[j].id = queue'[l].id, queue'[j].to = queue'[l].to
            PROVE  queue'[j] = queue'[l]
        <5>1. ASSUME NEW a \in 1..Len(queue), queue[a].id \in Updates, queue[a].id = m.id, queue[a].to = m.to
              PROVE  FALSE
          <6>1. Replaceable(queue[a], m) BY <5>1 DEF Replaceable
          <6>2. Already(m) BY <6>1, QueueTypes DEF Already, QueueInv
          <6> QED BY <1>2, <1>11, <5>1, <6>2
        <5>2. CASE queue'[j] = m /\ queue'[l] = m BY <5>2
        <5>3. CASE queue'[j] = m /\ \E a \in 1..Len(queue) : queue'[l] = queue[a]
          BY <4>1, <5>1, <5>3
        <5>4. CASE queue'[l] = m /\ \E a \in 1..Len(queue) : queue'[j] = queue[a]
          BY <4>1, <5>1, <5>4
        <5>5. CASE /\ \E a \in 1..Len(queue) : queue'[j] = queue[a]
                   /\ \E a \in 1..Len(queue) : queue'[l] = queue[a]
          BY <4>1, <5>5 DEF RaisedInv, UpdatesOnce
        <5> QED BY <3>1, <5>2, <5>3, <5>4, <5>5
      <4> QED BY <4>1 DEF UpdatesOnce, QueueInv, NumbersOnce
    <3>4. \A o \in owed' : \E j \in 1..Len(queue') : Carries(queue'[j], o)
      BY <1>7, <2>2, <3>1
    <3>5. \A j \in 1..Len(queue') : queue'[j].id \in Updates => Owing(queue'[j]) \in owed'
      BY <1>6, <1>7, <2>1, <3>1
    <3>6. RaisedIsQueued' BY <1>5, <3>4, <3>5 DEF RaisedIsQueued, Carries, Owing
    <3> QED BY <1>4, <3>2, <3>3, <3>6 DEF RaisedInv
  <2> QED BY <1>11, <2>3, <2>4 DEF SendLater
<1> QED BY <1>3, <1>10, <1>11

LEMMA RaisedStep ==
    ASSUME QueueInv, QueueInv', RaisedInv, [Next]_vars
    PROVE  RaisedInv'
<1>1. CASE queue' = queue /\ owed' = owed
  <2>1. \A i \in 1..Len(queue) : queue[i].id \in Updates => Owing(queue[i]) \in owed'
    BY <1>1, RaisedProperties DEF RaisedInv
  <2> QED BY <1>1, <2>1, NothingRaised
<1>2. CASE RunScheduler
  <2>1. CASE NextMessage # 0 /\ StartDelivery(NextMessage)
    <3>1. NextMessage \in 1..Len(queue) BY <2>1, NextMessageProperties DEF QueueInv
    <3> QED BY <2>1, <3>1, DeliveryRaised
  <2> QED BY <1>1, <1>2, <2>1 DEF RunScheduler
<1>3. ASSUME NEW to \in Recipients, NEW id \in AppIds,
             \/ \E d \in Delays : MessageSendLater(to, id, d)
             \/ \E c \in Conditions : MessageSendConditionally(to, id, c)
      PROVE  RaisedInv'
  <2>1. /\ \E m : Sendable(m) /\ m.id \in AppIds /\ SendLater(m)
        /\ owed' = owed
    BY <1>3, SentAreSendable DEF MessageSendLater, MessageSendConditionally, Msg
  <2> QED BY <2>1, SendRaised
<1>4. ASSUME NEW t \in Tasks,
             MessageFlushTask(t) \/ \E id \in AppIds : MessageCancelFirst(t, id) \/ MessageCancelAll(t, id)
      PROVE  RaisedInv'
  BY <1>4, CancelRaised
<1>5. ASSUME NEW t \in Tasks, NEW id \in Notices \cup Updates, NEW dup \in BOOLEAN, NEW v \in Contents(id),
             Raise(t, id, v, dup)
      PROVE  RaisedInv'
  BY <1>5, RaiseStep
<1>6. ASSUME \/ Return \/ MessageRetain \/ Tick \/ UNCHANGED vars
             \/ \E t \in Tasks : Register(t) \/ \E num \in 1..sent : MessageFree(t, num)
             \/ \E c \in Conditions : SetCondition(c)
      PROVE  RaisedInv'
  <2>1. queue' = queue /\ owed' = owed
    BY <1>6 DEF Return, MessageRetain, Tick, vars, Register, MessageFree, SetCondition
  <2> QED BY <1>1, <2>1
<1> QED BY <1>2, <1>3, <1>4, <1>5, <1>6 DEF Next

\* Combining a message of the system with one in the queue, or dropping it as
\* similar to its predecessor, loses nothing the system raised (already,
\* similar, replace, insert).
THEOREM RaisedStay == Spec => []RaisedIsQueued
<1>1. Init => RaisedInv
  <2> SUFFICES ASSUME Init PROVE RaisedInv OBVIOUS
  <2>1. owed = {} /\ QueueInv /\ Len(queue) = 0 BY QueueInit, EmptySeq DEF Init
  <2>2. \A i \in 1..Len(queue) : FALSE BY <2>1
  <2> QED BY <2>1, <2>2, RaisedProperties DEF RaisedInv, SystemMessages, UpdatesOnce
<1>2. QueueInv /\ QueueInv' /\ RaisedInv /\ [Next]_vars => RaisedInv' BY RaisedStep
<1>3. RaisedInv => RaisedIsQueued BY DEF RaisedInv
<1> QED BY <1>1, <1>2, <1>3, QueueInductive, PTL DEF Spec
=============================================================================
