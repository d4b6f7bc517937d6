-------------------------- MODULE MerkleTreeProofs --------------------------
(* Proofs about MerkleTree, for any hashes, ranges of any length, proofs of *)
(* any length and any number of alterations.                                *)
EXTENDS MerkleTree, WellFoundedInduction, NaturalsInduction, TLAPS

-----------------------------------------------------------------------------
(* Induction, and the functions that the model defines by recursion *)

LEMMA LeastOf ==
  ASSUME NEW S, S \subseteq Nat, S # {}
  PROVE  \E i \in S : \A j \in S : i <= j
<1>1. PICK i \in S : \A j \in S : ~ (<<j, i>> \in OpToRel(<, Nat))
  BY NatLessThanWellFounded, WFMin
<1>2. ASSUME NEW j \in S PROVE i <= j
  <2>1. i \in Nat /\ j \in Nat
    OBVIOUS
  <2>2. ~ (j < i)
    BY <1>1, <2>1 DEF OpToRel
  <2>. QED
    BY <2>1, <2>2
<1>. QED
  BY <1>2

\* A set that has each number of which it has all that are less has every number.
LEMMA Strong ==
  ASSUME NEW G, \A m \in Nat : (\A k \in 0 .. m - 1 : k \in G) => m \in G
  PROVE  \A m \in Nat : m \in G
<1>. SUFFICES ASSUME Nat \ G # {} PROVE FALSE
  OBVIOUS
<1>1. PICK m \in Nat \ G : \A j \in Nat \ G : m <= j
  BY LeastOf
<1>2. ASSUME NEW k \in 0 .. m - 1 PROVE k \in G
  <2>1. k \in Nat /\ ~ (m <= k)
    OBVIOUS
  <2>. QED
    BY <1>1, <2>1
<1>. QED
  BY <1>1, <1>2

\* The powers of two up to the n-th.
PowersUpto(f, n) == f[0] = 1 /\ \A i \in 1 .. n : f[i] = 2 * f[i - 1]

LEMMA PowersExist == \A n \in Nat : \E f : PowersUpto(f, n)
<1>. DEFINE G == {n \in Nat : \E f : PowersUpto(f, n)}
<1>1. ASSUME NEW m \in Nat, \A k \in 0 .. m - 1 : k \in G
      PROVE  m \in G
  <2>1. CASE m = 0
    <3>. DEFINE f == [i \in {0} |-> 1]
    <3>1. PowersUpto(f, 0)
      BY DEF PowersUpto
    <3>. HIDE DEF f
    <3>. QED
      BY <2>1, <3>1
  <2>2. CASE m # 0
    <3>1. m - 1 \in Nat /\ m - 1 \in 0 .. m - 1
      BY <2>2
    <3>2. m - 1 \in G
      BY <1>1, <3>1
    <3>3. PICK f : PowersUpto(f, m - 1)
      BY <3>2
    <3>. DEFINE g == [i \in 0 .. m |-> IF i = m THEN 2 * f[m - 1] ELSE f[i]]
    <3>4. g[0] = 1
      BY <2>2, <3>3 DEF PowersUpto
    <3>5. ASSUME NEW i \in 1 .. m PROVE g[i] = 2 * g[i - 1]
      <4>1. i - 1 \in 0 .. m /\ i - 1 # m /\ i \in 0 .. m
        OBVIOUS
      <4>2. i # m => i \in 1 .. m - 1
        OBVIOUS
      <4>. QED
        BY <3>3, <4>1, <4>2 DEF PowersUpto
    <3>. HIDE DEF g
    <3>6. PowersUpto(g, m)
      BY <3>4, <3>5 DEF PowersUpto
    <3>. QED
      BY <3>6
  <2>. QED
    BY <2>1, <2>2
<1>. HIDE DEF G
<1>2. \A m \in Nat : m \in G
  BY <1>1, Strong
<1>. QED
  BY <1>2 DEF G

LEMMA PowersAgree ==
  ASSUME NEW n \in Nat, NEW m \in Nat, NEW f, NEW g, PowersUpto(f, n), PowersUpto(g, m)
  PROVE  \A i \in Nat : i <= n /\ i <= m => f[i] = g[i]
<1>. DEFINE G == {i \in Nat : i <= n /\ i <= m => f[i] = g[i]}
<1>1. ASSUME NEW i \in Nat, \A k \in 0 .. i - 1 : k \in G
      PROVE  i \in G
  <2>1. CASE i = 0
    BY <2>1 DEF PowersUpto
  <2>2. CASE i # 0 /\ i <= n /\ i <= m
    <3>1. i - 1 \in 0 .. i - 1 /\ i - 1 \in Nat /\ i - 1 <= n /\ i - 1 <= m
          /\ i \in 1 .. n /\ i \in 1 .. m
      BY <2>2
    <3>2. f[i - 1] = g[i - 1]
      BY <1>1, <3>1
    <3>3. f[i] = 2 * f[i - 1] /\ g[i] = 2 * g[i - 1]
      BY <3>1 DEF PowersUpto
    <3>. QED
      BY <3>2, <3>3
  <2>3. CASE ~ (i <= n /\ i <= m)
    BY <2>3
  <2>. QED
    BY <2>1, <2>2, <2>3
<1>. HIDE DEF G
<1>2. \A i \in Nat : i \in G
  BY <1>1, Strong
<1>. QED
  BY <1>2 DEF G

LEMMA PowIs ==
  /\ Pow2[0] = 1
  /\ \A i \in Nat : Pow2[i + 1] = 2 * Pow2[i]
<1>. DEFINE F(n) == CHOOSE f : PowersUpto(f, n)
            P == [i \in Nat |-> F(i)[i]]
<1>1. ASSUME NEW n \in Nat PROVE PowersUpto(F(n), n)
  BY PowersExist
<1>. HIDE DEF F
<1>2. ASSUME NEW i \in Nat
      PROVE  P[i] = IF i = 0 THEN 1 ELSE 2 * P[i - 1]
  <2>1. CASE i = 0
    BY <1>1, <2>1 DEF PowersUpto
  <2>2. CASE i # 0
    <3>1. i - 1 \in Nat /\ i \in 1 .. i /\ i - 1 <= i /\ i - 1 <= i - 1
      BY <2>2
    <3>2. F(i)[i] = 2 * F(i)[i - 1]
      BY <1>1, <3>1 DEF PowersUpto
    <3>3. F(i)[i - 1] = F(i - 1)[i - 1]
      BY <1>1, <3>1, PowersAgree
    <3>. QED
      BY <2>2, <3>1, <3>2, <3>3
  <2>. QED
    BY <2>1, <2>2
<1>3. P = [i \in Nat |-> IF i = 0 THEN 1 ELSE 2 * P[i - 1]]
  BY <1>2
<1>. HIDE DEF P
<1>4. Pow2 = [i \in Nat |-> IF i = 0 THEN 1 ELSE 2 * Pow2[i - 1]]
  BY <1>3 DEF Pow2
<1>5. Pow2[0] = 1
  BY <1>4
<1>6. ASSUME NEW i \in Nat PROVE Pow2[i + 1] = 2 * Pow2[i]
  <2>1. i + 1 \in Nat /\ i + 1 # 0 /\ (i + 1) - 1 = i
    OBVIOUS
  <2>. QED
    BY <1>4, <2>1
<1>. QED
  BY <1>5, <1>6

LEMMA PowGrows ==
  /\ \A i \in Nat : Pow2[i] \in Nat /\ i < Pow2[i]
  /\ \A j \in Nat : \A i \in 0 .. j : Pow2[i] <= Pow2[j]
<1>. DEFINE G == {i \in Nat : Pow2[i] \in Nat /\ i < Pow2[i]}
<1>1. ASSUME NEW i \in Nat, \A k \in 0 .. i - 1 : k \in G
      PROVE  i \in G
  <2>1. CASE i = 0
    BY <2>1, PowIs
  <2>2. CASE i # 0
    <3>1. i - 1 \in 0 .. i - 1 /\ i - 1 \in Nat /\ (i - 1) + 1 = i
      BY <2>2
    <3>2. Pow2[i - 1] \in Nat /\ i - 1 < Pow2[i - 1]
      BY <1>1, <3>1
    <3>3. Pow2[i] = 2 * Pow2[i - 1]
      BY <3>1, PowIs
    <3>. QED
      BY <3>1, <3>2, <3>3
  <2>. QED
    BY <2>1, <2>2
<1>. HIDE DEF G
<1>2. \A i \in Nat : i \in G
  BY <1>1, Strong
<1>3. \A i \in Nat : Pow2[i] \in Nat /\ i < Pow2[i]
  BY <1>2 DEF G
<1>. DEFINE H == {j \in Nat : \A i \in 0 .. j : Pow2[i] <= Pow2[j]}
<1>4. ASSUME NEW j \in Nat, \A k \in 0 .. j - 1 : k \in H
      PROVE  j \in H
  <2>1. ASSUME NEW i \in 0 .. j PROVE Pow2[i] <= Pow2[j]
    <3>1. CASE i = j
      <4>1. Pow2[j] \in Nat
        BY <1>3
      <4>. QED
        BY <3>1, <4>1
    <3>2. CASE i # j
      <4>1. j - 1 \in 0 .. j - 1 /\ j - 1 \in Nat /\ (j - 1) + 1 = j /\ i \in 0 .. j - 1 /\ i \in Nat
        BY <3>2
      <4>2. Pow2[i] <= Pow2[j - 1]
        BY <1>4, <4>1
      <4>3. Pow2[j] = 2 * Pow2[j - 1]
        BY <4>1, PowIs
      <4>4. Pow2[i] \in Nat /\ Pow2[j - 1] \in Nat
        BY <1>3, <4>1
      <4>. QED
        BY <4>2, <4>3, <4>4
    <3>. QED
      BY <3>1, <3>2
  <2>. QED
    BY <2>1
<1>. HIDE DEF H
<1>5. \A j \in Nat : j \in H
  BY <1>4, Strong
<1>. QED
  BY <1>3, <1>5 DEF H

-----------------------------------------------------------------------------
(* How a part is split *)

LEMMA SplitIs ==
  ASSUME NEW n \in Nat, n >= 2
  PROVE  /\ largest_pow2_below(n) \in 1 .. n - 1
         /\ n <= 2 * largest_pow2_below(n)
         /\ \E j \in Nat : largest_pow2_below(n) = Pow2[j]
<1>. DEFINE T == {i \in Nat : n <= Pow2[i]}
<1>1. n \in T
  BY PowGrows
<1>2. PICK i \in T : \A j \in T : i <= j
  BY <1>1, LeastOf
<1>3. i \in Nat /\ n <= Pow2[i] /\ i <= n
  BY <1>1, <1>2
<1>4. i # 0
  BY <1>3, PowIs
<1>5. i - 1 \in Nat /\ (i - 1) + 1 = i /\ i - 1 \in 0 .. n /\ ~ (i <= i - 1)
  BY <1>3, <1>4
<1>6. ~ (n <= Pow2[i - 1])
  BY <1>2, <1>5
<1>7. Pow2[i - 1] \in Nat /\ Pow2[i] = 2 * Pow2[i - 1]
  BY <1>5, PowIs, PowGrows
<1>8. Pow2[i - 1] <= n - 1 /\ n - 1 < 2 * Pow2[i - 1]
  BY <1>3, <1>6, <1>7
<1>. HIDE DEF T
<1>9. \E k \in {Pow2[j] : j \in 0 .. n} : k <= n - 1 /\ n - 1 < 2 * k
  BY <1>5, <1>8
<1>. DEFINE k == largest_pow2_below(n)
<1>10. k \in {Pow2[j] : j \in 0 .. n} /\ k <= n - 1 /\ n - 1 < 2 * k
  BY <1>9 DEF largest_pow2_below
<1>. HIDE DEF k
<1>11. PICK j \in 0 .. n : k = Pow2[j]
  BY <1>10
<1>12. j \in Nat /\ k \in Nat /\ j < k
  <2>1. j \in Nat
    OBVIOUS
  <2>. QED
    BY <1>11, <2>1, PowGrows
<1>13. k \in 1 .. n - 1 /\ n <= 2 * k
  BY <1>10, <1>12
<1>. QED
  BY <1>11, <1>12, <1>13 DEF k

\* A part of at least two leaves falls into two, each of which has less.
LEMMA PartsSplit ==
  ASSUME NEW size \in Nat, NEW p \in Parts(size), p[2] >= 2
  PROVE  /\ Left(p) \in Parts(size) /\ Right(p) \in Parts(size)
         /\ Left(p)[1] = p[1] /\ Left(p)[2] \in 1 .. p[2] - 1
         /\ Right(p)[1] = p[1] + Left(p)[2] /\ Right(p)[2] = p[2] - Left(p)[2]
         /\ Right(p)[2] \in 1 .. p[2] - 1
<1>. DEFINE k == largest_pow2_below(p[2])
<1>1. p[1] \in Nat /\ p[2] \in Nat /\ p[1] + p[2] <= size
  BY DEF Parts
<1>2. k \in 1 .. p[2] - 1
  BY <1>1, SplitIs
<1>3. Left(p) = <<p[1], k>> /\ Right(p) = <<p[1] + k, p[2] - k>>
  BY DEF Left, Right
<1>. HIDE DEF k
<1>4. /\ k \in 0 .. size /\ p[1] \in 0 .. size /\ p[1] + k \in 0 .. size /\ p[2] - k \in 0 .. size
      /\ p[1] + k <= size /\ (p[1] + k) + (p[2] - k) <= size /\ p[2] - k \in 1 .. p[2] - 1
  BY <1>1, <1>2
<1>5. Left(p) \in Parts(size) /\ Right(p) \in Parts(size)
  BY <1>3, <1>4 DEF Parts
<1>. QED
  BY <1>2, <1>3, <1>4, <1>5

-----------------------------------------------------------------------------
(* The roots of the parts *)

RootAt(f, s, p) ==
  IF p[2] = 0 THEN hash_empty
  ELSE IF p[2] = 1 THEN hash_leaf(s[p[1] + 1])
  ELSE hash_node(f[Left(p)], f[Right(p)])
RootsUpto(f, s, m) == \A p \in Parts(Len(s)) : p[2] <= m => f[p] = RootAt(f, s, p)

LEMMA RootsExist ==
  ASSUME NEW s, Len(s) \in Nat
  PROVE  \A m \in Nat : \E f : RootsUpto(f, s, m)
<1>. DEFINE G == {m \in Nat : \E f : RootsUpto(f, s, m)}
            D == Parts(Len(s))
<1>0. \A p \in D : p[2] \in Nat
  BY DEF Parts
<1>1. ASSUME NEW m \in Nat, \A k \in 0 .. m - 1 : k \in G
      PROVE  m \in G
  <2>1. PICK f : \A p \in D : p[2] < m => f[p] = RootAt(f, s, p)
    <3>1. CASE m = 0
      BY <1>0, <3>1
    <3>2. CASE m # 0
      <4>1. m - 1 \in G
        BY <1>1, <3>2
      <4>2. PICK f : RootsUpto(f, s, m - 1)
        BY <4>1
      <4>3. \A p \in D : p[2] < m => p[2] <= m - 1
        BY <1>0
      <4>. QED
        BY <4>2, <4>3 DEF RootsUpto
    <3>. QED
      BY <3>1, <3>2
  <2>. DEFINE g == [p \in D |-> IF p[2] = m THEN RootAt(f, s, p) ELSE f[p]]
  <2>2. ASSUME NEW p \in D, p[2] <= m PROVE g[p] = RootAt(g, s, p)
    <3>1. g[p] = RootAt(f, s, p)
      BY <1>0, <2>1, <2>2
    <3>2. CASE p[2] >= 2
      <4>1. /\ Left(p) \in D /\ Right(p) \in D
            /\ Left(p)[2] \in 1 .. p[2] - 1 /\ Right(p)[2] \in 1 .. p[2] - 1
        BY <3>2, PartsSplit
      <4>2. Left(p)[2] # m /\ Right(p)[2] # m
        BY <1>0, <2>2, <4>1
      <4>3. g[Left(p)] = f[Left(p)] /\ g[Right(p)] = f[Right(p)]
        BY <4>1, <4>2
      <4>. HIDE DEF g
      <4>. QED
        BY <3>1, <4>3 DEF RootAt
    <3>3. CASE p[2] = 0 \/ p[2] = 1
      <4>. HIDE DEF g
      <4>. QED
        BY <3>1, <3>3 DEF RootAt
    <3>. QED
      BY <1>0, <3>2, <3>3
  <2>. HIDE DEF g
  <2>3. RootsUpto(g, s, m)
    BY <2>2 DEF RootsUpto
  <2>. QED
    BY <2>3
<1>. HIDE DEF G
<1>2. \A m \in Nat : m \in G
  BY <1>1, Strong
<1>. QED
  BY <1>2 DEF G

LEMMA RootsAre ==
  ASSUME NEW s, Len(s) \in Nat, NEW p \in Parts(Len(s))
  PROVE  tree_roots(s)[p] = RootAt(tree_roots(s), s, p)
<1>. DEFINE D == Parts(Len(s))
<1>1. PICK f : RootsUpto(f, s, Len(s))
  BY RootsExist
<1>. DEFINE h == [q \in D |-> f[q]]
<1>2. ASSUME NEW q \in D PROVE h[q] = RootAt(h, s, q)
  <2>1. q[2] <= Len(s) /\ q[2] \in Nat
    BY DEF Parts
  <2>2. f[q] = RootAt(f, s, q)
    BY <1>1, <2>1 DEF RootsUpto
  <2>3. CASE q[2] >= 2
    <3>1. Left(q) \in D /\ Right(q) \in D
      BY <2>3, PartsSplit
    <3>2. h[q] = f[q] /\ h[Left(q)] = f[Left(q)] /\ h[Right(q)] = f[Right(q)]
      BY <3>1
    <3>. HIDE DEF h
    <3>. QED
      BY <2>2, <3>2 DEF RootAt
  <2>4. CASE q[2] = 0 \/ q[2] = 1
    <3>1. h[q] = f[q]
      OBVIOUS
    <3>. HIDE DEF h
    <3>. QED
      BY <2>2, <2>4, <3>1 DEF RootAt
  <2>. QED
    BY <2>1, <2>3, <2>4
<1>3. h = [q \in D |-> RootAt(h, s, q)]
  BY <1>2
<1>. HIDE DEF h
<1>4. \E r : r = [q \in D |-> RootAt(r, s, q)]
  BY <1>3
<1>5. tree_roots(s) = CHOOSE r : r = [q \in D |-> RootAt(r, s, q)]
  BY DEF tree_roots, RootAt
<1>6. tree_roots(s) = [q \in D |-> RootAt(tree_roots(s), s, q)]
  BY <1>4, <1>5
<1>. QED
  BY <1>6

-----------------------------------------------------------------------------
(* What is put together on the way from a leaf to the root *)

StepAt(f, child, item, p) == IF p[2] <= 1 THEN <<>> ELSE Append(f[child[p]], item[p])
StepsUpto(f, child, item, size, m) ==
  \A p \in Parts(size) : p[2] <= m => f[p] = StepAt(f, child, item, p)

Stepped(f, child, item, size) == f = [p \in Parts(size) |-> StepAt(f, child, item, p)]
Descends(child, size) ==
  \A p \in Parts(size) : p[2] >= 2 =>
    child[p] \in Parts(size) /\ child[p][2] \in 1 .. p[2] - 1

LEMMA StepsExist ==
  ASSUME NEW size \in Nat, NEW child, NEW item, Descends(child, size)
  PROVE  \E f : Stepped(f, child, item, size)
<1>. DEFINE D == Parts(size)
            G == {m \in Nat : \E f : StepsUpto(f, child, item, size, m)}
<1>0. \A p \in D : p[2] \in Nat /\ p[2] <= size
  BY DEF Parts
<1>1. ASSUME NEW m \in Nat, \A k \in 0 .. m - 1 : k \in G
      PROVE  m \in G
  <2>1. PICK f : \A p \in D : p[2] < m => f[p] = StepAt(f, child, item, p)
    <3>1. CASE m = 0
      BY <1>0, <3>1
    <3>2. CASE m # 0
      <4>1. m - 1 \in G
        BY <1>1, <3>2
      <4>2. PICK f : StepsUpto(f, child, item, size, m - 1)
        BY <4>1
      <4>3. \A p \in D : p[2] < m => p[2] <= m - 1
        BY <1>0
      <4>. QED
        BY <4>2, <4>3 DEF StepsUpto
    <3>. QED
      BY <3>1, <3>2
  <2>. DEFINE g == [p \in D |-> IF p[2] = m THEN StepAt(f, child, item, p) ELSE f[p]]
  <2>2. ASSUME NEW p \in D, p[2] <= m PROVE g[p] = StepAt(g, child, item, p)
    <3>1. g[p] = StepAt(f, child, item, p)
      BY <1>0, <2>1, <2>2
    <3>2. CASE p[2] >= 2
      <4>1. child[p] \in D /\ child[p][2] \in 1 .. p[2] - 1
        BY <3>2 DEF Descends
      <4>2. child[p][2] # m
        BY <1>0, <2>2, <4>1
      <4>3. g[child[p]] = f[child[p]]
        BY <4>1, <4>2
      <4>. HIDE DEF g
      <4>. QED
        BY <3>1, <4>3 DEF StepAt
    <3>3. CASE p[2] <= 1
      <4>. HIDE DEF g
      <4>. QED
        BY <3>1, <3>3 DEF StepAt
    <3>. QED
      BY <1>0, <3>2, <3>3
  <2>. HIDE DEF g
  <2>3. StepsUpto(g, child, item, size, m)
    BY <2>2 DEF StepsUpto
  <2>. QED
    BY <2>3
<1>. HIDE DEF G
<1>2. \A m \in Nat : m \in G
  BY <1>1, Strong
<1>3. PICK f : StepsUpto(f, child, item, size, size)
  BY <1>2 DEF G
<1>. DEFINE h == [q \in D |-> f[q]]
<1>4. ASSUME NEW q \in D PROVE h[q] = StepAt(h, child, item, q)
  <2>1. q[2] <= size /\ q[2] \in Nat
    BY <1>0
  <2>2. f[q] = StepAt(f, child, item, q)
    BY <1>3, <2>1 DEF StepsUpto
  <2>3. h[q] = f[q] /\ (q[2] >= 2 => h[child[q]] = f[child[q]])
    BY DEF Descends
  <2>. HIDE DEF h
  <2>. QED
    BY <2>1, <2>2, <2>3 DEF StepAt
<1>5. h = [q \in D |-> StepAt(h, child, item, q)]
  BY <1>4
<1>. HIDE DEF h
<1>. QED
  BY <1>5 DEF Stepped

PathAt(f, s, index, p) ==
  IF p[2] <= 1 THEN <<>>
  ELSE IF index < Right(p)[1] THEN Append(f[Left(p)], tree_roots(s)[Right(p)])
  ELSE Append(f[Right(p)], tree_roots(s)[Left(p)])
SidesAt(f, index, p) ==
  IF p[2] <= 1 THEN <<>>
  ELSE IF index < Right(p)[1] THEN Append(f[Left(p)], TRUE) ELSE Append(f[Right(p)], FALSE)

LEMMA PathIs ==
  ASSUME NEW s, Len(s) \in Nat, NEW index
  PROVE  \E f : /\ build_proof(s, index) = f[<<0, Len(s)>>]
                /\ \A p \in Parts(Len(s)) : f[p] = PathAt(f, s, index, p)
<1>. DEFINE D == Parts(Len(s))
            child == [p \in D |-> IF index < Right(p)[1] THEN Left(p) ELSE Right(p)]
            item == [p \in D |-> IF index < Right(p)[1] THEN tree_roots(s)[Right(p)]
                                 ELSE tree_roots(s)[Left(p)]]
<1>1. ASSUME NEW p \in D, p[2] >= 2
      PROVE  child[p] \in D /\ child[p][2] \in 1 .. p[2] - 1
  <2>1. child[p] = IF index < Right(p)[1] THEN Left(p) ELSE Right(p)
    OBVIOUS
  <2>. HIDE DEF child
  <2>. QED
    BY <1>1, <2>1, PartsSplit
<1>2. ASSUME NEW p \in D, NEW f PROVE StepAt(f, child, item, p) = PathAt(f, s, index, p)
  BY DEF StepAt, PathAt
<1>. HIDE DEF child, item
<1>3. PICK f : f = [p \in D |-> StepAt(f, child, item, p)]
  <2>1. Descends(child, Len(s))
    BY <1>1 DEF Descends
  <2>2. \E f : Stepped(f, child, item, Len(s))
    BY <2>1, StepsExist
  <2>. QED
    BY <2>2 DEF Stepped
<1>4. f = [p \in D |-> PathAt(f, s, index, p)]
  BY <1>2, <1>3
<1>. DEFINE c == CHOOSE g : g = [p \in D |-> PathAt(g, s, index, p)]
<1>5. build_proof(s, index) = c[<<0, Len(s)>>]
  BY DEF build_proof, PathAt
<1>6. c = [p \in D |-> PathAt(c, s, index, p)]
  BY <1>4
<1>. HIDE DEF c
<1>7. \A p \in D : c[p] = PathAt(c, s, index, p)
  BY <1>6
<1>. QED
  BY <1>5, <1>7

LEMMA SidesAre ==
  ASSUME NEW size \in Nat, NEW index
  PROVE  \E f : /\ Side_is_left(index, size) = f[<<0, size>>]
                /\ \A p \in Parts(size) : f[p] = SidesAt(f, index, p)
<1>. DEFINE D == Parts(size)
            child == [p \in D |-> IF index < Right(p)[1] THEN Left(p) ELSE Right(p)]
            item == [p \in D |-> IF index < Right(p)[1] THEN TRUE ELSE FALSE]
<1>1. ASSUME NEW p \in D, p[2] >= 2
      PROVE  child[p] \in D /\ child[p][2] \in 1 .. p[2] - 1
  <2>1. child[p] = IF index < Right(p)[1] THEN Left(p) ELSE Right(p)
    OBVIOUS
  <2>. HIDE DEF child
  <2>. QED
    BY <1>1, <2>1, PartsSplit
<1>2. ASSUME NEW p \in D, NEW f PROVE StepAt(f, child, item, p) = SidesAt(f, index, p)
  BY DEF StepAt, SidesAt
<1>. HIDE DEF child, item
<1>3. PICK f : f = [p \in D |-> StepAt(f, child, item, p)]
  <2>1. Descends(child, size)
    BY <1>1 DEF Descends
  <2>2. \E f : Stepped(f, child, item, size)
    BY <2>1, StepsExist
  <2>. QED
    BY <2>2 DEF Stepped
<1>4. f = [p \in D |-> SidesAt(f, index, p)]
  BY <1>2, <1>3
<1>. DEFINE c == CHOOSE g : g = [p \in D |-> SidesAt(g, index, p)]
<1>5. Side_is_left(index, size) = c[<<0, size>>]
  BY DEF Side_is_left, SidesAt
<1>6. c = [p \in D |-> SidesAt(c, index, p)]
  BY <1>4
<1>. HIDE DEF c
<1>7. \A p \in D : c[p] = SidesAt(c, index, p)
  BY <1>6
<1>. QED
  BY <1>5, <1>7

AccAt(f, leaf, sides, path, i) ==
  IF i = 0 THEN hash_leaf(leaf)
  ELSE IF sides[i] THEN hash_node(f[i - 1], path[i]) ELSE hash_node(path[i], f[i - 1])
AccUpto(f, leaf, sides, path, n) == \A i \in 0 .. n : f[i] = AccAt(f, leaf, sides, path, i)

LEMMA CombinedIs ==
  ASSUME NEW leaf, NEW sides, Len(sides) \in Nat, NEW path
  PROVE  \E f : /\ Combined(leaf, sides, path) = f[Len(sides)]
                /\ AccUpto(f, leaf, sides, path, Len(sides))
<1>. DEFINE G == {m \in Nat : \E f : AccUpto(f, leaf, sides, path, m)}
<1>1. ASSUME NEW m \in Nat, \A k \in 0 .. m - 1 : k \in G
      PROVE  m \in G
  <2>1. PICK f : \A i \in 0 .. m - 1 : f[i] = AccAt(f, leaf, sides, path, i)
    <3>1. CASE m = 0
      BY <3>1
    <3>2. CASE m # 0
      <4>1. m - 1 \in G
        BY <1>1, <3>2
      <4>. QED
        BY <4>1 DEF AccUpto
    <3>. QED
      BY <3>1, <3>2
  <2>. DEFINE g == [i \in 0 .. m |-> IF i = m THEN AccAt(f, leaf, sides, path, m) ELSE f[i]]
  <2>2. ASSUME NEW i \in 0 .. m PROVE g[i] = AccAt(g, leaf, sides, path, i)
    <3>1. g[i] = AccAt(f, leaf, sides, path, i)
      <4>1. i # m => i \in 0 .. m - 1
        OBVIOUS
      <4>. QED
        BY <2>1, <4>1
    <3>2. i # 0 => g[i - 1] = f[i - 1]
      <4>1. i # 0 => i - 1 \in 0 .. m /\ i - 1 # m
        OBVIOUS
      <4>. QED
        BY <4>1
    <3>. HIDE DEF g
    <3>. QED
      BY <3>1, <3>2 DEF AccAt
  <2>. HIDE DEF g
  <2>3. AccUpto(g, leaf, sides, path, m)
    BY <2>2 DEF AccUpto
  <2>. QED
    BY <2>3
<1>. HIDE DEF G
<1>2. \A m \in Nat : m \in G
  BY <1>1, Strong
<1>. DEFINE n == Len(sides)
<1>3. PICK f : AccUpto(f, leaf, sides, path, n)
  BY <1>2 DEF G
<1>. DEFINE h == [i \in 0 .. n |-> f[i]]
<1>4. ASSUME NEW i \in 0 .. n PROVE h[i] = AccAt(h, leaf, sides, path, i)
  <2>1. f[i] = AccAt(f, leaf, sides, path, i)
    BY <1>3 DEF AccUpto
  <2>2. h[i] = f[i]
    OBVIOUS
  <2>3. i # 0 => h[i - 1] = f[i - 1]
    <3>1. i # 0 => i - 1 \in 0 .. n
      OBVIOUS
    <3>. QED
      BY <3>1
  <2>. HIDE DEF h
  <2>. QED
    BY <2>1, <2>2, <2>3 DEF AccAt
<1>5. h = [i \in 0 .. n |-> AccAt(h, leaf, sides, path, i)]
  BY <1>4
<1>. HIDE DEF h
<1>. DEFINE c == CHOOSE g : g = [i \in 0 .. n |-> AccAt(g, leaf, sides, path, i)]
<1>6. Combined(leaf, sides, path) = c[n]
  BY DEF Combined, AccAt
<1>7. c = [i \in 0 .. n |-> AccAt(c, leaf, sides, path, i)]
  BY <1>5
<1>. HIDE DEF c
<1>8. \A i \in 0 .. n : c[i] = AccAt(c, leaf, sides, path, i)
  BY <1>7
<1>. QED
  BY <1>6, <1>8 DEF AccUpto

-----------------------------------------------------------------------------
(* What a proof says of its place *)

IsSequence(s) == \E S : s \in Seq(S)

LEMMA PutBehind ==
  ASSUME NEW s, IsSequence(s), NEW x
  PROVE  /\ IsSequence(Append(s, x)) /\ Len(s) \in Nat /\ Len(Append(s, x)) = Len(s) + 1
         /\ DOMAIN s = 1 .. Len(s)
         /\ \A i \in 1 .. Len(s) : Append(s, x)[i] = s[i]
         /\ Append(s, x)[Len(s) + 1] = x
<1>1. PICK S : s \in Seq(S)
  BY DEF IsSequence
<1>. DEFINE T == S \union {x}
            a == Append(s, x)
<1>2. s \in Seq(T) /\ x \in T
  BY <1>1
<1>. HIDE DEF T
<1>3. /\ a \in Seq(T) /\ Len(s) \in Nat /\ Len(a) = Len(s) + 1 /\ DOMAIN s = 1 .. Len(s)
      /\ \A i \in 1 .. Len(s) : a[i] = s[i]
      /\ a[Len(s) + 1] = x
  BY <1>2
<1>. HIDE DEF a
<1>4. IsSequence(a)
  BY <1>3 DEF IsSequence
<1>. QED
  BY <1>3, <1>4 DEF a

LEMMA NoSteps == IsSequence(<<>>) /\ Len(<<>>) = 0
<1>1. <<>> \in Seq({}) /\ Len(<<>>) = 0
  OBVIOUS
<1>. QED
  BY <1>1 DEF IsSequence

\* On the way of a place, what is combined is the root of the part exactly when it
\* began with the leaf of the place and took the siblings that build_proof gives.
Binds(p, s, index, leaf, given, taken, m, path, sides, acc) ==
  /\ IsSequence(path[p]) /\ IsSequence(sides[p]) /\ Len(path[p]) = Len(sides[p])
  /\ Len(path[p]) > 0 => Pow2[Len(path[p]) - 1] < p[2]
  /\ Len(sides[p]) <= m /\ (\A i \in 1 .. Len(sides[p]) : taken[i] = sides[p][i]) =>
       (acc[Len(sides[p])] = tree_roots(s)[p]
          <=> leaf = s[index + 1] /\ \A i \in 1 .. Len(sides[p]) : given[i] = path[p][i])

LEMMA BindsOn ==
  ASSUME NEW p, p[2] \in Nat, p[2] >= 2, NEW s, NEW index, NEW leaf, NEW given, NEW taken, NEW m \in Nat,
         NEW path, NEW sides, NEW acc, AccUpto(acc, leaf, taken, given, m),
         NEW c, NEW sibling, NEW left \in BOOLEAN,
         Binds(c, s, index, leaf, given, taken, m, path, sides, acc),
         c[2] \in Nat, c[2] <= largest_pow2_below(p[2]),
         path[p] = Append(path[c], tree_roots(s)[sibling]),
         sides[p] = Append(sides[c], left),
         left => tree_roots(s)[p] = hash_node(tree_roots(s)[c], tree_roots(s)[sibling]),
         ~ left => tree_roots(s)[p] = hash_node(tree_roots(s)[sibling], tree_roots(s)[c])
  PROVE  Binds(p, s, index, leaf, given, taken, m, path, sides, acc)
<1>. DEFINE n == Len(sides[c])
<1>1. IsSequence(path[c]) /\ IsSequence(sides[c]) /\ Len(path[c]) = n
  BY DEF Binds
<1>2. /\ IsSequence(path[p]) /\ Len(path[p]) = n + 1 /\ n \in Nat
      /\ \A i \in 1 .. n : path[p][i] = path[c][i]
      /\ path[p][n + 1] = tree_roots(s)[sibling]
  BY <1>1, PutBehind
<1>3. /\ IsSequence(sides[p]) /\ Len(sides[p]) = n + 1
      /\ \A i \in 1 .. n : sides[p][i] = sides[c][i]
      /\ sides[p][n + 1] = left
  BY <1>1, PutBehind
<1>4. Pow2[Len(path[p]) - 1] < p[2]
  <2>1. Len(path[p]) - 1 = n
    BY <1>2
  <2>2. CASE n = 0
    <3>1. Len(path[p]) - 1 = 0
      BY <2>1, <2>2
    <3>2. Pow2[0] = 1 /\ 1 < p[2]
      <4>1. 1 < p[2]
        OBVIOUS
      <4>. QED
        BY <4>1, PowIs
    <3>. QED
      BY <3>1, <3>2
  <2>3. CASE n > 0
    <3>1. Pow2[n - 1] < c[2] /\ n - 1 \in Nat
      BY <1>1, <1>2, <2>3 DEF Binds
    <3>2. PICK j \in Nat : largest_pow2_below(p[2]) = Pow2[j]
      BY SplitIs
    <3>3. Pow2[j] \in 1 .. p[2] - 1
      BY <3>2, SplitIs
    <3>4. Pow2[n - 1] \in Nat /\ Pow2[n] \in Nat
      BY <1>2, <3>1, PowGrows
    <3>5. Pow2[n - 1] < Pow2[j]
      <4>1. c[2] \in Nat /\ c[2] <= Pow2[j] /\ Pow2[j] \in Nat
        BY <3>2, <3>3
      <4>. QED
        BY <3>1, <3>4, <4>1
    <3>6. ~ (j <= n - 1)
      <4>1. SUFFICES ASSUME j \in 0 .. n - 1 PROVE FALSE
        BY <3>1
      <4>2. Pow2[j] <= Pow2[n - 1]
        BY <3>1, <4>1, PowGrows
      <4>. QED
        BY <3>3, <3>4, <3>5, <4>2
    <3>7. n \in 0 .. j
      BY <1>2, <3>1, <3>6
    <3>8. Pow2[n] <= Pow2[j]
      BY <3>7, PowGrows
    <3>9. Pow2[n] < p[2]
      BY <3>3, <3>4, <3>8
    <3>. QED
      BY <2>1, <3>9
  <2>. QED
    BY <1>2, <2>2, <2>3
<1>5. ASSUME n + 1 <= m, \A i \in 1 .. n + 1 : taken[i] = sides[p][i]
      PROVE  acc[n + 1] = tree_roots(s)[p]
               <=> leaf = s[index + 1] /\ \A i \in 1 .. n + 1 : given[i] = path[p][i]
  <2>1. n + 1 \in 0 .. m /\ n + 1 # 0 /\ (n + 1) - 1 = n /\ n <= m /\ n + 1 \in 1 .. n + 1
        /\ \A i \in 1 .. n : i \in 1 .. n + 1
    BY <1>2, <1>5
  <2>2. taken[n + 1] = left /\ \A i \in 1 .. n : taken[i] = sides[c][i]
    BY <1>3, <1>5, <2>1
  <2>3. acc[n] = tree_roots(s)[c] <=> leaf = s[index + 1] /\ \A i \in 1 .. n : given[i] = path[c][i]
    BY <2>1, <2>2 DEF Binds
  <2>4. acc[n + 1] = IF taken[n + 1] THEN hash_node(acc[n], given[n + 1])
                     ELSE hash_node(given[n + 1], acc[n])
    BY <2>1 DEF AccUpto, AccAt
  <2>5. \A a, b, d, e : hash_node(a, b) = hash_node(d, e) <=> a = d /\ b = e
    BY DEF hash_node
  <2>6. acc[n + 1] = tree_roots(s)[p] <=>
          acc[n] = tree_roots(s)[c] /\ given[n + 1] = tree_roots(s)[sibling]
    <3>1. CASE left = TRUE
      <4>1. acc[n + 1] = hash_node(acc[n], given[n + 1])
        BY <2>2, <2>4, <3>1
      <4>2. tree_roots(s)[p] = hash_node(tree_roots(s)[c], tree_roots(s)[sibling])
        BY <3>1
      <4>. QED
        BY <2>5, <4>1, <4>2
    <3>2. CASE left = FALSE
      <4>1. acc[n + 1] = hash_node(given[n + 1], acc[n])
        BY <2>2, <2>4, <3>2
      <4>2. tree_roots(s)[p] = hash_node(tree_roots(s)[sibling], tree_roots(s)[c])
        BY <3>2
      <4>. QED
        BY <2>5, <4>1, <4>2
    <3>. QED
      BY <3>1, <3>2
  <2>7. (\A i \in 1 .. n + 1 : given[i] = path[p][i]) <=>
          given[n + 1] = tree_roots(s)[sibling] /\ \A i \in 1 .. n : given[i] = path[c][i]
    <3>1. \A i \in 1 .. n + 1 : i \in 1 .. n \/ i = n + 1
      BY <1>2
    <3>. QED
      BY <1>2, <2>1, <3>1
  <2>. QED
    BY <2>3, <2>6, <2>7
<1>. HIDE DEF n
<1>. QED
  BY <1>2, <1>3, <1>4, <1>5 DEF Binds

LEMMA WayBinds ==
  ASSUME NEW s, Len(s) \in Nat, NEW index \in Nat, NEW leaf, NEW given, NEW taken, NEW m \in Nat,
         NEW path, NEW sides, NEW acc,
         \A p \in Parts(Len(s)) : path[p] = PathAt(path, s, index, p),
         \A p \in Parts(Len(s)) : sides[p] = SidesAt(sides, index, p),
         AccUpto(acc, leaf, taken, given, m)
  PROVE  \A p \in Parts(Len(s)) : p[1] <= index /\ index < p[1] + p[2] =>
           Binds(p, s, index, leaf, given, taken, m, path, sides, acc)
<1>. DEFINE D == Parts(Len(s))
            Holds(p) == Binds(p, s, index, leaf, given, taken, m, path, sides, acc)
            G == {n \in Nat : \A p \in D : p[2] = n /\ p[1] <= index /\ index < p[1] + p[2] => Holds(p)}
<1>0. \A p \in D : p[1] \in Nat /\ p[2] \in Nat
  BY DEF Parts
<1>1. ASSUME NEW n \in Nat, \A k \in 0 .. n - 1 : k \in G
      PROVE  n \in G
  <2>. SUFFICES ASSUME NEW p \in D, p[2] = n, p[1] <= index, index < p[1] + p[2] PROVE Holds(p)
    OBVIOUS
  <2>0. p[1] \in Nat /\ n \in Nat /\ n >= 1
    BY <1>0
  <2>3. path[p] = PathAt(path, s, index, p) /\ sides[p] = SidesAt(sides, index, p)
    OBVIOUS
  <2>1. CASE n = 1
    <3>1. path[p] = <<>> /\ sides[p] = <<>>
      BY <2>1, <2>3 DEF PathAt, SidesAt
    <3>2. index = p[1]
      BY <2>0, <2>1
    <3>3. tree_roots(s)[p] = hash_leaf(s[index + 1])
      <4>1. tree_roots(s)[p] = RootAt(tree_roots(s), s, p)
        BY RootsAre
      <4>. QED
        BY <2>1, <3>2, <4>1 DEF RootAt
    <3>4. acc[0] = hash_leaf(leaf)
      BY DEF AccUpto, AccAt
    <3>5. hash_leaf(leaf) = hash_leaf(s[index + 1]) <=> leaf = s[index + 1]
      BY DEF hash_leaf
    <3>. QED
      BY <3>1, <3>3, <3>4, <3>5, NoSteps DEF Binds
  <2>2. CASE n >= 2
    <3>0. ~ (p[2] <= 1)
      BY <2>2
    <3>1. /\ Left(p) \in D /\ Right(p) \in D
          /\ Left(p)[1] = p[1] /\ Left(p)[2] \in 1 .. n - 1
          /\ Right(p)[1] = p[1] + Left(p)[2] /\ Right(p)[2] = n - Left(p)[2]
          /\ Right(p)[2] \in 1 .. n - 1
      BY <2>2, PartsSplit
    <3>2. Left(p)[2] = largest_pow2_below(n) /\ n <= 2 * largest_pow2_below(n)
      BY <2>2, SplitIs DEF Left
    <3>3. Right(p)[2] <= largest_pow2_below(n)
      BY <3>1, <3>2
    <3>4. tree_roots(s)[p] = hash_node(tree_roots(s)[Left(p)], tree_roots(s)[Right(p)])
      <4>1. tree_roots(s)[p] = RootAt(tree_roots(s), s, p)
        BY RootsAre
      <4>. QED
        BY <2>2, <4>1 DEF RootAt
    <3>5. CASE index < Right(p)[1]
      <4>1. Holds(Left(p))
        <5>1. Left(p)[2] \in 0 .. n - 1 /\ Left(p)[1] <= index /\ index < Left(p)[1] + Left(p)[2]
          BY <3>1, <3>5
        <5>2. Left(p)[2] \in G
          BY <1>1, <5>1
        <5>. QED
          BY <3>1, <5>1, <5>2
      <4>2. path[p] = Append(path[Left(p)], tree_roots(s)[Right(p)])
        BY <2>2, <2>3, <3>5 DEF PathAt
      <4>3. sides[p] = Append(sides[Left(p)], TRUE)
        BY <2>3, <3>0, <3>5, Zenon DEF SidesAt
      <4>4. Left(p)[2] \in Nat /\ Left(p)[2] <= largest_pow2_below(p[2])
        BY <3>1, <3>2
      <4>. HIDE DEF D, G
      <4>. QED
        BY <2>2, <3>4, <4>1, <4>2, <4>3, <4>4, BindsOn
    <3>6. CASE ~ (index < Right(p)[1])
      <4>1. Holds(Right(p))
        <5>1. Right(p)[2] \in 0 .. n - 1 /\ Right(p)[1] <= index /\ index < Right(p)[1] + Right(p)[2]
          BY <2>0, <3>1, <3>6
        <5>2. Right(p)[2] \in G
          BY <1>1, <5>1
        <5>. QED
          BY <3>1, <5>1, <5>2
      <4>2. path[p] = Append(path[Right(p)], tree_roots(s)[Left(p)])
        BY <2>2, <2>3, <3>6 DEF PathAt
      <4>3. sides[p] = Append(sides[Right(p)], FALSE)
        BY <2>3, <3>0, <3>6, Zenon DEF SidesAt
      <4>4. Right(p)[2] \in Nat /\ Right(p)[2] <= largest_pow2_below(p[2])
        BY <3>1, <3>3
      <4>. HIDE DEF D, G
      <4>. QED
        BY <2>2, <3>4, <4>1, <4>2, <4>3, <4>4, BindsOn
    <3>. QED
      BY <3>5, <3>6
  <2>. QED
    BY <2>0, <2>1, <2>2
<1>. HIDE DEF G, Holds
<1>2. \A n \in Nat : n \in G
  BY <1>1, Strong
<1>3. ASSUME NEW p \in D, p[1] <= index /\ index < p[1] + p[2] PROVE Holds(p)
  BY <1>0, <1>2, <1>3 DEF G
<1>. QED
  BY <1>3 DEF Holds

LEMMA SameSequences ==
  ASSUME NEW a, IsSequence(a), NEW b, IsSequence(b), Len(a) = Len(b),
         \A i \in 1 .. Len(a) : a[i] = b[i]
  PROVE  a = b
<1>1. PICK S : a \in Seq(S)
  BY DEF IsSequence
<1>2. PICK T : b \in Seq(T)
  BY DEF IsSequence
<1>. DEFINE U == S \union T
<1>3. a \in Seq(U) /\ b \in Seq(U)
  BY <1>1, <1>2
<1>. HIDE DEF U
<1>. QED
  BY <1>3

LEMMA Lengths == \A s : IsSequence(s) => Len(s) \in Nat /\ (s # <<>> => Len(s) > 0)
<1>. SUFFICES ASSUME NEW s, IsSequence(s) PROVE Len(s) \in Nat /\ (s # <<>> => Len(s) > 0)
  OBVIOUS
<1>1. PICK S : s \in Seq(S)
  BY DEF IsSequence
<1>. QED
  BY <1>1

\* What root_from_proof finds for a place is the root of the tree exactly when it was
\* given the leaf of this place and the path that build_proof makes for it.
LEMMA PlaceBinds ==
  ASSUME NEW s, Len(s) \in Nat, NEW index \in 0 .. Len(s) - 1, NEW leaf, NEW given, IsSequence(given)
  PROVE  /\ IsSequence(build_proof(s, index))
         /\ build_proof(s, index) # <<>> => Pow2[Len(build_proof(s, index)) - 1] < Len(s)
         /\ root_from_proof(leaf, index, Len(s), given) = tree_root(s)
              <=> leaf = s[index + 1] /\ given = build_proof(s, index)
<1>. DEFINE n == Len(s)
            p == <<0, n>>
            taken == Side_is_left(index, n)
            m == Len(taken)
<1>1. n \in Nat /\ index \in Nat /\ n >= 1 /\ index < n
  OBVIOUS
<1>2. PICK path : /\ build_proof(s, index) = path[p]
                  /\ \A q \in Parts(n) : path[q] = PathAt(path, s, index, q)
  BY PathIs
<1>3. PICK sides : /\ taken = sides[p]
                   /\ \A q \in Parts(n) : sides[q] = SidesAt(sides, index, q)
  BY SidesAre
<1>4. p \in Parts(n) /\ p[1] = 0 /\ p[2] = n /\ p[1] <= index /\ index < p[1] + p[2]
  BY <1>1 DEF Parts
<1>. HIDE DEF n, taken
<1>5. /\ IsSequence(path[p]) /\ IsSequence(sides[p]) /\ Len(path[p]) = Len(sides[p])
      /\ Len(path[p]) > 0 => Pow2[Len(path[p]) - 1] < p[2]
  <2>. DEFINE start == [i \in {0} |-> hash_leaf(leaf)]
  <2>1. start[0] = hash_leaf(leaf)
    OBVIOUS
  <2>. HIDE DEF start
  <2>2. AccUpto(start, leaf, taken, given, 0)
    BY <2>1 DEF AccUpto, AccAt
  <2>. HIDE DEF p
  <2>3. Binds(p, s, index, leaf, given, taken, 0, path, sides, start)
    BY <1>1, <1>2, <1>3, <1>4, <2>2, WayBinds DEF n
  <2>. QED
    BY <2>3 DEF Binds
<1>. HIDE DEF p
<1>6. Len(path[p]) = m /\ m \in Nat
  BY <1>3, <1>5, PutBehind
<1>7. PICK acc : Combined(leaf, taken, given) = acc[m] /\ AccUpto(acc, leaf, taken, given, m)
  BY <1>6, CombinedIs
<1>8. Binds(p, s, index, leaf, given, taken, m, path, sides, acc)
  <2>. HIDE DEF m
  <2>. QED
    BY <1>1, <1>2, <1>3, <1>4, <1>6, <1>7, WayBinds DEF n
<1>9. acc[m] = tree_roots(s)[p] <=> leaf = s[index + 1] /\ \A i \in 1 .. m : given[i] = path[p][i]
  BY <1>3, <1>6, <1>8 DEF Binds
<1>. HIDE DEF m
<1>10. tree_root(s) = tree_roots(s)[p]
  BY DEF tree_root, p, n
<1>11. tree_root(s) # None
  <2>1. tree_roots(s)[p] = RootAt(tree_roots(s), s, p)
    BY <1>1, <1>4, RootsAre DEF n
  <2>2. \A a : hash_leaf(a) # None
    BY DEF hash_leaf, None
  <2>3. \A a, b : hash_node(a, b) # None
    BY DEF hash_node, None
  <2>4. RootAt(tree_roots(s), s, p) # None
    BY <1>1, <1>4, <2>2, <2>3 DEF RootAt
  <2>. QED
    BY <1>10, <2>1, <2>4
<1>12. root_from_proof(leaf, index, n, given) = IF m # Len(given) THEN None ELSE acc[m]
  BY <1>1, <1>7 DEF root_from_proof, m, taken
<1>13. Len(given) = m => ((\A i \in 1 .. m : given[i] = path[p][i]) <=> given = path[p])
  BY <1>5, <1>6, SameSequences
<1>14. root_from_proof(leaf, index, n, given) = tree_root(s)
         <=> leaf = s[index + 1] /\ given = path[p]
  BY <1>6, <1>9, <1>10, <1>11, <1>12, <1>13
<1>15. path[p] # <<>> => Pow2[Len(path[p]) - 1] < n
  BY <1>4, <1>5, Lengths
<1>. QED
  BY <1>2, <1>5, <1>14, <1>15 DEF n

-----------------------------------------------------------------------------
(* The inductive invariant *)

\* What we signed is a range over the leaves there are.
OurBody(from) == [from |-> from, to |-> from + Len(leaves) - 1, root |-> tree_root(leaves)]
OurSignature(signature) == \E from \in Froms : signature = Signature("ours", OurBody(from))

\* What is sent is signed over that range, or with a key that is not ours; until it is
\* changed, what is signed is what it says.
CheckpointInv ==
  checkpoint # None =>
    /\ checkpoint = [body |-> checkpoint.body, signature |-> checkpoint.signature]
    /\ checkpoint.body.from \in Nat /\ checkpoint.body.to \in Nat
    /\ Len(leaves) > 0
    /\ checkpoint.signature[1] = "theirs" \/ OurSignature(checkpoint.signature)
    /\ altered = 0 => checkpoint.signature = Signature("ours", checkpoint.body)

IsProof(p) ==
  /\ p = [seq |-> p.seq, event_hash |-> p.event_hash, path |-> p.path]
  /\ p.seq \in Int /\ IsSequence(p.path)

TreeInv ==
  /\ IsSequence(leaves) /\ altered \in Nat
  /\ CheckpointInv
  /\ proof # None => checkpoint # None /\ IsProof(proof)

\* What verifies under our key is the range that we sealed.
LEMMA OursIsSealed ==
  ASSUME TreeInv, checkpoint # None, verify_checkpoint(checkpoint, "ours")
  PROVE  \E from \in Froms : checkpoint.body = OurBody(from)
<1>1. checkpoint.signature = <<"ours", checkpoint.body>>
  BY DEF verify_checkpoint, Signature
<1>2. OurSignature(checkpoint.signature)
  BY <1>1 DEF TreeInv, CheckpointInv
<1>3. PICK from \in Froms : checkpoint.signature = <<"ours", OurBody(from)>>
  BY <1>2 DEF OurSignature, Signature
<1>. QED
  BY <1>1, <1>3

\* A place of a sealed range, as an index of its leaves.
LEMMA PlaceOf ==
  ASSUME NEW from \in Nat, IsSequence(leaves), Len(leaves) > 0, NEW seq \in Int,
         NEW body, body = OurBody(from)
  PROVE  /\ tree_size(body) = Len(leaves) /\ body.root = tree_root(leaves)
         /\ body.from \in Nat /\ body.to \in Nat
         /\ Covers(body, seq) <=> seq \in body.from .. body.to
         /\ Covers(body, seq) => index_of(body, seq) \in 0 .. Len(leaves) - 1
<1>1. Len(leaves) \in Nat
  BY Lengths
<1>2. body.from = from /\ body.to = from + Len(leaves) - 1 /\ body.root = tree_root(leaves)
  BY DEF OurBody
<1>. QED
  BY <1>1, <1>2 DEF tree_size, Covers, index_of

LEMMA Changed ==
  ASSUME NEW path, IsSequence(path), NEW other \in OtherPaths(path)
  PROVE  IsSequence(other)
<1>1. PICK S : path \in Seq(S)
  BY DEF IsSequence
<1>2. CASE \E i \in DOMAIN path, hash \in Known : other = [path EXCEPT ![i] = hash]
  <2>1. PICK i \in DOMAIN path, hash \in Known : other = [path EXCEPT ![i] = hash]
    BY <1>2
  <2>. DEFINE T == S \union {hash}
  <2>2. path \in Seq(T) /\ hash \in T /\ i \in 1 .. Len(path)
    BY <1>1
  <2>. HIDE DEF T
  <2>3. other \in Seq(T)
    BY <2>1, <2>2
  <2>. QED
    BY <2>3 DEF IsSequence
<1>3. CASE \E hash \in Known : other = Append(path, hash)
  BY <1>3, PutBehind
<1>4. CASE \E i \in DOMAIN path : other = RemoveAt(path, i)
  <2>1. PICK i \in DOMAIN path : other = RemoveAt(path, i)
    BY <1>4
  <2>2. i \in 1 .. Len(path) /\ Len(path) \in Nat
    BY <1>1
  <2>3. SubSeq(path, 1, i - 1) \in Seq(S) /\ SubSeq(path, i + 1, Len(path)) \in Seq(S)
    BY <1>1, <2>2
  <2>4. other = SubSeq(path, 1, i - 1) \o SubSeq(path, i + 1, Len(path))
    BY <2>1 DEF RemoveAt
  <2>5. other \in Seq(S)
    BY <2>3, <2>4
  <2>. QED
    BY <2>5 DEF IsSequence
<1>5. CASE other = Reverse(path)
  <2>1. other = [i \in 1 .. Len(path) |-> path[(Len(path) - i) + 1]] /\ Len(path) \in Nat
    BY <1>1, <1>5 DEF Reverse
  <2>2. \A i \in 1 .. Len(path) : path[(Len(path) - i) + 1] \in S
    BY <1>1, <2>1
  <2>3. other \in Seq(S)
    BY <2>1, <2>2
  <2>. QED
    BY <2>3 DEF IsSequence
<1>. QED
  BY <1>2, <1>3, <1>4, <1>5 DEF OtherPaths

LEMMA TreeStarts == TreeInit => TreeInv
<1>1. IsSequence(<<>>)
  BY NoSteps
<1>. QED
  BY <1>1 DEF TreeInit, TreeInv, CheckpointInv

LEMMA TreeStep == TreeInv /\ [TreeNext]_treeVars => TreeInv'
<1>. SUFFICES ASSUME TreeInv, [TreeNext]_treeVars PROVE TreeInv'
  OBVIOUS
<1>0. /\ IsSequence(leaves) /\ altered \in Nat /\ CheckpointInv
      /\ proof # None => checkpoint # None /\ IsProof(proof)
  BY DEF TreeInv
<1>1. CASE Grow
  <2>1. PICK hash : leaves' = Append(leaves, hash)
    BY <1>1 DEF Grow
  <2>2. IsSequence(leaves')
    BY <1>0, <2>1, PutBehind
  <2>3. checkpoint' = None /\ proof' = None /\ altered' = altered
    BY <1>0, <1>1 DEF Grow
  <2>. QED
    BY <1>0, <2>2, <2>3 DEF TreeInv, CheckpointInv
<1>2. CASE Seal
  <2>1. PICK from \in Froms : checkpoint' = Signed("ours", OurBody(from))
    BY <1>2 DEF Seal, OurBody
  <2>2. leaves' = leaves /\ proof' = proof /\ altered' = altered /\ proof = None /\ leaves # <<>>
    BY <1>0, <1>2 DEF Seal
  <2>3. Len(leaves) \in Nat /\ Len(leaves) > 0 /\ from \in Nat
    BY <1>0, <2>2, Lengths, TreeParameters
  <2>4. PICK body, signature :
          /\ body = OurBody(from) /\ signature = Signature("ours", body)
          /\ checkpoint' = [body |-> body, signature |-> signature]
    BY <2>1 DEF Signed
  <2>5. body.from \in Nat /\ body.to \in Nat
    BY <2>3, <2>4 DEF OurBody
  <2>6. OurSignature(signature)'
    BY <2>2, <2>4 DEF OurSignature, OurBody
  <2>7. checkpoint'.body = body /\ checkpoint'.signature = signature
    BY <2>4
  <2>8. OurSignature(checkpoint.signature)'
    BY <2>6, <2>7
  <2>9. CheckpointInv'
    BY <2>2, <2>3, <2>4, <2>5, <2>7, <2>8 DEF CheckpointInv
  <2>. QED
    BY <1>0, <2>2, <2>9 DEF TreeInv
<1>3. CASE Prove
  <2>1. PICK seq \in checkpoint.body.from .. checkpoint.body.to :
          proof' = prove_inclusion(checkpoint, leaves, seq)
    BY <1>3 DEF Prove
  <2>2. leaves' = leaves /\ checkpoint' = checkpoint /\ altered' = altered /\ checkpoint # None
    BY <1>3 DEF Prove
  <2>3. CheckpointInv'
    BY <1>0, <2>2 DEF CheckpointInv, OurSignature, OurBody
  <2>4. ASSUME proof' # None PROVE IsProof(proof)'
    <3>. DEFINE body == checkpoint.body
                index == index_of(body, seq)
                path == build_proof(leaves, index)
    <3>1. body.from \in Nat /\ body.to \in Nat /\ Len(leaves) \in Nat /\ seq \in Int
      BY <1>0, <2>2, Lengths DEF CheckpointInv
    <3>2. /\ Covers(body, seq) /\ Len(leaves) = tree_size(body)
          /\ proof' = [seq |-> seq, event_hash |-> leaves[index + 1], path |-> path]
      BY <2>1, <2>4 DEF prove_inclusion
    <3>. HIDE DEF body
    <3>3. index \in 0 .. Len(leaves) - 1
      BY <3>1, <3>2 DEF Covers, tree_size, index_of
    <3>. HIDE DEF index
    <3>4. IsSequence(path)
      BY <3>1, <3>3, NoSteps, PlaceBinds
    <3>. HIDE DEF path
    <3>. QED
      BY <3>1, <3>2, <3>4 DEF IsProof
  <2>. QED
    BY <1>0, <2>2, <2>3, <2>4 DEF TreeInv
<1>4. CASE Alter
  <2>1. /\ leaves' = leaves /\ altered' \in Nat /\ altered' # 0 /\ checkpoint # None /\ IsProof(proof)
        /\ proof # None
    BY <1>0, <1>4 DEF Alter
  <2>2. CASE UNCHANGED checkpoint
    <3>1. CheckpointInv'
      BY <1>0, <2>1, <2>2 DEF CheckpointInv, OurSignature, OurBody
    <3>2. IsProof(proof)'
      <4>0. /\ proof = [seq |-> proof.seq, event_hash |-> proof.event_hash, path |-> proof.path]
            /\ proof.seq \in Int /\ IsSequence(proof.path)
        BY <2>1 DEF IsProof
      <4>1. CASE \E seq \in checkpoint.body.from .. checkpoint.body.to : proof' = [proof EXCEPT !.seq = seq]
        <5>1. PICK seq \in checkpoint.body.from .. checkpoint.body.to : proof' = [proof EXCEPT !.seq = seq]
          BY <4>1
        <5>2. seq \in Int
          BY <1>0, <2>1 DEF CheckpointInv
        <5>3. proof' = [seq |-> seq, event_hash |-> proof.event_hash, path |-> proof.path]
          BY <4>0, <5>1
        <5>. QED
          BY <4>0, <5>2, <5>3 DEF IsProof
      <4>2. CASE \E hash \in Known : proof' = [proof EXCEPT !.event_hash = hash]
        <5>1. PICK hash \in Known : proof' = [proof EXCEPT !.event_hash = hash]
          BY <4>2
        <5>2. proof' = [seq |-> proof.seq, event_hash |-> hash, path |-> proof.path]
          BY <4>0, <5>1
        <5>. QED
          BY <4>0, <5>2 DEF IsProof
      <4>3. CASE \E path \in OtherPaths(proof.path) : proof' = [proof EXCEPT !.path = path]
        <5>1. PICK path \in OtherPaths(proof.path) : proof' = [proof EXCEPT !.path = path]
          BY <4>3
        <5>2. proof' = [seq |-> proof.seq, event_hash |-> proof.event_hash, path |-> path]
          BY <4>0, <5>1
        <5>3. IsSequence(path)
          BY <4>0, Changed
        <5>. QED
          BY <4>0, <5>2, <5>3 DEF IsProof
      <4>4. CASE UNCHANGED proof
        BY <2>1, <4>4 DEF IsProof
      <4>. QED
        BY <1>4, <4>1, <4>2, <4>3, <4>4 DEF Alter
    <3>. QED
      BY <1>0, <2>1, <2>2, <3>1, <3>2 DEF TreeInv
  <2>3. CASE \E body \in [from : Froms, to : {checkpoint.body.to, checkpoint.body.to + 1}, root : Known \ Hashes] :
               /\ checkpoint' \in {[checkpoint EXCEPT !.body = body], Signed("theirs", body)}
               /\ UNCHANGED proof
    <3>1. PICK body \in [from : Froms, to : {checkpoint.body.to, checkpoint.body.to + 1}, root : Known \ Hashes] :
               /\ checkpoint' \in {[checkpoint EXCEPT !.body = body], Signed("theirs", body)}
               /\ UNCHANGED proof
      BY <2>3
    <3>2. body.from \in Nat /\ body.to \in Nat
      <4>1. body.from \in Froms /\ body.to \in {checkpoint.body.to, checkpoint.body.to + 1}
        OBVIOUS
      <4>2. checkpoint.body.to \in Nat
        BY <1>0, <2>1 DEF CheckpointInv
      <4>3. checkpoint.body.to + 1 \in Nat
        BY <4>2
      <4>4. body.from \in Nat
        BY <4>1, TreeParameters
      <4>5. body.to \in Nat
        BY <4>1, <4>2, <4>3
      <4>. QED
        BY <4>4, <4>5
    <3>3. /\ checkpoint = [body |-> checkpoint.body, signature |-> checkpoint.signature]
          /\ Len(leaves) > 0
          /\ checkpoint.signature[1] = "theirs" \/ OurSignature(checkpoint.signature)
      BY <1>0, <2>1 DEF CheckpointInv
    <3>4. \A signature : OurSignature(signature) => OurSignature(signature)'
      BY <2>1 DEF OurSignature, OurBody
    <3>5. PICK signature : /\ checkpoint' = [body |-> body, signature |-> signature]
                           /\ signature[1] = "theirs" \/ OurSignature(signature)
      <4>1. CASE checkpoint' = [checkpoint EXCEPT !.body = body]
        <5>1. checkpoint' = [body |-> body, signature |-> checkpoint.signature]
          BY <3>3, <4>1
        <5>. QED
          BY <3>3, <5>1
      <4>2. CASE checkpoint' = Signed("theirs", body)
        <5>1. checkpoint' = [body |-> body, signature |-> <<"theirs", body>>]
          BY <4>2 DEF Signed, Signature
        <5>2. <<"theirs", body>>[1] = "theirs"
          OBVIOUS
        <5>. QED
          BY <5>1, <5>2
      <4>. QED
        BY <3>1, <4>1, <4>2
    <3>6. checkpoint'.body = body /\ checkpoint'.signature = signature /\ checkpoint' # None
      BY <3>5 DEF None
    <3>7. OurSignature(signature) => OurSignature(checkpoint.signature)'
      BY <3>4, <3>6
    <3>8. CheckpointInv'
      BY <2>1, <3>2, <3>3, <3>5, <3>6, <3>7 DEF CheckpointInv
    <3>9. proof' = proof
      BY <3>1
    <3>. QED
      BY <1>0, <2>1, <3>6, <3>8, <3>9 DEF TreeInv, IsProof
  <2>. QED
    BY <1>4, <2>2, <2>3 DEF Alter
<1>5. CASE UNCHANGED treeVars
  <2>1. leaves' = leaves /\ checkpoint' = checkpoint /\ proof' = proof /\ altered' = altered
    BY <1>5 DEF treeVars
  <2>. QED
    BY <1>0, <2>1 DEF TreeInv, CheckpointInv, IsProof, OurSignature, OurBody
<1>. QED
  BY <1>1, <1>2, <1>3, <1>4, <1>5 DEF TreeNext

LEMMA TreeHolds == TreeSpec => []TreeInv
<1>. QED
  BY TreeStarts, TreeStep, PTL DEF TreeSpec

-----------------------------------------------------------------------------
(* What a proof of inclusion shows *)

LEMMA InvBinds == TreeInv => InclusionBinds
<1>. SUFFICES ASSUME TreeInv, proof # None, verify_inclusion(checkpoint, proof, "ours")
              PROVE  /\ checkpoint.body.root = tree_root(leaves)
                     /\ proof.event_hash = leaves[index_of(checkpoint.body, proof.seq) + 1]
                     /\ proof.path = build_proof(leaves, index_of(checkpoint.body, proof.seq))
  BY DEF InclusionBinds
<1>. DEFINE body == checkpoint.body
            index == index_of(body, proof.seq)
<1>1. verify_checkpoint(checkpoint, "ours") /\ PathHolds(checkpoint, proof) /\ checkpoint # None
  BY DEF verify_inclusion, TreeInv
<1>2. PICK from \in Froms : body = OurBody(from)
  BY <1>1, OursIsSealed
<1>3. /\ IsSequence(leaves) /\ Len(leaves) > 0 /\ Len(leaves) \in Nat /\ from \in Nat
      /\ proof.seq \in Int /\ IsSequence(proof.path)
  BY <1>1, Lengths, TreeParameters DEF TreeInv, CheckpointInv, IsProof
<1>4. /\ Covers(body, proof.seq)
      /\ root_from_proof(proof.event_hash, index, tree_size(body), proof.path) = body.root
  BY <1>1 DEF PathHolds
<1>. HIDE DEF body, index
<1>5. tree_size(body) = Len(leaves) /\ body.root = tree_root(leaves) /\ index \in 0 .. Len(leaves) - 1
  BY <1>2, <1>3, <1>4, PlaceOf DEF index
<1>6. root_from_proof(proof.event_hash, index, Len(leaves), proof.path) = tree_root(leaves)
  BY <1>4, <1>5
<1>7. proof.event_hash = leaves[index + 1] /\ proof.path = build_proof(leaves, index)
  BY <1>3, <1>5, <1>6, PlaceBinds
<1>. QED
  BY <1>5, <1>7 DEF body, index

\* What verifies under our key is the event that was at this place of the range we
\* sealed, by the one path there is, whatever was done to the proof and to the
\* checkpoint on their way (hash.rs root_from_proof, checkpoint.rs verify_inclusion).
THEOREM InclusionsBind == TreeSpec => []InclusionBinds
<1>. QED
  BY TreeHolds, InvBinds, PTL

LEMMA InvProves == TreeInv => EveryPlaceIsProved
<1>. SUFFICES ASSUME TreeInv, checkpoint # None, altered = 0,
                     NEW seq \in checkpoint.body.from .. checkpoint.body.to,
                     NEW p, p = prove_inclusion(checkpoint, leaves, seq)
              PROVE  /\ verify_inclusion(checkpoint, p, "ours")
                     /\ p.path # <<>> => Pow2[Len(p.path) - 1] < Len(leaves)
  BY DEF EveryPlaceIsProved
<1>. DEFINE body == checkpoint.body
            index == index_of(body, seq)
            path == build_proof(leaves, index)
<1>1. verify_checkpoint(checkpoint, "ours")
  BY DEF TreeInv, CheckpointInv, verify_checkpoint
<1>2. PICK from \in Froms : body = OurBody(from)
  BY <1>1, OursIsSealed
<1>3. IsSequence(leaves) /\ Len(leaves) > 0 /\ Len(leaves) \in Nat /\ from \in Nat
  BY Lengths, TreeParameters DEF TreeInv, CheckpointInv
<1>4. seq \in body.from .. body.to /\ body.from \in Nat /\ body.to \in Nat /\ seq \in Int
  BY DEF TreeInv, CheckpointInv
<1>5. p = IF ~Covers(body, seq) \/ Len(leaves) # tree_size(body) \/ tree_root(leaves) # body.root THEN None
          ELSE [seq |-> seq, event_hash |-> leaves[index + 1], path |-> path]
  BY DEF prove_inclusion
<1>. HIDE DEF body, index
<1>6. /\ Covers(body, seq) /\ tree_size(body) = Len(leaves) /\ body.root = tree_root(leaves)
      /\ index \in 0 .. Len(leaves) - 1
  BY <1>2, <1>3, <1>4, PlaceOf DEF index
<1>. HIDE DEF path
<1>7. p.seq = seq /\ p.event_hash = leaves[index + 1] /\ p.path = path
  BY <1>5, <1>6
<1>8. IsSequence(path) /\ (path # <<>> => Pow2[Len(path) - 1] < Len(leaves))
  BY <1>3, <1>6, NoSteps, PlaceBinds DEF path
<1>9. root_from_proof(leaves[index + 1], index, Len(leaves), path) = tree_root(leaves)
  BY <1>3, <1>6, <1>8, PlaceBinds DEF path
<1>10. PathHolds(checkpoint, p)
  <2>1. index_of(body, p.seq) = index
    BY <1>7 DEF index
  <2>. QED
    BY <1>6, <1>7, <1>9, <2>1 DEF PathHolds, body
<1>. QED
  BY <1>1, <1>7, <1>8, <1>10 DEF verify_inclusion

\* Every place of a sealed range has a proof that verifies and is no longer than the
\* tree is high, however many leaves there are: the way down, the siblings and the
\* order in which they are combined agree (hash.rs build_proof, root_from_proof).
THEOREM PlacesAreProved == TreeSpec => []EveryPlaceIsProved
<1>. QED
  BY TreeHolds, InvProves, PTL
=============================================================================
