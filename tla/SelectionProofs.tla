-------------------------- MODULE SelectionProofs ---------------------------
(***************************************************************************)
(* Facts about selections, for any finite set of positions.                *)
(***************************************************************************)
EXTENDS Selections, SequencesExt, FiniteSetTheorems, SequenceTheorems, TLAPS

(***************************************************************************)
(* Positions are ranked from 1 to their number, in order.                  *)
(***************************************************************************)
LEMMA RankOrder ==
    ASSUME NEW P \in SUBSET Int, IsFiniteSet(P)
    PROVE  /\ \A p \in P : Rank(P, p) \in 1 .. Cardinality(P)
           /\ \A p, q \in P : p < q => Rank(P, p) < Rank(P, q)
<1>. DEFINE Upto(p) == {q \in P : q <= p}
<1>1. \A p \in P : /\ IsFiniteSet(Upto(p))
                   /\ Cardinality(Upto(p)) \in Nat
                   /\ Cardinality(Upto(p)) <= Cardinality(P)
  <2>. TAKE p \in P
  <2>1. Upto(p) \in SUBSET P
    OBVIOUS
  <2>. QED
    BY <2>1, FS_Subset, FS_CardinalityType
<1>2. \A p \in P : Cardinality(Upto(p)) # 0
  <2>. TAKE p \in P
  <2>1. p \in Upto(p)
    OBVIOUS
  <2>. QED
    BY <1>1, <2>1, FS_EmptySet
<1>3. Cardinality(P) \in Nat
  BY FS_CardinalityType
<1>4. ASSUME NEW p \in P, NEW q \in P, p < q
      PROVE  Cardinality(Upto(p)) < Cardinality(Upto(q))
  <2>1. Upto(p) \in SUBSET Upto(q)
    <3>1. \A r \in P : r \in Int
      OBVIOUS
    <3>2. \A r \in P : r <= p => r <= q
      BY <1>4, <3>1
    <3>. QED
      BY <3>2
  <2>2. q \in Upto(q) /\ q \notin Upto(p)
    BY <1>4
  <2>3. Cardinality(Upto(p)) <= Cardinality(Upto(q))
    BY <1>1, <2>1, FS_Subset
  <2>4. Cardinality(Upto(q)) = Cardinality(Upto(p)) => Upto(q) = Upto(p)
    BY <1>1, <2>1, FS_Subset
  <2>. QED
    BY <1>1, <2>2, <2>3, <2>4
<1>. QED
  BY <1>1, <1>2, <1>3, <1>4 DEF Rank

(***************************************************************************)
(* Every rank up to the number of positions is that of exactly one.        *)
(***************************************************************************)
LEMMA NthRank ==
    ASSUME NEW P \in SUBSET Int, IsFiniteSet(P)
    PROVE  /\ Cardinality(P) \in Nat
           /\ \A k \in 1 .. Cardinality(P) :
                    Nth(P, k) \in P /\ Rank(P, Nth(P, k)) = k
           /\ \A p \in P : Nth(P, Rank(P, p)) = p
<1>. DEFINE n == Cardinality(P)
            rank == [p \in P |-> Rank(P, p)]
<1>1. n \in Nat
  BY FS_CardinalityType
<1>2. \A p, q \in P : Rank(P, p) = Rank(P, q) => p = q
  <2>. SUFFICES ASSUME NEW p \in P, NEW q \in P, Rank(P, p) = Rank(P, q), p # q
                PROVE  FALSE
    OBVIOUS
  <2>1. p < q \/ q < p
    OBVIOUS
  <2>2. Rank(P, p) \in 1 .. n /\ Rank(P, q) \in 1 .. n
    BY RankOrder
  <2>. QED
    BY <2>1, <2>2, RankOrder
<1>3. rank \in Injection(P, 1 .. n)
  BY <1>2, RankOrder DEF Injection, IsInjective
<1>4. IsFiniteSet(1 .. n) /\ Cardinality(1 .. n) = n
  BY <1>1, FS_Interval
<1>5. rank \in Surjection(P, 1 .. n)
  BY <1>3, <1>4, FS_Injection
<1>6. \A k \in 1 .. n : \E p \in P : Rank(P, p) = k
  BY <1>5 DEF Surjection
<1>7. \A k \in 1 .. n : Nth(P, k) \in P /\ Rank(P, Nth(P, k)) = k
  BY <1>6 DEF Nth
<1>8. \A p \in P : Nth(P, Rank(P, p)) = p
  BY <1>2, <1>7, RankOrder
<1>. QED
  BY <1>1, <1>7, <1>8

(***************************************************************************)
(* The positions come in order.                                            *)
(***************************************************************************)
LEMMA NthOrder ==
    ASSUME NEW P \in SUBSET Int, IsFiniteSet(P),
           NEW j \in 1 .. Cardinality(P), NEW k \in 1 .. Cardinality(P)
    PROVE  j < k <=> Nth(P, j) < Nth(P, k)
<1>1. /\ Nth(P, j) \in P /\ Rank(P, Nth(P, j)) = j
      /\ Nth(P, k) \in P /\ Rank(P, Nth(P, k)) = k
      /\ Cardinality(P) \in Nat
  BY NthRank
<1>2. /\ Nth(P, j) < Nth(P, k) => j < k
      /\ Nth(P, k) < Nth(P, j) => k < j
  BY <1>1, RankOrder
<1>3. Nth(P, j) \in Int /\ Nth(P, k) \in Int
  <2>1. \A p \in P : p \in Int
    OBVIOUS
  <2>. QED
    BY <1>1, <2>1
<1>4. j \in Int /\ k \in Int
  BY <1>1
<1>. QED
  BY <1>1, <1>2, <1>3, <1>4

(***************************************************************************)
(* A selection is a sequence of what it selects from.                      *)
(***************************************************************************)
LEMMA SelectType ==
    ASSUME NEW P \in SUBSET Int, IsFiniteSet(P), NEW s, NEW S,
           \A p \in P : s[p] \in S
    PROVE  /\ Select(s, P) \in Seq(S)
           /\ Len(Select(s, P)) = Cardinality(P)
           /\ DOMAIN Select(s, P) = 1 .. Cardinality(P)
<1>1. Cardinality(P) \in Nat /\ \A k \in 1 .. Cardinality(P) : Nth(P, k) \in P
  BY NthRank
<1>2. Select(s, P) \in [1 .. Cardinality(P) -> S]
  BY <1>1 DEF Select
<1>. QED
  BY <1>1, <1>2

(***************************************************************************)
(* It has the elements at the positions, and no others.                    *)
(***************************************************************************)
LEMMA SelectElements ==
    ASSUME NEW P \in SUBSET Int, IsFiniteSet(P), NEW s
    PROVE  /\ \A k \in 1 .. Cardinality(P) : Select(s, P)[k] = s[Nth(P, k)]
           /\ \A p \in P : Select(s, P)[Rank(P, p)] = s[p]
           /\ {Select(s, P)[k] : k \in DOMAIN Select(s, P)} = {s[p] : p \in P}
<1>1. \A k \in 1 .. Cardinality(P) : Select(s, P)[k] = s[Nth(P, k)]
  BY DEF Select
<1>2. \A p \in P : Select(s, P)[Rank(P, p)] = s[p]
  BY <1>1, RankOrder, NthRank
<1>3. DOMAIN Select(s, P) = 1 .. Cardinality(P)
  BY DEF Select
<1>4. \A k \in 1 .. Cardinality(P) : Nth(P, k) \in P
  BY NthRank
<1>5. \A p \in P : Rank(P, p) \in 1 .. Cardinality(P)
  BY RankOrder
<1>6. \A k \in DOMAIN Select(s, P) : \E p \in P : Select(s, P)[k] = s[p]
  BY <1>1, <1>3, <1>4
<1>7. \A p \in P : \E k \in DOMAIN Select(s, P) : s[p] = Select(s, P)[k]
  BY <1>2, <1>3, <1>5
<1>. QED
  BY <1>1, <1>2, <1>6, <1>7

(***************************************************************************)
(* Nothing is selected at no position.                                     *)
(***************************************************************************)
LEMMA SelectNone ==
    ASSUME NEW s
    PROVE  Select(s, {}) = << >>
BY FS_EmptySet DEF Select

(***************************************************************************)
(* Only the elements at the positions matter.                              *)
(***************************************************************************)
LEMMA SelectSame ==
    ASSUME NEW P \in SUBSET Int, IsFiniteSet(P), NEW s, NEW t,
           \A p \in P : s[p] = t[p]
    PROVE  Select(s, P) = Select(t, P)
BY NthRank DEF Select

(***************************************************************************)
(* A position behind all others is the last, and leaves the rank of the    *)
(* others.                                                                 *)
(***************************************************************************)
LEMMA NthAppend ==
    ASSUME NEW P \in SUBSET Int, IsFiniteSet(P), NEW m \in Int,
           \A p \in P : p < m
    PROVE  /\ IsFiniteSet(P \cup {m})
           /\ Cardinality(P \cup {m}) = Cardinality(P) + 1
           /\ \A k \in 1 .. Cardinality(P) : Nth(P \cup {m}, k) = Nth(P, k)
           /\ Nth(P \cup {m}, Cardinality(P) + 1) = m
<1>. DEFINE Q == P \cup {m}
<1>0. Q \in SUBSET Int
  OBVIOUS
<1>1. IsFiniteSet(Q) /\ Cardinality(Q) = Cardinality(P) + 1
  BY FS_AddElement
<1>2. Cardinality(P) \in Nat
  BY NthRank
<1>3. \A p \in P : Rank(Q, p) = Rank(P, p)
  <2>. TAKE p \in P
  <2>1. {q \in Q : q <= p} = {q \in P : q <= p}
    OBVIOUS
  <2>. QED
    BY <2>1 DEF Rank
<1>4. Rank(Q, m) = Cardinality(P) + 1
  <2>1. \A q \in Q : q <= m
    BY <1>0
  <2>. QED
    <3>1. {q \in Q : q <= m} = Q
      BY <2>1
    <3>. QED
      BY <1>1, <3>1 DEF Rank
<1>5. \A k \in 1 .. Cardinality(P) : Nth(Q, k) = Nth(P, k)
  <2>. TAKE k \in 1 .. Cardinality(P)
  <2>1. Nth(P, k) \in P /\ Rank(P, Nth(P, k)) = k
    BY NthRank
  <2>2. Rank(Q, Nth(P, k)) = k /\ Nth(P, k) \in Q
    BY <1>3, <2>1
  <2>3. \A q \in Q : Nth(Q, Rank(Q, q)) = q
    BY <1>0, <1>1, NthRank
  <2>. QED
    BY <2>2, <2>3
<1>6. Nth(Q, Cardinality(P) + 1) = m
  <2>1. \A q \in Q : Nth(Q, Rank(Q, q)) = q
    BY <1>0, <1>1, NthRank
  <2>. QED
    BY <1>4, <2>1
<1>. QED
  BY <1>1, <1>5, <1>6

(***************************************************************************)
(* An element behind all the selected ones is appended to the selection.   *)
(***************************************************************************)
LEMMA SelectAppend ==
    ASSUME NEW P \in SUBSET Int, IsFiniteSet(P), NEW m \in Int,
           \A p \in P : p < m, NEW s
    PROVE  Select(s, P \cup {m}) = Append(Select(s, P), s[m])
<1>. DEFINE n == Cardinality(P)
            Q == P \cup {m}
<1>1. /\ n \in Nat
      /\ Cardinality(Q) = n + 1
      /\ \A k \in 1 .. n : Nth(Q, k) = Nth(P, k)
      /\ Nth(Q, n + 1) = m
  BY NthAppend, NthRank
<1>2. Select(s, Q) = [k \in 1 .. n + 1 |-> s[Nth(Q, k)]]
  BY <1>1 DEF Select
<1>3. Select(s, P) = [k \in 1 .. n |-> s[Nth(P, k)]]
  BY DEF Select
<1>4. Len(Select(s, P)) = n
  BY <1>1, <1>3
<1>. HIDE DEF n, Q
<1>5. Append(Select(s, P), s[m])
        = [k \in 1 .. n + 1 |-> IF k = n + 1 THEN s[m] ELSE Select(s, P)[k]]
  BY <1>1, <1>3, <1>4
<1>6. \A k \in 1 .. n + 1 :
        s[Nth(Q, k)] = IF k = n + 1 THEN s[m] ELSE Select(s, P)[k]
  BY <1>1, <1>3
<1>. QED
  BY <1>2, <1>5, <1>6 DEF Q

(***************************************************************************)
(* When the first n positions are chosen, they are the first n of them.    *)
(***************************************************************************)
LEMMA NthPrefix ==
    ASSUME NEW P \in SUBSET (Nat \ {0}), IsFiniteSet(P), NEW n \in Nat,
           1 .. n \subseteq P
    PROVE  /\ n <= Cardinality(P)
           /\ \A k \in 1 .. n : Nth(P, k) = k
<1>0. IsFiniteSet(1 .. n) /\ Cardinality(1 .. n) = n
  BY FS_Interval
<1>1. n <= Cardinality(P)
  BY <1>0, FS_Subset
<1>2. ASSUME NEW k \in 1 .. n
      PROVE  Nth(P, k) = k
  <2>1. {q \in P : q <= k} = 1 .. k
    <3>1. \A q \in P : q \in Nat /\ q # 0
      OBVIOUS
    <3>2. \A q \in 1 .. k : q \in P
      OBVIOUS
    <3>3. \A q \in P : q <= k => q \in 1 .. k
      BY <3>1
    <3>4. \A q \in 1 .. k : q <= k
      OBVIOUS
    <3>. QED
      BY <3>2, <3>3, <3>4
  <2>2. Cardinality(1 .. k) = k
    BY FS_Interval
  <2>3. Rank(P, k) = k
    BY <2>1, <2>2 DEF Rank
  <2>. QED
    BY <2>3, NthRank
<1>. QED
  BY <1>1, <1>2

(***************************************************************************)
(* Selecting every position gives the sequence itself.                     *)
(***************************************************************************)
LEMMA SelectAll ==
    ASSUME NEW S, NEW s \in Seq(S)
    PROVE  Select(s, DOMAIN s) = s
<1>1. DOMAIN s = 1 .. Len(s) /\ Len(s) \in Nat
  OBVIOUS
<1>2. IsFiniteSet(1 .. Len(s)) /\ Cardinality(1 .. Len(s)) = Len(s)
  BY <1>1, FS_Interval
<1>3. \A k \in 1 .. Len(s) : Nth(1 .. Len(s), k) = k
  <2>1. 1 .. Len(s) \in SUBSET (Nat \ {0})
    BY <1>1
  <2>. QED
    BY <1>1, <1>2, <2>1, NthPrefix
<1>4. Select(s, DOMAIN s) = [k \in 1 .. Len(s) |-> s[k]]
  BY <1>1, <1>2, <1>3 DEF Select
<1>. QED
  BY <1>1, <1>4

(***************************************************************************)
(* Moving the positions without changing their order keeps the selection.  *)
(***************************************************************************)
LEMMA SelectMoved ==
    ASSUME NEW P \in SUBSET Int, IsFiniteSet(P), NEW f \in [P -> Int],
           \A p, q \in P : p < q => f[p] < f[q],
           NEW s, NEW t, \A p \in P : t[f[p]] = s[p],
           NEW Q \in SUBSET Int, \A p \in P : f[p] \in Q, \A q \in Q : \E p \in P : q = f[p]
    PROVE  /\ IsFiniteSet(Q)
           /\ Cardinality(Q) = Cardinality(P)
           /\ Select(t, Q) = Select(s, P)
<1>0. \A p \in P : p \in Int /\ f[p] \in Int /\ f[p] \in Q
  OBVIOUS
<1>. Q = {f[p] : p \in P}
  OBVIOUS
<1>1. Q \in SUBSET Int
  BY <1>0
<1>2. \A p, q \in P : f[p] <= f[q] <=> p <= q
  BY <1>0
<1>3. \A p, q \in P : f[p] = f[q] => p = q
  BY <1>0, <1>2
<1>4. ASSUME NEW R \in SUBSET P
      PROVE  /\ IsFiniteSet({f[p] : p \in R})
             /\ Cardinality({f[p] : p \in R}) = Cardinality(R)
  <2>. DEFINE T == {f[p] : p \in R}
              g == [p \in R |-> f[p]]
  <2>1. g \in [R -> T] /\ \A p, q \in R : g[p] = g[q] => p = q
    BY <1>3
  <2>2. \A x \in T : \E p \in R : g[p] = x
    OBVIOUS
  <2>3. g \in Bijection(R, T)
    BY <2>1, <2>2 DEF Bijection, Injection, Surjection, IsInjective
  <2>4. ExistsBijection(R, T)
    BY <2>3 DEF ExistsBijection
  <2>5. IsFiniteSet(R)
    BY FS_Subset
  <2>. QED
    BY <2>4, <2>5, FS_Bijection
<1>5. IsFiniteSet(Q) /\ Cardinality(Q) = Cardinality(P)
  BY <1>4
<1>6. ASSUME NEW p \in P
      PROVE  Rank(Q, f[p]) = Rank(P, p)
  <2>. DEFINE R == {q \in P : q <= p}
  <2>1. \A q \in R : f[q] \in Q /\ f[q] <= f[p]
    BY <1>0, <1>2
  <2>2. \A x \in Q : x <= f[p] => \E q \in R : x = f[q]
    BY <1>0, <1>2
  <2>3. {x \in Q : x <= f[p]} = {f[q] : q \in R}
    <3>. HIDE DEF R
    <3>. QED
      BY <2>1, <2>2
  <2>4. Cardinality({f[q] : q \in R}) = Cardinality(R)
    BY <1>4
  <2>. QED
    BY <2>3, <2>4 DEF Rank
<1>7. ASSUME NEW k \in 1 .. Cardinality(P)
      PROVE  Nth(Q, k) = f[Nth(P, k)]
  <2>1. Nth(P, k) \in P /\ Rank(P, Nth(P, k)) = k
    BY NthRank
  <2>2. \A x \in Q : Nth(Q, Rank(Q, x)) = x
    BY <1>1, <1>5, NthRank
  <2>. QED
    BY <1>0, <1>6, <2>1, <2>2
<1>8. \A k \in 1 .. Cardinality(P) : Nth(P, k) \in P
  BY NthRank
<1>9. Select(t, Q) = Select(s, P)
  BY <1>5, <1>7, <1>8 DEF Select
<1>. QED
  BY <1>1, <1>5, <1>9

(***************************************************************************)
(* So does moving all of them by one.                                      *)
(***************************************************************************)
LEMMA SelectShifted ==
    ASSUME NEW P \in SUBSET Int, IsFiniteSet(P), NEW Q \in SUBSET Int,
           \A p \in P : p + 1 \in Q, \A q \in Q : q - 1 \in P,
           NEW s, NEW t, \A p \in P : t[p + 1] = s[p]
    PROVE  Select(t, Q) = Select(s, P)
<1>. DEFINE f == [p \in P |-> p + 1]
<1>0. (\A p \in P : p \in Int) /\ (\A q \in Q : q \in Int)
  OBVIOUS
<1>1. f \in [P -> Int]
  BY <1>0
<1>2. \A p, q \in P : p < q => f[p] < f[q]
  BY <1>0
<1>3. \A p \in P : t[f[p]] = s[p]
  OBVIOUS
<1>4. \A p \in P : f[p] \in Q
  OBVIOUS
<1>5. \A q \in Q : \E p \in P : q = f[p]
  <2>. TAKE q \in Q
  <2>1. q - 1 \in P /\ q = (q - 1) + 1
    BY <1>0
  <2>. QED
    BY <2>1
<1>. HIDE DEF f
<1>. QED
  BY <1>1, <1>2, <1>3, <1>4, <1>5, SelectMoved

-----------------------------------------------------------------------------
(* Concatenation of a sequence of sequences                                *)

(***************************************************************************)
(* A set of numbers has a least one.                                       *)
(***************************************************************************)
LEMMA LeastNumber ==
    ASSUME NEW T \in SUBSET Nat, T # {}
    PROVE  \E n \in T : \A m \in T : n <= m
<1>. DEFINE less == OpToRel(<, Nat)
<1>. HIDE DEF less
<1>1. PICK n \in T : \A m \in T : ~ (<<m, n>> \in less)
  BY WFMin, NatLessThanWellFounded DEF less
<1>2. ASSUME NEW m \in T PROVE n <= m
  <2>1. n \in Nat /\ m \in Nat
    OBVIOUS
  <2>2. m < n => <<m, n>> \in less
    BY <2>1 DEF less, OpToRel
  <2>. QED
    BY <1>1, <2>1, <2>2
<1>. QED
  BY <1>2

\* g[i] is the concatenation of the first i of ss, for i from 1 to n.
Concatenates(g, ss, n) ==
    \A i \in 1 .. n : g[i] = IF i = 1 THEN ss[i] ELSE g[i - 1] \o ss[i]

(***************************************************************************)
(* There is only one way to concatenate.                                   *)
(***************************************************************************)
LEMMA ConcatenationUnique ==
    ASSUME NEW n \in Nat, NEW g, NEW h, NEW ss, NEW tt, \A i \in 1 .. n : ss[i] = tt[i],
           Concatenates(g, ss, n), Concatenates(h, tt, n)
    PROVE  \A i \in 1 .. n : g[i] = h[i]
<1>. DEFINE T == {i \in 1 .. n : g[i] # h[i]}
<1>. SUFFICES ASSUME T # {} PROVE FALSE
  OBVIOUS
<1>1. T \in SUBSET Nat
  OBVIOUS
<1>2. PICK i \in T : \A j \in T : i <= j
  BY <1>1, LeastNumber
<1>3. i \in 1 .. n /\ g[i] # h[i]
  OBVIOUS
<1>4. i # 1
  BY <1>3 DEF Concatenates
<1>5. i - 1 \in 1 .. n /\ i - 1 < i
  BY <1>3, <1>4
<1>6. i - 1 \notin T
  BY <1>2, <1>3, <1>5
<1>7. g[i - 1] = h[i - 1]
  BY <1>5, <1>6
<1>. QED
  BY <1>3, <1>4, <1>7 DEF Concatenates

(***************************************************************************)
(* And there is one.                                                       *)
(***************************************************************************)
LEMMA ConcatenationExists ==
    ASSUME NEW S, NEW ss \in Seq(Seq(S))
    PROVE  \E g \in [1 .. Len(ss) -> Seq(S)] : Concatenates(g, ss, Len(ss))
<1>. DEFINE Good(n) == \E g \in [1 .. n -> Seq(S)] : Concatenates(g, ss, n)
            T == {n \in 0 .. Len(ss) : ~ Good(n)}
<1>0. Len(ss) \in Nat /\ \A i \in 1 .. Len(ss) : ss[i] \in Seq(S)
  OBVIOUS
<1>. SUFFICES ASSUME T # {} PROVE FALSE
  BY <1>0
<1>1. T \in SUBSET Nat
  BY <1>0
<1>2. PICK n \in T : \A m \in T : n <= m
  BY <1>1, LeastNumber
<1>3. n \in 0 .. Len(ss) /\ ~ Good(n)
  OBVIOUS
<1>4. n # 0
  <2>1. <<>> \in [1 .. 0 -> Seq(S)] /\ Concatenates(<<>>, ss, 0)
    BY DEF Concatenates
  <2>. QED
    BY <1>3, <2>1
<1>5. n \in 1 .. Len(ss) /\ n - 1 \in 0 .. Len(ss) /\ n - 1 < n /\ n \in Nat
  BY <1>0, <1>3, <1>4
<1>6. Good(n - 1)
  <2>. HIDE DEF Good
  <2>1. n - 1 \notin T
    <3>. SUFFICES ASSUME n - 1 \in T PROVE FALSE
      OBVIOUS
    <3>1. n <= n - 1
      BY <1>2
    <3>. QED
      BY <1>5, <3>1
  <2>. QED
    BY <1>5, <2>1
<1>7. PICK g \in [1 .. n - 1 -> Seq(S)] : Concatenates(g, ss, n - 1)
  BY <1>6
<1>. DEFINE last == IF n = 1 THEN ss[n] ELSE g[n - 1] \o ss[n]
            h == [i \in 1 .. n |-> IF i = n THEN last ELSE g[i]]
<1>8. last \in Seq(S)
  <2>1. CASE n = 1
    BY <1>0, <1>5, <2>1
  <2>2. CASE n # 1
    <3>1. n - 1 \in 1 .. n - 1
      BY <1>5, <2>2
    <3>2. g[n - 1] \in Seq(S) /\ ss[n] \in Seq(S)
      BY <1>0, <1>5, <1>7, <3>1
    <3>. QED
      BY <2>2, <3>2, ConcatProperties
  <2>. QED
    BY <2>1, <2>2
<1>9. \A i \in 1 .. n : i # n => i \in 1 .. n - 1
  BY <1>5
<1>10. h \in [1 .. n -> Seq(S)]
  <2>. HIDE DEF last
  <2>. QED
    BY <1>7, <1>8, <1>9
<1>11. ASSUME NEW i \in 1 .. n
       PROVE  h[i] = IF i = 1 THEN ss[i] ELSE h[i - 1] \o ss[i]
  <2>1. i # 1 => i - 1 \in 1 .. n /\ i - 1 # n
    BY <1>5
  <2>2. i # 1 => h[i - 1] = g[i - 1]
    BY <2>1
  <2>3. CASE i = n
    BY <2>2, <2>3
  <2>4. CASE i # n
    <3>1. g[i] = IF i = 1 THEN ss[i] ELSE g[i - 1] \o ss[i]
      BY <1>7, <1>9, <2>4 DEF Concatenates
    <3>. QED
      BY <2>2, <2>4, <3>1
  <2>. QED
    BY <2>3, <2>4
<1>12. Concatenates(h, ss, n)
  BY <1>11 DEF Concatenates
<1>. QED
  BY <1>3, <1>10, <1>12

(***************************************************************************)
(* FlattenSeq is it.                                                       *)
(***************************************************************************)
LEMMA FlattenIs ==
    ASSUME NEW S, NEW ss \in Seq(Seq(S)), ss # <<>>,
           NEW g, Concatenates(g, ss, Len(ss))
    PROVE  FlattenSeq(ss) = g[Len(ss)]
<1>. DEFINE n == Len(ss)
            Body(f) == [i \in 1 .. n |-> IF i = 1 THEN ss[i] ELSE f[i - 1] \o ss[i]]
            flat == CHOOSE f : f = Body(f)
<1>1. n \in Nat /\ n # 0
  OBVIOUS
<1>2. FlattenSeq(ss) = flat[n]
  BY <1>1 DEF FlattenSeq
<1>3. \E f : f = Body(f)
  <2>1. PICK h \in [1 .. n -> Seq(S)] : Concatenates(h, ss, n)
    BY ConcatenationExists
  <2>2. h = [i \in 1 .. n |-> h[i]]
    BY <2>1
  <2>3. h = Body(h)
    BY <2>1, <2>2 DEF Concatenates
  <2>. QED
    BY <2>3
<1>4. flat = Body(flat)
  BY <1>3
<1>. HIDE DEF flat
<1>5. Concatenates(flat, ss, n)
  BY <1>4 DEF Concatenates
<1>6. \A i \in 1 .. n : flat[i] = g[i]
  BY <1>1, <1>5, ConcatenationUnique
<1>. QED
  BY <1>1, <1>2, <1>6

(***************************************************************************)
(* FlattenSeq of sequences over a set is a sequence over it.               *)
(***************************************************************************)
LEMMA FlattenType ==
    ASSUME NEW S, NEW ss \in Seq(Seq(S))
    PROVE  FlattenSeq(ss) \in Seq(S)
<1>1. CASE ss = <<>>
  BY <1>1 DEF FlattenSeq
<1>2. CASE ss # <<>>
  <2>1. PICK g \in [1 .. Len(ss) -> Seq(S)] : Concatenates(g, ss, Len(ss))
    BY ConcatenationExists
  <2>2. Len(ss) \in 1 .. Len(ss)
    BY <1>2
  <2>. QED
    BY <1>2, <2>1, <2>2, FlattenIs
<1>. QED
  BY <1>1, <1>2

(***************************************************************************)
(* It grows by what is appended.                                           *)
(***************************************************************************)
LEMMA FlattenAppend ==
    ASSUME NEW S, NEW ss \in Seq(Seq(S)), NEW s \in Seq(S)
    PROVE  FlattenSeq(Append(ss, s)) = FlattenSeq(ss) \o s
<1>. DEFINE tt == Append(ss, s)
            n == Len(ss)
<1>0. n = Len(ss) /\ tt = Append(ss, s)
  OBVIOUS
<1>1. /\ tt \in Seq(Seq(S)) /\ tt # <<>> /\ Len(tt) = n + 1 /\ n \in Nat
      /\ tt[n + 1] = s /\ \A i \in 1 .. n : tt[i] = ss[i]
  BY AppendProperties
<1>. HIDE DEF tt, n
<1>2. PICK h : Concatenates(h, tt, n + 1)
  BY <1>1, ConcatenationExists
<1>3. FlattenSeq(tt) = h[n + 1]
  BY <1>1, <1>2, FlattenIs
<1>4. CASE n = 0
  <2>1. h[1] = s
    BY <1>1, <1>2, <1>4 DEF Concatenates
  <2>2. FlattenSeq(ss) = <<>> /\ ss = <<>>
    <3>1. ss = <<>>
      BY <1>0, <1>4, EmptySeq
    <3>. QED
      BY <3>1 DEF FlattenSeq
  <2>. QED
    BY <1>0, <1>3, <1>4, <2>1, <2>2
<1>5. CASE n # 0
  <2>1. h[n + 1] = h[n] \o s
    <3>1. n + 1 \in 1 .. n + 1 /\ n + 1 # 1 /\ n + 1 - 1 = n
      BY <1>1, <1>5
    <3>2. \A i \in 1 .. n + 1 : h[i] = IF i = 1 THEN tt[i] ELSE h[i - 1] \o tt[i]
      BY <1>2, Zenon DEF Concatenates
    <3>3. PICK m \in 1 .. n + 1 : m = n + 1
      BY <3>1
    <3>4. h[m] = IF m = 1 THEN tt[m] ELSE h[m - 1] \o tt[m]
      BY <3>2, Zenon
    <3>. QED
      BY <1>1, <3>1, <3>3, <3>4
  <2>2. Concatenates(h, tt, n)
    <3>1. \A i \in 1 .. n : i \in 1 .. n + 1
      BY <1>1
    <3>. QED
      BY <1>2, <3>1 DEF Concatenates
  <2>3. PICK g : Concatenates(g, ss, n)
    BY <1>0, ConcatenationExists
  <2>4. \A i \in 1 .. n : h[i] = g[i]
    <3>1. n \in Nat /\ \A i \in 1 .. n : tt[i] = ss[i]
      BY <1>1
    <3>2. Concatenates(g, ss, n)
      BY <2>3
    <3>. QED
      BY <2>2, <3>1, <3>2, ConcatenationUnique, SMT
  <2>5. FlattenSeq(ss) = g[n] /\ n \in 1 .. n
    <3>1. ss # <<>> /\ n \in 1 .. n
      BY <1>0, <1>1, <1>5
    <3>. QED
      BY <1>0, <2>3, <3>1, FlattenIs
  <2>. QED
    BY <1>0, <1>3, <2>1, <2>4, <2>5
<1>. QED
  BY <1>4, <1>5

(***************************************************************************)
(* Positions of a sequence are finitely many numbers.                      *)
(***************************************************************************)
LEMMA PositionsFinite ==
    ASSUME NEW n \in Nat, NEW P \in SUBSET (1 .. n)
    PROVE  P \in SUBSET Int /\ IsFiniteSet(P)
<1>1. IsFiniteSet(1 .. n) /\ 1 .. n \in SUBSET Int
  BY FS_Interval
<1>. QED
  BY <1>1, FS_Subset

(***************************************************************************)
(* A selection has the elements at the positions and no others.            *)
(***************************************************************************)
LEMMA SelectHas ==
    ASSUME NEW S, NEW s \in Seq(S), NEW P \in SUBSET (DOMAIN s)
    PROVE  /\ P \in SUBSET Int /\ IsFiniteSet(P)
           /\ Select(s, P) \in Seq(S)
           /\ \A k \in DOMAIN Select(s, P) : \E p \in P : Select(s, P)[k] = s[p]
           /\ \A p \in P : \E k \in DOMAIN Select(s, P) : Select(s, P)[k] = s[p]
<1>1. /\ DOMAIN s = 1 .. Len(s) /\ Len(s) \in Nat
      /\ P \in SUBSET (1 .. Len(s)) /\ \A p \in P : s[p] \in S
  OBVIOUS
<1>2. P \in SUBSET Int /\ IsFiniteSet(P)
  BY <1>1, PositionsFinite
<1>3. Select(s, P) \in Seq(S) /\ DOMAIN Select(s, P) = 1 .. Cardinality(P)
  BY <1>1, <1>2, SelectType
<1>4. \A k \in 1 .. Cardinality(P) : Nth(P, k) \in P /\ Select(s, P)[k] = s[Nth(P, k)]
  BY <1>2, NthRank, SelectElements
<1>5. \A p \in P : Rank(P, p) \in 1 .. Cardinality(P) /\ Select(s, P)[Rank(P, p)] = s[p]
  BY <1>2, RankOrder, SelectElements
<1>. QED
  BY <1>2, <1>3, <1>4, <1>5

(***************************************************************************)
(* A set of numbers that is moved as a whole keeps its size.               *)
(***************************************************************************)
LEMMA MovedSize ==
    ASSUME NEW n \in Int, NEW P \in SUBSET Int, IsFiniteSet(P), NEW Q \in SUBSET Int,
           \A p \in P : n + p \in Q, \A q \in Q : \E p \in P : q = n + p
    PROVE  IsFiniteSet(Q) /\ Cardinality(Q) = Cardinality(P)
<1>. DEFINE f == [p \in P |-> n + p]
<1>1. f \in [P -> Int] /\ \A p \in P : f[p] = n + p
  OBVIOUS
<1>2. \A p, q \in P : p < q => f[p] < f[q]
  <2>1. \A p \in P : p \in Int
    OBVIOUS
  <2>. QED
    BY <1>1, <2>1
<1>3. (\A p \in P : f[p] \in Q) /\ \A q \in Q : \E p \in P : q = f[p]
  BY <1>1
<1>. HIDE DEF f
<1>. DEFINE t == [q \in Q |-> CHOOSE p \in P : f[p] = q]
            s == [p \in P |-> t[f[p]]]
<1>5. \A p \in P : t[f[p]] = s[p]
  OBVIOUS
<1>. HIDE DEF s, t
<1>. QED
  BY <1>1, <1>2, <1>3, <1>5, SelectMoved

\* u is s followed by t, and R holds the places P of s and Q of t.
Joins(u, R, s, P, t, Q) ==
    /\ Len(u) = Len(s) + Len(t)
    /\ P \in SUBSET (DOMAIN s) /\ Q \in SUBSET (DOMAIN t) /\ R \in SUBSET (DOMAIN u)
    /\ \A k \in DOMAIN s : u[k] = s[k] /\ (k \in R <=> k \in P)
    /\ \A k \in DOMAIN t : u[Len(s) + k] = t[k] /\ (Len(s) + k \in R <=> k \in Q)

(***************************************************************************)
(* What is selected from two joined sequences are the two selections.      *)
(***************************************************************************)
LEMMA SelectJoined ==
    ASSUME NEW S, NEW s \in Seq(S), NEW t \in Seq(S), NEW u \in Seq(S), NEW P, NEW Q, NEW R,
           Joins(u, R, s, P, t, Q)
    PROVE  Select(u, R) = Select(s, P) \o Select(t, Q)
<1>0. /\ P \in SUBSET (DOMAIN s) /\ Q \in SUBSET (DOMAIN t) /\ R \in SUBSET (DOMAIN u)
      /\ Len(u) = Len(s) + Len(t)
      /\ \A k \in DOMAIN s : u[k] = s[k] /\ (k \in R <=> k \in P)
      /\ \A k \in DOMAIN t : u[Len(s) + k] = t[k] /\ (Len(s) + k \in R <=> k \in Q)
  BY DEF Joins
<1>. DEFINE n == Len(s)
<1>1. /\ n \in Nat /\ Len(t) \in Nat /\ u \in Seq(S)
      /\ DOMAIN s = 1 .. n /\ DOMAIN t = 1 .. Len(t)
      /\ DOMAIN u = 1 .. n + Len(t)
      /\ \A k \in 1 .. n : u[k] = s[k]
      /\ \A k \in 1 .. Len(t) : u[n + k] = t[k]
      /\ P \in SUBSET (1 .. n) /\ Q \in SUBSET (1 .. Len(t)) /\ R \in SUBSET (1 .. n + Len(t))
  <2>1. n \in Nat /\ Len(t) \in Nat /\ DOMAIN s = 1 .. n /\ DOMAIN t = 1 .. Len(t)
    OBVIOUS
  <2>2. DOMAIN u = 1 .. n + Len(t)
    BY <1>0
  <2>. QED
    BY <1>0, <2>1, <2>2, Zenon
<1>2. /\ P \in SUBSET Int /\ IsFiniteSet(P) /\ Q \in SUBSET Int /\ IsFiniteSet(Q)
      /\ Select(s, P) \in Seq(S) /\ Select(t, Q) \in Seq(S)
  BY <1>0, SelectHas
<1>3. R \in SUBSET Int /\ IsFiniteSet(R) /\ Select(u, R) \in Seq(S)
  BY <1>0, <1>1, SelectHas
<1>. HIDE DEF n
<1>4. \A k \in 1 .. n : k \in R <=> k \in P
  BY <1>0, <1>1
<1>5. \A k \in 1 .. Len(t) : n + k \in R <=> k \in Q
  BY <1>0, <1>1 DEF n
<1>6. \A r \in R : r \in 1 .. n \/ (r - n \in 1 .. Len(t) /\ r = n + (r - n))
  BY <1>1
<1>7. ASSUME NEW p \in P
      PROVE  p \in R /\ Rank(R, p) = Rank(P, p)
  <2>1. p \in 1 .. n
    BY <1>1
  <2>2. ASSUME NEW q
        PROVE  (q \in R /\ q <= p) <=> (q \in P /\ q <= p)
    <3>1. q \in R /\ q <= p => q \in 1 .. n
      BY <1>1, <1>6, <2>1
    <3>2. q \in P => q \in 1 .. n
      BY <1>1
    <3>. QED
      BY <1>4, <3>1, <3>2
  <2>3. {q \in R : q <= p} = {q \in P : q <= p}
    BY <2>2
  <2>. QED
    BY <1>4, <2>1, <2>3 DEF Rank
<1>8. Cardinality(P) \in Nat /\ Cardinality(Q) \in Nat /\ Cardinality(R) \in Nat
  BY <1>2, <1>3, NthRank
<1>9. ASSUME NEW X \in SUBSET Q, NEW Y \in SUBSET R,
             \A y \in Y : y \in P \/ y - n \in X,
             \A p \in P : p \in Y, \A x \in X : n + x \in Y
      PROVE  Cardinality(Y) = Cardinality(P) + Cardinality(X)
  <2>. DEFINE Z == {y \in Y : y - n \in X}
  <2>1. X \in SUBSET Int /\ IsFiniteSet(X)
    BY <1>2, FS_Subset
  <2>2. Z \in SUBSET Int /\ Z \in SUBSET Y
    BY <1>3
  <2>3. \A x \in X : n + x \in Z
    <3>. TAKE x \in X
    <3>1. x \in Int /\ n + x \in Y
      BY <1>9, <2>1
    <3>2. PICK y \in Y : y = n + x
      BY <3>1
    <3>3. y - n = x
      BY <1>1, <3>1, <3>2
    <3>. QED
      BY <3>2, <3>3
  <2>4. \A z \in Z : \E x \in X : z = n + x
    <3>. TAKE z \in Z
    <3>1. z \in Int /\ z - n \in X
      BY <2>2
    <3>2. z = n + (z - n)
      BY <1>1, <3>1
    <3>. QED
      BY <3>1, <3>2
  <2>. HIDE DEF Z
  <2>5. IsFiniteSet(Z) /\ Cardinality(Z) = Cardinality(X)
    <3>1. n \in Int
      BY <1>1
    <3>. QED
      BY <2>1, <2>2, <2>3, <2>4, <3>1, MovedSize
  <2>6. Y = P \cup Z
    BY <1>9, <2>2 DEF Z
  <2>7. P \cap Z = {}
    <3>1. \A z \in Z : z - n \in X /\ z - n \in 1 .. Len(t) /\ z \in Int
      BY <1>1, <1>9, <2>2 DEF Z
    <3>2. \A p \in P : p \in 1 .. n
      BY <1>1
    <3>. QED
      BY <1>1, <3>1, <3>2
  <2>8. Cardinality(P \cup Z) = Cardinality(P) + Cardinality(Z) - Cardinality(P \cap Z)
    BY <1>2, <2>5, FS_Union
  <2>9. Cardinality({}) = 0 /\ Cardinality(X) \in Nat
    BY <2>1, FS_EmptySet, FS_CardinalityType
  <2>10. Cardinality(P \cap Z) = 0
    BY <2>7, <2>9
  <2>11. Cardinality(Y) = Cardinality(P \cup Z)
    BY <2>6
  <2>. QED
    BY <1>8, <2>5, <2>8, <2>9, <2>10, <2>11
<1>10. \A r \in R : r \in P \/ r - n \in Q
  BY <1>4, <1>5, <1>6
<1>11. Cardinality(R) = Cardinality(P) + Cardinality(Q)
  BY <1>1, <1>4, <1>5, <1>9, <1>10
<1>12. ASSUME NEW q \in Q
       PROVE  n + q \in R /\ Rank(R, n + q) = Cardinality(P) + Rank(Q, q)
  <2>. DEFINE X == {x \in Q : x <= q}
              Y == {y \in R : y <= n + q}
  <2>1. q \in 1 .. Len(t) /\ n + q \in R
    BY <1>1, <1>5
  <2>2. \A y \in Y : y \in P \/ y - n \in X
    <3>. TAKE y \in Y
    <3>1. y \in R /\ y <= n + q /\ y \in Int
      BY <1>3
    <3>2. y \in P \/ y - n \in Q
      BY <1>10, <3>1
    <3>3. y - n <= q
      BY <1>1, <2>1, <3>1
    <3>. QED
      BY <3>2, <3>3
  <2>3. \A p \in P : p \in Y
    <3>. TAKE p \in P
    <3>1. p \in 1 .. n /\ p \in R
      BY <1>1, <1>7
    <3>. QED
      BY <1>1, <2>1, <3>1
  <2>4. \A x \in X : n + x \in Y
    <3>. TAKE x \in X
    <3>1. x \in 1 .. Len(t) /\ x <= q /\ n + x \in R
      BY <1>1, <1>5
    <3>. QED
      BY <1>1, <2>1, <3>1
  <2>5. X \in SUBSET Q /\ Y \in SUBSET R
    OBVIOUS
  <2>6. Rank(R, n + q) = Cardinality(Y) /\ Rank(Q, q) = Cardinality(X)
    BY DEF Rank
  <2>. HIDE DEF X, Y
  <2>. QED
    BY <1>9, <2>1, <2>2, <2>3, <2>4, <2>5, <2>6
<1>. DEFINE left == Select(s, P)
            right == Select(t, Q)
            all == Select(u, R)
            a == Cardinality(P)
            c == Cardinality(Q)
<1>13. \A k \in 1 .. a : all[k] = left[k]
  <2>. TAKE k \in 1 .. a
  <2>1. Nth(P, k) \in P /\ Rank(P, Nth(P, k)) = k
    BY <1>2, NthRank
  <2>2. Nth(R, k) = Nth(P, k)
    <3>1. Nth(P, k) \in R /\ Rank(R, Nth(P, k)) = k
      BY <1>7, <2>1
    <3>. QED
      BY <1>3, <3>1, NthRank
  <2>3. k \in 1 .. Cardinality(R) /\ Nth(P, k) \in 1 .. n
    <3>1. k \in 1 .. Cardinality(R)
      BY <1>8, <1>11
    <3>. QED
      BY <1>1, <2>1, <3>1, Zenon
  <2>. DEFINE p == Nth(P, k)
  <2>. HIDE DEF p
  <2>4. all[k] = u[p]
    <3>1. Nth(R, k) = p /\ k \in 1 .. Cardinality(R)
      BY <2>2, <2>3 DEF p
    <3>. QED
      BY <1>3, <3>1, SelectElements
  <2>5. left[k] = s[p]
    BY <1>2, SelectElements DEF p
  <2>6. p \in 1 .. n
    BY <2>3 DEF p
  <2>. QED
    BY <1>1, <2>4, <2>5, <2>6
<1>14. \A k \in 1 .. c : all[a + k] = right[k]
  <2>. TAKE k \in 1 .. c
  <2>. DEFINE q == Nth(Q, k)
              m == a + k
  <2>1. q \in Q /\ Rank(Q, q) = k
    BY <1>2, NthRank
  <2>2. Nth(R, m) = n + q
    <3>1. n + q \in R /\ Rank(R, n + q) = m
      BY <1>12, <2>1
    <3>2. Nth(R, Rank(R, n + q)) = n + q
      <4>. DEFINE r == n + q
      <4>1. r \in R
        BY <3>1
      <4>. HIDE DEF r
      <4>2. Nth(R, Rank(R, r)) = r
        BY <1>3, <4>1, NthRank
      <4>. QED
        BY <4>2 DEF r
    <3>. QED
      BY <3>1, <3>2
  <2>3. m \in 1 .. Cardinality(R) /\ q \in 1 .. Len(t)
    <3>1. m \in 1 .. Cardinality(R)
      BY <1>8, <1>11
    <3>. QED
      BY <1>1, <2>1, <3>1, Zenon
  <2>. HIDE DEF q, m
  <2>4. all[m] = u[n + q]
    <3>1. all[m] = u[Nth(R, m)]
      BY <1>3, <2>3, SelectElements
    <3>. QED
      BY <2>2, <3>1
  <2>5. right[k] = t[q]
    BY <1>2, SelectElements DEF q
  <2>. QED
    BY <1>1, <2>3, <2>4, <2>5 DEF m
<1>15. /\ left \in Seq(S) /\ right \in Seq(S) /\ all \in Seq(S)
       /\ Len(left) = a /\ Len(right) = c /\ Len(all) = a + c /\ a \in Nat /\ c \in Nat
  <2>1. /\ DOMAIN left = 1 .. a /\ DOMAIN right = 1 .. c
        /\ DOMAIN all = 1 .. Cardinality(R)
    BY DEF Select
  <2>. HIDE DEF left, right, all, a, c
  <2>2. left \in Seq(S) /\ right \in Seq(S) /\ all \in Seq(S) /\ a \in Nat /\ c \in Nat
    BY <1>2, <1>3, <1>8 DEF left, right, all, a, c
  <2>3. Cardinality(R) = a + c
    BY <1>11 DEF a, c
  <2>. QED
    BY <2>1, <2>2, <2>3
<1>. HIDE DEF left, right, all, a, c
<1>16. all = left \o right
  <2>1. /\ left \o right \in Seq(S) /\ Len(left \o right) = a + c
        /\ \A k \in 1 .. a : (left \o right)[k] = left[k]
        /\ \A k \in 1 .. c : (left \o right)[a + k] = right[k]
    <3>1. /\ left \o right \in Seq(S) /\ Len(left \o right) = Len(left) + Len(right)
          /\ \A k \in 1 .. Len(left) : (left \o right)[k] = left[k]
          /\ \A k \in 1 .. Len(right) : (left \o right)[Len(left) + k] = right[k]
      <4>1. left \in Seq(S) /\ right \in Seq(S)
        BY <1>15
      <4>. QED
        BY <4>1
    <3>. QED
      BY <1>15, <3>1, Zenon
  <2>2. ASSUME NEW k \in 1 .. a + c
        PROVE  all[k] = (left \o right)[k]
    <3>1. CASE k \in 1 .. a
      BY <1>13, <2>1, <3>1
    <3>2. CASE k \notin 1 .. a
      <4>1. k - a \in 1 .. c /\ a + (k - a) = k
        BY <1>15, <3>2
      <4>. QED
        BY <1>14, <2>1, <4>1
    <3>. QED
      BY <3>1, <3>2
  <2>. DEFINE joined == left \o right
  <2>3. joined \in Seq(S) /\ Len(joined) = a + c /\ \A k \in 1 .. a + c : all[k] = joined[k]
    BY <2>1, <2>2
  <2>. HIDE DEF joined
  <2>4. all = joined
    BY <1>15, <2>3
  <2>. QED
    BY <2>4 DEF joined
<1>. QED
  BY <1>16 DEF all, left, right

(***************************************************************************)
(* The elements of two joined sequences.                                   *)
(***************************************************************************)
LEMMA JoinedRange ==
    ASSUME NEW S, NEW s \in Seq(S), NEW t \in Seq(S)
    PROVE  \A e : e \in Range(s \o t) <=> e \in Range(s) \/ e \in Range(t)
<1>. DEFINE n == Len(s)
<1>1. /\ n \in Nat /\ Len(t) \in Nat
      /\ DOMAIN s = 1 .. n /\ DOMAIN t = 1 .. Len(t)
      /\ DOMAIN (s \o t) = 1 .. n + Len(t)
      /\ \A k \in 1 .. n : (s \o t)[k] = s[k]
      /\ \A k \in 1 .. Len(t) : (s \o t)[n + k] = t[k]
  OBVIOUS
<1>. DEFINE u == s \o t
<1>. HIDE DEF n, u
<1>2. ASSUME NEW e, e \in Range(u)
      PROVE  e \in Range(s) \/ e \in Range(t)
  <2>1. PICK k \in 1 .. n + Len(t) : e = u[k]
    BY <1>1, <1>2 DEF Range, u
  <2>2. CASE k \in 1 .. n
    BY <1>1, <2>1, <2>2 DEF Range, u
  <2>3. CASE k \notin 1 .. n
    <3>1. PICK j \in 1 .. Len(t) : n + j = k
      <4>1. k - n \in 1 .. Len(t) /\ n + (k - n) = k
        BY <1>1, <2>3
      <4>. QED
        BY <4>1
    <3>2. e = t[j]
      BY <1>1, <2>1, <3>1 DEF u
    <3>. QED
      BY <1>1, <3>2 DEF Range
  <2>. QED
    BY <2>2, <2>3
<1>3. ASSUME NEW e, e \in Range(s)
      PROVE  e \in Range(u)
  <2>1. PICK k \in 1 .. n : e = s[k]
    BY <1>1, <1>3 DEF Range
  <2>2. k \in DOMAIN u /\ u[k] = e
    BY <1>1, <2>1 DEF u
  <2>. QED
    BY <2>2 DEF Range
<1>4. ASSUME NEW e, e \in Range(t)
      PROVE  e \in Range(u)
  <2>1. PICK k \in 1 .. Len(t) : e = t[k]
    BY <1>1, <1>4 DEF Range
  <2>2. n + k \in DOMAIN u /\ u[n + k] = e
    BY <1>1, <2>1 DEF u
  <2>. QED
    BY <2>2 DEF Range
<1>. QED
  BY <1>2, <1>3, <1>4 DEF u

(***************************************************************************)
(* The elements of a concatenation are those of the sequences.             *)
(***************************************************************************)
LEMMA FlattenRange ==
    ASSUME NEW S, NEW ss \in Seq(Seq(S))
    PROVE  \A e : e \in Range(FlattenSeq(ss)) <=> \E i \in DOMAIN ss : e \in Range(ss[i])
<1>. DEFINE n == Len(ss)
<1>0. /\ n \in Nat /\ DOMAIN ss = 1 .. n /\ \A i \in 1 .. n : ss[i] \in Seq(S)
  OBVIOUS
<1>1. CASE n = 0
  <2>1. ss = <<>> /\ DOMAIN ss = {}
    BY <1>0, <1>1, EmptySeq
  <2>2. Range(FlattenSeq(ss)) = {}
    BY <2>1 DEF FlattenSeq, Range
  <2>. QED
    BY <2>1, <2>2
<1>2. CASE n # 0
  <2>1. PICK g : g \in [1 .. n -> Seq(S)] /\ Concatenates(g, ss, n)
    BY ConcatenationExists
  <2>2. FlattenSeq(ss) = g[n]
    <3>1. ss # <<>>
      BY <1>2
    <3>. QED
      BY <2>1, <3>1, FlattenIs
  <2>. DEFINE Good(m) == \A e : e \in Range(g[m]) <=> \E i \in 1 .. m : e \in Range(ss[i])
              T == {m \in 1 .. n : ~ Good(m)}
  <2>3. T = {}
    <3>. SUFFICES ASSUME T # {} PROVE FALSE
      OBVIOUS
    <3>1. T \in SUBSET Nat
      BY <1>0
    <3>2. PICK m \in T : \A j \in T : m <= j
      BY <3>1, LeastNumber
    <3>3. m \in 1 .. n /\ ~ Good(m)
      OBVIOUS
    <3>4. g[m] = IF m = 1 THEN ss[m] ELSE g[m - 1] \o ss[m]
      BY <2>1, <3>3 DEF Concatenates
    <3>5. m # 1
      <4>. SUFFICES ASSUME m = 1 PROVE Good(m)
        BY <3>3
      <4>1. g[m] = ss[m] /\ 1 .. m = {m}
        BY <3>4
      <4>. QED
        BY <4>1
    <3>6. m - 1 \in 1 .. n /\ m \in 1 .. n /\ ~ (m <= m - 1)
      BY <1>0, <3>3, <3>5
    <3>7. Good(m - 1)
      <4>. HIDE DEF Good
      <4>1. m - 1 \notin T
        BY <3>2, <3>6
      <4>. QED
        BY <3>6, <4>1
    <3>8. g[m - 1] \in Seq(S) /\ ss[m] \in Seq(S)
      BY <1>0, <2>1, <3>6
    <3>. DEFINE before == g[m - 1]
                last == ss[m]
                now == g[m]
    <3>9. \A e : e \in Range(now) <=> e \in Range(before) \/ e \in Range(last)
      <4>1. now = before \o last /\ before \in Seq(S) /\ last \in Seq(S)
        BY <3>4, <3>5, <3>8
      <4>. HIDE DEF before, last, now
      <4>. QED
        BY <4>1, JoinedRange
    <3>10. \A i : i \in 1 .. m <=> i \in 1 .. m - 1 \/ i = m
      BY <3>6
    <3>11. Good(m)
      <4>1. \A e : e \in Range(before) <=> \E i \in 1 .. m - 1 : e \in Range(ss[i])
        BY <3>7
      <4>2. \A e : e \in Range(now) <=> \E i \in 1 .. m : e \in Range(ss[i])
        <5>. HIDE DEF now, before
        <5>. QED
          BY <3>9, <3>10, <4>1
      <4>. QED
        BY <4>2
    <3>. QED
      BY <3>3, <3>11
  <2>4. n \in 1 .. n
    BY <1>0, <1>2
  <2>5. Good(n)
    <3>. HIDE DEF Good
    <3>. QED
      BY <2>3, <2>4
  <2>. QED
    BY <1>0, <2>2, <2>5
<1>. QED
  BY <1>1, <1>2

(***************************************************************************)
(* A concatenation starts with the first sequence.                         *)
(***************************************************************************)
LEMMA FlattenFirst ==
    ASSUME NEW S, NEW ss \in Seq(Seq(S)), NEW s \in Seq(S)
    PROVE  FlattenSeq(<<s>> \o ss) = s \o FlattenSeq(ss)
<1>. DEFINE n == Len(ss)
            tt == <<s>> \o ss
<1>0. n = Len(ss) /\ tt = <<s>> \o ss
  OBVIOUS
<1>1. /\ n \in Nat /\ tt \in Seq(Seq(S)) /\ tt # <<>> /\ Len(tt) = n + 1
      /\ \A i \in 1 .. n : ss[i] \in Seq(S)
      /\ tt[1] = s
      /\ \A i \in 1 .. n : tt[i + 1] = ss[i]
  <2>1. <<s>> \in Seq(Seq(S)) /\ Len(<<s>>) = 1 /\ <<s>>[1] = s
    OBVIOUS
  <2>. QED
    BY <2>1
<1>. HIDE DEF n, tt
<1>2. PICK g : g \in [1 .. n -> Seq(S)] /\ Concatenates(g, ss, n)
  BY <1>0, ConcatenationExists
<1>. DEFINE h == [i \in 1 .. n + 1 |-> IF i = 1 THEN s ELSE s \o g[i - 1]]
<1>3. ASSUME NEW i \in 1 .. n + 1
      PROVE  h[i] = IF i = 1 THEN tt[i] ELSE h[i - 1] \o tt[i]
  <2>1. CASE i = 1
    BY <1>1, <2>1
  <2>2. CASE i = 2
    <3>1. 1 \in 1 .. n /\ 2 - 1 = 1 /\ 1 + 1 = 2
      BY <1>1, <2>2
    <3>2. tt[2] = ss[1] /\ g[1] = ss[1]
      BY <1>1, <1>2, <3>1 DEF Concatenates
    <3>3. h[2] = s \o g[1] /\ h[1] = s
      BY <1>1, <2>2, <3>1
    <3>4. h[2] = h[1] \o tt[2]
      BY <3>2, <3>3
    <3>5. i - 1 = 1 /\ i # 1
      BY <2>2
    <3>. HIDE DEF h
    <3>. QED
      BY <2>2, <3>4, <3>5
  <2>3. CASE i # 1 /\ i # 2
    <3>. DEFINE j == i - 1
    <3>1. j \in 1 .. n /\ j # 1 /\ j - 1 \in 1 .. n /\ j + 1 = i /\ j \in 1 .. n + 1 /\ j - 1 = i - 2
      BY <1>1, <2>3
    <3>2. tt[i] = ss[j]
      BY <1>1, <3>1
    <3>3. g[j] = g[j - 1] \o ss[j]
      <4>. HIDE DEF j
      <4>. QED
        BY <1>2, <3>1 DEF Concatenates
    <3>4. h[i] = s \o g[j] /\ h[j] = s \o g[j - 1]
      BY <2>3, <3>1
    <3>5. g[j - 1] \in Seq(S) /\ ss[j] \in Seq(S)
      BY <1>1, <1>2, <3>1
    <3>. DEFINE a == g[j - 1]
                b == ss[j]
    <3>6. s \o (a \o b) = (s \o a) \o b
      <4>1. a \in Seq(S) /\ b \in Seq(S)
        BY <3>5
      <4>. HIDE DEF a, b
      <4>. QED
        BY <4>1, ConcatAssociative
    <3>. QED
      BY <2>3, <3>2, <3>3, <3>4, <3>6
  <2>. QED
    BY <2>1, <2>2, <2>3
<1>4. Concatenates(h, tt, n + 1)
  BY <1>3 DEF Concatenates
<1>5. h[n + 1] = IF n = 0 THEN s ELSE s \o g[n]
  <2>1. PICK m \in 1 .. n + 1 : m = n + 1
    BY <1>1
  <2>2. (m = 1 <=> n = 0) /\ m - 1 = n
    BY <1>1, <2>1
  <2>3. h[m] = IF n = 0 THEN s ELSE s \o g[n]
    BY <2>2
  <2>. HIDE DEF h
  <2>. QED
    BY <2>1, <2>3
<1>. HIDE DEF h
<1>6. FlattenSeq(tt) = h[n + 1]
  BY <1>1, <1>4, FlattenIs
<1>7. CASE n = 0
  <2>1. ss = <<>>
    BY <1>0, <1>7, EmptySeq
  <2>2. FlattenSeq(ss) = <<>>
    BY <2>1 DEF FlattenSeq
  <2>. QED
    BY <1>0, <1>5, <1>6, <1>7, <2>2
<1>8. CASE n # 0
  <2>1. ss # <<>>
    BY <1>0, <1>8
  <2>2. FlattenSeq(ss) = g[n]
    BY <1>0, <1>2, <2>1, FlattenIs
  <2>. QED
    BY <1>0, <1>5, <1>6, <1>8, <2>2
<1>. QED
  BY <1>7, <1>8

(***************************************************************************)
(* The first position comes first.                                         *)
(***************************************************************************)
LEMMA SelectFirst ==
    ASSUME NEW S, NEW s \in Seq(S), NEW P \in SUBSET (DOMAIN s),
           NEW m \in P, \A p \in P : m <= p
    PROVE  Select(s, P) = <<s[m]>> \o Select(s, P \ {m})
<1>. DEFINE Q == P \ {m}
<1>1. P \in SUBSET Int /\ IsFiniteSet(P) /\ Select(s, P) \in Seq(S)
  BY SelectHas
<1>2. Q \in SUBSET Int /\ IsFiniteSet(Q) /\ Select(s, Q) \in Seq(S)
  <2>1. Q \in SUBSET (DOMAIN s)
    OBVIOUS
  <2>. HIDE DEF Q
  <2>. QED
    BY <2>1, SelectHas
<1>3. Cardinality(Q) = Cardinality(P) - 1 /\ Cardinality(P) \in Nat /\ Cardinality(Q) \in Nat
  <2>1. Cardinality(Q) = Cardinality(P) - 1
    BY <1>1, FS_RemoveElement
  <2>. QED
    BY <1>1, <1>2, <2>1, FS_CardinalityType
<1>4. Rank(P, m) = 1
  <2>1. {q \in P : q <= m} = {m}
    BY <1>1
  <2>. QED
    BY <2>1, FS_Singleton DEF Rank
<1>5. ASSUME NEW p \in Q
      PROVE  p \in P /\ Rank(P, p) = Rank(Q, p) + 1
  <2>. DEFINE X == {q \in Q : q <= p}
              Y == {q \in P : q <= p}
  <2>1. X = Y \ {m} /\ m \in Y
    BY <1>1
  <2>2. IsFiniteSet(Y) /\ IsFiniteSet(X)
    <3>1. Y \in SUBSET P /\ X \in SUBSET Q
      OBVIOUS
    <3>. QED
      BY <1>1, <1>2, <3>1, FS_Subset
  <2>3. Rank(P, p) = Cardinality(Y) /\ Rank(Q, p) = Cardinality(X)
    BY DEF Rank
  <2>. HIDE DEF X, Y
  <2>4. Cardinality(X) = Cardinality(Y) - 1 /\ Cardinality(Y) \in Nat
    BY <2>1, <2>2, FS_RemoveElement, FS_CardinalityType
  <2>. QED
    BY <2>3, <2>4
<1>. HIDE DEF Q
<1>6. Nth(P, 1) = m
  BY <1>1, <1>4, NthRank
<1>7. ASSUME NEW k \in 1 .. Cardinality(Q)
      PROVE  Nth(P, k + 1) = Nth(Q, k)
  <2>1. Nth(Q, k) \in Q /\ Rank(Q, Nth(Q, k)) = k
    BY <1>2, NthRank
  <2>2. Nth(Q, k) \in P /\ Rank(P, Nth(Q, k)) = k + 1
    BY <1>5, <2>1
  <2>. QED
    BY <1>1, <2>2, NthRank
<1>. DEFINE all == Select(s, P)
            rest == Select(s, Q)
            c == Cardinality(Q)
<1>8. all[1] = s[m] /\ \A k \in 1 .. c : all[k + 1] = rest[k]
  <2>1. all[1] = s[Nth(P, 1)]
    <3>1. 1 \in 1 .. Cardinality(P)
      BY <1>1, <1>4, RankOrder
    <3>. QED
      BY <1>1, <3>1, SelectElements
  <2>2. ASSUME NEW k \in 1 .. c
        PROVE  all[k + 1] = rest[k]
    <3>. DEFINE j == k + 1
    <3>1. j \in 1 .. Cardinality(P) /\ Nth(P, j) = Nth(Q, k)
      BY <1>3, <1>7
    <3>. HIDE DEF j
    <3>2. all[j] = s[Nth(P, j)] /\ rest[k] = s[Nth(Q, k)]
      BY <1>1, <1>2, <3>1, SelectElements
    <3>. QED
      BY <3>1, <3>2 DEF j
  <2>. QED
    BY <1>6, <2>1, <2>2
<1>9. /\ all \in Seq(S) /\ rest \in Seq(S) /\ c \in Nat
      /\ Len(all) = c + 1 /\ Len(rest) = c /\ s[m] \in S
  <2>1. DOMAIN all = 1 .. Cardinality(P) /\ DOMAIN rest = 1 .. c
    BY DEF Select
  <2>2. all \in Seq(S) /\ rest \in Seq(S) /\ c \in Nat /\ Cardinality(P) = c + 1
    BY <1>1, <1>2, <1>3
  <2>. HIDE DEF all, rest, c
  <2>. QED
    BY <2>1, <2>2
<1>. DEFINE e == s[m]
<1>. HIDE DEF all, rest, c, e
<1>10. all = <<e>> \o rest
  <2>1. e \in S /\ all[1] = e
    BY <1>8, <1>9 DEF e
  <2>2. /\ <<e>> \o rest \in Seq(S) /\ Len(<<e>> \o rest) = c + 1
        /\ (<<e>> \o rest)[1] = e
        /\ \A k \in 1 .. c : (<<e>> \o rest)[k + 1] = rest[k]
    <3>1. <<e>> \in Seq(S) /\ Len(<<e>>) = 1 /\ <<e>>[1] = e
      BY <2>1
    <3>. QED
      BY <1>9, <3>1
  <2>3. ASSUME NEW k \in 1 .. c + 1
        PROVE  all[k] = (<<e>> \o rest)[k]
    <3>1. CASE k = 1
      BY <2>1, <2>2, <3>1
    <3>2. CASE k # 1
      <4>1. k - 1 \in 1 .. c /\ k - 1 + 1 = k
        BY <1>9, <3>2
      <4>. QED
        BY <1>8, <2>2, <4>1
    <3>. QED
      BY <3>1, <3>2
  <2>. DEFINE joined == <<e>> \o rest
  <2>4. joined \in Seq(S) /\ Len(joined) = c + 1 /\ \A k \in 1 .. c + 1 : all[k] = joined[k]
    BY <2>2, <2>3
  <2>. HIDE DEF joined
  <2>5. all = joined
    BY <1>9, <2>4
  <2>. QED
    BY <2>5 DEF joined
<1>. QED
  BY <1>10 DEF all, rest, e, Q

(***************************************************************************)
(* An element in front moves the others by one.                            *)
(***************************************************************************)
LEMMA Prepended ==
    ASSUME NEW S, NEW s \in Seq(S), NEW e \in S
    PROVE  LET u == <<e>> \o s
           IN  /\ u \in Seq(S) /\ Len(u) = Len(s) + 1 /\ DOMAIN u = 1 .. Len(s) + 1
               /\ u[1] = e
               /\ \A k \in 1 .. Len(s) : u[k + 1] = s[k]
<1>1. <<e>> \in Seq(S) /\ Len(<<e>>) = 1 /\ <<e>>[1] = e
  OBVIOUS
<1>. QED
  BY <1>1

=============================================================================
