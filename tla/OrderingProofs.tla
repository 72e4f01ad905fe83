--------------------------- MODULE OrderingProofs ---------------------------
(***************************************************************************)
(* Lemmas about sets of numbers, sorting, selections, FlattenSeq and sums, *)
(* which the proofs about the synchronization, the EPUB and the review     *)
(* session share.                                                          *)
(***************************************************************************)
EXTENDS Ordering, TLAPS, FiniteSetTheorems, SequenceTheorems, WellFoundedInduction

-----------------------------------------------------------------------------
(* Sets of numbers, sorting, sequences one after the other.                *)

(* Every set of numbers has a least member.                                *)
LEMMA LeastNumber ==
  ASSUME NEW S \in SUBSET Nat, S # {}
  PROVE  \E k \in S : \A j \in S : k <= j
<1> DEFINE R == {ss \in Nat \X Nat : ss[1] < ss[2]}
<1>1. IsWellFoundedOn(R, Nat)
  BY NatLessThanWellFounded, Zenon DEF OpToRel
<1>2. PICK x \in S : \A y \in S : ~(<<y, x>> \in R)
  <2> HIDE DEF R
  <2>. QED
    BY <1>1, WFMin
<1>3. ASSUME NEW y \in S, y < x PROVE FALSE
  <2>1. <<y, x>> \in Nat \X Nat /\ <<y, x>>[1] < <<y, x>>[2]
    BY <1>3
  <2>. QED
    BY <1>2, <2>1
<1>. QED
  BY <1>3

(* Induction, on a set of numbers instead of a predicate.                  *)
LEMMA Induction ==
  ASSUME NEW n \in Nat, NEW S, 0 \in S, \A i \in 1..n : i - 1 \in S => i \in S
  PROVE  0..n \subseteq S
<1> DEFINE Bad == {i \in 0..n : i \notin S}
<1>1. CASE Bad = {}
  BY <1>1
<1>2. CASE Bad # {}
  <2>1. Bad \in SUBSET Nat
    OBVIOUS
  <2>2. PICK k \in Bad : \A j \in Bad : k <= j
    <3> HIDE DEF Bad
    <3>. QED
      BY <1>2, <2>1, LeastNumber
  <2>3. k \in 1..n /\ k - 1 \in 0..n /\ ~(k <= k - 1)
    OBVIOUS
  <2>4. k - 1 \in S
    BY <2>2, <2>3
  <2>. QED
    BY <2>3, <2>4
<1>. QED
  BY <1>1, <1>2

(* Least and greatest members.                                             *)
LEMMA MinFacts ==
  ASSUME NEW S \in SUBSET Nat, S # {}
  PROVE  Min(S) \in S /\ \A x \in S : Min(S) <= x
  BY LeastNumber DEF Min

(* The greatest member of a bounded set is one.                            *)
LEMMA MaxFacts ==
  ASSUME NEW n \in Nat, NEW S \in SUBSET (0..n), S # {}
  PROVE  Max(S) \in S /\ \A x \in S : x <= Max(S)
<1> DEFINE D == {n - x : x \in S}
<1>1. D \in SUBSET Nat /\ D # {}
  <2>1. \A x \in S : n - x \in Nat
    OBVIOUS
  <2>. QED
    BY <2>1
<1>2. PICK d \in D : \A e \in D : d <= e
  <2> HIDE DEF D
  <2>. QED
    BY <1>1, LeastNumber
<1>3. PICK m \in S : d = n - m
  OBVIOUS
<1>4. \A x \in S : m >= x
  <2> TAKE x \in S
  <2>1. n - x \in D /\ n - m <= n - x
    BY <1>2, <1>3
  <2>2. x \in 0..n /\ m \in 0..n
    OBVIOUS
  <2>. QED
    BY <2>1, <2>2
<1>5. Max(S) \in S /\ \A x \in S : Max(S) >= x
  BY <1>3, <1>4 DEF Max
<1>. QED
  BY <1>5

LEMMA MaxOfTwo ==
  ASSUME NEW a \in Int, NEW b \in Int
  PROVE  Max({a, b}) \in Int /\ Max({a, b}) >= a /\ Max({a, b}) >= b
<1>1. \E x \in {a, b} : \A y \in {a, b} : x >= y
  OBVIOUS
<1>. QED
  BY <1>1 DEF Max

LEMMA MinOfTwo ==
  ASSUME NEW a \in Int, NEW b \in Int
  PROVE  Min({a, b}) \in Int
<1>1. \E x \in {a, b} : \A y \in {a, b} : x <= y
  OBVIOUS
<1>. QED
  BY <1>1 DEF Min

(* Sorting loses nothing and sorts.                                        *)
Sorts(s, S, at) ==
  /\ Cardinality(S) \in Nat /\ s \in [1..Cardinality(S) -> S]
  /\ \A i, j \in 1..Cardinality(S) : i < j => at[s[i]] < at[s[j]]
  /\ \A x \in S : \E i \in 1..Cardinality(S) : s[i] = x

LEMMA InOrderSorts ==
  ASSUME NEW S, IsFiniteSet(S), NEW at, \A x \in S : at[x] \in Int,
         \A x, y \in S : at[x] = at[y] => x = y
  PROVE  Sorts(InOrder(S, at), S, at)
<1> DEFINE n == Cardinality(S)
           Below(x) == {y \in S : at[y] < at[x]}
           rank == [x \in S |-> Cardinality(Below(x))]
           s == InOrder(S, at)
<1>1. n \in Nat
  BY FS_CardinalityType
<1>2. \A x \in S : IsFiniteSet(Below(x)) /\ Cardinality(Below(x)) \in Nat /\ Cardinality(Below(x)) <= n - 1
  <2> TAKE x \in S
  <2>1. IsFiniteSet(S \ {x}) /\ Cardinality(S \ {x}) = n - 1
    BY FS_RemoveElement
  <2>2. Below(x) \in SUBSET (S \ {x})
    OBVIOUS
  <2> HIDE DEF Below, n
  <2>. QED
    BY <2>1, <2>2, FS_Subset, FS_CardinalityType
<1>3. \A x, y \in S : at[x] < at[y] => rank[x] < rank[y]
  <2> SUFFICES ASSUME NEW x \in S, NEW y \in S, at[x] < at[y] PROVE rank[x] < rank[y]
    OBVIOUS
  <2>1. Below(x) \in SUBSET Below(y) /\ Below(x) # Below(y)
    OBVIOUS
  <2>2. rank[x] <= rank[y] /\ rank[x] # rank[y]
    <3>1. IsFiniteSet(Below(y))
      BY <1>2
    <3>2. Cardinality(Below(x)) <= Cardinality(Below(y)) /\ Cardinality(Below(x)) # Cardinality(Below(y))
      <4> HIDE DEF Below
      <4>. QED
        BY <2>1, <3>1, FS_Subset
    <3>. QED
      BY <3>2
  <2>3. rank[x] \in Nat /\ rank[y] \in Nat
    <3>1. rank[x] = Cardinality(Below(x)) /\ rank[y] = Cardinality(Below(y))
      OBVIOUS
    <3> HIDE DEF Below, rank
    <3>. QED
      BY <1>2, <3>1
  <2> HIDE DEF rank
  <2>. QED
    BY <2>2, <2>3
<1>4. \A x \in S : rank[x] \in 0..(n - 1)
  <2> TAKE x \in S
  <2>1. rank[x] = Cardinality(Below(x))
    OBVIOUS
  <2> HIDE DEF Below, rank, n
  <2>. QED
    BY <1>1, <1>2, <2>1
<1>5. rank \in [S -> 0..(n - 1)]
  <2>1. rank = [x \in S |-> rank[x]]
    OBVIOUS
  <2> HIDE DEF rank
  <2>. QED
    BY <1>4, <2>1
<1> HIDE DEF rank
<1>6. \A x, y \in S : rank[x] = rank[y] => x = y
  <2> SUFFICES ASSUME NEW x \in S, NEW y \in S, rank[x] = rank[y], x # y PROVE FALSE
    OBVIOUS
  <2>1. at[x] < at[y] \/ at[y] < at[x]
    OBVIOUS
  <2>2. rank[x] \in Int /\ rank[y] \in Int
    BY <1>4
  <2>. QED
    BY <1>3, <2>1, <2>2
<1>7. \A r \in 0..(n - 1) : \E x \in S : rank[x] = r
  <2>1. rank \in Injection(S, 0..(n - 1))
    BY <1>5, <1>6 DEF Injection, IsInjective
  <2>2. IsFiniteSet(0..(n - 1)) /\ Cardinality(0..(n - 1)) = n
    BY <1>1, FS_Interval
  <2>3. rank \in Surjection(S, 0..(n - 1))
    <3> HIDE DEF n
    <3>. QED
      BY <2>1, <2>2, FS_Injection DEF n
  <2>. QED
    BY <2>3 DEF Surjection
<1>8. DOMAIN s = 1..n /\ \A i \in 1..n : s[i] \in S /\ rank[s[i]] = i - 1
  <2>1. DOMAIN s = 1..n
    BY DEF InOrder
  <2>2. ASSUME NEW i \in 1..n PROVE s[i] \in S /\ rank[s[i]] = i - 1
    <3>1. s[i] = CHOOSE x \in S : Cardinality(Below(x)) = i - 1
      BY DEF InOrder
    <3>2. PICK x \in S : rank[x] = i - 1
      <4>1. i - 1 \in 0..(n - 1)
        BY <1>1
      <4> HIDE DEF s, n, Below
      <4>. QED
        BY <1>7, <4>1
    <3>3. \A y \in S : rank[y] = Cardinality(Below(y))
      BY DEF rank
    <3> HIDE DEF s, n, Below
    <3>4. s[i] \in S /\ Cardinality(Below(s[i])) = i - 1
      BY <3>1, <3>2, <3>3
    <3>. QED
      BY <3>3, <3>4
  <2>. QED
    BY <2>1, <2>2
<1>9. s \in [1..n -> S]
  <2> DEFINE Pick(i) == CHOOSE x \in S : Cardinality({y \in S : at[y] < at[x]}) = i - 1
  <2>1. s = [i \in 1..n |-> Pick(i)]
    BY DEF InOrder
  <2> HIDE DEF s, n, Pick
  <2>2. s = [i \in 1..n |-> s[i]]
    BY <2>1
  <2>. QED
    BY <1>8, <2>2
<1> HIDE DEF s
<1>10. \A i, j \in 1..n : i < j => at[s[i]] < at[s[j]]
  <2> SUFFICES ASSUME NEW i \in 1..n, NEW j \in 1..n, i < j, ~(at[s[i]] < at[s[j]]) PROVE FALSE
    OBVIOUS
  <2>1. s[i] \in S /\ s[j] \in S /\ rank[s[i]] = i - 1 /\ rank[s[j]] = j - 1
    BY <1>8
  <2>2. at[s[j]] < at[s[i]] \/ s[i] = s[j]
    BY <2>1
  <2>3. i \in Int /\ j \in Int
    BY <1>1
  <2>. QED
    BY <1>3, <2>1, <2>2, <2>3
<1>11. \A x \in S : \E i \in 1..n : s[i] = x
  <2> TAKE x \in S
  <2>1. rank[x] + 1 \in 1..n /\ (rank[x] + 1) - 1 = rank[x]
    BY <1>1, <1>4
  <2>2. rank[s[rank[x] + 1]] = rank[x] /\ s[rank[x] + 1] \in S
    BY <1>8, <2>1
  <2>. QED
    BY <1>6, <2>1, <2>2
<1>. QED
  <2>1. Sorts(s, S, at)
    BY <1>1, <1>9, <1>10, <1>11 DEF Sorts
  <2>. QED
    BY <2>1 DEF s

(* The sequence f is that of the first n of seqs, one after the other: its *)
(* positions are those of the sequences in their order, each of them once. *)
Places(row, col, f, seqs, n) ==
  /\ \A p \in 1..Len(f) : /\ row[p] \in 1..n /\ col[p] \in 1..Len(seqs[row[p]])
                          /\ f[p] = seqs[row[p]][col[p]]
  /\ \A p, q \in 1..Len(f) : p < q => row[p] < row[q] \/ (row[p] = row[q] /\ col[p] < col[q])
  /\ \A i \in 1..n : \A j \in 1..Len(seqs[i]) : \E p \in 1..Len(f) : row[p] = i /\ col[p] = j

Chains(f, seqs, n) == \E row, col \in [1..Len(f) -> Nat] : Places(row, col, f, seqs, n)

(* One sequence alone.                                                     *)
LEMMA ChainOne ==
  ASSUME NEW X, NEW seqs \in Seq(Seq(X)), Len(seqs) > 0
  PROVE  Chains(seqs[1], seqs, 1)
<1> DEFINE s == seqs[1]
           row == [p \in 1..Len(s) |-> 1]
           col == [p \in 1..Len(s) |-> p]
<1>1. s \in Seq(X) /\ Len(s) \in Nat
  OBVIOUS
<1>2. row \in [1..Len(s) -> Nat] /\ col \in [1..Len(s) -> Nat]
  BY <1>1
<1>3. \A p \in 1..Len(s) : row[p] = 1 /\ col[p] = p
  OBVIOUS
<1> HIDE DEF row, col, s
<1>4. Places(row, col, s, seqs, 1)
  BY <1>1, <1>3 DEF Places, s
<1>5. Chains(s, seqs, 1)
  BY <1>2, <1>4 DEF Chains
<1>. QED
  BY <1>5 DEF s

(* One more sequence at the end.                                           *)
LEMMA ChainMore ==
  ASSUME NEW X, NEW seqs \in Seq(Seq(X)), NEW n \in 2..Len(seqs), NEW f \in Seq(X), Chains(f,
         seqs, n - 1)
  PROVE  Chains(f \o seqs[n], seqs, n)
<1> DEFINE s == seqs[n]
           g == f \o s
<1>1. s \in Seq(X) /\ Len(s) \in Nat /\ Len(f) \in Nat /\ g \in Seq(X) /\ Len(g) = Len(f) + Len(s)
      /\ n \in Int
  OBVIOUS
<1>2. /\ \A p \in 1..Len(f) : g[p] = f[p]
      /\ \A p \in 1..Len(g) : p > Len(f) => g[p] = s[p - Len(f)]
  OBVIOUS
<1>3. PICK r \in [1..Len(f) -> Nat], c \in [1..Len(f) -> Nat] : Places(r, c, f, seqs, n - 1)
  BY DEF Chains
<1> DEFINE row == [p \in 1..Len(g) |-> IF p <= Len(f) THEN r[p] ELSE n]
           col == [p \in 1..Len(g) |-> IF p <= Len(f) THEN c[p] ELSE p - Len(f)]
<1>4. /\ \A p \in 1..Len(f) : row[p] = r[p] /\ col[p] = c[p]
      /\ \A p \in 1..Len(g) : p > Len(f) => row[p] = n /\ col[p] = p - Len(f)
  BY <1>1
<1>5. row \in [1..Len(g) -> Nat] /\ col \in [1..Len(g) -> Nat]
  BY <1>1, <1>3
<1> HIDE DEF row, col, g
<1>6. ASSUME NEW p \in 1..Len(g)
      PROVE  row[p] \in 1..n /\ col[p] \in 1..Len(seqs[row[p]]) /\ g[p] = seqs[row[p]][col[p]]
  <2>1. CASE p <= Len(f)
    <3>1. p \in 1..Len(f)
      BY <1>1, <2>1
    <3>2. r[p] \in 1..(n - 1) /\ c[p] \in 1..Len(seqs[r[p]]) /\ f[p] = seqs[r[p]][c[p]]
      BY <1>3, <3>1 DEF Places
    <3>3. row[p] = r[p] /\ col[p] = c[p] /\ g[p] = f[p]
      BY <1>2, <1>4, <3>1
    <3>4. r[p] \in 1..n
      BY <1>1, <3>2
    <3>. QED
      BY <3>2, <3>3, <3>4, Zenon
  <2>2. CASE p > Len(f)
    <3>1. p - Len(f) \in 1..Len(s) /\ n \in 1..n
      BY <1>1, <2>2
    <3>2. row[p] = n /\ col[p] = p - Len(f) /\ g[p] = s[p - Len(f)]
      BY <1>2, <1>4, <2>2
    <3>. QED
      BY <3>1, <3>2, Zenon
  <2>. QED
    BY <1>1, <2>1, <2>2
<1>7. ASSUME NEW p \in 1..Len(g), NEW q \in 1..Len(g), p < q
      PROVE  row[p] < row[q] \/ (row[p] = row[q] /\ col[p] < col[q])
  <2>1. CASE q <= Len(f)
    <3>1. p \in 1..Len(f) /\ q \in 1..Len(f)
      BY <1>1, <1>7, <2>1
    <3>. QED
      BY <1>3, <1>4, <1>7, <3>1 DEF Places
  <2>2. CASE p <= Len(f) /\ q > Len(f)
    <3>1. p \in 1..Len(f)
      BY <1>1, <2>2
    <3>2. row[p] \in 1..(n - 1) /\ row[q] = n
      BY <1>3, <1>4, <2>2, <3>1 DEF Places
    <3>. QED
      BY <1>1, <3>2
  <2>3. CASE p > Len(f)
    <3>1. q > Len(f) /\ p \in Int /\ q \in Int
      BY <1>1, <1>7, <2>3
    <3>2. row[p] = n /\ row[q] = n /\ col[p] = p - Len(f) /\ col[q] = q - Len(f)
      BY <1>4, <2>3, <3>1
    <3>. QED
      BY <1>1, <1>7, <3>1, <3>2
  <2>. QED
    BY <1>1, <2>1, <2>2, <2>3
<1>8. ASSUME NEW i \in 1..n, NEW j \in 1..Len(seqs[i])
      PROVE  \E p \in 1..Len(g) : row[p] = i /\ col[p] = j
  <2>1. CASE i = n
    <3>1. Len(f) + j \in 1..Len(g) /\ Len(f) + j > Len(f) /\ (Len(f) + j) - Len(f) = j
      BY <1>1, <2>1
    <3>. QED
      BY <1>4, <2>1, <3>1
  <2>2. CASE i # n
    <3>1. i \in 1..(n - 1)
      BY <1>1, <2>2
    <3>2. PICK p \in 1..Len(f) : r[p] = i /\ c[p] = j
      BY <1>3, <3>1 DEF Places
    <3>3. p \in 1..Len(g)
      BY <1>1
    <3>. QED
      BY <1>4, <3>2, <3>3
  <2>. QED
    BY <2>1, <2>2
<1>. QED
  <2>1. Places(row, col, g, seqs, n)
    BY <1>6, <1>7, <1>8 DEF Places
  <2>2. Chains(g, seqs, n)
    BY <1>5, <2>1 DEF Chains
  <2>. QED
    BY <2>2 DEF g

Joined(s, t) == s \o t

(* FlattenSeq is the sequences one after the other.                        *)
LEMMA FlattenFacts ==
  ASSUME NEW X, NEW seqs \in Seq(Seq(X))
  PROVE  FlattenSeq(seqs) \in Seq(X) /\ Chains(FlattenSeq(seqs), seqs, Len(seqs))
<1>1. CASE Len(seqs) = 0
  <2>1. FlattenSeq(seqs) = << >> /\ seqs = << >>
    BY <1>1 DEF FlattenSeq
  <2>2. Chains(<< >>, << >>, 0)
    <3> DEFINE none == [p \in 1..Len(<< >>) |-> 0]
    <3>1. none \in [1..Len(<< >>) -> Nat] /\ Len(<< >>) = 0
      OBVIOUS
    <3>2. Places(none, none, << >>, << >>, 0)
      BY <3>1 DEF Places
    <3> HIDE DEF none
    <3>. QED
      BY <3>1, <3>2 DEF Chains
  <2>. QED
    BY <1>1, <2>1, <2>2
<1>2. CASE Len(seqs) # 0
  <2> DEFINE IsFlat(f, n) == f = [i \in 1..n |-> IF i = 1 THEN seqs[i] ELSE Joined(f[i - 1], seqs[i])]
             S == {n \in Nat : n = 0 \/ \E f : IsFlat(f, n)}
             N == Len(seqs)
  <2>1. N \in Nat /\ N # 0
    BY <1>2
  <2>2. 0 \in S
    OBVIOUS
  <2>3. ASSUME NEW n \in 1..N, n - 1 \in S PROVE n \in S
    <3>1. CASE n = 1
      <4>1. IsFlat([i \in 1..1 |-> seqs[1]], 1)
        OBVIOUS
      <4>2. 1 \in Nat /\ \E h : IsFlat(h, 1)
        <5> HIDE DEF IsFlat
        <5>. QED
          BY <4>1
      <4>. QED
        BY <3>1, <4>2
    <3>2. CASE n # 1
      <4>1. PICK f : IsFlat(f, n - 1)
        BY <2>1, <2>3, <3>2
      <4> DEFINE g == [i \in 1..n |-> IF i = 1 THEN seqs[i] ELSE Joined(f[i - 1], seqs[i])]
      <4>2. \A i \in 1..(n - 1) : g[i] = f[i]
        BY <4>1
      <4>3. \A i \in 1..n : i # 1 => Joined(f[i - 1], seqs[i]) = Joined(g[i - 1], seqs[i])
        <5>1. \A i \in 1..n : i # 1 => i - 1 \in 1..(n - 1)
          BY <2>1
        <5> HIDE DEF g
        <5>. QED
          BY <4>2, <5>1
      <4>4. IsFlat(g, n)
        BY <4>3
      <4>5. n \in Nat /\ \E h : IsFlat(h, n)
        <5>1. n \in Nat
          BY <2>1
        <5> HIDE DEF IsFlat
        <5>. QED
          BY <4>4, <5>1
      <4>. QED
        BY <4>5
    <3>. QED
      BY <3>1, <3>2
  <2>4. N \in S
    <3> HIDE DEF S, N
    <3>1. 0..N \subseteq S
      BY <2>1, <2>2, <2>3, Induction
    <3>. QED
      BY <2>1, <3>1
  <2>5. \E f : IsFlat(f, N)
    BY <2>1, <2>4
  <2> DEFINE F == CHOOSE f : IsFlat(f, N)
  <2>6. IsFlat(F, N)
    <3> HIDE DEF IsFlat, N
    <3>. QED
      BY <2>5
  <2>7. FlattenSeq(seqs) = F[N]
    BY <1>2 DEF FlattenSeq, Joined
  <2> HIDE DEF F
  <2>8. F[1] = seqs[1] /\ \A i \in 2..N : F[i] = Joined(F[i - 1], seqs[i])
    <3> DEFINE Longer(f, i) == IF i = 1 THEN seqs[i] ELSE Joined(f[i - 1], seqs[i])
    <3>1. F = [i \in 1..N |-> Longer(F, i)]
      BY <2>6
    <3>2. \A i \in 1..N : F[i] = Longer(F, i)
      <4> HIDE DEF Longer, N
      <4>. QED
        BY <3>1
    <3>3. Longer(F, 1) = seqs[1] /\ \A i \in 2..N : Longer(F, i) = Joined(F[i - 1], seqs[i])
      OBVIOUS
    <3>4. 1 \in 1..N /\ \A i \in 2..N : i \in 1..N
      BY <2>1
    <3> HIDE DEF Longer, N
    <3>. QED
      BY <3>2, <3>3, <3>4
  <2> DEFINE T == {n \in 0..N : n = 0 \/ (F[n] \in Seq(X) /\ Chains(F[n], seqs, n))}
  <2>9. 0 \in T
    BY <2>1
  <2>10. ASSUME NEW n \in 1..N, n - 1 \in T PROVE n \in T
    <3>1. CASE n = 1
      <4>1. F[1] \in Seq(X) /\ Chains(F[1], seqs, 1)
        BY <2>1, <2>8, ChainOne
      <4>. QED
        BY <2>1, <3>1, <4>1
    <3>2. CASE n # 1
      <4>1. n \in 2..N /\ F[n - 1] \in Seq(X) /\ Chains(F[n - 1], seqs, n - 1)
        BY <2>1, <2>10, <3>2
      <4>2. F[n] = F[n - 1] \o seqs[n] /\ seqs[n] \in Seq(X)
        <5>1. F[n] = Joined(F[n - 1], seqs[n])
          BY <2>8, <4>1
        <5>2. n \in 1..Len(seqs)
          OBVIOUS
        <5>. QED
          BY <5>1, <5>2 DEF Joined
      <4>3. F[n] \in Seq(X)
        BY <4>1, <4>2
      <4>4. Chains(F[n], seqs, n)
        BY <4>1, <4>2, ChainMore
      <4>. QED
        BY <2>1, <4>3, <4>4
    <3>. QED
      BY <3>1, <3>2
  <2>11. N \in T
    <3> HIDE DEF T, N
    <3>1. 0..N \subseteq T
      BY <2>1, <2>9, <2>10, Induction
    <3>. QED
      BY <2>1, <3>1
  <2>. QED
    BY <2>1, <2>7, <2>11
<1>. QED
  BY <1>1, <1>2

-----------------------------------------------------------------------------
(* Finite sets.                                                            *)

(* The image of a finite set.                                              *)
LEMMA ImageFinite ==
  ASSUME NEW S, IsFiniteSet(S), NEW f, S \subseteq DOMAIN f
  PROVE  IsFiniteSet({f[x] : x \in S}) /\ Cardinality({f[x] : x \in S}) <= Cardinality(S)
<1> DEFINE T == {f[x] : x \in S}
           g == [x \in S |-> f[x]]
<1>1. g \in Surjection(S, T)
  <2>1. g \in [S -> T]
    OBVIOUS
  <2>2. \A y \in T : \E x \in S : g[x] = y
    OBVIOUS
  <2> HIDE DEF g, T
  <2>. QED
    BY <2>1, <2>2 DEF Surjection
<1> HIDE DEF g, T
<1>. QED
  BY <1>1, FS_Surjection DEF T

(* A finite set of numbers has a greatest member.                          *)
LEMMA GreatestNumber ==
  ASSUME NEW S \in SUBSET Nat, IsFiniteSet(S), S # {}
  PROVE  \E k \in S : \A j \in S : j <= k
<1> DEFINE at == [x \in S |-> x]
           n == Cardinality(S)
           s == InOrder(S, at)
<1>1. Sorts(s, S, at)
  <2>1. \A x \in S : at[x] \in Int
    OBVIOUS
  <2>2. \A x, y \in S : at[x] = at[y] => x = y
    OBVIOUS
  <2> HIDE DEF at
  <2>. QED
    BY <2>1, <2>2, InOrderSorts
<1>2. \A x \in S : at[x] = x
  OBVIOUS
<1> HIDE DEF at, s, n
<1>3. n \in Nat /\ s \in [1..n -> S]
  BY <1>1 DEF Sorts, n
<1>4. n # 0
  <2>1. PICK x \in S : TRUE
    OBVIOUS
  <2>2. \E i \in 1..n : s[i] = x
    BY <1>1 DEF Sorts, n
  <2>. QED
    BY <1>3, <2>2
<1>5. n \in 1..n /\ s[n] \in S
  BY <1>3, <1>4
<1>6. ASSUME NEW j \in S PROVE j <= s[n]
  <2>1. PICK i \in 1..n : s[i] = j
    BY <1>1 DEF Sorts, n
  <2>2. CASE i = n
    BY <1>5, <2>1, <2>2
  <2>3. CASE i < n
    <3>1. at[s[i]] < at[s[n]]
      BY <1>1, <1>5, <2>3 DEF Sorts, n
    <3>2. j < s[n]
      BY <1>2, <1>5, <2>1, <3>1
    <3>3. j \in Nat /\ s[n] \in Nat
      BY <1>5
    <3>. QED
      BY <3>2, <3>3
  <2>. QED
    BY <1>3, <2>2, <2>3
<1>. QED
  BY <1>5, <1>6

(* In a finite set something is greatest, and something least, by a number *)
(* that each member has.                                                   *)
LEMMA GreatestBy ==
  ASSUME NEW S, IsFiniteSet(S), S # {}, NEW at, S \subseteq DOMAIN at, \A x \in S : at[x] \in Nat
  PROVE  /\ \E k \in S : \A j \in S : at[j] <= at[k]
         /\ \E k \in S : \A j \in S : at[k] <= at[j]
<1> DEFINE T == {at[x] : x \in S}
<1>1. IsFiniteSet(T)
  BY ImageFinite
<1>2. T \in SUBSET Nat /\ T # {}
  OBVIOUS
<1>3. PICK k \in T : \A j \in T : j <= k
  <2> HIDE DEF T
  <2>. QED
    BY <1>1, <1>2, GreatestNumber
<1>4. PICK l \in T : \A j \in T : l <= j
  <2> HIDE DEF T
  <2>. QED
    BY <1>2, LeastNumber
<1>. QED
  BY <1>3, <1>4

(* A one-to-one map between sets leaves the number of members alone.       *)
LEMMA SameNumber ==
  ASSUME NEW S, NEW T, IsFiniteSet(S), NEW h \in [S -> T],
         \A x, y \in S : h[x] = h[y] => x = y,
         \A z \in T : \E x \in S : h[x] = z
  PROVE  IsFiniteSet(T) /\ Cardinality(T) = Cardinality(S)
<1>1. h \in Injection(S, T) /\ h \in Surjection(S, T)
  BY DEF Injection, Surjection, IsInjective
<1>. QED
  BY <1>1, FS_Surjection

(* How many come up to something, itself included: a number of its own for *)
(* each member, and all numbers from 1 on are taken.                       *)
RankBy(S, at, x) == Cardinality({y \in S : at[y] <= at[x]})

LEMMA RankFacts ==
  ASSUME NEW S, IsFiniteSet(S), NEW at, \A x \in S : at[x] \in Nat,
         \A x, y \in S : at[x] = at[y] => x = y
  PROVE  /\ \A x \in S : RankBy(S, at, x) \in 1..Cardinality(S)
         /\ \A x, y \in S : RankBy(S, at, x) = RankBy(S, at, y) => x = y
         /\ \A k \in 1..Cardinality(S) : \E x \in S : RankBy(S, at, x) = k
         /\ Cardinality(S) \in Nat
<1> DEFINE s == InOrder(S, at)
           m == Cardinality(S)
<1>1. Sorts(s, S, at)
  <2>1. \A x \in S : at[x] \in Int
    OBVIOUS
  <2>. QED
    BY <2>1, InOrderSorts
<1> HIDE DEF s, m
<1>2. /\ m \in Nat /\ s \in [1..m -> S]
      /\ \A i, j \in 1..m : i < j => at[s[i]] < at[s[j]]
      /\ \A x \in S : \E i \in 1..m : s[i] = x
  BY <1>1 DEF Sorts, m
<1>3. ASSUME NEW i \in 1..m, NEW j \in 1..m PROVE at[s[j]] <= at[s[i]] <=> j <= i
  <2>1. at[s[i]] \in Nat /\ at[s[j]] \in Nat /\ i \in Nat /\ j \in Nat
    BY <1>2
  <2>2. CASE i = j
    BY <2>1, <2>2
  <2>3. CASE i < j
    BY <1>2, <2>1, <2>3
  <2>4. CASE j < i
    BY <1>2, <2>1, <2>4
  <2>. QED
    BY <2>1, <2>2, <2>3, <2>4
<1>4. ASSUME NEW i \in 1..m PROVE RankBy(S, at, s[i]) = i
  <2> DEFINE T == {y \in S : at[y] <= at[s[i]]}
             h == [k \in 1..i |-> s[k]]
  <2>1. \A k \in 1..i : k \in 1..m /\ k <= i
    BY <1>2
  <2>2. h \in [1..i -> T]
    BY <1>2, <1>3, <2>1
  <2>3. \A k, l \in 1..i : h[k] = h[l] => k = l
    <3> SUFFICES ASSUME NEW k \in 1..i, NEW l \in 1..i, s[k] = s[l] PROVE k = l
      OBVIOUS
    <3>1. k \in 1..m /\ l \in 1..m
      BY <2>1
    <3>2. at[s[k]] <= at[s[l]] /\ at[s[l]] <= at[s[k]]
      BY <1>2, <3>1
    <3>3. k <= l /\ l <= k
      BY <1>3, <3>1, <3>2
    <3>. QED
      BY <3>3
  <2>4. \A z \in T : \E k \in 1..i : h[k] = z
    <3> TAKE z \in T
    <3>1. PICK k \in 1..m : s[k] = z
      BY <1>2
    <3>2. k \in 1..i
      BY <1>2, <1>3, <3>1
    <3>. QED
      BY <3>1, <3>2
  <2>5. IsFiniteSet(1..i) /\ Cardinality(1..i) = i
    <3>1. i \in Nat /\ i >= 1
      BY <1>2
    <3>. QED
      BY <3>1, FS_Interval
  <2> HIDE DEF T, h
  <2>6. Cardinality(T) = i
    BY <2>2, <2>3, <2>4, <2>5, SameNumber
  <2>. QED
    BY <2>6 DEF T, RankBy
<1>5. \A x \in S : \E i \in 1..m : s[i] = x /\ RankBy(S, at, x) = i
  BY <1>2, <1>4
<1>6. \A k \in 1..m : s[k] \in S
  BY <1>2
<1>7. \A x \in S : RankBy(S, at, x) \in 1..m
  BY <1>5
<1>8. \A x, y \in S : RankBy(S, at, x) = RankBy(S, at, y) => x = y
  BY <1>5
<1>9. \A k \in 1..m : \E x \in S : RankBy(S, at, x) = k
  BY <1>4, <1>6
<1>. QED
  BY <1>2, <1>7, <1>8, <1>9 DEF m
-----------------------------------------------------------------------------
(* Selections.                                                             *)

(* The positions at are those of s whose entry is in T, in their order.    *)
Selects(at, e, s, T) ==
  /\ Len(e) \in Nat /\ DOMAIN e = 1..Len(e) /\ at \in [1..Len(e) -> 1..Len(s)]
  /\ \A i, j \in 1..Len(e) : i < j => at[i] < at[j]
  /\ \A k \in 1..Len(e) : e[k] = s[at[k]] /\ s[at[k]] \in T
  /\ \A i \in 1..Len(s) : s[i] \in T => \E k \in 1..Len(e) : at[k] = i

LEMMA AmongSelects ==
  ASSUME NEW X, NEW s \in Seq(X), NEW T
  PROVE  Among(s, T) \in Seq(X) /\ \E at : Selects(at, Among(s, T), s, T)
<1> DEFINE S == {i \in DOMAIN s : s[i] \in T}
           id == [i \in DOMAIN s |-> i]
           at == InOrder(S, id)
           n == Cardinality(S)
           e == Among(s, T)
<1>1. DOMAIN s = 1..Len(s) /\ Len(s) \in Nat /\ S \in SUBSET (1..Len(s))
  OBVIOUS
<1>2. IsFiniteSet(S)
  <2>1. IsFiniteSet(1..Len(s))
    BY <1>1, FS_Interval
  <2> HIDE DEF S
  <2>. QED
    BY <1>1, <2>1, FS_Subset
<1>3. \A x \in S : id[x] = x /\ id[x] \in Int
  BY <1>1
<1>4. Sorts(at, S, id)
  <2>1. \A x, y \in S : id[x] = id[y] => x = y
    BY <1>3
  <2> HIDE DEF id, S
  <2>. QED
    BY <1>2, <1>3, <2>1, InOrderSorts
<1>5. e = [k \in DOMAIN at |-> s[at[k]]]
  BY DEF Among
<1>6. \A i \in S : s[i] \in T
  OBVIOUS
<1>7. \A i \in 1..Len(s) : s[i] \in T => i \in S
  BY <1>1
<1> HIDE DEF S, id, at, n, e
<1>8. n \in Nat /\ at \in [1..n -> S]
  BY <1>4 DEF Sorts, n
<1>9. DOMAIN e = 1..n /\ \A k \in 1..n : e[k] = s[at[k]] /\ e[k] \in X
  <2>1. \A k \in 1..n : at[k] \in 1..Len(s)
    BY <1>1, <1>8
  <2>2. \A i \in 1..Len(s) : s[i] \in X
    OBVIOUS
  <2>. QED
    BY <1>5, <1>8, <2>1, <2>2
<1>10. e \in Seq(X)
  <2>1. e = [k \in 1..n |-> e[k]]
    BY <1>5, <1>9
  <2>2. e \in [1..n -> X]
    BY <1>9, <2>1
  <2>. QED
    BY <1>8, <2>2
<1>11. Len(e) = n
  BY <1>8, <1>9, <1>10
<1>12. Selects(at, e, s, T)
  <2>1. at \in [1..n -> 1..Len(s)]
    BY <1>1, <1>8
  <2>2. ASSUME NEW i \in 1..n, NEW j \in 1..n, i < j PROVE at[i] < at[j]
    <3>1. id[at[i]] < id[at[j]]
      BY <1>4, <2>2 DEF Sorts, n
    <3>. QED
      BY <1>3, <1>8, <3>1
  <2>3. \A i \in 1..Len(s) : s[i] \in T => \E k \in 1..n : at[k] = i
    BY <1>4, <1>7 DEF Sorts, n
  <2>4. \A k \in 1..n : e[k] = s[at[k]] /\ s[at[k]] \in T
    BY <1>6, <1>8, <1>9
  <2>. QED
    BY <1>8, <1>9, <1>11, <2>1, <2>2, <2>3, <2>4 DEF Selects
<1>13. e \in Seq(X) /\ \E a : Selects(a, e, s, T)
  BY <1>10, <1>12
<1>. QED
  BY <1>13 DEF e

(* What is selected, and that a selection has nothing twice that the       *)
(* sequence does not.                                                      *)
LEMMA AmongFacts ==
  ASSUME NEW X, NEW s \in Seq(X), NEW T
  PROVE  /\ Among(s, T) \in Seq(X)
         /\ \A x : x \in Range(Among(s, T)) <=> x \in Range(s) /\ x \in T
         /\ IsInjective(s) => IsInjective(Among(s, T))
<1> DEFINE e == Among(s, T)
<1>1. PICK at : Selects(at, e, s, T)
  BY AmongSelects
<1>2. e \in Seq(X)
  BY AmongSelects
<1> HIDE DEF e
<1>3. DOMAIN e = 1..Len(e) /\ DOMAIN s = 1..Len(s)
  BY <1>2
<1>4. ASSUME NEW x \in Range(e) PROVE x \in Range(s) /\ x \in T
  <2>1. PICK k \in 1..Len(e) : e[k] = x
    BY <1>3 DEF Range
  <2>2. at[k] \in 1..Len(s) /\ x = s[at[k]] /\ x \in T
    BY <1>1, <2>1 DEF Selects
  <2>. QED
    BY <1>3, <2>2 DEF Range
<1>5. ASSUME NEW x \in Range(s), x \in T PROVE x \in Range(e)
  <2>1. PICK i \in 1..Len(s) : s[i] = x
    BY <1>3 DEF Range
  <2>2. PICK k \in 1..Len(e) : at[k] = i
    BY <1>1, <1>5, <2>1 DEF Selects
  <2>3. e[k] = x
    BY <1>1, <2>1, <2>2 DEF Selects
  <2>. QED
    BY <1>3, <2>3 DEF Range
<1>6. ASSUME IsInjective(s) PROVE IsInjective(e)
  <2> SUFFICES ASSUME NEW j \in 1..Len(e), NEW k \in 1..Len(e), e[j] = e[k], j # k PROVE FALSE
    BY <1>3 DEF IsInjective
  <2>1. at[j] \in 1..Len(s) /\ at[k] \in 1..Len(s) /\ s[at[j]] = s[at[k]]
    BY <1>1 DEF Selects
  <2>2. at[j] = at[k]
    BY <1>3, <1>6, <2>1 DEF IsInjective
  <2>3. j < k \/ k < j
    BY <1>2
  <2>4. at[j] < at[k] \/ at[k] < at[j]
    BY <1>1, <2>3 DEF Selects
  <2>. QED
    BY <2>1, <2>2, <2>4
<1>. QED
  BY <1>2, <1>4, <1>5, <1>6 DEF e

LEMMA NotBothLess == ASSUME NEW x \in Nat, NEW y \in Nat, x < y, y < x PROVE FALSE
OBVIOUS

(* There is one way only to list positions in their order.                 *)
Twins(a, b, m, n) ==
  /\ m \in Nat /\ n \in Nat /\ a \in [1..m -> Nat] /\ b \in [1..n -> Nat]
  /\ \A i, j \in 1..m : i < j => a[i] < a[j]
  /\ \A i, j \in 1..n : i < j => b[i] < b[j]
  /\ \A i \in 1..m : \E j \in 1..n : a[i] = b[j]
  /\ \A j \in 1..n : \E i \in 1..m : a[i] = b[j]

LEMMA ListedOnce ==
  ASSUME NEW m, NEW n, NEW a, NEW b, Twins(a, b, m, n)
  PROVE  m = n /\ \A i \in 1..m : a[i] = b[i]
<1>0. /\ m \in Nat /\ n \in Nat /\ a \in [1..m -> Nat] /\ b \in [1..n -> Nat]
      /\ \A i, j \in 1..m : i < j => a[i] < a[j]
      /\ \A i, j \in 1..n : i < j => b[i] < b[j]
      /\ \A i \in 1..m : \E j \in 1..n : a[i] = b[j]
      /\ \A j \in 1..n : \E i \in 1..m : a[i] = b[j]
  BY DEF Twins
<1> USE <1>0
<1> DEFINE Bad == {i \in Nat : i \in 1..m /\ i \in 1..n /\ a[i] # b[i]}
<1>1. Bad = {}
  <2> SUFFICES ASSUME Bad # {} PROVE FALSE
    OBVIOUS
  <2>1. PICK k \in Bad : \A j \in Bad : k <= j
    <3>1. Bad \in SUBSET Nat
      OBVIOUS
    <3> HIDE DEF Bad
    <3>. QED
      BY <3>1, LeastNumber
  <2>2. \A i \in 1..m : i \in 1..n /\ i < k => a[i] = b[i]
    <3> TAKE i \in 1..m
    <3>1. i \in Nat /\ (i < k => ~(k <= i))
      OBVIOUS
    <3>. QED
      BY <2>1, <3>1
  <2>3. PICK i \in 1..m : a[i] = b[k]
    OBVIOUS
  <2>4. PICK j \in 1..n : a[k] = b[j]
    OBVIOUS
  <2>5. k \in 1..m /\ k \in 1..n /\ a[k] # b[k]
    OBVIOUS
  <2>8. a[k] \in Nat /\ b[k] \in Nat
    BY <2>5
  <2> HIDE DEF Bad
  <2>6. CASE a[k] < b[k]
    <3>1. j < k
      <4>1. ASSUME k < j PROVE FALSE
        <5>1. b[k] < b[j]
          BY <2>5, <4>1
        <5>2. b[k] < a[k]
          BY <2>4, <5>1
        <5>. QED
          BY <2>6, <2>8, <5>2, NotBothLess
      <4>2. k # j
        BY <2>4, <2>5
      <4>3. k \in Nat /\ j \in Nat
        BY <2>5
      <4>. QED
        BY <4>1, <4>2, <4>3
    <3>2. j \in 1..m /\ a[j] = b[j]
      BY <2>2, <2>5, <3>1
    <3>3. a[j] < a[k]
      BY <2>5, <3>1, <3>2
    <3>. QED
      BY <2>4, <2>5, <3>2, <3>3
  <2>7. CASE b[k] < a[k]
    <3>1. i < k
      <4>1. ASSUME k < i PROVE FALSE
        <5>1. a[k] < a[i]
          BY <2>5, <4>1
        <5>2. a[k] < b[k]
          BY <2>3, <5>1
        <5>. QED
          BY <2>7, <2>8, <5>2, NotBothLess
      <4>2. k # i
        BY <2>3, <2>5
      <4>3. k \in Nat /\ i \in Nat
        BY <2>5
      <4>. QED
        BY <4>1, <4>2, <4>3
    <3>2. i \in 1..n /\ a[i] = b[i]
      BY <2>2, <2>5, <3>1
    <3>3. b[i] < b[k]
      BY <2>5, <3>1, <3>2
    <3>. QED
      BY <2>3, <2>5, <3>2, <3>3
  <2>. QED
    BY <2>5, <2>6, <2>7, <2>8
<1>2. \A i \in 1..m : i \in 1..n => a[i] = b[i]
  <2>1. \A i \in 1..m : i \in Nat
    OBVIOUS
  <2>. QED
    BY <1>1, <2>1
<1> HIDE DEF Bad
<1>3. ~(m < n)
  <2> SUFFICES ASSUME m < n PROVE FALSE
    OBVIOUS
  <2>1. n \in 1..n
    OBVIOUS
  <2>2. PICK i \in 1..m : a[i] = b[n]
    BY <2>1
  <2>3. i \in 1..n /\ i < n
    OBVIOUS
  <2>4. b[i] < b[n] /\ b[i] \in Nat /\ b[i] = b[n]
    BY <1>2, <2>1, <2>2, <2>3
  <2>. QED
    BY <2>4
<1>4. ~(n < m)
  <2> SUFFICES ASSUME n < m PROVE FALSE
    OBVIOUS
  <2>1. m \in 1..m
    OBVIOUS
  <2>2. PICK j \in 1..n : a[m] = b[j]
    BY <2>1
  <2>3. j \in 1..m /\ j < m
    OBVIOUS
  <2>4. a[j] < a[m] /\ a[j] \in Nat /\ a[j] = a[m]
    BY <1>2, <2>1, <2>2, <2>3
  <2>. QED
    BY <2>4
<1>. QED
  BY <1>2, <1>3, <1>4

(* A sequence that lists the same positions is the selection.              *)
LEMMA AmongIs ==
  ASSUME NEW X, NEW s \in Seq(X), NEW T, NEW f \in Seq(X), NEW at, Selects(at, f, s, T)
  PROVE  Among(s, T) = f
<1> DEFINE e == Among(s, T)
<1>1. PICK b : Selects(b, e, s, T)
  BY AmongSelects
<1>2. e \in Seq(X)
  BY AmongSelects
<1> HIDE DEF e
<1>3. Len(s) \in Nat /\ Len(e) \in Nat /\ Len(f) \in Nat
  BY <1>2
<1>4. at \in [1..Len(f) -> Nat] /\ b \in [1..Len(e) -> Nat]
  <2>1. at \in [1..Len(f) -> 1..Len(s)] /\ b \in [1..Len(e) -> 1..Len(s)]
    BY <1>1 DEF Selects
  <2>. QED
    BY <1>3, <2>1
<1>5. \A i \in 1..Len(f) : \E j \in 1..Len(e) : at[i] = b[j]
  <2> TAKE i \in 1..Len(f)
  <2>1. at[i] \in 1..Len(s) /\ s[at[i]] \in T
    BY DEF Selects
  <2>. QED
    BY <1>1, <2>1 DEF Selects
<1>6. \A j \in 1..Len(e) : \E i \in 1..Len(f) : at[i] = b[j]
  <2> TAKE j \in 1..Len(e)
  <2>1. b[j] \in 1..Len(s) /\ s[b[j]] \in T
    BY <1>1 DEF Selects
  <2>. QED
    BY <2>1 DEF Selects
<1>7. /\ \A i, j \in 1..Len(f) : i < j => at[i] < at[j]
      /\ \A i, j \in 1..Len(e) : i < j => b[i] < b[j]
  BY <1>1 DEF Selects
<1>8. Len(f) = Len(e) /\ \A i \in 1..Len(f) : at[i] = b[i]
  <2>1. Twins(at, b, Len(f), Len(e))
    BY <1>3, <1>4, <1>5, <1>6, <1>7 DEF Twins
  <2>. QED
    BY <2>1, ListedOnce
<1>9. \A i \in 1..Len(f) : e[i] = f[i]
  <2> TAKE i \in 1..Len(f)
  <2>1. f[i] = s[at[i]] /\ e[i] = s[b[i]]
    BY <1>1, <1>8 DEF Selects
  <2>. QED
    BY <1>8, <2>1
<1>10. e = f
  BY <1>2, <1>8, <1>9
<1>. QED
  BY <1>10 DEF e

(* What is sorted is a list of all there is, without anything twice.       *)
LEMMA SortedFacts ==
  ASSUME NEW S, IsFiniteSet(S), NEW at, \A x \in S : at[x] \in Int,
         \A x, y \in S : at[x] = at[y] => x = y
  PROVE  /\ InOrder(S, at) \in Seq(S) /\ Len(InOrder(S, at)) = Cardinality(S)
         /\ IsInjective(InOrder(S, at)) /\ Range(InOrder(S, at)) = S
         /\ \A i, j \in DOMAIN InOrder(S, at) : i < j => at[InOrder(S, at)[i]] < at[InOrder(S, at)[j]]
<1> DEFINE s == InOrder(S, at)
           m == Cardinality(S)
<1>1. Sorts(s, S, at)
  BY InOrderSorts
<1> HIDE DEF s
<1>2. m \in Nat /\ s \in [1..m -> S]
  BY <1>1 DEF Sorts
<1>3. s \in Seq(S) /\ Len(s) = m /\ DOMAIN s = 1..m
  BY <1>2
<1>4. \A i, j \in 1..m : i < j => at[s[i]] < at[s[j]]
  BY <1>1 DEF Sorts
<1>5. IsInjective(s)
  <2> SUFFICES ASSUME NEW i \in 1..m, NEW j \in 1..m, s[i] = s[j], i # j PROVE FALSE
    BY <1>3 DEF IsInjective
  <2>1. i < j \/ j < i
    BY <1>2
  <2>2. at[s[i]] < at[s[j]] \/ at[s[j]] < at[s[i]]
    BY <1>4, <2>1
  <2>3. s[i] \in S /\ at[s[i]] \in Int /\ at[s[i]] = at[s[j]]
    BY <1>2
  <2>. QED
    BY <2>2, <2>3
<1>6. Range(s) = S
  BY <1>1, <1>2, <1>3 DEF Range, Sorts
<1>. QED
  BY <1>3, <1>4, <1>5, <1>6 DEF s

LEMMA SeqWiden ==
  ASSUME NEW S, NEW T, S \subseteq T, NEW s \in Seq(S)
  PROVE  s \in Seq(T) /\ Len(s) \in Nat /\ DOMAIN s = 1..Len(s)
OBVIOUS

(* Two lists one after the other.                                          *)
LEMMA JoinedLists ==
  ASSUME NEW X, NEW s \in Seq(X), NEW t \in Seq(X)
  PROVE  /\ Joined(s, t) \in Seq(X) /\ Len(Joined(s, t)) = Len(s) + Len(t)
         /\ \A i \in 1..Len(s) : Joined(s, t)[i] = s[i]
         /\ \A i \in 1..Len(t) : Joined(s, t)[Len(s) + i] = t[i]
<1> DEFINE u == s \o t
<1>1. u \in Seq(X) /\ Len(u) = Len(s) + Len(t)
  OBVIOUS
<1>2. \A i \in 1..Len(s) : u[i] = s[i]
  OBVIOUS
<1>3. ASSUME NEW i \in 1..Len(t) PROVE u[Len(s) + i] = t[i]
  <2>1. Len(s) + i \in 1..(Len(s) + Len(t)) /\ ~(Len(s) + i <= Len(s)) /\ (Len(s) + i) - Len(s) = i
    OBVIOUS
  <2>. QED
    BY <2>1
<1> HIDE DEF u
<1>. QED
  BY <1>1, <1>2, <1>3 DEF u, Joined

LEMMA JoinedFacts ==
  ASSUME NEW X, NEW s \in Seq(X), NEW t \in Seq(X)
  PROVE  /\ Joined(s, t) \in Seq(X) /\ Len(Joined(s, t)) = Len(s) + Len(t)
         /\ \A i \in 1..Len(s) : Joined(s, t)[i] = s[i]
         /\ \A i \in 1..Len(t) : Joined(s, t)[Len(s) + i] = t[i]
         /\ Range(Joined(s, t)) = Range(s) \cup Range(t)
         /\ IsInjective(s) /\ IsInjective(t) /\ Range(s) \cap Range(t) = {} => IsInjective(Joined(s, t))
<1> DEFINE u == s \o t
<1>1. Len(s) \in Nat /\ Len(t) \in Nat /\ DOMAIN s = 1..Len(s) /\ DOMAIN t = 1..Len(t)
  OBVIOUS
<1>2. /\ u \in Seq(X) /\ Len(u) = Len(s) + Len(t)
      /\ \A i \in 1..Len(u) : u[i] = IF i <= Len(s) THEN s[i] ELSE t[i - Len(s)]
  OBVIOUS
<1> HIDE DEF u
<1>3. DOMAIN u = 1..(Len(s) + Len(t))
  BY <1>2
<1>4. \A i \in 1..Len(s) : i \in 1..Len(u) /\ u[i] = s[i]
  BY <1>1, <1>2
<1>5. ASSUME NEW i \in 1..Len(t) PROVE Len(s) + i \in 1..Len(u) /\ u[Len(s) + i] = t[i]
  <2>1. Len(s) + i \in 1..Len(u) /\ ~(Len(s) + i <= Len(s)) /\ (Len(s) + i) - Len(s) = i
    BY <1>1, <1>2
  <2>. QED
    BY <1>2, <2>1
<1>6. ASSUME NEW k \in 1..Len(u)
      PROVE  \/ k \in 1..Len(s) /\ u[k] = s[k]
             \/ k - Len(s) \in 1..Len(t) /\ ~(k <= Len(s)) /\ u[k] = t[k - Len(s)]
  <2>1. k \in 1..Len(s) \/ (k - Len(s) \in 1..Len(t) /\ ~(k <= Len(s)))
    BY <1>1, <1>2
  <2>. QED
    BY <1>1, <1>2, <2>1
<1>7. Range(u) = Range(s) \cup Range(t)
  <2>1. ASSUME NEW x \in Range(u) PROVE x \in Range(s) \cup Range(t)
    BY <1>1, <1>2, <1>3, <1>6 DEF Range
  <2>2. ASSUME NEW x \in Range(s) PROVE x \in Range(u)
    BY <1>1, <1>2, <1>3, <1>4 DEF Range
  <2>3. ASSUME NEW x \in Range(t) PROVE x \in Range(u)
    <3>1. PICK i \in 1..Len(t) : t[i] = x
      BY <1>1, <2>3 DEF Range
    <3>2. Len(s) + i \in DOMAIN u /\ u[Len(s) + i] = x
      BY <1>2, <1>3, <1>5, <3>1
    <3>. QED
      BY <3>2 DEF Range
  <2>. QED
    BY <2>1, <2>2, <2>3
<1>8. ASSUME IsInjective(s), IsInjective(t), Range(s) \cap Range(t) = {} PROVE IsInjective(u)
  <2> SUFFICES ASSUME NEW i \in 1..Len(u), NEW j \in 1..Len(u), u[i] = u[j] PROVE i = j
    BY <1>2, <1>3 DEF IsInjective
  <2>1. \A k \in 1..Len(s) : s[k] \in Range(s)
    BY <1>1 DEF Range
  <2>2. \A k \in 1..Len(t) : t[k] \in Range(t)
    BY <1>1 DEF Range
  <2>3. CASE i \in 1..Len(s) /\ u[i] = s[i]
    <3>1. j \in 1..Len(s) /\ u[j] = s[j]
      BY <1>6, <1>8, <2>1, <2>2, <2>3
    <3>. QED
      BY <1>1, <1>8, <2>3, <3>1 DEF IsInjective
  <2>4. CASE i - Len(s) \in 1..Len(t) /\ u[i] = t[i - Len(s)]
    <3>1. j - Len(s) \in 1..Len(t) /\ u[j] = t[j - Len(s)]
      BY <1>6, <1>8, <2>1, <2>2, <2>4
    <3>2. i - Len(s) = j - Len(s)
      BY <1>1, <1>8, <2>4, <3>1 DEF IsInjective
    <3>. QED
      BY <1>1, <3>2
  <2>. QED
    BY <1>6, <2>3, <2>4
<1>. QED
  BY <1>2, <1>4, <1>5, <1>7, <1>8 DEF u, Joined

-----------------------------------------------------------------------------
(* Lists of the members of a set, each once.                               *)

Enumerates(s, R) == s \in Seq(R) /\ IsInjective(s) /\ Range(s) = R

LEMMA EnumeratesOne == ASSUME NEW x PROVE Enumerates(<< x >>, {x})
<1>1. << x >> \in Seq({x}) /\ DOMAIN << x >> = {1} /\ << x >>[1] = x
  OBVIOUS
<1>. QED
  BY <1>1 DEF Enumerates, IsInjective, Range

LEMMA EnumeratesJoined ==
  ASSUME NEW s, NEW R, Enumerates(s, R), NEW t, NEW Q, Enumerates(t, Q), R \cap Q = {}
  PROVE  Enumerates(Joined(s, t), R \cup Q)
<1>1. s \in Seq(R) /\ t \in Seq(Q) /\ R \subseteq R \cup Q /\ Q \subseteq R \cup Q
  BY DEF Enumerates
<1>2. s \in Seq(R \cup Q) /\ t \in Seq(R \cup Q)
  BY <1>1, SeqWiden
<1>3. Joined(s, t) \in Seq(R \cup Q) /\ Range(Joined(s, t)) = Range(s) \cup Range(t)
  BY <1>2, JoinedFacts
<1>4. IsInjective(s) /\ IsInjective(t) /\ Range(s) = R /\ Range(t) = Q
  BY DEF Enumerates
<1>5. IsInjective(Joined(s, t))
  BY <1>2, <1>4, JoinedFacts
<1>. QED
  BY <1>3, <1>4, <1>5 DEF Enumerates

LEMMA EnumeratesIn ==
  ASSUME NEW X, NEW s \in Seq(X), IsInjective(s)
  PROVE  Enumerates(s, Range(s))
<1>1. DOMAIN s = 1..Len(s) /\ Len(s) \in Nat
  OBVIOUS
<1>2. \A i \in 1..Len(s) : s[i] \in Range(s)
  BY <1>1 DEF Range
<1>3. s \in [1..Len(s) -> Range(s)]
  BY <1>1, <1>2
<1>4. s \in Seq(Range(s))
  BY <1>1, <1>3
<1>. QED
  BY <1>4 DEF Enumerates

LEMMA EnumeratesMapped ==
  ASSUME NEW s, NEW R, Enumerates(s, R), NEW F, R \subseteq DOMAIN F, \A x, y \in R : F[x] = F[y] => x = y
  PROVE  Enumerates([i \in DOMAIN s |-> F[s[i]]], {F[x] : x \in R})
<1> DEFINE Y == {F[x] : x \in R}
           u == [i \in DOMAIN s |-> F[s[i]]]
           n == Len(s)
<1>1. n \in Nat /\ DOMAIN s = 1..n /\ (\A i \in 1..n : s[i] \in R) /\ IsInjective(s) /\ Range(s) = R
  BY DEF Enumerates
<1>2. DOMAIN u = 1..n /\ \A i \in 1..n : u[i] = F[s[i]] /\ u[i] \in Y
  BY <1>1
<1>3. u \in [1..n -> Y]
  <2>1. u = [i \in 1..n |-> u[i]]
    BY <1>1
  <2>. QED
    BY <1>2, <2>1
<1>4. \A z : z \in Y <=> \E x \in R : z = F[x]
  OBVIOUS
<1> HIDE DEF u, Y
<1>5. u \in Seq(Y)
  BY <1>1, <1>3
<1>6. IsInjective(u)
  <2> SUFFICES ASSUME NEW i \in 1..n, NEW j \in 1..n, u[i] = u[j] PROVE i = j
    BY <1>2 DEF IsInjective
  <2>1. s[i] = s[j]
    BY <1>1, <1>2
  <2>. QED
    BY <1>1, <2>1 DEF IsInjective
<1>7. Range(u) = Y
  <2>1. Range(u) \subseteq Y
    BY <1>2 DEF Range
  <2>2. ASSUME NEW x \in R PROVE F[x] \in Range(u)
    <3>1. PICK i \in 1..n : s[i] = x
      BY <1>1 DEF Range
    <3>2. u[i] = F[x]
      BY <1>2, <3>1
    <3>. QED
      BY <1>2, <3>2 DEF Range
  <2>. QED
    BY <1>4, <2>1, <2>2
<1>8. Enumerates(u, Y)
  BY <1>5, <1>6, <1>7 DEF Enumerates
<1>. QED
  BY <1>8 DEF u, Y

(* Two things in a row for each entry.                                     *)
LEMMA EnumeratesPairs ==
  ASSUME NEW s, NEW R, Enumerates(s, R), NEW F, NEW G, R \subseteq DOMAIN F, R \subseteq DOMAIN G,
         \A x, y \in R : F[x] = F[y] => x = y,
         \A x, y \in R : G[x] = G[y] => x = y,
         \A x, y \in R : F[x] # G[y]
  PROVE  Enumerates(FlattenSeq([i \in DOMAIN s |-> << F[s[i]], G[s[i]] >>]),
                    {F[x] : x \in R} \cup {G[x] : x \in R})
<1> DEFINE Y == {F[x] : x \in R} \cup {G[x] : x \in R}
           Pair(i) == << F[s[i]], G[s[i]] >>
           pairs == [i \in DOMAIN s |-> Pair(i)]
           u == FlattenSeq(pairs)
           n == Len(s)
<1>1. n \in Nat /\ DOMAIN s = 1..n /\ (\A i \in 1..n : s[i] \in R) /\ IsInjective(s) /\ Range(s) = R
  BY DEF Enumerates
<1>2. \A i \in 1..n : Pair(i) \in Seq(Y) /\ Len(Pair(i)) = 2
  <2> TAKE i \in 1..n
  <2>1. F[s[i]] \in Y /\ G[s[i]] \in Y
    BY <1>1
  <2> HIDE DEF Y
  <2>. QED
    BY <2>1
<1>3. pairs = [i \in 1..n |-> Pair(i)]
  BY <1>1
<1>4. \A i \in 1..n : Pair(i)[1] = F[s[i]] /\ Pair(i)[2] = G[s[i]]
  OBVIOUS
<1>5. \A z : z \in Y <=> \E x \in R : z = F[x] \/ z = G[x]
  OBVIOUS
<1> HIDE DEF Y, Pair, pairs, u, n
<1>6. pairs \in Seq(Seq(Y)) /\ Len(pairs) = n /\ \A i \in 1..n : pairs[i] = Pair(i)
  <2>1. pairs \in [1..n -> Seq(Y)]
    BY <1>2, <1>3
  <2>. QED
    BY <1>1, <1>3, <2>1
<1>7. u \in Seq(Y) /\ Chains(u, pairs, n)
  BY <1>6, FlattenFacts DEF u
<1>8. PICK row, col \in [1..Len(u) -> Nat] : Places(row, col, u, pairs, n)
  BY <1>7 DEF Chains
<1>9. \A p \in 1..Len(u) : /\ row[p] \in 1..n /\ col[p] \in 1..2
                           /\ col[p] = 1 => u[p] = F[s[row[p]]]
                           /\ col[p] = 2 => u[p] = G[s[row[p]]]
  <2> TAKE p \in 1..Len(u)
  <2>1. row[p] \in 1..n /\ col[p] \in 1..Len(pairs[row[p]]) /\ u[p] = pairs[row[p]][col[p]]
    BY <1>8 DEF Places
  <2>2. col[p] \in 1..2 /\ u[p] = Pair(row[p])[col[p]]
    BY <1>2, <1>6, <2>1
  <2>. QED
    BY <1>4, <2>1, <2>2
<1>10. \A p, q \in 1..Len(u) : row[p] = row[q] /\ col[p] = col[q] => p = q
  <2> SUFFICES ASSUME NEW p \in 1..Len(u), NEW q \in 1..Len(u), row[p] = row[q], col[p] = col[q] PROVE p = q
    OBVIOUS
  <2>1. row[p] \in Nat /\ col[p] \in Nat
    OBVIOUS
  <2>2. ~(row[p] < row[p]) /\ ~(col[p] < col[p])
    BY <2>1
  <2>3. ~(p < q) /\ ~(q < p)
    BY <1>8, <2>2 DEF Places
  <2>4. p \in Nat /\ q \in Nat
    BY <1>7
  <2>. QED
    BY <2>3, <2>4
<1>11. IsInjective(u)
  <2>1. DOMAIN u = 1..Len(u)
    BY <1>7
  <2> SUFFICES ASSUME NEW p \in 1..Len(u), NEW q \in 1..Len(u), u[p] = u[q] PROVE p = q
    BY <2>1 DEF IsInjective
  <2>2. row[p] \in 1..n /\ row[q] \in 1..n /\ s[row[p]] \in R /\ s[row[q]] \in R
    BY <1>1, <1>9
  <2>3. col[p] \in {1, 2} /\ col[q] \in {1, 2}
    BY <1>9
  <2>4. col[p] = col[q]
    BY <1>9, <2>2, <2>3
  <2>5. s[row[p]] = s[row[q]]
    BY <1>9, <2>2, <2>3, <2>4
  <2>6. row[p] = row[q]
    BY <1>1, <2>2, <2>5 DEF IsInjective
  <2>. QED
    BY <1>10, <2>4, <2>6
<1>12. ASSUME NEW x \in R PROVE F[x] \in Range(u) /\ G[x] \in Range(u)
  <2>1. PICK i \in 1..n : s[i] = x
    BY <1>1 DEF Range
  <2>2. 1 \in 1..Len(pairs[i]) /\ 2 \in 1..Len(pairs[i])
    <3>1. Len(pairs[i]) = 2
      BY <1>2, <1>6
    <3>. QED
      BY <3>1
  <2>7. \A j \in 1..Len(pairs[i]) : \E p \in 1..Len(u) : row[p] = i /\ col[p] = j
    BY <1>8 DEF Places
  <2>3. PICK p \in 1..Len(u) : row[p] = i /\ col[p] = 1
    BY <2>2, <2>7
  <2>4. PICK q \in 1..Len(u) : row[q] = i /\ col[q] = 2
    BY <2>2, <2>7
  <2>5. u[p] = F[x] /\ u[q] = G[x]
    BY <1>9, <2>1, <2>3, <2>4
  <2>6. DOMAIN u = 1..Len(u)
    BY <1>7
  <2>. QED
    BY <2>5, <2>6 DEF Range
<1>13. Range(u) = Y
  <2>1. Range(u) \subseteq Y
    BY <1>7 DEF Range
  <2>. QED
    BY <1>5, <1>12, <2>1
<1>14. Enumerates(u, Y)
  BY <1>7, <1>11, <1>13 DEF Enumerates
<1>. QED
  BY <1>14 DEF u, pairs, Pair, Y

-----------------------------------------------------------------------------
(* Sums.                                                                   *)

(* A sum of finitely many numbers is a number.                             *)
LEMMA SumFinite ==
  ASSUME NEW f, IsFiniteSet(DOMAIN f), \A x \in DOMAIN f : f[x] \in Nat
  PROVE  IsFiniteSet(UNION {{x} \X (1..f[x]) : x \in DOMAIN f}) /\ SumOf(f) \in Nat
<1> DEFINE F(x) == {x} \X (1..f[x])
           A == UNION {F(x) : x \in DOMAIN f}
<1>1. IsFiniteSet(A)
  <2> DEFINE parts == [x \in DOMAIN f |-> F(x)]
  <2>1. IsFiniteSet({parts[x] : x \in DOMAIN f})
    <3>1. DOMAIN f \subseteq DOMAIN parts
      OBVIOUS
    <3> HIDE DEF parts
    <3>. QED
      BY <3>1, ImageFinite
  <2>2. {parts[x] : x \in DOMAIN f} = {F(x) : x \in DOMAIN f}
    OBVIOUS
  <2>3. ASSUME NEW x \in DOMAIN f PROVE IsFiniteSet(F(x))
    <3>1. IsFiniteSet({x})
      BY FS_Singleton
    <3>2. IsFiniteSet(1..f[x])
      <4>1. 1 \in Int /\ f[x] \in Int
        OBVIOUS
      <4>. QED
        BY <4>1, FS_Interval
    <3>. QED
      BY <3>1, <3>2, FS_Product
  <2>4. \A T \in {F(x) : x \in DOMAIN f} : IsFiniteSet(T)
    <3> HIDE DEF F
    <3>. QED
      BY <2>3
  <2>5. IsFiniteSet({F(x) : x \in DOMAIN f})
    BY <2>1, <2>2
  <2> HIDE DEF F
  <2>. QED
    BY <2>4, <2>5, FS_UNION
<1>. QED
  BY <1>1, FS_CardinalityType DEF SumOf

(* Two sums with the same summands are equal.                              *)
LEMMA SumSame ==
  ASSUME NEW f, NEW g, IsFiniteSet(DOMAIN f), NEW h \in [DOMAIN f -> DOMAIN g],
         \A x, y \in DOMAIN f : h[x] = h[y] => x = y,
         \A z \in DOMAIN g : \E x \in DOMAIN f : h[x] = z,
         \A x \in DOMAIN f : f[x] \in Nat /\ g[h[x]] = f[x]
  PROVE  SumOf(f) = SumOf(g)
<1> DEFINE F(x) == {x} \X (1..f[x])
           A == UNION {F(x) : x \in DOMAIN f}
           B == UNION {{z} \X (1..g[z]) : z \in DOMAIN g}
           k == [p \in A |-> <<h[p[1]], p[2]>>]
<1>1. IsFiniteSet(A)
  BY SumFinite
<1>2. \A p \in A : p[1] \in DOMAIN f /\ p[2] \in 1..f[p[1]] /\ p = <<p[1], p[2]>>
  OBVIOUS
<1>3. \A x \in DOMAIN f : \A i \in 1..f[x] : <<x, i>> \in A
  OBVIOUS
<1>4. \A q : q \in B <=> \E z \in DOMAIN g : \E i \in 1..g[z] : q = <<z, i>>
  OBVIOUS
<1>5. k \in [A -> B]
  <2> SUFFICES ASSUME NEW p \in A PROVE <<h[p[1]], p[2]>> \in B
    OBVIOUS
  <2>1. h[p[1]] \in DOMAIN g /\ p[2] \in 1..g[h[p[1]]]
    BY <1>2
  <2> HIDE DEF A, B
  <2>. QED
    BY <1>4, <2>1
<1>6. \A p \in A : k[p] = <<h[p[1]], p[2]>>
  OBVIOUS
<1>7. ASSUME NEW z \in DOMAIN g, NEW i \in 1..g[z] PROVE \E p \in A : k[p] = <<z, i>>
  <2>1. PICK x \in DOMAIN f : h[x] = z
    OBVIOUS
  <2>2. i \in 1..f[x]
    BY <2>1
  <2>3. <<x, i>> \in A
    BY <1>3, <2>2
  <2>4. k[<<x, i>>] = <<z, i>>
    BY <1>6, <2>1, <2>3
  <2>. QED
    BY <2>3, <2>4
<1> HIDE DEF A, B, k
<1>8. \A p, q \in A : k[p] = k[q] => p = q
  <2> SUFFICES ASSUME NEW p \in A, NEW q \in A, k[p] = k[q] PROVE p = q
    OBVIOUS
  <2>1. h[p[1]] = h[q[1]] /\ p[2] = q[2]
    BY <1>6
  <2>2. p[1] = q[1]
    BY <1>2, <2>1
  <2>. QED
    BY <1>2, <2>1, <2>2
<1>9. \A q \in B : \E p \in A : k[p] = q
  <2> TAKE q \in B
  <2>1. PICK z \in DOMAIN g : \E i \in 1..g[z] : q = <<z, i>>
    BY <1>4
  <2>2. PICK i \in 1..g[z] : q = <<z, i>>
    BY <2>1
  <2>3. \E p \in A : k[p] = <<z, i>>
    BY <1>7
  <2>. QED
    BY <2>2, <2>3
<1>10. Cardinality(B) = Cardinality(A)
  BY <1>1, <1>5, <1>8, <1>9, SameNumber
<1>. QED
  BY <1>10 DEF SumOf, A, B
=============================================================================
