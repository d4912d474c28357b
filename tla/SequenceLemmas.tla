--------------------------- MODULE SequenceLemmas ---------------------------
(***************************************************************************)
(* What the proofs about several components need: induction over the       *)
(* naturals by way of a least element, minima, concatenations of many      *)
(* sequences and running sums.                                             *)
(***************************************************************************)
EXTENDS Integers, Sequences, SequencesExt, Sums, FiniteSetTheorems, TLAPS

----------------------------------------------------------------------------
(* Recursion over the naturals                                             *)

\* A non-empty set of naturals has a least element.
LEMMA LeastNat ==
    ASSUME NEW T \in SUBSET Nat, T # {}
    PROVE  \E x \in T : \A y \in T : x <= y
<1>1. IsWellFoundedOn(OpToRel(<, Nat), Nat)
  BY NatLessThanWellFounded
<1>2. PICK x \in T : \A y \in T : ~ (<<y, x>> \in OpToRel(<, Nat))
  BY <1>1, WFMin, Zenon
<1>3. \A y \in T : ~ (y < x)
  BY <1>2 DEF OpToRel
<1> QED
  BY <1>3

\* A set of naturals that has 0 and with every number the next has them all.
LEMMA InductiveSet ==
    ASSUME NEW T \in SUBSET Nat, 0 \in T, \A n \in T : n + 1 \in T
    PROVE  T = Nat
<1> SUFFICES ASSUME Nat \ T # {} PROVE FALSE
  OBVIOUS
<1>1. PICK x \in Nat \ T : \A y \in Nat \ T : x <= y
  BY LeastNat
<1>2. x - 1 \in Nat /\ x - 1 \in T
  BY <1>1
<1> QED
  BY <1>1, <1>2

\* The least element of a set of naturals.
LEMMA MinIs ==
    ASSUME NEW S \in SUBSET Nat, S # {}
    PROVE  Min(S) \in S /\ \A y \in S : Min(S) <= y
<1>1. \E x \in S : \A y \in S : x <= y
  BY LeastNat
<1>2. Min(S) = CHOOSE x \in S : \A y \in S : x <= y
  BY DEF Min
<1> QED
  BY <1>1, <1>2

\* The smaller of two numbers.
LEMMA MinOfTwo ==
    ASSUME NEW a \in Nat, NEW b \in Nat
    PROVE  Min({a, b}) = IF b < a THEN b ELSE a
<1> DEFINE k == IF b < a THEN b ELSE a
<1>1. k \in {a, b} /\ k <= a /\ k <= b /\ k \in Nat
  OBVIOUS
<1>2. ASSUME NEW x \in {a, b}, \A y \in {a, b} : x <= y PROVE x = k
  <2>1. x \in Nat /\ x <= a /\ x <= b
    BY <1>2
  <2> QED
    BY <2>1, <1>2
<1>3. \A y \in {a, b} : k <= y
  BY <1>1
<1> HIDE DEF k
<1>4. Min({a, b}) = CHOOSE x \in {a, b} : \A y \in {a, b} : x <= y
  BY DEF Min
<1>5. (CHOOSE x \in {a, b} : \A y \in {a, b} : x <= y) = k
  BY <1>1, <1>2, <1>3
<1> QED
  BY <1>4, <1>5 DEF k

\* What a concatenation is.
LEMMA Concat ==
    ASSUME NEW T, NEW s \in Seq(T), NEW t \in Seq(T)
    PROVE  /\ s \o t \in Seq(T)
           /\ Len(s) \in Nat /\ Len(t) \in Nat /\ Len(s \o t) = Len(s) + Len(t)
           /\ \A j \in 1 .. Len(s) : (s \o t)[j] = s[j]
           /\ \A j \in 1 .. Len(t) : (s \o t)[Len(s) + j] = t[j]
OBVIOUS

\* The partial concatenations FlattenSeq recurses over.
Partial(f, seqs, n) ==
    f = [k \in 1 .. n |-> IF k = 1 THEN seqs[k] ELSE f[k - 1] \o seqs[k]]

\* There are partial concatenations of every length.
LEMMA PartialExists ==
    ASSUME NEW seqs, NEW n \in Nat
    PROVE  \E f : Partial(f, seqs, n)
<1> DEFINE T == {m \in Nat : \E f : Partial(f, seqs, m)}
<1>1. 0 \in T
  <2> DEFINE f == [k \in 1 .. 0 |-> seqs[k]]
  <2>1. Partial(f, seqs, 0)
    BY DEF Partial
  <2> QED
    BY <2>1
<1>2. ASSUME NEW m \in T PROVE m + 1 \in T
  <2>1. PICK f : Partial(f, seqs, m)
    BY <1>2
  <2> DEFINE g == [k \in 1 .. m + 1 |->
                     IF k = m + 1 THEN IF k = 1 THEN seqs[k] ELSE f[k - 1] \o seqs[k] ELSE f[k]]
             h == [k \in 1 .. m + 1 |-> IF k = 1 THEN seqs[k] ELSE g[k - 1] \o seqs[k]]
  <2>2. ASSUME NEW k \in 1 .. m + 1 PROVE g[k] = h[k]
    <3>1. CASE k = m + 1
      BY <1>2, <3>1
    <3>2. CASE k \in 1 .. m
      <4>1. g[k] = f[k]
        BY <1>2, <3>2
      <4>2. f[k] = IF k = 1 THEN seqs[k] ELSE f[k - 1] \o seqs[k]
        BY <2>1, <3>2 DEF Partial
      <4>3. k # 1 => g[k - 1] = f[k - 1]
        BY <1>2, <3>2
      <4> QED
        BY <2>2, <4>1, <4>2, <4>3
    <3> QED
      BY <1>2, <3>1, <3>2
  <2>3. g = h
    BY <2>2
  <2>4. Partial(g, seqs, m + 1)
    BY <2>3 DEF Partial
  <2> QED
    BY <1>2, <2>4
<1>3. T = Nat
  <2> HIDE DEF T
  <2>1. T \in SUBSET Nat
    BY DEF T
  <2> QED
    BY <1>1, <1>2, <2>1, InductiveSet
<1> QED
  BY <1>3

\* FlattenSeq is the last of them.
LEMMA FlattenIsLast ==
    ASSUME NEW n \in Nat \ {0}, NEW seqs, Len(seqs) = n
    PROVE  \E f : Partial(f, seqs, n) /\ FlattenSeq(seqs) = f[n]
<1> DEFINE f == CHOOSE g : Partial(g, seqs, n)
<1>1. Partial(f, seqs, n)
  BY PartialExists
<1>2. FlattenSeq(seqs) = f[n]
  BY DEF FlattenSeq, Partial
<1> QED
  BY <1>1, <1>2

\* at[k] is where the k-th of the sequences ends in their concatenation.
EndsAt(at, seqs, n) ==
    /\ at \in [0 .. n -> Nat]
    /\ at[0] = 0
    /\ \A k \in 1 .. n : at[k] = at[k - 1] + Len(seqs[k])

\* The first m sequences are in s one after the other.
HoldsFirst(s, seqs, at, m) ==
    /\ Len(s) = at[m]
    /\ \A k \in 1 .. m : /\ at[k] <= at[m]
                         /\ \A b \in 1 .. Len(seqs[k]) : s[at[k - 1] + b] = seqs[k][b]

\* FlattenSeq puts its sequences one after the other.
LEMMA Flattened ==
    ASSUME NEW T, NEW n \in Nat, NEW seqs \in [1 .. n -> Seq(T)],
           NEW at, EndsAt(at, seqs, n)
    PROVE  FlattenSeq(seqs) \in Seq(T) /\ HoldsFirst(FlattenSeq(seqs), seqs, at, n)
<1>1. Len(seqs) = n
  OBVIOUS
<1>2. CASE n = 0
  <2>1. FlattenSeq(seqs) = seqs
    BY <1>1, <1>2 DEF FlattenSeq
  <2>2. seqs = <<>>
    BY <1>2
  <2> QED
    BY <1>1, <1>2, <2>1, <2>2 DEF EndsAt, HoldsFirst
<1>3. CASE n # 0
  <2>1. PICK f : Partial(f, seqs, n) /\ FlattenSeq(seqs) = f[n]
    BY <1>1, <1>3, FlattenIsLast
  <2> DEFINE Good(m) == f[m] \in Seq(T) /\ HoldsFirst(f[m], seqs, at, m)
             U == {m \in Nat : m = 0 \/ m > n \/ Good(m)}
  <2>2. 0 \in U
    OBVIOUS
  <2>3. ASSUME NEW m \in U PROVE m + 1 \in U
    <3>1. CASE m + 1 > n
      BY <3>1
    <3>2. CASE m = 0
      <4>1. f[1] = seqs[1]
        BY <1>3, <2>1 DEF Partial
      <4>2. seqs[1] \in Seq(T) /\ at[1] = Len(seqs[1]) /\ at[0] = 0 /\ Len(seqs[1]) \in Nat
        BY <1>3 DEF EndsAt
      <4>3. HoldsFirst(f[1], seqs, at, 1)
        BY <4>1, <4>2 DEF HoldsFirst
      <4> QED
        BY <3>2, <4>1, <4>2, <4>3
    <3>3. CASE m # 0 /\ m + 1 <= n
      <4>1. m \in 1 .. n /\ m \in 0 .. n
        BY <3>3
      <4>p. PICK p \in 1 .. n : p = m + 1 /\ p # 1 /\ p - 1 = m /\ p \in 0 .. n
        BY <3>3
      <4>s. PICK s : s = f[m]
        OBVIOUS
      <4>t. PICK t : t = seqs[p]
        OBVIOUS
      <4>2. s \in Seq(T) /\ HoldsFirst(s, seqs, at, m)
        BY <2>3, <3>3, <4>1, <4>s
      <4>3. f[p] = s \o t
        BY <2>1, <4>p, <4>s, <4>t DEF Partial
      <4>4. /\ t \in Seq(T) /\ at[p] = at[m] + Len(t) /\ at[m] \in Nat /\ at[p] \in Nat
            /\ Len(t) \in Nat /\ Len(s) \in Nat /\ Len(s) = at[m]
        <5>1. at[p] = at[m] + Len(t) /\ at[m] \in Nat /\ at[p] \in Nat
          BY <4>1, <4>p, <4>t DEF EndsAt
        <5>2. t \in Seq(T)
          BY <4>p, <4>t
        <5> QED
          BY <4>2, <5>1, <5>2 DEF HoldsFirst
      <4> HIDE DEF Good, U
      <4>5. f[p] \in Seq(T) /\ Len(f[p]) = at[p]
        <5>1. s \o t \in Seq(T) /\ Len(s \o t) = Len(s) + Len(t)
          BY <4>2, <4>4, Concat
        <5> QED
          BY <4>3, <4>4, <5>1
      <4>6. ASSUME NEW k \in 1 .. m, NEW b \in 1 .. Len(seqs[k])
            PROVE  f[p][at[k - 1] + b] = seqs[k][b]
        <5>1. k \in 1 .. n /\ k - 1 \in 0 .. n /\ k \in 0 .. n
          BY <4>1
        <5>2. at[k] \in Nat /\ at[k - 1] \in Nat /\ at[k] = at[k - 1] + Len(seqs[k])
          BY <5>1 DEF EndsAt
        <5>3. seqs[k] \in Seq(T) /\ Len(seqs[k]) \in Nat
          BY <5>1
        <5>4. at[k] <= at[m] /\ s[at[k - 1] + b] = seqs[k][b]
          BY <4>2 DEF HoldsFirst
        <5>5. at[k - 1] + b \in 1 .. Len(s)
          <6>1. b \in Nat /\ b >= 1 /\ b <= Len(seqs[k])
            BY <5>3
          <6>2. at[k - 1] + b <= at[k - 1] + Len(seqs[k])
            BY <5>2, <5>3, <6>1
          <6>3. at[k - 1] + b <= Len(s)
            BY <4>4, <5>2, <5>4, <6>1, <6>2
          <6> QED
            BY <4>4, <5>2, <6>1, <6>3
        <5>6. \A j \in 1 .. Len(s) : (s \o t)[j] = s[j]
          BY <4>2, <4>4, Concat
        <5> QED
          BY <4>3, <5>4, <5>5, <5>6
      <4>7. ASSUME NEW b \in 1 .. Len(t) PROVE f[p][at[m] + b] = t[b]
        <5>1. (s \o t)[Len(s) + b] = t[b]
          BY <4>2, <4>4, Concat
        <5> QED
          BY <4>3, <4>4, <5>1
      <4>8. \A k \in 1 .. p : at[k] <= at[p]
        <5>1. \A k \in 1 .. m : at[k] \in Nat /\ at[k] <= at[m]
          BY <4>1, <4>2 DEF HoldsFirst, EndsAt
        <5>2. at[m] <= at[p]
          BY <4>4
        <5> TAKE k \in 1 .. p
        <5>3. k = p \/ k \in 1 .. m
          BY <4>1, <4>p
        <5> QED
          BY <4>4, <5>1, <5>2, <5>3
      <4>9. \A k \in 1 .. p : \A b \in 1 .. Len(seqs[k]) : f[p][at[k - 1] + b] = seqs[k][b]
        <5> TAKE k \in 1 .. p
        <5>1. CASE k = p
          BY <4>p, <4>t, <4>7, <5>1
        <5>2. CASE k \in 1 .. m
          BY <4>6, <5>2
        <5> QED
          BY <4>1, <4>p, <5>1, <5>2
      <4>10. HoldsFirst(f[p], seqs, at, p)
        BY <4>5, <4>8, <4>9 DEF HoldsFirst
      <4> QED
        BY <4>p, <4>5, <4>10 DEF Good, U
    <3> QED
      BY <2>3, <3>1, <3>2, <3>3
  <2>4. U = Nat
    <3> HIDE DEF U
    <3>1. U \in SUBSET Nat
      BY DEF U
    <3> QED
      BY <2>2, <2>3, <3>1, InductiveSet
  <2>5. Good(n)
    <3>1. n \in U
      BY <2>4
    <3> QED
      BY <1>3, <3>1
  <2> QED
    BY <2>1, <2>5
<1> QED
  BY <1>2, <1>3

\* The running sums RunningSum recurses over.
Running(f, x, n) == f = [k \in 0 .. n |-> IF k = 0 THEN 0 ELSE f[k - 1] + x[k]]

\* There are running sums of every length, in any set closed under addition.
LEMMA RunningExists ==
    ASSUME NEW n \in Nat, NEW S, 0 \in S, \A a, b \in S : a + b \in S, NEW x \in [1 .. n -> S]
    PROVE  \E f : Running(f, x, n) /\ f \in [0 .. n -> S]
<1> DEFINE Good(m) == \E f : Running(f, x, m) /\ f \in [0 .. m -> S]
           U == {m \in Nat : m > n \/ Good(m)}
<1>1. 0 \in U
  <2> DEFINE f == [k \in 0 .. 0 |-> 0]
             h == [k \in 0 .. 0 |-> IF k = 0 THEN 0 ELSE f[k - 1] + x[k]]
  <2>1. f = h
    OBVIOUS
  <2>2. Running(f, x, 0) /\ f \in [0 .. 0 -> S]
    BY <2>1 DEF Running
  <2> QED
    BY <2>2
<1>2. ASSUME NEW m \in U PROVE m + 1 \in U
  <2>1. CASE m + 1 > n
    BY <2>1
  <2>2. CASE m + 1 <= n
    <3>1. PICK f : Running(f, x, m) /\ f \in [0 .. m -> S]
      BY <2>2
    <3>2. x[m + 1] \in S /\ m \in 0 .. m /\ f[m] \in S
      BY <2>2, <3>1
    <3> DEFINE g == [k \in 0 .. m + 1 |-> IF k = m + 1 THEN f[m] + x[m + 1] ELSE f[k]]
               h == [k \in 0 .. m + 1 |-> IF k = 0 THEN 0 ELSE g[k - 1] + x[k]]
    <3>3. ASSUME NEW k \in 0 .. m + 1 PROVE g[k] = h[k]
      <4>1. CASE k = m + 1
        <5>1. g[k - 1] = f[m] /\ k - 1 = m /\ k # 0
          BY <1>2, <4>1
        <5> QED
          BY <4>1, <5>1
      <4>2. CASE k \in 0 .. m
        <5>1. g[k] = f[k]
          BY <1>2, <4>2
        <5>2. f[k] = IF k = 0 THEN 0 ELSE f[k - 1] + x[k]
          BY <3>1, <4>2 DEF Running
        <5>3. k # 0 => g[k - 1] = f[k - 1]
          BY <1>2, <4>2
        <5> QED
          BY <3>3, <5>1, <5>2, <5>3
      <4> QED
        BY <1>2, <4>1, <4>2
    <3>4. g = h
      BY <3>3
    <3>5. Running(g, x, m + 1)
      BY <3>4 DEF Running
    <3>6. g \in [0 .. m + 1 -> S]
      <4>1. f[m] + x[m + 1] \in S
        BY <3>2
      <4> QED
        BY <1>2, <3>1, <4>1
    <3> HIDE DEF g, h
    <3>7. Good(m + 1)
      BY <3>5, <3>6
    <3> QED
      BY <1>2, <3>7
  <2> QED
    BY <2>1, <2>2
<1>3. U = Nat
  <2> HIDE DEF U
  <2>1. U \in SUBSET Nat
    BY DEF U
  <2> QED
    BY <1>1, <1>2, <2>1, InductiveSet
<1>4. n \in U
  <2> HIDE DEF U
  <2> QED
    BY <1>3
<1>5. Good(n)
  <2> HIDE DEF Good
  <2> QED
    BY <1>4
<1> QED
  BY <1>5

\* At most one function is the running sums.
LEMMA RunningUnique ==
    ASSUME NEW n \in Nat, NEW x, NEW f, NEW g, Running(f, x, n), Running(g, x, n)
    PROVE  f = g
<1> DEFINE U == {m \in Nat : m > n \/ f[m] = g[m]}
<1>1. 0 \in U
  BY DEF Running
<1>2. ASSUME NEW m \in U PROVE m + 1 \in U
  <2>1. CASE m + 1 > n
    BY <2>1
  <2>2. CASE m + 1 <= n
    <3>1. f[m] = g[m] /\ m + 1 \in 0 .. n /\ m + 1 # 0 /\ (m + 1) - 1 = m
      BY <1>2, <2>2
    <3>2. f[m + 1] = f[m] + x[m + 1]
      BY <3>1 DEF Running
    <3>3. g[m + 1] = g[m] + x[m + 1]
      BY <3>1 DEF Running
    <3> QED
      BY <3>1, <3>2, <3>3
  <2> QED
    BY <2>1, <2>2
<1>3. U = Nat
  <2> HIDE DEF U
  <2>1. U \in SUBSET Nat
    BY DEF U
  <2> QED
    BY <1>1, <1>2, <2>1, InductiveSet
<1>4. \A m \in 0 .. n : f[m] = g[m]
  BY <1>3
<1>5. /\ f = [k \in 0 .. n |-> f[k]]
      /\ g = [k \in 0 .. n |-> g[k]]
  BY DEF Running
<1> QED
  BY <1>4, <1>5

\* RunningSum is the running sums.
LEMMA SumIsRunning ==
    ASSUME NEW n \in Nat, NEW S, 0 \in S, \A a, b \in S : a + b \in S, NEW x \in [1 .. n -> S]
    PROVE  RunningSum(n, x) \in [0 .. n -> S] /\ Running(RunningSum(n, x), x, n)
<1>1. PICK f : Running(f, x, n) /\ f \in [0 .. n -> S]
  BY RunningExists
<1>2. Running(RunningSum(n, x), x, n)
  <2>1. RunningSum(n, x) = CHOOSE g : Running(g, x, n)
    BY DEF RunningSum, Running
  <2> QED
    BY <1>1, <2>1
<1>3. RunningSum(n, x) = f
  BY <1>1, <1>2, RunningUnique
<1> QED
  BY <1>1, <1>3

\* What RunningSum is: 0 first, and each number added to what is before it.
LEMMA SumsAre ==
    ASSUME NEW n \in Nat, NEW S, 0 \in S, \A a, b \in S : a + b \in S, NEW x \in [1 .. n -> S]
    PROVE  /\ RunningSum(n, x) \in [0 .. n -> S]
           /\ RunningSum(n, x)[0] = 0
           /\ \A k \in 1 .. n : RunningSum(n, x)[k] = RunningSum(n, x)[k - 1] + x[k]
<1>1. PICK f : f = RunningSum(n, x)
  OBVIOUS
<1>2. f \in [0 .. n -> S] /\ Running(f, x, n)
  BY <1>1, SumIsRunning
<1>3. f[0] = 0 /\ \A k \in 1 .. n : f[k] = f[k - 1] + x[k]
  BY <1>2 DEF Running
<1> QED
  BY <1>1, <1>2, <1>3

----------------------------------------------------------------------------
(* The places of a concatenation                                           *)

\* The sums of the lengths are where the sequences end.
LEMMA EndsExist ==
    ASSUME NEW T, NEW n \in Nat, NEW seqs \in [1 .. n -> Seq(T)]
    PROVE  EndsAt(RunningSum(n, [k \in 1 .. n |-> Len(seqs[k])]), seqs, n)
<1> DEFINE lens == [k \in 1 .. n |-> Len(seqs[k])]
<1>1. 0 \in Nat /\ \A a, b \in Nat : a + b \in Nat
  OBVIOUS
<1>2. lens \in [1 .. n -> Nat] /\ \A k \in 1 .. n : lens[k] = Len(seqs[k])
  OBVIOUS
<1> HIDE DEF lens
<1>3. RunningSum(n, lens) \in [0 .. n -> Nat] /\ Running(RunningSum(n, lens), lens, n)
  BY <1>1, <1>2, SumIsRunning
<1>4. EndsAt(RunningSum(n, lens), seqs, n)
  BY <1>2, <1>3 DEF EndsAt, Running
<1> QED
  BY <1>4 DEF lens

\* A later sequence ends no earlier.
LEMMA EndsGrow ==
    ASSUME NEW T, NEW n \in Nat, NEW seqs \in [1 .. n -> Seq(T)], NEW at, EndsAt(at, seqs, n),
           NEW k \in 0 .. n, NEW m \in 0 .. n, k <= m
    PROVE  at[k] <= at[m]
<1> DEFINE U == {l \in Nat : l < k \/ l > n \/ at[k] <= at[l]}
<1>1. \A l \in 0 .. n : at[l] \in Nat
  BY DEF EndsAt
<1>2. 0 \in U
  <2>1. CASE k = 0
    <3>1. at[0] \in Nat
      BY <1>1
    <3> QED
      BY <2>1, <3>1
  <2>2. CASE k > 0
    BY <2>2
  <2> QED
    BY <2>1, <2>2
<1>3. ASSUME NEW l \in U PROVE l + 1 \in U
  <2>1. CASE l + 1 > n \/ l + 1 < k
    BY <1>3, <2>1
  <2>2. CASE l + 1 = k
    BY <1>1, <1>3, <2>2
  <2>3. CASE l + 1 <= n /\ l >= k
    <3>1. at[k] <= at[l] /\ l \in 0 .. n /\ l + 1 \in 1 .. n /\ (l + 1) - 1 = l
      BY <1>3, <2>3
    <3>2. at[l + 1] = at[l] + Len(seqs[l + 1]) /\ Len(seqs[l + 1]) \in Nat
      BY <3>1 DEF EndsAt
    <3>3. at[k] \in Nat /\ at[l] \in Nat
      BY <1>1, <3>1
    <3>4. at[k] <= at[l + 1]
      BY <3>1, <3>2, <3>3
    <3> QED
      BY <1>3, <3>4
  <2> QED
    BY <1>3, <2>1, <2>2, <2>3
<1>4. U = Nat
  <2> HIDE DEF U
  <2>1. U \in SUBSET Nat
    BY DEF U
  <2> QED
    BY <1>2, <1>3, <2>1, InductiveSet
<1>5. m \in U
  <2> HIDE DEF U
  <2> QED
    BY <1>4
<1> QED
  BY <1>5

\* Every place of the concatenation belongs to one of the sequences.
LEMMA EveryPlace ==
    ASSUME NEW T, NEW n \in Nat, NEW seqs \in [1 .. n -> Seq(T)], NEW at, EndsAt(at, seqs, n),
           NEW v \in 1 .. at[n]
    PROVE  \E k \in 1 .. n : \E b \in 1 .. Len(seqs[k]) :
              v = at[k - 1] + b /\ at[k - 1] < v /\ v <= at[k]
<1>1. at \in [0 .. n -> Nat] /\ at[0] = 0 /\ at[n] \in Nat
  BY DEF EndsAt
<1> DEFINE S == {k \in 0 .. n : v <= at[k]}
<1>2. S \in SUBSET Nat /\ n \in S
  BY <1>1
<1>3. PICK k \in S : \A e \in S : k <= e
  <2> HIDE DEF S
  <2> QED
    BY <1>2, LeastNat
<1>4. k \in 1 .. n /\ k - 1 \in 0 .. n /\ k - 1 \notin S
  BY <1>1, <1>3
<1>5. PICK a \in Nat : a = at[k - 1]
  BY <1>1, <1>4
<1>6. PICK l \in Nat : l = Len(seqs[k])
  BY <1>4
<1>7. at[k] = a + l
  BY <1>4, <1>5, <1>6 DEF EndsAt
<1>8. v \in Nat /\ a < v /\ v <= a + l
  BY <1>1, <1>3, <1>4, <1>5, <1>7
<1>9. v - a \in 1 .. l /\ v = a + (v - a)
  BY <1>8
<1> QED
  BY <1>4, <1>5, <1>6, <1>7, <1>8, <1>9

\* x is an element of one of the sequences.
ElementOf(x, seqs, n) == \E k \in 1 .. n : \E b \in 1 .. Len(seqs[k]) : x = seqs[k][b]

\* What the elements of a concatenation are.
LEMMA FlattenElement ==
    ASSUME NEW T, NEW n \in Nat, NEW seqs \in [1 .. n -> Seq(T)],
           NEW flat, flat = FlattenSeq(seqs)
    PROVE  \A v \in 1 .. Len(flat) : ElementOf(flat[v], seqs, n)
<1> SUFFICES ASSUME NEW v \in 1 .. Len(flat) PROVE ElementOf(flat[v], seqs, n)
  OBVIOUS
<1>1. PICK at : EndsAt(at, seqs, n)
  BY EndsExist
<1>2. HoldsFirst(flat, seqs, at, n)
  BY <1>1, Flattened
<1>3. v \in 1 .. at[n]
  BY <1>2 DEF HoldsFirst
<1>4. PICK k \in 1 .. n : \E b \in 1 .. Len(seqs[k]) :
              v = at[k - 1] + b /\ at[k - 1] < v /\ v <= at[k]
  BY <1>1, <1>3, EveryPlace
<1>5. PICK b \in 1 .. Len(seqs[k]) : v = at[k - 1] + b
  BY <1>4
<1>6. flat[v] = seqs[k][b]
  BY <1>2, <1>5 DEF HoldsFirst
<1> QED
  BY <1>6 DEF ElementOf

\* A concatenation has the elements its sequences have.
LEMMA FlattenType ==
    ASSUME NEW T, NEW n \in Nat, NEW seqs \in [1 .. n -> Seq(T)]
    PROVE  FlattenSeq(seqs) \in Seq(T)
<1>1. PICK at : EndsAt(at, seqs, n)
  BY EndsExist
<1> QED
  BY <1>1, Flattened
=============================================================================
