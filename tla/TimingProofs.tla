---------------------------- MODULE TimingProofs ----------------------------
(***************************************************************************)
(* What the lock-free histogram promises, for any number of workers, any   *)
(* bounds, all durations and however many records there are.               *)
(***************************************************************************)
EXTENDS Timing, FiniteSetTheorems, TLAPS

AtStep(a) == {w \in Workers : pc[w] = a}
Uncounted == AtStep("sum") \cup AtStep("count")
\* The records under way whose duration is of bucket b, and the records ever started.
Busy(b) == {w \in Workers : Recording(w) /\ Lies(us[w], b)}
In(b) == {k \in 1 .. Len(started) : Lies(started[k], b)}

\* A sum over workers as the size of a set: one pair for each microsecond.
Shares(P, f) == UNION {{w} \X (1 .. f[w]) : w \in P}
Owed(a) == Shares(AtStep(a), us)

\* In every state, and not only when no record is under way: what the counters have,
\* with what the records under way still owe, is what has been recorded.
Balance ==
    /\ count + Cardinality(Uncounted) = Len(started)
    /\ IsFiniteSet(Owed("sum")) /\ sum_us + Cardinality(Owed("sum")) = total
    /\ IsFiniteSet(Owed("count")) /\ sum_us = counted + Cardinality(Owed("count"))
    /\ \A b \in 1 .. N : buckets[b] + Cardinality(Busy(b)) = Cardinality(In(b))

\* What a loaded count stands for has been counted, and was in the sum when that was loaded.
LoadsFit ==
    \A w \in Workers :
        /\ floor[w] <= counted
        /\ pc[w] \in {"p50", "p99"} => sum[w] >= floor[w]

\* Label b is the first below whose bound lie as many durations as the target asks.
FirstReaching(b, pct) ==
    /\ Below(b) >= Target(Len(started), pct)
    /\ \A c \in 1 .. b - 1 : Below(c) < Target(Len(started), pct)

\* The loop of pct has added up the buckets before i, and none of them was enough.
Cursor(w, pct) ==
    /\ cum[w] = IF i[w] = 1 THEN 0 ELSE Below(i[w] - 1)
    /\ \A c \in 1 .. i[w] - 1 : Below(c) < Target(Len(started), pct)

\* How far a report is that no record overlaps.
QuietFits ==
    \A w \in Workers : quiet[w] =>
        /\ \A v \in Workers : ~ Recording(v)
        /\ n[w] = count
        /\ pc[w] = "p50" => Cursor(w, 50)
        /\ pc[w] = "p99" => Cursor(w, 99)
        /\ pc[w] = "p99" \/ (pc[w] = "idle" /\ p99[w] # None) =>
              p50[w] \in 1 .. N /\ FirstReaching(p50[w], 50)
        /\ pc[w] = "idle" /\ p99[w] # None => p99[w] \in 1 .. N /\ FirstReaching(p99[w], 99)

\* What f has for the labels before b.
Upto(f, b) == IF b = 1 THEN 0 ELSE f[b - 1]

\* complete adds up the buckets, and no bucket has fewer records than when a report began.
Layers ==
    \A b \in 1 .. N :
        /\ complete[b] = Upto(complete, b) + buckets[b]
        /\ \A w \in Workers : base[w][b] <= Upto(base[w], b) + buckets[b]

\* The loop of pct has loaded each bucket at some moment since the report began.
CloseCursor(w, pct) ==
    /\ Upto(base[w], i[w]) <= cum[w] /\ cum[w] <= Upto(complete, i[w])
    /\ \A c \in 1 .. i[w] - 1 : base[w][c] < Target(n[w], pct)

\* Between, with the target the code compares with.
CloseLabel(w, b, pct) ==
    /\ b \in 1 .. N
    /\ b = N \/ complete[b] >= Target(n[w], pct)
    /\ \A c \in 1 .. b - 1 : base[w][c] < Target(n[w], pct)

\* How far any report is; its labels are kept until the worker's next report.
Close(w) ==
    /\ pc[w] = "p50" => CloseCursor(w, 50)
    /\ pc[w] = "p99" => CloseCursor(w, 99)
    /\ pc[w] = "p99" \/ p99[w] # None => CloseLabel(w, p50[w], 50)
    /\ p99[w] # None => pc[w] \notin {"load_sum", "p50", "p99"} /\ CloseLabel(w, p99[w], 99)
CloseFits == \A w \in Workers : Close(w)

IInv == TypeOK /\ Balance /\ LoadsFit /\ QuietFits /\ Layers /\ CloseFits

----------------------------------------------------------------------------
(* Buckets                                                                 *)

\* A non-empty set of naturals has a least element.
LEMMA LeastNat ==
    ASSUME NEW T \in SUBSET Nat, T # {}
    PROVE  \E x \in T : \A y \in T : x <= y
<1>1. IsWellFoundedOn(OpToRel(<, Nat), Nat)
  BY NatLessThanWellFounded
<1>2. PICK x \in T : \A y \in T : ~ (<<y, x>> \in OpToRel(<, Nat))
  BY <1>1, WFMin, Zenon
<1>3. \A y \in T : ~ (y < x)
  BY <1>2 DEF OpToRel
<1> QED
  BY <1>3

\* The table of bounds, and one bucket more.
LEMMA NType ==
    /\ N \in Nat \ {0} /\ N - 1 = Len(BOUNDS)
    /\ \A b \in 1 .. N - 1 : BOUNDS[b] \in Nat
    /\ \A b, c \in 1 .. N - 1 : b < c => BOUNDS[b] < BOUNDS[c]
BY TimingAssumption DEF N

\* record finds the one bucket whose label says where the duration lies.
LEMMA BucketLies ==
    ASSUME NEW d \in Nat
    PROVE  /\ Bucket(d) \in 1 .. N
           /\ \A b \in 1 .. N : Lies(d, b) <=> b = Bucket(d)
<1>1. CASE \E b \in 1 .. N - 1 : d < BOUNDS[b]
  <2> DEFINE T == {b \in 1 .. N - 1 : d < BOUNDS[b]}
             First(b) == d < BOUNDS[b] /\ \A c \in 1 .. b - 1 : ~ d < BOUNDS[c]
  <2>1. T \in SUBSET Nat /\ T # {}
    BY <1>1, NType
  <2>2. PICK m \in T : \A y \in T : m <= y
    BY <2>1, LeastNat
  <2>3. m \in 1 .. N - 1 /\ First(m)
    <3>1. m \in 1 .. N - 1 /\ d < BOUNDS[m]
      BY <2>2
    <3>2. \A c \in 1 .. m - 1 : c \in 1 .. N - 1 /\ ~ (m <= c)
      BY <3>1, NType
    <3> QED BY <2>2, <3>1, <3>2
  <2>4. Bucket(d) = CHOOSE b \in 1 .. N - 1 : First(b)
    BY <1>1 DEF Bucket
  <2>5. Bucket(d) \in 1 .. N - 1 /\ First(Bucket(d))
    BY <2>3, <2>4
  <2> DEFINE B == Bucket(d)
  <2> HIDE DEF B
  <2>6. B \in 1 .. N - 1 /\ First(B)
    BY <2>5 DEF B
  <2>7. Lies(d, B)
    <3>1. B # 1 => B - 1 \in 1 .. B - 1 /\ BOUNDS[B - 1] \in Nat
      BY <2>6, NType
    <3> QED BY <2>6, <3>1 DEF Lies
  <2>8. ASSUME NEW b \in 1 .. N, Lies(d, b), b # B
        PROVE  FALSE
    <3>1. CASE b < B
      <4>1. b \in 1 .. B - 1 /\ b # N
        BY <2>6, <3>1, NType
      <4> QED BY <2>6, <2>8, <4>1 DEF Lies
    <3>2. CASE b > B
      <4>1. b # 1 /\ b - 1 \in 1 .. N - 1 /\ B \in 1 .. N - 1 /\ (B = b - 1 \/ B < b - 1)
        BY <2>6, <3>2, NType
      <4>2. BOUNDS[B] <= BOUNDS[b - 1] /\ BOUNDS[B] \in Nat /\ BOUNDS[b - 1] \in Nat
        BY <4>1, NType
      <4>3. BOUNDS[b - 1] <= d
        BY <2>8, <4>1 DEF Lies
      <4> QED BY <2>6, <4>2, <4>3
    <3> QED BY <2>6, <2>8, <3>1, <3>2, NType
  <2> QED BY <2>6, <2>7, <2>8, NType DEF B
<1>2. CASE ~ \E b \in 1 .. N - 1 : d < BOUNDS[b]
  <2>1. Bucket(d) = N
    BY <1>2 DEF Bucket
  <2>2. \A b \in 1 .. N - 1 : BOUNDS[b] <= d
    BY <1>2, NType
  <2>3. Lies(d, N)
    <3>1. N # 1 => N - 1 \in 1 .. N - 1
      BY NType
    <3> QED BY <2>2, <3>1 DEF Lies
  <2>4. \A b \in 1 .. N : b # N => b \in 1 .. N - 1
    BY NType
  <2>5. \A b \in 1 .. N : b # N => ~ Lies(d, b)
    BY <1>2, <2>4 DEF Lies
  <2> QED BY <2>1, <2>3, <2>5, NType
<1> QED BY <1>1, <1>2

----------------------------------------------------------------------------
(* Sums over workers                                                       *)

\* One more worker's microseconds: as many pairs more.
LEMMA ShareAdded ==
    ASSUME NEW P, NEW f, NEW w, w \notin P, f[w] \in Nat, IsFiniteSet(Shares(P, f))
    PROVE  /\ IsFiniteSet(Shares(P \cup {w}, f))
           /\ Cardinality(Shares(P \cup {w}, f)) = Cardinality(Shares(P, f)) + f[w]
<1> DEFINE mine == {w} \X (1 .. f[w])
<1>1. Shares(P \cup {w}, f) = Shares(P, f) \cup mine
  BY DEF Shares
<1>2. Shares(P, f) \cap mine = {}
  BY DEF Shares
<1>3. /\ IsFiniteSet(1 .. f[w]) /\ Cardinality(1 .. f[w]) = f[w]
      /\ IsFiniteSet({w}) /\ Cardinality({w}) = 1
  <2>1. /\ IsFiniteSet(1 .. f[w])
        /\ Cardinality(1 .. f[w]) = IF 1 > f[w] THEN 0 ELSE f[w] - 1 + 1
    BY FS_Interval
  <2>2. (IF 1 > f[w] THEN 0 ELSE f[w] - 1 + 1) = f[w]
    OBVIOUS
  <2> QED BY <2>1, <2>2, FS_Singleton
<1>4. IsFiniteSet(mine) /\ Cardinality(mine) = f[w]
  <2>1. IsFiniteSet(mine) /\ Cardinality(mine) = Cardinality({w}) * Cardinality(1 .. f[w])
    BY <1>3, FS_Product, Zenon
  <2>2. 1 * f[w] = f[w]
    OBVIOUS
  <2> QED BY <1>3, <2>1, <2>2
<1> HIDE DEF mine
<1>5. /\ IsFiniteSet(Shares(P, f) \cup mine)
      /\ Cardinality(Shares(P, f) \cup mine)
            = Cardinality(Shares(P, f)) + Cardinality(mine) - Cardinality({})
  BY <1>2, <1>4, FS_Union
<1>6. Cardinality(Shares(P, f)) \in Nat /\ Cardinality({}) = 0
  BY FS_CardinalityType, FS_EmptySet
<1>7. Cardinality(Shares(P, f)) + f[w] - 0 = Cardinality(Shares(P, f)) + f[w]
  BY <1>6
<1> QED BY <1>1, <1>4, <1>5, <1>6, <1>7, Zenon

\* And as many fewer when a worker is done.
LEMMA ShareRemoved ==
    ASSUME NEW P, NEW f, NEW w \in P, f[w] \in Nat, IsFiniteSet(Shares(P, f))
    PROVE  /\ IsFiniteSet(Shares(P \ {w}, f))
           /\ Cardinality(Shares(P, f)) = Cardinality(Shares(P \ {w}, f)) + f[w]
<1>1. Shares(P \ {w}, f) \subseteq Shares(P, f)
  BY DEF Shares
<1>2. IsFiniteSet(Shares(P \ {w}, f))
  BY <1>1, FS_Subset
<1>3. (P \ {w}) \cup {w} = P /\ w \notin P \ {w}
  OBVIOUS
<1>4. Cardinality(Shares((P \ {w}) \cup {w}, f)) = Cardinality(Shares(P \ {w}, f)) + f[w]
  BY <1>2, <1>3, ShareAdded
<1> QED BY <1>2, <1>3, <1>4

\* Sets of workers and of records are finite.
LEMMA Finite ==
    ASSUME started \in Seq(Nat)
    PROVE  /\ \A S \in SUBSET Workers : IsFiniteSet(S) /\ Cardinality(S) \in Nat
           /\ \A S \in SUBSET (1 .. Len(started)) : IsFiniteSet(S) /\ Cardinality(S) \in Nat
<1>1. IsFiniteSet(1 .. Len(started))
  BY FS_Interval
<1>2. \A S \in SUBSET Workers : IsFiniteSet(S)
  BY TimingAssumption, FS_Subset
<1>3. \A S \in SUBSET (1 .. Len(started)) : IsFiniteSet(S)
  BY <1>1, FS_Subset
<1> QED BY <1>2, <1>3, FS_CardinalityType

\* Adding and removing one element.
LEMMA CardOne ==
    ASSUME NEW S, IsFiniteSet(S), NEW x
    PROVE  /\ x \notin S => Cardinality(S \cup {x}) = Cardinality(S) + 1
           /\ x \in S => Cardinality(S) = Cardinality(S \ {x}) + 1
<1>1. Cardinality(S) \in Nat
  BY FS_CardinalityType
<1>2. ASSUME x \notin S
      PROVE  Cardinality(S \cup {x}) = Cardinality(S) + 1
  BY <1>2, FS_AddElement
<1>3. ASSUME x \in S
      PROVE  Cardinality(S) = Cardinality(S \ {x}) + 1
  <2>1. Cardinality(S \ {x}) = Cardinality(S) - 1
    BY <1>3, FS_RemoveElement
  <2> QED BY <1>1, <2>1
<1> QED BY <1>2, <1>3

----------------------------------------------------------------------------
(* The steps                                                               *)

ReportStep(w) ==
    ReportNoData(w) \/ ReportLoadCount(w) \/ ReportLoadSum(w) \/ ReportP50(w) \/ ReportP99(w)

\* A step is one of record or of report, in the order of the code.
LEMMA NextCases ==
    [Next]_vars =>
        \/ \E w \in Workers, d \in Durations : RecordCall(w, d)
        \/ \E w \in Workers : AddSum(w, "sum", "count")
        \/ \E w \in Workers : AddCount(w, "count", "bucket")
        \/ \E w \in Workers : AddBucket(w)
        \/ \E w \in Workers : ReportStep(w)
        \/ UNCHANGED vars
BY DEF Next, RecordAdds, ReportStep

\* A step of a report writes to the report's own variables only.
LEMMA ReportFrame ==
    ASSUME TypeOK, NEW w \in Workers, ReportStep(w)
    PROVE  /\ UNCHANGED <<sum_us, count, buckets, us, started, total, counted, complete>>
           /\ \A v \in Workers \ {w} :
                 UNCHANGED <<pc[v], n[v], sum[v], i[v], cum[v], p50[v], p99[v],
                             floor[v], base[v], quiet[v]>>
           /\ \A v \in Workers : \A a \in {"sum", "count", "bucket"} : pc'[v] = a <=> pc[v] = a
<1> USE DEF stats, local, history, TypeOK
<1>1. CASE ReportNoData(w)
  BY <1>1 DEF ReportNoData
<1>2. CASE ReportLoadCount(w)
  BY <1>2 DEF ReportLoadCount
<1>3. CASE ReportLoadSum(w)
  BY <1>3 DEF ReportLoadSum
<1>4. CASE ReportP50(w)
  BY <1>4 DEF ReportP50, PctGoesOn
<1>5. CASE ReportP99(w)
  BY <1>5 DEF ReportP99, PctGoesOn
<1> QED BY <1>1, <1>2, <1>3, <1>4, <1>5 DEF ReportStep

\* The atomics start at 0.
LEMMA TypeInit == Init => TypeOK
<1> SUFFICES ASSUME Init PROVE TypeOK
  OBVIOUS
<1>1. 1 \in 1 .. N
  BY NType
<1>2. <<>> \in Seq(Nat)
  OBVIOUS
<1> QED BY <1>1, <1>2 DEF Init, TypeOK

\* record keeps the types.
LEMMA RecordType ==
    ASSUME TypeOK, NEW w \in Workers,
           \/ \E d \in Durations : RecordCall(w, d)
           \/ AddSum(w, "sum", "count") \/ AddCount(w, "count", "bucket") \/ AddBucket(w)
    PROVE  TypeOK'
<1> USE DEF TypeOK, stats, local, history
<1>1. ASSUME NEW d \in Durations, RecordCall(w, d)
      PROVE  TypeOK'
  <2>1. d \in Nat
    BY TimingAssumption
  <2>2. UNCHANGED <<complete, base>> /\ quiet' \in [Workers -> BOOLEAN]
    BY <1>1 DEF RecordCall
  <2>3. us' \in [Workers -> Nat] /\ started' \in Seq(Nat) /\ total' \in Nat
    BY <1>1, <2>1 DEF RecordCall
  <2>4. /\ pc' = [pc EXCEPT ![w] = "sum"]
        /\ UNCHANGED <<stats, n, sum, i, cum, p50, p99, counted, floor>>
    BY <1>1 DEF RecordCall
  <2> QED BY <2>2, <2>3, <2>4
<1>2. CASE AddSum(w, "sum", "count")
  <2>1. us[w] \in Nat
    OBVIOUS
  <2>2. sum_us' \in Nat
    BY <1>2, <2>1 DEF AddSum
  <2>3. pc' = [pc EXCEPT ![w] = "count"] /\ UNCHANGED <<count, buckets, local, history>>
    BY <1>2 DEF AddSum
  <2> QED BY <2>2, <2>3
<1>3. CASE AddCount(w, "count", "bucket")
  <2>1. us[w] \in Nat
    OBVIOUS
  <2>2. count' \in Nat /\ counted' \in Nat
    BY <1>3, <2>1 DEF AddCount
  <2>3. /\ pc' = [pc EXCEPT ![w] = "bucket"]
        /\ UNCHANGED <<sum_us, buckets, local, started, total, floor, complete, base, quiet>>
    BY <1>3 DEF AddCount
  <2> QED BY <2>2, <2>3
<1>4. CASE AddBucket(w)
  <2>1. PICK b \in 1 .. N : b = Bucket(us[w])
    BY BucketLies
  <2>2. buckets' = [buckets EXCEPT ![b] = buckets[b] + 1] /\ buckets[b] + 1 \in Nat
    BY <1>4, <2>1 DEF AddBucket
  <2>3. buckets' \in [1 .. N -> Nat]
    BY <2>2
  <2>4. /\ pc' = [pc EXCEPT ![w] = "idle"]
        /\ UNCHANGED <<sum_us, count, local, started, total, counted, floor, base, quiet>>
    BY <1>4 DEF AddBucket
  <2>5. complete' \in [1 .. N -> Nat]
    BY <1>4 DEF AddBucket
  <2> QED BY <2>3, <2>4, <2>5
<1> QED BY <1>1, <1>2, <1>3, <1>4

\* The loop of pct stays within the labels: it returns at the last one at the latest.
LEMMA PctType ==
    ASSUME TypeOK, NEW w \in Workers, NEW pct, PctGoesOn(w, pct)
    PROVE  TypeOK'
<1>1. i[w] \in 1 .. N /\ i[w] # N
  BY DEF TypeOK, PctGoesOn, PctReturns
<1>2. i[w] + 1 \in 1 .. N
  BY <1>1, NType
<1>3. cum[w] + buckets[i[w]] \in Nat
  BY <1>1 DEF TypeOK
<1> QED BY <1>2, <1>3 DEF TypeOK, PctGoesOn, stats, history

\* report keeps the types: its label index stays within the table.
LEMMA ReportType ==
    ASSUME TypeOK, NEW w \in Workers, ReportStep(w)
    PROVE  TypeOK'
<1>0. 1 \in 1 .. N
  BY NType
<1>1. CASE ReportNoData(w)
  BY <1>1 DEF ReportNoData, TypeOK, stats, history
<1>2. CASE ReportLoadCount(w)
  <2>1. quiet' \in [Workers -> BOOLEAN]
    BY <1>2 DEF ReportLoadCount, TypeOK
  <2> QED BY <1>2, <2>1 DEF ReportLoadCount, TypeOK, stats
<1>3. CASE ReportLoadSum(w)
  BY <1>0, <1>3 DEF ReportLoadSum, TypeOK, stats, history
<1>4. CASE ReportP50(w)
  <2>1. CASE PctGoesOn(w, 50)
    BY <2>1, PctType
  <2>2. CASE ~ PctGoesOn(w, 50)
    <3>1. /\ p50' = [p50 EXCEPT ![w] = i[w]] /\ i' = [i EXCEPT ![w] = 1]
          /\ cum' = [cum EXCEPT ![w] = 0] /\ pc' = [pc EXCEPT ![w] = "p99"]
          /\ UNCHANGED <<stats, us, n, sum, p99, history>>
      BY <1>4, <2>2 DEF ReportP50
    <3>2. i' \in [Workers -> 1 .. N] /\ cum' \in [Workers -> Nat]
      BY <1>0, <3>1 DEF TypeOK
    <3>3. p50' \in [Workers -> 1 .. N \cup {None}]
      BY <3>1 DEF TypeOK
    <3>4. pc' \in [Workers -> {"idle", "sum", "count", "bucket", "load_sum", "p50", "p99"}]
      BY <3>1 DEF TypeOK
    <3> QED BY <3>1, <3>2, <3>3, <3>4 DEF TypeOK, stats, history
  <2> QED BY <2>1, <2>2
<1>5. CASE ReportP99(w)
  <2>1. CASE PctGoesOn(w, 99)
    BY <2>1, PctType
  <2>2. CASE ~ PctGoesOn(w, 99)
    BY <1>5, <2>2 DEF ReportP99, TypeOK, stats, history
  <2> QED BY <2>1, <2>2
<1> QED BY <1>1, <1>2, <1>3, <1>4, <1>5 DEF ReportStep

\* Both together.
LEMMA TypeStep == TypeOK /\ [Next]_vars => TypeOK'
<1> SUFFICES ASSUME TypeOK, [Next]_vars PROVE TypeOK'
  OBVIOUS
<1>1. CASE UNCHANGED vars
  BY <1>1 DEF vars, stats, local, history, TypeOK
<1> QED BY <1>1, NextCases, RecordType, ReportType

----------------------------------------------------------------------------
(* The balance                                                             *)

\* Nothing recorded and nothing owed.
LEMMA BalanceInit == Init => Balance
<1> SUFFICES ASSUME Init PROVE Balance
  OBVIOUS
<1>1. \A a : a # "idle" => AtStep(a) = {}
  BY DEF Init, AtStep
<1>2. Uncounted = {} /\ Owed("sum") = {} /\ Owed("count") = {}
  BY <1>1 DEF Uncounted, Owed, Shares
<1>3. \A b : Busy(b) = {} /\ In(b) = {}
  BY DEF Init, Busy, In, Recording
<1>4. /\ sum_us = 0 /\ count = 0 /\ total = 0 /\ counted = 0 /\ Len(started) = 0
      /\ \A b \in 1 .. N : buckets[b] = 0
  BY DEF Init
<1>5. IsFiniteSet({}) /\ Cardinality({}) = 0
  BY FS_EmptySet
<1>6. \A b \in 1 .. N : buckets[b] + Cardinality(Busy(b)) = Cardinality(In(b))
  <2> SUFFICES ASSUME NEW b \in 1 .. N
               PROVE  buckets[b] + Cardinality(Busy(b)) = Cardinality(In(b))
    OBVIOUS
  <2>1. buckets[b] = 0 /\ Cardinality(Busy(b)) = 0 /\ Cardinality(In(b)) = 0
    BY <1>3, <1>4, <1>5
  <2> QED BY <2>1
<1>7. /\ Cardinality(Uncounted) = 0 /\ Cardinality(Owed("sum")) = 0
      /\ Cardinality(Owed("count")) = 0
  BY <1>2, <1>5
<1>8. /\ count + Cardinality(Uncounted) = Len(started)
      /\ sum_us + Cardinality(Owed("sum")) = total
      /\ sum_us = counted + Cardinality(Owed("count"))
  BY <1>4, <1>7
<1> QED BY <1>2, <1>5, <1>6, <1>8 DEF Balance

\* Balance speaks of nothing a report changes.
LEMMA BalanceFrame ==
    ASSUME TypeOK, Balance,
           UNCHANGED <<sum_us, count, buckets, us, started, total, counted>>,
           \A v \in Workers : \A a \in {"sum", "count", "bucket"} : pc'[v] = a <=> pc[v] = a
    PROVE  Balance'
<1>1. \A a \in {"sum", "count"} : AtStep(a)' = AtStep(a)
  BY DEF AtStep
<1>2. Uncounted' = Uncounted /\ Owed("sum")' = Owed("sum") /\ Owed("count")' = Owed("count")
  BY <1>1 DEF Uncounted, Owed, Shares
<1>3. \A b : Busy(b)' = Busy(b) /\ In(b)' = In(b)
  BY DEF Busy, Recording, In, Lies
<1> QED BY <1>2, <1>3 DEF Balance

\* A new record owes all three counters.
LEMMA BalanceCall ==
    ASSUME TypeOK, Balance, NEW w \in Workers, NEW d \in Nat, RecordCall(w, d)
    PROVE  Balance'
<1>1. /\ w \in Workers /\ pc[w] = "idle" /\ pc' = [pc EXCEPT ![w] = "sum"]
      /\ us' = [us EXCEPT ![w] = d] /\ total' = total + d /\ started' = Append(started, d)
      /\ UNCHANGED <<sum_us, count, buckets, counted>>
  BY DEF RecordCall, stats
<1>2. /\ pc'[w] = "sum" /\ us'[w] = d
      /\ \A v \in Workers \ {w} : pc'[v] = pc[v] /\ us'[v] = us[v]
  BY <1>1 DEF TypeOK
<1>3. /\ sum_us \in Nat /\ count \in Nat /\ total \in Nat /\ counted \in Nat
      /\ started \in Seq(Nat) /\ started' \in Seq(Nat)
      /\ Len(started') = Len(started) + 1 /\ Len(started) \in Nat
  BY <1>1 DEF TypeOK
<1>4. /\ AtStep("sum")' = AtStep("sum") \cup {w} /\ w \notin AtStep("sum")
      /\ AtStep("count")' = AtStep("count") /\ w \notin AtStep("count")
  BY <1>1, <1>2 DEF AtStep
<1>5. Cardinality(Uncounted)' = Cardinality(Uncounted) + 1
  <2>1. Uncounted' = Uncounted \cup {w} /\ w \notin Uncounted
    BY <1>4 DEF Uncounted
  <2>2. IsFiniteSet(Uncounted)
    BY <1>3, Finite DEF Uncounted, AtStep
  <2> QED BY <2>1, <2>2, CardOne
<1>6. Owed("count")' = Owed("count")
  BY <1>1, <1>2, <1>4 DEF Owed, Shares, AtStep
<1>7. /\ IsFiniteSet(Owed("sum"))'
      /\ Cardinality(Owed("sum"))' = Cardinality(Owed("sum")) + d
  <2>1. Shares(AtStep("sum"), us') = Shares(AtStep("sum"), us)
    BY <1>2, <1>4 DEF Shares, AtStep
  <2>2. IsFiniteSet(Shares(AtStep("sum"), us'))
    BY <2>1 DEF Balance, Owed
  <2>3. /\ IsFiniteSet(Shares(AtStep("sum") \cup {w}, us'))
        /\ Cardinality(Shares(AtStep("sum") \cup {w}, us'))
              = Cardinality(Shares(AtStep("sum"), us')) + us'[w]
    BY <1>2, <1>4, <2>2, ShareAdded
  <2>4. Owed("sum")' = Shares(AtStep("sum") \cup {w}, us')
    BY <1>4 DEF Owed, Shares
  <2> QED BY <1>2, <2>1, <2>3, <2>4 DEF Owed
<1>8. ASSUME NEW b \in 1 .. N
      PROVE  buckets'[b] + Cardinality(Busy(b))' = Cardinality(In(b))'
  <2>1. IsFiniteSet(Busy(b)) /\ IsFiniteSet(In(b)) /\ Cardinality(Busy(b)) \in Nat
        /\ Cardinality(In(b)) \in Nat
    BY <1>3, Finite DEF Busy, In
  <2>2. w \notin Busy(b) /\ Len(started) + 1 \notin In(b)
    BY <1>1, <1>3 DEF Busy, Recording, In
  <2>3. Busy(b)' = IF Lies(d, b) THEN Busy(b) \cup {w} ELSE Busy(b)
    BY <1>2, <2>2 DEF Busy, Recording, Lies
  <2>4. In(b)' = IF Lies(d, b) THEN In(b) \cup {Len(started) + 1} ELSE In(b)
    <3>1. \A k \in 1 .. Len(started) : started'[k] = started[k]
      BY <1>1, <1>3
    <3>2. started'[Len(started) + 1] = d
      BY <1>1, <1>3
    <3>3. 1 .. Len(started') = (1 .. Len(started)) \cup {Len(started) + 1}
      BY <1>3
    <3> QED BY <3>1, <3>2, <3>3 DEF In, Lies
  <2>5. buckets[b] + Cardinality(Busy(b)) = Cardinality(In(b)) /\ buckets[b] \in Nat
    BY DEF Balance, TypeOK
  <2>6. CASE Lies(d, b)
    <3>1. /\ Cardinality(Busy(b))' = Cardinality(Busy(b)) + 1
          /\ Cardinality(In(b))' = Cardinality(In(b)) + 1
      BY <2>1, <2>2, <2>3, <2>4, <2>6, CardOne
    <3> QED BY <1>1, <2>1, <2>5, <3>1
  <2>7. CASE ~ Lies(d, b)
    BY <1>1, <2>3, <2>4, <2>5, <2>7
  <2> QED BY <2>6, <2>7
<1>9. Cardinality(Uncounted) \in Nat /\ Cardinality(Owed("sum")) \in Nat
  BY <1>3, Finite, FS_CardinalityType DEF Uncounted, AtStep, Balance
<1>10. /\ count + Cardinality(Uncounted) = Len(started)
       /\ sum_us + Cardinality(Owed("sum")) = total
  BY DEF Balance
<1>11. /\ count' + Cardinality(Uncounted)' = Len(started')
       /\ sum_us' + Cardinality(Owed("sum"))' = total'
  <2>0. /\ count' = count /\ sum_us' = sum_us /\ total' = total + d
        /\ count \in Nat /\ sum_us \in Nat
    BY <1>1, <1>3
  <2>1. count' + Cardinality(Uncounted)' = Len(started')
    <3>1. Len(started') = Len(started) + 1
      BY <1>3
    <3> QED BY <1>5, <1>9, <1>10, <2>0, <3>1
  <2>2. sum_us' + Cardinality(Owed("sum"))' = total'
    <3>1. Cardinality(Owed("sum"))' = Cardinality(Owed("sum")) + d
      BY <1>7
    <3> QED BY <1>9, <1>10, <2>0, <3>1
  <2> QED BY <2>1, <2>2
<1>12. IsFiniteSet(Owed("count"))' /\ sum_us' = counted' + Cardinality(Owed("count"))'
  BY <1>1, <1>6 DEF Balance
<1> QED BY <1>7, <1>8, <1>11, <1>12 DEF Balance

\* The addition to the sum: what was owed to it is now owed to the count.
LEMMA BalanceSum ==
    ASSUME TypeOK, Balance, NEW w \in Workers, AddSum(w, "sum", "count")
    PROVE  Balance'
<1>1. /\ pc[w] = "sum" /\ pc' = [pc EXCEPT ![w] = "count"]
      /\ sum_us' = sum_us + us[w]
      /\ UNCHANGED <<count, buckets, us, started, total, counted>>
  BY DEF AddSum, local, history
<1>2. us[w] \in Nat /\ sum_us \in Nat /\ total \in Nat /\ counted \in Nat
  BY DEF TypeOK
<1>3. /\ AtStep("sum")' = AtStep("sum") \ {w} /\ w \in AtStep("sum")
      /\ AtStep("count")' = AtStep("count") \cup {w} /\ w \notin AtStep("count")
  BY <1>1 DEF AtStep, TypeOK
<1>4. Uncounted' = Uncounted
  BY <1>3 DEF Uncounted
<1>5. \A b : Busy(b)' = Busy(b) /\ In(b)' = In(b)
  BY <1>1 DEF Busy, Recording, In, Lies, TypeOK
<1>6. /\ IsFiniteSet(Owed("sum")) /\ IsFiniteSet(Owed("count"))
      /\ sum_us + Cardinality(Owed("sum")) = total
      /\ sum_us = counted + Cardinality(Owed("count"))
  BY DEF Balance
<1>7. /\ Cardinality(Owed("sum")) \in Nat
      /\ Cardinality(Owed("count")) \in Nat
  BY <1>6, FS_CardinalityType
<1>8. /\ Owed("sum")' = Shares(AtStep("sum") \ {w}, us)
      /\ Owed("count")' = Shares(AtStep("count") \cup {w}, us)
  BY <1>1, <1>3 DEF Owed, Shares
<1>9. /\ IsFiniteSet(Owed("sum"))'
      /\ Cardinality(Owed("sum")) = Cardinality(Owed("sum"))' + us[w]
  <2>1. IsFiniteSet(Shares(AtStep("sum"), us))
    BY <1>6 DEF Owed
  <2>2. /\ IsFiniteSet(Shares(AtStep("sum") \ {w}, us))
        /\ Cardinality(Shares(AtStep("sum"), us)) = Cardinality(Shares(AtStep("sum") \ {w}, us)) + us[w]
    BY <1>2, <1>3, <2>1, ShareRemoved
  <2> QED BY <1>8, <2>2 DEF Owed
<1>10. /\ IsFiniteSet(Owed("count"))'
       /\ Cardinality(Owed("count"))' = Cardinality(Owed("count")) + us[w]
  BY <1>2, <1>3, <1>6, <1>8, ShareAdded DEF Owed
<1>11. Cardinality(Owed("sum"))' \in Nat
  BY <1>9, FS_CardinalityType
<1>12. /\ sum_us' + Cardinality(Owed("sum"))' = total'
       /\ sum_us' = counted' + Cardinality(Owed("count"))'
  BY <1>1, <1>2, <1>6, <1>7, <1>9, <1>10, <1>11
<1> QED BY <1>1, <1>4, <1>5, <1>9, <1>10, <1>12 DEF Balance

\* count.fetch_add(1): the worker moves from the uncounted to the counted.
LEMMA BalanceCount ==
    ASSUME TypeOK, Balance, NEW w \in Workers, AddCount(w, "count", "bucket")
    PROVE  Balance'
<1>1. /\ pc[w] = "count" /\ pc' = [pc EXCEPT ![w] = "bucket"]
      /\ count' = count + 1 /\ counted' = counted + us[w]
      /\ UNCHANGED <<sum_us, buckets, us, started, total>>
  BY DEF AddCount, local
<1>2. us[w] \in Nat /\ count \in Nat /\ counted \in Nat /\ started \in Seq(Nat)
  BY DEF TypeOK
<1>3. /\ AtStep("count")' = AtStep("count") \ {w} /\ w \in AtStep("count")
      /\ AtStep("sum")' = AtStep("sum") /\ w \notin AtStep("sum")
  BY <1>1 DEF AtStep, TypeOK
<1>4. Uncounted' = Uncounted \ {w} /\ w \in Uncounted
  BY <1>3 DEF Uncounted
<1>5. \A b : Busy(b)' = Busy(b) /\ In(b)' = In(b)
  BY <1>1 DEF Busy, Recording, In, Lies, TypeOK
<1>6. /\ IsFiniteSet(Owed("count"))
      /\ sum_us = counted + Cardinality(Owed("count"))
      /\ count + Cardinality(Uncounted) = Len(started)
  BY DEF Balance
<1>7. Owed("sum")' = Owed("sum") /\ Owed("count")' = Shares(AtStep("count") \ {w}, us)
  BY <1>1, <1>3 DEF Owed, Shares
<1>8. /\ IsFiniteSet(Owed("count"))'
      /\ Cardinality(Owed("count")) = Cardinality(Owed("count"))' + us[w]
  <2>1. IsFiniteSet(Shares(AtStep("count"), us))
    BY <1>6 DEF Owed
  <2>2. /\ IsFiniteSet(Shares(AtStep("count") \ {w}, us))
        /\ Cardinality(Shares(AtStep("count"), us))
              = Cardinality(Shares(AtStep("count") \ {w}, us)) + us[w]
    BY <1>2, <1>3, <2>1, ShareRemoved
  <2> QED BY <1>7, <2>2 DEF Owed
<1>9. Cardinality(Owed("count"))' \in Nat
  BY <1>8, FS_CardinalityType
<1>10. IsFiniteSet(Uncounted) /\ IsFiniteSet(Uncounted \ {w})
  BY <1>2, Finite DEF Uncounted, AtStep
<1>11. /\ Cardinality(Uncounted) = Cardinality(Uncounted)' + 1
       /\ Cardinality(Uncounted)' \in Nat
  BY <1>4, <1>10, CardOne, FS_CardinalityType
<1>12. sum_us' = counted' + Cardinality(Owed("count"))'
  <2>1. PICK o \in Nat : o = Cardinality(Owed("count"))'
    BY <1>9
  <2>2. sum_us = counted + (o + us[w])
    BY <1>6, <1>8, <2>1
  <2>3. counted + (o + us[w]) = (counted + us[w]) + o
    BY <1>2
  <2> QED BY <1>1, <2>1, <2>2, <2>3
<1>13. count' + Cardinality(Uncounted)' = Len(started')
  <2>1. PICK u \in Nat : u = Cardinality(Uncounted)'
    BY <1>11
  <2>2. count + (u + 1) = Len(started) /\ count + (u + 1) = (count + 1) + u
    BY <1>2, <1>6, <1>11, <2>1
  <2> QED BY <1>1, <2>1, <2>2
<1> QED BY <1>1, <1>5, <1>7, <1>8, <1>12, <1>13 DEF Balance

\* The last addition of record: the worker owes nothing any more.
LEMMA BalanceBucket ==
    ASSUME TypeOK, Balance, NEW w \in Workers, AddBucket(w)
    PROVE  Balance'
<1>1. /\ pc[w] = "bucket" /\ pc' = [pc EXCEPT ![w] = "idle"]
      /\ buckets' = [buckets EXCEPT ![Bucket(us[w])] = @ + 1]
      /\ UNCHANGED <<sum_us, count, us, started, total, counted>>
  BY DEF AddBucket, local, history
<1>2. us[w] \in Nat /\ started \in Seq(Nat) /\ buckets \in [1 .. N -> Nat]
  BY DEF TypeOK
<1>3. \A a \in {"sum", "count"} : AtStep(a)' = AtStep(a)
  BY <1>1 DEF AtStep, TypeOK
<1>4. Uncounted' = Uncounted /\ Owed("sum")' = Owed("sum") /\ Owed("count")' = Owed("count")
  BY <1>1, <1>3 DEF Uncounted, Owed, Shares
<1>5. ASSUME NEW b \in 1 .. N
      PROVE  buckets'[b] + Cardinality(Busy(b))' = Cardinality(In(b))'
  <2>1. IsFiniteSet(Busy(b)) /\ IsFiniteSet(Busy(b) \ {w}) /\ In(b)' = In(b)
    BY <1>1, <1>2, Finite DEF Busy, In, Lies
  <2>2. Busy(b)' = Busy(b) \ {w} /\ (w \in Busy(b) <=> Lies(us[w], b))
    BY <1>1 DEF Busy, Recording, Lies, TypeOK
  <2>3. buckets[b] + Cardinality(Busy(b)) = Cardinality(In(b)) /\ buckets[b] \in Nat
    BY <1>2 DEF Balance
  <2>4. CASE b = Bucket(us[w])
    <3>1. w \in Busy(b)
      BY <1>2, <2>2, <2>4, BucketLies
    <3>2. Cardinality(Busy(b)) = Cardinality(Busy(b))' + 1 /\ Cardinality(Busy(b))' \in Nat
      BY <2>1, <2>2, <3>1, CardOne, FS_CardinalityType
    <3>3. buckets'[b] = buckets[b] + 1
      BY <1>1, <1>2, <2>4
    <3> QED BY <2>1, <2>3, <3>2, <3>3
  <2>5. CASE b # Bucket(us[w])
    <3>1. w \notin Busy(b)
      BY <1>2, <2>2, <2>5, BucketLies
    <3>2. Busy(b)' = Busy(b) /\ buckets'[b] = buckets[b]
      BY <1>1, <1>2, <2>2, <2>5, <3>1
    <3> QED BY <2>1, <2>3, <3>2
  <2> QED BY <2>4, <2>5
<1> QED BY <1>1, <1>4, <1>5 DEF Balance

\* Every step of record and report keeps the balance.
LEMMA BalanceStep == TypeOK /\ Balance /\ [Next]_vars => Balance'
<1> SUFFICES ASSUME TypeOK, Balance, [Next]_vars PROVE Balance'
  OBVIOUS
<1>1. ASSUME NEW w \in Workers, NEW d \in Durations, RecordCall(w, d)
      PROVE  Balance'
  BY <1>1, BalanceCall, TimingAssumption
<1>2. ASSUME NEW w \in Workers, ReportStep(w)
      PROVE  Balance'
  BY <1>2, ReportFrame, BalanceFrame
<1>3. CASE UNCHANGED vars
  BY <1>3, BalanceFrame DEF vars, stats, local, history
<1> QED BY <1>1, <1>2, <1>3, NextCases, BalanceSum, BalanceCount, BalanceBucket

\* The balance with no record under way.
LEMMA Settled == TypeOK /\ Balance => NothingLost
<1> SUFFICES ASSUME TypeOK, Balance, \A w \in Workers : ~ Recording(w)
             PROVE  /\ count = Len(started)
                    /\ sum_us = total
                    /\ \A b \in 1 .. N : buckets[b] = Cardinality(In(b))
  BY DEF NothingLost, In
<1>1. AtStep("sum") = {} /\ AtStep("count") = {}
  BY DEF AtStep, Recording
<1>2. Uncounted = {} /\ Owed("sum") = {}
  BY <1>1 DEF Uncounted, Owed, Shares
<1>3. \A b : Busy(b) = {}
  BY DEF Busy
<1>4. Cardinality({}) = 0
  BY FS_EmptySet
<1>5. count + 0 = Len(started) /\ sum_us + 0 = total
  BY <1>2, <1>4 DEF Balance
<1>6. \A b \in 1 .. N : buckets[b] + 0 = Cardinality(In(b))
  BY <1>3, <1>4 DEF Balance
<1>7. count \in Nat /\ sum_us \in Nat /\ \A b \in 1 .. N : buckets[b] \in Nat
  BY DEF TypeOK
<1> QED BY <1>5, <1>6, <1>7

----------------------------------------------------------------------------
(* The average                                                             *)

\* A report loads the count before the sum, and both only grow in between.
LEMMA LoadsStep == TypeOK /\ Balance /\ LoadsFit /\ [Next]_vars => LoadsFit'
<1> SUFFICES ASSUME TypeOK, Balance, LoadsFit, [Next]_vars PROVE LoadsFit'
  OBVIOUS
<1>0. counted \in Nat /\ sum_us >= counted /\ sum_us \in Nat
  <2>1. Cardinality(Owed("count")) \in Nat /\ sum_us = counted + Cardinality(Owed("count"))
    BY FS_CardinalityType DEF Balance
  <2> QED BY <2>1 DEF TypeOK
<1>1. \A v \in Workers : floor[v] \in Nat /\ sum[v] \in Nat
  BY DEF TypeOK
\* Records only add to what is counted.
<1>2. ASSUME floor' = floor, sum' = sum, counted' \in Nat, counted' >= counted,
             \A v \in Workers : pc'[v] \in {"p50", "p99"} => pc[v] \in {"p50", "p99"}
      PROVE  LoadsFit'
  BY <1>0, <1>1, <1>2 DEF LoadsFit
<1>3. ASSUME NEW w \in Workers, NEW d \in Durations, RecordCall(w, d)
      PROVE  LoadsFit'
  <2>1. floor' = floor /\ sum' = sum /\ counted' = counted
    BY <1>3 DEF RecordCall
  <2>2. \A v \in Workers : pc'[v] \in {"p50", "p99"} => pc[v] \in {"p50", "p99"}
    BY <1>3 DEF RecordCall, TypeOK
  <2> QED BY <1>0, <1>2, <2>1, <2>2
<1>4. ASSUME NEW w \in Workers,
             AddSum(w, "sum", "count") \/ AddCount(w, "count", "bucket") \/ AddBucket(w)
      PROVE  LoadsFit'
  <2>1. floor' = floor /\ sum' = sum /\ (counted' = counted \/ counted' = counted + us[w])
    BY <1>4 DEF AddSum, AddCount, AddBucket, local, history
  <2>2. \A v \in Workers : pc'[v] \in {"p50", "p99"} => pc[v] \in {"p50", "p99"}
    BY <1>4 DEF AddSum, AddCount, AddBucket, TypeOK
  <2>3. us[w] \in Nat
    BY DEF TypeOK
  <2>4. counted' \in Nat /\ counted' >= counted
    BY <1>0, <2>1, <2>3
  <2> QED BY <1>2, <2>1, <2>2, <2>4
<1>5. ASSUME NEW w \in Workers, ReportStep(w)
      PROVE  LoadsFit'
  <2>1. /\ counted' = counted
        /\ \A v \in Workers \ {w} : UNCHANGED <<pc[v], sum[v], floor[v]>>
    BY <1>5, ReportFrame
  <2> SUFFICES floor'[w] <= counted /\ (pc'[w] \in {"p50", "p99"} => sum'[w] >= floor'[w])
    BY <2>1 DEF LoadsFit
  <2>2. floor[w] <= counted /\ (pc[w] \in {"p50", "p99"} => sum[w] >= floor[w])
    BY DEF LoadsFit
  <2>3. CASE ReportLoadCount(w)
    BY <1>0, <2>3 DEF ReportLoadCount, TypeOK
  <2>4. CASE ReportLoadSum(w)
    <3>1. sum'[w] = sum_us /\ floor'[w] = floor[w]
      BY <2>4 DEF ReportLoadSum, history, TypeOK
    <3> QED BY <1>0, <1>1, <2>2, <3>1
  <2>5. CASE ReportNoData(w)
    BY <2>2, <2>5 DEF ReportNoData, history
  <2>6. CASE ReportP50(w) \/ ReportP99(w)
    <3>1. sum' = sum /\ floor' = floor /\ pc[w] \in {"p50", "p99"}
      BY <2>6 DEF ReportP50, ReportP99, PctGoesOn, history
    <3> QED BY <2>2, <3>1
  <2> QED BY <1>5, <2>3, <2>4, <2>5, <2>6 DEF ReportStep
<1>6. CASE UNCHANGED vars
  BY <1>6 DEF vars, stats, local, history, LoadsFit
<1> QED BY <1>3, <1>4, <1>5, <1>6, NextCases

----------------------------------------------------------------------------
(* The percentiles                                                         *)

\* What is below a label is what is below the one before and what is in its bucket.
LEMMA BelowGrows ==
    ASSUME TypeOK, Balance, \A v \in Workers : ~ Recording(v), NEW b \in 1 .. N
    PROVE  Below(b) = (IF b = 1 THEN 0 ELSE Below(b - 1)) + buckets[b]
<1> DEFINE Set(c) == {k \in 1 .. Len(started) : c = N \/ started[k] < BOUNDS[c]}
<1>0. started \in Seq(Nat) /\ buckets[b] \in Nat /\ \A k \in 1 .. Len(started) : started[k] \in Nat
  <2>1. started \in Seq(Nat) /\ buckets[b] \in Nat
    BY DEF TypeOK
  <2> QED BY <2>1
<1>1. buckets[b] = Cardinality(In(b))
  BY Settled DEF NothingLost, In
<1>2. CASE b = 1
  <2>1. Set(1) = In(1)
    BY DEF In, Lies
  <2>2. Below(b) = buckets[b]
    BY <1>1, <1>2, <2>1 DEF Below
  <2> QED BY <1>0, <1>2, <2>2
<1>3. CASE b # 1
  <2>1. /\ b - 1 \in 1 .. N - 1 /\ b - 1 # N /\ BOUNDS[b - 1] \in Nat
        /\ b # N => b \in 1 .. N - 1 /\ BOUNDS[b] \in Nat /\ BOUNDS[b - 1] < BOUNDS[b]
    BY <1>3, NType
  <2>2. Set(b) = Set(b - 1) \cup In(b) /\ Set(b - 1) \cap In(b) = {}
    BY <1>0, <1>3, <2>1 DEF In, Lies
  <2>3. IsFiniteSet(Set(b - 1)) /\ IsFiniteSet(In(b)) /\ Cardinality(Set(b - 1)) \in Nat
    BY <1>0, Finite DEF In
  <2> HIDE DEF Set
  <2>4. Cardinality(Set(b)) = Cardinality(Set(b - 1)) + Cardinality(In(b)) - 0
    BY <2>2, <2>3, FS_Union, FS_EmptySet
  <2>5. Cardinality(Set(b)) = Cardinality(Set(b - 1)) + buckets[b]
    BY <1>0, <1>1, <2>3, <2>4
  <2> QED BY <1>3, <2>5 DEF Below, Set
<1> QED BY <1>2, <1>3

\* All buckets together hold every record.
LEMMA BelowAll == started \in Seq(Nat) => Below(N) = Len(started)
<1> SUFFICES ASSUME started \in Seq(Nat) PROVE Below(N) = Len(started)
  OBVIOUS
<1>1. Below(N) = Cardinality(1 .. Len(started))
  <2>1. {k \in 1 .. Len(started) : N = N \/ started[k] < BOUNDS[N]} = 1 .. Len(started)
    OBVIOUS
  <2> QED BY <2>1 DEF Below
<1>2. Cardinality(1 .. Len(started)) = IF 1 > Len(started) THEN 0 ELSE Len(started) - 1 + 1
  BY FS_Interval
<1>3. Len(started) \in Nat
  OBVIOUS
<1> QED BY <1>1, <1>2, <1>3

\* The target of a percentile: no more than there are records, and it grows with pct.
LEMMA TargetBound ==
    ASSUME NEW m \in Nat
    PROVE  /\ Target(m, 50) \in Nat /\ Target(m, 99) \in Nat
           /\ Target(m, 50) <= Target(m, 99) /\ Target(m, 99) <= m
BY DEF Target

\* One turn of the loop of pct, while no record is under way.
LEMMA CursorTurn ==
    ASSUME TypeOK, Balance, \A v \in Workers : ~ Recording(v),
           NEW w \in Workers, n[w] = count, NEW pct \in {50, 99}, Cursor(w, pct)
    PROVE  /\ cum[w] + buckets[i[w]] = Below(i[w])
           /\ PctReturns(w, pct) => FirstReaching(i[w], pct)
           /\ ~ PctReturns(w, pct) => \A c \in 1 .. i[w] : Below(c) < Target(Len(started), pct)
<1> DEFINE t == Target(Len(started), pct)
<1>1. i[w] \in 1 .. N /\ N \in Nat /\ started \in Seq(Nat) /\ Len(started) \in Nat
  BY NType DEF TypeOK
<1>2. n[w] = Len(started)
  BY Settled DEF NothingLost
<1>3. cum[w] + buckets[i[w]] = Below(i[w])
  BY <1>1, BelowGrows DEF Cursor
<1>4. t \in Nat /\ t <= Len(started)
  <2>1. CASE pct = 50
    BY <1>1, <2>1, TargetBound
  <2>2. CASE pct = 99
    BY <1>1, <2>2, TargetBound
  <2> QED BY <2>1, <2>2
<1>5. cum[w] + buckets[i[w]] \in Nat
  BY <1>1 DEF TypeOK
<1>6. \A c \in 1 .. i[w] - 1 : Below(c) < t
  BY DEF Cursor
<1>7. PctReturns(w, pct) <=> Below(i[w]) >= t \/ i[w] = N
  BY <1>2, <1>3 DEF PctReturns
<1> HIDE DEF t
<1>8. ASSUME PctReturns(w, pct)
      PROVE  Below(i[w]) >= t
  <2>1. Below(N) >= t
    BY <1>1, <1>4, BelowAll
  <2> QED BY <1>7, <1>8, <2>1
<1>9. ASSUME ~ PctReturns(w, pct), NEW c \in 1 .. i[w]
      PROVE  Below(c) < t
  <2>1. c = i[w] \/ c \in 1 .. i[w] - 1
    BY <1>1
  <2>2. Below(i[w]) < t
    BY <1>3, <1>4, <1>5, <1>7, <1>9
  <2> QED BY <1>6, <2>1, <2>2
<1> QED BY <1>3, <1>6, <1>8, <1>9 DEF FirstReaching, t

\* The labels of a report speak of the records only.
LEMMA LabelFrame ==
    started' = started =>
        /\ \A b : Below(b)' = Below(b)
        /\ \A b, pct : FirstReaching(b, pct)' = FirstReaching(b, pct)
BY DEF Below, FirstReaching, Target

\* A turn of the percentile loop adds one bucket, and stops at the first that is enough.
LEMMA QuietReportStep ==
    ASSUME TypeOK, Balance, QuietFits, NEW w \in Workers, ReportStep(w)
    PROVE  QuietFits'
<1> DEFINE Fits(v) ==
        /\ n[v] = count
        /\ pc[v] = "p50" => Cursor(v, 50)
        /\ pc[v] = "p99" => Cursor(v, 99)
        /\ pc[v] = "p99" \/ (pc[v] = "idle" /\ p99[v] # None) =>
              p50[v] \in 1 .. N /\ FirstReaching(p50[v], 50)
        /\ pc[v] = "idle" /\ p99[v] # None => p99[v] \in 1 .. N /\ FirstReaching(p99[v], 99)
<1>1. /\ UNCHANGED <<sum_us, count, buckets, us, started, total, counted>>
      /\ \A v \in Workers \ {w} :
            UNCHANGED <<pc[v], n[v], sum[v], i[v], cum[v], p50[v], p99[v], floor[v], quiet[v]>>
      /\ \A v \in Workers : Recording(v)' <=> Recording(v)
  BY ReportFrame DEF Recording
<1>2. /\ \A b : Below(b)' = Below(b)
      /\ \A b, pct : FirstReaching(b, pct)' <=> FirstReaching(b, pct)
  BY <1>1, LabelFrame
<1>3. \A v \in Workers : quiet[v] => (\A u \in Workers : ~ Recording(u)) /\ Fits(v)
  BY DEF QuietFits
<1>4. ASSUME NEW v \in Workers \ {w}, quiet'[v]
      PROVE  (\A u \in Workers : ~ Recording(u)') /\ Fits(v)'
  <2>1. quiet[v] /\ Fits(v) /\ \A u \in Workers : ~ Recording(u)
    BY <1>1, <1>3, <1>4
  <2>2. \A pct \in {50, 99} : Cursor(v, pct)' <=> Cursor(v, pct)
    BY <1>1, <1>2 DEF Cursor, Target
  <2> QED BY <1>1, <1>2, <2>1, <2>2
<1>5. ASSUME quiet'[w]
      PROVE  (\A u \in Workers : ~ Recording(u)') /\ Fits(w)'
  <2>1. CASE ReportLoadCount(w)
    BY <1>1, <1>5, <2>1 DEF ReportLoadCount, TypeOK
  <2>2. CASE ReportNoData(w)
    <3>1. quiet[w] /\ pc'[w] = "idle" /\ p99'[w] = None /\ n'[w] = count
      BY <1>5, <2>2 DEF ReportNoData, TypeOK, history
    <3> QED BY <1>1, <1>3, <3>1
  <2>3. CASE ReportLoadSum(w) \/ ReportP50(w) \/ ReportP99(w)
    <3>1. quiet[w] /\ n'[w] = n[w]
      BY <1>5, <2>3 DEF ReportLoadSum, ReportP50, ReportP99, PctGoesOn, history
    <3>2. n[w] = count /\ n'[w] = count' /\ (\A u \in Workers : ~ Recording(u)) /\ Fits(w)
          /\ \A u \in Workers : ~ Recording(u)'
      BY <1>1, <1>3, <3>1
    <3>3. i[w] \in 1 .. N /\ i[w] + 1 # 1 /\ (i[w] + 1) - 1 = i[w]
      BY NType DEF TypeOK
    <3>4. CASE ReportLoadSum(w)
      <4>1. pc'[w] = "p50" /\ i'[w] = 1 /\ cum'[w] = 0
        BY <3>4 DEF ReportLoadSum, TypeOK
      <4>2. Cursor(w, 50)'
        BY <4>1 DEF Cursor
      <4> QED BY <3>2, <4>1, <4>2
    <3>5. ASSUME NEW pct \in {50, 99}, Cursor(w, pct), PctGoesOn(w, pct)
          PROVE  Cursor(w, pct)'
      <4>1. /\ i'[w] = i[w] + 1 /\ cum'[w] = cum[w] + buckets[i[w]] /\ ~ PctReturns(w, pct)
        BY <3>5 DEF PctGoesOn, TypeOK
      <4>2. cum'[w] = Below(i[w]) /\ \A c \in 1 .. i[w] : Below(c) < Target(Len(started), pct)
        BY <3>2, <3>5, <4>1, CursorTurn
      <4> QED BY <1>1, <1>2, <3>3, <4>1, <4>2 DEF Cursor, Target
    <3>6. CASE ReportP50(w)
      <4>0. Cursor(w, 50)
        BY <3>2, <3>6 DEF ReportP50
      <4>1. CASE PctGoesOn(w, 50)
        <5>1. pc'[w] = "p50"
          BY <3>6, <4>1 DEF ReportP50, PctGoesOn
        <5> QED BY <3>2, <3>5, <4>0, <4>1, <5>1
      <4>2. CASE ~ PctGoesOn(w, 50)
        <5>1. /\ PctReturns(w, 50) /\ pc'[w] = "p99" /\ p50'[w] = i[w]
              /\ i'[w] = 1 /\ cum'[w] = 0
          BY <3>6, <4>2 DEF ReportP50, TypeOK
        <5>2. FirstReaching(i[w], 50)
          BY <3>2, <4>0, <5>1, CursorTurn
        <5>3. Cursor(w, 99)'
          BY <5>1 DEF Cursor
        <5>4. p50'[w] \in 1 .. N /\ FirstReaching(p50[w], 50)'
          BY <1>2, <3>3, <5>1, <5>2
        <5> QED BY <3>2, <5>1, <5>3, <5>4
      <4> QED BY <4>1, <4>2
    <3>7. CASE ReportP99(w)
      <4>0. Cursor(w, 99) /\ p50[w] \in 1 .. N /\ FirstReaching(p50[w], 50)
        BY <3>2, <3>7 DEF ReportP99
      <4>1. p50' = p50
        BY <3>7 DEF ReportP99, PctGoesOn
      <4>2. p50'[w] \in 1 .. N /\ FirstReaching(p50[w], 50)'
        BY <1>2, <4>0, <4>1
      <4>3. CASE PctGoesOn(w, 99)
        <5>1. pc'[w] = "p99"
          BY <3>7, <4>3 DEF ReportP99, PctGoesOn
        <5> QED BY <3>2, <3>5, <4>0, <4>2, <4>3, <5>1
      <4>4. CASE ~ PctGoesOn(w, 99)
        <5>1. PctReturns(w, 99) /\ pc'[w] = "idle" /\ p99'[w] = i[w]
          BY <3>7, <4>4 DEF ReportP99, TypeOK
        <5>2. FirstReaching(i[w], 99)
          BY <3>2, <4>0, <5>1, CursorTurn
        <5>3. p99'[w] \in 1 .. N /\ FirstReaching(p99[w], 99)'
          BY <1>2, <3>3, <5>1, <5>2
        <5> QED BY <3>2, <4>2, <5>1, <5>3
      <4> QED BY <4>3, <4>4
    <3> QED BY <2>3, <3>4, <3>6, <3>7
  <2> QED BY <2>1, <2>2, <2>3 DEF ReportStep
<1>6. \A v \in Workers : quiet'[v] => (\A u \in Workers : ~ Recording(u)') /\ Fits(v)'
  BY <1>4, <1>5
<1> QED BY <1>6 DEF QuietFits

\* A report stays undisturbed until a record starts.
LEMMA QuietStep == TypeOK /\ Balance /\ QuietFits /\ [Next]_vars => QuietFits'
<1> SUFFICES ASSUME TypeOK, Balance, QuietFits, [Next]_vars PROVE QuietFits'
  OBVIOUS
<1>1. ASSUME NEW w \in Workers, NEW d \in Durations, RecordCall(w, d)
      PROVE  QuietFits'
  BY <1>1 DEF RecordCall, QuietFits
<1>2. ASSUME NEW w \in Workers,
             AddSum(w, "sum", "count") \/ AddCount(w, "count", "bucket") \/ AddBucket(w)
      PROVE  QuietFits'
  <2>1. Recording(w) /\ quiet' = quiet
    BY <1>2 DEF AddSum, AddCount, AddBucket, Recording, history
  <2>2. \A v \in Workers : ~ quiet[v]
    BY <2>1 DEF QuietFits
  <2> QED BY <2>1, <2>2 DEF QuietFits
<1>3. CASE UNCHANGED vars
  <2>1. UNCHANGED <<count, pc, n, i, cum, p50, p99, started, quiet>>
    BY <1>3 DEF vars, stats, local, history
  <2>2. /\ \A b : Below(b)' = Below(b)
        /\ \A b, pct : FirstReaching(b, pct)' <=> FirstReaching(b, pct)
    BY <2>1, LabelFrame
  <2>3. \A w \in Workers, pct \in {50, 99} : Cursor(w, pct)' <=> Cursor(w, pct)
    BY <2>1, <2>2 DEF Cursor, Target
  <2>4. \A w \in Workers : Recording(w)' <=> Recording(w)
    BY <2>1 DEF Recording
  <2> QED BY <2>1, <2>2, <2>3, <2>4 DEF QuietFits
<1> QED BY <1>1, <1>2, <1>3, NextCases, QuietReportStep

----------------------------------------------------------------------------
(* Reports that records overlap                                            *)

\* Reaching the truncated target is having the share, to within one record.
LEMMA Rank ==
    ASSUME NEW k \in Nat, NEW m \in Nat, NEW pct \in {50, 99}
    PROVE  /\ Target(m, pct) \in Nat
           /\ k >= Target(m, pct) <=> Reaches(k, m, pct)
<1>1. CASE pct = 50
  BY <1>1 DEF Target, Reaches
<1>2. CASE pct = 99
  BY <1>2 DEF Target, Reaches
<1> QED BY <1>1, <1>2

\* Adding a duration to its bucket raises the labels from there on.
LEMMA LayersAdd ==
    ASSUME TypeOK, Layers, NEW w \in Workers, AddBucket(w)
    PROVE  /\ Layers'
           /\ \A b \in 1 .. N : complete'[b] >= complete[b] /\ complete'[b] \in Nat
<1> DEFINE below(b) == b = N \/ us[w] < BOUNDS[b]
           one(b) == IF below(b) THEN 1 ELSE 0
<1>0. /\ us[w] \in Nat /\ N \in Nat \ {0} /\ \A b \in 1 .. N : complete[b] \in Nat /\ buckets[b] \in Nat
      /\ \A v \in Workers : \A b \in 1 .. N : base[v][b] \in Nat
  BY NType DEF TypeOK
<1>1. PICK B \in 1 .. N : B = Bucket(us[w]) /\ \A b \in 1 .. N : Lies(us[w], b) <=> b = B
  BY <1>0, BucketLies
<1>2. /\ \A b \in 1 .. N : complete'[b] = complete[b] + one(b)
      /\ \A b \in 1 .. N : buckets'[b] = buckets[b] + IF b = B THEN 1 ELSE 0
      /\ base' = base
  <2>1. base' = base /\ complete' = [b \in 1 .. N |-> complete[b] + one(b)]
    BY DEF AddBucket
  <2>2. buckets' = [buckets EXCEPT ![B] = @ + 1] /\ buckets \in [1 .. N -> Nat]
    BY <1>1 DEF AddBucket, TypeOK
  <2>3. \A b \in 1 .. N : complete'[b] = complete[b] + one(b)
    BY <2>1, Zenon
  <2>4. \A b \in 1 .. N : buckets'[b] = buckets[b] + IF b = B THEN 1 ELSE 0
    BY <1>0, <2>2
  <2> QED BY <2>1, <2>3, <2>4
<1>3. one(1) = IF 1 = B THEN 1 ELSE 0
  BY <1>0, <1>1 DEF Lies
<1>4. ASSUME NEW b \in 1 .. N, b # 1
      PROVE  /\ b - 1 \in 1 .. N
             /\ one(b) = one(b - 1) + IF b = B THEN 1 ELSE 0
  <2>1. /\ b - 1 \in 1 .. N - 1 /\ b - 1 \in 1 .. N /\ b - 1 # N /\ BOUNDS[b - 1] \in Nat
        /\ b # N => b \in 1 .. N - 1 /\ BOUNDS[b] \in Nat /\ BOUNDS[b - 1] < BOUNDS[b]
    BY <1>4, NType
  <2>2. Lies(us[w], b) <=> b = B
    BY <1>1
  <2>3. below(b - 1) => below(b)
    BY <1>0, <2>1
  <2>4. b = B <=> (~ below(b - 1) /\ below(b))
    BY <1>0, <1>4, <2>1, <2>2 DEF Lies
  <2> QED BY <2>1, <2>3, <2>4
<1> HIDE DEF one
<1>5. \A b \in 1 .. N : one(b) \in Nat
  BY DEF one
<1>6. ASSUME NEW b \in 1 .. N
      PROVE  complete'[b] = Upto(complete', b) + buckets'[b]
  <2>1. complete[b] = Upto(complete, b) + buckets[b]
    BY DEF Layers
  <2>2. CASE b = 1
    BY <1>0, <1>2, <1>3, <2>1, <2>2 DEF Upto
  <2>3. CASE b # 1
    <3>1. b - 1 \in 1 .. N /\ one(b) = one(b - 1) + IF b = B THEN 1 ELSE 0
      BY <1>4, <2>3
    <3>2. complete[b] = complete[b - 1] + buckets[b]
      BY <2>1, <2>3 DEF Upto
    <3>3. complete'[b] = complete'[b - 1] + buckets'[b]
      BY <1>0, <1>2, <1>5, <3>1, <3>2
    <3> QED BY <2>3, <3>3 DEF Upto
  <2> QED BY <2>2, <2>3
<1>7. ASSUME NEW b \in 1 .. N, NEW v \in Workers
      PROVE  base'[v][b] <= Upto(base'[v], b) + buckets'[b]
  <2>1. base[v][b] <= Upto(base[v], b) + buckets[b]
    BY DEF Layers
  <2>2. Upto(base[v], b) \in Nat
    <3>1. b # 1 => b - 1 \in 1 .. N
      BY <1>4
    <3> QED BY <1>0, <3>1 DEF Upto
  <2>3. buckets'[b] \in Nat /\ buckets[b] <= buckets'[b]
    BY <1>0, <1>2
  <2>4. base'[v] = base[v]
    BY <1>2
  <2> QED BY <1>0, <2>1, <2>2, <2>3, <2>4
<1>8. Layers'
  BY <1>6, <1>7 DEF Layers
<1> QED BY <1>0, <1>2, <1>5, <1>8

\* A report begins with what is complete.
LEMMA LayersReport ==
    ASSUME TypeOK, Layers, NEW w \in Workers, ReportStep(w)
    PROVE  Layers'
<1>1. /\ buckets' = buckets /\ complete' = complete
      /\ \A v \in Workers \ {w} : base'[v] = base[v]
  BY ReportFrame
<1>2. base'[w] = base[w] \/ base'[w] = complete
  <2>1. CASE ReportLoadCount(w)
    BY <2>1 DEF ReportLoadCount, TypeOK
  <2>2. CASE ~ ReportLoadCount(w)
    BY <2>2 DEF ReportStep, ReportNoData, ReportLoadSum, ReportP50, ReportP99, PctGoesOn, history
  <2> QED BY <2>1, <2>2
<1>3. \A b \in 1 .. N : complete[b] \in Nat /\ complete[b] <= Upto(complete, b) + buckets[b]
  <2>1. \A b \in 1 .. N : complete[b] \in Nat
    BY DEF TypeOK
  <2> QED BY <2>1 DEF Layers
<1>4. \A b \in 1 .. N : complete'[b] = Upto(complete', b) + buckets'[b]
  BY <1>1 DEF Layers
<1>5. ASSUME NEW b \in 1 .. N, NEW v \in Workers
      PROVE  base'[v][b] <= Upto(base'[v], b) + buckets'[b]
  <2>1. base'[v] = base[v] \/ base'[v] = complete
    BY <1>1, <1>2
  <2>2. base[v][b] <= Upto(base[v], b) + buckets[b]
    BY DEF Layers
  <2> QED BY <1>1, <1>3, <2>1, <2>2
<1> QED BY <1>4, <1>5 DEF Layers

\* In every step.
LEMMA LayersStep == TypeOK /\ Layers /\ [Next]_vars => Layers'
<1> SUFFICES ASSUME TypeOK, Layers, [Next]_vars PROVE Layers'
  OBVIOUS
<1>1. ASSUME UNCHANGED <<buckets, complete, base>>
      PROVE  Layers'
  BY <1>1 DEF Layers
<1>2. ASSUME NEW w \in Workers, NEW d \in Durations, RecordCall(w, d)
      PROVE  Layers'
  BY <1>1, <1>2 DEF RecordCall, stats
<1>3. ASSUME NEW w \in Workers, AddSum(w, "sum", "count") \/ AddCount(w, "count", "bucket")
      PROVE  Layers'
  BY <1>1, <1>3 DEF AddSum, AddCount, history
<1>4. CASE UNCHANGED vars
  BY <1>1, <1>4 DEF vars, stats, history
<1> QED BY <1>2, <1>3, <1>4, NextCases, LayersAdd, LayersReport

\* What is said of a report outlives the records of other workers, and its own
\* worker's: complete only grows.
LEMMA CloseKept ==
    ASSUME TypeOK, NEW v \in Workers, Close(v),
           pc'[v] \in {"p50", "p99"} => pc'[v] = pc[v],
           p99[v] # None => pc'[v] # "load_sum",
           UNCHANGED <<n[v], i[v], cum[v], p50[v], p99[v], base[v]>>,
           \A b \in 1 .. N : complete'[b] \in Nat /\ complete'[b] >= complete[b]
    PROVE  Close(v)'
<1>1. /\ i[v] \in 1 .. N /\ cum[v] \in Nat /\ n[v] \in Nat
      /\ \A b \in 1 .. N : complete[b] \in Nat
  BY DEF TypeOK
<1>2. ASSUME NEW pct \in {50, 99}, CloseCursor(v, pct)
      PROVE  CloseCursor(v, pct)'
  <2>1. Upto(complete, i[v]) <= Upto(complete', i[v]) /\ Upto(complete, i[v]) \in Nat
        /\ Upto(complete', i[v]) \in Nat
    <3>1. i[v] # 1 => i[v] - 1 \in 1 .. N
      BY <1>1, NType
    <3> QED BY <1>1, <3>1 DEF Upto
  <2>2. cum[v] <= Upto(complete', i[v])
    BY <1>1, <1>2, <2>1 DEF CloseCursor
  <2>3. /\ Upto(base[v], i[v]) <= cum[v]
        /\ \A c \in 1 .. i[v] - 1 : base[v][c] < Target(n[v], pct)
    BY <1>2 DEF CloseCursor
  <2> QED BY <2>2, <2>3 DEF CloseCursor, Target
<1>3. ASSUME NEW pct \in {50, 99}, NEW b, CloseLabel(v, b, pct)
      PROVE  /\ b \in 1 .. N
             /\ b = N \/ complete'[b] >= Target(n'[v], pct)
             /\ \A c \in 1 .. b - 1 : base'[v][c] < Target(n'[v], pct)
  <2>1. b \in 1 .. N /\ Target(n[v], pct) \in Nat
    BY <1>1, <1>3, Rank DEF CloseLabel
  <2>2. b = N \/ complete'[b] >= Target(n[v], pct)
    BY <1>1, <1>3, <2>1 DEF CloseLabel
  <2> QED BY <1>3, <2>1, <2>2 DEF CloseLabel
<1>4. CloseLabel(v, p50[v], 50) => CloseLabel(v, p50[v], 50)'
  BY <1>3 DEF CloseLabel, Target
<1>5. CloseLabel(v, p99[v], 99) => CloseLabel(v, p99[v], 99)'
  BY <1>3 DEF CloseLabel, Target
<1> QED BY <1>2, <1>4, <1>5 DEF Close

\* The records complete below each bound.
LEMMA BaseType ==
    ASSUME TypeOK, NEW w \in Workers
    PROVE  \A b \in 1 .. N : complete[b] \in Nat /\ base[w][b] \in Nat
<1>1. base \in [Workers -> [1 .. N -> Nat]] /\ complete \in [1 .. N -> Nat]
  BY DEF TypeOK
<1>2. base[w] \in [1 .. N -> Nat]
  BY <1>1, Zenon
<1> QED BY <1>1, <1>2, Zenon

\* One turn of pct's loop: the sum stays between what was complete when the report
\* began and what is complete now.
LEMMA CloseTurn ==
    ASSUME TypeOK, Layers, NEW w \in Workers, NEW pct \in {50, 99}, CloseCursor(w, pct)
    PROVE  /\ base[w][i[w]] <= cum[w] + buckets[i[w]] /\ cum[w] + buckets[i[w]] <= complete[i[w]]
           /\ PctReturns(w, pct) => CloseLabel(w, i[w], pct)
           /\ ~ PctReturns(w, pct) => \A c \in 1 .. i[w] : base[w][c] < Target(n[w], pct)
<1>1. PICK k \in 1 .. N : k = i[w]
  BY DEF TypeOK
<1>2. /\ cum[w] \in Nat /\ n[w] \in Nat /\ buckets[k] \in Nat
      /\ base[w][k] \in Nat /\ complete[k] \in Nat
      /\ Upto(base[w], k) \in Nat /\ Upto(complete, k) \in Nat
  <2>1. k # 1 => k - 1 \in 1 .. N
    BY NType
  <2>2. \A b \in 1 .. N : complete[b] \in Nat /\ buckets[b] \in Nat /\ base[w][b] \in Nat
    <3>1. \A b \in 1 .. N : buckets[b] \in Nat
      BY DEF TypeOK
    <3>2. \A b \in 1 .. N : complete[b] \in Nat /\ base[w][b] \in Nat
      BY BaseType
    <3> QED BY <3>1, <3>2
  <2>3. cum[w] \in Nat /\ n[w] \in Nat
    BY DEF TypeOK
  <2> QED BY <2>1, <2>2, <2>3 DEF Upto
<1>3. PICK t \in Nat : t = Target(n[w], pct)
  BY <1>2, Rank
<1>4. /\ complete[k] = Upto(complete, k) + buckets[k]
      /\ base[w][k] <= Upto(base[w], k) + buckets[k]
  BY DEF Layers
<1>5. /\ Upto(base[w], k) <= cum[w] /\ cum[w] <= Upto(complete, k)
      /\ \A c \in 1 .. k - 1 : base[w][c] < t
  BY <1>1, <1>3 DEF CloseCursor
<1>6. base[w][k] <= cum[w] + buckets[k] /\ cum[w] + buckets[k] <= complete[k]
  BY <1>2, <1>4, <1>5
<1>7. PctReturns(w, pct) <=> cum[w] + buckets[k] >= t \/ k = N
  BY <1>1, <1>3 DEF PctReturns
<1>8. ASSUME PctReturns(w, pct)
      PROVE  CloseLabel(w, k, pct)
  <2>1. k = N \/ complete[k] >= t
    BY <1>2, <1>6, <1>7, <1>8
  <2> QED BY <1>3, <1>5, <2>1 DEF CloseLabel
<1>9. ASSUME ~ PctReturns(w, pct), NEW c \in 1 .. k
      PROVE  base[w][c] < t
  <2>1. base[w][k] < t
    BY <1>2, <1>6, <1>7, <1>9
  <2>2. c = k \/ c \in 1 .. k - 1
    BY NType
  <2> QED BY <1>5, <2>1, <2>2
<1> QED BY <1>1, <1>3, <1>6, <1>8, <1>9

\* A step of the report itself.
LEMMA CloseReport ==
    ASSUME TypeOK, Layers, NEW w \in Workers, Close(w), ReportStep(w)
    PROVE  Close(w)'
<1>1. buckets' = buckets /\ complete' = complete
  BY ReportFrame
<1>2. CASE ReportNoData(w)
  <2>1. pc'[w] = "idle" /\ p99'[w] = None
    BY <1>2 DEF ReportNoData, TypeOK
  <2> QED BY <2>1 DEF Close
<1>3. CASE ReportLoadCount(w)
  <2>1. pc'[w] = "load_sum" /\ p99'[w] = None
    BY <1>3 DEF ReportLoadCount, TypeOK
  <2> QED BY <2>1 DEF Close
<1>4. CASE ReportLoadSum(w) \/ ReportP50(w) \/ ReportP99(w)
  <2>1. p99[w] = None /\ n' = n /\ base' = base
    BY <1>4 DEF Close, ReportLoadSum, ReportP50, ReportP99, PctGoesOn, history
  <2>2. i[w] \in 1 .. N /\ i[w] + 1 # 1 /\ (i[w] + 1) - 1 = i[w]
    BY NType DEF TypeOK
  \* The loop starts with nothing added up.
  <2>3. ASSUME NEW pct \in {50, 99}, i'[w] = 1, cum'[w] = 0
        PROVE  CloseCursor(w, pct)'
    <3>1. Upto(base'[w], 1) = 0 /\ Upto(complete', 1) = 0
      BY DEF Upto
    <3> QED BY <2>3, <3>1 DEF CloseCursor
  <2>4. ASSUME NEW pct \in {50, 99}, CloseCursor(w, pct), PctGoesOn(w, pct)
        PROVE  CloseCursor(w, pct)'
    <3>1. i'[w] = i[w] + 1 /\ cum'[w] = cum[w] + buckets[i[w]] /\ ~ PctReturns(w, pct)
      BY <2>4 DEF PctGoesOn, TypeOK
    <3>2. /\ base[w][i[w]] <= cum'[w] /\ cum'[w] <= complete[i[w]]
          /\ \A c \in 1 .. i[w] : base[w][c] < Target(n[w], pct)
      BY <2>4, <3>1, CloseTurn
    <3>3. Upto(base[w], i'[w]) = base[w][i[w]] /\ Upto(complete, i'[w]) = complete[i[w]]
      BY <2>2, <3>1 DEF Upto
    <3> QED BY <1>1, <2>1, <2>2, <3>1, <3>2, <3>3 DEF CloseCursor, Target
  <2>5. \A b, pct : CloseLabel(w, b, pct) => b \in 1 .. N /\ (b = N \/ complete'[b] >= Target(n'[w], pct))
                        /\ \A c \in 1 .. b - 1 : base'[w][c] < Target(n'[w], pct)
    BY <1>1, <2>1 DEF CloseLabel
  <2>6. CASE ReportLoadSum(w)
    <3>1. pc'[w] = "p50" /\ i'[w] = 1 /\ cum'[w] = 0 /\ p99'[w] = None
      BY <2>1, <2>6 DEF ReportLoadSum, TypeOK
    <3> QED BY <2>3, <3>1 DEF Close
  <2>7. CASE ReportP50(w)
    <3>0. CloseCursor(w, 50) /\ p99'[w] = None
      BY <2>1, <2>7 DEF Close, ReportP50, PctGoesOn
    <3>1. CASE PctGoesOn(w, 50)
      <4>1. pc'[w] = "p50"
        BY <2>7, <3>1 DEF ReportP50, PctGoesOn
      <4> QED BY <2>4, <3>0, <3>1, <4>1 DEF Close
    <3>2. CASE ~ PctGoesOn(w, 50)
      <4>1. PctReturns(w, 50) /\ pc'[w] = "p99" /\ p50'[w] = i[w] /\ i'[w] = 1 /\ cum'[w] = 0
        BY <2>7, <3>2 DEF ReportP50, TypeOK
      <4>2. CloseLabel(w, i[w], 50)
        BY <3>0, <4>1, CloseTurn
      <4>3. CloseLabel(w, p50[w], 50)'
        BY <2>5, <4>1, <4>2 DEF CloseLabel, Target
      <4>4. CloseCursor(w, 99)'
        BY <2>3, <4>1
      <4> QED BY <3>0, <4>1, <4>3, <4>4 DEF Close
    <3> QED BY <3>1, <3>2
  <2>8. CASE ReportP99(w)
    <3>0. CloseCursor(w, 99) /\ CloseLabel(w, p50[w], 50) /\ p50' = p50
      BY <2>8 DEF Close, ReportP99, PctGoesOn
    <3>1. CloseLabel(w, p50[w], 50)'
      BY <2>5, <3>0 DEF CloseLabel, Target
    <3>2. CASE PctGoesOn(w, 99)
      <4>1. pc'[w] = "p99" /\ p99'[w] = None
        BY <2>1, <2>8, <3>2 DEF ReportP99, PctGoesOn
      <4> QED BY <2>4, <3>0, <3>1, <3>2, <4>1 DEF Close
    <3>3. CASE ~ PctGoesOn(w, 99)
      <4>1. PctReturns(w, 99) /\ pc'[w] = "idle" /\ p99'[w] = i[w]
        BY <2>8, <3>3 DEF ReportP99, TypeOK
      <4>2. CloseLabel(w, i[w], 99)
        BY <3>0, <4>1, CloseTurn
      <4>3. CloseLabel(w, p99[w], 99)'
        BY <2>5, <4>1, <4>2 DEF CloseLabel, Target
      <4> QED BY <3>1, <4>1, <4>3 DEF Close
    <3> QED BY <3>2, <3>3
  <2> QED BY <1>4, <2>6, <2>7, <2>8
<1> QED BY <1>2, <1>3, <1>4 DEF ReportStep

\* Every step, of this report or of the records that overlap it.
LEMMA CloseStep == TypeOK /\ Layers /\ CloseFits /\ [Next]_vars => CloseFits'
<1> SUFFICES ASSUME TypeOK, Layers, CloseFits, [Next]_vars, NEW v \in Workers
             PROVE  Close(v)'
  BY DEF CloseFits
<1>0. Close(v) /\ \A b \in 1 .. N : complete[b] \in Nat
  BY DEF CloseFits, TypeOK
<1>1. ASSUME NEW w \in Workers, NEW d \in Durations, RecordCall(w, d)
      PROVE  Close(v)'
  <2>1. pc'[v] = pc[v] \/ (pc[v] = "idle" /\ pc'[v] = "sum")
    BY <1>1 DEF RecordCall, TypeOK
  <2>2. UNCHANGED <<n, i, cum, p50, p99, base, complete>>
    BY <1>1 DEF RecordCall
  <2>3. p99[v] # None => pc[v] # "load_sum"
    BY <1>0 DEF Close
  <2> QED BY <1>0, <2>1, <2>2, <2>3, CloseKept
<1>2. ASSUME NEW w \in Workers,
             AddSum(w, "sum", "count") \/ AddCount(w, "count", "bucket") \/ AddBucket(w)
      PROVE  Close(v)'
  <2>1. pc'[v] = pc[v] \/ pc'[v] \in {"count", "bucket", "idle"}
    BY <1>2 DEF AddSum, AddCount, AddBucket, TypeOK
  <2>2. UNCHANGED <<n, i, cum, p50, p99, base>>
    BY <1>2 DEF AddSum, AddCount, AddBucket, local, history
  <2>3. \A b \in 1 .. N : complete'[b] \in Nat /\ complete'[b] >= complete[b]
    <3>1. CASE AddBucket(w)
      BY <3>1, LayersAdd
    <3>2. CASE ~ AddBucket(w)
      <4>1. complete' = complete
        BY <1>2, <3>2 DEF AddSum, AddCount, history
      <4> QED BY <1>0, <4>1
    <3> QED BY <3>1, <3>2
  <2>4. p99[v] # None => pc[v] # "load_sum"
    BY <1>0 DEF Close
  <2> QED BY <1>0, <2>1, <2>2, <2>3, <2>4, CloseKept
<1>3. ASSUME NEW w \in Workers, ReportStep(w)
      PROVE  Close(v)'
  <2>1. CASE v = w
    BY <1>0, <1>3, <2>1, CloseReport
  <2>2. CASE v # w
    <3>1. UNCHANGED <<pc[v], n[v], i[v], cum[v], p50[v], p99[v], base[v]>> /\ complete' = complete
      BY <1>3, <2>2, ReportFrame
    <3>2. p99[v] # None => pc[v] # "load_sum"
      BY <1>0 DEF Close
    <3> QED BY <1>0, <3>1, <3>2, CloseKept
  <2> QED BY <2>1, <2>2
<1>4. CASE UNCHANGED vars
  <2>1. UNCHANGED <<pc, n, i, cum, p50, p99, base, complete>>
    BY <1>4 DEF vars, local, history
  <2>2. p99[v] # None => pc[v] # "load_sum"
    BY <1>0 DEF Close
  <2> QED BY <1>0, <2>1, <2>2, CloseKept
<1> QED BY <1>1, <1>2, <1>3, <1>4, NextCases

----------------------------------------------------------------------------
\* The balance between the counters, the records under way and the records started is
\* kept by every interleaving.
THEOREM Invariance == Spec => []IInv
<1>1. Init => IInv
  <2> SUFFICES ASSUME Init PROVE IInv
    OBVIOUS
  <2>1. LoadsFit /\ QuietFits
    BY DEF Init, LoadsFit, QuietFits
  <2>2. Layers /\ CloseFits
    <3>1. /\ N \in Nat \ {0} /\ \A b \in 1 .. N : complete[b] = 0 /\ buckets[b] = 0
          /\ \A w \in Workers : base[w] = complete /\ pc[w] = "idle" /\ p99[w] = None
      BY NType DEF Init
    <3>2. \A b \in 1 .. N : Upto(complete, b) = 0
      BY <3>1 DEF Upto
    <3> QED BY <3>1, <3>2 DEF Layers, CloseFits, Close
  <2> QED BY <2>1, <2>2, TypeInit, BalanceInit DEF IInv
<1>2. IInv /\ [Next]_vars => IInv'
  BY TypeStep, BalanceStep, LoadsStep, QuietStep, LayersStep, CloseStep DEF IInv
<1> QED BY <1>1, <1>2, PTL DEF Spec

\* The atomics and report's locals keep their types; pct's index stays within LABELS.
THEOREM TypeCorrect == Spec => []TypeOK
<1>1. IInv => TypeOK
  BY DEF IInv
<1> QED BY Invariance, <1>1, PTL

\* No addition is lost, whatever the interleaving: once no record is under way, count,
\* sum_us and the buckets tell of the same records.
THEOREM NothingIsLost == Spec => []NothingLost
<1>1. IInv => NothingLost
  BY Settled DEF IInv
<1> QED BY Invariance, <1>1, PTL

\* The reported average is never too low: the loaded sum has every record that the
\* loaded count stands for.
THEOREM AverageIsNeverLow == Spec => []AverageNeverLow
<1>1. IInv => AverageNeverLow
  BY DEF IInv, LoadsFit, AverageNeverLow
<1> QED BY Invariance, <1>1, PTL

\* A report that no record overlaps prints the right percentiles, in order.
THEOREM QuietReportsAreRight == Spec => []QuietReportIsRight
<1>1. IInv => QuietReportIsRight
  <2> SUFFICES ASSUME IInv, NEW w \in Workers, quiet[w], pc[w] = "idle", p99[w] # None
               PROVE  /\ p50[w] <= p99[w]
                      /\ FirstLabel(p50[w], 50) /\ FirstLabel(p99[w], 99)
    BY DEF QuietReportIsRight
  <2>1. /\ p50[w] \in 1 .. N /\ FirstReaching(p50[w], 50)
        /\ p99[w] \in 1 .. N /\ FirstReaching(p99[w], 99)
    BY DEF IInv, QuietFits
  <2> DEFINE t50 == Target(Len(started), 50)
             t99 == Target(Len(started), 99)
  <2>2. t50 \in Nat /\ t99 \in Nat /\ t50 <= t99 /\ Len(started) \in Nat
    BY TargetBound DEF IInv, TypeOK
  <2>3. Below(p99[w]) >= t99 /\ \A c \in 1 .. p50[w] - 1 : Below(c) < t50
    BY <2>1 DEF FirstReaching
  <2>4. \A b : Below(b) \in Nat
    BY Finite DEF IInv, TypeOK, Below
  <2> HIDE DEF t50, t99
  <2>5. p99[w] \notin 1 .. p50[w] - 1
    BY <2>2, <2>3, <2>4
  <2>6. ASSUME NEW b \in 1 .. N, NEW pct \in {50, 99}, FirstReaching(b, pct)
        PROVE  FirstLabel(b, pct)
    <3>1. PICK t \in Nat : t = Target(Len(started), pct)
      BY <2>2, <2>4, Rank
    <3>2. \A c : Below(c) >= t <=> Reaches(Below(c), Len(started), pct)
      <4> SUFFICES ASSUME NEW c PROVE Below(c) >= t <=> Reaches(Below(c), Len(started), pct)
        OBVIOUS
      <4>1. PICK k \in Nat : k = Below(c)
        BY <2>4
      <4>2. PICK m \in Nat : m = Len(started)
        BY <2>2
      <4>3. k >= Target(m, pct) <=> Reaches(k, m, pct)
        BY Rank
      <4>4. k >= t <=> Reaches(k, Len(started), pct)
        BY <3>1, <4>2, <4>3
      <4> QED BY <4>1, <4>4
    <3>3. Below(b) >= t /\ \A c \in 1 .. b - 1 : ~ (Below(c) >= t)
      BY <2>4, <2>6, <3>1 DEF FirstReaching
    <3> QED BY <3>2, <3>3 DEF FirstLabel
  <2> QED BY <2>1, <2>5, <2>6, NType
<1> QED BY Invariance, <1>1, PTL

\* A report that records overlap is off by these records only: each label lies between
\* what was complete when the report loaded count and what is complete since.
THEOREM ReportsAreClose == Spec => []ReportIsClose
<1>1. IInv => ReportIsClose
  <2> SUFFICES ASSUME IInv PROVE ReportIsClose
    OBVIOUS
  <2>1. ASSUME NEW w \in Workers, NEW b, NEW pct \in {50, 99}, CloseLabel(w, b, pct)
        PROVE  Between(w, b, pct)
    <3>1. /\ b \in 1 .. N /\ n[w] \in Nat
          /\ \A c \in 1 .. N : complete[c] \in Nat /\ base[w][c] \in Nat
      <4>1. b \in 1 .. N
        BY <2>1 DEF CloseLabel
      <4>2. n[w] \in Nat
        BY DEF IInv, TypeOK
      <4> QED BY <4>1, <4>2, BaseType, Zenon DEF IInv
    <3>2. PICK t \in Nat : t = Target(n[w], pct)
      BY <3>1, Rank
    <3>3. \A k \in Nat : k >= t <=> Reaches(k, n[w], pct)
      BY <3>1, <3>2, Rank
    <3>4. (b = N \/ complete[b] >= t) /\ \A c \in 1 .. b - 1 : base[w][c] < t
      BY <2>1, <3>2 DEF CloseLabel
    <3>5. b = N \/ Reaches(complete[b], n[w], pct)
      BY <3>1, <3>3, <3>4
    <3>6. ASSUME NEW c \in 1 .. b - 1
          PROVE  ~ Reaches(base[w][c], n[w], pct)
      <4>1. base[w][c] \in Nat /\ base[w][c] < t
        BY <3>1, <3>4, NType
      <4>2. ~ (base[w][c] >= t)
        BY <4>1
      <4> QED BY <3>3, <4>1, <4>2
    <3> QED BY <3>5, <3>6 DEF Between
  <2>2. \A w \in Workers :
            /\ pc[w] = "p99" => CloseLabel(w, p50[w], 50)
            /\ p99[w] # None => CloseLabel(w, p50[w], 50) /\ CloseLabel(w, p99[w], 99)
    BY DEF IInv, CloseFits, Close
  <2> QED BY <2>1, <2>2 DEF ReportIsClose
<1> QED BY Invariance, <1>1, PTL
=============================================================================
