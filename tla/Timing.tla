------------------------------- MODULE Timing -------------------------------
(***************************************************************************)
(* One PhaseStats histogram of timing.rs, shared by the worker threads of  *)
(* an API process without a lock.  record is three atomic additions, and   *)
(* report (the /metrics handler) is a sequence of atomic loads; other      *)
(* workers run between any two of them.                                    *)
(*                                                                         *)
(* The additions and the loads are taken in program order.  They are       *)
(* Relaxed, which does not ask for it: it is what x86-64 does, where a     *)
(* fetch_add is a locked instruction and loads stay in order.  Neither the *)
(* Dockerfile nor the compose files name a platform, so this is an         *)
(* assumption of the model.                                                *)
(***************************************************************************)
EXTENDS Integers, Sequences, FiniteSets

CONSTANTS
    Workers,     \* worker threads
    BOUNDS,      \* upper bounds of all buckets but the last, in microseconds
    Durations,   \* the durations that can be recorded
    MaxRecords,  \* bound: how many records are started
    None         \* no report yet

ASSUME TimingAssumption ==
    /\ IsFiniteSet(Workers)
    /\ BOUNDS \in Seq(Nat \ {0})
    /\ \A i, j \in 1 .. Len(BOUNDS) : i < j => BOUNDS[i] < BOUNDS[j]
    /\ Durations \subseteq Nat
    /\ MaxRecords \in Nat

N == Len(BOUNDS) + 1

VARIABLES
    sum_us, count, buckets, \* the atomics
    pc,        \* what each worker does next
    us,        \* record's argument
    n, sum,    \* report's loads of count and sum_us
    i, cum,    \* the loop of report's closure pct
    p50, p99,  \* the labels (bucket numbers) the closure returned
    started,   \* history: the durations record was called with, in order
    total,     \* history: their sum
    counted,   \* history: what the count additions so far stand for, in us
    floor,     \* history: counted, when report loaded count
    complete,  \* history: per label, the complete records below its bound
    base,      \* history: complete, when report loaded count
    quiet      \* history: no record overlapped this report

stats == <<sum_us, count, buckets>>
local == <<us, n, sum, i, cum, p50, p99>>
history == <<started, total, counted, floor, complete, base, quiet>>
vars == <<stats, pc, local, history>>

----------------------------------------------------------------------------
\* position(|&b| us < b).unwrap_or(N - 1), numbering buckets from 1.
BucketAtMost(d) ==
    IF \E b \in 1 .. N - 1 : d <= BOUNDS[b]
    THEN CHOOSE b \in 1 .. N - 1 : d <= BOUNDS[b] /\ \A c \in 1 .. b - 1 : ~ d <= BOUNDS[c]
    ELSE N
Bucket(d) ==
    IF \E b \in 1 .. N - 1 : d < BOUNDS[b]
    THEN CHOOSE b \in 1 .. N - 1 : d < BOUNDS[b] /\ \A c \in 1 .. b - 1 : ~ d < BOUNDS[c]
    ELSE N

\* (n as f64 * pct) as u64: the conversion truncates.
Target(m, pct) == (m * pct) \div 100

Recording(w) == pc[w] \in {"sum", "count", "bucket"}

Init ==
    /\ sum_us = 0 /\ count = 0
    /\ buckets = [b \in 1 .. N |-> 0]
    /\ pc = [w \in Workers |-> "idle"]
    /\ us = [w \in Workers |-> 0]
    /\ n = [w \in Workers |-> 0]
    /\ sum = [w \in Workers |-> 0]
    /\ i = [w \in Workers |-> 1]
    /\ cum = [w \in Workers |-> 0]
    /\ p50 = [w \in Workers |-> None]
    /\ p99 = [w \in Workers |-> None]
    /\ started = <<>> /\ total = 0
    /\ counted = 0
    /\ floor = [w \in Workers |-> 0]
    /\ complete = [b \in 1 .. N |-> 0]
    /\ base = [w \in Workers |-> complete]
    /\ quiet = [w \in Workers |-> FALSE]

----------------------------------------------------------------------------
(* PhaseStats::record                                                      *)

RecordCall(w, d) ==
    /\ pc[w] = "idle"
    /\ Len(started) < MaxRecords
    /\ us' = [us EXCEPT ![w] = d]
    /\ pc' = [pc EXCEPT ![w] = "sum"]
    /\ started' = Append(started, d) /\ total' = total + d
    /\ quiet' = [v \in Workers |-> FALSE]
    /\ UNCHANGED <<stats, n, sum, i, cum, p50, p99, counted, floor, complete, base>>

\* at and next place the addition in the order of the three.
AddSum(w, at, next) ==
    /\ pc[w] = at
    /\ sum_us' = sum_us + us[w]
    /\ pc' = [pc EXCEPT ![w] = next]
    /\ UNCHANGED <<count, buckets, local, history>>

AddCount(w, at, next) ==
    /\ pc[w] = at
    /\ count' = count + 1
    /\ counted' = counted + us[w]
    /\ pc' = [pc EXCEPT ![w] = next]
    /\ UNCHANGED <<sum_us, buckets, local, started, total, floor, complete, base, quiet>>

AddBucket(w) ==
    /\ pc[w] = "bucket"
    /\ buckets' = [buckets EXCEPT ![Bucket(us[w])] = @ + 1]
    /\ complete' = [b \in 1 .. N |-> complete[b] + IF b = N \/ us[w] < BOUNDS[b] THEN 1 ELSE 0]
    /\ pc' = [pc EXCEPT ![w] = "idle"]
    /\ UNCHANGED <<sum_us, count, local, started, total, counted, floor, base, quiet>>

RecordAddsCountFirst(w) ==
    AddCount(w, "sum", "count") \/ AddSum(w, "count", "bucket") \/ AddBucket(w)
\* The sum, then the count, then the bucket.
RecordAdds(w) ==
    AddSum(w, "sum", "count") \/ AddCount(w, "count", "bucket") \/ AddBucket(w)

----------------------------------------------------------------------------
(* PhaseStats::report                                                      *)

\* Nothing counted: "(no data)" and no further load.
ReportNoData(w) ==
    /\ pc[w] = "idle"
    /\ count = 0
    /\ n' = [n EXCEPT ![w] = 0]
    /\ p50' = [p50 EXCEPT ![w] = None]
    /\ p99' = [p99 EXCEPT ![w] = None]
    /\ UNCHANGED <<stats, pc, us, sum, i, cum, history>>

ReportLoadCount(w) ==
    /\ pc[w] = "idle"
    /\ count > 0
    /\ n' = [n EXCEPT ![w] = count]
    /\ floor' = [floor EXCEPT ![w] = counted]
    /\ base' = [base EXCEPT ![w] = complete]
    /\ quiet' = [quiet EXCEPT ![w] = \A v \in Workers : ~ Recording(v)]
    /\ p50' = [p50 EXCEPT ![w] = None]
    /\ p99' = [p99 EXCEPT ![w] = None]
    /\ pc' = [pc EXCEPT ![w] = "load_sum"]
    /\ UNCHANGED <<stats, us, sum, i, cum, started, total, counted, complete>>

ReportLoadSum(w) ==
    /\ pc[w] = "load_sum"
    /\ sum' = [sum EXCEPT ![w] = sum_us]
    /\ i' = [i EXCEPT ![w] = 1]
    /\ cum' = [cum EXCEPT ![w] = 0]
    /\ pc' = [pc EXCEPT ![w] = "p50"]
    /\ UNCHANGED <<stats, us, n, p50, p99, history>>

PctReturnsAbove(w, pct) ==
    \/ cum[w] + buckets[i[w]] > Target(n[w], pct)
    \/ i[w] = N
PctTestsBeforeAdding(w, pct) == cum[w] >= Target(n[w], pct) \/ i[w] = N
PctNeverGivesUp(w, pct) == cum[w] + buckets[i[w]] >= Target(n[w], pct)
\* pct's loop ends at the first label whose cumulative count reaches the target,
\* or at the last one when the buckets lag behind count.
PctReturns(w, pct) ==
    \/ cum[w] + buckets[i[w]] >= Target(n[w], pct)
    \/ i[w] = N

PctGoesOn(w, pct) ==
    /\ ~ PctReturns(w, pct)
    /\ cum' = [cum EXCEPT ![w] = @ + buckets[i[w]]]
    /\ i' = [i EXCEPT ![w] = @ + 1]
    /\ UNCHANGED <<stats, pc, us, n, sum, p50, p99, history>>

ReportP50(w) ==
    /\ pc[w] = "p50"
    /\ \/ PctGoesOn(w, 50)
       \/ /\ PctReturns(w, 50)
          /\ p50' = [p50 EXCEPT ![w] = i[w]]
          /\ i' = [i EXCEPT ![w] = 1]
          /\ cum' = [cum EXCEPT ![w] = 0]
          /\ pc' = [pc EXCEPT ![w] = "p99"]
          /\ UNCHANGED <<stats, us, n, sum, p99, history>>

\* The loads that print the buckets follow; they feed nothing else.
ReportP99(w) ==
    /\ pc[w] = "p99"
    /\ \/ PctGoesOn(w, 99)
       \/ /\ PctReturns(w, 99)
          /\ p99' = [p99 EXCEPT ![w] = i[w]]
          /\ pc' = [pc EXCEPT ![w] = "idle"]
          /\ UNCHANGED <<stats, us, n, sum, i, cum, p50, history>>

Next ==
    \E w \in Workers :
        \/ \E d \in Durations : RecordCall(w, d)
        \/ RecordAdds(w)
        \/ ReportNoData(w) \/ ReportLoadCount(w) \/ ReportLoadSum(w)
        \/ ReportP50(w) \/ ReportP99(w)

Spec == Init /\ [][Next]_vars

----------------------------------------------------------------------------
(* Properties                                                              *)

TypeOK ==
    /\ sum_us \in Nat /\ count \in Nat
    /\ buckets \in [1 .. N -> Nat]
    /\ pc \in [Workers -> {"idle", "sum", "count", "bucket", "load_sum", "p50", "p99"}]
    /\ us \in [Workers -> Nat]
    /\ n \in [Workers -> Nat] /\ sum \in [Workers -> Nat]
    /\ i \in [Workers -> 1 .. N] /\ cum \in [Workers -> Nat]
    /\ p50 \in [Workers -> 1 .. N \cup {None}]
    /\ p99 \in [Workers -> 1 .. N \cup {None}]
    /\ started \in Seq(Nat) /\ total \in Nat /\ counted \in Nat
    /\ floor \in [Workers -> Nat] /\ quiet \in [Workers -> BOOLEAN]
    /\ complete \in [1 .. N -> Nat] /\ base \in [Workers -> [1 .. N -> Nat]]

\* The label of bucket b says so: at least the bound before it and below its own.
Lies(d, b) == (b = 1 \/ BOUNDS[b - 1] <= d) /\ (b = N \/ d < BOUNDS[b])

\* No addition is lost among concurrent workers: once no record is under way the
\* three kinds of counters tell of the same records, each in the bucket of its label.
NothingLost ==
    (\A w \in Workers : ~ Recording(w)) =>
        /\ count = Len(started)
        /\ sum_us = total
        /\ \A b \in 1 .. N : buckets[b] = Cardinality({k \in 1 .. Len(started) : Lies(started[k], b)})

\* The average is never reported too low: record adds to the sum before the
\* count and report loads the count before the sum, so every record the loaded
\* count stands for is in the loaded sum.
AverageNeverLow ==
    \A w \in Workers : pc[w] \in {"p50", "p99"} => sum[w] >= floor[w]

\* How many recorded durations lie below the bound of label b (all, for the last).
Below(b) == Cardinality({k \in 1 .. Len(started) : b = N \/ started[k] < BOUNDS[b]})

\* k durations are pct percent of m, or less than one short of it.
Reaches(k, m, pct) == 100 * (k + 1) > pct * m

\* Label b is the first below whose bound lie that share of the durations.
FirstLabel(b, pct) ==
    /\ Reaches(Below(b), Len(started), pct)
    /\ \A c \in 1 .. b - 1 : ~ Reaches(Below(c), Len(started), pct)

\* A report that no record overlaps orders its percentiles, and each label is the
\* first below whose bound lie 50 or 99 percent of the durations: truncating the
\* target to an integer costs less than one record, however few there are.
QuietReportIsRight ==
    \A w \in Workers :
        (quiet[w] /\ pc[w] = "idle" /\ p99[w] # None) =>
            /\ p50[w] <= p99[w]
            /\ FirstLabel(p50[w], 50) /\ FirstLabel(p99[w], 99)

\* Label b, found for pct, is not too low for what is complete by now (unless the
\* buckets lag behind the count and it is the last), nor too high for what was
\* complete when the report began.
Between(w, b, pct) ==
    /\ b = N \/ Reaches(complete[b], n[w], pct)
    /\ \A c \in 1 .. b - 1 : ~ Reaches(base[w][c], n[w], pct)

\* A report that reads count and buckets one by one while records go on is off by
\* these records only: every label lies between those of its beginning and its end.
ReportIsClose ==
    \A w \in Workers :
        /\ pc[w] = "p99" => Between(w, p50[w], 50)
        /\ pc[w] = "idle" /\ p99[w] # None => Between(w, p50[w], 50) /\ Between(w, p99[w], 99)
=============================================================================
