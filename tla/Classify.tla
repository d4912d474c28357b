------------------------------ MODULE Classify ------------------------------
(***************************************************************************)
(* classify_mismatches: every mismatched transaction is searched again in  *)
(* the index, searched for by brute force in the references the index was  *)
(* built from, and filed under the cause of its wrong verdict.             *)
(*                                                                         *)
(* Vectors are points of a line (Geometry).  Positions count from 1.  The  *)
(* index is one buildindex has made, of this references file or of an      *)
(* earlier one.                                                            *)
(***************************************************************************)
EXTENDS Integers, Sequences, SequencesExt, FiniteSets, FiniteSetsExt, Bags, Sums, Geometry

CONSTANTS
    Data,        \* the possible pairs of a references file and the one indexed
    Centroids,   \* the coordinates of the index's centroids
    Mismatches,  \* the possible diag-mismatches.jsonl
    K,           \* neighbours looked for, 5
    PROBES,      \* clusters probed, 3
    Threshold    \* this many frauds deny, 3

\* A vector has 14 components or fewer.
RefLine == [long : BOOLEAN, x : Int, is_fraud : BOOLEAN]
\* A line of the mismatch file parses or not, and so does the request in it.
Mismatch == [ok : BOOLEAN, request_ok : BOOLEAN, x : Int, expected_approved : BOOLEAN]

ASSUME ClassifyAssumption ==
    /\ K \in Nat \ {0} /\ PROBES \in Nat \ {0} /\ Threshold \in 0 .. K
    /\ Centroids \in Seq(Int)
    /\ \A d \in Data : d.references \in Seq(RefLine) /\ d.indexed \in Seq(RefLine)
    /\ Mismatches \subseteq Seq(Mismatch)

VARIABLES
    pc,
    data,        \* references.json.gz, and the file index.ivf.bin was built from
    lines,       \* diag-mismatches.jsonl
    mismatches,  \* the records read from it
    index, refs, \* the index and the reference corpus in memory
    i,           \* the mismatch at hand
    diag,        \* DiagResult: probed clusters, scanned positions, returned neighbours
    best,        \* brute force: the candidates
    idx,         \* the position of its loop, and of the loops that read the files
    written,     \* the output file
    count,       \* the four counters
    rank_hist, gap_hist

files == <<data, lines, mismatches, index, refs>>
stats == <<written, count, rank_hist, gap_hist>>
vars == <<pc, files, i, diag, best, idx, stats>>

num_cents == Len(Centroids)
Classes == {"tie_flip", "probe_miss", "vectorize", "other"}

----------------------------------------------------------------------------
(* The index                                                               *)

\* buildindex passes over short vectors and keeps the others cluster by cluster.
InCluster(file, c) ==
    FlattenSeq([k \in 1 .. Len(file) |->
        IF file[k].long /\ Nearest(file[k].x, Centroids) = c THEN <<file[k]>> ELSE <<>>])
Indexed(file) == FlattenSeq([c \in 1 .. num_cents |-> InCluster(file, c)])

\* IvfIndex::load: cluster c holds the positions after offsets[c] up to offsets[c + 1].
load(file) ==
    LET vs == Indexed(file)
        Starts == RunningSum(num_cents, [c \in 1 .. num_cents |-> Len(InCluster(file, c))])
    IN  [ offsets |-> [c \in 1 .. num_cents + 1 |-> Starts[c - 1]],
          vecs    |-> [v \in DOMAIN vs |-> Quantize(vs[v].x)],
          labels  |-> [v \in DOMAIN vs |-> vs[v].is_fraud] ]

----------------------------------------------------------------------------
(* One search                                                              *)

query == mismatches[i].x

Members(c) == index.offsets[c] + 1 .. index.offsets[c + 1]
CentDists == [c \in 1 .. num_cents |-> SqDist(query, Centroids[c])]
dist_int8(v) == SqDist(index.vecs[v], Truncated(query))

\* The sets of n elements of S that leave no nearer one out (all of S, if fewer).
NearestOf(S, n, d) ==
    {T \in kSubset(Min({n, Cardinality(S)}), S) : \A a \in T, b \in S \ T : d[a] <= d[b]}

\* diagnostic_search: the nearest clusters, all their positions, and of these the
\* nearest by the int8 distance.  The heap is that of search.rs (IvfSearch).
diagnostic_search ==
    UNION {LET scanned == UNION {Members(c) : c \in P}
           IN  {[probed |-> P, scanned |-> scanned, returned |-> R,
                 frauds |-> Cardinality({v \in R : index.labels[v]})]
                  : R \in NearestOf(scanned, K, [v \in scanned |-> dist_int8(v)])}
             : P \in NearestOf(1 .. num_cents, PROBES, CentDists)}

\* The orders sort_unstable_by may leave distinct elements in, smallest key first.
SortedBy(S, key) ==
    {t \in SetToSeqs(S) : \A a, b \in DOMAIN t : a < b => key[t[a]] <= key[t[b]]}

Ascending(S) == [c \in S |-> c.d]
\* |a, b| b.1.partial_cmp(&a.1): the farthest first
FarthestFirst(S) == [c \in S |-> -c.d]

\* find_cluster: the cluster a position lies in, if any.
FoundIn(v) == {c \in 1 .. num_cents : v \in Members(c)}

RankFromZero(v, order) == SelectInSeq(order, LAMBDA c : c \in FoundIn(v)) - 1
\* cluster_rank_of_vec_in_centroid_order: from 1
cluster_rank(v, order) == SelectInSeq(order, LAMBDA c : c \in FoundIn(v))

----------------------------------------------------------------------------
NoDiag == [probed |-> {}, scanned |-> {}, returned |-> {}, frauds |-> 0]

Init ==
    /\ pc = "start"
    /\ data \in Data
    /\ lines \in Mismatches /\ mismatches = <<>>
    /\ index = [offsets |-> <<>>, vecs |-> <<>>, labels |-> <<>>] /\ refs = <<>>
    /\ i = 1 /\ diag = NoDiag /\ best = <<>> /\ idx = 1
    /\ written = <<>>
    /\ count = [c \in Classes |-> 0]
    /\ rank_hist = EmptyBag /\ gap_hist = EmptyBag

\* An unknown flag or one without its value; a file that is missing or not its kind.
BadInput ==
    /\ pc \in {"start", "references", "mismatches"}
    /\ pc' = "refused"
    /\ UNCHANGED <<files, i, diag, best, idx, stats>>

LoadIndex ==
    /\ pc = "start"
    /\ index' = load(data.indexed)
    /\ pc' = "references"
    /\ UNCHANGED <<data, lines, mismatches, refs, i, diag, best, idx, stats>>

\* load_references, one record: a vector of fewer than 14 components is passed over.
load_references ==
    /\ pc = "references" /\ idx <= Len(data.references)
    /\ refs' = IF data.references[idx].long THEN Append(refs, data.references[idx]) ELSE refs
    /\ idx' = idx + 1
    /\ UNCHANGED <<pc, data, lines, mismatches, index, i, diag, best, stats>>

ReferencesLoaded ==
    /\ pc = "references" /\ idx > Len(data.references)
    /\ idx' = 1
    /\ pc' = "mismatches"
    /\ UNCHANGED <<files, i, diag, best, stats>>

\* One line of the mismatch file: one that does not parse is reported and left out.
ReadMismatch ==
    /\ pc = "mismatches" /\ idx <= Len(lines)
    /\ mismatches' = IF lines[idx].ok THEN Append(mismatches, lines[idx]) ELSE mismatches
    /\ idx' = idx + 1
    /\ UNCHANGED <<pc, data, lines, index, refs, i, diag, best, stats>>

\* The output file is created.
MismatchesRead ==
    /\ pc = "mismatches" /\ idx > Len(lines)
    /\ pc' = "search"
    /\ UNCHANGED <<files, i, diag, best, idx, stats>>

\* The transaction of a record that parsed need not be a request: unwrap panics.
BadRequest ==
    /\ pc = "search" /\ i <= Len(mismatches)
    /\ ~ mismatches[i].request_ok
    /\ pc' = "panicked"
    /\ UNCHANGED <<files, i, diag, best, idx, stats>>

SearchIndex ==
    /\ pc = "search" /\ i <= Len(mismatches)
    /\ mismatches[i].request_ok
    /\ diag' \in diagnostic_search
    /\ best' = <<>> /\ idx' = 1
    /\ pc' = "brute"
    /\ UNCHANGED <<files, i, stats>>

\* brute_force_5nn, one reference: kept while there is room; then it takes the place
\* of best[0] if it is nearer, and best is sorted anew.
BruteForceStep ==
    /\ pc = "brute" /\ idx <= Len(refs)
    /\ LET new == [vi |-> idx, d |-> SqDist(query, refs[idx].x), is_fraud |-> refs[idx].is_fraud]
       IN  \/ /\ Len(best) < K - 1
              /\ best' = Append(best, new)
           \/ /\ Len(best) = K - 1
              /\ LET S == Range(best) \cup {new} IN best' \in SortedBy(S, FarthestFirst(S))
           \/ /\ Len(best) = K /\ new.d < best[1].d
              /\ LET S == (Range(best) \ {best[1]}) \cup {new}
                 IN  best' \in SortedBy(S, FarthestFirst(S))
           \/ /\ Len(best) = K /\ ~ new.d < best[1].d
              /\ best' = best
    /\ idx' = idx + 1
    /\ UNCHANGED <<pc, files, i, diag, stats>>

\* The final sort, nearest first.
BruteForceDone ==
    /\ pc = "brute" /\ idx > Len(refs)
    /\ best' \in SortedBy(Range(best), Ascending(Range(best)))
    /\ pc' = "classify"
    /\ UNCHANGED <<files, i, diag, idx, stats>>

----------------------------------------------------------------------------
(* The classification                                                      *)

true_nn_idxs == [n \in DOMAIN best |-> best[n].vi]
fraud_count_true == Cardinality({n \in DOMAIN best : best[n].is_fraud})
true_approved == fraud_count_true < Threshold

TieFlipFirst ==
    IF true_approved # mismatches[i].expected_approved THEN "vectorize"
    ELSE IF diag.frauds # fraud_count_true THEN "tie_flip"
    ELSE IF ~ Range(true_nn_idxs) \subseteq diag.scanned THEN "probe_miss"
    ELSE "other"
classification ==
    IF true_approved # mismatches[i].expected_approved THEN "vectorize"
    ELSE IF ~ Range(true_nn_idxs) \subseteq diag.scanned THEN "probe_miss"
    ELSE IF diag.frauds # fraud_count_true THEN "tie_flip"
    ELSE "other"

\* The lowest rank of a neighbour that was not scanned.
missed_rank(ranks) == Min({ranks[n] : n \in {m \in DOMAIN best : best[m].vi \notin diag.scanned}})

\* How far the int8 distance of the last true neighbour is from the smallest of those
\* returned; 0 when there is no K-th neighbour.
tie_flip_gap ==
    IF Len(best) < K THEN 0
    ELSE Abs(dist_int8(best[K].vi) - Min({dist_int8(v) : v \in diag.returned}))

\* A position of the references beyond the index: find_cluster panics.
NotInIndex ==
    /\ pc = "classify"
    /\ \E n \in DOMAIN best : FoundIn(best[n].vi) = {}
    /\ pc' = "panicked"
    /\ UNCHANGED <<files, i, diag, best, idx, stats>>

\* count_tie_flip += 1, and so on
Counted(c) == [count EXCEPT ![c] = @ + 1]

WriteRecord ==
    /\ pc = "classify"
    /\ \A n \in DOMAIN best : FoundIn(best[n].vi) # {}
    /\ \E order \in SortedBy(1 .. num_cents, CentDists) :
          LET ranks == [n \in DOMAIN best |-> cluster_rank(best[n].vi, order)]
              class == classification
              miss == IF class = "probe_miss" THEN {missed_rank(ranks)} ELSE {}
              gap == IF class = "tie_flip" THEN {tie_flip_gap} ELSE {}
          IN  /\ written' = Append(written,
                    [line |-> mismatches[i], class |-> class, true_nn |-> best, diag |-> diag,
                     ranks |-> ranks, miss |-> miss, gap |-> gap])
              /\ count' = Counted(class)
              /\ rank_hist' = rank_hist (+) SetToBag(miss)
              /\ gap_hist' = gap_hist (+) SetToBag(gap)
    /\ i' = i + 1
    /\ pc' = "search"
    /\ UNCHANGED <<files, diag, best, idx>>

\* The flush and the summary.
Finish ==
    /\ pc = "search" /\ i > Len(mismatches)
    /\ pc' = "done"
    /\ UNCHANGED <<files, i, diag, best, idx, stats>>

Next ==
    \/ BadInput \/ LoadIndex \/ load_references \/ ReferencesLoaded
    \/ ReadMismatch \/ MismatchesRead \/ BadRequest \/ SearchIndex
    \/ BruteForceStep \/ BruteForceDone \/ NotInIndex \/ WriteRecord \/ Finish

Spec == Init /\ [][Next]_vars

----------------------------------------------------------------------------
(* Properties                                                              *)

Records == Range(written)

\* Brute force, which replaces best[0] and sorts, ends with the K nearest references
\* by the exact distance, nearest first, each with its own label.
BestAreNearest ==
    pc = "classify" =>
        /\ Len(best) = Min({K, Len(refs)})
        /\ \A n \in DOMAIN best :
              /\ best[n].d = SqDist(query, refs[best[n].vi].x)
              /\ best[n].is_fraud = refs[best[n].vi].is_fraud
              /\ \A m \in DOMAIN best : n < m => best[n].vi # best[m].vi /\ best[n].d <= best[m].d
              /\ \A v \in DOMAIN refs \ Range(true_nn_idxs) : best[n].d <= SqDist(query, refs[v].x)

Tied(rec, c, d) == SqDist(rec.line.x, Centroids[c]) = SqDist(rec.line.x, Centroids[d])
\* The index was built from this file, which lists its vectors cluster by cluster.
Aligned == data.references = data.indexed /\ Indexed(data.references) = refs

\* The cluster of a record's n-th true neighbour.
ClusterOf(rec, n) == Nearest(refs[rec.true_nn[n].vi].x, Centroids)

\* "Rank <= PROBES means the cluster was probed; rank > PROBES is a miss", where
\* positions of the file and of the index agree: search and ranking sort the centroids
\* separately, and may differ only in which of two equally near clusters comes first.
\* So far as no clusters tie, the rank written for a probe miss is always one of a miss.
RankTellsProbed ==
    \A rec \in Records :
        /\ Aligned => \A n \in DOMAIN rec.ranks :
              \/ rec.ranks[n] <= PROBES <=> ClusterOf(rec, n) \in rec.diag.probed
              \/ \E d \in 1 .. num_cents \ {ClusterOf(rec, n)} : Tied(rec, ClusterOf(rec, n), d)
        /\ \A m \in rec.miss :
              \/ m > PROBES
              \/ \E c, d \in 1 .. num_cents : c # d /\ Tied(rec, c, d)

\* The true neighbours whose cluster the search did not look into.
Missed(rec) == {n \in DOMAIN rec.true_nn : ClusterOf(rec, n) \notin rec.diag.probed}

\* Scoring the scanned vectors again by the exact distance gives the expected verdict.
RescoringFixes(rec) ==
    LET Exact == [v \in rec.diag.scanned |-> SqDist(rec.line.x, refs[v].x)]
    IN  \E T \in NearestOf(rec.diag.scanned, K, Exact) :
            (Cardinality({v \in T : refs[v].is_fraud}) < Threshold) = rec.line.expected_approved

\* Where positions of the file and of the index agree, the cause written down is the
\* cause: a probe miss exactly when a cluster with a true neighbour was not probed,
\* and a tie flip is mended by the re-rank the summary recommends for it.
CauseIsRight ==
    Aligned => \A rec \in Records :
        /\ rec.class # "vectorize" => (rec.class = "probe_miss" <=> Missed(rec) # {})
        /\ rec.class = "tie_flip" => RescoringFixes(rec)

----------------------------------------------------------------------------
(* What a comment says and the code does not do                            *)

\* "PROBE-MISS: true 5-NN includes a vector not in the 3 scanned clusters."
ProbeMissIsMiss ==
    data.references = data.indexed =>
        \A rec \in Records : rec.class = "probe_miss" => Missed(rec) # {}
=============================================================================
