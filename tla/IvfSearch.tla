----------------------------- MODULE IvfSearch -----------------------------
(***************************************************************************)
(* The IVF search of one worker thread: Searcher::search of search.rs and  *)
(* the thread-local SearchBuffer it reuses from one query to the next.     *)
(*                                                                         *)
(* A search ranks the centroids, keeps the `probes` closest, scans their   *)
(* clusters vector by vector and keeps the K closest vectors in a max-heap *)
(* whose root is the current K-th distance.  A thread runs one search at a *)
(* time (no await inside it), so there is one program counter; what        *)
(* survives between two searches is the buffer, which is never freed.      *)
(*                                                                         *)
(* Distances are CONSTANTS: nothing below depends on how they are computed,*)
(* so what is proved holds for every geometry.                             *)
(***************************************************************************)
EXTENDS Integers, Sequences, Functions

CONSTANTS
    K,            \* how many neighbours are asked for (5 in main.rs)
    NumCents,     \* num_cents of the index
    NumVecs,      \* num_vecs of the index
    Offsets,      \* offsets[c] .. offsets[c+1]-1 are the vectors of cluster c
    Labels,       \* the label byte of every vector
    EnvProbes,    \* the values the PROBES variable may have
    HeaderProbes, \* the values the index header's default_probes may have
    Query,        \* the queries that can be asked
    CentDist,     \* CentDist[q][c]: f32 distance of q to centroid c, or NaN
    VecDist,      \* VecDist[q][v]: int8 distance of q to vector v
    NaN           \* the unordered f32

Cents == 0 .. NumCents - 1
Vecs  == 0 .. NumVecs - 1

ASSUME KAssumption == K \in Nat \ {0}

ASSUME SizeAssumption == NumCents \in Nat /\ NumVecs \in Nat

\* What buildindex writes: a monotone table that starts at 0 and ends at num_vecs.
ASSUME OffsetsAssumption ==
    /\ Offsets \in [0 .. NumCents -> 0 .. NumVecs]
    /\ Offsets[0] = 0
    /\ Offsets[NumCents] = NumVecs
    /\ \A i, j \in 0 .. NumCents : i <= j => Offsets[i] <= Offsets[j]

ASSUME LabelsAssumption == Labels \in [Vecs -> 0 .. 255]

ASSUME ProbesAssumption == EnvProbes \subseteq Nat /\ HeaderProbes \subseteq Nat

\* A NaN component of the query makes the distance to every centroid NaN.
ASSUME DistAssumption ==
    /\ NaN \notin Nat
    /\ Query # {}
    /\ CentDist \in [Query -> [Cents -> Nat \cup {NaN}]]
    /\ \A q \in Query : \A c, d \in Cents :
          CentDist[q][c] = NaN => CentDist[q][d] = NaN
    /\ VecDist \in [Query -> [Vecs -> Nat]]

VARIABLES
    probes,     \* Searcher.probes, fixed by load
    pc,         \* where the thread is
    query,      \* the argument of the search under way (or the last one)
    cent_dists, \* SearchBuffer.cent_dists
    cands,      \* SearchBuffer.cands; the field vec is history
    probe_i,    \* index of the probe loop
    vi,         \* index of the vector loop
    root,       \* index of heapify_max's loop (1 when a replaced root is sifted)
    hole,       \* the i of sift_down_max
    result,     \* what the last search returned; the field vec is history
    seen        \* history: the vectors scanned by this search

vars == <<probes, pc, query, cent_dists, cands, probe_i, vi, root, hole, result, seen>>

----------------------------------------------------------------------------
(* Data of the search                                                      *)

CentDists  == [idx : Cents, dist : Nat \cup {NaN}]
Candidates == [dist : Nat, is_fraud : BOOLEAN, vec : Vecs]
Neighbors  == [is_fraud : BOOLEAN, vec : Vecs]

\* a.dist.partial_cmp(&b.dist).unwrap_or(Equal) = Less: NaN ties with everything.
Closer(a, b) == a.dist # NaN /\ b.dist # NaN /\ a.dist < b.dist

\* load: an explicit probe count wins, zero means the header's default.
ActualProbes(env, default) == IF env > 0 THEN env ELSE default

\* self.probes.min(self.num_cents)
EffectiveButOne == IF probes < NumCents THEN probes ELSE NumCents - 1
EffectiveProbes == IF probes <= NumCents THEN probes ELSE NumCents

Stale(s) == s
\* Vec::clear at the start of a search: the buffer holds the last search's entries.
Clear(s) == <<>>

FreshCentDists(q) ==
    [i \in 1 .. NumCents |-> [idx |-> i - 1, dist |-> CentDist[q][i - 1]]]

ClusterStart(c) == Offsets[c]
ClusterEndShort(c) == IF Offsets[c + 1] > Offsets[c] THEN Offsets[c + 1] - 1 ELSE Offsets[c]
ClusterEnd(c)   == Offsets[c + 1]

CandidateOf(v) == [dist |-> VecDist[query][v], is_fraud |-> Labels[v] = 1, vec |-> v]

\* The cluster the probe loop is in.
Current == cent_dists[probe_i + 1].idx

\* Index 1 is the root (h[0]); the children of i are 2i and 2i+1.
\* One turn of sift_down_max: the largest of a node and its children.
Largest(h, i) ==
    LET left == IF 2 * i <= Len(h) /\ h[2 * i].dist > h[i].dist THEN 2 * i ELSE i
    IN  IF 2 * i + 1 <= Len(h) /\ h[2 * i + 1].dist > h[left].dist
        THEN 2 * i + 1 ELSE left

Swap(h, i, j) == [h EXCEPT ![i] = h[j], ![j] = h[i]]

----------------------------------------------------------------------------
(* Searcher::load, as far as the search depends on it                      *)

\* There is no argument before the first search.
AnyQuery == CHOOSE q \in Query : TRUE

Init ==
    /\ \E env \in EnvProbes, default \in HeaderProbes :
          probes = ActualProbes(env, default)
    /\ pc = "idle"
    /\ query = AnyQuery
    /\ cent_dists = <<>>
    /\ cands = <<>>
    /\ probe_i = 0
    /\ vi = 0
    /\ root = 0
    /\ hole = 0
    /\ result = [status |-> "none", neighbors |-> <<>>]
    /\ seen = {}

----------------------------------------------------------------------------
(* Searcher::search                                                        *)

\* Rank: the buffer is emptied, then every centroid's distance is pushed.
Start(q) ==
    /\ pc = "idle"
    /\ query' = q
    /\ cent_dists' = Clear(cent_dists) \o FreshCentDists(q)
    /\ pc' = "select"
    /\ UNCHANGED <<probes, cands, probe_i, vi, root, hole, result, seen>>

PrefixButOneSelected(t, n) ==
    \A i \in 1 .. n - 1 : \A j \in (i + 1) .. Len(t) : ~ Closer(t[j], t[i])
\* What select_nth_unstable_by and the sort of the prefix guarantee: the first
\* n entries are in order and none behind an entry of the prefix is closer.
PrefixSelected(t, n) ==
    \A i \in 1 .. n : \A j \in (i + 1) .. Len(t) : ~ Closer(t[j], t[i])

\* probes - 1 is no index of the slice select_nth_unstable_by is called on.
SelectPanicsWhen(n) == n = 0 /\ n < Len(cent_dists)

\* Any arrangement of equal distances may come out of the unstable sorts.
SelectProbes ==
    /\ pc = "select"
    /\ ~ SelectPanicsWhen(EffectiveProbes)
    /\ \E p \in Bijection(1 .. Len(cent_dists), 1 .. Len(cent_dists)) :
          LET t == [i \in 1 .. Len(cent_dists) |-> cent_dists[p[i]]]
          IN  /\ PrefixSelected(t, EffectiveProbes)
              /\ cent_dists' = t
    /\ cands' = Clear(cands)
    /\ probe_i' = 0
    /\ seen' = {}
    /\ pc' = "probe"
    /\ UNCHANGED <<probes, query, vi, root, hole, result>>

\* probes - 1 with probes = 0: the nth index is out of range and the task panics;
\* the unwinding releases the borrow of the buffer and leaves its contents.
SelectPanics ==
    /\ pc = "select"
    /\ SelectPanicsWhen(EffectiveProbes)
    /\ result' = [status |-> "panic", neighbors |-> <<>>]
    /\ pc' = "idle"
    /\ UNCHANGED <<probes, query, cent_dists, cands, probe_i, vi, root, hole, seen>>

EnterCluster ==
    /\ pc = "probe"
    /\ probe_i < EffectiveProbes
    /\ vi' = ClusterStart(Current)
    /\ pc' = "scan"
    /\ UNCHANGED <<probes, query, cent_dists, cands, probe_i, root, hole, result, seen>>

HeapifyFromBefore(n) == n \div 2 - 1
\* heapify_max runs its loop from the last inner node down; K = 1 has none.
HeapifyFrom(n) == n \div 2

RoomForOneMore(h) == Len(h) <= K
\* buf.cands.len() < k
Room(h) == Len(h) < K

\* Below K entries a vector is pushed; the K-th push makes the buffer a heap.
Push ==
    /\ pc = "scan"
    /\ vi < ClusterEnd(Current)
    /\ Room(cands)
    /\ cands' = Append(cands, CandidateOf(vi))
    /\ seen' = seen \cup {vi}
    /\ vi' = vi + 1
    /\ IF Len(cands) + 1 = K /\ HeapifyFrom(K) > 0
       THEN /\ pc' = "sift"
            /\ root' = HeapifyFrom(K)
            /\ hole' = HeapifyFrom(K)
       ELSE UNCHANGED <<pc, root, hole>>
    /\ UNCHANGED <<probes, query, cent_dists, probe_i, result>>

BeatsLast(d, h) == d < h[Len(h)].dist
LosesToRoot(d, h) == d > h[1].dist
\* d < cands[0].dist
BeatsRoot(d, h) == d < h[1].dist

\* A vector closer than the K-th takes the root's place, which is then sifted.
Replace ==
    /\ pc = "scan"
    /\ vi < ClusterEnd(Current)
    /\ ~ Room(cands)
    /\ BeatsRoot(VecDist[query][vi], cands)
    /\ cands' = [cands EXCEPT ![1] = CandidateOf(vi)]
    /\ seen' = seen \cup {vi}
    /\ vi' = vi + 1
    /\ pc' = "sift"
    /\ root' = 1
    /\ hole' = 1
    /\ UNCHANGED <<probes, query, cent_dists, probe_i, result>>

Skip ==
    /\ pc = "scan"
    /\ vi < ClusterEnd(Current)
    /\ ~ Room(cands)
    /\ ~ BeatsRoot(VecDist[query][vi], cands)
    /\ seen' = seen \cup {vi}
    /\ vi' = vi + 1
    /\ UNCHANGED <<probes, pc, query, cent_dists, cands, probe_i, root, hole, result>>

SiftSwap ==
    /\ pc = "sift"
    /\ Largest(cands, hole) # hole
    /\ cands' = Swap(cands, hole, Largest(cands, hole))
    /\ hole' = Largest(cands, hole)
    /\ UNCHANGED <<probes, pc, query, cent_dists, probe_i, vi, root, result, seen>>

\* The element is in place: heapify_max goes on with the node before, if any.
SiftDone ==
    /\ pc = "sift"
    /\ Largest(cands, hole) = hole
    /\ IF root > 1
       THEN /\ root' = root - 1
            /\ hole' = root - 1
            /\ pc' = pc
       ELSE /\ pc' = "scan"
            /\ UNCHANGED <<root, hole>>
    /\ UNCHANGED <<probes, query, cent_dists, cands, probe_i, vi, result, seen>>

LeaveClusterToItself ==
    /\ pc = "scan"
    /\ vi >= ClusterEnd(Current)
    /\ pc' = "probe"
    /\ UNCHANGED <<probes, query, cent_dists, cands, probe_i, vi, root, hole, result, seen>>
LeaveCluster ==
    /\ pc = "scan"
    /\ vi >= ClusterEnd(Current)
    /\ probe_i' = probe_i + 1
    /\ pc' = "probe"
    /\ UNCHANGED <<probes, query, cent_dists, cands, vi, root, hole, result, seen>>

\* The neighbours are copied out; the buffer keeps its entries.
Collect ==
    /\ pc = "probe"
    /\ probe_i >= EffectiveProbes
    /\ result' = [status |-> "ok",
                  neighbors |-> [i \in 1 .. Len(cands) |->
                      [is_fraud |-> cands[i].is_fraud, vec |-> cands[i].vec]]]
    /\ pc' = "idle"
    /\ UNCHANGED <<probes, query, cent_dists, cands, probe_i, vi, root, hole, seen>>

SearchStep ==
    \/ SelectProbes \/ SelectPanics
    \/ EnterCluster \/ LeaveCluster
    \/ Push \/ Replace \/ Skip
    \/ SiftSwap \/ SiftDone
    \/ Collect

Next == (\E q \in Query : Start(q)) \/ SearchStep

Spec == Init /\ [][Next]_vars

\* A thread that is in a search goes on with it; nobody is bound to ask a query.
FairSpec == Spec /\ WF_vars(SearchStep)

----------------------------------------------------------------------------
(* Properties                                                              *)

TypeOK ==
    /\ probes \in Nat
    /\ pc \in {"idle", "select", "probe", "scan", "sift"}
    /\ query \in Query
    /\ cent_dists \in Seq(CentDists)
    /\ cands \in Seq(Candidates) /\ Len(cands) <= K
    /\ probe_i \in 0 .. NumCents
    /\ vi \in 0 .. NumVecs
    /\ root \in 0 .. K
    /\ hole \in 0 .. K
    /\ result \in [status : {"none", "ok", "panic"}, neighbors : Seq(Neighbors)]
    /\ seen \subseteq Vecs

Scanning == pc \in {"probe", "scan", "sift"}

Members(c) == Offsets[c] .. Offsets[c + 1] - 1

Idx(i) == cent_dists[i].idx

\* The vectors of the first n clusters of the ranking.
InFirst(n) == UNION {Members(Idx(i)) : i \in 1 .. n}

\* While a search is under way the buffer ranks every centroid of this index
\* once, with the distances of this query: nothing of the last search is left.
RankOfThisQuery ==
    pc # "idle" =>
        /\ Len(cent_dists) = NumCents
        /\ \A i, j \in 1 .. NumCents : Idx(i) = Idx(j) => i = j
        /\ \A c \in Cents : \E i \in 1 .. NumCents : Idx(i) = c
        /\ \A i \in 1 .. NumCents : cent_dists[i].dist = CentDist[query][Idx(i)]

\* From the selection on, the probe loop walks centroids in the order of their
\* distance and none behind the prefix is closer than one inside it.
NearestFirst == Scanning => PrefixSelected(cent_dists, EffectiveProbes)

\* The two loops have scanned the clusters already left, and the current one up
\* to vi: no vector of a probed cluster is missed and none outside is read.
ScannedSoFar ==
    Scanning =>
        /\ probe_i <= EffectiveProbes
        /\ pc = "probe" => seen = InFirst(probe_i)
        /\ pc # "probe" =>
              /\ probe_i < EffectiveProbes
              /\ ClusterStart(Current) <= vi /\ vi <= ClusterEnd(Current)
              /\ seen = InFirst(probe_i) \cup (ClusterStart(Current) .. vi - 1)

Kept == {cands[i].vec : i \in 1 .. Len(cands)}

\* At every moment of a scan, also in the middle of a sift, the candidates are
\* distinct scanned vectors with their own distance and label; everything
\* scanned is kept while there is room, and what was turned away or evicted is
\* no closer than anything kept.
KeptAreNearest ==
    Scanning =>
        /\ \A i, j \in 1 .. Len(cands) : cands[i].vec = cands[j].vec => i = j
        /\ \A i \in 1 .. Len(cands) : cands[i] = CandidateOf(cands[i].vec)
        /\ Kept \subseteq seen
        /\ Len(cands) < K => Kept = seen
        /\ \A i \in 1 .. Len(cands), v \in seen \ Kept :
              cands[i].dist <= VecDist[query][v]

\* h is a max-heap below the nodes lo..Len(h), the node x excepted.
HeapFrom(h, lo, x) ==
    \A p \in lo .. Len(h) : \A c \in {2 * p, 2 * p + 1} :
        (p # x /\ c <= Len(h)) => h[p].dist >= h[c].dist

\* A full buffer is a max-heap whenever its root is compared with a new vector;
\* while an element sinks only the hole is out of order, and the hole's parent
\* already dominates the hole's children.
HeapOrder ==
    Scanning =>
        /\ pc # "sift" /\ Len(cands) = K => HeapFrom(cands, 1, 0)
        /\ pc = "sift" =>
              /\ Len(cands) = K
              /\ 1 <= root /\ root <= hole
              /\ HeapFrom(cands, root, hole)
              /\ hole \div 2 >= root =>
                    \A c \in {2 * hole, 2 * hole + 1} :
                        c <= K => cands[hole \div 2].dist >= cands[c].dist

\* "IVF_PROBES must be a positive integer", "-probes must be a positive integer":
\* with both of them positive a search always has a cluster to look into.  The
\* parsers let 0 through, and two zeros make every search panic.
SearchNeverPanics == result.status # "panic"

\* The inductive invariant.
IInv ==
    /\ TypeOK
    /\ RankOfThisQuery
    /\ NearestFirst
    /\ ScannedSoFar
    /\ KeptAreNearest
    /\ HeapOrder

\* A root that is compared with a new vector is the farthest candidate kept:
\* the test d < cands[0].dist never turns away a vector that belongs in.
RootIsFarthest ==
    (pc \in {"probe", "scan"} /\ Len(cands) = K) =>
        \A i \in 1 .. K : cands[i].dist <= cands[1].dist

\* With as many probes as centroids the index answers like a brute-force scan:
\* the clusters cover the reference set and none of it is scanned twice.
FullProbeIsExact ==
    (pc = "idle" /\ result.status = "ok" /\ probes >= NumCents) =>
        LET nb   == result.neighbors
            Got  == {nb[i].vec : i \in 1 .. Len(nb)}
        IN  /\ \A i, j \in 1 .. Len(nb) : nb[i].vec = nb[j].vec => i = j
            /\ Len(nb) <= K
            /\ Len(nb) < K => Got = Vecs
            /\ \A i \in 1 .. Len(nb), v \in Vecs \ Got :
                  VecDist[query][nb[i].vec] <= VecDist[query][v]

\* Once K candidates are held no step of the search, swaps of a sift included,
\* makes the farthest of them farther.
FarthestNeverGrows ==
    (Scanning /\ Scanning' /\ Len(cands) = K) =>
        \A i \in 1 .. K : \E j \in 1 .. K : cands'[i].dist <= cands[j].dist

KthNeverGrows == [][FarthestNeverGrows]_vars

\* search implements its promise: see NearestK.
Promise == INSTANCE NearestK WITH busy <- pc # "idle"

RefinesNearestK == Promise!Spec

\* Every search ends, whatever the offsets, ties and heap contents.
SearchTerminates == pc = "select" ~> pc = "idle"
=============================================================================
