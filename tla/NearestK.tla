------------------------------ MODULE NearestK ------------------------------
(***************************************************************************)
(* What Searcher::search promises its caller, without clusters tables,     *)
(* buffers or heaps: a request is answered once, with K vectors that are   *)
(* the nearest of those in some choice of the `probes` nearest clusters.   *)
(* Ties, between centroids or between vectors, may be broken either way.   *)
(***************************************************************************)
EXTENDS Integers, Sequences, FiniteSets

CONSTANTS
    K,         \* how many neighbours are asked for
    Cents,     \* the clusters
    Members(_),\* the vectors of a cluster
    Labels,    \* the label byte of every vector
    Query,     \* the queries that can be asked
    CentDist,  \* CentDist[q][c], possibly NaN
    VecDist,   \* VecDist[q][v]
    NaN

VARIABLES
    probes,    \* how many clusters a search may look into
    busy,      \* a request is being served
    query,     \* the request
    result     \* the last answer

vars == <<probes, busy, query, result>>

----------------------------------------------------------------------------
\* Strictly closer; NaN is not comparable.
CloserCent(q, c, d) ==
    CentDist[q][c] # NaN /\ CentDist[q][d] # NaN /\ CentDist[q][c] < CentDist[q][d]

\* P is a legitimate choice of n clusters: none left out is closer than one taken.
NearestClusters(q, n, P) ==
    /\ P \subseteq Cents
    /\ Cardinality(P) = n
    /\ \A c \in P, d \in Cents \ P : ~ CloserCent(q, d, c)

Pool(P) == UNION {Members(c) : c \in P}

VecsOf(nb) == {nb[i].vec : i \in DOMAIN nb}

\* nb lists, without repetition, K nearest vectors of S (all of S if it has fewer).
KNearest(q, S, nb) ==
    /\ Len(nb) <= K
    /\ \A i, j \in DOMAIN nb : nb[i].vec = nb[j].vec => i = j
    /\ VecsOf(nb) \subseteq S
    /\ Len(nb) < K => VecsOf(nb) = S
    /\ \A i \in DOMAIN nb, v \in S \ VecsOf(nb) : VecDist[q][nb[i].vec] <= VecDist[q][v]
    /\ \A i \in DOMAIN nb : nb[i].is_fraud = (Labels[nb[i].vec] = 1)

NumProbed == IF probes <= Cardinality(Cents) THEN probes ELSE Cardinality(Cents)

----------------------------------------------------------------------------
Init ==
    /\ probes \in Nat
    /\ busy = FALSE
    /\ query \in Query
    /\ result = [status |-> "none", neighbors |-> <<>>]

Ask(q) ==
    /\ ~ busy
    /\ busy' = TRUE
    /\ query' = q
    /\ UNCHANGED <<probes, result>>

Answer ==
    /\ busy
    /\ \E P \in SUBSET Cents :
          /\ NearestClusters(query, NumProbed, P)
          /\ KNearest(query, Pool(P), result'.neighbors)
    /\ result' = [status |-> "ok", neighbors |-> result'.neighbors]
    /\ busy' = FALSE
    /\ UNCHANGED <<probes, query>>

\* No probe at all on a non-empty index: the search dies instead of answering.
Fail ==
    /\ busy
    /\ probes = 0
    /\ Cents # {}
    /\ result' = [status |-> "panic", neighbors |-> <<>>]
    /\ busy' = FALSE
    /\ UNCHANGED <<probes, query>>

Next == (\E q \in Query : Ask(q)) \/ Answer \/ Fail

Spec == Init /\ [][Next]_vars
=============================================================================
