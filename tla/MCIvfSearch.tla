---------------------------- MODULE MCIvfSearch ----------------------------
(***************************************************************************)
(* TLC instances of IvfSearch.  Every assignment of 0..MaxVecDist to the   *)
(* vectors is a query, so every relative order and tie of the heap's       *)
(* entries is met.                                                         *)
(***************************************************************************)
EXTENDS IvfSearch, TLC

CONSTANTS
    MaxVecDist,   \* vector distances are 0..MaxVecDist
    CentRanks,    \* the centroid distances of a query, one sequence per choice
    Bounds        \* the offsets as a sequence: Bounds[c+1] = offsets[c]

MCOffsets == [c \in 0 .. NumCents |-> Bounds[c + 1]]
MCLabels == [v \in Vecs |-> v % 3]

MCQuery == CentRanks \X [Vecs -> 0 .. MaxVecDist]
MCCentDist == [q \in Query |-> [c \in Cents |-> q[1][c + 1]]]
MCVecDist == [q \in Query |-> q[2]]

\* Distinct distances, ties and a NaN query.
MCRanks == {<<2, 0, 1>>, <<0, 1, 1>>, <<NaN, NaN, NaN>>}
MCBounds == <<0, 2, 2, 4>>    \* the second cluster is empty

\* For a panic, fewer queries will do.
MCRanksLive == {<<2, 0, 1>>, <<NaN, NaN, NaN>>}
=============================================================================
