-------------------------- MODULE IvfSearchProofs --------------------------
(***************************************************************************)
(* Theorems about IvfSearch, for every index, query and distance.          *)
(***************************************************************************)
EXTENDS IvfSearch, FiniteSetTheorems, TLAPS

USE DEF Cents, Vecs

----------------------------------------------------------------------------
(* Arithmetic and the offset table                                         *)

\* A non-empty set of naturals has a least element.
LEMMA LeastNat ==
    ASSUME NEW T \in SUBSET Nat, T # {}
    PROVE  \E x \in T : \A y \in T : x <= y
<1>1. IsWellFoundedOn(OpToRel(<, Nat), Nat)
  BY NatLessThanWellFounded
<1>2. PICK x \in T : \A y \in T : ~ (<<y, x>> \in OpToRel(<, Nat))
  BY <1>1, WFMin, Zenon
<1>3. \A y \in T : ~ (y < x)
  BY <1>2 DEF OpToRel
<1> QED
  BY <1>3

\* The number of probed clusters, self.probes.min(self.num_cents).
LEMMA EffectiveType ==
    ASSUME probes \in Nat
    PROVE  /\ EffectiveProbes \in 0 .. NumCents
           /\ EffectiveProbes <= probes
           /\ probes >= NumCents => EffectiveProbes = NumCents
BY SizeAssumption DEF EffectiveProbes

\* Every cluster is an interval of the vector array.
LEMMA ClusterBounds ==
    ASSUME NEW c \in Cents
    PROVE  /\ ClusterStart(c) \in 0 .. NumVecs
           /\ ClusterEnd(c) \in 0 .. NumVecs
           /\ ClusterStart(c) <= ClusterEnd(c)
           /\ Members(c) \subseteq Vecs
BY SizeAssumption, OffsetsAssumption DEF ClusterStart, ClusterEnd, Members

\* Two clusters share no vector.
LEMMA ClustersDisjoint ==
    ASSUME NEW c \in Cents, NEW d \in Cents, NEW v \in Members(c), v \in Members(d)
    PROVE  c = d
<1>1. CASE c < d
  <2>1. Offsets[c + 1] <= Offsets[d]
    BY <1>1, SizeAssumption, OffsetsAssumption
  <2> QED BY <2>1, ClusterBounds DEF Members, ClusterStart, ClusterEnd
<1>2. CASE d < c
  <2>1. Offsets[d + 1] <= Offsets[c]
    BY <1>2, SizeAssumption, OffsetsAssumption
  <2> QED BY <2>1, ClusterBounds DEF Members, ClusterStart, ClusterEnd
<1> QED BY <1>1, <1>2, SizeAssumption

\* Together the clusters hold every vector.
LEMMA ClustersCover ==
    ASSUME NEW v \in Vecs
    PROVE  \E c \in Cents : v \in Members(c)
<1> DEFINE T == {i \in 0 .. NumCents : v < Offsets[i]}
<1>1. T \in SUBSET Nat /\ NumCents \in T
  BY SizeAssumption, OffsetsAssumption
<1>2. PICK x \in T : \A y \in T : x <= y
  BY <1>1, LeastNat
<1>3. x # 0
  BY OffsetsAssumption, SizeAssumption
<1>4. x - 1 \in Cents /\ x - 1 \notin T
  BY <1>2, <1>3, SizeAssumption
<1>5. Offsets[x - 1] <= v /\ v < Offsets[(x - 1) + 1]
  BY <1>4, SizeAssumption, OffsetsAssumption
<1>6. v \in Members(x - 1)
  BY <1>4, <1>5, SizeAssumption, OffsetsAssumption, ClusterBounds
  DEF Members, ClusterStart, ClusterEnd
<1> QED BY <1>4, <1>6

----------------------------------------------------------------------------
(* The heap                                                                *)

\* Fields of a candidate.
LEMMA CandidateFields ==
    ASSUME NEW c \in Candidates
    PROVE  c.dist \in Nat /\ c.is_fraud \in BOOLEAN /\ c.vec \in Vecs
BY DEF Candidates

\* Distances in the buffer are naturals.
LEMMA HeapDistances ==
    ASSUME NEW h \in Seq(Candidates)
    PROVE  \A j \in 1 .. Len(h) : h[j] \in Candidates /\ h[j].dist \in Nat
<1>1. \A j \in 1 .. Len(h) : h[j] \in Candidates
  OBVIOUS
<1> QED BY <1>1, CandidateFields

\* Largest picks a node among i and its children that dominates all three.
LEMMA LargestProperties ==
    ASSUME NEW h \in Seq(Candidates), NEW i \in 1 .. Len(h)
    PROVE  /\ Largest(h, i) \in {i, 2 * i, 2 * i + 1}
           /\ Largest(h, i) \in 1 .. Len(h)
           /\ h[Largest(h, i)].dist >= h[i].dist
           /\ \A c \in {2 * i, 2 * i + 1} :
                 c <= Len(h) => h[Largest(h, i)].dist >= h[c].dist
<1> DEFINE l == IF 2 * i <= Len(h) /\ h[2 * i].dist > h[i].dist THEN 2 * i ELSE i
<1>1. \A j \in 1 .. Len(h) : h[j].dist \in Nat
  BY HeapDistances
<1>2. /\ l \in {i, 2 * i} /\ l \in 1 .. Len(h)
      /\ h[l].dist >= h[i].dist
      /\ 2 * i <= Len(h) => h[l].dist >= h[2 * i].dist
  BY <1>1
<1>3. Largest(h, i) = IF 2 * i + 1 <= Len(h) /\ h[2 * i + 1].dist > h[l].dist
                      THEN 2 * i + 1 ELSE l
  BY DEF Largest
<1> HIDE DEF l
<1>4. CASE 2 * i + 1 <= Len(h) /\ h[2 * i + 1].dist > h[l].dist
  <2>1. Largest(h, i) = 2 * i + 1 /\ 2 * i + 1 \in 1 .. Len(h)
    BY <1>3, <1>4
  <2>2. h[2 * i + 1].dist >= h[i].dist /\ h[2 * i + 1].dist >= h[2 * i].dist
    BY <1>1, <1>2, <1>4
  <2> QED BY <2>1, <2>2, <1>1
<1>5. CASE ~ (2 * i + 1 <= Len(h) /\ h[2 * i + 1].dist > h[l].dist)
  <2>1. Largest(h, i) = l
    BY <1>3, <1>5
  <2>2. ASSUME 2 * i + 1 <= Len(h)
        PROVE  h[l].dist >= h[2 * i + 1].dist
    <3>1. 2 * i + 1 \in 1 .. Len(h)
      BY <2>2
    <3>2. h[2 * i + 1].dist \in Nat /\ h[l].dist \in Nat
      BY <1>1, <1>2, <3>1
    <3> QED BY <1>5, <2>2, <3>2
  <2> QED BY <2>1, <2>2, <1>2, <1>1
<1> QED BY <1>4, <1>5

\* Swapping two entries permutes the buffer.
LEMMA SwapProperties ==
    ASSUME NEW h \in Seq(Candidates), NEW i \in 1 .. Len(h), NEW j \in 1 .. Len(h)
    PROVE  /\ Swap(h, i, j) \in Seq(Candidates)
           /\ Len(Swap(h, i, j)) = Len(h)
           /\ Swap(h, i, j)[i] = h[j]
           /\ Swap(h, i, j)[j] = h[i]
           /\ \A m \in 1 .. Len(h) : m # i /\ m # j => Swap(h, i, j)[m] = h[m]
BY DEF Swap

\* The root of a max-heap is its farthest entry: a least counterexample would
\* have a parent that is a smaller one.
LEMMA HeapRootIsMax ==
    ASSUME NEW h \in Seq(Candidates), HeapFrom(h, 1, 0)
    PROVE  \A i \in 1 .. Len(h) : h[i].dist <= h[1].dist
<1> DEFINE B == {i \in 1 .. Len(h) : h[i].dist > h[1].dist}
<1>0. \A j \in 1 .. Len(h) : h[j].dist \in Nat
  BY HeapDistances
<1>1. SUFFICES ASSUME B # {} PROVE FALSE
  BY <1>0
<1>2. PICK x \in B : \A y \in B : x <= y
  <2>1. B \in SUBSET Nat
    OBVIOUS
  <2> QED BY <1>1, <2>1, LeastNat
<1>3. x \in 1 .. Len(h) /\ h[x].dist > h[1].dist
  OBVIOUS
<1>4. x # 1
  BY <1>3, <1>0
<1>5. PICK p \in 1 .. Len(h) : p < x /\ x \in {2 * p, 2 * p + 1}
  <2>1. x \div 2 \in 1 .. Len(h) /\ x \div 2 < x /\ x \in {2 * (x \div 2), 2 * (x \div 2) + 1}
    BY <1>3, <1>4
  <2> QED BY <2>1
<1>6. h[p].dist >= h[x].dist
  BY <1>3, <1>5 DEF HeapFrom
<1>7. p \in B
  BY <1>0, <1>3, <1>5, <1>6
<1> QED BY <1>2, <1>5, <1>7

----------------------------------------------------------------------------
(* The inductive invariant                                                 *)

\* Every entry of cent_dists names a cluster.
LEMMA IdxIsCluster ==
    ASSUME TypeOK, RankOfThisQuery, pc # "idle", NEW i \in 1 .. NumCents
    PROVE  Idx(i) \in Cents
<1>1. cent_dists[i] \in CentDists
  BY DEF TypeOK, RankOfThisQuery
<1> QED BY <1>1 DEF Idx, CentDists

\* The probe loop reads an entry of cent_dists that names a cluster.
LEMMA CurrentIsCluster ==
    ASSUME TypeOK, RankOfThisQuery, pc # "idle", probe_i < EffectiveProbes
    PROVE  /\ probe_i + 1 \in 1 .. NumCents
           /\ Current = Idx(probe_i + 1)
           /\ Current \in Cents
<1>1. probe_i + 1 \in 1 .. NumCents
  BY EffectiveType, SizeAssumption DEF TypeOK
<1> QED BY <1>1, IdxIsCluster DEF Current, Idx

\* A scanned vector becomes a well-formed candidate.
LEMMA CandidateOfType ==
    ASSUME query \in Query, NEW v \in Vecs
    PROVE  /\ CandidateOf(v) \in Candidates
           /\ CandidateOf(v).dist = VecDist[query][v]
           /\ CandidateOf(v).vec = v
           /\ VecDist[query][v] \in Nat
<1>1. VecDist[query][v] \in Nat
  BY DistAssumption
<1> QED BY <1>1 DEF CandidateOf, Candidates

\* The vector loop is at a vector of the reference set not scanned before.
LEMMA NextVectorIsNew ==
    ASSUME TypeOK, RankOfThisQuery, ScannedSoFar, pc = "scan", vi < ClusterEnd(Current)
    PROVE  vi \in Vecs /\ vi \notin seen
<1>1. /\ probe_i < EffectiveProbes
      /\ ClusterStart(Current) <= vi
      /\ seen = InFirst(probe_i) \cup (ClusterStart(Current) .. vi - 1)
  BY DEF ScannedSoFar, Scanning
<1>2. /\ probe_i + 1 \in 1 .. NumCents
      /\ Current = Idx(probe_i + 1)
      /\ Current \in Cents
  BY <1>1, CurrentIsCluster
<1>3. vi \in Members(Current) /\ vi \in Vecs
  <2>1. vi \in Int
    BY DEF TypeOK
  <2>2. /\ Offsets[Current] \in 0 .. NumVecs
        /\ Offsets[Current + 1] \in 0 .. NumVecs
    BY <1>2, ClusterBounds DEF ClusterStart, ClusterEnd
  <2>3. Offsets[Current] <= vi /\ vi < Offsets[Current + 1]
    BY <1>1 DEF ClusterStart, ClusterEnd
  <2>4. vi \in Members(Current)
    BY <2>1, <2>2, <2>3 DEF Members
  <2>5. vi \in Vecs
    BY <2>1, <2>2, <2>3, SizeAssumption DEF Vecs
  <2> QED BY <2>4, <2>5
<1>4. ASSUME NEW i \in 1 .. probe_i, vi \in Members(Idx(i))
      PROVE  FALSE
  <2>0. i \in 1 .. NumCents
    BY <1>2, SizeAssumption DEF TypeOK
  <2>1. i \in 1 .. NumCents /\ Idx(i) \in Cents
    BY <2>0, IdxIsCluster
  <2>2. Idx(i) = Current
    BY <2>1, <1>2, <1>3, <1>4, ClustersDisjoint
  <2>3. i = probe_i + 1
    BY <2>1, <2>2, <1>2 DEF RankOfThisQuery
  <2> QED BY <2>3 DEF TypeOK
<1>5. vi \notin InFirst(probe_i)
  BY <1>4 DEF InFirst
<1>6. vi \notin ClusterStart(Current) .. vi - 1
  BY DEF TypeOK
<1> QED BY <1>1, <1>3, <1>5, <1>6

\* Scanning one more vector stays inside the reference set.
LEMMA OneMoreScanned ==
    ASSUME vi \in Vecs, seen \subseteq Vecs
    PROVE  seen \cup {vi} \subseteq Vecs /\ vi + 1 \in 0 .. NumVecs
<1>1. seen \cup {vi} \subseteq Vecs
  OBVIOUS
<1>2. vi + 1 \in 0 .. NumVecs
  BY SizeAssumption DEF Vecs
<1> QED BY <1>1, <1>2

\* A loaded searcher with an empty buffer satisfies the invariant.
LEMMA InitEstablishes == Init => IInv
<1> SUFFICES ASSUME Init PROVE IInv
  OBVIOUS
<1>1. \E env \in EnvProbes, default \in HeaderProbes : probes = ActualProbes(env, default)
  BY DEF Init
<1>2. probes \in Nat
  BY <1>1, ProbesAssumption DEF ActualProbes
<1>3. query \in Query
  BY DistAssumption DEF Init, AnyQuery
<1>4. TypeOK
  BY <1>2, <1>3, SizeAssumption, KAssumption DEF Init, TypeOK
<1> QED
  BY <1>4 DEF Init, IInv, RankOfThisQuery, NearestFirst, ScannedSoFar,
              KeptAreNearest, HeapOrder, Scanning

\* No step of a search leaves the types; Room keeps the buffer at K entries.
LEMMA TypeStep == IInv /\ [Next]_vars => TypeOK'
<1> SUFFICES ASSUME IInv, [Next]_vars PROVE TypeOK'
  OBVIOUS
<1> USE SizeAssumption, KAssumption
<1>0. TypeOK
  BY DEF IInv
<1>1. ASSUME NEW q \in Query, Start(q) PROVE TypeOK'
  <2>1. FreshCentDists(q) \in Seq(CentDists)
    <3>1. \A i \in 1 .. NumCents :
             [idx |-> i - 1, dist |-> CentDist[q][i - 1]] \in CentDists
      BY DistAssumption DEF CentDists
    <3> QED BY <3>1 DEF FreshCentDists
  <2>2. cent_dists' \in Seq(CentDists)
    BY <1>1, <2>1 DEF Start, Clear
  <2> QED BY <1>0, <1>1, <2>2 DEF Start, TypeOK
<1>2. CASE SelectProbes
  <2>1. cent_dists' \in Seq(CentDists)
    <3>1. PICK p \in Bijection(1 .. Len(cent_dists), 1 .. Len(cent_dists)) :
             cent_dists' = [i \in 1 .. Len(cent_dists) |-> cent_dists[p[i]]]
      BY <1>2 DEF SelectProbes
    <3>a. cent_dists \in Seq(CentDists)
      BY <1>0 DEF TypeOK
    <3>b. \A i \in 1 .. Len(cent_dists) : p[i] \in 1 .. Len(cent_dists)
      BY DEF Bijection, Injection
    <3>2. \A i \in 1 .. Len(cent_dists) : cent_dists[p[i]] \in CentDists
      BY <3>a, <3>b
    <3>3. Len(cent_dists) \in Nat
      BY <3>a
    <3> QED BY <3>1, <3>2, <3>3
  <2> QED BY <1>0, <1>2, <2>1 DEF SelectProbes, TypeOK, Clear
<1>3. CASE SelectPanics
  BY <1>0, <1>3 DEF SelectPanics, TypeOK
<1>4. CASE EnterCluster
  <2>1. Current \in Cents
    BY <1>4, CurrentIsCluster DEF EnterCluster, IInv
  <2> QED BY <1>0, <1>4, <2>1, ClusterBounds DEF EnterCluster, TypeOK
<1>5. CASE LeaveCluster
  <2>1. probe_i + 1 \in 0 .. NumCents
    BY <1>5, EffectiveType DEF LeaveCluster, IInv, ScannedSoFar, Scanning, TypeOK
  <2> QED BY <1>0, <1>5, <2>1 DEF LeaveCluster, TypeOK
<1>6. CASE Push
  <2>1. vi \in Vecs
    BY <1>6, NextVectorIsNew DEF Push, IInv
  <2>2. cands' \in Seq(Candidates) /\ Len(cands') <= K
    BY <1>0, <1>6, <2>1, CandidateOfType DEF Push, Room, TypeOK
  <2>3. seen' \subseteq Vecs /\ vi' \in 0 .. NumVecs
    <3>1. seen' = seen \cup {vi} /\ vi' = vi + 1
      BY <1>6 DEF Push
    <3>2. seen \subseteq Vecs
      BY <1>0 DEF TypeOK
    <3> QED BY <2>1, <3>1, <3>2, OneMoreScanned
  <2>4. pc' \in {"scan", "sift"} /\ root' \in 0 .. K /\ hole' \in 0 .. K
    BY <1>0, <1>6 DEF Push, TypeOK, HeapifyFrom
  <2> QED BY <1>0, <1>6, <2>2, <2>3, <2>4 DEF Push, TypeOK
<1>7. CASE Replace
  <2>1. vi \in Vecs
    BY <1>7, NextVectorIsNew DEF Replace, IInv
  <2>2. cands' \in Seq(Candidates) /\ Len(cands') <= K
    BY <1>0, <1>7, <2>1, CandidateOfType DEF Replace, Room, TypeOK
  <2>3. seen' \subseteq Vecs /\ vi' \in 0 .. NumVecs
    <3>1. seen' = seen \cup {vi} /\ vi' = vi + 1
      BY <1>7 DEF Replace
    <3>2. seen \subseteq Vecs
      BY <1>0 DEF TypeOK
    <3> QED BY <2>1, <3>1, <3>2, OneMoreScanned
  <2> QED BY <1>0, <1>7, <2>2, <2>3 DEF Replace, TypeOK
<1>8. CASE Skip
  <2>1. vi \in Vecs
    BY <1>8, NextVectorIsNew DEF Skip, IInv
  <2>2. seen' \subseteq Vecs /\ vi' \in 0 .. NumVecs
    <3>1. seen' = seen \cup {vi} /\ vi' = vi + 1
      BY <1>8 DEF Skip
    <3>2. seen \subseteq Vecs
      BY <1>0 DEF TypeOK
    <3> QED BY <2>1, <3>1, <3>2, OneMoreScanned
  <2> QED BY <1>0, <1>8, <2>2 DEF Skip, TypeOK
<1>9. CASE SiftSwap
  <2>1. cands \in Seq(Candidates) /\ hole \in 1 .. Len(cands) /\ Len(cands) = K
    BY <1>0, <1>9 DEF SiftSwap, IInv, HeapOrder, Scanning, TypeOK
  <2>2. Largest(cands, hole) \in 1 .. Len(cands)
    BY <2>1, LargestProperties
  <2>3. cands' \in Seq(Candidates) /\ Len(cands') <= K
    BY <1>9, <2>1, <2>2, SwapProperties DEF SiftSwap
  <2> QED BY <1>0, <1>9, <2>1, <2>2, <2>3 DEF SiftSwap, TypeOK
<1>10. CASE SiftDone
  BY <1>0, <1>10 DEF SiftDone, TypeOK
<1>11. CASE Collect
  <2>1. \A i \in 1 .. Len(cands) :
           [is_fraud |-> cands[i].is_fraud, vec |-> cands[i].vec] \in Neighbors
    BY <1>0, HeapDistances, CandidateFields DEF Neighbors, TypeOK
  <2>2. Len(cands) \in Nat
    BY <1>0 DEF TypeOK
  <2>3. [i \in 1 .. Len(cands) |->
           [is_fraud |-> cands[i].is_fraud, vec |-> cands[i].vec]] \in Seq(Neighbors)
    BY <2>1, <2>2
  <2> QED BY <1>0, <1>11, <2>3 DEF Collect, TypeOK
<1>12. CASE UNCHANGED vars
  BY <1>0, <1>12 DEF vars, TypeOK
<1> QED
  BY <1>1, <1>2, <1>3, <1>4, <1>5, <1>6, <1>7, <1>8, <1>9, <1>10, <1>11, <1>12
  DEF Next, SearchStep

\* Only Start and SelectProbes touch the ranking.
LEMMA RankingFrame ==
    ASSUME TypeOK, [Next]_vars, ~ (\E q \in Query : Start(q)), ~ SelectProbes
    PROVE  /\ UNCHANGED <<cent_dists, query, probes>>
           /\ pc' # "idle" => pc # "idle"
           /\ Scanning' => Scanning
<1>1. CASE SelectPanics
  BY <1>1 DEF SelectPanics, Scanning
<1>2. CASE EnterCluster \/ LeaveCluster
  BY <1>2 DEF EnterCluster, LeaveCluster, Scanning
<1>3. CASE Push
  BY <1>3 DEF Push, Scanning
<1>4. CASE Replace \/ Skip
  BY <1>4 DEF Replace, Skip, Scanning
<1>5. CASE SiftSwap
  BY <1>5 DEF SiftSwap, Scanning
<1>6. CASE SiftDone
  BY <1>6 DEF SiftDone, Scanning
<1>7. CASE Collect
  BY <1>7 DEF Collect, Scanning
<1>8. CASE UNCHANGED vars
  BY <1>8 DEF vars, Scanning
<1> QED
  BY <1>1, <1>2, <1>3, <1>4, <1>5, <1>6, <1>7, <1>8 DEF Next, SearchStep

\* Every step keeps the ranking one of all centroids for the query under way.
LEMMA RankStep == IInv /\ [Next]_vars => RankOfThisQuery' /\ NearestFirst'
<1> SUFFICES ASSUME IInv, [Next]_vars PROVE RankOfThisQuery' /\ NearestFirst'
  OBVIOUS
<1>0. TypeOK /\ RankOfThisQuery /\ NearestFirst
  BY DEF IInv
<1>1. ASSUME NEW q \in Query, Start(q) PROVE RankOfThisQuery' /\ NearestFirst'
  <2>1. FreshCentDists(q) \in Seq(CentDists)
    <3>1. \A i \in 1 .. NumCents :
             [idx |-> i - 1, dist |-> CentDist[q][i - 1]] \in CentDists
      BY DistAssumption, SizeAssumption DEF CentDists
    <3> QED BY <3>1, SizeAssumption DEF FreshCentDists
  <2>2. cent_dists' = FreshCentDists(q)
    BY <1>1, <2>1 DEF Start, Clear
  <2>3. /\ Len(cent_dists') = NumCents
        /\ \A i \in 1 .. NumCents :
              cent_dists'[i] = [idx |-> i - 1, dist |-> CentDist[q][i - 1]]
    BY <2>2, SizeAssumption DEF FreshCentDists
  <2>4. \A i \in 1 .. NumCents : Idx(i)' = i - 1
    BY <2>3 DEF Idx
  <2>5. \A c \in Cents : \E i \in 1 .. NumCents : Idx(i)' = c
    <3>1. \A c \in Cents : c + 1 \in 1 .. NumCents /\ (c + 1) - 1 = c
      BY SizeAssumption
    <3> QED BY <2>4, <3>1
  <2>6. query' = q /\ pc' = "select"
    BY <1>1 DEF Start
  <2>7. \A i \in 1 .. NumCents : cent_dists'[i].dist = CentDist[query'][Idx(i)']
    BY <2>3, <2>4, <2>6
  <2> QED BY <2>3, <2>4, <2>5, <2>6, <2>7, SizeAssumption
          DEF RankOfThisQuery, NearestFirst, Scanning
<1>2. CASE SelectProbes
  <2>1. pc # "idle" /\ query' = query /\ probes' = probes
    BY <1>2 DEF SelectProbes
  <2>2. Len(cent_dists) = NumCents
    BY <1>0, <2>1 DEF RankOfThisQuery
  <2>3. PICK p \in Bijection(1 .. NumCents, 1 .. NumCents) :
           /\ cent_dists' = [i \in 1 .. NumCents |-> cent_dists[p[i]]]
           /\ PrefixSelected(cent_dists', EffectiveProbes)
    BY <1>2, <2>2 DEF SelectProbes
  <2>4. /\ p \in [1 .. NumCents -> 1 .. NumCents]
        /\ \A i, j \in 1 .. NumCents : p[i] = p[j] => i = j
        /\ \A j \in 1 .. NumCents : \E i \in 1 .. NumCents : p[i] = j
    BY <2>3 DEF Bijection, Injection, Surjection, IsInjective
  <2>5. Len(cent_dists') = NumCents
    BY <2>3, SizeAssumption
  <2>6. \A i \in 1 .. NumCents : Idx(i)' = Idx(p[i])
    BY <2>3 DEF Idx
  <2>7. \A i, j \in 1 .. NumCents : Idx(i)' = Idx(j)' => i = j
    <3> SUFFICES ASSUME NEW i \in 1 .. NumCents, NEW j \in 1 .. NumCents,
                        Idx(p[i]) = Idx(p[j])
                 PROVE  i = j
      BY <2>6
    <3>1. p[i] \in 1 .. NumCents /\ p[j] \in 1 .. NumCents
      BY <2>4
    <3>2. p[i] = p[j]
      BY <1>0, <2>1, <3>1 DEF RankOfThisQuery
    <3> QED BY <2>4, <3>2
  <2>8. \A c \in Cents : \E i \in 1 .. NumCents : Idx(i)' = c
    BY <1>0, <2>1, <2>4, <2>6 DEF RankOfThisQuery
  <2>9. \A i \in 1 .. NumCents : cent_dists'[i].dist = CentDist[query'][Idx(i)']
    BY <1>0, <2>1, <2>3, <2>4, <2>6 DEF RankOfThisQuery
  <2>10. EffectiveProbes' = EffectiveProbes
    BY <2>1 DEF EffectiveProbes
  <2>11. NearestFirst'
    BY <2>3, <2>10 DEF NearestFirst, PrefixSelected, Closer
  <2> QED BY <2>5, <2>7, <2>8, <2>9, <2>11 DEF RankOfThisQuery
<1>3. CASE ~ (\E q \in Query : Start(q)) /\ ~ SelectProbes
  <2>1. /\ UNCHANGED <<cent_dists, query, probes>>
        /\ pc' # "idle" => pc # "idle"
        /\ Scanning' => Scanning
    BY <1>0, <1>3, RankingFrame
  <2> QED BY <1>0, <2>1
          DEF RankOfThisQuery, Idx, NearestFirst, PrefixSelected, Closer, EffectiveProbes
<1> QED BY <1>1, <1>2, <1>3

\* Reading past one more cluster adds its vectors.
LEMMA InFirstGrows ==
    ASSUME NEW n \in Nat
    PROVE  /\ InFirst(0) = {}
           /\ InFirst(n + 1) = InFirst(n) \cup Members(Idx(n + 1))
<1>1. 1 .. (n + 1) = (1 .. n) \cup {n + 1}
  OBVIOUS
<1>2. 1 .. 0 = {}
  OBVIOUS
<1> QED BY <1>1, <1>2 DEF InFirst

\* Every step of the probe and vector loops keeps account of what was scanned.
LEMMA ScanStep == IInv /\ [Next]_vars => ScannedSoFar'
<1> SUFFICES ASSUME IInv, [Next]_vars PROVE ScannedSoFar'
  OBVIOUS
<1>0. TypeOK /\ RankOfThisQuery /\ ScannedSoFar
  BY DEF IInv
<1>1. ASSUME NEW q \in Query, Start(q) PROVE ScannedSoFar'
  BY <1>1 DEF Start, ScannedSoFar, Scanning
<1>2. CASE SelectProbes
  <2>1. pc' = "probe" /\ probe_i' = 0 /\ seen' = {} /\ probes' = probes
    BY <1>2 DEF SelectProbes
  <2>2. 0 <= EffectiveProbes'
    BY <1>0, <2>1, SizeAssumption DEF EffectiveProbes, TypeOK
  <2>3. InFirst(probe_i)' = {}
    BY <2>1 DEF InFirst
  <2> QED BY <2>1, <2>2, <2>3 DEF ScannedSoFar, Scanning
<1>3. CASE SelectPanics \/ Collect
  BY <1>3 DEF SelectPanics, Collect, ScannedSoFar, Scanning
<1>4. CASE EnterCluster
  <2>1. /\ UNCHANGED <<cent_dists, probes, probe_i, seen>>
        /\ pc = "probe" /\ pc' = "scan" /\ probe_i < EffectiveProbes
        /\ vi' = ClusterStart(Current)
    BY <1>4 DEF EnterCluster
  <2>2. /\ EffectiveProbes' = EffectiveProbes
        /\ InFirst(probe_i)' = InFirst(probe_i)
        /\ Current' = Current
    BY <2>1 DEF EffectiveProbes, InFirst, Idx, Members, ClusterStart, ClusterEnd, Current
  <2>3. Current \in Cents
    BY <1>0, <2>1, CurrentIsCluster
  <2>4. /\ ClusterStart(Current) \in Nat
        /\ ClusterStart(Current) <= ClusterEnd(Current)
    BY <2>3, ClusterBounds
  <2>5. ClusterStart(Current)' = ClusterStart(Current) /\ ClusterEnd(Current)' = ClusterEnd(Current)
    BY <2>2 DEF ClusterStart, ClusterEnd
  <2>6. seen = InFirst(probe_i)
    BY <1>0, <2>1 DEF ScannedSoFar, Scanning
  <2>7. probe_i' < EffectiveProbes' /\ probe_i' <= EffectiveProbes'
    BY <1>0, <2>1, <2>2, EffectiveType, SizeAssumption DEF TypeOK
  <2>8. seen' = InFirst(probe_i)' \cup (ClusterStart(Current)' .. vi' - 1)
    BY <2>1, <2>2, <2>4, <2>5, <2>6
  <2> QED BY <2>1, <2>4, <2>5, <2>7, <2>8 DEF ScannedSoFar, Scanning
<1>5. ASSUME UNCHANGED <<cent_dists, probes, probe_i>>,
             pc \in {"scan", "sift"}, pc' \in {"scan", "sift"},
             \/ seen' = seen /\ vi' = vi
             \/ /\ vi < ClusterEnd(Current)
                /\ seen' = seen \cup {vi} /\ vi' = vi + 1
      PROVE  ScannedSoFar'
  <2>1. /\ EffectiveProbes' = EffectiveProbes
        /\ InFirst(probe_i)' = InFirst(probe_i)
        /\ Current' = Current
    BY <1>5 DEF EffectiveProbes, InFirst, Idx, Members, ClusterStart, ClusterEnd, Current
  <2>2. ClusterStart(Current)' = ClusterStart(Current) /\ ClusterEnd(Current)' = ClusterEnd(Current)
    BY <2>1 DEF ClusterStart, ClusterEnd
  <2>3. /\ probe_i < EffectiveProbes /\ probe_i <= EffectiveProbes
        /\ ClusterStart(Current) <= vi /\ vi <= ClusterEnd(Current)
        /\ seen = InFirst(probe_i) \cup (ClusterStart(Current) .. vi - 1)
    BY <1>0, <1>5 DEF ScannedSoFar, Scanning
  <2>4. Current \in Cents
    BY <1>0, <1>5, <2>3, CurrentIsCluster
  <2>5. ClusterStart(Current) \in Nat /\ ClusterEnd(Current) \in Nat /\ vi \in Nat
    BY <1>0, <2>4, ClusterBounds DEF TypeOK
  <2>6. /\ ClusterStart(Current) <= vi' /\ vi' <= ClusterEnd(Current)
        /\ seen' = InFirst(probe_i) \cup (ClusterStart(Current) .. vi' - 1)
    BY <1>5, <2>3, <2>5
  <2> QED BY <1>5, <2>1, <2>2, <2>3, <2>6 DEF ScannedSoFar
<1>6. CASE Push
  BY <1>5, <1>6 DEF Push
<1>7. CASE Replace \/ Skip
  BY <1>5, <1>7 DEF Replace, Skip
<1>8. CASE SiftSwap \/ SiftDone
  BY <1>5, <1>8 DEF SiftSwap, SiftDone
<1>9. CASE LeaveCluster
  <2>1. /\ UNCHANGED <<cent_dists, probes, seen>>
        /\ pc = "scan" /\ pc' = "probe" /\ probe_i' = probe_i + 1
        /\ vi >= ClusterEnd(Current)
    BY <1>9 DEF LeaveCluster
  <2>2. /\ probe_i < EffectiveProbes
        /\ vi <= ClusterEnd(Current)
        /\ seen = InFirst(probe_i) \cup (ClusterStart(Current) .. vi - 1)
    BY <1>0, <2>1 DEF ScannedSoFar, Scanning
  <2>3. Current \in Cents /\ Current = Idx(probe_i + 1)
    BY <1>0, <2>1, <2>2, CurrentIsCluster
  <2>4. vi = ClusterEnd(Current)
    BY <1>0, <2>1, <2>2, <2>3, ClusterBounds DEF TypeOK
  <2>5. seen = InFirst(probe_i) \cup Members(Idx(probe_i + 1))
    BY <2>2, <2>3, <2>4 DEF Members, ClusterStart, ClusterEnd
  <2>6. seen = InFirst(probe_i + 1)
    BY <1>0, <2>5, InFirstGrows DEF TypeOK
  <2>7. EffectiveProbes' = EffectiveProbes /\ InFirst(probe_i)' = InFirst(probe_i + 1)
    BY <2>1 DEF EffectiveProbes, InFirst, Idx, Members, ClusterStart, ClusterEnd
  <2>8. probe_i' <= EffectiveProbes'
    BY <1>0, <2>1, <2>2, <2>7, EffectiveType, SizeAssumption DEF TypeOK
  <2> QED BY <2>1, <2>6, <2>7, <2>8 DEF ScannedSoFar
<1>10. CASE UNCHANGED vars
  BY <1>0, <1>10 DEF vars, ScannedSoFar, Scanning, InFirst, Idx, Members, Current,
                     ClusterStart, ClusterEnd, EffectiveProbes
<1> QED
  BY <1>1, <1>2, <1>3, <1>4, <1>6, <1>7, <1>8, <1>9, <1>10 DEF Next, SearchStep

\* A comparison with the root of a full buffer is one with its farthest entry.
LEMMA RootDominates ==
    ASSUME IInv, pc \in {"probe", "scan"}, Len(cands) >= K
    PROVE  /\ Len(cands) = K
           /\ 1 \in 1 .. Len(cands)
           /\ \A i \in 1 .. Len(cands) : cands[i].dist <= cands[1].dist
<1>1. cands \in Seq(Candidates) /\ Len(cands) = K
  BY KAssumption DEF IInv, TypeOK
<1>2. HeapFrom(cands, 1, 0)
  BY <1>1 DEF IInv, HeapOrder, Scanning
<1> QED BY <1>1, <1>2, HeapRootIsMax, KAssumption

\* Push, Replace, Skip and the swaps keep the nearest of the scanned vectors.
LEMMA KeptStep == IInv /\ [Next]_vars => KeptAreNearest'
<1> SUFFICES ASSUME IInv, [Next]_vars PROVE KeptAreNearest'
  OBVIOUS
<1>0. TypeOK /\ RankOfThisQuery /\ ScannedSoFar /\ KeptAreNearest
  BY DEF IInv
<1>a. cands \in Seq(Candidates) /\ Len(cands) \in Nat /\ query \in Query
  BY <1>0 DEF TypeOK
<1>b. \A i \in 1 .. Len(cands) :
         cands[i] \in Candidates /\ cands[i].dist \in Nat /\ cands[i].vec \in Vecs
  BY <1>a, HeapDistances, CandidateFields
<1>c. \A v \in Vecs : VecDist[query][v] \in Nat
  BY <1>a, DistAssumption
<1>1. ASSUME NEW q \in Query, Start(q) PROVE KeptAreNearest'
  BY <1>1 DEF Start, KeptAreNearest, Scanning
<1>2. CASE SelectPanics \/ Collect
  BY <1>2 DEF SelectPanics, Collect, KeptAreNearest, Scanning
<1>3. CASE SelectProbes
  <2>1. cands' = <<>> /\ seen' = {}
    BY <1>3 DEF SelectProbes, Clear
  <2> QED BY <2>1 DEF KeptAreNearest, Kept
<1>4. CASE Push
  <2>1. /\ pc = "scan" /\ Len(cands) < K /\ query' = query
        /\ cands' = Append(cands, CandidateOf(vi))
        /\ seen' = seen \cup {vi}
        /\ vi < ClusterEnd(Current)
    BY <1>4 DEF Push, Room
  <2>2. vi \in Vecs /\ vi \notin seen
    BY <1>0, <2>1, NextVectorIsNew
  <2>3. /\ \A i, j \in 1 .. Len(cands) : cands[i].vec = cands[j].vec => i = j
        /\ \A i \in 1 .. Len(cands) : cands[i] = CandidateOf(cands[i].vec)
        /\ Kept = seen
    BY <1>0, <2>1 DEF KeptAreNearest, Scanning
  <2>4. CandidateOf(vi) \in Candidates /\ CandidateOf(vi).vec = vi
    BY <1>a, <2>2, CandidateOfType
  <2>5. /\ Len(cands') = Len(cands) + 1
        /\ cands'[Len(cands) + 1] = CandidateOf(vi)
        /\ \A i \in 1 .. Len(cands) : cands'[i] = cands[i]
    BY <1>a, <2>1, <2>4
  <2>6. \A i \in 1 .. Len(cands') : i \in 1 .. Len(cands) \/ i = Len(cands) + 1
    BY <1>a, <2>5
  <2>7. \A i \in 1 .. Len(cands) : cands[i].vec \in seen
    BY <2>3 DEF Kept
  <2>8. \A i, j \in 1 .. Len(cands') : cands'[i].vec = cands'[j].vec => i = j
    BY <2>2, <2>3, <2>4, <2>5, <2>6, <2>7
  <2>10. (\A i \in 1 .. Len(cands) : cands[i] = CandidateOf(cands[i].vec))'
    <3> SUFFICES ASSUME NEW i \in 1 .. Len(cands')
                 PROVE  cands'[i] = [dist |-> VecDist[query][cands'[i].vec],
                                     is_fraud |-> Labels[cands'[i].vec] = 1,
                                     vec |-> cands'[i].vec]
      BY <2>1 DEF CandidateOf
    <3>1. CASE i \in 1 .. Len(cands)
      BY <2>3, <2>5, <3>1 DEF CandidateOf
    <3>2. CASE i = Len(cands) + 1
      BY <2>4, <2>5, <3>2 DEF CandidateOf
    <3> QED BY <2>6, <3>1, <3>2
  <2>11. Kept' = seen'
    <3>1. 1 .. Len(cands') = (1 .. Len(cands)) \cup {Len(cands) + 1}
      BY <1>a, <2>5
    <3>2. Kept' = Kept \cup {vi}
      BY <2>4, <2>5, <3>1 DEF Kept
    <3> QED BY <2>1, <2>3, <3>2
  <2> QED BY <2>8, <2>10, <2>11 DEF KeptAreNearest
<1>5. CASE Replace
  <2>1. /\ pc = "scan" /\ Len(cands) >= K /\ query' = query
        /\ cands' = [cands EXCEPT ![1] = CandidateOf(vi)]
        /\ seen' = seen \cup {vi}
        /\ vi < ClusterEnd(Current)
        /\ VecDist[query][vi] < cands[1].dist
    BY <1>5, <1>a, KAssumption DEF Replace, Room, BeatsRoot
  <2>2. vi \in Vecs /\ vi \notin seen
    BY <1>0, <2>1, NextVectorIsNew
  <2>3. /\ \A i, j \in 1 .. Len(cands) : cands[i].vec = cands[j].vec => i = j
        /\ \A i \in 1 .. Len(cands) : cands[i] = CandidateOf(cands[i].vec)
        /\ Kept \subseteq seen
        /\ \A i \in 1 .. Len(cands), v \in seen \ Kept : cands[i].dist <= VecDist[query][v]
    BY <1>0, <2>1 DEF KeptAreNearest, Scanning
  <2>4. /\ CandidateOf(vi) \in Candidates /\ CandidateOf(vi).vec = vi
        /\ CandidateOf(vi).dist = VecDist[query][vi]
    BY <1>a, <2>2, CandidateOfType
  <2>5. /\ Len(cands) = K
        /\ 1 \in 1 .. Len(cands)
        /\ \A i \in 1 .. Len(cands) : cands[i].dist <= cands[1].dist
    BY <2>1, RootDominates
  <2>6. /\ Len(cands') = Len(cands)
        /\ cands'[1] = CandidateOf(vi)
        /\ \A i \in 1 .. Len(cands) : i # 1 => cands'[i] = cands[i]
    BY <1>a, <2>1, <2>4, <2>5
  <2>7. \A i \in 1 .. Len(cands) : cands[i].vec \in seen
    BY <2>3 DEF Kept
  <2>8. \A i, j \in 1 .. Len(cands') : cands'[i].vec = cands'[j].vec => i = j
    BY <2>2, <2>3, <2>4, <2>6, <2>7
  <2>10. (\A i \in 1 .. Len(cands) : cands[i] = CandidateOf(cands[i].vec))'
    <3> SUFFICES ASSUME NEW i \in 1 .. Len(cands')
                 PROVE  cands'[i] = [dist |-> VecDist[query][cands'[i].vec],
                                     is_fraud |-> Labels[cands'[i].vec] = 1,
                                     vec |-> cands'[i].vec]
      BY <2>1 DEF CandidateOf
    <3> QED BY <2>3, <2>4, <2>6 DEF CandidateOf
  <2>11. Kept' \subseteq seen'
    BY <2>1, <2>4, <2>6, <2>7 DEF Kept
  <2>12. ASSUME NEW v \in seen' \ Kept'
         PROVE  v \in Vecs /\ cands[1].dist <= VecDist[query][v]
    <3>1. v # vi
      BY <2>4, <2>5, <2>6 DEF Kept
    <3>2. v \in seen /\ v \in Vecs
      BY <1>0, <2>1, <3>1 DEF TypeOK
    <3>3. CASE v \notin Kept
      BY <2>3, <2>5, <3>2, <3>3
    <3>4. CASE v \in Kept
      <4>1. PICK i \in 1 .. Len(cands) : v = cands[i].vec
        BY <3>4 DEF Kept
      <4>2. i = 1
        BY <2>6, <4>1 DEF Kept
      <4>3. cands[1].dist = VecDist[query][v]
        BY <1>a, <2>3, <2>5, <3>2, <4>1, <4>2, CandidateOfType
      <4> QED BY <1>b, <2>5, <3>2, <4>3
    <3> QED BY <3>3, <3>4
  <2>13. \A i \in 1 .. Len(cands'), v \in seen' \ Kept' : cands'[i].dist <= VecDist[query'][v]
    <3> SUFFICES ASSUME NEW i \in 1 .. Len(cands'), NEW v \in seen' \ Kept'
                 PROVE  cands'[i].dist <= VecDist[query][v]
      BY <2>1
    <3>1. cands'[i].dist \in Nat /\ cands'[i].dist <= cands[1].dist
      BY <1>b, <1>c, <2>1, <2>2, <2>4, <2>5, <2>6
    <3>2. cands[1].dist \in Nat /\ cands[1].dist <= VecDist[query][v] /\ VecDist[query][v] \in Nat
      BY <1>b, <1>c, <2>5, <2>12
    <3> QED BY <3>1, <3>2
  <2>14. ~ (Len(cands') < K)
    BY <2>5, <2>6, KAssumption
  <2> QED BY <2>8, <2>10, <2>11, <2>13, <2>14 DEF KeptAreNearest
<1>6. CASE Skip
  <2>1. /\ pc = "scan" /\ Len(cands) >= K /\ query' = query /\ cands' = cands
        /\ seen' = seen \cup {vi}
        /\ vi < ClusterEnd(Current)
        /\ ~ (VecDist[query][vi] < cands[1].dist)
    BY <1>6, <1>a, KAssumption DEF Skip, Room, BeatsRoot
  <2>2. vi \in Vecs
    BY <1>0, <2>1, NextVectorIsNew
  <2>3. /\ Len(cands) = K
        /\ 1 \in 1 .. Len(cands)
        /\ \A i \in 1 .. Len(cands) : cands[i].dist <= cands[1].dist
    BY <2>1, RootDominates
  <2>4. \A i \in 1 .. Len(cands) : cands[i].dist <= VecDist[query][vi]
    BY <1>b, <1>c, <2>1, <2>2, <2>3
  <2>5. Kept' = Kept /\ \A v : CandidateOf(v)' = CandidateOf(v)
    BY <2>1 DEF Kept, CandidateOf
  <2>6. ~ (Len(cands') < K)
    BY <2>1, <2>3, KAssumption
  <2> QED BY <1>0, <2>1, <2>4, <2>5, <2>6 DEF KeptAreNearest, Scanning
<1>7. CASE SiftSwap
  <2>1. /\ pc = "sift" /\ query' = query /\ seen' = seen
        /\ cands' = Swap(cands, hole, Largest(cands, hole))
    BY <1>7 DEF SiftSwap
  <2>2. hole \in 1 .. Len(cands) /\ Len(cands) = K
    BY <1>0, <2>1 DEF IInv, HeapOrder, Scanning, TypeOK
  <2>3. Largest(cands, hole) \in 1 .. Len(cands)
    BY <1>a, <2>2, LargestProperties
  <2> DEFINE m == Largest(cands, hole)
  <2>4. /\ Len(cands') = Len(cands)
        /\ cands'[hole] = cands[m] /\ cands'[m] = cands[hole]
        /\ \A i \in 1 .. Len(cands) : i # hole /\ i # m => cands'[i] = cands[i]
    BY <1>a, <2>1, <2>2, <2>3, SwapProperties
  <2>5. m \in 1 .. Len(cands)
    BY <2>3
  <2> HIDE DEF m
  <2>6. /\ \A i, j \in 1 .. Len(cands) : cands[i].vec = cands[j].vec => i = j
        /\ \A i \in 1 .. Len(cands) : cands[i] = CandidateOf(cands[i].vec)
        /\ Kept \subseteq seen
        /\ \A i \in 1 .. Len(cands), v \in seen \ Kept : cands[i].dist <= VecDist[query][v]
    BY <1>0, <2>1 DEF KeptAreNearest, Scanning
  <2>7. \A i, j \in 1 .. Len(cands') : cands'[i].vec = cands'[j].vec => i = j
    BY <2>2, <2>4, <2>5, <2>6
  <2>8. \A i \in 1 .. Len(cands) : \E j \in 1 .. Len(cands) : cands'[i] = cands[j]
    BY <2>2, <2>4, <2>5
  <2>9. \A i \in 1 .. Len(cands) : \E j \in 1 .. Len(cands) : cands[i] = cands'[j]
    BY <2>2, <2>4, <2>5
  <2>10. Kept' = Kept
    <3>0. Len(cands') = Len(cands)
      BY <2>4
    <3>1. \A v \in Kept : v \in Kept'
      BY <3>0, <2>9 DEF Kept
    <3>2. \A v \in Kept' : v \in Kept
      BY <3>0, <2>8 DEF Kept
    <3> QED BY <3>1, <3>2
  <2>12. (\A i \in 1 .. Len(cands) : cands[i] = CandidateOf(cands[i].vec))'
    <3> SUFFICES ASSUME NEW i \in 1 .. Len(cands')
                 PROVE  cands'[i] = [dist |-> VecDist[query][cands'[i].vec],
                                     is_fraud |-> Labels[cands'[i].vec] = 1,
                                     vec |-> cands'[i].vec]
      BY <2>1 DEF CandidateOf
    <3>1. PICK j \in 1 .. Len(cands) : cands'[i] = cands[j]
      BY <2>4, <2>8
    <3> QED BY <2>6, <3>1 DEF CandidateOf
  <2>13. \A i \in 1 .. Len(cands'), v \in seen' \ Kept' : cands'[i].dist <= VecDist[query'][v]
    <3> SUFFICES ASSUME NEW i \in 1 .. Len(cands), NEW v \in seen \ Kept
                 PROVE  cands'[i].dist <= VecDist[query][v]
      BY <2>1, <2>4, <2>10
    <3>1. PICK j \in 1 .. Len(cands) : cands'[i] = cands[j]
      BY <2>8
    <3> QED BY <2>6, <3>1
  <2>14. ~ (Len(cands') < K)
    BY <2>2, <2>4, KAssumption
  <2> QED BY <2>1, <2>6, <2>7, <2>10, <2>12, <2>13, <2>14 DEF KeptAreNearest
<1>8. ASSUME UNCHANGED <<cands, seen, query>>, Scanning' => Scanning
      PROVE  KeptAreNearest'
  BY <1>0, <1>8 DEF KeptAreNearest, Kept, CandidateOf
<1>9. CASE EnterCluster \/ LeaveCluster
  BY <1>8, <1>9 DEF EnterCluster, LeaveCluster, Scanning
<1>10. CASE SiftDone
  BY <1>8, <1>10 DEF SiftDone, Scanning
<1>11. CASE UNCHANGED vars
  BY <1>8, <1>11 DEF vars, Scanning
<1> QED
  BY <1>1, <1>2, <1>3, <1>4, <1>5, <1>6, <1>7, <1>9, <1>10, <1>11 DEF Next, SearchStep

\* Push, Replace and the sift keep the heap order, the hole excepted.
LEMMA HeapStep == IInv /\ [Next]_vars => HeapOrder'
<1> SUFFICES ASSUME IInv, [Next]_vars PROVE HeapOrder'
  OBVIOUS
<1> USE KAssumption
<1>0. TypeOK /\ RankOfThisQuery /\ ScannedSoFar /\ HeapOrder
  BY DEF IInv
<1>a. cands \in Seq(Candidates) /\ Len(cands) \in Nat /\ query \in Query
  BY <1>0 DEF TypeOK
<1>b. \A i \in 1 .. Len(cands) : cands[i].dist \in Nat
  BY <1>a, HeapDistances
<1>1. ASSUME NEW q \in Query, Start(q) PROVE HeapOrder'
  BY <1>1 DEF Start, HeapOrder, Scanning
<1>2. CASE SelectPanics \/ Collect
  BY <1>2 DEF SelectPanics, Collect, HeapOrder, Scanning
<1>3. CASE SelectProbes
  <2>1. pc' = "probe" /\ cands' = <<>>
    BY <1>3 DEF SelectProbes, Clear
  <2> QED BY <2>1 DEF HeapOrder
<1>4. CASE Push
  <2>1. /\ pc = "scan" /\ vi < ClusterEnd(Current)
        /\ Len(cands) < K
        /\ cands' = Append(cands, CandidateOf(vi))
    BY <1>4 DEF Push, Room
  <2>2. vi \in Vecs
    BY <1>0, <2>1, NextVectorIsNew
  <2>3. Len(cands') = Len(cands) + 1
    BY <1>a, <2>1, <2>2, CandidateOfType
  <2>4. CASE Len(cands) + 1 = K /\ HeapifyFrom(K) > 0
    <3>1. pc' = "sift" /\ root' = K \div 2 /\ hole' = K \div 2 /\ K \div 2 > 0
      BY <1>4, <2>4 DEF Push, HeapifyFrom
    <3>2. HeapFrom(cands, root, hole)'
      <4>1. \A p \in (K \div 2) .. K : \A c \in {2 * p, 2 * p + 1} : p # K \div 2 => ~ (c <= K)
        OBVIOUS
      <4> QED BY <2>3, <2>4, <3>1, <4>1 DEF HeapFrom
    <3>3. ~ (hole' \div 2 >= root')
      BY <3>1
    <3> QED BY <2>3, <2>4, <3>1, <3>2, <3>3 DEF HeapOrder
  <2>5. CASE ~ (Len(cands) + 1 = K /\ HeapifyFrom(K) > 0)
    <3>1. pc' = "scan"
      BY <1>4, <2>1, <2>5 DEF Push
    <3>2. ASSUME Len(cands') = K PROVE HeapFrom(cands, 1, 0)'
      <4>1. K = 1
        BY <2>3, <2>5, <3>2 DEF HeapifyFrom
      <4> QED BY <3>2, <4>1 DEF HeapFrom
    <3> QED BY <3>1, <3>2 DEF HeapOrder
  <2> QED BY <2>4, <2>5
<1>5. CASE Replace
  <2>1. /\ pc = "scan" /\ pc' = "sift" /\ Len(cands) >= K /\ root' = 1 /\ hole' = 1
        /\ cands' = [cands EXCEPT ![1] = CandidateOf(vi)]
    BY <1>5 DEF Replace, Room
  <2>2. Len(cands) = K /\ 1 \in 1 .. Len(cands)
    BY <2>1, RootDominates
  <2>3. Len(cands') = K /\ \A i \in 1 .. K : i # 1 => cands'[i] = cands[i]
    BY <1>a, <2>1, <2>2
  <2>4. HeapFrom(cands, 1, 0)
    BY <1>0, <2>1, <2>2 DEF HeapOrder, Scanning
  <2>5. HeapFrom(cands, root, hole)'
    <3> SUFFICES ASSUME NEW p \in 1 .. K, NEW c \in {2 * p, 2 * p + 1}, p # 1, c <= K
                 PROVE  cands'[p].dist >= cands'[c].dist
      BY <2>1, <2>3 DEF HeapFrom
    <3>1. c \in 1 .. K /\ c # 1 /\ p # 0
      OBVIOUS
    <3>2. cands[p].dist >= cands[c].dist
      BY <2>2, <2>4, <3>1 DEF HeapFrom
    <3> QED BY <2>3, <3>1, <3>2
  <2>6. ~ (hole' \div 2 >= root')
    BY <2>1
  <2> QED BY <2>1, <2>3, <2>5, <2>6 DEF HeapOrder
<1>6. CASE SiftSwap
  <2> DEFINE m == Largest(cands, hole)
  <2>1. /\ pc = "sift" /\ pc' = "sift" /\ root' = root
        /\ m # hole /\ cands' = Swap(cands, hole, m) /\ hole' = m
    BY <1>6 DEF SiftSwap
  <2>2. /\ Len(cands) = K /\ root \in 1 .. K /\ hole \in 1 .. K /\ root <= hole
        /\ HeapFrom(cands, root, hole)
        /\ hole \div 2 >= root =>
              \A c \in {2 * hole, 2 * hole + 1} :
                  c <= K => cands[hole \div 2].dist >= cands[c].dist
    BY <1>0, <2>1 DEF HeapOrder, Scanning, TypeOK
  <2>3. /\ m \in 1 .. K /\ m \in {2 * hole, 2 * hole + 1}
        /\ cands[m].dist >= cands[hole].dist
        /\ \A c \in {2 * hole, 2 * hole + 1} : c <= K => cands[m].dist >= cands[c].dist
    BY <1>a, <2>1, <2>2, LargestProperties
  <2> HIDE DEF m
  <2>4. /\ Len(cands') = K
        /\ cands'[hole] = cands[m] /\ cands'[m] = cands[hole]
        /\ \A i \in 1 .. K : i # hole /\ i # m => cands'[i] = cands[i]
    <3>1. m \in 1 .. Len(cands) /\ hole \in 1 .. Len(cands)
      BY <2>2, <2>3
    <3>2. /\ Len(Swap(cands, hole, m)) = Len(cands)
          /\ Swap(cands, hole, m)[hole] = cands[m]
          /\ Swap(cands, hole, m)[m] = cands[hole]
          /\ \A i \in 1 .. Len(cands) :
                i # hole /\ i # m => Swap(cands, hole, m)[i] = cands[i]
      BY <1>a, <3>1, SwapProperties
    <3> QED BY <2>1, <2>2, <3>2
  <2>5. HeapFrom(cands, root, hole)'
    <3> SUFFICES ASSUME NEW p \in root .. K, NEW c \in {2 * p, 2 * p + 1}, p # m, c <= K
                 PROVE  cands'[p].dist >= cands'[c].dist
      BY <2>1, <2>4 DEF HeapFrom
    <3>0. p \in 1 .. K /\ c \in 1 .. K
      BY <2>2
    <3>1. CASE p = hole
      <4>1. cands[m].dist >= cands[c].dist /\ c # hole
        BY <2>2, <2>3, <3>1
      <4> QED BY <1>b, <2>2, <2>3, <2>4, <3>0, <3>1, <4>1
    <3>2. CASE p # hole /\ c = hole
      <4>1. p = hole \div 2
        BY <2>2, <3>0, <3>2
      <4>2. cands[p].dist >= cands[m].dist
        BY <2>2, <2>3, <4>1
      <4> QED BY <2>4, <3>0, <3>2, <4>2
    <3>3. CASE p # hole /\ c # hole
      <4>1. c # m
        BY <2>2, <2>3, <3>0, <3>3
      <4>2. cands[p].dist >= cands[c].dist
        BY <2>2, <3>0, <3>3 DEF HeapFrom
      <4> QED BY <2>4, <3>0, <3>3, <4>1, <4>2
    <3> QED BY <3>1, <3>2, <3>3
  <2>6. \A c \in {2 * m, 2 * m + 1} : c <= K => cands'[hole].dist >= cands'[c].dist
    <3> SUFFICES ASSUME NEW c \in {2 * m, 2 * m + 1}, c <= K
                 PROVE  cands[m].dist >= cands'[c].dist
      BY <2>4
    <3>1. c \in 1 .. K /\ c # m /\ c # hole /\ m \in root .. K
      BY <2>2, <2>3
    <3>2. cands[m].dist >= cands[c].dist
      BY <2>1, <2>2, <3>1 DEF HeapFrom
    <3> QED BY <2>4, <3>1, <3>2
  <2>7. m \div 2 = hole /\ root <= m
    BY <2>2, <2>3
  <2> QED BY <2>1, <2>2, <2>4, <2>5, <2>6, <2>7 DEF HeapOrder
<1>7. CASE SiftDone
  <2>1. /\ pc = "sift" /\ cands' = cands /\ Largest(cands, hole) = hole
        /\ IF root > 1
           THEN root' = root - 1 /\ hole' = root - 1 /\ pc' = "sift"
           ELSE pc' = "scan"
    BY <1>7 DEF SiftDone
  <2>2. /\ Len(cands) = K /\ root \in 1 .. K /\ hole \in 1 .. K
        /\ HeapFrom(cands, root, hole)
    BY <1>0, <2>1 DEF HeapOrder, Scanning, TypeOK
  <2>3. \A c \in {2 * hole, 2 * hole + 1} : c <= K => cands[hole].dist >= cands[c].dist
    BY <1>a, <2>1, <2>2, LargestProperties
  <2>4. \A p \in root .. K : \A c \in {2 * p, 2 * p + 1} :
           c <= K => cands[p].dist >= cands[c].dist
    BY <2>2, <2>3 DEF HeapFrom
  <2>5. CASE root > 1
    <3>1. HeapFrom(cands, root - 1, root - 1)
      <4>1. \A p \in (root - 1) .. K : p # root - 1 => p \in root .. K
        BY <2>2
      <4> QED BY <2>2, <2>4, <4>1 DEF HeapFrom
    <3>2. ~ ((root - 1) \div 2 >= root - 1)
      BY <2>2, <2>5
    <3>3. HeapFrom(cands, root, hole)'
      BY <2>1, <2>5, <3>1 DEF HeapFrom
    <3> QED BY <2>1, <2>2, <2>5, <3>2, <3>3 DEF HeapOrder
  <2>6. CASE ~ (root > 1)
    <3>1. HeapFrom(cands, 1, 0)'
      <4>1. root = 1 /\ Len(cands') = K
        BY <2>1, <2>2, <2>6
      <4> QED BY <2>1, <2>4, <4>1 DEF HeapFrom
    <3> QED BY <2>1, <2>6, <3>1 DEF HeapOrder
  <2> QED BY <2>5, <2>6
<1>8. ASSUME UNCHANGED cands, pc \in {"probe", "scan"}, pc' \in {"probe", "scan"}
      PROVE  HeapOrder'
  BY <1>0, <1>8 DEF HeapOrder, HeapFrom, Scanning
<1>9. CASE EnterCluster \/ LeaveCluster \/ Skip
  BY <1>8, <1>9 DEF EnterCluster, LeaveCluster, Skip
<1>10. CASE UNCHANGED vars
  BY <1>0, <1>10 DEF vars, HeapOrder, HeapFrom, Scanning
<1> QED
  BY <1>1, <1>2, <1>3, <1>4, <1>5, <1>6, <1>7, <1>9, <1>10 DEF Next, SearchStep

----------------------------------------------------------------------------
(* Theorems                                                                *)

\* The invariant is inductive: it holds in every state of every search, whatever
\* the index, the queries asked before and the order of ties.
THEOREM Invariance == Spec => []IInv
<1>1. Init => IInv
  BY InitEstablishes
<1>2. IInv /\ [Next]_vars => IInv'
  BY TypeStep, RankStep, ScanStep, KeptStep, HeapStep DEF IInv
<1> QED BY <1>1, <1>2, PTL DEF Spec

\* The types of the searcher's variables.
THEOREM TypeCorrect == Spec => []TypeOK
<1>1. IInv => TypeOK
  BY DEF IInv
<1> QED BY <1>1, Invariance, PTL

\* No entry of an earlier search survives in the ranking of this one.
THEOREM RankingIsFresh == Spec => []RankOfThisQuery
<1>1. IInv => RankOfThisQuery
  BY DEF IInv
<1> QED BY <1>1, Invariance, PTL

\* The probe and vector loops scan the clusters of the ranking's prefix, each
\* vector of them and nothing else.
THEOREM ScansTheProbed == Spec => []ScannedSoFar
<1>1. IInv => ScannedSoFar
  BY DEF IInv
<1> QED BY Invariance, <1>1, PTL

\* The candidates are the nearest of what was scanned, at every moment.
THEOREM KeepsTheNearest == Spec => []KeptAreNearest
<1>1. IInv => KeptAreNearest
  BY DEF IInv
<1> QED BY <1>1, Invariance, PTL

\* The entry at the root of a full buffer is the farthest one.
THEOREM RootFarthest == Spec => []RootIsFarthest
<1>1. IInv => RootIsFarthest
  <2> SUFFICES ASSUME IInv, pc \in {"probe", "scan"}, Len(cands) = K
               PROVE  \A i \in 1 .. K : cands[i].dist <= cands[1].dist
    BY DEF RootIsFarthest
  <2>1. Len(cands) >= K
    BY KAssumption
  <2> QED BY <2>1, RootDominates
<1> QED BY <1>1, Invariance, PTL

\* No step makes the K-th distance grow: a candidate is replaced only by a
\* closer one, and a swap keeps the set.
THEOREM KthDistanceShrinks == Spec => KthNeverGrows
<1>1. IInv /\ [Next]_vars => [FarthestNeverGrows]_vars
  <2> SUFFICES ASSUME IInv, [Next]_vars, Scanning, Scanning', Len(cands) = K
               PROVE  \A i \in 1 .. K : \E j \in 1 .. K : cands'[i].dist <= cands[j].dist
    BY DEF FarthestNeverGrows
  <2>a. cands \in Seq(Candidates) /\ query \in Query
    BY DEF IInv, TypeOK
  <2>b. \A i \in 1 .. K : cands[i].dist \in Nat
    BY <2>a, HeapDistances
  <2>1. CASE Replace
    <3>1. /\ vi \in Vecs /\ 1 \in 1 .. K
          /\ cands' = [cands EXCEPT ![1] = CandidateOf(vi)]
          /\ VecDist[query][vi] < cands[1].dist
      BY <2>1, NextVectorIsNew, KAssumption DEF Replace, BeatsRoot, IInv
    <3>2. CandidateOf(vi).dist = VecDist[query][vi] /\ VecDist[query][vi] \in Nat
      BY <2>a, <3>1, CandidateOfType
    <3>3. \A i \in 1 .. K : cands'[i].dist <= cands[i].dist
      BY <2>a, <2>b, <3>1, <3>2
    <3> QED BY <3>3
  <2>2. CASE SiftSwap
    <3>1. hole \in 1 .. K
      BY <2>2 DEF SiftSwap, IInv, HeapOrder, TypeOK, Scanning
    <3>2. Largest(cands, hole) \in 1 .. K
      BY <2>a, <3>1, LargestProperties
    <3>3. \A i \in 1 .. K : \E j \in 1 .. K : cands'[i] = cands[j]
      <4> DEFINE m == Largest(cands, hole)
      <4>1. m \in 1 .. K /\ cands' = Swap(cands, hole, m)
        BY <2>2, <3>2 DEF SiftSwap
      <4> HIDE DEF m
      <4>2. /\ cands'[hole] = cands[m] /\ cands'[m] = cands[hole]
            /\ \A i \in 1 .. K : i # hole /\ i # m => cands'[i] = cands[i]
        BY <2>a, <3>1, <4>1, SwapProperties
      <4>3. SUFFICES ASSUME NEW i \in 1 .. K
                     PROVE  \E j \in 1 .. K : cands'[i] = cands[j]
        OBVIOUS
      <4>4. CASE i = hole
        BY <4>1, <4>2, <4>4
      <4>5. CASE i = m
        BY <3>1, <4>2, <4>5
      <4>6. CASE i # hole /\ i # m
        BY <4>2, <4>6
      <4> QED BY <4>4, <4>5, <4>6
    <3>4. SUFFICES ASSUME NEW i \in 1 .. K
                   PROVE  \E j \in 1 .. K : cands'[i].dist <= cands[j].dist
      OBVIOUS
    <3>5. PICK j \in 1 .. K : cands'[i] = cands[j]
      BY <3>3
    <3>6. cands'[i].dist <= cands[j].dist
      BY <2>b, <3>5
    <3> QED BY <3>6
  <2>3. CASE Push \/ SelectProbes \/ SelectPanics \/ Collect \/ \E q \in Query : Start(q)
    BY <2>3, KAssumption
    DEF Push, Room, SelectProbes, SelectPanics, Collect, Start, Scanning
  <2>4. CASE EnterCluster \/ LeaveCluster \/ Skip \/ SiftDone \/ UNCHANGED vars
    <3>1. cands' = cands
      BY <2>4 DEF EnterCluster, LeaveCluster, Skip, SiftDone, vars
    <3> QED BY <2>b, <3>1
  <2> QED BY <2>1, <2>2, <2>3, <2>4 DEF Next, SearchStep
<1> QED BY <1>1, Invariance, PTL DEF Spec, KthNeverGrows

----------------------------------------------------------------------------
(* The answer, and the promise of NearestK                                 *)

\* What Collect hands to the caller, in terms of NearestK's definitions.
LEMMA CollectedNeighbors ==
    ASSUME IInv, Collect
    PROVE  /\ result' = [status |-> "ok", neighbors |-> result'.neighbors]
           /\ Promise!KNearest(query, InFirst(EffectiveProbes), result'.neighbors)
           /\ EffectiveProbes \in 0 .. NumCents
<1> DEFINE nb == [i \in 1 .. Len(cands) |->
                    [is_fraud |-> cands[i].is_fraud, vec |-> cands[i].vec]]
<1>1. result' = [status |-> "ok", neighbors |-> nb] /\ pc = "probe" /\ probe_i >= EffectiveProbes
  BY DEF Collect
<1>2. /\ cands \in Seq(Candidates) /\ Len(cands) \in Nat /\ Len(cands) <= K
      /\ query \in Query /\ probes \in Nat /\ probe_i \in Nat /\ seen \subseteq Vecs
  BY DEF IInv, TypeOK
<1>3. EffectiveProbes \in 0 .. NumCents
  BY <1>2, EffectiveType
<1>4. seen = InFirst(EffectiveProbes)
  <2>1. probe_i <= EffectiveProbes /\ seen = InFirst(probe_i)
    BY <1>1 DEF IInv, ScannedSoFar, Scanning
  <2>2. probe_i = EffectiveProbes
    BY <1>1, <1>2, <1>3, <2>1, SizeAssumption
  <2> QED BY <2>1, <2>2
<1>5. /\ DOMAIN nb = 1 .. Len(cands) /\ Len(nb) = Len(cands)
      /\ \A i \in 1 .. Len(cands) :
            nb[i].vec = cands[i].vec /\ nb[i].is_fraud = cands[i].is_fraud
  BY <1>2
<1>6. /\ \A i, j \in 1 .. Len(cands) : cands[i].vec = cands[j].vec => i = j
      /\ \A i \in 1 .. Len(cands) : cands[i] = CandidateOf(cands[i].vec)
      /\ Kept \subseteq seen
      /\ Len(cands) < K => Kept = seen
      /\ \A i \in 1 .. Len(cands), v \in seen \ Kept : cands[i].dist <= VecDist[query][v]
  BY <1>1 DEF IInv, KeptAreNearest, Scanning
<1>7. ASSUME NEW i \in 1 .. Len(cands)
      PROVE  /\ cands[i].dist = VecDist[query][cands[i].vec]
             /\ cands[i].is_fraud = (Labels[cands[i].vec] = 1)
  <2> DEFINE v == cands[i].vec
  <2>1. cands[i] = [dist |-> VecDist[query][v], is_fraud |-> Labels[v] = 1, vec |-> v]
    BY <1>6 DEF CandidateOf
  <2> HIDE DEF v
  <2>2. cands[i].dist = VecDist[query][v] /\ cands[i].is_fraud = (Labels[v] = 1)
    BY <2>1
  <2> QED BY <2>2 DEF v
<1> HIDE DEF nb
<1>8. Promise!VecsOf(nb) = Kept
  BY <1>5 DEF Promise!VecsOf, Kept
<1>9. Promise!KNearest(query, seen, nb)
  BY <1>2, <1>5, <1>6, <1>7, <1>8 DEF Promise!KNearest
<1> QED BY <1>1, <1>3, <1>4, <1>9

\* NearestK's copy of Cardinality.
LEMMA SameCardinality == \A S : Promise!Cardinality(S) = Cardinality(S)
BY Zenon DEF Cardinality, Promise!Cardinality

\* The first n centroids of a selected ranking are n nearest clusters.
LEMMA PrefixIsNearest ==
    ASSUME IInv, Scanning
    PROVE  LET P == {Idx(i) : i \in 1 .. EffectiveProbes}
           IN  /\ Promise!NearestClusters(query, EffectiveProbes, P)
               /\ Promise!Pool(P) = InFirst(EffectiveProbes)
               /\ EffectiveProbes = Promise!NumProbed
<1> DEFINE n == EffectiveProbes
           P == {Idx(i) : i \in 1 .. n}
<1>1. n \in Nat /\ n \in 0 .. NumCents /\ pc # "idle" /\ TypeOK /\ RankOfThisQuery
  BY EffectiveType, SizeAssumption DEF IInv, TypeOK, Scanning
<1>2. \A i \in 1 .. NumCents : Idx(i) \in Cents
  BY <1>1, IdxIsCluster
<1>3. \A i \in 1 .. n : i \in 1 .. NumCents
  BY <1>1, SizeAssumption
<1>4. P \subseteq Cents
  BY <1>2, <1>3
<1>5. Cardinality(P) = n
  <2> DEFINE f == [i \in 1 .. n |-> Idx(i)]
  <2>1. \A i, j \in 1 .. n : f[i] = f[j] => i = j
    BY <1>1, <1>3 DEF RankOfThisQuery
  <2>2. f \in Bijection(1 .. n, P)
    BY <2>1 DEF Bijection, Injection, Surjection, IsInjective
  <2>3. ExistsBijection(1 .. n, P)
    BY <2>2 DEF ExistsBijection
  <2>4. IsFiniteSet(1 .. n) /\ Cardinality(1 .. n) = n
    BY <1>1, FS_Interval
  <2> QED BY <2>3, <2>4, FS_Bijection
<1>6. ASSUME NEW c \in P, NEW d \in Cents \ P PROVE ~ Promise!CloserCent(query, d, c)
  <2>1. PICK i \in 1 .. n : c = Idx(i)
    OBVIOUS
  <2>2. PICK j \in 1 .. NumCents : d = Idx(j)
    BY <1>1 DEF RankOfThisQuery
  <2>3. ~ (j \in 1 .. n)
    BY <2>2
  <2>4. j \in (i + 1) .. Len(cent_dists)
    BY <1>1, <2>2, <2>3, SizeAssumption DEF RankOfThisQuery
  <2>5. ~ Closer(cent_dists[j], cent_dists[i])
    BY <2>4 DEF IInv, NearestFirst, PrefixSelected
  <2>6. cent_dists[i].dist = CentDist[query][c] /\ cent_dists[j].dist = CentDist[query][d]
    BY <1>1, <1>3, <2>1, <2>2 DEF RankOfThisQuery
  <2> QED BY <2>5, <2>6 DEF Closer, Promise!CloserCent
<1>7. Promise!Pool(P) = InFirst(n)
  BY DEF Promise!Pool, InFirst
<1>8. Promise!NumProbed = n
  <2>1. Cardinality(Cents) = NumCents
    BY FS_Interval, SizeAssumption
  <2> QED BY <2>1, SameCardinality DEF Promise!NumProbed, EffectiveProbes
<1>9. Promise!NearestClusters(query, n, P)
  BY <1>4, <1>5, <1>6, SameCardinality DEF Promise!NearestClusters
<1> QED BY <1>7, <1>8, <1>9

\* search implements NearestK: every step of the two loops, of the heap and of
\* the selection is invisible to the caller, and what it returns is an answer
\* NearestK allows.
THEOREM Refinement == Spec => RefinesNearestK
<1>1. Init => Promise!Init
  <2> SUFFICES ASSUME Init PROVE Promise!Init
    OBVIOUS
  <2>1. TypeOK
    BY InitEstablishes DEF IInv
  <2> QED BY <2>1 DEF Init, TypeOK, Promise!Init
<1>2. IInv /\ [Next]_vars => [Promise!Next]_Promise!vars
  <2> SUFFICES ASSUME IInv, [Next]_vars PROVE [Promise!Next]_Promise!vars
    OBVIOUS
  <2>1. ASSUME NEW q \in Query, Start(q) PROVE Promise!Next
    BY <2>1 DEF Start, Promise!Next, Promise!Ask
  <2>2. CASE Collect
    <3> DEFINE P == {Idx(i) : i \in 1 .. EffectiveProbes}
    <3>1. /\ Promise!NearestClusters(query, Promise!NumProbed, P)
          /\ Promise!KNearest(query, Promise!Pool(P), result'.neighbors)
          /\ result' = [status |-> "ok", neighbors |-> result'.neighbors]
      BY <2>2, CollectedNeighbors, PrefixIsNearest DEF Collect, Scanning
    <3>2. P \subseteq Cents
      BY <3>1 DEF Promise!NearestClusters
    <3>3. (pc # "idle") /\ ~ (pc' # "idle") /\ UNCHANGED <<probes, query>>
      BY <2>2 DEF Collect
    <3> HIDE DEF P
    <3> QED BY <3>1, <3>2, <3>3 DEF Promise!Next, Promise!Answer
  <2>3. CASE SelectPanics
    <3>1. probes \in Nat /\ Len(cent_dists) = NumCents
      BY <2>3 DEF SelectPanics, IInv, TypeOK, RankOfThisQuery
    <3>2. EffectiveProbes = 0 /\ 0 < NumCents
      BY <2>3, <3>1 DEF SelectPanics, SelectPanicsWhen
    <3>3. probes = 0 /\ 0 \in Cents
      BY <3>1, <3>2, SizeAssumption DEF EffectiveProbes
    <3> QED BY <2>3, <3>3 DEF SelectPanics, Promise!Next, Promise!Fail
  <2>4. ASSUME UNCHANGED <<probes, query, result>>, pc # "idle", pc' # "idle"
        PROVE  UNCHANGED Promise!vars
    BY <2>4 DEF Promise!vars
  <2>5. CASE SelectProbes \/ EnterCluster \/ LeaveCluster
    BY <2>4, <2>5 DEF SelectProbes, EnterCluster, LeaveCluster
  <2>6. CASE Push
    BY <2>4, <2>6 DEF Push
  <2>7. CASE Replace \/ Skip \/ SiftSwap
    BY <2>4, <2>7 DEF Replace, Skip, SiftSwap
  <2>8. CASE SiftDone
    BY <2>4, <2>8 DEF SiftDone
  <2>9. CASE UNCHANGED vars
    BY <2>9 DEF vars, Promise!vars
  <2> QED BY <2>1, <2>2, <2>3, <2>5, <2>6, <2>7, <2>8, <2>9 DEF Next, SearchStep
<1> QED BY <1>1, <1>2, Invariance, PTL DEF Spec, RefinesNearestK, Promise!Spec

\* With every cluster probed, the answer is the brute-force one.
THEOREM FullProbeExact == Spec => []FullProbeIsExact
<1>1. Init => FullProbeIsExact
  BY DEF Init, FullProbeIsExact
<1>2. IInv /\ FullProbeIsExact /\ [Next]_vars => FullProbeIsExact'
  <2> SUFFICES ASSUME IInv, FullProbeIsExact, [Next]_vars PROVE FullProbeIsExact'
    OBVIOUS
  <2>1. CASE Collect
    <3> SUFFICES ASSUME probes >= NumCents PROVE FullProbeIsExact'
      BY <2>1 DEF Collect, FullProbeIsExact
    <3> DEFINE nb == result'.neighbors
    <3>1. EffectiveProbes = NumCents /\ TypeOK /\ RankOfThisQuery
      BY EffectiveType DEF IInv, TypeOK
    <3>2. InFirst(NumCents) = Vecs
      <4>1. pc # "idle" /\ NumCents \in Nat
        BY <2>1, SizeAssumption DEF Collect
      <4>2. \A i \in 1 .. NumCents : Members(Idx(i)) \subseteq Vecs
        BY <3>1, <4>1, IdxIsCluster, ClusterBounds
      <4>3. \A v \in Vecs : \E i \in 1 .. NumCents : v \in Members(Idx(i))
        BY <3>1, <4>1, ClustersCover DEF RankOfThisQuery
      <4> QED BY <4>2, <4>3 DEF InFirst
    <3>3. Promise!KNearest(query, Vecs, nb)
      BY <2>1, <3>1, <3>2, CollectedNeighbors
    <3>4. DOMAIN nb = 1 .. Len(nb)
      <4>1. nb \in Seq(Neighbors)
        BY TypeStep DEF TypeOK
      <4> QED BY <4>1
    <3>5. query' = query
      BY <2>1 DEF Collect
    <3> HIDE DEF nb
    <3>6. LET Got == {nb[i].vec : i \in 1 .. Len(nb)}
          IN  /\ \A i, j \in 1 .. Len(nb) : nb[i].vec = nb[j].vec => i = j
              /\ Len(nb) <= K
              /\ Len(nb) < K => Got = Vecs
              /\ \A i \in 1 .. Len(nb), v \in Vecs \ Got :
                    VecDist[query][nb[i].vec] <= VecDist[query][v]
      BY <3>3, <3>4 DEF Promise!KNearest, Promise!VecsOf
    <3> QED BY <3>5, <3>6 DEF FullProbeIsExact, nb
  <2>2. CASE SelectPanics
    BY <2>2 DEF SelectPanics, FullProbeIsExact
  <2>3. ASSUME pc' # "idle" PROVE FullProbeIsExact'
    BY <2>3 DEF FullProbeIsExact
  <2>4. ASSUME NEW q \in Query, Start(q) PROVE FullProbeIsExact'
    BY <2>3, <2>4 DEF Start
  <2>5. CASE SelectProbes \/ EnterCluster \/ LeaveCluster
    BY <2>3, <2>5 DEF SelectProbes, EnterCluster, LeaveCluster
  <2>6. CASE Push
    BY <2>3, <2>6 DEF Push
  <2>7. CASE Replace \/ Skip \/ SiftSwap
    BY <2>3, <2>7 DEF Replace, Skip, SiftSwap
  <2>8. CASE SiftDone
    BY <2>3, <2>8 DEF SiftDone
  <2>9. CASE UNCHANGED vars
    BY <2>9 DEF vars, FullProbeIsExact
  <2> QED BY <2>1, <2>2, <2>4, <2>5, <2>6, <2>7, <2>8, <2>9 DEF Next, SearchStep
<1> QED BY <1>1, <1>2, Invariance, PTL DEF Spec
=============================================================================
