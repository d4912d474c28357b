----------------------------- MODULE IndexBuild -----------------------------
(***************************************************************************)
(* buildindex (read_sample, kmeans, assign_all, write_index), the index    *)
(* file it leaves on disk, and an API process that loads that file.        *)
(*                                                                         *)
(* Vectors are points of a line (Geometry).  Coordinates are multiples of  *)
(* every possible cluster size, so the means are exact integers.  Floating *)
(* point rounding is not modelled.                                         *)
(***************************************************************************)
EXTENDS Integers, Sequences, SequencesExt, Sums, IndexLayout, Geometry

CONSTANTS
    References,  \* the possible contents of references.json.gz
    CentroidCounts, \* the values of -centroids
    Iters,       \* -iters
    Probes       \* -probes

\* A record: whether it parses, and whether its vector has at least 14 components.
RefLine == [ok : BOOLEAN, long : BOOLEAN, x : Int, label : {"fraud", "legit"}]

ASSUME BuildAssumption ==
    /\ CentroidCounts \subseteq Nat /\ Iters \in Nat /\ Probes \in Nat
    /\ References \subseteq Seq(RefLine)

VARIABLES
    phase,     \* where buildindex is
    num_centroids, \* -centroids of this run
    refs,      \* the input of this run
    pos,       \* position of the stream
    sample,    \* coordinates sampled in pass 1
    centroids, \* their coordinates
    iter,      \* k-means iterations done
    clusters,  \* per centroid, the positions in refs assigned to it, in order
    total,     \* how many assign_all has counted
    disk,      \* the output file: whose bytes it holds (img) and how many (len)
    raw,       \* the f32 copy beside it, coordinate by coordinate
    loaded     \* what Searcher::load made of the file

working == <<num_centroids, refs, pos, sample, centroids, iter, clusters, total>>
vars == <<phase, working, disk, raw, loaded>>

Cents == 0 .. num_centroids - 1

----------------------------------------------------------------------------
(* Sums and k-means                                                        *)

AssignedTo(c, s, cs) == {k \in 1 .. Len(s) : Nearest(s[k], cs) = c}

\* sums[c] after the loop over the sample.
Total(c, s, cs) ==
    RunningSum(Len(s), [k \in 1 .. Len(s) |-> IF Nearest(s[k], cs) = c THEN s[k] ELSE 0])[Len(s)]

MeanOverAll(c, s, cs) == Total(c, s, cs) \div Len(s)
\* The mean of the vectors assigned to c; a centroid with none stays in place.
Mean(c, s, cs) ==
    LET A == AssignedTo(c, s, cs)
    IN  IF A = {} THEN cs[c] ELSE Total(c, s, cs) \div Cardinality(A)

----------------------------------------------------------------------------
(* The file                                                                *)

\* A number of w bytes: its bytes know the value and their place in it.
Word(w, value) == [b \in 1 .. w |-> [value |-> value, byte |-> b]]

\* The loop over the clusters: cur before cluster i, and after the last.
Starts(n, cl) == RunningSum(n, [i \in 1 .. n |-> Len(cl[i - 1])])

StartOfInclusive(n, cl, i) == Starts(n, cl)[IF i < n THEN i + 1 ELSE i]
\* offsets[i]: how many vectors the clusters before i hold.
StartOf(n, cl, i) == Starts(n, cl)[i]

\* The vectors in the order they are written: cluster by cluster.
InClusterOrder(n, cl) == FlattenSeq([i \in 1 .. n |-> cl[i - 1]])

VectorOf(r) == FlattenSeq([j \in 1 .. DIMS |-> Word(1, Quantize(r.x))])
LabelOf(r) == Word(1, IF r.label = "fraud" THEN 1 ELSE 0)

VectorOrder(img) == InClusterOrder(img.num_centroids, img.clusters)

LabelOrderInput(img) ==
    [k \in DOMAIN VectorOrder(img) |-> SetToSortSeq(Range(VectorOrder(img)), <)[k]]
\* The order of the label section, the vectors' own.
LabelOrder(img) == InClusterOrder(img.num_centroids, img.clusters)

\* Everything write_index writes for a build, section by section.
Header(img) ==
    Word(4, "IVFX") \o Word(4, 1) \o Word(8, img.num_vecs)
        \o Word(4, img.num_centroids) \o Word(4, DIMS) \o Word(4, Probes) \o Word(4, 0)
CentroidSection(img) ==
    FlattenSeq([i \in 1 .. img.num_centroids |->
        FlattenSeq([j \in 1 .. DIMS |-> Word(4, img.centroids[i - 1])])])
OffsetSection(img) ==
    FlattenSeq([i \in 1 .. img.num_centroids + 1 |->
        Word(8, StartOf(img.num_centroids, img.clusters, i - 1))])
VectorSection(img) ==
    FlattenSeq([k \in 1 .. Len(VectorOrder(img)) |-> VectorOf(img.refs[VectorOrder(img)[k]])])
LabelSection(img) ==
    FlattenSeq([k \in 1 .. Len(LabelOrder(img)) |-> LabelOf(img.refs[LabelOrder(img)[k]])])

Bytes(img) ==
    Header(img) \o CentroidSection(img) \o OffsetSection(img)
        \o VectorSection(img) \o LabelSection(img)

NoImage == [num_centroids |-> 0, num_vecs |-> 0, refs |-> <<>>,
            centroids |-> <<>>, clusters |-> <<>>]
ThisImage == [num_centroids |-> num_centroids, num_vecs |-> total, refs |-> refs,
              centroids |-> centroids, clusters |-> clusters]

File == IF disk.len = 0 THEN <<>> ELSE SubSeq(Bytes(disk.img), 1, disk.len)

\* from_le_bytes and the slices of search: w bytes at a byte offset.  Bytes of
\* different numbers make no number the writer meant.
Read(f, off, w) ==
    IF \A b \in 1 .. w : f[off + b] = [value |-> f[off + 1].value, byte |-> b]
    THEN f[off + 1].value ELSE "garbage"

----------------------------------------------------------------------------
Init ==
    /\ phase = "off"
    /\ num_centroids \in CentroidCounts
    /\ refs = <<>>
    /\ pos = 1
    /\ sample = <<>>
    /\ centroids = <<>>
    /\ iter = 0
    /\ clusters = [c \in Cents |-> <<>>]
    /\ total = 0
    /\ disk = [img |-> NoImage, len |-> 0]
    /\ raw = <<>>
    /\ loaded = [status |-> "none", img |-> NoImage, len |-> 0]

(* buildindex                                                              *)

\* parse_args: an unknown flag, a value that is missing or does not parse ends the
\* run before anything is touched.  Zero passes for every number.
BadArgs ==
    /\ phase = "off"
    /\ phase' = "dead"
    /\ UNCHANGED <<working, disk, raw, loaded>>

StartBuild ==
    /\ phase = "off"
    /\ refs' \in References
    /\ phase' = "sample"
    /\ UNCHANGED <<num_centroids, pos, sample, centroids, iter, clusters, total, disk, raw, loaded>>

\* read_sample, one record: a short vector is passed over, a record that does
\* not parse ends the run, the others are kept or not as the generator says.
SampleRecord ==
    /\ phase = "sample"
    /\ pos <= Len(refs)
    /\ \/ /\ ~ refs[pos].ok
          /\ phase' = "dead"
          /\ UNCHANGED <<pos, sample>>
       \/ /\ refs[pos].ok
          /\ \/ refs[pos].long /\ sample' = Append(sample, refs[pos].x)
             \/ sample' = sample
          /\ pos' = pos + 1
          /\ phase' = phase
    /\ UNCHANGED <<num_centroids, refs, centroids, iter, clusters, total, disk, raw, loaded>>

\* kmeans: a sample smaller than k is refused; otherwise k distinct positions of
\* the sample give the first centroids (Forgy).
SeedCentroids ==
    /\ phase = "sample"
    /\ pos > Len(refs)
    /\ \/ /\ Len(sample) < num_centroids
          /\ phase' = "dead"
          /\ UNCHANGED centroids
       \/ /\ Len(sample) >= num_centroids
          /\ \E p \in Injection(Cents, 1 .. Len(sample)) :
                centroids' = [c \in Cents |-> sample[p[c]]]
          /\ phase' = "lloyd"
    /\ UNCHANGED <<num_centroids, refs, pos, sample, iter, clusters, total, disk, raw, loaded>>

\* for iter in 0..iters
MoreIterations == iter < Iters

\* One iteration: every sample to its nearest centroid, then the means.
LloydIteration ==
    /\ phase = "lloyd"
    /\ MoreIterations
    /\ sample # <<>> => num_centroids > 0
    /\ centroids' = [c \in Cents |-> Mean(c, sample, centroids)]
    /\ iter' = iter + 1
    /\ UNCHANGED <<num_centroids, phase, refs, pos, sample, clusters, total, disk, raw, loaded>>

\* With -centroids 0, which kmeans lets pass, a sampled vector has no counts[0] to
\* be added to.
LloydPanics ==
    /\ phase = "lloyd" /\ MoreIterations
    /\ num_centroids = 0 /\ sample # <<>>
    /\ phase' = "dead"
    /\ UNCHANGED <<working, disk, raw, loaded>>

LloydDone ==
    /\ phase = "lloyd"
    /\ ~ MoreIterations
    /\ phase' = "assign"
    /\ pos' = 1
    /\ UNCHANGED <<num_centroids, refs, sample, centroids, iter, clusters, total, disk, raw, loaded>>

\* assign_all, one record: every long vector, sampled or not, to one cluster, and counted.  A
\* record that does not parse has ended the run in pass 1 already.
AssignRecord ==
    /\ phase = "assign"
    /\ pos <= Len(refs)
    /\ refs[pos].long => num_centroids > 0
    /\ clusters' = IF refs[pos].long
                   THEN [clusters EXCEPT ![Nearest(refs[pos].x, centroids)] = Append(@, pos)]
                   ELSE clusters
    /\ total' = IF refs[pos].long THEN total + 1 ELSE total
    /\ pos' = pos + 1
    /\ UNCHANGED <<num_centroids, phase, refs, sample, centroids, iter, disk, raw, loaded>>

\* Nor has an assigned one, if none was sampled, a clusters[0].
AssignPanics ==
    /\ phase = "assign" /\ num_centroids = 0
    /\ pos <= Len(refs) /\ refs[pos].long
    /\ phase' = "dead"
    /\ UNCHANGED <<working, disk, raw, loaded>>

\* write_index opens the output with File::create, which empties it.
CreateFile ==
    /\ phase = "assign"
    /\ pos > Len(refs)
    /\ disk' = [img |-> ThisImage, len |-> 0]
    /\ phase' = "write"
    /\ UNCHANGED <<working, raw, loaded>>

\* One more byte reaches the file, when the BufWriter is full or flushed.
WriteByte ==
    /\ phase = "write"
    /\ disk.len < Len(Bytes(disk.img))
    /\ disk' = [disk EXCEPT !.len = @ + 1]
    /\ UNCHANGED <<phase, working, raw, loaded>>

\* The flush, then File::create of the f32 copy.
IndexFlushed ==
    /\ phase = "write"
    /\ disk.len = Len(Bytes(disk.img))
    /\ phase' = "raw"
    /\ raw' = <<>>
    /\ UNCHANGED <<working, disk, loaded>>

\* The second walk over the clusters.
RawOrder == InClusterOrder(num_centroids, clusters)

WriteRaw ==
    /\ phase = "raw"
    /\ Len(raw) < Len(RawOrder)
    /\ raw' = Append(raw, refs[RawOrder[Len(raw) + 1]].x)
    /\ UNCHANGED <<phase, working, disk, loaded>>

WriteDone ==
    /\ phase = "raw"
    /\ Len(raw) = Len(RawOrder)
    /\ phase' = "done"
    /\ UNCHANGED <<working, disk, raw, loaded>>

\* The run is killed, or an error of the disk ends it: the file stays as it is.
BuildDies ==
    /\ phase \notin {"off", "done", "dead"}
    /\ phase' = "dead"
    /\ UNCHANGED <<working, disk, raw, loaded>>

----------------------------------------------------------------------------
(* Searcher::load in an API process that starts                            *)

LoadAccepts(f) ==
    /\ Len(f) >= HeaderBytes
    /\ Read(f, 0, 4) = "IVFX"
    /\ Read(f, 4, 4) = 1
    /\ Read(f, 20, 4) = DIMS
    /\ Len(f) >= Needed(Read(f, 16, 4), Read(f, 8, 8))

\* The offsets' contents are not looked at, only the length of the file.
Load ==
    /\ loaded.status = "none"
    /\ loaded' = IF LoadAccepts(File)
                 THEN [status |-> "ok", img |-> disk.img, len |-> disk.len]
                 ELSE [loaded EXCEPT !.status = "refused"]
    /\ UNCHANGED <<phase, working, disk, raw>>

Next ==
    \/ BadArgs \/ StartBuild \/ SampleRecord \/ SeedCentroids \/ LloydIteration \/ LloydDone
    \/ AssignRecord \/ LloydPanics \/ AssignPanics \/ CreateFile \/ WriteByte \/ IndexFlushed
    \/ WriteRaw \/ WriteDone \/ BuildDies
    \/ Load

Spec == Init /\ [][Next]_vars

----------------------------------------------------------------------------
(* Properties                                                              *)

\* An index is accepted only when it is complete: whatever prefix of the file a
\* killed build or a build still running leaves, load's length check refuses it.
TornIndexRefused ==
    loaded.status = "ok" => loaded.len = Len(Bytes(loaded.img))

Mapped == SubSeq(Bytes(loaded.img), 1, loaded.len)
NumVecs == Read(Mapped, 8, 8)
NumCents == Read(Mapped, 16, 4)
OffsetAt(c) == Read(Mapped, OffsetOff(NumCents) + c * 8, 8)

\* The numbers search takes from an accepted index meet what it relies on: the
\* offset table starts at 0, never decreases and ends at num_vecs (the
\* assumption of IvfSearch).
OffsetsAreUsable ==
    loaded.status = "ok" =>
        /\ NumCents = num_centroids
        /\ OffsetAt(0) = 0
        /\ OffsetAt(NumCents) = NumVecs
        /\ \A c \in 0 .. NumCents - 1 : OffsetAt(c) <= OffsetAt(c + 1)

\* Read through load's layout, every reference vector of the input is in one
\* cluster, that of a nearest centroid, with its own 14 bytes and its own label.
EveryVectorFindable ==
    loaded.status = "ok" =>
        LET in == loaded.img.refs
            longs == {k \in 1 .. Len(in) : in[k].long}
            CentAt(c) == Read(Mapped, CentOff + c * DIMS * 4, 4)
            Holds(v, k) ==
                /\ \A j \in 0 .. DIMS - 1 :
                      Read(Mapped, VecOff(NumCents) + v * DIMS + j, 1) = Quantize(in[k].x)
                /\ Read(Mapped, LabelOff(NumCents, NumVecs) + v, 1) =
                      (IF in[k].label = "fraud" THEN 1 ELSE 0)
            Placed(v, k) ==
                /\ Holds(v, k)
                /\ \E c \in Cents :
                      /\ OffsetAt(c) <= v /\ v < OffsetAt(c + 1)
                      /\ \A d \in Cents : SqDist(in[k].x, CentAt(c)) <= SqDist(in[k].x, CentAt(d))
        IN  \E place \in Bijection(longs, 0 .. NumVecs - 1) :
                \A k \in longs : Placed(place[k], k)

\* The spread of a sample around a set of centroids.
Spread(s, cs) ==
    RunningSum(Len(s), [k \in 1 .. Len(s) |-> SqDist(s[k], cs[Nearest(s[k], cs)])])[Len(s)]

\* No k-means iteration makes the sample's spread around its centroids larger.
LloydNeverWorsens ==
    [][iter' = iter + 1 => Spread(sample, centroids') <= Spread(sample, centroids)]_vars
=============================================================================
