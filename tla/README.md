# A TLA+ model of the fraud-score API

The repository is a fraud-scoring HTTP service: a transaction is turned into 14
numbers, its 5 nearest reference transactions are looked up in an inverted-file
(IVF) index, and the share of frauds among them decides. Two identical API
processes (`rust-api/src/main.rs`) stand behind HAProxy on Unix sockets; an
offline program (`bin/buildindex.rs`) makes the index they map into memory.

This directory holds TLA+ modules for those parts, TLC configurations that
check them on small instances, and TLAPS proofs, for every value of the constants,
of every safety property but one that those configurations check.

## The system

| Component | State | Operations | Talks to |
|---|---|---|---|
| `search.rs` `Searcher::search` | thread-local `SearchBuffer` (ranking, candidates), never freed | rank centroids, select probes, scan clusters, max-heap of K | called by the handler; reads the mapped index |
| `search.rs` `Searcher::load` | the mapping, sizes and section offsets, `probes` | header and length checks | reads what `write_index` wrote |
| `bin/buildindex.rs` | sample, centroids, clusters, the output file | sample, k-means, assign, write | its output is `load`'s input |
| `bin/buildindex.rs` `JsonArrayUnwrapper` | `started`, `depth`, `done` | `read` | between gzip and serde_json |
| `timing.rs` `PhaseStats` | `sum_us`, `count`, `buckets` atomics | `record`, `report` | every handler records; `/metrics` reports |
| `main.rs` | socket file, listeners, connection tasks, `ENABLED` | start, accept, `fraud_score`, `ready`, `metrics` | HAProxy, the runtime, `Searcher` |
| `vectorize.rs` | none | `vectorize` | called by the handler |
| `bin/classify_mismatches.rs` | index, references and mismatches in memory; counters, histograms, output file | diagnostic search, brute force, classify, summarise | reads the index and the references file |
| `bin/calibrate_probes.rs` | three counters per probe value | search all test entries, print | reads the index and the test data |
| `haproxy.cfg`, `docker-compose.yml` | server health, idle connections | balance, check, time out | the two processes |

What is hard to test here: the buffer that survives from one request of a thread
to the next (and a panic); ties, NaN and unstable sorts; the heap in the middle
of a scan; a file that a killed build leaves; counters that are added to and read
without a lock; a byte filter that may be cut at any byte; a process that dies at
any point of its start and leaves a socket file; peers that leave while their
request is served; health checks that fall into a start-up; an offline tool that
compares positions of two files in different orders. `PROJECT.json` lists each of them
at its line ("hazards") with the properties that watch it.

## Modules

**`NearestK`**: what a search promises. A request is answered once, with K vectors that
are nearest among those of some choice of the `probes` nearest clusters; equal
distances may fall either way. With no probe at all it may fail instead.

**`IvfSearch`**: `Searcher::search` of one worker thread, one action per step of its
loops: `Start` (clear, rank), `SelectProbes` / `SelectPanics` (the unstable
selection and sort, any arrangement of ties), `EnterCluster`, `Push`, `Replace`,
`Skip`, `SiftSwap`, `SiftDone` (the turns of `sift_down_max`, called from
`heapify_max` or after a replacement), `LeaveCluster`, `Collect`. A search has no
`await`, so a thread runs one at a time and one program counter is enough. The
buffer stays as it is between searches. Sequences are indexed from 1: node `i` of
the heap has children `2i` and `2i+1`. Distances are constants, so nothing depends
on the geometry; a NaN component of the query makes all its centroid distances
NaN. `vec` in candidates and `seen` are history.

**`IndexLayout`**: the section offsets of `load` and the section sizes of `write_index`.

**`Geometry`**: vectors as points of a line, distances, the nearest centroid, and the two
quantizations of the repository: rounding (`buildindex.rs`, `search.rs`) and
truncating (`classify_mismatches.rs`).

**`Sums`**: the running sums of a sequence of numbers, as an accumulator leaves them.

**`IndexBuild`**: a run of `buildindex` and a process that loads its output, at any moment.
`BadArgs`, `SampleRecord`, `SeedCentroids` (any k of the sample), `LloydIteration`,
`LloydPanics`, `AssignRecord` / `AssignPanics` (with `-centroids 0` both index an empty vector), `CreateFile`, `WriteByte`, `IndexFlushed`, `WriteRaw` (the
f32 copy), `WriteDone`, and `BuildDies` anywhere.
The file is a sequence of bytes that know which number they belong to, so that a
read at a wrong place yields garbage; it is built section by section as `write_index`
builds it (`Header`, with the `total` that `assign_all` counted on its own, `CentroidSection`, `OffsetSection` from the running sums `Starts`,
`VectorSection`, `LabelSection`) and read back through `load`'s offsets. Vectors lie on a line and
coordinates are chosen so that means are exact: floating-point rounding is not
modelled, quantization (round half away from zero, clamp) is.

**`JsonArrayUnwrapper`**: `read` byte by byte, in place in the caller's buffer. The
buffer sizes, the length of each inner read, interruptions and the place where the
file ends are all free. A text is a sequence of symbols named for the bytes the code
tells apart (`"lbracket"`, `"comma"`, ..., `"x"` for any other). An element is a JSON value
(`Balanced`): it closes what it opens, and has its commas inside its own braces or
brackets. The code does not track strings, so texts with brackets in strings, and
bare strings with a comma as elements, are outside the model (the elements of the
reference file are objects, whose strings have neither).

**`Timing`**: one `PhaseStats`: the three additions of `record` and the loads of
`report` are separate steps of concurrent workers, in program order. The atomics are
`Relaxed`, which the language lets a target reorder, and no build file pins the target:
the order is an assumption, true of x86-64, where each addition is a locked instruction
and loads are not reordered. `AverageNeverLow` rests on it. `started`, `total`, `counted`,
`floor`, `complete`, `base` and `quiet` are history.

**`ApiServer`**: the lives of one API process. Start-up step by step (`LoadAll`,
`BindHealth`, `RemoveFile` whose failure is ignored, `BindUds`, `SetPermissions`, or
`BindTcp`, each of which may fail: `StartFails`), the accept loop whose error is fatal, and per connection the handler
`Begin`, `Parse` / `BadRequest`, `Vectorize`, `Search` / `SearchPanics`, `Total`;
`/metrics` reads the four phases one after the other (`ReportPhase`). A handler holds a worker thread from start to end. A peer that
leaves while its request waits may still have it read and handled (`PeerCloses`); the
answer then goes nowhere. Connecting, sending and being killed are the environment's. The search's result is a constant per request here;
`IvfSearch` is about the search, `Timing` about a record. `Verdict` holds the table
of answers, which `Calibrate` uses too.

**`ApiProcess`**: what whoever sends requests may rely on, without the steps: a life loads
before it opens its socket, opens it to its own uid first, and may end at any moment.
`ApiServer` implements it (`RefinesApiProcess`; `Stage` is the refinement mapping).

**`Deployment`**: the composition: API processes that behave as `ApiProcess` says, behind
HAProxy with `rise 1 fall 2`, and clients. HAProxy is not in the repository; it is
modelled from `haproxy.cfg` and marked external where the configuration says nothing:
a server's counter (up from the start, down at the first failed check until one has
passed), connects tried again on the same server, nothing tried again once sent, and
kept connections (`http-reuse always`) that the other side may have closed.
`passed` and `missed` are history: the checks a process has passed in a row since it
serves, and those in a row that timed out on it.
`docker-compose.yml` has no restart policy; that a dead process comes back is an
operator's step, possible and never assumed.

**`Calibrate`**: `calibrate_probes`: all requests are parsed first, then for every probe
value the index is loaded and all entries are searched and counted. `WrongAmong` says,
from the service's table and not the tool's threshold, what should be counted.

**`Classify`**: `classify_mismatches`: the index is loaded (`LoadIndex`), the references
file is read record by record (`load_references`, `ReferencesLoaded`), then the
mismatches (`ReadMismatch`, `MismatchesRead`), and for each mismatch the diagnostic search is a choice of its result (nearest clusters, nearest
vectors, ties either way; the heap itself is `IvfSearch`'s), brute force goes reference
by reference (`BruteForceStep`) with its sorts, and `WriteRecord` classifies, counts and
writes. `BadRequest` and `NotInIndex` are its two panics. The index is what `buildindex`
makes of a references file, the same or an older one.

**`Vectorize`**: `vectorize`, the quantization of `search` and `dist_int8`, on requests
one after the other. An `f32` is a fraction `<<n, d>>` with `d >= 0`; `<<n, 0>>` is an
infinity and `<<0, 0>>` NaN, so cross multiplication gives IEEE division and the two
comparisons of `clamp` and `quantize` treat NaN as the code does. Timestamps are local
milliseconds and an offset, or unreadable. JSON has no NaN, but a number beyond f32's
range arrives as an infinity.

`MC*` modules give the constants values. Operators next to a definition that vary
it (`ClusterEndShort` beside `ClusterEnd`) are plausible mistakes: putting one in
place of the definition makes the property named with it in `PROJECT.json`
("mutants") fail, which shows that the property notices.

## Runs

| Run | Instance | Shows |
|---|---|---|
| `search` | K=3, 3 clusters (one empty), 4 vectors, 3 distances each, all queries, `IVF_PROBES` 0, 2, 9, header 0, 1; any number of searches | ranking belongs to this query, every probed vector scanned, the kept ones nearest and the farthest at the root, exact with all probes, K-th distance never grows, every search ends, implements `NearestK` (which allows a panic only without probes) |
| `index_build` | 2 and 0 centroids, 4 inputs of up to 4 records (out-of-range value, duplicates, short and broken records, no vector at all), 2 iterations | no prefix of a file is accepted, offsets usable, every vector findable with its label (or the build panics before it writes), k-means never worsens |
| `unwrapper` | up to 2 elements of three shapes, buffers of 1 and 3, cut anywhere | output is the elements, the end is the end, it is reached |
| `timing` | 3 workers, 3 records, 3 buckets | nothing lost, average never low, undisturbed report right, a disturbed one off by the overlapping records only |
| `server` | 2 connections, 2 worker threads, 2 lives, 3 requests of every kind | stale socket harmless, phases accounted for, answers and metrics pages fit, requests answered or connection closed, implements `ApiProcess` |
| `server_live` | 1 worker thread, requests that panic | every request ends |
| `vectorize` | 500 requests in two families: 8 timestamps with 25 prior transactions, 5 amounts and averages with counts, merchants and codes | NaN only in dim 2 and only from two overflowing values, the no-prior-transaction sentinel stays apart, offsets do not matter, unreadable times look recent |
| `deployment` | 2 processes, 1 client, 2 deaths, 2 timed-out checks, 1 retry | fewer than `Fall` slow checks in a row do not cost a serving process its place; requests stop failing once the processes have settled and one serves |
| `calibrate` | 2 probe values, up to 2 entries with counts around the threshold | what is printed is what the service would do |
| `classify` | K=2, 3 clusters, 2 probed, all files of 4 records over 4 vectors and a short one, 8 mismatch files; an index older than the references | brute force is right; where positions agree, ranks tell what was probed and causes are right |
| `zero_probes`, `classify_probe_miss` | small; as `classify` | two disagreements, below |

Why the bounds are enough: the search's behaviour depends on how distances
compare, and 3 values over the vectors give every order with and without ties;
K=3 is the least heap whose root has two children; an empty cluster,
adjacent offsets and probe counts below, at and above the cluster count all occur;
the proofs lift the bounds, to the deployed K=5 among others. In `timing` two
records can be cut by a report of the third worker at every point. In `index_build`
every prefix length of every file is met by a load. In `unwrapper` a buffer of one
is serde_json's, three makes a chunk hold a bracket, a comma and a byte in every
position. In `vectorize` features are independent but for dims 2, 5 and 6, so the
two families vary what interacts together; the other scaled features have a value in
and one beyond their range. In `server` two lives are the least in which a stale file
matters, and two worker threads the least in which a page is read while a request goes
on. In `classify` a coordinate is a quarter of an int8 step, so quantization merges and
exchanges neighbours, and one query is equally far from two centroids. In `deployment`
a retry more changes only how often the same connect fails; `Fall` timed-out checks are
one more than a server forgives; clients do not depend on each other, so one is enough.
`CHECK_DEADLOCK FALSE` is set where the system stops: a finished build, a stream at
its end, an offline tool that is done, a server whose bounded requests and starts are used up.

Fairness. `IvfSearch`: weak fairness of the search under way (a thread that runs
goes on). `JsonArrayUnwrapper`: the caller reads until it sees the end, and a read
is not interrupted for ever (strong fairness of the inner read). `ApiServer`: main
and running handlers go on (weak); a queued connection is accepted (weak: accept
takes them in order); a ready task gets a worker even when they are busy now and
then (strong: tokio's run queues are first in, first out with a check of the global
queue). `Deployment`: HAProxy checks every server again and again (`inter 2s`), gets on
with a request it has taken, and sees a closed connection (weak); a handler answers or
its process dies (`EveryRequestEnds`). `ServiceRecovers` supposes that every process
serves for good or not at all from some time on; checks that time out are bounded by
`MaxSlow`. Nobody is bound to ask, connect or restart.

## Disagreements between code and comments

Shown by runs that TLC refutes:

* `zero_probes`: `main.rs:101` and `buildindex.rs:136` say the probe counts must be
  positive; 0 parses, and 0 in both makes every search panic at `search.rs:119`.
* `classify_probe_miss`: `classify_mismatches.rs:9` defines a probe miss by the scanned
  clusters; line 599 compares positions of the references file with positions of the
  index, which is in cluster order. The ranks written for such a mismatch are those of
  other vectors, so lines 450-451 ("Rank ≤ PROBES means the cluster was probed") fail too.

Seen while modelling, and modelled as the code has it:

* the percentile target is truncated (`timing.rs:61`), so with one recorded request
  p99 is "<10µs" whatever it took;
* `buildindex.rs:33` and `:535` say quantization truncates; it rounds
  (`buildindex.rs:550`, `search.rs:185`);
* `classify_mismatches.rs:215` and `:475` say it replicates `search.rs` exactly; its
  `quantize` truncates (line 480);
* the gap of a tie flip is said to be between two fifth neighbours (lines 643, 742 of
  `classify_mismatches.rs`); `.min()` in line 646 takes the nearest returned one.

## What is proved

`IvfSearchProofs`, for every K, index, probe count, number of searches and all
distances, from the assumptions of `IvfSearch` (K positive, a monotone offset table
from 0 to `num_vecs`, NaN for all centroids or for none):

* `Invariance`: the conjunction `IInv` of type, `RankOfThisQuery`, `NearestFirst`,
  `ScannedSoFar`, `KeptAreNearest` and `HeapOrder` is inductive. None of the parts is
  by itself: that a vector turned away is no closer than any kept one needs the root
  to be the farthest candidate, that needs the heap order, which in the middle of a
  sift holds only around the hole (`HeapOrder` says exactly how), and that a scanned
  vector is new needs the clusters of the ranking to be distinct and disjoint.
* Its parts as theorems (`TypeCorrect`, `RankingIsFresh`, `ScansTheProbed`,
  `KeepsTheNearest`), `RootFarthest` (a heap's root is its maximum, by the least
  counterexample), the action property `KthDistanceShrinks`.
* `Refinement`: `Spec => NearestK!Spec`. Every step but `Start`, `Collect` and
  `SelectPanics` is a stutter; `Collect` is `Answer` with the clusters of the prefix
  as the choice.
* `FullProbeExact`: with at least as many probes as clusters the answer is the
  brute-force one.

`IndexBuildProofs`, for every number of centroids, iterations and probes and every
input (`BuildAssumption`: a record has a coordinate, a label and a length), and a build
killed at any byte:

* `ReaderAgreesWithWriter` and `SlicesAreAligned`: the reader's offsets are the writer's
  and the `f32` and `u64` slices are aligned.
* `BytesAre`: where the bytes of every section of a written file lie, and what they hold.
  It rests on two recursive functions, the running sums of the cluster sizes and the
  concatenation of parts (`SequenceLemmas`). Their existence and their values are proved
  from the least counterexample, the form of induction within this prover's reach.
* `Invariance`: after m records the clusters hold the long ones of the first m, each at
  one place and with a closest centroid (`Assigned`), `total` is the number they hold
  (`Held`, which the offset table adds up a second time), what is on disk is a prefix of the
  image of such clusters, and what is loaded is all of one.
* `TornIndexesRefused`, `AcceptedIndexIsUsable` and `AcceptedIndexHasEveryVector`: a file
  that is accepted is complete, its offset table is monotone from 0 to `num_vecs`, and
  every vector of the input is at exactly one place of it, in the cluster of a nearest
  centroid, with its own quantized components and its own label. The second is the
  offset assumption of `IvfSearch`.

`ApiServerProofs`, for any number of connections, requests, worker threads and lives
(`ServerAssumption`):

* `Invariance`. To the properties it adds where the socket file can stand as main goes
  on (`SocketOfThisLife`: without it a stale file could be the one connected to), that a
  bind stopped by a file follows a failed removal (`BlockedByKept`), that
  nothing is counted and no handler runs before main accepts, that a handler is at a step
  of its own request and carries its own result (`HandlerFits`), that handlers hold a
  thread each (`WorkersSuffice`, which bounds how far the phase counts are apart), and
  that a page's counts are not above those of now (`PageOfThePast`: a page is
  read while the counts go on).
* `StaleSocketIsHarmless`: the socket file is a listener exactly while this life is past
  its bind, whatever an earlier life left, and a leftover file ends a start only when it
  could not be removed. `PhasesAlwaysAccounted`, `PagesFit`, `AnswersFit`, the action
  property `RequestsAnsweredOrClosed`, and `Refinement`: `Spec => RefinesApiProcess`
  (`Stage` changes only in the steps of the start and in `Exit`; all others stutter).

`TimingProofs`, for any number of workers, any increasing bounds, all durations and
however many records (`TimingAssumption`): `NothingLost` speaks only of moments when
no record is under way, so the invariant has its form for every state, `Balance`: what
the counters hold, with what the records under way still owe them, is what was recorded.
The sum over workers that this needs is the cardinality of a set with one pair per
microsecond (`Shares`), as folds are beyond the provers. `AverageIsNeverLow` follows
from the order of the two loads (`LoadsFit`), `QuietReportsAreRight` from a loop
invariant of `pct` (`Cursor`). `ReportsAreClose` is about reports that records overlap: the
running sum of `pct` lies between what the records complete at the beginning and those
complete by now put below the bound (`Layers`, `CloseFits`), so each label reaches its
share of the loaded count, and no earlier one did when the report began.

One more part of `ApiServerProofs` is about `Deployment`, for any servers and clients,
`Rise`, `Fall` and retries and any number of deaths and slow checks (`DeploymentAssumption`):
`SlowChecksForgiven`, with `CreditEarned`: HAProxy's counter is at least what the checks of
this life have earned, and once `Rise` were passed it is the full credit but for one per
check missed in a row.

A third part is about `calibrate_probes`, which is to reach the service's verdicts, for
all probe lists and test data (`CalibrateAssumption`): `PrintedAlwaysServed`, with the
counters being the counts over the entries before `e` (`CountersFit`); `SameThreshold` is
the agreement of the tool's `< 3` with the service's table. The three specifications
stand in one proof module, so `Deployment`'s and `Calibrate`'s have names of their own
(`SiteInit`, `SiteNext`, `SiteSpec`; `CalibrateInit`, `CalibrateNext`, `CalibrateSpec`).

`JsonArrayUnwrapperProofs`, for every array of `Balanced` elements, all texts around it, any
place where the file ends, all buffer sizes, inner reads and interruptions
(`InputAssumption`): `NothingOverwritten`, `OutputAlwaysElements` and `EofIsAlwaysTheEnd`.

* `JoinedRewritten`: in the elements joined by commas the nesting is never negative and is
  0 between elements, so a comma is a separator exactly when it is outside all brackets,
  and the array with those commas as spaces is its meaning (`Rewritten`). The concatenation
  of the elements is a recursive function, and its parts are found again by their ends
  (`StopsExist`, `BetweenStops`).
* `Invariance`. The text has the shape of an array from some place `b` on (`Shaped`), and
  what was handed out depends only on how many symbols have been looked at
  (`Progress`): none before the opening bracket, then one symbol of the meaning for
  each symbol of the array, with `depth` its nesting, and at the end all that the
  text holds. That the write position stays at or behind the read position (`TypeOK`)
  keeps the unread part of the buffer intact (`Unread`), and only therefore is the next
  byte the next of the text.

`VectorizeProofs`, for all requests, positive normalization constants and risk tables
(`RequestsAssumption`): `TypeCorrect` (every component in its range or NaN, but for the
risk, which is the table's; every int8 within -127..127), `NaNsOnlyFromOverflow`, `HistoriesStandApart`,
`OffsetsImmaterial`, `UnreadablesMeanRecent`. The invariant only says that the handler
has what the two functions give for its request; the work is in the lemmas about
division, `clamp` and `quantize` on fractions with infinities and NaN.

`ClassifyProofs`, for every K, `PROBES`, threshold, centroids, files and query
(`ClassifyAssumption`):

* `BruteForceIsRight`. The invariant: after m references `best` has the nearest of the first
  m (`Kept`, `NearestAmong`) and, as soon as it is full, the farthest in front
  (`FirstIsFarthest`: only that entry is compared and replaced); after the last sort
  the nearest in front (`NearestFirst`).
* `RanksTellProbes` and `CausesAreRight`, both for files and an index whose positions
  agree (`Aligned`; elsewhere they fail, see `classify_probe_miss`), from a second invariant, `Judged`: the index in
  memory is that of the file it was built from (`LoadedIndex`), what the search found
  is kept while the brute force runs (`SearchFits`), and every record written is right.
  The argument has three parts. `Layout`: the offsets are the running sums of the
  cluster sizes, so the positions of a cluster are its own vectors and every position is
  in one cluster. `RankAndProbes`: of two arrangements of the same distances, the
  search's and the ranking's, the first `PROBES` clusters differ only by ties.
  `MissMeansUnprobed` and `NearestAmongScanned`: where positions agree, a true neighbour
  that was not scanned lies in a cluster that was not probed, and when all were
  scanned the true neighbours are nearest among the scanned.

`SequenceLemmas` holds what these share: the two forms of induction that the provers can
use (`LeastNat`, `InductiveSet`), minima, and what `FlattenSeq` and `RunningSum`, two
recursive functions, compute (`Flattened`, `SumIsRunning`, `FlattenElement`).

### Only model-checked

* Liveness: `SearchTerminates`, `EndsEventually`, `EveryRequestEnds`, `ServiceRecovers`;
  the prover has no fairness reasoning.
* `LloydNeverWorsens`: it holds where means are exact, as in the run's inputs; the model's
  division rounds down, so it does not hold for all inputs, and the claim for
  floating-point means is not one about this model.

`HeapOrder` of `IvfSearch` is the other way round: proved as a part of `IInv` and in no
configuration, as `RootIsFarthest` is what the code uses of it.

## Not modelled

`cfs_stats` and all formatting, floating-point rounding, vendored crates, scripts and
load tests, CPU and memory limits, the client timeout of HAProxy and the container
health check that goes through it. `mmap` of a file that is rebuilt in place is left out
because the index is built into the image. In `Classify` exact `f32` distances are those
of points of a line.

## What is left

The parts of the repository that keep state are modelled, and the safety properties are
proved but for the one above. A proof of the liveness properties needs a prover with
fairness. Floating-point rounding is the part of the data the models say least about.
