---------------------------- MODULE IndexLayout ----------------------------
(***************************************************************************)
(* The byte layout of the index file, twice: as Searcher::load computes it *)
(* from the header (offsets), and as write_index produces it (the sizes of *)
(* the sections it writes one after the other).                            *)
(***************************************************************************)
EXTENDS Integers

DIMS == 14
HeaderBytes == 32

\* Searcher::load: where it looks for each section.
CentOff == 32
OffsetOff(num_cents) == CentOff + num_cents * DIMS * 4
VecOff(num_cents) == OffsetOff(num_cents) + (num_cents + 1) * 8
LabelOff(num_cents, num_vecs) == VecOff(num_cents) + num_vecs * DIMS

\* The length below which load refuses a file.
NeededUpToLabels(num_cents, num_vecs) == LabelOff(num_cents, num_vecs)
Needed(num_cents, num_vecs) == LabelOff(num_cents, num_vecs) + num_vecs

\* write_index: how many bytes each section takes.
CentroidBytes(num_cents) == num_cents * DIMS * 4
OffsetBytes(num_cents) == (num_cents + 1) * 8
VectorBytes(num_vecs) == num_vecs * DIMS
LabelBytes(num_vecs) == num_vecs
=============================================================================
