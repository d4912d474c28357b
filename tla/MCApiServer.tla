---------------------------- MODULE MCApiServer ----------------------------
(***************************************************************************)
(* TLC instances of ApiServer: one request of each kind, and the two fraud *)
(* counts on either side of the threshold.                                 *)
(***************************************************************************)
EXTENDS ApiServer, TLC

MCBodies == {"check", "page", "junk", "boom", "two", "three"}
MCKind == [check |-> "ready", page |-> "metrics", junk |-> "malformed", boom |-> "panic",
           two |-> "score", three |-> "score"]
MCFrauds == [check |-> 0, page |-> 0, junk |-> 0, boom |-> 0, two |-> 2, three |-> 3]
MCOutcome == [b \in Bodies |-> [kind |-> MCKind[b], frauds |-> MCFrauds[b]]]

\* For liveness: the requests that hold a worker to the end, or lose it.
MCBodiesLive == {"boom", "three", "page"}

ConnSymmetry == Permutations(Conns)
=============================================================================
