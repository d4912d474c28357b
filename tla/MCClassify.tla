----------------------------- MODULE MCClassify -----------------------------
(***************************************************************************)
(* TLC instances of Classify.  With 508 for 1.0 a coordinate is a quarter  *)
(* of an int8 step, so that neighbours fall together and change order when *)
(* quantized.  Query 4 is as far from the first centroid as from the last. *)
(***************************************************************************)
EXTENDS Classify

Vec(x, is_fraud) == [long |-> TRUE, x |-> x, is_fraud |-> is_fraud]
Short == [long |-> FALSE, x |-> 0, is_fraud |-> FALSE]

MCCentroids == <<0, 8, 4>>

Files == [1 .. 4 -> {Vec(0, FALSE), Vec(2, TRUE), Vec(3, FALSE), Vec(7, TRUE), Short}]
Same == {[references |-> f, indexed |-> f] : f \in Files}
\* The index is older than the references.
Older == {[references |-> <<Vec(0, FALSE), Vec(8, TRUE)>>, indexed |-> <<Vec(8, TRUE)>>],
          [references |-> <<Vec(8, TRUE)>>, indexed |-> <<Vec(0, FALSE), Vec(8, TRUE)>>]}
MCData == Same \cup Older

Line(x, expected) == [ok |-> TRUE, request_ok |-> TRUE, x |-> x, expected_approved |-> expected]
BadLine == [ok |-> FALSE, request_ok |-> FALSE, x |-> 0, expected_approved |-> TRUE]
NoRequest == [ok |-> TRUE, request_ok |-> FALSE, x |-> 0, expected_approved |-> TRUE]

MCMismatches ==
    {<<Line(x, e)>> : x \in {1, 4, 6}, e \in BOOLEAN}
    \cup {<<BadLine, Line(2, FALSE), NoRequest>>, <<Line(3, TRUE), Line(6, FALSE)>>}
=============================================================================
