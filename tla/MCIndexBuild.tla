---------------------------- MODULE MCIndexBuild ----------------------------
(***************************************************************************)
(* TLC instances of IndexBuild.  Coordinates are multiples of 12, so the   *)
(* mean of up to four of them is exact; 24 is 1.0 and 36 is out of range.  *)
(***************************************************************************)
EXTENDS IndexBuild, TLC

Ref(x, label) == [ok |-> TRUE, long |-> TRUE, x |-> x, label |-> label]
Short == [ok |-> TRUE, long |-> FALSE, x |-> 0, label |-> "legit"]
Broken == [ok |-> FALSE, long |-> FALSE, x |-> 0, label |-> "legit"]

\* Spread out, with duplicates (an empty cluster), with a short vector, one that
\* breaks off, and one without a vector.
MCReferences ==
    { <<Ref(0, "legit"), Ref(36, "fraud"), Ref(12, "fraud"), Ref(-24, "legit")>>,
      <<Ref(12, "legit"), Ref(12, "fraud"), Short, Ref(24, "fraud")>>,
      <<Ref(0, "legit"), Ref(24, "fraud"), Broken>>,
      <<Short>> }
=============================================================================
