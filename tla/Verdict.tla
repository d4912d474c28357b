------------------------------ MODULE Verdict ------------------------------
(* How fraud_score of main.rs turns the frauds among K neighbours into one *)
(* of six canned answers.                                                  *)
EXTENDS Integers

\* The k that fraud_score asks search for.
K == 5

ApprovedAtMost(n) == n <= 3
\* The "approved" of the six canned bodies.
Approved(n) == n \in {0, 1, 2}

\* RESPONSES[n]; the score in tenths.
RESPONSES(n) == [approved |-> Approved(n), fraud_score |-> 2 * n]
=============================================================================
