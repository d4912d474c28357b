-------------------------------- MODULE Sums --------------------------------
(* The sums that a loop over n numbers leaves in its accumulator.          *)
EXTENDS Integers

\* The sums of the first k of n numbers, for k = 0 .. n.
RunningSum(n, x) ==
    LET sum[k \in 0 .. n] == IF k = 0 THEN 0 ELSE sum[k - 1] + x[k] IN sum
=============================================================================
