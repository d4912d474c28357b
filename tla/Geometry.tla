------------------------------ MODULE Geometry ------------------------------
(***************************************************************************)
(* Vectors as points of a line: all 14 components of a vector are equal,   *)
(* and a coordinate x stands for the f32 x/Unit.  Distances and int8       *)
(* conversions of buildindex.rs and classify_mismatches.rs on such points. *)
(***************************************************************************)
EXTENDS Integers

CONSTANT Unit        \* the coordinate that stands for 1.0

ASSUME UnitAssumption == Unit \in Nat \ {0}

Abs(a) == IF a < 0 THEN -a ELSE a

\* squared_euclidean; the factor 14 changes no comparison.
SqDist(a, b) == (a - b) * (a - b)

\* nearest_centroid: the first of the closest.
Nearest(x, cs) ==
    CHOOSE c \in DOMAIN cs : \A d \in DOMAIN cs :
        \/ SqDist(x, cs[c]) < SqDist(x, cs[d])
        \/ SqDist(x, cs[c]) = SqDist(x, cs[d]) /\ c <= d

Clamp127(r) == IF r > 127 THEN 127 ELSE IF r < -127 THEN -127 ELSE r

\* f32::round of x/Unit * 127: half away from zero.
Rounded(x) ==
    LET r == (2 * Abs(x) * 127 + Unit) \div (2 * Unit) IN IF x < 0 THEN -r ELSE r
\* quantize_scalar of buildindex, quantize of search.rs
Quantize(x) == Clamp127(Rounded(x))

\* quantize of classify_mismatches: the cast to i8 drops the fraction.
Truncated(x) ==
    LET t == (Abs(x) * 127) \div Unit IN Clamp127(IF x < 0 THEN -t ELSE t)
=============================================================================
