---------------------------- MODULE MCCalibrate ----------------------------
(* Two probe counts; up to two entries with fraud counts around the        *)
(* threshold of 3 that may differ between the probe counts.                *)
EXTENDS Calibrate

MCProbeValues == <<5, 75>>
Entry ==
    [expected_approved : BOOLEAN, parses : {TRUE}, frauds : [{5, 75} -> {2, 3}]]
    \cup [expected_approved : {TRUE}, parses : {FALSE}, frauds : [{5, 75} -> {0}]]
    \cup [expected_approved : BOOLEAN, parses : {TRUE}, frauds : [{5, 75} -> {0, 5}]]
MCTestData == {<<>>} \cup {<<a>> : a \in Entry} \cup {<<a, b>> : a, b \in Entry}
=============================================================================
