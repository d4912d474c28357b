----------------------------- MODULE Calibrate -----------------------------
(***************************************************************************)
(* calibrate_probes: for each probe count of a list, search all entries of *)
(* the test data and count the verdicts that differ from the expected one. *)
(* What the search finds at a probe count is a CONSTANT (see IvfSearch);   *)
(* the service's own verdict is RESPONSES of Verdict.                      *)
(***************************************************************************)
EXTENDS Integers, Sequences, FiniteSets, Verdict

CONSTANTS
    ProbeValues, \* probe_values, [75] as deployed
    TestData     \* the possible test-data.json: sequences of entries

\* An entry: the expected verdict, and how many frauds the search finds for its
\* request at each probe count; a request may also not parse.
ASSUME CalibrateAssumption ==
    /\ ProbeValues \in Seq(Nat)
    /\ \A d \in TestData : d \in
          Seq([expected_approved : BOOLEAN, parses : BOOLEAN,
               frauds : [{ProbeValues[p] : p \in DOMAIN ProbeValues} -> 0 .. K]])

VARIABLES
    pc, entries,
    p, e,            \* indices of the loops over probe values and queries
    mismatches, false_positives, false_negatives,
    printed          \* per probe value, the result line and whether SUCCESS followed

counters == <<mismatches, false_positives, false_negatives>>
calibration == <<pc, entries, p, e, counters, printed>>

CalibrateInit ==
    /\ pc = "vectorize"
    /\ entries \in TestData
    /\ p = 1 /\ e = 1
    /\ mismatches = 0 /\ false_positives = 0 /\ false_negatives = 0
    /\ printed = <<>>

\* All requests are parsed and vectorized before the first search; unwrap panics.
PreVectorize ==
    /\ pc = "vectorize"
    /\ pc' = IF \A i \in DOMAIN entries : entries[i].parses THEN "load" ELSE "panicked"
    /\ UNCHANGED <<entries, p, e, counters, printed>>

\* let mut mismatches = 0 .. inside the loop over the probe values
Reset == mismatches' = 0 /\ false_positives' = 0 /\ false_negatives' = 0

\* The index is loaded anew for every probe value.
LoadIndex ==
    /\ pc = "load" /\ p <= Len(ProbeValues)
    /\ pc' = "search"
    /\ e' = 1
    /\ Reset
    /\ UNCHANGED <<entries, p, printed>>

\* A file that is missing or refused: unwrap panics, after the lines already printed.
FileMissing ==
    /\ pc = "vectorize" \/ (pc = "load" /\ p <= Len(ProbeValues))
    /\ pc' = "panicked"
    /\ UNCHANGED <<entries, p, e, counters, printed>>

ApprovedAtThree(fraud_count) == fraud_count <= 3
\* let approved = fraud_count < 3
approved(fraud_count) == fraud_count < 3

SearchEntry ==
    /\ pc = "search"
    /\ e <= Len(entries)
    /\ LET wrong == approved(entries[e].frauds[ProbeValues[p]]) # entries[e].expected_approved
       IN  /\ mismatches' = mismatches + IF wrong THEN 1 ELSE 0
           /\ false_positives' =
                 false_positives + IF wrong /\ entries[e].expected_approved THEN 1 ELSE 0
           /\ false_negatives' =
                 false_negatives + IF wrong /\ ~ entries[e].expected_approved THEN 1 ELSE 0
    /\ e' = e + 1
    /\ UNCHANGED <<pc, entries, p, printed>>

\* The result line, SUCCESS when nothing differed, and the next probe value.
PrintResult ==
    /\ pc = "search"
    /\ e > Len(entries)
    /\ printed' = Append(printed, [success |-> mismatches = 0, mismatches |-> mismatches,
                                   fp |-> false_positives, fn |-> false_negatives])
    /\ p' = p + 1
    /\ pc' = "load"
    /\ UNCHANGED <<entries, e, counters>>

CalibrateNext == PreVectorize \/ FileMissing \/ LoadIndex \/ SearchEntry \/ PrintResult

CalibrateSpec == CalibrateInit /\ [][CalibrateNext]_calibration

----------------------------------------------------------------------------
\* The service's answer to entry i at a probe count.
Served(i, probes) == RESPONSES(entries[i].frauds[probes]).approved

\* The entries among S with that expectation which the service would answer otherwise.
WrongAmong(S, probes, expected) ==
    {i \in S : entries[i].expected_approved = expected /\ Served(i, probes) # expected}

\* What is printed for a probe count is what the service would do when deployed with
\* it: SUCCESS exactly when it would answer every entry as expected, the false
\* positives the legitimate ones it would deny, the false negatives the frauds it
\* would approve.  The tool has a threshold of its own and the service a table.
PrintedIsWhatIsServed ==
    \A n \in DOMAIN printed :
        LET denied == WrongAmong(DOMAIN entries, ProbeValues[n], TRUE)
            passed == WrongAmong(DOMAIN entries, ProbeValues[n], FALSE)
        IN  /\ printed[n].success <=> denied \cup passed = {}
            /\ printed[n].fp = Cardinality(denied)
            /\ printed[n].fn = Cardinality(passed)
            /\ printed[n].mismatches = printed[n].fp + printed[n].fn
=============================================================================
