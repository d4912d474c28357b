SPECIFICATION CalibrateSpec
CONSTANTS
    ProbeValues <- MCProbeValues
    TestData <- MCTestData
CHECK_DEADLOCK FALSE
INVARIANT PrintedIsWhatIsServed
