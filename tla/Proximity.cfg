SPECIFICATION FairSpec
CONSTANTS
    Couples = 4
    CalSamples = 3
    Modes <- Both
    CalibratesStopped = FALSE
INVARIANT ProximityInv
PROPERTIES MeasuresAreRight CallsEnd
