SPECIFICATION FairSpec
CONSTANTS
    c1 = c1
    c2 = c2
    f1 = f1
    f2 = f2
    f3 = f3
    Callers <- MCCallers
    Tracks <- LongTrack
    NoTrack = NoTrack
    NoCaller = NoCaller
    Size = 4
    Samples <- MCSamples
    Options <- WithStops
    CardFails = TRUE
    CardSlow = TRUE
PROPERTY RestsOrHangs
CHECK_DEADLOCK FALSE
