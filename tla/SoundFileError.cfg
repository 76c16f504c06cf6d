SPECIFICATION Spec
CONSTANTS
    c1 = c1
    c2 = c2
    f1 = f1
    f2 = f2
    f3 = f3
    Callers <- OneCaller
    Tracks <- LongTrack
    NoTrack = NoTrack
    NoCaller = NoCaller
    Size = 4
    Samples <- MCSamples
    Options <- JustPlay
    CardFails = TRUE
    CardSlow = FALSE
INVARIANT QuietAtRest
CHECK_DEADLOCK FALSE
