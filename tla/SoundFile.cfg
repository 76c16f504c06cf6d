SPECIFICATION Spec
CONSTANTS
    c1 = c1
    c2 = c2
    f1 = f1
    f2 = f2
    f3 = f3
    Callers <- MCCallers
    Tracks <- AllTracks
    NoTrack = NoTrack
    NoCaller = NoCaller
    Size = 4
    Samples <- MCSamples
    Options <- AllOptions
    CardFails = FALSE
    CardSlow = FALSE
INVARIANTS TypeOK AtRest
PROPERTIES FillsTheOtherBuffer PlaysWholeFile
CHECK_DEADLOCK FALSE
