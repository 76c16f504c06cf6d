SPECIFICATION Spec
CONSTANTS
    c1 = c1
    c2 = c2
    m1 = m1
    m2 = m2
    Callers <- MCCallers
    Tracks <- OneTrack
    Notes <- MCNotes
    NoTrack = NoTrack
    NoCaller = NoCaller
PROPERTY IgnoredOrderKeepsStop
CHECK_DEADLOCK FALSE
