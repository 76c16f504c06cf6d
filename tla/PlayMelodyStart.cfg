SPECIFICATION Spec
CONSTANTS
    c1 = c1
    c2 = c2
    m1 = m1
    m2 = m2
    Callers <- OneCaller
    Tracks <- OneTrack
    Notes <- MCNotes
    NoTrack = NoTrack
    NoCaller = NoCaller
INVARIANT NotStartedDoesNothing
CHECK_DEADLOCK FALSE
