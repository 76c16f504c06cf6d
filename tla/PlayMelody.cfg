SPECIFICATION FairSpec
CONSTANTS
    c1 = c1
    c2 = c2
    m1 = m1
    m2 = m2
    Callers <- MCCallers
    Tracks <- MCTracks
    Notes <- MCNotes
    NoTrack = NoTrack
    NoCaller = NoCaller
INVARIANTS TypeOK Handover MutexDiscipline
PROPERTIES SilentWhenWaitEnds ImplementsService MelodyEnds
CHECK_DEADLOCK FALSE
