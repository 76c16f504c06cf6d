SPECIFICATION FairSpec
CONSTANTS
    Window = 2
    WordSize = 1
    Pulses = 1
    Emits = {0}
    Capacity = 1
    MarkCount = 2
    SpaceCount = 1
INVARIANTS TypeOK MeasuresBetweenWords DeafOnlyWhileSending ListeningResumes
PROPERTIES PushedAsSent SamplesInTheDark WordsEnd
