SPECIFICATION FairSpec
CONSTANTS
    NULL = NULL
    spi = spi
    c1 = c1
    c2 = c2
    Clients <- OneClient
    Oversize = FALSE
    Errors = TRUE
INVARIANTS CameraInv OneCaptureAtATime
PROPERTIES KeepsHeld GivenIsLast CallsEnd
\* the robot stops when an assertion fails
CHECK_DEADLOCK FALSE
