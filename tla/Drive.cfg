SPECIFICATION FairDriveSpec
CONSTANTS
    u1 = u1
    u2 = u2
    left = left
    right = right
    None = None
    Users <- OneUser
    Motors <- MCMotors
    Speeds <- MCSpeeds
    Forces <- MCForces
    Limit = 2
    Thresv = 3
    TimerFreq = 12
    Idle = 5
    Full = 20
    Preempts = FALSE
INVARIANT DriveInv
PROPERTY StandsStill
