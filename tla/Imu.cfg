SPECIFICATION FairSpec
CONSTANTS
    imu = imu
    ground = ground
    NoUser = NoUser
    c1 = c1
    c2 = c2
    Users <- MCUsers
    Attempts <- MCAttempts
    Callers <- OneCaller
    Sensors <- OneSensor
    Axes <- MCAxes
    Sizes <- MCSizes
    CalSize = 2
    Range = 3
    Stops = TRUE
    Overlaps = FALSE
INVARIANT ImuInv
PROPERTIES ReturnsItsAverage CallsReturn
