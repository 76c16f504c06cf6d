------------------------------- MODULE I2cBus -------------------------------
(***************************************************************************)
(* The I2C bus of the sensors and of the camera (i2c_bus.c): what a thread *)
(* does to the driver I2CD1 and to the mutex of the bus in one access.     *)
(* left[u] is the number of attempts the access of the thread u has left:  *)
(* the driver of the IMU tries its other address when the first fails.     *)
(***************************************************************************)
EXTENDS Integers

CONSTANTS Users, NoUser,
          Attempts      \* Attempts[u]: how often u tries to read

ASSUME NoUserAssumption == NoUser \notin Users
ASSUME AttemptsAssumption == Attempts \in [Users -> Nat \ {0}]

VARIABLES bus,      \* I2CD1.state
          owner,    \* the thread that holds the mutex of the bus
          at, left

i2c == <<bus, owner, at, left>>

I2cTypeOK ==
    /\ bus \in {"stop", "ready", "active"}
    /\ owner \in Users \union {NoUser}
    /\ at \in [Users -> {"rest", "take", "transfer", "restart", "got", "failed"}]
    /\ left \in [Users -> Nat]

I2cInit ==
    /\ bus = "ready" /\ owner = NoUser
    /\ at = [u \in Users |-> "rest"]
    /\ left = [u \in Users |-> 0]

Moves(u, from, to) == at[u] = from /\ at' = [at EXCEPT ![u] = to]

Access(u) ==
    /\ Moves(u, "rest", "take")
    /\ left' = [left EXCEPT ![u] = Attempts[u]]
    /\ UNCHANGED <<bus, owner>>

\* i2cAcquireBus; a read of a stopped bus returns MSG_OK
Take(u) ==
    /\ owner = NoUser
    /\ Moves(u, "take", IF bus = "stop" THEN "got" ELSE "transfer")
    /\ owner' = IF bus = "stop" THEN NoUser ELSE u
    /\ bus' = IF bus = "stop" THEN bus ELSE "active"
    /\ UNCHANGED left

Transferred(u) ==
    /\ Moves(u, "transfer", "got")
    /\ left' = [left EXCEPT ![u] = 0]
    /\ bus' = "ready" /\ owner' = NoUser

Fails(u) == IF left[u] > 1 THEN "take" ELSE "failed"

NotAcknowledged(u) ==
    /\ Moves(u, "transfer", Fails(u))
    /\ left' = [left EXCEPT ![u] = @ - 1]
    /\ bus' = "ready" /\ owner' = NoUser

\* mutant: the bus is released before it is started again
TimedOutReleases(u) ==
    /\ Moves(u, "transfer", "restart")
    /\ bus' = "stop" /\ owner' = NoUser
    /\ UNCHANGED left

\* I2C_LOCKED: i2c_stop, and the 32 ms of i2c_start
TimedOut(u) ==
    /\ Moves(u, "transfer", "restart")
    /\ bus' = "stop"
    /\ UNCHANGED <<owner, left>>

\* mutant: a bus that was started again is tried again
RestartedRetries(u) ==
    /\ Moves(u, "restart", "take")
    /\ bus' = "ready" /\ owner' = NoUser
    /\ UNCHANGED left

Restarted(u) ==
    /\ Moves(u, "restart", Fails(u))
    /\ left' = [left EXCEPT ![u] = @ - 1]
    /\ bus' = "ready" /\ owner' = NoUser

AccessStep(u) == Take(u) \/ Transferred(u) \/ NotAcknowledged(u) \/ TimedOut(u) \/ Restarted(u)
=============================================================================
