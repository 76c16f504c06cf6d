SPECIFICATION Spec
CONSTANTS
    m1 = m1
    m2 = m2
    Messages <- MCMessages
    NoMessage = NoMessage
    Capacity = 3
INVARIANT RingConsistent
PROPERTIES ImplementsQueue
