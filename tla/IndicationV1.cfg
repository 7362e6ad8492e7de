\* One other button is enough: all of them act on the long push alike.
CONSTANTS
    Preemption = TRUE
    Switch = {"limit"}
SPECIFICATION FairSpec
INVARIANTS
    TypeInvariant
    LongPushIsHeld
    BuzzerIsHeard
    DirectedBlinks
PROPERTIES
    PairingEnds
