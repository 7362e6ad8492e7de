\* Every reading is reached by drifting by one, for each value of the counter.
CONSTANTS
    Drift = 1
    Supplies <- MCSupplies
SPECIFICATION Spec
INVARIANTS
    TypeInvariant
    PercentageInRange
PROPERTIES
    FollowsBattery
