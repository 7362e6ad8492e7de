\* The opening limit may change back before it is reported; no interrupt
\* divides a callback.
CONSTANTS
    Preemption = FALSE
    Missable = {"open"}
SPECIFICATION Spec
INVARIANTS
    TypeInvariant
    CountdownMeansAutoClose
    StopsAtEndOfTravel
    UnwatchedStallIsDroppedExpiry
PROPERTIES
    LosesTrackOnlyWhenOvertaken
    ImplementsValve
