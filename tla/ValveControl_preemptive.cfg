\* The firmware as it is scheduled: work items may preempt a command.
CONSTANT Preemption = TRUE
SPECIFICATION Spec
INVARIANTS
    TypeInvariant
    AutoCloseFlagIsFresh
    CountdownMeansAutoClose
    StopsAtEndOfTravel
    UnwatchedStallIsDroppedCountdown
PROPERTIES
    LosesTrackOnlyWhenOvertaken
    ImplementsValve
