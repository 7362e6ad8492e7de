\* Between two resets by report, no user input while an attempt is under way.
CONSTANTS
    InputDuringAttempt = FALSE
    ReportsPerReset = 0
    MaxFaults = 2
SPECIFICATION FairSpec
INVARIANTS
    NeverStranded
PROPERTIES
    ImplementsFairSearch
