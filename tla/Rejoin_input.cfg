\* The firmware: user input at any time, resets by report.
CONSTANTS
    InputDuringAttempt = TRUE
    ReportsPerReset = 3
    MaxFaults = 3
SPECIFICATION FairSpec
INVARIANTS
    TypeInvariant
    ProcedureHasDeadline
    RetriesDoNotPileUp
    JoinedIsSettled
PROPERTIES
    StrandedOnlyByInput
    RetriesRegularly
