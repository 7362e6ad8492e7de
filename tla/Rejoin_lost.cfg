\* The firmware: user input at any time, resets by report.
CONSTANTS
    InputDuringAttempt = TRUE
    ReportsPerReset = 3
    MaxFaults = 0
SPECIFICATION Spec
INVARIANTS
    NeverStranded
