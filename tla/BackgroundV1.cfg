\* Three versions for an offer that is newer, older and in between.
CONSTANTS
    Readings <- MCReadings
    Version = {1, 2, 3}
    Blocks = 2
SPECIFICATION Spec
INVARIANTS
    TypeInvariant
    ReportIsClose
PROPERTIES
    FallNeverShowsRise
    NoDowngrade
    ActivatesFirstAccepted
