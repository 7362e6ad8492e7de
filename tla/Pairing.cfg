\* The code's times in ticks of 500 ms: 3 s, 10 s, 1.5 s, 0.5 s.
CONSTANTS
    Hold = 6
    BlinkTime = 20
    PairingBuzz = 3
    IdentifyBuzz = 1
SPECIFICATION FairSpec
INVARIANTS
    TypeInvariant
    LitLedIsBlinking
    BuzzerIsTimed
PROPERTIES
    ResetNeedsHold
    BlinkingEnds
