\* Every switch reported before it changes back, and callbacks that no
\* interrupt divides.
CONSTANTS
    Preemption = FALSE
    Missable = {}
SPECIFICATION Spec
INVARIANT PairingIsTimed
