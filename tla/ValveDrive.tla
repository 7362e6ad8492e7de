----------------------------- MODULE ValveDrive -----------------------------
(***************************************************************************)
(* What the motor control of either firmware promises of the valve,        *)
(* whatever its flags, timers and threads do.  The drive turns only while  *)
(* the motor is on, in its direction; the motor is never switched on       *)
(* toward an end the drive is at; and a motor left driving against its end *)
(* with the handle at rest at an end is switched off.  Anybody may turn    *)
(* the handle, and the motor may be switched off at any time.              *)
(***************************************************************************)
EXTENDS Naturals

Position  == {"closed", "mid", "open"}
Direction == {"closed", "open"}

VARIABLES
    gear,       \* position of the drive
    handle,     \* position of the handle
    motor       \* the direction the motor is driven in, or "rest"

vars == <<gear, handle, motor>>

Adjacent(p, q) == p # q /\ "mid" \in {p, q}
Toward(p, dir) == IF p = "mid" THEN dir ELSE "mid"

Init ==
    /\ gear \in Position
    /\ handle \in Position
    /\ motor = "rest"

TurnHandle ==
    /\ \E p \in Position : Adjacent(handle, p) /\ handle' = p
    /\ UNCHANGED <<gear, motor>>

\* The motor moves the drive one position, and may push the handle along.
Travel(dir) ==
    /\ motor = dir
    /\ gear # dir
    /\ gear' = Toward(gear, dir)
    /\ \/ handle # dir /\ handle' = Toward(handle, dir)
       \/ handle' = handle
    /\ UNCHANGED motor

Start(dir) ==
    /\ motor # dir
    /\ gear # dir
    /\ motor' = dir
    /\ UNCHANGED <<gear, handle>>

Stop ==
    /\ motor # "rest"
    /\ motor' = "rest"
    /\ UNCHANGED <<gear, handle>>

\* The stop the limit switches are there for.
StopAtEnd(dir) ==
    /\ motor = dir
    /\ gear = dir
    /\ handle # "mid"
    /\ Stop

Next ==
    \/ TurnHandle
    \/ Stop
    \/ \E dir \in Direction : Travel(dir) \/ Start(dir)

Spec == Init /\ [][Next]_vars

FairSpec == Spec /\ \A dir \in Direction : WF_vars(StopAtEnd(dir))
=============================================================================
