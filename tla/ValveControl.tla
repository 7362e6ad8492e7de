---------------------------- MODULE ValveControl ----------------------------
(***************************************************************************)
(* The motor and valve control of the V2.24 firmware (nRF Connect SDK):    *)
(* main.c together with the debounced switches of buttons.c and the motor  *)
(* driver of pwm.c.                                                        *)
(*                                                                         *)
(* A geared motor turns a drive; two limit switches (button_open and       *)
(* button_close) tell when the drive is at an end, two more (control1 and  *)
(* control2) when the handle of the ball valve is open or closed.  The     *)
(* drive pushes the handle, and a person may turn the handle at any time.  *)
(*                                                                         *)
(* Two threads run the code.  The system work queue runs the debounce      *)
(* expiries and the two timers, one handler at a time and never            *)
(* interrupted by the other thread (its priority is cooperative).  The     *)
(* ZBOSS thread runs zcl_device_cb; the work queue preempts it between any *)
(* two of its assignments, so a command is a sequence of steps here.  A    *)
(* command takes microseconds and the shortest delay is 50 ms, so only     *)
(* what was pending when the command began can become due inside it, and   *)
(* no switch moves.  Otherwise time is not modelled: what is pending runs  *)
(* in any order.                                                           *)
(***************************************************************************)
EXTENDS Naturals, FiniteSets

CONSTANT
    Preemption  \* may a work item become due while zcl_device_cb runs?
                \* TRUE is the firmware; FALSE is the assumption that none
                \* does in the microseconds a command takes.

ASSUME PreemptionAssumption == Preemption \in BOOLEAN

Position  == {"closed", "mid", "open"}
Direction == {"closed", "open"}
Pin       == {"open", "close", "control1", "control2"}

WorkItem  == Pin \cup {"fail", "pairing"}

\* The two delayable work items, by what each is armed for.
FailTimer    == {"off", "countdown", "fault"}   \* 10 s auto-close, 60 s motor
PairingTimer == {"off", "restore", "pairing"}   \* 2 s restore, 60 s pairing

VARIABLES
    gear,       \* position of the drive
    handle,     \* position of the handle
    cooldown,   \* pins with a 50 ms debounce pending
    fw,         \* the firmware's flags, timers, motor outputs and attribute
    zboss       \* the ZBOSS thread: where it is in a command, which one, and
                \* the work items that may still become due during it

vars == <<gear, handle, cooldown, fw, zboss>>

FirmwareState ==
    [ nsleep: BOOLEAN, phase: BOOLEAN, enable: BOOLEAN,
      motor_working: BOOLEAN,
      moving_to_open: BOOLEAN, moving_to_close: BOOLEAN,
      double_click_awaiting: BOOLEAN,
      full_press_flag: BOOLEAN,
      logic_need_to_be_restored: BOOLEAN,
      need_to_auto_close_flag: BOOLEAN,
      fail_timer: FailTimer, pairing_timer: PairingTimer,
      on_off: BOOLEAN ]

ZbossState ==
    [ pc: {"idle", "mark", "wake", "phase", "enable", "arm", "logic"},
      dir: Direction, logic: BOOLEAN, due: SUBSET WorkItem ]

-----------------------------------------------------------------------------
(* The switches, read as the code reads them: by their level now.          *)

Level(pin) ==
    \/ pin = "open"     /\ gear = "open"
    \/ pin = "close"    /\ gear = "closed"
    \/ pin = "control1" /\ handle = "open"
    \/ pin = "control2" /\ handle = "closed"

open_pressed     == Level("open")
close_pressed    == Level("close")
control1_pressed == Level("control1")
control2_pressed == Level("control2")

-----------------------------------------------------------------------------
(* The functions of pwm.c and main.c, each from the firmware state it      *)
(* finds to the state it leaves.                                           *)

motor_sleep(f) ==
    [f EXCEPT !.nsleep = FALSE, !.phase = FALSE, !.enable = FALSE]

\* Mutants: the timer is armed for the wrong purpose, or not at all.
drive_with_wrong_timer(f, dir) ==
    [f EXCEPT !.motor_working = TRUE, !.fail_timer = "pairing"]
drive_without_timer(f, dir) ==
    [f EXCEPT !.motor_working = TRUE,
              !.nsleep = TRUE, !.phase = dir = "closed", !.enable = dir = "open"]

drive_with_timer(f, dir) ==
    [f EXCEPT !.motor_working = TRUE,
              !.nsleep = TRUE, !.phase = dir = "closed", !.enable = dir = "open",
              !.fail_timer = "fault"]

\* Mutant: the driver is left awake.
stop_motor_stays_awake(f) ==
    [f EXCEPT !.motor_working = FALSE, !.fail_timer = "off",
              !.full_press_flag = FALSE]

\* The body the end-of-travel events share.
stop_motor(f) ==
    [motor_sleep(f) EXCEPT !.motor_working = FALSE, !.fail_timer = "off",
                           !.full_press_flag = FALSE]

\* What valve_open_close_handler decides from the switches: whether to act,
\* the direction, and the value it gives logic_need_to_be_restored.
Drive(dir, logic) == [act |-> TRUE,  dir |-> dir,      logic |-> logic]
Ignore            == [act |-> FALSE, dir |-> "closed", logic |-> FALSE]

OpenDecision ==
    IF      close_pressed /\ control2_pressed THEN Drive("open", FALSE)
    ELSE IF open_pressed  /\ control2_pressed THEN Drive("closed", TRUE)
    ELSE IF ~open_pressed                     THEN Drive("open", FALSE)
    ELSE Ignore

\* Mutant: the last branch drives on toward the end already reached.
CloseDecisionIntoLimit ==
    IF      open_pressed  /\ control1_pressed THEN Drive("closed", FALSE)
    ELSE IF ~control1_pressed /\ ~control2_pressed THEN Drive("closed", FALSE)
    ELSE Ignore

CloseDecision ==
    IF      open_pressed  /\ control1_pressed THEN Drive("closed", FALSE)
    ELSE IF close_pressed /\ control1_pressed THEN Drive("open", TRUE)
    ELSE IF ~close_pressed                    THEN Drive("closed", FALSE)
    ELSE IF ~control1_pressed /\ ~control2_pressed THEN Drive("open", TRUE)
    ELSE Ignore

Decision(to) == IF to = "open" THEN OpenDecision ELSE CloseDecision

valve_open_close_handler(f, to) ==
    LET d == Decision(to)
    IN  IF d.act
        THEN [drive_with_timer(f, d.dir) EXCEPT !.logic_need_to_be_restored = d.logic]
        ELSE f

\* Mutants: the flag is not cleared at an end; it is not set in between.
check_keeps_flag(f) ==
    IF control1_pressed \/ control2_pressed
    THEN [f EXCEPT !.fail_timer = "off", !.on_off = control1_pressed]
    ELSE [f EXCEPT !.fail_timer = "countdown", !.need_to_auto_close_flag = TRUE]
check_arms_only(f) ==
    IF control1_pressed \/ control2_pressed
    THEN [f EXCEPT !.need_to_auto_close_flag = FALSE, !.fail_timer = "off",
                   !.on_off = control1_pressed]
    ELSE [f EXCEPT !.fail_timer = "countdown"]

check_valve_on_off_status_and_set_attr(f) ==
    LET double  == f.logic_need_to_be_restored /\ f.motor_working
        settled == [f EXCEPT !.need_to_auto_close_flag = FALSE,
                             !.fail_timer = "off",
                             !.on_off = control1_pressed,
                             !.double_click_awaiting = @ \/ double]
    IN  IF      control1_pressed THEN [settled EXCEPT !.moving_to_open = @ \/ double]
        ELSE IF control2_pressed THEN [settled EXCEPT !.moving_to_close = @ \/ double]
        ELSE [f EXCEPT !.fail_timer = "countdown", !.need_to_auto_close_flag = TRUE]

-----------------------------------------------------------------------------
(* button_event_handler, by event.                                         *)

\* Mutant: a limit reached with the handle between its ends is forgotten.
gear_end_forgotten(f) ==
    IF control1_pressed \/ control2_pressed THEN stop_motor(f) ELSE f

\* BUTTON_OPEN_EVT_PRESSED and BUTTON_CLOSE_EVT_PRESSED.
gear_end_reached(f) ==
    IF control1_pressed \/ control2_pressed
    THEN stop_motor(f)
    ELSE [f EXCEPT !.full_press_flag = TRUE]

\* BUTTON_CONTROL_1_EVT_PRESSED and BUTTON_CONTROL_2_EVT_PRESSED.
control_pressed(f) ==
    check_valve_on_off_status_and_set_attr(
        IF f.full_press_flag THEN stop_motor(f) ELSE f)

\* BUTTON_CONTROL_1_EVT_RELEASED and BUTTON_CONTROL_2_EVT_RELEASED.
control_released(f) ==
    IF f.logic_need_to_be_restored /\ f.double_click_awaiting
    THEN [motor_sleep(f) EXCEPT !.double_click_awaiting = FALSE,
                                !.pairing_timer = "restore"]
    ELSE check_valve_on_off_status_and_set_attr(f)

button_event_handler(f, pin, pressed) ==
    IF pin \in {"open", "close"}
    THEN IF pressed THEN gear_end_reached(f) ELSE f
    ELSE IF pressed THEN control_pressed(f) ELSE control_released(f)

-----------------------------------------------------------------------------
(* Initial state: power-on or reset, with the mechanics anywhere.          *)

FirmwareInit ==
    [ nsleep |-> FALSE, phase |-> FALSE, enable |-> FALSE,
      motor_working |-> FALSE,
      moving_to_open |-> FALSE, moving_to_close |-> FALSE,
      double_click_awaiting |-> FALSE,
      full_press_flag |-> FALSE,
      logic_need_to_be_restored |-> FALSE,
      need_to_auto_close_flag |-> FALSE,
      fail_timer |-> "off", pairing_timer |-> "off",
      on_off |-> FALSE ]

ZbossIdle == [pc |-> "idle", dir |-> "closed", logic |-> FALSE, due |-> {}]

Init ==
    /\ gear \in Position
    /\ handle \in Position
    /\ cooldown = {}
    /\ fw = FirmwareInit
    /\ zboss = ZbossIdle

-----------------------------------------------------------------------------
(* The mechanics: external to the firmware, and free to jam.  They are     *)
(* slow: nothing moves in the microseconds of a command.                   *)

Adjacent(p, q) == p # q /\ "mid" \in {p, q}
Toward(p, dir) == IF p = "mid" THEN dir ELSE "mid"

\* Pins whose level differs between two positions of drive and handle: each
\* edge runs button_pressed, which restarts the debounce of its pin.
Edges(g, h, g2, h2) ==
    {pin \in Pin :
        \/ pin = "open"     /\ (g = "open") # (g2 = "open")
        \/ pin = "close"    /\ (g = "closed") # (g2 = "closed")
        \/ pin = "control1" /\ (h = "open") # (h2 = "open")
        \/ pin = "control2" /\ (h = "closed") # (h2 = "closed")}

Move(g2, h2) ==
    /\ zboss.pc = "idle"
    /\ gear' = g2
    /\ handle' = h2
    /\ cooldown' = cooldown \cup Edges(gear, handle, g2, h2)
    /\ UNCHANGED <<fw, zboss>>

\* The bridge turns the motor when it is awake and its inputs differ.
Driving(dir) ==
    /\ fw.nsleep
    /\ fw.phase = (dir = "closed")
    /\ fw.enable = (dir = "open")

\* A person turns the handle one position.
TurnHandle ==
    \E p \in Position : Adjacent(handle, p) /\ Move(gear, p)

\* The motor moves the drive one position, and may push the handle along.
MotorTurns ==
    \E dir \in Direction :
        /\ Driving(dir)
        /\ gear # dir
        /\ \E h \in {handle} \cup IF handle = dir THEN {} ELSE {Toward(handle, dir)} :
              Move(Toward(gear, dir), h)

-----------------------------------------------------------------------------
(* The system work queue.                                                  *)

\* The handler of a pending work item runs and leaves the firmware in f.  A
\* timer it arms is not due again within the command it preempts.
Run(item, f) ==
    /\ zboss.pc = "idle" \/ item \in zboss.due
    /\ fw' = f
    /\ zboss' = [zboss EXCEPT !.due = @ \ ({item}
           \cup {t \in {"fail"} : f.fail_timer # fw.fail_timer}
           \cup {t \in {"pairing"} : f.pairing_timer # fw.pairing_timer})]

\* cooldown_expired_open, _close, _control1, _control2.
CooldownExpired(pin) ==
    /\ pin \in cooldown
    /\ cooldown' = cooldown \ {pin}
    /\ Run(pin, button_event_handler(fw, pin, Level(pin)))
    /\ UNCHANGED <<gear, handle>>

fail_report_timer_handler ==
    /\ fw.fail_timer # "off"
    /\ LET f == [fw EXCEPT !.fail_timer = "off"]
       IN  \/ /\ f.need_to_auto_close_flag /\ ~f.motor_working
              /\ Run("fail", valve_open_close_handler(
                     [f EXCEPT !.need_to_auto_close_flag = FALSE], "closed"))
           \/ /\ f.need_to_auto_close_flag /\ f.motor_working
              /\ Run("fail", f)
           \/ /\ ~f.need_to_auto_close_flag
              /\ Run("fail", check_valve_on_off_status_and_set_attr(
                     [motor_sleep(f) EXCEPT !.motor_working = FALSE]))
    /\ UNCHANGED <<gear, handle, cooldown>>

pairing_advertising_off_timer_handler ==
    /\ fw.pairing_timer # "off"
    /\ LET f == [fw EXCEPT !.pairing_timer = "off"]
           g == [f EXCEPT !.logic_need_to_be_restored = FALSE]
           restored ==
               IF      f.moving_to_close THEN valve_open_close_handler(g, "closed")
               ELSE IF f.moving_to_open  THEN valve_open_close_handler(g, "open")
               ELSE g
       IN  Run("pairing", IF f.logic_need_to_be_restored
                          THEN [restored EXCEPT !.moving_to_open = FALSE,
                                                !.moving_to_close = FALSE]
                          ELSE f)
    /\ UNCHANGED <<gear, handle, cooldown>>

\* BUTTON_PAIRING_EVT_PRESSED: a long press of the pairing button.  Nothing
\* ever sets pairing_in_progress, so its guard is always open.
forget_network ==
    /\ zboss.pc = "idle" \/ Preemption
    /\ fw' = [fw EXCEPT !.pairing_timer = "pairing"]
    /\ zboss' = [zboss EXCEPT !.due = @ \ {"pairing"}]
    /\ UNCHANGED <<gear, handle, cooldown>>

-----------------------------------------------------------------------------
(* The ZBOSS thread.                                                       *)

Pending == cooldown \cup {t \in {"fail"} : fw.fail_timer # "off"}
                    \cup {t \in {"pairing"} : fw.pairing_timer # "off"}

\* zcl_device_cb: an On/Off command arrives.  The stack stores the value in
\* the attribute and calls back; the handler reads the switches and decides.
ZclCommand ==
    \E to \in Direction :
        /\ zboss.pc = "idle"
        /\ fw' = [fw EXCEPT !.on_off = (to = "open")]
        /\ LET d == Decision(to)
           IN  zboss' = IF d.act
                        THEN [pc |-> "mark", dir |-> d.dir, logic |-> d.logic,
                              due |-> IF Preemption THEN Pending ELSE {}]
                        ELSE zboss
        /\ UNCHANGED <<gear, handle, cooldown>>

ZbossStep(at, next, f) ==
    /\ zboss.pc = at
    /\ zboss' = IF next = "idle" THEN ZbossIdle ELSE [zboss EXCEPT !.pc = next]
    /\ fw' = f
    /\ UNCHANGED <<gear, handle, cooldown>>

\* The assignments of valve_open_with_timer and valve_close_with_timer.
MarkWorking == ZbossStep("mark", "wake", [fw EXCEPT !.motor_working = TRUE])
WakeDriver  == ZbossStep("wake", "phase", [fw EXCEPT !.nsleep = TRUE])
SetPhase    == ZbossStep("phase", "enable", [fw EXCEPT !.phase = zboss.dir = "closed"])
SetEnable   == ZbossStep("enable", "arm", [fw EXCEPT !.enable = zboss.dir = "open"])
ArmFault    == ZbossStep("arm", "logic", [fw EXCEPT !.fail_timer = "fault"])
SetLogic    == ZbossStep("logic", "idle",
                   [fw EXCEPT !.logic_need_to_be_restored = zboss.logic])

\* The battery timer's reset every twelfth report, an OTA image or a watchdog.
SystemReset ==
    /\ fw' = FirmwareInit
    /\ zboss' = ZbossIdle
    /\ cooldown' = {}
    /\ UNCHANGED <<gear, handle>>

WorkQueue ==
    \/ \E pin \in Pin : CooldownExpired(pin)
    \/ fail_report_timer_handler
    \/ pairing_advertising_off_timer_handler
    \/ forget_network

Zboss ==
    \/ ZclCommand \/ MarkWorking \/ WakeDriver \/ SetPhase
    \/ SetEnable \/ ArmFault \/ SetLogic

Mechanics == TurnHandle \/ MotorTurns

Next == Mechanics \/ WorkQueue \/ Zboss \/ SystemReset

Spec == Init /\ [][Next]_vars

\* The ZBOSS thread is scheduled again after every preemption, and no switch
\* moves for ever faster than its 50 ms debounce.
FairSpec ==
    /\ Spec
    /\ \A pin \in Pin : WF_vars(CooldownExpired(pin))
    /\ WF_vars(MarkWorking \/ WakeDriver \/ SetPhase \/ SetEnable \/ ArmFault \/ SetLogic)

\* The refinement mapping: the direction the bridge drives the motor in.
motor == IF Driving("open") THEN "open"
         ELSE IF Driving("closed") THEN "closed" ELSE "rest"

Valve == INSTANCE ValveDrive WITH motor <- motor

-----------------------------------------------------------------------------
(* Properties.                                                             *)

TypeInvariant ==
    /\ gear \in Position
    /\ handle \in Position
    /\ cooldown \subseteq Pin
    /\ fw \in FirmwareState
    /\ zboss \in ZbossState

\* The pending auto-close is never stale: it waits only while the handle is
\* between its ends, or has just reached one and the debounce of that switch
\* is still pending.  A handle at rest at an end is never auto-closed.
AutoCloseFlagIsFresh ==
    fw.need_to_auto_close_flag =>
        \/ handle = "mid"
        \/ handle = "open" /\ "control1" \in cooldown
        \/ handle = "closed" /\ "control2" \in cooldown

\* The shared timer and the flag that tells its handler why it was armed
\* agree: a 10 s countdown always finds its flag set, so it is never taken
\* for the expiry of the 60 s motor timer.
CountdownMeansAutoClose ==
    fw.fail_timer = "countdown" => fw.need_to_auto_close_flag

\* The flag auto-close trusts: motor_working accounts for every awake motor
\* driver, and for the 60 s timer.
Known(f) == f.nsleep \/ f.fail_timer = "fault" => f.motor_working

\* The firmware loses track of its motor in one way only: a stop overtakes a
\* command between motor_working = true and the assignment that wakes the
\* driver or arms the timer.  No order of edges, timers, restores and whole
\* commands does it.
LosesTrackOnlyWhenOvertaken ==
    [][Known(fw) /\ ~Known(fw)'
          => zboss.pc \in {"wake", "arm"} /\ ~fw.motor_working]_vars

\* The motor never goes on pushing the drive against the end it has reached
\* while the handle rests at an end: the stop has happened, or a switch that
\* will cause it is still being debounced.  This holds between any two
\* assignments of a command, whatever preempted it.
StopsAtEndOfTravel ==
    \A dir \in Direction :
        Driving(dir) /\ gear = dir /\ handle # "mid"
            => cooldown # {}

\* A motor stalled against its end of travel with every switch settled and
\* no timer to stop it has one cause: a countdown that expired during the run
\* and was dropped with its flag still set.  A command arms its timer last, but
\* by then the motor drives away from the end.
UnwatchedStallIsDroppedCountdown ==
    \A dir \in Direction :
        Driving(dir) /\ gear = dir /\ cooldown = {}
            => fw.fail_timer # "off" \/ fw.need_to_auto_close_flag

\* The valve this firmware drives is the one ValveDrive promises: no order of
\* switches, timers and commands, and no preempted command, switches the motor
\* on toward an end the drive is at, or moves the drive with the motor off.
ImplementsValve == Valve!Spec

\* And it keeps the promise to stop: a motor driving against its end, with the
\* handle at rest at an end, is switched off in the end.
ImplementsFairValve == Valve!FairSpec

-----------------------------------------------------------------------------
(* What the documentation says and this code does not do.                  *)

\* changeLog.h:49, a timer for a valve that opens or closes too long: an
\* awake motor is always watched by the shared timer.
RunningMotorIsWatched ==
    fw.nsleep /\ zboss.pc = "idle" => fw.fail_timer # "off"
=============================================================================
