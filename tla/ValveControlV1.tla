--------------------------- MODULE ValveControlV1 ---------------------------
(***************************************************************************)
(* The motor and valve control of the V1.2 firmware (nRF5 SDK): main.c     *)
(* with the events of sv_bsp.c.  The mechanics are those of ValveControl.  *)
(*                                                                         *)
(* The button events and the timers run in the interrupt of app_timer, one *)
(* handler at a time; they preempt the main loop, which runs the ZBOSS     *)
(* callbacks zcl_device_cb and zboss_signal_handler, between any two of    *)
(* its assignments.  A callback takes microseconds: nothing moves in it,   *)
(* and only what was pending when it began can become due inside it.       *)
(* Otherwise time is not modelled: what is pending runs in any order.      *)
(*                                                                         *)
(* app_timer_start leaves a running timer alone, and the restore of the    *)
(* valve shares its timer with pairing: both matter here.  The on_off      *)
(* attribute is written and never read, and is left out; the LED and the   *)
(* buzzer are in IndicationV1.                                             *)
(***************************************************************************)
EXTENDS Naturals

CONSTANTS
    Preemption, \* may an interrupt become due while a ZBOSS callback runs?
                \* TRUE is the firmware.
    Missable    \* the switches that may change back before app_button, which
                \* polls with a detection delay of 450 ms, reports them: every
                \* one in the firmware

ASSUME PreemptionAssumption == Preemption \in BOOLEAN

Position  == {"closed", "mid", "open"}
Direction == {"closed", "open"}
Control   == {"control", "control2"}
Pin       == {"open", "close"} \cup Control

ASSUME MissableAssumption == Missable \subseteq Pin

\* What becomes due in the interrupt.
Source == Pin \cup {"fail", "pairing"}

\* The two shared timers, by what each is running for.
FailTimer    == {"off", "countdown", "fault"}
PairingTimer == {"off", "restore", "buzzer", "advertising"}

VARIABLES
    gear,       \* position of the drive
    handle,     \* position of the handle
    active,     \* the buttons app_button last reported active (pushed)
    missed,     \* history: the switches with a change that was undone before
                \* app_button could report it, until their next report
    fw,         \* the firmware's flags, timers and motor outputs
    zboss       \* the main loop: where it is in a callback, and what may
                \* still become due during it

vars == <<gear, handle, active, missed, fw, zboss>>

FirmwareState ==
    [ nsleep: BOOLEAN, phase: BOOLEAN, enable: BOOLEAN,
      motor_working: BOOLEAN, pairing_in_progress: BOOLEAN,
      moving_to_open: BOOLEAN, moving_to_close: BOOLEAN,
      double_click_awaiting: BOOLEAN,
      full_press_flag: BOOLEAN,
      logic_need_to_be_restored: BOOLEAN,
      need_to_auto_close_flag: BOOLEAN,
      buzzer_on_crutch: BOOLEAN,
      fail_timer: FailTimer, pairing_timer: PairingTimer ]

ZbossState ==
    [ pc: {"idle", "mark", "wake", "phase", "enable", "stop", "start", "logic",
           "unpair", "clear"},
      dir: Direction, logic: BOOLEAN, due: SUBSET Source ]

-----------------------------------------------------------------------------
(* The switches.  The handlers read the pins; app_button reports a limit   *)
(* switch active when it is pressed and a control switch when it is        *)
(* released, as app_buttons configures them.                               *)

Pressed(pin) ==
    \/ pin = "open"     /\ gear = "open"
    \/ pin = "close"    /\ gear = "closed"
    \/ pin = "control"  /\ handle = "open"
    \/ pin = "control2" /\ handle = "closed"

BUTTON_OPEN_PRESSED     == Pressed("open")
BUTTON_CLOSE_PRESSED    == Pressed("close")
BUTTON_CONTROL_PRESSED  == Pressed("control")
BUTTON_CONTROL2_PRESSED == Pressed("control2")

Active(pin) == Pressed(pin) # (pin \in Control)

\* What app_button has yet to report.
Unreported == {pin \in Pin : (pin \in active) # Active(pin)}

-----------------------------------------------------------------------------
(* The functions of main.c, each from the state it finds to the state it   *)
(* leaves.                                                                 *)

app_timer_start(timer, purpose) == IF timer = "off" THEN purpose ELSE timer

MOTOR_SLEEP(f) == [f EXCEPT !.nsleep = FALSE, !.phase = FALSE, !.enable = FALSE]

\* Mutants: the timer is started for the wrong purpose, or not at all.
valve_with_wrong_timer(f, dir) ==
    [f EXCEPT !.motor_working = TRUE,
              !.nsleep = TRUE, !.phase = dir = "closed", !.enable = dir = "open",
              !.fail_timer = "restore"]
valve_without_timer(f, dir) ==
    [f EXCEPT !.motor_working = TRUE,
              !.nsleep = TRUE, !.phase = dir = "closed", !.enable = dir = "open"]

\* valve_open_with_timer and valve_close_with_timer.
valve_with_timer(f, dir) ==
    [f EXCEPT !.motor_working = TRUE,
              !.nsleep = TRUE, !.phase = dir = "closed", !.enable = dir = "open",
              !.fail_timer = "fault"]

\* Mutant: the bridge is left awake.
stop_motor_stays_awake(f) ==
    [f EXCEPT !.motor_working = FALSE, !.fail_timer = "off",
              !.full_press_flag = FALSE]

\* The body the end-of-travel events share.
stop_motor(f) ==
    [MOTOR_SLEEP(f) EXCEPT !.motor_working = FALSE, !.fail_timer = "off",
                           !.full_press_flag = FALSE]

Act(dir, logic) == [act |-> TRUE,  dir |-> dir,      logic |-> logic]
Ignore          == [act |-> FALSE, dir |-> "closed", logic |-> FALSE]

OpenDecision ==
    IF      BUTTON_CLOSE_PRESSED /\ BUTTON_CONTROL2_PRESSED THEN Act("open", FALSE)
    ELSE IF BUTTON_OPEN_PRESSED /\ BUTTON_CONTROL2_PRESSED  THEN Act("closed", TRUE)
    ELSE IF ~BUTTON_OPEN_PRESSED                            THEN Act("open", FALSE)
    ELSE Ignore

\* Mutant: with the handle between its ends it drives on into the end.
CloseDecisionIntoLimit ==
    IF      BUTTON_OPEN_PRESSED /\ BUTTON_CONTROL_PRESSED THEN Act("closed", FALSE)
    ELSE IF ~BUTTON_CONTROL_PRESSED /\ ~BUTTON_CONTROL2_PRESSED THEN Act("closed", FALSE)
    ELSE Ignore

CloseDecision ==
    IF      BUTTON_OPEN_PRESSED /\ BUTTON_CONTROL_PRESSED  THEN Act("closed", FALSE)
    ELSE IF BUTTON_CLOSE_PRESSED /\ BUTTON_CONTROL_PRESSED THEN Act("open", TRUE)
    ELSE IF ~BUTTON_CLOSE_PRESSED                          THEN Act("closed", FALSE)
    ELSE IF ~BUTTON_CONTROL_PRESSED /\ ~BUTTON_CONTROL2_PRESSED THEN Act("open", TRUE)
    ELSE Ignore

Decision(to) == IF to = "open" THEN OpenDecision ELSE CloseDecision

valve_open_close_handler(f, to) ==
    LET d == Decision(to)
    IN  IF d.act
        THEN [valve_with_timer(f, d.dir) EXCEPT !.logic_need_to_be_restored = d.logic]
        ELSE f

\* Mutant: between the ends the countdown is started without its flag.
check_starts_only(f) ==
    IF BUTTON_CONTROL_PRESSED \/ BUTTON_CONTROL2_PRESSED
    THEN [f EXCEPT !.need_to_auto_close_flag = FALSE, !.fail_timer = "off"]
    ELSE [f EXCEPT !.fail_timer = app_timer_start(@, "countdown")]

check_valve_on_off_status_and_set_attr(f) ==
    LET double  == f.logic_need_to_be_restored /\ f.motor_working
        settled == [f EXCEPT !.need_to_auto_close_flag = FALSE,
                             !.fail_timer = "off",
                             !.double_click_awaiting = @ \/ double]
    IN  IF BUTTON_CONTROL_PRESSED
        THEN [settled EXCEPT !.moving_to_open = @ \/ double]
        ELSE IF BUTTON_CONTROL2_PRESSED
        THEN [settled EXCEPT !.moving_to_close = @ \/ double]
        ELSE [f EXCEPT !.fail_timer = app_timer_start(@, "countdown"),
                       !.need_to_auto_close_flag = TRUE]

-----------------------------------------------------------------------------
(* buttons_handler, by event.                                              *)

\* Mutant: a limit reached with the handle between its ends is forgotten.
limit_forgotten(f) ==
    IF BUTTON_CONTROL_PRESSED \/ BUTTON_CONTROL2_PRESSED THEN stop_motor(f) ELSE f

\* BSP_EVENT_KEY_1 and BSP_EVENT_KEY_2: a limit switch is pressed.
limit_pressed(f) ==
    IF BUTTON_CONTROL_PRESSED \/ BUTTON_CONTROL2_PRESSED
    THEN stop_motor(f)
    ELSE [f EXCEPT !.full_press_flag = TRUE]

\* BSP_EVENT_KEY_6 and BSP_EVENT_KEY_7: a control switch is pressed.
control_pressed(f) ==
    check_valve_on_off_status_and_set_attr(
        IF f.full_press_flag THEN stop_motor(f) ELSE f)

\* BSP_EVENT_KEY_3 and BSP_EVENT_KEY_4: a control switch is released.
control_released(f) ==
    IF f.logic_need_to_be_restored /\ f.double_click_awaiting
    THEN [MOTOR_SLEEP(f) EXCEPT !.double_click_awaiting = FALSE,
                                !.pairing_timer = app_timer_start(@, "restore")]
    ELSE check_valve_on_off_status_and_set_attr(f)

\* The events of one button; the release of a limit switch has none.
buttons_handler(f, pin, push) ==
    IF pin \in Control
    THEN IF push THEN control_released(f) ELSE control_pressed(f)
    ELSE IF push THEN limit_pressed(f) ELSE f

-----------------------------------------------------------------------------
(* Power-on or reset, with the mechanics anywhere: the flags are clear and *)
(* smart_valve_clusters_attr_init has checked the control switches.        *)

Reset ==
    [ nsleep |-> FALSE, phase |-> FALSE, enable |-> FALSE,
      motor_working |-> FALSE, pairing_in_progress |-> FALSE,
      moving_to_open |-> FALSE, moving_to_close |-> FALSE,
      double_click_awaiting |-> FALSE,
      full_press_flag |-> FALSE,
      logic_need_to_be_restored |-> FALSE,
      need_to_auto_close_flag |-> FALSE,
      buzzer_on_crutch |-> FALSE,
      fail_timer |-> "off", pairing_timer |-> "off" ]

ZbossIdle == [pc |-> "idle", dir |-> "closed", logic |-> FALSE, due |-> {}]

Init ==
    /\ gear \in Position
    /\ handle \in Position
    /\ active = {}
    /\ missed = {}
    /\ fw = check_valve_on_off_status_and_set_attr(Reset)
    /\ zboss = ZbossIdle

-----------------------------------------------------------------------------
(* The mechanics: external, slow beside the firmware, and free to jam.     *)
(* Before the first report of a boot nothing is polled.                    *)

Adjacent(p, q) == p # q /\ "mid" \in {p, q}
Toward(p, dir) == IF p = "mid" THEN dir ELSE "mid"

Move(g, h) ==
    /\ zboss.pc = "idle"
    /\ gear' = g
    /\ handle' = h
    /\ missed' = missed \cup
           {pin \in Unreported : active # {} /\ Active(pin)' # Active(pin)}
    /\ missed' \subseteq Missable
    /\ UNCHANGED <<active, fw, zboss>>

Driving(dir) ==
    /\ fw.nsleep
    /\ fw.phase = (dir = "closed")
    /\ fw.enable = (dir = "open")

TurnHandle ==
    \E p \in Position : Adjacent(handle, p) /\ Move(gear, p)

MotorTurns ==
    \E dir \in Direction :
        /\ Driving(dir)
        /\ gear # dir
        /\ \E h \in {handle} \cup IF handle = dir THEN {} ELSE {Toward(handle, dir)} :
              Move(Toward(gear, dir), h)

-----------------------------------------------------------------------------
(* The interrupt.                                                          *)

\* The handler of a source runs and leaves the firmware in f.  A timer it
\* starts is not due again within the callback it preempts.
Run(source, f) ==
    /\ zboss.pc = "idle" \/ source \in zboss.due
    /\ fw' = f
    /\ zboss' = [zboss EXCEPT !.due = @ \ ({source}
           \cup {t \in {"fail"} : f.fail_timer # fw.fail_timer}
           \cup {t \in {"pairing"} : f.pairing_timer # fw.pairing_timer})]

\* app_button's polls report a button that has changed; a change undone
\* between two polls is never seen.
ButtonEvent(pin) ==
    /\ pin \in Unreported
    /\ active' = IF Active(pin) THEN active \cup {pin} ELSE active \ {pin}
    /\ missed' = missed \ {pin}
    /\ Run(pin, buttons_handler(fw, pin, Active(pin)))
    /\ UNCHANGED <<gear, handle>>

fail_report_timer_handler ==
    /\ fw.fail_timer # "off"
    /\ LET f == [fw EXCEPT !.fail_timer = "off"]
       IN  \/ /\ f.need_to_auto_close_flag /\ ~f.motor_working
              /\ Run("fail", valve_open_close_handler(
                     [f EXCEPT !.need_to_auto_close_flag = FALSE], "closed"))
           \/ /\ f.need_to_auto_close_flag /\ f.motor_working
              /\ Run("fail", f)
           \/ /\ ~f.need_to_auto_close_flag
              /\ Run("fail", check_valve_on_off_status_and_set_attr(
                     MOTOR_SLEEP([f EXCEPT !.motor_working = FALSE])))
    /\ UNCHANGED <<gear, handle, active, missed>>

restore(f) ==
    LET g == [f EXCEPT !.logic_need_to_be_restored = FALSE]
        h == IF      f.moving_to_close THEN valve_open_close_handler(g, "closed")
             ELSE IF f.moving_to_open  THEN valve_open_close_handler(g, "open")
             ELSE g
    IN  [h EXCEPT !.moving_to_open = FALSE, !.moving_to_close = FALSE]

buzzer_expires(f) ==
    [f EXCEPT !.pairing_timer = "advertising", !.buzzer_on_crutch = FALSE]

pairing_advertising_off_timer_handler ==
    /\ fw.pairing_timer # "off"
    /\ LET f == [fw EXCEPT !.pairing_timer = "off"]
       IN  \/ /\ f.logic_need_to_be_restored
              /\ Run("pairing", restore(f))
           \/ /\ ~f.logic_need_to_be_restored /\ f.buzzer_on_crutch
              /\ Run("pairing", buzzer_expires(f))
           \/ /\ ~f.logic_need_to_be_restored /\ ~f.buzzer_on_crutch
              /\ Run("pairing", [f EXCEPT !.pairing_in_progress = FALSE])
    /\ UNCHANGED <<gear, handle, active, missed>>

\* The events of the pairing button, which may come at any time: a long push
\* (BSP_EVENT_RESET), and a push, which only puts the motor to sleep.
PairingButton(f) ==
    /\ zboss.pc = "idle" \/ Preemption
    /\ fw' = f
    /\ zboss' = [zboss EXCEPT !.due =
           @ \ {t \in {"pairing"} : f.pairing_timer # fw.pairing_timer}]
    /\ UNCHANGED <<gear, handle, active, missed>>

forget_network ==
    /\ ~fw.pairing_in_progress
    /\ PairingButton([fw EXCEPT !.pairing_timer = app_timer_start(@, "buzzer"),
                                !.pairing_in_progress = TRUE,
                                !.buzzer_on_crutch = TRUE])

PairingPush == PairingButton(MOTOR_SLEEP(fw))

-----------------------------------------------------------------------------
(* The main loop.                                                          *)

Due == IF ~Preemption THEN {}
       ELSE Unreported \cup {t \in {"fail"} : fw.fail_timer # "off"}
            \cup {t \in {"pairing"} : fw.pairing_timer # "off"}

\* zcl_device_cb: an On/Off command; the handler reads the pins and decides.
ZclCommand ==
    \E to \in Direction :
        /\ zboss.pc = "idle"
        /\ Decision(to).act
        /\ zboss' = [pc |-> "mark", dir |-> Decision(to).dir,
                     logic |-> Decision(to).logic, due |-> Due]
        /\ UNCHANGED <<gear, handle, active, missed, fw>>

\* zboss_signal_handler: a signal with the device joined.
JoinSignal ==
    /\ zboss.pc = "idle"
    /\ fw.pairing_in_progress
    /\ zboss' = [ZbossIdle EXCEPT !.pc = "unpair", !.due = Due]
    /\ UNCHANGED <<gear, handle, active, missed, fw>>

ZbossStep(at, next, f) ==
    /\ zboss.pc = at
    /\ zboss' = IF next = "idle" THEN ZbossIdle ELSE [zboss EXCEPT !.pc = next]
    /\ fw' = f
    /\ UNCHANGED <<gear, handle, active, missed>>

\* valve_open_with_timer and valve_close_with_timer, then the caller's flag.
MarkWorking == ZbossStep("mark", "wake", [fw EXCEPT !.motor_working = TRUE])
WakeDriver  == ZbossStep("wake", "phase", [fw EXCEPT !.nsleep = TRUE])
SetPhase    == ZbossStep("phase", "enable", [fw EXCEPT !.phase = zboss.dir = "closed"])
SetEnable   == ZbossStep("enable", "stop", [fw EXCEPT !.enable = zboss.dir = "open"])
StopFail    == ZbossStep("stop", "start", [fw EXCEPT !.fail_timer = "off"])
StartFail   == ZbossStep("start", "logic",
                   [fw EXCEPT !.fail_timer = app_timer_start(@, "fault")])
SetLogic    == ZbossStep("logic", "idle",
                   [fw EXCEPT !.logic_need_to_be_restored = zboss.logic])

\* stop_pairing.
StopPairing  == ZbossStep("unpair", "clear", [fw EXCEPT !.pairing_timer = "off"])
ClearPairing == ZbossStep("clear", "idle", [fw EXCEPT !.pairing_in_progress = FALSE])

\* The reset of every twelfth battery report, an OTA image or the watchdog.
SystemReset ==
    /\ fw' = check_valve_on_off_status_and_set_attr(Reset)
    /\ zboss' = ZbossIdle
    /\ active' = {}
    /\ missed' = {}
    /\ UNCHANGED <<gear, handle>>

Interrupt ==
    \/ \E pin \in Pin : ButtonEvent(pin)
    \/ fail_report_timer_handler
    \/ pairing_advertising_off_timer_handler
    \/ forget_network
    \/ PairingPush

MainLoop ==
    \/ ZclCommand \/ MarkWorking \/ WakeDriver \/ SetPhase \/ SetEnable
    \/ StopFail \/ StartFail \/ SetLogic
    \/ JoinSignal \/ StopPairing \/ ClearPairing

Next == TurnHandle \/ MotorTurns \/ Interrupt \/ MainLoop \/ SystemReset

Spec == Init /\ [][Next]_vars

-----------------------------------------------------------------------------
(* Properties.                                                             *)

TypeInvariant ==
    /\ gear \in Position
    /\ handle \in Position
    /\ active \subseteq Pin
    /\ missed \subseteq Pin
    /\ fw \in FirmwareState
    /\ zboss \in ZbossState

\* The refinement mapping: the direction the bridge drives the motor in.
motor == IF Driving("open") THEN "open"
         ELSE IF Driving("closed") THEN "closed" ELSE "rest"

Valve == INSTANCE ValveDrive WITH motor <- motor

\* The valve of this firmware is the one ValveDrive promises: no order of
\* events, timers and commands switches the motor on toward an end the drive is
\* at, and putting the motor to sleep in the middle of a command does not
\* either.
ImplementsValve == Valve!Spec

\* The shared timer and its flag agree although a countdown is not started on
\* a running timer: a countdown never expires as a motor fault.
CountdownMeansAutoClose ==
    fw.fail_timer = "countdown" => fw.need_to_auto_close_flag

\* The flag auto-close trusts: motor_working accounts for every awake motor,
\* and for the 60 s motor timer.
Known(f) == f.nsleep \/ f.fail_timer = "fault" => f.motor_working

\* The firmware loses track of its motor in one way only: an interrupt with a
\* stop overtakes a command between motor_working = true and the assignment
\* that wakes the motor or starts the timer.  The pairing button, which puts the
\* motor to sleep without stopping that timer, does not do it.
LosesTrackOnlyWhenOvertaken ==
    [][Known(fw) /\ ~Known(fw)'
          => zboss.pc \in {"wake", "start"} /\ ~fw.motor_working]_vars

\* The switches that stop a run in a direction: the limit of its end, and the
\* control switches of the handle.
Stopper(dir) == Control \cup {IF dir = "open" THEN "open" ELSE "close"}

\* The motor never goes on pushing the drive against the end it has reached
\* while the handle rests at an end: the stop has happened, a report that may
\* cause it is due, inside a command as well, or app_button has missed a change
\* of a switch that stops this run.
StopsAtEndOfTravel ==
    \A dir \in Direction :
        Driving(dir) /\ gear = dir /\ handle # "mid"
            => Unreported # {} \/ missed \cap Stopper(dir) # {}

\* A motor stalled at its end with every switch reported and no timer to stop
\* it has, unless app_button missed a change of such a switch, one cause: an
\* expiry dropped because the auto-close flag was raised while the motor timer
\* ran.  A command stops the timer before it starts it again, but by then the
\* motor drives away from the end.
UnwatchedStallIsDroppedExpiry ==
    \A dir \in Direction :
        Driving(dir) /\ gear = dir /\ Unreported = {}
            => \/ fw.fail_timer # "off"
               \/ fw.need_to_auto_close_flag
               \/ missed \cap Stopper(dir) # {}

-----------------------------------------------------------------------------
(* What the documentation says and this code does not do.                  *)

\* changeLog.h:136, a pairing is timed out after 60 s: while one is in
\* progress its timer runs.
PairingIsTimed ==
    fw.pairing_in_progress /\ zboss.pc = "idle" => fw.pairing_timer # "off"
=============================================================================
