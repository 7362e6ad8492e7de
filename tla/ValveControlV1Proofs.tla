------------------------ MODULE ValveControlV1Proofs ------------------------
(***************************************************************************)
(* Theorems about ValveControlV1, for every value of the constants:        *)
(* whatever preempts a callback, with the pairing button and whatever      *)
(* changes app_button misses.  The type invariant, the countdown and its   *)
(* flag, the implementation of ValveDrive, how the firmware loses track of *)
(* its motor, and what stops and watches a motor at its end.               *)
(***************************************************************************)
EXTENDS ValveControlV1, TLAPS

-----------------------------------------------------------------------------
(* What every function of main.c that runs in the interrupt respects.      *)

Agrees(f) == f.fail_timer = "countdown" => f.need_to_auto_close_flag

\* The bridge is left, put to sleep, or driven away from the end the drive is
\* at.
Turned(f, g) ==
    \/ g.nsleep = f.nsleep /\ g.phase = f.phase /\ g.enable = f.enable
    \/ ~g.nsleep /\ ~g.phase /\ ~g.enable
    \/ \E dir \in Direction :
          gear # dir /\ g.nsleep /\ g.phase = (dir = "closed") /\ g.enable = (dir = "open")

Good(f, g) ==
    /\ g \in FirmwareState
    /\ Agrees(f) => Agrees(g)
    /\ Known(f) => Known(g)
    /\ Turned(f, g)

LEMMA GoodItself ==
    ASSUME NEW f \in FirmwareState
    PROVE  Good(f, f)
BY DEF Good, Turned

LEMMA GoodTwice ==
    ASSUME NEW f, NEW g, NEW h, Good(f, g), Good(g, h)
    PROVE  Good(f, h)
<1>1. Turned(f, h)
  BY DEF Good, Turned
<1>2. QED
  BY <1>1 DEF Good

\* What holds of a state the firmware leaves itself in directly.
LEMMA GoodMotor ==
    ASSUME NEW f \in FirmwareState
    PROVE  Good(f, MOTOR_SLEEP(f)) /\ Good(f, stop_motor(f))
BY DEF MOTOR_SLEEP, stop_motor, FirmwareState, FailTimer, Good, Agrees, Known,
       Turned

LEMMA DecisionAway ==
    ASSUME NEW to \in Direction
    PROVE  /\ Decision(to).act \in BOOLEAN
           /\ Decision(to).logic \in BOOLEAN
           /\ Decision(to).dir \in Direction
           /\ Decision(to).act => gear # Decision(to).dir
BY DEF Decision, OpenDecision, CloseDecision, Act, Ignore, Direction,
       BUTTON_OPEN_PRESSED, BUTTON_CLOSE_PRESSED, BUTTON_CONTROL_PRESSED,
       BUTTON_CONTROL2_PRESSED, Pressed

LEMMA GoodHandler ==
    ASSUME NEW f \in FirmwareState, NEW to \in Direction
    PROVE  Good(f, valve_open_close_handler(f, to))
<1>1. CASE ~Decision(to).act
  BY <1>1, GoodItself DEF valve_open_close_handler
<1>2. CASE Decision(to).act
  <2> DEFINE dir == Decision(to).dir
             logic == Decision(to).logic
             g   == valve_open_close_handler(f, to)
             v   == valve_with_timer(f, dir)
  <2>1. gear # dir /\ dir \in Direction /\ logic \in BOOLEAN
    BY <1>2, DecisionAway
  <2>2. g = [v EXCEPT !.logic_need_to_be_restored = logic]
    BY <1>2 DEF valve_open_close_handler
  <2> HIDE DEF dir, logic, g
  <2>3. v \in FirmwareState
    BY DEF valve_with_timer, FirmwareState, FailTimer
  <2>4. /\ v.nsleep /\ v.phase = (dir = "closed") /\ v.enable = (dir = "open")
        /\ v.motor_working /\ v.fail_timer = "fault"
    BY DEF valve_with_timer, FirmwareState
  <2> HIDE DEF v
  <2>5. /\ g \in FirmwareState
        /\ g.nsleep /\ g.phase = (dir = "closed") /\ g.enable = (dir = "open")
        /\ g.motor_working /\ g.fail_timer = "fault"
    BY <2>1, <2>2, <2>3, <2>4 DEF FirmwareState
  <2>6. Turned(f, g)
    BY <2>1, <2>5 DEF Turned
  <2>7. Good(f, g)
    BY <2>5, <2>6 DEF Good, Agrees, Known
  <2>8. QED
    BY <2>7 DEF g
<1>3. QED
  BY <1>1, <1>2

LEMMA GoodCheck ==
    ASSUME NEW f \in FirmwareState
    PROVE  Good(f, check_valve_on_off_status_and_set_attr(f))
<1> DEFINE double  == f.logic_need_to_be_restored /\ f.motor_working
           settled == [f EXCEPT !.need_to_auto_close_flag = FALSE,
                                !.fail_timer = "off",
                                !.double_click_awaiting = @ \/ double]
           opened  == [settled EXCEPT !.moving_to_open = @ \/ double]
           closed  == [settled EXCEPT !.moving_to_close = @ \/ double]
           between == [f EXCEPT !.fail_timer = app_timer_start(@, "countdown"),
                                !.need_to_auto_close_flag = TRUE]
<1>1. check_valve_on_off_status_and_set_attr(f) \in {opened, closed, between}
  BY DEF check_valve_on_off_status_and_set_attr
<1>2. Good(f, between)
  BY DEF FirmwareState, FailTimer, app_timer_start, Good, Agrees, Known, Turned
<1>3. (f.double_click_awaiting \/ double) \in BOOLEAN
  OBVIOUS
<1>4. Good(f, settled)
  <2> HIDE DEF double
  <2> QED BY <1>3 DEF FirmwareState, FailTimer, Good, Agrees, Known, Turned
<1>5. /\ (settled.moving_to_open \/ double) \in BOOLEAN
      /\ (settled.moving_to_close \/ double) \in BOOLEAN
  OBVIOUS
<1>6. Good(settled, opened) /\ Good(settled, closed)
  <2> HIDE DEF double, settled
  <2> QED BY <1>4, <1>5 DEF FirmwareState, Good, Agrees, Known, Turned
<1>7. Good(f, opened) /\ Good(f, closed)
  <2> HIDE DEF settled, opened, closed
  <2> QED BY <1>4, <1>6, GoodTwice
<1>8. QED
  <2> HIDE DEF opened, closed, between
  <2> QED BY <1>1, <1>2, <1>7

LEMMA GoodEvent ==
    ASSUME NEW f \in FirmwareState, NEW pin \in Pin, NEW push \in BOOLEAN
    PROVE  Good(f, buttons_handler(f, pin, push))
<1>1. Good(f, limit_pressed(f))
  BY GoodMotor DEF limit_pressed, FirmwareState, Good, Agrees, Known, Turned
<1>2. Good(f, control_pressed(f))
  <2> DEFINE stopped == IF f.full_press_flag THEN stop_motor(f) ELSE f
  <2>1. Good(f, stopped)
    BY GoodMotor, GoodItself
  <2>2. control_pressed(f) = check_valve_on_off_status_and_set_attr(stopped)
    BY DEF control_pressed
  <2> HIDE DEF stopped
  <2>3. QED
    BY <2>1, <2>2, GoodCheck, GoodTwice DEF Good
<1>3. Good(f, control_released(f))
  <2> DEFINE asleep == MOTOR_SLEEP(f)
             waits  == [asleep EXCEPT !.double_click_awaiting = FALSE,
                           !.pairing_timer = app_timer_start(@, "restore")]
  <2>1. Good(f, asleep)
    BY GoodMotor
  <2>2. control_released(f) \in {waits, check_valve_on_off_status_and_set_attr(f)}
    BY DEF control_released
  <2> HIDE DEF asleep
  <2>3. Good(asleep, waits)
    BY <2>1 DEF FirmwareState, PairingTimer, app_timer_start, Good, Agrees, Known,
                Turned
  <2> HIDE DEF waits
  <2>4. Good(f, waits)
    BY <2>1, <2>3, GoodTwice
  <2>5. QED
    BY <2>2, <2>4, GoodCheck
<1>4. QED
  BY <1>1, <1>2, <1>3, GoodItself DEF buttons_handler

-----------------------------------------------------------------------------
(* The same for the actions of the interrupt.                              *)

LEMMA RunZboss ==
    ASSUME zboss \in ZbossState, NEW source, NEW f, Run(source, f)
    PROVE  /\ fw' = f
           /\ zboss' \in ZbossState
           /\ zboss'.pc = zboss.pc /\ zboss'.dir = zboss.dir
           /\ zboss'.logic = zboss.logic
BY DEF Run, ZbossState

\* What an interrupt respects.
Respects ==
    /\ UNCHANGED <<gear, handle>>
    /\ fw' \in FirmwareState
    /\ Agrees(fw) => Agrees(fw')
    /\ Known(fw) => Known(fw')
    /\ Turned(fw, fw')
    /\ zboss' \in ZbossState
    /\ zboss'.pc = zboss.pc /\ zboss'.dir = zboss.dir

LEMMA EventRespects ==
    ASSUME TypeInvariant, NEW pin \in Pin, ButtonEvent(pin)
    PROVE  /\ Respects /\ active' \subseteq Pin /\ missed' = missed \ {pin}
<1>1. /\ fw \in FirmwareState /\ zboss \in ZbossState /\ active \subseteq Pin
  BY DEF TypeInvariant
<1>2. Run(pin, buttons_handler(fw, pin, Active(pin)))
  BY DEF ButtonEvent
<1>3. Good(fw, buttons_handler(fw, pin, Active(pin)))
  BY <1>1, GoodEvent DEF Active
<1>4. QED
  BY <1>1, <1>2, <1>3, RunZboss DEF ButtonEvent, Respects, Good

LEMMA FailRespects ==
    ASSUME TypeInvariant, fail_report_timer_handler
    PROVE  /\ Respects /\ UNCHANGED <<active, missed>>
<1> DEFINE f == [fw EXCEPT !.fail_timer = "off"]
           g == [f EXCEPT !.need_to_auto_close_flag = FALSE]
           h == [f EXCEPT !.motor_working = FALSE]
           s == MOTOR_SLEEP(h)
           c == check_valve_on_off_status_and_set_attr(s)
           v == valve_open_close_handler(g, "closed")
<1>1. /\ fw \in FirmwareState /\ zboss \in ZbossState
  BY DEF TypeInvariant
<1>2. /\ Run("fail", v) \/ Run("fail", f) \/ Run("fail", c)
      /\ UNCHANGED <<gear, handle, active, missed>>
  BY DEF fail_report_timer_handler
<1>3. Good(fw, f) /\ Good(fw, g)
  BY <1>1 DEF FirmwareState, FailTimer, Good, Agrees, Known, Turned
<1>4. h \in FirmwareState /\ h.fail_timer = "off" /\ Turned(fw, h)
  BY <1>1 DEF FirmwareState, FailTimer, Turned
<1> HIDE DEF f, g, h
<1>5. Good(h, s) /\ ~s.nsleep /\ s.fail_timer = "off"
  BY <1>4, GoodMotor DEF MOTOR_SLEEP, FirmwareState
<1> HIDE DEF s
<1>6. Good(s, c)
  BY <1>5, GoodCheck DEF Good
<1>7. Good(g, v)
  BY <1>3, GoodHandler DEF Good, Direction
<1> HIDE DEF c, v
<1>8. Good(fw, v)
  BY <1>3, <1>7, GoodTwice
<1>9. Good(fw, s)
  <2>1. Turned(fw, s)
    BY <1>4, <1>5 DEF Good, Turned
  <2>2. QED
    BY <2>1, <1>4, <1>5 DEF Good, Agrees, Known
<1>10. Good(fw, c)
  BY <1>6, <1>9, GoodTwice
<1>11. QED
  BY <1>1, <1>2, <1>3, <1>8, <1>10, RunZboss DEF Respects, Good

LEMMA PairingRespects ==
    ASSUME TypeInvariant, pairing_advertising_off_timer_handler
    PROVE  /\ Respects /\ UNCHANGED <<active, missed>>
<1> DEFINE f == [fw EXCEPT !.pairing_timer = "off"]
           g == [f EXCEPT !.logic_need_to_be_restored = FALSE]
           h == IF      f.moving_to_close THEN valve_open_close_handler(g, "closed")
                ELSE IF f.moving_to_open  THEN valve_open_close_handler(g, "open")
                ELSE g
           r == [h EXCEPT !.moving_to_open = FALSE, !.moving_to_close = FALSE]
           b == buzzer_expires(f)
           p == [f EXCEPT !.pairing_in_progress = FALSE]
           Same(x) == /\ x \in FirmwareState
                      /\ Agrees(fw) => Agrees(x)
                      /\ Known(fw) => Known(x)
                      /\ Turned(fw, x)
<1>1. /\ fw \in FirmwareState /\ zboss \in ZbossState
  BY DEF TypeInvariant
<1>2. /\ Run("pairing", r) \/ Run("pairing", b) \/ Run("pairing", p)
      /\ UNCHANGED <<gear, handle, active, missed>>
  BY DEF pairing_advertising_off_timer_handler, restore
<1>3. Same(f) /\ Same(g) /\ Same(p) /\ Same(b)
  BY <1>1 DEF FirmwareState, PairingTimer, buzzer_expires, Agrees, Known, Turned
<1> HIDE DEF f, g, p, b
<1>4. Good(g, h)
  BY <1>3, GoodHandler, GoodItself DEF Direction
<1> HIDE DEF h
<1>5. Good(h, r)
  BY <1>4 DEF FirmwareState, Good, Agrees, Known, Turned
<1> HIDE DEF r
<1>6. Good(g, r)
  BY <1>4, <1>5, GoodTwice
<1>7. Same(r)
  BY <1>3, <1>6 DEF Good, Turned
<1>8. QED
  BY <1>1, <1>2, <1>3, <1>7, RunZboss DEF Respects

LEMMA ButtonRespects ==
    ASSUME TypeInvariant, forget_network \/ PairingPush
    PROVE  Respects /\ UNCHANGED <<active, missed>>
<1>1. /\ fw \in FirmwareState /\ zboss \in ZbossState
  BY DEF TypeInvariant
<1>2. CASE PairingPush
  BY <1>1, <1>2, GoodMotor DEF PairingPush, PairingButton, Respects, ZbossState,
     Good
<1>3. CASE forget_network
  <2> DEFINE f == [fw EXCEPT !.pairing_timer = app_timer_start(@, "buzzer"),
                             !.pairing_in_progress = TRUE,
                             !.buzzer_on_crutch = TRUE]
  <2>1. /\ f \in FirmwareState
        /\ f.nsleep = fw.nsleep /\ f.phase = fw.phase /\ f.enable = fw.enable
        /\ f.motor_working = fw.motor_working /\ f.fail_timer = fw.fail_timer
        /\ f.need_to_auto_close_flag = fw.need_to_auto_close_flag
    BY <1>1 DEF FirmwareState, PairingTimer, app_timer_start
  <2>2. PairingButton(f)
    BY <1>3 DEF forget_network
  <2> HIDE DEF f
  <2>3. QED
    BY <1>1, <2>1, <2>2 DEF PairingButton, Respects, ZbossState, Turned, Agrees,
       Known
<1>4. QED
  BY <1>2, <1>3

-----------------------------------------------------------------------------
(* The main loop, by what its steps assign.                                *)

LEMMA StepTyped ==
    ASSUME TypeInvariant, NEW at, NEW f \in FirmwareState,
           NEW next \in {"idle", "wake", "phase", "enable", "stop", "start",
                         "logic", "clear"},
           ZbossStep(at, next, f)
    PROVE  /\ TypeInvariant' /\ fw' = f /\ UNCHANGED <<gear, handle, active, missed>>
           /\ zboss.pc = at /\ zboss'.pc = next
           /\ next # "idle" => zboss'.dir = zboss.dir
<1>1. ZbossIdle \in ZbossState /\ ZbossIdle.pc = "idle"
  BY DEF ZbossIdle, ZbossState, Direction
<1>2. next # "idle" => /\ [zboss EXCEPT !.pc = next] \in ZbossState
                       /\ [zboss EXCEPT !.pc = next].pc = next
                       /\ [zboss EXCEPT !.pc = next].dir = zboss.dir
  BY DEF TypeInvariant, ZbossState
<1>3. QED
  BY <1>1, <1>2 DEF ZbossStep, TypeInvariant

\* The steps of a command.
Assigns ==
    \/ MarkWorking \/ WakeDriver \/ SetPhase \/ SetEnable
    \/ StopFail \/ StartFail \/ SetLogic

LEMMA AssignTyped ==
    ASSUME TypeInvariant, Assigns
    PROVE  /\ TypeInvariant' /\ UNCHANGED <<gear, handle, active, missed>>
           /\ Agrees(fw) => Agrees(fw')
<1>1. fw \in FirmwareState /\ zboss \in ZbossState
  BY DEF TypeInvariant
<1>2. (zboss.dir = "closed") \in BOOLEAN /\ (zboss.dir = "open") \in BOOLEAN
      /\ zboss.logic \in BOOLEAN
  BY <1>1 DEF ZbossState
<1>3. CASE MarkWorking
  <2>1. [fw EXCEPT !.motor_working = TRUE] \in FirmwareState
    BY <1>1 DEF FirmwareState
  <2>2. QED
    BY <1>1, <1>3, <2>1, StepTyped DEF MarkWorking, FirmwareState, Agrees
<1>4. CASE WakeDriver
  <2>1. [fw EXCEPT !.nsleep = TRUE] \in FirmwareState
    BY <1>1 DEF FirmwareState
  <2>2. QED
    BY <1>1, <1>4, <2>1, StepTyped DEF WakeDriver, FirmwareState, Agrees
<1>5. CASE SetPhase
  <2> DEFINE b == zboss.dir = "closed"
  <2>1. ZbossStep("phase", "enable", [fw EXCEPT !.phase = b])
    BY <1>5 DEF SetPhase
  <2>2. b \in BOOLEAN
    OBVIOUS
  <2> HIDE DEF b
  <2>3. [fw EXCEPT !.phase = b] \in FirmwareState
    BY <1>1, <2>2 DEF FirmwareState
  <2>4. QED
    BY <1>1, <2>1, <2>3, StepTyped DEF FirmwareState, Agrees
<1>6. CASE SetEnable
  <2> DEFINE b == zboss.dir = "open"
  <2>1. ZbossStep("enable", "stop", [fw EXCEPT !.enable = b])
    BY <1>6 DEF SetEnable
  <2>2. b \in BOOLEAN
    OBVIOUS
  <2> HIDE DEF b
  <2>3. [fw EXCEPT !.enable = b] \in FirmwareState
    BY <1>1, <2>2 DEF FirmwareState
  <2>4. QED
    BY <1>1, <2>1, <2>3, StepTyped DEF FirmwareState, Agrees
<1>7. CASE StopFail
  <2>1. [fw EXCEPT !.fail_timer = "off"] \in FirmwareState
    BY <1>1 DEF FirmwareState, FailTimer
  <2>2. QED
    BY <1>1, <1>7, <2>1, StepTyped DEF StopFail, FirmwareState, Agrees
<1>8. CASE StartFail
  <2>1. [fw EXCEPT !.fail_timer = app_timer_start(@, "fault")] \in FirmwareState
    BY <1>1 DEF FirmwareState, FailTimer, app_timer_start
  <2>2. QED
    BY <1>1, <1>8, <2>1, StepTyped DEF StartFail, FirmwareState, Agrees,
       app_timer_start
<1>9. CASE SetLogic
  <2>1. [fw EXCEPT !.logic_need_to_be_restored = zboss.logic] \in FirmwareState
    BY <1>1, <1>2 DEF FirmwareState
  <2>2. QED
    BY <1>1, <1>9, <2>1, StepTyped DEF SetLogic, FirmwareState, Agrees
<1>10. QED
  BY <1>3, <1>4, <1>5, <1>6, <1>7, <1>8, <1>9 DEF Assigns

LEMMA UnpairTyped ==
    ASSUME TypeInvariant, StopPairing \/ ClearPairing
    PROVE  /\ TypeInvariant' /\ UNCHANGED <<gear, handle, active, missed>>
           /\ fw'.nsleep = fw.nsleep /\ fw'.phase = fw.phase /\ fw'.enable = fw.enable
           /\ Agrees(fw) => Agrees(fw')
           /\ Known(fw) => Known(fw')
           /\ zboss.pc \in {"unpair", "clear"} /\ zboss'.pc \in {"clear", "idle"}
<1>1. fw \in FirmwareState /\ zboss \in ZbossState
  BY DEF TypeInvariant
<1>2. CASE StopPairing
  <2>1. [fw EXCEPT !.pairing_timer = "off"] \in FirmwareState
    BY <1>1 DEF FirmwareState, PairingTimer
  <2>2. QED
    BY <1>1, <1>2, <2>1, StepTyped DEF StopPairing, FirmwareState, Agrees, Known
<1>3. CASE ClearPairing
  <2>1. [fw EXCEPT !.pairing_in_progress = FALSE] \in FirmwareState
    BY <1>1 DEF FirmwareState
  <2>2. QED
    BY <1>1, <1>3, <2>1, StepTyped DEF ClearPairing, FirmwareState, Agrees, Known
<1>4. QED
  BY <1>2, <1>3

LEMMA CommandTyped ==
    ASSUME TypeInvariant, ZclCommand \/ JoinSignal
    PROVE  /\ TypeInvariant' /\ UNCHANGED <<gear, handle, active, missed, fw>>
           /\ zboss.pc = "idle" /\ zboss'.pc \in {"mark", "unpair"}
           /\ zboss'.pc = "mark" => gear # zboss'.dir
<1>1. Due \subseteq Source
  BY DEF Due, Unreported, Source
<1>2. CASE ZclCommand
  BY <1>1, <1>2, DecisionAway DEF ZclCommand, TypeInvariant, ZbossState
<1>3. CASE JoinSignal
  BY <1>1, <1>3 DEF JoinSignal, TypeInvariant, ZbossState, ZbossIdle, Direction
<1>4. QED
  BY <1>2, <1>3

LEMMA MechanicsTyped ==
    ASSUME TypeInvariant, TurnHandle \/ MotorTurns
    PROVE  /\ TypeInvariant' /\ zboss.pc = "idle"
           /\ UNCHANGED <<active, fw, zboss>> /\ missed \subseteq missed'
<1>1. PICK g \in Position, h \in Position : Move(g, h)
  BY DEF TurnHandle, MotorTurns, TypeInvariant, Toward, Direction, Position
<1>2. Unreported \subseteq Pin
  BY DEF Unreported
<1>3. QED
  BY <1>1, <1>2 DEF Move, TypeInvariant

\* The state after power-on or a reset.
LEMMA ResetState ==
    LET f == check_valve_on_off_status_and_set_attr(Reset)
    IN  /\ f \in FirmwareState /\ Agrees(f) /\ Known(f)
        /\ ~f.nsleep /\ ~f.phase /\ ~f.enable
        /\ ZbossIdle \in ZbossState
<1>1. /\ Reset \in FirmwareState /\ Agrees(Reset) /\ Known(Reset)
      /\ ~Reset.nsleep /\ ~Reset.phase /\ ~Reset.enable
  BY DEF Reset, FirmwareState, FailTimer, PairingTimer, Agrees, Known
<1>2. ZbossIdle \in ZbossState
  BY DEF ZbossIdle, ZbossState, Direction
<1>3. QED
  BY <1>1, <1>2 DEF check_valve_on_off_status_and_set_attr, FirmwareState,
     FailTimer, app_timer_start, Agrees, Known

-----------------------------------------------------------------------------
(* The inductive invariant.                                                *)

IInv == TypeInvariant /\ CountdownMeansAutoClose

LEMMA Initially == Init => IInv
BY ResetState DEF Init, IInv, TypeInvariant, CountdownMeansAutoClose, Agrees

LEMMA Inductive == IInv /\ [Next]_vars => IInv'
<1> SUFFICES ASSUME IInv, [Next]_vars
             PROVE  IInv'
  OBVIOUS
<1>0. TypeInvariant /\ Agrees(fw)
  BY DEF IInv, CountdownMeansAutoClose, Agrees
<1> USE DEF IInv, CountdownMeansAutoClose, Agrees
<1>1. CASE TurnHandle \/ MotorTurns
  BY <1>0, <1>1, MechanicsTyped
<1>2. CASE Interrupt
  <2>1. Respects /\ active' \subseteq Pin /\ missed' \subseteq Pin
    BY <1>0, <1>2, EventRespects, FailRespects, PairingRespects, ButtonRespects
       DEF Interrupt, TypeInvariant
  <2>2. QED
    BY <1>0, <2>1 DEF Respects, TypeInvariant
<1>3. CASE MainLoop
  <2>1. Assigns \/ StopPairing \/ ClearPairing \/ ZclCommand \/ JoinSignal
    BY <1>3 DEF MainLoop, Assigns
  <2>2. QED
    BY <1>0, <2>1, AssignTyped, UnpairTyped, CommandTyped
<1>4. CASE SystemReset
  BY <1>0, <1>4, ResetState DEF SystemReset, TypeInvariant
<1>5. CASE UNCHANGED vars
  BY <1>0, <1>5 DEF vars, TypeInvariant
<1>6. QED
  BY <1>1, <1>2, <1>3, <1>4, <1>5 DEF Next

\* Every reachable state is well typed, whatever preempts a callback.
THEOREM TypeCorrect == Spec => []TypeInvariant
<1>1. IInv => TypeInvariant
  BY DEF IInv
<1>2. QED
  BY Initially, Inductive, <1>1, PTL DEF Spec

\* An auto-close countdown never expires as a motor fault, although the timer
\* they share is not restarted while it runs.
THEOREM CountdownCorrect == Spec => []CountdownMeansAutoClose
<1>1. IInv => CountdownMeansAutoClose
  BY DEF IInv
<1>2. QED
  BY Initially, Inductive, <1>1, PTL DEF Spec

-----------------------------------------------------------------------------
(* The valve drive.                                                        *)

\* A sleeping bridge is not set toward an end the drive is at: a command that
\* is preempted and put to sleep leaves its inputs set behind.
Parked(f) ==
    /\ f.enable /\ ~f.phase => f.nsleep \/ gear # "open"
    /\ f.phase /\ ~f.enable => f.nsleep \/ gear # "closed"

DInv ==
    /\ IInv
    /\ zboss.pc \in {"mark", "wake", "phase", "enable"} => gear # zboss.dir
    /\ Parked(fw)

\* What a step does to the bridge, seen from the valve.
LEMMA TurnedIsAStep ==
    ASSUME fw \in FirmwareState, Parked(fw), fw' \in FirmwareState,
           UNCHANGED <<gear, handle>>, Turned(fw, fw')
    PROVE  Parked(fw)' /\ [Valve!Next]_Valve!vars
<1>1. Parked(fw)'
  BY DEF Turned, Parked, FirmwareState, Direction
<1>2. motor' \in {motor, "rest"} \/ (motor' \in Direction /\ gear # motor')
  BY DEF Turned, motor, Driving, FirmwareState, Direction
<1>3. QED
  BY <1>1, <1>2 DEF Valve!Next, Valve!Start, Valve!Stop, Valve!vars,
     Valve!Direction, Direction

LEMMA DriveInit == Init => DInv /\ Valve!Init
BY Initially, ResetState DEF Init, DInv, Parked, ZbossIdle, Valve!Init,
   Valve!Position, Position, motor, Driving

\* One assignment of a command: the inputs of the bridge change one at a time,
\* and those of an asleep or a preempted one may be anything that is parked.
LEMMA AssignIsAStep ==
    ASSUME DInv, Assigns
    PROVE  /\ Parked(fw)' /\ [Valve!Next]_Valve!vars
           /\ zboss'.pc \in {"mark", "wake", "phase", "enable"} => gear' # zboss'.dir
<1>0. /\ TypeInvariant /\ fw \in FirmwareState /\ zboss \in ZbossState /\ Parked(fw)
      /\ zboss.pc \in {"mark", "wake", "phase", "enable"} => gear # zboss.dir
      /\ UNCHANGED <<gear, handle>>
  BY AssignTyped DEF DInv, IInv, TypeInvariant
<1>1. zboss'.pc \in {"mark", "wake", "phase", "enable"} => gear' # zboss'.dir
  BY <1>0 DEF Assigns, MarkWorking, WakeDriver, SetPhase, SetEnable, StopFail,
     StartFail, SetLogic, ZbossStep, ZbossIdle, ZbossState
<1>2. /\ Parked(fw)'
      /\ motor' \in {motor, "rest"} \/ (motor' \in Direction /\ gear # motor')
  <2>1. CASE MarkWorking \/ StopFail \/ StartFail \/ SetLogic
    <3>1. fw'.nsleep = fw.nsleep /\ fw'.phase = fw.phase /\ fw'.enable = fw.enable
      BY <1>0, <2>1 DEF MarkWorking, StopFail, StartFail, SetLogic, ZbossStep,
         FirmwareState
    <3>2. QED
      BY <1>0, <3>1 DEF Parked, motor, Driving
  <2>2. CASE WakeDriver
    <3>1. fw'.nsleep /\ fw'.phase = fw.phase /\ fw'.enable = fw.enable
      BY <1>0, <2>2 DEF WakeDriver, ZbossStep, FirmwareState
    <3>2. QED
      BY <1>0, <3>1 DEF Parked, motor, Driving, Direction, FirmwareState
  <2>3. CASE SetPhase
    <3>1. /\ fw'.nsleep = fw.nsleep /\ fw'.phase = (zboss.dir = "closed")
          /\ fw'.enable = fw.enable
          /\ gear # zboss.dir /\ zboss.dir \in Direction
      BY <1>0, <2>3 DEF SetPhase, ZbossStep, FirmwareState, ZbossState
    <3>2. QED
      BY <1>0, <3>1 DEF Parked, motor, Driving, Direction, FirmwareState
  <2>4. CASE SetEnable
    <3>1. /\ fw'.nsleep = fw.nsleep /\ fw'.enable = (zboss.dir = "open")
          /\ fw'.phase = fw.phase
          /\ gear # zboss.dir /\ zboss.dir \in Direction
      BY <1>0, <2>4 DEF SetEnable, ZbossStep, FirmwareState, ZbossState
    <3>2. QED
      BY <1>0, <3>1 DEF Parked, motor, Driving, Direction, FirmwareState
  <2>5. QED
    BY <2>1, <2>2, <2>3, <2>4 DEF Assigns
<1>3. QED
  BY <1>0, <1>1, <1>2 DEF Valve!Next, Valve!Start, Valve!Stop, Valve!vars,
     Valve!Direction, Direction

LEMMA MechanicsIsAStep ==
    ASSUME DInv, TurnHandle \/ MotorTurns
    PROVE  Parked(fw)' /\ [Valve!Next]_Valve!vars
<1>0. TypeInvariant /\ Parked(fw) /\ UNCHANGED <<fw, zboss>>
  BY MechanicsTyped DEF DInv, IInv
<1>1. CASE TurnHandle
  <2>1. Valve!TurnHandle
    BY <1>1 DEF TurnHandle, Move, Adjacent, Valve!TurnHandle, Valve!Adjacent,
                Valve!Position, Position, motor, Driving
  <2>2. gear' = gear
    BY <1>1 DEF TurnHandle, Move
  <2>3. QED
    BY <1>0, <2>1, <2>2 DEF Parked, Valve!Next
<1>2. CASE MotorTurns
  <2>1. PICK dir \in Direction :
           /\ Driving(dir) /\ gear # dir
           /\ \E h \in {handle} \cup IF handle = dir THEN {} ELSE {Toward(handle, dir)} :
                 Move(Toward(gear, dir), h)
    BY <1>2 DEF MotorTurns
  <2>2. motor = dir /\ motor' = motor /\ fw.nsleep
    BY <1>0, <2>1 DEF motor, Driving, Direction
  <2>3. Valve!Travel(dir)
    BY <2>1, <2>2 DEF Move, Toward, Valve!Travel, Valve!Toward
  <2>4. QED
    BY <1>0, <2>1, <2>2, <2>3 DEF Parked, Valve!Next, Valve!Direction, Direction
<1>3. QED
  BY <1>1, <1>2

LEMMA DriveNext == DInv /\ [Next]_vars => DInv' /\ [Valve!Next]_Valve!vars
<1> SUFFICES ASSUME DInv, [Next]_vars
             PROVE  /\ Parked(fw)' /\ [Valve!Next]_Valve!vars
                    /\ (zboss.pc \in {"mark", "wake", "phase", "enable"} =>
                           gear # zboss.dir)'
  BY Inductive DEF DInv
<1>0. /\ TypeInvariant /\ fw \in FirmwareState /\ Parked(fw)
      /\ zboss.pc \in {"mark", "wake", "phase", "enable"} => gear # zboss.dir
  BY DEF DInv, IInv, TypeInvariant
<1>1. CASE TurnHandle \/ MotorTurns
  BY <1>0, <1>1, MechanicsIsAStep, MechanicsTyped
<1>2. CASE Interrupt
  <2>1. Respects
    BY <1>0, <1>2, EventRespects, FailRespects, PairingRespects, ButtonRespects
       DEF Interrupt
  <2>2. QED
    BY <1>0, <2>1, TurnedIsAStep DEF Respects
<1>3. CASE Assigns
  BY <1>3, AssignIsAStep
<1>4. CASE StopPairing \/ ClearPairing
  <2>1. /\ Turned(fw, fw') /\ UNCHANGED <<gear, handle>> /\ fw' \in FirmwareState
        /\ zboss'.pc \in {"clear", "idle"}
    BY <1>0, <1>4, UnpairTyped DEF Turned, TypeInvariant
  <2>2. QED
    BY <1>0, <2>1, TurnedIsAStep
<1>5. CASE ZclCommand \/ JoinSignal
  BY <1>0, <1>5, CommandTyped DEF Parked, Valve!vars, motor, Driving
<1>6. CASE SystemReset
  <2>1. /\ Turned(fw, fw') /\ UNCHANGED <<gear, handle>> /\ fw' \in FirmwareState
        /\ zboss'.pc = "idle"
    BY <1>6, ResetState DEF SystemReset, Turned, ZbossIdle
  <2>2. QED
    BY <1>0, <2>1, TurnedIsAStep
<1>7. CASE UNCHANGED vars
  BY <1>0, <1>7 DEF vars, Parked, Valve!vars, motor, Driving
<1>8. QED
  BY <1>1, <1>2, <1>3, <1>4, <1>5, <1>6, <1>7 DEF Next, MainLoop, Assigns

\* The firmware implements the valve drive: whatever preempts a command, the
\* motor is never switched on toward an end the drive is at.
THEOREM ValveImplemented == Spec => ImplementsValve
<1>1. QED
  BY DriveInit, DriveNext, PTL DEF Spec, ImplementsValve, Valve!Spec

-----------------------------------------------------------------------------
(* How the firmware loses track of its motor.                              *)

LEMMA TrackStep ==
    ASSUME TypeInvariant, Known(fw), [Next]_vars
    PROVE  Known(fw') \/ (zboss.pc \in {"wake", "start"} /\ ~fw.motor_working)
<1>0. fw \in FirmwareState /\ zboss \in ZbossState
  BY DEF TypeInvariant
<1>1. CASE TurnHandle \/ MotorTurns
  BY <1>1, MechanicsTyped DEF Known
<1>2. CASE Interrupt
  BY <1>2, EventRespects, FailRespects, PairingRespects, ButtonRespects
     DEF Interrupt, Respects
<1>3. CASE MarkWorking \/ SetPhase \/ SetEnable \/ StopFail \/ SetLogic
  BY <1>0, <1>3 DEF MarkWorking, SetPhase, SetEnable, StopFail, SetLogic,
     ZbossStep, FirmwareState, Known
<1>4. CASE WakeDriver \/ StartFail
  <2>1. /\ zboss.pc \in {"wake", "start"}
        /\ fw'.motor_working = fw.motor_working
    BY <1>0, <1>4 DEF WakeDriver, StartFail, ZbossStep, FirmwareState
  <2>2. QED
    BY <2>1 DEF Known
<1>5. CASE StopPairing \/ ClearPairing
  BY <1>5, UnpairTyped
<1>6. CASE ZclCommand \/ JoinSignal
  BY <1>6, CommandTyped DEF Known
<1>7. CASE SystemReset
  BY <1>7, ResetState DEF SystemReset
<1>8. CASE UNCHANGED vars
  BY <1>8 DEF vars, Known
<1>9. QED
  BY <1>1, <1>2, <1>3, <1>4, <1>5, <1>6, <1>7, <1>8 DEF Next, MainLoop

\* Whatever preempts a command and whenever the pairing button is pushed, an
\* awake motor or the motor timer escapes motor_working in one way only: a stop
\* has overtaken a command that goes on to wake the driver or to start the
\* timer.
THEOREM TrackCorrect == Spec => LosesTrackOnlyWhenOvertaken
<1>1. TypeInvariant /\ [Next]_vars
         => [Known(fw) /\ ~Known(fw)'
               => zboss.pc \in {"wake", "start"} /\ ~fw.motor_working]_vars
  BY TrackStep DEF Known
<1>2. QED
  BY <1>1, TypeCorrect, PTL DEF Spec, LosesTrackOnlyWhenOvertaken

-----------------------------------------------------------------------------
(* Whatever preempts a command: what stops a motor at its end, and what    *)
(* watches an awake one.  The reports that are due, and those app_button   *)
(* has missed, take the place of the debounces of ValveControl.            *)

\* The switches with a report due, or one that was missed.
Owed == Unreported \cup missed

Drives(f, dir) ==
    f.nsleep /\ f.phase = (dir = "closed") /\ f.enable = (dir = "open")

LimitPin(dir) == IF dir = "open" THEN "open" ELSE "close"

\* What stops a motor that has reached the end it is driven to: the report of
\* the limit switch, or after it the report of a control switch pressed.
Stopping(f, dir, pins) ==
    Drives(f, dir) /\ gear = dir =>
        \/ LimitPin(dir) \in pins
        \/ /\ f.full_press_flag
           /\ handle = "open" => "control" \in pins
           /\ handle = "closed" => "control2" \in pins

\* What watches the motor: a timer, the flag of a dropped expiry, or a control
\* switch that is at its end or has a report due.
Watched(f, pins) ==
    \/ f.fail_timer # "off" \/ f.need_to_auto_close_flag
    \/ handle # "mid"
    \/ "control" \in pins \/ "control2" \in pins

\* Where in a callback an awake motor is watched.  A command stops the timer
\* before it starts it, but by then has turned the motor from its end.
Resting == {"idle", "logic", "unpair", "clear"}
Turning == {"enable", "stop", "start"}

WInv ==
    /\ DInv
    /\ \A dir \in Direction :
          /\ Stopping(fw, dir, Owed)
          /\ Drives(fw, dir) /\ gear = dir =>
                Watched(fw, Owed) /\ zboss.pc \notin Turning
    /\ zboss.pc \in Resting /\ fw.nsleep => Watched(fw, Owed)

\* What an interrupt may do, with what is due before and after it: leave a
\* motor that will be stopped so, and put it to sleep, leave it watched, or
\* leave an unwatched one as it was.
Safe(f, pins, g, left) ==
    /\ (\A dir \in Direction : Stopping(f, dir, pins)) =>
           \A dir \in Direction : Stopping(g, dir, left)
    /\ \/ ~g.nsleep
       \/ Watched(g, left)
       \/ /\ ~Watched(f, pins)
          /\ g.nsleep = f.nsleep /\ g.phase = f.phase /\ g.enable = f.enable

-----------------------------------------------------------------------------
(* The functions of main.c.                                                *)

LEMMA SafeKept ==
    ASSUME NEW f, NEW g, NEW pins,
           g.nsleep = f.nsleep, g.phase = f.phase, g.enable = f.enable,
           g.full_press_flag = f.full_press_flag,
           Watched(f, pins) => Watched(g, pins)
    PROVE  Safe(f, pins, g, pins)
BY DEF Safe, Stopping, Drives

LEMMA SafeAsleep ==
    ASSUME NEW f, NEW g, NEW pins, NEW left, ~g.nsleep
    PROVE  Safe(f, pins, g, left)
BY DEF Safe, Stopping, Drives

LEMMA SafeTwice ==
    ASSUME NEW f, NEW g, NEW h, NEW pins, NEW left,
           Safe(f, pins, g, pins), Safe(g, pins, h, left)
    PROVE  Safe(f, pins, h, left)
BY DEF Safe

LEMMA SleepSafe ==
    ASSUME NEW f \in FirmwareState, NEW pins, NEW left
    PROVE  /\ Safe(f, pins, MOTOR_SLEEP(f), left)
           /\ ~MOTOR_SLEEP(f).nsleep /\ ~stop_motor(f).nsleep
<1>1. ~MOTOR_SLEEP(f).nsleep /\ ~stop_motor(f).nsleep
  BY DEF MOTOR_SLEEP, stop_motor, FirmwareState
<1>2. QED
  BY <1>1, SafeAsleep

\* A run the handler starts has its timer, and leads away from the end the
\* drive is at; asked to close, it leaves the motor alone only with the handle
\* at an end.
LEMMA HandlerSafe ==
    ASSUME NEW f \in FirmwareState, NEW to \in Direction, NEW pins
    PROVE  /\ Safe(f, pins, valve_open_close_handler(f, to), pins)
           /\ to = "closed" => Watched(valve_open_close_handler(f, to), pins)
<1>1. CASE ~Decision(to).act
  <2>1. valve_open_close_handler(f, to) = f
    BY <1>1 DEF valve_open_close_handler
  <2>2. to = "closed" => handle # "mid"
    BY <1>1 DEF Decision, CloseDecision, Act, BUTTON_OPEN_PRESSED,
       BUTTON_CLOSE_PRESSED, BUTTON_CONTROL_PRESSED, BUTTON_CONTROL2_PRESSED, Pressed
  <2>3. QED
    BY <2>1, <2>2, SafeKept DEF Watched
<1>2. CASE Decision(to).act
  <2> DEFINE dir == Decision(to).dir
             g   == valve_open_close_handler(f, to)
  <2>1. gear # dir /\ dir \in Direction
    BY <1>2, DecisionAway
  <2>2. /\ g.phase = (dir = "closed") /\ g.enable = (dir = "open")
        /\ g.fail_timer = "fault"
    BY <1>2 DEF valve_open_close_handler, valve_with_timer, FirmwareState
  <2> HIDE DEF dir, g
  <2>3. \A d \in Direction : Drives(g, d) => d = dir
    BY <2>1, <2>2 DEF Drives, Direction
  <2>4. Safe(f, pins, g, pins) /\ Watched(g, pins)
    BY <2>1, <2>2, <2>3 DEF Safe, Stopping, Watched
  <2>5. QED
    BY <2>4 DEF g
<1>3. QED
  BY <1>1, <1>2

\* Checking the status does not touch the bridge, and leaves a timer running
\* unless the handle is at an end.
LEMMA CheckKeeps ==
    ASSUME NEW f \in FirmwareState, NEW pins, handle \in Position
    PROVE  LET g == check_valve_on_off_status_and_set_attr(f)
           IN  /\ g.nsleep = f.nsleep /\ g.phase = f.phase /\ g.enable = f.enable
               /\ g.full_press_flag = f.full_press_flag
               /\ Watched(g, pins)
BY DEF check_valve_on_off_status_and_set_attr, app_timer_start, FirmwareState,
       Watched, Position, BUTTON_CONTROL_PRESSED, BUTTON_CONTROL2_PRESSED, Pressed

\* What a report that is due leaves to the others once it has been delivered:
\* nothing, if it was the one that was to stop the motor.
LEMMA LimitSafe ==
    ASSUME NEW f \in FirmwareState, NEW pin \in {"open", "close"}, NEW pins
    PROVE  Safe(f, pins, buttons_handler(f, pin, Active(pin)), pins \ {pin})
<1> DEFINE rest == pins \ {pin}
<1>1. Watched(f, rest) <=> Watched(f, pins)
  BY DEF Watched
<1>2. CASE ~Active(pin)
  <2>1. buttons_handler(f, pin, Active(pin)) = f
    BY <1>2 DEF buttons_handler, Control
  <2>2. \A dir \in Direction : gear = dir => LimitPin(dir) # pin
    BY <1>2 DEF Active, Pressed, Control, LimitPin, Direction
  <2>3. QED
    BY <1>1, <2>1, <2>2 DEF Safe, Stopping
<1>3. CASE Active(pin)
  <2>1. buttons_handler(f, pin, Active(pin)) = limit_pressed(f)
    BY <1>3 DEF buttons_handler, Control
  <2>2. CASE BUTTON_CONTROL_PRESSED \/ BUTTON_CONTROL2_PRESSED
    BY <2>1, <2>2, SleepSafe, SafeAsleep DEF limit_pressed
  <2>3. CASE ~(BUTTON_CONTROL_PRESSED \/ BUTTON_CONTROL2_PRESSED)
    <3> DEFINE g == [f EXCEPT !.full_press_flag = TRUE]
    <3>1. limit_pressed(f) = g
      BY <2>3 DEF limit_pressed
    <3>2. /\ g.full_press_flag
          /\ g.nsleep = f.nsleep /\ g.phase = f.phase /\ g.enable = f.enable
          /\ g.fail_timer = f.fail_timer
          /\ g.need_to_auto_close_flag = f.need_to_auto_close_flag
      BY DEF FirmwareState
    <3>3. handle # "open" /\ handle # "closed"
      BY <2>3 DEF BUTTON_CONTROL_PRESSED, BUTTON_CONTROL2_PRESSED, Pressed
    <3> HIDE DEF g
    <3>4. Safe(f, pins, g, rest)
      BY <1>1, <3>2, <3>3 DEF Safe, Stopping, Watched
    <3>5. QED
      BY <2>1, <3>1, <3>4
  <2>4. QED
    BY <2>2, <2>3
<1>4. QED
  BY <1>2, <1>3

LEMMA ControlSafe ==
    ASSUME NEW f \in FirmwareState, NEW pin \in Control, NEW pins,
           handle \in Position
    PROVE  Safe(f, pins, buttons_handler(f, pin, Active(pin)), pins \ {pin})
<1> DEFINE rest == pins \ {pin}
<1>0. \A dir \in Direction : LimitPin(dir) # pin
  BY DEF LimitPin, Control
<1>1. CASE ~Active(pin)
  <2>1. buttons_handler(f, pin, Active(pin)) = control_pressed(f)
    BY <1>1 DEF buttons_handler
  <2>2. CASE f.full_press_flag
    <3> DEFINE s == stop_motor(f)
    <3>1. s \in FirmwareState /\ ~s.nsleep
      BY GoodMotor, SleepSafe DEF Good
    <3>2. control_pressed(f) = check_valve_on_off_status_and_set_attr(s)
      BY <2>2 DEF control_pressed
    <3> HIDE DEF s
    <3>3. QED
      BY <2>1, <3>1, <3>2, CheckKeeps, SafeAsleep
  <2>3. CASE ~f.full_press_flag
    <3> DEFINE g == check_valve_on_off_status_and_set_attr(f)
    <3>1. control_pressed(f) = g
      BY <2>3 DEF control_pressed
    <3>2. /\ g.nsleep = f.nsleep /\ g.phase = f.phase /\ g.enable = f.enable
          /\ Watched(g, rest)
      BY CheckKeeps
    <3> HIDE DEF g
    <3>3. Safe(f, pins, g, rest)
      BY <1>0, <2>3, <3>2 DEF Safe, Stopping, Drives
    <3>4. QED
      BY <2>1, <3>1, <3>3
  <2>4. QED
    BY <2>2, <2>3
<1>2. CASE Active(pin)
  <2>1. buttons_handler(f, pin, Active(pin)) = control_released(f)
    BY <1>2 DEF buttons_handler
  <2>2. CASE f.logic_need_to_be_restored /\ f.double_click_awaiting
    <3>1. ~control_released(f).nsleep
      BY <2>2 DEF control_released, MOTOR_SLEEP, FirmwareState
    <3>2. QED
      BY <2>1, <3>1, SafeAsleep
  <2>3. CASE ~(f.logic_need_to_be_restored /\ f.double_click_awaiting)
    <3> DEFINE g == check_valve_on_off_status_and_set_attr(f)
    <3>1. control_released(f) = g
      BY <2>3 DEF control_released
    <3>2. /\ g.nsleep = f.nsleep /\ g.phase = f.phase /\ g.enable = f.enable
          /\ g.full_press_flag = f.full_press_flag /\ Watched(g, rest)
      BY CheckKeeps
    <3>3. /\ handle = "open" => pin # "control"
          /\ handle = "closed" => pin # "control2"
      BY <1>2 DEF Active, Pressed, Control
    <3> HIDE DEF g
    <3>4. Safe(f, pins, g, rest)
      BY <1>0, <3>2, <3>3 DEF Safe, Stopping, Drives
    <3>5. QED
      BY <2>1, <3>1, <3>4
  <2>4. QED
    BY <2>2, <2>3
<1>3. QED
  BY <1>1, <1>2

-----------------------------------------------------------------------------
(* The steps.                                                              *)

\* When app_button would report each switch active.
ReportedActive ==
    /\ Active("open") <=> gear = "open"
    /\ Active("close") <=> gear = "closed"
    /\ Active("control") <=> handle # "open"
    /\ Active("control2") <=> handle # "closed"

LEMMA PinActive == ReportedActive
<1>1. /\ Pressed("open") <=> gear = "open"
      /\ Pressed("close") <=> gear = "closed"
      /\ Pressed("control") <=> handle = "open"
      /\ Pressed("control2") <=> handle = "closed"
  BY DEF Pressed
<1>2. /\ "open" \notin Control /\ "close" \notin Control
      /\ "control" \in Control /\ "control2" \in Control
  BY DEF Control
<1>3. ASSUME NEW pin PROVE Active(pin) <=> ~(Pressed(pin) <=> pin \in Control)
  <2>1. Pressed(pin) \in BOOLEAN /\ (pin \in Control) \in BOOLEAN
    BY DEF Pressed
  <2>2. QED
    BY <2>1, Zenon DEF Active
<1>4. QED
  BY <1>1, <1>2, <1>3 DEF ReportedActive

LEMMA PinActiveNext == ReportedActive'
BY PinActive, PTL

\* A switch that the mechanics turn has a report due, or a missed one.
LEMMA TurnedIsOwed ==
    ASSUME NEW g2, NEW h2, Move(g2, h2)
    PROVE  /\ active' = active /\ gear' = g2 /\ handle' = h2
           /\ zboss.pc = "idle" /\ UNCHANGED <<fw, zboss>>
           /\ g2 = "open" /\ gear # "open" => "open" \in Owed'
           /\ g2 = "closed" /\ gear # "closed" => "close" \in Owed'
           /\ active # {} =>
                 /\ h2 = "open" /\ handle # "open" => "control" \in Owed'
                 /\ h2 = "closed" /\ handle # "closed" => "control2" \in Owed'
           /\ h2 = "mid" /\ handle = "open" => "control" \in Owed'
           /\ h2 = "mid" /\ handle = "closed" => "control2" \in Owed'
           /\ g2 = gear =>
                 /\ "open" \in Owed => "open" \in Owed'
                 /\ "close" \in Owed => "close" \in Owed'
           /\ h2 = handle =>
                 /\ "control" \in Owed => "control" \in Owed'
                 /\ "control2" \in Owed => "control2" \in Owed'
<1>1. /\ active' = active /\ gear' = g2 /\ handle' = h2
      /\ zboss.pc = "idle" /\ UNCHANGED <<fw, zboss>>
      /\ missed' = missed \cup
            {pin \in Unreported : active # {} /\ Active(pin)' # Active(pin)}
  BY DEF Move
<1>2. /\ Active("open") <=> gear = "open"
      /\ Active("close") <=> gear = "closed"
      /\ Active("control") <=> handle # "open"
      /\ Active("control2") <=> handle # "closed"
  BY PinActive DEF ReportedActive
<1>3. /\ Active("open")' <=> g2 = "open"
      /\ Active("close")' <=> g2 = "closed"
      /\ Active("control")' <=> h2 # "open"
      /\ Active("control2")' <=> h2 # "closed"
  <2>1. /\ Active("open")' <=> gear' = "open"
        /\ Active("close")' <=> gear' = "closed"
        /\ Active("control")' <=> handle' # "open"
        /\ Active("control2")' <=> handle' # "closed"
    BY PinActiveNext DEF ReportedActive
  <2>2. QED
    BY <1>1, <2>1
<1>4. ASSUME NEW pin \in Pin
      PROVE  /\ pin \in Owed <=>
                   pin \in missed \/ ~(pin \in active <=> Active(pin))
             /\ pin \in Owed' <=>
                   \/ pin \in missed
                   \/ ~(pin \in active <=> Active(pin)')
                   \/ /\ ~(pin \in active <=> Active(pin)) /\ active # {}
                      /\ ~(Active(pin)' <=> Active(pin))
  <2>1. (pin \in active) \in BOOLEAN /\ Active(pin) \in BOOLEAN
        /\ (pin \in active') \in BOOLEAN /\ Active(pin)' \in BOOLEAN
    BY DEF Active
  <2>2. /\ pin \in Unreported <=> (pin \in active) # Active(pin)
        /\ pin \in Unreported' <=> (pin \in active') # Active(pin)'
    BY DEF Unreported
  <2>3. /\ pin \in Unreported <=> ~(pin \in active <=> Active(pin))
        /\ pin \in Unreported' <=> ~(pin \in active <=> Active(pin)')
    BY <1>1, <2>1, <2>2, Zenon
  <2>4. pin \in missed' <=>
           \/ pin \in missed
           \/ pin \in Unreported /\ active # {} /\ ~(Active(pin)' <=> Active(pin))
    BY <1>1, <2>1, Zenon
  <2>5. /\ pin \in Owed <=> pin \in Unreported \/ pin \in missed
        /\ pin \in Owed' <=> pin \in Unreported' \/ pin \in missed'
    BY DEF Owed
  <2>6. QED
    BY <2>3, <2>4, <2>5, Zenon
<1>5. {"open", "close", "control", "control2"} \subseteq Pin
  BY DEF Pin, Control
<1> HIDE DEF Owed, Active
<1>6. QED
  BY <1>1, <1>2, <1>3, <1>4, <1>5

LEMMA MechanicsSafe ==
    ASSUME TypeInvariant, TurnHandle \/ MotorTurns,
           \A dir \in Direction : Stopping(fw, dir, Owed)
    PROVE  /\ \A dir \in Direction : Stopping(fw, dir, Owed)'
           /\ Watched(fw, Owed) => Watched(fw, Owed)'
<1>1. PICK g2, h2 : Move(g2, h2)
  BY DEF TurnHandle, MotorTurns
<1>2. /\ active' = active /\ gear' = g2 /\ handle' = h2 /\ fw' = fw
      /\ g2 = "open" /\ gear # "open" => "open" \in Owed'
      /\ g2 = "closed" /\ gear # "closed" => "close" \in Owed'
      /\ active # {} =>
            /\ h2 = "open" /\ handle # "open" => "control" \in Owed'
            /\ h2 = "closed" /\ handle # "closed" => "control2" \in Owed'
      /\ h2 = "mid" /\ handle = "open" => "control" \in Owed'
      /\ h2 = "mid" /\ handle = "closed" => "control2" \in Owed'
      /\ g2 = gear =>
            /\ "open" \in Owed => "open" \in Owed'
            /\ "close" \in Owed => "close" \in Owed'
      /\ h2 = handle =>
            /\ "control" \in Owed => "control" \in Owed'
            /\ "control2" \in Owed => "control2" \in Owed'
  BY <1>1, TurnedIsOwed
<1>3. ASSUME NEW dir \in Direction, Drives(fw, dir), g2 = dir
      PROVE  \/ LimitPin(dir) \in Owed'
             \/ /\ fw.full_press_flag
                /\ h2 = "open" => "control" \in Owed'
                /\ h2 = "closed" => "control2" \in Owed'
  <2>1. CASE gear # dir
    BY <1>2, <1>3, <2>1 DEF LimitPin, Direction
  <2>2. CASE gear = dir /\ LimitPin(dir) \in Owed
    BY <1>2, <1>3, <2>2 DEF LimitPin
  <2>3. CASE gear = dir /\ LimitPin(dir) \notin Owed
    <3>1. active # {}
      BY <2>3 DEF Owed, Unreported, Active, Pressed, Control, Pin, LimitPin, Direction
    <3>2. /\ fw.full_press_flag
          /\ handle = "open" => "control" \in Owed
          /\ handle = "closed" => "control2" \in Owed
      BY <1>3, <2>3 DEF Stopping
    <3>3. QED
      BY <1>2, <3>1, <3>2
  <2>4. QED
    BY <2>1, <2>2, <2>3
<1>4. Watched(fw, Owed) => Watched(fw, Owed)'
  BY <1>2 DEF Watched, TypeInvariant, Position
<1>5. QED
  BY <1>2, <1>3, <1>4 DEF Stopping, Drives

\* What a step of the interrupt leaves, seen from the switches it leaves.
LEMMA OwedSame ==
    ASSUME UNCHANGED <<gear, handle, active, missed>>
    PROVE  Owed' = Owed
BY DEF Owed, Unreported, Active, Pressed

LEMMA EventSafe ==
    ASSUME TypeInvariant, NEW pin \in Pin, ButtonEvent(pin)
    PROVE  Safe(fw, Owed, fw', Owed')
<1>1. /\ fw' = buttons_handler(fw, pin, Active(pin))
      /\ pin \in Unreported
      /\ active' = IF Active(pin) THEN active \cup {pin} ELSE active \ {pin}
      /\ missed' = missed \ {pin}
      /\ UNCHANGED <<gear, handle>>
  BY DEF ButtonEvent, Run
<1>2. Owed' = Owed \ {pin}
  <2>1. \A q : Active(q)' = Active(q) /\ Active(q) \in BOOLEAN
    BY <1>1 DEF Active, Pressed
  <2>2. \A q : q \in Unreported <=> q \in Pin /\ (q \in active) # Active(q)
    BY DEF Unreported
  <2>3. \A q : q \in Unreported' <=> q \in Pin /\ (q \in active') # Active(q)
    BY <2>1 DEF Unreported
  <2> HIDE DEF Active, Unreported
  <2>4. \A q : q \in Unreported' <=> q \in Unreported /\ q # pin
    BY <1>1, <2>1, <2>2, <2>3
  <2>5. QED
    BY <1>1, <2>4 DEF Owed
<1>3. Safe(fw, Owed, buttons_handler(fw, pin, Active(pin)), Owed \ {pin})
  BY LimitSafe, ControlSafe DEF TypeInvariant, Pin
<1>4. QED
  BY <1>1, <1>2, <1>3

\* The expiry of a running timer: a kept flag, a motor put to sleep, or a run
\* the handler decided on.
LEMMA FailSafe ==
    ASSUME TypeInvariant, fail_report_timer_handler
    PROVE  Safe(fw, Owed, fw', Owed')
<1> DEFINE f == [fw EXCEPT !.fail_timer = "off"]
           g == [f EXCEPT !.need_to_auto_close_flag = FALSE]
           h == [f EXCEPT !.motor_working = FALSE]
           s == MOTOR_SLEEP(h)
           c == check_valve_on_off_status_and_set_attr(s)
           v == valve_open_close_handler(g, "closed")
<1>1. /\ fw' = v \/ (fw' = f /\ f.need_to_auto_close_flag) \/ fw' = c
      /\ UNCHANGED <<gear, handle, active, missed>>
  BY DEF fail_report_timer_handler, Run
<1>2. fw \in FirmwareState /\ handle \in Position
  BY DEF TypeInvariant
<1>3. /\ f \in FirmwareState /\ g \in FirmwareState /\ h \in FirmwareState
      /\ \A x \in {f, g} :
            /\ x.nsleep = fw.nsleep /\ x.phase = fw.phase /\ x.enable = fw.enable
            /\ x.full_press_flag = fw.full_press_flag
  BY <1>2 DEF FirmwareState, FailTimer
<1> HIDE DEF f, g, h
<1>4. Safe(fw, Owed, v, Owed)
  <2>1. Safe(g, Owed, v, Owed) /\ Watched(v, Owed)
    BY <1>3, HandlerSafe DEF Direction
  <2> HIDE DEF v
  <2>2. QED
    BY <1>3, <2>1 DEF Safe, Stopping, Drives
<1>5. f.need_to_auto_close_flag => Safe(fw, Owed, f, Owed)
  BY <1>3, SafeKept DEF Watched
<1>6. s \in FirmwareState /\ ~s.nsleep
  BY <1>3, GoodMotor, SleepSafe DEF Good
<1> HIDE DEF s, v
<1>7. Safe(fw, Owed, c, Owed)
  BY <1>2, <1>6, CheckKeeps, SafeAsleep
<1> HIDE DEF c
<1>8. QED
  BY <1>1, <1>4, <1>5, <1>7, OwedSame

LEMMA PairingSafe ==
    ASSUME TypeInvariant, pairing_advertising_off_timer_handler
    PROVE  Safe(fw, Owed, fw', Owed')
<1> DEFINE f == [fw EXCEPT !.pairing_timer = "off"]
           g == [f EXCEPT !.logic_need_to_be_restored = FALSE]
           h == IF      f.moving_to_close THEN valve_open_close_handler(g, "closed")
                ELSE IF f.moving_to_open  THEN valve_open_close_handler(g, "open")
                ELSE g
           r == [h EXCEPT !.moving_to_open = FALSE, !.moving_to_close = FALSE]
           b == buzzer_expires(f)
           p == [f EXCEPT !.pairing_in_progress = FALSE]
<1>1. /\ fw' \in {r, b, p}
      /\ UNCHANGED <<gear, handle, active, missed>>
  BY DEF pairing_advertising_off_timer_handler, restore, Run
<1>2. fw \in FirmwareState
  BY DEF TypeInvariant
<1>3. /\ g \in FirmwareState
      /\ \A x \in {g, b, p} :
            /\ x.nsleep = fw.nsleep /\ x.phase = fw.phase /\ x.enable = fw.enable
            /\ x.full_press_flag = fw.full_press_flag
            /\ x.fail_timer = fw.fail_timer
            /\ x.need_to_auto_close_flag = fw.need_to_auto_close_flag
  BY <1>2 DEF buzzer_expires, FirmwareState, PairingTimer
<1> HIDE DEF f, g, b, p
<1>4. \A x \in {g, b, p} : Safe(fw, Owed, x, Owed)
  BY <1>3, SafeKept DEF Watched
<1>5. h \in FirmwareState /\ Safe(g, Owed, h, Owed)
  BY <1>3, HandlerSafe, GoodHandler, SafeKept DEF Direction, Good
<1> HIDE DEF h
<1>6. Safe(h, Owed, r, Owed)
  <2>1. /\ r.nsleep = h.nsleep /\ r.phase = h.phase /\ r.enable = h.enable
        /\ r.full_press_flag = h.full_press_flag
        /\ r.fail_timer = h.fail_timer
        /\ r.need_to_auto_close_flag = h.need_to_auto_close_flag
    BY <1>5 DEF FirmwareState
  <2> HIDE DEF r
  <2>2. QED
    BY <2>1, SafeKept DEF Watched
<1> HIDE DEF r
<1>7. Safe(fw, Owed, r, Owed)
  BY <1>4, <1>5, <1>6, SafeTwice
<1>8. QED
  BY <1>1, <1>4, <1>7, OwedSame

LEMMA ButtonSafe ==
    ASSUME TypeInvariant, forget_network \/ PairingPush
    PROVE  Safe(fw, Owed, fw', Owed')
<1>1. fw \in FirmwareState /\ Owed' = Owed
  BY OwedSame DEF TypeInvariant, forget_network, PairingPush, PairingButton
<1>2. CASE PairingPush
  BY <1>1, <1>2, SleepSafe DEF PairingPush, PairingButton
<1>3. CASE forget_network
  <2>1. /\ fw'.nsleep = fw.nsleep /\ fw'.phase = fw.phase
        /\ fw'.enable = fw.enable
        /\ fw'.full_press_flag = fw.full_press_flag
        /\ fw'.fail_timer = fw.fail_timer
        /\ fw'.need_to_auto_close_flag = fw.need_to_auto_close_flag
    BY <1>1, <1>3 DEF forget_network, PairingButton, FirmwareState
  <2>2. QED
    BY <1>1, <2>1, SafeKept DEF Watched
<1>4. QED
  BY <1>2, <1>3

\* No step of the firmware sets the motor driving toward the end the drive is at.
LEMMA NeverTowardEnd ==
    ASSUME DInv, [Next]_vars, gear' = gear,
           NEW dir \in Direction, gear = dir, Drives(fw', dir)
    PROVE  Drives(fw, dir)
<1>1. [Valve!Next]_Valve!vars
  BY DriveNext
<1>2. motor' = dir
  BY DEF motor, Driving, Drives, Direction
<1>3. motor = dir
  BY <1>1, <1>2 DEF Valve!Next, Valve!TurnHandle, Valve!Travel, Valve!Start,
     Valve!Stop, Valve!vars, Valve!Direction, Direction
<1>4. QED
  BY <1>3 DEF motor, Driving, Drives, Direction

\* What a step of the main loop leaves alone, and where it stops the timer.
LEMMA MainLoopLeaves ==
    ASSUME TypeInvariant, MainLoop
    PROVE  /\ UNCHANGED <<gear, handle, active, missed>>
           /\ fw'.full_press_flag = fw.full_press_flag
           /\ fw'.need_to_auto_close_flag = fw.need_to_auto_close_flag
           /\ fw.fail_timer # "off" => fw'.fail_timer # "off" \/ StopFail
<1>1. fw \in FirmwareState
  BY DEF TypeInvariant
<1>2. CASE ZclCommand \/ JoinSignal
  BY <1>2 DEF ZclCommand, JoinSignal
<1>3. CASE StopPairing \/ ClearPairing
  BY <1>1, <1>3 DEF StopPairing, ClearPairing, ZbossStep, FirmwareState
<1>4. CASE StartFail
  BY <1>1, <1>4 DEF StartFail, app_timer_start, ZbossStep, FirmwareState
<1>5. CASE StopFail
  BY <1>1, <1>5 DEF StopFail, ZbossStep, FirmwareState
<1>6. CASE MarkWorking \/ WakeDriver \/ SetPhase \/ SetEnable \/ SetLogic
  BY <1>1, <1>6 DEF MarkWorking, WakeDriver, SetPhase, SetEnable, SetLogic,
     ZbossStep, FirmwareState
<1>7. QED
  BY <1>2, <1>3, <1>4, <1>5, <1>6 DEF MainLoop

\* The assignments of a command: from the second on the motor is turned from
\* the end the drive is at, and before the last it has its timer again.
LEMMA MainLoopWatched ==
    ASSUME WInv, MainLoop
    PROVE  /\ \A dir \in Direction :
                 Drives(fw', dir) /\ gear = dir => zboss'.pc \notin Turning
           /\ zboss'.pc \in Resting /\ fw'.nsleep => Watched(fw', Owed)
<1>0. /\ DInv /\ TypeInvariant /\ fw \in FirmwareState /\ zboss \in ZbossState
      /\ zboss.pc \in {"mark", "wake", "phase", "enable"} => gear # zboss.dir
      /\ [Next]_vars
  BY DEF WInv, DInv, IInv, TypeInvariant, Next
<1>1. ASSUME NEW dir \in Direction, Drives(fw', dir), gear = dir
      PROVE  zboss'.pc \notin Turning
  <2>1. zboss.pc \notin Turning
    <3>1. Drives(fw, dir)
      BY <1>0, <1>1, MainLoopLeaves, NeverTowardEnd
    <3>2. QED
      BY <1>1, <3>1 DEF WInv
  <2>2. ~SetPhase
    <3>1. SetPhase => fw'.phase = (zboss.dir = "closed") /\ zboss.dir \in Direction
                         /\ gear # zboss.dir
      BY <1>0 DEF SetPhase, ZbossStep, FirmwareState, ZbossState
    <3>2. QED
      BY <1>1, <3>1 DEF Drives, Direction
  <2>3. CASE ZclCommand \/ JoinSignal
    BY <1>0, <2>3, CommandTyped DEF Turning
  <2>4. CASE \/ StopPairing \/ ClearPairing \/ MarkWorking \/ WakeDriver
             \/ SetEnable \/ StopFail \/ StartFail \/ SetLogic
    BY <1>0, <2>1, <2>4 DEF StopPairing, ClearPairing, MarkWorking, WakeDriver,
       SetEnable, StopFail, StartFail, SetLogic, ZbossStep, ZbossIdle, ZbossState,
       Turning
  <2>5. QED
    BY <2>2, <2>3, <2>4 DEF MainLoop
<1>2. ASSUME zboss'.pc \in Resting, fw'.nsleep
      PROVE  Watched(fw', Owed)
  <2>1. CASE StartFail
    BY <1>0, <2>1 DEF StartFail, ZbossStep, app_timer_start, FirmwareState, Watched
  <2>2. CASE ~StartFail
    <3>1. zboss.pc \in Resting /\ fw'.nsleep = fw.nsleep /\ ~StopFail
      BY <1>0, <1>2, <2>2 DEF MainLoop, ZclCommand, JoinSignal, StopPairing,
         ClearPairing, MarkWorking, WakeDriver, SetPhase, SetEnable, StopFail,
         SetLogic, ZbossStep, ZbossIdle, ZbossState, FirmwareState, Resting
    <3>2. QED
      BY <1>0, <1>2, <3>1, MainLoopLeaves DEF WInv, Watched
  <2>3. QED
    BY <2>1, <2>2
<1>3. QED
  BY <1>1, <1>2

LEMMA WatchedInit == Init => WInv
<1> SUFFICES ASSUME Init PROVE WInv
  OBVIOUS
<1>1. ~fw.nsleep
  BY ResetState DEF Init
<1>2. QED
  BY <1>1, DriveInit DEF WInv, Stopping, Drives

LEMMA WatchedNext == WInv /\ [Next]_vars => WInv'
<1> SUFFICES ASSUME WInv, [Next]_vars
             PROVE  /\ gear' = gear =>
                          \A dir \in Direction : Drives(fw', dir) /\ gear = dir =>
                             Watched(fw, Owed)' /\ zboss'.pc \notin Turning
                    /\ gear' # gear => zboss'.pc = "idle"
                    /\ \A dir \in Direction : Stopping(fw, dir, Owed)'
                    /\ zboss'.pc \in Resting /\ fw'.nsleep => Watched(fw, Owed)'
  BY DriveNext DEF WInv, Drives, Resting, Turning
<1>0. /\ DInv /\ TypeInvariant /\ fw \in FirmwareState
      /\ \A dir \in Direction :
            /\ Stopping(fw, dir, Owed)
            /\ Drives(fw, dir) /\ gear = dir =>
                  Watched(fw, Owed) /\ zboss.pc \notin Turning
      /\ zboss.pc \in Resting /\ fw.nsleep => Watched(fw, Owed)
  BY DEF WInv, DInv, IInv, TypeInvariant
<1>1. CASE TurnHandle \/ MotorTurns
  <2>1. zboss.pc = "idle" /\ UNCHANGED <<fw, zboss>>
    BY <1>0, <1>1, MechanicsTyped
  <2>2. /\ \A dir \in Direction : Stopping(fw, dir, Owed)'
        /\ fw.nsleep => Watched(fw, Owed)'
    BY <1>0, <1>1, <2>1, MechanicsSafe DEF Resting
  <2>3. QED
    BY <2>1, <2>2 DEF Drives, Turning
<1>2. CASE Interrupt
  <2>1. UNCHANGED <<gear, handle>> /\ zboss'.pc = zboss.pc
    BY <1>0, <1>2, EventRespects, FailRespects, PairingRespects, ButtonRespects
       DEF Interrupt, Respects
  <2>2. Safe(fw, Owed, fw', Owed')
    BY <1>0, <1>2, EventSafe, FailSafe, PairingSafe, ButtonSafe DEF Interrupt
  <2>3. PICK pins : pins = Owed'
    OBVIOUS
  <2>4. /\ \A dir \in Direction : Stopping(fw', dir, pins)
        /\ \/ ~fw'.nsleep
           \/ Watched(fw', pins)
           \/ /\ ~Watched(fw, Owed)
              /\ fw'.nsleep = fw.nsleep /\ fw'.phase = fw.phase
              /\ fw'.enable = fw.enable
    BY <1>0, <2>2, <2>3 DEF Safe
  <2>5. \A dir \in Direction : Drives(fw', dir) /\ gear = dir =>
           Watched(fw', pins) /\ zboss.pc \notin Turning
    BY <1>0, <2>1, <2>4, NeverTowardEnd DEF Drives
  <2>6. zboss.pc \in Resting /\ fw'.nsleep => Watched(fw', pins)
    BY <1>0, <2>4
  <2>7. QED
    BY <2>1, <2>3, <2>4, <2>5, <2>6 DEF Stopping, Drives, Watched
<1>3. CASE MainLoop
  <2>1. /\ UNCHANGED <<gear, handle, active, missed>>
        /\ fw'.full_press_flag = fw.full_press_flag
        /\ fw'.need_to_auto_close_flag = fw.need_to_auto_close_flag
        /\ fw.fail_timer # "off" => fw'.fail_timer # "off" \/ StopFail
    BY <1>0, <1>3, MainLoopLeaves
  <2>2. PICK pins : pins = Owed /\ pins = Owed'
    BY <2>1, OwedSame
  <2>3. \A dir \in Direction : gear = dir /\ Drives(fw', dir) => Drives(fw, dir)
    BY <1>0, <2>1, NeverTowardEnd
  <2>4. \A dir \in Direction : Stopping(fw', dir, pins)
    BY <1>0, <2>1, <2>2, <2>3 DEF Stopping
  <2>5. /\ \A dir \in Direction :
              Drives(fw', dir) /\ gear = dir => zboss'.pc \notin Turning
        /\ zboss'.pc \in Resting /\ fw'.nsleep => Watched(fw', pins)
    BY <1>3, <2>2, MainLoopWatched
  <2>6. StopFail => zboss.pc \in Turning
    BY DEF StopFail, ZbossStep, Turning
  <2>7. \A dir \in Direction : Drives(fw', dir) /\ gear = dir => Watched(fw', pins)
    BY <1>0, <2>1, <2>2, <2>3, <2>6 DEF Watched
  <2>8. QED
    BY <2>1, <2>2, <2>4, <2>5, <2>7 DEF Stopping, Drives, Watched
<1>4. CASE SystemReset
  <2>1. ~fw'.nsleep /\ gear' = gear
    BY <1>4, ResetState DEF SystemReset
  <2>2. QED
    BY <2>1 DEF Stopping, Drives
<1>5. CASE UNCHANGED vars
  <2>1. UNCHANGED <<gear, handle, active, missed, fw, zboss>>
    BY <1>5 DEF vars
  <2>2. PICK pins : pins = Owed /\ pins = Owed'
    BY <2>1, OwedSame
  <2>3. QED
    BY <1>0, <2>1, <2>2 DEF Stopping, Drives, Watched
<1>6. QED
  BY <1>1, <1>2, <1>3, <1>4, <1>5 DEF Next

\* A motor that has reached its end with the handle at an end is stopped by a
\* report that is due, unless app_button missed a change of one of its switches:
\* whatever preempts a command and wherever.
THEOREM StopsAtEndCorrect == Spec => []StopsAtEndOfTravel
<1>1. WInv => StopsAtEndOfTravel
  BY DEF WInv, DInv, IInv, TypeInvariant, StopsAtEndOfTravel, Stopping, Owed,
         Stopper, LimitPin, Control, Drives, Driving, Position
<1>2. WInv /\ [Next]_vars => WInv'
  BY WatchedNext
<1>3. QED
  BY WatchedInit, <1>1, <1>2, PTL DEF Spec

\* And a motor stalled at its end with every switch reported, no change of its
\* switches missed and no timer to stop it has one cause: an expiry that was
\* dropped.
THEOREM UnwatchedStallCorrect == Spec => []UnwatchedStallIsDroppedExpiry
<1>1. WInv => UnwatchedStallIsDroppedExpiry
  BY DEF WInv, DInv, IInv, TypeInvariant, UnwatchedStallIsDroppedExpiry,
         Stopping, Watched, Owed, Stopper, LimitPin, Control, Drives, Driving,
         Position
<1>2. WInv /\ [Next]_vars => WInv'
  BY WatchedNext
<1>3. QED
  BY WatchedInit, <1>1, <1>2, PTL DEF Spec
=============================================================================
