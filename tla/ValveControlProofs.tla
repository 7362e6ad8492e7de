------------------------- MODULE ValveControlProofs -------------------------
(***************************************************************************)
(* Theorems about ValveControl.  Whatever preempts a command: its type     *)
(* invariant, what the shared countdown and its flag mean, that it         *)
(* implements ValveDrive, the stop at the end of travel, and the one cause *)
(* of an unwatched stall.  When no work item becomes due inside a command: *)
(* what motor_working and the motor's timer say of the driver.             *)
(***************************************************************************)
EXTENDS ValveControl, TLAPS

-----------------------------------------------------------------------------
(* The functions of the firmware keep its state well typed.                *)

LEMMA FlagTyped ==
    ASSUME NEW f \in FirmwareState, NEW b \in BOOLEAN
    PROVE  /\ [f EXCEPT !.phase = b] \in FirmwareState
           /\ [f EXCEPT !.enable = b] \in FirmwareState
           /\ [f EXCEPT !.logic_need_to_be_restored = b] \in FirmwareState
BY DEF FirmwareState

LEMMA ZbossTyped ==
    /\ ZbossIdle \in ZbossState
    /\ \A z \in ZbossState :
          \A at \in {"wake", "phase", "enable", "arm", "logic"} :
             [z EXCEPT !.pc = at] \in ZbossState
BY DEF ZbossIdle, ZbossState, Direction

LEMMA MotorTyped ==
    ASSUME NEW f \in FirmwareState
    PROVE  /\ motor_sleep(f) \in FirmwareState
           /\ stop_motor(f) \in FirmwareState
           /\ \A dir \in Direction : drive_with_timer(f, dir) \in FirmwareState
BY DEF FirmwareState, motor_sleep, stop_motor, drive_with_timer, FailTimer

LEMMA SleepTyped ==
    ASSUME NEW f \in FirmwareState
    PROVE  /\ motor_sleep(f) \in FirmwareState
           /\ ~motor_sleep(f).nsleep
           /\ ~motor_sleep(f).phase
           /\ ~motor_sleep(f).enable
BY DEF FirmwareState, motor_sleep

LEMMA RestoreTyped ==
    ASSUME NEW f \in FirmwareState
    PROVE  [f EXCEPT !.double_click_awaiting = FALSE,
                     !.pairing_timer = "restore"] \in FirmwareState
BY DEF FirmwareState, PairingTimer

LEMMA DecisionTyped ==
    ASSUME NEW to \in Direction
    PROVE  /\ Decision(to).act \in BOOLEAN
           /\ Decision(to).dir \in Direction
           /\ Decision(to).logic \in BOOLEAN
BY DEF Decision, OpenDecision, CloseDecision, Drive, Ignore, Direction

LEMMA HandlerTyped ==
    ASSUME NEW f \in FirmwareState, NEW to \in Direction
    PROVE  valve_open_close_handler(f, to) \in FirmwareState
<1>1. drive_with_timer(f, Decision(to).dir) \in FirmwareState
  BY MotorTyped, DecisionTyped
<1>2. QED
  BY <1>1, DecisionTyped DEF valve_open_close_handler, FirmwareState

LEMMA CheckTyped ==
    ASSUME NEW f \in FirmwareState
    PROVE  check_valve_on_off_status_and_set_attr(f) \in FirmwareState
<1> DEFINE double  == f.logic_need_to_be_restored /\ f.motor_working
           settled == [f EXCEPT !.need_to_auto_close_flag = FALSE,
                                !.fail_timer = "off",
                                !.on_off = control1_pressed,
                                !.double_click_awaiting = @ \/ double]
           opened  == [settled EXCEPT !.moving_to_open = @ \/ double]
           closed  == [settled EXCEPT !.moving_to_close = @ \/ double]
           between == [f EXCEPT !.fail_timer = "countdown",
                                !.need_to_auto_close_flag = TRUE]
<1>1. check_valve_on_off_status_and_set_attr(f) \in {opened, closed, between}
  BY DEF check_valve_on_off_status_and_set_attr
<1>2. between \in FirmwareState
  BY DEF FirmwareState, FailTimer
<1>3. /\ (f.double_click_awaiting \/ double) \in BOOLEAN
      /\ control1_pressed \in BOOLEAN
  BY DEF control1_pressed, Level
<1>4. settled \in FirmwareState
  <2> HIDE DEF double
  <2> QED BY <1>3 DEF FirmwareState, FailTimer
<1>5. /\ (settled.moving_to_open \/ double) \in BOOLEAN
      /\ (settled.moving_to_close \/ double) \in BOOLEAN
  OBVIOUS
<1>6. opened \in FirmwareState /\ closed \in FirmwareState
  <2> HIDE DEF double, settled
  <2> QED BY <1>4, <1>5 DEF FirmwareState
<1>7. QED
  <2> HIDE DEF opened, closed, between
  <2> QED BY <1>1, <1>2, <1>6

LEMMA EventTyped ==
    ASSUME NEW f \in FirmwareState, NEW pin \in Pin, NEW pressed \in BOOLEAN
    PROVE  button_event_handler(f, pin, pressed) \in FirmwareState
<1>1. gear_end_reached(f) \in FirmwareState
  BY MotorTyped DEF gear_end_reached, FirmwareState
<1>2. control_pressed(f) \in FirmwareState
  BY MotorTyped, CheckTyped DEF control_pressed
<1>3. control_released(f) \in FirmwareState
  <2>1. [motor_sleep(f) EXCEPT !.double_click_awaiting = FALSE,
                               !.pairing_timer = "restore"] \in FirmwareState
    BY SleepTyped, RestoreTyped
  <2>2. QED
    BY <2>1, CheckTyped DEF control_released
<1>4. QED
  BY <1>1, <1>2, <1>3 DEF button_event_handler

-----------------------------------------------------------------------------
(* The type invariant.                                                     *)

LEMMA RunTyped ==
    ASSUME TypeInvariant, NEW item \in WorkItem, NEW f \in FirmwareState,
           Run(item, f)
    PROVE  fw' \in FirmwareState /\ zboss' \in ZbossState
BY DEF TypeInvariant, Run, ZbossState

LEMMA TypeInit == Init => TypeInvariant
BY DEF Init, TypeInvariant, FirmwareInit, FirmwareState, ZbossIdle, ZbossState,
       FailTimer, PairingTimer, Direction

LEMMA TypeNext == TypeInvariant /\ [Next]_vars => TypeInvariant'
<1> SUFFICES ASSUME TypeInvariant, [Next]_vars
             PROVE  TypeInvariant'
  OBVIOUS
<1> USE DEF TypeInvariant
<1>1. CASE Mechanics
  BY <1>1 DEF Mechanics, TurnHandle, MotorTurns, Move, Edges, Toward, Direction,
              Position
<1>2. ASSUME NEW pin \in Pin, CooldownExpired(pin)
      PROVE  TypeInvariant'
  <2>1. button_event_handler(fw, pin, Level(pin)) \in FirmwareState
    BY EventTyped DEF Level
  <2>2. QED
    BY <1>2, <2>1, RunTyped DEF CooldownExpired, WorkItem
<1>3. CASE fail_report_timer_handler
  <2> DEFINE f == [fw EXCEPT !.fail_timer = "off"]
             g == [f EXCEPT !.need_to_auto_close_flag = FALSE]
             h == [motor_sleep(f) EXCEPT !.motor_working = FALSE]
  <2>1. f \in FirmwareState /\ g \in FirmwareState
    BY DEF FirmwareState, FailTimer
  <2>2. h \in FirmwareState
    BY <2>1, MotorTyped DEF FirmwareState
  <2>3. /\ valve_open_close_handler(g, "closed") \in FirmwareState
        /\ check_valve_on_off_status_and_set_attr(h) \in FirmwareState
    BY <2>1, <2>2, HandlerTyped, CheckTyped DEF Direction
  <2>4. \/ Run("fail", valve_open_close_handler(g, "closed"))
        \/ Run("fail", f)
        \/ Run("fail", check_valve_on_off_status_and_set_attr(h))
    BY <1>3 DEF fail_report_timer_handler
  <2> HIDE DEF f, g, h
  <2>5. fw' \in FirmwareState /\ zboss' \in ZbossState
    BY <2>1, <2>3, <2>4, RunTyped DEF WorkItem
  <2>6. QED
    BY <1>3, <2>5 DEF fail_report_timer_handler
<1>4. CASE pairing_advertising_off_timer_handler
  <2> DEFINE f == [fw EXCEPT !.pairing_timer = "off"]
             g == [f EXCEPT !.logic_need_to_be_restored = FALSE]
             restored ==
               IF      f.moving_to_close THEN valve_open_close_handler(g, "closed")
               ELSE IF f.moving_to_open  THEN valve_open_close_handler(g, "open")
               ELSE g
             cleared == [restored EXCEPT !.moving_to_open = FALSE,
                                         !.moving_to_close = FALSE]
  <2>1. f \in FirmwareState /\ g \in FirmwareState
    BY DEF FirmwareState, PairingTimer
  <2>2. Run("pairing", IF f.logic_need_to_be_restored THEN cleared ELSE f)
    BY <1>4 DEF pairing_advertising_off_timer_handler
  <2> HIDE DEF f, g
  <2>3. restored \in FirmwareState
    BY <2>1, HandlerTyped DEF Direction
  <2> HIDE DEF restored
  <2>4. cleared \in FirmwareState
    BY <2>3 DEF FirmwareState
  <2> HIDE DEF cleared
  <2>5. fw' \in FirmwareState /\ zboss' \in ZbossState
    BY <2>1, <2>2, <2>4, RunTyped DEF WorkItem
  <2>6. QED
    BY <1>4, <2>5 DEF pairing_advertising_off_timer_handler
<1>5. CASE forget_network
  BY <1>5 DEF forget_network, FirmwareState, PairingTimer, ZbossState
<1>6. CASE ZclCommand
  <2>1. PICK to \in Direction :
           /\ fw' = [fw EXCEPT !.on_off = (to = "open")]
           /\ zboss' = IF Decision(to).act
                       THEN [pc |-> "mark", dir |-> Decision(to).dir,
                             logic |-> Decision(to).logic,
                             due |-> IF Preemption THEN Pending ELSE {}]
                       ELSE zboss
           /\ UNCHANGED <<gear, handle, cooldown>>
    BY <1>6 DEF ZclCommand
  <2>2. Pending \subseteq WorkItem
    BY DEF Pending, WorkItem
  <2>3. zboss' \in ZbossState
    BY <2>1, <2>2, DecisionTyped DEF ZbossState
  <2>4. fw' \in FirmwareState
    BY <2>1 DEF FirmwareState
  <2>5. QED
    BY <2>1, <2>3, <2>4
<1>7. CASE MarkWorking \/ WakeDriver \/ SetPhase \/ SetEnable \/ ArmFault \/ SetLogic
  <2>1. /\ UNCHANGED <<gear, handle, cooldown>>
        /\ zboss' \in {ZbossIdle, [zboss EXCEPT !.pc = "wake"],
                       [zboss EXCEPT !.pc = "phase"], [zboss EXCEPT !.pc = "enable"],
                       [zboss EXCEPT !.pc = "arm"], [zboss EXCEPT !.pc = "logic"]}
    BY <1>7 DEF MarkWorking, WakeDriver, SetPhase, SetEnable, ArmFault, SetLogic,
                ZbossStep
  <2>2. zboss' \in ZbossState
    BY <2>1, ZbossTyped, zboss \in ZbossState
  <2>3. zboss.logic \in BOOLEAN
    BY DEF ZbossState
  <2>4. fw \in FirmwareState
    OBVIOUS
  <2>5. CASE MarkWorking \/ WakeDriver \/ ArmFault
    <3>1. fw' \in FirmwareState
      BY <2>5 DEF MarkWorking, WakeDriver, ArmFault, ZbossStep, FirmwareState,
                  FailTimer
    <3>2. QED
      BY <2>1, <2>2, <3>1
  <2>6. CASE SetPhase
    BY <2>1, <2>2, <2>4, <2>6, FlagTyped, (zboss.dir = "closed") \in BOOLEAN
       DEF SetPhase, ZbossStep
  <2>7. CASE SetEnable
    BY <2>1, <2>2, <2>4, <2>7, FlagTyped, (zboss.dir = "open") \in BOOLEAN
       DEF SetEnable, ZbossStep
  <2>8. CASE SetLogic
    BY <2>1, <2>2, <2>3, <2>4, <2>8, FlagTyped DEF SetLogic, ZbossStep
  <2>9. QED
    BY <1>7, <2>5, <2>6, <2>7, <2>8
<1>8. CASE SystemReset
  BY <1>8, TypeInit DEF SystemReset, FirmwareInit, FirmwareState, ZbossIdle,
              ZbossState, FailTimer, PairingTimer, Direction
<1>9. CASE UNCHANGED vars
  BY <1>9 DEF vars
<1>10. QED
  BY <1>1, <1>2, <1>3, <1>4, <1>5, <1>6, <1>7, <1>8, <1>9 DEF Next, WorkQueue, Zboss

\* Every reachable state is well typed: the timers hold only the purposes the
\* code arms them for, the bridge and the flags stay Boolean, and a command in
\* progress carries a direction the handler can have decided.
THEOREM TypeCorrect == Spec => []TypeInvariant
<1>1. QED
  BY TypeInit, TypeNext, PTL DEF Spec

-----------------------------------------------------------------------------
(* The auto-close flag and the countdown, function by function.            *)

Agrees(f) == f.fail_timer = "countdown" => f.need_to_auto_close_flag

LEMMA HandlerAgrees ==
    ASSUME NEW f \in FirmwareState, NEW to \in Direction, Agrees(f)
    PROVE  LET g == valve_open_close_handler(f, to)
           IN  /\ g.need_to_auto_close_flag = f.need_to_auto_close_flag
               /\ Agrees(g)
BY DEF valve_open_close_handler, drive_with_timer, FirmwareState, Agrees

LEMMA StopAgrees ==
    ASSUME NEW f \in FirmwareState, Agrees(f)
    PROVE  LET g == stop_motor(f)
           IN  /\ g.need_to_auto_close_flag = f.need_to_auto_close_flag
               /\ Agrees(g)
BY DEF stop_motor, motor_sleep, FirmwareState, Agrees

\* Checking the status clears the flag exactly when the handle is at an end.
LEMMA CheckAgrees ==
    ASSUME NEW f \in FirmwareState, handle \in Position
    PROVE  LET g == check_valve_on_off_status_and_set_attr(f)
           IN  /\ g.need_to_auto_close_flag => handle = "mid"
               /\ Agrees(g)
BY DEF check_valve_on_off_status_and_set_attr, FirmwareState, Agrees, Position,
       control1_pressed, control2_pressed, Level

\* A switch event raises the flag only between the ends, and the press of a
\* control switch clears it.
LEMMA EventAgrees ==
    ASSUME NEW f \in FirmwareState, NEW pin \in Pin, handle \in Position,
           Agrees(f)
    PROVE  LET g == button_event_handler(f, pin, Level(pin))
           IN  /\ g.need_to_auto_close_flag =>
                     f.need_to_auto_close_flag \/ handle = "mid"
               /\ pin \in {"control1", "control2"} /\ Level(pin) =>
                     ~g.need_to_auto_close_flag
               /\ Agrees(g)
<1> DEFINE stopped == IF f.full_press_flag THEN stop_motor(f) ELSE f
<1>1. stopped \in FirmwareState
  BY MotorTyped
<1>2. LET g == control_pressed(f)
      IN  (g.need_to_auto_close_flag => handle = "mid") /\ Agrees(g)
  BY <1>1, CheckAgrees DEF control_pressed
<1>3. LET g == gear_end_reached(f)
      IN  /\ g.need_to_auto_close_flag = f.need_to_auto_close_flag
          /\ Agrees(g)
  BY StopAgrees DEF gear_end_reached, FirmwareState, Agrees
<1>4. LET g == control_released(f)
      IN  /\ g.need_to_auto_close_flag =>
                f.need_to_auto_close_flag \/ handle = "mid"
          /\ Agrees(g)
  <2>1. CASE f.logic_need_to_be_restored /\ f.double_click_awaiting
    BY <2>1 DEF control_released, motor_sleep, FirmwareState, Agrees
  <2>2. CASE ~(f.logic_need_to_be_restored /\ f.double_click_awaiting)
    BY <2>2, CheckAgrees DEF control_released
  <2>3. QED
    BY <2>1, <2>2
<1>5. CASE pin \in {"open", "close"}
  BY <1>3, <1>5 DEF button_event_handler
<1>6. CASE pin \in {"control1", "control2"} /\ Level(pin)
  BY <1>2, <1>6 DEF button_event_handler, Level
<1>7. CASE pin \in {"control1", "control2"} /\ ~Level(pin)
  BY <1>4, <1>7 DEF button_event_handler
<1>8. QED
  BY <1>5, <1>6, <1>7 DEF Pin

-----------------------------------------------------------------------------
(* The inductive invariant.  AutoCloseFlagIsFresh alone is not inductive   *)
(* without the types: a handle that is nowhere would keep the flag.        *)

IInv == TypeInvariant /\ AutoCloseFlagIsFresh /\ CountdownMeansAutoClose

Fresh == AutoCloseFlagIsFresh /\ CountdownMeansAutoClose

LEMMA AutoCloseInit == Init => IInv
BY TypeInit DEF Init, IInv, AutoCloseFlagIsFresh, CountdownMeansAutoClose,
                FirmwareInit

LEMMA AutoCloseNext == IInv /\ [Next]_vars => IInv'
<1> SUFFICES ASSUME IInv, [Next]_vars
             PROVE  Fresh'
  BY TypeNext DEF IInv, Fresh
<1> USE DEF Fresh, AutoCloseFlagIsFresh, CountdownMeansAutoClose
<1>0. TypeInvariant /\ Fresh /\ Agrees(fw)
  BY DEF IInv, Agrees
<1>1. CASE Mechanics
  <2>1. \E g2, h2 \in Position : Move(g2, h2)
    BY <1>0, <1>1 DEF Mechanics, TurnHandle, MotorTurns, TypeInvariant, Toward,
                      Position, Direction
  <2>2. QED
    BY <1>0, <2>1 DEF Move, Edges, Pin, Position, TypeInvariant
<1>2. ASSUME NEW pin \in Pin, CooldownExpired(pin)
      PROVE  Fresh'
  <2>1. /\ fw' = button_event_handler(fw, pin, Level(pin))
        /\ cooldown' = cooldown \ {pin}
        /\ UNCHANGED <<gear, handle>>
    BY <1>2 DEF CooldownExpired, Run
  <2>2. /\ fw'.need_to_auto_close_flag =>
              fw.need_to_auto_close_flag \/ handle = "mid"
        /\ pin \in {"control1", "control2"} /\ Level(pin) =>
              ~fw'.need_to_auto_close_flag
        /\ fw'.fail_timer = "countdown" => fw'.need_to_auto_close_flag
    BY <1>0, <2>1, EventAgrees DEF TypeInvariant, Agrees
  <2>3. QED
    BY <1>0, <2>1, <2>2 DEF Level
<1>3. CASE fail_report_timer_handler
  <2> DEFINE f == [fw EXCEPT !.fail_timer = "off"]
             g == [f EXCEPT !.need_to_auto_close_flag = FALSE]
             h == [motor_sleep(f) EXCEPT !.motor_working = FALSE]
  <2>1. /\ f \in FirmwareState /\ g \in FirmwareState
        /\ Agrees(f) /\ Agrees(g)
        /\ f.need_to_auto_close_flag = fw.need_to_auto_close_flag
        /\ ~g.need_to_auto_close_flag
    BY <1>0 DEF TypeInvariant, FirmwareState, FailTimer, Agrees
  <2>2. h \in FirmwareState
    BY <2>1, MotorTyped DEF FirmwareState
  <2>3. /\ \/ fw' = valve_open_close_handler(g, "closed")
           \/ fw' = f
           \/ fw' = check_valve_on_off_status_and_set_attr(h)
        /\ UNCHANGED <<gear, handle, cooldown>>
    BY <1>3 DEF fail_report_timer_handler, Run
  <2> HIDE DEF f, g, h
  <2>4. /\ fw'.need_to_auto_close_flag =>
              fw.need_to_auto_close_flag \/ handle = "mid"
        /\ Agrees(fw')
    BY <1>0, <2>1, <2>2, <2>3, HandlerAgrees, CheckAgrees DEF TypeInvariant, Direction
  <2>5. QED
    BY <1>0, <2>3, <2>4 DEF Agrees
<1>4. CASE pairing_advertising_off_timer_handler
  <2> DEFINE f == [fw EXCEPT !.pairing_timer = "off"]
             g == [f EXCEPT !.logic_need_to_be_restored = FALSE]
             restored ==
               IF      f.moving_to_close THEN valve_open_close_handler(g, "closed")
               ELSE IF f.moving_to_open  THEN valve_open_close_handler(g, "open")
               ELSE g
             cleared == [restored EXCEPT !.moving_to_open = FALSE,
                                         !.moving_to_close = FALSE]
  <2>1. /\ f \in FirmwareState /\ g \in FirmwareState
        /\ Agrees(f) /\ Agrees(g)
        /\ f.need_to_auto_close_flag = fw.need_to_auto_close_flag
        /\ g.need_to_auto_close_flag = fw.need_to_auto_close_flag
    BY <1>0 DEF TypeInvariant, FirmwareState, PairingTimer, Agrees
  <2>2. /\ fw' \in {cleared, f}
        /\ UNCHANGED <<gear, handle, cooldown>>
    BY <1>4 DEF pairing_advertising_off_timer_handler, Run
  <2> HIDE DEF f, g
  <2>3. /\ restored \in FirmwareState /\ Agrees(restored)
        /\ restored.need_to_auto_close_flag = fw.need_to_auto_close_flag
    BY <2>1, HandlerAgrees, HandlerTyped DEF Direction
  <2> HIDE DEF restored
  <2>4. /\ Agrees(cleared)
        /\ cleared.need_to_auto_close_flag = fw.need_to_auto_close_flag
    BY <2>3 DEF FirmwareState, Agrees
  <2>5. QED
    BY <1>0, <2>1, <2>2, <2>4 DEF Agrees
<1>5. CASE forget_network \/ Zboss
  <2>1. /\ UNCHANGED <<gear, handle, cooldown>>
        /\ fw'.need_to_auto_close_flag = fw.need_to_auto_close_flag
        /\ fw'.fail_timer \in {fw.fail_timer, "fault"}
    BY <1>0, <1>5 DEF forget_network, Zboss, ZclCommand, MarkWorking, WakeDriver,
         SetPhase, SetEnable, ArmFault, SetLogic, ZbossStep, TypeInvariant,
         FirmwareState
  <2>2. QED
    BY <1>0, <2>1
<1>6. CASE SystemReset
  BY <1>6 DEF SystemReset, FirmwareInit
<1>7. CASE UNCHANGED vars
  BY <1>0, <1>7 DEF vars
<1>8. QED
  BY <1>1, <1>2, <1>3, <1>4, <1>5, <1>6, <1>7 DEF Next, WorkQueue

\* A pending auto-close is never stale, however commands, debounces and timers
\* interleave: a handle at rest at an end is never auto-closed.
THEOREM AutoCloseFlagCorrect == Spec => []AutoCloseFlagIsFresh
<1>1. IInv => AutoCloseFlagIsFresh
  BY DEF IInv
<1>2. QED
  BY AutoCloseInit, AutoCloseNext, <1>1, PTL DEF Spec

\* The expiry of an auto-close countdown is never taken for the expiry of the
\* motor timer that shares its work item.
THEOREM CountdownCorrect == Spec => []CountdownMeansAutoClose
<1>1. IInv => CountdownMeansAutoClose
  BY DEF IInv
<1>2. QED
  BY AutoCloseInit, AutoCloseNext, <1>1, PTL DEF Spec

-----------------------------------------------------------------------------
(* The firmware implements ValveDrive, whatever preempts a command.        *)

\* Checking the status does not touch the motor.
LEMMA CheckBridge ==
    ASSUME NEW f \in FirmwareState
    PROVE  LET g == check_valve_on_off_status_and_set_attr(f)
           IN  /\ g.nsleep = f.nsleep
               /\ g.phase = f.phase
               /\ g.enable = f.enable
               /\ g.motor_working = f.motor_working
               /\ g.full_press_flag = f.full_press_flag
               /\ g.fail_timer # "fault"
BY DEF check_valve_on_off_status_and_set_attr, FirmwareState

LEMMA StopBridge ==
    ASSUME NEW f \in FirmwareState
    PROVE  LET g == stop_motor(f) IN ~g.nsleep /\ g.fail_timer = "off"
BY DEF stop_motor, motor_sleep, FirmwareState


\* What a work item may do to the bridge: leave it, put it to sleep, or drive
\* it away from the end the drive is at.
Turned(f, g) ==
    \/ g.nsleep = f.nsleep /\ g.phase = f.phase /\ g.enable = f.enable
    \/ ~g.nsleep /\ ~g.phase /\ ~g.enable
    \/ \E dir \in Direction :
          gear # dir /\ g.nsleep /\ g.phase = (dir = "closed") /\ g.enable = (dir = "open")

\* A sleeping bridge is not set toward an end the drive is at: a command that
\* is preempted and put to sleep leaves its inputs set behind.
Parked(f) ==
    /\ f.enable /\ ~f.phase => f.nsleep \/ gear # "open"
    /\ f.phase /\ ~f.enable => f.nsleep \/ gear # "closed"

DInv ==
    /\ TypeInvariant
    /\ zboss.pc \in {"mark", "wake", "phase", "enable"} => gear # zboss.dir
    /\ Parked(fw)

LEMMA DecisionAway ==
    ASSUME NEW to \in Direction, Decision(to).act
    PROVE  gear # Decision(to).dir /\ Decision(to).dir \in Direction
BY DEF Decision, OpenDecision, CloseDecision, Drive, Ignore, Direction,
       open_pressed, close_pressed, control1_pressed, control2_pressed, Level

LEMMA HandlerTurned ==
    ASSUME NEW f \in FirmwareState, NEW to \in Direction
    PROVE  Turned(f, valve_open_close_handler(f, to))
<1>1. CASE ~Decision(to).act
  BY <1>1 DEF valve_open_close_handler, Turned
<1>2. CASE Decision(to).act
  <2> DEFINE dir == Decision(to).dir
             g   == valve_open_close_handler(f, to)
  <2>1. gear # dir /\ dir \in Direction
    BY <1>2, DecisionAway
  <2>2. g.nsleep /\ g.phase = (dir = "closed") /\ g.enable = (dir = "open")
    BY <1>2 DEF valve_open_close_handler, drive_with_timer, FirmwareState
  <2> HIDE DEF dir, g
  <2>3. Turned(f, g)
    BY <2>1, <2>2 DEF Turned
  <2>4. QED
    BY <2>3 DEF g
<1>3. QED
  BY <1>1, <1>2

LEMMA EventTurned ==
    ASSUME NEW f \in FirmwareState, NEW pin \in Pin, NEW pressed \in BOOLEAN
    PROVE  Turned(f, button_event_handler(f, pin, pressed))
<1> DEFINE stopped == IF f.full_press_flag THEN stop_motor(f) ELSE f
<1>1. /\ stopped \in FirmwareState
      /\ Turned(f, stop_motor(f)) /\ Turned(f, stopped)
  BY MotorTyped DEF Turned, stop_motor, motor_sleep, FirmwareState
<1>2. Turned(f, control_pressed(f))
  <2>1. LET g == check_valve_on_off_status_and_set_attr(stopped)
        IN  g.nsleep = stopped.nsleep /\ g.phase = stopped.phase
            /\ g.enable = stopped.enable
    BY <1>1, CheckBridge
  <2> HIDE DEF stopped
  <2>2. Turned(f, check_valve_on_off_status_and_set_attr(stopped))
    BY <1>1, <2>1 DEF Turned
  <2>3. QED
    BY <2>2 DEF control_pressed, stopped
<1>3. Turned(f, gear_end_reached(f))
  BY <1>1 DEF gear_end_reached, Turned, FirmwareState
<1>4. Turned(f, control_released(f))
  <2>1. CASE f.logic_need_to_be_restored /\ f.double_click_awaiting
    BY <2>1 DEF control_released, motor_sleep, FirmwareState, Turned
  <2>2. CASE ~(f.logic_need_to_be_restored /\ f.double_click_awaiting)
    BY <2>2, CheckBridge DEF control_released, Turned
  <2>3. QED
    BY <2>1, <2>2
<1>5. Turned(f, f)
  BY DEF Turned
<1>6. QED
  BY <1>2, <1>3, <1>4, <1>5 DEF button_event_handler

LEMMA WorkTurned ==
    ASSUME TypeInvariant, WorkQueue
    PROVE  /\ Turned(fw, fw')
           /\ UNCHANGED <<gear, handle>>
           /\ zboss'.pc = zboss.pc /\ zboss'.dir = zboss.dir
<1>0. fw \in FirmwareState /\ zboss \in ZbossState
  BY DEF TypeInvariant
<1>1. ASSUME NEW pin \in Pin, CooldownExpired(pin)
      PROVE  /\ Turned(fw, fw') /\ UNCHANGED <<gear, handle>>
             /\ zboss'.pc = zboss.pc /\ zboss'.dir = zboss.dir
  <2>1. /\ fw' = button_event_handler(fw, pin, Level(pin))
        /\ UNCHANGED <<gear, handle>>
        /\ zboss'.pc = zboss.pc /\ zboss'.dir = zboss.dir
    BY <1>0, <1>1 DEF CooldownExpired, Run, ZbossState
  <2>2. Turned(fw, button_event_handler(fw, pin, Level(pin)))
    BY <1>0, EventTurned DEF Level
  <2>3. QED
    BY <2>1, <2>2
<1>2. CASE fail_report_timer_handler
  <2> DEFINE f == [fw EXCEPT !.fail_timer = "off"]
             g == [f EXCEPT !.need_to_auto_close_flag = FALSE]
             h == [motor_sleep(f) EXCEPT !.motor_working = FALSE]
             c == check_valve_on_off_status_and_set_attr(h)
             v == valve_open_close_handler(g, "closed")
  <2>1. /\ fw' \in {v, f, c} /\ UNCHANGED <<gear, handle>>
        /\ zboss'.pc = zboss.pc /\ zboss'.dir = zboss.dir
    BY <1>0, <1>2 DEF fail_report_timer_handler, Run, ZbossState
  <2>2. /\ f \in FirmwareState /\ g \in FirmwareState
        /\ f.nsleep = fw.nsleep /\ f.phase = fw.phase /\ f.enable = fw.enable
        /\ g.nsleep = fw.nsleep /\ g.phase = fw.phase /\ g.enable = fw.enable
    BY <1>0 DEF FirmwareState, FailTimer
  <2>3. h \in FirmwareState /\ ~h.nsleep /\ ~h.phase /\ ~h.enable
    <3> HIDE DEF f
    <3>1. /\ motor_sleep(f) \in FirmwareState
          /\ ~motor_sleep(f).nsleep
          /\ ~motor_sleep(f).phase
          /\ ~motor_sleep(f).enable
      BY <2>2, SleepTyped
    <3>2. QED
      BY <3>1 DEF FirmwareState
  <2> HIDE DEF f, g, h
  <2>4. ~c.nsleep /\ ~c.phase /\ ~c.enable
    BY <2>3, CheckBridge
  <2>5. Turned(g, v)
    BY <2>2, HandlerTurned DEF Direction
  <2> HIDE DEF c, v
  <2>6. Turned(fw, v) /\ Turned(fw, f) /\ Turned(fw, c)
    BY <2>2, <2>4, <2>5 DEF Turned
  <2>7. QED
    BY <2>1, <2>6
<1>3. CASE pairing_advertising_off_timer_handler
  <2> DEFINE f == [fw EXCEPT !.pairing_timer = "off"]
             g == [f EXCEPT !.logic_need_to_be_restored = FALSE]
             restored ==
               IF      f.moving_to_close THEN valve_open_close_handler(g, "closed")
               ELSE IF f.moving_to_open  THEN valve_open_close_handler(g, "open")
               ELSE g
             cleared == [restored EXCEPT !.moving_to_open = FALSE,
                                         !.moving_to_close = FALSE]
  <2>1. /\ fw' \in {cleared, f} /\ UNCHANGED <<gear, handle>>
        /\ zboss'.pc = zboss.pc /\ zboss'.dir = zboss.dir
    BY <1>0, <1>3 DEF pairing_advertising_off_timer_handler, Run, ZbossState
  <2>2. /\ f \in FirmwareState /\ g \in FirmwareState
        /\ f.nsleep = fw.nsleep /\ f.phase = fw.phase /\ f.enable = fw.enable
        /\ g.nsleep = fw.nsleep /\ g.phase = fw.phase /\ g.enable = fw.enable
    BY <1>0 DEF FirmwareState, PairingTimer
  <2> HIDE DEF f, g
  <2>3. restored \in FirmwareState /\ Turned(g, restored)
    <3>1. Turned(g, g)
      BY DEF Turned
    <3>2. QED
      BY <2>2, <3>1, HandlerTurned, HandlerTyped DEF Direction
  <2> HIDE DEF restored
  <2>4. /\ cleared.nsleep = restored.nsleep /\ cleared.phase = restored.phase
        /\ cleared.enable = restored.enable
    BY <2>3 DEF FirmwareState
  <2> HIDE DEF cleared
  <2>5. Turned(fw, cleared) /\ Turned(fw, f)
    BY <2>2, <2>3, <2>4 DEF Turned
  <2>6. QED
    BY <2>1, <2>5
<1>4. CASE forget_network
  BY <1>0, <1>4 DEF forget_network, FirmwareState, ZbossState, Turned
<1>5. QED
  BY <1>1, <1>2, <1>3, <1>4 DEF WorkQueue

LEMMA DriveInit == Init => DInv /\ Valve!Init
BY TypeInit DEF Init, DInv, Parked, FirmwareInit, ZbossIdle, Valve!Init,
                Valve!Position, Position, motor, Driving

\* What a command or a work item does to the bridge, seen from the valve.
LEMMA TurnedIsAStep ==
    ASSUME DInv, fw' \in FirmwareState, UNCHANGED <<gear, handle>>, Turned(fw, fw')
    PROVE  Parked(fw)' /\ [Valve!Next]_Valve!vars
<1>1. fw \in FirmwareState /\ Parked(fw)
  BY DEF DInv, TypeInvariant
<1>2. Parked(fw)'
  BY <1>1 DEF Turned, Parked, FirmwareState, Direction
<1>3. motor' \in {motor, "rest"} \/ (motor' \in Direction /\ gear # motor')
  BY <1>1 DEF Turned, motor, Driving, FirmwareState, Direction
<1>4. QED
  BY <1>2, <1>3 DEF Valve!Next, Valve!Start, Valve!Stop, Valve!vars,
     Valve!Direction, Direction

LEMMA DriveNext == DInv /\ [Next]_vars => DInv' /\ [Valve!Next]_Valve!vars
<1> SUFFICES ASSUME DInv, [Next]_vars
             PROVE  DInv' /\ [Valve!Next]_Valve!vars
  OBVIOUS
<1>0. /\ TypeInvariant /\ TypeInvariant' /\ Parked(fw)
      /\ zboss.pc \in {"mark", "wake", "phase", "enable"} => gear # zboss.dir
      /\ fw \in FirmwareState /\ fw' \in FirmwareState
      /\ zboss \in ZbossState
  BY TypeNext DEF DInv, TypeInvariant
<1>1. CASE TurnHandle
  <2>1. PICK p \in Position : Adjacent(handle, p) /\ Move(gear, p)
    BY <1>1 DEF TurnHandle
  <2>2. Valve!TurnHandle
    BY <2>1 DEF Move, Adjacent, Valve!TurnHandle, Valve!Adjacent, Valve!Position,
                Position, motor, Driving
  <2>3. QED
    BY <1>0, <2>1, <2>2 DEF Move, DInv, Parked, Valve!Next
<1>2. CASE MotorTurns
  <2>1. PICK dir \in Direction :
           /\ Driving(dir) /\ gear # dir
           /\ \E h \in {handle} \cup IF handle = dir THEN {} ELSE {Toward(handle, dir)} :
                 Move(Toward(gear, dir), h)
    BY <1>2 DEF MotorTurns
  <2>2. motor = dir /\ motor' = motor /\ UNCHANGED <<fw, zboss>> /\ fw.nsleep
    BY <2>1 DEF motor, Driving, Direction, Move
  <2>3. Valve!Travel(dir)
    BY <2>1, <2>2 DEF Move, Toward, Valve!Travel, Valve!Toward
  <2>4. zboss'.pc = "idle"
    BY <2>1 DEF Move
  <2>5. QED
    BY <1>0, <2>1, <2>2, <2>3, <2>4 DEF DInv, Parked, Valve!Next, Valve!Direction,
       Direction
<1>3. CASE WorkQueue
  <2>1. /\ Turned(fw, fw') /\ UNCHANGED <<gear, handle>>
        /\ zboss'.pc = zboss.pc /\ zboss'.dir = zboss.dir
    BY <1>0, <1>3, WorkTurned
  <2>2. QED
    BY <1>0, <2>1, TurnedIsAStep DEF DInv
<1>4. CASE ZclCommand
  <2>1. /\ UNCHANGED <<gear, handle>> /\ Turned(fw, fw')
    BY <1>0, <1>4 DEF ZclCommand, FirmwareState, Turned
  <2>2. zboss'.pc # "idle" => gear' # zboss'.dir
    BY <1>4, DecisionAway DEF ZclCommand
  <2>3. QED
    BY <1>0, <2>1, <2>2, TurnedIsAStep DEF DInv
<1>5. CASE MarkWorking \/ WakeDriver \/ SetPhase \/ SetEnable \/ ArmFault \/ SetLogic
  <2>1. /\ UNCHANGED <<gear, handle>>
        /\ zboss'.pc \in {"mark", "wake", "phase", "enable"} =>
              gear' # zboss'.dir
    BY <1>0, <1>5 DEF MarkWorking, WakeDriver, SetPhase, SetEnable, ArmFault,
         SetLogic, ZbossStep, ZbossIdle, ZbossState
  <2>2. /\ Parked(fw)'
        /\ motor' \in {motor, "rest"} \/ (motor' \in Direction /\ gear # motor')
    <3>1. CASE MarkWorking \/ ArmFault \/ SetLogic
      <4>1. /\ fw'.nsleep = fw.nsleep /\ fw'.phase = fw.phase
            /\ fw'.enable = fw.enable /\ gear' = gear
        BY <1>0, <3>1 DEF MarkWorking, ArmFault, SetLogic, ZbossStep, FirmwareState
      <4>2. QED
        BY <1>0, <4>1 DEF Parked, motor, Driving
    <3>2. CASE WakeDriver
      <4>1. /\ fw'.nsleep /\ fw'.phase = fw.phase
            /\ fw'.enable = fw.enable /\ gear' = gear
        BY <1>0, <3>2 DEF WakeDriver, ZbossStep, FirmwareState
      <4>2. QED
        BY <1>0, <4>1 DEF Parked, motor, Driving, Direction, FirmwareState
    <3>3. CASE SetPhase
      <4>1. /\ fw'.nsleep = fw.nsleep /\ fw'.phase = (zboss.dir = "closed")
            /\ fw'.enable = fw.enable /\ gear' = gear
            /\ gear # zboss.dir /\ zboss.dir \in Direction
        BY <1>0, <3>3 DEF SetPhase, ZbossStep, FirmwareState, ZbossState
      <4>2. QED
        BY <1>0, <4>1 DEF Parked, motor, Driving, Direction, FirmwareState
    <3>4. CASE SetEnable
      <4>1. /\ fw'.nsleep = fw.nsleep /\ fw'.enable = (zboss.dir = "open")
            /\ fw'.phase = fw.phase /\ gear' = gear
            /\ gear # zboss.dir /\ zboss.dir \in Direction
        BY <1>0, <3>4 DEF SetEnable, ZbossStep, FirmwareState, ZbossState
      <4>2. QED
        BY <1>0, <4>1 DEF Parked, motor, Driving, Direction, FirmwareState
    <3>5. QED
      BY <1>5, <3>1, <3>2, <3>3, <3>4
  <2>3. [Valve!Next]_Valve!vars
    BY <2>1, <2>2 DEF Valve!Next, Valve!Start, Valve!Stop, Valve!vars,
       Valve!Direction, Direction
  <2>4. QED
    BY <1>0, <2>1, <2>2, <2>3 DEF DInv
<1>6. CASE SystemReset
  <2>1. Turned(fw, fw') /\ UNCHANGED <<gear, handle>> /\ zboss'.pc = "idle"
    BY <1>6 DEF SystemReset, FirmwareInit, ZbossIdle, Turned
  <2>2. QED
    BY <1>0, <2>1, TurnedIsAStep DEF DInv
<1>7. CASE UNCHANGED vars
  BY <1>0, <1>7 DEF vars, DInv, Parked, Valve!vars, motor, Driving
<1>8. QED
  BY <1>1, <1>2, <1>3, <1>4, <1>5, <1>6, <1>7 DEF Next, Mechanics, Zboss

\* The firmware implements the valve drive, whatever preempts a command: the
\* motor is never switched on toward an end the drive is at.
THEOREM ValveImplemented == Spec => ImplementsValve
<1>1. Init => DInv /\ Valve!Init
  BY DriveInit
<1>2. DInv /\ [Next]_vars => DInv' /\ [Valve!Next]_Valve!vars
  BY DriveNext
<1>3. QED
  BY <1>1, <1>2, PTL DEF Spec, ImplementsValve, Valve!Spec
-----------------------------------------------------------------------------
(* The stop at the end of travel and what watches the motor, whatever      *)
(* preempts a command.                                                     *)

LimitPin(dir) == IF dir = "open" THEN "open" ELSE "close"

Drives(f, dir) ==
    f.nsleep /\ f.phase = (dir = "closed") /\ f.enable = (dir = "open")

\* What stops a motor that has reached the end it is driven to: the debounce
\* of the limit switch, or after it the press of a control switch.
Stopping(f, dir, pins) ==
    Drives(f, dir) /\ gear = dir =>
        \/ LimitPin(dir) \in pins
        \/ /\ f.full_press_flag
           /\ handle = "open" => "control1" \in pins
           /\ handle = "closed" => "control2" \in pins

\* What watches the motor: a timer, the flag of a dropped countdown, or a
\* control switch at its end or still debounced.
Watched(f, pins) ==
    \/ f.fail_timer # "off" \/ f.need_to_auto_close_flag
    \/ handle # "mid"
    \/ "control1" \in pins \/ "control2" \in pins

\* A command arms the motor timer last, so an awake motor may be unwatched
\* inside one, but only while it drives away from the end the drive is at.
WInv ==
    /\ DInv
    /\ \A dir \in Direction :
          /\ Stopping(fw, dir, cooldown)
          /\ Drives(fw, dir) /\ gear = dir => Watched(fw, cooldown)
    /\ zboss.pc \in {"idle", "logic"} /\ fw.nsleep => Watched(fw, cooldown)

\* What a work item may do about the watch: put the motor to sleep, leave it
\* watched, or leave an unwatched one as it was.
KeepsWatch(f, pins, g, left) ==
    \/ ~g.nsleep
    \/ Watched(g, left)
    \/ /\ ~Watched(f, pins)
       /\ g.nsleep = f.nsleep /\ g.phase = f.phase /\ g.enable = f.enable

LEMMA HandlerStops ==
    ASSUME NEW f \in FirmwareState, NEW to \in Direction, NEW pins,
           \A dir \in Direction : Stopping(f, dir, pins)
    PROVE  LET g == valve_open_close_handler(f, to)
           IN  \A dir \in Direction : Stopping(g, dir, pins)
<1>1. CASE ~Decision(to).act
  BY <1>1 DEF valve_open_close_handler
<1>2. CASE Decision(to).act
  <2> DEFINE g == valve_open_close_handler(f, to)
  <2>1. gear # Decision(to).dir /\ Decision(to).dir \in Direction
    BY <1>2, DecisionAway
  <2>2. g.nsleep /\ g.phase = (Decision(to).dir = "closed")
    BY <1>2 DEF valve_open_close_handler, drive_with_timer, FirmwareState
  <2> HIDE DEF g
  <2>3. \A dir \in Direction : Drives(g, dir) => dir = Decision(to).dir
    BY <2>1, <2>2 DEF Drives, Direction
  <2>4. \A dir \in Direction : Stopping(g, dir, pins)
    BY <2>1, <2>3 DEF Stopping
  <2>5. QED
    BY <2>4 DEF g
<1>3. QED
  BY <1>1, <1>2

\* The handler arms the motor timer, or leaves everything as it was; asked to
\* close, it does so only with the handle at an end.
LEMMA HandlerKeepsWatch ==
    ASSUME NEW f \in FirmwareState, NEW to \in Direction, NEW pins
    PROVE  LET g == valve_open_close_handler(f, to)
           IN  /\ KeepsWatch(f, pins, g, pins)
               /\ to = "closed" => Watched(g, pins)
<1>1. CASE Decision(to).act
  <2>1. valve_open_close_handler(f, to).fail_timer = "fault"
    BY <1>1 DEF valve_open_close_handler, drive_with_timer, FirmwareState
  <2>2. QED
    BY <2>1 DEF KeepsWatch, Watched
<1>2. CASE ~Decision(to).act
  <2>1. valve_open_close_handler(f, to) = f
    BY <1>2 DEF valve_open_close_handler
  <2>2. to = "closed" => handle # "mid"
    BY <1>2 DEF Decision, CloseDecision, Drive, control1_pressed,
                control2_pressed, close_pressed, open_pressed, Level
  <2>3. QED
    BY <2>1, <2>2 DEF KeepsWatch, Watched
<1>3. QED
  BY <1>1, <1>2

\* Delivering a switch event uses up its debounce, and stops the motor if that
\* was the last debounce that would.
LEMMA EventStops ==
    ASSUME NEW f \in FirmwareState, NEW pin \in Pin, NEW pins, handle \in Position,
           \A dir \in Direction : Stopping(f, dir, pins)
    PROVE  LET g == button_event_handler(f, pin, Level(pin))
           IN  \A dir \in Direction : Stopping(g, dir, pins \ {pin})
<1> DEFINE g == button_event_handler(f, pin, Level(pin))
           stopped == IF f.full_press_flag THEN stop_motor(f) ELSE f
<1>1. stopped \in FirmwareState
  BY MotorTyped
<1>2. CASE pin \in {"open", "close"} /\ Level(pin)
  <2>1. g = gear_end_reached(f)
    BY <1>2 DEF button_event_handler
  <2>2. CASE control1_pressed \/ control2_pressed
    BY <2>1, <2>2, StopBridge DEF gear_end_reached, Stopping, Drives
  <2>3. CASE ~(control1_pressed \/ control2_pressed)
    <3>1. g = [f EXCEPT !.full_press_flag = TRUE]
      BY <2>1, <2>3 DEF gear_end_reached
    <3>2. g.full_press_flag /\ handle = "mid"
      BY <2>3, <3>1 DEF FirmwareState, control1_pressed, control2_pressed, Level,
                        Position
    <3> HIDE DEF g
    <3>3. QED
      BY <3>2 DEF Stopping, g
  <2>4. QED
    BY <2>2, <2>3
<1>3. CASE pin \in {"open", "close"} /\ ~Level(pin)
  <2>1. g = f
    BY <1>3 DEF button_event_handler
  <2>2. \A dir \in Direction : gear = dir => LimitPin(dir) # pin
    BY <1>3 DEF Level, LimitPin, Direction
  <2>3. QED
    BY <1>3, <2>1, <2>2 DEF Stopping, LimitPin
<1>4. CASE pin \in {"control1", "control2"} /\ Level(pin)
  <2>1. g = check_valve_on_off_status_and_set_attr(stopped)
    BY <1>4 DEF button_event_handler, control_pressed
  <2>2. CASE f.full_press_flag
    <3>1. ~g.nsleep
      BY <1>1, <2>1, <2>2, CheckBridge, StopBridge
    <3>2. QED
      BY <3>1 DEF Stopping, Drives
  <2>3. CASE ~f.full_press_flag
    <3>1. g.nsleep = f.nsleep /\ g.phase = f.phase /\ g.enable = f.enable
      BY <2>1, <2>3, CheckBridge
    <3>2. \A dir \in Direction : LimitPin(dir) # pin
      BY <1>4 DEF LimitPin
    <3> HIDE DEF g
    <3>3. QED
      BY <2>3, <3>1, <3>2 DEF Stopping, Drives, g
  <2>4. QED
    BY <2>2, <2>3
<1>5. CASE pin \in {"control1", "control2"} /\ ~Level(pin)
  <2>1. g = control_released(f)
    BY <1>5 DEF button_event_handler
  <2>2. CASE f.logic_need_to_be_restored /\ f.double_click_awaiting
    <3>1. ~g.nsleep
      BY <2>1, <2>2 DEF control_released, motor_sleep, FirmwareState
    <3>2. QED
      BY <3>1 DEF Stopping, Drives
  <2>3. CASE ~(f.logic_need_to_be_restored /\ f.double_click_awaiting)
    <3>1. /\ g.nsleep = f.nsleep /\ g.phase = f.phase /\ g.enable = f.enable
          /\ g.full_press_flag = f.full_press_flag
      BY <2>1, <2>3, CheckBridge DEF control_released
    <3>2. /\ \A dir \in Direction : LimitPin(dir) # pin
          /\ handle = "open" => pin # "control1"
          /\ handle = "closed" => pin # "control2"
      BY <1>5 DEF LimitPin, Level
    <3> HIDE DEF g
    <3>3. QED
      BY <3>1, <3>2 DEF Stopping, Drives, g
  <2>4. QED
    BY <2>2, <2>3
<1>6. QED
  BY <1>2, <1>3, <1>4, <1>5 DEF Pin

\* Checking the status arms the countdown unless the handle is at an end.
LEMMA CheckWatched ==
    ASSUME NEW f \in FirmwareState, NEW pins, handle \in Position
    PROVE  Watched(check_valve_on_off_status_and_set_attr(f), pins)
BY DEF check_valve_on_off_status_and_set_attr, Watched, FirmwareState, Position,
       control1_pressed, control2_pressed, Level

LEMMA EventKeepsWatch ==
    ASSUME NEW f \in FirmwareState, NEW pin \in Pin, NEW pins, handle \in Position
    PROVE  KeepsWatch(f, pins, button_event_handler(f, pin, Level(pin)), pins \ {pin})
<1>1. CASE pin \in {"open", "close"}
  <2>1. Watched(f, pins \ {pin}) <=> Watched(f, pins)
    BY <1>1 DEF Watched
  <2>2. KeepsWatch(f, pins, gear_end_reached(f), pins \ {pin})
    BY <2>1, StopBridge DEF gear_end_reached, KeepsWatch, Watched, FirmwareState
  <2>3. QED
    BY <1>1, <2>1, <2>2 DEF button_event_handler, KeepsWatch
<1>2. CASE pin \in {"control1", "control2"} /\ Level(pin)
  BY <1>2 DEF Level, KeepsWatch, Watched
<1>3. CASE pin \in {"control1", "control2"} /\ ~Level(pin)
  <2>1. CASE f.logic_need_to_be_restored /\ f.double_click_awaiting
    <3>1. ~control_released(f).nsleep
      BY <2>1 DEF control_released, motor_sleep, FirmwareState
    <3>2. QED
      BY <1>3, <3>1 DEF button_event_handler, KeepsWatch
  <2>2. CASE ~(f.logic_need_to_be_restored /\ f.double_click_awaiting)
    BY <1>3, <2>2, CheckWatched DEF button_event_handler, control_released,
                                    KeepsWatch
  <2>3. QED
    BY <2>1, <2>2
<1>4. QED
  BY <1>1, <1>2, <1>3 DEF Pin

\* A work item leaves the motor stopping and keeps its watch, at any point of
\* a command.
LEMMA WorkWatched ==
    ASSUME TypeInvariant, WorkQueue,
           \A dir \in Direction : Stopping(fw, dir, cooldown)
    PROVE  /\ \A dir \in Direction : Stopping(fw', dir, cooldown')
           /\ KeepsWatch(fw, cooldown, fw', cooldown')
<1>0. fw \in FirmwareState /\ handle \in Position
  BY DEF TypeInvariant
<1>1. ASSUME NEW pin \in Pin, CooldownExpired(pin)
      PROVE  /\ \A dir \in Direction : Stopping(fw', dir, cooldown')
             /\ KeepsWatch(fw, cooldown, fw', cooldown')
  <2>1. /\ fw' = button_event_handler(fw, pin, Level(pin))
        /\ cooldown' = cooldown \ {pin}
    BY <1>1 DEF CooldownExpired, Run
  <2>2. QED
    BY <1>0, <2>1, EventStops, EventKeepsWatch
<1>2. CASE fail_report_timer_handler
  <2> DEFINE f == [fw EXCEPT !.fail_timer = "off"]
             g == [f EXCEPT !.need_to_auto_close_flag = FALSE]
             h == [motor_sleep(f) EXCEPT !.motor_working = FALSE]
             c == check_valve_on_off_status_and_set_attr(h)
             v == valve_open_close_handler(g, "closed")
  <2>1. /\ fw' = v \/ (fw' = f /\ f.need_to_auto_close_flag) \/ fw' = c
        /\ cooldown' = cooldown
    BY <1>2 DEF fail_report_timer_handler, Run
  <2>2. /\ f \in FirmwareState /\ g \in FirmwareState
        /\ \A dir \in Direction : Stopping(f, dir, cooldown)
        /\ \A dir \in Direction : Stopping(g, dir, cooldown)
    BY <1>0 DEF FirmwareState, FailTimer, Stopping, Drives
  <2>3. h \in FirmwareState /\ ~h.nsleep
    <3> HIDE DEF f
    <3>1. motor_sleep(f) \in FirmwareState /\ ~motor_sleep(f).nsleep
      BY <2>2, SleepTyped
    <3>2. QED
      BY <3>1 DEF FirmwareState
  <2> HIDE DEF f, g, h
  <2>4. /\ ~c.nsleep
        /\ \A dir \in Direction : Stopping(c, dir, cooldown)
    BY <2>3, CheckBridge DEF Stopping, Drives
  <2>5. /\ Watched(v, cooldown)
        /\ \A dir \in Direction : Stopping(v, dir, cooldown)
    BY <2>2, HandlerStops, HandlerKeepsWatch DEF Direction
  <2> HIDE DEF c, v
  <2>6. QED
    BY <2>1, <2>2, <2>4, <2>5 DEF KeepsWatch, Watched
<1>3. CASE pairing_advertising_off_timer_handler
  <2> DEFINE f == [fw EXCEPT !.pairing_timer = "off"]
             g == [f EXCEPT !.logic_need_to_be_restored = FALSE]
             restored ==
               IF      f.moving_to_close THEN valve_open_close_handler(g, "closed")
               ELSE IF f.moving_to_open  THEN valve_open_close_handler(g, "open")
               ELSE g
             cleared == [restored EXCEPT !.moving_to_open = FALSE,
                                         !.moving_to_close = FALSE]
  <2>1. fw' \in {cleared, f} /\ cooldown' = cooldown
    BY <1>3 DEF pairing_advertising_off_timer_handler, Run
  <2>2. /\ f \in FirmwareState /\ g \in FirmwareState
        /\ \A dir \in Direction : Stopping(f, dir, cooldown)
        /\ \A dir \in Direction : Stopping(g, dir, cooldown)
        /\ KeepsWatch(fw, cooldown, f, cooldown)
        /\ KeepsWatch(g, cooldown, g, cooldown)
        /\ Watched(g, cooldown) <=> Watched(fw, cooldown)
        /\ g.nsleep = fw.nsleep /\ g.phase = fw.phase /\ g.enable = fw.enable
    BY <1>0 DEF FirmwareState, PairingTimer, Stopping, Drives, KeepsWatch, Watched
  <2> HIDE DEF f, g
  <2>3. /\ restored \in FirmwareState
        /\ \A dir \in Direction : Stopping(restored, dir, cooldown)
        /\ KeepsWatch(g, cooldown, restored, cooldown)
    BY <2>2, HandlerStops, HandlerKeepsWatch, HandlerTyped DEF Direction
  <2> HIDE DEF restored
  <2>4. /\ \A dir \in Direction : Stopping(cleared, dir, cooldown)
        /\ KeepsWatch(g, cooldown, cleared, cooldown)
    BY <2>3 DEF Stopping, Drives, FirmwareState, KeepsWatch, Watched
  <2> HIDE DEF cleared
  <2>5. KeepsWatch(fw, cooldown, cleared, cooldown)
    BY <2>2, <2>4 DEF KeepsWatch
  <2>6. QED
    BY <2>1, <2>2, <2>4, <2>5
<1>4. CASE forget_network
  BY <1>0, <1>4 DEF forget_network, FirmwareState, Stopping, Drives, KeepsWatch,
                    Watched
<1>5. QED
  BY <1>1, <1>2, <1>3, <1>4 DEF WorkQueue

\* No step of the firmware sets the motor driving toward the end the drive is at.
LEMMA NeverTowardEnd ==
    ASSUME DInv, [Next]_vars, gear' = gear,
           NEW dir \in Direction, gear = dir, Drives(fw', dir)
    PROVE  Drives(fw, dir)
<1>1. [Valve!Next]_Valve!vars
  BY DriveNext
<1>2. motor' = dir
  BY DEF motor, Driving, Drives, Direction
<1>3. motor = dir
  BY <1>1, <1>2 DEF Valve!Next, Valve!TurnHandle, Valve!Travel, Valve!Start,
     Valve!Stop, Valve!vars, Valve!Direction, Direction
<1>4. QED
  BY <1>3 DEF motor, Driving, Drives, Direction

LEMMA WatchedInit == Init => WInv
BY DriveInit DEF Init, WInv, Stopping, Drives, FirmwareInit

LEMMA WatchedNext == WInv /\ [Next]_vars => WInv'
<1> SUFFICES ASSUME WInv, [Next]_vars
             PROVE  /\ \A dir \in Direction :
                          /\ Stopping(fw, dir, cooldown)'
                          /\ (Drives(fw, dir) /\ gear = dir => Watched(fw, cooldown))'
                    /\ (zboss.pc \in {"idle", "logic"} /\ fw.nsleep
                           => Watched(fw, cooldown))'
  BY DriveNext DEF WInv
<1>0. /\ DInv /\ TypeInvariant /\ fw \in FirmwareState /\ zboss \in ZbossState
      /\ gear \in Position /\ handle \in Position
      /\ \A dir \in Direction :
            /\ Stopping(fw, dir, cooldown)
            /\ Drives(fw, dir) /\ gear = dir => Watched(fw, cooldown)
      /\ zboss.pc \in {"idle", "logic"} /\ fw.nsleep => Watched(fw, cooldown)
  BY DEF WInv, DInv, TypeInvariant
<1>1. CASE Mechanics
  <2>1. PICK g2, h2 \in Position :
           /\ Move(g2, h2)
           /\ g2 # gear => \E dir \in Direction : Drives(fw, dir) /\ gear # dir
    BY <1>0, <1>1 DEF Mechanics, TurnHandle, MotorTurns, Toward,
                      Position, Direction, Driving, Drives
  <2>2. /\ zboss.pc = "idle" /\ UNCHANGED <<fw, zboss>>
        /\ gear' = g2 /\ handle' = h2
        /\ cooldown' = cooldown \cup Edges(gear, handle, g2, h2)
    BY <2>1 DEF Move
  <2>3. ASSUME NEW dir \in Direction
        PROVE  Stopping(fw, dir, cooldown)'
    <3> SUFFICES ASSUME Drives(fw, dir), g2 = dir
                 PROVE  \/ LimitPin(dir) \in cooldown'
                        \/ /\ fw.full_press_flag
                           /\ h2 = "open" => "control1" \in cooldown'
                           /\ h2 = "closed" => "control2" \in cooldown'
      BY <2>2 DEF Stopping, Drives
    <3>1. CASE gear # dir
      BY <2>2, <3>1 DEF LimitPin, Edges, Pin, Direction
    <3>2. CASE gear = dir
      <4>1. \/ LimitPin(dir) \in cooldown
            \/ /\ fw.full_press_flag
               /\ handle = "open" => "control1" \in cooldown
               /\ handle = "closed" => "control2" \in cooldown
        BY <1>0, <3>2 DEF Stopping
      <4>2. h2 = "open" /\ handle # "open" => "control1" \in cooldown'
        BY <2>2 DEF Edges, Pin
      <4>3. h2 = "closed" /\ handle # "closed" => "control2" \in cooldown'
        BY <2>2 DEF Edges, Pin
      <4>4. QED
        BY <2>2, <4>1, <4>2, <4>3
    <3>3. QED
      BY <3>1, <3>2
  <2>4. fw'.nsleep => Watched(fw, cooldown)'
    BY <1>0, <2>2 DEF Edges, Pin, Position, Watched
  <2>5. QED
    BY <2>3, <2>4 DEF Drives
<1>2. CASE WorkQueue
  <2>1. /\ UNCHANGED <<gear, handle>> /\ zboss'.pc = zboss.pc
        /\ \A dir \in Direction : Stopping(fw', dir, cooldown')
        /\ KeepsWatch(fw, cooldown, fw', cooldown')
    BY <1>0, <1>2, WorkTurned, WorkWatched
  <2>2. \A dir \in Direction :
           Drives(fw', dir) /\ gear = dir => Watched(fw', cooldown')
    BY <1>0, <2>1 DEF KeepsWatch, Drives
  <2>3. zboss.pc \in {"idle", "logic"} /\ fw'.nsleep => Watched(fw', cooldown')
    BY <1>0, <2>1 DEF KeepsWatch
  <2>4. QED
    BY <2>1, <2>2, <2>3 DEF Stopping, Drives, Watched
<1>3. CASE Zboss
  <2>1. /\ UNCHANGED <<gear, handle, cooldown>>
        /\ fw'.full_press_flag = fw.full_press_flag
        /\ fw'.need_to_auto_close_flag = fw.need_to_auto_close_flag
        /\ fw'.fail_timer \in {fw.fail_timer, "fault"}
    BY <1>0, <1>3 DEF Zboss, ZclCommand, MarkWorking, WakeDriver, SetPhase,
       SetEnable, ArmFault, SetLogic, ZbossStep, FirmwareState
  <2>2. Watched(fw, cooldown) => Watched(fw, cooldown)'
    BY <2>1 DEF Watched
  <2>3. ASSUME NEW dir \in Direction
        PROVE  /\ Stopping(fw, dir, cooldown)'
               /\ (Drives(fw, dir) /\ gear = dir => Watched(fw, cooldown))'
    <3>1. gear = dir /\ Drives(fw', dir) => Drives(fw, dir)
      BY <1>0, <2>1, NeverTowardEnd
    <3>2. QED
      BY <1>0, <2>1, <2>2, <3>1 DEF Stopping, Drives
  <2>4. (zboss.pc \in {"idle", "logic"} /\ fw.nsleep => Watched(fw, cooldown))'
    <3>1. CASE ZclCommand \/ SetLogic
      <4>1. fw'.nsleep = fw.nsleep /\ zboss.pc \in {"idle", "logic"}
        BY <1>0, <3>1 DEF ZclCommand, SetLogic, ZbossStep, FirmwareState
      <4>2. QED
        BY <1>0, <2>2, <4>1
    <3>2. CASE ArmFault
      BY <1>0, <3>2 DEF ArmFault, ZbossStep, FirmwareState, Watched
    <3>3. CASE MarkWorking \/ WakeDriver \/ SetPhase \/ SetEnable
      BY <1>0, <3>3 DEF MarkWorking, WakeDriver, SetPhase, SetEnable, ZbossStep,
                        ZbossState
    <3>4. QED
      BY <1>3, <3>1, <3>2, <3>3 DEF Zboss
  <2>5. QED
    BY <2>3, <2>4
<1>4. CASE SystemReset
  BY <1>4 DEF SystemReset, FirmwareInit, Stopping, Drives
<1>5. CASE UNCHANGED vars
  BY <1>0, <1>5 DEF vars, Stopping, Drives, Watched
<1>6. QED
  BY <1>1, <1>2, <1>3, <1>4, <1>5 DEF Next

\* The motor never goes on pushing against the end it has reached while the
\* handle rests at an end, whatever preempts a command and wherever.
THEOREM StopsAtEndCorrect == Spec => []StopsAtEndOfTravel
<1>1. WInv => StopsAtEndOfTravel
  BY DEF WInv, DInv, StopsAtEndOfTravel, Stopping, Drives, Driving, TypeInvariant,
         Position, Direction
<1>2. QED
  BY WatchedInit, WatchedNext, <1>1, PTL DEF Spec

\* A motor stalled at its end that no timer and no switch will stop has one
\* cause, whatever preempts a command: a countdown that expired during the run
\* and was dropped.
THEOREM UnwatchedStallCorrect == Spec => []UnwatchedStallIsDroppedCountdown
<1>1. WInv => UnwatchedStallIsDroppedCountdown
  BY DEF WInv, DInv, UnwatchedStallIsDroppedCountdown, Stopping, Drives, Driving,
         Watched, TypeInvariant, Position, Direction
<1>2. QED
  BY WatchedInit, WatchedNext, <1>1, PTL DEF Spec

-----------------------------------------------------------------------------
(* What motor_working says of the driver.  Each handler of the work queue  *)
(* keeps Known; of a command's assignments only two can break it, and they *)
(* need motor_working cleared after the command has set it.                *)

LEMMA HandlerKnown ==
    ASSUME NEW f \in FirmwareState, NEW to \in Direction, Known(f)
    PROVE  Known(valve_open_close_handler(f, to))
BY DEF valve_open_close_handler, drive_with_timer, Known, FirmwareState

LEMMA EventKnown ==
    ASSUME NEW f \in FirmwareState, NEW pin \in Pin, NEW pressed \in BOOLEAN, Known(f)
    PROVE  Known(button_event_handler(f, pin, pressed))
<1>1. stop_motor(f) \in FirmwareState /\ Known(stop_motor(f))
  BY MotorTyped, StopBridge DEF Known
<1>2. Known(gear_end_reached(f))
  BY <1>1 DEF gear_end_reached, Known, FirmwareState
<1>3. \A h \in FirmwareState : Known(h) => Known(check_valve_on_off_status_and_set_attr(h))
  BY CheckBridge DEF Known
<1>4. Known(control_pressed(f))
  BY <1>1, <1>3 DEF control_pressed
<1>5. Known(control_released(f))
  BY <1>3 DEF control_released, motor_sleep, Known, FirmwareState
<1>6. QED
  BY <1>2, <1>4, <1>5 DEF button_event_handler

LEMMA TrackStep ==
    ASSUME TypeInvariant, Known(fw), [Next]_vars
    PROVE  Known(fw') \/ (zboss.pc \in {"wake", "arm"} /\ ~fw.motor_working)
<1>0. fw \in FirmwareState /\ zboss \in ZbossState
  BY DEF TypeInvariant
<1>1. CASE Mechanics
  <2>1. UNCHANGED fw
    BY <1>1 DEF Mechanics, TurnHandle, MotorTurns, Move
  <2>2. QED
    BY <1>0, <2>1 DEF Known
<1>2. ASSUME NEW pin \in Pin, CooldownExpired(pin)
      PROVE  Known(fw')
  <2>1. fw' = button_event_handler(fw, pin, Level(pin))
    BY <1>2 DEF CooldownExpired, Run
  <2>2. QED
    BY <1>0, <2>1, EventKnown DEF Level
<1>3. CASE fail_report_timer_handler
  <2> DEFINE f == [fw EXCEPT !.fail_timer = "off"]
             g == [f EXCEPT !.need_to_auto_close_flag = FALSE]
             h == [motor_sleep(f) EXCEPT !.motor_working = FALSE]
             c == check_valve_on_off_status_and_set_attr(h)
             v == valve_open_close_handler(g, "closed")
  <2>1. Run("fail", v) \/ Run("fail", f) \/ Run("fail", c)
    BY <1>3 DEF fail_report_timer_handler
  <2>2. fw' \in {v, f, c}
    BY <2>1 DEF Run
  <2>3. f \in FirmwareState /\ g \in FirmwareState /\ Known(f) /\ Known(g)
    BY <1>0 DEF FirmwareState, FailTimer, Known
  <2>4. h \in FirmwareState /\ ~h.nsleep
    <3> HIDE DEF f
    <3>1. motor_sleep(f) \in FirmwareState /\ ~motor_sleep(f).nsleep
      BY <2>3, SleepTyped
    <3>2. QED
      BY <3>1 DEF FirmwareState
  <2> HIDE DEF f, g, h
  <2>5. Known(c) /\ Known(v)
    BY <2>3, <2>4, CheckBridge, HandlerKnown DEF Known, Direction
  <2>6. QED
    BY <2>2, <2>3, <2>5
<1>4. CASE pairing_advertising_off_timer_handler
  <2> DEFINE f == [fw EXCEPT !.pairing_timer = "off"]
             g == [f EXCEPT !.logic_need_to_be_restored = FALSE]
             restored ==
               IF      f.moving_to_close THEN valve_open_close_handler(g, "closed")
               ELSE IF f.moving_to_open  THEN valve_open_close_handler(g, "open")
               ELSE g
             cleared == [restored EXCEPT !.moving_to_open = FALSE,
                                         !.moving_to_close = FALSE]
  <2>1. Run("pairing", IF f.logic_need_to_be_restored THEN cleared ELSE f)
    BY <1>4 DEF pairing_advertising_off_timer_handler
  <2>2. fw' \in {cleared, f}
    BY <2>1 DEF Run
  <2>3. f \in FirmwareState /\ g \in FirmwareState /\ Known(f) /\ Known(g)
    BY <1>0 DEF FirmwareState, PairingTimer, Known
  <2> HIDE DEF f, g
  <2>4. restored \in FirmwareState /\ Known(restored)
    BY <2>3, HandlerKnown, HandlerTyped DEF Direction
  <2> HIDE DEF restored
  <2>5. Known(cleared)
    BY <2>4 DEF Known, FirmwareState
  <2> HIDE DEF cleared
  <2>6. QED
    BY <2>2, <2>3, <2>5
<1>5. CASE forget_network
  BY <1>0, <1>5 DEF forget_network, FirmwareState, Known
<1>6. CASE ZclCommand \/ SetPhase \/ SetEnable \/ SetLogic
  <2>1. /\ fw'.nsleep = fw.nsleep /\ fw'.fail_timer = fw.fail_timer
        /\ fw'.motor_working = fw.motor_working
    BY <1>0, <1>6
       DEF ZclCommand, SetPhase, SetEnable, SetLogic, ZbossStep, FirmwareState
  <2>2. QED
    BY <2>1 DEF Known
<1>7. CASE MarkWorking
  BY <1>0, <1>7 DEF MarkWorking, ZbossStep, FirmwareState, Known
<1>8. CASE WakeDriver \/ ArmFault
  <2>1. /\ zboss.pc \in {"wake", "arm"}
        /\ fw'.motor_working = fw.motor_working
    BY <1>0, <1>8 DEF WakeDriver, ArmFault, ZbossStep, FirmwareState
  <2>2. QED
    BY <2>1 DEF Known
<1>9. CASE SystemReset
  BY <1>9 DEF SystemReset, FirmwareInit, Known
<1>10. CASE UNCHANGED vars
  BY <1>0, <1>10 DEF vars, Known
<1>11. QED
  BY <1>1, <1>2, <1>3, <1>4, <1>5, <1>6, <1>7, <1>8, <1>9, <1>10
     DEF Next, WorkQueue, Zboss

\* Whatever preempts a command, an awake motor or the motor timer escapes
\* motor_working in one way only: a stop has overtaken a command that goes on
\* to wake the driver or to arm the timer.
THEOREM TrackCorrect == Spec => LosesTrackOnlyWhenOvertaken
<1>1. TypeInvariant /\ [Next]_vars
         => [Known(fw) /\ ~Known(fw)'
               => zboss.pc \in {"wake", "arm"} /\ ~fw.motor_working]_vars
  BY TrackStep DEF Known
<1>2. QED
  BY <1>1, TypeCorrect, PTL DEF Spec, LosesTrackOnlyWhenOvertaken
=============================================================================
