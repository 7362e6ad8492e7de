------------------------- MODULE IndicationV1Proofs -------------------------
(***************************************************************************)
(* Theorems about IndicationV1, for every set of switches and whatever     *)
(* preempts a callback: the type invariant, what the long push and the     *)
(* buzzer require of the pairing button, and that the LED blinks when it   *)
(* is to.                                                                  *)
(***************************************************************************)
EXTENDS IndicationV1, TLAPS

-----------------------------------------------------------------------------
(* What every handler of the interrupt respects.                           *)

Blinks(f) == f.m_stable_state = "directed" => f.leds_tmr

Respects(f, g) ==
    /\ g \in FirmwareState
    /\ Blinks(f) => Blinks(g)

\* The long push and the buzzer need the button before and after.
Quiet(f, g) ==
    /\ g.button_tmr => f.button_tmr
    /\ g.buzzer => f.buzzer

LEMMA RespectsItself ==
    ASSUME NEW f \in FirmwareState
    PROVE  Respects(f, f)
BY DEF Respects

LEMMA ButtonHandlers ==
    ASSUME NEW f \in FirmwareState, NEW x \in BOOLEAN, NEW y \in BOOLEAN
    PROVE  /\ Respects(f, [f EXCEPT !.button_tmr = @ \/ x])
           /\ Respects(f, [f EXCEPT !.button_tmr = FALSE, !.buzzer = @ /\ y])
<1>1. (f.button_tmr \/ x) \in BOOLEAN /\ (f.buzzer /\ y) \in BOOLEAN
  OBVIOUS
<1>2. QED
  BY <1>1 DEF Respects, Blinks, FirmwareState

LEMMA LongPush ==
    ASSUME NEW f \in FirmwareState
    PROVE  LET g == forget_network([f EXCEPT !.button_tmr = FALSE])
           IN  Respects(f, g) /\ ~g.button_tmr
<1> DEFINE e == [f EXCEPT !.button_tmr = FALSE]
           g == forget_network(e)
<1>1. CASE f.pairing_in_progress
  BY <1>1 DEF forget_network, Respects, Blinks, FirmwareState
<1>2. CASE ~f.pairing_in_progress
  <2>1. /\ (~f.led) \in BOOLEAN
        /\ app_timer_start(f.pairing_timer, "buzzer") \in PairingTimer
    BY DEF app_timer_start, PairingTimer, FirmwareState
  <2>2. g = [indicate_directed(e) EXCEPT
                !.pairing_timer = app_timer_start(f.pairing_timer, "buzzer"),
                !.pairing_in_progress = TRUE,
                !.buzzer_on_crutch = TRUE, !.buzzer = TRUE]
    BY <1>2 DEF forget_network, indicate_directed, FirmwareState
  <2>3. /\ g \in FirmwareState /\ g.leds_tmr /\ g.pairing_in_progress
        /\ ~g.button_tmr
    <3> HIDE DEF g
    <3> QED BY <2>1, <2>2 DEF indicate_directed, FirmwareState, Indication
  <2>4. QED
    BY <2>3 DEF Respects, Blinks
<1>3. QED
  BY <1>1, <1>2

LEMMA LedTimer ==
    ASSUME NEW f \in FirmwareState
    PROVE  LET g == bsp_led_indication([f EXCEPT !.leds_tmr = FALSE], f.m_stable_state)
           IN  Respects(f, g) /\ Quiet(f, g)
<1>1. (~f.led) \in BOOLEAN
  OBVIOUS
<1>2. QED
  BY <1>1 DEF bsp_led_indication, indicate_idle, indicate_directed, Respects,
              Quiet, Blinks, FirmwareState, Indication

LEMMA PairingExpiry ==
    ASSUME NEW f \in FirmwareState, NEW logic \in BOOLEAN
    PROVE  LET e == [f EXCEPT !.pairing_timer = "off"]
           IN  /\ Respects(f, [e EXCEPT !.logic_need_to_be_restored = logic])
               /\ Quiet(f, [e EXCEPT !.logic_need_to_be_restored = logic])
               /\ Respects(f, buzzer_expires(e)) /\ Quiet(f, buzzer_expires(e))
               /\ Respects(f, stop_pairing(e)) /\ Quiet(f, stop_pairing(e))
BY DEF buzzer_expires, stop_pairing, indicate_idle, Respects, Quiet, Blinks,
       FirmwareState, PairingTimer, Indication

LEMMA ValveHandlers ==
    ASSUME NEW f \in FirmwareState, NEW logic \in BOOLEAN
    PROVE  LET d == [f EXCEPT !.logic_need_to_be_restored = logic]
               r == [f EXCEPT !.pairing_timer = app_timer_start(@, "restore")]
           IN  /\ Respects(f, d) /\ Quiet(f, d)
               /\ Respects(f, r) /\ Quiet(f, r)
BY DEF app_timer_start, Respects, Quiet, Blinks, FirmwareState, PairingTimer

-----------------------------------------------------------------------------
(* The interrupt as a whole.                                               *)

\* What a step of the interrupt leaves behind.
Interrupted ==
    /\ Respects(fw, fw')
    /\ pushed' \subseteq Button
    /\ fw'.button_tmr =>
          "pairing" \in pushed' /\ (fw.button_tmr \/ pushed' # pushed)
    /\ fw'.buzzer => "pairing" \in pushed'
    /\ zboss' = [zboss EXCEPT !.due = zboss'.due]
    /\ zboss'.due \subseteq zboss.due

LEMMA RunLeaves ==
    ASSUME TypeInvariant, NEW source, NEW f, Run(source, f)
    PROVE  /\ fw' = f
           /\ zboss' = [zboss EXCEPT !.due = zboss'.due]
           /\ zboss'.due \subseteq zboss.due
BY DEF Run, TypeInvariant, ZbossState

LEMMA InterruptLeaves ==
    ASSUME TypeInvariant, LongPushIsHeld, BuzzerIsHeard, Interrupt
    PROVE  Interrupted
<1> fw \in FirmwareState /\ pushed \subseteq Button
  BY DEF TypeInvariant
<1> USE DEF LongPushIsHeld, BuzzerIsHeard
<1>1. ASSUME NEW b \in Button, ButtonPush(b) PROVE Interrupted
  <2> DEFINE x == b = "pairing"
             f == [fw EXCEPT !.button_tmr = @ \/ x]
  <2>1. Run(b, f)
    BY <1>1 DEF ButtonPush
  <2>2. Respects(fw, f)
    BY ButtonHandlers
  <2>3. /\ f.button_tmr => fw.button_tmr \/ b = "pairing"
        /\ f.buzzer => fw.buzzer
    BY DEF FirmwareState
  <2>4. pushed' = pushed \cup {b} /\ b \notin pushed
    BY <1>1 DEF ButtonPush
  <2> HIDE DEF f
  <2>5. QED
    BY <2>1, <2>2, <2>3, <2>4, RunLeaves DEF Interrupted
<1>2. ASSUME NEW b \in Button, ButtonRelease(b) PROVE Interrupted
  <2> DEFINE y == b # "pairing"
             f == [fw EXCEPT !.button_tmr = FALSE, !.buzzer = @ /\ y]
  <2>1. Run(b, f)
    BY <1>2 DEF ButtonRelease
  <2>2. Respects(fw, f)
    BY ButtonHandlers
  <2>3. ~f.button_tmr /\ (f.buzzer => fw.buzzer /\ b # "pairing")
    BY DEF FirmwareState
  <2>4. pushed' = pushed \ {b}
    BY <1>2 DEF ButtonRelease
  <2> HIDE DEF f
  <2>5. QED
    BY <2>1, <2>2, <2>3, <2>4, RunLeaves DEF Interrupted
<1>3. ASSUME button_timer_handler PROVE Interrupted
  <2> DEFINE f == forget_network([fw EXCEPT !.button_tmr = FALSE])
  <2>1. Run("button_tmr", f) /\ fw.button_tmr
    BY <1>3 DEF button_timer_handler
  <2>2. Respects(fw, f) /\ ~f.button_tmr
    BY LongPush
  <2>3. UNCHANGED pushed
    BY <1>3 DEF button_timer_handler
  <2> HIDE DEF f
  <2>4. QED
    BY <2>1, <2>2, <2>3, RunLeaves DEF Interrupted
<1>4. ASSUME leds_timer_handler PROVE Interrupted
  <2> DEFINE f == bsp_led_indication([fw EXCEPT !.leds_tmr = FALSE], fw.m_stable_state)
  <2>1. Run("leds_tmr", f) /\ UNCHANGED pushed
    BY <1>4 DEF leds_timer_handler
  <2>2. Respects(fw, f) /\ Quiet(fw, f)
    BY LedTimer
  <2> HIDE DEF f
  <2>3. QED
    BY <2>1, <2>2, RunLeaves DEF Interrupted, Quiet
<1>5. ASSUME pairing_advertising_off_timer_handler PROVE Interrupted
  <2>1. PICK f : Run("pairing_timer", f) /\ Respects(fw, f) /\ Quiet(fw, f)
    BY <1>5, PairingExpiry DEF pairing_advertising_off_timer_handler
  <2>2. UNCHANGED pushed
    BY <1>5 DEF pairing_advertising_off_timer_handler
  <2>3. QED
    BY <2>1, <2>2, RunLeaves DEF Interrupted, Quiet
<1>6. ASSUME ValveDecides PROVE Interrupted
  <2>1. Respects(fw, fw') /\ Quiet(fw, fw')
    BY <1>6, ValveHandlers DEF ValveDecides
  <2>2. UNCHANGED <<pushed, zboss>>
    BY <1>6 DEF ValveDecides
  <2>3. QED
    BY <2>1, <2>2 DEF Interrupted, Quiet, TypeInvariant, ZbossState
<1>7. ASSUME ValveRestores PROVE Interrupted
  <2>1. Respects(fw, fw') /\ Quiet(fw, fw')
    BY <1>7, ValveHandlers DEF ValveRestores
  <2>2. UNCHANGED pushed
    BY <1>7 DEF ValveRestores
  <2>3. /\ zboss' = [zboss EXCEPT !.due = zboss'.due]
        /\ zboss'.due \subseteq zboss.due
    BY <1>7 DEF ValveRestores, TypeInvariant, ZbossState
  <2>4. QED
    BY <2>1, <2>2, <2>3 DEF Interrupted, Quiet
<1>8. QED
  BY <1>1, <1>2, <1>3, <1>4, <1>5, <1>6, <1>7 DEF Interrupt

LEMMA ZbossLeaves ==
    ASSUME TypeInvariant, ZbossRuns
    PROVE  /\ zboss' \in ZbossState
           /\ fw' \in FirmwareState
           /\ UNCHANGED pushed
<1> fw \in FirmwareState /\ zboss \in ZbossState
  BY DEF TypeInvariant
<1>1. ASSUME NEW at, NEW f \in FirmwareState,
             NEW next \in {"idle", "direct", "time", "untime", "settle", "stop",
                           "clear", "mute"},
             ZbossStep(at, next, f)
      PROVE  /\ zboss' \in ZbossState
             /\ fw' \in FirmwareState
             /\ UNCHANGED pushed
  BY <1>1 DEF ZbossStep, ZbossIdle, ZbossState
<1>2. (~zboss.lit) \in BOOLEAN
  OBVIOUS
<1>3. /\ [fw EXCEPT !.led = ~zboss.lit] \in FirmwareState
      /\ [fw EXCEPT !.m_stable_state = "directed"] \in FirmwareState
      /\ [fw EXCEPT !.leds_tmr = TRUE] \in FirmwareState
  BY <1>2 DEF FirmwareState, Indication
<1>4. /\ [fw EXCEPT !.led = FALSE] \in FirmwareState
      /\ [fw EXCEPT !.leds_tmr = FALSE] \in FirmwareState
      /\ [fw EXCEPT !.m_stable_state = "idle"] \in FirmwareState
  BY DEF FirmwareState, Indication
<1>5. /\ [fw EXCEPT !.pairing_timer = "off"] \in FirmwareState
      /\ [fw EXCEPT !.pairing_in_progress = FALSE] \in FirmwareState
      /\ [fw EXCEPT !.buzzer = FALSE] \in FirmwareState
  BY DEF FirmwareState, PairingTimer
<1>6. CASE TurnLed \/ SetDirected \/ StartLedTimer
  BY <1>1, <1>3, <1>6 DEF TurnLed, SetDirected, StartLedTimer
<1>7. CASE LedsOff \/ StopLedTimer \/ SetIdle
  BY <1>1, <1>4, <1>7 DEF LedsOff, StopLedTimer, SetIdle
<1>8. CASE StopPairingTimer \/ ClearPairing \/ MuteBuzzer
  BY <1>1, <1>5, <1>8 DEF StopPairingTimer, ClearPairing, MuteBuzzer
<1>9. QED
  BY <1>6, <1>7, <1>8 DEF ZbossRuns

-----------------------------------------------------------------------------
(* Whatever preempts a callback.                                           *)

\* DirectedBlinks inside the callbacks: the timer is on its way, or the
\* indication about to end.
Underway == Blinks(fw) \/ zboss.pc \in {"time", "settle"}

IInv == TypeInvariant /\ LongPushIsHeld /\ BuzzerIsHeard /\ Underway

LEMMA ResetTyped == Reset \in FirmwareState /\ ZbossIdle \in ZbossState
<1>1. Reset \in FirmwareState
  BY DEF Reset, FirmwareState, Indication, PairingTimer
<1>2. ZbossIdle \in ZbossState
  BY DEF ZbossIdle, ZbossState
<1>3. QED
  BY <1>1, <1>2

LEMMA IInvInit == Init => IInv
<1>1. ~Reset.button_tmr /\ ~Reset.buzzer /\ Reset.m_stable_state = "idle"
  BY DEF Reset
<1>2. QED
  BY <1>1, ResetTyped
     DEF Init, IInv, TypeInvariant, LongPushIsHeld, BuzzerIsHeard, Underway, Blinks

LEMMA IInvStep == IInv /\ [Next]_vars => IInv'
<1> SUFFICES ASSUME IInv, [Next]_vars PROVE IInv'
  OBVIOUS
<1> USE DEF IInv
<1> fw \in FirmwareState /\ zboss \in ZbossState /\ pushed \subseteq Button
  BY DEF TypeInvariant
<1>1. CASE Interrupt
  <2>1. Interrupted
    BY <1>1, InterruptLeaves
  <2>2. zboss' \in ZbossState /\ zboss'.pc = zboss.pc
    BY <2>1 DEF Interrupted, ZbossState
  <2>3. TypeInvariant'
    BY <2>1, <2>2 DEF Interrupted, Respects, TypeInvariant
  <2>4. LongPushIsHeld' /\ BuzzerIsHeard'
    BY <2>1 DEF Interrupted, LongPushIsHeld, BuzzerIsHeard
  <2>5. Underway'
    BY <2>1, <2>2 DEF Interrupted, Respects, Underway, Blinks
  <2>6. QED
    BY <2>3, <2>4, <2>5
<1>2. CASE ZbossStarts
  <2>1. fw.led \in BOOLEAN /\ Due \in SUBSET (Button \cup Timer)
    BY DEF Due, Running, Timer, FirmwareState
  <2>2. PICK pc \in {"turn", "dark"}, join \in BOOLEAN : Callback(pc, join)
    BY <1>2 DEF ZbossStarts, IdentifyStart, IdentifyStop, JoinSignal
  <2>3. zboss' \in ZbossState /\ UNCHANGED <<pushed, fw>> /\ zboss.pc = "idle"
    BY <2>1, <2>2 DEF Callback, ZbossState
  <2>4. QED
    BY <2>3 DEF TypeInvariant, LongPushIsHeld, BuzzerIsHeard, Underway, Blinks
<1>3. CASE ZbossRuns
  <2>1. zboss' \in ZbossState /\ fw' \in FirmwareState
        /\ UNCHANGED pushed
    BY <1>3, ZbossLeaves
  <2>3. Quiet(fw, fw')
    BY <1>3 DEF ZbossRuns, ZbossStep, TurnLed, SetDirected, StartLedTimer, LedsOff,
                StopLedTimer, SetIdle, StopPairingTimer, ClearPairing, MuteBuzzer,
                FirmwareState, Quiet
  <2>4. Underway'
    BY <1>3 DEF ZbossRuns, ZbossStep, TurnLed, SetDirected, StartLedTimer, LedsOff,
                StopLedTimer, SetIdle, StopPairingTimer, ClearPairing, MuteBuzzer,
                FirmwareState, ZbossState, ZbossIdle, Underway, Blinks
  <2>5. QED
    BY <2>1, <2>3, <2>4 DEF TypeInvariant, LongPushIsHeld, BuzzerIsHeard, Quiet
<1>4. CASE SystemReset
  <2>1. ~Reset.button_tmr /\ ~Reset.buzzer /\ Reset.m_stable_state = "idle"
    BY DEF Reset
  <2>2. QED
    BY <1>4, <2>1, ResetTyped
       DEF SystemReset, TypeInvariant, LongPushIsHeld, BuzzerIsHeard, Underway, Blinks
<1>5. CASE UNCHANGED vars
  BY <1>5 DEF vars, TypeInvariant, LongPushIsHeld, BuzzerIsHeard, Underway, Blinks
<1>6. QED
  BY <1>1, <1>2, <1>3, <1>4, <1>5 DEF Next

LEMMA Invariance == Spec => []IInv
BY IInvInit, IInvStep, PTL DEF Spec

\* The type invariant of the state.
THEOREM TypeCorrect == Spec => []TypeInvariant
BY Invariance, PTL DEF IInv

\* A long push is one of a pairing button that is down: button_timer_handler
\* never resets the device for a push that is over.
THEOREM LongPushCorrect == Spec => []LongPushIsHeld
BY Invariance, PTL DEF IInv

\* The buzzer never sounds for a pairing button that is up, whichever of
\* stop_pairing, the timer and the release comes first.
THEOREM BuzzerCorrect == Spec => []BuzzerIsHeard
BY Invariance, PTL DEF IInv

\* bsp_led_indication never leaves the LED to blink without its timer, though
\* an interrupt may run it in the middle of the main loop's run of it.
THEOREM BlinkingCorrect == Spec => []DirectedBlinks
<1>1. IInv => DirectedBlinks
  BY DEF IInv, Underway, Blinks, DirectedBlinks
<1>2. QED
  BY <1>1, Invariance, PTL
=============================================================================
