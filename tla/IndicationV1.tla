---------------------------- MODULE IndicationV1 ----------------------------
(***************************************************************************)
(* The pairing button, the LED and the buzzer of the V1.2 firmware: the    *)
(* button and LED layer sv_bsp.c with the factory reset, the pairing timer *)
(* and the Identify callback of main.c.                                    *)
(*                                                                         *)
(* As in ValveControlV1 the handlers of buttons and timers are atomic and  *)
(* preempt the callbacks of the main loop between any two of their         *)
(* assignments.  bsp_led_indication runs on both sides.  The valve is      *)
(* reduced to the flag and the timer it shares with pairing.               *)
(***************************************************************************)

CONSTANTS
    Preemption,     \* may an interrupt become due while a ZBOSS callback runs?
    Switch          \* the other buttons of app_buttons: the valve's switches

ASSUME PreemptionAssumption == Preemption \in BOOLEAN
ASSUME SwitchAssumption == "pairing" \notin Switch

Button == {"pairing"} \cup Switch

\* The single-shot timers, and what the one pairing shares is running for.
Timer        == {"leds_tmr", "button_tmr", "pairing_timer"}
PairingTimer == {"off", "restore", "buzzer", "advertising"}

\* The two indications main.c asks for: BSP_INDICATE_IDLE and
\* BSP_INDICATE_ADVERTISING_DIRECTED.
Indication == {"idle", "directed"}

VARIABLES
    pushed,         \* the buttons app_button last reported pushed
    fw,             \* the LED, the buzzer, the timers and the flags
    zboss           \* the main loop: where it is in a callback, and what may
                    \* still become due during it

vars == <<pushed, fw, zboss>>

FirmwareState ==
    [ led: BOOLEAN, leds_tmr: BOOLEAN, m_stable_state: Indication,
      button_tmr: BOOLEAN, buzzer: BOOLEAN,
      pairing_in_progress: BOOLEAN, buzzer_on_crutch: BOOLEAN,
      logic_need_to_be_restored: BOOLEAN, pairing_timer: PairingTimer ]

ZbossState ==
    [ pc: {"idle", "turn", "direct", "time", "dark", "untime", "settle",
           "stop", "clear", "mute"},
      lit: BOOLEAN, join: BOOLEAN, due: SUBSET (Button \cup Timer) ]

-----------------------------------------------------------------------------
(* sv_bsp.c, as the interrupt runs it.                                     *)

app_timer_start(timer, purpose) == IF timer = "off" THEN purpose ELSE timer

\* BSP_INDICATE_IDLE and BSP_INDICATE_ADVERTISING_DIRECTED.
indicate_idle(f) ==
    [f EXCEPT !.led = FALSE, !.leds_tmr = FALSE, !.m_stable_state = "idle"]

\* Mutant: the LED is turned once.
directed_without_timer(f) == [f EXCEPT !.led = ~@, !.m_stable_state = "directed"]

indicate_directed(f) ==
    [f EXCEPT !.led = ~@, !.leds_tmr = TRUE, !.m_stable_state = "directed"]

bsp_led_indication(f, indicate) ==
    IF indicate = "idle" THEN indicate_idle(f) ELSE indicate_directed(f)

-----------------------------------------------------------------------------
(* main.c, as the interrupt runs it.                                       *)

stop_pairing(f) ==
    [indicate_idle(f) EXCEPT !.pairing_timer = "off",
                             !.pairing_in_progress = FALSE, !.buzzer = FALSE]

\* Mutant: the timer of the motor is started in its place.
forget_network_other_timer(f) ==
    IF f.pairing_in_progress THEN f
    ELSE [indicate_directed(f) EXCEPT
              !.pairing_timer = app_timer_start(@, "fault"),
              !.pairing_in_progress = TRUE,
              !.buzzer_on_crutch = TRUE,
              !.buzzer = TRUE]

forget_network(f) ==
    IF f.pairing_in_progress THEN f
    ELSE [indicate_directed(f) EXCEPT
              !.pairing_timer = app_timer_start(@, "buzzer"),
              !.pairing_in_progress = TRUE,
              !.buzzer_on_crutch = TRUE,
              !.buzzer = TRUE]

-----------------------------------------------------------------------------

Reset ==
    [ led |-> FALSE, leds_tmr |-> FALSE, m_stable_state |-> "idle",
      button_tmr |-> FALSE, buzzer |-> FALSE,
      pairing_in_progress |-> FALSE, buzzer_on_crutch |-> FALSE,
      logic_need_to_be_restored |-> FALSE, pairing_timer |-> "off" ]

ZbossIdle == [pc |-> "idle", lit |-> FALSE, join |-> FALSE, due |-> {}]

Init ==
    /\ pushed = {}
    /\ fw = Reset
    /\ zboss = ZbossIdle

-----------------------------------------------------------------------------
(* The interrupt.                                                          *)

Running(f) ==
    {t \in {"leds_tmr"} : f.leds_tmr} \cup {t \in {"button_tmr"} : f.button_tmr}
        \cup {t \in {"pairing_timer"} : f.pairing_timer # "off"}

\* The handler of a source runs and leaves the firmware in f.  A timer it
\* starts or stops is not due again within the callback it preempts.
Run(source, f) ==
    /\ zboss.pc = "idle" \/ source \in zboss.due
    /\ fw' = f
    /\ zboss' = [zboss EXCEPT !.due =
           (@ \ {source}) \cap (Button \cup (Running(fw) \cap Running(f)))]

\* bsp_button_event_handler: APP_BUTTON_PUSH.  Only the pairing button has a
\* long push.  What buttons_handler does to the valve is in ValveControlV1.
ButtonPush(b) ==
    /\ b \notin pushed
    /\ pushed' = pushed \cup {b}
    /\ Run(b, [fw EXCEPT !.button_tmr = @ \/ b = "pairing"])

\* Mutants: a release leaves the timer of the long push running; it leaves
\* the buzzer on.
release_keeps_timer(b) ==
    /\ b \in pushed
    /\ pushed' = pushed \ {b}
    /\ Run(b, [fw EXCEPT !.buzzer = @ /\ b # "pairing"])
release_keeps_buzzer(b) ==
    /\ b \in pushed
    /\ pushed' = pushed \ {b}
    /\ Run(b, [fw EXCEPT !.button_tmr = FALSE])

\* APP_BUTTON_RELEASE: whichever button it is, the long push is off;
\* BSP_EVENT_KEY_5 of the pairing button mutes the buzzer.
ButtonRelease(b) ==
    /\ b \in pushed
    /\ pushed' = pushed \ {b}
    /\ Run(b, [fw EXCEPT !.button_tmr = FALSE, !.buzzer = @ /\ b # "pairing"])

\* BSP_BUTTON_ACTION_LONG_PUSH: BSP_EVENT_RESET.
button_timer_handler ==
    /\ fw.button_tmr
    /\ Run("button_tmr", forget_network([fw EXCEPT !.button_tmr = FALSE]))
    /\ UNCHANGED pushed

leds_timer_handler ==
    /\ fw.leds_tmr
    /\ Run("leds_tmr", bsp_led_indication([fw EXCEPT !.leds_tmr = FALSE],
                                          fw.m_stable_state))
    /\ UNCHANGED pushed

\* Mutant: the buzzer part of the pairing starts itself again.
buzzer_part_repeats(f) == [f EXCEPT !.buzzer = FALSE, !.pairing_timer = "buzzer"]

\* The part of a pairing the buzzer may sound in is over.
buzzer_expires(f) ==
    [f EXCEPT !.buzzer = FALSE, !.pairing_timer = "advertising",
              !.buzzer_on_crutch = FALSE]

\* The restore of the valve decides anew whether another one is due.
pairing_advertising_off_timer_handler ==
    /\ fw.pairing_timer # "off"
    /\ LET f == [fw EXCEPT !.pairing_timer = "off"]
       IN  \/ /\ f.logic_need_to_be_restored
              /\ \E logic \in BOOLEAN : Run("pairing_timer",
                     [f EXCEPT !.logic_need_to_be_restored = logic])
           \/ /\ ~f.logic_need_to_be_restored /\ f.buzzer_on_crutch
              /\ Run("pairing_timer", buzzer_expires(f))
           \/ /\ ~f.logic_need_to_be_restored /\ ~f.buzzer_on_crutch
              /\ Run("pairing_timer", stop_pairing(f))
    /\ UNCHANGED pushed

\* The valve, on either side: a command decides whether its move will have to
\* be undone, and a control switch starts the timer of the restore.
ValveDecides ==
    /\ zboss.pc = "idle" \/ Preemption
    /\ \E logic \in BOOLEAN : fw' = [fw EXCEPT !.logic_need_to_be_restored = logic]
    /\ UNCHANGED <<pushed, zboss>>

ValveRestores ==
    /\ zboss.pc = "idle" \/ Preemption
    /\ fw.logic_need_to_be_restored
    /\ fw' = [fw EXCEPT !.pairing_timer = app_timer_start(@, "restore")]
    /\ zboss' = [zboss EXCEPT !.due = @ \cap (Button \cup Running(fw))]
    /\ UNCHANGED pushed

-----------------------------------------------------------------------------
(* The main loop.                                                          *)

Due == IF Preemption THEN Button \cup Running(fw) ELSE {}

Callback(pc, join) ==
    /\ zboss.pc = "idle"
    /\ zboss' = [pc |-> pc, lit |-> fw.led, join |-> join, due |-> Due]
    /\ UNCHANGED <<pushed, fw>>

\* identify_handler, started by the stack and stopped by it.
IdentifyStart == Callback("turn", FALSE)
IdentifyStop  == Callback("dark", FALSE)

\* zboss_signal_handler, on a signal with the device joined.
JoinSignal ==
    /\ fw.pairing_in_progress
    /\ Callback("dark", TRUE)

ZbossStep(at, next, f) ==
    /\ zboss.pc = at
    /\ zboss' = IF next = "idle" THEN ZbossIdle ELSE [zboss EXCEPT !.pc = next]
    /\ fw' = f
    /\ UNCHANGED pushed

\* bsp_led_indication: the LED is turned from what was read of it.
TurnLed       == ZbossStep("turn", "direct", [fw EXCEPT !.led = ~zboss.lit])
SetDirected   == ZbossStep("direct", "time", [fw EXCEPT !.m_stable_state = "directed"])
StartLedTimer == ZbossStep("time", "idle", [fw EXCEPT !.leds_tmr = TRUE])

LedsOff      == ZbossStep("dark", "untime", [fw EXCEPT !.led = FALSE])
StopLedTimer == ZbossStep("untime", "settle", [fw EXCEPT !.leds_tmr = FALSE])
SetIdle      == ZbossStep("settle", IF zboss.join THEN "stop" ELSE "idle",
                    [fw EXCEPT !.m_stable_state = "idle"])

\* The rest of stop_pairing.
StopPairingTimer == ZbossStep("stop", "clear", [fw EXCEPT !.pairing_timer = "off"])
ClearPairing     == ZbossStep("clear", "mute", [fw EXCEPT !.pairing_in_progress = FALSE])
MuteBuzzer       == ZbossStep("mute", "idle", [fw EXCEPT !.buzzer = FALSE])

\* The reset of every twelfth battery report, an OTA image or the watchdog.
SystemReset ==
    /\ pushed' = {}
    /\ fw' = Reset
    /\ zboss' = ZbossIdle

Interrupt ==
    \/ \E b \in Button : ButtonPush(b) \/ ButtonRelease(b)
    \/ button_timer_handler
    \/ leds_timer_handler
    \/ pairing_advertising_off_timer_handler
    \/ ValveDecides
    \/ ValveRestores

ZbossStarts == IdentifyStart \/ IdentifyStop \/ JoinSignal

ZbossRuns ==
    \/ TurnLed \/ SetDirected \/ StartLedTimer
    \/ LedsOff \/ StopLedTimer \/ SetIdle
    \/ StopPairingTimer \/ ClearPairing \/ MuteBuzzer

Next == Interrupt \/ ZbossStarts \/ ZbossRuns \/ SystemReset

Spec == Init /\ [][Next]_vars

\* A timer that runs expires, though a callback in progress may hold it up,
\* and a callback returns.
FairSpec ==
    /\ Spec
    /\ SF_vars(pairing_advertising_off_timer_handler)
    /\ WF_vars(ZbossRuns)

-----------------------------------------------------------------------------
(* Properties.                                                             *)

TypeInvariant ==
    /\ pushed \subseteq Button
    /\ fw \in FirmwareState
    /\ zboss \in ZbossState

\* A factory reset is a push of the pairing button that has lasted: no order of
\* pushes and releases of several buttons, which share one timer, leaves it to
\* expire for a button that is up.
LongPushIsHeld == fw.button_tmr => "pairing" \in pushed

\* The buzzer sounds for a hand on the pairing button: whichever of the
\* release, the timer and the join comes first, it is never left on.
BuzzerIsHeard == fw.buzzer => "pairing" \in pushed

\* While the LED is to blink its timer runs, whether the main loop or an
\* interrupt that preempted it in the middle set the indication last.
DirectedBlinks ==
    fw.m_stable_state = "directed" /\ zboss.pc = "idle" => fw.leds_tmr

\* A pairing whose timer runs comes to its end, in two parts, unless a restore
\* of the valve takes the timer.
PairingEnds ==
    fw.pairing_in_progress /\ fw.pairing_timer # "off"
        ~> ~fw.pairing_in_progress \/ fw.logic_need_to_be_restored
=============================================================================
