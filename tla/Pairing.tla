------------------------------ MODULE Pairing -------------------------------
(***************************************************************************)
(* The pairing button of the V2.24 firmware and what it drives: the        *)
(* debounce of buttons.c, the factory reset of main.c, the pairing LED of  *)
(* leds.c and the buzzer of pwm.c.                                         *)
(*                                                                         *)
(* Time passes in ticks of blink_time_ms, 500 ms; the 50 ms debounce is    *)
(* shorter than a tick. The handlers of the cooperative work queue are     *)
(* atomic; the ZBOSS thread can be preempted inside buzzer_on.             *)
(***************************************************************************)
EXTENDS Integers

CONSTANTS
    Hold,           \* ticks the button is debounced for when it was up
    BlinkTime,      \* ticks the LED blinks for after a factory reset
    PairingBuzz,    \* ticks of the buzzer after a factory reset
    IdentifyBuzz    \* ticks of the buzzer for an Identify command

ASSUME TimesAssumption ==
    /\ Hold \in Nat \ {0}
    /\ BlinkTime \in Nat \ {0}
    /\ PairingBuzz \in Nat \ {0}
    /\ IdentifyBuzz \in Nat \ {0}

VARIABLES
    pin,            \* the button is down
    previous,       \* pairing_button_previuos_state
    cooldown,       \* ticks to the expiry of cooldown_work_pairing, or Idle
    led,            \* the pairing LED
    blink,          \* ticks to led_blink_delay_pairing, or Idle
    full_time,      \* full_time_of_blink_ms_pairing
    buzzer,         \* the buzzer sounds
    working_time,   \* ticks to buzzer_off_after_delay, or Idle
    identifying,    \* the ZBOSS thread is inside the buzzer_on of identify_cb
    held,           \* ticks since the button went down, up to Hold
    bounced,        \* the button has not been up for a tick since the last reset
    since           \* ticks since the last reset, up to one more than BlinkTime

buttonVars == <<pin, previous, cooldown>>
ledVars == <<led, blink, full_time>>
buzzerVars == <<buzzer, working_time>>
history == <<held, bounced, since>>
vars == <<buttonVars, ledVars, buzzerVars, identifying, history>>

\* A work item that is not scheduled; at 0 it is due.
Idle == -1
Due(timer) == timer = 0
Elapse(timer) == IF timer > 0 THEN timer - 1 ELSE timer

-----------------------------------------------------------------------------
(* leds.c and pwm.c.                                                       *)

\* Mutant: the time is added to what is left of the last blink.
led_blink_longer(time) ==
    /\ led' = TRUE
    /\ blink' = 1
    /\ full_time' = full_time + time

led_blink(time) ==
    /\ led' = TRUE
    /\ blink' = 1
    /\ full_time' = time

\* Mutants: the blink stops as it is, with the LED on at every other one;
\* the time that is left is not counted.
blink_ends_lit ==
    /\ Due(blink)
    /\ led' = ~led
    /\ blink' = IF full_time = 1 THEN Idle ELSE 1
    /\ full_time' = full_time - 1
    /\ UNCHANGED <<buttonVars, buzzerVars, identifying, history>>
blink_uncounted ==
    /\ Due(blink)
    /\ led' = ~led
    /\ blink' = 1
    /\ UNCHANGED <<full_time, buttonVars, buzzerVars, identifying, history>>

led_blink_delay_pairing ==
    /\ Due(blink)
    /\ full_time' = full_time - 1
    /\ IF full_time' # 0
       THEN led' = ~led /\ blink' = 1
       ELSE led' = FALSE /\ blink' = Idle
    /\ UNCHANGED <<buttonVars, buzzerVars, identifying, history>>

buzzer_on(time) == buzzer' = TRUE /\ working_time' = time

buzzer_off_after_delay ==
    /\ Due(working_time)
    /\ buzzer' = FALSE
    /\ working_time' = Idle
    /\ UNCHANGED <<buttonVars, ledVars, identifying, history>>

-----------------------------------------------------------------------------
(* buttons.c and main.c.                                                   *)

\* button_pressed: the interrupt of an edge of the pairing pin.
button_pressed ==
    /\ pin' = ~pin
    /\ cooldown' = IF previous THEN 0 ELSE Hold
    /\ held' = 0
    /\ UNCHANGED <<previous, ledVars, buzzerVars, identifying, bounced, since>>

\* pairing_in_progress is never set.
forget_network ==
    /\ buzzer_on(PairingBuzz)
    /\ led_blink(BlinkTime)
    /\ bounced' = TRUE
    /\ since' = 0

\* Mutant: the state is kept when the button is found up.
cooldown_keeps_state ==
    /\ Due(cooldown)
    /\ cooldown' = Idle
    /\ previous' = (pin \/ previous)
    /\ IF pin THEN forget_network ELSE UNCHANGED <<ledVars, buzzerVars, bounced, since>>
    /\ UNCHANGED <<pin, identifying, held>>

cooldown_expired_pairing ==
    /\ Due(cooldown)
    /\ cooldown' = Idle
    /\ previous' = pin
    /\ IF pin THEN forget_network ELSE UNCHANGED <<ledVars, buzzerVars, bounced, since>>
    /\ UNCHANGED <<pin, identifying, held>>

\* An Identify command starts: buzzer_on sounds, then schedules the end.
identify_cb ==
    /\ ~identifying
    /\ identifying' = TRUE
    /\ buzzer' = TRUE
    /\ UNCHANGED <<working_time, buttonVars, ledVars, history>>

\* Mutant: the end is cancelled where it should be scheduled.
IdentifyCancel ==
    /\ identifying
    /\ identifying' = FALSE
    /\ working_time' = Idle
    /\ UNCHANGED <<buzzer, buttonVars, ledVars, history>>

IdentifySchedule ==
    /\ identifying
    /\ identifying' = FALSE
    /\ working_time' = IdentifyBuzz
    /\ UNCHANGED <<buzzer, buttonVars, ledVars, history>>

\* Any signal while the device is joined; without a network it has no effect
\* here.
zboss_signal_handler ==
    /\ led' = FALSE
    /\ UNCHANGED <<buttonVars, blink, full_time, buzzerVars, identifying, history>>

-----------------------------------------------------------------------------

Init ==
    /\ pin \in BOOLEAN
    /\ previous = FALSE
    /\ cooldown = Idle
    /\ led = FALSE
    /\ blink = Idle
    /\ full_time = 0
    /\ buzzer = FALSE
    /\ working_time = Idle
    /\ identifying = FALSE
    /\ held = 0
    /\ bounced = FALSE
    /\ since = BlinkTime + 1

\* What is due has run, and no thread stays preempted for a tick.
Tick ==
    /\ ~Due(cooldown) /\ ~Due(blink) /\ ~Due(working_time) /\ ~identifying
    /\ cooldown' = Elapse(cooldown)
    /\ blink' = Elapse(blink)
    /\ working_time' = Elapse(working_time)
    /\ held' = IF pin /\ held < Hold THEN held + 1 ELSE held
    /\ bounced' = (bounced /\ pin)
    /\ since' = IF since <= BlinkTime THEN since + 1 ELSE since
    /\ UNCHANGED <<pin, previous, led, full_time, buzzer, identifying>>

Next ==
    \/ button_pressed
    \/ cooldown_expired_pairing
    \/ led_blink_delay_pairing
    \/ buzzer_off_after_delay
    \/ identify_cb
    \/ IdentifySchedule
    \/ zboss_signal_handler
    \/ Tick

Spec == Init /\ [][Next]_vars

\* The work queue and the ZBOSS thread run, and time passes however often
\* they do.
Fairness ==
    /\ WF_vars(cooldown_expired_pairing)
    /\ WF_vars(led_blink_delay_pairing)
    /\ WF_vars(buzzer_off_after_delay)
    /\ WF_vars(IdentifySchedule)
    /\ SF_vars(Tick)

FairSpec == Spec /\ Fairness

-----------------------------------------------------------------------------
(* Properties.                                                             *)

Timer(max) == Idle..max

TypeInvariant ==
    /\ pin \in BOOLEAN
    /\ previous \in BOOLEAN
    /\ cooldown \in Timer(Hold)
    /\ led \in BOOLEAN
    /\ blink \in Timer(1)
    /\ full_time \in 0..BlinkTime
    /\ buzzer \in BOOLEAN
    /\ working_time \in Timer(PairingBuzz) \cup Timer(IdentifyBuzz)
    /\ identifying \in BOOLEAN
    /\ held \in 0..Hold
    /\ bounced \in BOOLEAN
    /\ since \in 0..BlinkTime + 1

\* A factory reset takes the button held down for Hold, unless it bounces
\* after one: the shorter debounce of a button that is down is never that of a
\* new press.
ResetNeedsHold ==
    [][cooldown_expired_pairing /\ pin => held = Hold \/ bounced]_vars

\* The pairing LED is never left on: while it is lit its blink is scheduled, and
\* BlinkTime after the last factory reset it is dark for good, whatever the
\* signal handler and other resets have done to it in between.
LitLedIsBlinking == led => blink # Idle /\ since <= BlinkTime

\* The buzzer is never left on: while it sounds its end is scheduled, or about
\* to be by the thread that was preempted.
BuzzerIsTimed == buzzer => working_time # Idle \/ identifying

\* When the button is left alone the blinking ends for good.
BlinkingEnds == <>[](~pin) => <>[](~led /\ blink = Idle)
=============================================================================
