--------------------------- MODULE PairingProofs ----------------------------
(***************************************************************************)
(* Theorems about Pairing, for all lengths of the hold, of the blink and   *)
(* of the two sounds of the buzzer.  The button, the LED and the buzzer    *)
(* each have an invariant of their own; the factory reset is where they    *)
(* meet.                                                                   *)
(***************************************************************************)
EXTENDS Pairing, TLAPS

-----------------------------------------------------------------------------
(* The button.  The debounce and the time the button has been down add up  *)
(* to the hold, unless the button was down already; that it was is         *)
(* forgotten only after an expiry has found it up, and no tick passes      *)
(* before that.                                                            *)

ButtonTypes ==
    /\ pin \in BOOLEAN /\ previous \in BOOLEAN /\ bounced \in BOOLEAN
    /\ cooldown \in Timer(Hold) /\ held \in 0..Hold

HoldInvariant ==
    /\ previous => bounced
    /\ previous /\ ~pin => cooldown = 0
    /\ pin /\ cooldown # Idle => cooldown + held >= Hold \/ bounced

ButtonInv == ButtonTypes /\ HoldInvariant

LEMMA ButtonInit == Init => ButtonInv
<1> SUFFICES ASSUME Init PROVE ButtonInv
  OBVIOUS
<1>1. /\ pin \in BOOLEAN /\ previous \in BOOLEAN /\ bounced \in BOOLEAN
      /\ ~previous
  BY Zenon DEF Init
<1>2. cooldown = Idle /\ held = 0
  BY DEF Init
<1>3. QED
  BY <1>1, <1>2, TimesAssumption DEF ButtonInv, ButtonTypes, HoldInvariant, Timer,
     Idle

\* A tick takes one from the debounce and gives it to the hold.
LEMMA TickHolds == ButtonInv /\ Tick => ButtonInv'
<1> SUFFICES ASSUME ButtonInv, Tick PROVE ButtonInv'
  OBVIOUS
<1>0. /\ pin \in BOOLEAN /\ previous \in BOOLEAN /\ bounced \in BOOLEAN
      /\ cooldown \in Timer(Hold) /\ held \in 0..Hold
      /\ previous => bounced
      /\ pin /\ cooldown # Idle => cooldown + held >= Hold \/ bounced
      /\ ~(previous /\ ~pin)
  BY DEF ButtonInv, ButtonTypes, HoldInvariant, Tick, Due
<1>1. pin' = pin /\ previous' = previous /\ bounced' = (bounced /\ pin)
  BY Zenon DEF Tick
<1>2. /\ cooldown # 0 /\ cooldown' = Elapse(cooldown)
      /\ held' = IF pin /\ held < Hold THEN held + 1 ELSE held
  BY DEF Tick, Due
<1>3. /\ pin' \in BOOLEAN /\ previous' \in BOOLEAN /\ bounced' \in BOOLEAN
      /\ previous' => bounced' /\ pin'
  BY <1>0, <1>1, Zenon
<1>4. cooldown' \in Timer(Hold) /\ held' \in 0..Hold
  BY <1>0, <1>2, TimesAssumption DEF Timer, Idle, Elapse
<1>5. ASSUME pin, ~bounced, cooldown' # Idle
      PROVE  cooldown' + held' >= Hold
  <2>1. cooldown # Idle
    BY <1>2, <1>5 DEF Elapse, Idle
  <2>2. cooldown + held >= Hold
    BY <1>0, <1>5, <2>1
  <2>3. cooldown \in Int /\ cooldown > 0
    BY <1>0, <1>2, <2>1, TimesAssumption DEF Timer, Idle
  <2>4. cooldown' = cooldown - 1
    BY <1>2, <2>3 DEF Elapse
  <2>5. held' = IF held < Hold THEN held + 1 ELSE held
    BY <1>2, <1>5, Zenon
  <2>6. QED
    BY <1>0, <2>2, <2>3, <2>4, <2>5, TimesAssumption
<1>6. pin' /\ cooldown' # Idle => cooldown' + held' >= Hold \/ bounced'
  BY <1>1, <1>5, Zenon
<1>7. QED
  BY <1>3, <1>4, <1>6, Zenon DEF ButtonInv, ButtonTypes, HoldInvariant

LEMMA ButtonNext == ButtonInv /\ [Next]_vars => ButtonInv'
<1> SUFFICES ASSUME ButtonInv, [Next]_vars PROVE ButtonInv'
  OBVIOUS
<1>0. /\ pin \in BOOLEAN /\ previous \in BOOLEAN /\ bounced \in BOOLEAN
      /\ cooldown \in Timer(Hold) /\ held \in 0..Hold
      /\ previous => bounced
      /\ previous /\ ~pin => cooldown = 0
  BY DEF ButtonInv, ButtonTypes, HoldInvariant
<1>1. CASE button_pressed
  <2>1. pin' = ~pin /\ previous' = previous /\ bounced' = bounced
    BY <1>1, Zenon DEF button_pressed
  <2>2. cooldown' = (IF previous THEN 0 ELSE Hold) /\ held' = 0
    BY <1>1 DEF button_pressed
  <2>3. pin' \in BOOLEAN /\ previous' \in BOOLEAN /\ bounced' \in BOOLEAN
    BY <1>0, <2>1, Zenon
  <2>4. /\ cooldown' \in Timer(Hold) /\ held' \in 0..Hold
        /\ previous => cooldown' = 0
        /\ ~previous => cooldown' + held' >= Hold
    BY <1>0, <2>2, TimesAssumption DEF Timer, Idle
  <2>5. HoldInvariant'
    BY <1>0, <2>1, <2>4, Zenon DEF HoldInvariant
  <2>6. QED
    BY <2>3, <2>4, <2>5 DEF ButtonInv, ButtonTypes
<1>2. CASE cooldown_expired_pairing
  <2>1. /\ pin' = pin /\ previous' = pin /\ held' = held /\ cooldown' = Idle
        /\ bounced' = IF pin THEN TRUE ELSE bounced
    BY <1>2, Zenon DEF cooldown_expired_pairing, forget_network
  <2>2. cooldown' \in Timer(Hold)
    BY <2>1, TimesAssumption DEF Timer, Idle
  <2>3. QED
    BY <1>0, <2>1, <2>2, Zenon DEF ButtonInv, ButtonTypes, HoldInvariant
<1>3. CASE Tick
  BY <1>3, TickHolds
<1>4. CASE \/ led_blink_delay_pairing \/ buzzer_off_after_delay \/ identify_cb
           \/ IdentifySchedule \/ zboss_signal_handler \/ UNCHANGED vars
  <2>1. UNCHANGED <<pin, previous, cooldown, held, bounced>>
    BY <1>4 DEF led_blink_delay_pairing, buzzer_off_after_delay, identify_cb,
       IdentifySchedule, zboss_signal_handler, vars, buttonVars, history
  <2>2. QED
    BY <2>1, Zenon DEF ButtonInv, ButtonTypes, HoldInvariant, Timer, Idle
<1>5. QED
  BY <1>1, <1>2, <1>3, <1>4 DEF Next

-----------------------------------------------------------------------------
(* The LED.  The time since the last reset and what is left of its blink   *)
(* add up to BlinkTime, so the handler, which stops only when exactly      *)
(* nothing is left, does so at BlinkTime and never passes it.              *)

LedInv ==
    /\ led \in BOOLEAN
    /\ blink \in Timer(1)
    /\ full_time \in 0..BlinkTime
    /\ since \in 0..BlinkTime + 1
    /\ blink # Idle => full_time >= 1 /\ since + full_time + blink = BlinkTime + 1
    /\ led => blink # Idle

LEMMA LedInit == Init => LedInv
<1> SUFFICES ASSUME Init PROVE LedInv
  OBVIOUS
<1>1. led \in BOOLEAN /\ ~led
  BY Zenon DEF Init
<1>2. blink = Idle /\ full_time = 0 /\ since = BlinkTime + 1
  BY DEF Init
<1>3. QED
  BY <1>1, <1>2, TimesAssumption DEF LedInv, Timer, Idle

LEMMA LedNext == LedInv /\ [Next]_vars => LedInv'
<1> SUFFICES ASSUME LedInv, [Next]_vars PROVE LedInv'
  OBVIOUS
<1>0. /\ led \in BOOLEAN /\ blink \in Timer(1) /\ full_time \in 0..BlinkTime
      /\ since \in 0..BlinkTime + 1
      /\ blink # Idle => full_time >= 1 /\ since + full_time + blink = BlinkTime + 1
      /\ led => blink # Idle
  BY DEF LedInv
<1>1. CASE cooldown_expired_pairing /\ pin
  <2>1. led' = TRUE /\ blink' = 1 /\ full_time' = BlinkTime /\ since' = 0
    BY <1>1 DEF cooldown_expired_pairing, forget_network, led_blink
  <2>2. QED
    BY <2>1, TimesAssumption DEF LedInv, Timer, Idle
<1>2. CASE led_blink_delay_pairing
  <2>1. /\ blink = 0 /\ full_time' = full_time - 1 /\ since' = since
        /\ \/ full_time' # 0 /\ led' = ~led /\ blink' = 1
           \/ full_time' = 0 /\ led' = FALSE /\ blink' = Idle
    BY <1>2 DEF led_blink_delay_pairing, Due, history
  <2>2. led' \in BOOLEAN /\ (led' => blink' = 1)
    BY <2>1, Zenon
  <2>3. blink' \in {1, Idle} /\ (blink' # Idle => full_time' # 0)
    BY <2>1, Zenon
  <2>4. full_time >= 1 /\ since + full_time = BlinkTime + 1
    BY <1>0, <2>1, TimesAssumption DEF Idle
  <2>5. /\ full_time \in 0..BlinkTime /\ since \in 0..BlinkTime + 1
        /\ full_time' = full_time - 1 /\ since' = since
    BY <1>0, <2>1, Zenon
  <2>6. blink' \in Timer(1) /\ (blink' = 1 => blink' # Idle)
    BY <2>3 DEF Timer, Idle
  <2>7. full_time' \in 0..BlinkTime /\ since' \in 0..BlinkTime + 1
    BY <2>4, <2>5, TimesAssumption
  <2>8. ASSUME blink' # Idle
        PROVE  full_time' >= 1 /\ since' + full_time' + blink' = BlinkTime + 1
    <3>1. blink' = 1 /\ full_time' # 0
      BY <2>3, <2>8, Zenon
    <3>2. QED
      BY <2>4, <2>5, <3>1, TimesAssumption
  <2>9. QED
    BY <2>2, <2>6, <2>7, <2>8, Zenon DEF LedInv, Timer
<1>3. CASE zboss_signal_handler
  BY <1>0, <1>3 DEF zboss_signal_handler, history, LedInv, Timer, Idle
<1>4. CASE Tick
  <2>1. /\ led' = led /\ full_time' = full_time
        /\ blink # 0 /\ blink' = Elapse(blink)
        /\ since' = IF since <= BlinkTime THEN since + 1 ELSE since
    BY <1>4, Zenon DEF Tick, Due
  <2>2. blink' = Idle <=> blink = Idle
    BY <1>0, <2>1 DEF Elapse, Timer, Idle
  <2>3. blink # Idle => since' = since + 1 /\ blink' = blink - 1
    BY <1>0, <2>1, TimesAssumption DEF Elapse, Timer, Idle
  <2>4. QED
    BY <1>0, <2>1, <2>2, <2>3, TimesAssumption DEF LedInv, Timer, Idle
<1>5. CASE \/ button_pressed \/ buzzer_off_after_delay \/ identify_cb
           \/ IdentifySchedule \/ (cooldown_expired_pairing /\ ~pin)
           \/ UNCHANGED vars
  <2>1. UNCHANGED <<led, blink, full_time, since>>
    BY <1>5 DEF button_pressed, buzzer_off_after_delay, identify_cb,
       IdentifySchedule, cooldown_expired_pairing, vars, ledVars, history
  <2>2. QED
    BY <1>0, <2>1, TimesAssumption DEF LedInv, Timer, Idle
<1>6. QED
  BY <1>1, <1>2, <1>3, <1>4, <1>5 DEF Next

-----------------------------------------------------------------------------
(* The buzzer.  No tick passes inside buzzer_on, and a work item that runs *)
(* there may only end the sound that the preempted thread has begun.       *)

BuzzerInv ==
    /\ buzzer \in BOOLEAN
    /\ working_time \in Timer(PairingBuzz) \cup Timer(IdentifyBuzz)
    /\ identifying \in BOOLEAN
    /\ BuzzerIsTimed

LEMMA BuzzerInit == Init => BuzzerInv
<1> SUFFICES ASSUME Init PROVE BuzzerInv
  OBVIOUS
<1>1. buzzer \in BOOLEAN /\ identifying \in BOOLEAN /\ ~buzzer
  BY Zenon DEF Init
<1>2. working_time \in Timer(PairingBuzz) \cup Timer(IdentifyBuzz)
  BY TimesAssumption DEF Init, Timer, Idle
<1>3. QED
  BY <1>1, <1>2, Zenon DEF BuzzerInv, BuzzerIsTimed

LEMMA BuzzerNext == BuzzerInv /\ [Next]_vars => BuzzerInv'
<1> SUFFICES ASSUME BuzzerInv, [Next]_vars PROVE BuzzerInv'
  OBVIOUS
<1>0. /\ buzzer \in BOOLEAN /\ identifying \in BOOLEAN
      /\ working_time \in Timer(PairingBuzz) \cup Timer(IdentifyBuzz)
      /\ buzzer => working_time # Idle \/ identifying
  BY DEF BuzzerInv, BuzzerIsTimed
<1>1. CASE cooldown_expired_pairing /\ pin
  <2>1. buzzer' = TRUE /\ identifying' = identifying /\ working_time' = PairingBuzz
    BY <1>1, Zenon DEF cooldown_expired_pairing, forget_network, buzzer_on
  <2>2. working_time' \in Timer(PairingBuzz) /\ working_time' # Idle
    BY <2>1, TimesAssumption DEF Timer, Idle
  <2>3. QED
    BY <1>0, <2>1, <2>2, Zenon DEF BuzzerInv, BuzzerIsTimed, Timer, Idle
<1>2. CASE buzzer_off_after_delay
  <2>1. buzzer' = FALSE /\ identifying' = identifying /\ working_time' = Idle
    BY <1>2, Zenon DEF buzzer_off_after_delay
  <2>2. working_time' \in Timer(PairingBuzz)
    BY <2>1, TimesAssumption DEF Timer, Idle
  <2>3. QED
    BY <1>0, <2>1, <2>2, Zenon DEF BuzzerInv, BuzzerIsTimed, Timer, Idle
<1>3. CASE identify_cb \/ IdentifySchedule
  <2>1. \/ identifying' = TRUE /\ buzzer' = TRUE /\ working_time' = working_time
        \/ identifying' = FALSE /\ buzzer' = buzzer /\ working_time' = IdentifyBuzz
    BY <1>3, Zenon DEF identify_cb, IdentifySchedule
  <2>2. IdentifyBuzz \in Timer(IdentifyBuzz) /\ IdentifyBuzz # Idle
    BY TimesAssumption DEF Timer, Idle
  <2>3. QED
    BY <1>0, <2>1, <2>2, Zenon DEF BuzzerInv, BuzzerIsTimed, Timer, Idle
<1>4. CASE Tick
  <2>1. /\ buzzer' = buzzer /\ identifying' = identifying
        /\ working_time # 0 /\ working_time' = Elapse(working_time)
    BY <1>4, Zenon DEF Tick, Due
  <2>2. /\ working_time' \in Timer(PairingBuzz) \cup Timer(IdentifyBuzz)
        /\ working_time' = Idle <=> working_time = Idle
    BY <1>0, <2>1, TimesAssumption DEF Elapse, Timer, Idle
  <2>3. QED
    BY <1>0, <2>1, <2>2, Zenon DEF BuzzerInv, BuzzerIsTimed
<1>5. CASE \/ button_pressed \/ led_blink_delay_pairing \/ zboss_signal_handler
           \/ (cooldown_expired_pairing /\ ~pin) \/ UNCHANGED vars
  <2>1. UNCHANGED <<buzzer, working_time, identifying>>
    BY <1>5 DEF button_pressed, led_blink_delay_pairing, zboss_signal_handler,
       cooldown_expired_pairing, vars, buzzerVars
  <2>2. QED
    BY <1>0, <2>1, Zenon DEF BuzzerInv, BuzzerIsTimed, Timer, Idle
<1>6. QED
  BY <1>1, <1>2, <1>3, <1>4, <1>5 DEF Next

-----------------------------------------------------------------------------
(* The theorems.                                                           *)

IInv == ButtonInv /\ LedInv /\ BuzzerInv

THEOREM Invariant == Spec => []IInv
<1>1. Init => IInv
  BY ButtonInit, LedInit, BuzzerInit DEF IInv
<1>2. IInv /\ [Next]_vars => IInv'
  BY ButtonNext, LedNext, BuzzerNext DEF IInv
<1>3. QED
  BY <1>1, <1>2, PTL DEF Spec

\* The timers, what is left of the blink and the histories keep their ranges.
THEOREM TypeCorrect == Spec => []TypeInvariant
<1>1. IInv => TypeInvariant
  BY Zenon DEF IInv, ButtonInv, ButtonTypes, LedInv, BuzzerInv, TypeInvariant
<1>2. QED
  BY <1>1, Invariant, PTL

\* The pairing LED is never left on, and is dark BlinkTime after a reset.
THEOREM LedCorrect == Spec => []LitLedIsBlinking
<1>1. IInv => LitLedIsBlinking
  BY TimesAssumption DEF IInv, LedInv, LitLedIsBlinking, Timer, Idle
<1>2. QED
  BY <1>1, Invariant, PTL

\* The buzzer is never left on, although its call can be preempted.
THEOREM BuzzerCorrect == Spec => []BuzzerIsTimed
<1>1. IInv => BuzzerIsTimed
  BY DEF IInv, BuzzerInv
<1>2. QED
  BY <1>1, Invariant, PTL

\* A factory reset takes a hold, or a bounce after one.
THEOREM HoldCorrect == Spec => ResetNeedsHold
<1>1. IInv => (cooldown_expired_pairing /\ pin => held = Hold \/ bounced)
  BY TimesAssumption
     DEF IInv, ButtonInv, ButtonTypes, HoldInvariant, cooldown_expired_pairing,
         Due, Idle
<1>2. QED
  BY <1>1, Invariant, PTL DEF ResetNeedsHold
=============================================================================
