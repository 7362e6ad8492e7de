# Verification of the TWV smart valve firmware

TWV is a battery-powered Zigbee valve: a geared motor turns a drive, the drive
pushes the handle of a ball valve, limit switches tell where both are, and a
Zigbee On/Off cluster opens and closes it. The repository holds two
generations of its firmware and its hardware. This directory holds TLA+ models
of the firmware, the TLC configurations that check them and TLAPS proofs.

Paths below are shortened:

| short | path |
|---|---|
| `V2/` | `src/Software/nRF_Connect_SDK_2.6.0/TWV_nRF_Connect_SDK_project/src/` (firmware V2.24, Zephyr) |
| `V1/` | `src/Software/nRF5_SDK_for_Zigbee_v4.2.0/examples/zigbee/experimental/SmartValve/` (firmware V1.2, bare metal) |
| `changeLog.h` | `V1/pca10056/blank/ses/changeLog.h`, the history of the V1 firmware |

To run: `tlc -config ValveControl_serial.cfg ValveControl`, `tlapm
ValveControlProofs.tla`, and so on; the tables below name every pair.

## 1. Inventory

### V2.24

Two threads matter. The **system work queue** runs the debounce expiries of
`buttons.c` and every delayable work item; its priority is cooperative, so a
handler runs to its end. The **ZBOSS thread** runs the Zigbee stack and its
callbacks and is preemptible. Pin interrupts only (re)schedule work items.

| component | state | operations | what makes it hard, what makes it correct |
|---|---|---|---|
| valve and motor control (`V2/main.c`, `buttons.c`, `pwm.c`) | motor outputs `nsleep`/`Phase`/`Enable`; `motor_working`, `full_press_flag`, `logic_need_to_be_restored`, `moving_to_open/close`, `double_click_awaiting`, `need_to_auto_close_flag`; two work items with two meanings each; `on_off` | On/Off command, eight switch events, two timer expiries, pairing press, resets | the ZBOSS thread is preempted between assignments; one timer is both 10 s auto-close and 60 s motor timeout, another both 2 s restore delay and 60 s pairing time; flags outlive the run they belong to. The motor must stop at its ends, be watched while it runs, and auto-close must never act on a stale flag |
| battery and power source (`V2/adc.c`, `main.c`, `pwm.c`) | percentage, power source, report counter | report every 25 min, reset at the twelfth | three integer pieces of a curve cut to a byte; a draining battery must never be reported as filling |
| pairing button, LED, buzzer (`V2/buttons.c`, `leds.c`, `pwm.c`, `main.c`) | debounced level, the work items for debounce, blink and buzzer, time left of the blink | edges, expiry, factory reset, blink toggle, buzzer off, Identify, signal handler | one work item debounces press (3 s) and release (50 ms); the signal handler switches the LED off under a running blink; Identify can be preempted. Nothing may be left on, a short press must not reset |
| start-up, attribute initialisation, OTA events (`V2/main.c`) | constant attributes | boot, reboot after a download | covered only as the boot state and the resets |
| NUS command service (`V2/nus_cmd.c`) | `current_conn` | connect, disconnect, receive | built only with a BLE overlay, and `nus_cmd_init` has no caller |

### V1.2

The main loop runs the ZBOSS scheduler; app timers and buttons run in
interrupts and preempt it.

| component | state | operations | what makes it hard, what makes it correct |
|---|---|---|---|
| network rejoin (`V1/zigbee_helpers_TWV.c`, called from `V1/main.c`) | the `m_*` flags, four kinds of pending alarm or callback | every ZBOSS signal, attempt, 200 s deadline, user input, parent link failure | the deadline may find an attempt under way, so a stop is only requested; signals arrive after alarms; input is an interrupt. The device must have exactly one deadline while it searches, give up, and try again regularly |
| valve control with pairing (`V1/main.c`, events of `sv_bsp.c`) | the flags of V2, plus `pairing_in_progress`, `buzzer_on_crutch`; two app timers | seven switch events, short push of the pairing button, both timers, On/Off command, join, factory reset, resets | the interrupt preempts the callbacks; `app_timer_start` leaves a running timer alone; restore, buzzer and pairing share one timer, auto-close and motor timeout another. As V2, and a pairing must end |
| button and LED layer (`V1/pca10056/blank/config/sv_bsp.c`, `V1/main.c`) | pushed buttons, one long-push timer, LED state, timer and indication, buzzer, Identify | push, release, long push, blink, pairing timer, join, Identify, idle | one long-push timer for all buttons; `bsp_led_indication` runs in the interrupt and in the main loop; the buzzer has several owners. A release must not reset, nothing is left on |
| battery report (`V1/main.c`) | current and previous percentage, report counter | report, reset at the twelfth | a curve whose pieces overlap, a smoothing that repeats the last value, a reading put off while the motor works |
| OTA client callback (`V1/main.c`) | running version, download | offer, chunk, end, abort, and the resets of the other parts | offers and resets in the middle of a download; the device must not go back to an older version |
| helpers for addresses, channels, LEDs, logging (`V1/zigbee_helpers_TWV.c`) | none | — | formatting; most have no caller |

Hardware files, board files, Kconfig, device trees, SDK configuration headers
and built images have no behaviour of their own.

### How they interact

The limit switches, through the debounce, are the only feedback from the
mechanics to the valve control; the mechanics answer to the three motor
outputs. The stack calls the valve control with a command and reads `on_off`
back. The pairing button arms the timer that the valve control uses for its
restore delay (the press appears in `ValveControl` as `forget_network`, and in
`Pairing` with its LED and buzzer). The battery report is user input to the V1
rejoin procedure, every 25 minutes, and its twelfth resets either chip, every
five hours: in the middle of a search or of an OTA download as well, and for ever. In V1 the pairing button, besides its LED and buzzer
(`IndicationV1`), puts the motor to sleep and takes the restore's timer
(`ValveControlV1`): each module keeps the other's share of that button as the
flag and the timer the two have in common.

`PROJECT.json` lists the hazards of this code, each at its line, with the
properties that address it or the reason none does.

## 2. Modules

| module | models |
|---|---|
| `ValveDrive` | what either generation promises of the valve: an abstract motor |
| `ValveControl` | V2 valve and motor control, with the mechanics as an external process |
| `ValveControlProofs` | theorems about it |
| `NetworkSearch` | what the rejoin procedure promises: an abstract search |
| `Rejoin` | V1 rejoin procedure, with the ZBOSS stack as an external process |
| `RejoinProofs` | theorems about it |
| `Battery`, `MCBattery` | V2 battery report; the readings its model is checked with |
| `BatteryProofs` | theorems about it |
| `Pairing` | V2 pairing button, LED, buzzer and Identify |
| `PairingProofs` | theorems about it |
| `ValveControlV1` | V1 valve and motor control with its timers and pairing |
| `ValveControlV1Proofs` | theorems about it |
| `IndicationV1` | V1 button and LED layer with pairing timer, buzzer, Identify |
| `IndicationV1Proofs` | theorems about it |
| `BackgroundV1`, `MCBackgroundV1` | V1 battery report, OTA callback and the resets they share; the readings to check with |
| `BackgroundV1Proofs` | theorems about it |

Definitions carry the names of the C functions they stand for. A function that
several handlers call is an operator from the state it finds to the state it
leaves, so that an action is the whole handler; a handler that another thread
may preempt is one action per assignment. Next to a definition some modules
keep a *mutant* of it, a plausible bug: substituted for the definition, it
makes the property it is listed with in `PROJECT.json` fail, which shows that
the property depends on the code.

### ValveDrive

Two positions and a motor that is at `rest` or drives toward `closed` or
`open`. The motor may be stopped at any time and started only toward an end the
drive is not at; the drive moves only while it is driven, in that direction;
anybody may turn the handle. `FairSpec` adds weak fairness of `StopAtEnd`: a
motor against its end, with the handle at rest at an end, is stopped. Both
valve controls implement `Spec` under the mapping of `motor` to the direction
the three outputs of their bridge drive in, and `ValveControl`
without preemption implements `FairSpec`. Everything the firmware does with
flags and timers in between is a stutter there.

### ValveControl

- `gear` and `handle` are the positions of drive and handle, each `closed`,
  `mid` or `open`. `TurnHandle` is a person; `MotorTurns` is the motor, which
  turns the drive only when the three outputs drive it, pushes the handle or
  not, and may jam at any time. The code reads a switch by its level now
  (`Level`); an edge only restarts the debounce of its pin (`cooldown`).
- `fw` holds the firmware's flags, outputs, timers and attribute. The two
  shared work items record what they were last armed for (`FailTimer`,
  `PairingTimer`): the code keeps no such record, its handlers guess it from
  flags, and that guess is what several properties are about. No guard reads
  anything of a timer but whether it is pending.
- `CooldownExpired(pin)` is the debounce expiry and all of
  `button_event_handler`; the two timer handlers, `forget_network` and
  `SystemReset` (battery reset, OTA reboot, watchdog) are the other actions of
  the work queue and the chip.
- `ZclCommand` and the six steps after it are `zcl_device_cb`: the command reads
  the switches and decides, then sets `motor_working`, the three outputs, the
  timer and `logic_need_to_be_restored` one by one. That the stack stores
  `on_off` before it calls back is external.
- *Time.* Delays are not modelled: what is pending runs in any order, which
  includes every order the real delays allow. The one exception is the
  microseconds of a command: the mechanics stand still, and only what was
  pending when it began (`due`) can preempt it, since the shortest delay is
  50 ms.
- `Preemption = TRUE` is the firmware. `FALSE` assumes that no work item
  becomes due inside those microseconds; only the run `valve_serial` does, to
  keep liveness within minutes.

The code never sets `pairing_in_progress` in V2, so its guard is always open
in both `ValveControl` and `Pairing`.

### NetworkSearch

Whether the stack is up, whether the device is joined, and the phase of its
search: `none`, `running`, `stopping` (given up, with an attempt not over) or
`waiting`. Off the network only a restart or the deadline ends a search, a search
that was given up leaves a wait, and the wait a new search; a join ends all of it
before the network can be lost again. `Abandon`, a search dropped with no wait,
exists only where input may come during an attempt: it is finding 2 of section 5.
`FairSpec` adds that each phase ends. `Rejoin` implements `Spec`, and `FairSpec`
where input comes between attempts, under the mapping `Phase` of its flags.

### Rejoin

- `r` holds the flags of `zigbee_helpers_TWV.c`, the number of pending alarms
  of each kind and of queued callbacks. `bdb` is what the stack does: not
  started, initialising, at rest, running an attempt, or with a signal queued.
- Each function of the procedure is an operator; `SignalHandler` is the whole
  of `zboss_signal_handler`, ending as the code does in `rejoin_the_network`.
- Assumed of the stack, which is not in the repository: a leave happens to a
  joined device; the first start reports success; cancelling with
  `ZB_ALARM_ANY_PARAM` cancels the first alarm of that callback; the callback
  queue is emptied before alarms are looked at (`AlarmsRun`); the 200 s alarm
  overtakes neither the 1 s alarms set with it nor the first attempt;
  commissioning that is busy ignores a further request.
- `user_input_indicate` runs in an interrupt but reads two flags and queues one
  callback, so it is one action.
- Input is a push of the pairing button or a battery report.
  `battery_report_timer_handler` counts its reports, and the one that makes
  `ReportsPerReset` of them resets the chip; 12 is the firmware, and 0, no reset,
  is the time between two of them. `SystemReset` is every other reset: the
  join of an empty network, an OTA image, the watchdog.
- `InputDuringAttempt = TRUE` is the firmware. `FALSE` assumes that no input
  arrives while an attempt is under way.
- `MaxFaults` bounds leaves and the resets that no report makes. Those that
  reports make are not bounded. `LastBackoff` is the attempt whose delay reaches
  the code's longest, 900 s.

### Battery

`battery_report_timer_handler` takes a new reading, computes the attributes as
`adc.c` and `battery_meassure_and_report` do, with the width of the integers,
and counts to the reset. `Drift` bounds how far a reading moves between two
reports, `Supplies` are the readings a change of supply may jump to. That the
converter answers is assumed: on an error `adc.c` goes on with a buffer it has
not written.

### Pairing

Time passes in `Tick`s of 500 ms, the toggle time of the LED; a tick needs that
everything due has run. The debounce of a button that is down is shorter than a
tick and is due at once. `identify_cb` and `IdentifySchedule` are the two calls
of `buzzer_on` on the preemptible thread. `held`, `bounced` and `since` are history
variables: how long the button has been down, and whether it has been up for a
tick since the last factory reset; `since` is the time since that reset. The other three LEDs share this code and
have no caller.

### ValveControlV1

- The mechanics are those of `ValveControl`. `active` is what `app_button` last
  reported of each switch; `Unreported` are the switches whose level differs.
- A handler in the interrupt of `app_timer` (an event of `buttons_handler`, an
  expiry) is one action. The ZBOSS callbacks of the main loop, the On/Off command
  and the join with its `stop_pairing`, are one action per assignment, and what
  was `due` when they began may run between two of them.
- `FailTimer` and `PairingTimer` say what a timer was last *started* for. The
  code does not know: a second start is lost, and the handler guesses.
- A switch that changes back before two polls 450 ms apart have agreed on it is
  never reported. The history variable `missed` holds the switches this has
  happened to since they were last reported. `Missable` are the switches it may
  happen to: all four in the firmware.
- `Preemption = FALSE` assumes that no interrupt becomes due inside a callback;
  the firmware is `TRUE`. No theorem assumes a value of either constant.
- The `on_off` attribute of V1 is written and never read, and is left out.

### IndicationV1

The LED with its timer and the stable indication `bsp_led_indication` returns
to, the buzzer, the long-push timer that the push of any button starts and the
release of any button stops, the pairing timer with the two expiries that end a
pairing, the Identify callback. The valve's restore is the one thing of
`ValveControlV1` that is left: it may take the timer. Callbacks of the main
loop are one action per step and may be preempted by what was due.

### BackgroundV1

`battery_report_timer_handler` takes a new reading through the curve, the
smoothing and the exception for a working motor, with the width of the
integers, and ends in a reset at the twelfth report; `OtaStart`, `OtaReceive`,
`OtaFinish` and `OtaAbort` are the events of the OTA callback. The history
variable `accepted` is the version of the offer a download began with. That the
bootloader activates a whole image or none is assumed (`Boot`). The measurement
at boot is taken with the motor off. Readings are a set, with a single-ended
converter's slightly negative ones in it.

## 3. Runs

| run | module / configuration | states | question and answer |
|---|---|---|---|
| `valve_preemptive` | `ValveControl` / `ValveControl_preemptive.cfg` | 3 018 682 | with work items preempting a command anywhere: the auto-close flag is never stale (`AutoCloseFlagIsFresh`), a countdown is never taken for a motor fault (`CountdownMeansAutoClose`), `motor_working` loses its driver in one way only (`LosesTrackOnlyWhenOvertaken`), the motor stops at its end when the handle is at one (`StopsAtEndOfTravel`), an unwatched stall has the one cause of finding 1 (`UnwatchedStallIsDroppedCountdown`), the control implements the abstract valve (`ImplementsValve`), so that no step starts the motor toward an end the drive is at |
| `valve_serial` | `ValveControl` / `ValveControl_serial.cfg` | 930 594 | a motor at its end is stopped in the end, as in the fair abstract valve (`ImplementsFairValve`) |
| `rejoin_input` | `Rejoin` / `Rejoin_input.cfg` | 10 848 | with input at any time: exactly one deadline for a search (`ProcedureHasDeadline`), at most one queued start and two attempts (`RetriesDoNotPileUp`), a join leaves no procedure, attempt or wait (`JoinedIsSettled`), only a given-up search that lost its wait to input strands the device (`StrandedOnlyByInput`), and attempts come again and again, for the reset of a report takes up what is stranded (`RetriesRegularly`) |
| `rejoin_retry` | `Rejoin` / `Rejoin_retry.cfg` | 1 258 | between two resets by report, without input during an attempt: something is always scheduled (`NeverStranded`), the procedure is the abstract search and each of its phases ends (`ImplementsFairSearch`), so a search joins or is given up and what is given up is taken up again without a reset |
| `battery` | `MCBattery` / `Battery.cfg` | 49 248 | the percentage stays in 0..200 (`PercentageInRange`) and follows the reading both ways (`FollowsBattery`) |
| `pairing` | `Pairing` / `Pairing.cfg` | 17 945 | LED and buzzer are never left on, the LED is dark 10 s after a reset (`LitLedIsBlinking`, `BuzzerIsTimed`), a factory reset takes a 3 s hold or a bounce after one (`ResetNeedsHold`), the blinking ends (`BlinkingEnds`) |
| `valve_v1` | `ValveControlV1` / `ValveControlV1.cfg` | 9 140 862 | the V1 control implements the same abstract valve (`ImplementsValve`), keeps timer and flag together although a second start is lost (`CountdownMeansAutoClose`), accounts for its motor (`LosesTrackOnlyWhenOvertaken`), stops it at its ends (`StopsAtEndOfTravel`), and an unwatched stall is an expiry that was dropped (`UnwatchedStallIsDroppedExpiry`); the last two unless a change was missed of a switch that stops this run |
| `pairing_v1` | `IndicationV1` / `IndicationV1.cfg` | 68 924 | under preemption: the long push fires only for a held pairing button (`LongPushIsHeld`), the buzzer is never left on (`BuzzerIsHeard`), an LED that is to blink is timed (`DirectedBlinks`), a pairing ends unless a restore takes its timer (`PairingEnds`) |
| `background_v1` | `MCBackgroundV1` / `BackgroundV1.cfg` | 68 985 | the smoothed report stays close to the battery (`ReportIsClose`) and a falling reading does not raise it (`FallNeverShowsRise`, but at the overlap of section 5); no order of offers, chunks, aborts and resets goes back to an older version (`NoDowngrade`) or activates another than the one whose offer began the download (`ActivatesFirstAccepted`) |
| `valve_watch`, `rejoin_lost`, `v1_pairing` | one property each | | statements of the documentation that the code does not keep: section 5 |

**Bounds.** `ValveControl` and `IndicationV1` have none: their
state is finite and explored in full, `IndicationV1` with one other button,
since all of them treat the long push alike. `MaxFaults` is 3 where input is free and 2 in `rejoin_retry`, enough for a
leave, a restart and another fault in one behaviour; a restart clears all but
`stored`, so a longer history adds only what has been reached after fewer.
`ReportsPerReset` is 3, for 12, where it is not 0: one report to use up the wait, one that finds the
device stranded, and the one that resets it. The counter does nothing else, and
the theorems hold for any number.
`Battery` drifts by one, which together with the jumps reaches every one of
the 4104 readings at every value of the counter; `MCSupplies` adds USB power,
the edges of USB detection, and the joins of the curve. `Pairing` uses the
code's times: 3 s, 10 s, 1.5 s and 0.5 s are 6, 20, 3 and 1 ticks.
`MCBackgroundV1` takes 23 readings, on both sides of every seam of the curve,
of its clamps and of the smallest rise that is shown; three versions are one
running, one newer and one older, and two chunks have a middle.

The firmware is `Preemption = TRUE` with every switch in `Missable`, which is more than
TLC explores in minutes. `valve_v1` has `Preemption = FALSE` and the opening limit in
`Missable`, one of the switches whose change the properties must make an
exception for; without preemption the exception of `LosesTrackOnlyWhenOvertaken`
never applies. Section 4 proves all six of its properties for every value of
both constants. `valve_serial` has `Preemption = FALSE` for `ImplementsFairValve`; the
instance with `TRUE` has been explored once and holds (3 018 682 states, five
minutes).

**Fairness.** `valve_serial` assumes weak fairness of the debounce expiries,
which the work queue runs, and of the steps of a command, for
`ImplementsFairValve`: a bounce may restart a debounce, but the level a pin is
at rest with is read in the end;
nothing is assumed of the mechanics. `pairing_v1` assumes that a callback of the main
loop returns (weak fairness of its steps) and that the expired pairing timer is
handled although callbacks may hold it up (strong fairness). The other valve
runs, `battery` and `background_v1` assume none. `Rejoin` assumes that
the stack reports what it was asked and the main loop runs the alarms and
callbacks that are due, and weak fairness of the battery report, a repeated timer.
The former are strongly fair, since the reset of a report would otherwise be
allowed to come before every one of them for ever: they take seconds to minutes,
the resets are five hours apart. Nothing makes an attempt succeed, a person press the
button, or the device leave, and no fairness is given to `SystemReset` or
`ParentLinkFailure`: `RetriesRegularly` rests on the resets the timer makes. `Pairing` assumes weak fairness of what the work queue and
the ZBOSS thread run, and strong fairness of `Tick`: time passes however often
something else is due.

## 4. Theorems

TLC checks the instances above; TLAPS proves the following for every value of
the constants.

| module | theorems | from |
|---|---|---|
| `ValveControlProofs` | `TypeCorrect`, `AutoCloseFlagCorrect`, `CountdownCorrect`, `TrackCorrect`, `StopsAtEndCorrect`, `UnwatchedStallCorrect`, `ValveImplemented` | `PreemptionAssumption` |
| `ValveControlV1Proofs` | `TypeCorrect`, `CountdownCorrect`, `TrackCorrect`, `StopsAtEndCorrect`, `UnwatchedStallCorrect`, `ValveImplemented` | `PreemptionAssumption`, `MissableAssumption` |
| `RejoinProofs` | `TypeCorrect`, `DeadlineCorrect`, `SettledCorrect`, `RetriesCorrect`, `StrandedCorrect`, `SearchImplemented` | `InputAssumption`, `ReportsAssumption`, `FaultAssumption` |
| `BatteryProofs` | `TypeCorrect`, `RangeCorrect`, `FollowsCorrect` | `DriftAssumption`, `SuppliesAssumption` |
| `PairingProofs` | `TypeCorrect`, `LedCorrect`, `BuzzerCorrect`, `HoldCorrect` | `TimesAssumption` |
| `IndicationV1Proofs` | `TypeCorrect`, `LongPushCorrect`, `BuzzerCorrect`, `BlinkingCorrect` | `PreemptionAssumption`, `SwitchAssumption` |
| `BackgroundV1Proofs` | `TypeCorrect`, `CloseCorrect`, `FallCorrect`, `NoDowngradeCorrect`, `FirstAcceptedCorrect` | `ReadingsAssumption`, `VersionAssumption`, `BlocksAssumption` |

Each of them covers the firmware as it is: none assumes a value of `Preemption`,
`Missable`, `InputDuringAttempt` or `ReportsPerReset`.

- **ValveControl, any preemption.** `IInv` joins the type invariant with the
  two facts about auto-close. They are inductive together: whoever arms the
  countdown sets the flag, and whoever clears the flag cancels the timer or
  replaces it; the flag becomes stale only through an edge, whose debounce is
  then pending and will clear it. Lemmas state what each C function does to
  typing and to the agreement of timer and flag; each action then cites them.
- **ValveControl implements ValveDrive.** `DInv` is the invariant of the mapping: a
  command in progress heads away from where the drive is, decided when it
  arrived and still true since the mechanics stand still, and a sleeping bridge
  is not set toward an end of the drive (`Parked`), so that waking it starts
  nothing. Each action is then a step of `ValveDrive` or leaves its three
  variables alone.
- **ValveControl, the stop and the watch.** `StopsAtEndOfTravel` alone is not
  inductive: it does not say why the pending debounce will stop the motor.
  `WInv` adds to `DInv`: a motor driving against the end it has reached
  either still has the debounce of that limit pending, or `full_press_flag` is
  set and either the handle is between its ends or a control switch is being
  debounced, which will stop it (`Stopping`); and what stands between an awake
  motor and an unwatched stall is a timer, the flag of a dropped countdown, or a
  control switch at its end or still debounced (`Watched`). Preemption does no harm:
  a command arms its timer last and may leave the motor unwatched until then,
  but, by `DInv`, only while it drives away from the end the drive is at.
- **ValveControl, the motor it knows of.** `TrackStep` takes a step of any thread
  from a state where `motor_working` accounts for driver and motor timer
  (`Known`): every handler keeps that (`EventKnown`, `HandlerKnown`), and of the assignments
  of a command only the one that wakes the driver and the one that arms the timer
  can break it, with the flag cleared since the command set it.
- **ValveControlV1.** The same arguments with the timers that ignore a second
  start: `IInv` is typing with `CountdownMeansAutoClose`, `DInv` adds the
  mapping's invariant. `WInv` adds to it `Stopping` and `Watched`, where the reports
  that are due take the place of the debounces of `ValveControl`. A report that was
  missed will not come: `Owed` is the reports that are due together with the
  switches in `missed`, `TurnedIsOwed` is why a switch that the mechanics turn is
  among them, and the invariant speaks of `Owed` throughout, so that it holds
  whatever the polls miss. An interrupt inside a callback is a handler like any other
  there.
- **Rejoin.** `IInv` adds where the stack can be when the device is joined
  (`JoinedWhere`) and that the stack is up (`StackUp`) to the deadline and the
  settled join. Each function keeps the deadline (`RejoinKeeps`, `StartKeeps`,
  `StopKeeps`, `StartEDKeeps`, `SignalKeeps`); every stop cancels the alarm, so
  it has to leave no procedure that counts on it. A queued start and the
  alarm of one are inductive on their own (`Queued`): a wait begins only in the
  200 s alarm, which finds neither. `AInv` bounds the attempts: a procedure that
  may schedule one (it is not running, is about to stop, or has heard of a
  failure) has at most one scheduled or under way, so there are at most two, and
  the stop that a join brings leaves none (`Attempts`).
- **Rejoin, the stranded device.** `MInv`, off the network at rest an attempt in
  progress is scheduled, holds whenever input comes: every handler ends in
  `rejoin_the_network`, which schedules the next attempt of a procedure that runs
  on (`RejoinSchedules`, `SignalSchedules`). What `StrandedStep` then leaves to strand a
  device is a procedure that ends in that function without a wait, for one that
  was never asked to stop does not end there.
- **Rejoin implements NetworkSearch.** Each function takes the phase where the
  abstract search may go (`PhaseOfRejoin`, `PhaseOfStart`, `PhaseOfStop`,
  `PhaseOfSignal`), and each handler makes one step of it. A stopping search that
  ends without a wait is a join, or `Abandon`. The step that the parameter
  `Abandons` must rule out, where input comes between attempts only, needs `NInv`:
  a requested stop belongs to a procedure and to a join or a wait (`Agree`), a
  start is queued only while the stack rests, and off the network at rest no stop
  is pending and the procedure runs or waits (`Resting`).
- **Battery.** The curve is bounded (`CurveRange`: the cut to a byte never wraps)
  and monotone across its pieces (`CurveMonotone`); the report is a function of
  the reading, and the rest follows.
- **Pairing.** Three invariants of disjoint state. `ButtonInv`: the rest of the
  debounce and the time the button has been down add up to the hold
  (`HoldInvariant`), unless the button had been down already. `LedInv`: the time
  since the reset and what is left of its blink add up to `BlinkTime`, whatever
  the signal handler switches, so the handler that stops at exactly nothing left
  does so at `BlinkTime` and never passes it. `BuzzerInv`: a sounding buzzer has
  its end scheduled or its call still on the stack.
- **IndicationV1.** `IInv` is typing, the two facts about button and buzzer, and
  `Underway`, what each step of a callback has already done to the LED; an
  interrupt inside a callback leaves all of it alone (`InterruptLeaves`).
- **BackgroundV1.** `CurveMonotone` and `CurveRange` bound the curve, which falls
  only from 3321..3340 to 3320; `SmoothedClose` bounds the smoothing. `Newer` says
  that a download is of a newer version, of the offer it began with, and that only
  a download has chunks.

**Only model-checked.** The liveness properties (`RetriesRegularly`, `BlinkingEnds`, `PairingEnds`) and the fair halves of
`ImplementsFairValve` and `ImplementsFairSearch` stay with TLC: fairness is outside what the prover handles.
`NeverStranded` is false of the firmware (section 5) and is checked only where input
comes between attempts; `StrandedOnlyByInput` is what is proved of both.

## 5. Where code and documentation disagree

Each run finds a shortest counterexample to one statement. Reading the trace
next to the code confirms it.

1. `valve_watch`, `RunningMotorIsWatched` (`V2/main.c:508`). changeLog.h:49 has
   a timer for a valve that takes too long. A control switch pressed during a
   run cancels it, and its release replaces it by a countdown that expires
   without effect while the motor works. A motor jammed after that runs on.
   `UnwatchedStallIsDroppedCountdown` shows that a stall at an end of travel
   has no other cause.
2. `rejoin_lost`, `NeverStranded` (`V1/zigbee_helpers_TWV.c:909`).
   changeLog.h:157 has the battery report restart the search regularly. Input
   during the attempt that outlived the 200 s deadline ends the wait while the
   old procedure still counts as started, so nothing is started; the attempt
   fails, the procedure ends, and nothing is scheduled. Further reports start
   nothing, up to eleven of them, until the twelfth resets the chip
   (`V1/main.c:377`). `StrandedOnlyByInput` shows that there is no other way to
   get there, `rejoin_retry` that without input in that window the statement
   holds, and `RetriesRegularly` that the device does come back to the search.
3. `v1_pairing`, `PairingIsTimed` (`V1/main.c:301`). changeLog.h:136 has the
   pairing timer turn off advertising after 60 s even if no network is found.
   The timer is shared with the restore of the valve, and its handler asks for
   the restore first: its branch takes the expiry, nothing starts the timer again,
   and `pairing_in_progress` stays set, which blocks `forget_network`, until a
   join.

Met in reading or in exploring the models, with no run of their own:

- `V2/main.c:541`: a stop that preempts a command after `motor_working = true`
  clears that flag before the command wakes the motor, and auto-close then takes
  a working motor for idle, against changeLog.h:209. The drive still cannot be
  started toward an end it is at (`ImplementsValve`).
- `V2/main.c:218` and `531`: a command during a run, or the pairing timer that
  expires as a restore, reverses the motor without the stop that
  changeLog.h:213-214 speaks of.
- `V2/main.c:576`, `595`: `full_press_flag` survives the run that set it and lets a
  control switch stop the next one in mid travel, against changeLog.h:190-191.
- `V2/main.c:238`: after a reset the attribute says closed until a switch moves.
- changeLog.h:160 (no automatic join on the first start) against
  `V1/zigbee_helpers_TWV.c:373`, and changeLog.h:198 (no rejoin after a leave)
  against line 527.
- `V1/main.c:331`: the curve gives 180 half percents at a reading of 3320 and 179
  at 3321. A report of 170 with the reading at 3321 is not raised to 179, a rise
  too small to show; the reading falls to 3320, and 180 is shown.
  `FallNeverShowsRise` allows falls to exactly 3320 from 3321..3340, which read 179,
  and no other.
- `V1/main.c:293`: a join stops the timer that a restore of the valve waits for;
  the restore then comes with the next expiry of that timer, or never.
- `V1/pca10056/blank/config/sv_bsp.c:228`: a blink that preempts
  `bsp_led_indication` between `leds_off` and `app_timer_stop` leaves the LED lit
  without a timer.

## 6. Plan

Done, in this order: `ValveControl` and its proofs, the core of the product;
`Rejoin`, the only part with liveness to lose; `Battery`; `Pairing`; then
`ValveDrive` with the refinements of both generations, `ValveControlV1`,
`IndicationV1`, `BackgroundV1`, and proofs about each; `NetworkSearch` with the
refinement of the rejoin procedure; the stop at the end of travel for any
preemption, the time the LED may be lit, and the bound on attempts.

Left:

1. **V1 timers in time**: a model of the two app timers with their deadlines,
   which would tell how long a second start that is lost postpones an
   auto-close.

## 7. Not modelled

- Real time in the valve controls (section 2), electrical behaviour, the mechanics
  beyond three positions.
- The ZBOSS stack, Zephyr, the nRF5 SDK: external, as the code uses them. The
  V2 work queue and the V1 interrupts call `ZB_ZCL_SET_ATTRIBUTE` and the factory
  reset while the stack may be in the middle of something; what that does to the stack cannot be
  told from this repository.
- `nus_cmd.c`: nothing calls `nus_cmd_init`.
- `set_motor_pwm` is computed in `Battery`, but its result has no reader.
- The wake-up functions, the alert LED and the other indications of `sv_bsp.c`,
  and in `zigbee_helpers_TWV.c` the hex and address formatting,
  `zigbee_led_status_update` and `zigbee_power_down_unused_ram`: no caller.
- `sdk_config.h`, half of the implementation by lines (5967 of 11877): constants
  of the SDK, no behaviour. It alone keeps the lines the models stand for at
  about a fifth of the whole; they are two fifths of the rest.
- Constant attributes, logging, formatting, channel masks, hardware and build
  files.
