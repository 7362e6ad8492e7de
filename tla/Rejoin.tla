------------------------------- MODULE Rejoin -------------------------------
(***************************************************************************)
(* The network rejoin procedure of the V1.2 firmware                       *)
(* (zigbee_helpers_TWV.c, end-device build): how a valve that is off its   *)
(* Zigbee network retries with growing delays, gives up after 200 s and    *)
(* waits for user input, which the pairing button and the battery report   *)
(* both count as.  Every twelfth report resets the chip.                   *)
(*                                                                         *)
(* Every procedure here runs in the ZBOSS main loop, one callback at a     *)
(* time; only the button and the battery timer run in an interrupt, where  *)
(* user_input_indicate reads two flags and queues a callback.  The ZBOSS   *)
(* stack itself is external: its alarms, its callback queue, its           *)
(* commissioning and the signal it reports the outcome with.  A signal is  *)
(* queued, so alarms may fire between the outcome and its handler.         *)
(***************************************************************************)
EXTENDS Naturals

CONSTANTS
    InputDuringAttempt, \* may user input arrive while an attempt is under way?
                        \* TRUE is the firmware.
    ReportsPerReset,    \* the battery report that resets the chip: 12 in the
                        \* firmware.  0: the time between two such resets.
    MaxFaults           \* bound on leaves and on restarts for other reasons

ASSUME InputAssumption == InputDuringAttempt \in BOOLEAN
ASSUME ReportsAssumption == ReportsPerReset \in Nat
ASSUME FaultAssumption == MaxFaults \in Nat

\* The stack's progress: not started, initialising, at rest, running an
\* attempt, or with a signal queued for the application.
Outcome == {"reboot_ok", "reboot_failed", "steering_ok", "steering_failed"}
Signal  == Outcome \cup {"first_start", "leave_reset", "leave_rejoin"}
Bdb     == {"off", "init", "idle", "steering"} \cup Signal

\* The least n with 1 << n above REJOIN_INTERVAL_MAX_S = 900 seconds.
LastBackoff == 10

VARIABLES
    bdb,        \* Bdb: what the stack is doing
    joined,     \* ZB_JOINED()
    stored,     \* is there a network in NVRAM?
    r,          \* the flags of zigbee_helpers_TWV.c and the alarms it set
    reports,    \* reboot_couter: battery reports since the last reset
    faults      \* number of leaves and restarts so far

vars == <<bdb, joined, stored, r, reports, faults>>

RejoinState ==
    [ initialised: BOOLEAN,       \* m_stack_initialised
      started: BOOLEAN,           \* m_is_rejoin_procedure_started
      stop_requested: BOOLEAN,    \* m_is_rejoin_stop_requested
      in_progress: BOOLEAN,       \* m_is_rejoin_in_progress
      attempt: 0..LastBackoff,    \* m_rejoin_attempt_cnt
      wait: BOOLEAN,              \* m_wait_for_user_input
      start_scheduled: BOOLEAN,   \* m_is_rejoin_start_scheduled
      join_signalled: BOOLEAN,    \* joining_signal_received
      steering: Nat,              \* pending alarms: start_network_steering
      stop_alarm: Nat,            \*   stop_network_rejoin(ZB_TRUE), 200 s
      rejoin_alarm: Nat,          \*   rejoin_the_network, 1 s
      start_ED: Nat ]             \* queued callbacks: start_network_rejoin_ED

RejoinInit ==
    [ initialised |-> FALSE, started |-> FALSE, stop_requested |-> FALSE,
      in_progress |-> FALSE, attempt |-> 0, wait |-> FALSE,
      start_scheduled |-> FALSE, join_signalled |-> FALSE,
      steering |-> 0, stop_alarm |-> 0, rejoin_alarm |-> 0, start_ED |-> 0 ]

\* One alarm of n fires, or is cancelled: ZB_ALARM_ANY_PARAM takes the first
\* that matches.
Less(n) == IF n > 0 THEN n - 1 ELSE 0

-----------------------------------------------------------------------------
(* The functions of zigbee_helpers_TWV.c.                                  *)

\* Mutant: the exponent of the delay is not capped.
rejoin_without_cap(s) ==
    IF ~(s.initialised /\ s.started) THEN s
    ELSE IF s.stop_requested
         THEN [s EXCEPT !.started = FALSE, !.stop_requested = FALSE]
    ELSE IF s.in_progress THEN s
    ELSE [s EXCEPT !.in_progress = TRUE, !.steering = @ + 1, !.attempt = @ + 1]

rejoin_the_network(s) ==
    IF ~(s.initialised /\ s.started) THEN s
    ELSE IF s.stop_requested
         THEN [s EXCEPT !.started = FALSE, !.stop_requested = FALSE]
    ELSE IF s.in_progress THEN s
    ELSE [s EXCEPT !.in_progress = TRUE, !.steering = @ + 1,
                   !.attempt = IF @ < LastBackoff THEN @ + 1 ELSE @]

\* Mutant: a new procedure gets no deadline.
start_without_deadline(s) ==
    IF joined \/ ~s.initialised \/ s.wait THEN s
    ELSE IF s.started THEN [s EXCEPT !.in_progress = FALSE]
    ELSE [s EXCEPT !.started = TRUE, !.stop_requested = FALSE,
                   !.in_progress = FALSE, !.attempt = 0,
                   !.start_scheduled = FALSE]

start_network_rejoin(s) ==
    IF joined \/ ~s.initialised \/ s.wait THEN s
    ELSE IF s.started THEN [s EXCEPT !.in_progress = FALSE]
    ELSE [s EXCEPT !.started = TRUE, !.stop_requested = FALSE,
                   !.in_progress = FALSE, !.attempt = 0,
                   !.start_scheduled = FALSE, !.stop_alarm = @ + 1]

stop_network_rejoin(s, was_scheduled) ==
    LET w == [s EXCEPT !.wait = was_scheduled, !.stop_alarm = Less(@)]
    IN  IF ~s.started THEN w
        ELSE IF s.steering > 0
             THEN [w EXCEPT !.steering = Less(@), !.started = FALSE,
                            !.stop_requested = FALSE]
        ELSE [w EXCEPT !.stop_requested = TRUE]

\* Mutant: the alarm that schedules the first attempt is not set.
start_ED_without_alarm(s) ==
    IF joined \/ ~s.wait THEN [s EXCEPT !.start_scheduled = FALSE]
    ELSE [start_network_rejoin([s EXCEPT !.wait = FALSE])
             EXCEPT !.start_scheduled = FALSE]

start_network_rejoin_ED(s) ==
    IF joined \/ ~s.wait THEN [s EXCEPT !.start_scheduled = FALSE]
    ELSE [start_network_rejoin([s EXCEPT !.wait = FALSE])
             EXCEPT !.rejoin_alarm = @ + 1, !.start_scheduled = FALSE]

\* Mutant: nothing prevents scheduling a second start.
input_unchecked(s) ==
    IF s.wait
    THEN [s EXCEPT !.start_ED = @ + 1, !.start_scheduled = TRUE]
    ELSE s

user_input_indicate(s) ==
    IF s.wait /\ ~s.start_scheduled
    THEN [s EXCEPT !.start_ED = @ + 1, !.start_scheduled = TRUE]
    ELSE s

\* Mutant: the success of an attempt does not stop the procedure.
signal_ignores_success(s, sig) ==
    CASE sig \in {"reboot_ok", "steering_ok"} -> [s EXCEPT !.join_signalled = TRUE]
      [] sig \in {"first_start", "reboot_failed", "steering_failed"} ->
             [start_network_rejoin(s) EXCEPT !.join_signalled = TRUE]
      [] OTHER -> start_network_rejoin(s)

\* The cases of zigbee_default_signal_handler that touch the procedure.
signal_case(s, sig) ==
    CASE sig \in {"reboot_ok", "steering_ok"} ->
             [stop_network_rejoin(s, FALSE) EXCEPT !.join_signalled = TRUE]
      [] sig \in {"first_start", "reboot_failed", "steering_failed"} ->
             [start_network_rejoin(s) EXCEPT !.join_signalled = TRUE]
      [] sig = "leave_rejoin" ->
             start_network_rejoin([s EXCEPT !.join_signalled = FALSE])
      [] sig = "leave_reset" -> start_network_rejoin(s)

-----------------------------------------------------------------------------
(* The ZBOSS stack.                                                        *)

Init ==
    /\ bdb = "off"
    /\ joined = FALSE
    /\ stored \in BOOLEAN
    /\ r = RejoinInit
    /\ reports = 0
    /\ faults = 0

\* ZB_ZDO_SIGNAL_SKIP_STARTUP: the stack is up and begins to initialise.
StackStart ==
    /\ bdb = "off"
    /\ bdb' = "init"
    /\ r' = rejoin_the_network([r EXCEPT !.initialised = TRUE])
    /\ UNCHANGED <<joined, stored, reports, faults>>

\* Initialisation ends: rejoined, failed to rejoin, or nothing to rejoin.
InitDone ==
    /\ bdb = "init"
    /\ \E sig \in IF stored THEN {"reboot_ok", "reboot_failed"} ELSE {"first_start"} :
          /\ bdb' = sig
          /\ joined' = (sig = "reboot_ok")
    /\ UNCHANGED <<stored, r, reports, faults>>

\* A network steering attempt ends; on a device already joined it succeeds.
SteeringDone ==
    /\ bdb = "steering"
    /\ \E sig \in {"steering_ok", "steering_failed"} :
          /\ bdb' = sig
          /\ joined => sig = "steering_ok"
          /\ joined' = (sig = "steering_ok")
          /\ stored' = (stored \/ sig = "steering_ok")
    /\ UNCHANGED <<r, reports, faults>>

\* The main loop empties its callback queue before it looks at its alarms.
AlarmsRun == r.start_ED = 0

\* The device leaves its network: told to, or reset by the pairing button.
\* A leave with the rejoin flag keeps the network, and the stack rejoins.
Leave ==
    /\ bdb = "idle" /\ joined /\ AlarmsRun
    /\ faults < MaxFaults
    /\ faults' = faults + 1
    /\ \E sig \in {"leave_reset", "leave_rejoin"} :
          /\ bdb' = sig
          /\ stored' = (sig = "leave_rejoin")
    /\ joined' = FALSE
    /\ UNCHANGED <<r, reports>>

\* zboss_signal_handler and zigbee_default_signal_handler take the signal.
SignalHandler ==
    /\ bdb \in Signal
    /\ bdb' = IF bdb = "leave_rejoin" THEN "steering" ELSE "idle"
    /\ r' = rejoin_the_network(signal_case(r, bdb))
    /\ UNCHANGED <<joined, stored, reports, faults>>

\* Any other signal: the handler still ends in rejoin_the_network.
OtherSignal ==
    /\ r' = rejoin_the_network(r)
    /\ UNCHANGED <<bdb, joined, stored, reports, faults>>

\* What a reset leaves: all but the NVRAM.
Reset ==
    /\ bdb' = "off"
    /\ joined' = FALSE
    /\ r' = RejoinInit
    /\ reports' = 0
    /\ UNCHANGED stored

Restart ==
    /\ faults < MaxFaults
    /\ faults' = faults + 1
    /\ Reset

\* ZB_NLME_STATUS_INDICATION, parent link failure: a device that has heard of
\* no outcome takes its rejoin for broken and restarts.
ParentLinkFailure ==
    /\ bdb # "off"
    /\ r.initialised /\ ~r.join_signalled
    /\ Restart

\* Joined an empty network (extended PAN id 0), an OTA image, the watchdog.
SystemReset == Restart

\* The alarm for the next attempt: commissioning begins unless it is busy.
start_network_steering ==
    /\ AlarmsRun
    /\ r.steering > 0
    /\ r' = [r EXCEPT !.steering = Less(@)]
    /\ bdb' = IF bdb = "idle" THEN "steering" ELSE bdb
    /\ UNCHANGED <<joined, stored, reports, faults>>

\* The 200 s alarm.  Set together with the 1 s alarms of a start, it overtakes
\* neither the one that schedules the first attempt nor that attempt.
RejoinTimeout ==
    /\ AlarmsRun
    /\ r.stop_alarm > 0
    /\ r.rejoin_alarm = 0
    /\ r.attempt = 1 => r.steering = 0
    /\ r' = stop_network_rejoin([r EXCEPT !.stop_alarm = Less(@)], TRUE)
    /\ UNCHANGED <<bdb, joined, stored, reports, faults>>

RejoinAlarm ==
    /\ AlarmsRun
    /\ r.rejoin_alarm > 0
    /\ r' = rejoin_the_network([r EXCEPT !.rejoin_alarm = Less(@)])
    /\ UNCHANGED <<bdb, joined, stored, reports, faults>>

StartED ==
    /\ r.start_ED > 0
    /\ r' = start_network_rejoin_ED([r EXCEPT !.start_ED = Less(@)])
    /\ UNCHANGED <<bdb, joined, stored, reports, faults>>

\* A push of the pairing button.
PairingButton ==
    /\ InputDuringAttempt \/ bdb = "idle"
    /\ r' = user_input_indicate(r)
    /\ UNCHANGED <<bdb, joined, stored, reports, faults>>

\* Mutant: reports are not counted.
report_uncounted ==
    /\ InputDuringAttempt \/ bdb = "idle"
    /\ r' = user_input_indicate(r)
    /\ UNCHANGED <<bdb, joined, stored, reports, faults>>

\* Every 25 minutes the battery report counts as user input, and the twelfth
\* resets the chip.
battery_report_timer_handler ==
    /\ InputDuringAttempt \/ bdb = "idle"
    /\ IF ReportsPerReset = 0 \/ reports + 1 < ReportsPerReset
       THEN /\ r' = user_input_indicate(r)
            /\ reports' = IF ReportsPerReset = 0 THEN 0 ELSE reports + 1
            /\ UNCHANGED <<bdb, joined, stored>>
       ELSE Reset
    /\ UNCHANGED faults

Next ==
    \/ StackStart \/ InitDone \/ SteeringDone \/ Leave
    \/ SignalHandler \/ OtherSignal
    \/ ParentLinkFailure \/ SystemReset
    \/ start_network_steering \/ RejoinTimeout \/ RejoinAlarm
    \/ StartED \/ PairingButton \/ battery_report_timer_handler

Spec == Init /\ [][Next]_vars

\* The stack reports what it was asked, the main loop runs what is queued or
\* due, and a battery report always comes.  A reset that comes again and again
\* does not always come before these: they take seconds, it comes every five
\* hours.  Nothing makes an attempt succeed, a person press the button, or the
\* device leave.
Fairness ==
    /\ WF_vars(StackStart) /\ SF_vars(InitDone) /\ SF_vars(SteeringDone)
    /\ SF_vars(SignalHandler)
    /\ SF_vars(start_network_steering) /\ SF_vars(RejoinTimeout)
    /\ SF_vars(RejoinAlarm) /\ SF_vars(StartED)
    /\ WF_vars(battery_report_timer_handler)

FairSpec == Spec /\ Fairness

-----------------------------------------------------------------------------
(* Properties.                                                             *)

TypeInvariant ==
    /\ bdb \in Bdb
    /\ joined \in BOOLEAN
    /\ stored \in BOOLEAN
    /\ r \in RejoinState
    /\ reports \in Nat /\ (reports = 0 \/ reports < ReportsPerReset)
    /\ faults \in 0..MaxFaults

\* A procedure that has not been asked to stop has exactly one deadline, and
\* there is no deadline without such a procedure: failed attempts, leaves,
\* user input and timeouts, in any order, never add or lose the 200 s alarm.
ProcedureHasDeadline ==
    r.stop_alarm = IF r.started /\ ~r.stop_requested THEN 1 ELSE 0

\* An attempt that commissioning is busy with, or has reported the outcome of.
Attempting == bdb \in {"steering", "steering_ok", "steering_failed"}

\* Retries do not pile up.  However often the button is pressed and the battery
\* reported, at most one start is queued, a queued start that would act holds
\* back the next, and at most one start has its 1 s alarm to come.  Of attempts
\* there are at most two, scheduled or under way: the stack's own after a leave
\* with the rejoin flag, or one that outlived its deadline, does not hold back
\* the next, but leaves, timeouts and new starts never add a third.
RetriesDoNotPileUp ==
    /\ r.start_ED <= 1
    /\ r.start_ED = 1 => r.start_scheduled \/ ~r.wait
    /\ r.rejoin_alarm <= 1
    /\ r.steering <= IF Attempting THEN 1 ELSE 2

\* Once the application has been told of a join, the procedure is over, no
\* attempt is left to disturb the network, user input does nothing, and a parent
\* link failure cannot reset the device.
JoinedIsSettled ==
    joined /\ bdb = "idle" =>
        ~r.started /\ r.steering = 0 /\ ~r.wait /\ r.join_signalled

\* A device off the network, with nothing under way in the stack, has
\* something to bring it back: an attempt scheduled, the 1 s alarm that
\* schedules one, or a wait that user input ends.  changeLog.h:157, "added
\* user_input_indicate(); to battery reporting - so re-connect to lost network
\* will be initiated regularly": false, once input has come during the attempt
\* that the 200 s alarm found under way, until a report resets the chip.
NeverStranded ==
    ~joined /\ bdb = "idle" =>
        r.steering > 0 \/ r.rejoin_alarm > 0 \/ r.wait

\* The phases of a search in the flags of the firmware.
Phase(s) ==
    IF s.started THEN IF s.stop_requested THEN "stopping" ELSE "running"
    ELSE IF s.wait THEN "waiting" ELSE "none"

Network == INSTANCE NetworkSearch
               WITH up <- bdb # "off", search <- Phase(r),
                    Abandons <- InputDuringAttempt

\* The procedure is the search NetworkSearch promises: no outcome, alarm, leave
\* or input takes a phase out of turn.  Only input during an attempt may drop a
\* search that was given up.
ImplementsSearch == Network!Spec

\* And it keeps going: a device off its network joins or gives up, and does not
\* scan for ever; what is given up is taken up again.
ImplementsFairSearch == Network!FairSpec

\* A device off the network with no attempt, no wait, and no alarm that would
\* schedule one: user input changes nothing there.
Stranded ==
    /\ ~joined /\ bdb = "idle"
    /\ r.steering = 0 /\ ~r.wait
    /\ r.rejoin_alarm = 0 \/ ~r.started

\* A device is stranded in one way only: a search that was given up, with its
\* attempt not over, has lost its wait, which input takes.  No order of failures,
\* leaves, timeouts, retries and restarts does it otherwise.
StrandedOnlyByInput ==
    [][Stranded' /\ ~Stranded => Phase(r) = "stopping" /\ ~r.wait]_vars

\* A device off the network tries again and again, whenever input comes: one
\* that is stranded is reset by a report.
RetriesRegularly == []<>(joined \/ bdb = "steering")

=============================================================================
