---------------------------- MODULE RejoinProofs ----------------------------
(***************************************************************************)
(* Theorems about Rejoin, for every value of its constants: user input at  *)
(* any time or not, any number of leaves and restarts.                     *)
(***************************************************************************)
EXTENDS Rejoin, TLAPS

-----------------------------------------------------------------------------
(* The state outside a signal handler.  The two facts about the deadline   *)
(* are inductive together: a stop cancels the 200 s alarm in any case, so  *)
(* it must leave no procedure that still counts on it.                     *)

Deadline(s) == s.stop_alarm = IF s.started /\ ~s.stop_requested THEN 1 ELSE 0

\* Only a device at rest, in an attempt, or about to hear of success is joined.
JoinedWhere ==
    /\ joined => bdb \in {"idle", "steering", "reboot_ok", "steering_ok"}
    /\ bdb \in {"reboot_ok", "steering_ok"} => joined

StackUp == bdb # "off" => r.initialised

Settled == joined /\ bdb = "idle" => ~r.started /\ ~r.wait /\ r.join_signalled

IInv == TypeInvariant /\ ProcedureHasDeadline /\ JoinedWhere /\ StackUp
        /\ Settled

-----------------------------------------------------------------------------
(* What each function keeps.                                               *)

LEMMA CountTyped ==
    ASSUME NEW n \in Nat
    PROVE  Less(n) \in Nat
BY DEF Less

LEMMA CountZero ==
    /\ Less(0) = 0 /\ Less(1) = 0
BY DEF Less

\* Setting one flag, one count or the number of attempts.
LEMMA FlagTyped ==
    ASSUME NEW s \in RejoinState, NEW b \in BOOLEAN
    PROVE  /\ [s EXCEPT !.started = b] \in RejoinState
           /\ [s EXCEPT !.stop_requested = b] \in RejoinState
           /\ [s EXCEPT !.in_progress = b] \in RejoinState
           /\ [s EXCEPT !.wait = b] \in RejoinState
           /\ [s EXCEPT !.start_scheduled = b] \in RejoinState
BY DEF RejoinState

LEMMA AlarmTyped ==
    ASSUME NEW s \in RejoinState, NEW n \in Nat
    PROVE  /\ [s EXCEPT !.stop_alarm = n] \in RejoinState
           /\ [s EXCEPT !.rejoin_alarm = n] \in RejoinState
           /\ [s EXCEPT !.start_ED = n] \in RejoinState
BY DEF RejoinState

LEMMA AttemptTyped ==
    ASSUME NEW s \in RejoinState, NEW k \in 0..LastBackoff
    PROVE  [s EXCEPT !.attempt = k] \in RejoinState
BY DEF RejoinState

LEMMA RejoinKeeps ==
    ASSUME NEW s \in RejoinState, Deadline(s)
    PROVE  /\ rejoin_the_network(s) \in RejoinState
           /\ Deadline(rejoin_the_network(s))
           /\ rejoin_the_network(s).initialised = s.initialised
           /\ rejoin_the_network(s).wait = s.wait
           /\ rejoin_the_network(s).join_signalled = s.join_signalled
           /\ ~s.started => rejoin_the_network(s) = s
           /\ s.initialised /\ s.stop_requested
                 => ~rejoin_the_network(s).started
<1> DEFINE next == IF s.attempt < LastBackoff THEN s.attempt + 1 ELSE s.attempt
           stopped == [s EXCEPT !.started = FALSE, !.stop_requested = FALSE]
           tried == [s EXCEPT !.in_progress = TRUE,
                              !.steering = s.steering + 1, !.attempt = next]
<1>1. next \in 0..LastBackoff /\ s.steering + 1 \in Nat
  BY DEF RejoinState, LastBackoff
<1>2. s.started \in BOOLEAN /\ s.stop_requested \in BOOLEAN
  BY DEF RejoinState
<1>3. CASE ~(s.initialised /\ s.started)
  BY <1>2, <1>3 DEF rejoin_the_network
<1>4. CASE s.initialised /\ s.started /\ s.stop_requested
  <2>1. rejoin_the_network(s) = stopped
    BY <1>4 DEF rejoin_the_network
  <2>2. QED
    BY <1>4, <2>1 DEF RejoinState, Deadline
<1>5. CASE s.initialised /\ s.started /\ ~s.stop_requested /\ s.in_progress
  BY <1>5 DEF rejoin_the_network
<1>6. CASE s.initialised /\ s.started /\ ~s.stop_requested /\ ~s.in_progress
  <2>1. rejoin_the_network(s) = tried
    BY <1>6 DEF rejoin_the_network
  <2> HIDE DEF next
  <2>2. QED
    BY <1>1, <1>6, <2>1 DEF RejoinState, Deadline
<1>7. QED
  BY <1>3, <1>4, <1>5, <1>6

LEMMA StartKeeps ==
    ASSUME NEW s \in RejoinState, Deadline(s)
    PROVE  /\ start_network_rejoin(s) \in RejoinState
           /\ Deadline(start_network_rejoin(s))
           /\ start_network_rejoin(s).initialised = s.initialised
           /\ joined => start_network_rejoin(s) = s
<1> DEFINE started == [s EXCEPT !.started = TRUE, !.stop_requested = FALSE,
                                !.in_progress = FALSE, !.attempt = 0,
                                !.start_scheduled = FALSE,
                                !.stop_alarm = s.stop_alarm + 1]
<1>1. CASE joined \/ ~s.initialised \/ s.wait
  BY <1>1 DEF start_network_rejoin
<1>2. CASE ~(joined \/ ~s.initialised \/ s.wait) /\ s.started
  <2>1. start_network_rejoin(s) = [s EXCEPT !.in_progress = FALSE]
    BY <1>2 DEF start_network_rejoin
  <2>2. QED
    BY <1>2, <2>1 DEF RejoinState, Deadline
<1>3. CASE ~(joined \/ ~s.initialised \/ s.wait) /\ ~s.started
  <2>1. start_network_rejoin(s) = started
    BY <1>3 DEF start_network_rejoin
  <2>2. s.stop_alarm = 0
    BY <1>3 DEF Deadline
  <2>3. started \in RejoinState
    <3>1. 0 \in 0..LastBackoff /\ s.stop_alarm + 1 \in Nat
      BY <2>2 DEF LastBackoff
    <3>2. QED
      BY <3>1, FlagTyped, AlarmTyped, AttemptTyped, Zenon
  <2>4. Deadline(started) /\ started.initialised = s.initialised
    BY <2>2 DEF RejoinState, Deadline
  <2>5. QED
    BY <1>3, <2>1, <2>3, <2>4
<1>4. QED
  BY <1>1, <1>2, <1>3

\* The caller may already have seen the 200 s alarm fire.
LEMMA StopKeeps ==
    ASSUME NEW s \in RejoinState, NEW was_scheduled \in BOOLEAN,
           s.stop_alarm \in {0, 1}
    PROVE  /\ stop_network_rejoin(s, was_scheduled) \in RejoinState
           /\ Deadline(stop_network_rejoin(s, was_scheduled))
           /\ stop_network_rejoin(s, was_scheduled).initialised = s.initialised
           /\ stop_network_rejoin(s, was_scheduled).wait = was_scheduled
           /\ \/ ~stop_network_rejoin(s, was_scheduled).started
              \/ stop_network_rejoin(s, was_scheduled).stop_requested
<1> DEFINE w == [s EXCEPT !.wait = was_scheduled,
                          !.stop_alarm = Less(s.stop_alarm)]
<1>1. w \in RejoinState /\ w.stop_alarm = 0
  <2>1. Less(s.stop_alarm) = 0 /\ Less(s.stop_alarm) \in Nat
    BY CountZero
  <2>2. w \in RejoinState
    <3>1. [s EXCEPT !.wait = was_scheduled] \in RejoinState
      BY FlagTyped
    <3>2. QED
      BY <2>1, <3>1, AlarmTyped, Zenon
  <2>3. QED
    BY <2>1, <2>2 DEF RejoinState
<1>2. Less(s.steering) \in Nat
  BY CountTyped DEF RejoinState
<1>3. CASE ~s.started
  BY <1>1, <1>3 DEF stop_network_rejoin, Deadline, RejoinState
<1>4. CASE s.started /\ s.steering > 0
  BY <1>1, <1>2, <1>4 DEF stop_network_rejoin, Deadline, RejoinState
<1>5. CASE s.started /\ ~(s.steering > 0)
  BY <1>1, <1>5 DEF stop_network_rejoin, Deadline, RejoinState
<1>6. QED
  BY <1>3, <1>4, <1>5

LEMMA StartEDKeeps ==
    ASSUME NEW s \in RejoinState, Deadline(s)
    PROVE  /\ start_network_rejoin_ED(s) \in RejoinState
           /\ Deadline(start_network_rejoin_ED(s))
           /\ start_network_rejoin_ED(s).initialised = s.initialised
           /\ joined => start_network_rejoin_ED(s)
                           = [s EXCEPT !.start_scheduled = FALSE]
<1> DEFINE t == [s EXCEPT !.wait = FALSE]
           u == start_network_rejoin(t)
<1>1. t \in RejoinState /\ Deadline(t) /\ t.initialised = s.initialised
  BY DEF RejoinState, Deadline
<1>2. u \in RejoinState /\ Deadline(u) /\ u.initialised = s.initialised
  BY <1>1, StartKeeps
<1>3. CASE joined \/ ~s.wait
  BY <1>3 DEF start_network_rejoin_ED, RejoinState, Deadline
<1>4. CASE ~(joined \/ ~s.wait)
  <2>1. start_network_rejoin_ED(s)
           = [u EXCEPT !.rejoin_alarm = u.rejoin_alarm + 1,
                       !.start_scheduled = FALSE]
    BY <1>4 DEF start_network_rejoin_ED
  <2> HIDE DEF t, u
  <2>2. start_network_rejoin_ED(s) \in RejoinState
    <3>1. u.rejoin_alarm + 1 \in Nat
      BY <1>2 DEF RejoinState
    <3>2. [u EXCEPT !.rejoin_alarm = u.rejoin_alarm + 1] \in RejoinState
      BY <1>2, <3>1, AlarmTyped
    <3>3. QED
      BY <2>1, <3>2, FlagTyped, Zenon
  <2>3. /\ Deadline(start_network_rejoin_ED(s))
        /\ start_network_rejoin_ED(s).initialised = s.initialised
    BY <1>2, <2>1 DEF RejoinState, Deadline
  <2>4. QED
    BY <1>4, <2>2, <2>3
<1>5. QED
  BY <1>3, <1>4

\* A signal of success ends the procedure; the others change nothing on a
\* joined device.
LEMMA SignalKeeps ==
    ASSUME NEW s \in RejoinState, Deadline(s), NEW sig \in Signal,
           s.initialised
    PROVE  LET t == rejoin_the_network(signal_case(s, sig))
           IN  /\ t \in RejoinState
               /\ Deadline(t)
               /\ t.initialised
               /\ sig \in {"reboot_ok", "steering_ok"}
                     => ~t.started /\ ~t.wait /\ t.join_signalled
<1>1. CASE sig \in {"reboot_ok", "steering_ok"}
  <2> DEFINE u == stop_network_rejoin(s, FALSE)
             v == [u EXCEPT !.join_signalled = TRUE]
  <2>1. s.stop_alarm \in {0, 1}
    BY DEF Deadline
  <2>2. /\ u \in RejoinState /\ Deadline(u) /\ u.initialised /\ u.wait = FALSE
        /\ ~u.started \/ u.stop_requested
    BY <2>1, StopKeeps
  <2>3. signal_case(s, sig) = v
    BY <1>1 DEF signal_case
  <2> HIDE DEF u
  <2>4. /\ v \in RejoinState /\ Deadline(v) /\ v.initialised /\ v.wait = FALSE
        /\ v.join_signalled
        /\ ~v.started \/ v.stop_requested
    BY <2>2 DEF RejoinState, Deadline
  <2> HIDE DEF v
  <2>5. ~rejoin_the_network(v).started
    BY <2>4, RejoinKeeps
  <2>6. QED
    BY <2>3, <2>4, <2>5, RejoinKeeps
<1>2. CASE sig \in {"first_start", "reboot_failed", "steering_failed"}
  <2> DEFINE u == start_network_rejoin(s)
             v == [u EXCEPT !.join_signalled = TRUE]
  <2>1. u \in RejoinState /\ Deadline(u) /\ u.initialised
    BY StartKeeps
  <2>2. signal_case(s, sig) = v
    BY <1>2 DEF signal_case
  <2> HIDE DEF u
  <2>3. v \in RejoinState /\ Deadline(v) /\ v.initialised
    BY <2>1 DEF RejoinState, Deadline
  <2> HIDE DEF v
  <2>4. QED
    BY <1>2, <2>2, <2>3, RejoinKeeps
<1>3. CASE sig = "leave_rejoin"
  <2> DEFINE u == [s EXCEPT !.join_signalled = FALSE]
             v == start_network_rejoin(u)
  <2>1. u \in RejoinState /\ Deadline(u) /\ u.initialised
    BY DEF RejoinState, Deadline
  <2>2. signal_case(s, sig) = v
    BY <1>3 DEF signal_case
  <2> HIDE DEF u
  <2>3. v \in RejoinState /\ Deadline(v) /\ v.initialised
    BY <2>1, StartKeeps
  <2> HIDE DEF v
  <2>4. QED
    BY <1>3, <2>2, <2>3, RejoinKeeps
<1>4. CASE sig = "leave_reset"
  <2> DEFINE v == start_network_rejoin(s)
  <2>1. signal_case(s, sig) = v
    BY <1>4 DEF signal_case
  <2>2. v \in RejoinState /\ Deadline(v) /\ v.initialised
    BY StartKeeps
  <2> HIDE DEF v
  <2>3. QED
    BY <1>4, <2>1, <2>2, RejoinKeeps
<1>5. QED
  BY <1>1, <1>2, <1>3, <1>4 DEF Signal, Outcome

-----------------------------------------------------------------------------
(* The invariant.                                                          *)

LEMMA RejoinInitOK == RejoinInit \in RejoinState /\ Deadline(RejoinInit)
<1>1. RejoinInit \in RejoinState
  BY DEF RejoinInit, RejoinState, LastBackoff
<1>2. Deadline(RejoinInit)
  BY DEF RejoinInit, Deadline
<1>3. QED
  BY <1>1, <1>2

LEMMA InitOK == Init => IInv
<1> SUFFICES ASSUME Init PROVE IInv
  OBVIOUS
<1>1. TypeInvariant
  <2>1. 0 \in 0..MaxFaults
    BY FaultAssumption
  <2>2. QED
    BY <2>1, RejoinInitOK, Zenon DEF Init, TypeInvariant, Bdb
<1>2. ProcedureHasDeadline
  BY RejoinInitOK DEF Init, ProcedureHasDeadline, Deadline
<1>3. JoinedWhere /\ StackUp /\ Settled
  BY DEF Init, JoinedWhere, StackUp, Settled
<1>4. QED
  BY <1>1, <1>2, <1>3 DEF IInv

\* A button, a report, and their user input.
UserInput == r' = user_input_indicate(r) /\ UNCHANGED <<bdb, joined, stored>>

LEMMA InputSteps ==
    /\ PairingButton => /\ UserInput /\ (InputDuringAttempt \/ bdb = "idle")
                        /\ UNCHANGED <<reports, faults>>
    /\ battery_report_timer_handler =>
          /\ faults' = faults
          /\ UserInput \/ Reset
          /\ InputDuringAttempt \/ bdb = "idle"
          /\ TypeInvariant => /\ reports' \in Nat
                              /\ reports' = 0 \/ reports' < ReportsPerReset
BY ReportsAssumption
   DEF PairingButton, battery_report_timer_handler, UserInput, Reset,
       TypeInvariant

\* A user's input queues a start or nothing.
LEMMA InputKeeps ==
    ASSUME r \in RejoinState, UserInput
    PROVE  /\ r' \in RejoinState
           /\ r' = r \/ (r.start_ED + 1 = r'.start_ED /\ r.wait
                          /\ ~r.start_scheduled /\ r'.start_scheduled)
           /\ r'.initialised = r.initialised /\ r'.wait = r.wait
           /\ r'.started = r.started /\ r'.join_signalled = r.join_signalled
           /\ r'.stop_alarm = r.stop_alarm /\ r'.in_progress = r.in_progress
           /\ r'.stop_requested = r.stop_requested
           /\ r'.steering = r.steering /\ r'.rejoin_alarm = r.rejoin_alarm
<1>1. CASE r.wait /\ ~r.start_scheduled
  <2>1. r' = [r EXCEPT !.start_ED = r.start_ED + 1, !.start_scheduled = TRUE]
    BY <1>1 DEF UserInput, user_input_indicate
  <2>2. r' \in RejoinState
    <3>1. r.start_ED + 1 \in Nat
      BY DEF RejoinState
    <3>2. [r EXCEPT !.start_ED = r.start_ED + 1] \in RejoinState
      BY <3>1, AlarmTyped
    <3>3. QED
      BY <2>1, <3>2, FlagTyped, Zenon
  <2>3. QED
    BY <1>1, <2>1, <2>2 DEF RejoinState
<1>2. CASE ~(r.wait /\ ~r.start_scheduled)
  BY <1>2 DEF UserInput, user_input_indicate
<1>3. QED
  BY <1>1, <1>2

LEMMA ResetOK == IInv /\ Reset /\ faults' \in 0..MaxFaults => IInv'
<1> SUFFICES ASSUME IInv, Reset, faults' \in 0..MaxFaults PROVE IInv'
  OBVIOUS
<1>1. TypeInvariant'
  BY RejoinInitOK DEF IInv, Reset, TypeInvariant, Bdb
<1>2. ProcedureHasDeadline'
  BY RejoinInitOK DEF Reset, ProcedureHasDeadline, Deadline
<1>3. JoinedWhere' /\ StackUp' /\ Settled'
  BY DEF Reset, JoinedWhere, StackUp, Settled
<1>4. QED
  BY <1>1, <1>2, <1>3 DEF IInv

LEMMA SignalOK == IInv /\ SignalHandler => IInv'
<1> SUFFICES ASSUME IInv, SignalHandler PROVE IInv'
  OBVIOUS
<1>1. /\ r \in RejoinState /\ Deadline(r) /\ bdb \in Signal /\ r.initialised
  BY DEF IInv, TypeInvariant, ProcedureHasDeadline, Deadline, StackUp,
         SignalHandler, Signal, Outcome
<1>2. /\ r' \in RejoinState /\ Deadline(r') /\ r'.initialised
      /\ bdb \in {"reboot_ok", "steering_ok"}
            => ~r'.started /\ ~r'.wait /\ r'.join_signalled
  BY <1>1, SignalKeeps DEF SignalHandler
<1>3. /\ bdb' \in {"idle", "steering"}
      /\ joined' = joined /\ stored' = stored
      /\ reports' = reports /\ faults' = faults
  BY DEF SignalHandler
<1>4. TypeInvariant'
  BY <1>2, <1>3 DEF IInv, TypeInvariant, Bdb
<1>5. ProcedureHasDeadline'
  BY <1>2 DEF Deadline, ProcedureHasDeadline
<1>6. JoinedWhere' /\ StackUp'
  BY <1>2, <1>3 DEF JoinedWhere, StackUp
<1>7. Settled'
  BY <1>1, <1>2, <1>3 DEF IInv, JoinedWhere, Settled, Signal, Outcome
<1>8. QED
  BY <1>4, <1>5, <1>6, <1>7 DEF IInv

LEMMA NextOK == IInv /\ [Next]_vars => IInv'
<1> SUFFICES ASSUME IInv, [Next]_vars PROVE IInv'
  OBVIOUS
<1> USE DEF IInv
<1>t. r \in RejoinState /\ Deadline(r)
  BY DEF TypeInvariant, ProcedureHasDeadline, Deadline
<1>1. CASE StackStart
  <2> DEFINE s == [r EXCEPT !.initialised = TRUE]
  <2>1. s \in RejoinState /\ Deadline(s) /\ s.initialised
    BY <1>t DEF RejoinState, Deadline
  <2>2. r' = rejoin_the_network(s)
    BY <1>1 DEF StackStart
  <2> HIDE DEF s
  <2>3. r' \in RejoinState /\ Deadline(r') /\ r'.initialised
    BY <2>1, <2>2, RejoinKeeps
  <2>4. QED
    BY <1>1, <2>3
       DEF StackStart, TypeInvariant, Bdb, ProcedureHasDeadline, Deadline,
           JoinedWhere, StackUp, Settled
<1>2. CASE InitDone
  BY <1>2 DEF InitDone, TypeInvariant, Bdb, Signal, Outcome,
              ProcedureHasDeadline, JoinedWhere, StackUp, Settled
<1>3. CASE SteeringDone
  BY <1>3 DEF SteeringDone, TypeInvariant, Bdb, Signal, Outcome,
              ProcedureHasDeadline, JoinedWhere, StackUp, Settled
<1>4. CASE Leave
  <2>1. PICK sig \in {"leave_reset", "leave_rejoin"} :
           bdb' = sig /\ stored' = (sig = "leave_rejoin")
    BY <1>4 DEF Leave
  <2>2. /\ bdb = "idle" /\ joined' = FALSE /\ r' = r /\ reports' = reports
        /\ faults' \in 0..MaxFaults
    BY <1>4, FaultAssumption DEF Leave, TypeInvariant
  <2>3. bdb' \in Bdb /\ stored' \in BOOLEAN
    BY <2>1 DEF Bdb, Signal
  <2>4. TypeInvariant'
    BY <2>2, <2>3 DEF TypeInvariant
  <2>5. QED
    BY <2>1, <2>2, <2>4
       DEF ProcedureHasDeadline, JoinedWhere, StackUp, Settled
<1>5. CASE SignalHandler
  BY <1>5, SignalOK
<1>6. CASE OtherSignal
  <2>1. /\ r' \in RejoinState /\ Deadline(r')
        /\ r'.initialised = r.initialised /\ r'.wait = r.wait
        /\ r'.join_signalled = r.join_signalled
        /\ ~r.started => ~r'.started
    BY <1>6, <1>t, RejoinKeeps DEF OtherSignal
  <2>2. QED
    BY <1>6, <2>1
       DEF OtherSignal, TypeInvariant, ProcedureHasDeadline, Deadline,
           JoinedWhere, StackUp, Settled
<1>7. CASE ParentLinkFailure \/ SystemReset
  <2>1. Reset /\ faults' \in 0..MaxFaults
    BY <1>7, FaultAssumption
       DEF ParentLinkFailure, SystemReset, Restart, TypeInvariant
  <2>2. QED
    BY <2>1, ResetOK
<1>8. CASE start_network_steering
  <2>1. Less(r.steering) \in Nat
    BY <1>t, CountTyped DEF RejoinState
  <2>2. r' \in RejoinState /\ Deadline(r')
    BY <1>8, <1>t, <2>1 DEF start_network_steering, RejoinState, Deadline
  <2>3. /\ r'.initialised = r.initialised /\ r'.wait = r.wait
        /\ r'.started = r.started /\ r'.join_signalled = r.join_signalled
    BY <1>8, <1>t DEF start_network_steering, RejoinState
  <2>4. QED
    BY <1>8, <2>2, <2>3
       DEF start_network_steering, TypeInvariant, Bdb, ProcedureHasDeadline,
           Deadline, JoinedWhere, StackUp, Settled
<1>9. CASE RejoinTimeout
  <2> DEFINE s == [r EXCEPT !.stop_alarm = Less(r.stop_alarm)]
  <2>1. r.stop_alarm = 1 /\ r.started
    BY <1>9, <1>t DEF RejoinTimeout, Deadline
  <2>2. /\ s \in RejoinState /\ s.stop_alarm \in {0, 1}
        /\ s.initialised = r.initialised
    BY <1>t, <2>1, CountZero DEF RejoinState
  <2>3. r' = stop_network_rejoin(s, TRUE)
    BY <1>9 DEF RejoinTimeout
  <2> HIDE DEF s
  <2>4. r' \in RejoinState /\ Deadline(r') /\ r'.initialised = r.initialised
    BY <2>2, <2>3, StopKeeps
  <2>5. ~(joined /\ bdb = "idle")
    BY <2>1 DEF Settled
  <2>6. QED
    BY <1>9, <2>4, <2>5
       DEF RejoinTimeout, TypeInvariant, ProcedureHasDeadline, Deadline,
           JoinedWhere, StackUp, Settled
<1>10. CASE RejoinAlarm
  <2> DEFINE s == [r EXCEPT !.rejoin_alarm = Less(r.rejoin_alarm)]
  <2>1. /\ s \in RejoinState /\ Deadline(s) /\ s.initialised = r.initialised
        /\ s.wait = r.wait /\ s.join_signalled = r.join_signalled
        /\ s.started = r.started
    BY <1>t, CountTyped DEF RejoinState, Deadline
  <2>2. r' = rejoin_the_network(s)
    BY <1>10 DEF RejoinAlarm
  <2> HIDE DEF s
  <2>3. /\ r' \in RejoinState /\ Deadline(r')
        /\ r'.initialised = r.initialised /\ r'.wait = r.wait
        /\ r'.join_signalled = r.join_signalled
        /\ ~r.started => ~r'.started
    BY <2>1, <2>2, RejoinKeeps
  <2>4. QED
    BY <1>10, <2>3
       DEF RejoinAlarm, TypeInvariant, ProcedureHasDeadline, Deadline,
           JoinedWhere, StackUp, Settled
<1>11. CASE StartED
  <2> DEFINE s == [r EXCEPT !.start_ED = Less(r.start_ED)]
  <2>1. /\ s \in RejoinState /\ Deadline(s) /\ s.initialised = r.initialised
        /\ s.wait = r.wait /\ s.join_signalled = r.join_signalled
        /\ s.started = r.started
    BY <1>t, CountTyped DEF RejoinState, Deadline
  <2>2. r' = start_network_rejoin_ED(s)
    BY <1>11 DEF StartED
  <2> HIDE DEF s
  <2>3. /\ r' \in RejoinState /\ Deadline(r')
        /\ r'.initialised = r.initialised
        /\ joined => r' = [s EXCEPT !.start_scheduled = FALSE]
    BY <2>1, <2>2, StartEDKeeps
  <2>4. joined => /\ r'.wait = r.wait /\ r'.started = r.started
                  /\ r'.join_signalled = r.join_signalled
    BY <2>1, <2>3 DEF RejoinState
  <2>5. QED
    BY <1>11, <2>3, <2>4
       DEF StartED, TypeInvariant, ProcedureHasDeadline, Deadline,
           JoinedWhere, StackUp, Settled
<1>12. CASE PairingButton \/ battery_report_timer_handler
  <2>1. /\ UserInput \/ Reset
        /\ faults' = faults /\ faults' \in 0..MaxFaults
        /\ reports' \in Nat /\ (reports' = 0 \/ reports' < ReportsPerReset)
    BY <1>12, InputSteps DEF TypeInvariant
  <2>2. CASE UserInput
    BY <1>t, <2>1, <2>2, InputKeeps
       DEF UserInput, TypeInvariant, ProcedureHasDeadline, Deadline,
           JoinedWhere, StackUp, Settled
  <2>3. QED
    BY <2>1, <2>2, ResetOK
<1>13. CASE UNCHANGED vars
  BY <1>13 DEF vars, TypeInvariant, ProcedureHasDeadline, JoinedWhere, StackUp,
               Settled
<1>14. QED
  BY <1>1, <1>2, <1>3, <1>4, <1>5, <1>6, <1>7, <1>8, <1>9, <1>10, <1>11,
     <1>12, <1>13 DEF Next

-----------------------------------------------------------------------------
(* The theorems.                                                           *)

\* Every run of the rejoin procedure keeps the invariant.
THEOREM Invariant == Spec => []IInv
BY InitOK, NextOK, PTL DEF Spec

\* The flags and the counts of pending alarms keep their types.
THEOREM TypeCorrect == Spec => []TypeInvariant
<1>1. IInv => TypeInvariant
  BY DEF IInv
<1>2. QED
  BY <1>1, Invariant, PTL

\* A running procedure always has its one 200 s deadline, and nothing else
\* has one, whatever fails, leaves, restarts or asks for a retry.
THEOREM DeadlineCorrect == Spec => []ProcedureHasDeadline
<1>1. IInv => ProcedureHasDeadline
  BY DEF IInv
<1>2. QED
  BY <1>1, Invariant, PTL

-----------------------------------------------------------------------------
(* One start at a time.  A queued start that would act is held back from a *)
(* second by the flag it set, which only the start itself clears: a wait   *)
(* begins only when no start is queued and no alarm of one is pending.     *)

Queued(s) ==
    /\ s.start_ED <= 1 /\ (s.start_ED = 1 => s.start_scheduled \/ ~s.wait)
    /\ s.rejoin_alarm <= 1 /\ (s.rejoin_alarm = 1 => ~s.wait)

LEMMA StartQueues ==
    ASSUME NEW s \in RejoinState, Queued(s)
    PROVE  /\ Queued(rejoin_the_network(s))
           /\ Queued(start_network_rejoin(s))
           /\ Queued(stop_network_rejoin(s, FALSE))
           /\ s.start_ED = 0 /\ s.rejoin_alarm = 0
                 => Queued(stop_network_rejoin(s, TRUE))
<1>1. Queued(rejoin_the_network(s))
  BY DEF RejoinState, Queued, rejoin_the_network
<1>2. Queued(start_network_rejoin(s))
  BY DEF RejoinState, Queued, start_network_rejoin
<1>3. /\ Queued(stop_network_rejoin(s, FALSE))
      /\ s.start_ED = 0 /\ s.rejoin_alarm = 0
            => Queued(stop_network_rejoin(s, TRUE))
  BY DEF RejoinState, Queued, stop_network_rejoin
<1>4. QED
  BY <1>1, <1>2, <1>3

LEMMA StartEDQueues ==
    ASSUME NEW s \in RejoinState, Deadline(s), Queued(s), s.start_ED = 0
    PROVE  Queued(start_network_rejoin_ED(s))
<1> DEFINE t == [s EXCEPT !.wait = FALSE]
           u == start_network_rejoin(t)
<1>1. /\ t \in RejoinState /\ Deadline(t) /\ t.start_ED = 0 /\ ~t.wait
      /\ s.wait => t.rejoin_alarm = 0
  <2>1. s.wait => s.rejoin_alarm = 0
    BY DEF RejoinState, Queued
  <2>2. QED
    BY <2>1 DEF RejoinState, Deadline
<1>2. /\ u \in RejoinState /\ u.start_ED = 0 /\ ~u.wait
      /\ s.wait => u.rejoin_alarm = 0
  <2> HIDE DEF t
  <2>1. u \in RejoinState
    BY <1>1, StartKeeps
  <2>2. /\ u.start_ED = t.start_ED /\ u.wait = t.wait
        /\ u.rejoin_alarm = t.rejoin_alarm
    BY <1>1 DEF start_network_rejoin, RejoinState
  <2>3. QED
    BY <1>1, <2>1, <2>2
<1>3. CASE joined \/ ~s.wait
  BY <1>3 DEF start_network_rejoin_ED, RejoinState, Queued
<1>4. CASE ~(joined \/ ~s.wait)
  <2>1. start_network_rejoin_ED(s)
           = [u EXCEPT !.rejoin_alarm = u.rejoin_alarm + 1,
                       !.start_scheduled = FALSE]
    BY <1>4 DEF start_network_rejoin_ED
  <2> HIDE DEF u
  <2>2. u.rejoin_alarm = 0
    BY <1>2, <1>4
  <2>3. LET v == start_network_rejoin_ED(s)
        IN  v.start_ED = 0 /\ v.rejoin_alarm = 1 /\ ~v.wait
    BY <1>2, <2>1, <2>2 DEF RejoinState
  <2>4. QED
    BY <2>3 DEF Queued
<1>5. QED
  BY <1>3, <1>4

LEMMA QueuedInvariant == Spec => []Queued(r)
<1>1. Init => Queued(r)
  BY DEF Init, RejoinInit, Queued
<1>2. ASSUME IInv, Queued(r), [Next]_vars
      PROVE  Queued(r)'
  <2> USE DEF Queued
  <2>t. r \in RejoinState /\ Queued(r) /\ r.start_ED \in Nat
    BY <1>2 DEF IInv, TypeInvariant, RejoinState
  <2>1. CASE StackStart
    <3> DEFINE s == [r EXCEPT !.initialised = TRUE]
    <3>1. s \in RejoinState /\ Queued(s) /\ r' = rejoin_the_network(s)
      BY <2>1, <2>t DEF StackStart, RejoinState
    <3> HIDE DEF s
    <3>2. QED
      BY <3>1, StartQueues
  <2>2. CASE SignalHandler
    <3> DEFINE f == [r EXCEPT !.join_signalled = FALSE]
               u == signal_case(r, bdb)
    <3>1. f \in RejoinState /\ Queued(f) /\ bdb \in Signal
      BY <2>2, <2>t DEF RejoinState, SignalHandler
    <3>2. /\ start_network_rejoin(r) \in RejoinState
          /\ start_network_rejoin(f) \in RejoinState
          /\ stop_network_rejoin(r, FALSE) \in RejoinState
      <4>1. Deadline(r) /\ Deadline(f) /\ r.stop_alarm \in {0, 1}
        BY <1>2, <2>t DEF IInv, ProcedureHasDeadline, Deadline, RejoinState
      <4> HIDE DEF f
      <4>2. QED
        BY <2>t, <3>1, <4>1, StartKeeps, StopKeeps
    <3>3. /\ Queued(start_network_rejoin(r)) /\ Queued(start_network_rejoin(f))
          /\ Queued(stop_network_rejoin(r, FALSE))
      <4> HIDE DEF f
      <4>1. QED
        BY <2>t, <3>1, StartQueues
    <3>4. ASSUME NEW v \in RejoinState, Queued(v)
          PROVE  /\ [v EXCEPT !.join_signalled = TRUE] \in RejoinState
                 /\ Queued([v EXCEPT !.join_signalled = TRUE])
      BY <3>4 DEF RejoinState
    <3>5. u \in RejoinState /\ Queued(u)
      <4> HIDE DEF Queued
      <4>1. CASE bdb \in {"reboot_ok", "steering_ok"}
        BY <3>2, <3>3, <3>4, <4>1 DEF signal_case
      <4>2. CASE bdb \in {"first_start", "reboot_failed", "steering_failed"}
        BY <3>2, <3>3, <3>4, <4>2 DEF signal_case
      <4>3. CASE bdb \in {"leave_rejoin", "leave_reset"}
        BY <3>2, <3>3, <4>3 DEF signal_case
      <4>4. QED
        BY <3>1, <4>1, <4>2, <4>3 DEF Signal, Outcome
    <3>6. r' = rejoin_the_network(u)
      BY <2>2 DEF SignalHandler
    <3> HIDE DEF u
    <3>7. QED
      BY <3>5, <3>6, StartQueues
  <2>3. CASE OtherSignal
    BY <2>3, <2>t, StartQueues DEF OtherSignal
  <2>4. CASE ParentLinkFailure \/ SystemReset
    BY <2>4 DEF ParentLinkFailure, SystemReset, Restart, Reset, RejoinInit
  <2>5. CASE start_network_steering
    BY <2>5, <2>t DEF start_network_steering, RejoinState
  <2>6. CASE RejoinTimeout
    <3> DEFINE s == [r EXCEPT !.stop_alarm = Less(r.stop_alarm)]
    <3>1. /\ s \in RejoinState /\ s.start_ED = 0 /\ s.rejoin_alarm = 0
          /\ r' = stop_network_rejoin(s, TRUE)
      BY <2>6, <2>t, CountTyped DEF RejoinTimeout, AlarmsRun, RejoinState
    <3> HIDE DEF s
    <3>2. Queued(s)
      BY <3>1
    <3>3. Queued(r')
      BY <3>1, <3>2, StartQueues, Zenon
    <3>4. QED
      BY <3>3
  <2>7. CASE RejoinAlarm
    <3> DEFINE s == [r EXCEPT !.rejoin_alarm = Less(r.rejoin_alarm)]
    <3>1. s \in RejoinState /\ Queued(s) /\ r' = rejoin_the_network(s)
      <4>1. Less(r.rejoin_alarm) = 0
        BY <2>7, <2>t, CountZero DEF RejoinAlarm, RejoinState
      <4>2. QED
        BY <2>7, <2>t, <4>1 DEF RejoinAlarm, RejoinState
    <3> HIDE DEF s
    <3>2. QED
      BY <3>1, StartQueues
  <2>8. CASE StartED
    <3> DEFINE s == [r EXCEPT !.start_ED = Less(r.start_ED)]
    <3>1. /\ s \in RejoinState /\ Deadline(s) /\ Queued(s) /\ s.start_ED = 0
          /\ r' = start_network_rejoin_ED(s)
      <4>1. r.start_ED = 1
        BY <2>8, <2>t DEF StartED
      <4>2. QED
        BY <1>2, <2>8, <2>t, <4>1, CountZero
           DEF StartED, RejoinState, IInv, ProcedureHasDeadline, Deadline
    <3> HIDE DEF s
    <3>2. QED
      BY <3>1, StartEDQueues
  <2>9. CASE PairingButton \/ battery_report_timer_handler
    <3>1. UserInput \/ Reset
      BY <2>9, InputSteps
    <3>2. CASE UserInput
      BY <2>t, <3>2, InputKeeps
    <3>3. CASE Reset
      BY <3>3 DEF Reset, RejoinInit
    <3>4. QED
      BY <3>1, <3>2, <3>3
  <2>10. CASE UNCHANGED r
    BY <2>10, <2>t
  <2>11. QED
    BY <1>2, <2>1, <2>2, <2>3, <2>4, <2>5, <2>6, <2>7, <2>8, <2>9, <2>10
       DEF Next, InitDone, SteeringDone, Leave, vars
<1>3. QED
  BY <1>1, <1>2, Invariant, PTL DEF Spec

-----------------------------------------------------------------------------
(* At most two attempts.  A procedure whose attempt is scheduled or under  *)
(* way schedules no other until it hears of a failure or is started again; *)
(* one attempt of its own and one that it does not know of make two, and   *)
(* there are two only while it holds the next one back.                    *)

Attempts(s, busy) ==
    /\ s.steering + busy <= 2
    /\ ~s.started \/ s.stop_requested \/ ~s.in_progress => s.steering + busy <= 1

Busy == IF Attempting THEN 1 ELSE 0

Waits(s) == s.wait => ~s.started \/ s.stop_requested

\* Where the stack has not attempted anything since it started or left.
Quiet == {"off", "init", "first_start", "reboot_failed", "reboot_ok",
          "leave_reset", "leave_rejoin"}

AInv ==
    /\ Attempts(r, Busy)
    /\ Waits(r)
    /\ joined /\ bdb = "idle" => r.steering = 0
    /\ bdb \in Quiet => ~r.started /\ ~r.wait /\ r.steering = 0

LEMMA RejoinAttempts ==
    ASSUME NEW s \in RejoinState, NEW busy \in {0, 1}, Attempts(s, busy), Waits(s)
    PROVE  LET t == rejoin_the_network(s)
           IN  /\ Attempts(t, busy) /\ Waits(t) /\ t.wait = s.wait
               /\ ~s.started => t = s
               /\ ~s.started \/ s.stop_requested => t.steering = s.steering
<1>1. CASE ~(s.initialised /\ s.started) \/ (~s.stop_requested /\ s.in_progress)
  BY <1>1 DEF RejoinState, rejoin_the_network
<1>2. CASE s.initialised /\ s.started /\ s.stop_requested
  <2>1. rejoin_the_network(s)
           = [s EXCEPT !.started = FALSE, !.stop_requested = FALSE]
    BY <1>2 DEF rejoin_the_network
  <2>2. QED
    BY <1>2, <2>1 DEF RejoinState, Attempts, Waits
<1>3. CASE s.initialised /\ s.started /\ ~s.stop_requested /\ ~s.in_progress
  <2> DEFINE next == IF s.attempt < LastBackoff THEN s.attempt + 1
                                                ELSE s.attempt
  <2>1. rejoin_the_network(s)
           = [s EXCEPT !.in_progress = TRUE,
                       !.steering = s.steering + 1, !.attempt = next]
    BY <1>3 DEF rejoin_the_network
  <2> HIDE DEF next
  <2>2. LET t == rejoin_the_network(s)
        IN  /\ t.started /\ ~t.stop_requested /\ t.in_progress
            /\ t.wait = s.wait /\ t.steering = s.steering + 1
    BY <1>3, <2>1 DEF RejoinState
  <2>3. s.steering + busy <= 1 /\ s.steering \in Nat /\ ~s.wait
    BY <1>3 DEF Attempts, Waits, RejoinState
  <2>4. QED
    BY <1>3, <2>2, <2>3 DEF Attempts, Waits
<1>4. QED
  BY <1>1, <1>2, <1>3

LEMMA StartAttempts ==
    ASSUME NEW s \in RejoinState, NEW busy \in {0, 1}, s.steering + busy <= 1,
           Waits(s)
    PROVE  LET u == start_network_rejoin(s)
           IN  Attempts(u, busy) /\ Waits(u) /\ u.wait = s.wait
<1>1. LET u == start_network_rejoin(s)
      IN  /\ u.steering = s.steering /\ u.wait = s.wait
          /\ u.wait => u = s
  BY DEF start_network_rejoin, RejoinState
<1>2. QED
  BY <1>1 DEF Attempts, Waits, RejoinState

LEMMA StopAttempts ==
    ASSUME NEW s \in RejoinState, NEW was_scheduled \in BOOLEAN,
           NEW busy \in {0, 1}, Attempts(s, busy)
    PROVE  LET u == stop_network_rejoin(s, was_scheduled)
           IN  /\ Attempts(u, busy) /\ Waits(u)
               /\ ~u.started \/ u.stop_requested
               /\ busy = 1 \/ s.steering = 0 => u.steering = 0
<1>0. s.steering \in Nat
  BY DEF RejoinState
<1>1. LET u == stop_network_rejoin(s, was_scheduled)
      IN  \/ ~s.started /\ ~u.started /\ u.steering = s.steering
          \/ s.steering > 0 /\ ~u.started /\ u.steering = Less(s.steering)
          \/ s.steering = 0 /\ u.stop_requested /\ u.steering = 0
  BY DEF stop_network_rejoin, RejoinState
<1>2. s.steering > 0 => Less(s.steering) = s.steering - 1
  BY <1>0 DEF Less
<1>3. QED
  BY <1>0, <1>1, <1>2 DEF Attempts, Waits

LEMMA SignalAttempts ==
    ASSUME IInv, AInv, SignalHandler
    PROVE  AInv'
<1> DEFINE u == signal_case(r, bdb)
           busy == IF bdb = "leave_rejoin" THEN 1 ELSE 0
<1>1. /\ r \in RejoinState /\ Deadline(r) /\ bdb \in Signal
      /\ joined => bdb \in {"reboot_ok", "steering_ok"}
      /\ bdb \in {"reboot_ok", "steering_ok"} => joined
      /\ Attempts(r, Busy) /\ Waits(r) /\ r.steering \in Nat
      /\ bdb \in Quiet => ~r.started /\ ~r.wait /\ r.steering = 0
  BY DEF IInv, TypeInvariant, ProcedureHasDeadline, Deadline, JoinedWhere, AInv,
         SignalHandler, Signal, Outcome, RejoinState
<1>2. /\ r' = rejoin_the_network(u) /\ joined' = joined
      /\ bdb' = IF bdb = "leave_rejoin" THEN "steering" ELSE "idle"
      /\ bdb' \notin Quiet /\ Busy' = busy /\ busy \in {0, 1}
  BY DEF SignalHandler, Quiet, Busy, Attempting
<1>3. CASE joined
  <2> DEFINE v == stop_network_rejoin(r, FALSE)
  <2>1. Busy = 1 \/ r.steering = 0
    BY <1>1, <1>3 DEF Busy, Attempting, Quiet
  <2>2. v \in RejoinState
    BY <1>1, StopKeeps DEF Deadline
  <2>3. /\ Attempts(v, Busy) /\ Waits(v) /\ v.steering = 0
        /\ ~v.started \/ v.stop_requested
    BY <1>1, <2>1, StopAttempts DEF Busy
  <2>4. u = [v EXCEPT !.join_signalled = TRUE]
    BY <1>1, <1>3 DEF signal_case
  <2> HIDE DEF u, v
  <2>5. /\ u \in RejoinState /\ Waits(u) /\ u.steering = 0
        /\ ~u.started \/ u.stop_requested
    BY <2>2, <2>3, <2>4 DEF RejoinState, Waits
  <2>6. Attempts(u, busy)
    BY <1>2, <2>5 DEF Attempts
  <2>7. Attempts(r', busy) /\ Waits(r') /\ r'.steering = 0
    BY <1>2, <2>5, <2>6, RejoinAttempts
  <2>8. QED
    BY <1>2, <2>7 DEF AInv, Attempts, Waits
<1>4. CASE ~joined
  <2>1. r.steering + busy <= 1
    <3>1. CASE bdb = "steering_failed"
      BY <1>1, <3>1 DEF Attempts, Busy, Attempting
    <3>2. CASE bdb # "steering_failed"
      BY <1>1, <1>4, <3>2 DEF Quiet, Signal, Outcome
    <3>3. QED
      BY <3>1, <3>2
  <2>2. u \in RejoinState /\ Attempts(u, busy) /\ Waits(u)
    <3> DEFINE f == [r EXCEPT !.join_signalled = FALSE]
               v == start_network_rejoin(r)
               w == start_network_rejoin(f)
    <3>1. /\ f \in RejoinState /\ Deadline(f) /\ Waits(f)
          /\ f.steering = r.steering
      BY <1>1 DEF RejoinState, Deadline, Waits
    <3>2. v \in RejoinState /\ Attempts(v, busy) /\ Waits(v)
      BY <1>1, <1>2, <2>1, StartKeeps, StartAttempts
    <3>3. w \in RejoinState /\ Attempts(w, busy) /\ Waits(w)
      <4> HIDE DEF f
      <4>1. QED
        BY <1>2, <2>1, <3>1, StartKeeps, StartAttempts
    <3>4. \/ u = [v EXCEPT !.join_signalled = TRUE]
          \/ u = v
          \/ u = w
      <4>1. bdb \in {"first_start", "reboot_failed", "steering_failed"}
               => u = [v EXCEPT !.join_signalled = TRUE]
        BY DEF signal_case
      <4>2. bdb = "leave_rejoin" => u = w
        BY DEF signal_case
      <4>3. bdb = "leave_reset" => u = v
        BY DEF signal_case
      <4> HIDE DEF u, v, w
      <4>4. QED
        BY <1>1, <1>4, <4>1, <4>2, <4>3 DEF Signal, Outcome
    <3> HIDE DEF u, v, w
    <3>5. LET x == [v EXCEPT !.join_signalled = TRUE]
          IN  /\ x \in RejoinState /\ x.started = v.started
              /\ x.stop_requested = v.stop_requested /\ x.wait = v.wait
              /\ x.in_progress = v.in_progress /\ x.steering = v.steering
      BY <3>2 DEF RejoinState
    <3>6. QED
      BY <3>2, <3>3, <3>4, <3>5 DEF Attempts, Waits
  <2> HIDE DEF u
  <2>3. Attempts(r', busy) /\ Waits(r')
    BY <1>2, <2>2, RejoinAttempts
  <2>4. QED
    BY <1>2, <1>4, <2>3 DEF AInv, Attempts, Waits
<1>5. QED
  BY <1>3, <1>4

LEMMA AttemptsStep ==
    ASSUME IInv, AInv, [Next]_vars
    PROVE  AInv'
<1>t. /\ r \in RejoinState /\ Attempts(r, Busy) /\ Waits(r) /\ Busy \in {0, 1}
      /\ r.steering \in Nat /\ Deadline(r)
      /\ joined /\ bdb = "idle" => r.steering = 0 /\ ~r.started /\ ~r.wait
      /\ bdb \in Quiet => ~r.started /\ ~r.wait /\ r.steering = 0
  BY DEF IInv, TypeInvariant, AInv, Busy, RejoinState, Settled,
         ProcedureHasDeadline, Deadline
\* The stack rests where it was and the firmware keeps what counts here.
<1>k. ASSUME bdb' = bdb, joined' = joined, r'.steering = r.steering,
             r'.started = r.started, r'.stop_requested = r.stop_requested,
             r'.in_progress = r.in_progress, r'.wait = r.wait
      PROVE  AInv'
  BY <1>k, <1>t DEF AInv, Attempts, Waits, Busy, Attempting
\* rejoin_the_network, in the state s that a handler has made of r.
<1>r. ASSUME bdb' = bdb, joined' = joined, NEW s \in RejoinState,
             s.steering = r.steering, s.started = r.started,
             s.stop_requested = r.stop_requested,
             s.in_progress = r.in_progress, s.wait = r.wait,
             r' = rejoin_the_network(s)
      PROVE  AInv'
  <2>1. Attempts(s, Busy) /\ Waits(s)
    BY <1>r, <1>t DEF Attempts, Waits
  <2>2. /\ Attempts(r', Busy) /\ Waits(r')
        /\ ~r.started => r' = s
    BY <1>r, <1>t, <2>1, RejoinAttempts
  <2>3. Busy' = Busy
    BY <1>r DEF Busy, Attempting
  <2>4. QED
    BY <1>r, <1>t, <2>2, <2>3 DEF AInv, Attempts, Waits
<1>1. CASE StackStart
  <2> DEFINE s == [r EXCEPT !.initialised = TRUE]
  <2>1. /\ s \in RejoinState /\ s.steering = 0 /\ ~s.started /\ ~s.wait
        /\ r' = rejoin_the_network(s) /\ bdb' = "init"
    BY <1>1, <1>t DEF StackStart, RejoinState, Quiet
  <2> HIDE DEF s
  <2>2. r' = s
    BY <2>1 DEF rejoin_the_network
  <2>3. QED
    BY <2>1, <2>2 DEF AInv, Attempts, Waits, Busy, Attempting
<1>2. CASE InitDone
  BY <1>2, <1>t DEF InitDone, AInv, Attempts, Waits, Busy, Attempting, Quiet
<1>3. CASE SteeringDone
  BY <1>3, <1>t DEF SteeringDone, AInv, Attempts, Waits, Busy, Attempting, Quiet
<1>4. CASE Leave
  <2>1. bdb = "idle" /\ joined /\ bdb' \in {"leave_reset", "leave_rejoin"} /\ r' = r
    BY <1>4 DEF Leave
  <2>2. QED
    BY <1>t, <2>1 DEF AInv, Attempts, Waits, Busy, Attempting
<1>5. CASE SignalHandler
  BY <1>5, SignalAttempts
<1>6. CASE OtherSignal
  BY <1>6, <1>t, <1>r DEF OtherSignal
<1>7. CASE Reset
  BY <1>7 DEF Reset, RejoinInit, AInv, Attempts, Waits, Busy, Attempting
<1>8. CASE start_network_steering
  <2>1. /\ r'.steering = r.steering - 1 /\ r.steering > 0
        /\ r'.started = r.started /\ r'.stop_requested = r.stop_requested
        /\ r'.in_progress = r.in_progress /\ r'.wait = r.wait
    BY <1>8, <1>t DEF start_network_steering, RejoinState, Less
  <2>2. /\ bdb \notin Quiet
        /\ \/ bdb = "idle" /\ bdb' = "steering"
           \/ bdb # "idle" /\ bdb' = bdb
    BY <1>8, <1>t, <2>1 DEF start_network_steering
  <2>3. r'.steering + Busy' <= r.steering + Busy /\ bdb' \notin Quiet
    BY <1>t, <2>1, <2>2 DEF Busy, Attempting, Quiet
  <2>4. Busy' \in {0, 1}
    BY DEF Busy
  <2>5. QED
    BY <1>t, <2>1, <2>2, <2>3, <2>4 DEF AInv, Attempts, Waits
<1>9. CASE RejoinTimeout
  <2> DEFINE s == [r EXCEPT !.stop_alarm = Less(r.stop_alarm)]
  <2>1. /\ r' = stop_network_rejoin(s, TRUE) /\ bdb' = bdb /\ joined' = joined
    BY <1>9 DEF RejoinTimeout
  <2>2. s \in RejoinState /\ Attempts(s, Busy)
    BY <1>t, CountTyped DEF RejoinState, Attempts
  <2>3. r.started
    BY <1>9, <1>t DEF RejoinTimeout, Deadline, RejoinState
  <2> HIDE DEF s
  <2>4. Attempts(r', Busy) /\ Waits(r')
    BY <1>t, <2>1, <2>2, StopAttempts
  <2>5. Busy' = Busy
    BY <2>1 DEF Busy, Attempting
  <2>6. QED
    BY <1>t, <2>1, <2>3, <2>4, <2>5 DEF AInv, Attempts, Waits
<1>10. CASE RejoinAlarm
  <2> DEFINE s == [r EXCEPT !.rejoin_alarm = Less(r.rejoin_alarm)]
  <2>1. /\ s \in RejoinState /\ s.steering = r.steering /\ s.started = r.started
        /\ s.stop_requested = r.stop_requested
        /\ s.in_progress = r.in_progress /\ s.wait = r.wait
    BY <1>t, CountTyped DEF RejoinState
  <2>2. r' = rejoin_the_network(s) /\ bdb' = bdb /\ joined' = joined
    BY <1>10 DEF RejoinAlarm
  <2> HIDE DEF s
  <2>3. QED
    BY <1>r, <2>1, <2>2
<1>11. CASE StartED
  <2> DEFINE s == [r EXCEPT !.start_ED = Less(r.start_ED)]
             t == [s EXCEPT !.wait = FALSE]
             v == start_network_rejoin(t)
  <2>1. r' = start_network_rejoin_ED(s) /\ bdb' = bdb /\ joined' = joined
    BY <1>11 DEF StartED
  <2>2. /\ s \in RejoinState /\ s.steering = r.steering /\ s.started = r.started
        /\ s.stop_requested = r.stop_requested /\ Deadline(s)
        /\ s.in_progress = r.in_progress /\ s.wait = r.wait
    BY <1>t, CountTyped DEF RejoinState, Deadline
  <2> HIDE DEF s
  <2>3. CASE joined \/ ~r.wait
    <3>1. r' = [s EXCEPT !.start_scheduled = FALSE]
      BY <2>1, <2>2, <2>3 DEF start_network_rejoin_ED
    <3>2. /\ r'.steering = r.steering /\ r'.started = r.started
          /\ r'.stop_requested = r.stop_requested
          /\ r'.in_progress = r.in_progress /\ r'.wait = r.wait
      BY <2>2, <3>1 DEF RejoinState
    <3>3. QED
      BY <1>k, <2>1, <3>2
  <2>4. CASE ~joined /\ r.wait
    <3>1. /\ t \in RejoinState /\ Deadline(t) /\ Waits(t) /\ ~t.wait
          /\ t.steering + Busy <= 1
      BY <1>t, <2>2, <2>4 DEF RejoinState, Deadline, Attempts, Waits
    <3>2. r' = [v EXCEPT !.rejoin_alarm = v.rejoin_alarm + 1,
                         !.start_scheduled = FALSE]
      BY <2>1, <2>2, <2>4 DEF start_network_rejoin_ED
    <3> HIDE DEF t
    <3>3. v \in RejoinState /\ Attempts(v, Busy) /\ Waits(v)
      BY <1>t, <3>1, StartKeeps, StartAttempts
    <3> HIDE DEF v
    <3>4. Attempts(r', Busy) /\ Waits(r')
      BY <3>2, <3>3 DEF RejoinState, Attempts, Waits
    <3>5. Busy' = Busy
      BY <2>1 DEF Busy, Attempting
    <3>6. QED
      BY <1>t, <2>1, <2>4, <3>4, <3>5 DEF AInv, Attempts, Waits
  <2>5. QED
    BY <2>3, <2>4
<1>12. CASE UserInput
  BY <1>12, <1>k, <1>t, InputKeeps DEF UserInput
<1>13. CASE UNCHANGED vars
  BY <1>13, <1>k DEF vars
<1>14. QED
  BY <1>1, <1>2, <1>3, <1>4, <1>5, <1>6, <1>7, <1>8, <1>9, <1>10, <1>11, <1>12,
     <1>13, InputSteps DEF Next, ParentLinkFailure, SystemReset, Restart

LEMMA AttemptsInvariant == Spec => []AInv
<1>1. Init => AInv
  BY DEF Init, RejoinInit, AInv, Attempts, Waits, Busy, Attempting
<1>2. IInv /\ AInv /\ [Next]_vars => AInv'
  BY AttemptsStep
<1>3. QED
  BY <1>1, <1>2, Invariant, PTL DEF Spec

\* However often the button is pressed and the battery reported, at most one
\* start is queued, it holds back the next, and at most one has its alarm to
\* come; there are never more than two attempts, scheduled or under way.
THEOREM RetriesCorrect == Spec => []RetriesDoNotPileUp
<1>1. IInv /\ Queued(r) /\ AInv => RetriesDoNotPileUp
  BY DEF IInv, TypeInvariant, RejoinState, Queued, AInv, Attempts, Busy,
         RetriesDoNotPileUp
<1>2. QED
  BY <1>1, Invariant, QueuedInvariant, AttemptsInvariant, PTL

\* A device that has heard that it joined has no procedure and no attempt left,
\* does not wait for input and cannot be reset by a parent link failure.
THEOREM SettledCorrect == Spec => []JoinedIsSettled
<1>1. IInv /\ AInv => JoinedIsSettled
  BY DEF IInv, Settled, AInv, JoinedIsSettled
<1>2. QED
  BY <1>1, Invariant, AttemptsInvariant, PTL

-----------------------------------------------------------------------------
(* Stranded in one way only.  At rest and off the network an attempt in    *)
(* progress is scheduled, and every handler ends in rejoin_the_network,    *)
(* which schedules one for a procedure that runs on: what is left to       *)
(* strand the device is a procedure that ends there without a wait.        *)

\* An attempt in progress is scheduled.
Scheduled(s) ==
    s.started /\ ~s.stop_requested /\ s.in_progress => s.steering > 0

MInv == ~joined /\ bdb = "idle" => Scheduled(r)

\* What rejoin_the_network leaves at rest.
LEMMA RejoinSchedules ==
    ASSUME NEW s \in RejoinState, s.initialised, Scheduled(s)
    PROVE  LET t == rejoin_the_network(s)
           IN  /\ Scheduled(t)
               /\ s.started /\ ~s.stop_requested => t.steering > 0
               /\ ~s.started => t = s
               /\ t.wait = s.wait
<1>1. CASE ~s.started
  BY <1>1 DEF rejoin_the_network
<1>2. CASE s.started /\ s.stop_requested
  <2>1. rejoin_the_network(s)
           = [s EXCEPT !.started = FALSE, !.stop_requested = FALSE]
    BY <1>2 DEF rejoin_the_network
  <2>2. QED
    BY <1>2, <2>1 DEF RejoinState, Scheduled
<1>3. CASE s.started /\ ~s.stop_requested /\ s.in_progress
  BY <1>3 DEF Scheduled, rejoin_the_network
<1>4. CASE s.started /\ ~s.stop_requested /\ ~s.in_progress
  <2> DEFINE next == IF s.attempt < LastBackoff THEN s.attempt + 1
                                                ELSE s.attempt
             t == [s EXCEPT !.in_progress = TRUE,
                            !.steering = s.steering + 1, !.attempt = next]
  <2>1. rejoin_the_network(s) = t
    BY <1>4 DEF rejoin_the_network
  <2> HIDE DEF next
  <2>2. t.steering > 0 /\ t.wait = s.wait
    BY DEF RejoinState
  <2> HIDE DEF t
  <2>3. QED
    BY <1>4, <2>1, <2>2 DEF Scheduled
<1>5. QED
  BY <1>1, <1>2, <1>3, <1>4

\* A signal that leaves the device off its network at rest: a failure, or a
\* leave for good.  It starts a procedure unless the device waits.
LEMMA SignalSchedules ==
    ASSUME IInv, Waits(r), SignalHandler, ~joined, bdb' = "idle"
    PROVE  /\ Scheduled(r')
           /\ \/ r'.steering > 0 \/ r'.wait
              \/ Phase(r) = "stopping" /\ ~r.wait
<1> DEFINE u == start_network_rejoin(r)
           s == signal_case(r, bdb)
<1>t. /\ r \in RejoinState /\ Deadline(r) /\ r.initialised
      /\ bdb \in {"first_start", "reboot_failed", "steering_failed",
                  "leave_reset"}
      /\ r' = rejoin_the_network(s)
  BY DEF IInv, TypeInvariant, ProcedureHasDeadline, Deadline, StackUp,
         JoinedWhere, SignalHandler, Signal, Outcome
<1>1. u \in RejoinState /\ u.initialised
  BY <1>t, StartKeeps
<1>2. /\ Scheduled(u)
      /\ \/ u.started /\ ~u.stop_requested
         \/ u.wait
         \/ Phase(r) = "stopping" /\ ~r.wait
  <2>1. CASE r.wait
    BY <2>1 DEF start_network_rejoin, Waits, Scheduled
  <2>2. CASE ~r.wait /\ r.started
    <3>1. u = [r EXCEPT !.in_progress = FALSE]
      BY <1>t, <2>2 DEF start_network_rejoin
    <3>2. /\ u.started /\ ~u.in_progress
          /\ u.stop_requested = r.stop_requested
      BY <1>t, <2>2, <3>1 DEF RejoinState
    <3> HIDE DEF u
    <3>3. QED
      BY <2>2, <3>2 DEF Scheduled, Phase
  <2>3. CASE ~r.wait /\ ~r.started
    <3>1. u.started /\ ~u.stop_requested /\ ~u.in_progress
      BY <1>t, <2>3 DEF start_network_rejoin, RejoinState
    <3>2. QED
      BY <3>1 DEF Scheduled
  <2>4. QED
    BY <2>1, <2>2, <2>3
<1>3. /\ s \in RejoinState /\ s.initialised /\ s.started = u.started
      /\ s.stop_requested = u.stop_requested /\ s.wait = u.wait
      /\ s.in_progress = u.in_progress /\ s.steering = u.steering
  <2>1. s = u \/ s = [u EXCEPT !.join_signalled = TRUE]
    BY <1>t DEF signal_case
  <2> HIDE DEF u, s
  <2>2. QED
    BY <1>1, <2>1 DEF RejoinState
<1> HIDE DEF u, s
<1>4. Scheduled(s)
  BY <1>2, <1>3 DEF Scheduled
<1>5. QED
  BY <1>t, <1>2, <1>3, <1>4, RejoinSchedules

LEMMA StrandedStep ==
    ASSUME IInv, AInv, MInv, [Next]_vars
    PROVE  /\ MInv'
           /\ Stranded' /\ ~Stranded => Phase(r) = "stopping" /\ ~r.wait
<1> DEFINE Goal == /\ MInv'
                   /\ Stranded' /\ ~Stranded
                         => Phase(r) = "stopping" /\ ~r.wait
<1>t. /\ r \in RejoinState /\ Waits(r) /\ Deadline(r)
      /\ bdb # "off" => r.initialised
      /\ ~joined /\ bdb = "idle" => Scheduled(r)
  BY DEF IInv, TypeInvariant, StackUp, AInv, MInv, ProcedureHasDeadline,
         Deadline
<1>q. ASSUME joined' \/ bdb' # "idle"
      PROVE  Goal
  BY <1>q DEF MInv, Stranded
\* rejoin_the_network, in the state s that a handler has made of r.
<1>r. ASSUME NEW s \in RejoinState, UNCHANGED <<bdb, joined>>,
             s.initialised = r.initialised, s.started = r.started,
             s.stop_requested = r.stop_requested, s.wait = r.wait,
             s.in_progress = r.in_progress, s.steering = r.steering,
             r' = rejoin_the_network(s)
      PROVE  Goal
  <2>1. CASE joined \/ bdb # "idle"
    BY <1>q, <1>r, <2>1
  <2>2. CASE ~joined /\ bdb = "idle"
    <3>1. Scheduled(s) /\ s.initialised
      BY <1>r, <1>t, <2>2 DEF Scheduled
    <3>2. /\ Scheduled(r') /\ r'.wait = r.wait
          /\ r.started /\ ~r.stop_requested => r'.steering > 0
          /\ ~r.started => r' = s
      BY <1>r, <3>1, RejoinSchedules
    <3>3. QED
      BY <1>r, <2>2, <3>2 DEF MInv, Stranded, Phase
  <2>3. QED
    BY <2>1, <2>2
\* Nothing changes but the queue of starts.
<1>k. ASSUME UNCHANGED <<bdb, joined>>, r'.started = r.started,
             r'.stop_requested = r.stop_requested, r'.wait = r.wait,
             r'.in_progress = r.in_progress, r'.steering = r.steering,
             r'.rejoin_alarm = r.rejoin_alarm
      PROVE  Goal
  BY <1>k DEF MInv, Stranded, Scheduled
<1>1. CASE StackStart \/ InitDone \/ SteeringDone \/ Leave \/ Reset
  BY <1>1, <1>q DEF StackStart, InitDone, SteeringDone, Leave, Reset
<1>2. CASE SignalHandler
  <2>1. CASE joined \/ bdb' # "idle"
    BY <1>2, <1>q, <2>1 DEF SignalHandler
  <2>2. CASE ~joined /\ bdb' = "idle"
    BY <1>2, <1>t, <2>2, SignalSchedules DEF MInv, Stranded
  <2>3. QED
    BY <2>1, <2>2
<1>3. CASE OtherSignal
  BY <1>3, <1>t, <1>r DEF OtherSignal
<1>4. CASE start_network_steering
  BY <1>4, <1>q DEF start_network_steering
<1>5. CASE RejoinTimeout
  <2> DEFINE s == [r EXCEPT !.stop_alarm = Less(r.stop_alarm)]
  <2>1. r' = stop_network_rejoin(s, TRUE) /\ r.stop_alarm > 0
    BY <1>5 DEF RejoinTimeout
  <2>2. s \in RejoinState /\ s.stop_alarm \in {0, 1}
    BY <1>t, CountTyped, CountZero DEF RejoinState, Deadline
  <2> HIDE DEF s
  <2>3. r'.wait /\ (~r'.started \/ r'.stop_requested)
    BY <2>1, <2>2, StopKeeps
  <2>4. QED
    BY <2>3 DEF MInv, Stranded, Scheduled
<1>6. CASE RejoinAlarm
  <2> DEFINE s == [r EXCEPT !.rejoin_alarm = Less(r.rejoin_alarm)]
  <2>1. /\ s \in RejoinState /\ r' = rejoin_the_network(s)
        /\ s.initialised = r.initialised /\ s.started = r.started
        /\ s.stop_requested = r.stop_requested /\ s.wait = r.wait
        /\ s.in_progress = r.in_progress /\ s.steering = r.steering
        /\ UNCHANGED <<bdb, joined>>
    BY <1>6, <1>t, CountTyped DEF RejoinAlarm, RejoinState
  <2> HIDE DEF s
  <2>2. QED
    BY <1>r, <2>1
<1>7. CASE StartED
  <2> DEFINE s == [r EXCEPT !.start_ED = Less(r.start_ED)]
             f == [s EXCEPT !.wait = FALSE]
             u == start_network_rejoin(f)
  <2>1. /\ s \in RejoinState /\ s.started = r.started
        /\ s.stop_requested = r.stop_requested /\ s.wait = r.wait
        /\ s.in_progress = r.in_progress /\ s.steering = r.steering
        /\ s.rejoin_alarm = r.rejoin_alarm /\ s.initialised = r.initialised
        /\ r' = start_network_rejoin_ED(s) /\ UNCHANGED <<bdb, joined>>
    BY <1>7, <1>t, CountTyped DEF StartED, RejoinState
  <2> HIDE DEF s
  <2>2. CASE joined \/ ~r.wait
    <3>1. r' = [s EXCEPT !.start_scheduled = FALSE]
      BY <2>1, <2>2 DEF start_network_rejoin_ED
    <3>2. QED
      BY <1>k, <2>1, <3>1 DEF RejoinState
  <2>3. CASE ~joined /\ r.wait /\ bdb = "idle"
    <3>1. r' = [u EXCEPT !.rejoin_alarm = u.rejoin_alarm + 1,
                         !.start_scheduled = FALSE]
      BY <2>1, <2>3 DEF start_network_rejoin_ED
    <3>2. u.started /\ ~u.in_progress /\ u.rejoin_alarm = r.rejoin_alarm
      <4>1. /\ f \in RejoinState /\ f.initialised /\ ~f.wait
            /\ f.rejoin_alarm = r.rejoin_alarm
        BY <1>t, <2>1, <2>3 DEF RejoinState
      <4> HIDE DEF f
      <4>2. QED
        BY <2>3, <4>1 DEF start_network_rejoin, RejoinState
    <3>3. u \in RejoinState
      <4>1. f \in RejoinState /\ Deadline(f)
        BY <1>t, <1>7, <2>1 DEF StartED, RejoinState, Deadline, s
      <4> HIDE DEF f
      <4>2. QED
        BY <4>1, StartKeeps
    <3> HIDE DEF u
    <3>4. r'.started /\ ~r'.in_progress /\ r'.rejoin_alarm > 0
      BY <3>1, <3>2, <3>3 DEF RejoinState
    <3>5. QED
      BY <3>4 DEF MInv, Stranded, Scheduled
  <2>4. QED
    BY <1>q, <2>1, <2>2, <2>3
<1>8. CASE UserInput
  BY <1>8, <1>k, <1>t, InputKeeps DEF UserInput
<1>9. CASE UNCHANGED vars
  BY <1>9, <1>k DEF vars
<1>10. QED
  BY <1>1, <1>2, <1>3, <1>4, <1>5, <1>6, <1>7, <1>8, <1>9, InputSteps
     DEF Next, ParentLinkFailure, SystemReset, Restart

\* Whenever input comes, and however many leaves, failures, timeouts and
\* restarts there are: a device is stranded off its network only by a search
\* that was given up and has lost its wait to input.
THEOREM StrandedCorrect == Spec => StrandedOnlyByInput
<1>1. Init => MInv
  BY DEF Init, MInv
<1>2. IInv /\ AInv /\ MInv /\ [Next]_vars
         => /\ MInv'
            /\ [Stranded' /\ ~Stranded => Phase(r) = "stopping" /\ ~r.wait]_vars
  BY StrandedStep
<1>3. QED
  BY <1>1, <1>2, Invariant, AttemptsInvariant, PTL DEF Spec, StrandedOnlyByInput

-----------------------------------------------------------------------------
(* Why no search is dropped where user input comes between attempts, for   *)
(* the refinement below.  A stop that is only requested has left the wait  *)
(* for user input behind it, and every handler ends in rejoin_the_network, *)
(* which completes it.                                                     *)

\* The flags agree: a requested stop belongs to a procedure and comes from the
\* 200 s alarm or a join; a procedure that runs on does not wait for input.
Agree(s) ==
    /\ s.stop_requested => s.started /\ (joined \/ s.wait)
    /\ s.started /\ ~s.stop_requested => ~s.wait

\* What holds of the flags when the device rests off its network.
Resting(s) ==
    /\ ~s.stop_requested
    /\ s.started \/ s.wait
    /\ Scheduled(s)
    /\ s.steering > 0 \/ s.rejoin_alarm > 0 \/ s.wait

NInv ==
    /\ Agree(r)
    /\ r.start_ED > 0 => bdb = "idle"
    /\ ~joined /\ bdb = "idle" => Resting(r)

LEMMA RejoinSteps ==
    ASSUME NEW s \in RejoinState, Agree(s), s.initialised
    PROVE  LET t == rejoin_the_network(s)
           IN  /\ Agree(t)
               /\ t.start_ED = s.start_ED
               /\ ~joined /\ (s.started \/ s.wait) /\ Scheduled(s)
                     => Resting(t)
<1>1. CASE ~s.started
  BY <1>1 DEF RejoinState, Agree, Scheduled, Resting, rejoin_the_network
<1>2. CASE s.started /\ s.stop_requested
  <2>1. rejoin_the_network(s)
           = [s EXCEPT !.started = FALSE, !.stop_requested = FALSE]
    BY <1>2 DEF rejoin_the_network
  <2>2. QED
    BY <1>2, <2>1 DEF RejoinState, Agree, Scheduled, Resting
<1>3. CASE s.started /\ ~s.stop_requested /\ s.in_progress
  BY <1>3 DEF RejoinState, Agree, Scheduled, Resting, rejoin_the_network
<1>4. CASE s.started /\ ~s.stop_requested /\ ~s.in_progress
  <2> DEFINE next == IF s.attempt < LastBackoff THEN s.attempt + 1
                                                ELSE s.attempt
             t == [s EXCEPT !.in_progress = TRUE,
                            !.steering = s.steering + 1, !.attempt = next]
  <2>1. rejoin_the_network(s) = t
    BY <1>4 DEF rejoin_the_network
  <2>2. s.steering + 1 > 0
    BY DEF RejoinState
  <2> HIDE DEF next
  <2>3. /\ t.started = s.started /\ t.stop_requested = s.stop_requested
        /\ t.wait = s.wait /\ t.start_ED = s.start_ED /\ t.steering > 0
    BY <2>2 DEF RejoinState
  <2> HIDE DEF t
  <2>4. QED
    BY <1>4, <2>1, <2>3 DEF Agree, Scheduled, Resting
<1>5. QED
  BY <1>1, <1>2, <1>3, <1>4

\* A signal other than success, on a device off its network.
LEMMA StartSteps ==
    ASSUME NEW s \in RejoinState, Agree(s), s.initialised, ~joined
    PROVE  LET u == start_network_rejoin(s)
           IN  /\ Agree(u) /\ Scheduled(u)
               /\ u.started \/ u.wait
               /\ u.start_ED = s.start_ED
<1> DEFINE fresh == [s EXCEPT !.started = TRUE, !.stop_requested = FALSE,
                              !.in_progress = FALSE, !.attempt = 0,
                              !.start_scheduled = FALSE,
                              !.stop_alarm = s.stop_alarm + 1]
<1>1. CASE s.wait
  BY <1>1 DEF RejoinState, Agree, Scheduled, start_network_rejoin
<1>2. CASE ~s.wait /\ s.started
  <2>1. start_network_rejoin(s) = [s EXCEPT !.in_progress = FALSE]
    BY <1>2 DEF start_network_rejoin
  <2>2. QED
    BY <1>2, <2>1 DEF RejoinState, Agree, Scheduled
<1>3. CASE ~s.wait /\ ~s.started
  <2>1. start_network_rejoin(s) = fresh
    BY <1>3 DEF start_network_rejoin
  <2>2. /\ fresh.started /\ ~fresh.stop_requested /\ ~fresh.in_progress
        /\ ~fresh.wait /\ fresh.start_ED = s.start_ED
    BY <1>3 DEF RejoinState
  <2> HIDE DEF fresh
  <2>3. QED
    BY <2>1, <2>2 DEF Agree, Scheduled
<1>4. QED
  BY <1>1, <1>2, <1>3 DEF RejoinState

LEMMA SignalSteps ==
    ASSUME IInv, NInv, SignalHandler
    PROVE  NInv'
<1>1. /\ r \in RejoinState /\ Deadline(r) /\ Agree(r) /\ r.initialised
      /\ r.start_ED = 0 /\ bdb \in Signal
      /\ joined => bdb \in {"reboot_ok", "steering_ok"}
      /\ bdb \in {"reboot_ok", "steering_ok"} => joined
  BY DEF IInv, TypeInvariant, ProcedureHasDeadline, Deadline, StackUp,
         JoinedWhere, NInv, SignalHandler, Signal, Outcome, RejoinState
<1> DEFINE u == signal_case(r, bdb)
<1>2. /\ r' = rejoin_the_network(u) /\ joined' = joined
      /\ \/ bdb' = "idle"
         \/ bdb = "leave_rejoin" /\ bdb' = "steering"
  BY DEF SignalHandler
<1>3. CASE joined
  <2> DEFINE v == stop_network_rejoin(r, FALSE)
  <2>1. v \in RejoinState /\ v.initialised /\ v.wait = FALSE
    BY <1>1, StopKeeps DEF Deadline
  <2>2. /\ v.start_ED = 0
        /\ v.stop_requested => v.started
    BY <1>1 DEF stop_network_rejoin, RejoinState, Agree
  <2>3. u = [v EXCEPT !.join_signalled = TRUE]
    BY <1>1, <1>3 DEF signal_case
  <2> HIDE DEF v, u
  <2>4. u \in RejoinState /\ Agree(u) /\ u.initialised /\ u.start_ED = 0
    BY <1>3, <2>1, <2>2, <2>3 DEF RejoinState, Agree
  <2>5. Agree(r') /\ r'.start_ED = 0
    BY <1>2, <2>4, RejoinSteps
  <2>6. Agree(r)'
    BY <1>2, <2>5 DEF Agree
  <2>7. QED
    BY <1>2, <1>3, <2>5, <2>6 DEF NInv
<1>4. CASE ~joined
  <2>1. /\ u \in RejoinState /\ Agree(u) /\ u.initialised /\ u.start_ED = 0
        /\ Scheduled(u) /\ (u.started \/ u.wait)
    <3>1. CASE bdb \in {"first_start", "reboot_failed", "steering_failed"}
      <4> DEFINE v == start_network_rejoin(r)
      <4>1. /\ v \in RejoinState /\ v.initialised /\ Agree(v) /\ Scheduled(v)
            /\ v.started \/ v.wait
            /\ v.start_ED = 0
        BY <1>1, <1>4, StartKeeps, StartSteps
      <4>2. u = [v EXCEPT !.join_signalled = TRUE]
        BY <3>1 DEF signal_case
      <4> HIDE DEF v, u
      <4>3. QED
        BY <4>1, <4>2 DEF RejoinState, Agree, Scheduled
    <3>2. CASE bdb = "leave_rejoin"
      <4> DEFINE f == [r EXCEPT !.join_signalled = FALSE]
      <4>1. /\ f \in RejoinState /\ Deadline(f) /\ Agree(f) /\ f.initialised
            /\ f.start_ED = 0
        BY <1>1 DEF RejoinState, Deadline, Agree
      <4>2. u = start_network_rejoin(f)
        BY <3>2 DEF signal_case
      <4> HIDE DEF f, u
      <4>3. QED
        BY <1>4, <4>1, <4>2, StartKeeps, StartSteps
    <3>3. CASE bdb = "leave_reset"
      <4>1. u = start_network_rejoin(r)
        BY <3>3 DEF signal_case
      <4> HIDE DEF u
      <4>2. QED
        BY <1>1, <1>4, <4>1, StartKeeps, StartSteps
    <3>4. QED
      BY <1>1, <1>4, <3>1, <3>2, <3>3 DEF Signal, Outcome
  <2> HIDE DEF u
  <2>2. Agree(r') /\ r'.start_ED = 0 /\ Resting(r')
    BY <1>2, <1>4, <2>1, RejoinSteps
  <2>3. Agree(r)' /\ Resting(r)'
    BY <1>2, <2>2 DEF Agree, Resting, Scheduled
  <2>4. QED
    BY <1>2, <2>2, <2>3 DEF NInv
<1>5. QED
  BY <1>3, <1>4

LEMMA TimeoutSteps ==
    ASSUME IInv, NInv, RejoinTimeout
    PROVE  NInv'
<1> DEFINE s == [r EXCEPT !.stop_alarm = Less(r.stop_alarm)]
<1>1. /\ r \in RejoinState /\ r.started /\ ~r.stop_requested /\ ~r.wait
      /\ r.start_ED = 0 /\ r.rejoin_alarm = 0
      /\ ~joined /\ bdb = "idle" => r.steering > 0
  <2>1. r \in RejoinState /\ r.stop_alarm > 0
        /\ r.start_ED = 0 /\ r.rejoin_alarm = 0
    BY DEF IInv, TypeInvariant, RejoinTimeout, AlarmsRun
  <2>2. r.started /\ ~r.stop_requested
    BY <2>1 DEF IInv, ProcedureHasDeadline, RejoinState
  <2>3. ~r.wait
    BY <2>2 DEF NInv, Agree
  <2>4. ~joined /\ bdb = "idle" => r.steering > 0
    BY <2>1, <2>3 DEF NInv, Resting
  <2>5. QED
    BY <2>1, <2>2, <2>3, <2>4
<1>2. /\ s \in RejoinState /\ s.started /\ s.start_ED = 0
      /\ s.steering = r.steering
  BY <1>1, CountTyped DEF RejoinState
<1>3. r' = stop_network_rejoin(s, TRUE) /\ bdb' = bdb /\ joined' = joined
  BY DEF RejoinTimeout
<1> HIDE DEF s
<1>4. /\ r'.wait = TRUE /\ r'.start_ED = 0
      /\ r'.stop_requested => r'.started
      /\ r'.started => r'.stop_requested
      /\ s.steering > 0 => ~r'.stop_requested
  BY <1>2, <1>3 DEF stop_network_rejoin, RejoinState
<1>5. QED
  BY <1>1, <1>2, <1>3, <1>4 DEF NInv, Agree, Resting, Scheduled

LEMMA StartEDSteps ==
    ASSUME IInv, NInv, StartED
    PROVE  NInv'
<1> DEFINE s == [r EXCEPT !.start_ED = Less(r.start_ED)]
           t == [s EXCEPT !.wait = FALSE]
           u == start_network_rejoin(t)
<1>1. /\ r \in RejoinState /\ Agree(r) /\ bdb = "idle" /\ r.initialised
      /\ ~joined => Resting(r)
      /\ Deadline(r)
  BY DEF IInv, TypeInvariant, StackUp, NInv, StartED, RejoinState,
         ProcedureHasDeadline, Deadline
<1>2. bdb' = bdb /\ joined' = joined /\ r' = start_network_rejoin_ED(s)
  BY DEF StartED
<1>3. s \in RejoinState /\ Agree(s) /\ (~joined => Resting(s)) /\ Deadline(s)
      /\ s.initialised
  BY <1>1, CountTyped DEF RejoinState, Agree, Resting, Scheduled, Deadline
<1>4. CASE joined \/ ~s.wait
  <2>1. r' = [s EXCEPT !.start_scheduled = FALSE]
    BY <1>2, <1>4 DEF start_network_rejoin_ED
  <2> HIDE DEF s
  <2>2. QED
    BY <1>1, <1>2, <1>3, <2>1
       DEF RejoinState, NInv, Agree, Resting, Scheduled
<1>5. CASE ~(joined \/ ~s.wait)
  <2>1. r' = [u EXCEPT !.rejoin_alarm = u.rejoin_alarm + 1,
                       !.start_scheduled = FALSE]
    BY <1>2, <1>5 DEF start_network_rejoin_ED
  <2> HIDE DEF s
  <2>2. /\ t \in RejoinState /\ Deadline(t) /\ t.initialised
        /\ ~t.started /\ ~t.wait
    BY <1>3, <1>5 DEF RejoinState, Deadline, Agree, Resting
  <2> HIDE DEF t
  <2>3. u \in RejoinState
    BY <2>2, StartKeeps
  <2>4. u.started /\ ~u.stop_requested /\ ~u.in_progress /\ ~u.wait
    BY <1>5, <2>2 DEF start_network_rejoin, RejoinState
  <2> HIDE DEF u
  <2>5. /\ r'.started /\ ~r'.stop_requested /\ ~r'.in_progress /\ ~r'.wait
        /\ r'.rejoin_alarm > 0
    BY <2>1, <2>3, <2>4 DEF RejoinState
  <2>6. QED
    BY <1>1, <1>2, <2>5 DEF NInv, Agree, Resting, Scheduled
<1>6. QED
  BY <1>4, <1>5

LEMMA RestingStep ==
    ASSUME ~InputDuringAttempt, IInv, NInv, [Next]_vars
    PROVE  NInv'
<1>t. /\ r \in RejoinState /\ Agree(r)
      /\ bdb # "off" => r.initialised
      /\ bdb # "idle" => r.start_ED = 0
      /\ ~joined /\ bdb = "idle" => Resting(r)
  BY DEF IInv, TypeInvariant, StackUp, NInv, RejoinState
<1>r. ASSUME NEW s \in RejoinState, Agree(s), s.start_ED = r.start_ED,
             ~joined /\ bdb = "idle" =>
                 (s.started \/ s.wait) /\ Scheduled(s),
             s.initialised = r.initialised,
             r' = rejoin_the_network(s), UNCHANGED <<bdb, joined>>
      PROVE  NInv'
  <2>1. CASE s.initialised
    <3>1. /\ Agree(r') /\ r'.start_ED = s.start_ED
          /\ ~joined /\ bdb = "idle" => Resting(r')
      BY <1>r, <2>1, RejoinSteps
    <3>2. QED
      BY <1>r, <3>1 DEF NInv, Agree, Resting, Scheduled
  <2>2. CASE ~s.initialised
    <3>1. r' = s /\ bdb = "off"
      BY <1>t, <1>r, <2>2 DEF rejoin_the_network
    <3>2. QED
      BY <1>r, <3>1 DEF NInv, Agree
  <2>3. QED
    BY <2>1, <2>2
<1>1. CASE StackStart
  <2> DEFINE s == [r EXCEPT !.initialised = TRUE]
  <2>1. s \in RejoinState /\ Agree(s) /\ s.initialised /\ s.start_ED = 0
    BY <1>1, <1>t DEF StackStart, RejoinState, Agree
  <2>2. r' = rejoin_the_network(s) /\ bdb' = "init" /\ joined' = joined
    BY <1>1 DEF StackStart
  <2> HIDE DEF s
  <2>3. Agree(r') /\ r'.start_ED = 0
    BY <2>1, <2>2, RejoinSteps
  <2>4. QED
    BY <2>2, <2>3 DEF NInv, Agree
<1>2. CASE InitDone
  <2>1. ~joined /\ r.start_ED = 0 /\ r' = r /\ bdb' # "idle"
    BY <1>2, <1>t DEF InitDone, IInv, JoinedWhere
  <2>2. QED
    BY <1>t, <2>1 DEF NInv, Agree
<1>3. CASE SteeringDone
  <2>1. /\ joined => joined'
        /\ r.start_ED = 0 /\ r' = r /\ bdb' # "idle"
    BY <1>3, <1>t DEF SteeringDone
  <2>2. QED
    BY <1>t, <2>1 DEF NInv, Agree
<1>4. CASE Leave
  <2>1. /\ ~r.started /\ ~r.stop_requested /\ r.start_ED = 0
        /\ r' = r /\ bdb' # "idle"
    BY <1>4, <1>t
       DEF Leave, AlarmsRun, IInv, Settled, Agree
  <2>2. QED
    BY <2>1 DEF NInv, Agree
<1>5. CASE SignalHandler
  BY <1>5, SignalSteps
<1>6. CASE OtherSignal
  BY <1>6, <1>t, <1>r DEF OtherSignal, Resting
<1>7. CASE ParentLinkFailure \/ SystemReset
  BY <1>7 DEF ParentLinkFailure, SystemReset, Restart, Reset, RejoinInit, NInv,
              Agree
<1>8. CASE start_network_steering
  <2>1. /\ r' = [r EXCEPT !.steering = Less(r.steering)]
        /\ r.start_ED = 0 /\ bdb' # "idle" /\ joined' = joined
    BY <1>8 DEF start_network_steering, AlarmsRun
  <2>2. QED
    BY <1>t, <2>1 DEF NInv, Agree, RejoinState
<1>9. CASE RejoinTimeout
  BY <1>9, TimeoutSteps
<1>10. CASE RejoinAlarm
  <2> DEFINE s == [r EXCEPT !.rejoin_alarm = Less(r.rejoin_alarm)]
  <2>1. /\ s \in RejoinState /\ Agree(s) /\ s.start_ED = r.start_ED
        /\ s.initialised = r.initialised
        /\ s.started = r.started /\ s.wait = r.wait /\ Scheduled(s) = Scheduled(r)
    BY <1>t, CountTyped DEF RejoinState, Agree, Scheduled
  <2>2. /\ r' = rejoin_the_network(s) /\ UNCHANGED <<bdb, joined>>
    BY <1>10 DEF RejoinAlarm
  <2> HIDE DEF s
  <2>3. QED
    BY <1>t, <1>r, <2>1, <2>2 DEF Resting
<1>11. CASE StartED
  BY <1>11, StartEDSteps
<1>12. CASE PairingButton \/ battery_report_timer_handler
  <2>1. /\ UserInput \/ Reset
        /\ bdb = "idle"
    BY <1>12, InputSteps
  <2>2. CASE UserInput
    BY <1>t, <2>1, <2>2, InputKeeps
       DEF UserInput, NInv, Agree, Resting, Scheduled
  <2>3. CASE Reset
    BY <2>3 DEF Reset, RejoinInit, NInv, Agree
  <2>4. QED
    BY <2>1, <2>2, <2>3
<1>13. CASE UNCHANGED vars
  BY <1>13 DEF vars, NInv, Agree, Resting, Scheduled
<1>14. QED
  BY <1>1, <1>2, <1>3, <1>4, <1>5, <1>6, <1>7, <1>8, <1>9, <1>10,
     <1>11, <1>12, <1>13 DEF Next

-----------------------------------------------------------------------------
(* The procedure implements NetworkSearch.  A stop that was requested      *)
(* belongs to a procedure that still counts as started; the next           *)
(* rejoin_the_network ends it, and what is left is the wait that the 200 s *)
(* alarm began, unless user input has ended that already.                  *)

\* Before the stack starts nothing has happened.
Down == bdb = "off" => r = RejoinInit

Flags(s) == s.stop_requested => s.started

\* Where the firmware lets go of a search: a join, or input during an attempt.
Dropped == Phase(r) = "stopping" /\ ~r.wait => joined \/ InputDuringAttempt

LEMMA PhaseOfRejoin ==
    ASSUME NEW s \in RejoinState, Flags(s)
    PROVE  LET t == rejoin_the_network(s)
           IN  /\ Flags(t)
               /\ \/ Phase(t) = Phase(s)
                  \/ /\ Phase(s) = "stopping"
                     /\ Phase(t) = IF s.wait THEN "waiting" ELSE "none"
<1>1. CASE ~(s.initialised /\ s.started) \/ (~s.stop_requested /\ s.in_progress)
  BY <1>1 DEF RejoinState, Flags, Phase, rejoin_the_network
<1>2. CASE s.initialised /\ s.started /\ s.stop_requested
  <2>1. rejoin_the_network(s)
           = [s EXCEPT !.started = FALSE, !.stop_requested = FALSE]
    BY <1>2 DEF rejoin_the_network
  <2>2. QED
    BY <1>2, <2>1 DEF RejoinState, Flags, Phase
<1>3. CASE s.initialised /\ s.started /\ ~s.stop_requested /\ ~s.in_progress
  <2> DEFINE next == IF s.attempt < LastBackoff THEN s.attempt + 1
                                                ELSE s.attempt
             t == [s EXCEPT !.in_progress = TRUE,
                            !.steering = s.steering + 1, !.attempt = next]
  <2>1. rejoin_the_network(s) = t
    BY <1>3 DEF rejoin_the_network
  <2> HIDE DEF next
  <2>2. /\ t.started = s.started /\ t.stop_requested = s.stop_requested
        /\ t.wait = s.wait
    BY DEF RejoinState
  <2> HIDE DEF t
  <2>3. QED
    BY <1>3, <2>1, <2>2 DEF Flags, Phase
<1>4. QED
  BY <1>1, <1>2, <1>3

LEMMA PhaseOfStart ==
    ASSUME NEW s \in RejoinState, Flags(s)
    PROVE  LET u == start_network_rejoin(s)
           IN  /\ Flags(u)
               /\ u.wait = s.wait
               /\ \/ Phase(u) = Phase(s)
                  \/ ~joined /\ Phase(s) = "none" /\ Phase(u) = "running"
<1>1. CASE joined \/ ~s.initialised \/ s.wait
  BY <1>1 DEF start_network_rejoin
<1>2. CASE ~(joined \/ ~s.initialised \/ s.wait) /\ s.started
  <2>1. start_network_rejoin(s) = [s EXCEPT !.in_progress = FALSE]
    BY <1>2 DEF start_network_rejoin
  <2>2. QED
    BY <1>2, <2>1 DEF RejoinState, Flags, Phase
<1>3. CASE ~(joined \/ ~s.initialised \/ s.wait) /\ ~s.started
  <2>1. LET u == start_network_rejoin(s)
        IN  u.started /\ ~u.stop_requested /\ u.wait = s.wait
    BY <1>3 DEF start_network_rejoin, RejoinState
  <2>2. QED
    BY <1>3, <2>1 DEF Flags, Phase
<1>4. QED
  BY <1>1, <1>2, <1>3

LEMMA PhaseOfStop ==
    ASSUME NEW s \in RejoinState, NEW was_scheduled \in BOOLEAN, Flags(s)
    PROVE  LET u == stop_network_rejoin(s, was_scheduled)
           IN  /\ Flags(u)
               /\ s.started /\ was_scheduled => Phase(u) \in {"stopping", "waiting"}
<1>1. LET u == stop_network_rejoin(s, was_scheduled)
      IN  /\ u.wait = was_scheduled
          /\ u.started => u.stop_requested
          /\ ~u.started => ~u.stop_requested
  BY DEF stop_network_rejoin, RejoinState, Flags
<1>2. QED
  BY <1>1 DEF Flags, Phase

\* A signal of success leaves nothing of the search; another begins one, ends
\* one that was given up, or changes nothing.
LEMMA PhaseOfSignal ==
    ASSUME IInv, Flags(r), SignalHandler
    PROVE  /\ Flags(r')
           /\ joined => Phase(r') = "none"
           /\ ~joined => \/ Phase(r') = Phase(r)
                         \/ Phase(r) = "none" /\ Phase(r') = "running"
                         \/ /\ Phase(r) = "stopping"
                            /\ Phase(r') = IF r.wait THEN "waiting" ELSE "none"
<1> DEFINE u == signal_case(r, bdb)
<1>1. /\ r \in RejoinState /\ Deadline(r) /\ bdb \in Signal /\ r.initialised
      /\ joined => bdb \in {"reboot_ok", "steering_ok"}
      /\ bdb \in {"reboot_ok", "steering_ok"} => joined
      /\ r' = rejoin_the_network(u)
  BY DEF IInv, TypeInvariant, ProcedureHasDeadline, Deadline, StackUp,
         JoinedWhere, SignalHandler, Signal, Outcome
<1>2. CASE joined
  <2> DEFINE v == stop_network_rejoin(r, FALSE)
  <2>1. v \in RejoinState /\ Flags(v)
    BY <1>1, StopKeeps, PhaseOfStop DEF Deadline
  <2>2. u = [v EXCEPT !.join_signalled = TRUE]
    BY <1>1, <1>2 DEF signal_case
  <2> HIDE DEF u, v
  <2>3. u \in RejoinState /\ Flags(u)
    BY <2>1, <2>2 DEF RejoinState, Flags
  <2>4. Flags(r')
    BY <1>1, <2>3, PhaseOfRejoin
  <2>5. ~r'.started /\ ~r'.wait
    BY <1>1, <1>2, SignalKeeps DEF u
  <2>6. QED
    BY <1>2, <2>4, <2>5 DEF Phase
<1>3. CASE ~joined
  <2>1. /\ u \in RejoinState /\ Flags(u) /\ u.wait = r.wait
        /\ \/ Phase(u) = Phase(r)
           \/ Phase(r) = "none" /\ Phase(u) = "running"
    <3> DEFINE f == [r EXCEPT !.join_signalled = FALSE]
               v == start_network_rejoin(r)
               w == start_network_rejoin(f)
    <3>1. /\ f \in RejoinState /\ Deadline(f) /\ Flags(f)
          /\ f.wait = r.wait /\ Phase(f) = Phase(r)
      BY <1>1 DEF RejoinState, Deadline, Flags, Phase
    <3>2. /\ v \in RejoinState /\ Flags(v) /\ v.wait = r.wait
          /\ \/ Phase(v) = Phase(r)
             \/ Phase(r) = "none" /\ Phase(v) = "running"
      BY <1>1, StartKeeps, PhaseOfStart
    <3>3. /\ w \in RejoinState /\ Flags(w) /\ w.wait = r.wait
          /\ \/ Phase(w) = Phase(r)
             \/ Phase(r) = "none" /\ Phase(w) = "running"
      <4> HIDE DEF f
      <4>1. w \in RejoinState
        BY <3>1, StartKeeps
      <4>2. /\ Flags(w) /\ w.wait = f.wait
            /\ \/ Phase(w) = Phase(f)
               \/ Phase(f) = "none" /\ Phase(w) = "running"
        BY <3>1, PhaseOfStart
      <4>3. QED
        BY <3>1, <4>1, <4>2
    <3>4. \/ u = [v EXCEPT !.join_signalled = TRUE]
          \/ u = v
          \/ u = w
      <4>1. bdb \in {"first_start", "reboot_failed", "steering_failed"}
               => u = [v EXCEPT !.join_signalled = TRUE]
        BY DEF signal_case
      <4>2. bdb = "leave_rejoin" => u = w
        BY DEF signal_case
      <4>3. bdb = "leave_reset" => u = v
        BY DEF signal_case
      <4> HIDE DEF u, v, w
      <4>4. QED
        BY <1>1, <1>3, <4>1, <4>2, <4>3 DEF Signal, Outcome
    <3> HIDE DEF u, v, w
    <3>5. LET x == [v EXCEPT !.join_signalled = TRUE]
          IN  /\ x \in RejoinState /\ x.started = v.started
              /\ x.stop_requested = v.stop_requested /\ x.wait = v.wait
      BY <3>2 DEF RejoinState
    <3>6. QED
      BY <3>2, <3>3, <3>4, <3>5 DEF Flags, Phase
  <2> HIDE DEF u
  <2>2. /\ Flags(r')
        /\ \/ Phase(r') = Phase(u)
           \/ /\ Phase(u) = "stopping"
              /\ Phase(r') = IF r.wait THEN "waiting" ELSE "none"
    BY <1>1, <2>1, PhaseOfRejoin
  <2>3. QED
    BY <1>3, <2>1, <2>2
<1>4. QED
  BY <1>2, <1>3

LEMMA NetworkStep ==
    ASSUME IInv, Flags(r), Down, Dropped, [Next]_vars
    PROVE  Flags(r') /\ Down' /\ [Network!Next]_Network!vars
<1> DEFINE up == bdb # "off"
           search == Phase(r)
           Same == up' = up /\ joined' = joined
           Goal == Flags(r') /\ Down' /\ [Network!Next]_Network!vars
<1>t. /\ r \in RejoinState /\ Deadline(r)
      /\ search = "stopping" /\ ~r.wait => joined \/ InputDuringAttempt
      /\ bdb = "off" => /\ ~r.initialised /\ ~r.started /\ ~r.wait
                        /\ r.steering = 0 /\ r.stop_alarm = 0
                        /\ r.rejoin_alarm = 0 /\ r.start_ED = 0
  BY DEF IInv, TypeInvariant, ProcedureHasDeadline, Deadline, Dropped, Down,
         RejoinInit
<1>s. ASSUME Same, search' = search
      PROVE  [Network!Next]_Network!vars
  BY <1>s, Zenon DEF Network!vars
<1>e. ASSUME Same, search = "stopping",
             search' = IF r.wait THEN "waiting" ELSE "none"
      PROVE  [Network!Next]_Network!vars
  <2>1. CASE r.wait
    BY <1>e, <2>1, Zenon DEF Network!Next, Network!AttemptOver
  <2>2. CASE ~r.wait /\ joined
    BY <1>e, <2>2 DEF Network!Next, Network!Settle
  <2>3. CASE ~r.wait /\ ~joined
    BY <1>e, <1>t, <2>3, Zenon DEF Network!Next, Network!Abandon
  <2>4. QED
    BY <2>1, <2>2, <2>3
<1>r. ASSUME Same, NEW s \in RejoinState, s.started = r.started, s.wait = r.wait,
             s.stop_requested = r.stop_requested, r' = rejoin_the_network(s)
      PROVE  Flags(r') /\ [Network!Next]_Network!vars
  <2>1. Flags(s) /\ Phase(s) = search
    BY <1>r DEF Flags, Phase
  <2>2. /\ Flags(r')
        /\ \/ search' = search
           \/ /\ search = "stopping"
              /\ search' = IF r.wait THEN "waiting" ELSE "none"
    BY <1>r, <2>1, PhaseOfRejoin
  <2>3. QED
    BY <1>r, <1>s, <1>e, <2>2
<1>k. ASSUME r'.started = r.started, r'.wait = r.wait,
             r'.stop_requested = r.stop_requested
      PROVE  Flags(r') /\ search' = search
  BY <1>k DEF Flags, Phase
<1>1. CASE StackStart
  <2> DEFINE s == [r EXCEPT !.initialised = TRUE]
  <2>1. /\ ~up /\ up' = TRUE /\ joined' = joined /\ s.started = FALSE
        /\ s.wait = r.wait /\ s.stop_requested = r.stop_requested
        /\ r' = rejoin_the_network(s)
    BY <1>1, <1>t DEF StackStart, RejoinState
  <2> HIDE DEF s
  <2>2. r' = s
    BY <2>1 DEF rejoin_the_network
  <2>3. Flags(r') /\ search' = search /\ Down'
    BY <1>t, <2>1, <2>2 DEF Flags, Phase, Down
  <2>4. QED
    BY <2>1, <2>3, Zenon DEF Network!Next, Network!Start
<1>2. CASE InitDone \/ SteeringDone
  <2>1. r' = r /\ up /\ up' = up /\ Down'
    BY <1>2 DEF InitDone, SteeringDone, Down
  <2>2. joined' = joined \/ (joined = FALSE /\ joined' = TRUE)
    <3>1. joined \in BOOLEAN /\ joined' \in BOOLEAN
      BY <1>2 DEF IInv, TypeInvariant, InitDone, SteeringDone
    <3>2. joined => joined'
      BY <1>2 DEF InitDone, SteeringDone, IInv, JoinedWhere
    <3>3. QED
      BY <3>1, <3>2, Zenon
  <2>3. Flags(r') /\ search' = search
    BY <1>k, <2>1
  <2>4. CASE joined' = joined
    BY <1>s, <2>1, <2>3, <2>4
  <2>5. CASE joined = FALSE /\ joined' = TRUE
    <3>1. Network!Join
      BY <2>1, <2>3, <2>5, Zenon DEF Network!Join
    <3>2. QED
      BY <2>1, <2>3, <3>1 DEF Network!Next
  <2>6. QED
    BY <2>1, <2>2, <2>3, <2>4, <2>5
<1>3. CASE Leave
  <2>1. /\ r' = r /\ up' = TRUE /\ up = TRUE /\ joined /\ joined' = FALSE
        /\ ~r.started /\ ~r.wait
    BY <1>3 DEF Leave, IInv, Settled
  <2>2. Flags(r') /\ search' = search /\ Down' /\ search = "none"
    BY <1>k, <2>1 DEF Down, Phase
  <2>3. QED
    BY <2>1, <2>2, Zenon DEF Network!Next, Network!Lose
<1>4. CASE SignalHandler
  <2>1. up' = TRUE /\ up = TRUE /\ up /\ Same /\ Down'
    BY <1>4 DEF SignalHandler, Signal, Outcome, Down
  <2>2. /\ Flags(r')
        /\ joined => search' = "none"
        /\ ~joined => \/ search' = search
                      \/ search = "none" /\ search' = "running"
                      \/ /\ search = "stopping"
                         /\ search' = IF r.wait THEN "waiting" ELSE "none"
    BY <1>4, PhaseOfSignal
  <2>3. CASE joined
    <3>1. CASE search = "none"
      BY <1>s, <2>1, <2>2, <2>3, <3>1
    <3>2. CASE search # "none"
      BY <2>1, <2>2, <2>3, <3>2, Zenon DEF Network!Next, Network!Settle
    <3>3. QED
      BY <2>1, <2>2, <3>1, <3>2
  <2>4. CASE ~joined
    <3>1. CASE search = "none" /\ search' = "running"
      <4>1. Network!Begin
        BY <2>1, <2>4, <3>1, Zenon DEF Network!Begin
      <4>2. QED
        BY <2>1, <2>2, <4>1 DEF Network!Next
    <3>2. QED
      BY <1>s, <1>e, <2>1, <2>2, <2>4, <3>1
  <2>5. QED
    BY <2>1, <2>2, <2>3, <2>4
<1>5. CASE OtherSignal
  <2>1. Same /\ (bdb' = "off" => r' = r)
    BY <1>5, <1>t DEF OtherSignal, rejoin_the_network
  <2>2. Flags(r') /\ [Network!Next]_Network!vars
    BY <1>5, <1>t, <1>r, <2>1 DEF OtherSignal
  <2>3. Down'
    BY <1>5, <2>1 DEF OtherSignal, Down
  <2>4. QED
    BY <2>2, <2>3
<1>6. CASE Reset
  <2>1. up' = FALSE /\ joined' = FALSE /\ r' = RejoinInit
    BY <1>6 DEF Reset
  <2>2. Flags(r') /\ search' = "none" /\ Down'
    BY <2>1 DEF RejoinInit, Flags, Phase, Down
  <2>3. QED
    BY <2>1, <2>2, Zenon DEF Network!Next, Network!Restart
<1>7. CASE start_network_steering
  <2>1. /\ Same /\ Down' /\ r'.started = r.started /\ r'.wait = r.wait
        /\ r'.stop_requested = r.stop_requested
    BY <1>7, <1>t DEF start_network_steering, RejoinState, Down
  <2>2. QED
    BY <1>k, <1>s, <2>1
<1>8. CASE RejoinTimeout
  <2> DEFINE s == [r EXCEPT !.stop_alarm = Less(r.stop_alarm)]
  <2>1. Same /\ r' = stop_network_rejoin(s, TRUE)
    BY <1>8 DEF RejoinTimeout
  <2> HIDE DEF s
  <2>2. r.started /\ ~r.stop_requested
    BY <1>8, <1>t DEF RejoinTimeout, Deadline, RejoinState
  <2>3. s \in RejoinState /\ Flags(s) /\ s.started
    BY <1>t, <2>2, CountTyped DEF s, RejoinState, Flags
  <2>d. Down'
    BY <1>8, <1>t, <2>2 DEF RejoinTimeout, Down
  <2>4. Flags(r') /\ search' \in {"stopping", "waiting"}
    BY <2>1, <2>3, PhaseOfStop
  <2>5. search = "running"
    BY <2>2 DEF Phase
  <2>6. QED
    BY <2>1, <2>d, <2>4, <2>5, Zenon DEF Network!Next, Network!GiveUp
<1>9. CASE RejoinAlarm
  <2> DEFINE s == [r EXCEPT !.rejoin_alarm = Less(r.rejoin_alarm)]
  <2>1. Same /\ Down' /\ r' = rejoin_the_network(s)
    BY <1>9, <1>t DEF RejoinAlarm, Down
  <2>2. /\ s \in RejoinState /\ s.started = r.started /\ s.wait = r.wait
        /\ s.stop_requested = r.stop_requested
    BY <1>t, CountTyped DEF RejoinState
  <2> HIDE DEF s
  <2>3. QED
    BY <1>r, <2>1, <2>2
<1>10. CASE StartED
  <2> DEFINE s == [r EXCEPT !.start_ED = Less(r.start_ED)]
             t == [s EXCEPT !.wait = FALSE]
             u == start_network_rejoin(t)
  <2>1. Same /\ Down' /\ r.initialised /\ r' = start_network_rejoin_ED(s)
    BY <1>10, <1>t DEF StartED, Down, IInv, StackUp
  <2>2. /\ s \in RejoinState /\ s.started = r.started /\ s.wait = r.wait
        /\ s.stop_requested = r.stop_requested /\ Deadline(s)
        /\ s.initialised = r.initialised
    BY <1>t, CountTyped DEF RejoinState, Deadline
  <2> HIDE DEF s
  <2>3. CASE joined \/ ~r.wait
    <3>1. r' = [s EXCEPT !.start_scheduled = FALSE]
      BY <2>1, <2>2, <2>3 DEF start_network_rejoin_ED
    <3>2. /\ r'.started = r.started /\ r'.wait = r.wait
          /\ r'.stop_requested = r.stop_requested
      BY <2>2, <3>1 DEF RejoinState
    <3>3. QED
      BY <1>k, <1>s, <2>1, <3>2
  <2>4. CASE ~joined /\ r.wait
    <3>1. /\ t \in RejoinState /\ Deadline(t) /\ ~t.wait
          /\ t.started = r.started /\ t.stop_requested = r.stop_requested
          /\ t.initialised = s.initialised
      BY <2>2 DEF RejoinState, Deadline
    <3>2. r' = [u EXCEPT !.rejoin_alarm = u.rejoin_alarm + 1,
                         !.start_scheduled = FALSE]
      BY <2>1, <2>2, <2>4 DEF start_network_rejoin_ED
    <3> HIDE DEF t
    <3>3. u \in RejoinState
      BY <3>1, StartKeeps
    <3>4. \/ u.started = r.started /\ u.stop_requested = r.stop_requested /\ r.started
          \/ ~r.started /\ u.started /\ ~u.stop_requested
      BY <2>1, <2>2, <2>4, <3>1 DEF start_network_rejoin, RejoinState
    <3> HIDE DEF u
    <3>5. r'.started = u.started /\ r'.stop_requested = u.stop_requested
      BY <3>2, <3>3 DEF RejoinState
    <3>6. Flags(r')
      BY <3>4, <3>5 DEF Flags
    <3>7. search' = search \/ (search = "waiting" /\ search' = "running")
      BY <2>4, <3>4, <3>5 DEF Phase
    <3>8. CASE search = "waiting" /\ search' = "running"
      <4>1. Network!Resume
        BY <2>1, <2>4, <3>8, Zenon DEF Network!Resume
      <4>2. QED
        BY <2>1, <3>6, <4>1 DEF Network!Next
    <3>9. QED
      BY <1>s, <2>1, <3>6, <3>7, <3>8
  <2>5. QED
    BY <2>3, <2>4
<1>11. CASE UserInput
  <2>1. bdb = "off" => r' = r
    BY <1>11, <1>t DEF UserInput, user_input_indicate
  <2>2. Same /\ Down' /\ r'.started = r.started /\ r'.wait = r.wait
        /\ r'.stop_requested = r.stop_requested
    BY <1>11, <1>t, <2>1, InputKeeps DEF UserInput, Down
  <2>3. QED
    BY <1>k, <1>s, <2>2
<1>12. CASE UNCHANGED vars
  <2>1. UNCHANGED <<bdb, joined, r>>
    BY <1>12 DEF vars
  <2>2. QED
    BY <1>k, <1>s, <2>1 DEF Down
<1>13. QED
  BY <1>1, <1>2, <1>3, <1>4, <1>5, <1>6, <1>7, <1>8, <1>9, <1>10, <1>11, <1>12,
     InputSteps DEF Next, ParentLinkFailure, SystemReset, Restart

\* The firmware's search is the one NetworkSearch promises; a search that was
\* given up is dropped, with no wait, only where input may come during an
\* attempt.
THEOREM SearchImplemented == Spec => ImplementsSearch
<1> DEFINE NetInv == Flags(r) /\ Down /\ (~InputDuringAttempt => NInv)
<1>1. Init => NetInv /\ Network!Init
  BY DEF Init, RejoinInit, Flags, Down, NInv, Agree, Network!Init, Phase
<1>2. ASSUME IInv, NetInv, [Next]_vars
      PROVE  NetInv' /\ [Network!Next]_Network!vars
  <2>1. Dropped
    BY <1>2 DEF Dropped, NInv, Agree, Phase
  <2>2. Flags(r') /\ Down' /\ [Network!Next]_Network!vars
    BY <1>2, <2>1, NetworkStep
  <2>3. ~InputDuringAttempt => NInv'
    BY <1>2, RestingStep
  <2>4. QED
    BY <2>2, <2>3 DEF Flags
<1> HIDE DEF NetInv
<1>3. QED
  BY <1>1, <1>2, Invariant, PTL DEF Spec, ImplementsSearch, Network!Spec
=============================================================================
