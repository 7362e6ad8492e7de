--------------------------- MODULE BatteryProofs ----------------------------
(***************************************************************************)
(* Theorems about Battery, for every drift of the reading and every set of *)
(* supplies: the curve is bounded and monotone, so the report is.          *)
(***************************************************************************)
EXTENDS Battery, TLAPS

\* Before the cut to a uint8_t.
Piecewise(v) == IF v > 5800 THEN 179 + (v - 5800) \div 33
                ELSE IF v > 4800 THEN 67 + (v - 4800) \div 9
                ELSE IF v > 4000 THEN (v - 4000) \div 12
                ELSE 0

LEMMA PiecewiseRange ==
    ASSUME NEW v \in Int, v <= 6500
    PROVE  Piecewise(v) \in 0..200
BY SMTT(30) DEF Piecewise

LEMMA PiecewiseMonotone ==
    ASSUME NEW v \in Int, NEW w \in Int, v <= w, w <= 6500
    PROVE  Piecewise(v) <= Piecewise(w)
BY SMTT(60) DEF Piecewise

\* The cut to a uint8_t never wraps.
LEMMA CurveRange ==
    ASSUME NEW mv \in Int
    PROVE  Curve(mv) \in 0..200
<1> DEFINE v == IF mv > 6500 THEN 6500 ELSE mv
<1>1. v \in Int /\ v <= 6500
  OBVIOUS
<1>2. Curve(mv) = Piecewise(v) % 256
  BY DEF Curve, Piecewise
<1> HIDE DEF v
<1>3. Piecewise(v) \in 0..200
  BY <1>1, PiecewiseRange
<1>4. QED
  BY <1>2, <1>3

LEMMA CurveMonotone ==
    ASSUME NEW mv \in Int, NEW nv \in Int, mv <= nv
    PROVE  Curve(mv) <= Curve(nv)
<1> DEFINE v == IF mv > 6500 THEN 6500 ELSE mv
           w == IF nv > 6500 THEN 6500 ELSE nv
<1>1. v \in Int /\ w \in Int /\ v <= w /\ w <= 6500 /\ v <= 6500
  OBVIOUS
<1>2. Curve(mv) = Piecewise(v) % 256 /\ Curve(nv) = Piecewise(w) % 256
  BY DEF Curve, Piecewise
<1> HIDE DEF v, w
<1>3. /\ Piecewise(v) \in 0..200 /\ Piecewise(w) \in 0..200
      /\ Piecewise(v) <= Piecewise(w)
  BY <1>1, PiecewiseRange, PiecewiseMonotone
<1>4. QED
  BY <1>2, <1>3

\* A reading that does not count as USB power is not negative, and the
\* millivolts grow with it.
LEMMA MeasureMonotone ==
    ASSUME NEW x \in Reading, NEW y \in Reading, x <= y,
           ~usb_powered(x), ~usb_powered(y)
    PROVE  meassure_battery_percentage(x) <= meassure_battery_percentage(y)
<1>1. Unsigned16(x) = x /\ Unsigned16(y) = y
  BY DEF Reading, usb_powered, Unsigned16
<1>2. 2 * Millivolts(x) \in Int /\ 2 * Millivolts(y) \in Int
      /\ 2 * Millivolts(x) <= 2 * Millivolts(y)
  BY DEF Millivolts, Reading
<1>3. QED
  BY <1>1, <1>2, CurveMonotone DEF meassure_battery_percentage

LEMMA MeasureRange ==
    ASSUME NEW x \in Reading
    PROVE  meassure_battery_percentage(x) \in 0..200
<1>1. 2 * Millivolts(Unsigned16(x)) \in Int
  BY DEF Reading, Millivolts, Unsigned16
<1>2. QED
  BY <1>1, CurveRange DEF meassure_battery_percentage

-----------------------------------------------------------------------------
(* The attributes are those of the last reading.                           *)

Reported == report = battery_meassure_and_report(raw)

IInv == raw \in Reading /\ Reported /\ count \in 0..11

LEMMA InitOK == Init => IInv
BY SuppliesAssumption DEF Init, IInv, Reported

LEMMA NextOK == IInv /\ [Next]_vars => IInv'
BY SuppliesAssumption
   DEF IInv, Reported, Next, battery_report_timer_handler, NextReading, vars

THEOREM Invariant == Spec => []IInv
BY InitOK, NextOK, PTL DEF Spec

LEMMA PulseTyped ==
    ASSUME NEW n \in 1..5000
    PROVE  (3000 \div 100) * ((5000 * 100) \div n) \in Int
<1> DEFINE q == (5000 * 100) \div n
<1>1. q \in Int
  OBVIOUS
<1> HIDE DEF q
<1>2. 3000 \div 100 = 30
  OBVIOUS
<1>3. 30 * q \in Int
  BY <1>1
<1>4. QED
  BY <1>2, <1>3 DEF q

LEMMA ReportTyped ==
    ASSUME NEW x \in Reading
    PROVE  LET p == battery_meassure_and_report(x).percentage
           IN  /\ p \in 0..Full
               /\ battery_meassure_and_report(x)
                     \in [percentage: 0..255, dc_source: BOOLEAN, pulse_width: Int]
<1> DEFINE p == IF usb_powered(x) THEN Full ELSE meassure_battery_percentage(x)
           w == set_motor_pwm((p + 67) * 5 + 2755)
<1>1. p \in 0..200
  BY MeasureRange DEF Full
<1>2. usb_powered(x) \in BOOLEAN
  BY DEF usb_powered
<1>3. battery_meassure_and_report(x)
         = [percentage |-> p, dc_source |-> usb_powered(x), pulse_width |-> w]
  BY DEF battery_meassure_and_report
<1>4. w \in Int
  <2> DEFINE n == (p + 67) * 5 + 2755
  <2>1. n \in 1..5000
    <3> HIDE DEF p
    <3>1. QED
      BY <1>1
  <2> HIDE DEF n
  <2>2. (3000 \div 100) * ((5000 * 100) \div n) \in Int
    BY <2>1, PulseTyped
  <2>3. QED
    BY <2>2 DEF set_motor_pwm, n
<1> HIDE DEF p, w
<1>5. QED
  BY <1>1, <1>2, <1>3, <1>4 DEF Full

\* The attributes and the counter keep their types.
THEOREM TypeCorrect == Spec => []TypeInvariant
<1>1. IInv => TypeInvariant
  BY ReportTyped DEF IInv, Reported, TypeInvariant
<1>2. QED
  BY <1>1, Invariant, PTL

\* The percentage never exceeds 100% and never wraps.
THEOREM RangeCorrect == Spec => []PercentageInRange
<1>1. IInv => PercentageInRange
  BY ReportTyped DEF IInv, Reported, PercentageInRange, Full
<1>2. QED
  BY <1>1, Invariant, PTL

\* On batteries the report rises and falls with the reading.
THEOREM FollowsCorrect == Spec => FollowsBattery
<1> DEFINE Follows == ~report.dc_source /\ ~report'.dc_source =>
              /\ raw' <= raw => report'.percentage <= report.percentage
              /\ raw' >= raw => report'.percentage >= report.percentage
<1>1. IInv /\ IInv' => Follows
  <2> SUFFICES ASSUME IInv, IInv', ~report.dc_source, ~report'.dc_source
               PROVE  /\ raw' <= raw => report'.percentage <= report.percentage
                      /\ raw' >= raw => report'.percentage >= report.percentage
    OBVIOUS
  <2>1. /\ raw \in Reading /\ raw' \in Reading
        /\ ~usb_powered(raw) /\ ~usb_powered(raw')
    BY DEF IInv, Reported, battery_meassure_and_report
  <2>2. /\ report.percentage = meassure_battery_percentage(raw)
        /\ report'.percentage = meassure_battery_percentage(raw')
    BY <2>1 DEF IInv, Reported, battery_meassure_and_report
  <2>3. QED
    BY <2>1, <2>2, MeasureMonotone
<1>2. QED
  BY <1>1, Invariant, PTL DEF FollowsBattery
=============================================================================
