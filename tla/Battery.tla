------------------------------ MODULE Battery -------------------------------
(***************************************************************************)
(* The battery report of the V2.24 firmware (adc.c and                     *)
(* battery_meassure_and_report of main.c): what a raw reading of the       *)
(* converter becomes in the power attributes, every 25 minutes, and the    *)
(* reset that every twelfth report ends in.                                *)
(*                                                                         *)
(* The converter is external: 12 bits, gain 1/6 over the 600 mV reference, *)
(* single ended; a reading near ground can be slightly negative.           *)
(***************************************************************************)
EXTENDS Integers

CONSTANTS
    Drift,      \* bound on the change of the reading between two reports
    Supplies    \* the readings a change of the supply may lead to

Reading == -8..4095

ASSUME DriftAssumption == Drift \in Nat
ASSUME SuppliesAssumption == Supplies \subseteq Reading

VARIABLES
    raw,        \* the last reading taken
    report,     \* the attributes, and the pulse width derived from them
    count       \* reboot_couter

vars == <<raw, report, count>>

-----------------------------------------------------------------------------
(* adc.c.                                                                  *)

\* int16 to uint16_t, and adc_raw_to_millivolts_dt.
Unsigned16(x) == x % 65536
Millivolts(x) == (x * 3600) \div 4096

\* Mutants: readings above the full scale are not clamped; the middle part of
\* the curve starts where the lower one ends short of it.
CurveUnclamped(mv) ==
    IF mv > 5800 THEN (179 + (mv - 5800) \div 33) % 256
    ELSE IF mv > 4800 THEN 67 + (mv - 4800) \div 9
    ELSE IF mv > 4000 THEN (mv - 4000) \div 12
    ELSE 0
CurveWithGap(mv) ==
    IF mv > 6500 THEN 200
    ELSE IF mv > 5800 THEN 179 + (mv - 5800) \div 33
    ELSE IF mv > 4800 THEN 67 + (mv - 4800) \div 9
    ELSE IF mv > 4000 THEN (mv - 4000) \div 10
    ELSE 0

\* Three linear pieces, cut off at 6.5 V, in half percents as a uint8_t.
Curve(mv) ==
    LET v == IF mv > 6500 THEN 6500 ELSE mv
    IN  ( IF v > 5800 THEN 179 + (v - 5800) \div 33
          ELSE IF v > 4800 THEN 67 + (v - 4800) \div 9
          ELSE IF v > 4000 THEN (v - 4000) \div 12
          ELSE 0 ) % 256

meassure_battery_percentage(x) == Curve(2 * Millivolts(Unsigned16(x)))

usb_powered(x) == Unsigned16(x) < 500 \/ Unsigned16(x) > 65000

-----------------------------------------------------------------------------
(* main.c and set_motor_pwm of pwm.c.                                      *)

\* 100%, in the half percents of the attribute.
Full == 200

set_motor_pwm(voltage) == (3000 \div 100) * ((5000 * 100) \div voltage)

battery_meassure_and_report(x) ==
    LET percentage == IF usb_powered(x) THEN Full
                      ELSE meassure_battery_percentage(x)
    IN  [ percentage  |-> percentage,
          dc_source   |-> usb_powered(x),
          pulse_width |-> set_motor_pwm((percentage + 67) * 5 + 2755) ]

-----------------------------------------------------------------------------

\* The battery drifts, or USB power is plugged in or pulled.
NextReading(x) == (Reading \cap (x - Drift)..(x + Drift)) \cup Supplies

Init ==
    /\ raw \in Supplies
    /\ report = battery_meassure_and_report(raw)
    /\ count = 0

\* Mutant: the reset comes one report late.
reset_one_late ==
    /\ raw' \in NextReading(raw)
    /\ report' = battery_meassure_and_report(raw')
    /\ count' = IF count + 1 > 12 THEN 0 ELSE count + 1

\* A report, and the twelfth one resets the chip: main measures again.
battery_report_timer_handler ==
    /\ raw' \in NextReading(raw)
    /\ report' = battery_meassure_and_report(raw')
    /\ count' = IF count + 1 >= 12 THEN 0 ELSE count + 1

Next == battery_report_timer_handler

Spec == Init /\ [][Next]_vars

-----------------------------------------------------------------------------
(* Properties.                                                             *)

TypeInvariant ==
    /\ raw \in Reading
    /\ report \in [percentage: 0..255, dc_source: BOOLEAN, pulse_width: Int]
    /\ count \in 0..11

\* The attribute never exceeds the 100% of the ZCL, 0xC8, whatever the
\* converter reads and although the sum is cut to a uint8_t.
PercentageInRange == report.percentage <= Full

\* On batteries the report follows the reading: the three pieces of the curve
\* meet without a step back, so a falling battery is never reported as rising,
\* nor a rising one as falling.
FollowsBattery ==
    [][~report.dc_source /\ ~report'.dc_source =>
          /\ raw' <= raw => report'.percentage <= report.percentage
          /\ raw' >= raw => report'.percentage >= report.percentage]_vars
=============================================================================
