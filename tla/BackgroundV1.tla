---------------------------- MODULE BackgroundV1 ----------------------------
(***************************************************************************)
(* What the V1.2 firmware does in the background (main.c): the battery     *)
(* report of every 25 minutes, the OTA client callback, and the resets     *)
(* both end in.                                                            *)
(*                                                                         *)
(* The converter is external: 12 bits, single ended; a reading near ground *)
(* can be slightly negative.  So are the OTA client of the stack, the      *)
(* chunk handling zb_process_chunk and the bootloader.                     *)
(***************************************************************************)
EXTENDS Integers

CONSTANTS
    Readings,   \* the readings the converter may give
    Version,    \* the firmware versions OTA servers offer
    Blocks      \* the chunks of an image

ASSUME ReadingsAssumption == Readings \subseteq -8..4095
ASSUME VersionAssumption == Version \subseteq Nat
ASSUME BlocksAssumption == Blocks \in Nat \ {0}

VARIABLES
    raw,        \* the last reading taken
    held,       \* it was taken with the motor working
    percent,    \* pervious_battery_percent, and the attribute: half percents
    count,      \* reboot_couter
    version,    \* the version that runs, ota_attr.file_version
    ota,        \* the download: image_status, the version, the chunks stored
    accepted    \* history: the version of the offer the download began with

batteryVars == <<raw, held, percent, count>>
vars == <<batteryVars, version, ota, accepted>>

-----------------------------------------------------------------------------
(* measure_battery_and_report.                                             *)

\* Mutants: readings above the full scale are not clamped; the upper piece
\* starts one lower.
CurveUnclamped(x) ==
    IF x > 3320 THEN 179 + (x - 3320) \div 21
    ELSE IF x > 2755 THEN 67 + (x - 2755) \div 5
    ELSE IF x > 1840 THEN (x - 1840) \div 14
    ELSE 0
CurveUpperLow(x) ==
    LET v == IF x > 3730 THEN 3730 ELSE x
    IN  IF v > 3320 THEN 178 + (v - 3320) \div 21
        ELSE IF v > 2755 THEN 67 + (v - 2755) \div 5
        ELSE IF v > 1840 THEN (v - 1840) \div 14
        ELSE 0

\* Three linear pieces, cut off at the full scale; a uint8_t holds the result.
Curve(x) ==
    LET v == IF x > 3730 THEN 3730 ELSE x
    IN  IF v > 3320 THEN 179 + (v - 3320) \div 21
        ELSE IF v > 2755 THEN 67 + (v - 2755) \div 5
        ELSE IF v > 1840 THEN (v - 1840) \div 14
        ELSE 0

\* Mutant: a small change either way is hidden.
SmoothedBothWays(previous, current) ==
    IF previous # 0 /\ current < previous + 10 /\ current > previous - 10
    THEN previous ELSE current

\* A rise of less than 5% is hidden.
Smoothed(previous, current) ==
    IF previous # 0 /\ current > previous /\ current < previous + 10
    THEN previous ELSE current

\* While the motor works the previous value stands.
measure_battery_and_report(previous, motor_working) ==
    /\ raw' \in Readings
    /\ held' = motor_working
    /\ percent' = IF motor_working THEN previous ELSE Smoothed(previous, Curve(raw'))

-----------------------------------------------------------------------------
(* The OTA client callback of zcl_device_cb.                               *)

\* Mutants: the versions are not compared; a running download is not looked at.
any_version(v) == IF ota.image_status # "normal" THEN "busy" ELSE "ok"
never_busy(v)  == IF v > version THEN "ok" ELSE "abort"

\* ZB_ZCL_OTA_UPGRADE_STATUS_START: the answer to an image that is offered.
upgrade_status(v) ==
    IF ota.image_status # "normal" THEN "busy"
    ELSE IF v > version THEN "ok"
    ELSE "abort"

NoDownload == [image_status |-> "normal", file |-> 0, chunks |-> 0]

OtaStart ==
    \E v \in Version :
        /\ upgrade_status(v) = "ok"
        /\ ota' = [image_status |-> "downloading", file |-> v, chunks |-> 0]
        /\ accepted' = IF accepted = 0 THEN v ELSE accepted
        /\ UNCHANGED <<batteryVars, version>>

\* STATUS_RECEIVE.
OtaReceive ==
    /\ ota.image_status = "downloading"
    /\ ota.chunks < Blocks
    /\ ota' = [ota EXCEPT !.chunks = @ + 1]
    /\ UNCHANGED <<batteryVars, version, accepted>>

\* STATUS_CHECK and STATUS_APPLY of a whole image, then STATUS_FINISH
\* schedules reboot_application.
OtaFinish ==
    /\ ota.image_status = "downloading"
    /\ ota.chunks = Blocks
    /\ ota' = [ota EXCEPT !.image_status = "finished"]
    /\ UNCHANGED <<batteryVars, version, accepted>>

\* STATUS_ABORT.
OtaAbort ==
    /\ ota.image_status = "downloading"
    /\ ota' = NoDownload
    /\ accepted' = 0
    /\ UNCHANGED <<batteryVars, version>>

-----------------------------------------------------------------------------
(* Resets.                                                                 *)

\* The bootloader may activate an image that is whole, whether or not FINISH
\* came; other_inits measures, with nothing measured before, before the main
\* loop could start the motor.
Boot ==
    /\ version' \in {version} \cup IF ota.chunks = Blocks THEN {ota.file} ELSE {}
    /\ ota' = NoDownload
    /\ accepted' = 0
    /\ count' = 0
    /\ measure_battery_and_report(0, FALSE)

reboot_application == ota.image_status = "finished" /\ Boot

WatchdogReset == Boot

Report ==
    \E motor_working \in BOOLEAN :
        /\ count < 11
        /\ count' = count + 1
        /\ measure_battery_and_report(percent, motor_working)
        /\ UNCHANGED <<version, ota, accepted>>

\* The twelfth report is measured, and is lost in the reset.
LastReport == count >= 11 /\ Boot

battery_report_timer_handler == Report \/ LastReport

Init ==
    /\ raw \in Readings
    /\ held = FALSE
    /\ percent = Smoothed(0, Curve(raw))
    /\ count = 0
    /\ version \in Version
    /\ ota = NoDownload
    /\ accepted = 0

Next ==
    \/ battery_report_timer_handler
    \/ OtaStart \/ OtaReceive \/ OtaFinish \/ OtaAbort
    \/ reboot_application
    \/ WatchdogReset

Spec == Init /\ [][Next]_vars

-----------------------------------------------------------------------------
(* Properties.                                                             *)

TypeInvariant ==
    /\ raw \in Readings
    /\ held \in BOOLEAN
    /\ percent \in 0..200
    /\ count \in 0..11
    /\ version \in Version
    /\ ota \in [image_status: {"normal", "downloading", "finished"},
                file: {0} \cup Version, chunks: 0..Blocks]
    /\ accepted \in {0} \cup Version

\* Smoothing never lets the report drift from the battery: small rises do not
\* add up unseen, and the charge is never overstated.  A report held for the
\* motor is left out.
ReportIsClose ==
    ~held => /\ percent <= Curve(raw)
             /\ percent # 0 => Curve(raw) < percent + 10
             /\ percent = 0 => Curve(raw) = 0

\* A falling battery is not reported as rising, except after a reading that
\* was held, after a reset, and where the two upper pieces of the curve overlap:
\* a fall to exactly 3320, which reads 180, from the readings just above it,
\* which read 179.
FallNeverShowsRise ==
    [][Report /\ ~held /\ raw' <= raw /\ ~(raw \in 3321..3340 /\ raw' = 3320)
          => percent' <= percent]_vars

\* No server, download, abort or reset ever takes the device to an older
\* firmware.
NoDowngrade == [][version' >= version]_vars

\* Offers of several servers, before, during and after a download, and resets in
\* the middle of one: a firmware the device changes to is the one whose offer
\* began the download, not one that came later and got past the busy answer.
ActivatesFirstAccepted == [][version' # version => version' = accepted]_vars
=============================================================================
