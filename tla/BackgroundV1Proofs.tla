------------------------ MODULE BackgroundV1Proofs --------------------------
(***************************************************************************)
(* Theorems about BackgroundV1, for all readings, versions and image       *)
(* sizes: the report stays close to the battery, the firmware only gets    *)
(* newer, and is the one that was accepted first.                          *)
(***************************************************************************)
EXTENDS BackgroundV1, TLAPS

-----------------------------------------------------------------------------
(* The curve.                                                              *)

\* The three pieces, from a reading that is clamped.
Piecewise(v) == IF v > 3320 THEN 179 + (v - 3320) \div 21
                ELSE IF v > 2755 THEN 67 + (v - 2755) \div 5
                ELSE IF v > 1840 THEN (v - 1840) \div 14
                ELSE 0

Clamped(x) == IF x > 3730 THEN 3730 ELSE x

LEMMA CurveOfClamped ==
    ASSUME NEW x \in Int
    PROVE  /\ Clamped(x) \in Int /\ Clamped(x) <= 3730
           /\ Curve(x) = Piecewise(Clamped(x))
BY DEF Clamped, Curve, Piecewise

LEMMA PiecewiseRange ==
    ASSUME NEW v \in Int, v <= 3730
    PROVE  Piecewise(v) \in 0..198
BY SMTT(30) DEF Piecewise

\* The curve falls with the reading, except from the readings just above 3320
\* to 3320 itself.
LEMMA PiecewiseMonotone ==
    ASSUME NEW v \in Int, NEW w \in Int, v <= w, w <= 3730,
           ~(w \in 3321..3340 /\ v = 3320)
    PROVE  Piecewise(v) <= Piecewise(w)
<1>1. CASE w <= 3320
  BY <1>1, SMTT(60) DEF Piecewise
<1>2. CASE v > 3320
  BY <1>2, SMTT(60) DEF Piecewise
<1>3. CASE v <= 3320 /\ w > 3320
  <2>1. Piecewise(w) = 179 + (w - 3320) \div 21 /\ Piecewise(w) >= 179
    BY <1>3, SMTT(30) DEF Piecewise
  <2>2. v < 3320 => Piecewise(v) <= 179
    BY SMTT(30) DEF Piecewise
  <2>3. Piecewise(3320) = 180
    BY SMTT(30) DEF Piecewise
  <2>4. w > 3340 => Piecewise(w) >= 180
    BY <2>1, SMTT(30)
  <2>5. Piecewise(v) \in Int /\ Piecewise(w) \in Int
    BY PiecewiseRange
  <2>6. QED
    BY <1>3, <2>1, <2>2, <2>3, <2>4, <2>5
<1>4. QED
  BY <1>1, <1>2, <1>3

LEMMA CurveRange ==
    ASSUME NEW x \in Int
    PROVE  Curve(x) \in 0..198
BY CurveOfClamped, PiecewiseRange

LEMMA CurveMonotone ==
    ASSUME NEW x \in Int, NEW y \in Int, x <= y,
           ~(y \in 3321..3340 /\ x = 3320)
    PROVE  Curve(x) <= Curve(y)
<1>1. /\ Clamped(x) <= Clamped(y)
      /\ ~(Clamped(y) \in 3321..3340 /\ Clamped(x) = 3320)
  BY DEF Clamped
<1>2. QED
  BY <1>1, CurveOfClamped, PiecewiseMonotone

\* What smoothing makes of a value.
LEMMA SmoothedClose ==
    ASSUME NEW p \in 0..200, NEW c \in 0..198
    PROVE  LET s == Smoothed(p, c)
           IN  /\ s \in 0..200
               /\ s <= c
               /\ s # 0 => c < s + 10
               /\ s = 0 => c = 0
BY DEF Smoothed

-----------------------------------------------------------------------------
(* The inductive invariant: a download is of a newer version, the one that *)
(* was accepted first, and only a download has chunks.                     *)

Newer ==
    IF ota.image_status = "normal" THEN ota.chunks = 0 /\ accepted = 0
    ELSE ota.file \in Version /\ ota.file > version /\ accepted = ota.file

IInv == TypeInvariant /\ ReportIsClose /\ Newer

LEMMA Measured ==
    ASSUME NEW p \in 0..200, NEW m \in BOOLEAN, measure_battery_and_report(p, m)
    PROVE  /\ raw' \in Readings /\ held' \in BOOLEAN /\ percent' \in 0..200
           /\ ReportIsClose'
<1>1. raw' \in Readings /\ held' = m
  BY DEF measure_battery_and_report
<1>2. Curve(raw') \in 0..198
  BY <1>1, CurveRange, ReadingsAssumption
<1>3. CASE m
  BY <1>1, <1>3 DEF measure_battery_and_report, ReportIsClose
<1>4. CASE ~m
  <2>1. percent' = Smoothed(p, Curve(raw'))
    BY <1>4 DEF measure_battery_and_report
  <2>2. QED
    BY <1>1, <1>2, <2>1, SmoothedClose DEF ReportIsClose
<1>5. QED
  BY <1>3, <1>4

LEMMA Booted ==
    ASSUME IInv, Boot
    PROVE  /\ IInv' /\ version' >= version
           /\ version' = version \/ version' = accepted
<1>1. /\ version' \in Version /\ version' >= version
      /\ version' = version \/ version' = accepted
  <2>1. version \in Version /\ version \in Nat
    BY VersionAssumption DEF IInv, TypeInvariant
  <2>2. CASE version' = version
    BY <2>1, <2>2
  <2>3. CASE version' = ota.file /\ ota.chunks = Blocks
    <3>1. ota.image_status # "normal"
      BY <2>3, BlocksAssumption DEF IInv, Newer
    <3>2. ota.file \in Version /\ ota.file > version /\ accepted = ota.file
      BY <3>1 DEF IInv, Newer
    <3>3. ota.file \in Nat
      BY <3>2, VersionAssumption
    <3>4. ota.file >= version
      BY <2>1, <3>2, <3>3
    <3>5. QED
      BY <2>3, <3>2, <3>4
  <2>4. QED
    BY <2>2, <2>3 DEF Boot
<1>2. /\ raw' \in Readings /\ held' \in BOOLEAN /\ percent' \in 0..200
      /\ ReportIsClose'
  <2>1. measure_battery_and_report(0, FALSE)
    BY Zenon DEF Boot
  <2>2. 0 \in 0..200 /\ FALSE \in BOOLEAN
    OBVIOUS
  <2>3. QED
    BY <2>1, <2>2, Measured, Zenon
<1>3. count' = 0 /\ ota' = NoDownload /\ accepted' = 0
  BY DEF Boot
<1>4. Newer'
  BY <1>3 DEF Newer, NoDownload
<1>5. ota' \in [image_status: {"normal", "downloading", "finished"},
                file: {0} \cup Version, chunks: 0..Blocks]
  BY <1>3, BlocksAssumption DEF NoDownload
<1>6. QED
  BY <1>1, <1>2, <1>3, <1>4, <1>5 DEF IInv, TypeInvariant

LEMMA InitOK == Init => IInv
<1> SUFFICES ASSUME Init PROVE IInv
  OBVIOUS
<1>1. Curve(raw) \in 0..198
  BY CurveRange, ReadingsAssumption DEF Init
<1>2. percent \in 0..200 /\ ReportIsClose
  <2>1. percent = Smoothed(0, Curve(raw)) /\ ~held /\ 0 \in 0..200
    BY DEF Init
  <2>2. QED
    BY <1>1, <2>1, SmoothedClose DEF ReportIsClose
<1>3. ota = NoDownload /\ accepted = 0 /\ 0 \in 0..Blocks
  BY BlocksAssumption DEF Init
<1>4. Newer /\ ota \in [image_status: {"normal", "downloading", "finished"},
                        file: {0} \cup Version, chunks: 0..Blocks]
  BY <1>3 DEF Newer, NoDownload
<1>5. /\ raw \in Readings /\ held \in BOOLEAN /\ version \in Version
      /\ accepted \in {0} \cup Version
  BY Zenon DEF Init
<1>6. count \in 0..11
  <2>1. count = 0
    BY Zenon DEF Init
  <2>2. QED
    BY <2>1
<1>7. QED
  BY <1>2, <1>4, <1>5, <1>6 DEF IInv, TypeInvariant

\* A step of the download between two resets.
LEMMA OtaStep ==
    ASSUME IInv, OtaStart \/ OtaReceive \/ OtaFinish \/ OtaAbort
    PROVE  IInv' /\ UNCHANGED <<batteryVars, version>>
<1>1. UNCHANGED <<batteryVars, version>>
  BY DEF OtaStart, OtaReceive, OtaFinish, OtaAbort
<1>2. ota' \in [image_status: {"normal", "downloading", "finished"},
                file: {0} \cup Version, chunks: 0..Blocks]
  BY BlocksAssumption
     DEF OtaStart, OtaReceive, OtaFinish, OtaAbort, IInv, TypeInvariant, NoDownload
<1>3. Newer'
  BY <1>1 DEF OtaStart, OtaReceive, OtaFinish, OtaAbort, upgrade_status, IInv,
              TypeInvariant, Newer, NoDownload
<1>4. accepted' \in {0} \cup Version
  BY DEF OtaStart, OtaReceive, OtaFinish, OtaAbort, IInv, TypeInvariant
<1>5. QED
  BY <1>1, <1>2, <1>3, <1>4 DEF IInv, TypeInvariant, ReportIsClose, batteryVars

LEMMA ReportStep ==
    ASSUME IInv, Report
    PROVE  IInv' /\ UNCHANGED <<version, ota, accepted>>
<1>1. /\ count < 11 /\ count' = count + 1
      /\ UNCHANGED <<version, ota, accepted>>
  BY DEF Report
<1>2. /\ raw' \in Readings /\ held' \in BOOLEAN /\ percent' \in 0..200
      /\ ReportIsClose'
  BY Measured DEF Report, IInv, TypeInvariant
<1>3. QED
  BY <1>1, <1>2 DEF IInv, TypeInvariant, Newer

\* Every step is a report, a step of the download or a reset.
LEMMA NextCases ==
    ASSUME Next
    PROVE  Report \/ (OtaStart \/ OtaReceive \/ OtaFinish \/ OtaAbort) \/ Boot
BY DEF Next, battery_report_timer_handler, LastReport, reboot_application,
       WatchdogReset

LEMMA NextOK == IInv /\ [Next]_vars => IInv'
<1>1. ASSUME IInv, Next PROVE IInv'
  BY <1>1, NextCases, ReportStep, OtaStep, Booted
<1>2. ASSUME IInv, UNCHANGED vars PROVE IInv'
  BY <1>2 DEF vars, batteryVars, IInv, TypeInvariant, ReportIsClose, Newer
<1>3. QED
  BY <1>1, <1>2

LEMMA Invariance == Spec => []IInv
BY InitOK, NextOK, PTL DEF Spec

\* The attribute never exceeds the 200 half percents of the ZCL, and the other
\* variables keep their types.
THEOREM TypeCorrect == Spec => []TypeInvariant
BY Invariance, PTL DEF IInv

\* Small rises do not add up behind the smoothing, and the charge is never
\* overstated.
THEOREM CloseCorrect == Spec => []ReportIsClose
BY Invariance, PTL DEF IInv

\* The report of a falling battery does not rise, but for the falls to exactly
\* 3320 from the overlap above it.
THEOREM FallCorrect == Spec => FallNeverShowsRise
<1> DEFINE Fall == Report /\ ~held /\ raw' <= raw /\ ~(raw \in 3321..3340 /\ raw' = 3320)
                      => percent' <= percent
<1>1. IInv => Fall
  <2> SUFFICES ASSUME IInv, Report, ~held, raw' <= raw,
                      ~(raw \in 3321..3340 /\ raw' = 3320)
               PROVE  percent' <= percent
    OBVIOUS
  <2>1. PICK m \in BOOLEAN : measure_battery_and_report(percent, m)
    BY DEF Report
  <2>2. raw \in Int /\ raw' \in Int /\ percent \in 0..200
    BY <2>1, ReadingsAssumption DEF measure_battery_and_report, IInv, TypeInvariant
  <2>3. /\ Curve(raw') \in 0..198 /\ Curve(raw) \in 0..198
        /\ Curve(raw') <= Curve(raw)
    BY <2>2, CurveRange, CurveMonotone
  <2>4. Smoothed(percent, Curve(raw')) <= percent
    BY <2>2, <2>3 DEF IInv, ReportIsClose, Smoothed
  <2>5. QED
    BY <2>1, <2>2, <2>4 DEF measure_battery_and_report
<1>2. QED
  BY <1>1, Invariance, PTL DEF FallNeverShowsRise

\* Whatever is offered and whenever the device resets, the firmware that runs
\* is never replaced by an older one.
THEOREM NoDowngradeCorrect == Spec => NoDowngrade
<1>1. IInv /\ [Next]_vars => version' >= version
  <2> SUFFICES ASSUME IInv, [Next]_vars PROVE version' >= version
    OBVIOUS
  <2>1. version \in Nat
    BY VersionAssumption DEF IInv, TypeInvariant
  <2>2. CASE Next
    BY <2>1, <2>2, NextCases, ReportStep, OtaStep, Booted
  <2>3. CASE UNCHANGED vars
    BY <2>1, <2>3 DEF vars
  <2>4. QED
    BY <2>2, <2>3
<1>2. QED
  BY <1>1, Invariance, PTL DEF Spec, NoDowngrade

\* Whatever is offered during a download and whenever the device resets, a
\* firmware it changes to is the one whose offer began the download.
THEOREM FirstAcceptedCorrect == Spec => ActivatesFirstAccepted
<1> DEFINE Changed == version' # version => version' = accepted
<1>1. IInv /\ [Next]_vars => Changed
  <2> SUFFICES ASSUME IInv, [Next]_vars PROVE Changed
    OBVIOUS
  <2>1. CASE Next
    BY <2>1, NextCases, ReportStep, OtaStep, Booted
  <2>2. CASE UNCHANGED vars
    BY <2>2 DEF vars
  <2>3. QED
    BY <2>1, <2>2
<1>2. QED
  BY <1>1, Invariance, PTL DEF Spec, ActivatesFirstAccepted
=============================================================================
