--------------------------- MODULE MCBackgroundV1 ---------------------------
(***************************************************************************)
(* BackgroundV1 with readings on both sides of every seam of the curve,    *)
(* of the clamp and of the smallest rise that is shown.                    *)
(***************************************************************************)
EXTENDS BackgroundV1

MCReadings ==
    {-8, 1840, 1841, 1854, 1993, 2600, 2680, 2755, 2756, 2805, 3265, 3270, 3275,
     3319, 3320, 3321, 3340, 3341, 3510, 3530, 3730, 3731, 4095}
=============================================================================
