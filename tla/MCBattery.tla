----------------------------- MODULE MCBattery ------------------------------
(***************************************************************************)
(* Battery with the readings of USB power, of an empty and of a fresh set  *)
(* of cells, and of the voltages where two pieces of the curve meet.       *)
(***************************************************************************)
EXTENDS Battery

MCSupplies == {-8, 0, 499, 500, 2275, 2731, 3300, 3698, 4095}
=============================================================================
