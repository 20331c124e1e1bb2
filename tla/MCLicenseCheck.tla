--------------------------- MODULE MCLicenseCheck ---------------------------
(***************************************************************************)
(* Instances of LicenseCheck for TLC: up to three machines of a customer   *)
(* with one seat, or two by override.                                      *)
(***************************************************************************)
EXTENDS LicenseCheck, TLC

SeatOverrides == {1, 2}
LeaseEnds     == {0, 2, 3, NULL}
SeatEnds      == {0, NULL}

CONSTANTS m1, m2, m3
ThreeMachines == {m1, m2, m3}
AnyMachine == Permutations(ThreeMachines)
=============================================================================
