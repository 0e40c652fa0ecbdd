----------------------------- MODULE MCCharging -----------------------------
(* A pack that may be charged directly, one in the hysteresis of both limits  *)
(* and one above the hard stop.                                              *)
EXTENDS Charging

MCTemps == {300, 430, 510}
=============================================================================
