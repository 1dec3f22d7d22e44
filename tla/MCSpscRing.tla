---------------------------- MODULE MCSpscRing ----------------------------
(* SpscRing for TLC: a requested capacity of 3 (rounded up to 4 slots) and   *)
(* indices that wrap after 8, so the bound of 9 pushes crosses a wrap.       *)
EXTENDS SpscRing
===========================================================================
