----------------------------- MODULE MCSendPath -----------------------------
(* SendPath for TLC.  A datagram of 12 bytes takes two messages of 1 (the    *)
(* member cap), one of 8 (the byte limit), and none of 11 (oversize).        *)
EXTENDS SendPath, TLC

Symmetry == Permutations(Senders)
===============================================================================
