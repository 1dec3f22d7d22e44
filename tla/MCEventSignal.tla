--------------------------- MODULE MCEventSignal ---------------------------
(* EventSignal for TLC: a ring of 2, datagrams of 1 or 2 messages, poll()    *)
(* bounded to 1 event or effectively unbounded.                              *)
EXTENDS EventSignal
===========================================================================
