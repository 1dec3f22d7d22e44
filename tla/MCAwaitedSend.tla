--------------------------- MODULE MCAwaitedSend ---------------------------
(* Small instances of AwaitedSend; the bounds are in the cfg files. *)
EXTENDS AwaitedSend

=============================================================================
