---------------------------- MODULE MCChunkStore ----------------------------
(* Model values for ChunkStore and the answers of the durable store that it tells apart. *)
EXTENDS ChunkStore

Error(code, retryable, status) == [code |-> code, retryable |-> retryable, status |-> status]
Answer(kind, status, errors) == [kind |-> kind, status |-> status, errors |-> errors]

MCOutcomes ==
  {Answer("ok", "none", {}), Answer("Timeout", "none", {}), Answer("Cancelled", "none", {}),
   Answer("Http", "refusal", {}), Answer("Http", "none", {}),
   Answer("GraphQL", "none", {Error("PLATFORM_BUSY", FALSE, "none")}),
   Answer("GraphQL", "none", {Error("other", TRUE, "refusal")}),
   Answer("GraphQL", "none", {Error("other", TRUE, "none"), Error("refusal", TRUE, "none")})}
=============================================================================
