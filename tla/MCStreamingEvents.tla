------------------------- MODULE MCStreamingEvents -------------------------
(* Instances of StreamingEvents for TLC. *)
EXTENDS StreamingEvents
=============================================================================
