----------------------------- MODULE MCSdkCalls -----------------------------
(* Instances of SdkCalls for TLC. *)
EXTENDS SdkCalls

AllMethods == Names
Kill == {"commands.kill"}
=============================================================================
