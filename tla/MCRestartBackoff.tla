-------------------------- MODULE MCRestartBackoff --------------------------
(* An instance of RestartBackoff for TLC. *)
EXTENDS RestartBackoff
=============================================================================
