-------------------------- MODULE MCSandboxHandle --------------------------
(* Instances of SandboxHandle for TLC.  Calls are interchangeable, and no   *)
(* run that uses the symmetry checks liveness.                              *)
EXTENDS SandboxHandle, TLC

CONSTANTS c1, c2

CallSymmetry == Permutations(Calls)

RustOnly == {Rust}
=============================================================================
