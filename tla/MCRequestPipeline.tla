------------------------- MODULE MCRequestPipeline -------------------------
(* Instances of RequestPipeline for TLC.  The calls of a pipeline share no  *)
(* state, so one call shows everything; what interferes is its own attempts. *)
EXTENDS RequestPipeline

CONSTANTS r1, r2

\* A call through each of two SDKs, so that one behaviour shows both.
TypeScriptAndPython == {TypeScript, Python}
SpecOfBoth == FairSpec /\ sdk = [r \in Runs |-> IF r = r1 THEN TypeScript ELSE Python]
=============================================================================
