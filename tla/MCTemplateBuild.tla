--------------------------- MODULE MCTemplateBuild --------------------------
(* Instances of TemplateBuild for TLC. *)
EXTENDS TemplateBuild, TLC

CONSTANTS c1, c2

CallSymmetry == Permutations(Calls)

MCTimeouts == {0, 3, Never}
=============================================================================
