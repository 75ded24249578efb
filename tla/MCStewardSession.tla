-------------------------- MODULE MCStewardSession --------------------------
(* An instance of StewardSession for TLC.  Connections share no state, so   *)
(* one shows everything accept does.                                        *)
EXTENDS StewardSession

CONSTANT c1

L(frame, chunk) == [max_frame_size |-> frame, chunk_size |-> chunk]

\* The agent's limits lie between the host's, one way and the other.
AgentLimits == L(2, 2)
HostLimits == {L(1, 3), L(3, 1)}
=============================================================================
