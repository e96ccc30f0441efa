------------------------------- MODULE MCIde -------------------------------
(***************************************************************************)
(* Ide for TLC: main and a user process on one channel.                    *)
(***************************************************************************)
EXTENDS Ide

CONSTANTS u1

MCUser == {u1}
MCThread == {main, u1, idle}
MCPriority == [t \in MCThread |-> 0]
MCOrder == <<u1>>
=============================================================================
