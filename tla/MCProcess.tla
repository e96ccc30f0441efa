----------------------------- MODULE MCProcess -----------------------------
(***************************************************************************)
(* Process for TLC: init, the shell and two program slots.                 *)
(***************************************************************************)
EXTENDS Process

CONSTANTS p1, p2

MCThread == {init, shell, p1, p2, idle}
MCPriority == [t \in MCThread |-> 0]
=============================================================================
