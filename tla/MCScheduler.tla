---------------------------- MODULE MCScheduler ----------------------------
(***************************************************************************)
(* Scheduler for TLC: main, idle, init and other user tasks.               *)
(***************************************************************************)
EXTENDS Scheduler

CONSTANTS a, b, Slice

MCThread == {main, idle, init, a, b}
MCPriority == [t \in MCThread |-> Slice]
=============================================================================
