------------------------------- MODULE MCSync -------------------------------
(***************************************************************************)
(* Sync for TLC: main and another kernel thread, and a user process.       *)
(***************************************************************************)
EXTENDS Sync

CONSTANTS kt, usr

MCKernel == {main, kt}
MCUser == {usr}
MCThread == {main, kt, usr, idle}
MCPriority == [t \in MCThread |-> 0]
=============================================================================
