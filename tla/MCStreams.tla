----------------------------- MODULE MCStreams -----------------------------
(***************************************************************************)
(* Streams for TLC: three tasks, two bytes, a ring of three.               *)
(***************************************************************************)
EXTENDS Streams

CONSTANTS t1, t2, t3

MCTask == {t1, t2, t3}
MCOthers == <<t2, t3>>
MCThread == MCTask \cup {idle}
MCPriority == [t \in MCThread |-> 0]
=============================================================================
