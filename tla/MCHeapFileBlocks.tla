-------------------------- MODULE MCHeapFileBlocks --------------------------
(***************************************************************************)
(* What is handed out, in one state space: the memory of processes and the *)
(* blocks of files.  The two share no variable, part says which of them is *)
(* explored, and the other one stays as it begins.                         *)
(***************************************************************************)
EXTENDS MCHeap, MCFileBlocks

VARIABLE part

all_vars == <<part, vars, files_vars>>

EitherInit == part \in {"memory", "blocks"} /\ Init /\ FilesInit

\* In either part the machine may stop for good.
EitherNext ==
  \/ part = "memory" /\ Next /\ UNCHANGED <<part, files_vars>>
  \/ part = "blocks" /\ FilesNext /\ UNCHANGED <<part, vars>>

EitherSpec == EitherInit /\ [][EitherNext]_all_vars

EitherView == <<part, HeapView, files_vars>>
=============================================================================
