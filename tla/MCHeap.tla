------------------------------- MODULE MCHeap -------------------------------
(***************************************************************************)
(* Heap for TLC.  Frames are interchangeable as long as each has one use:  *)
(* the view has what a page holds and not in which frame, and whether the  *)
(* frames are exact.                                                       *)
(***************************************************************************)
EXTENDS Heap

Holds(s, g) == IF m.pte[s][g] = NULL THEN NULL ELSE mem[m.pte[s][g]]
HeapView ==
  <<[s \in Proc |-> [g \in PageOf(s) |-> Holds(s, g)]], {s \in Proc : m.pde[s] = NULL},
    FramesExact /\ KernelAccounted,
    m.vaddr, m.panic, m.full, list, kobj, state, held, gone, astray, exits, failed>>
=============================================================================
