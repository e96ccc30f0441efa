------------------------------- MODULE Mutex -------------------------------
(***************************************************************************)
(* What a lock promises: at most one owner, which may take it again and    *)
(* gives it back by as many releases.                                      *)
(***************************************************************************)
EXTENDS Naturals

CONSTANT Owner

VARIABLES
  owners,   \* the tasks that own the lock
  depth     \* depth[p]: how often p has taken it and not yet released it

vars == <<owners, depth>>

Init == owners = {} /\ depth = [p \in Owner |-> 0]

Acquire(p) ==
  /\ owners = {}
  /\ owners' = {p}
  /\ depth' = [depth EXCEPT ![p] = 1]

AcquireAgain(p) ==
  /\ p \in owners
  /\ depth' = [depth EXCEPT ![p] = @ + 1]
  /\ UNCHANGED owners

Release(p) ==
  /\ p \in owners
  /\ depth' = [depth EXCEPT ![p] = @ - 1]
  /\ owners' = IF depth[p] = 1 THEN {} ELSE owners

Next == \E p \in Owner : Acquire(p) \/ AcquireAgain(p) \/ Release(p)

Spec == Init /\ [][Next]_vars
=============================================================================
