---------------------------- MODULE RetainLedger ----------------------------
(***************************************************************************)
(* What an object registry promises, without ids or tables: every object   *)
(* has a number of retains, which goes up and down one at a time and never *)
(* below zero (src/src/registry.ts).                                       *)
(***************************************************************************)
EXTENDS Naturals

CONSTANT Objects
VARIABLE retains

Init == retains = [o \in Objects |-> 0]

Retain(o) == retains' = [retains EXCEPT ![o] = @ + 1]

Release(o) ==
    /\ retains[o] > 0
    /\ retains' = [retains EXCEPT ![o] = @ - 1]

Next == \E o \in Objects : Retain(o) \/ Release(o)

Spec == Init /\ [][Next]_retains
=============================================================================
