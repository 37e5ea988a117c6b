---------------------------- MODULE GoalExploration ----------------------------
(***************************************************************************)
(* What the dynamic selection of goals promises (docstring of              *)
(* _BranchFitnessGraph: a goal is considered only when a goal it depends   *)
(* on has been covered): goals are reached along the control dependences,  *)
(* and none is lost again.                                                 *)
(***************************************************************************)
CONSTANTS Roots, Children

VARIABLE reached

Init == reached = {}

Cover ==
    \E g \in (Roots \cup UNION {Children[p] : p \in reached}) \ reached :
        reached' = reached \cup {g}

Spec == Init /\ [][Cover]_reached
================================================================================
