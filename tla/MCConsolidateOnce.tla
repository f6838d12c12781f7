-------------------------- MODULE MCConsolidateOnce --------------------------
(***************************************************************************)
(* Instances of ConsolidateOnce for TLC.  A cfg picks the sets and one of  *)
(* the placements below by name.                                           *)
(***************************************************************************)
EXTENDS ConsolidateOnce, TLC

CONSTANTS w1, w2, t1, e1, e2, e3, x1, x2, x3

\* One workspace: events 1 and 3 belong to a task, 1 and 2 yield candidates.
OneWorkspace == [e \in Events |-> w1]
AllTargetOne == [x \in Executions |-> w1]
SomeTask == [e \in Events |-> IF e = e2 THEN NoTask ELSE t1]
TwoSpeak == {e1, e2} \cap Events

\* Two workspaces that work on the same task.
TwoWorkspaces == [e \in Events |-> IF e = e2 THEN w2 ELSE w1]
AlternateTargets == [x \in Executions |-> IF x = x2 THEN w2 ELSE w1]
SameTask == [e \in Events |-> t1]

\* Bound: the third event is written when the first two requests have ended.
ThirdEventLast ==
    e3 \in Events /\ eventState[e3] # "absent" =>
        \A e \in Events \ {e3} : eventState[e] = "finished"

\* Executions of one workspace are interchangeable.
ExecutionSymmetry == Permutations(Executions)

=============================================================================
