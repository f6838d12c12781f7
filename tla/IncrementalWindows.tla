------------------------- MODULE IncrementalWindows -------------------------
(***************************************************************************)
(* What Consolidate Once promises, whatever happens inside it: the events  *)
(* of a workspace arrive at positions of a log, and a window of arrived    *)
(* events beyond the cursor is consumed in one step, which records the     *)
(* batch with its evidence, its candidates and its governance job, counts  *)
(* it, and moves the cursor to the end of the window.                      *)
(*                                                                         *)
(* An event may arrive at a position the cursor has already passed: the    *)
(* promise does not cover it (NoEventIsSkipped of ConsolidateOnce).        *)
(***************************************************************************)
EXTENDS Naturals

CONSTANTS Workspaces, Events, WorkspaceOf, Speaking, NoEvent, NoBatch

VARIABLES
    position,    \* place of an arrived event in the log, 0 before it arrives
    end,         \* the cursor: last event of the last consumed window
    consumedBy,  \* the batch that consumed an event
    proposedBy,  \* the batch whose candidates an event yielded
    jobs,        \* batches with a governance job
    windows      \* number of windows consumed

vars == <<position, end, consumedBy, proposedBy, jobs, windows>>

Init ==
    /\ position = [e \in Events |-> 0]
    /\ end = [w \in Workspaces |-> NoEvent]
    /\ consumedBy = [e \in Events |-> NoBatch]
    /\ proposedBy = [e \in Events |-> NoBatch]
    /\ jobs = {}
    /\ windows = [w \in Workspaces |-> 0]

Arrive(e) ==
    /\ position[e] = 0
    /\ position'[e] \in Nat \ {0}
    /\ \A f \in Events : position[f] # position'[e]
    /\ position' = [position EXCEPT ![e] = position'[e]]
    /\ UNCHANGED <<end, consumedBy, proposedBy, jobs, windows>>

Arrived(w) == {e \in Events : WorkspaceOf[e] = w /\ position[e] > 0}

Pending(w) ==
    {e \in Arrived(w) : /\ consumedBy[e] = NoBatch
                        /\ end[w] # NoEvent => position[e] > position[end[w]]}

Consume(w) ==
    /\ windows' = [windows EXCEPT ![w] = @ + 1]
    /\ \E W \in SUBSET Pending(w) : \E first, last \in W :
          LET b == <<first, last>>
              mark(table, rows) ==
                  [e \in Events |-> IF e \in rows THEN b ELSE table[e]]
          IN  /\ \A e \in W : /\ position[first] <= position[e]
                              /\ position[e] <= position[last]
              /\ end' = [end EXCEPT ![w] = last]
              /\ consumedBy' = mark(consumedBy, W)
              /\ proposedBy' = mark(proposedBy, W \cap Speaking)
              /\ jobs' = IF W \cap Speaking = {} THEN jobs ELSE jobs \cup {b}
    /\ UNCHANGED position

Next ==
    \/ \E e \in Events : Arrive(e)
    \/ \E w \in Workspaces : Consume(w)

Spec == Init /\ [][Next]_vars

=============================================================================
