---------------------------- MODULE MemoryLedger ----------------------------
(***************************************************************************)
(* What candidate governance promises, whatever happens inside a call: a   *)
(* pending candidate is decided once, in one step, and that step either    *)
(* leaves the memories alone or changes them together with the decision:   *)
(* it adds a memory, adds the candidate to an active memory as its next    *)
(* version, or replaces an active memory.  A replaced memory stays as it   *)
(* is, and no two active memories have the same key.                       *)
(***************************************************************************)
EXTENDS Naturals

CONSTANTS Ids, Candidates, None

VARIABLES
    status,     \* status of a memory, "absent" before it is created
    version,    \* its version, 0 before it is created
    key,        \* the key it holds while it is active
    successor,  \* the memory that replaced it
    evidence,   \* the candidates that went into it
    decision    \* what became of a candidate

vars == <<status, version, key, successor, evidence, decision>>

Init ==
    /\ status \in [Ids -> {"absent", "active"}]
    /\ version = [m \in Ids |-> IF status[m] = "active" THEN 1 ELSE 0]
    /\ \A m, n \in Ids : status[m] = "active" /\ status[n] = "active" =>
                            (m # n => key[m] # key[n])
    /\ successor = [m \in Ids |-> None]
    /\ evidence = [m \in Ids |-> IF status[m] = "active" THEN {m} ELSE {}]
    /\ decision \in [Candidates -> {"absent", "pending"}]

Decide(c, d) ==
    /\ decision[c] = "pending"
    /\ decision' = [decision EXCEPT ![c] = d]

\* The memory of a candidate appears as its version 1 under a key no other
\* active memory holds.
Adds(c, table) ==
    /\ status[c] = "absent"
    /\ status' = [table EXCEPT ![c] = "active"]
    /\ \A m \in Ids \ {c} : status'[m] = "active" => key'[m] # key'[c]
    /\ \A m \in Ids : status'[m] = "active" => m = c \/ key'[m] = key[m]

Turn(c) ==
    /\ \E d \in {"deferred", "ignored"} : Decide(c, d)
    /\ UNCHANGED <<status, version, key, successor, evidence>>

Create(c) ==
    /\ Decide(c, "governed")
    /\ Adds(c, status)
    /\ version' = [version EXCEPT ![c] = 1]
    /\ evidence' = [evidence EXCEPT ![c] = {c}]
    /\ UNCHANGED successor

Revise(c, m) ==
    /\ Decide(c, "governed")
    /\ status[m] = "active"
    /\ version' = [version EXCEPT ![m] = @ + 1]
    /\ evidence' = [evidence EXCEPT ![m] = @ \cup {c}]
    /\ UNCHANGED <<status, key, successor>>

Supersede(c, m) ==
    /\ Decide(c, "governed")
    /\ status[m] = "active"
    /\ Adds(c, [status EXCEPT ![m] = "superseded"])
    /\ version' = [version EXCEPT ![m] = @ + 1, ![c] = 1]
    /\ successor' = [successor EXCEPT ![m] = c]
    /\ evidence' = [evidence EXCEPT ![c] = {c}]

Next ==
    \E c \in Candidates :
        \/ Turn(c)
        \/ Create(c)
        \/ \E m \in Ids : Revise(c, m) \/ Supersede(c, m)

Spec == Init /\ [][Next]_vars

=============================================================================
