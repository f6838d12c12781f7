----------------------------- MODULE MCChatTurns -----------------------------
(* Three chats in one or two sessions, with a history that cuts a turn in   *)
(* half.                                                                    *)
EXTENDS ChatTurns, TLC

CONSTANTS c1, c2, c3, s1, s2

\* Chats and sessions have no order, and the run checks invariants only.
Symmetry == Permutations(Chats) \cup Permutations(Sessions)

=============================================================================
