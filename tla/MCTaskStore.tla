---------------------------- MODULE MCTaskStore ----------------------------
(***************************************************************************)
(* Instances of TaskStore for TLC.                                         *)
(***************************************************************************)
EXTENDS TaskStore, TLC

CONSTANTS k1, k2, c3

\* The server's coroutines on theirs, and a session of another process.
TwoProcesses == [c \in Callers |-> IF c = c3 THEN k2 ELSE k1]

\* Tasks are interchangeable, and so are callers of one connection.
StoreSymmetry == Permutations(Tasks) \cup Permutations(Callers \ {c3})

=============================================================================
