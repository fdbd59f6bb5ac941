--------------------------- MODULE MCIssueTracker ---------------------------
(***************************************************************************)
(* Instances of IssueTracker: issues of which one refers to another.       *)
(***************************************************************************)
EXTENDS IssueTracker

CONSTANTS i1, i2, c1

OneChild == [i \in Issues |-> IF i = i1 THEN {c1} ELSE {}]
=============================================================================
