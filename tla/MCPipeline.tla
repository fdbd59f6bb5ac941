----------------------------- MODULE MCPipeline -----------------------------
(***************************************************************************)
(* Instances of Pipeline for TLC.                                          *)
(***************************************************************************)
EXTENDS PipelineProperties, TLC

CONSTANTS t1, t2, p1

\* Two independent tasks of one proposal.
NoDeps == [t \in Tasks |-> {}]

\* t2 waits for t1.
Chain == [t \in Tasks |-> IF t = t2 THEN {t1} ELSE {}]

OneProposal == [t \in Tasks |-> p1]

\* t1 is of no proposal, so a standalone request may own it.
OneOfItsOwn == [t \in Tasks |-> IF t = t1 THEN NoProposal ELSE p1]

\* Run ids, requests and independent tasks are interchangeable.
RunSymmetry == Permutations(RunIds) \cup Permutations(Users)
FullSymmetry == RunSymmetry \cup Permutations(Tasks)

=============================================================================
