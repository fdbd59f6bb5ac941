--------------------------- MODULE MCRequirements ---------------------------
(***************************************************************************)
(* Instances of Requirements for TLC.                                      *)
(***************************************************************************)
EXTENDS Requirements, TLC

\* Any non-empty set of features may be proposed.
AnyPlan == (SUBSET Features) \ {{}}

\* Or all of them.
FullPlan == {Features}

RequirementSymmetry ==
    Permutations(RunIds) \cup Permutations(PropIds) \cup Permutations(Users)
        \cup Permutations(Features)

=============================================================================
