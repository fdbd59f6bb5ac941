------------------------------ MODULE MCRunners ------------------------------
(***************************************************************************)
(* Instances of Runners for TLC.                                           *)
(***************************************************************************)
EXTENDS Runners, TLC

AJob(role, t, resume, chat) == [role |-> role, task |-> t, resume |-> resume, chat |-> chat]

\* A realizer that starts afresh and reviews that resume, one by a chat.
WorktreeJobs ==
    {AJob("fr", t, FALSE, FALSE) : t \in Tasks}
        \cup {AJob("fi", t, TRUE, TRUE) : t \in Tasks}

\* All roles, resumed or not.
AllJobs == {j \in Job : j.role = "pl" => ~j.resume /\ ~j.chat}

RunSymmetry == Permutations(Runs)

=============================================================================
