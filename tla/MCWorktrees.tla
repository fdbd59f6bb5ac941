---------------------------- MODULE MCWorktrees ----------------------------
(***************************************************************************)
(* Instances of Worktrees: two tasks, whose titles make different names.   *)
(***************************************************************************)
EXTENDS Worktrees, TLC

CONSTANTS t1, t2, n1, n2, f1, f2, x

Titles == t1 :> n1 @@ t2 :> n2
Ids == t1 :> f1 @@ t2 :> f2

\* Both branches may be renamed to the one new name.
Renames == t1 :> {x} @@ t2 :> {x}

\* Requests are alike, and so are the two tasks with their names.
Alike ==
    Permutations(Users)
        \cup {t1 :> t2 @@ t2 :> t1 @@ n1 :> n2 @@ n2 :> n1 @@ f1 :> f2 @@ f2 :> f1}

============================================================================
