------------------------------ MODULE Worktrees ------------------------------
(***************************************************************************)
(* Branches and worktrees (core/worktree_manager.py), and the requests     *)
(* that use them (accept_task and rename_branch of core/orchestrator.py,   *)
(* the git endpoints of web/api.py).  One repository: its main working     *)
(* tree, in which everything is merged, and a worktree per task.           *)
(*                                                                         *)
(* A step is one git command or one call on the task queue; no lock is     *)
(* held between them.  A branch is the set of pieces of work on it.        *)
(* Conflicts, local changes in the way and whatever else a git command may *)
(* fail of are choices; two git commands never run into each other.        *)
(***************************************************************************)
EXTENDS Naturals

CONSTANTS
    Tasks,
    Names,      \* names of branches
    Main,       \* "main"
    Shared,     \* the branches there are at first: Main and others people work on
    NameOf,     \* NameOf[t]: the name made of the title and the issue of t
    Fallback,   \* Fallback[t]: feat/<id>
    NewNames,   \* NewNames[t]: the names people rename the branch of t to
    Commits,    \* branches of which people check out commits in this instance
    Options,    \* what people ask for when they accept: "local", "push"
    Users,      \* requests that may be in flight
    MaxWork,    \* pieces of work per task (a bound of the model)
    MaxTurns,   \* requests, rejections and checkouts in all (a bound of the model)
    NoName      \* nothing: a detached HEAD, no name in the cache, no task

Work == Tasks \X (1 .. MaxWork)

ASSUME WorktreesAssumption ==
    /\ Names \cap {NoName, "none", "plain"} = {} /\ Users \cap {"no", "left"} = {}
    /\ NoName \notin Tasks
    /\ Main \in Shared /\ Shared \subseteq Names /\ Commits \subseteq Names
    /\ NewNames \in [Tasks -> SUBSET Names]
    /\ NameOf \in [Tasks -> Names] /\ Fallback \in [Tasks -> Names]
    /\ Options \subseteq SUBSET {"local", "push"}
    /\ MaxWork \in Nat /\ MaxTurns \in Nat

VARIABLES
    branch,    \* branch[n], for the names there are: what is on it
    remote,    \* the branches of origin
    head,      \* HEAD of the main working tree
    at,        \* what is on a detached HEAD
    merging,   \* whose merge has stopped at a conflict in the main working tree
    wt,        \* wt[t]: the directory of t: none, plain, or the branch it is on
    rebasing,  \* worktrees in which a rebase has stopped at a conflict
    cache,     \* WorktreeManager._branch_cache
    status,    \* tasks.status
    fr,        \* fr[t]: the realizer of t
    req,       \* requests
    made,      \* work that has been committed
    loose,     \* that which was committed in a stopped rebase
    reviewed,  \* that which a person accepted
    asked,     \* tasks people had merged without accepting them
    turns      \* what people have done

repo == <<branch, remote, head, at, merging, wt, rebasing>>
seen == <<made, loose, reviewed, asked>>
wvars == <<branch, remote, head, at, merging, wt, rebasing, cache, status, fr, req,
           made, loose, reviewed, asked, turns>>

-----------------------------------------------------------------------------
RequestPC == {"free", "read", "merge", "abort", "rebase", "again", "giveup", "unrebase",
              "push", "readhead", "pushhead", "done", "rename", "remember"}

Request == [pc : RequestPC,
            op : {"none", "accept", "merge", "rename"},
            task : Tasks \cup {NoName},
            name : Names \cup {NoName},   \* the branch it read, or the new name
            base : Names,                 \* main_branch
            merged : BOOLEAN,
            push : BOOLEAN]

NoRequest == [pc |-> "free", op |-> "none", task |-> NoName,
              name |-> NoName, base |-> Main, merged |-> FALSE, push |-> FALSE]

Existing == DOMAIN branch

OnHead == IF head = NoName THEN at ELSE branch[head]

With(f, n, content) ==
    [m \in DOMAIN f \cup {n} |-> IF m = n THEN content ELSE f[m]]

AddToHead(works) ==
    IF head = NoName THEN /\ at' = at \cup works
                          /\ UNCHANGED branch
    ELSE /\ branch' = [branch EXCEPT ![head] = @ \cup works]
         /\ UNCHANGED at

\* Mutant of BranchName: a branch that is not in the cache is taken to be main.
BranchNameOrMain(t) == IF cache[t] # NoName THEN cache[t] ELSE Main

\* get_branch_name.
BranchName(t) == IF cache[t] # NoName THEN cache[t] ELSE Fallback[t]

\* A person does something.
Turn == turns < MaxTurns /\ turns' = turns + 1

Go(u, pc) == req' = [req EXCEPT ![u].pc = pc]
Free(u) == req' = [req EXCEPT ![u] = NoRequest]

-----------------------------------------------------------------------------
(***************************************************************************)
(* A realizer: create_worktree, what its agent commits, and its end, with  *)
(* which the task comes to its reviewer, by way of an interpreter.         *)
(***************************************************************************)
\* Mutant of DerivedName: all titles make one name.
DerivedNameOfAll(t) == NameOf[CHOOSE s \in Tasks : TRUE]

\* _branch_name.
DerivedName(t) == NameOf[t]

\* The cache is set and the directory made, unless there is one.
CreateWorktree(t) ==
    /\ fr[t] = "idle" /\ status[t] = "open"
    /\ cache' = [cache EXCEPT ![t] = DerivedName(t)]
    /\ IF wt[t] = "none"
       THEN /\ wt' = [wt EXCEPT ![t] = "plain"]
            /\ fr' = [fr EXCEPT ![t] = "add"]
       ELSE /\ fr' = [fr EXCEPT ![t] = "work"]
            /\ UNCHANGED wt
    /\ UNCHANGED <<branch, remote, head, at, merging, rebasing, status, req, seen, turns>>

\* git worktree add -b; where it fails the directory stays.
AddWorktree(t) ==
    /\ fr[t] = "add"
    /\ \/ /\ cache[t] \notin Existing
          /\ branch' = With(branch, cache[t], OnHead)
          /\ wt' = [wt EXCEPT ![t] = cache[t]]
          /\ fr' = [fr EXCEPT ![t] = "work"]
       \/ /\ fr' = [fr EXCEPT ![t] = "idle"]
          /\ UNCHANGED <<branch, wt>>
    /\ UNCHANGED <<remote, head, at, merging, rebasing, cache, status, req, seen, turns>>

\* Git ignores a plain directory, which is under .orchestra: nothing is committed.
Commit(t, w) ==
    /\ fr[t] = "work"
    /\ w[1] = t /\ w \notin made /\ \A v \in 1 .. w[2] - 1 : <<t, v>> \in made
    /\ wt[t] \in Names
    /\ made' = made \cup {w}
    /\ IF t \in rebasing
       THEN /\ loose' = loose \cup {w}
            /\ UNCHANGED branch
       ELSE /\ branch' = [branch EXCEPT ![wt[t]] = @ \cup {w}]
            /\ UNCHANGED loose
    /\ UNCHANGED <<remote, head, at, merging, wt, rebasing, cache, status, fr, req,
                   reviewed, asked, turns>>

\* The run fails and may be retried, or its task gets to review.
EndRun(t) ==
    /\ fr[t] = "work"
    /\ fr' = [fr EXCEPT ![t] = "idle"]
    /\ \E s \in {"open", "review"} : status' = [status EXCEPT ![t] = s]
    /\ UNCHANGED <<repo, cache, req, seen, turns>>

-----------------------------------------------------------------------------
(***************************************************************************)
(* Requests.                                                               *)
(***************************************************************************)
Reject(t) ==
    /\ Turn
    /\ status[t] = "review"
    /\ status' = [status EXCEPT ![t] = "open"]
    /\ UNCHANGED <<repo, cache, fr, req, seen>>

\* accept_task's first transition.
Accept(u, t, options) ==
    /\ Turn
    /\ req[u].pc = "free" /\ status[t] = "review"
    /\ status' = [status EXCEPT ![t] = "accepted"]
    /\ reviewed' = reviewed \cup {w \in made : w[1] = t}
    /\ req' = [req EXCEPT ![u] =
                 [NoRequest EXCEPT !.op = "accept", !.task = t, !.push = "push" \in options,
                                   !.pc = IF "local" \in options THEN "read"
                                          ELSE IF "push" \in options THEN "push" ELSE "done"]]
    /\ UNCHANGED <<repo, cache, fr, made, loose, asked>>

\* The merge endpoint asks for no status.
MergeEndpoint(u, t) ==
    /\ Turn
    /\ req[u].pc = "free"
    /\ asked' = asked \cup {t}
    /\ req' = [req EXCEPT ![u] = [NoRequest EXCEPT !.op = "merge", !.task = t, !.pc = "read"]]
    /\ UNCHANGED <<repo, cache, status, fr, made, loose, reviewed>>

\* merge_to_main: the names of the branch and of what HEAD is on.
ReadNames(u) ==
    /\ req[u].pc = "read"
    /\ req' = [req EXCEPT ![u].pc = "merge",
                          ![u].name = BranchName(req[u].task),
                          ![u].base = IF head = NoName THEN Main ELSE head]
    /\ UNCHANGED <<repo, cache, status, fr, seen, turns>>

\* What follows merge_to_main.
AfterMerge(u, merged) ==
    req' = [req EXCEPT ![u].merged = merged, ![u].base = Main, ![u].name = NoName,
                       ![u].pc = IF req[u].op = "merge" THEN IF merged THEN "readhead" ELSE "done"
                                 ELSE IF req[u].push THEN "push" ELSE "done"]

\* git merge, the first one or that after the rebase: it merges into whatever HEAD
\* is on now, stops at a conflict, or refuses.
Merge(u) ==
    /\ req[u].pc \in {"merge", "again"}
    /\ LET n == req[u].name
           failed == IF req[u].pc = "merge" THEN "abort" ELSE "giveup" IN
       \/ /\ n \in Existing /\ merging = "no"
          /\ AddToHead(branch[n])
          /\ AfterMerge(u, TRUE)
          /\ UNCHANGED merging
       \/ /\ n \in Existing /\ merging = "no" /\ ~(branch[n] \subseteq OnHead)
          /\ merging' = u
          /\ Go(u, failed)
          /\ UNCHANGED <<branch, at>>
       \/ /\ Go(u, failed)
          /\ UNCHANGED <<branch, at, merging>>
    /\ UNCHANGED <<remote, head, wt, rebasing, cache, status, fr, seen, turns>>

\* Mutant of Aborted: git merge --abort is left to the next merge.
AbortedLater == merging

\* git merge --abort ends whosever merge has stopped.
Aborted == "no"

AbortMerge(u) ==
    /\ req[u].pc \in {"abort", "giveup"}
    /\ merging' = Aborted
    /\ IF req[u].pc = "abort" /\ wt[req[u].task] # "none" THEN Go(u, "rebase")
       ELSE AfterMerge(u, FALSE)
    /\ UNCHANGED <<branch, remote, head, at, wt, rebasing, cache, status, fr, seen, turns>>

\* git rebase in the directory of the task: the branch of the worktree, or, in a
\* plain directory, the branch of the main working tree.  Without a base it refuses.
Rebase(u) ==
    /\ req[u].pc = "rebase"
    /\ LET t == req[u].task
           base == branch[req[u].base] IN
       \/ /\ t \notin rebasing /\ req[u].base \in Existing
          /\ IF wt[t] = "plain" THEN AddToHead(base)
             ELSE /\ branch' = [branch EXCEPT ![wt[t]] = @ \cup base]
                  /\ UNCHANGED at
          /\ Go(u, "again")
          /\ UNCHANGED rebasing
       \/ /\ wt[t] # "plain" /\ req[u].base \in Existing
          /\ ~(base \subseteq branch[wt[t]])
          /\ rebasing' = rebasing \cup {t}
          /\ Go(u, "unrebase")
          /\ UNCHANGED <<branch, at>>
       \/ /\ Go(u, "unrebase")
          /\ UNCHANGED <<branch, at, rebasing>>
    /\ UNCHANGED <<remote, head, merging, wt, cache, status, fr, seen, turns>>

AbortRebase(u) ==
    /\ req[u].pc = "unrebase"
    /\ rebasing' = rebasing \ {req[u].task}
    /\ AfterMerge(u, FALSE)
    /\ UNCHANGED <<branch, remote, head, at, merging, wt, cache, status, fr, seen, turns>>

\* git push, which origin may refuse.
Pushed(n) == n \in Existing /\ remote' = With(remote, n, branch[n])

PushBranch(u) ==
    /\ req[u].pc = "push"
    /\ Pushed(BranchName(req[u].task)) \/ UNCHANGED remote
    /\ Go(u, IF req[u].merged THEN "readhead" ELSE "done")
    /\ UNCHANGED <<branch, head, at, merging, wt, rebasing, cache, status, fr, seen, turns>>

\* push_main pushes the branch that HEAD was on when it looked.
ReadHead(u) ==
    /\ req[u].pc = "readhead"
    /\ req' = [req EXCEPT ![u].pc = "pushhead",
                          ![u].base = IF head = NoName THEN Main ELSE head]
    /\ UNCHANGED <<repo, cache, status, fr, seen, turns>>

PushHead(u) ==
    /\ req[u].pc = "pushhead"
    /\ Pushed(req[u].base) \/ UNCHANGED remote
    /\ Go(u, "done")
    /\ UNCHANGED <<branch, head, at, merging, wt, rebasing, cache, status, fr, seen, turns>>

\* The end; of an accept, merged or not, with the second transition.
EndRequest(u) ==
    /\ req[u].pc = "done"
    /\ status' = IF req[u].op = "accept" THEN [status EXCEPT ![req[u].task] = "done"] ELSE status
    /\ Free(u)
    /\ UNCHANGED <<repo, cache, fr, seen, turns>>

-----------------------------------------------------------------------------
StartRename(u, t, n) ==
    /\ Turn
    /\ req[u].pc = "free" /\ n # BranchName(t)
    /\ req' = [req EXCEPT ![u] = [NoRequest EXCEPT !.op = "rename", !.task = t, !.name = n,
                                                   !.pc = "rename"]]
    /\ UNCHANGED <<repo, cache, status, fr, seen>>

\* Mutants of Renamable: git branch -M overwrites the branch of the new name.
RenamableByForce(old, new) == old \in Existing

\* git branch -m; it refuses a branch in the middle of a rebase, too.
Renamable(old, new) == old \in Existing /\ new \notin Existing

\* Mutant of Moved: the worktree on it is left behind.
MovedAlone(t, old, new) == wt[t]

\* The directory of t after a rename.
Moved(t, old, new) == IF wt[t] = old THEN new ELSE wt[t]

Rename(u) ==
    /\ req[u].pc = "rename"
    /\ LET old == BranchName(req[u].task)
           new == req[u].name IN
       \/ /\ Renamable(old, new)
          /\ \A t \in rebasing : wt[t] # old
          /\ branch' = [n \in (Existing \ {old}) \cup {new} |-> branch[IF n = new THEN old ELSE n]]
          /\ wt' = [t \in Tasks |-> Moved(t, old, new)]
          /\ head' = IF head = old THEN new ELSE head
          /\ Go(u, "remember")
       \/ /\ Free(u)
          /\ UNCHANGED <<branch, wt, head>>
    /\ UNCHANGED <<remote, at, merging, rebasing, cache, status, fr, seen, turns>>

\* The cache, and tasks.branch, which nothing here reads.
Remember(u) ==
    /\ req[u].pc = "remember"
    /\ cache' = [cache EXCEPT ![req[u].task] = req[u].name]
    /\ Free(u)
    /\ UNCHANGED <<repo, status, fr, seen, turns>>

\* checkout_ref and checkout_branch_latest of a branch; git refuses one that a
\* worktree is on, and any in the middle of a merge.
Checkout(n) ==
    /\ Turn
    /\ n \in Existing \ {head} /\ merging = "no"
    /\ \A t \in Tasks : wt[t] # n
    /\ head' = n
    /\ at' = {}
    /\ UNCHANGED <<branch, remote, merging, wt, rebasing, cache, status, fr, req, seen>>

\* checkout_ref of a commit.
CheckoutCommit(n) ==
    /\ Turn
    /\ n \in Existing \cap Commits /\ merging = "no"
    /\ head' = NoName
    /\ at' = branch[n]
    /\ UNCHANGED <<branch, remote, merging, wt, rebasing, cache, status, fr, req, seen>>

\* The process is killed between two commands; what git has stopped at stays.
Crash ==
    /\ merging' = IF merging = "no" THEN "no" ELSE "left"
    /\ cache' = [t \in Tasks |-> NoName]
    /\ fr' = [t \in Tasks |-> "idle"]
    /\ req' = [u \in Users |-> NoRequest]
    /\ UNCHANGED <<branch, remote, head, at, wt, rebasing, status, seen, turns>>

-----------------------------------------------------------------------------
Init ==
    /\ branch = [n \in Shared |-> {}]
    /\ remote = branch
    /\ head = Main /\ at = {}
    /\ merging = "no"
    /\ wt = [t \in Tasks |-> "none"]
    /\ rebasing = {}
    /\ cache = [t \in Tasks |-> NoName]
    /\ status = [t \in Tasks |-> "open"]
    /\ fr = [t \in Tasks |-> "idle"]
    /\ req = [u \in Users |-> NoRequest]
    /\ made = {} /\ loose = {} /\ reviewed = {} /\ asked = {}
    /\ turns = 0

Realize(t) == CreateWorktree(t) \/ AddWorktree(t) \/ EndRun(t) \/ \E w \in Work : Commit(t, w)

Ask(u) ==
    \E t \in Tasks :
        \/ \E options \in Options : Accept(u, t, options)
        \/ MergeEndpoint(u, t)
        \/ \E n \in NewNames[t] : StartRename(u, t, n)

Serve(u) ==
    \/ ReadNames(u) \/ Merge(u) \/ AbortMerge(u) \/ Rebase(u) \/ AbortRebase(u)
    \/ PushBranch(u) \/ ReadHead(u) \/ PushHead(u) \/ EndRequest(u)
    \/ Rename(u) \/ Remember(u)

Next ==
    \/ \E t \in Tasks : Realize(t) \/ Reject(t)
    \/ \E u \in Users : Ask(u) \/ Serve(u)
    \/ \E n \in Names : Checkout(n) \/ CheckoutCommit(n)
    \/ Crash

Spec == Init /\ [][Next]_wvars

-----------------------------------------------------------------------------
\* Every variable holds a value of its type, and a worktree is on a branch there is.
TypeOK ==
    /\ DOMAIN branch \subseteq Names /\ DOMAIN remote \subseteq Names
    /\ \A n \in DOMAIN branch : branch[n] \subseteq Work
    /\ \A n \in DOMAIN remote : remote[n] \subseteq Work
    /\ head \in Existing \cup {NoName} /\ at \subseteq Work
    /\ merging \in Users \cup {"no", "left"}
    /\ wt \in [Tasks -> Existing \cup {"none", "plain"}]
    /\ rebasing \subseteq Tasks
    /\ cache \in [Tasks -> Names \cup {NoName}]
    /\ status \in [Tasks -> {"open", "review", "accepted", "done"}]
    /\ fr \in [Tasks -> {"idle", "add", "work"}]
    /\ req \in [Users -> Request]
    /\ made \subseteq Work /\ loose \subseteq made /\ reviewed \subseteq made
    /\ asked \subseteq Tasks
    /\ turns \in 0 .. MaxTurns

\* What a realizer has committed stays on some branch, through merges, aborts,
\* rebases, renames and restarts (WorktreeManager, rename_branch).  Only work done in
\* a rebase that a killed process left unfinished is on none.
WorkKept == made \ loose \subseteq UNION {branch[n] : n \in Existing}

\* Nothing gets onto a branch people share, here or at origin, but work a person
\* accepted or had merged, although merges of one task go by a name in a cache and
\* into whatever is checked out, and a rebase takes in other branches (merge_to_main).
\* For names no two tasks share, and people who check out no unreviewed commit: new
\* worktrees start from it.
MainIsReviewed ==
    \A n \in Shared :
        branch[n] \cup remote[n] \subseteq reviewed \cup {w \in made : w[1] \in asked}

\* The main working tree is in the middle of a merge only while a request is about to
\* abort it, however many merge at a time and whichever of them stopped; or after a
\* restart, until the next merge (merge_to_main).
NothingHalfMerged ==
    merging \in Users => \E u \in Users : req[u].pc \in {"abort", "giveup"}

\* When a merge is reported, the work of its task is where it was merged into: no
\* stale or missing name makes git merge something else, or nothing, successfully.
\* For names no two tasks share; the name is read before the merge and used after it.
MergedIsThere ==
    [][\A u \in Users :
          req'[u].merged /\ ~req[u].merged =>
              {w \in made \ loose : w[1] = req[u].task} \subseteq OnHead']_wvars

=============================================================================
