--------------------------- MODULE WorktreesProofs ---------------------------
(***************************************************************************)
(* Branches, worktrees and merges, for any number of tasks and requests:   *)
(* no work is lost and no merge is left half done; and, where no two tasks *)
(* ever use one name, nothing unreviewed is shared and what is reported    *)
(* merged is there.                                                        *)
(***************************************************************************)
EXTENDS Worktrees, TLAPS

\* What the types of single variables do not say: a directory about to become a
\* worktree is plain and its name known; a request has a task, a rename a name, and a
\* rebase a directory to run in.
RequestsOK ==
    \A u \in Users :
        /\ req[u].pc # "free" => req[u].task \in Tasks
        /\ req[u].pc \in {"rename", "remember"} => req[u].name \in Names
        /\ req[u].pc = "rebase" => wt[req[u].task] # "none"

TypeInv ==
    /\ TypeOK
    /\ \A t \in Tasks : fr[t] = "add" => wt[t] = "plain" /\ cache[t] \in Names
    /\ RequestsOK

\* The merge that has stopped is that of the request which is about to abort it.
StoppedByAborting == merging \in Users => req[merging].pc \in {"abort", "giveup"}

-----------------------------------------------------------------------------
\* What a step makes of a request; the others stay.
Becomes(u, pc, op, task, name, base, merged) ==
    /\ req' \in [Users -> Request]
    /\ \A v \in Users \ {u} : req'[v] = req[v]
    /\ req'[u].pc = pc /\ req'[u].op = op /\ req'[u].task = task
    /\ req'[u].name = name /\ req'[u].base = base /\ req'[u].merged = merged

LEMMA RequestTypes ==
    ASSUME TypeOK, NEW u \in Users
    PROVE  /\ req \in [Users -> Request] /\ req[u] \in Request
           /\ req[u].pc \in RequestPC /\ req[u].op \in {"none", "accept", "merge", "rename"}
           /\ req[u].task \in Tasks \cup {NoName} /\ req[u].name \in Names \cup {NoName}
           /\ req[u].base \in Names /\ req[u].merged \in BOOLEAN /\ req[u].push \in BOOLEAN
<1>1. req \in [Users -> Request]
  BY DEF TypeOK
<1>2. req[u] \in Request
  BY <1>1
<1>3. QED
  BY <1>1, <1>2 DEF Request

LEMMA NoRequestTypes ==
    /\ NoRequest \in Request /\ NoRequest.pc = "free" /\ NoRequest.op = "none"
    /\ NoRequest.task = NoName /\ NoRequest.name = NoName /\ NoRequest.base = Main
    /\ NoRequest.merged = FALSE /\ NoRequest.push = FALSE
<1>1. Main \in Names
  BY WorktreesAssumption
<1>2. QED
  BY <1>1 DEF NoRequest, Request, RequestPC

\* A request is replaced by a record that is one.
LEMMA Replaced ==
    ASSUME TypeOK, NEW u \in Users, NEW new \in Request, req' = [req EXCEPT ![u] = new]
    PROVE  Becomes(u, new.pc, new.op, new.task, new.name, new.base, new.merged)
<1>1. req \in [Users -> Request]
  BY DEF TypeOK
<1>2. QED
  BY <1>1 DEF Becomes

LEMMA GoBecomes ==
    ASSUME TypeOK, NEW u \in Users, NEW pc \in RequestPC, Go(u, pc)
    PROVE  Becomes(u, pc, req[u].op, req[u].task, req[u].name, req[u].base, req[u].merged)
<1> DEFINE new == [req[u] EXCEPT !.pc = pc]
<1>1. req[u] \in Request
  BY RequestTypes
<1>2. /\ new \in Request /\ new.pc = pc /\ new.op = req[u].op /\ new.task = req[u].task
      /\ new.name = req[u].name /\ new.base = req[u].base /\ new.merged = req[u].merged
  BY <1>1 DEF Request
<1>3. req' = [req EXCEPT ![u] = new]
  BY DEF Go
<1> HIDE DEF new
<1>4. QED
  BY <1>2, <1>3, Replaced

LEMMA FreeBecomes ==
    ASSUME TypeOK, NEW u \in Users, Free(u)
    PROVE  Becomes(u, "free", "none", NoName, NoName, Main, FALSE)
BY NoRequestTypes, Replaced DEF Free

\* Fields set one after the other.
WithFields(r, pc, name, base, merged) ==
    [[[[r EXCEPT !.merged = merged] EXCEPT !.base = base] EXCEPT !.name = name] EXCEPT !.pc = pc]

LEMMA FieldsSet ==
    ASSUME NEW r \in Request, NEW pc \in RequestPC, NEW name \in Names \cup {NoName},
           NEW base \in Names, NEW merged \in BOOLEAN
    PROVE  /\ WithFields(r, pc, name, base, merged) \in Request
           /\ WithFields(r, pc, name, base, merged).pc = pc
           /\ WithFields(r, pc, name, base, merged).op = r.op
           /\ WithFields(r, pc, name, base, merged).task = r.task
           /\ WithFields(r, pc, name, base, merged).name = name
           /\ WithFields(r, pc, name, base, merged).base = base
           /\ WithFields(r, pc, name, base, merged).merged = merged
<1> DEFINE r1 == [r EXCEPT !.merged = merged]
           r2 == [r1 EXCEPT !.base = base]
           r3 == [r2 EXCEPT !.name = name]
           r4 == [r3 EXCEPT !.pc = pc]
<1>1. r1 \in Request /\ r1.op = r.op /\ r1.task = r.task /\ r1.merged = merged
  BY DEF Request
<1> HIDE DEF r1
<1>2. /\ r2 \in Request /\ r2.op = r.op /\ r2.task = r.task /\ r2.merged = merged
      /\ r2.base = base
  BY <1>1 DEF Request
<1> HIDE DEF r2
<1>3. /\ r3 \in Request /\ r3.op = r.op /\ r3.task = r.task /\ r3.merged = merged
      /\ r3.base = base /\ r3.name = name
  BY <1>2 DEF Request
<1> HIDE DEF r3
<1>4. /\ r4 \in Request /\ r4.op = r.op /\ r4.task = r.task /\ r4.merged = merged
      /\ r4.base = base /\ r4.name = name /\ r4.pc = pc
  BY <1>3 DEF Request
<1>5. WithFields(r, pc, name, base, merged) = r4
  BY DEF WithFields, r1, r2, r3
<1> HIDE DEF r4
<1>6. QED
  BY <1>4, <1>5

NextPC(u, merged) ==
    IF req[u].op = "merge" THEN IF merged THEN "readhead" ELSE "done"
    ELSE IF req[u].push THEN "push" ELSE "done"

LEMMA AfterMergeBecomes ==
    ASSUME TypeOK, NEW u \in Users, NEW merged \in BOOLEAN, AfterMerge(u, merged)
    PROVE  /\ NextPC(u, merged) \in {"readhead", "push", "done"}
           /\ Becomes(u, NextPC(u, merged), req[u].op, req[u].task, NoName, Main, merged)
<1> DEFINE pc == NextPC(u, merged)
           new == WithFields(req[u], pc, NoName, Main, merged)
<1>1. req[u] \in Request /\ req \in [Users -> Request] /\ Main \in Names
  BY RequestTypes, WorktreesAssumption
<1>2. pc \in RequestPC /\ pc \in {"readhead", "push", "done"}
  BY DEF NextPC, RequestPC
<1>3. req' = [req EXCEPT ![u].merged = merged, ![u].base = Main, ![u].name = NoName,
                         ![u].pc = pc]
  BY DEF AfterMerge, NextPC
<1> HIDE DEF pc
<1>4. /\ new \in Request /\ new.pc = pc /\ new.op = req[u].op /\ new.task = req[u].task
      /\ new.name = NoName /\ new.base = Main /\ new.merged = merged
  BY <1>1, <1>2, FieldsSet
<1> HIDE DEF new
<1>5. req' = [req EXCEPT ![u] = new]
  BY <1>1, <1>3 DEF new, WithFields
<1>6. Becomes(u, pc, req[u].op, req[u].task, NoName, Main, merged)
  BY <1>4, <1>5, Replaced
<1>7. QED
  BY <1>2, <1>6 DEF pc

LEMMA ReadNamesBecomes ==
    ASSUME TypeOK, NEW u \in Users, ReadNames(u), BranchName(req[u].task) \in Names
    PROVE  Becomes(u, "merge", req[u].op, req[u].task, BranchName(req[u].task),
                   IF head = NoName THEN Main ELSE head, req[u].merged)
<1> DEFINE base == IF head = NoName THEN Main ELSE head
           n == BranchName(req[u].task)
           r1 == [req[u] EXCEPT !.pc = "merge"]
           r2 == [r1 EXCEPT !.name = n]
           new == [r2 EXCEPT !.base = base]
<1>1. req[u] \in Request /\ req \in [Users -> Request]
  BY RequestTypes
<1>2. base \in Names
  BY WorktreesAssumption DEF TypeOK, Existing
<1>3. req' = [req EXCEPT ![u] = new]
  BY <1>1 DEF ReadNames
<1> HIDE DEF base, n
<1>4. /\ r1 \in Request /\ r1.pc = "merge" /\ r1.op = req[u].op /\ r1.task = req[u].task
      /\ r1.merged = req[u].merged
  BY <1>1 DEF Request, RequestPC
<1> HIDE DEF r1
<1>5. /\ r2 \in Request /\ r2.pc = "merge" /\ r2.op = req[u].op /\ r2.task = req[u].task
      /\ r2.merged = req[u].merged /\ r2.name = n
  BY <1>4 DEF Request, n
<1> HIDE DEF r2
<1>6. /\ new \in Request /\ new.pc = "merge" /\ new.op = req[u].op /\ new.task = req[u].task
      /\ new.merged = req[u].merged /\ new.name = n /\ new.base = base
  BY <1>5, <1>2 DEF Request
<1> HIDE DEF new
<1>7. QED
  BY <1>3, <1>6, Replaced DEF base, n

LEMMA ReadHeadBecomes ==
    ASSUME TypeOK, NEW u \in Users, ReadHead(u)
    PROVE  Becomes(u, "pushhead", req[u].op, req[u].task, req[u].name,
                   IF head = NoName THEN Main ELSE head, req[u].merged)
<1> DEFINE base == IF head = NoName THEN Main ELSE head
           r1 == [req[u] EXCEPT !.pc = "pushhead"]
           new == [r1 EXCEPT !.base = base]
<1>1. req[u] \in Request /\ req \in [Users -> Request]
  BY RequestTypes
<1>2. base \in Names
  BY WorktreesAssumption DEF TypeOK, Existing
<1>3. req' = [req EXCEPT ![u] = new]
  BY <1>1 DEF ReadHead
<1> HIDE DEF base
<1>4. /\ r1 \in Request /\ r1.pc = "pushhead" /\ r1.op = req[u].op /\ r1.task = req[u].task
      /\ r1.merged = req[u].merged /\ r1.name = req[u].name
  BY <1>1 DEF Request, RequestPC
<1> HIDE DEF r1
<1>5. /\ new \in Request /\ new.pc = "pushhead" /\ new.op = req[u].op /\ new.task = req[u].task
      /\ new.merged = req[u].merged /\ new.name = req[u].name /\ new.base = base
  BY <1>2, <1>4 DEF Request
<1> HIDE DEF new
<1>6. QED
  BY <1>3, <1>5, Replaced DEF base

\* A new request, before it has its place.
Started(op, t) == [[NoRequest EXCEPT !.op = op] EXCEPT !.task = t]

LEMMA StartedFields ==
    ASSUME NEW op \in {"accept", "merge", "rename"}, NEW t \in Tasks
    PROVE  /\ Started(op, t) \in Request /\ Started(op, t).op = op /\ Started(op, t).task = t
           /\ Started(op, t).name = NoName /\ Started(op, t).base = Main
           /\ Started(op, t).merged = FALSE
<1> DEFINE r1 == [NoRequest EXCEPT !.op = op]
           r2 == [r1 EXCEPT !.task = t]
<1>1. /\ r1 \in Request /\ r1.op = op /\ r1.name = NoName /\ r1.base = Main
      /\ r1.merged = FALSE
  BY NoRequestTypes DEF Request
<1> HIDE DEF r1
<1>2. /\ r2 \in Request /\ r2.op = op /\ r2.task = t /\ r2.name = NoName /\ r2.base = Main
      /\ r2.merged = FALSE
  BY <1>1 DEF Request
<1>3. Started(op, t) = r2
  BY DEF Started, r1
<1> HIDE DEF r2
<1>4. QED
  BY <1>2, <1>3

FirstPC(options) ==
    IF "local" \in options THEN "read" ELSE IF "push" \in options THEN "push" ELSE "done"

LEMMA AcceptBecomes ==
    ASSUME TypeOK, NEW u \in Users, NEW t \in Tasks, NEW options, Accept(u, t, options)
    PROVE  /\ FirstPC(options) \in {"read", "push", "done"}
           /\ Becomes(u, FirstPC(options), "accept", t, NoName, Main, FALSE)
<1> DEFINE r == Started("accept", t)
           push == "push" \in options
           pc == FirstPC(options)
           r1 == [r EXCEPT !.push = push]
           new == [r1 EXCEPT !.pc = pc]
<1>1. pc \in {"read", "push", "done"} /\ pc \in RequestPC /\ push \in BOOLEAN
  BY DEF FirstPC, RequestPC
<1>2. req' = [req EXCEPT ![u] = new]
  BY DEF Accept, FirstPC, Started
<1>3. /\ r \in Request /\ r.op = "accept" /\ r.task = t /\ r.name = NoName /\ r.base = Main
      /\ r.merged = FALSE
  BY StartedFields
<1> HIDE DEF r, push, pc
<1>4. /\ r1 \in Request /\ r1.op = "accept" /\ r1.task = t /\ r1.name = NoName
      /\ r1.base = Main /\ r1.merged = FALSE
  BY <1>1, <1>3 DEF Request
<1> HIDE DEF r1
<1>5. /\ new \in Request /\ new.op = "accept" /\ new.task = t /\ new.name = NoName
      /\ new.base = Main /\ new.merged = FALSE /\ new.pc = pc
  BY <1>1, <1>4 DEF Request
<1> HIDE DEF new
<1>6. Becomes(u, pc, "accept", t, NoName, Main, FALSE)
  BY <1>2, <1>5, Replaced
<1>7. QED
  BY <1>1, <1>6 DEF pc

LEMMA MergeEndpointBecomes ==
    ASSUME TypeOK, NEW u \in Users, NEW t \in Tasks, MergeEndpoint(u, t)
    PROVE  Becomes(u, "read", "merge", t, NoName, Main, FALSE)
<1> DEFINE r == Started("merge", t)
           new == [r EXCEPT !.pc = "read"]
<1>1. req' = [req EXCEPT ![u] = new]
  BY DEF MergeEndpoint, Started
<1>2. /\ r \in Request /\ r.op = "merge" /\ r.task = t /\ r.name = NoName /\ r.base = Main
      /\ r.merged = FALSE
  BY StartedFields
<1> HIDE DEF r
<1>3. /\ new \in Request /\ new.op = "merge" /\ new.task = t /\ new.name = NoName
      /\ new.base = Main /\ new.merged = FALSE /\ new.pc = "read"
  BY <1>2 DEF Request, RequestPC
<1> HIDE DEF new
<1>4. QED
  BY <1>1, <1>3, Replaced

LEMMA StartRenameBecomes ==
    ASSUME TypeOK, NEW u \in Users, NEW t \in Tasks, NEW n \in Names, StartRename(u, t, n)
    PROVE  Becomes(u, "rename", "rename", t, n, Main, FALSE)
<1> DEFINE r == Started("rename", t)
           r1 == [r EXCEPT !.name = n]
           new == [r1 EXCEPT !.pc = "rename"]
<1>1. req' = [req EXCEPT ![u] = new]
  BY DEF StartRename, Started
<1>2. r \in Request /\ r.op = "rename" /\ r.task = t /\ r.base = Main /\ r.merged = FALSE
  BY StartedFields
<1> HIDE DEF r
<1>3. /\ r1 \in Request /\ r1.op = "rename" /\ r1.task = t /\ r1.name = n
      /\ r1.base = Main /\ r1.merged = FALSE
  BY <1>2 DEF Request
<1> HIDE DEF r1
<1>4. /\ new \in Request /\ new.op = "rename" /\ new.task = t /\ new.name = n
      /\ new.base = Main /\ new.merged = FALSE /\ new.pc = "rename"
  BY <1>3 DEF Request, RequestPC
<1> HIDE DEF new
<1>5. QED
  BY <1>1, <1>4, Replaced

-----------------------------------------------------------------------------
\* What merging into the main working tree does to its branch.
LEMMA AddToHeadDoes ==
    ASSUME TypeOK, NEW works \in SUBSET Work, AddToHead(works)
    PROVE  /\ DOMAIN branch' = Existing
           /\ \A n \in Existing : /\ branch[n] \subseteq branch'[n]
                                  /\ branch'[n] \subseteq branch[n] \cup works
                                  /\ n # head => branch'[n] = branch[n]
           /\ at \subseteq at' /\ at' \subseteq at \cup works
           /\ IF head = NoName THEN works \subseteq at' ELSE works \subseteq branch'[head]
           /\ head = NoName \/ head \in Existing
<1>1. head \in Existing \cup {NoName}
  BY DEF TypeOK
<1>2. CASE head = NoName
  BY <1>2 DEF AddToHead, Existing
<1>3. CASE head # NoName
  BY <1>1, <1>3 DEF AddToHead, Existing
<1>4. QED
  BY <1>2, <1>3

LEMMA TurnCounts ==
    ASSUME TypeOK, Turn
    PROVE  turns' \in 0 .. MaxTurns
<1>1. turns \in 0 .. MaxTurns /\ MaxTurns \in Nat
  BY WorktreesAssumption DEF TypeOK
<1>2. turns < MaxTurns /\ turns' = turns + 1
  BY DEF Turn
<1>3. QED
  BY <1>1, <1>2

LEMMA NamesKnown ==
    ASSUME TypeOK, NEW t \in Tasks
    PROVE  /\ BranchName(t) \in Names /\ DerivedName(t) \in Names
           /\ wt[t] \in Names => wt[t] \in Existing
           /\ wt[t] \notin {"none", "plain"} => wt[t] \in Names
BY WorktreesAssumption DEF TypeOK, BranchName, DerivedName, Existing

\* What the requests need of a step that changes one of them.
LEMMA RequestsFit ==
    ASSUME TypeInv, NEW u \in Users, NEW pc, NEW op, NEW task, NEW name, NEW base, NEW merged,
           Becomes(u, pc, op, task, name, base, merged),
           pc # "free" => task \in Tasks,
           pc \in {"rename", "remember"} => name \in Names,
           pc = "rebase" => wt[task] # "none",
           \A t \in Tasks : wt[t] # "none" => wt'[t] # "none"
    PROVE  req' \in [Users -> Request] /\ RequestsOK'
BY DEF TypeInv, RequestsOK, Becomes

LEMMA CreateWorktreeType ==
    ASSUME TypeInv, NEW t \in Tasks, CreateWorktree(t)
    PROVE  TypeInv'
<1>1. DerivedName(t) \in Names
  BY NamesKnown DEF TypeInv
<1>2. TypeOK'
  BY <1>1 DEF TypeInv, TypeOK, CreateWorktree, Existing, seen
<1>3. \A s \in Tasks : fr'[s] = "add" => wt'[s] = "plain" /\ cache'[s] \in Names
  BY <1>1 DEF TypeInv, TypeOK, CreateWorktree
<1>4. \A s \in Tasks : wt[s] # "none" => wt'[s] # "none"
  BY DEF TypeInv, TypeOK, CreateWorktree
<1>5. req' = req
  BY DEF CreateWorktree
<1>6. QED
  BY <1>2, <1>3, <1>4, <1>5 DEF TypeInv, RequestsOK

LEMMA AddWorktreeType ==
    ASSUME TypeInv, NEW t \in Tasks, AddWorktree(t)
    PROVE  TypeInv'
<1>1. cache[t] \in Names /\ wt[t] = "plain"
  BY DEF TypeInv, AddWorktree
<1>2. OnHead \subseteq Work
  BY DEF TypeInv, TypeOK, OnHead, Existing
<1>3. CASE /\ cache[t] \notin Existing
           /\ branch' = With(branch, cache[t], OnHead)
           /\ wt' = [wt EXCEPT ![t] = cache[t]]
           /\ fr' = [fr EXCEPT ![t] = "work"]
  <2>1. /\ DOMAIN branch' = Existing \cup {cache[t]}
        /\ \A n \in Existing : branch'[n] = branch[n]
        /\ branch'[cache[t]] = OnHead
    BY <1>3 DEF With, Existing
  <2>2. /\ DOMAIN branch' \subseteq Names
        /\ \A n \in DOMAIN branch' : branch'[n] \subseteq Work
    BY <1>1, <1>2, <2>1 DEF TypeInv, TypeOK, Existing
  <2>3. wt' \in [Tasks -> DOMAIN branch' \cup {"none", "plain"}]
    BY <1>3, <2>1 DEF TypeInv, TypeOK, Existing
  <2>4. TypeOK'
    BY <1>3, <2>1, <2>2, <2>3 DEF TypeInv, TypeOK, AddWorktree, Existing, seen
  <2>5. \A s \in Tasks : fr'[s] = "add" => wt'[s] = "plain" /\ cache'[s] \in Names
    BY <1>3 DEF TypeInv, TypeOK, AddWorktree
  <2>6. \A s \in Tasks : wt[s] # "none" => wt'[s] # "none"
    BY <1>1, <1>3, WorktreesAssumption DEF TypeInv, TypeOK
  <2>7. req' = req
    BY DEF AddWorktree
  <2>8. QED
    BY <2>4, <2>5, <2>6, <2>7 DEF TypeInv, RequestsOK
<1>4. CASE /\ fr' = [fr EXCEPT ![t] = "idle"]
           /\ UNCHANGED <<branch, wt>>
  <2>1. TypeOK'
    BY <1>4 DEF TypeInv, TypeOK, AddWorktree, Existing, seen
  <2>2. \A s \in Tasks : fr'[s] = "add" => wt'[s] = "plain" /\ cache'[s] \in Names
    BY <1>4 DEF TypeInv, TypeOK, AddWorktree
  <2>3. QED
    BY <1>4, <2>1, <2>2 DEF TypeInv, RequestsOK, AddWorktree
<1>5. QED
  BY <1>3, <1>4 DEF AddWorktree

LEMMA CommitType ==
    ASSUME TypeInv, NEW t \in Tasks, NEW w \in Work, Commit(t, w)
    PROVE  TypeInv'
<1>1. wt[t] \in Existing
  BY NamesKnown DEF TypeInv, Commit
<1>2. DOMAIN branch' = Existing /\ \A n \in Existing : branch'[n] \subseteq Work
  BY <1>1 DEF TypeInv, TypeOK, Commit, Existing
<1>3. TypeOK'
  BY <1>1, <1>2 DEF TypeInv, TypeOK, Commit, Existing
<1>4. QED
  BY <1>3 DEF TypeInv, RequestsOK, Commit

LEMMA EndRunType ==
    ASSUME TypeInv, NEW t \in Tasks, EndRun(t)
    PROVE  TypeInv'
<1>1. TypeOK'
  BY DEF TypeInv, TypeOK, EndRun, Existing, repo, seen
<1>2. \A s \in Tasks : fr'[s] = "add" => wt'[s] = "plain" /\ cache'[s] \in Names
  BY DEF TypeInv, TypeOK, EndRun, repo
<1>3. QED
  BY <1>1, <1>2 DEF TypeInv, RequestsOK, EndRun, repo

LEMMA RejectType ==
    ASSUME TypeInv, NEW t \in Tasks, Reject(t)
    PROVE  TypeInv'
<1>1. turns' \in 0 .. MaxTurns
  BY TurnCounts DEF TypeInv, Reject
<1>2. TypeOK'
  BY <1>1 DEF TypeInv, TypeOK, Reject, Existing, repo, seen
<1>3. QED
  BY <1>2 DEF TypeInv, RequestsOK, Reject, repo

\* New requests: their task is known.
LEMMA AcceptType ==
    ASSUME TypeInv, NEW u \in Users, NEW t \in Tasks, NEW options, Accept(u, t, options)
    PROVE  TypeInv'
<1>1. TypeOK /\ UNCHANGED wt
  BY DEF TypeInv, Accept, repo
<1>2. /\ FirstPC(options) \in {"read", "push", "done"}
      /\ Becomes(u, FirstPC(options), "accept", t, NoName, Main, FALSE)
  BY <1>1, AcceptBecomes
<1>3. req' \in [Users -> Request] /\ RequestsOK'
  BY <1>1, <1>2, RequestsFit
<1>4. turns' \in 0 .. MaxTurns
  BY <1>1, TurnCounts DEF Accept
<1>5. TypeOK'
  BY <1>3, <1>4 DEF TypeInv, TypeOK, Accept, Existing, repo
<1>6. QED
  BY <1>3, <1>5 DEF TypeInv, Accept, repo

LEMMA MergeEndpointType ==
    ASSUME TypeInv, NEW u \in Users, NEW t \in Tasks, MergeEndpoint(u, t)
    PROVE  TypeInv'
<1>1. TypeOK /\ UNCHANGED wt
  BY DEF TypeInv, MergeEndpoint, repo
<1>2. Becomes(u, "read", "merge", t, NoName, Main, FALSE)
  BY <1>1, MergeEndpointBecomes
<1>3. req' \in [Users -> Request] /\ RequestsOK'
  BY <1>1, <1>2, RequestsFit
<1>4. turns' \in 0 .. MaxTurns
  BY <1>1, TurnCounts DEF MergeEndpoint
<1>5. TypeOK'
  BY <1>3, <1>4 DEF TypeInv, TypeOK, MergeEndpoint, Existing, repo
<1>6. QED
  BY <1>3, <1>5 DEF TypeInv, MergeEndpoint, repo

LEMMA StartRenameType ==
    ASSUME TypeInv, NEW u \in Users, NEW t \in Tasks, NEW n \in NewNames[t],
           StartRename(u, t, n)
    PROVE  TypeInv'
<1>1. TypeOK /\ UNCHANGED wt /\ n \in Names
  BY WorktreesAssumption DEF TypeInv, StartRename, repo
<1>2. Becomes(u, "rename", "rename", t, n, Main, FALSE)
  BY <1>1, StartRenameBecomes
<1>3. req' \in [Users -> Request] /\ RequestsOK'
  BY <1>1, <1>2, RequestsFit
<1>4. turns' \in 0 .. MaxTurns
  BY <1>1, TurnCounts DEF StartRename
<1>5. TypeOK'
  BY <1>3, <1>4 DEF TypeInv, TypeOK, StartRename, Existing, repo, seen
<1>6. QED
  BY <1>3, <1>5 DEF TypeInv, StartRename, repo

LEMMA ReadNamesType ==
    ASSUME TypeInv, NEW u \in Users, ReadNames(u)
    PROVE  TypeInv'
<1>1. TypeOK /\ UNCHANGED wt /\ req[u].task \in Tasks
  BY DEF TypeInv, RequestsOK, ReadNames, repo
<1>2. BranchName(req[u].task) \in Names
  BY <1>1, NamesKnown
<1>3. Becomes(u, "merge", req[u].op, req[u].task, BranchName(req[u].task),
              IF head = NoName THEN Main ELSE head, req[u].merged)
  BY <1>1, <1>2, ReadNamesBecomes
<1>4. req' \in [Users -> Request] /\ RequestsOK'
  BY <1>1, <1>3, RequestsFit
<1>5. TypeOK'
  BY <1>4 DEF TypeInv, TypeOK, ReadNames, Existing, repo, seen
<1>6. QED
  BY <1>4, <1>5 DEF TypeInv, ReadNames, repo

\* The ways a merge goes: into the branch of the main working tree, to a conflict, or
\* nowhere.
Succeeds(u) ==
    /\ req[u].name \in Existing /\ merging = "no"
    /\ AddToHead(branch[req[u].name])
    /\ AfterMerge(u, TRUE)
    /\ UNCHANGED merging

Conflicts(u) ==
    /\ merging = "no" /\ merging' = u
    /\ Go(u, IF req[u].pc = "merge" THEN "abort" ELSE "giveup")
    /\ UNCHANGED <<branch, at>>

Refused(u) ==
    /\ Go(u, IF req[u].pc = "merge" THEN "abort" ELSE "giveup")
    /\ UNCHANGED <<branch, at, merging>>

LEMMA MergeWays ==
    ASSUME NEW u, Merge(u)
    PROVE  Succeeds(u) \/ Conflicts(u) \/ Refused(u)
BY DEF Merge, Succeeds, Conflicts, Refused

\* What is merged or rebased onto is work, and so is what comes of it.
LEMMA HeadTypes ==
    ASSUME TypeOK, NEW works \in SUBSET Work, AddToHead(works)
    PROVE  /\ DOMAIN branch' = Existing /\ \A n \in Existing : branch'[n] \subseteq Work
           /\ at' \subseteq Work
BY AddToHeadDoes DEF TypeOK, Existing

LEMMA MergeType ==
    ASSUME TypeInv, NEW u \in Users, Merge(u)
    PROVE  TypeInv'
<1>1. /\ TypeOK /\ UNCHANGED <<wt, remote, head, rebasing, cache, status, fr, made, loose,
                               reviewed, asked, turns>>
      /\ req[u].task \in Tasks
  BY DEF TypeInv, RequestsOK, Merge, seen
<1>2. CASE Succeeds(u)
  <2>1. branch[req[u].name] \in SUBSET Work
    BY <1>1, <1>2 DEF TypeOK, Succeeds, Existing
  <2>2. /\ DOMAIN branch' = Existing /\ \A n \in Existing : branch'[n] \subseteq Work
        /\ at' \subseteq Work
    BY <1>1, <1>2, <2>1, HeadTypes DEF Succeeds
  <2>3. /\ NextPC(u, TRUE) \in {"readhead", "push", "done"}
        /\ Becomes(u, NextPC(u, TRUE), req[u].op, req[u].task, NoName, Main, TRUE)
    BY <1>1, <1>2, AfterMergeBecomes DEF Succeeds
  <2>4. req' \in [Users -> Request] /\ RequestsOK'
    BY <1>1, <2>3, RequestsFit
  <2>5. TypeOK'
    BY <1>1, <1>2, <2>2, <2>4 DEF TypeOK, Existing, Succeeds
  <2>6. QED
    BY <1>1, <2>4, <2>5 DEF TypeInv
<1>3. CASE Conflicts(u) \/ Refused(u)
  <2> DEFINE pc == IF req[u].pc = "merge" THEN "abort" ELSE "giveup"
  <2>1. pc \in {"abort", "giveup"} /\ pc \in RequestPC /\ Go(u, pc)
    BY <1>3 DEF RequestPC, Conflicts, Refused
  <2> HIDE DEF pc
  <2>2. Becomes(u, pc, req[u].op, req[u].task, req[u].name, req[u].base, req[u].merged)
    BY <1>1, <2>1, GoBecomes
  <2>3. req' \in [Users -> Request] /\ RequestsOK'
    BY <1>1, <2>1, <2>2, RequestsFit
  <2>4. merging' \in Users \cup {"no", "left"} /\ UNCHANGED <<branch, at>>
    BY <1>1, <1>3 DEF TypeOK, Conflicts, Refused
  <2>5. TypeOK'
    BY <1>1, <2>3, <2>4 DEF TypeOK, Existing
  <2>6. QED
    BY <1>1, <2>3, <2>5 DEF TypeInv
<1>4. QED
  BY <1>2, <1>3, MergeWays

LEMMA AbortMergeType ==
    ASSUME TypeInv, NEW u \in Users, AbortMerge(u)
    PROVE  TypeInv'
<1>1. /\ TypeOK /\ UNCHANGED wt /\ req[u].task \in Tasks
  BY DEF TypeInv, RequestsOK, AbortMerge
<1>2. CASE wt[req[u].task] # "none" /\ Go(u, "rebase")
  <2>1. "rebase" \in RequestPC
    BY DEF RequestPC
  <2>2. Becomes(u, "rebase", req[u].op, req[u].task, req[u].name, req[u].base, req[u].merged)
    BY <1>1, <1>2, <2>1, GoBecomes
  <2>3. req' \in [Users -> Request] /\ RequestsOK'
    BY <1>1, <1>2, <2>2, RequestsFit
  <2>4. TypeOK'
    BY <2>3 DEF TypeInv, TypeOK, AbortMerge, Aborted, Existing, seen
  <2>5. QED
    BY <2>3, <2>4 DEF TypeInv, AbortMerge
<1>3. CASE AfterMerge(u, FALSE)
  <2>1. /\ NextPC(u, FALSE) \in {"readhead", "push", "done"}
        /\ Becomes(u, NextPC(u, FALSE), req[u].op, req[u].task, NoName, Main, FALSE)
    BY <1>1, <1>3, AfterMergeBecomes
  <2>2. req' \in [Users -> Request] /\ RequestsOK'
    BY <1>1, <2>1, RequestsFit
  <2>3. TypeOK'
    BY <2>2 DEF TypeInv, TypeOK, AbortMerge, Aborted, Existing, seen
  <2>4. QED
    BY <2>2, <2>3 DEF TypeInv, AbortMerge
<1>4. QED
  BY <1>2, <1>3 DEF AbortMerge

\* The ways a rebase goes: the branch of the worktree, or that of the main working tree,
\* takes in the base; or it stops.
Rebased(u) ==
    /\ req[u].base \in Existing
    /\ IF wt[req[u].task] = "plain" THEN AddToHead(branch[req[u].base])
       ELSE /\ branch' = [branch EXCEPT ![wt[req[u].task]] = @ \cup branch[req[u].base]]
            /\ UNCHANGED at
    /\ Go(u, "again")
    /\ UNCHANGED rebasing

RebaseStops(u) ==
    /\ rebasing' = rebasing \/ rebasing' = rebasing \cup {req[u].task}
    /\ Go(u, "unrebase")
    /\ UNCHANGED <<branch, at>>

LEMMA RebaseWays ==
    ASSUME NEW u, Rebase(u)
    PROVE  Rebased(u) \/ RebaseStops(u)
BY DEF Rebase, Rebased, RebaseStops

LEMMA RebasedDoes ==
    ASSUME TypeInv, NEW u \in Users, req[u].pc = "rebase", Rebased(u)
    PROVE  /\ DOMAIN branch' = Existing
           /\ \A n \in Existing : /\ branch[n] \subseteq branch'[n]
                                  /\ branch'[n] \subseteq branch[n] \cup branch[req[u].base]
                                  /\ branch'[n] # branch[n] => n \in {head, wt[req[u].task]}
           /\ at \subseteq at' /\ at' \subseteq at \cup branch[req[u].base]
           /\ branch[req[u].base] \in SUBSET Work
<1> DEFINE t == req[u].task
           base == branch[req[u].base]
<1>1. TypeOK /\ t \in Tasks /\ wt[t] # "none"
  BY DEF TypeInv, RequestsOK
<1>2. base \in SUBSET Work
  BY <1>1 DEF TypeOK, Rebased, Existing
<1>3. CASE wt[t] = "plain"
  <2>1. AddToHead(base)
    BY <1>3 DEF Rebased
  <2> HIDE DEF base
  <2>2. /\ DOMAIN branch' = Existing
        /\ \A n \in Existing : /\ branch[n] \subseteq branch'[n]
                               /\ branch'[n] \subseteq branch[n] \cup base
                               /\ n # head => branch'[n] = branch[n]
        /\ at \subseteq at' /\ at' \subseteq at \cup base
    BY <1>1, <1>2, <2>1, AddToHeadDoes
  <2>3. QED
    BY <1>2, <2>2 DEF base
<1>4. CASE wt[t] # "plain"
  <2>1. wt[t] \in Existing
    BY <1>1, <1>4, NamesKnown
  <2>2. branch' = [branch EXCEPT ![wt[t]] = @ \cup base] /\ UNCHANGED at
    BY <1>4 DEF Rebased
  <2> HIDE DEF base
  <2>3. QED
    BY <1>2, <2>1, <2>2 DEF Existing, base
<1>5. QED
  BY <1>3, <1>4

LEMMA RebaseType ==
    ASSUME TypeInv, NEW u \in Users, Rebase(u)
    PROVE  TypeInv'
<1>1. /\ TypeOK /\ req[u].task \in Tasks /\ req[u].pc = "rebase"
      /\ UNCHANGED <<remote, head, merging, wt, cache, status, fr, made, loose,
                     reviewed, asked, turns>>
  BY DEF TypeInv, RequestsOK, Rebase, seen
<1>2. ASSUME NEW pc \in {"again", "unrebase"}, Go(u, pc)
      PROVE  req' \in [Users -> Request] /\ RequestsOK'
  <2>1. pc \in RequestPC
    BY DEF RequestPC
  <2>2. Becomes(u, pc, req[u].op, req[u].task, req[u].name, req[u].base, req[u].merged)
    BY <1>1, <1>2, <2>1, GoBecomes
  <2>3. QED
    BY <1>1, <2>2, RequestsFit
<1>3. CASE Rebased(u)
  <2>1. /\ DOMAIN branch' = Existing
        /\ \A n \in Existing : branch'[n] \subseteq branch[n] \cup branch[req[u].base]
        /\ at' \subseteq at \cup branch[req[u].base] /\ branch[req[u].base] \in SUBSET Work
    BY <1>1, <1>3, RebasedDoes
  <2>2. /\ \A n \in Existing : branch'[n] \subseteq Work
        /\ at' \subseteq Work
    BY <1>1, <2>1 DEF TypeOK, Existing
  <2>3. req' \in [Users -> Request] /\ RequestsOK'
    BY <1>2, <1>3 DEF Rebased
  <2>4. TypeOK'
    BY <1>1, <1>3, <2>1, <2>2, <2>3 DEF TypeOK, Existing, Rebased
  <2>5. QED
    BY <1>1, <2>3, <2>4 DEF TypeInv
<1>4. CASE RebaseStops(u)
  <2>1. req' \in [Users -> Request] /\ RequestsOK'
    BY <1>2, <1>4 DEF RebaseStops
  <2>2. rebasing' \subseteq Tasks
    BY <1>1, <1>4 DEF TypeOK, RebaseStops
  <2>3. TypeOK'
    BY <1>1, <1>4, <2>1, <2>2 DEF TypeOK, Existing, RebaseStops
  <2>4. QED
    BY <1>1, <2>1, <2>3 DEF TypeInv
<1>5. QED
  BY <1>3, <1>4, RebaseWays

LEMMA AbortRebaseType ==
    ASSUME TypeInv, NEW u \in Users, AbortRebase(u)
    PROVE  TypeInv'
<1>1. TypeOK /\ UNCHANGED wt /\ req[u].task \in Tasks
  BY DEF TypeInv, RequestsOK, AbortRebase
<1>2. /\ NextPC(u, FALSE) \in {"readhead", "push", "done"}
      /\ Becomes(u, NextPC(u, FALSE), req[u].op, req[u].task, NoName, Main, FALSE)
  BY <1>1, AfterMergeBecomes DEF AbortRebase
<1>3. req' \in [Users -> Request] /\ RequestsOK'
  BY <1>1, <1>2, RequestsFit
<1>4. TypeOK'
  BY <1>3 DEF TypeInv, TypeOK, AbortRebase, Existing, seen
<1>5. QED
  BY <1>3, <1>4 DEF TypeInv, AbortRebase

LEMMA PushedTypes ==
    ASSUME TypeOK, NEW n, Pushed(n) \/ UNCHANGED remote
    PROVE  DOMAIN remote' \subseteq Names /\ \A m \in DOMAIN remote' : remote'[m] \subseteq Work
<1>1. CASE Pushed(n)
  <2>1. /\ DOMAIN remote' = DOMAIN remote \cup {n}
        /\ \A m \in DOMAIN remote' : remote'[m] = IF m = n THEN branch[n] ELSE remote[m]
        /\ n \in Existing
    BY <1>1 DEF Pushed, With
  <2>2. QED
    BY <2>1 DEF TypeOK, Existing
<1>2. CASE UNCHANGED remote
  BY <1>2 DEF TypeOK
<1>3. QED
  BY <1>1, <1>2

LEMMA PushBranchType ==
    ASSUME TypeInv, NEW u \in Users, PushBranch(u)
    PROVE  TypeInv'
<1> DEFINE pc == IF req[u].merged THEN "readhead" ELSE "done"
<1>1. TypeOK /\ UNCHANGED wt /\ req[u].task \in Tasks
  BY DEF TypeInv, RequestsOK, PushBranch
<1>2. pc \in RequestPC /\ pc \in {"readhead", "done"} /\ Go(u, pc)
  BY DEF RequestPC, PushBranch
<1> HIDE DEF pc
<1>3. Becomes(u, pc, req[u].op, req[u].task, req[u].name, req[u].base, req[u].merged)
  BY <1>1, <1>2, GoBecomes
<1>4. req' \in [Users -> Request] /\ RequestsOK'
  BY <1>1, <1>2, <1>3, RequestsFit
<1>5. DOMAIN remote' \subseteq Names /\ \A m \in DOMAIN remote' : remote'[m] \subseteq Work
  BY <1>1, PushedTypes DEF PushBranch
<1>6. TypeOK'
  BY <1>4, <1>5 DEF TypeInv, TypeOK, PushBranch, Existing, seen
<1>7. QED
  BY <1>4, <1>6 DEF TypeInv, PushBranch

LEMMA ReadHeadType ==
    ASSUME TypeInv, NEW u \in Users, ReadHead(u)
    PROVE  TypeInv'
<1>1. TypeOK /\ UNCHANGED wt /\ req[u].task \in Tasks
  BY DEF TypeInv, RequestsOK, ReadHead, repo
<1>2. Becomes(u, "pushhead", req[u].op, req[u].task, req[u].name,
              IF head = NoName THEN Main ELSE head, req[u].merged)
  BY <1>1, ReadHeadBecomes
<1>3. req' \in [Users -> Request] /\ RequestsOK'
  BY <1>1, <1>2, RequestsFit
<1>4. TypeOK'
  BY <1>3 DEF TypeInv, TypeOK, ReadHead, Existing, repo, seen
<1>5. QED
  BY <1>3, <1>4 DEF TypeInv, ReadHead, repo

LEMMA PushHeadType ==
    ASSUME TypeInv, NEW u \in Users, PushHead(u)
    PROVE  TypeInv'
<1>1. TypeOK /\ UNCHANGED wt /\ req[u].task \in Tasks /\ "done" \in RequestPC
  BY DEF TypeInv, RequestsOK, PushHead, RequestPC
<1>2. Becomes(u, "done", req[u].op, req[u].task, req[u].name, req[u].base, req[u].merged)
  BY <1>1, GoBecomes DEF PushHead
<1>3. req' \in [Users -> Request] /\ RequestsOK'
  BY <1>1, <1>2, RequestsFit
<1>4. DOMAIN remote' \subseteq Names /\ \A m \in DOMAIN remote' : remote'[m] \subseteq Work
  BY <1>1, PushedTypes DEF PushHead
<1>5. TypeOK'
  BY <1>3, <1>4 DEF TypeInv, TypeOK, PushHead, Existing, seen
<1>6. QED
  BY <1>3, <1>5 DEF TypeInv, PushHead

LEMMA EndRequestType ==
    ASSUME TypeInv, NEW u \in Users, EndRequest(u)
    PROVE  TypeInv'
<1>1. TypeOK /\ UNCHANGED wt /\ Free(u) /\ req[u].task \in Tasks
  BY DEF TypeInv, RequestsOK, EndRequest, repo
<1>2. Becomes(u, "free", "none", NoName, NoName, Main, FALSE)
  BY <1>1, FreeBecomes
<1>3. req' \in [Users -> Request] /\ RequestsOK'
  BY <1>1, <1>2, RequestsFit
<1>4. status' \in [Tasks -> {"open", "review", "accepted", "done"}]
  BY <1>1 DEF TypeOK, EndRequest
<1>5. TypeOK'
  BY <1>3, <1>4 DEF TypeInv, TypeOK, EndRequest, Existing, repo, seen
<1>6. QED
  BY <1>3, <1>5 DEF TypeInv, EndRequest, repo

\* A rename takes the branch, whatever is on it, and the worktree on it to a new name.
Renames(u, old, new) ==
    /\ old \in Existing /\ new \notin Existing
    /\ branch' = [n \in (Existing \ {old}) \cup {new} |-> branch[IF n = new THEN old ELSE n]]
    /\ wt' = [t \in Tasks |-> Moved(t, old, new)]
    /\ head' = IF head = old THEN new ELSE head
    /\ Go(u, "remember")

RenameFails(u) == Free(u) /\ UNCHANGED <<branch, wt, head>>

LEMMA RenameWays ==
    ASSUME NEW u, Rename(u)
    PROVE  \/ \E old, new : /\ old = BranchName(req[u].task) /\ new = req[u].name
                             /\ Renames(u, old, new)
           \/ RenameFails(u)
<1>1. CASE RenameFails(u)
  BY <1>1
<1>2. CASE Renames(u, BranchName(req[u].task), req[u].name)
  BY <1>2
<1>3. QED
  BY <1>1, <1>2 DEF Rename, Renamable, Renames, RenameFails

Renamed(old, new) ==
    /\ DOMAIN branch' = (Existing \ {old}) \cup {new} /\ old \in Existing
    /\ new \notin Existing /\ old # new
    /\ branch'[new] = branch[old]
    /\ \A n \in Existing \ {old} : branch'[n] = branch[n]
    /\ \A t \in Tasks : wt'[t] = IF wt[t] = old THEN new ELSE wt[t]
    /\ wt' \in [Tasks -> DOMAIN branch' \cup {"none", "plain"}]
    /\ old \in Names

LEMMA RenamesDoes ==
    ASSUME TypeOK, NEW u, NEW old, NEW new \in Names, Renames(u, old, new)
    PROVE  Renamed(old, new)
<1>1. /\ DOMAIN branch' = (Existing \ {old}) \cup {new} /\ old \in Existing
      /\ new \notin Existing /\ old # new
      /\ branch'[new] = branch[old]
      /\ \A n \in Existing \ {old} : branch'[n] = branch[n]
      /\ \A t \in Tasks : wt'[t] = IF wt[t] = old THEN new ELSE wt[t]
      /\ old \in Names
  BY DEF TypeOK, Renames, Existing, Moved
<1>2. \A t \in Tasks : Moved(t, old, new) \in DOMAIN branch' \cup {"none", "plain"}
  BY <1>1 DEF TypeOK, Existing, Moved
<1>3. wt' \in [Tasks -> DOMAIN branch' \cup {"none", "plain"}]
  BY <1>2 DEF Renames
<1>4. QED
  BY <1>1, <1>3 DEF Renamed

LEMMA RenameType ==
    ASSUME TypeInv, NEW u \in Users, Rename(u)
    PROVE  TypeInv'
<1>1. /\ TypeOK /\ req[u].task \in Tasks /\ req[u].name \in Names
      /\ UNCHANGED <<remote, at, merging, rebasing, cache, status, fr, made, loose,
                     reviewed, asked, turns>>
  BY DEF TypeInv, RequestsOK, Rename, seen
<1>2. CASE \E old, new : /\ old = BranchName(req[u].task) /\ new = req[u].name
                        /\ Renames(u, old, new)
  <2>1. PICK old, new : /\ old = BranchName(req[u].task) /\ new = req[u].name
                        /\ Renames(u, old, new)
    BY <1>2
  <2>2. /\ DOMAIN branch' = (Existing \ {old}) \cup {new} /\ old \in Existing
        /\ branch'[new] = branch[old] /\ old \in Names
        /\ \A n \in Existing \ {old} : branch'[n] = branch[n]
        /\ \A t \in Tasks : wt'[t] = IF wt[t] = old THEN new ELSE wt[t]
        /\ wt' \in [Tasks -> DOMAIN branch' \cup {"none", "plain"}]
    <3>1. Renamed(old, new)
      BY <1>1, <2>1, RenamesDoes
    <3>2. QED
      BY <3>1 DEF Renamed
  <2>3. /\ DOMAIN branch' \subseteq Names
        /\ \A n \in DOMAIN branch' : branch'[n] \subseteq Work
    BY <1>1, <2>1, <2>2 DEF TypeOK, Existing
  <2>4. /\ \A t \in Tasks : wt[t] # "none" => wt'[t] # "none"
        /\ \A t \in Tasks : wt[t] = "plain" => wt'[t] = "plain"
    BY <1>1, <2>1, <2>2, WorktreesAssumption
  <2>5. "remember" \in RequestPC /\ Go(u, "remember")
    BY <2>1 DEF RequestPC, Renames
  <2>6. Becomes(u, "remember", req[u].op, req[u].task, req[u].name, req[u].base, req[u].merged)
    BY <1>1, <2>5, GoBecomes
  <2>7. req' \in [Users -> Request] /\ RequestsOK'
    BY <1>1, <2>4, <2>6, RequestsFit
  <2>8. head' \in DOMAIN branch' \cup {NoName}
    BY <1>1, <2>1, <2>2 DEF TypeOK, Renames, Existing
  <2>9. TypeOK'
    BY <1>1, <2>3, <2>2, <2>7, <2>8 DEF TypeOK, Existing
  <2>10. QED
    BY <1>1, <2>4, <2>7, <2>9 DEF TypeInv
<1>3. CASE RenameFails(u)
  <2>1. Becomes(u, "free", "none", NoName, NoName, Main, FALSE) /\ UNCHANGED wt
    BY <1>1, <1>3, FreeBecomes DEF RenameFails
  <2>2. req' \in [Users -> Request] /\ RequestsOK'
    BY <1>1, <2>1, RequestsFit
  <2>3. TypeOK'
    BY <1>1, <1>3, <2>2 DEF TypeOK, Existing, RenameFails
  <2>4. QED
    BY <1>1, <1>3, <2>2, <2>3 DEF TypeInv, RenameFails
<1>4. QED
  BY <1>2, <1>3, RenameWays

LEMMA RememberType ==
    ASSUME TypeInv, NEW u \in Users, Remember(u)
    PROVE  TypeInv'
<1>1. TypeOK /\ UNCHANGED wt /\ Free(u) /\ req[u].task \in Tasks /\ req[u].name \in Names
  BY DEF TypeInv, RequestsOK, Remember, repo
<1>2. Becomes(u, "free", "none", NoName, NoName, Main, FALSE)
  BY <1>1, FreeBecomes
<1>3. req' \in [Users -> Request] /\ RequestsOK'
  BY <1>1, <1>2, RequestsFit
<1>4. /\ cache' \in [Tasks -> Names \cup {NoName}]
      /\ \A t \in Tasks : cache[t] \in Names => cache'[t] \in Names
  BY <1>1 DEF TypeOK, Remember
<1>5. TypeOK'
  BY <1>3, <1>4 DEF TypeInv, TypeOK, Remember, Existing, repo, seen
<1>6. QED
  BY <1>3, <1>4, <1>5 DEF TypeInv, Remember, repo

LEMMA CheckoutType ==
    ASSUME TypeInv, NEW n \in Names, Checkout(n) \/ CheckoutCommit(n)
    PROVE  TypeInv'
<1>1. turns' \in 0 .. MaxTurns
  BY TurnCounts DEF TypeInv, Checkout, CheckoutCommit
<1>2. head' \in Existing \cup {NoName} /\ at' \subseteq Work
  BY DEF TypeInv, TypeOK, Checkout, CheckoutCommit, Existing
<1>3. UNCHANGED <<branch, remote, merging, wt, rebasing, cache, status, fr, req, made, loose,
                  reviewed, asked>>
  BY DEF Checkout, CheckoutCommit, seen
<1>4. TypeOK'
  BY <1>1, <1>2, <1>3 DEF TypeInv, TypeOK, Existing
<1>5. QED
  BY <1>3, <1>4 DEF TypeInv, RequestsOK

LEMMA CrashType ==
    ASSUME TypeInv, Crash
    PROVE  TypeInv'
<1>1. req' \in [Users -> Request] /\ \A u \in Users : req'[u].pc = "free"
  BY NoRequestTypes DEF Crash
<1>2. TypeOK'
  BY <1>1 DEF TypeInv, TypeOK, Crash, Existing, seen
<1>3. RequestsOK'
  BY <1>1 DEF RequestsOK
<1>4. QED
  BY <1>2, <1>3 DEF TypeInv, Crash

LEMMA StutterType ==
    ASSUME TypeInv, UNCHANGED wvars
    PROVE  TypeInv'
<1>1. TypeOK' /\ RequestsOK'
  BY DEF TypeInv, TypeOK, RequestsOK, Existing, wvars
<1>2. QED
  BY <1>1 DEF TypeInv, wvars

LEMMA TypeInit ==
    ASSUME Init
    PROVE  TypeInv
<1>1. /\ DOMAIN branch = Shared /\ \A n \in Shared : branch[n] = {}
      /\ remote = branch /\ Shared \subseteq Names /\ Main \in Shared
  BY WorktreesAssumption DEF Init
<1>2. req \in [Users -> Request] /\ \A u \in Users : req[u].pc = "free"
  BY NoRequestTypes DEF Init
<1>3. turns \in 0 .. MaxTurns
  BY WorktreesAssumption DEF Init
<1>4. TypeOK
  BY <1>1, <1>2, <1>3 DEF Init, TypeOK, Existing
<1>5. QED
  BY <1>2, <1>4 DEF Init, TypeInv, RequestsOK

\* The steps, one by one.
LEMMA Steps ==
    ASSUME Next
    PROVE  \/ \E t \in Tasks : \/ CreateWorktree(t) \/ AddWorktree(t) \/ EndRun(t) \/ Reject(t)
                               \/ \E w \in Work : Commit(t, w)
           \/ \E u \in Users, t \in Tasks :
                  \/ \E options \in Options : Accept(u, t, options)
                  \/ MergeEndpoint(u, t)
                  \/ \E n \in NewNames[t] : StartRename(u, t, n)
           \/ \E u \in Users :
                  \/ ReadNames(u) \/ Merge(u) \/ AbortMerge(u) \/ Rebase(u) \/ AbortRebase(u)
                  \/ PushBranch(u) \/ ReadHead(u) \/ PushHead(u) \/ EndRequest(u)
                  \/ Rename(u) \/ Remember(u)
           \/ \E n \in Names : Checkout(n) \/ CheckoutCommit(n)
           \/ Crash
BY DEF Next, Realize, Ask, Serve

LEMMA TypeStep ==
    ASSUME TypeInv, [Next]_wvars
    PROVE  TypeInv'
BY Steps, CreateWorktreeType, AddWorktreeType, EndRunType, RejectType, CommitType, AcceptType,
   MergeEndpointType, StartRenameType, ReadNamesType, MergeType, AbortMergeType, RebaseType,
   AbortRebaseType, PushBranchType, ReadHeadType, PushHeadType, EndRequestType, RenameType,
   RememberType, CheckoutType, CrashType, StutterType

LEMMA TypeInvCorrect == Spec => []TypeInv
<1>1. Init => TypeInv
  BY TypeInit
<1>2. TypeInv /\ [Next]_wvars => TypeInv'
  BY TypeStep
<1>3. QED
  BY <1>1, <1>2, PTL DEF Spec

\* Every variable of the worktrees and the requests keeps its type, and a worktree is
\* on a branch there is, whatever is renamed while a rebase, a merge or a run goes on.
THEOREM WorktreesTypeCorrect == Spec => []TypeOK
<1>1. TypeInv => TypeOK
  BY DEF TypeInv
<1>2. QED
  BY <1>1, TypeInvCorrect, PTL

-----------------------------------------------------------------------------
\* The steps of a request that is served: it has not been free, and the others stay.
ServeStep(u) ==
    \/ ReadNames(u) \/ Merge(u) \/ AbortMerge(u) \/ Rebase(u) \/ AbortRebase(u)
    \/ PushBranch(u) \/ ReadHead(u) \/ PushHead(u) \/ EndRequest(u) \/ Rename(u) \/ Remember(u)

AskStep(u) ==
    \E t \in Tasks :
        \/ \E options \in Options : Accept(u, t, options)
        \/ MergeEndpoint(u, t)
        \/ \E n \in NewNames[t] : StartRename(u, t, n)

LEMMA OthersStay ==
    ASSUME TypeOK, NEW u \in Users, ServeStep(u) \/ AskStep(u)
    PROVE  \A v \in Users \ {u} : req'[v] = req[v]
<1>1. req \in [Users -> Request]
  BY DEF TypeOK
<1>2. ASSUME NEW pc, Go(u, pc) \/ AfterMerge(u, pc) \/ Free(u)
      PROVE  \A v \in Users \ {u} : req'[v] = req[v]
  BY <1>1, <1>2 DEF Go, AfterMerge, Free
<1>3. CASE ReadNames(u) \/ ReadHead(u)
  BY <1>1, <1>3 DEF ReadNames, ReadHead
<1>4. CASE Merge(u)
  BY <1>2, <1>4, MergeWays DEF Succeeds, Conflicts, Refused
<1>5. CASE AbortMerge(u) \/ AbortRebase(u) \/ EndRequest(u) \/ Remember(u) \/ PushBranch(u)
           \/ PushHead(u)
  BY <1>2, <1>5 DEF AbortMerge, AbortRebase, EndRequest, Remember, PushBranch, PushHead
<1>6. CASE Rebase(u)
  BY <1>2, <1>6, RebaseWays DEF Rebased, RebaseStops
<1>7. CASE Rename(u)
  BY <1>2, <1>7, RenameWays DEF Renames, RenameFails
<1>8. CASE AskStep(u)
  BY <1>1, <1>8 DEF AskStep, Accept, MergeEndpoint, StartRename
<1>9. QED
  BY <1>3, <1>4, <1>5, <1>6, <1>7, <1>8 DEF ServeStep

\* A merge that has stopped stays that of a request about to abort it: the others do not
\* touch it, and whoever aborts ends it whosever it is.
LEMMA StoppedStays ==
    ASSUME TypeOK, StoppedByAborting, NEW u \in Users, req[u].pc \notin {"abort", "giveup"},
           ServeStep(u) \/ AskStep(u), UNCHANGED merging
    PROVE  StoppedByAborting'
<1>1. \A v \in Users \ {u} : req'[v] = req[v]
  BY OthersStay
<1>2. QED
  BY <1>1 DEF StoppedByAborting

LEMMA StoppedStep ==
    ASSUME TypeInv, StoppedByAborting, [Next]_wvars
    PROVE  StoppedByAborting'
<1>1. TypeOK
  BY DEF TypeInv
<1>2. ASSUME NEW t \in Tasks,
             CreateWorktree(t) \/ AddWorktree(t) \/ EndRun(t) \/ Reject(t)
                 \/ \E w \in Work : Commit(t, w)
      PROVE  StoppedByAborting'
  BY <1>2 DEF StoppedByAborting, CreateWorktree, AddWorktree, EndRun, Reject, Commit, repo
<1>3. ASSUME NEW u \in Users, AskStep(u)
      PROVE  StoppedByAborting'
  <2>1. req[u].pc = "free" /\ UNCHANGED merging
    BY <1>3 DEF AskStep, Accept, MergeEndpoint, StartRename, repo
  <2>2. QED
    BY <1>1, <1>3, <2>1, StoppedStays
<1>4. ASSUME NEW u \in Users, ServeStep(u), ~Merge(u), ~AbortMerge(u)
      PROVE  StoppedByAborting'
  <2>1. req[u].pc \notin {"abort", "giveup"} /\ UNCHANGED merging
    BY <1>4 DEF ServeStep, ReadNames, Rebase, AbortRebase, PushBranch, ReadHead, PushHead,
                EndRequest, Rename, Remember, repo
  <2>2. QED
    BY <1>1, <1>4, <2>1, StoppedStays
<1>5. ASSUME NEW u \in Users, Merge(u)
      PROVE  StoppedByAborting'
  <2>1. CASE UNCHANGED merging
    BY <1>1, <1>5, <2>1, StoppedStays DEF Merge, ServeStep
  <2>2. CASE Conflicts(u)
    <3>1. /\ req[u].pc = "merge" => Go(u, "abort")
          /\ req[u].pc # "merge" => Go(u, "giveup")
          /\ {"abort", "giveup"} \subseteq RequestPC
      BY <2>2 DEF Conflicts, RequestPC
    <3>2. req'[u].pc \in {"abort", "giveup"}
      BY <1>1, <3>1, GoBecomes DEF Becomes
    <3>3. QED
      BY <2>2, <3>2 DEF Conflicts, StoppedByAborting
  <2>3. QED
    BY <1>5, <2>1, <2>2, MergeWays DEF Succeeds, Refused
<1>6. ASSUME NEW u \in Users, AbortMerge(u)
      PROVE  StoppedByAborting'
  BY <1>6, WorktreesAssumption DEF AbortMerge, Aborted, StoppedByAborting
<1>7. CASE \E n \in Names : Checkout(n) \/ CheckoutCommit(n)
  BY <1>7 DEF Checkout, CheckoutCommit, StoppedByAborting
<1>8. CASE Crash
  BY <1>8, WorktreesAssumption DEF Crash, StoppedByAborting
<1>9. CASE UNCHANGED wvars
  BY <1>9 DEF wvars, StoppedByAborting
<1>10. QED
  BY <1>2, <1>3, <1>4, <1>5, <1>6, <1>7, <1>8, <1>9, Steps DEF AskStep, ServeStep

\* The main working tree is in the middle of a merge only while a request is about to
\* abort it, for any number of requests that merge at a time (merge_to_main).
THEOREM NothingHalfMergedCorrect == Spec => []NothingHalfMerged
<1>1. Init => StoppedByAborting
  BY WorktreesAssumption DEF Init, StoppedByAborting
<1>2. TypeInv /\ StoppedByAborting /\ [Next]_wvars => StoppedByAborting'
  BY StoppedStep
<1>3. StoppedByAborting => NothingHalfMerged
  BY DEF StoppedByAborting, NothingHalfMerged
<1>4. QED
  BY <1>1, <1>2, <1>3, TypeInvCorrect, PTL DEF Spec

-----------------------------------------------------------------------------
\* Every step keeps what is on a branch on a branch.
LEMMA KeptStep ==
    ASSUME TypeInv, WorkKept, [Next]_wvars
    PROVE  WorkKept'
<1>1. TypeOK
  BY DEF TypeInv
<1>2. ASSUME UNCHANGED <<branch, made, loose>>
      PROVE  WorkKept'
  BY <1>2 DEF WorkKept, Existing
<1>3. ASSUME UNCHANGED <<made, loose>>,
             \A n \in Existing : n \in DOMAIN branch' /\ branch[n] \subseteq branch'[n]
      PROVE  WorkKept'
  BY <1>3 DEF WorkKept, Existing
<1>4. ASSUME NEW t \in Tasks, CreateWorktree(t) \/ EndRun(t) \/ Reject(t)
      PROVE  WorkKept'
  BY <1>2, <1>4 DEF CreateWorktree, EndRun, Reject, repo, seen
<1>5. ASSUME NEW t \in Tasks, AddWorktree(t)
      PROVE  WorkKept'
  <2>1. \A n \in Existing : n \in DOMAIN branch' /\ branch[n] \subseteq branch'[n]
    BY <1>5 DEF AddWorktree, With, Existing
  <2>2. QED
    BY <1>3, <1>5, <2>1 DEF AddWorktree, seen
<1>6. ASSUME NEW t \in Tasks, NEW w \in Work, Commit(t, w)
      PROVE  WorkKept'
  <2>1. wt[t] \in Existing
    BY <1>1, <1>6, NamesKnown DEF Commit
  <2>2. CASE t \in rebasing
    BY <1>6, <2>2 DEF Commit, WorkKept, Existing
  <2>3. CASE t \notin rebasing
    <3>1. /\ DOMAIN branch' = Existing /\ w \in branch'[wt[t]]
          /\ \A n \in Existing : branch[n] \subseteq branch'[n]
      BY <1>6, <2>1, <2>3 DEF Commit, Existing
    <3>2. made' = made \cup {w} /\ loose' = loose
      BY <1>6, <2>3 DEF Commit
    <3>3. QED
      BY <2>1, <3>1, <3>2 DEF WorkKept, Existing
  <2>4. QED
    BY <2>2, <2>3
<1>7. ASSUME NEW u \in Users, AskStep(u)
      PROVE  WorkKept'
  BY <1>2, <1>7 DEF AskStep, Accept, MergeEndpoint, StartRename, repo, seen
<1>8. ASSUME NEW u \in Users, ServeStep(u), ~Merge(u), ~Rebase(u), ~Rename(u)
      PROVE  WorkKept'
  BY <1>2, <1>8 DEF ServeStep, ReadNames, AbortMerge, AbortRebase, PushBranch, ReadHead,
                    PushHead, EndRequest, Remember, repo, seen
<1>9. ASSUME NEW u \in Users, Merge(u)
      PROVE  WorkKept'
  <2>1. UNCHANGED <<made, loose>>
    BY <1>9 DEF Merge, seen
  <2>2. CASE Succeeds(u)
    <3>1. branch[req[u].name] \in SUBSET Work /\ AddToHead(branch[req[u].name])
      BY <1>1, <2>2 DEF TypeOK, Succeeds, Existing
    <3>2. QED
      BY <1>1, <1>3, <2>1, <3>1, AddToHeadDoes
  <2>3. CASE Conflicts(u) \/ Refused(u)
    BY <1>2, <2>1, <2>3 DEF Conflicts, Refused
  <2>4. QED
    BY <1>9, <2>2, <2>3, MergeWays
<1>10. ASSUME NEW u \in Users, Rebase(u)
       PROVE  WorkKept'
  <2>1. UNCHANGED <<made, loose>> /\ req[u].pc = "rebase"
    BY <1>10 DEF Rebase, seen
  <2>2. CASE Rebased(u)
    BY <1>3, <2>1, <2>2, RebasedDoes
  <2>3. CASE RebaseStops(u)
    BY <1>2, <2>1, <2>3 DEF RebaseStops
  <2>4. QED
    BY <1>10, <2>2, <2>3, RebaseWays
<1>11. ASSUME NEW u \in Users, Rename(u)
       PROVE  WorkKept'
  <2>1. UNCHANGED <<made, loose>> /\ req[u].name \in Names
    BY <1>11 DEF TypeInv, RequestsOK, Rename, seen
  <2>2. CASE RenameFails(u)
    BY <1>2, <2>1, <2>2 DEF RenameFails
  <2>3. ASSUME NEW old, NEW new \in Names, Renames(u, old, new)
        PROVE  WorkKept'
    <3>1. Renamed(old, new)
      BY <1>1, <2>3, RenamesDoes
    <3>2. \A n \in Existing : \E m \in DOMAIN branch' : branch'[m] = branch[n]
      BY <3>1 DEF Renamed
    <3>3. QED
      BY <2>1, <3>2 DEF WorkKept, Existing
  <2>4. QED
    BY <1>11, <2>1, <2>2, <2>3, RenameWays
<1>12. CASE \E n \in Names : Checkout(n) \/ CheckoutCommit(n)
  BY <1>2, <1>12 DEF Checkout, CheckoutCommit, seen
<1>13. CASE Crash
  BY <1>2, <1>13 DEF Crash, seen
<1>14. CASE UNCHANGED wvars
  BY <1>2, <1>14 DEF wvars
<1>15. QED
  BY <1>4, <1>5, <1>6, <1>7, <1>8, <1>9, <1>10, <1>11, <1>12, <1>13, <1>14, Steps
     DEF AskStep, ServeStep

\* What a realizer has committed stays on some branch, through merges, aborts, rebases,
\* renames and restarts, for any number of tasks, requests and names.
THEOREM WorkKeptCorrect == Spec => []WorkKept
<1>1. Init => WorkKept
  BY DEF Init, WorkKept
<1>2. TypeInv /\ WorkKept /\ [Next]_wvars => WorkKept'
  BY KeptStep
<1>3. QED
  BY <1>1, <1>2, TypeInvCorrect, PTL DEF Spec

-----------------------------------------------------------------------------
(***************************************************************************)
(* Where no two tasks ever use one name.                                   *)
(***************************************************************************)
\* The names the branch of a task may have, or be taken to have.
NamesOf(t) == {NameOf[t], Fallback[t]} \cup NewNames[t]

\* Titles, ids and people make names that differ from task to task and from those of
\* the branches there were.
OwnNames ==
    /\ \A t \in Tasks : NamesOf(t) \cap Shared = {}
    /\ \A s, t \in Tasks : s # t => NamesOf(s) \cap NamesOf(t) = {}

\* The branches are the shared ones and those of the worktrees, and the main working
\* tree is on a shared one or on none.
BranchesOwned ==
    /\ Shared \subseteq Existing
    /\ \A n \in Existing \ Shared : \E t \in Tasks : wt[t] = n
    /\ \A t \in Tasks : wt[t] \in NamesOf(t) \cup {"none", "plain"}
    /\ \A t \in Tasks : cache[t] \in NamesOf(t) \cup {NoName}
    /\ head \in Shared \cup {NoName}

\* A request works with a name of its task, stale or not, and on a shared branch.
RequestsOwned ==
    \A u \in Users :
        /\ req[u].name # NoName => req[u].name \in NamesOf(req[u].task)
        /\ req[u].base \in Shared

LEMMA NamesOwned ==
    ASSUME OwnNames, TypeOK, BranchesOwned, NEW t \in Tasks
    PROVE  /\ NamesOf(t) \subseteq Names /\ NamesOf(t) \cap Shared = {}
           /\ BranchName(t) \in NamesOf(t) /\ DerivedName(t) \in NamesOf(t)
           /\ \A s \in Tasks : wt[s] \in NamesOf(t) => s = t
           /\ \A n \in NamesOf(t) \cap Existing : wt[t] = n
           /\ wt[t] \in Names => wt[t] \in NamesOf(t)
<1>1. NamesOf(t) \subseteq Names /\ NamesOf(t) \cap Shared = {}
  BY WorktreesAssumption DEF NamesOf, OwnNames
<1>2. "none" \notin Names /\ "plain" \notin Names /\ NoName \notin Names
  BY WorktreesAssumption
<1>3. BranchName(t) \in NamesOf(t) /\ DerivedName(t) \in NamesOf(t)
  BY DEF BranchesOwned, BranchName, DerivedName, NamesOf
<1>4. \A s \in Tasks : wt[s] \in NamesOf(t) => s = t
  BY <1>1, <1>2 DEF BranchesOwned, OwnNames
<1>5. \A n \in NamesOf(t) \cap Existing : wt[t] = n
  BY <1>1, <1>4 DEF BranchesOwned
<1>6. wt[t] \in Names => wt[t] \in NamesOf(t)
  BY <1>2 DEF BranchesOwned
<1>7. QED
  BY <1>1, <1>3, <1>4, <1>5, <1>6

\* Steps that leave the names there are, the worktrees and HEAD alone.
LEMMA OwnedStays ==
    ASSUME BranchesOwned, DOMAIN branch' = Existing, UNCHANGED <<wt, head>>,
           \A t \in Tasks : cache'[t] \in NamesOf(t) \cup {NoName}
    PROVE  BranchesOwned'
BY DEF BranchesOwned, Existing, NamesOf

LEMMA BranchesOwnedStep ==
    ASSUME OwnNames, TypeInv, BranchesOwned, RequestsOwned, [Next]_wvars
    PROVE  BranchesOwned'
<1>1. TypeOK
  BY DEF TypeInv
<1>2. ASSUME DOMAIN branch' = Existing, UNCHANGED <<wt, head, cache>>
      PROVE  BranchesOwned'
  BY <1>2, OwnedStays DEF BranchesOwned
<1>3. ASSUME NEW t \in Tasks, CreateWorktree(t)
      PROVE  BranchesOwned'
  <2>1. DerivedName(t) \in NamesOf(t)
    BY <1>1, NamesOwned
  <2>2. /\ UNCHANGED <<branch, head>>
        /\ \A s \in Tasks : wt'[s] = wt[s] \/ (wt[s] = "none" /\ wt'[s] = "plain")
    BY <1>1, <1>3 DEF CreateWorktree, TypeOK
  <2>3. \A s \in Tasks : cache'[s] = IF s = t THEN DerivedName(t) ELSE cache[s]
    BY <1>1, <1>3 DEF CreateWorktree, TypeOK
  <2>4. \A s \in Tasks : cache'[s] \in NamesOf(s) \cup {NoName}
    BY <2>1, <2>3 DEF BranchesOwned
  <2>5. \A n \in Existing : n # "none"
    BY <1>1, WorktreesAssumption DEF TypeOK, Existing
  <2>6. QED
    BY <2>2, <2>4, <2>5 DEF BranchesOwned, Existing, NamesOf
<1>4. ASSUME NEW t \in Tasks, AddWorktree(t)
      PROVE  BranchesOwned'
  <2>1. wt[t] = "plain" /\ cache[t] \in Names /\ cache[t] \in NamesOf(t)
    BY <1>4, WorktreesAssumption DEF TypeInv, AddWorktree, BranchesOwned
  <2>2. CASE UNCHANGED <<branch, wt>>
    BY <1>2, <1>4, <2>2 DEF AddWorktree, Existing
  <2>3. CASE branch' = With(branch, cache[t], OnHead) /\ wt' = [wt EXCEPT ![t] = cache[t]]
    <3>1. DOMAIN branch' = Existing \cup {cache[t]} /\ UNCHANGED <<head, cache>>
      BY <1>4, <2>3 DEF With, Existing, AddWorktree
    <3>2. wt'[t] = cache[t] /\ \A s \in Tasks \ {t} : wt'[s] = wt[s]
      BY <1>1, <2>3 DEF TypeOK
    <3>3. \A n \in Existing : n # "plain"
      BY <1>1, WorktreesAssumption DEF TypeOK, Existing
    <3>4. QED
      BY <2>1, <3>1, <3>2, <3>3 DEF BranchesOwned, Existing, NamesOf
  <2>4. QED
    BY <1>4, <2>2, <2>3 DEF AddWorktree
<1>5. ASSUME NEW t \in Tasks, NEW w \in Work, Commit(t, w)
      PROVE  BranchesOwned'
  <2>1. DOMAIN branch' = Existing /\ UNCHANGED <<wt, head, cache>>
    BY <1>5 DEF Commit, Existing
  <2>2. QED
    BY <1>2, <2>1
<1>6. ASSUME NEW t \in Tasks, EndRun(t) \/ Reject(t)
      PROVE  BranchesOwned'
  BY <1>2, <1>6 DEF EndRun, Reject, repo, Existing
<1>7. ASSUME NEW u \in Users, AskStep(u)
      PROVE  BranchesOwned'
  BY <1>2, <1>7 DEF AskStep, Accept, MergeEndpoint, StartRename, repo, Existing
<1>8. ASSUME NEW u \in Users, ServeStep(u),
             ~Merge(u), ~Rebase(u), ~Rename(u), ~Remember(u)
      PROVE  BranchesOwned'
  BY <1>2, <1>8 DEF ServeStep, ReadNames, AbortMerge, AbortRebase, PushBranch, ReadHead,
                    PushHead, EndRequest, repo, Existing
<1>9. ASSUME NEW u \in Users, Merge(u)
      PROVE  BranchesOwned'
  <2>1. UNCHANGED <<wt, head, cache>>
    BY <1>9 DEF Merge
  <2>2. CASE Succeeds(u)
    <3>1. branch[req[u].name] \in SUBSET Work /\ AddToHead(branch[req[u].name])
      BY <1>1, <2>2 DEF TypeOK, Succeeds, Existing
    <3>2. QED
      BY <1>1, <1>2, <2>1, <3>1, AddToHeadDoes
  <2>3. CASE Conflicts(u) \/ Refused(u)
    BY <1>2, <2>1, <2>3 DEF Conflicts, Refused, Existing
  <2>4. QED
    BY <1>9, <2>2, <2>3, MergeWays
<1>10. ASSUME NEW u \in Users, Rebase(u)
       PROVE  BranchesOwned'
  <2>1. UNCHANGED <<wt, head, cache>> /\ req[u].pc = "rebase"
    BY <1>10 DEF Rebase
  <2>2. CASE Rebased(u)
    BY <1>2, <2>1, <2>2, RebasedDoes
  <2>3. CASE RebaseStops(u)
    BY <1>2, <2>1, <2>3 DEF RebaseStops, Existing
  <2>4. QED
    BY <1>10, <2>2, <2>3, RebaseWays
<1>11. ASSUME NEW u \in Users, Rename(u)
       PROVE  BranchesOwned'
  <2>1. /\ req[u].task \in Tasks /\ req[u].name \in Names /\ UNCHANGED cache
        /\ req[u].name \in NamesOf(req[u].task)
    BY <1>11, WorktreesAssumption DEF TypeInv, RequestsOK, RequestsOwned, Rename
  <2>2. CASE RenameFails(u)
    BY <1>2, <2>1, <2>2 DEF RenameFails, Existing
  <2>3. ASSUME NEW t \in Tasks, NEW old \in NamesOf(t), NEW new \in NamesOf(t),
               Renames(u, old, new)
        PROVE  BranchesOwned'
    <3>1. /\ NamesOf(t) \subseteq Names /\ NamesOf(t) \cap Shared = {}
          /\ \A s \in Tasks : wt[s] \in NamesOf(t) => s = t
      BY <1>1, NamesOwned
    <3>2. Renamed(old, new)
      BY <1>1, <2>3, <3>1, RenamesDoes
    <3>3. head' = head
      BY <2>3, <3>1, WorktreesAssumption DEF Renames, BranchesOwned
    <3>4. Shared \subseteq DOMAIN branch'
      BY <3>1, <3>2 DEF Renamed, BranchesOwned
    <3>5. \A n \in DOMAIN branch' \ Shared : \E s \in Tasks : wt'[s] = n
      BY <3>1, <3>2 DEF Renamed, BranchesOwned
    <3>6. \A s \in Tasks : wt'[s] \in NamesOf(s) \cup {"none", "plain"}
      BY <3>1, <3>2 DEF Renamed, BranchesOwned
    <3>7. QED
      BY <2>1, <3>3, <3>4, <3>5, <3>6 DEF BranchesOwned, Existing, NamesOf
  <2>4. BranchName(req[u].task) \in NamesOf(req[u].task)
    BY <1>1, <2>1, NamesOwned
  <2>5. QED
    BY <1>11, <2>1, <2>2, <2>3, <2>4, RenameWays
<1>12. ASSUME NEW u \in Users, Remember(u)
       PROVE  BranchesOwned'
  <2>1. /\ req[u].task \in Tasks /\ req[u].name \in Names
        /\ req[u].name \in NamesOf(req[u].task)
    BY <1>12, WorktreesAssumption DEF TypeInv, RequestsOK, RequestsOwned, Remember
  <2>2. \A t \in Tasks : cache'[t] \in NamesOf(t) \cup {NoName}
    BY <1>1, <1>12, <2>1 DEF TypeOK, Remember, BranchesOwned
  <2>3. DOMAIN branch' = Existing /\ UNCHANGED <<wt, head>>
    BY <1>12 DEF Remember, repo, Existing
  <2>4. QED
    BY <2>2, <2>3, OwnedStays
<1>13. ASSUME NEW n \in Names, Checkout(n) \/ CheckoutCommit(n)
       PROVE  BranchesOwned'
  <2>1. head' \in Shared \cup {NoName}
    BY <1>13 DEF Checkout, CheckoutCommit, BranchesOwned
  <2>2. UNCHANGED <<branch, wt, cache>>
    BY <1>13 DEF Checkout, CheckoutCommit
  <2>3. QED
    BY <2>1, <2>2 DEF BranchesOwned, Existing, NamesOf
<1>14. CASE Crash
  <2>1. DOMAIN branch' = Existing /\ UNCHANGED <<wt, head>>
    BY <1>14 DEF Crash, Existing
  <2>2. \A t \in Tasks : cache'[t] = NoName
    BY <1>14 DEF Crash
  <2>3. QED
    BY <2>1, <2>2, OwnedStays
<1>15. CASE UNCHANGED wvars
  BY <1>2, <1>15 DEF wvars, Existing
<1>16. QED
  BY <1>3, <1>4, <1>5, <1>6, <1>7, <1>8, <1>9, <1>10, <1>11, <1>12, <1>13, <1>14, <1>15, Steps
     DEF AskStep, ServeStep

LEMMA RequestOwned ==
    ASSUME RequestsOwned, NEW u \in Users, NEW pc, NEW op, NEW task, NEW name,
           NEW base \in Shared, NEW merged,
           Becomes(u, pc, op, task, name, base, merged),
           name # NoName => name \in NamesOf(task)
    PROVE  RequestsOwned'
BY DEF RequestsOwned, Becomes, NamesOf

LEMMA RequestsOwnedStep ==
    ASSUME OwnNames, TypeInv, BranchesOwned, RequestsOwned, [Next]_wvars
    PROVE  RequestsOwned'
<1>1. TypeOK /\ Main \in Shared
  BY WorktreesAssumption DEF TypeInv
<1>2. ASSUME UNCHANGED req
      PROVE  RequestsOwned'
  BY <1>2 DEF RequestsOwned, NamesOf
<1>3. ASSUME NEW u \in Users, NEW pc \in RequestPC, Go(u, pc)
      PROVE  RequestsOwned'
  <2>1. Becomes(u, pc, req[u].op, req[u].task, req[u].name, req[u].base, req[u].merged)
    BY <1>1, <1>3, GoBecomes
  <2>2. /\ req[u].name # NoName => req[u].name \in NamesOf(req[u].task)
        /\ req[u].base \in Shared
    BY DEF RequestsOwned
  <2>3. QED
    BY <2>1, <2>2, RequestOwned
<1>4. ASSUME NEW u \in Users, NEW merged \in BOOLEAN, AfterMerge(u, merged)
      PROVE  RequestsOwned'
  BY <1>1, <1>4, AfterMergeBecomes, RequestOwned
<1>5. ASSUME NEW u \in Users, Free(u)
      PROVE  RequestsOwned'
  BY <1>1, <1>5, FreeBecomes, RequestOwned
<1>6. ASSUME NEW t \in Tasks, CreateWorktree(t) \/ AddWorktree(t) \/ EndRun(t) \/ Reject(t)
                 \/ \E w \in Work : Commit(t, w)
      PROVE  RequestsOwned'
  BY <1>2, <1>6 DEF CreateWorktree, AddWorktree, EndRun, Reject, Commit
<1>7. ASSUME NEW u \in Users, AskStep(u)
      PROVE  RequestsOwned'
  <2>1. ASSUME NEW t \in Tasks, NEW options, Accept(u, t, options)
        PROVE  RequestsOwned'
    BY <1>1, <2>1, AcceptBecomes, RequestOwned
  <2>2. ASSUME NEW t \in Tasks, MergeEndpoint(u, t)
        PROVE  RequestsOwned'
    BY <1>1, <2>2, MergeEndpointBecomes, RequestOwned
  <2>3. ASSUME NEW t \in Tasks, NEW n \in NewNames[t], StartRename(u, t, n)
        PROVE  RequestsOwned'
    <3>1. n \in NamesOf(t) /\ n \in Names
      BY WorktreesAssumption DEF NamesOf
    <3>2. Becomes(u, "rename", "rename", t, n, Main, FALSE)
      BY <1>1, <2>3, <3>1, StartRenameBecomes
    <3>3. QED
      BY <1>1, <3>1, <3>2, RequestOwned
  <2>4. QED
    BY <1>7, <2>1, <2>2, <2>3 DEF AskStep
<1>8. ASSUME NEW u \in Users, ReadNames(u)
      PROVE  RequestsOwned'
  <2> DEFINE base == IF head = NoName THEN Main ELSE head
             t == req[u].task
  <2>1. t \in Tasks
    BY <1>8 DEF TypeInv, RequestsOK, ReadNames
  <2>2. BranchName(t) \in NamesOf(t) /\ BranchName(t) \in Names
    BY <1>1, <2>1, NamesOwned
  <2>3. base \in Shared
    BY <1>1 DEF BranchesOwned
  <2>4. Becomes(u, "merge", req[u].op, t, BranchName(t), base, req[u].merged)
    BY <1>1, <1>8, <2>2, ReadNamesBecomes
  <2> HIDE DEF base, t
  <2>5. QED
    BY <2>2, <2>3, <2>4, RequestOwned
<1>9. ASSUME NEW u \in Users, ReadHead(u)
      PROVE  RequestsOwned'
  <2> DEFINE base == IF head = NoName THEN Main ELSE head
  <2>1. base \in Shared
    BY <1>1 DEF BranchesOwned
  <2>2. Becomes(u, "pushhead", req[u].op, req[u].task, req[u].name, base, req[u].merged)
    BY <1>1, <1>9, ReadHeadBecomes
  <2>3. req[u].name # NoName => req[u].name \in NamesOf(req[u].task)
    BY DEF RequestsOwned
  <2> HIDE DEF base
  <2>4. QED
    BY <2>1, <2>2, <2>3, RequestOwned
<1>10. ASSUME NEW u \in Users, ServeStep(u), ~ReadNames(u), ~ReadHead(u)
       PROVE  RequestsOwned'
  <2>1. {"abort", "giveup", "rebase", "again", "unrebase", "readhead", "done",
         "remember"} \subseteq RequestPC
    BY DEF RequestPC
  <2>2. CASE Merge(u)
    <3>1. /\ req[u].pc = "merge" => (IF req[u].pc = "merge" THEN "abort" ELSE "giveup") = "abort"
          /\ req[u].pc # "merge" => (IF req[u].pc = "merge" THEN "abort" ELSE "giveup") = "giveup"
      OBVIOUS
    <3>2. AfterMerge(u, TRUE) \/ Go(u, "abort") \/ Go(u, "giveup")
      BY <2>2, <3>1, MergeWays DEF Succeeds, Conflicts, Refused
    <3>3. QED
      BY <1>3, <1>4, <2>1, <3>2
  <2>3. CASE AbortMerge(u) \/ AbortRebase(u)
    BY <1>3, <1>4, <2>1, <2>3 DEF AbortMerge, AbortRebase
  <2>4. CASE Rebase(u)
    BY <1>3, <2>1, <2>4, RebaseWays DEF Rebased, RebaseStops
  <2>5. CASE PushBranch(u) \/ PushHead(u)
    <3>1. Go(u, "readhead") \/ Go(u, "done")
      BY <2>5 DEF PushBranch, PushHead
    <3>2. QED
      BY <1>3, <2>1, <3>1
  <2>6. CASE EndRequest(u) \/ Remember(u)
    BY <1>5, <2>6 DEF EndRequest, Remember
  <2>7. CASE Rename(u)
    BY <1>3, <1>5, <2>1, <2>7, RenameWays DEF Renames, RenameFails
  <2>8. QED
    BY <1>10, <2>2, <2>3, <2>4, <2>5, <2>6, <2>7 DEF ServeStep
<1>11. CASE \E n \in Names : Checkout(n) \/ CheckoutCommit(n)
  BY <1>2, <1>11 DEF Checkout, CheckoutCommit
<1>12. CASE Crash
  <2>1. \A u \in Users : req'[u].name = NoName /\ req'[u].base = Main
    BY <1>12, NoRequestTypes DEF Crash
  <2>2. QED
    BY <1>1, <2>1 DEF RequestsOwned
<1>13. CASE UNCHANGED wvars
  BY <1>2, <1>13 DEF wvars
<1>14. QED
  BY <1>6, <1>7, <1>8, <1>9, <1>10, <1>11, <1>12, <1>13, Steps DEF AskStep, ServeStep

LEMMA OwnedCorrect ==
    ASSUME OwnNames
    PROVE  Spec => [](BranchesOwned /\ RequestsOwned)
<1>1. Init => BranchesOwned /\ RequestsOwned
  <2>1. ASSUME Init
        PROVE  BranchesOwned /\ RequestsOwned
    <3>1. DOMAIN branch = Shared /\ head = Main /\ Main \in Shared
      BY <2>1, WorktreesAssumption DEF Init
    <3>2. \A u \in Users : req[u].name = NoName /\ req[u].base = Main
      BY <2>1, NoRequestTypes DEF Init
    <3>3. \A t \in Tasks : wt[t] = "none" /\ cache[t] = NoName
      BY <2>1 DEF Init
    <3>4. QED
      BY <3>1, <3>2, <3>3 DEF BranchesOwned, RequestsOwned, Existing
  <2>2. QED
    BY <2>1
<1>2. TypeInv /\ BranchesOwned /\ RequestsOwned /\ [Next]_wvars
        => BranchesOwned' /\ RequestsOwned'
  BY BranchesOwnedStep, RequestsOwnedStep
<1>3. QED
  BY <1>1, <1>2, TypeInvCorrect, PTL DEF Spec

-----------------------------------------------------------------------------
WorkOf(t) == {w \in made : w[1] = t}

\* What has been committed for a task is on the branch its worktree is on, whichever
\* name that has by now.
WorkInPlace ==
    \A t \in Tasks :
        IF wt[t] \in Names THEN WorkOf(t) \ loose \subseteq branch[wt[t]] ELSE WorkOf(t) = {}

\* Steps that commit nothing and at most add to branches.
LEMMA InPlaceStays ==
    ASSUME TypeOK, WorkInPlace, UNCHANGED <<wt, made, loose>>,
           \A n \in Existing : branch[n] \subseteq branch'[n]
    PROVE  WorkInPlace'
<1>1. ASSUME NEW t \in Tasks, wt[t] \in Names
      PROVE  WorkOf(t) \ loose \subseteq branch'[wt[t]]
  BY <1>1, NamesKnown DEF WorkInPlace
<1>2. QED
  BY <1>1 DEF WorkInPlace, WorkOf

LEMMA InPlaceStep ==
    ASSUME TypeInv, WorkInPlace, [Next]_wvars
    PROVE  WorkInPlace'
<1>1. TypeOK
  BY DEF TypeInv
<1>2. ASSUME UNCHANGED <<branch, wt, made, loose>>
      PROVE  WorkInPlace'
  BY <1>1, <1>2, InPlaceStays
<1>3. "none" \notin Names /\ "plain" \notin Names
  BY WorktreesAssumption
<1>4. ASSUME NEW t \in Tasks, CreateWorktree(t)
      PROVE  WorkInPlace'
  <2>1. /\ UNCHANGED <<branch, made, loose>>
        /\ \A s \in Tasks : wt'[s] = wt[s] \/ (wt[s] = "none" /\ wt'[s] = "plain")
    BY <1>1, <1>4 DEF CreateWorktree, TypeOK, seen
  <2>2. QED
    BY <1>3, <2>1 DEF WorkInPlace, WorkOf
<1>5. ASSUME NEW t \in Tasks, AddWorktree(t)
      PROVE  WorkInPlace'
  <2>1. wt[t] = "plain" /\ cache[t] \in Names /\ UNCHANGED <<made, loose>>
    BY <1>5 DEF TypeInv, AddWorktree, seen
  <2>2. CASE UNCHANGED <<branch, wt>>
    BY <1>2, <2>1, <2>2
  <2>3. CASE /\ cache[t] \notin Existing /\ branch' = With(branch, cache[t], OnHead)
             /\ wt' = [wt EXCEPT ![t] = cache[t]]
    <3>1. \A n \in Existing : branch'[n] = branch[n]
      BY <2>3 DEF With, Existing
    <3>2. wt'[t] = cache[t] /\ \A s \in Tasks \ {t} : wt'[s] = wt[s]
      BY <1>1, <2>3 DEF TypeOK
    <3>3. WorkOf(t) = {}
      BY <1>3, <2>1 DEF WorkInPlace
    <3>4. \A s \in Tasks : wt[s] \in Names => wt[s] \in Existing
      BY <1>1, NamesKnown
    <3>5. QED
      BY <2>1, <3>1, <3>2, <3>3, <3>4 DEF WorkInPlace, WorkOf
  <2>4. QED
    BY <1>5, <2>2, <2>3 DEF AddWorktree
<1>6. ASSUME NEW t \in Tasks, NEW w \in Work, Commit(t, w)
      PROVE  WorkInPlace'
  <2>1. wt[t] \in Names /\ wt[t] \in Existing /\ w[1] = t /\ UNCHANGED wt
    BY <1>1, <1>6, NamesKnown DEF Commit
  <2>2. made' = made \cup {w}
    BY <1>6 DEF Commit
  <2>3. \A s \in Tasks : s # t => {v \in made' : v[1] = s} = WorkOf(s)
    BY <2>1, <2>2 DEF WorkOf
  <2>4. {v \in made' : v[1] = t} = WorkOf(t) \cup {w}
    BY <2>1, <2>2 DEF WorkOf
  <2>5. /\ loose \subseteq loose' /\ \A n \in Existing : branch[n] \subseteq branch'[n]
        /\ w \in loose' \/ w \in branch'[wt[t]]
    BY <1>6, <2>1 DEF Commit, Existing
  <2>6. \A s \in Tasks : wt[s] \in Names => wt[s] \in Existing
    BY <1>1, NamesKnown
  <2>7. ASSUME NEW s \in Tasks
        PROVE  IF wt[s] \in Names
               THEN {v \in made' : v[1] = s} \ loose' \subseteq branch'[wt[s]]
               ELSE {v \in made' : v[1] = s} = {}
    <3>1. CASE s = t
      BY <2>1, <2>4, <2>5, <3>1 DEF WorkInPlace
    <3>2. CASE s # t
      BY <2>3, <2>5, <2>6, <3>2 DEF WorkInPlace
    <3>3. QED
      BY <3>1, <3>2
  <2>8. QED
    BY <2>1, <2>7 DEF WorkInPlace, WorkOf
<1>7. ASSUME NEW t \in Tasks, EndRun(t) \/ Reject(t)
      PROVE  WorkInPlace'
  BY <1>2, <1>7 DEF EndRun, Reject, repo, seen
<1>8. ASSUME NEW u \in Users, AskStep(u)
      PROVE  WorkInPlace'
  BY <1>2, <1>8 DEF AskStep, Accept, MergeEndpoint, StartRename, repo, seen
<1>9. ASSUME NEW u \in Users, ServeStep(u), ~Merge(u), ~Rebase(u), ~Rename(u)
      PROVE  WorkInPlace'
  BY <1>2, <1>9 DEF ServeStep, ReadNames, AbortMerge, AbortRebase, PushBranch, ReadHead,
                    PushHead, EndRequest, Remember, repo, seen
<1>10. ASSUME NEW u \in Users, Merge(u)
       PROVE  WorkInPlace'
  <2>1. UNCHANGED <<wt, made, loose>>
    BY <1>10 DEF Merge, seen
  <2>2. CASE Succeeds(u)
    <3>1. branch[req[u].name] \in SUBSET Work /\ AddToHead(branch[req[u].name])
      BY <1>1, <2>2 DEF TypeOK, Succeeds, Existing
    <3>2. \A n \in Existing : branch[n] \subseteq branch'[n]
      BY <1>1, <3>1, AddToHeadDoes
    <3>3. QED
      BY <1>1, <2>1, <3>2, InPlaceStays
  <2>3. CASE Conflicts(u) \/ Refused(u)
    BY <1>2, <2>1, <2>3 DEF Conflicts, Refused
  <2>4. QED
    BY <1>10, <2>2, <2>3, MergeWays
<1>11. ASSUME NEW u \in Users, Rebase(u)
       PROVE  WorkInPlace'
  <2>1. UNCHANGED <<wt, made, loose>> /\ req[u].pc = "rebase"
    BY <1>11 DEF Rebase, seen
  <2>2. CASE Rebased(u)
    <3>1. \A n \in Existing : branch[n] \subseteq branch'[n]
      BY <2>1, <2>2, RebasedDoes
    <3>2. QED
      BY <1>1, <2>1, <3>1, InPlaceStays
  <2>3. CASE RebaseStops(u)
    BY <1>2, <2>1, <2>3 DEF RebaseStops
  <2>4. QED
    BY <1>11, <2>2, <2>3, RebaseWays
<1>12. ASSUME NEW u \in Users, Rename(u)
       PROVE  WorkInPlace'
  <2>1. UNCHANGED <<made, loose>> /\ req[u].name \in Names
    BY <1>12 DEF TypeInv, RequestsOK, Rename, seen
  <2>2. CASE RenameFails(u)
    BY <1>2, <2>1, <2>2 DEF RenameFails
  <2>3. ASSUME NEW old, NEW new \in Names, Renames(u, old, new)
        PROVE  WorkInPlace'
    <3>1. Renamed(old, new)
      BY <1>1, <2>3, RenamesDoes
    <3>2. \A s \in Tasks : wt[s] \in Names => wt[s] \in Existing
      BY <1>1, NamesKnown
    <3>3. QED
      BY <2>1, <3>1, <3>2 DEF Renamed, WorkInPlace, WorkOf
  <2>4. QED
    BY <1>12, <2>1, <2>2, <2>3, RenameWays
<1>13. CASE \E n \in Names : Checkout(n) \/ CheckoutCommit(n)
  BY <1>2, <1>13 DEF Checkout, CheckoutCommit, seen
<1>14. CASE Crash
  BY <1>2, <1>14 DEF Crash, seen
<1>15. CASE UNCHANGED wvars
  BY <1>2, <1>15 DEF wvars
<1>16. QED
  BY <1>4, <1>5, <1>6, <1>7, <1>8, <1>9, <1>10, <1>11, <1>12, <1>13, <1>14, <1>15, Steps
     DEF AskStep, ServeStep

LEMMA InPlaceCorrect == Spec => []WorkInPlace
<1>1. Init => WorkInPlace
  BY WorktreesAssumption DEF Init, WorkInPlace, WorkOf
<1>2. TypeInv /\ WorkInPlace /\ [Next]_wvars => WorkInPlace'
  BY InPlaceStep
<1>3. QED
  BY <1>1, <1>2, TypeInvCorrect, PTL DEF Spec

\* A request is told that its branch is merged only by the merge that did it.
LEMMA OnlyMergesReport ==
    ASSUME TypeInv, [Next]_wvars, NEW u \in Users, req'[u].merged, ~req[u].merged
    PROVE  Merge(u) /\ Succeeds(u)
<1>1. TypeOK
  BY DEF TypeInv
<1>2. ASSUME req'[u] = req[u]
      PROVE  FALSE
  BY <1>2
<1>3. ASSUME NEW pc \in RequestPC, Go(u, pc)
      PROVE  FALSE
  BY <1>1, <1>3, GoBecomes DEF Becomes
<1>4. ~AfterMerge(u, FALSE)
  BY <1>1, AfterMergeBecomes DEF Becomes
<1>5. ~Free(u)
  BY <1>1, FreeBecomes DEF Becomes
<1>6. ASSUME NEW v \in Users, AskStep(v)
      PROVE  FALSE
  <2>1. CASE v # u
    BY <1>1, <1>2, <1>6, <2>1, OthersStay
  <2>2. CASE v = u
    <3>1. ASSUME NEW t \in Tasks, NEW options, Accept(u, t, options)
          PROVE  FALSE
      BY <1>1, <3>1, AcceptBecomes DEF Becomes
    <3>2. ASSUME NEW t \in Tasks, MergeEndpoint(u, t)
          PROVE  FALSE
      BY <1>1, <3>2, MergeEndpointBecomes DEF Becomes
    <3>3. ASSUME NEW t \in Tasks, NEW n \in NewNames[t], StartRename(u, t, n)
          PROVE  FALSE
      <4>1. n \in Names
        BY WorktreesAssumption
      <4>2. QED
        BY <1>1, <3>3, <4>1, StartRenameBecomes DEF Becomes
    <3>4. QED
      BY <1>6, <2>2, <3>1, <3>2, <3>3 DEF AskStep
  <2>3. QED
    BY <2>1, <2>2
<1>7. ASSUME NEW v \in Users, ServeStep(v)
      PROVE  Merge(u) /\ Succeeds(u)
  <2>1. v = u
    BY <1>1, <1>2, <1>7, OthersStay
  <2>2. {"abort", "giveup", "rebase", "again", "unrebase", "readhead", "done",
         "remember"} \subseteq RequestPC
    BY DEF RequestPC
  <2>3. ~ReadNames(u)
    <3>1. ASSUME ReadNames(u)
          PROVE  FALSE
      <4>1. BranchName(req[u].task) \in Names
        BY <1>1, <3>1, NamesKnown DEF TypeInv, RequestsOK, ReadNames
      <4>2. QED
        BY <1>1, <3>1, <4>1, ReadNamesBecomes DEF Becomes
    <3>2. QED
      BY <3>1
  <2>4. ~ReadHead(u)
    BY <1>1, ReadHeadBecomes DEF Becomes
  <2>5. ~AbortMerge(u) /\ ~AbortRebase(u)
    BY <1>3, <1>4, <2>2 DEF AbortMerge, AbortRebase
  <2>6. ~Rebase(u)
    BY <1>3, <2>2, RebaseWays DEF Rebased, RebaseStops
  <2>7. ~PushBranch(u) /\ ~PushHead(u)
    <3>1. (PushBranch(u) \/ PushHead(u)) => Go(u, "readhead") \/ Go(u, "done")
      BY DEF PushBranch, PushHead
    <3>2. QED
      BY <1>3, <2>2, <3>1
  <2>8. ~EndRequest(u) /\ ~Remember(u)
    BY <1>5 DEF EndRequest, Remember
  <2>9. ~Rename(u)
    BY <1>3, <1>5, <2>2, RenameWays DEF Renames, RenameFails
  <2>10. ~Conflicts(u) /\ ~Refused(u)
    <3>1. \/ (IF req[u].pc = "merge" THEN "abort" ELSE "giveup") = "abort"
          \/ (IF req[u].pc = "merge" THEN "abort" ELSE "giveup") = "giveup"
      OBVIOUS
    <3>2. Conflicts(u) \/ Refused(u) => Go(u, "abort") \/ Go(u, "giveup")
      BY <3>1 DEF Conflicts, Refused
    <3>3. QED
      BY <1>3, <2>2, <3>2
  <2>11. QED
    BY <1>7, <2>1, <2>3, <2>4, <2>5, <2>6, <2>7, <2>8, <2>9, <2>10, MergeWays DEF ServeStep
<1>8. CASE \E t \in Tasks : CreateWorktree(t) \/ AddWorktree(t) \/ EndRun(t) \/ Reject(t)
                 \/ \E w \in Work : Commit(t, w)
  BY <1>2, <1>8 DEF CreateWorktree, AddWorktree, EndRun, Reject, Commit
<1>9. CASE \E n \in Names : Checkout(n) \/ CheckoutCommit(n)
  BY <1>2, <1>9 DEF Checkout, CheckoutCommit
<1>10. CASE Crash
  BY <1>10, NoRequestTypes DEF Crash
<1>11. CASE UNCHANGED wvars
  BY <1>2, <1>11 DEF wvars
<1>12. QED
  BY <1>6, <1>7, <1>8, <1>9, <1>10, <1>11, Steps DEF AskStep, ServeStep

\* When a merge is reported, the work of its task is where it was merged into, however
\* old the name the request read is: a name that is no longer that of the task's branch
\* is nobody's, and git refuses it.
THEOREM MergedIsThereCorrect ==
    ASSUME OwnNames
    PROVE  Spec => MergedIsThere
<1> DEFINE Reported ==
      \A u \in Users :
          req'[u].merged /\ ~req[u].merged =>
              {w \in made \ loose : w[1] = req[u].task} \subseteq OnHead'
<1>1. ASSUME TypeInv, BranchesOwned, RequestsOwned, WorkInPlace, [Next]_wvars
      PROVE  Reported
  <2>1. SUFFICES ASSUME NEW u \in Users, req'[u].merged, ~req[u].merged
                 PROVE  {w \in made \ loose : w[1] = req[u].task} \subseteq OnHead'
    OBVIOUS
  <2>2. Merge(u) /\ Succeeds(u)
    BY <1>1, <2>1, OnlyMergesReport
  <2> DEFINE t == req[u].task
             n == req[u].name
  <2>3. TypeOK /\ t \in Tasks /\ n \in Existing /\ head' = head
    BY <1>1, <2>2 DEF TypeInv, RequestsOK, Merge, Succeeds
  <2>4. n \in Names /\ n # NoName
    BY <2>3, WorktreesAssumption DEF TypeOK, Existing
  <2>5. n \in NamesOf(t)
    BY <1>1, <2>4 DEF RequestsOwned
  <2>6. wt[t] = n
    BY <1>1, <2>3, <2>5, NamesOwned
  <2>7. {w \in made \ loose : w[1] = t} \subseteq branch[n]
    BY <1>1, <2>3, <2>4, <2>6 DEF WorkInPlace, WorkOf
  <2>8. branch[n] \in SUBSET Work /\ AddToHead(branch[n])
    BY <2>2, <2>3 DEF TypeOK, Succeeds, Existing
  <2>9. IF head = NoName THEN branch[n] \subseteq at' ELSE branch[n] \subseteq branch'[head]
    BY <2>3, <2>8, AddToHeadDoes
  <2>10. QED
    BY <2>3, <2>7, <2>9 DEF OnHead
<1>2. Spec => []TypeInv /\ [](BranchesOwned /\ RequestsOwned) /\ []WorkInPlace
  BY TypeInvCorrect, OwnedCorrect, InPlaceCorrect
<1>3. TypeInv /\ BranchesOwned /\ RequestsOwned /\ WorkInPlace /\ [Next]_wvars => [Reported]_wvars
  BY <1>1
<1>4. QED
  BY <1>2, <1>3, PTL DEF Spec, MergedIsThere

-----------------------------------------------------------------------------
\* What may be shared: what a person accepted, or asked to have merged.
Fit == reviewed \cup {w \in made : w[1] \in asked}

Settled(t) == status[t] \in {"accepted", "done"}

\* A realizer works on open tasks only, so that nothing is added to a task after it is
\* accepted.
ReviewsInOrder ==
    /\ \A t \in Tasks : fr[t] # "idle" => status[t] = "open"
    /\ \A t \in Tasks : Settled(t) => WorkOf(t) \subseteq reviewed

\* Who merges has been allowed to.
RequestsInOrder ==
    \A u \in Users :
        /\ req[u].op = "accept" => req[u].task \in Tasks /\ Settled(req[u].task)
        /\ req[u].op = "merge" => req[u].task \in asked
        /\ req[u].pc \notin {"free", "rename", "remember"} => req[u].op \in {"accept", "merge"}

\* What a step has to show of the request it changes.
LEMMA RequestInOrder ==
    ASSUME RequestsInOrder, NEW u \in Users, NEW pc, NEW op, NEW task, NEW name,
           NEW base, NEW merged, Becomes(u, pc, op, task, name, base, merged),
           op = "accept" => task \in Tasks /\ status'[task] \in {"accepted", "done"},
           op = "merge" => task \in asked',
           pc \notin {"free", "rename", "remember"} => op \in {"accept", "merge"},
           \A t \in Tasks : Settled(t) => status'[t] \in {"accepted", "done"},
           asked \subseteq asked'
    PROVE  RequestsInOrder'
BY DEF RequestsInOrder, Becomes, Settled

\* Requests that only move on.
LEMMA InOrderMovesOn ==
    ASSUME RequestsInOrder, NEW u \in Users, NEW pc, NEW name, NEW base, NEW merged,
           Becomes(u, pc, req[u].op, req[u].task, name, base, merged),
           pc \notin {"free", "rename", "remember"}
               => req[u].pc \notin {"free", "rename", "remember"},
           UNCHANGED <<status, asked>>
    PROVE  RequestsInOrder'
BY DEF RequestsInOrder, Becomes, Settled

LEMMA RequestsInOrderStep ==
    ASSUME TypeInv, ReviewsInOrder, RequestsInOrder, [Next]_wvars
    PROVE  RequestsInOrder'
<1>1. TypeOK
  BY DEF TypeInv
<1>2. ASSUME UNCHANGED <<req, asked>>, \A t \in Tasks : Settled(t) => status'[t] = status[t]
      PROVE  RequestsInOrder'
  BY <1>2 DEF RequestsInOrder, Settled
<1>3. ASSUME NEW u \in Users, NEW pc \in RequestPC, Go(u, pc), UNCHANGED <<status, asked>>,
             pc \notin {"free", "rename", "remember"}
                 => req[u].pc \notin {"free", "rename", "remember"}
      PROVE  RequestsInOrder'
  BY <1>1, <1>3, GoBecomes, InOrderMovesOn
<1>4. ASSUME NEW u \in Users, NEW merged \in BOOLEAN, AfterMerge(u, merged),
             UNCHANGED <<status, asked>>, req[u].pc \notin {"free", "rename", "remember"}
      PROVE  RequestsInOrder'
  BY <1>1, <1>4, AfterMergeBecomes, InOrderMovesOn
<1>5. ASSUME NEW u \in Users, Free(u), UNCHANGED asked,
             \A t \in Tasks : Settled(t) => status'[t] \in {"accepted", "done"}
      PROVE  RequestsInOrder'
  <2>1. Becomes(u, "free", "none", NoName, NoName, Main, FALSE)
    BY <1>1, <1>5, FreeBecomes
  <2>2. QED
    BY <1>5, <2>1 DEF RequestsInOrder, Becomes, Settled
<1>6. ASSUME NEW t \in Tasks, CreateWorktree(t) \/ AddWorktree(t) \/ \E w \in Work : Commit(t, w)
      PROVE  RequestsInOrder'
  BY <1>2, <1>6 DEF CreateWorktree, AddWorktree, Commit, seen
<1>7. ASSUME NEW t \in Tasks, EndRun(t) \/ Reject(t)
      PROVE  RequestsInOrder'
  <2>1. status[t] \in {"open", "review"} /\ UNCHANGED <<req, asked>>
    BY <1>7 DEF EndRun, Reject, ReviewsInOrder, seen
  <2>2. \A s \in Tasks : s # t => status'[s] = status[s]
    BY <1>1, <1>7 DEF EndRun, Reject, TypeOK
  <2>3. QED
    BY <1>2, <2>1, <2>2 DEF Settled
<1>8. ASSUME NEW u \in Users, NEW t \in Tasks, NEW options, Accept(u, t, options)
      PROVE  RequestsInOrder'
  <2>1. UNCHANGED asked /\ \A s \in Tasks : status'[s] = IF s = t THEN "accepted" ELSE status[s]
    BY <1>1, <1>8 DEF Accept, TypeOK
  <2>2. Becomes(u, FirstPC(options), "accept", t, NoName, Main, FALSE)
    BY <1>1, <1>8, AcceptBecomes
  <2>3. QED
    BY <2>1, <2>2 DEF RequestsInOrder, Becomes, Settled
<1>9. ASSUME NEW u \in Users, NEW t \in Tasks, MergeEndpoint(u, t)
      PROVE  RequestsInOrder'
  <2>1. UNCHANGED status /\ asked' = asked \cup {t}
    BY <1>9 DEF MergeEndpoint
  <2>2. Becomes(u, "read", "merge", t, NoName, Main, FALSE)
    BY <1>1, <1>9, MergeEndpointBecomes
  <2>3. QED
    BY <2>1, <2>2, RequestInOrder DEF Settled
<1>10. ASSUME NEW u \in Users, NEW t \in Tasks, NEW n \in NewNames[t], StartRename(u, t, n)
       PROVE  RequestsInOrder'
  <2>1. UNCHANGED <<status, asked>> /\ n \in Names
    BY <1>10, WorktreesAssumption DEF StartRename, seen
  <2>2. Becomes(u, "rename", "rename", t, n, Main, FALSE)
    BY <1>1, <1>10, <2>1, StartRenameBecomes
  <2>3. QED
    BY <2>1, <2>2, RequestInOrder DEF Settled
<1>11. ASSUME NEW u \in Users, ServeStep(u)
       PROVE  RequestsInOrder'
  <2>1. {"abort", "giveup", "rebase", "again", "unrebase", "readhead", "done",
         "remember"} \subseteq RequestPC
    BY DEF RequestPC
  <2>2. CASE ReadNames(u) \/ ReadHead(u)
    <3>1. /\ UNCHANGED <<status, asked>> /\ req[u].pc \in {"read", "readhead"}
          /\ req[u].task \in Tasks
      BY <2>2 DEF TypeInv, RequestsOK, ReadNames, ReadHead, seen
    <3>2. BranchName(req[u].task) \in Names
      BY <1>1, <3>1, NamesKnown
    <3>3. CASE ReadNames(u)
      BY <1>1, <3>1, <3>2, <3>3, ReadNamesBecomes, InOrderMovesOn
    <3>4. CASE ReadHead(u)
      BY <1>1, <3>1, <3>4, ReadHeadBecomes, InOrderMovesOn
    <3>5. QED
      BY <2>2, <3>3, <3>4
  <2>3. CASE Merge(u)
    <3>1. \/ (IF req[u].pc = "merge" THEN "abort" ELSE "giveup") = "abort"
          \/ (IF req[u].pc = "merge" THEN "abort" ELSE "giveup") = "giveup"
      OBVIOUS
    <3>2. AfterMerge(u, TRUE) \/ Go(u, "abort") \/ Go(u, "giveup")
      BY <2>3, <3>1, MergeWays DEF Succeeds, Conflicts, Refused
    <3>3. UNCHANGED <<status, asked>> /\ req[u].pc \notin {"free", "rename", "remember"}
      BY <2>3 DEF Merge, seen
    <3>4. QED
      BY <1>3, <1>4, <2>1, <3>2, <3>3
  <2>4. CASE AbortMerge(u) \/ AbortRebase(u)
    BY <1>3, <1>4, <2>1, <2>4 DEF AbortMerge, AbortRebase, seen
  <2>5. CASE Rebase(u)
    <3>1. UNCHANGED <<status, asked>> /\ req[u].pc = "rebase"
      BY <2>5 DEF Rebase, seen
    <3>2. Go(u, "again") \/ Go(u, "unrebase")
      BY <2>5, RebaseWays DEF Rebased, RebaseStops
    <3>3. QED
      BY <1>3, <2>1, <3>1, <3>2
  <2>6. CASE PushBranch(u) \/ PushHead(u)
    <3>1. Go(u, "readhead") \/ Go(u, "done")
      BY <2>6 DEF PushBranch, PushHead
    <3>2. UNCHANGED <<status, asked>> /\ req[u].pc \in {"push", "pushhead"}
      BY <2>6 DEF PushBranch, PushHead, seen
    <3>3. QED
      BY <1>3, <2>1, <3>1, <3>2
  <2>7. CASE EndRequest(u)
    <3>1. \A t \in Tasks : status'[t] \in {status[t], "done"}
      BY <1>1, <2>7 DEF EndRequest, TypeOK
    <3>2. QED
      BY <1>5, <2>7, <3>1 DEF EndRequest, seen, Settled
  <2>8. CASE Remember(u)
    BY <1>5, <2>8 DEF Remember, seen, Settled
  <2>9. CASE Rename(u)
    <3>1. UNCHANGED <<status, asked>> /\ (Go(u, "remember") \/ Free(u))
      BY <2>9, RenameWays DEF Rename, Renames, RenameFails, seen
    <3>2. QED
      BY <1>3, <1>5, <2>1, <3>1 DEF Settled
  <2>10. QED
    BY <1>11, <2>2, <2>3, <2>4, <2>5, <2>6, <2>7, <2>8, <2>9 DEF ServeStep
<1>12. CASE \E n \in Names : Checkout(n) \/ CheckoutCommit(n)
  BY <1>2, <1>12 DEF Checkout, CheckoutCommit, seen
<1>13. CASE Crash
  <2>1. \A u \in Users : req'[u].pc = "free" /\ req'[u].op = "none"
    BY <1>13, NoRequestTypes DEF Crash
  <2>2. QED
    BY <2>1 DEF RequestsInOrder
<1>14. CASE UNCHANGED wvars
  BY <1>2, <1>14 DEF wvars
<1>15. QED
  BY <1>6, <1>7, <1>8, <1>9, <1>10, <1>11, <1>12, <1>13, <1>14, Steps DEF ServeStep

LEMMA ReviewsInOrderStep ==
    ASSUME TypeInv, ReviewsInOrder, RequestsInOrder, [Next]_wvars
    PROVE  ReviewsInOrder'
<1>1. TypeOK
  BY DEF TypeInv
<1>2. ASSUME UNCHANGED <<status, fr, made, reviewed>>
      PROVE  ReviewsInOrder'
  BY <1>2 DEF ReviewsInOrder, Settled, WorkOf
<1>3. ASSUME NEW t \in Tasks, CreateWorktree(t)
      PROVE  ReviewsInOrder'
  <2>1. /\ UNCHANGED <<status, made, reviewed>> /\ status[t] = "open"
        /\ \A s \in Tasks : s # t => fr'[s] = fr[s]
    BY <1>1, <1>3 DEF CreateWorktree, TypeOK, seen
  <2>2. QED
    BY <2>1 DEF ReviewsInOrder, Settled, WorkOf
<1>4. ASSUME NEW t \in Tasks, AddWorktree(t)
      PROVE  ReviewsInOrder'
  <2>1. /\ UNCHANGED <<status, made, reviewed>> /\ fr[t] = "add"
        /\ \A s \in Tasks : s # t => fr'[s] = fr[s]
    BY <1>1, <1>4 DEF AddWorktree, TypeOK, seen
  <2>2. QED
    BY <2>1 DEF ReviewsInOrder, Settled, WorkOf
<1>5. ASSUME NEW t \in Tasks, NEW w \in Work, Commit(t, w)
      PROVE  ReviewsInOrder'
  <2>1. /\ UNCHANGED <<status, fr, reviewed>> /\ status[t] = "open"
        /\ w[1] = t /\ made' = made \cup {w}
    BY <1>5 DEF Commit, ReviewsInOrder
  <2>2. \A s \in Tasks : s # t => {v \in made' : v[1] = s} = WorkOf(s)
    BY <2>1 DEF WorkOf
  <2>3. ~Settled(t)
    BY <2>1 DEF Settled
  <2>4. QED
    BY <2>1, <2>2, <2>3 DEF ReviewsInOrder, Settled, WorkOf
<1>6. ASSUME NEW t \in Tasks, EndRun(t) \/ Reject(t)
      PROVE  ReviewsInOrder'
  <2>1. /\ UNCHANGED <<made, reviewed>>
        /\ \A s \in Tasks : s # t => status'[s] = status[s] /\ fr'[s] = fr[s]
        /\ status'[t] \in {"open", "review"}
    BY <1>1, <1>6 DEF EndRun, Reject, TypeOK, seen
  <2>2. fr'[t] = "idle"
    BY <1>1, <1>6 DEF EndRun, Reject, TypeOK, ReviewsInOrder
  <2>3. QED
    BY <2>1, <2>2 DEF ReviewsInOrder, Settled, WorkOf
<1>7. ASSUME NEW u \in Users, NEW t \in Tasks, NEW options, Accept(u, t, options)
      PROVE  ReviewsInOrder'
  <2>1. /\ UNCHANGED <<made, fr>> /\ status[t] = "review"
        /\ reviewed' = reviewed \cup WorkOf(t)
        /\ \A s \in Tasks : s # t => status'[s] = status[s]
    BY <1>1, <1>7 DEF Accept, TypeOK, WorkOf
  <2>2. fr[t] = "idle"
    BY <2>1 DEF ReviewsInOrder
  <2>3. QED
    BY <2>1, <2>2 DEF ReviewsInOrder, Settled, WorkOf
<1>8. ASSUME NEW u \in Users, NEW t \in Tasks,
             MergeEndpoint(u, t) \/ \E n \in NewNames[t] : StartRename(u, t, n)
      PROVE  ReviewsInOrder'
  BY <1>2, <1>8 DEF MergeEndpoint, StartRename, seen
<1>9. ASSUME NEW u \in Users, EndRequest(u)
      PROVE  ReviewsInOrder'
  <2>1. UNCHANGED <<made, fr, reviewed>>
    BY <1>9 DEF EndRequest, seen
  <2>2. \A s \in Tasks : status'[s] = status[s] \/ (Settled(s) /\ status'[s] = "done")
    BY <1>1, <1>9 DEF EndRequest, TypeOK, RequestsInOrder
  <2>3. QED
    BY <2>1, <2>2 DEF ReviewsInOrder, Settled, WorkOf
<1>10. ASSUME NEW u \in Users, ServeStep(u), ~EndRequest(u)
       PROVE  ReviewsInOrder'
  BY <1>2, <1>10 DEF ServeStep, ReadNames, Merge, AbortMerge, Rebase, AbortRebase, PushBranch,
                     ReadHead, PushHead, Rename, Remember, seen
<1>11. CASE \E n \in Names : Checkout(n) \/ CheckoutCommit(n)
  BY <1>2, <1>11 DEF Checkout, CheckoutCommit, seen
<1>12. CASE Crash
  <2>1. UNCHANGED <<status, made, reviewed>> /\ \A t \in Tasks : fr'[t] = "idle"
    BY <1>12 DEF Crash, seen
  <2>2. QED
    BY <2>1 DEF ReviewsInOrder, Settled, WorkOf
<1>13. CASE UNCHANGED wvars
  BY <1>2, <1>13 DEF wvars
<1>14. QED
  BY <1>3, <1>4, <1>5, <1>6, <1>7, <1>8, <1>9, <1>10, <1>11, <1>12, <1>13, Steps DEF ServeStep

LEMMA InOrderCorrect == Spec => [](ReviewsInOrder /\ RequestsInOrder)
<1>1. Init => ReviewsInOrder /\ RequestsInOrder
  BY NoRequestTypes DEF Init, ReviewsInOrder, RequestsInOrder, Settled
<1>2. TypeInv /\ ReviewsInOrder /\ RequestsInOrder /\ [Next]_wvars
        => ReviewsInOrder' /\ RequestsInOrder'
  BY ReviewsInOrderStep, RequestsInOrderStep
<1>3. QED
  BY <1>1, <1>2, TypeInvCorrect, PTL DEF Spec

-----------------------------------------------------------------------------
\* Nothing but what is fit to be is on a branch people share, here or at origin, or under
\* a detached HEAD; and a worktree's branch has the work of its own task besides.
FitToShare ==
    /\ Shared \subseteq DOMAIN remote
    /\ \A n \in Shared : branch[n] \subseteq Fit /\ remote[n] \subseteq Fit
    /\ at \subseteq Fit
    /\ \A t \in Tasks : wt[t] \in Names => branch[wt[t]] \subseteq Fit \cup WorkOf(t)

LEMMA FitGrows ==
    ASSUME made \subseteq made', reviewed \subseteq reviewed', asked \subseteq asked'
    PROVE  /\ Fit \subseteq Fit'
           /\ \A t \in Tasks : WorkOf(t) \subseteq WorkOf(t)'
BY DEF Fit, WorkOf

\* Steps that add to branches only what is fit, and push only what is shared.
LEMMA FitStays ==
    ASSUME TypeOK, BranchesOwned, FitToShare, NEW works \in SUBSET Fit,
           UNCHANGED wt, \A n \in Existing : branch'[n] \subseteq branch[n] \cup works,
           at' \subseteq at \cup works,
           Shared \subseteq DOMAIN remote',
           \A n \in Shared : remote'[n] \subseteq remote[n] \cup branch[n],
           made \subseteq made', reviewed \subseteq reviewed', asked \subseteq asked'
    PROVE  FitToShare'
<1>1. Fit \subseteq Fit' /\ \A t \in Tasks : WorkOf(t) \subseteq WorkOf(t)'
  BY FitGrows
<1>2. \A n \in Shared : branch'[n] \subseteq Fit' /\ remote'[n] \subseteq Fit'
  BY <1>1 DEF FitToShare, BranchesOwned
<1>3. at' \subseteq Fit'
  BY <1>1 DEF FitToShare
<1>4. \A t \in Tasks : wt'[t] \in Names => branch'[wt'[t]] \subseteq Fit' \cup WorkOf(t)'
  <2>1. SUFFICES ASSUME NEW t \in Tasks, wt[t] \in Names
                 PROVE  branch'[wt[t]] \subseteq Fit' \cup WorkOf(t)'
    OBVIOUS
  <2>2. wt[t] \in Existing
    BY <2>1, NamesKnown
  <2>3. branch'[wt[t]] \subseteq branch[wt[t]] \cup works
    BY <2>2
  <2>4. branch[wt[t]] \subseteq Fit \cup WorkOf(t)
    BY <2>1 DEF FitToShare
  <2>5. QED
    BY <1>1, <2>3, <2>4
<1>5. QED
  BY <1>2, <1>3, <1>4 DEF FitToShare

LEMMA FitUntouched ==
    ASSUME TypeOK, BranchesOwned, FitToShare, UNCHANGED <<branch, remote, at, wt, made>>,
           reviewed \subseteq reviewed', asked \subseteq asked'
    PROVE  FitToShare'
<1>1. Shared \subseteq DOMAIN remote' /\ {} \in SUBSET Fit
  BY DEF FitToShare
<1>2. QED
  BY <1>1, FitStays

\* What a request that may merge would merge is fit.
LEMMA OwnWorkIsFit ==
    ASSUME ReviewsInOrder, RequestsInOrder, NEW u \in Users,
           req[u].pc \notin {"free", "rename", "remember"}
    PROVE  WorkOf(req[u].task) \subseteq Fit
BY DEF ReviewsInOrder, RequestsInOrder, Fit, WorkOf

LEMMA FitStep ==
    ASSUME OwnNames, Commits \subseteq Shared, TypeInv, BranchesOwned, RequestsOwned,
           ReviewsInOrder, RequestsInOrder, FitToShare, [Next]_wvars
    PROVE  FitToShare'
<1>1. TypeOK /\ "none" \notin Names /\ "plain" \notin Names /\ Shared \subseteq Names
  BY WorktreesAssumption DEF TypeInv
<1>2. ASSUME UNCHANGED <<branch, remote, at, wt, made, reviewed, asked>>
      PROVE  FitToShare'
  BY <1>1, <1>2, FitUntouched
<1>3. ASSUME NEW t \in Tasks, CreateWorktree(t)
      PROVE  FitToShare'
  <2>1. /\ UNCHANGED <<branch, remote, at, made, reviewed, asked>>
        /\ \A s \in Tasks : wt'[s] = wt[s] \/ (wt[s] = "none" /\ wt'[s] = "plain")
    BY <1>1, <1>3 DEF CreateWorktree, TypeOK, seen
  <2>2. QED
    BY <1>1, <2>1 DEF FitToShare, Fit, WorkOf
<1>4. ASSUME NEW t \in Tasks, AddWorktree(t)
      PROVE  FitToShare'
  <2>1. cache[t] \in Names /\ UNCHANGED <<remote, at, made, reviewed, asked>>
    BY <1>4 DEF TypeInv, AddWorktree, seen
  <2>2. CASE UNCHANGED <<branch, wt>>
    BY <1>2, <2>1, <2>2
  <2>3. CASE /\ cache[t] \notin Existing /\ branch' = With(branch, cache[t], OnHead)
             /\ wt' = [wt EXCEPT ![t] = cache[t]]
    <3>1. (\A n \in Existing : branch'[n] = branch[n]) /\ branch'[cache[t]] = OnHead
      BY <2>3 DEF With, Existing
    <3>2. wt'[t] = cache[t] /\ \A s \in Tasks \ {t} : wt'[s] = wt[s]
      BY <1>1, <2>3 DEF TypeOK
    <3>3. OnHead \subseteq Fit
      BY DEF OnHead, BranchesOwned, FitToShare
    <3>4. \A s \in Tasks : wt[s] \in Names => wt[s] \in Existing
      BY <1>1, NamesKnown
    <3>5. \A s \in Tasks : wt'[s] \in Names => branch'[wt'[s]] \subseteq Fit \cup WorkOf(s)
      BY <3>1, <3>2, <3>3, <3>4 DEF FitToShare
    <3>6. \A n \in Shared : branch'[n] = branch[n]
      BY <3>1 DEF BranchesOwned
    <3>7. QED
      BY <2>1, <3>5, <3>6 DEF FitToShare, Fit, WorkOf
  <2>4. QED
    BY <1>4, <2>2, <2>3 DEF AddWorktree
<1>5. ASSUME NEW t \in Tasks, NEW w \in Work, Commit(t, w)
      PROVE  FitToShare'
  <2>1. /\ wt[t] \in Existing /\ wt[t] \in NamesOf(t) /\ wt[t] \notin Shared
        /\ \A s \in Tasks : wt[s] = wt[t] => s = t
    BY <1>1, <1>5, NamesKnown, NamesOwned DEF Commit
  <2>2. /\ w[1] = t /\ made' = made \cup {w} /\ UNCHANGED <<wt, remote, at, reviewed, asked>>
    BY <1>5 DEF Commit
  <2>3. \A n \in Existing : /\ n # wt[t] => branch'[n] = branch[n]
                            /\ branch'[n] \subseteq branch[n] \cup {w}
    BY <1>5, <2>1 DEF Commit, Existing
  <2>4. Fit \subseteq Fit' /\ \A s \in Tasks : WorkOf(s) \subseteq WorkOf(s)'
    BY <2>2, FitGrows
  <2>5. w \in WorkOf(t)'
    BY <2>2 DEF WorkOf
  <2>6. \A n \in Shared : branch'[n] \subseteq Fit' /\ remote'[n] \subseteq Fit'
    BY <2>1, <2>2, <2>3, <2>4 DEF FitToShare, BranchesOwned
  <2>7. ASSUME NEW s \in Tasks, wt[s] \in Names
        PROVE  branch'[wt[s]] \subseteq Fit' \cup WorkOf(s)'
    <3>1. wt[s] \in Existing /\ branch[wt[s]] \subseteq Fit' \cup WorkOf(s)'
      BY <1>1, <2>4, <2>7, NamesKnown DEF FitToShare
    <3>2. CASE s = t
      BY <2>3, <2>5, <3>1, <3>2
    <3>3. CASE s # t
      BY <2>1, <2>3, <3>1, <3>3
    <3>4. QED
      BY <3>2, <3>3
  <2>8. QED
    BY <2>2, <2>4, <2>6, <2>7 DEF FitToShare
<1>6. ASSUME NEW t \in Tasks, EndRun(t) \/ Reject(t)
      PROVE  FitToShare'
  BY <1>2, <1>6 DEF EndRun, Reject, repo, seen
<1>7. ASSUME NEW u \in Users, AskStep(u)
      PROVE  FitToShare'
  <2>1. UNCHANGED <<branch, remote, at, wt, made>>
    BY <1>7 DEF AskStep, Accept, MergeEndpoint, StartRename, repo, seen
  <2>2. reviewed \subseteq reviewed' /\ asked \subseteq asked'
    BY <1>7 DEF AskStep, Accept, MergeEndpoint, StartRename, seen
  <2>3. QED
    BY <1>1, <2>1, <2>2, FitUntouched
<1>8. ASSUME NEW u \in Users, Merge(u)
      PROVE  FitToShare'
  <2> DEFINE t == req[u].task
             n == req[u].name
  <2>1. /\ UNCHANGED <<wt, remote, made, reviewed, asked>> /\ t \in Tasks
        /\ req[u].pc \notin {"free", "rename", "remember"}
    BY <1>8 DEF TypeInv, RequestsOK, Merge, seen
  <2>2. CASE Succeeds(u)
    <3>1. n \in Existing /\ n \in Names /\ n # NoName
      BY <1>1, <2>2, WorktreesAssumption DEF TypeOK, Succeeds, Existing
    <3>2. n \in NamesOf(t)
      BY <3>1 DEF RequestsOwned
    <3>3. wt[t] = n
      BY <1>1, <2>1, <3>1, <3>2, NamesOwned
    <3>4. branch[n] \subseteq Fit
      BY <2>1, <3>1, <3>3, OwnWorkIsFit DEF FitToShare
    <3>5. branch[n] \in SUBSET Work /\ AddToHead(branch[n])
      BY <1>1, <2>2, <3>1 DEF TypeOK, Succeeds, Existing
    <3> HIDE DEF n, t
    <3>6. /\ \A m \in Existing : branch'[m] \subseteq branch[m] \cup branch[n]
          /\ at' \subseteq at \cup branch[n]
      BY <1>1, <3>5, AddToHeadDoes
    <3>7. branch[n] \in SUBSET Fit /\ Shared \subseteq DOMAIN remote'
      BY <2>1, <3>4 DEF FitToShare
    <3>8. QED
      BY <1>1, <2>1, <3>6, <3>7, FitStays
  <2>3. CASE Conflicts(u) \/ Refused(u)
    BY <1>2, <2>1, <2>3 DEF Conflicts, Refused
  <2>4. QED
    BY <1>8, <2>2, <2>3, MergeWays
<1>9. ASSUME NEW u \in Users, Rebase(u)
      PROVE  FitToShare'
  <2>1. UNCHANGED <<wt, remote, made, reviewed, asked>> /\ req[u].pc = "rebase"
    BY <1>9 DEF Rebase, seen
  <2>2. CASE Rebased(u)
    <3> DEFINE base == branch[req[u].base]
    <3>1. /\ \A m \in Existing : branch'[m] \subseteq branch[m] \cup base
          /\ at' \subseteq at \cup base
      BY <2>1, <2>2, RebasedDoes
    <3>2. base \in SUBSET Fit /\ Shared \subseteq DOMAIN remote'
      BY <2>1 DEF RequestsOwned, FitToShare
    <3> HIDE DEF base
    <3>3. QED
      BY <1>1, <2>1, <3>1, <3>2, FitStays
  <2>3. CASE RebaseStops(u)
    BY <1>2, <2>1, <2>3 DEF RebaseStops
  <2>4. QED
    BY <1>9, <2>2, <2>3, RebaseWays
<1>10. ASSUME NEW u \in Users, NEW n, Pushed(n) \/ UNCHANGED remote,
              UNCHANGED <<branch, at, wt, made, reviewed, asked>>
       PROVE  FitToShare'
  <2>1. CASE UNCHANGED remote
    BY <1>2, <1>10, <2>1
  <2>2. CASE Pushed(n)
    <3>1. /\ DOMAIN remote' = DOMAIN remote \cup {n}
          /\ \A m \in DOMAIN remote' : remote'[m] = IF m = n THEN branch[n] ELSE remote[m]
      BY <2>2 DEF Pushed, With
    <3>2. /\ Shared \subseteq DOMAIN remote' /\ {} \in SUBSET Fit
          /\ \A m \in Shared : remote'[m] \subseteq remote[m] \cup branch[m]
      BY <3>1 DEF FitToShare
    <3>3. QED
      BY <1>1, <1>10, <3>2, FitStays
  <2>3. QED
    BY <1>10, <2>1, <2>2
<1>11. ASSUME NEW u \in Users, PushBranch(u) \/ PushHead(u)
       PROVE  FitToShare'
  <2>1. UNCHANGED <<branch, at, wt, made, reviewed, asked>>
    BY <1>11 DEF PushBranch, PushHead, seen
  <2>2. \E n : Pushed(n) \/ UNCHANGED remote
    BY <1>11 DEF PushBranch, PushHead
  <2>3. QED
    BY <1>10, <2>1, <2>2
<1>12. ASSUME NEW u \in Users, Rename(u)
       PROVE  FitToShare'
  <2>1. /\ req[u].task \in Tasks /\ req[u].name \in Names
        /\ req[u].name \in NamesOf(req[u].task)
        /\ UNCHANGED <<remote, at, made, reviewed, asked>>
    BY <1>12, WorktreesAssumption DEF TypeInv, RequestsOK, RequestsOwned, Rename, seen
  <2>2. CASE RenameFails(u)
    BY <1>2, <2>1, <2>2 DEF RenameFails
  <2>3. ASSUME NEW t \in Tasks, NEW old \in NamesOf(t), NEW new \in NamesOf(t),
               Renames(u, old, new)
        PROVE  FitToShare'
    <3>1. NamesOf(t) \subseteq Names /\ NamesOf(t) \cap Shared = {}
      BY <1>1, NamesOwned
    <3>2. Renamed(old, new)
      BY <1>1, <2>3, <3>1, RenamesDoes
    <3>3. \A n \in Shared : branch'[n] = branch[n]
      BY <3>1, <3>2 DEF Renamed, BranchesOwned
    <3>4. \A s \in Tasks : wt[s] \in Names => wt[s] \in Existing
      BY <1>1, NamesKnown
    <3>5. \A s \in Tasks : wt'[s] \in Names => wt[s] \in Names /\ branch'[wt'[s]] = branch[wt[s]]
      BY <3>1, <3>2, <3>4 DEF Renamed
    <3>6. QED
      BY <2>1, <3>3, <3>5 DEF FitToShare, Fit, WorkOf
  <2>4. BranchName(req[u].task) \in NamesOf(req[u].task)
    BY <1>1, <2>1, NamesOwned
  <2>5. QED
    BY <1>12, <2>1, <2>2, <2>3, <2>4, RenameWays
<1>13. ASSUME NEW u \in Users, ServeStep(u),
              ~Merge(u), ~Rebase(u), ~PushBranch(u), ~PushHead(u), ~Rename(u)
       PROVE  FitToShare'
  BY <1>2, <1>13 DEF ServeStep, ReadNames, AbortMerge, AbortRebase, ReadHead, EndRequest,
                     Remember, repo, seen
<1>14. ASSUME NEW n \in Names, Checkout(n) \/ CheckoutCommit(n)
       PROVE  FitToShare'
  <2>1. UNCHANGED <<branch, remote, wt, made, reviewed, asked>>
    BY <1>14 DEF Checkout, CheckoutCommit, seen
  <2>2. at' \subseteq Fit
    BY <1>14 DEF Checkout, CheckoutCommit, FitToShare
  <2>3. QED
    BY <2>1, <2>2 DEF FitToShare, Fit, WorkOf
<1>15. CASE Crash
  BY <1>2, <1>15 DEF Crash, seen
<1>16. CASE UNCHANGED wvars
  BY <1>2, <1>16 DEF wvars
<1>17. QED
  BY <1>3, <1>4, <1>5, <1>6, <1>7, <1>8, <1>9, <1>11, <1>12, <1>13, <1>14, <1>15, <1>16, Steps
     DEF AskStep, ServeStep

\* Nothing gets onto a branch people share, here or at origin, but work a person accepted
\* or had merged, for any number of tasks and requests, where no two tasks ever use one
\* name and people check out commits of shared branches only.
THEOREM MainIsReviewedCorrect ==
    ASSUME OwnNames, Commits \subseteq Shared
    PROVE  Spec => []MainIsReviewed
<1>1. Init => FitToShare
  BY WorktreesAssumption DEF Init, FitToShare
<1>2. TypeInv /\ (BranchesOwned /\ RequestsOwned) /\ (ReviewsInOrder /\ RequestsInOrder)
        /\ FitToShare /\ [Next]_wvars => FitToShare'
  BY FitStep
<1>3. FitToShare => MainIsReviewed
  BY DEF FitToShare, Fit, MainIsReviewed
<1>4. Spec => []TypeInv /\ [](BranchesOwned /\ RequestsOwned)
                /\ [](ReviewsInOrder /\ RequestsInOrder)
  BY TypeInvCorrect, OwnedCorrect, InOrderCorrect
<1>5. QED
  BY <1>1, <1>2, <1>3, <1>4, PTL DEF Spec

=============================================================================
