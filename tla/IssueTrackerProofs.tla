------------------------- MODULE IssueTrackerProofs -------------------------
(***************************************************************************)
(* Theorems about IssueTracker and Drafts, for any set of issues, however  *)
(* they refer to each other, any number of requests, people, drafts and    *)
(* reviewers, and any limits.                                              *)
(***************************************************************************)
EXTENDS IssueTracker, TLAPS

\* The loop: what it restores is a discussion, what it polls is a tree, and it waits
\* for its own analysis in no other phase.
PollOK ==
    /\ poll.pc = "restore" => \A i \in poll.todo : poll.snap[i].status \in {"watching", "ready"}
    /\ poll.pc = "trees" => poll.todo \subseteq Roots
    /\ act["poll"].pc # "none" => poll.pc = "analyse"

\* An analysis or a submission is about an issue, and about a tree there is unless it
\* has one of its own; who crawls is a request, and people only submit.
ActsOK ==
    \A x \in Actors :
        /\ act[x].pc # "none" =>
               act[x].root \in Issues /\ (act[x].of = "tree" => act[x].root \in Roots)
        /\ act[x].pc = "fetch" => x \in Focus
        /\ x \in People => act[x].pc \in {"none", "submit", "mark"}
        /\ act[x].maturity # "submitted"

TypeInv == TypeOK /\ PollOK /\ ActsOK

-----------------------------------------------------------------------------
(***************************************************************************)
(* What a step makes of an analysis, of a tree and of the loop.            *)
(***************************************************************************)
Becomes(x, pc, root, of, maturity) ==
    /\ act' \in [Actors -> Act]
    /\ \A y \in Actors \ {x} : act'[y] = act[y]
    /\ act'[x].pc = pc /\ act'[x].root = root /\ act'[x].of = of
    /\ act'[x].maturity = maturity

ActPC == {"none", "lock", "fetch", "agent", "status", "ready", "submit", "mark"}

LEMMA ActTypes ==
    ASSUME TypeOK, NEW x \in Actors
    PROVE  /\ act \in [Actors -> Act] /\ act[x] \in Act /\ act[x].pc \in ActPC
           /\ act[x].root \in Issues \cup {NoIssue}
           /\ act[x].of \in {"tree", "replaced", "earlier"}
           /\ act[x].status \in TreeStatus /\ act[x].nodes \in SUBSET Issues
           /\ act[x].maturity \in TreeStatus
<1>1. act \in [Actors -> Act]
  BY DEF TypeOK
<1>2. act[x] \in Act
  BY <1>1
<1>3. QED
  BY <1>1, <1>2 DEF Act, ActPC

LEMMA NoActTypes ==
    /\ NoAct \in Act /\ NoAct.pc = "none" /\ NoAct.root = NoIssue /\ NoAct.of = "tree"
    /\ NoAct.maturity = "none" /\ NoAct.status = "none" /\ NoAct.nodes = {}
BY DEF NoAct, Act, TreeStatus

\* An analysis is replaced by a record that is one.
LEMMA Replaced ==
    ASSUME TypeOK, NEW x \in Actors, NEW rec \in Act, act' = [act EXCEPT ![x] = rec]
    PROVE  Becomes(x, rec.pc, rec.root, rec.of, rec.maturity)
<1>1. act \in [Actors -> Act]
  BY DEF TypeOK
<1>2. QED
  BY <1>1 DEF Becomes

LEMMA EndsBecomes ==
    ASSUME TypeOK, NEW x \in Actors, act' = [act EXCEPT ![x] = NoAct]
    PROVE  Becomes(x, "none", NoIssue, "tree", "none")
<1>1. NoAct \in Act
  BY NoActTypes
<1>2. Becomes(x, NoAct.pc, NoAct.root, NoAct.of, NoAct.maturity)
  BY <1>1, Replaced
<1>3. QED
  BY <1>2, NoActTypes

LEMMA GoBecomes ==
    ASSUME TypeOK, NEW x \in Actors, NEW pc \in ActPC, act' = [act EXCEPT ![x].pc = pc]
    PROVE  Becomes(x, pc, act[x].root, act[x].of, act[x].maturity)
<1> DEFINE rec == [act[x] EXCEPT !.pc = pc]
<1>1. act[x] \in Act
  BY ActTypes
<1>2. /\ rec \in Act /\ rec.pc = pc /\ rec.root = act[x].root /\ rec.of = act[x].of
      /\ rec.maturity = act[x].maturity
  BY <1>1 DEF Act, ActPC
<1>3. act' = [act EXCEPT ![x] = rec]
  OBVIOUS
<1> HIDE DEF rec
<1>4. QED
  BY <1>2, <1>3, Replaced

\* Who changes keeps to what the invariant says of all.
LEMMA ActsAfter ==
    ASSUME ActsOK, NEW x \in Actors, NEW pc, NEW root, NEW of, NEW maturity,
           Becomes(x, pc, root, of, maturity), Roots \subseteq Roots',
           pc # "none" => root \in Issues /\ (of = "tree" => root \in Roots'),
           pc = "fetch" => x \in Focus,
           x \in People => pc \in {"none", "submit", "mark"},
           maturity # "submitted"
    PROVE  ActsOK'
BY DEF ActsOK, Becomes

-----------------------------------------------------------------------------
LEMMA NoTreeTypes ==
    /\ NoTree \in Tree /\ NoTree.status = "none" /\ NoTree.nodes = {} /\ NoTree.summary = FALSE
    /\ \A i \in Issues : NoTree.heard[i] = 0
<1>1. 0 \in 0 .. MaxComments
  BY TrackerAssumption
<1>2. QED
  BY <1>1 DEF NoTree, Tree, TreeStatus

LEMMA TreeTypes ==
    ASSUME TypeOK, NEW i \in Issues
    PROVE  /\ trees \in [Issues -> Tree] /\ trees[i] \in Tree
           /\ trees[i].status \in TreeStatus /\ trees[i].summary \in BOOLEAN
           /\ trees[i].nodes \in SUBSET Issues
           /\ trees[i].heard \in [Issues -> 0 .. MaxComments]
           /\ i \in Roots <=> trees[i].status # "none"
           /\ i \notin Roots => trees[i] = NoTree
<1>1. trees \in [Issues -> Tree]
  BY DEF TypeOK
<1>2. trees[i] \in Tree
  BY <1>1
<1>3. QED
  BY <1>1, <1>2 DEF Tree, TypeOK, Roots

\* The trees, with one replaced by a tree that has a status.
TreesOK ==
    /\ trees \in [Issues -> Tree]
    /\ \A i \in Issues : trees[i].status = "none" => trees[i] = NoTree

LEMMA TreeReplaced ==
    ASSUME TreesOK, NEW i \in Issues, NEW t \in Tree, t.status # "none",
           trees' = [trees EXCEPT ![i] = t]
    PROVE  TreesOK' /\ Roots' = Roots \cup {i} /\ trees'[i] = t
BY DEF TreesOK, Roots

LEMMA TreesGone ==
    ASSUME trees' = [i \in Issues |-> NoTree]
    PROVE  TreesOK' /\ Roots' = {}
BY NoTreeTypes DEF TreesOK, Roots

LEMMA HeardType ==
    ASSUME NEW t \in Tree, said \in [Issues -> 0 .. MaxComments]
    PROVE  Heard(t) \in [Issues -> 0 .. MaxComments]
<1>1. t.heard \in [Issues -> 0 .. MaxComments]
  BY DEF Tree
<1>2. QED
  BY <1>1 DEF Heard

LEMMA KeptType ==
    ASSUME NEW nodes, NEW i \in Issues, row \in [Issues -> Issues \cup {NoIssue}]
    PROVE  Kept(nodes, i) \in [Issues -> Issues \cup {NoIssue}]
BY DEF Kept

LEMMA CrawledType ==
    ASSUME NEW nodes, NEW s \in Crawled(nodes)
    PROVE  s \in SUBSET Issues /\ nodes \subseteq s
BY DEF Crawled

-----------------------------------------------------------------------------
(***************************************************************************)
(* Drafts and their reviews.                                               *)
(***************************************************************************)
LEMMA IdleType == Idle \in Approval /\ Idle.pc = "free"
<1>1. (CHOOSE d \in DraftIds : TRUE) \in DraftIds
  BY DraftsAssumption
<1>2. 0 \in 0 .. MaxBody
  BY DraftsAssumption
<1>3. QED
  BY <1>1, <1>2 DEF Idle, Approval

\* A review is replaced by a record that is one.
LEMMA ReviewType ==
    ASSUME DraftTypeOK, NEW u \in Reviewers, NEW rec \in Approval,
           approval' = [approval EXCEPT ![u] = rec]
    PROVE  /\ approval' \in [Reviewers -> Approval] /\ approval'[u] = rec
           /\ \A v \in Reviewers \ {u} : approval'[v] = approval[v]
BY DEF DraftTypeOK

LEMMA ReviewTypes ==
    ASSUME DraftTypeOK, NEW u \in Reviewers
    PROVE  /\ approval[u] \in Approval /\ approval[u].draft \in DraftIds
           /\ approval[u].body \in 0 .. MaxBody
<1>1. approval[u] \in Approval
  BY DEF DraftTypeOK
<1>2. QED
  BY <1>1 DEF Approval

\* A draft gets another status or another body.
LEMMA DraftTypes ==
    ASSUME DraftTypeOK, NEW d \in DraftIds
    PROVE  /\ draft[d] \in Draft
           /\ \A s \in {"none", "pending", "posted", "rejected"} :
                [draft EXCEPT ![d].status = s] \in [DraftIds -> Draft]
           /\ \A b \in 0 .. MaxBody : [draft EXCEPT ![d].body = b] \in [DraftIds -> Draft]
<1>1. draft \in [DraftIds -> Draft] /\ draft[d] \in Draft
  BY DEF DraftTypeOK
<1>2. ASSUME NEW s \in {"none", "pending", "posted", "rejected"}
      PROVE  [draft EXCEPT ![d].status = s] \in [DraftIds -> Draft]
  <2>1. [draft[d] EXCEPT !.status = s] \in Draft
    BY <1>1 DEF Draft
  <2>2. QED
    BY <1>1, <2>1
<1>3. ASSUME NEW b \in 0 .. MaxBody
      PROVE  [draft EXCEPT ![d].body = b] \in [DraftIds -> Draft]
  <2>1. [draft[d] EXCEPT !.body = b] \in Draft
    BY <1>1 DEF Draft
  <2>2. QED
    BY <1>1, <2>1
<1>4. QED
  BY <1>1, <1>2, <1>3

\* Who starts a review or a rewrite has read the draft.
LEMMA StartType ==
    ASSUME DraftTypeOK, NEW u \in Reviewers, NEW d \in DraftIds,
           NEW action \in {"approve", "reject", "edit", "rewrite"}
    PROVE  /\ [pc |-> action, draft |-> d, body |-> draft[d].body] \in Approval
           /\ [pc |-> action, draft |-> d, body |-> draft[d].body].pc # "mark"
<1>1. draft[d].body \in 0 .. MaxBody
  BY DraftTypes DEF Draft
<1>2. QED
  BY <1>1 DEF Approval

LEMMA DraftStepType ==
    ASSUME DraftTypeOK, DraftStep
    PROVE  DraftTypeOK'
<1>1. PICK u \in Reviewers :
          \/ \E d \in DraftIds :
                 \/ \E action \in {"approve", "reject", "edit"} : StartReview(u, d, action)
                 \/ StartRewrite(u, d)
          \/ Post(u) \/ MarkPosted(u) \/ MarkRejected(u) \/ SetBody(u)
  BY DEF DraftStep
<1> DEFINE d0 == approval[u].draft
<1>2. d0 \in DraftIds /\ approval[u] \in Approval /\ approval[u].body \in 0 .. MaxBody
  BY ReviewTypes
<1>3. ASSUME NEW d \in DraftIds, NEW action \in {"approve", "reject", "edit"},
             StartReview(u, d, action)
      PROVE  DraftTypeOK'
  BY <1>3, StartType, ReviewType DEF StartReview, DraftTypeOK
<1>4. ASSUME NEW d \in DraftIds, StartRewrite(u, d)
      PROVE  DraftTypeOK'
  BY <1>4, StartType, ReviewType DEF StartRewrite, DraftTypeOK
<1>5. Done(u) => approval' \in [Reviewers -> Approval]
  BY IdleType, ReviewType DEF Done
<1>6. CASE Post(u)
  <2>1. CASE /\ comment' = [comment EXCEPT ![d0] = @ \cup {approval[u].body}]
             /\ approval' = [approval EXCEPT ![u].pc = "mark"]
    <3>1. comment' \in [DraftIds -> SUBSET (0 .. MaxBody)]
      BY <1>2, <2>1 DEF DraftTypeOK
    <3>2. [approval[u] EXCEPT !.pc = "mark"] \in Approval
      BY <1>2 DEF Approval
    <3>3. approval' \in [Reviewers -> Approval]
      BY <2>1, <3>2, ReviewType
    <3>4. QED
      BY <1>6, <3>1, <3>3 DEF Post, DraftTypeOK
  <2>2. CASE Done(u) /\ UNCHANGED comment
    BY <1>5, <1>6, <2>2 DEF Post, DraftTypeOK
  <2>3. QED
    BY <1>6, <2>1, <2>2 DEF Post
<1>7. CASE MarkPosted(u)
  BY <1>2, <1>5, <1>7, DraftTypes DEF MarkPosted, DraftTypeOK
<1>8. CASE MarkRejected(u)
  BY <1>2, <1>5, <1>8, DraftTypes DEF MarkRejected, DraftTypeOK
<1>9. CASE SetBody(u)
  <2>1. \A b \in 1 .. MaxBody : b \in 0 .. MaxBody
    BY DraftsAssumption
  <2>2. draft' \in [DraftIds -> Draft]
    <3>1. ASSUME NEW b \in 1 .. MaxBody, draft' = [draft EXCEPT ![d0].body = b]
          PROVE  draft' \in [DraftIds -> Draft]
      <4>1. [draft EXCEPT ![d0].body = b] \in [DraftIds -> Draft]
        BY <1>2, <2>1, DraftTypes
      <4>2. QED
        BY <3>1, <4>1
    <3>2. CASE UNCHANGED draft
      BY <3>2 DEF DraftTypeOK
    <3>3. QED
      BY <1>9, <3>1, <3>2 DEF SetBody
  <2>3. QED
    BY <1>5, <1>9, <2>2 DEF SetBody, DraftTypeOK
<1>10. QED
  BY <1>1, <1>3, <1>4, <1>6, <1>7, <1>8, <1>9

LEMMA AddDraftType ==
    ASSUME DraftTypeOK, NEW d \in DraftIds, AddDraft(d), UNCHANGED <<comment, approval>>
    PROVE  DraftTypeOK'
<1> DEFINE rec == [status |-> "pending", body |-> 0]
<1>1. 0 \in 0 .. MaxBody
  BY DraftsAssumption
<1>2. rec \in Draft
  BY <1>1 DEF Draft
<1>3. draft' = [draft EXCEPT ![d] = rec]
  BY DEF AddDraft
<1> HIDE DEF rec
<1>4. QED
  BY <1>2, <1>3 DEF DraftTypeOK

\* What the other steps do to drafts: an analysis may add one, a crash ends the reviews.
LEMMA DraftChanges ==
    ASSUME Next
    PROVE  \/ UNCHANGED dvars
           \/ (\E d \in DraftIds : AddDraft(d)) /\ UNCHANGED <<comment, approval>>
           \/ DraftCrash
           \/ DraftStep
<1>1. ASSUME NEW x \in Actors, NEW o \in Outcomes, AnalysisAnswers(x, o)
      PROVE  (UNCHANGED draft \/ \E d \in DraftIds : AddDraft(d)) /\ UNCHANGED <<comment, approval>>
  BY <1>1 DEF AnalysisAnswers
<1>2. ASSUME NEW x \in Actors, NEW o \in Outcomes, AnalysisFails(x, o)
      PROVE  UNCHANGED dvars
  BY <1>2 DEF AnalysisFails
<1>3. QED
  BY <1>1, <1>2 DEF Next, Answer, Fails, dvars

LEMMA DraftType ==
    ASSUME DraftTypeOK, [Next]_<<tvars, dvars>>
    PROVE  DraftTypeOK'
<1>1. CASE UNCHANGED dvars
  BY <1>1 DEF dvars, DraftTypeOK
<1>2. CASE DraftCrash
  BY <1>2, IdleType DEF DraftCrash, DraftTypeOK
<1>3. QED
  BY <1>1, <1>2, DraftChanges, AddDraftType, DraftStepType

-----------------------------------------------------------------------------
(***************************************************************************)
(* The reviews in the invariant of drafts: who is about to mark a draft    *)
(* posted has posted it, and what is on GitHub stays there.                *)
(***************************************************************************)
PostedFirst == \A u \in Reviewers : approval[u].pc = "mark" => comment[approval[u].draft] # {}

PostedInv == PostedFirst /\ PostedIsOnGitHub

\* Steps that post nothing, mark no draft posted, and bring nobody to that point.
LEMMA PostedStays ==
    ASSUME PostedInv, DraftTypeOK, comment' = comment,
           \A d \in DraftIds : draft'[d].status = "posted" => draft[d].status = "posted",
           \A u \in Reviewers : approval'[u].pc = "mark" => approval'[u] = approval[u]
    PROVE  PostedInv'
BY DEF PostedInv, PostedFirst, PostedIsOnGitHub

LEMMA PostedDraftStep ==
    ASSUME PostedInv, DraftTypeOK, DraftStep
    PROVE  PostedInv'
<1>1. PICK u \in Reviewers :
          \/ \E d \in DraftIds :
                 \/ \E action \in {"approve", "reject", "edit"} : StartReview(u, d, action)
                 \/ StartRewrite(u, d)
          \/ Post(u) \/ MarkPosted(u) \/ MarkRejected(u) \/ SetBody(u)
  BY DEF DraftStep
<1> DEFINE d0 == approval[u].draft
<1>2. d0 \in DraftIds /\ approval[u] \in Approval
  BY ReviewTypes
<1>3. draft \in [DraftIds -> Draft] /\ comment \in [DraftIds -> SUBSET (0 .. MaxBody)]
  BY DEF DraftTypeOK
<1>4. ASSUME NEW d \in DraftIds, NEW action \in {"approve", "reject", "edit", "rewrite"},
             approval' = [approval EXCEPT ![u] = [pc |-> action, draft |-> d,
                                                  body |-> draft[d].body]],
             UNCHANGED <<draft, comment>>
      PROVE  PostedInv'
  BY <1>4, StartType, ReviewType, PostedStays
<1>5. Done(u) => \A v \in Reviewers : approval'[v].pc = "mark" => approval'[v] = approval[v]
  BY IdleType, ReviewType DEF Done
<1>6. CASE Post(u)
  <2>1. CASE /\ comment' = [comment EXCEPT ![d0] = @ \cup {approval[u].body}]
             /\ approval' = [approval EXCEPT ![u].pc = "mark"]
    <3>1. /\ comment'[d0] # {}
          /\ \A d \in DraftIds : comment[d] \subseteq comment'[d]
      BY <1>2, <1>3, <2>1
    <3>2. /\ [approval[u] EXCEPT !.pc = "mark"] \in Approval
          /\ [approval[u] EXCEPT !.pc = "mark"].draft = d0
      BY <1>2 DEF Approval
    <3>3. /\ approval'[u].draft = d0
          /\ \A v \in Reviewers \ {u} : approval'[v] = approval[v]
      BY <2>1, <3>2, ReviewType
    <3>4. \A v \in Reviewers : approval[v].draft \in DraftIds
      BY ReviewTypes
    <3>5. PostedFirst'
      BY <3>1, <3>3, <3>4 DEF PostedInv, PostedFirst
    <3>6. PostedIsOnGitHub'
      BY <1>6, <3>1 DEF PostedInv, PostedIsOnGitHub, Post
    <3>7. QED
      BY <3>5, <3>6 DEF PostedInv
  <2>2. CASE Done(u) /\ UNCHANGED comment
    BY <1>5, <1>6, <2>2, PostedStays DEF Post
  <2>3. QED
    BY <1>6, <2>1, <2>2 DEF Post
<1>7. CASE MarkPosted(u)
  <2>1. comment[d0] # {}
    BY <1>7 DEF MarkPosted, PostedInv, PostedFirst
  <2>2. \A d \in DraftIds \ {d0} : draft'[d] = draft[d]
    BY <1>3, <1>7 DEF MarkPosted
  <2>3. PostedIsOnGitHub'
    BY <1>7, <2>1, <2>2 DEF MarkPosted, PostedInv, PostedIsOnGitHub
  <2>4. PostedFirst'
    BY <1>5, <1>7 DEF MarkPosted, PostedInv, PostedFirst
  <2>5. QED
    BY <2>3, <2>4 DEF PostedInv
<1>8. CASE MarkRejected(u)
  <2>1. \A d \in DraftIds : draft'[d].status = "posted" => draft[d].status = "posted"
    <3>1. [draft[d0] EXCEPT !.status = "rejected"].status = "rejected"
      BY <1>2, <1>3 DEF Draft
    <3>2. QED
      BY <1>2, <1>3, <1>8, <3>1 DEF MarkRejected
  <2>2. QED
    BY <1>5, <1>8, <2>1, PostedStays DEF MarkRejected
<1>9. CASE SetBody(u)
  <2>1. \A d \in DraftIds : draft'[d].status = draft[d].status
    <3>1. ASSUME NEW b, draft' = [draft EXCEPT ![d0].body = b]
          PROVE  \A d \in DraftIds : draft'[d].status = draft[d].status
      <4>1. [draft[d0] EXCEPT !.body = b].status = draft[d0].status
        BY <1>2, <1>3 DEF Draft
      <4>2. QED
        BY <1>2, <1>3, <3>1, <4>1
    <3>2. QED
      BY <1>9, <3>1 DEF SetBody
  <2>2. QED
    BY <1>5, <1>9, <2>1, PostedStays DEF SetBody
<1>10. QED
  BY <1>1, <1>4, <1>6, <1>7, <1>8, <1>9 DEF StartReview, StartRewrite

LEMMA PostedStep ==
    ASSUME PostedInv, DraftTypeOK, [Next]_<<tvars, dvars>>
    PROVE  PostedInv'
<1>1. CASE UNCHANGED dvars
  BY <1>1 DEF dvars, PostedInv, PostedFirst, PostedIsOnGitHub
<1>2. CASE DraftCrash
  BY <1>2, IdleType, PostedStays DEF DraftCrash
<1>3. ASSUME NEW d \in DraftIds, AddDraft(d), UNCHANGED <<comment, approval>>
      PROVE  PostedInv'
  <2>1. \A e \in DraftIds : draft'[e].status = "posted" => draft[e].status = "posted"
    BY <1>3 DEF AddDraft, DraftTypeOK
  <2>2. QED
    BY <1>3, <2>1, PostedStays
<1>4. QED
  BY <1>1, <1>2, <1>3, DraftChanges, PostedDraftStep

\* A draft that is marked posted is on GitHub, for any number of drafts and of requests
\* that approve, reject, edit or rewrite them at the same time (review_draft).
THEOREM PostedIsOnGitHubCorrect == Spec => []PostedIsOnGitHub
<1>1. Init => DraftTypeOK /\ PostedInv
  <2>1. 0 \in 0 .. MaxBody
    BY DraftsAssumption
  <2>2. NoDraft \in Draft /\ NoDraft.status = "none"
    BY <2>1 DEF NoDraft, Draft
  <2>3. QED
    BY <2>2, IdleType DEF Init, DraftInit, DraftTypeOK, PostedInv, PostedFirst, PostedIsOnGitHub
<1>2. DraftTypeOK /\ PostedInv /\ [Next]_<<tvars, dvars>> => (DraftTypeOK /\ PostedInv)'
  BY DraftType, PostedStep
<1>3. PostedInv => PostedIsOnGitHub
  BY DEF PostedInv
<1>4. QED
  BY <1>1, <1>2, <1>3, PTL DEF Spec

-----------------------------------------------------------------------------
(***************************************************************************)
(* Type correctness of the tracker, step by step.                          *)
(***************************************************************************)
PollPC == {"off", "restore", "sleep", "discover", "trees", "analyse"}

LEMMA PollTypes ==
    ASSUME TypeOK
    PROVE  /\ poll \in Poll /\ poll.pc \in PollPC /\ poll.todo \in SUBSET Issues
           /\ poll.new \in SUBSET Issues /\ poll.queue \in SUBSET Issues
           /\ poll.snap \in [Issues -> Disc]
<1>1. poll \in Poll
  BY DEF TypeOK
<1>2. QED
  BY <1>1 DEF Poll, PollPC

LEMMA NoPollTypes ==
    /\ NoPoll \in Poll /\ NoPoll.pc = "off" /\ NoPoll.todo = {} /\ NoPoll.queue = {}
    /\ NoDisc \in Disc
<1>1. NoDisc \in Disc
  BY DEF NoDisc, Disc, TreeStatus
<1>2. QED
  BY <1>1 DEF NoPoll, Poll

\* The loop stays as it is, or ends its cycle.
LEMMA PollStays ==
    ASSUME PollOK, poll' = poll, Roots \subseteq Roots',
           act'["poll"].pc # "none" => act["poll"].pc # "none"
    PROVE  PollOK'
BY DEF PollOK

LEMMA PollAt ==
    ASSUME NEW pc \in PollPC
    PROVE  [NoPoll EXCEPT !.pc = pc] \in Poll /\ [NoPoll EXCEPT !.pc = pc].pc = pc
BY NoPollTypes DEF Poll, PollPC

LEMMA RaisedType ==
    ASSUME TypeOK, NEW x \in Actors
    PROVE  Raised(x) \in Poll /\ (Raised(x) = poll \/ (x = "poll" /\ Raised(x).pc = "sleep"))
BY PollTypes, PollAt DEF Raised, PollPC

LEMMA DiscTypes ==
    ASSUME TypeOK, NEW i \in Issues
    PROVE  /\ disc \in [Issues -> Disc] /\ disc[i].status \in TreeStatus
           /\ \A s \in TreeStatus : [disc EXCEPT ![i].status = s] \in [Issues -> Disc]
           /\ [disc EXCEPT ![i].summary = TRUE] \in [Issues -> Disc]
<1>1. disc \in [Issues -> Disc] /\ disc[i] \in Disc
  BY DEF TypeOK
<1>2. ASSUME NEW s \in TreeStatus
      PROVE  [disc EXCEPT ![i].status = s] \in [Issues -> Disc]
  <2>1. [disc[i] EXCEPT !.status = s] \in Disc
    BY <1>1 DEF Disc
  <2>2. QED
    BY <1>1, <2>1
<1>3. [disc EXCEPT ![i].summary = TRUE] \in [Issues -> Disc]
  <2>1. [disc[i] EXCEPT !.summary = TRUE] \in Disc
    BY <1>1 DEF Disc
  <2>2. QED
    BY <1>1, <2>1
<1>4. QED
  BY <1>1, <1>2, <1>3 DEF Disc

LEMMA RegisteredType ==
    ASSUME TypeOK, NEW new \in SUBSET Issues, Registered(new)
    PROVE  /\ disc' \in [Issues -> Disc] /\ row' \in [Issues -> Issues \cup {NoIssue}]
           /\ \A i \in Issues : disc'[i].status \in {disc[i].status, "watching"}
<1>1. [NoDisc EXCEPT !.status = "watching"] \in Disc
      /\ [NoDisc EXCEPT !.status = "watching"].status = "watching"
  BY NoPollTypes DEF Disc, TreeStatus
<1>2. QED
  BY <1>1 DEF Registered, TypeOK

-----------------------------------------------------------------------------
\* Steps that change nothing but labels, comments and requirements.
LEMMA PeopleType ==
    ASSUME TypeInv, DraftTypeOK', NEW i \in Issues, AddLabel(i) \/ Comment(i) \/ IssueAsIdea(i)
    PROVE  TypeInv'
<1>1. said \in [Issues -> 0 .. MaxComments] /\ reqs \in [Issues -> 0 .. MaxReqs]
      /\ MaxComments \in Nat /\ MaxReqs \in Nat
  BY TrackerAssumption DEF TypeInv, TypeOK
<1>2. label' \subseteq Labelled /\ said' \in [Issues -> 0 .. MaxComments]
      /\ reqs' \in [Issues -> 0 .. MaxReqs]
  BY <1>1 DEF TypeInv, TypeOK, AddLabel, Comment, IssueAsIdea
<1>3. UNCHANGED <<disc, row, trees, analyzing, lock, poll, act, starts>>
  BY DEF AddLabel, Comment, IssueAsIdea
<1>4. TypeOK'
  BY <1>2, <1>3 DEF TypeInv, TypeOK
<1>5. PollOK' /\ ActsOK'
  BY <1>3 DEF TypeInv, PollOK, ActsOK, Roots
<1>6. QED
  BY <1>4, <1>5 DEF TypeInv

\* An earlier tracker's requests go on with the trees they have.
LEMMA DetachedType ==
    ASSUME TypeInv, NEW x \in Actors
    PROVE  /\ Detached(x) \in Act
           /\ \/ Detached(x) = NoAct
              \/ /\ x # "poll" /\ Detached(x).pc = act[x].pc
                 /\ Detached(x).root = act[x].root /\ Detached(x).of = "earlier"
                 /\ Detached(x).maturity = act[x].maturity
<1>1. CASE x = "poll" \/ act[x].pc = "none"
  BY <1>1, NoActTypes DEF Detached
<1>2. CASE x # "poll" /\ act[x].pc # "none"
  <2> DEFINE s == IF StatusOf(x) = "none" THEN "watching" ELSE StatusOf(x)
             r1 == [act[x] EXCEPT !.of = "earlier"]
             r2 == [r1 EXCEPT !.status = s]
  <2>1. act[x] \in Act /\ act[x].status \in TreeStatus /\ act[x].root \in Issues
    BY <1>2, ActTypes DEF TypeInv, ActsOK
  <2>2. s \in TreeStatus
    BY <2>1, TreeTypes DEF TypeInv, StatusOf, TreeStatus
  <2> HIDE DEF s
  <2>3. /\ r1 \in Act /\ r1.pc = act[x].pc /\ r1.root = act[x].root /\ r1.of = "earlier"
        /\ r1.maturity = act[x].maturity
    BY <2>1 DEF Act
  <2> HIDE DEF r1
  <2>4. /\ r2 \in Act /\ r2.pc = act[x].pc /\ r2.root = act[x].root /\ r2.of = "earlier"
        /\ r2.maturity = act[x].maturity
    BY <2>2, <2>3 DEF Act
  <2>5. r2 = Detached(x)
    BY <1>2 DEF Detached, r1, s
  <2> HIDE DEF r2
  <2>6. QED
    BY <1>2, <2>4, <2>5
<1>3. QED
  BY <1>1, <1>2

\* The tracker ends, and perhaps another one starts.
LEMMA TrackerEnds ==
    ASSUME TypeInv, DraftTypeOK', trees' = [i \in Issues |-> NoTree], analyzing' = {},
           lock' = "free", poll' \in Poll,
           \/ poll'.pc = "off"
           \/ /\ poll'.pc = "restore"
              /\ \A i \in poll'.todo : poll'.snap[i].status \in {"watching", "ready"},
           act' = [x \in Actors |-> Detached(x)] \/ act' = [x \in Actors |-> NoAct],
           starts' \in 0 .. MaxStarts, UNCHANGED <<label, said, disc, row, reqs>>
    PROVE  TypeInv'
<1>1. TreesOK' /\ Roots' = {}
  BY TreesGone
<1>2. \A x \in Actors :
        \/ act'[x] = NoAct
        \/ /\ x # "poll" /\ act'[x].pc = act[x].pc /\ act'[x].root = act[x].root
           /\ act'[x].of = "earlier" /\ act'[x].maturity = act[x].maturity
  BY DetachedType
<1>3. act' \in [Actors -> Act]
  BY DetachedType, NoActTypes
<1>4. TypeOK'
  BY <1>1, <1>3 DEF TypeInv, TypeOK, TreesOK
<1>5. "poll" \in Actors
  BY DEF Actors
<1>6. PollOK'
  BY <1>2, <1>5, NoActTypes DEF PollOK
<1>7. ActsOK'
  BY <1>2, NoActTypes DEF TypeInv, ActsOK
<1>8. QED
  BY <1>4, <1>6, <1>7 DEF TypeInv

LEMMA StartTrackingType ==
    ASSUME TypeInv, DraftTypeOK', StartTracking
    PROVE  TypeInv'
<1> DEFINE todo == {i \in Issues : disc[i].status \in {"watching", "ready"}}
           p1 == [NoPoll EXCEPT !.pc = "restore"]
           p2 == [p1 EXCEPT !.todo = todo]
           p3 == [p2 EXCEPT !.snap = disc]
<1>1. disc \in [Issues -> Disc] /\ starts \in 0 .. MaxStarts /\ MaxStarts \in Nat
  BY TrackerAssumption DEF TypeInv, TypeOK
<1>2. todo \in SUBSET Issues /\ \A i \in todo : disc[i].status \in {"watching", "ready"}
  OBVIOUS
<1> HIDE DEF todo
<1>3. p1 \in Poll /\ p1.pc = "restore"
  BY NoPollTypes DEF Poll
<1> HIDE DEF p1
<1>4. p2 \in Poll /\ p2.pc = "restore" /\ p2.todo = todo
  BY <1>2, <1>3 DEF Poll
<1> HIDE DEF p2
<1>5. p3 \in Poll /\ p3.pc = "restore" /\ p3.todo = todo /\ p3.snap = disc
  BY <1>1, <1>4 DEF Poll
<1>6. poll' = p3
  BY DEF StartTracking, p1, p2, todo
<1> HIDE DEF p3
<1>7. starts' \in 0 .. MaxStarts
  BY <1>1 DEF StartTracking
<1>8. QED
  BY <1>2, <1>5, <1>6, <1>7, TrackerEnds DEF StartTracking

LEMMA EndsType ==
    ASSUME TypeInv, DraftTypeOK', StopTracking \/ Crash
    PROVE  TypeInv'
<1>1. starts \in 0 .. MaxStarts
  BY DEF TypeInv, TypeOK
<1>2. QED
  BY <1>1, NoPollTypes, TrackerEnds DEF StopTracking, Crash

\* The restore of a tree changes of the others only which object they hold.
LEMMA RestoredActs ==
    ASSUME TypeInv, NEW i \in Issues, Restore(i)
    PROVE  /\ act' \in [Actors -> Act]
           /\ \A x \in Actors :
                /\ act'[x].pc = act[x].pc /\ act'[x].root = act[x].root
                /\ act'[x].maturity = act[x].maturity
                /\ act'[x].of = act[x].of \/ (act[x].of = "tree" /\ act'[x].of = "replaced")
<1>1. trees[i].status \in TreeStatus
  BY TreeTypes DEF TypeInv
<1>2. ASSUME NEW x \in Actors
      PROVE  /\ act'[x] \in Act
             /\ act'[x].pc = act[x].pc /\ act'[x].root = act[x].root
             /\ act'[x].maturity = act[x].maturity
             /\ act'[x].of = act[x].of \/ (act[x].of = "tree" /\ act'[x].of = "replaced")
  <2> DEFINE r1 == [act[x] EXCEPT !.of = "replaced"]
             r2 == [r1 EXCEPT !.status = trees[i].status]
  <2>1. act[x] \in Act
    BY ActTypes DEF TypeInv
  <2>2. /\ r1 \in Act /\ r1.pc = act[x].pc /\ r1.root = act[x].root /\ r1.of = "replaced"
        /\ r1.maturity = act[x].maturity
    BY <2>1 DEF Act
  <2> HIDE DEF r1
  <2>3. /\ r2 \in Act /\ r2.pc = act[x].pc /\ r2.root = act[x].root /\ r2.of = "replaced"
        /\ r2.maturity = act[x].maturity
    BY <1>1, <2>2 DEF Act
  <2>4. act'[x] = IF act[x].pc # "none" /\ act[x].root = i /\ act[x].of = "tree"
                  THEN r2 ELSE act[x]
    BY DEF Restore, r1
  <2> HIDE DEF r2
  <2>5. QED
    BY <2>1, <2>3, <2>4
<1>3. act' = [x \in Actors |-> act'[x]]
  BY DEF Restore
<1>4. QED
  BY <1>2, <1>3

LEMMA RestoreTree ==
    ASSUME TypeInv, NEW i \in Issues, Restore(i)
    PROVE  TreesOK' /\ Roots' = Roots \cup {i}
<1> DEFINE t1 == [NoTree EXCEPT !.status = poll.snap[i].status]
           t2 == [t1 EXCEPT !.summary = poll.snap[i].summary]
           t3 == [t2 EXCEPT !.nodes = {n \in Issues : row[n] = i}]
<1>1. poll.snap[i].status \in {"watching", "ready"} /\ poll.snap[i].summary \in BOOLEAN
  <2>1. poll.snap[i] \in Disc
    BY PollTypes DEF TypeInv
  <2>2. QED
    BY <2>1 DEF Restore, TypeInv, PollOK, Disc
<1>2. t1 \in Tree /\ t1.status # "none"
  BY <1>1, NoTreeTypes DEF Tree, TreeStatus
<1> HIDE DEF t1
<1>3. t2 \in Tree /\ t2.status # "none"
  BY <1>1, <1>2 DEF Tree
<1> HIDE DEF t2
<1>4. t3 \in Tree /\ t3.status # "none"
  BY <1>3 DEF Tree
<1>5. trees' = [trees EXCEPT ![i] = t3]
  BY DEF Restore, t1, t2
<1>6. TreesOK
  BY DEF TypeInv, TypeOK, TreesOK
<1> HIDE DEF t3
<1>7. QED
  BY <1>4, <1>5, <1>6, TreeReplaced

LEMMA RestoreType ==
    ASSUME TypeInv, DraftTypeOK', NEW i \in Issues, Restore(i)
    PROVE  TypeInv'
<1>1. /\ poll'.pc = poll.pc /\ poll'.snap = poll.snap /\ poll'.todo \subseteq poll.todo
      /\ poll' \in Poll
  BY PollTypes DEF TypeInv, Restore, Poll
<1>2. TypeOK'
  BY <1>1, RestoreTree, RestoredActs DEF TypeInv, TypeOK, TreesOK, Restore
<1>3. "poll" \in Actors
  BY DEF Actors
<1>4. PollOK'
  BY <1>1, <1>3, RestoreTree, RestoredActs DEF TypeInv, PollOK, Restore
<1>5. ActsOK'
  BY RestoreTree, RestoredActs DEF TypeInv, ActsOK
<1>6. QED
  BY <1>2, <1>4, <1>5 DEF TypeInv

\* Steps of the loop that leave trees and analyses alone.
LEMMA PollMoves ==
    ASSUME TypeInv, DraftTypeOK', poll' \in Poll, lock' \in {"free", "poll"},
           \/ poll'.pc \in {"discover", "sleep"} /\ act["poll"].pc = "none"
           \/ poll'.pc = "analyse",
           UNCHANGED <<label, said, disc, row, reqs, trees, analyzing, act, starts>>
    PROVE  TypeInv'
<1>1. TypeOK'
  BY DEF TypeInv, TypeOK
<1>2. PollOK' /\ ActsOK'
  BY DEF TypeInv, PollOK, ActsOK, Roots
<1>3. QED
  BY <1>1, <1>2 DEF TypeInv

LEMMA BeginCycleType ==
    ASSUME TypeInv, DraftTypeOK', BeginCycle
    PROVE  TypeInv'
<1>1. poll' \in Poll /\ poll'.pc = "discover" /\ act["poll"].pc = "none"
  BY PollAt DEF BeginCycle, TypeInv, PollOK, PollPC
<1>2. QED
  BY <1>1, PollMoves DEF BeginCycle

LEMMA EndFetchType ==
    ASSUME TypeInv, DraftTypeOK', EndFetch
    PROVE  TypeInv'
<1>1. poll' \in Poll /\ poll'.pc = "analyse"
  BY PollTypes DEF EndFetch, TypeInv, Poll
<1>2. QED
  BY <1>1, PollMoves DEF EndFetch

LEMMA EndCycleType ==
    ASSUME TypeInv, DraftTypeOK', EndCycle
    PROVE  TypeInv'
<1>1. poll' \in Poll /\ poll'.pc = "sleep"
  BY PollAt DEF EndCycle, PollPC
<1>2. TypeOK' /\ PollOK' /\ ActsOK'
  BY <1>1 DEF EndCycle, TypeInv, TypeOK, PollOK, ActsOK, Roots
<1>3. QED
  BY <1>2 DEF TypeInv

LEMMA NewTreeType ==
    ASSUME NEW i \in Issues
    PROVE  NewTree(i) \in Tree /\ NewTree(i).status = "watching" /\ NewTree(i).nodes = {i}
<1> DEFINE t1 == [NoTree EXCEPT !.status = "watching"]
           t2 == [t1 EXCEPT !.nodes = {i}]
<1>1. t1 \in Tree /\ t1.status = "watching"
  BY NoTreeTypes DEF Tree, TreeStatus
<1> HIDE DEF t1
<1>2. t2 \in Tree /\ t2.status = "watching" /\ t2.nodes = {i}
  BY <1>1 DEF Tree
<1>3. t2 = NewTree(i)
  BY DEF NewTree, t1
<1> HIDE DEF t2
<1>4. QED
  BY <1>2, <1>3

LEMMA DiscoverType ==
    ASSUME TypeInv, DraftTypeOK', Discover
    PROVE  TypeInv' /\ Roots \subseteq Roots'
<1> DEFINE new == label \ Roots
           p1 == [poll EXCEPT !.pc = "trees"]
           p2 == [p1 EXCEPT !.new = new]
           p3 == [p2 EXCEPT !.todo = Roots \cup new]
<1>1. new \in SUBSET Issues /\ Roots \cup new \in SUBSET Issues
  BY TrackerAssumption DEF TypeInv, TypeOK, Roots
<1>2. TreesOK' /\ Roots' = Roots \cup new
  <2>1. \A i \in Issues : trees'[i] = IF i \in new THEN NewTree(i) ELSE trees[i]
    BY DEF Discover
  <2>2. trees' = [i \in Issues |-> trees'[i]]
    BY DEF Discover
  <2>3. TreesOK
    BY DEF TypeInv, TypeOK, TreesOK
  <2>4. TreesOK'
    BY <2>1, <2>2, <2>3, NewTreeType DEF TreesOK
  <2>5. QED
    BY <1>1, <2>1, <2>4, NewTreeType DEF Roots
<1> HIDE DEF new
<1>3. p1 \in Poll /\ p1.pc = "trees"
  BY PollTypes DEF TypeInv, Poll
<1> HIDE DEF p1
<1>4. p2 \in Poll /\ p2.pc = "trees"
  BY <1>1, <1>3 DEF Poll
<1> HIDE DEF p2
<1>5. p3 \in Poll /\ p3.pc = "trees" /\ p3.todo = Roots \cup new
  BY <1>1, <1>4 DEF Poll
<1>6. poll' = p3
  BY DEF Discover, p1, p2, new
<1> HIDE DEF p3
<1>7. disc' \in [Issues -> Disc] /\ row' \in [Issues -> Issues \cup {NoIssue}]
  BY <1>1, RegisteredType DEF Discover, TypeInv, new
<1>8. TypeOK'
  BY <1>2, <1>5, <1>6, <1>7 DEF Discover, TypeInv, TypeOK, TreesOK
<1>9. PollOK' /\ ActsOK'
  BY <1>2, <1>5, <1>6 DEF Discover, TypeInv, PollOK, ActsOK
<1>10. QED
  BY <1>2, <1>8, <1>9 DEF TypeInv

\* A tree that is polled keeps its status.
LEMMA PolledTree ==
    ASSUME TypeInv, NEW i \in Roots, NEW nodes \in SUBSET Issues,
           trees' = [trees EXCEPT ![i].nodes = nodes,
                                  ![i].heard = Heard([trees[i] EXCEPT !.nodes = nodes])]
    PROVE  TreesOK' /\ Roots' = Roots /\ \A j \in Issues : trees'[j].status = trees[j].status
<1> DEFINE t1 == [trees[i] EXCEPT !.nodes = nodes]
           t2 == [t1 EXCEPT !.heard = Heard(t1)]
<1>1. /\ i \in Issues /\ trees[i] \in Tree /\ trees[i].status # "none"
      /\ trees \in [Issues -> Tree] /\ TreesOK
  BY DEF TypeInv, TypeOK, Roots, TreesOK
<1>2. t1 \in Tree /\ t1.status = trees[i].status
  BY <1>1 DEF Tree
<1>3. trees' = [trees EXCEPT ![i] = t2]
  BY <1>1
<1> HIDE DEF t1
<1>4. Heard(t1) \in [Issues -> 0 .. MaxComments]
  BY <1>2, HeardType DEF TypeInv, TypeOK
<1>5. t2 \in Tree /\ t2.status = trees[i].status
  BY <1>2, <1>4 DEF Tree
<1> HIDE DEF t2
<1>6. TreesOK' /\ Roots' = Roots \cup {i}
  BY <1>1, <1>3, <1>5, TreeReplaced
<1>7. Roots \cup {i} = Roots
  OBVIOUS
<1>8. \A j \in Issues : trees'[j].status = trees[j].status
  BY <1>1, <1>3, <1>5
<1>9. QED
  BY <1>6, <1>7, <1>8

LEMMA PollTreeType ==
    ASSUME TypeInv, DraftTypeOK', NEW i \in Issues, PollTree(i)
    PROVE  TypeInv' /\ Roots' = Roots
<1>1. i \in Roots
  BY DEF PollTree, TypeInv, PollOK
<1>2. ASSUME NEW nodes, nodes \in Crawled(trees[i].nodes) \cup {trees[i].nodes}
      PROVE  nodes \in SUBSET Issues
  BY <1>2, CrawledType, TreeTypes DEF TypeInv
<1>3. TreesOK' /\ Roots' = Roots /\ row' \in [Issues -> Issues \cup {NoIssue}]
  <2>1. CASE UNCHANGED <<trees, row>>
    BY <2>1 DEF TypeInv, TypeOK, TreesOK, Roots
  <2>2. ASSUME NEW nodes, nodes \in Crawled(trees[i].nodes) \cup {trees[i].nodes},
               trees' = [trees EXCEPT ![i].nodes = nodes,
                                      ![i].heard = Heard([trees[i] EXCEPT !.nodes = nodes])],
               row' = Kept(nodes, i)
        PROVE  TreesOK' /\ Roots' = Roots /\ row' \in [Issues -> Issues \cup {NoIssue}]
    BY <1>1, <1>2, <2>2, PolledTree, KeptType DEF TypeInv, TypeOK
  <2>3. QED
    BY <2>1, <2>2 DEF PollTree
<1>4. poll' \in Poll /\ poll'.pc = "trees" /\ poll'.todo \subseteq poll.todo
  <2> DEFINE p1 == [poll EXCEPT !.todo = @ \ {i}]
  <2>1. p1 \in Poll /\ p1.pc = poll.pc /\ p1.todo \subseteq poll.todo
    BY PollTypes DEF TypeInv, Poll
  <2>2. \A q \in SUBSET Issues :
          /\ [p1 EXCEPT !.queue = q] \in Poll /\ [p1 EXCEPT !.queue = q].pc = poll.pc
          /\ [p1 EXCEPT !.queue = q].todo \subseteq poll.todo
    BY <2>1 DEF Poll
  <2>3. poll' = p1 \/ \E q \in SUBSET Issues : poll' = [p1 EXCEPT !.queue = q]
    <3>1. poll.queue \in SUBSET Issues /\ poll.queue \cup {i} \in SUBSET Issues
      BY PollTypes DEF TypeInv
    <3>2. CASE Skipped(i)
      BY <3>2 DEF PollTree
    <3>3. CASE ~Skipped(i)
      BY <3>1, <3>3 DEF PollTree
    <3>4. QED
      BY <3>2, <3>3
  <2> HIDE DEF p1
  <2>4. poll.pc = "trees"
    BY DEF PollTree
  <2>5. QED
    BY <2>1, <2>2, <2>3, <2>4
<1>5. TypeOK'
  BY <1>3, <1>4 DEF PollTree, TypeInv, TypeOK, TreesOK
<1>6. PollOK' /\ ActsOK'
  BY <1>3, <1>4 DEF PollTree, TypeInv, PollOK, ActsOK
<1>7. QED
  BY <1>3, <1>5, <1>6 DEF TypeInv

-----------------------------------------------------------------------------
\* A new analysis or submission.
Begun(pc, i) == [NoAct EXCEPT !.pc = pc, !.root = i]

LEMMA NewAct ==
    ASSUME NEW pc \in ActPC, NEW i \in Issues
    PROVE  /\ Begun(pc, i) \in Act /\ Begun(pc, i).pc = pc /\ Begun(pc, i).root = i
           /\ Begun(pc, i).of = "tree" /\ Begun(pc, i).maturity = "none"
<1> DEFINE r1 == [NoAct EXCEPT !.pc = pc]
           r2 == [r1 EXCEPT !.root = i]
<1>1. r1 \in Act /\ r1.pc = pc /\ r1.of = "tree" /\ r1.maturity = "none"
  BY NoActTypes DEF Act, ActPC
<1>2. r2 = Begun(pc, i)
  BY DEF Begun
<1> HIDE DEF r1
<1>3. r2 \in Act /\ r2.pc = pc /\ r2.root = i /\ r2.of = "tree" /\ r2.maturity = "none"
  BY <1>1 DEF Act
<1> HIDE DEF r2
<1>4. QED
  BY <1>2, <1>3

Fetching(i, nodes) == [NoAct EXCEPT !.pc = "fetch", !.root = i, !.nodes = nodes]

LEMMA NewFetch ==
    ASSUME NEW i \in Issues, NEW nodes \in SUBSET Issues
    PROVE  /\ Fetching(i, nodes) \in Act /\ Fetching(i, nodes).pc = "fetch"
           /\ Fetching(i, nodes).root = i /\ Fetching(i, nodes).of = "tree"
           /\ Fetching(i, nodes).maturity = "none"
<1> DEFINE r1 == Begun("fetch", i)
           r2 == [r1 EXCEPT !.nodes = nodes]
<1>1. "fetch" \in ActPC
  BY DEF ActPC
<1>2. /\ r1 \in Act /\ r1.pc = "fetch" /\ r1.root = i /\ r1.of = "tree"
      /\ r1.maturity = "none"
  BY <1>1, NewAct
<1>3. r2 = Fetching(i, nodes)
  BY DEF Fetching, Begun
<1> HIDE DEF r1
<1>4. /\ r2 \in Act /\ r2.pc = "fetch" /\ r2.root = i /\ r2.of = "tree"
      /\ r2.maturity = "none"
  BY <1>2 DEF Act
<1> HIDE DEF r2
<1>5. QED
  BY <1>3, <1>4

\* The loop starts an analysis, passes a tree over, or fails.
LEMMA PollAnalyses ==
    ASSUME TypeInv, NEW i \in Issues, PollAnalyse(i)
    PROVE  /\ poll.pc = "analyse" /\ act["poll"].pc = "none"
           /\ poll' \in Poll /\ poll'.pc \in {"analyse", "sleep"}
           /\ \/ UNCHANGED <<analyzing, act>>
              \/ /\ Becomes("poll", "agent", i, "tree", "none") /\ i \in Roots
                 /\ i \notin analyzing /\ analyzing' = analyzing \cup {i}
                 /\ poll'.pc = "analyse"
<1>1. poll.pc = "analyse" /\ act["poll"].pc = "none"
  BY DEF PollAnalyse
<1>2. /\ [poll EXCEPT !.queue = @ \ {i}] \in Poll
      /\ [poll EXCEPT !.queue = @ \ {i}].pc = "analyse"
  BY <1>1, PollTypes DEF TypeInv, Poll
<1>3. Raised("poll") \in Poll /\ Raised("poll").pc = "sleep"
  BY PollAt DEF Raised, PollPC
<1>4. CASE ~Guarded(i) \/ i \notin trees[i].nodes
  BY <1>1, <1>2, <1>3, <1>4 DEF PollAnalyse
<1>5. CASE Guarded(i) /\ i \in trees[i].nodes
  <2>1. "poll" \in Actors /\ "agent" \in ActPC
    BY DEF Actors, ActPC
  <2>2. i \in Roots
    BY <1>5, TreeTypes, NoTreeTypes DEF TypeInv
  <2> DEFINE rec == Begun("agent", i)
  <2>3. act' = [act EXCEPT !["poll"] = rec]
    BY <1>5 DEF PollAnalyse, Begun
  <2>4. rec \in Act /\ rec.pc = "agent" /\ rec.root = i /\ rec.of = "tree" /\ rec.maturity = "none"
    BY <2>1, NewAct
  <2> HIDE DEF rec
  <2>5. Becomes("poll", "agent", i, "tree", "none")
    BY <2>1, <2>3, <2>4, Replaced DEF TypeInv
  <2>6. QED
    BY <1>1, <1>2, <1>5, <2>2, <2>5 DEF PollAnalyse, Guarded
<1>6. QED
  BY <1>4, <1>5

LEMMA PollAnalyseType ==
    ASSUME TypeInv, DraftTypeOK', NEW i \in Issues, PollAnalyse(i)
    PROVE  TypeInv'
<1>1. "poll" \in Actors /\ "poll" \notin People
  BY TrackerAssumption DEF Actors
<1>2. Roots' = Roots
  BY DEF PollAnalyse, Roots
<1>3. act' \in [Actors -> Act] /\ analyzing' \subseteq Issues
  BY PollAnalyses DEF Becomes, TypeInv, TypeOK
<1>4. TypeOK'
  BY <1>3, PollAnalyses DEF PollAnalyse, TypeInv, TypeOK
<1>5. PollOK'
  BY <1>1, <1>2, PollAnalyses DEF PollOK, Becomes
<1>6. ActsOK'
  <2>1. CASE UNCHANGED act
    BY <1>2, <2>1 DEF TypeInv, ActsOK
  <2>2. CASE Becomes("poll", "agent", i, "tree", "none") /\ i \in Roots
    BY <1>1, <1>2, <2>2, ActsAfter DEF TypeInv
  <2>3. QED
    BY <2>1, <2>2, PollAnalyses
<1>7. QED
  BY <1>4, <1>5, <1>6 DEF TypeInv

\* A request of a person crawls a tree, which is there from then on.
LEMMA FocusStarts ==
    ASSUME TypeInv, NEW x \in Actors, NEW i \in Issues, FocusStart(x, i)
    PROVE  /\ Becomes(x, "fetch", i, "tree", "none") /\ x \in Focus
           /\ TreesOK' /\ Roots' = Roots \cup {i}
           /\ disc' \in [Issues -> Disc] /\ row' \in [Issues -> Issues \cup {NoIssue}]
           /\ \A j \in Issues : disc'[j].status \in {disc[j].status, "watching"}
<1> DEFINE t == IF {i} \ Roots = {} THEN trees[i] ELSE NewTree(i)
<1>1. PICK nodes \in Crawled(t.nodes) :
          /\ trees' = [trees EXCEPT ![i] = [t EXCEPT !.nodes = nodes]]
          /\ act' = [act EXCEPT ![x] = [NoAct EXCEPT !.pc = "fetch", !.root = i,
                                                     !.nodes = nodes]]
          /\ disc' = [disc EXCEPT ![i] = IF @.status = "none"
                                         THEN [@ EXCEPT !.status = "watching"] ELSE @]
          /\ row' = Kept(nodes \cup {i}, i)
  BY DEF FocusStart
<1>2. nodes \in SUBSET Issues
  BY CrawledType
<1>3. t \in Tree /\ t.status # "none"
  BY NewTreeType, TreeTypes DEF TypeInv
<1> HIDE DEF t
<1>4. [t EXCEPT !.nodes = nodes] \in Tree /\ [t EXCEPT !.nodes = nodes].status # "none"
  BY <1>2, <1>3 DEF Tree
<1>5. TreesOK' /\ Roots' = Roots \cup {i}
  <2>1. TreesOK
    BY DEF TypeInv, TypeOK, TreesOK
  <2>2. QED
    BY <1>1, <1>4, <2>1, TreeReplaced
<1>6. Becomes(x, "fetch", i, "tree", "none")
  <2> DEFINE rec == Fetching(i, nodes)
  <2>1. /\ rec \in Act /\ rec.pc = "fetch" /\ rec.root = i /\ rec.of = "tree"
        /\ rec.maturity = "none"
    BY <1>2, NewFetch
  <2>2. act' = [act EXCEPT ![x] = rec]
    BY <1>1 DEF Fetching
  <2> HIDE DEF rec
  <2>3. QED
    BY <2>1, <2>2, Replaced DEF TypeInv
<1>7. /\ disc' \in [Issues -> Disc]
      /\ \A j \in Issues : disc'[j].status \in {disc[j].status, "watching"}
  <2>1. disc \in [Issues -> Disc] /\ disc[i] \in Disc
    BY DEF TypeInv, TypeOK
  <2>2. /\ [disc[i] EXCEPT !.status = "watching"] \in Disc
        /\ [disc[i] EXCEPT !.status = "watching"].status = "watching"
    BY <2>1 DEF Disc, TreeStatus
  <2>3. QED
    BY <1>1, <2>1, <2>2
<1>8. row' \in [Issues -> Issues \cup {NoIssue}]
  BY <1>1, KeptType DEF TypeInv, TypeOK
<1>9. x \in Focus
  BY DEF FocusStart
<1>10. QED
  BY <1>5, <1>6, <1>7, <1>8, <1>9

LEMMA FocusStartType ==
    ASSUME TypeInv, DraftTypeOK', NEW x \in Actors, NEW i \in Issues, FocusStart(x, i)
    PROVE  TypeInv'
<1>1. x \notin People /\ x # "poll" /\ "poll" \in Actors
  BY TrackerAssumption, FocusStarts DEF Actors
<1>2. TypeOK'
  BY FocusStarts DEF FocusStart, TypeInv, TypeOK, TreesOK, Becomes
<1>3. PollOK'
  <2>1. act'["poll"] = act["poll"] /\ Roots \subseteq Roots'
    BY <1>1, FocusStarts DEF Becomes
  <2>2. QED
    BY <2>1, PollStays DEF FocusStart, TypeInv
<1>4. ActsOK'
  BY <1>1, FocusStarts, ActsAfter DEF TypeInv
<1>5. QED
  BY <1>2, <1>3, <1>4 DEF TypeInv

\* Its fetch is over, and its analysis starts, unless it cannot.
LEMMA FocusEnds ==
    ASSUME TypeInv, NEW x \in Actors, FocusFetched(x)
    PROVE  /\ act[x].pc = "fetch" /\ act[x].root \in Issues
           /\ \/ /\ Becomes(x, "none", NoIssue, "tree", "none") /\ analyzing' = analyzing
              \/ /\ Becomes(x, "agent", act[x].root, act[x].of, act[x].maturity)
                 /\ IF act[x].of = "earlier" THEN analyzing' = analyzing
                    ELSE /\ act[x].root \notin analyzing
                         /\ analyzing' = analyzing \cup {act[x].root}
           /\ TreesOK' /\ Roots' = Roots
           /\ \A j \in Issues : trees'[j].status = trees[j].status
<1> DEFINE i == act[x].root
           moved == act[x].of = "tree" /\ trees[i].nodes # act[x].nodes
           starting == ~moved /\ i \in act[x].nodes /\ (act[x].of = "earlier" \/ Guarded(i))
           r1 == [act[x] EXCEPT !.pc = "agent"]
           r2 == [r1 EXCEPT !.nodes = {}]
<1>1. act[x].pc = "fetch" /\ i \in Issues /\ act[x] \in Act
  BY ActTypes DEF FocusFetched, TypeInv, ActsOK
<1>2. /\ r1 \in Act /\ r1.pc = "agent" /\ r1.root = i /\ r1.of = act[x].of
      /\ r1.maturity = act[x].maturity
  BY <1>1 DEF Act
<1>3. act' = [act EXCEPT ![x] = IF starting THEN r2 ELSE NoAct]
  BY DEF FocusFetched
<1> HIDE DEF r1
<1>4. /\ r2 \in Act /\ r2.pc = "agent" /\ r2.root = i /\ r2.of = act[x].of
      /\ r2.maturity = act[x].maturity
  BY <1>2 DEF Act
<1> HIDE DEF r2
<1>5. analyzing' = IF starting /\ act[x].of # "earlier" THEN analyzing \cup {i} ELSE analyzing
  BY DEF FocusFetched
<1>6. trees' = IF act[x].of = "tree" /\ ~moved
               THEN [trees EXCEPT ![i].heard = Heard(trees[i])] ELSE trees
  BY DEF FocusFetched
<1>7. starting /\ act[x].of # "earlier" => i \notin analyzing
  BY DEF Guarded
<1> HIDE DEF starting, moved
<1>8. /\ TreesOK' /\ Roots' = Roots
      /\ \A j \in Issues : trees'[j].status = trees[j].status
  <2> DEFINE t == [trees[i] EXCEPT !.heard = Heard(trees[i])]
  <2>1. /\ trees \in [Issues -> Tree] /\ trees[i] \in Tree /\ TreesOK
        /\ Heard(trees[i]) \in [Issues -> 0 .. MaxComments]
    BY <1>1, TreeTypes, HeardType DEF TypeInv, TypeOK, TreesOK
  <2>2. CASE act[x].of = "tree" /\ ~moved
    <3>1. t \in Tree /\ t.status = trees[i].status
      BY <2>1 DEF Tree
    <3>2. trees' = [trees EXCEPT ![i] = t]
      BY <1>6, <2>2
    <3> HIDE DEF t
    <3>3. i \in Roots
      BY <1>1, <2>2 DEF TypeInv, ActsOK
    <3>4. trees[i].status # "none" /\ Roots \cup {i} = Roots
      BY <3>3 DEF Roots
    <3>5. TreesOK' /\ Roots' = Roots
      BY <1>1, <2>1, <3>1, <3>2, <3>4, TreeReplaced
    <3>6. \A j \in Issues : trees'[j].status = trees[j].status
      BY <1>1, <2>1, <3>1, <3>2
    <3>7. QED
      BY <3>5, <3>6
  <2>3. CASE ~(act[x].of = "tree" /\ ~moved)
    BY <1>6, <2>1, <2>3 DEF TreesOK, Roots
  <2>4. QED
    BY <2>2, <2>3
<1>9. CASE starting
  <2>1. Becomes(x, "agent", i, act[x].of, act[x].maturity)
    BY <1>3, <1>4, <1>9, Replaced DEF TypeInv
  <2>2. IF act[x].of = "earlier" THEN analyzing' = analyzing
        ELSE i \notin analyzing /\ analyzing' = analyzing \cup {i}
    BY <1>5, <1>7, <1>9
  <2>3. QED
    BY <1>1, <1>8, <2>1, <2>2
<1>10. CASE ~starting
  <2>1. Becomes(x, "none", NoIssue, "tree", "none")
    BY <1>3, <1>10, EndsBecomes DEF TypeInv
  <2>2. analyzing' = analyzing
    BY <1>5, <1>10
  <2>3. QED
    BY <1>1, <1>8, <2>1, <2>2
<1>11. QED
  BY <1>9, <1>10

LEMMA FocusFetchedType ==
    ASSUME TypeInv, DraftTypeOK', NEW x \in Actors, FocusFetched(x)
    PROVE  TypeInv'
<1>1. /\ x \in Focus /\ x \notin People /\ x # "poll" /\ "poll" \in Actors
      /\ act[x].maturity # "submitted" /\ (act[x].of = "tree" => act[x].root \in Roots)
  BY TrackerAssumption, FocusEnds DEF Actors, TypeInv, ActsOK
<1>2. lock' \in {"free", "poll"} \cup Focus
  BY DEF FocusFetched, Freed, TypeInv, TypeOK
<1>3. act' \in [Actors -> Act] /\ analyzing' \subseteq Issues
  BY FocusEnds DEF Becomes, TypeInv, TypeOK
<1>4. TypeOK'
  BY <1>2, <1>3, FocusEnds DEF FocusFetched, TypeInv, TypeOK, TreesOK
<1>5. PollOK'
  <2>1. act'["poll"] = act["poll"]
    BY <1>1, FocusEnds DEF Becomes
  <2>2. QED
    BY <2>1, FocusEnds, PollStays DEF FocusFetched, TypeInv
<1>6. ActsOK'
  BY <1>1, FocusEnds, ActsAfter DEF TypeInv
<1>7. QED
  BY <1>4, <1>5, <1>6 DEF TypeInv

-----------------------------------------------------------------------------
LEMMA ReleasedLess == \A x \in Actors : Released(x) \subseteq analyzing
BY DEF Released

\* An analysis ends without an answer.
LEMMA Failed ==
    ASSUME TypeInv, NEW x \in Actors, NEW o, AnalysisFails(x, o)
    PROVE  /\ act[x].pc = "agent" /\ act[x].root \in Issues
           /\ Becomes(x, "none", NoIssue, "tree", "none") /\ analyzing' = Released(x)
           /\ poll' \in Poll /\ (poll' = poll \/ (x = "poll" /\ poll'.pc = "sleep"))
<1>1. act[x].pc = "agent" /\ act[x].root \in Issues
  BY DEF AnalysisFails, TypeInv, ActsOK
<1>2. Becomes(x, "none", NoIssue, "tree", "none") /\ analyzing' = Released(x)
  BY EndsBecomes DEF AnalysisFails, Ends, TypeInv
<1>3. poll' \in Poll /\ (poll' = poll \/ (x = "poll" /\ poll'.pc = "sleep"))
  <2>1. poll' = Raised(x) \/ poll' = poll
    BY DEF AnalysisFails
  <2>2. QED
    BY <2>1, PollTypes, RaisedType DEF TypeInv
<1>4. QED
  BY <1>1, <1>2, <1>3

LEMMA AnalysisFailsType ==
    ASSUME TypeInv, DraftTypeOK', NEW x \in Actors, NEW o, AnalysisFails(x, o)
    PROVE  TypeInv'
<1>1. Roots' = Roots
  BY DEF AnalysisFails, Roots
<1>2. analyzing' \subseteq Issues /\ act' \in [Actors -> Act] /\ poll' \in Poll
  BY Failed, ReleasedLess DEF TypeInv, TypeOK, Becomes
<1>3. TypeOK'
  BY <1>2 DEF AnalysisFails, TypeInv, TypeOK
<1>4. PollOK'
  <2>1. CASE x = "poll"
    <3>1. act'["poll"].pc = "none"
      BY <2>1, Failed DEF Becomes
    <3>2. poll' = poll \/ poll'.pc = "sleep"
      BY Failed
    <3>3. QED
      BY <1>1, <3>1, <3>2 DEF TypeInv, PollOK
  <2>2. CASE x # "poll"
    <3>1. act'["poll"] = act["poll"] /\ poll' = poll
      BY <2>2, Failed DEF Becomes, Actors
    <3>2. QED
      BY <1>1, <3>1, PollStays DEF TypeInv
  <2>3. QED
    BY <2>1, <2>2
<1>5. ActsOK'
  BY <1>1, Failed, ActsAfter DEF TypeInv
<1>6. QED
  BY <1>3, <1>4, <1>5 DEF TypeInv

\* An analysis answers.
LEMMA NamedType == \A o : Named(o) \in {"none", "watching", "ready"}
BY DEF Named

LEMMA AnsweredAct ==
    ASSUME TypeOK, NEW x \in Actors, NEW m \in TreeStatus,
           act' = [act EXCEPT ![x].pc = "status", ![x].maturity = m]
    PROVE  Becomes(x, "status", act[x].root, act[x].of, m)
<1> DEFINE r1 == [act[x] EXCEPT !.pc = "status"]
           r2 == [r1 EXCEPT !.maturity = m]
<1>1. act[x] \in Act
  BY ActTypes
<1>2. r1 \in Act /\ r1.pc = "status" /\ r1.root = act[x].root /\ r1.of = act[x].of
  BY <1>1 DEF Act
<1>3. act' = [act EXCEPT ![x] = r2]
  OBVIOUS
<1> HIDE DEF r1
<1>4. /\ r2 \in Act /\ r2.pc = "status" /\ r2.root = act[x].root /\ r2.of = act[x].of
      /\ r2.maturity = m
  BY <1>2 DEF Act
<1> HIDE DEF r2
<1>5. QED
  BY <1>3, <1>4, Replaced

\* A tree gets a summary and perhaps a node.
LEMMA AnsweredTree ==
    ASSUME TypeOK, NEW i \in Roots, NEW link \in SUBSET Issues,
           trees' = [trees EXCEPT ![i].nodes = @ \cup link, ![i].summary = TRUE]
    PROVE  /\ TreesOK' /\ Roots' = Roots
           /\ \A j \in Issues : trees'[j].status = trees[j].status
<1> DEFINE nodes == trees[i].nodes \cup link
           t1 == [trees[i] EXCEPT !.nodes = nodes]
           t2 == [t1 EXCEPT !.summary = TRUE]
<1>1. /\ i \in Issues /\ trees \in [Issues -> Tree] /\ trees[i] \in Tree /\ TreesOK
      /\ nodes \in SUBSET Issues /\ trees[i].status # "none"
  BY TreeTypes DEF TypeOK, TreesOK, Roots
<1>2. trees' = [trees EXCEPT ![i] = t2]
  BY <1>1
<1> HIDE DEF nodes
<1>3. t1 \in Tree /\ t1.status = trees[i].status
  BY <1>1 DEF Tree
<1> HIDE DEF t1
<1>4. t2 \in Tree /\ t2.status = trees[i].status
  BY <1>3 DEF Tree
<1> HIDE DEF t2
<1>5. TreesOK' /\ Roots' = Roots \cup {i}
  BY <1>1, <1>2, <1>4, TreeReplaced
<1>6. Roots \cup {i} = Roots
  OBVIOUS
<1>7. \A j \in Issues : trees'[j].status = trees[j].status
  BY <1>1, <1>2, <1>4
<1>8. QED
  BY <1>5, <1>6, <1>7

LEMMA Answered ==
    ASSUME TypeInv, NEW x \in Actors, NEW o, AnalysisAnswers(x, o)
    PROVE  /\ act[x].pc = "agent" /\ act[x].root \in Issues
           /\ \/ Becomes(x, "none", NoIssue, "tree", "none") /\ analyzing' = Released(x)
              \/ /\ Becomes(x, "status", act[x].root, act[x].of, Named(o))
                 /\ analyzing' = analyzing
           /\ TreesOK' /\ Roots' = Roots
           /\ disc' \in [Issues -> Disc] /\ row' \in [Issues -> Issues \cup {NoIssue}]
           /\ \A j \in Issues : disc'[j].status = disc[j].status
<1> DEFINE i == act[x].root
<1>1. act[x].pc = "agent" /\ i \in Issues /\ (act[x].of = "tree" => i \in Roots)
  BY DEF AnalysisAnswers, TypeInv, ActsOK
<1>2. PICK link \in {{}} \cup {{n} : n \in Linkable} :
          /\ trees' = IF act[x].of = "tree"
                      THEN [trees EXCEPT ![i].nodes = @ \cup link, ![i].summary = TRUE]
                      ELSE trees
          /\ row' = Kept(link, i)
          /\ disc' = [disc EXCEPT ![i].summary = TRUE]
  BY DEF AnalysisAnswers
<1>3. link \in SUBSET Issues
  BY TrackerAssumption
<1>4. TreesOK' /\ Roots' = Roots
  <2>1. CASE act[x].of = "tree"
    BY <1>1, <1>2, <1>3, <2>1, AnsweredTree DEF TypeInv
  <2>2. CASE act[x].of # "tree"
    BY <1>2, <2>2 DEF TypeInv, TypeOK, TreesOK, Roots
  <2>3. QED
    BY <2>1, <2>2
<1>5. row' \in [Issues -> Issues \cup {NoIssue}]
  BY <1>1, <1>2, KeptType DEF TypeInv, TypeOK
<1>6. disc' \in [Issues -> Disc] /\ \A j \in Issues : disc'[j].status = disc[j].status
  <2>1. disc \in [Issues -> Disc] /\ disc[i] \in Disc
    BY <1>1 DEF TypeInv, TypeOK
  <2>2. [disc[i] EXCEPT !.summary = TRUE].status = disc[i].status
    BY <2>1 DEF Disc
  <2>3. disc' \in [Issues -> Disc]
    BY <1>1, <1>2, DiscTypes DEF TypeInv
  <2>4. QED
    BY <1>1, <1>2, <2>1, <2>2, <2>3
<1>7. \/ Becomes(x, "none", NoIssue, "tree", "none") /\ analyzing' = Released(x)
      \/ Becomes(x, "status", i, act[x].of, Named(o)) /\ analyzing' = analyzing
  <2>1. CASE o = "text"
    BY <2>1, EndsBecomes DEF AnalysisAnswers, Ends, TypeInv
  <2>2. CASE o # "text"
    <3>1. Named(o) \in TreeStatus
      BY NamedType DEF TreeStatus
    <3>2. /\ act' = [act EXCEPT ![x].pc = "status", ![x].maturity = Named(o)]
          /\ analyzing' = analyzing
      BY <2>2 DEF AnalysisAnswers
    <3>3. QED
      BY <3>1, <3>2, AnsweredAct DEF TypeInv
  <2>3. QED
    BY <2>1, <2>2
<1>8. QED
  BY <1>1, <1>4, <1>5, <1>6, <1>7

LEMMA AnalysisAnswersType ==
    ASSUME TypeInv, DraftTypeOK', NEW x \in Actors, NEW o, AnalysisAnswers(x, o)
    PROVE  TypeInv'
<1>1. analyzing' \subseteq Issues /\ act' \in [Actors -> Act]
  BY Answered, ReleasedLess DEF TypeInv, TypeOK, Becomes
<1>2. TypeOK'
  BY <1>1, Answered DEF AnalysisAnswers, TypeInv, TypeOK, TreesOK
<1>3. x \notin People
  BY Answered DEF TypeInv, ActsOK
<1>4. PollOK'
  <2>1. act'["poll"].pc # "none" => act["poll"].pc # "none"
    BY Answered DEF Becomes, Actors
  <2>2. QED
    BY <2>1, Answered, PollStays DEF AnalysisAnswers, TypeInv
<1>5. ActsOK'
  <2>1. /\ Named(o) # "submitted" /\ ActsOK
        /\ act[x].of = "tree" => act[x].root \in Roots
    BY NamedType, Answered DEF TypeInv, ActsOK
  <2>2. CASE Becomes(x, "none", NoIssue, "tree", "none")
    BY <2>1, <2>2, Answered, ActsAfter
  <2>3. CASE Becomes(x, "status", act[x].root, act[x].of, Named(o))
    BY <1>3, <2>1, <2>3, Answered, ActsAfter
  <2>4. QED
    BY <2>2, <2>3, Answered
<1>6. QED
  BY <1>2, <1>4, <1>5 DEF TypeInv

-----------------------------------------------------------------------------
\* The status of what an analysis or a submission works on.
LEMMA StatusOfType ==
    ASSUME TypeInv, NEW x \in Actors, act[x].pc # "none"
    PROVE  StatusOf(x) \in TreeStatus /\ (act[x].of = "tree" => StatusOf(x) # "none")
<1>1. act[x].root \in Issues /\ (act[x].of = "tree" => act[x].root \in Roots)
  BY DEF TypeInv, ActsOK
<1>2. QED
  BY <1>1, ActTypes, TreeTypes DEF TypeInv, StatusOf

LEMMA StatusSet ==
    ASSUME TypeInv, NEW x \in Actors, act[x].pc # "none", NEW s \in TreeStatus,
           act[x].of = "tree" => s # "none", NEW rec \in Act, SetStatus(x, s, rec)
    PROVE  TreesOK' /\ Roots' = Roots /\ Becomes(x, rec.pc, rec.root, rec.of, rec.maturity)
<1> DEFINE i == act[x].root
<1>1. i \in Issues /\ (act[x].of = "tree" => i \in Roots) /\ TreesOK
  BY DEF TypeInv, ActsOK, TypeOK, TreesOK
<1>2. CASE act[x].of = "tree"
  <2> DEFINE t == [trees[i] EXCEPT !.status = s]
  <2>1. trees' = [trees EXCEPT ![i] = t] /\ act' = [act EXCEPT ![x] = rec]
    BY <1>2 DEF SetStatus
  <2>2. t \in Tree /\ t.status = s
    BY <1>1, TreeTypes DEF TypeInv, Tree
  <2> HIDE DEF t
  <2>3. TreesOK' /\ Roots' = Roots \cup {i}
    BY <1>1, <1>2, <2>1, <2>2, TreeReplaced
  <2>4. Roots \cup {i} = Roots
    BY <1>1, <1>2
  <2>5. QED
    BY <2>1, <2>3, <2>4, Replaced DEF TypeInv
<1>3. CASE act[x].of # "tree"
  <2> DEFINE kept == IF rec = NoAct THEN rec.status ELSE s
             r1 == [rec EXCEPT !.status = kept]
  <2>1. act' = [act EXCEPT ![x] = r1] /\ trees' = trees
    BY <1>3 DEF SetStatus
  <2>2. kept \in TreeStatus
    BY DEF Act
  <2> HIDE DEF kept
  <2>3. /\ r1 \in Act /\ r1.pc = rec.pc /\ r1.root = rec.root /\ r1.of = rec.of
        /\ r1.maturity = rec.maturity
    BY <2>2 DEF Act
  <2> HIDE DEF r1
  <2>4. Becomes(x, rec.pc, rec.root, rec.of, rec.maturity)
    <3>1. Becomes(x, r1.pc, r1.root, r1.of, r1.maturity)
      BY <2>1, <2>3, Replaced DEF TypeInv
    <3>2. QED
      BY <2>3, <3>1
  <2>5. QED
    BY <1>1, <2>1, <2>4 DEF TreesOK, Roots
<1>4. QED
  BY <1>2, <1>3

\* A step of x, which no cycle waits for, that keeps trees and sets a status.
LEMMA ActStepType ==
    ASSUME TypeInv, DraftTypeOK', NEW x \in Actors, NEW pc, NEW root, NEW of, NEW maturity,
           Becomes(x, pc, root, of, maturity), maturity # "submitted",
           pc # "none" => root \in Issues /\ (of = "tree" => root \in Roots),
           pc # "fetch", x \in People => pc \in {"none", "submit", "mark"},
           x = "poll" /\ pc # "none" => act["poll"].pc # "none",
           TreesOK', Roots' = Roots, disc' \in [Issues -> Disc],
           reqs' \in [Issues -> 0 .. MaxReqs], analyzing' \subseteq analyzing,
           UNCHANGED <<label, said, row, lock, poll, starts>>
    PROVE  TypeInv'
<1>1. TypeOK'
  BY DEF TypeInv, TypeOK, TreesOK, Becomes
<1>2. PollOK'
  <2>1. act'["poll"].pc # "none" => act["poll"].pc # "none"
    BY DEF Becomes, Actors
  <2>2. QED
    BY <2>1, PollStays DEF TypeInv
<1>3. ActsOK'
  BY ActsAfter DEF TypeInv
<1>4. QED
  BY <1>1, <1>2, <1>3 DEF TypeInv

\* An analysis sets the maturity it has found, and goes on if the discussion is ready.
LEMMA Matured ==
    ASSUME TypeInv, NEW x \in Actors, SetMaturity(x)
    PROVE  /\ act[x].pc = "status" /\ act[x].root \in Issues
           /\ TreesOK' /\ Roots' = Roots /\ disc' \in [Issues -> Disc]
           /\ \A j \in Issues : disc'[j].status \in {disc[j].status, "watching", "ready"}
           /\ \/ Becomes(x, "none", NoIssue, "tree", "none") /\ analyzing' = Released(x)
              \/ /\ Becomes(x, "ready", act[x].root, act[x].of, act[x].maturity)
                 /\ analyzing' = analyzing
<1> DEFINE i == act[x].root
           m == Maturity(x)
           go == [act[x] EXCEPT !.pc = "ready"]
<1>1. act[x].pc = "status" /\ i \in Issues /\ act[x].maturity \in TreeStatus \ {"submitted"}
  BY ActTypes DEF SetMaturity, TypeInv, ActsOK
<1>2. m \in TreeStatus /\ (act[x].of = "tree" => m # "none")
  BY <1>1, StatusOfType DEF Maturity
<1>3. m # StatusOf(x) => m \in {"watching", "ready"}
  BY <1>1 DEF Maturity, TreeStatus
<1>4. /\ SetStatus(x, m, IF m = "ready" THEN go ELSE NoAct)
      /\ disc' = IF m # StatusOf(x) THEN [disc EXCEPT ![i].status = m] ELSE disc
      /\ analyzing' = IF m = "ready" THEN analyzing ELSE Released(x)
  BY DEF SetMaturity
<1> HIDE DEF m
<1>5. disc' \in [Issues -> Disc]
  BY <1>1, <1>2, <1>4, DiscTypes DEF TypeInv
<1>6. \A j \in Issues : disc'[j].status \in {disc[j].status, "watching", "ready"}
  <2>1. disc \in [Issues -> Disc] /\ disc[i] \in Disc
    BY <1>1 DEF TypeInv, TypeOK
  <2>2. [disc[i] EXCEPT !.status = m].status = m
    BY <2>1 DEF Disc
  <2>3. QED
    BY <1>1, <1>3, <1>4, <2>1, <2>2
<1>7. /\ go \in Act /\ go.pc = "ready" /\ go.root = i /\ go.of = act[x].of
      /\ go.maturity = act[x].maturity
  <2>1. act[x] \in Act
    BY ActTypes DEF TypeInv
  <2>2. QED
    BY <2>1 DEF Act
<1> HIDE DEF go
<1>8. CASE m = "ready"
  <2>1. TreesOK' /\ Roots' = Roots /\ Becomes(x, go.pc, go.root, go.of, go.maturity)
    BY <1>1, <1>2, <1>4, <1>7, <1>8, StatusSet
  <2>2. QED
    BY <1>1, <1>4, <1>5, <1>6, <1>7, <1>8, <2>1
<1>9. CASE m # "ready"
  <2>1. NoAct \in Act
    BY NoActTypes
  <2>2. /\ TreesOK' /\ Roots' = Roots
        /\ Becomes(x, NoAct.pc, NoAct.root, NoAct.of, NoAct.maturity)
    BY <1>1, <1>2, <1>4, <1>9, <2>1, StatusSet
  <2>3. QED
    BY <1>1, <1>4, <1>5, <1>6, <1>9, <2>2, NoActTypes
<1>10. QED
  BY <1>8, <1>9

LEMMA SetMaturityType ==
    ASSUME TypeInv, DraftTypeOK', NEW x \in Actors, SetMaturity(x)
    PROVE  TypeInv'
<1>1. /\ act[x].maturity # "submitted" /\ x \notin People
      /\ act[x].of = "tree" => act[x].root \in Roots
  BY Matured DEF TypeInv, ActsOK
<1>2. /\ reqs' \in [Issues -> 0 .. MaxReqs]
      /\ UNCHANGED <<label, said, row, lock, poll, starts>>
  BY DEF SetMaturity, TypeInv, TypeOK
<1>3. analyzing' \subseteq analyzing
  BY Matured, ReleasedLess
<1>4. CASE Becomes(x, "none", NoIssue, "tree", "none")
  BY <1>2, <1>3, <1>4, Matured, ActStepType
<1>5. CASE Becomes(x, "ready", act[x].root, act[x].of, act[x].maturity)
  BY <1>1, <1>2, <1>3, <1>5, Matured, ActStepType
<1>6. QED
  BY <1>4, <1>5, Matured

\* A ready discussion is handed over at once, or the analysis ends.
LEMMA Readied ==
    ASSUME TypeInv, NEW x \in Actors, Ready(x)
    PROVE  /\ act[x].pc = "ready" /\ act[x].root \in Issues
           /\ \/ Becomes(x, "none", NoIssue, "tree", "none") /\ analyzing' = Released(x)
              \/ /\ Becomes(x, "submit", act[x].root, act[x].of, act[x].maturity)
                 /\ analyzing' = analyzing
<1>1. act[x].pc = "ready" /\ act[x].root \in Issues
  BY DEF Ready, TypeInv, ActsOK
<1>2. "submit" \in ActPC
  BY DEF ActPC
<1>3. QED
  BY <1>1, <1>2, EndsBecomes, GoBecomes DEF Ready, Ends, TypeInv

LEMMA ReadyType ==
    ASSUME TypeInv, DraftTypeOK', NEW x \in Actors, Ready(x)
    PROVE  TypeInv'
<1>1. /\ act[x].maturity # "submitted" /\ x \notin People
      /\ act[x].of = "tree" => act[x].root \in Roots
  BY Readied DEF TypeInv, ActsOK
<1>2. /\ reqs' \in [Issues -> 0 .. MaxReqs] /\ disc' \in [Issues -> Disc]
      /\ UNCHANGED <<label, said, row, lock, poll, starts>> /\ TreesOK' /\ Roots' = Roots
  BY DEF Ready, TypeInv, TypeOK, TreesOK, Roots
<1>3. analyzing' \subseteq analyzing
  BY Readied, ReleasedLess
<1>4. CASE Becomes(x, "none", NoIssue, "tree", "none")
  BY <1>2, <1>3, <1>4, ActStepType
<1>5. CASE Becomes(x, "submit", act[x].root, act[x].of, act[x].maturity)
  BY <1>1, <1>2, <1>3, <1>5, Readied, ActStepType
<1>6. QED
  BY <1>4, <1>5, Readied

\* A person submits a discussion that has a tree.
LEMMA Asked ==
    ASSUME TypeInv, NEW x \in Actors, NEW i \in Issues, NEW anyway,
           PersonSubmits(x, i, anyway)
    PROVE  /\ x \in People /\ act[x].pc = "none" /\ i \in Roots
           /\ Becomes(x, "submit", i, "tree", "none")
<1> DEFINE rec == Begun("submit", i)
<1>1. act' = [act EXCEPT ![x] = rec] /\ x \in People /\ i \in Roots /\ act[x].pc = "none"
  BY DEF PersonSubmits, Begun
<1>2. "submit" \in ActPC
  BY DEF ActPC
<1>3. /\ rec \in Act /\ rec.pc = "submit" /\ rec.root = i /\ rec.of = "tree"
      /\ rec.maturity = "none"
  BY <1>2, NewAct
<1> HIDE DEF rec
<1>4. QED
  BY <1>1, <1>3, Replaced DEF TypeInv

LEMMA PersonSubmitsType ==
    ASSUME TypeInv, DraftTypeOK', NEW x \in Actors, NEW i \in Issues, NEW anyway,
           PersonSubmits(x, i, anyway)
    PROVE  TypeInv'
<1>1. /\ reqs' \in [Issues -> 0 .. MaxReqs] /\ disc' \in [Issues -> Disc]
      /\ UNCHANGED <<label, said, row, lock, poll, starts>> /\ TreesOK' /\ Roots' = Roots
      /\ analyzing' = analyzing
  BY DEF PersonSubmits, TypeInv, TypeOK, TreesOK, Roots
<1>2. x # "poll"
  BY TrackerAssumption, Asked
<1>3. QED
  BY <1>1, <1>2, Asked, ActStepType

\* The requirement is asked for, and the discussion will be marked.
LEMMA Submitted ==
    ASSUME TypeInv, NEW x \in Actors, Submit(x)
    PROVE  /\ act[x].pc = "submit" /\ act[x].root \in Issues
           /\ Becomes(x, "mark", act[x].root, act[x].of, act[x].maturity)
           /\ reqs' \in [Issues -> 0 .. MaxReqs] /\ reqs'[act[x].root] > 0
           /\ \A j \in Issues : reqs[j] > 0 => reqs'[j] > 0
<1> DEFINE i == act[x].root
<1>1. act[x].pc = "submit" /\ i \in Issues
  BY DEF Submit, TypeInv, ActsOK
<1>2. Becomes(x, "mark", i, act[x].of, act[x].maturity)
  <2>1. "mark" \in ActPC
    BY DEF ActPC
  <2>2. QED
    BY <2>1, GoBecomes DEF Submit, TypeInv
<1>3. /\ reqs \in [Issues -> 0 .. MaxReqs] /\ MaxReqs \in Nat /\ MaxReqs # 0
      /\ reqs' = [reqs EXCEPT ![i] = IF @ < MaxReqs THEN @ + 1 ELSE @]
  BY TrackerAssumption DEF Submit, TypeInv, TypeOK
<1>4. reqs[i] \in 0 .. MaxReqs
  BY <1>1, <1>3
<1>5. reqs' \in [Issues -> 0 .. MaxReqs] /\ reqs'[i] > 0
  BY <1>1, <1>3, <1>4
<1>6. \A j \in Issues : reqs[j] > 0 => reqs'[j] > 0
  BY <1>1, <1>3, <1>5
<1>7. QED
  BY <1>1, <1>2, <1>5, <1>6

LEMMA SubmitType ==
    ASSUME TypeInv, DraftTypeOK', NEW x \in Actors, Submit(x)
    PROVE  TypeInv'
<1>1. act[x].maturity # "submitted" /\ (act[x].of = "tree" => act[x].root \in Roots)
  BY Submitted DEF TypeInv, ActsOK
<1>2. /\ disc' \in [Issues -> Disc] /\ analyzing' = analyzing
      /\ UNCHANGED <<label, said, row, lock, poll, starts>> /\ TreesOK' /\ Roots' = Roots
  BY DEF Submit, TypeInv, TypeOK, TreesOK, Roots
<1>3. QED
  BY <1>1, <1>2, Submitted, ActStepType

\* The discussion is marked, and whoever submitted it is done.
LEMMA Marked ==
    ASSUME TypeInv, NEW x \in Actors, MarkSubmitted(x)
    PROVE  /\ act[x].pc = "mark" /\ act[x].root \in Issues
           /\ Becomes(x, "none", NoIssue, "tree", "none")
           /\ TreesOK' /\ Roots' = Roots /\ disc' \in [Issues -> Disc]
           /\ \A j \in Issues \ {act[x].root} : disc'[j] = disc[j]
           /\ analyzing' = IF x \in People THEN analyzing ELSE Released(x)
<1> DEFINE i == act[x].root
<1>1. act[x].pc = "mark" /\ i \in Issues
  BY DEF MarkSubmitted, TypeInv, ActsOK
<1>2. "submitted" \in TreeStatus /\ NoAct \in Act
  BY NoActTypes DEF TreeStatus
<1>3. /\ TreesOK' /\ Roots' = Roots
      /\ Becomes(x, NoAct.pc, NoAct.root, NoAct.of, NoAct.maturity)
  BY <1>1, <1>2, StatusSet DEF MarkSubmitted
<1>4. disc' = [disc EXCEPT ![i].status = "submitted"]
  BY DEF MarkSubmitted
<1>5. disc' \in [Issues -> Disc] /\ \A j \in Issues \ {i} : disc'[j] = disc[j]
  BY <1>1, <1>2, <1>4, DiscTypes DEF TypeInv
<1>6. analyzing' = IF x \in People THEN analyzing ELSE Released(x)
  BY DEF MarkSubmitted
<1>7. QED
  BY <1>1, <1>3, <1>5, <1>6, NoActTypes

LEMMA MarkSubmittedType ==
    ASSUME TypeInv, DraftTypeOK', NEW x \in Actors, MarkSubmitted(x)
    PROVE  TypeInv'
<1>1. /\ reqs' \in [Issues -> 0 .. MaxReqs]
      /\ UNCHANGED <<label, said, row, lock, poll, starts>>
  BY DEF MarkSubmitted, TypeInv, TypeOK
<1>2. analyzing' \subseteq analyzing
  BY Marked, ReleasedLess
<1>3. QED
  BY <1>1, <1>2, Marked, ActStepType

-----------------------------------------------------------------------------
\* The steps there are.
LEMMA Steps ==
    ASSUME [Next]_<<tvars, dvars>>
    PROVE  \/ UNCHANGED tvars
           \/ \E i \in Issues : AddLabel(i) \/ Comment(i) \/ IssueAsIdea(i)
           \/ StartTracking
           \/ StopTracking
           \/ Crash
           \/ \E i \in Issues : Restore(i)
           \/ BeginCycle
           \/ Discover
           \/ \E i \in Issues : PollTree(i)
           \/ EndFetch
           \/ \E i \in Issues : PollAnalyse(i)
           \/ EndCycle
           \/ \E x \in Actors, i \in Issues : FocusStart(x, i)
           \/ \E x \in Actors : FocusFetched(x)
           \/ \E x \in Actors, o \in Outcomes : AnalysisFails(x, o)
           \/ \E x \in Actors, o \in Outcomes : AnalysisAnswers(x, o)
           \/ \E x \in Actors : SetMaturity(x)
           \/ \E x \in Actors : Ready(x)
           \/ \E x \in Actors, i \in Issues, anyway \in BOOLEAN : PersonSubmits(x, i, anyway)
           \/ \E x \in Actors : Submit(x)
           \/ \E x \in Actors : MarkSubmitted(x)
BY DEF Next, Loop, Outside, Advance, Answer, Fails, dvars

LEMMA TypeInit == Init => TypeInv
<1> SUFFICES ASSUME Init
             PROVE  TypeInv
  OBVIOUS
<1>1. 0 \in 0 .. MaxComments /\ 0 \in 0 .. MaxReqs /\ 0 \in 0 .. MaxStarts
  BY TrackerAssumption
<1>2. 0 \in 0 .. MaxBody
  BY DraftsAssumption
<1>3. NoDraft \in Draft
  BY <1>2 DEF NoDraft, Draft
<1>4. DraftTypeOK
  BY <1>3, IdleType DEF Init, DraftInit, DraftTypeOK
<1>5. TypeOK
  BY <1>1, <1>4, NoTreeTypes, NoPollTypes, NoActTypes DEF Init, TrackerInit, TypeOK
<1>6. PollOK /\ ActsOK
  BY NoPollTypes, NoActTypes DEF Init, TrackerInit, PollOK, ActsOK, Actors
<1>7. QED
  BY <1>5, <1>6 DEF TypeInv

LEMMA TypeStep ==
    ASSUME TypeInv, [Next]_<<tvars, dvars>>
    PROVE  TypeInv'
<1>1. DraftTypeOK'
  BY DraftType DEF TypeInv, TypeOK
<1>2. CASE UNCHANGED tvars
  <2>1. TypeOK'
    BY <1>1, <1>2 DEF tvars, TypeInv, TypeOK
  <2>2. PollOK' /\ ActsOK'
    BY <1>2 DEF tvars, TypeInv, PollOK, ActsOK, Roots
  <2>3. QED
    BY <2>1, <2>2 DEF TypeInv
<1>3. ASSUME NEW i \in Issues, AddLabel(i) \/ Comment(i) \/ IssueAsIdea(i)
      PROVE  TypeInv'
  BY <1>1, <1>3, PeopleType
<1>4. CASE StartTracking
  BY <1>1, <1>4, StartTrackingType
<1>5. CASE StopTracking \/ Crash
  BY <1>1, <1>5, EndsType
<1>6. ASSUME NEW i \in Issues, Restore(i)
      PROVE  TypeInv'
  BY <1>1, <1>6, RestoreType
<1>7. CASE BeginCycle
  BY <1>1, <1>7, BeginCycleType
<1>8. CASE Discover
  BY <1>1, <1>8, DiscoverType
<1>9. ASSUME NEW i \in Issues, PollTree(i)
      PROVE  TypeInv'
  BY <1>1, <1>9, PollTreeType
<1>10. CASE EndFetch
  BY <1>1, <1>10, EndFetchType
<1>11. ASSUME NEW i \in Issues, PollAnalyse(i)
       PROVE  TypeInv'
  BY <1>1, <1>11, PollAnalyseType
<1>12. CASE EndCycle
  BY <1>1, <1>12, EndCycleType
<1>13. ASSUME NEW x \in Actors, NEW i \in Issues, FocusStart(x, i)
       PROVE  TypeInv'
  BY <1>1, <1>13, FocusStartType
<1>14. ASSUME NEW x \in Actors, FocusFetched(x)
       PROVE  TypeInv'
  BY <1>1, <1>14, FocusFetchedType
<1>15. ASSUME NEW x \in Actors, NEW o \in Outcomes, AnalysisFails(x, o)
       PROVE  TypeInv'
  BY <1>1, <1>15, AnalysisFailsType
<1>16. ASSUME NEW x \in Actors, NEW o \in Outcomes, AnalysisAnswers(x, o)
       PROVE  TypeInv'
  BY <1>1, <1>16, AnalysisAnswersType
<1>17. ASSUME NEW x \in Actors, SetMaturity(x)
       PROVE  TypeInv'
  BY <1>1, <1>17, SetMaturityType
<1>18. ASSUME NEW x \in Actors, Ready(x)
       PROVE  TypeInv'
  BY <1>1, <1>18, ReadyType
<1>19. ASSUME NEW x \in Actors, NEW i \in Issues, NEW anyway \in BOOLEAN,
              PersonSubmits(x, i, anyway)
       PROVE  TypeInv'
  BY <1>1, <1>19, PersonSubmitsType
<1>20. ASSUME NEW x \in Actors, Submit(x)
       PROVE  TypeInv'
  BY <1>1, <1>20, SubmitType
<1>21. ASSUME NEW x \in Actors, MarkSubmitted(x)
       PROVE  TypeInv'
  BY <1>1, <1>21, MarkSubmittedType
<1>22. QED
  BY Steps, <1>2, <1>3, <1>4, <1>5, <1>6, <1>7, <1>8, <1>9, <1>10, <1>11, <1>12, <1>13,
     <1>14, <1>15, <1>16, <1>17, <1>18, <1>19, <1>20, <1>21

\* The objects and rows of the tracker and of the drafts hold what they can hold, and
\* every tree that something works on has a status.
THEOREM TrackerTypeCorrect == Spec => []TypeOK
<1>1. TypeInv /\ [Next]_<<tvars, dvars>> => TypeInv'
  BY TypeStep
<1>2. TypeInv => TypeOK
  BY DEF TypeInv
<1>3. QED
  BY <1>1, <1>2, TypeInit, PTL DEF Spec

-----------------------------------------------------------------------------
(***************************************************************************)
(* The guard of analyses.  A request of an earlier tracker has a set of    *)
(* its own; in this tracker an issue is in the set exactly while its one   *)
(* analysis goes on.                                                       *)
(***************************************************************************)
Guards(x) == act[x].pc \in Analyses /\ act[x].of # "earlier"

GuardInv ==
    /\ OneAnalysis
    /\ \A x \in Actors \ People : Guards(x) => act[x].root \in analyzing
    /\ \A i \in analyzing : \E x \in Actors \ People : Guards(x) /\ act[x].root = i

\* Nobody starts or ends an analysis.
LEMMA GuardStays ==
    ASSUME GuardInv, analyzing' = analyzing,
           \A x \in Actors \ People :
              /\ Guards(x)' <=> Guards(x)
              /\ Guards(x) => act'[x].root = act[x].root
    PROVE  GuardInv'
BY DEF GuardInv, OneAnalysis, Guards

\* The tracker ends: who goes on has the earlier one's set.
LEMMA GuardGone ==
    ASSUME analyzing' = {}, \A x \in Actors : act'[x].pc = "none" \/ act'[x].of = "earlier"
    PROVE  GuardInv'
BY DEF GuardInv, OneAnalysis, Guards, Analyses

\* An analysis of an issue nobody analyses starts.
LEMMA GuardTaken ==
    ASSUME GuardInv, NEW x \in Actors \ People, NEW i, NEW of, NEW maturity,
           Becomes(x, "agent", i, of, maturity), act[x].pc \notin Analyses,
           IF of = "earlier" THEN analyzing' = analyzing
           ELSE i \notin analyzing /\ analyzing' = analyzing \cup {i}
    PROVE  GuardInv'
<1>1. Guards(x)' <=> of # "earlier"
  BY DEF Guards, Analyses, Becomes
<1>2. ~Guards(x) /\ act'[x].root = i
  BY DEF Guards, Becomes
<1>3. \A y \in Actors \ {x} : act'[y] = act[y] /\ (Guards(y)' <=> Guards(y))
  BY DEF Guards, Becomes
<1>4. CASE of = "earlier"
  BY <1>1, <1>2, <1>3, <1>4, GuardStays
<1>5. CASE of # "earlier"
  <2>1. \A y \in (Actors \ People) \ {x} : Guards(y) => act[y].root # i
    BY <1>5 DEF GuardInv
  <2>2. OneAnalysis'
    BY <1>2, <1>3, <2>1 DEF GuardInv, OneAnalysis, Guards
  <2>3. \A y \in Actors \ People : Guards(y)' => act'[y].root \in analyzing'
    BY <1>2, <1>3, <1>5 DEF GuardInv
  <2>4. \A j \in analyzing' : \E y \in Actors \ People : Guards(y)' /\ act'[y].root = j
    <3> SUFFICES ASSUME NEW j \in analyzing'
                 PROVE  \E y \in Actors \ People : Guards(y)' /\ act'[y].root = j
      OBVIOUS
    <3>1. CASE j = i
      BY <1>1, <1>2, <1>5, <3>1
    <3>2. CASE j \in analyzing
      <4>1. PICK y \in Actors \ People : Guards(y) /\ act[y].root = j
        BY <3>2 DEF GuardInv
      <4>2. y # x
        BY <1>2, <4>1
      <4>3. QED
        BY <1>3, <4>1, <4>2
    <3>3. QED
      BY <1>5, <3>1, <3>2
  <2>5. QED
    BY <2>2, <2>3, <2>4 DEF GuardInv
<1>6. QED
  BY <1>4, <1>5

\* An analysis ends, and with it the guard.
LEMMA GuardReleasedThen ==
    ASSUME GuardInv, NEW x \in Actors \ People, act[x].pc \in Analyses,
           Becomes(x, "none", NoIssue, "tree", "none"), analyzing' = Released(x)
    PROVE  GuardInv'
<1>1. ~Guards(x)'
  BY DEF Guards, Analyses, Becomes
<1>2. \A y \in Actors \ {x} : act'[y] = act[y] /\ (Guards(y)' <=> Guards(y))
  BY DEF Guards, Becomes
<1>3. CASE act[x].of = "earlier"
  <2>1. ~Guards(x) /\ analyzing' = analyzing
    BY <1>3 DEF Guards, Released
  <2>2. QED
    BY <1>1, <1>2, <2>1, GuardStays
<1>4. CASE act[x].of # "earlier"
  <2>1. Guards(x) /\ analyzing' = analyzing \ {act[x].root}
    BY <1>4 DEF Guards, Released
  <2>2. \A y \in (Actors \ People) \ {x} : Guards(y) => act[y].root # act[x].root
    BY <2>1 DEF GuardInv, OneAnalysis, Guards
  <2>3. OneAnalysis'
    BY <1>1, <1>2 DEF GuardInv, OneAnalysis, Guards
  <2>4. \A y \in Actors \ People : Guards(y)' => act'[y].root \in analyzing'
    BY <1>1, <1>2, <2>1, <2>2 DEF GuardInv
  <2>5. \A j \in analyzing' : \E y \in Actors \ People : Guards(y)' /\ act'[y].root = j
    <3> SUFFICES ASSUME NEW j \in analyzing'
                 PROVE  \E y \in Actors \ People : Guards(y)' /\ act'[y].root = j
      OBVIOUS
    <3>1. PICK y \in Actors \ People : Guards(y) /\ act[y].root = j
      BY <2>1 DEF GuardInv
    <3>2. y # x
      BY <2>1, <3>1
    <3>3. QED
      BY <1>2, <3>1, <3>2
  <2>6. QED
    BY <2>3, <2>4, <2>5 DEF GuardInv
<1>5. QED
  BY <1>3, <1>4

\* Whatever ends a tracker leaves nothing of it but requests that are its own.
LEMMA TrackerGone ==
    ASSUME TypeInv, StartTracking \/ StopTracking \/ Crash
    PROVE  /\ analyzing' = {} /\ lock' = "free" /\ poll'.pc \in {"off", "restore"}
           /\ \A x \in Actors :
                \/ act'[x].pc = "none"
                \/ /\ act'[x].of = "earlier" /\ act'[x].pc = act[x].pc
                   /\ act'[x].root = act[x].root
<1>1. /\ analyzing' = {} /\ lock' = "free"
      /\ act' = [x \in Actors |-> Detached(x)] \/ act' = [x \in Actors |-> NoAct]
  BY DEF StartTracking, StopTracking, Crash
<1>2. poll'.pc \in {"off", "restore"}
  <2>1. CASE StartTracking
    BY <2>1, NoPollTypes DEF StartTracking, Poll
  <2>2. CASE StopTracking \/ Crash
    BY <2>2, NoPollTypes DEF StopTracking, Crash
  <2>3. QED
    BY <2>1, <2>2
<1>3. QED
  BY <1>1, <1>2, DetachedType, NoActTypes

\* Steps of the loop and of people that leave all analyses and submissions alone.
Elsewhere ==
    \/ UNCHANGED tvars
    \/ \E i \in Issues : AddLabel(i) \/ Comment(i) \/ IssueAsIdea(i) \/ PollTree(i)
    \/ BeginCycle \/ Discover \/ EndFetch \/ EndCycle

LEMMA ElsewhereActs == Elsewhere => UNCHANGED <<act, analyzing>>
BY DEF Elsewhere, tvars, AddLabel, Comment, IssueAsIdea, PollTree, BeginCycle, Discover,
       EndFetch, EndCycle

LEMMA GuardStep ==
    ASSUME TypeInv, GuardInv, [Next]_<<tvars, dvars>>
    PROVE  GuardInv'
<1>1. CASE Elsewhere
  BY <1>1, ElsewhereActs, GuardStays DEF Guards
<1>2. CASE StartTracking \/ StopTracking \/ Crash
  BY <1>2, TrackerGone, GuardGone
<1>3. ASSUME NEW i \in Issues, Restore(i)
      PROVE  GuardInv'
  <2>1. \A x \in Actors : (Guards(x)' <=> Guards(x)) /\ act'[x].root = act[x].root
    BY <1>3, RestoredActs DEF Guards
  <2>2. QED
    BY <1>3, <2>1, GuardStays DEF Restore
<1>4. ASSUME NEW i \in Issues, PollAnalyse(i)
      PROVE  GuardInv'
  <2>1. "poll" \in Actors \ People /\ act["poll"].pc \notin Analyses
    BY <1>4, TrackerAssumption DEF Actors, PollAnalyse, Analyses
  <2>2. CASE UNCHANGED <<analyzing, act>>
    BY <2>2, GuardStays DEF Guards
  <2>3. CASE /\ Becomes("poll", "agent", i, "tree", "none")
             /\ i \notin analyzing /\ analyzing' = analyzing \cup {i}
    BY <2>1, <2>3, GuardTaken
  <2>4. QED
    BY <1>4, <2>2, <2>3, PollAnalyses
<1>5. ASSUME NEW x \in Actors, NEW i \in Issues, FocusStart(x, i)
      PROVE  GuardInv'
  <2>1. ~Guards(x) /\ ~Guards(x)' /\ analyzing' = analyzing
    BY <1>5, FocusStarts DEF FocusStart, Guards, Analyses, Becomes
  <2>2. \A y \in Actors \ {x} : act'[y] = act[y]
    BY <1>5, FocusStarts DEF Becomes
  <2>3. QED
    BY <2>1, <2>2, GuardStays DEF Guards
<1>6. ASSUME NEW x \in Actors, FocusFetched(x)
      PROVE  GuardInv'
  <2>1. x \in Actors \ People /\ act[x].pc \notin Analyses
    BY <1>6, FocusEnds DEF TypeInv, ActsOK, Analyses
  <2>2. CASE Becomes(x, "none", NoIssue, "tree", "none") /\ analyzing' = analyzing
    <3>1. ~Guards(x) /\ ~Guards(x)'
      BY <2>1, <2>2 DEF Guards, Analyses, Becomes
    <3>2. \A y \in Actors \ {x} : act'[y] = act[y]
      BY <2>2 DEF Becomes
    <3>3. QED
      BY <2>2, <3>1, <3>2, GuardStays DEF Guards
  <2>3. CASE /\ Becomes(x, "agent", act[x].root, act[x].of, act[x].maturity)
             /\ IF act[x].of = "earlier" THEN analyzing' = analyzing
                ELSE /\ act[x].root \notin analyzing
                     /\ analyzing' = analyzing \cup {act[x].root}
    BY <2>1, <2>3, GuardTaken
  <2>4. QED
    BY <1>6, <2>2, <2>3, FocusEnds
<1>7. ASSUME NEW x \in Actors, act[x].pc \in Analyses, x \notin People,
             \/ Becomes(x, "none", NoIssue, "tree", "none") /\ analyzing' = Released(x)
             \/ \E pc \in Analyses : \E maturity :
                   Becomes(x, pc, act[x].root, act[x].of, maturity) /\ analyzing' = analyzing
      PROVE  GuardInv'
  <2>1. CASE Becomes(x, "none", NoIssue, "tree", "none") /\ analyzing' = Released(x)
    BY <1>7, <2>1, GuardReleasedThen
  <2>2. ASSUME NEW pc \in Analyses, NEW maturity,
               Becomes(x, pc, act[x].root, act[x].of, maturity), analyzing' = analyzing
        PROVE  GuardInv'
    <3>1. /\ \A y \in Actors \ {x} : act'[y] = act[y]
          /\ (Guards(x)' <=> Guards(x)) /\ act'[x].root = act[x].root
      BY <1>7, <2>2 DEF Guards, Becomes
    <3>2. QED
      BY <2>2, <3>1, GuardStays DEF Guards
  <2>3. QED
    BY <1>7, <2>1, <2>2
<1>8. ASSUME NEW x \in People \cap Actors, analyzing' = analyzing,
             \A y \in Actors \ {x} : act'[y] = act[y]
      PROVE  GuardInv'
  BY <1>8, GuardStays DEF Guards
<1>9. /\ {"agent", "status", "ready", "submit", "mark"} \subseteq Analyses
      /\ \A x \in Actors : act[x].pc \in {"agent", "status", "ready"} => x \notin People
  BY DEF TypeInv, ActsOK, Analyses
<1>10. ASSUME NEW x \in Actors, NEW o \in Outcomes, AnalysisFails(x, o)
       PROVE  GuardInv'
  BY <1>7, <1>9, <1>10, Failed
<1>11. ASSUME NEW x \in Actors, NEW o \in Outcomes, AnalysisAnswers(x, o)
       PROVE  GuardInv'
  BY <1>7, <1>9, <1>11, Answered
<1>12. ASSUME NEW x \in Actors, SetMaturity(x)
       PROVE  GuardInv'
  BY <1>7, <1>9, <1>12, Matured
<1>13. ASSUME NEW x \in Actors, Ready(x)
       PROVE  GuardInv'
  BY <1>7, <1>9, <1>13, Readied
<1>14. ASSUME NEW x \in Actors, NEW i \in Issues, NEW anyway \in BOOLEAN,
              PersonSubmits(x, i, anyway)
       PROVE  GuardInv'
  BY <1>8, <1>14, Asked DEF PersonSubmits, Becomes
<1>15. ASSUME NEW x \in Actors, Submit(x)
       PROVE  GuardInv'
  <2>1. analyzing' = analyzing
    BY <1>15 DEF Submit
  <2>2. CASE x \in People
    BY <1>8, <1>15, <2>1, <2>2, Submitted DEF Becomes
  <2>3. CASE x \notin People
    BY <1>7, <1>9, <1>15, <2>1, <2>3, Submitted
  <2>4. QED
    BY <2>2, <2>3
<1>16. ASSUME NEW x \in Actors, MarkSubmitted(x)
       PROVE  GuardInv'
  <2>1. CASE x \in People
    BY <1>8, <1>16, <2>1, Marked DEF Becomes
  <2>2. CASE x \notin People
    BY <1>7, <1>9, <1>16, <2>2, Marked
  <2>3. QED
    BY <2>1, <2>2
<1>17. QED
  BY Steps, <1>1, <1>2, <1>3, <1>4, <1>5, <1>6, <1>10, <1>11, <1>12, <1>13, <1>14, <1>15,
     <1>16 DEF Elsewhere

LEMMA GuardInit == Init => GuardInv
<1>1. Init => analyzing = {} /\ \A x \in Actors : act[x].pc = "none"
  BY NoActTypes DEF Init, TrackerInit
<1>2. QED
  BY <1>1 DEF GuardInv, OneAnalysis, Guards, Analyses

\* No two analyses of one discussion run at a time in a tracker, for any number of
\* requests, restores and trackers (_safe_analyze).
THEOREM OneAnalysisCorrect == Spec => []OneAnalysis
<1>1. TypeInv /\ GuardInv /\ [Next]_<<tvars, dvars>> => (TypeInv /\ GuardInv)'
  BY TypeStep, GuardStep
<1>2. GuardInv => OneAnalysis
  BY DEF GuardInv
<1>3. QED
  BY <1>1, <1>2, TypeInit, GuardInit, PTL DEF Spec

-----------------------------------------------------------------------------
(***************************************************************************)
(* The lock of a tracker.  The loop holds it exactly while it discovers    *)
(* and fetches, a request exactly while it crawls in this tracker.         *)
(***************************************************************************)
Crawls(x) == act[x].pc = "fetch" /\ act[x].of # "earlier"

PollFetches == poll.pc \in {"discover", "trees"}

LockInv ==
    /\ lock = "poll" <=> PollFetches
    /\ \A x \in Focus : lock = x <=> Crawls(x)

\* Nobody takes or releases the lock.
LEMMA LockStays ==
    ASSUME LockInv, lock' = lock, PollFetches' <=> PollFetches,
           \A x \in Focus : Crawls(x)' <=> Crawls(x)
    PROVE  LockInv'
BY DEF LockInv

\* A step of one analysis or submission that crawls neither before nor after it.
LEMMA LockElsewhere ==
    ASSUME LockInv, lock' = lock, PollFetches' <=> PollFetches, NEW x \in Actors, NEW pc,
           NEW root, NEW of, NEW maturity, Becomes(x, pc, root, of, maturity),
           pc # "fetch", act[x].pc # "fetch"
    PROVE  LockInv'
<1>1. \A y \in Actors : Crawls(y)' <=> Crawls(y)
  BY DEF Becomes, Crawls
<1>2. QED
  BY <1>1, LockStays DEF Actors

LEMMA LockStep ==
    ASSUME TypeInv, LockInv, [Next]_<<tvars, dvars>>
    PROVE  LockInv'
<1>1. "poll" \notin Focus /\ "free" \notin Focus /\ Focus \subseteq Actors /\ "poll" \in Actors
  BY TrackerAssumption DEF Actors
<1>2. CASE UNCHANGED tvars \/ \E i \in Issues : AddLabel(i) \/ Comment(i) \/ IssueAsIdea(i)
  <2>1. UNCHANGED <<lock, poll, act>>
    BY <1>2 DEF tvars, AddLabel, Comment, IssueAsIdea
  <2>2. QED
    BY <2>1, LockStays DEF PollFetches, Crawls
<1>3. CASE StartTracking \/ StopTracking \/ Crash
  BY <1>1, <1>3, TrackerGone DEF LockInv, PollFetches, Crawls
<1>4. ASSUME NEW i \in Issues, Restore(i)
      PROVE  LockInv'
  <2>1. \A x \in Actors : Crawls(x)' <=> Crawls(x)
    BY <1>4, RestoredActs DEF Crawls
  <2>2. lock' = lock /\ poll'.pc = poll.pc
    BY <1>4, PollTypes DEF Restore, TypeInv, Poll
  <2>3. QED
    BY <1>1, <2>1, <2>2, LockStays DEF PollFetches
<1>5. CASE BeginCycle
  <2>1. lock = "free" /\ lock' = "poll" /\ act' = act
    BY <1>5 DEF BeginCycle
  <2>2. poll'.pc = "discover"
    BY <1>5, PollAt DEF BeginCycle, PollPC
  <2>3. QED
    BY <1>1, <2>1, <2>2 DEF LockInv, PollFetches, Crawls
<1>6. CASE Discover
  <2>1. poll.pc = "discover" /\ lock' = lock /\ act' = act
    BY <1>6 DEF Discover
  <2>2. poll'.pc = "trees"
    BY <1>6, PollTypes DEF Discover, TypeInv, Poll
  <2>3. QED
    BY <2>1, <2>2, LockStays DEF PollFetches, Crawls
<1>7. ASSUME NEW i \in Issues, PollTree(i)
      PROVE  LockInv'
  <2>1. lock' = lock /\ act' = act
    BY <1>7 DEF PollTree
  <2>2. poll'.pc = poll.pc
    BY <1>7, PollTypes DEF PollTree, TypeInv, Poll
  <2>3. QED
    BY <2>1, <2>2, LockStays DEF PollFetches, Crawls
<1>8. CASE EndFetch
  <2>1. poll.pc = "trees" /\ lock' = "free" /\ act' = act
    BY <1>8 DEF EndFetch
  <2>2. poll'.pc = "analyse"
    BY <1>8, PollTypes DEF EndFetch, TypeInv, Poll
  <2>3. lock = "poll"
    BY <2>1 DEF LockInv, PollFetches
  <2>4. QED
    BY <1>1, <2>1, <2>2, <2>3 DEF LockInv, PollFetches, Crawls
<1>9. ASSUME NEW i \in Issues, PollAnalyse(i)
      PROVE  LockInv'
  <2>1. lock' = lock /\ (PollFetches' <=> PollFetches)
    BY <1>9, PollAnalyses DEF PollAnalyse, PollFetches
  <2>2. \A x \in Focus : act'[x] = act[x]
    BY <1>1, <1>9, PollAnalyses DEF Becomes
  <2>3. QED
    BY <2>1, <2>2, LockStays DEF Crawls
<1>10. CASE EndCycle
  <2>1. poll.pc = "analyse" /\ lock' = lock /\ act' = act
    BY <1>10 DEF EndCycle
  <2>2. poll'.pc = "sleep"
    BY <1>10, PollAt DEF EndCycle, PollPC
  <2>3. QED
    BY <2>1, <2>2, LockStays DEF PollFetches, Crawls
<1>11. ASSUME NEW x \in Actors, NEW i \in Issues, FocusStart(x, i)
       PROVE  LockInv'
  <2>1. lock = "free" /\ lock' = x /\ poll' = poll /\ x \in Focus
    BY <1>11 DEF FocusStart
  <2>2. Crawls(x)' /\ \A y \in Actors \ {x} : act'[y] = act[y]
    BY <1>11, FocusStarts DEF Becomes, Crawls
  <2>3. QED
    BY <1>1, <2>1, <2>2 DEF LockInv, PollFetches, Crawls
<1>12. ASSUME NEW x \in Actors, FocusFetched(x)
       PROVE  LockInv'
  <2>1. /\ x \in Focus /\ act[x].pc = "fetch" /\ act'[x].pc # "fetch" /\ poll' = poll
        /\ \A y \in Actors \ {x} : act'[y] = act[y]
    BY <1>12, FocusEnds DEF TypeInv, ActsOK, Becomes, FocusFetched
  <2>2. CASE act[x].of = "earlier"
    <3>1. lock' = lock /\ ~Crawls(x) /\ ~Crawls(x)'
      BY <1>12, <2>1, <2>2 DEF FocusFetched, Freed, Crawls
    <3>2. \A y \in Focus : Crawls(y)' <=> Crawls(y)
      BY <1>1, <2>1, <3>1 DEF Crawls
    <3>3. QED
      BY <2>1, <3>1, <3>2, LockStays DEF PollFetches
  <2>3. CASE act[x].of # "earlier"
    <3>1. lock = x /\ lock' = "free" /\ ~Crawls(x)'
      BY <1>12, <2>1, <2>3 DEF FocusFetched, Freed, LockInv, Crawls
    <3>2. \A y \in Focus : ~Crawls(y)'
      BY <1>1, <2>1, <3>1 DEF LockInv, Crawls
    <3>3. QED
      BY <1>1, <2>1, <3>1, <3>2 DEF LockInv, PollFetches
  <2>4. QED
    BY <2>2, <2>3
<1>13. ASSUME NEW x \in Actors, NEW o \in Outcomes, AnalysisFails(x, o)
       PROVE  LockInv'
  <2>1. PollFetches' <=> PollFetches
    BY <1>13, Failed DEF PollFetches, TypeInv, PollOK
  <2>2. lock' = lock
    BY <1>13 DEF AnalysisFails
  <2>3. QED
    BY <1>13, <2>1, <2>2, Failed, LockElsewhere
<1>14. ASSUME NEW x \in Actors, NEW o \in Outcomes, AnalysisAnswers(x, o)
       PROVE  LockInv'
  BY <1>14, Answered, LockElsewhere DEF AnalysisAnswers, PollFetches
<1>15. ASSUME NEW x \in Actors, SetMaturity(x)
       PROVE  LockInv'
  BY <1>15, Matured, LockElsewhere DEF SetMaturity, PollFetches
<1>16. ASSUME NEW x \in Actors, Ready(x)
       PROVE  LockInv'
  BY <1>16, Readied, LockElsewhere DEF Ready, PollFetches
<1>17. ASSUME NEW x \in Actors, NEW i \in Issues, NEW anyway \in BOOLEAN,
              PersonSubmits(x, i, anyway)
       PROVE  LockInv'
  BY <1>17, Asked, LockElsewhere DEF PersonSubmits, PollFetches
<1>18. ASSUME NEW x \in Actors, Submit(x)
       PROVE  LockInv'
  BY <1>18, Submitted, LockElsewhere DEF Submit, PollFetches
<1>19. ASSUME NEW x \in Actors, MarkSubmitted(x)
       PROVE  LockInv'
  BY <1>19, Marked, LockElsewhere DEF MarkSubmitted, PollFetches
<1>20. QED
  BY Steps, <1>2, <1>3, <1>4, <1>5, <1>6, <1>7, <1>8, <1>9, <1>10, <1>11, <1>12, <1>13,
     <1>14, <1>15, <1>16, <1>17, <1>18, <1>19

LEMMA LockInit == Init => LockInv
<1>1. Init => lock = "free" /\ poll.pc = "off" /\ \A x \in Actors : act[x].pc = "none"
  BY NoActTypes, NoPollTypes DEF Init, TrackerInit
<1>2. Focus \subseteq Actors /\ "free" \notin Focus
  BY TrackerAssumption DEF Actors
<1>3. QED
  BY <1>1, <1>2 DEF LockInv, PollFetches, Crawls

\* In a tracker at most one crawl goes on, for any number of requests, and also when
\* those of earlier trackers end meanwhile (_poll_cycle, analyze_now).
THEOREM OneCrawlCorrect == Spec => []OneCrawl
<1>1. TypeInv /\ LockInv /\ [Next]_<<tvars, dvars>> => (TypeInv /\ LockInv)'
  BY TypeStep, LockStep
<1>2. LockInv => OneCrawl
  <2>1. LockInv => \A x \in Focus : Crawls(x) => lock = x /\ lock # "poll"
    BY TrackerAssumption DEF LockInv
  <2>2. QED
    BY <2>1 DEF LockInv, OneCrawl, Crawls, PollFetches
<1>3. QED
  BY <1>1, <1>2, TypeInit, LockInit, PTL DEF Spec

\* Whoever holds the lock or a guard is there to release it, whatever failed, was
\* cancelled or was started anew (_safe_analyze, start_tracking).
THEOREM HoldersAliveCorrect == Spec => []HoldersAlive
<1> DEFINE I == TypeInv /\ GuardInv /\ LockInv
<1>1. I /\ [Next]_<<tvars, dvars>> => I'
  BY TypeStep, GuardStep, LockStep
<1>2. I => HoldersAlive
  <2>1. LockInv => (lock = "poll" => poll.pc \in {"discover", "trees"})
    BY DEF LockInv, PollFetches
  <2>2. LockInv => (lock \in Focus => act[lock].pc = "fetch" /\ act[lock].of # "earlier")
    BY DEF LockInv, Crawls
  <2>3. GuardInv => \A i \in analyzing : \E x \in Actors \ People :
                       act[x].pc \in Analyses /\ act[x].root = i /\ act[x].of # "earlier"
    BY DEF GuardInv, Guards
  <2>4. QED
    BY <2>1, <2>2, <2>3 DEF HoldersAlive
<1>3. Init => I
  BY TypeInit, GuardInit, LockInit
<1>4. QED
  BY <1>1, <1>2, <1>3, PTL DEF Spec

-----------------------------------------------------------------------------
(***************************************************************************)
(* The requirements of submitted discussions: who is about to mark one     *)
(* has asked for its requirement, and nothing else writes that status.     *)
(***************************************************************************)
AskedFirst == \A x \in Actors : act[x].pc = "mark" => reqs[act[x].root] > 0

AskedInv == AskedFirst /\ SubmittedIsAsked

\* Steps that mark nothing submitted, and bring nobody to that point.
LEMMA AskedStays ==
    ASSUME AskedInv, TypeInv,
           \A i \in Issues : reqs[i] > 0 => reqs'[i] > 0,
           \A i \in Issues : disc'[i].status = "submitted" => disc[i].status = "submitted",
           \A x \in Actors : act'[x].pc = "mark" =>
               act[x].pc = "mark" /\ act'[x].root = act[x].root
    PROVE  AskedInv'
<1>1. \A x \in Actors : act[x].pc = "mark" => act[x].root \in Issues
  BY DEF TypeInv, ActsOK
<1>2. QED
  BY <1>1 DEF AskedInv, AskedFirst, SubmittedIsAsked

\* Such a step of one analysis or submission.
LEMMA AskedElsewhere ==
    ASSUME AskedInv, TypeInv, NEW x \in Actors, NEW pc, NEW root, NEW of, NEW maturity,
           Becomes(x, pc, root, of, maturity), pc # "mark", reqs' = reqs,
           \A i \in Issues : disc'[i].status \in {disc[i].status, "watching", "ready"}
    PROVE  AskedInv'
<1>1. \A y \in Actors : act'[y].pc = "mark" => act'[y] = act[y]
  BY DEF Becomes
<1>2. QED
  BY <1>1, AskedStays

LEMMA AskedStep ==
    ASSUME TypeInv, AskedInv, [Next]_<<tvars, dvars>>
    PROVE  AskedInv'
<1>1. CASE UNCHANGED tvars
  BY <1>1, AskedStays DEF tvars
<1>2. ASSUME NEW i \in Issues, AddLabel(i) \/ Comment(i) \/ IssueAsIdea(i)
      PROVE  AskedInv'
  <2>1. reqs \in [Issues -> 0 .. MaxReqs] /\ MaxReqs \in Nat /\ reqs[i] \in 0 .. MaxReqs
    BY TrackerAssumption DEF TypeInv, TypeOK
  <2>2. \A j \in Issues : reqs[j] > 0 => reqs'[j] > 0
    BY <1>2, <2>1 DEF AddLabel, Comment, IssueAsIdea
  <2>3. UNCHANGED <<disc, act>>
    BY <1>2 DEF AddLabel, Comment, IssueAsIdea
  <2>4. QED
    BY <2>2, <2>3, AskedStays
<1>3. CASE StartTracking \/ StopTracking \/ Crash
  <2>1. UNCHANGED <<disc, reqs>>
    BY <1>3 DEF StartTracking, StopTracking, Crash
  <2>2. QED
    BY <1>3, <2>1, TrackerGone, AskedStays
<1>4. ASSUME NEW i \in Issues, Restore(i)
      PROVE  AskedInv'
  BY <1>4, RestoredActs, AskedStays DEF Restore
<1>5. CASE Discover
  <2>1. label \ Roots \in SUBSET Issues /\ Registered(label \ Roots)
    BY <1>5, TrackerAssumption DEF Discover, TypeInv, TypeOK
  <2>2. \A i \in Issues : disc'[i].status \in {disc[i].status, "watching"}
    BY <2>1, RegisteredType DEF TypeInv
  <2>3. QED
    BY <1>5, <2>2, AskedStays DEF Discover
<1>6. CASE BeginCycle \/ EndFetch \/ EndCycle \/ \E i \in Issues : PollTree(i)
  <2>1. UNCHANGED <<disc, reqs, act>>
    BY <1>6 DEF BeginCycle, EndFetch, EndCycle, PollTree
  <2>2. QED
    BY <2>1, AskedStays
<1>7. ASSUME NEW i \in Issues, PollAnalyse(i)
      PROVE  AskedInv'
  <2>1. UNCHANGED <<disc, reqs>>
    BY <1>7 DEF PollAnalyse
  <2>2. \A x \in Actors : act'[x].pc = "mark" => act'[x] = act[x]
    BY <1>7, PollAnalyses DEF Becomes
  <2>3. QED
    BY <2>1, <2>2, AskedStays
<1>8. ASSUME NEW x \in Actors, NEW i \in Issues, FocusStart(x, i)
      PROVE  AskedInv'
  BY <1>8, FocusStarts, AskedElsewhere DEF FocusStart
<1>9. ASSUME NEW x \in Actors, FocusFetched(x)
      PROVE  AskedInv'
  BY <1>9, FocusEnds, AskedElsewhere DEF FocusFetched
<1>10. ASSUME NEW x \in Actors, NEW o \in Outcomes, AnalysisFails(x, o)
       PROVE  AskedInv'
  BY <1>10, Failed, AskedElsewhere DEF AnalysisFails
<1>11. ASSUME NEW x \in Actors, NEW o \in Outcomes, AnalysisAnswers(x, o)
       PROVE  AskedInv'
  BY <1>11, Answered, AskedElsewhere DEF AnalysisAnswers
<1>12. ASSUME NEW x \in Actors, SetMaturity(x)
       PROVE  AskedInv'
  BY <1>12, Matured, AskedElsewhere DEF SetMaturity
<1>13. ASSUME NEW x \in Actors, Ready(x)
       PROVE  AskedInv'
  BY <1>13, Readied, AskedElsewhere DEF Ready
<1>14. ASSUME NEW x \in Actors, NEW i \in Issues, NEW anyway \in BOOLEAN,
              PersonSubmits(x, i, anyway)
       PROVE  AskedInv'
  BY <1>14, Asked, AskedElsewhere DEF PersonSubmits
<1>15. ASSUME NEW x \in Actors, Submit(x)
       PROVE  AskedInv'
  <2>1. \A y \in Actors : act[y].pc = "mark" => act[y].root \in Issues
    BY DEF TypeInv, ActsOK
  <2>2. AskedFirst'
    BY <1>15, <2>1, Submitted DEF AskedInv, AskedFirst, Becomes
  <2>3. SubmittedIsAsked'
    BY <1>15, Submitted DEF Submit, AskedInv, SubmittedIsAsked
  <2>4. QED
    BY <2>2, <2>3 DEF AskedInv
<1>16. ASSUME NEW x \in Actors, MarkSubmitted(x)
       PROVE  AskedInv'
  <2>1. reqs' = reqs /\ reqs[act[x].root] > 0
    BY <1>16, Marked DEF MarkSubmitted, AskedInv, AskedFirst
  <2>2. AskedFirst'
    BY <1>16, <2>1, Marked DEF AskedInv, AskedFirst, Becomes
  <2>3. SubmittedIsAsked'
    BY <1>16, <2>1, Marked DEF AskedInv, SubmittedIsAsked
  <2>4. QED
    BY <2>2, <2>3 DEF AskedInv
<1>17. QED
  BY Steps, <1>1, <1>2, <1>3, <1>4, <1>5, <1>6, <1>7, <1>8, <1>9, <1>10, <1>11, <1>12,
     <1>13, <1>14, <1>15, <1>16

\* A discussion the database calls submitted is the subject of a requirement, whoever
\* submitted it, and wherever a crash or a new tracker came between (submit_discussion).
THEOREM SubmittedIsAskedCorrect == Spec => []SubmittedIsAsked
<1>1. TypeInv /\ AskedInv /\ [Next]_<<tvars, dvars>> => (TypeInv /\ AskedInv)'
  BY TypeStep, AskedStep
<1>2. Init => AskedInv
  <2>1. NoDisc.status = "none"
    BY DEF NoDisc
  <2>2. QED
    BY <2>1, NoActTypes DEF Init, TrackerInit, AskedInv, AskedFirst, SubmittedIsAsked
<1>3. AskedInv => SubmittedIsAsked
  BY DEF AskedInv
<1>4. QED
  BY <1>1, <1>2, <1>3, TypeInit, PTL DEF Spec

=============================================================================
