------------------------------- MODULE Drafts -------------------------------
(***************************************************************************)
(* Comments the discussion analyst drafts for GitHub: people approve,      *)
(* reject, edit or have them rewritten (web/api.py, and rewrite_draft of   *)
(* core/issue_tracker.py).  Every review reads the draft first and acts on *)
(* what it read; others may act in between.  Texts are version numbers;    *)
(* the chat about a draft changes nothing a review depends on.             *)
(***************************************************************************)
EXTENDS Naturals

CONSTANTS
    DraftIds,   \* rows of draft_comments there may be (a bound of the model)
    Reviewers,  \* review and rewrite requests that may be in flight
    MaxBody     \* versions of a text (a bound of the model)

ASSUME DraftsAssumption == DraftIds # {} /\ MaxBody \in Nat

VARIABLES
    draft,      \* rows of draft_comments
    comment,    \* comment[d]: the versions of d that have been posted on GitHub
    approval    \* approval[u]: the request u

dvars == <<draft, comment, approval>>

Draft == [status : {"none", "pending", "posted", "rejected"}, body : 0 .. MaxBody]

NoDraft == [status |-> "none", body |-> 0]

Approval == [pc : {"free", "approve", "mark", "reject", "edit", "rewrite"},
             draft : DraftIds, body : 0 .. MaxBody]

\* add_draft_comment, by an analysis.
AddDraft(d) ==
    /\ draft[d].status = "none"
    /\ draft' = [draft EXCEPT ![d] = [status |-> "pending", body |-> 0]]

Idle == [pc |-> "free", draft |-> CHOOSE d \in DraftIds : TRUE, body |-> 0]

Done(u) == approval' = [approval EXCEPT ![u] = Idle]

\* Mutant of StartReview: an approval marks the row before it posts.
StartReviewMarks(u, d, action) ==
    /\ approval[u].pc = "free"
    /\ draft[d].status = "pending"
    /\ approval' = [approval EXCEPT ![u] = [pc |-> action, draft |-> d,
                                            body |-> draft[d].body]]
    /\ draft' = IF action = "approve" THEN [draft EXCEPT ![d].status = "posted"] ELSE draft
    /\ UNCHANGED comment

\* review_draft reads the draft, which must be pending.
StartReview(u, d, action) ==
    /\ approval[u].pc = "free"
    /\ draft[d].status = "pending"
    /\ approval' = [approval EXCEPT ![u] = [pc |-> action, draft |-> d,
                                            body |-> draft[d].body]]
    /\ UNCHANGED <<draft, comment>>

\* rewrite_draft reads it whatever its status; the agent it asks may be silent.
StartRewrite(u, d) ==
    /\ approval[u].pc = "free"
    /\ draft[d].status # "none"
    /\ approval' = [approval EXCEPT ![u] = [pc |-> "rewrite", draft |-> d,
                                            body |-> draft[d].body]]
    /\ UNCHANGED <<draft, comment>>

\* GitHub takes the comment, on the issue or on the pull request, or neither.
Post(u) ==
    /\ approval[u].pc = "approve"
    /\ \/ /\ comment' = [comment EXCEPT ![approval[u].draft] = @ \cup {approval[u].body}]
          /\ approval' = [approval EXCEPT ![u].pc = "mark"]
       \/ /\ Done(u)
          /\ UNCHANGED comment
    /\ UNCHANGED draft

\* update_draft_status and update_draft_body name the id only.
MarkPosted(u) ==
    /\ approval[u].pc = "mark"
    /\ draft' = [draft EXCEPT ![approval[u].draft].status = "posted"]
    /\ Done(u)
    /\ UNCHANGED comment

MarkRejected(u) ==
    /\ approval[u].pc = "reject"
    /\ draft' = [draft EXCEPT ![approval[u].draft].status = "rejected"]
    /\ Done(u)
    /\ UNCHANGED comment

SetBody(u) ==
    /\ approval[u].pc \in {"edit", "rewrite"}
    /\ \/ \E b \in 1 .. MaxBody :
              draft' = [draft EXCEPT ![approval[u].draft].body = b]
       \/ approval[u].pc = "rewrite" /\ UNCHANGED draft
    /\ Done(u)
    /\ UNCHANGED comment

DraftInit ==
    /\ draft = [d \in DraftIds |-> NoDraft]
    /\ comment = [d \in DraftIds |-> {}]
    /\ approval = [u \in Reviewers |-> Idle]

DraftStep ==
    \E u \in Reviewers :
        \/ \E d \in DraftIds :
               \/ \E action \in {"approve", "reject", "edit"} : StartReview(u, d, action)
               \/ StartRewrite(u, d)
        \/ Post(u) \/ MarkPosted(u) \/ MarkRejected(u) \/ SetBody(u)

\* The process dies: requests end where they are.
DraftCrash ==
    /\ approval' = [u \in Reviewers |-> Idle]
    /\ UNCHANGED <<draft, comment>>

DraftTypeOK ==
    /\ draft \in [DraftIds -> Draft]
    /\ comment \in [DraftIds -> SUBSET (0 .. MaxBody)]
    /\ approval \in [Reviewers -> Approval]

=============================================================================
