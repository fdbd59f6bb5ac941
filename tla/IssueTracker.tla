---------------------------- MODULE IssueTracker ----------------------------
(***************************************************************************)
(* Discussions on GitHub (core/issue_tracker.py): a loop finds labelled    *)
(* issues, collects the issues they refer to and the comments on them, and *)
(* has an agent analyse what is new; people ask for an analysis at once;   *)
(* a mature discussion is handed over as a requirement, by its analysis or *)
(* by people (core/orchestrator.py).  Analyses draft comments (Drafts).    *)
(*                                                                         *)
(* Trees are objects in memory, restored from the database when a tracker  *)
(* starts.  A step is the work between two awaits that others may use; the *)
(* calls on one tree under the tracker's lock are one step.                *)
(***************************************************************************)
EXTENDS Drafts, FiniteSets

CONSTANTS
    Issues,       \* issues and pull requests
    Refs,         \* Refs[i]: the issues i and its comments refer to
    Labelled,     \* issues that may get the watched label or be focused
    Linkable,     \* issues an analysis may name as linked
    Talked,       \* issues people write comments on in this instance
    MaxComments,  \* comments people write on an issue (a bound of the model)
    MaxDepth,     \* WatchConfig.max_depth
    MaxNodes,     \* WatchConfig.max_issues_per_tree
    AutoSubmit,   \* WatchConfig.auto_submit
    Outcomes,     \* how analyses end in this instance
    Focus,        \* analyze_now requests
    People,       \* submit requests
    MaxInFlight,  \* how many of them may be in flight (a bound of the model)
    MaxStarts,    \* trackers started in a behaviour (a bound of the model)
    MaxReqs,      \* requirements per discussion that are counted (a bound)
    Apart,        \* whether drafts are reviewed after the tracking only (a bound)
    NoIssue       \* no issue

\* No output; an exception; plain text; a structured answer whose maturity is left
\* out, is ready, or is any other.
AnalysisOutcomes == {"nothing", "raises", "text", "silent", "talk", "ready"}

ASSUME TrackerAssumption ==
    /\ NoIssue \notin Issues
    /\ "poll" \notin Focus \cup People /\ "free" \notin Focus /\ Focus \cap People = {}
    /\ Refs \in [Issues -> SUBSET Issues]
    /\ Labelled \subseteq Issues /\ Linkable \subseteq Issues /\ Talked \subseteq Issues
    /\ {MaxComments, MaxDepth, MaxNodes, MaxInFlight, MaxStarts, MaxReqs} \subseteq Nat
    /\ MaxReqs # 0
    /\ AutoSubmit \in BOOLEAN /\ Apart \in BOOLEAN
    /\ Outcomes \subseteq AnalysisOutcomes

VARIABLES
    label,     \* issues with the watched label
    said,      \* said[i]: how many comments people have written on i
    disc,      \* rows of discussions, by root: status, and whether there is a summary
    row,       \* row[i]: the root in the row of discussion_issues for i
    reqs,      \* reqs[i]: requirements submitted for the discussion of i
    trees,     \* IssueTracker._trees
    analyzing, \* IssueTracker._analyzing
    lock,      \* IssueTracker._lock: who holds it
    poll,      \* the loop
    act,       \* analyses and submissions, by whom
    starts     \* trackers started so far

tvars == <<label, said, disc, row, reqs, trees, analyzing, lock, poll, act, starts>>

-----------------------------------------------------------------------------
TreeStatus == {"none", "watching", "ready", "submitted"}
Actors == {"poll"} \cup Focus \cup People

Disc == [status : TreeStatus, summary : BOOLEAN]

NoDisc == [status |-> "none", summary |-> FALSE]

Tree == [status : TreeStatus, summary : BOOLEAN, nodes : SUBSET Issues,
         heard : [Issues -> 0 .. MaxComments]]

NoTree == [status |-> "none", summary |-> FALSE, nodes |-> {},
           heard |-> [i \in Issues |-> 0]]

NewTree(i) == [NoTree EXCEPT !.status = "watching", !.nodes = {i}]

Roots == {i \in Issues : trees[i].status # "none"}

Poll == [pc : {"off", "restore", "sleep", "discover", "trees", "analyse"},
         todo : SUBSET Issues,              \* trees, or rows to restore
         new : SUBSET Issues,               \* new_roots
         queue : SUBSET Issues,             \* to_analyze
         snap : [Issues -> Disc]]           \* the rows being restored

NoPoll == [pc |-> "off", todo |-> {}, new |-> {}, queue |-> {},
           snap |-> [i \in Issues |-> NoDisc]]

\* What an analysis or a submission works on: a tree of _trees, one that was
\* replaced there by the restore, or one of an earlier tracker; and the status of
\* the latter two.
Act == [pc : {"none", "lock", "fetch", "agent", "status", "ready", "submit", "mark"},
        root : Issues \cup {NoIssue},
        of : {"tree", "replaced", "earlier"},
        status : TreeStatus,
        nodes : SUBSET Issues,
        maturity : TreeStatus]

NoAct == [pc |-> "none", root |-> NoIssue, of |-> "tree", status |-> "none",
          nodes |-> {}, maturity |-> "none"]

Analyses == {"agent", "status", "ready", "submit", "mark"}

StatusOf(x) == IF act[x].of = "tree" THEN trees[act[x].root].status ELSE act[x].status

\* tree.status = s, on whichever object x has.
SetStatus(x, s, rec) ==
    IF act[x].of = "tree"
    THEN /\ trees' = [trees EXCEPT ![act[x].root].status = s]
         /\ act' = [act EXCEPT ![x] = rec]
    ELSE /\ act' = [act EXCEPT ![x] = [rec EXCEPT !.status =
                                          IF rec = NoAct THEN @ ELSE s]]
         /\ UNCHANGED trees

Another == Cardinality({x \in Focus \cup People : act[x].pc # "none"}) < MaxInFlight

-----------------------------------------------------------------------------
\* GitHub.
AddLabel(i) ==
    /\ i \in Labelled \ label
    /\ label' = label \cup {i}
    /\ UNCHANGED <<said, disc, row, reqs, trees, analyzing, lock, poll, act, starts>>

Comment(i) ==
    /\ i \in Talked /\ said[i] < MaxComments
    /\ said' = [said EXCEPT ![i] = @ + 1]
    /\ UNCHANGED <<label, disc, row, reqs, trees, analyzing, lock, poll, act, starts>>

\* _register_root's rows: an issue that is in a tree already keeps its row there.
Registered(new) ==
    /\ disc' = [i \in Issues |-> IF i \in new /\ disc[i].status = "none"
                                 THEN [NoDisc EXCEPT !.status = "watching"] ELSE disc[i]]
    /\ row' = [i \in Issues |-> IF i \in new /\ row[i] = NoIssue THEN i ELSE row[i]]

\* _crawl_children: breadth first along the references, up to the depth and the
\* number of nodes; which ones are left out depends on an order not modelled.
Reach(nodes) ==
    LET f[d \in 0 .. MaxDepth] ==
            IF d = 0 THEN nodes ELSE f[d - 1] \cup UNION {Refs[i] : i \in f[d - 1]}
    IN f[MaxDepth]

Crawled(nodes) ==
    LET all == Reach(nodes) IN
    {s \in SUBSET Issues :
        /\ nodes \subseteq s /\ s \subseteq all
        /\ s = all \/ Cardinality(s) = MaxNodes \/ (s = nodes /\ Cardinality(s) > MaxNodes)
        /\ Cardinality(s \ nodes) > 0 => Cardinality(s) <= MaxNodes}

Kept(nodes, r) == [i \in Issues |-> IF i \in nodes /\ row[i] = NoIssue THEN r ELSE row[i]]

\* _fetch_new_comments on a set of nodes: what is stored, and whether people's
\* activity is new.  Orchestra's own comments are stored and do not count.
Heard(t) == [i \in Issues |-> IF i \in t.nodes THEN said[i] ELSE t.heard[i]]
HasNew(t) == \E i \in t.nodes : said[i] > t.heard[i]

-----------------------------------------------------------------------------
\* start_tracking: the earlier tracker is stopped, its loop cancelled wherever it
\* is; requests of people go on with the tracker they have.
Detached(x) ==
    IF x = "poll" \/ act[x].pc = "none" THEN NoAct
    ELSE [act[x] EXCEPT !.of = "earlier",
                        !.status = IF StatusOf(x) = "none" THEN "watching" ELSE StatusOf(x)]

StartTracking ==
    /\ starts < MaxStarts
    /\ starts' = starts + 1
    /\ trees' = [i \in Issues |-> NoTree]
    /\ analyzing' = {}
    /\ lock' = "free"
    /\ poll' = [NoPoll EXCEPT !.pc = "restore",
                              !.todo = {i \in Issues : disc[i].status \in {"watching", "ready"}},
                              !.snap = disc]
    /\ act' = [x \in Actors |-> Detached(x)]
    /\ UNCHANGED <<label, said, disc, row, reqs>>

StopTracking ==
    /\ poll.pc # "off"
    /\ trees' = [i \in Issues |-> NoTree]
    /\ analyzing' = {}
    /\ lock' = "free"
    /\ poll' = NoPoll
    /\ act' = [x \in Actors |-> Detached(x)]
    /\ UNCHANGED <<label, said, disc, row, reqs, starts>>

\* The process is killed; the next one has no tracker until it is asked for one.
Crash ==
    /\ trees' = [i \in Issues |-> NoTree]
    /\ analyzing' = {}
    /\ lock' = "free"
    /\ poll' = NoPoll
    /\ act' = [x \in Actors |-> NoAct]
    /\ UNCHANGED <<label, said, disc, row, reqs, starts>>

\* _restore_from_db, row by row and without the lock: a tree somebody has
\* registered meanwhile is replaced.
Restore(i) ==
    /\ poll.pc = "restore" /\ i \in poll.todo
    /\ trees' = [trees EXCEPT ![i] =
                    [NoTree EXCEPT !.status = poll.snap[i].status,
                                   !.summary = poll.snap[i].summary,
                                   !.nodes = {n \in Issues : row[n] = i}]]
    /\ act' = [x \in Actors |->
                 IF act[x].pc # "none" /\ act[x].root = i /\ act[x].of = "tree"
                 THEN [act[x] EXCEPT !.of = "replaced", !.status = trees[i].status]
                 ELSE act[x]]
    /\ poll' = [poll EXCEPT !.todo = @ \ {i}]
    /\ UNCHANGED <<label, said, disc, row, reqs, analyzing, lock, starts>>

BeginCycle ==
    /\ \/ poll.pc = "restore" /\ poll.todo = {}
       \/ poll.pc = "sleep"
    /\ lock = "free"
    /\ lock' = "poll"
    /\ poll' = [NoPoll EXCEPT !.pc = "discover"]
    /\ UNCHANGED <<label, said, disc, row, reqs, trees, analyzing, act, starts>>

\* _discover_roots.
Discover ==
    /\ poll.pc = "discover"
    /\ LET new == label \ Roots IN
       /\ trees' = [i \in Issues |-> IF i \in new THEN NewTree(i) ELSE trees[i]]
       /\ Registered(new)
       /\ poll' = [poll EXCEPT !.pc = "trees", !.new = new, !.todo = Roots \cup new]
    /\ UNCHANGED <<label, said, reqs, analyzing, lock, act, starts>>

\* Which trees the cycle leaves out.
Skipped(i) == trees[i].status = "submitted" \/ i \in analyzing

\* Mutant of Due: a tree is analysed for what is new only.
DueForComments(i, t, nodes) == HasNew(t) \/ nodes # t.nodes \/ i \in poll.new

\* Whether a tree is analysed in this cycle.
Due(i, t, nodes) == HasNew(t) \/ nodes # t.nodes \/ i \in poll.new \/ ~t.summary

PollTree(i) ==
    /\ poll.pc = "trees" /\ i \in poll.todo
    /\ IF Skipped(i)
       THEN /\ poll' = [poll EXCEPT !.todo = @ \ {i}]
            /\ UNCHANGED <<trees, row>>
       ELSE LET t == trees[i]
                crawls == HasNew(t) \/ i \in poll.new \/ Cardinality(t.nodes) = 1 IN
            \E nodes \in IF crawls THEN Crawled(t.nodes) ELSE {t.nodes} :
               /\ trees' = [trees EXCEPT ![i].nodes = nodes,
                                         ![i].heard = Heard([t EXCEPT !.nodes = nodes])]
               /\ row' = Kept(nodes, i)
               /\ poll' = [poll EXCEPT !.todo = @ \ {i},
                                       !.queue = IF Due(i, t, nodes) THEN @ \cup {i} ELSE @]
    /\ UNCHANGED <<label, said, disc, reqs, analyzing, lock, act, starts>>

EndFetch ==
    /\ poll.pc = "trees" /\ poll.todo = {}
    /\ lock' = "free"
    /\ poll' = [poll EXCEPT !.pc = "analyse"]
    /\ UNCHANGED <<label, said, disc, row, reqs, trees, analyzing, act, starts>>

EndCycle ==
    /\ poll.pc = "analyse" /\ poll.queue = {} /\ act["poll"].pc = "none"
    /\ poll' = [NoPoll EXCEPT !.pc = "sleep"]
    /\ UNCHANGED <<label, said, disc, row, reqs, trees, analyzing, lock, act, starts>>

-----------------------------------------------------------------------------
\* Mutant of Guarded: the guard is left out.
Unguarded(i) == TRUE

\* _safe_analyze skips a tree that is being analysed.
Guarded(i) == i \notin analyzing

\* Who an exception of an analysis ends: the cycle, or the request.
Raised(x) == IF x = "poll" THEN [NoPoll EXCEPT !.pc = "sleep"] ELSE poll

\* Mutant of Released: the guard is released by the ordinary path only.
ReleasedIfDone(x) ==
    IF act[x].of = "earlier" \/ act[x].pc = "agent" THEN analyzing
    ELSE analyzing \ {act[x].root}

\* _safe_analyze's finally; an earlier tracker's set is not this one's.
Released(x) == IF act[x].of = "earlier" THEN analyzing ELSE analyzing \ {act[x].root}

\* A tree without its root node raises when its context is built.
PollAnalyse(i) ==
    /\ poll.pc = "analyse" /\ i \in poll.queue /\ act["poll"].pc = "none"
    /\ IF ~Guarded(i)
       THEN /\ poll' = [poll EXCEPT !.queue = @ \ {i}]
            /\ UNCHANGED <<analyzing, act>>
       ELSE IF i \notin trees[i].nodes
       THEN /\ poll' = Raised("poll")
            /\ UNCHANGED <<analyzing, act>>
       ELSE /\ poll' = [poll EXCEPT !.queue = @ \ {i}]
            /\ analyzing' = analyzing \cup {i}
            /\ act' = [act EXCEPT !["poll"] = [NoAct EXCEPT !.pc = "agent", !.root = i]]
    /\ UNCHANGED <<label, said, disc, row, reqs, trees, lock, starts>>

\* analyze_now: the issue is registered if need be, crawled and fetched.
FocusStart(x, i) ==
    /\ x \in Focus /\ act[x].pc = "none" /\ Another
    /\ poll.pc # "off"
    /\ i \in Labelled
    /\ lock = "free"
    /\ lock' = x
    /\ LET new == {i} \ Roots
           t == IF new = {} THEN trees[i] ELSE NewTree(i) IN
       \E nodes \in Crawled(t.nodes) :
          /\ trees' = [trees EXCEPT ![i] = [t EXCEPT !.nodes = nodes]]
          /\ act' = [act EXCEPT ![x] = [NoAct EXCEPT !.pc = "fetch", !.root = i,
                                                     !.nodes = nodes]]
          /\ disc' = [disc EXCEPT ![i] = IF @.status = "none"
                                         THEN [@ EXCEPT !.status = "watching"] ELSE @]
          /\ row' = Kept(nodes \cup {i}, i)
    /\ UNCHANGED <<label, said, reqs, analyzing, poll, starts>>

\* Mutant of Freed: a request of an earlier tracker releases the lock of this one.
FreedAnyway(x) == "free"

\* The lock after a request's fetch; an earlier tracker's is not this one's.
Freed(x) == IF act[x].of = "earlier" THEN lock ELSE "free"

\* The comments are fetched node by node: an analysis that adds a node meanwhile
\* makes the loop over them raise.  Then the tree is analysed, unless it is being.
FocusFetched(x) ==
    /\ act[x].pc = "fetch"
    /\ lock' = Freed(x)
    /\ LET i == act[x].root
           moved == act[x].of = "tree" /\ trees[i].nodes # act[x].nodes
           starting == ~moved /\ i \in act[x].nodes
                         /\ (act[x].of = "earlier" \/ Guarded(i)) IN
       /\ trees' = IF act[x].of = "tree" /\ ~moved
                   THEN [trees EXCEPT ![i].heard = Heard(trees[i])] ELSE trees
       /\ analyzing' = IF starting /\ act[x].of # "earlier" THEN analyzing \cup {i}
                       ELSE analyzing
       /\ act' = [act EXCEPT ![x] = IF starting THEN [@ EXCEPT !.pc = "agent", !.nodes = {}]
                                    ELSE NoAct]
    /\ UNCHANGED <<label, said, disc, row, reqs, poll, starts>>

-----------------------------------------------------------------------------
\* The end of an analysis.
Ends(x) ==
    /\ act' = [act EXCEPT ![x] = NoAct]
    /\ analyzing' = Released(x)

\* _analyze_tree: the agent cannot be run or read, or has nothing to say.
AnalysisFails(x, o) ==
    /\ act[x].pc = "agent"
    /\ o \in Outcomes \cap {"nothing", "raises"}
    /\ Ends(x)
    /\ poll' = IF o = "raises" THEN Raised(x) ELSE poll
    /\ UNCHANGED <<label, said, disc, row, reqs, trees, lock, starts, dvars>>

\* The maturity in an answer.
Named(o) == CASE o = "ready" -> "ready" [] o = "talk" -> "watching" [] OTHER -> "none"

\* An answer: perhaps a draft, perhaps a linked issue, and a summary.  Plain text
\* ends here; a structured answer names a maturity.
AnalysisAnswers(x, o) ==
    /\ act[x].pc = "agent"
    /\ o \in Outcomes \cap {"text", "silent", "talk", "ready"}
    /\ LET i == act[x].root
           linkable == IF o = "text" \/ act[x].of # "tree" THEN {}
                       ELSE {n \in Linkable \ trees[i].nodes :
                                 Cardinality(trees[i].nodes) < MaxNodes} IN
       \E link \in {{}} \cup {{n} : n \in linkable} :
          /\ trees' = IF act[x].of = "tree"
                      THEN [trees EXCEPT ![i].nodes = @ \cup link, ![i].summary = TRUE]
                      ELSE trees
          /\ row' = Kept(link, i)
          /\ disc' = [disc EXCEPT ![i].summary = TRUE]
    /\ \/ \E d \in DraftIds : AddDraft(d)
       \/ UNCHANGED draft
    /\ IF o = "text" THEN Ends(x)
       ELSE /\ act' = [act EXCEPT ![x].pc = "status",
                                  ![x].maturity = Named(o)]
            /\ UNCHANGED analyzing
    /\ UNCHANGED <<label, said, reqs, lock, poll, starts, comment, approval>>

\* Mutant of Maturity: an answer that names none has none.
MaturityOrNone(x) == act[x].maturity

\* The maturity an answer names; the tree keeps its status if it names none.
Maturity(x) == IF act[x].maturity = "none" THEN StatusOf(x) ELSE act[x].maturity

\* _handle_result's maturity, compared with the status of the moment.
SetMaturity(x) ==
    /\ act[x].pc = "status"
    /\ LET m == Maturity(x)
           ready == m = "ready"
           rec == IF ready THEN [act[x] EXCEPT !.pc = "ready"] ELSE NoAct IN
       /\ SetStatus(x, m, rec)
       /\ disc' = IF m # StatusOf(x) THEN [disc EXCEPT ![act[x].root].status = m] ELSE disc
       /\ analyzing' = IF ready THEN analyzing ELSE Released(x)
    /\ UNCHANGED <<label, said, row, reqs, lock, poll, starts>>

\* _on_discussion_ready: handed over at once, by the tracker there is now, or left to
\* people; nothing is, without a requirement in the answer.
Ready(x) ==
    /\ act[x].pc = "ready"
    /\ \/ /\ AutoSubmit /\ poll.pc # "off"
          /\ act' = [act EXCEPT ![x].pc = "submit"]
          /\ UNCHANGED analyzing
       \/ Ends(x)
    /\ UNCHANGED <<label, said, disc, row, reqs, trees, lock, poll, starts>>

\* submit_discussion asks for a ready tree, submit_discussion_as_idea for any.
PersonSubmits(x, i, anyway) ==
    /\ x \in People /\ act[x].pc = "none" /\ Another
    /\ i \in Roots
    /\ anyway \/ trees[i].status = "ready"
    /\ act' = [act EXCEPT ![x] = [NoAct EXCEPT !.pc = "submit", !.root = i]]
    /\ UNCHANGED <<label, said, disc, row, reqs, trees, analyzing, lock, poll, starts>>

\* submit_issue_as_idea knows nothing of trackers.
IssueAsIdea(i) ==
    /\ reqs[i] < MaxReqs
    /\ reqs' = [reqs EXCEPT ![i] = @ + 1]
    /\ UNCHANGED <<label, said, disc, row, trees, analyzing, lock, poll, act, starts>>

\* Mutant of Submit: the discussion is marked before the requirement is asked for.
SubmitMarksFirst(x) ==
    /\ act[x].pc = "submit"
    /\ reqs' = [reqs EXCEPT ![act[x].root] = IF @ < MaxReqs /\ disc[act[x].root].status = "submitted"
                                             THEN @ + 1 ELSE @]
    /\ disc' = [disc EXCEPT ![act[x].root].status = "submitted"]
    /\ act' = IF disc' = disc THEN [act EXCEPT ![x].pc = "mark"] ELSE act
    /\ UNCHANGED <<label, said, row, trees, analyzing, lock, poll, starts>>

\* submit_requirement, and the comment that says so.
Submit(x) ==
    /\ act[x].pc = "submit"
    /\ reqs' = [reqs EXCEPT ![act[x].root] = IF @ < MaxReqs THEN @ + 1 ELSE @]
    /\ act' = [act EXCEPT ![x].pc = "mark"]
    /\ UNCHANGED <<label, said, disc, row, trees, analyzing, lock, poll, starts>>

MarkSubmitted(x) ==
    /\ act[x].pc = "mark"
    /\ SetStatus(x, "submitted", NoAct)
    /\ disc' = [disc EXCEPT ![act[x].root].status = "submitted"]
    /\ analyzing' = IF x \in People THEN analyzing ELSE Released(x)
    /\ UNCHANGED <<label, said, row, reqs, lock, poll, starts>>

TrackerInit ==
    /\ label = {}
    /\ said = [i \in Issues |-> 0]
    /\ disc = [i \in Issues |-> NoDisc]
    /\ row = [i \in Issues |-> NoIssue]
    /\ reqs = [i \in Issues |-> 0]
    /\ trees = [i \in Issues |-> NoTree]
    /\ analyzing = {}
    /\ lock = "free"
    /\ poll = NoPoll
    /\ act = [x \in Actors |-> NoAct]
    /\ starts = 0

Init == TrackerInit /\ DraftInit

\* The loop and the requests, without the agents they wait for.
Loop ==
    \/ \E i \in Issues : Restore(i) \/ PollTree(i) \/ PollAnalyse(i)
    \/ BeginCycle \/ Discover \/ EndFetch \/ EndCycle

Advance(x) ==
    FocusFetched(x) \/ SetMaturity(x) \/ Ready(x) \/ Submit(x) \/ MarkSubmitted(x)

Outside ==
    \/ \E i \in Issues : AddLabel(i) \/ Comment(i) \/ IssueAsIdea(i)
    \/ \E x \in Actors, i \in Issues :
           FocusStart(x, i) \/ \E anyway \in BOOLEAN : PersonSubmits(x, i, anyway)
    \/ StartTracking \/ StopTracking

Answer(x) == \E o \in Outcomes : AnalysisAnswers(x, o)
Fails(x) == \E o \in Outcomes : AnalysisFails(x, o)

Next ==
    \/ (Loop \/ Outside \/ \E x \in Actors : Advance(x)) /\ UNCHANGED dvars
    \/ \E x \in Actors : Answer(x) \/ Fails(x)
    \/ Crash /\ DraftCrash
    \/ /\ Apart => starts = MaxStarts /\ poll.pc = "off" /\ \A x \in Actors : act[x] = NoAct
       /\ DraftStep /\ UNCHANGED tvars

\* The event loop goes on with the tracker and with every request; agents end,
\* and one that is asked about a discussion again and again answers some time.
Fairness ==
    /\ \A i \in Issues :
          /\ WF_<<tvars, dvars>>(Restore(i) /\ UNCHANGED dvars)
          /\ WF_<<tvars, dvars>>(PollTree(i) /\ UNCHANGED dvars)
          /\ WF_<<tvars, dvars>>(PollAnalyse(i) /\ UNCHANGED dvars)
    /\ WF_<<tvars, dvars>>((BeginCycle \/ Discover \/ EndFetch \/ EndCycle) /\ UNCHANGED dvars)
    /\ \A x \in Actors :
          /\ WF_<<tvars, dvars>>(Advance(x) /\ UNCHANGED dvars)
          /\ WF_<<tvars, dvars>>(Answer(x) \/ Fails(x))
    /\ \A i \in Issues :
          SF_<<tvars, dvars>>(\E x \in Actors : act[x].root = i /\ Answer(x))

Spec == Init /\ [][Next]_<<tvars, dvars>> /\ Fairness

-----------------------------------------------------------------------------
\* The state is what the program's objects and rows can hold; a tree has a status.
TypeOK ==
    /\ label \subseteq Labelled
    /\ said \in [Issues -> 0 .. MaxComments]
    /\ disc \in [Issues -> Disc]
    /\ row \in [Issues -> Issues \cup {NoIssue}]
    /\ reqs \in [Issues -> 0 .. MaxReqs]
    /\ trees \in [Issues -> Tree]
    /\ \A i \in Issues : trees[i].status = "none" => trees[i] = NoTree
    /\ analyzing \subseteq Issues
    /\ lock \in {"free"} \cup {"poll"} \cup Focus
    /\ poll \in Poll
    /\ act \in [Actors -> Act]
    /\ starts \in 0 .. MaxStarts
    /\ DraftTypeOK

\* No two analyses of one discussion run at a time in a tracker (_safe_analyze),
\* whether the loop or a person asked, and whether or not the restore replaced
\* the tree meanwhile.
OneAnalysis ==
    \A x, y \in Actors \ People :
        /\ act[x].pc \in Analyses /\ act[y].pc \in Analyses
        /\ act[x].root = act[y].root
        /\ act[x].of # "earlier" /\ act[y].of # "earlier"
        => x = y

\* In a tracker at most one of the loop's fetch and the requests' crawls goes on, also
\* when requests of an earlier tracker end meanwhile (_poll_cycle, analyze_now).
OneCrawl ==
    /\ \A x, y \in Focus :
          act[x].pc = "fetch" /\ act[y].pc = "fetch" /\ "earlier" \notin {act[x].of, act[y].of}
              => x = y
    /\ \A x \in Focus :
          act[x].pc = "fetch" /\ act[x].of # "earlier" => poll.pc \notin {"discover", "trees"}

\* Whoever holds the lock or a guard is still there to release it: no exception, no
\* cancelled loop and no new tracker leaves one behind (_safe_analyze, start_tracking).
HoldersAlive ==
    /\ lock = "poll" => poll.pc \in {"discover", "trees"}
    /\ lock \in Focus => act[lock].pc = "fetch" /\ act[lock].of # "earlier"
    /\ \A i \in analyzing : \E x \in Actors \ People :
           act[x].pc \in Analyses /\ act[x].root = i /\ act[x].of # "earlier"

\* A discussion that the database calls submitted, and that a restart therefore
\* leaves alone, is the subject of a requirement (submit_discussion and the like).
SubmittedIsAsked ==
    \A i \in Issues : disc[i].status = "submitted" => reqs[i] > 0

\* A draft that is marked posted is on GitHub, whatever two reviewers, a rewrite and
\* a crash do at the same time (review_draft).
PostedIsOnGitHub ==
    \A d \in DraftIds : draft[d].status = "posted" => comment[d] # {}

\* A discussion never stays guarded: the guard of an analysis is released however
\* it ends, and the discussion can be analysed again (_safe_analyze's finally).
GuardReleased ==
    \A i \in Issues : i \in analyzing ~> i \notin analyzing

\* A labelled issue gets a first analysis some day, or is handed over without one,
\* while a tracker runs: failed analyses, aborted cycles and restarts only delay it
\* (_poll_cycle analyses a tree without a summary again and again).
EveryRootAnalysed ==
    \A i \in Issues :
        i \in label /\ starts = MaxStarts
            ~> disc[i].summary \/ disc[i].status = "submitted" \/ poll.pc = "off"

=============================================================================
