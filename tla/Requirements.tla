---------------------------- MODULE Requirements ----------------------------
(***************************************************************************)
(* Where tasks come from: a person submits a requirement, a head leader    *)
(* decomposes it into a proposal, a person approves all or part of that or *)
(* rejects it, and every approved feature becomes a task                   *)
(* (core/orchestrator.py, the head leader's branches of                    *)
(* core/agent_run_manager.py, and web/api.py).                             *)
(*                                                                         *)
(* As in Pipeline a step is one database call, and everything else may run *)
(* in between.  Tasks are their ids here: what becomes of them is Pipeline.*)
(***************************************************************************)
EXTENDS Naturals, FiniteSets

CONSTANTS
    Reqs,        \* requirements that may be submitted
    Features,    \* ids of features, which become ids of tasks
    Plans,       \* the sets of features head leaders come up with
    PropIds,     \* proposals there may ever be (a bound of the model)
    RunIds,      \* ids for the runs that are unfinished at one time
    Users,       \* reviews that may be in flight at one time
    Outcomes,    \* how head leaders end in this instance
    UserModes,   \* modes in which people start head leaders themselves
    MaxHL,       \* OrchestraConfig.max_hl
    CanCrash,    \* whether the process may be killed and started again
    Nobody       \* no requirement, no proposal

ReqStatus == {"unknown", "pending", "processed"}
PropStatus == {"unknown", "pending", "approved", "rejected"}
HLModes == {"auto", "manual", "standalone"}
HLOutcomes == {"features", "empty", "failed", "cancelled"}

ASSUME RequirementsAssumption ==
    /\ Nobody \notin Reqs \cup PropIds
    /\ Plans \subseteq SUBSET Features /\ {} \notin Plans
    /\ UserModes \subseteq HLModes
    /\ Outcomes \subseteq HLOutcomes
    /\ MaxHL \in Nat
    /\ IsFiniteSet(RunIds)
    /\ CanCrash \in BOOLEAN

VARIABLES
    req,        \* requirements.status
    proposal,   \* proposals: status, requirement_id, features
    task,       \* rows of tasks: the proposal whose approval added the row
    paused,     \* requirements with a row in auto_pauses
    run,        \* unfinished runs of head leaders
    driver,     \* the hl phase of AutoDriver
    submit,     \* submit_requirement, a request per requirement
    review      \* review_proposal requests in flight

rvars == <<req, proposal, task, paused, run, driver, submit, review>>

-----------------------------------------------------------------------------
\* Runs, as in Pipeline.  hook: about to call _on_hl_done; mark: about to set
\* the requirement's status; row: inserted, not registered yet.
RunPC == {"free", "row", "running", "finish", "hook", "mark", "pause", "unpause",
          "lost"}

Run == [pc : RunPC,
        target : Reqs \cup {Nobody},
        mode : HLModes \cup {"none"},
        by : {"driver", "request", "user", "none"},
        outcome : HLOutcomes \cup {"none"},
        plan : SUBSET Features]

NoRun == [pc |-> "free", target |-> Nobody, mode |-> "none", by |-> "none",
          outcome |-> "none", plan |-> {}]

RowRunning(r) == run[r].pc \in {"row", "running", "finish", "lost"}

running_count == Cardinality({r \in RunIds : run[r].pc = "running"})

Proposal == [status : PropStatus, of : Reqs \cup {Nobody}, features : SUBSET Features]

NoProposal == [status |-> "unknown", of |-> Nobody, features |-> {}]

Driver == [pc : {"reqs", "rows", "each", "submit", "register"},
           todo : SUBSET Reqs,
           cur : Reqs \cup {Nobody}]

NewTick == [pc |-> "reqs", todo |-> {}, cur |-> Nobody]

Continue(todo) == IF todo = {} THEN NewTick
                  ELSE [pc |-> "each", todo |-> todo, cur |-> Nobody]

\* add_agent_run.
AddAgentRun(r, q, mode, by) ==
    /\ run[r].pc = "free"
    /\ run' = [run EXCEPT ![r] = [NoRun EXCEPT !.pc = "row", !.target = q,
                                               !.mode = mode, !.by = by]]

\* The rest of submit(): the runner starts; submitter and driver go on.
Register(r) ==
    /\ run[r].pc = "row"
    /\ run' = [run EXCEPT ![r].pc = "running"]
    /\ driver' = IF run[r].by = "driver" THEN Continue(driver.todo) ELSE driver
    /\ UNCHANGED <<req, proposal, task, paused, submit, review>>

\* The proposal ids that neither a proposal nor a run on its way to one needs.
IdsLeft ==
    Cardinality({p \in PropIds : proposal[p].status = "unknown"})
        > Cardinality({r \in RunIds : /\ run[r].outcome = "features"
                                      /\ run[r].pc \in {"finish", "hook"}})

\* HLRunner.run returns: a decomposition, one without features, a failure or,
\* when somebody cancelled it, nothing.
RunnerReturns(r, o, plan) ==
    /\ run[r].pc = "running"
    /\ o \in Outcomes
    /\ IF o = "features" THEN plan \in Plans /\ IdsLeft ELSE plan = {}
    /\ run' = [run EXCEPT ![r].pc = "finish", ![r].outcome = o, ![r].plan = plan]
    /\ UNCHANGED <<req, proposal, task, paused, driver, submit, review>>

\* The run once its proposal is minted: only auto runs mark the requirement,
\* only manual ones clear its pause.
Minted(rec) == [rec EXCEPT !.pc = IF rec.mode = "manual" THEN "unpause" ELSE "mark",
                           !.plan = {}]

\* Mutant of AfterRow: the requirement is marked before its proposal exists.
AfterRowMarkFirst(rec) ==
    CASE rec.outcome = "features" ->
           [rec EXCEPT !.pc = IF rec.mode = "manual" THEN "hook" ELSE "mark"]
      [] rec.outcome = "empty"    -> Minted(rec)
      [] rec.outcome = "failed"   -> IF rec.mode = "auto" THEN [rec EXCEPT !.pc = "pause"]
                                                          ELSE NoRun
      [] OTHER                    -> NoRun

\* Where _finish goes once finish_agent_run has written the row.
AfterRow(rec) ==
    CASE rec.outcome = "features" -> [rec EXCEPT !.pc = "hook"]
      [] rec.outcome = "empty"    -> Minted(rec)
      [] rec.outcome = "failed"   -> IF rec.mode = "auto" THEN [rec EXCEPT !.pc = "pause"]
                                                          ELSE NoRun
      [] OTHER                    -> NoRun

FinishRow(r) ==
    /\ run[r].pc = "finish"
    /\ run' = [run EXCEPT ![r] = AfterRow(run[r])]
    /\ UNCHANGED <<req, proposal, task, paused, driver, submit, review>>

\* _on_hl_done: a new proposal, whatever proposals the requirement has already.
Mint(r, p) ==
    /\ run[r].pc = "hook"
    /\ proposal[p].status = "unknown"
    /\ proposal' = [proposal EXCEPT ![p] = [status |-> "pending", of |-> run[r].target,
                                            features |-> run[r].plan]]
    /\ run' = [run EXCEPT ![r] = Minted(run[r])]
    /\ UNCHANGED <<req, task, paused, driver, submit, review>>

\* Mutant of Mark: a status the column does not know.
MarkDone(r) ==
    /\ run[r].pc = "mark"
    /\ req' = [req EXCEPT ![run[r].target] = "done"]
    /\ run' = [run EXCEPT ![r] = NoRun]
    /\ UNCHANGED <<proposal, task, paused, driver, submit, review>>

Mark(r) ==
    /\ run[r].pc = "mark"
    /\ req' = [req EXCEPT ![run[r].target] = "processed"]
    /\ run' = [run EXCEPT ![r] = NoRun]
    /\ UNCHANGED <<proposal, task, paused, driver, submit, review>>

\* Mutant of PauseTarget: a failure is not recorded.
PauseNobody(r) ==
    /\ run[r].pc = "pause"
    /\ run' = [run EXCEPT ![r] = NoRun]
    /\ UNCHANGED <<req, proposal, task, paused, driver, submit, review>>

\* The failure of an auto run pauses the requirement, the success of a manual
\* one resumes it.
PauseTarget(r) ==
    /\ run[r].pc = "pause"
    /\ paused' = paused \cup {run[r].target}
    /\ run' = [run EXCEPT ![r] = NoRun]
    /\ UNCHANGED <<req, proposal, task, driver, submit, review>>

UnpauseTarget(r) ==
    /\ run[r].pc = "unpause"
    /\ paused' = paused \ {run[r].target}
    /\ run' = [run EXCEPT ![r] = NoRun]
    /\ UNCHANGED <<req, proposal, task, driver, submit, review>>

RunStep(r) ==
    \/ Register(r)
    \/ \E o \in Outcomes, plan \in Plans \cup {{}} : RunnerReturns(r, o, plan)
    \/ FinishRow(r)
    \/ \E p \in PropIds : Mint(r, p)
    \/ Mark(r) \/ PauseTarget(r) \/ UnpauseTarget(r)

-----------------------------------------------------------------------------
\* submit_requirement adds the requirement, where the driver sees it at once,
\* and later submits a run itself; no cap, pause or other run is looked at.
AddRequirement(q) ==
    /\ req[q] = "unknown"
    /\ req' = [req EXCEPT ![q] = "pending"]
    /\ submit' = submit \cup {q}
    /\ UNCHANGED <<proposal, task, paused, run, driver, review>>

SubmitFirstRun(r, q) ==
    /\ q \in submit
    /\ AddAgentRun(r, q, "auto", "request")
    /\ submit' = submit \ {q}
    /\ UNCHANGED <<req, proposal, task, paused, driver, review>>

-----------------------------------------------------------------------------
\* _tick_hl: the requirements, then the unfinished runs, then one by one the
\* pause, the cap and the submission.
DriverReadReqs ==
    /\ driver.pc = "reqs"
    /\ LET pending == {q \in Reqs : req[q] = "pending"}
       IN driver' = IF pending = {} THEN NewTick
                    ELSE [driver EXCEPT !.pc = "rows", !.todo = pending]
    /\ UNCHANGED <<req, proposal, task, paused, run, submit, review>>

\* Mutant of DriverReadRows: the unfinished runs are not looked at.
DriverSkipsRows ==
    /\ driver.pc = "rows"
    /\ driver' = Continue(driver.todo)
    /\ UNCHANGED <<req, proposal, task, paused, run, submit, review>>

DriverReadRows ==
    /\ driver.pc = "rows"
    /\ driver' = Continue({q \in driver.todo :
                    \A r \in RunIds : ~(RowRunning(r) /\ run[r].target = q)})
    /\ UNCHANGED <<req, proposal, task, paused, run, submit, review>>

\* Mutant of DriverCheck: one run too many.
DriverCheckLate(q) ==
    /\ driver.pc = "each"
    /\ q \in driver.todo
    /\ driver' = IF q \in paused THEN Continue(driver.todo \ {q})
                 ELSE IF running_count > MaxHL THEN NewTick
                 ELSE [pc |-> "submit", todo |-> driver.todo \ {q}, cur |-> q]
    /\ UNCHANGED <<req, proposal, task, paused, run, submit, review>>

\* The list is ordered by age; here any requirement of it may be next.
DriverCheck(q) ==
    /\ driver.pc = "each"
    /\ q \in driver.todo
    /\ driver' = IF q \in paused THEN Continue(driver.todo \ {q})
                 ELSE IF running_count >= MaxHL THEN NewTick
                 ELSE [pc |-> "submit", todo |-> driver.todo \ {q}, cur |-> q]
    /\ UNCHANGED <<req, proposal, task, paused, run, submit, review>>

DriverSubmit(r) ==
    /\ driver.pc = "submit"
    /\ AddAgentRun(r, driver.cur, "auto", "driver")
    /\ driver' = [driver EXCEPT !.pc = "register"]
    /\ UNCHANGED <<req, proposal, task, paused, submit, review>>

DriverStep ==
    \/ DriverReadReqs \/ DriverReadRows
    \/ \E q \in Reqs : DriverCheck(q)
    \/ \E r \in RunIds : DriverSubmit(r)

-----------------------------------------------------------------------------
\* review_proposal: the check, and then what it was asked for.  The features
\* become tasks one by one; an id that is taken ends the request half way.
Review == [pc : {"idle", "approve", "reject"},
           prop : PropIds \cup {Nobody},
           chosen : SUBSET Features,
           todo : SUBSET Features]

NoReview == [pc |-> "idle", prop |-> Nobody, chosen |-> {}, todo |-> {}]

StartReview(u, p, pc, chosen) ==
    /\ review[u].pc = "idle"
    /\ proposal[p].status = "pending"
    /\ chosen \subseteq proposal[p].features
    /\ pc = "reject" => chosen = {}
    /\ review' = [review EXCEPT ![u] =
                    [pc |-> pc, prop |-> p, chosen |-> chosen, todo |-> chosen]]
    /\ UNCHANGED <<req, proposal, task, paused, run, driver, submit>>

\* Mutant of AddTask: an id that is taken is passed over.
AddTaskIfNew(u, f) ==
    /\ review[u].pc = "approve"
    /\ f \in review[u].todo
    /\ review' = [review EXCEPT ![u].todo = @ \ {f}]
    /\ task' = [task EXCEPT ![f] = IF @ = Nobody THEN review[u].prop ELSE @]
    /\ UNCHANGED <<req, proposal, paused, run, driver, submit>>

AddTask(u, f) ==
    /\ review[u].pc = "approve"
    /\ f \in review[u].todo
    /\ IF task[f] = Nobody
         THEN /\ task' = [task EXCEPT ![f] = review[u].prop]
              /\ review' = [review EXCEPT ![u].todo = @ \ {f}]
         ELSE /\ review' = [review EXCEPT ![u] = NoReview]
              /\ UNCHANGED task
    /\ UNCHANGED <<req, proposal, paused, run, driver, submit>>

SetStatus(u, status) ==
    /\ proposal' = [proposal EXCEPT ![review[u].prop].status = status]
    /\ review' = [review EXCEPT ![u] = NoReview]
    /\ UNCHANGED <<req, task, paused, run, driver, submit>>

Approve(u) == review[u].pc = "approve" /\ review[u].todo = {} /\ SetStatus(u, "approved")
Reject(u) == review[u].pc = "reject" /\ SetStatus(u, "rejected")

ReviewStep(u) == (\E f \in Features : AddTask(u, f)) \/ Approve(u) \/ Reject(u)

\* POST /api/runs with role hl (a chat with a head leader is a manual run),
\* and DELETE /api/auto-pauses.
UserSubmit(r, q, mode) ==
    /\ req[q] # "unknown"
    /\ mode \in UserModes
    /\ AddAgentRun(r, q, mode, "user")
    /\ UNCHANGED <<req, proposal, task, paused, driver, submit, review>>

UserUnpause(q) ==
    /\ q \in paused
    /\ paused' = paused \ {q}
    /\ UNCHANGED <<req, proposal, task, run, driver, submit, review>>

PeopleStep ==
    \/ \E q \in Reqs : AddRequirement(q) \/ UserUnpause(q)
    \/ \E r \in RunIds, q \in Reqs, mode \in HLModes : UserSubmit(r, q, mode)
    \/ \E u \in Users, p \in PropIds, pc \in {"approve", "reject"},
          chosen \in SUBSET Features : StartReview(u, p, pc, chosen)

-----------------------------------------------------------------------------
\* The process is killed and started again; nothing picks up where it was.
Crash ==
    /\ CanCrash
    /\ run' = [r \in RunIds |->
                 IF RowRunning(r) THEN [run[r] EXCEPT !.pc = "lost", !.outcome = "none",
                                                      !.plan = {}]
                 ELSE NoRun]
    /\ driver' = NewTick
    /\ submit' = {}
    /\ review' = [u \in Users |-> NoReview]
    /\ UNCHANGED <<req, proposal, task, paused>>

Init ==
    /\ req = [q \in Reqs |-> "unknown"]
    /\ proposal = [p \in PropIds |-> NoProposal]
    /\ task = [f \in Features |-> Nobody]
    /\ paused = {}
    /\ run = [r \in RunIds |-> NoRun]
    /\ driver = NewTick
    /\ submit = {}
    /\ review = [u \in Users |-> NoReview]

Next ==
    \/ \E r \in RunIds : RunStep(r)
    \/ \E r \in RunIds, q \in Reqs : SubmitFirstRun(r, q)
    \/ DriverStep
    \/ \E u \in Users : ReviewStep(u)
    \/ PeopleStep
    \/ Crash

Spec == Init /\ [][Next]_rvars

\* Coroutines that are ready run, and head leaders end; people do as they like.
FairSpec ==
    /\ Spec
    /\ \A r \in RunIds : WF_rvars(RunStep(r))
    /\ WF_rvars(\E r \in RunIds, q \in Reqs : SubmitFirstRun(r, q))
    /\ WF_rvars(DriverStep)
    /\ \A u \in Users : WF_rvars(ReviewStep(u))

-----------------------------------------------------------------------------
TypeOK ==
    /\ req \in [Reqs -> ReqStatus]
    /\ proposal \in [PropIds -> Proposal]
    /\ task \in [Features -> PropIds \cup {Nobody}]
    /\ paused \subseteq Reqs
    /\ run \in [RunIds -> Run]
    /\ \A r \in RunIds : run[r].pc # "free" => run[r].target \in Reqs
    /\ driver \in Driver
    /\ driver.pc \in {"submit", "register"} => driver.cur \in Reqs
    /\ submit \subseteq Reqs
    /\ review \in [Users -> Review]
    /\ \A u \in Users : review[u].pc # "idle" => review[u].prop \in PropIds

\* The requirement is decomposed before it counts as processed
\* (agent_run_manager.py, _apply_success): the driver never comes back to a
\* processed one, so a process that dies in between must not lose the proposal.
\* A head leader that finds no features is the one exception.
ProcessedIsAnswered ==
    "empty" \notin Outcomes =>
        \A q \in Reqs : req[q] = "processed" => \E p \in PropIds : proposal[p].of = q

DriverRuns == {r \in RunIds : run[r].pc = "running" /\ run[r].by = "driver"}

\* The driver's own head leaders stay within max_hl (_tick_hl), although it
\* counts the registered runs before submit() awaits the database.
DriverCap == Cardinality(DriverRuns) <= MaxHL

Dispatched(r) == run[r].by = "driver" /\ RowRunning(r)

\* The driver never has two unfinished runs on one requirement (_tick_hl),
\* although the rows it skips by were read before the pauses and the cap.
OneDriverRun ==
    \A r, s \in RunIds :
        Dispatched(r) /\ Dispatched(s) /\ run[r].target = run[s].target => r = s

\* What turns a proposal approved has added a task for every feature chosen
\* (approve_proposal): no chosen feature is lost to a proposal, approved twice
\* or at once by two people, that had the same id.
ApprovedIsComplete ==
    [][\A u \in Users :
          (/\ review[u].pc = "approve"
           /\ proposal[review[u].prop].status # "approved"
           /\ proposal'[review[u].prop].status = "approved"
           /\ review'[u].pc = "idle")
          => \A f \in review[u].chosen : task[f] = review[u].prop]_rvars

UserRun == \E r \in RunIds : run[r].by = "user"
Cancelled == \E r \in RunIds : run[r].outcome = "cancelled"

\* A requirement is processed in the end, or paused on record: a failed head
\* leader, a full house and a list that is out of date delay it only
\* (AutoDriver._tick_hl).  Provided that the process lives, and that cancels,
\* lifted pauses and runs of people come to an end: each of them can make the
\* driver spend its slot on another requirement once more.
EveryRequirementSettles ==
    (/\ <>[][~Crash /\ \A q \in Reqs : ~UserUnpause(q)]_rvars
     /\ <>[]~UserRun
     /\ <>[]~Cancelled) =>
        \A q \in Reqs : (req[q] = "pending") ~> (req[q] = "processed" \/ q \in paused)

=============================================================================
