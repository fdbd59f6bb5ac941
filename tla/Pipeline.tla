------------------------------ MODULE Pipeline ------------------------------
(***************************************************************************)
(* The execution core of Orchestra: AgentRunManager and AutoDriver         *)
(* (core/agent_run_manager.py), the orchestrator handlers they call or     *)
(* that people call through the web API (core/orchestrator.py, web/api.py),*)
(* and the rows of TaskQueue all of them share (core/task_queue.py).       *)
(*                                                                         *)
(* One asyncio process runs many coroutines: one per agent run, the        *)
(* driver's loop, one per HTTP request.  Each awaits the database between  *)
(* any two calls, so a step of this module is one database call with the   *)
(* synchronous code around it, and everything else may run in between.     *)
(* What an agent does while it runs is the choice of an outcome.           *)
(***************************************************************************)
EXTENDS TaskStatus, Naturals, Sequences, FiniteSets

CONSTANTS
    Tasks,        \* the tasks, of approved proposals or of standalone requests
    Deps,         \* Deps[t]: t.depends_on
    Proposals,    \* proposal ids
    ProposalOf,   \* the proposal whose features name t, or NoProposal
    NoProposal, NoTask, NoRunId,
    RunIds,       \* ids for the runs that are unfinished at one time
    Users,        \* requests that may be in flight at one time
    MaxHL, MaxFR, MaxFI,   \* OrchestraConfig.max_hl, max_fr, max_fi
    UserRoles,    \* roles people submit runs for
    UserModes,    \* modes people submit runs with
    UserOps,      \* what people do at all in this instance
    Outcomes,     \* how agents end in this instance
    CanCrash      \* whether the process may be killed and started again

Roles == {"pl", "fr", "fi"}
Modes == {"auto", "manual", "standalone"}
AutoModes == {"auto", "standalone"}
AllOps == {"accept", "reject", "retry", "submit", "chat", "cancel", "unpause", "standalone"}
AllOutcomes == {"succeeded", "violation", "failed", "cancelled"}

ASSUME PipelineAssumption ==
    /\ Deps \in [Tasks -> SUBSET Tasks]
    /\ ProposalOf \in [Tasks -> Proposals \cup {NoProposal}]
    /\ NoProposal \notin Proposals \cup Tasks
    /\ Tasks \cap Proposals = {}
    /\ NoTask \notin Tasks
    /\ NoRunId \notin RunIds /\ IsFiniteSet(RunIds)
    /\ MaxHL \in Nat /\ MaxFR \in Nat /\ MaxFI \in Nat
    /\ UserRoles \subseteq Roles
    /\ UserModes \subseteq Modes
    /\ UserOps \subseteq AllOps
    /\ Outcomes \subseteq AllOutcomes
    /\ CanCrash \in BOOLEAN

VARIABLES
    status,     \* tasks.status
    paused,     \* rows of auto_pauses: tasks and proposals
    planRun,    \* tasks with a pl row in agent_runs, which a chat can continue
    run,        \* the unfinished runs: row, _running entry and coroutine
    fiLock,     \* the run that holds _fi_lock
    fiWaiters,  \* the runs queued on _fi_lock, first come first served
    driver,     \* the loop of AutoDriver
    user        \* the review and retry requests in flight

vars == <<status, paused, planRun, run, fiLock, fiWaiters, driver, user>>

-----------------------------------------------------------------------------
(***************************************************************************)
(* The driver.  A tick goes through the phases in order; each takes a      *)
(* snapshot of the tasks in one status (and, for the phases that submit    *)
(* runs, afterwards one of the running rows), then works through it with   *)
(* a database call per task.  pc: tasks, rows, each, move, submit,         *)
(* register.  The hl phase concerns no task and is left out.               *)
(***************************************************************************)
Phases == {"promote", "pl", "planned", "fr", "fi"}

NextPhase == [promote |-> "pl", pl |-> "planned", planned |-> "fr",
              fr |-> "fi", fi |-> "promote"]

Cap == [pl |-> MaxHL, fr |-> MaxFR, fi |-> MaxFI]

Driver == [phase : Phases,
           pc : {"tasks", "rows", "each", "move", "submit", "register"},
           todo : SUBSET Tasks,
           cur : Tasks \cup {NoTask}]

AtPhase(p) == [phase |-> p, pc |-> "tasks", todo |-> {}, cur |-> NoTask]

\* The driver goes on with what is left of its snapshot, or to the next phase.
Continue(todo) ==
    IF todo = {} THEN AtPhase(NextPhase[driver.phase])
                 ELSE [driver EXCEPT !.pc = "each", !.todo = todo, !.cur = NoTask]

-----------------------------------------------------------------------------
(***************************************************************************)
(* Runs.  pc says where the run's coroutine is:                            *)
(*   row      the row is inserted, submit() has not registered the run yet *)
(*   waiting  registered, queued on _fi_lock (role fi only)                *)
(*   running  registered, the runner executes                              *)
(*   finish   out of _running, about to write the outcome into its row     *)
(*   read     about to read its task's status (fr and fi)                  *)
(*   apply    about to make the transitions in path, one call each         *)
(*   pause, siblings, cascade   the steps after an auto failure            *)
(*   unpause  the step after a manual success                              *)
(*   lost     a killed process left the row saying "running"               *)
(* A run that ends frees its id: rows of finished runs decide nothing here.*)
(***************************************************************************)
RunPC == {"free", "row", "waiting", "running", "finish", "read", "apply",
          "pause", "siblings", "cascade", "unpause", "lost"}

Run == [pc : RunPC,
        role : Roles \cup {"none"},
        target : Tasks \cup {NoTask},
        mode : Modes \cup {"none"},
        by : {"driver", "user", "none"},
        cancel : BOOLEAN,
        outcome : AllOutcomes \cup {"none"},
        path : Seq(Status),
        sibs : SUBSET Tasks]

NoRun == [pc |-> "free", role |-> "none", target |-> NoTask, mode |-> "none",
          by |-> "none", cancel |-> FALSE, outcome |-> "none",
          path |-> <<>>, sibs |-> {}]

\* agent_runs.status = "running".
RowRunning(r) == run[r].pc \in {"row", "waiting", "running", "finish", "lost"}

\* r is a key of AgentRunManager._running.
Registered(r) == run[r].pc \in {"waiting", "running"}

running_count(role) ==
    Cardinality({r \in RunIds : Registered(r) /\ run[r].role = role})

\* add_agent_run: the row of a new run, visible to everyone.
AddAgentRun(r, role, t, mode, by) ==
    /\ run[r].pc = "free"
    /\ run' = [run EXCEPT ![r] = [NoRun EXCEPT !.pc = "row", !.role = role,
                                               !.target = t, !.mode = mode,
                                               !.by = by]]
    /\ planRun' = IF role = "pl" THEN planRun \cup {t} ELSE planRun

\* The rest of submit(): the event, the task for _drive, the _running entry.
\* A run of role fi asks for the lock first; the others start their runner.
Register(r) ==
    /\ run[r].pc = "row"
    /\ IF run[r].role = "fi" /\ (fiLock # NoRunId \/ fiWaiters # <<>>)
         THEN /\ run' = [run EXCEPT ![r].pc = "waiting"]
              /\ fiWaiters' = Append(fiWaiters, r)
              /\ UNCHANGED fiLock
         ELSE /\ run' = [run EXCEPT ![r].pc = "running"]
              /\ fiLock' = IF run[r].role = "fi" THEN r ELSE fiLock
              /\ UNCHANGED fiWaiters
    /\ driver' = IF run[r].by = "driver"
                   THEN Continue(driver.todo) ELSE driver
    /\ UNCHANGED <<status, paused, planRun, user>>

\* The first waiter of the released lock wakes up and starts its runner.
GrantFiLock(r) ==
    /\ run[r].pc = "waiting"
    /\ fiLock = NoRunId
    /\ fiWaiters # <<>> /\ r = Head(fiWaiters)
    /\ fiLock' = r
    /\ fiWaiters' = Tail(fiWaiters)
    /\ run' = [run EXCEPT ![r].pc = "running"]
    /\ UNCHANGED <<status, paused, planRun, driver, user>>

\* Mutant of RunnerReturns: the interpreter lock is not released.
RunnerKeepsLock(r, o) ==
    /\ run[r].pc = "running"
    /\ o \in Outcomes
    /\ o = "cancelled" => run[r].cancel
    /\ o = "violation" => run[r].role = "fi"
    /\ run' = [run EXCEPT ![r].pc = "finish", ![r].outcome = o]
    /\ UNCHANGED <<status, paused, planRun, fiLock, fiWaiters, driver, user>>

\* Runner.run returns (a crash of the runner counts as failed), the lock is
\* released and the run leaves _running.  Only a run whose token is set ends
\* cancelled; only the interpreter reports a violation of the worktree.
RunnerReturns(r, o) ==
    /\ run[r].pc = "running"
    /\ o \in Outcomes
    /\ o = "cancelled" => run[r].cancel
    /\ o = "violation" => run[r].role = "fi"
    /\ run' = [run EXCEPT ![r].pc = "finish", ![r].outcome = o]
    /\ fiLock' = IF run[r].role = "fi" THEN NoRunId ELSE fiLock
    /\ UNCHANGED <<status, paused, planRun, fiWaiters, driver, user>>

\* _apply_success and the clearing of the pause that follows a manual run.
AfterSuccess(rec) ==
    IF rec.mode \notin AutoModes THEN [rec EXCEPT !.pc = "unpause"]
    ELSE IF rec.role = "pl" THEN [rec EXCEPT !.pc = "apply", !.path = <<"planned">>]
    ELSE [rec EXCEPT !.pc = "read"]

\* Where _finish goes once the row is written; cancelled changes nothing more.
AfterRow(rec) ==
    IF rec.outcome \in {"succeeded", "violation"} THEN AfterSuccess(rec)
    ELSE IF rec.outcome = "failed" /\ rec.mode = "auto" THEN [rec EXCEPT !.pc = "pause"]
    ELSE NoRun

\* finish_agent_run: from here on the row no longer says "running".
FinishRow(r) ==
    /\ run[r].pc = "finish"
    /\ run' = [run EXCEPT ![r] = AfterRow(run[r])]
    /\ UNCHANGED <<status, paused, planRun, fiLock, fiWaiters, driver, user>>

\* Mutant of SuccessPath: a realizer's success skips IN_PROGRESS.
SuccessPathShort(rec, s) ==
    IF rec.role = "fr" THEN <<"implemented">> ELSE <<"testing", "review">>

\* The transitions a successful fr or fi run makes, given the status it read.
SuccessPath(rec, s) ==
    CASE rec.role = "fr" /\ s = "assigned" -> <<"in_progress", "implemented">>
      [] rec.role = "fr" /\ s # "assigned" -> <<"implemented">>
      [] rec.role # "fr" /\ s = "implemented" ->
           IF rec.outcome = "violation" THEN <<"testing", "review", "rejected">>
                                        ELSE <<"testing", "review">>
      [] OTHER ->
           IF rec.outcome = "violation" THEN <<"review", "rejected">>
                                        ELSE <<"review">>

\* get_task at the head of the fr and fi branches of _apply_success.
ReadTask(r) ==
    /\ run[r].pc = "read"
    /\ run' = [run EXCEPT ![r].pc = "apply",
                          ![r].path = SuccessPath(run[r], status[run[r].target])]
    /\ UNCHANGED <<status, paused, planRun, fiLock, fiWaiters, driver, user>>

\* The run after the last transition of its path: done, or on to the cascade.
AfterPath(rec) ==
    IF rec.outcome = "failed" THEN [rec EXCEPT !.pc = "siblings", !.path = <<>>]
                              ELSE NoRun

\* One TaskQueue.transition of the run.  A ValueError ends the coroutine:
\* _drive logs it and releases the waiters, nothing is retried or undone.
ApplyNext(r) ==
    LET t == run[r].target
        to == Head(run[r].path)
    IN /\ run[r].pc = "apply"
       /\ IF CanMove(status[t], to)
            THEN /\ status' = [status EXCEPT ![t] = to]
                 /\ run' = [run EXCEPT ![r] =
                       IF Tail(run[r].path) = <<>> THEN AfterPath(run[r])
                       ELSE [run[r] EXCEPT !.path = Tail(run[r].path)]]
            ELSE /\ run' = [run EXCEPT ![r] = NoRun]
                 /\ UNCHANGED status
       /\ UNCHANGED <<paused, planRun, fiLock, fiWaiters, driver, user>>

\* Mutants of PauseTarget: the pause names the run instead of its target; only
\* realizers' failures pause.
PauseRun(r) ==
    /\ run[r].pc = "pause"
    /\ paused' = paused \cup {r}
    /\ run' = [run EXCEPT ![r] = NoRun]
    /\ UNCHANGED <<status, planRun, fiLock, fiWaiters, driver, user>>

PauseRealizersOnly(r) ==
    /\ run[r].pc = "pause"
    /\ IF run[r].role = "fr"
         THEN /\ paused' = paused \cup {run[r].target}
              /\ run' = [run EXCEPT ![r].pc = "apply", ![r].path = <<"failed">>]
         ELSE /\ run' = [run EXCEPT ![r] = NoRun]
              /\ UNCHANGED paused
    /\ UNCHANGED <<status, planRun, fiLock, fiWaiters, driver, user>>

\* add_auto_pause on the target of a failed auto run; a realizer's failure
\* goes on to _on_fr_failed_cascade, whose first call is the move to FAILED.
PauseTarget(r) ==
    /\ run[r].pc = "pause"
    /\ paused' = paused \cup {run[r].target}
    /\ run' = [run EXCEPT ![r] =
                 IF run[r].role = "fr"
                   THEN [run[r] EXCEPT !.pc = "apply", !.path = <<"failed">>]
                   ELSE NoRun]
    /\ UNCHANGED <<status, planRun, fiLock, fiWaiters, driver, user>>

\* The tasks that features of t's proposal name, t excepted.
Siblings(t) == {s \in Tasks \ {t} : ProposalOf[s] = ProposalOf[t]}

\* Mutant of NotStarted: planned tasks count as started.
NotPlanned == {"idea", "planning", "assigned"}

NotStarted == {"idea", "planning", "planned", "assigned"}

\* get_tasks_for_proposal in the cascade: one snapshot of the siblings.
SnapshotSiblings(r) ==
    LET t == run[r].target
    IN /\ run[r].pc = "siblings"
       /\ run' = [run EXCEPT ![r] =
             IF ProposalOf[t] = NoProposal THEN NoRun
             ELSE [run[r] EXCEPT !.pc = "cascade",
                     !.sibs = {s \in Siblings(t) : status[s] \in NotStarted}]]
       /\ UNCHANGED <<status, paused, planRun, fiLock, fiWaiters, driver, user>>

\* The loop over the snapshot: one add_auto_pause per sibling.
PauseSibling(r, s) ==
    /\ run[r].pc = "cascade"
    /\ s \in run[r].sibs
    /\ paused' = paused \cup {s}
    /\ run' = [run EXCEPT ![r].sibs = @ \ {s}]
    /\ UNCHANGED <<status, planRun, fiLock, fiWaiters, driver, user>>

\* The cascade ends with the pause of the proposal.
PauseProposal(r) ==
    /\ run[r].pc = "cascade"
    /\ run[r].sibs = {}
    /\ paused' = paused \cup {ProposalOf[run[r].target]}
    /\ run' = [run EXCEPT ![r] = NoRun]
    /\ UNCHANGED <<status, planRun, fiLock, fiWaiters, driver, user>>

\* A manual success clears the pause of its target.
UnpauseTarget(r) ==
    /\ run[r].pc = "unpause"
    /\ paused' = paused \ {run[r].target}
    /\ run' = [run EXCEPT ![r] = NoRun]
    /\ UNCHANGED <<status, planRun, fiLock, fiWaiters, driver, user>>

RunStep(r) ==
    \/ Register(r)
    \/ GrantFiLock(r)
    \/ \E o \in AllOutcomes : RunnerReturns(r, o)
    \/ FinishRow(r)
    \/ ReadTask(r)
    \/ ApplyNext(r)
    \/ PauseTarget(r)
    \/ SnapshotSiblings(r)
    \/ \E s \in Tasks : PauseSibling(r, s)
    \/ PauseProposal(r)
    \/ UnpauseTarget(r)

-----------------------------------------------------------------------------
\* The driver's actions.

\* Mutants of Ready: dependencies do not matter; they must be accepted, not done.
ReadyWithoutDeps == {t \in Tasks : status[t] = "idea"}

ReadyWhenAccepted ==
    {t \in Tasks : status[t] = "idea" /\ \A d \in Deps[t] : status[d] = "accepted"}

\* get_ready_tasks.
Ready == {t \in Tasks : status[t] = "idea" /\ \A d \in Deps[t] : status[d] = "done"}

WithStatus(s) == {t \in Tasks : status[t] = s}

\* The tasks a phase starts from.
Snapshot(p) == CASE p = "promote" -> Ready
                 [] p = "pl"      -> WithStatus("planning")
                 [] p = "planned" -> WithStatus("planned")
                 [] p = "fr"      -> WithStatus("assigned")
                 [] p = "fi"      -> WithStatus("implemented")

DriverReadTasks ==
    /\ driver.pc = "tasks"
    /\ driver' = IF Snapshot(driver.phase) = {}
                   THEN AtPhase(NextPhase[driver.phase])
                   ELSE [driver EXCEPT
                           !.pc = IF driver.phase \in Roles THEN "rows" ELSE "each",
                           !.todo = Snapshot(driver.phase)]
    /\ UNCHANGED <<status, paused, planRun, run, fiLock, fiWaiters, user>>

\* Mutants of DriverReadRows: rows are not read; only rows of this process count.
DriverSkipsRows ==
    /\ driver.pc = "rows"
    /\ driver' = Continue(driver.todo)
    /\ UNCHANGED <<status, paused, planRun, run, fiLock, fiWaiters, user>>

DriverForgetsLost ==
    /\ driver.pc = "rows"
    /\ driver' = Continue(driver.todo \ {run[r].target : r \in {x \in RunIds :
                                /\ RowRunning(x) /\ run[x].pc # "lost"
                                /\ run[x].role = driver.phase}})
    /\ UNCHANGED <<status, paused, planRun, run, fiLock, fiWaiters, user>>

\* list_agent_runs: the targets with a running row of this role are skipped.
DriverReadRows ==
    /\ driver.pc = "rows"
    /\ driver' = Continue(driver.todo \ {run[r].target : r \in {x \in RunIds :
                                RowRunning(x) /\ run[x].role = driver.phase}})
    /\ UNCHANGED <<status, paused, planRun, run, fiLock, fiWaiters, user>>

\* promote_ready_tasks: a transition per ready task; the ValueError of one
\* that has moved meanwhile ends the whole tick.
DriverPromote(t) ==
    /\ driver.phase = "promote" /\ driver.pc = "each" /\ t \in driver.todo
    /\ IF CanMove(status[t], "planning")
         THEN /\ status' = [status EXCEPT ![t] = "planning"]
              /\ driver' = Continue(driver.todo \ {t})
         ELSE /\ driver' = AtPhase("promote")
              /\ UNCHANGED status
    /\ UNCHANGED <<paused, planRun, run, fiLock, fiWaiters, user>>

\* is_auto_paused of a task that is next in the planned phase.
DriverCheckPlanned(t) ==
    /\ driver.phase = "planned" /\ driver.pc = "each" /\ t \in driver.todo
    /\ driver' = IF t \in paused THEN Continue(driver.todo \ {t})
                 ELSE [driver EXCEPT !.pc = "move", !.cur = t, !.todo = @ \ {t}]
    /\ UNCHANGED <<status, paused, planRun, run, fiLock, fiWaiters, user>>

\* The transition to ASSIGNED after that check.
DriverAssign ==
    /\ driver.pc = "move"
    /\ IF CanMove(status[driver.cur], "assigned")
         THEN /\ status' = [status EXCEPT ![driver.cur] = "assigned"]
              /\ driver' = Continue(driver.todo)
         ELSE /\ driver' = AtPhase("promote")
              /\ UNCHANGED status
    /\ UNCHANGED <<paused, planRun, run, fiLock, fiWaiters, user>>

\* Mutant of DriverCheckTask: one run more than the cap.
DriverCheckTaskLate(t) ==
    /\ driver.phase \in Roles /\ driver.pc = "each" /\ t \in driver.todo
    /\ driver' = IF t \in paused THEN Continue(driver.todo \ {t})
                 ELSE IF \/ running_count(driver.phase) > Cap[driver.phase]
                         \/ \A r \in RunIds : run[r].pc # "free"
                   THEN AtPhase(NextPhase[driver.phase])
                   ELSE [driver EXCEPT !.pc = "submit", !.cur = t, !.todo = @ \ {t}]
    /\ UNCHANGED <<status, paused, planRun, run, fiLock, fiWaiters, user>>

\* is_auto_paused, then the cap, of a task that is next in a submitting phase.
\* Out of run ids (a bound of the model) counts as being at the cap.
DriverCheckTask(t) ==
    /\ driver.phase \in Roles /\ driver.pc = "each" /\ t \in driver.todo
    /\ driver' = IF t \in paused THEN Continue(driver.todo \ {t})
                 ELSE IF \/ running_count(driver.phase) >= Cap[driver.phase]
                         \/ \A r \in RunIds : run[r].pc # "free"
                   THEN AtPhase(NextPhase[driver.phase])
                   ELSE [driver EXCEPT !.pc = "submit", !.cur = t, !.todo = @ \ {t}]
    /\ UNCHANGED <<status, paused, planRun, run, fiLock, fiWaiters, user>>

\* submit() of the driver up to the new row; Register continues it.
DriverSubmit(r) ==
    /\ driver.pc = "submit"
    /\ AddAgentRun(r, driver.phase, driver.cur, "auto", "driver")
    /\ driver' = [driver EXCEPT !.pc = "register"]
    /\ UNCHANGED <<status, paused, fiLock, fiWaiters, user>>

DriverStep ==
    \/ DriverReadTasks
    \/ DriverReadRows
    \/ \E t \in Tasks : \/ DriverPromote(t)
                        \/ DriverCheckPlanned(t)
                        \/ DriverCheckTask(t)
    \/ DriverAssign
    \/ \E r \in RunIds : DriverSubmit(r)

-----------------------------------------------------------------------------
(***************************************************************************)
(* People.  user[u] is one request of the web API in flight: its next step *)
(* op, the task it is about, the ready tasks it still has to promote, and  *)
(* the role a standalone request is for.                                   *)
(***************************************************************************)
StandaloneOps == {"toPlanning", "toPlanned", "toAssigned", "toInProgress",
                  "toImplemented", "submit"}

Request == [op : {"idle", "accept", "merge", "promote", "promoting",
                  "reject", "reassign", "retry", "resume"} \cup StandaloneOps,
            task : Tasks \cup {NoTask},
            todo : SUBSET Tasks,
            role : {"fr", "fi", "none"}]

Idle == [op |-> "idle", task |-> NoTask, todo |-> {}, role |-> "none"]

\* The request u begins with op on t.
Begin(u, op, t, role) ==
    user' = [user EXCEPT ![u] = [op |-> op, task |-> t, todo |-> {}, role |-> role]]

\* review_task: the check of the status, then accept_task or reject_task.
StartReview(u, t, op) ==
    /\ user[u].op = "idle"
    /\ op \in UserOps \cap {"accept", "reject"}
    /\ status[t] = "review"
    /\ Begin(u, op, t, "none")
    /\ UNCHANGED <<status, paused, planRun, run, fiLock, fiWaiters, driver>>

\* Mutant of RequestMove: the status read when the request began is trusted.
RequestMoveUnchecked(u, op, to, nextOp) ==
    /\ user[u].op = op
    /\ status' = [status EXCEPT ![user[u].task] = to]
    /\ user' = [user EXCEPT ![u] = IF nextOp = "idle" THEN Idle
                                   ELSE [user[u] EXCEPT !.op = nextOp]]
    /\ UNCHANGED <<paused, planRun, run, fiLock, fiWaiters, driver>>

\* One transition of request u; a ValueError ends the request with an error.
RequestMove(u, op, to, nextOp) ==
    LET t == user[u].task
    IN /\ user[u].op = op
       /\ IF CanMove(status[t], to)
            THEN /\ status' = [status EXCEPT ![t] = to]
                 /\ user' = [user EXCEPT ![u] =
                               IF nextOp = "idle" THEN Idle
                               ELSE [user[u] EXCEPT !.op = nextOp]]
            ELSE /\ user' = [user EXCEPT ![u] = Idle]
                 /\ UNCHANGED status
       /\ UNCHANGED <<paused, planRun, run, fiLock, fiWaiters, driver>>

\* accept_task: ACCEPTED; then merge, push and PR, whatever they return; DONE.
Accept(u) == RequestMove(u, "accept", "accepted", "merge")
MarkDone(u) == RequestMove(u, "merge", "done", "promote")

\* promote_ready_tasks at the end of accept_task: snapshot, then each task.
AcceptReadReady(u) ==
    /\ user[u].op = "promote"
    /\ user' = [user EXCEPT ![u] = IF Ready = {} THEN Idle
                                   ELSE [@ EXCEPT !.op = "promoting", !.todo = Ready]]
    /\ UNCHANGED <<status, paused, planRun, run, fiLock, fiWaiters, driver>>

AcceptPromote(u, t) ==
    /\ user[u].op = "promoting"
    /\ t \in user[u].todo
    /\ IF CanMove(status[t], "planning")
         THEN /\ status' = [status EXCEPT ![t] = "planning"]
              /\ user' = [user EXCEPT ![u] =
                            IF user[u].todo = {t} THEN Idle
                            ELSE [user[u] EXCEPT !.todo = @ \ {t}]]
         ELSE /\ user' = [user EXCEPT ![u] = Idle]
              /\ UNCHANGED status
    /\ UNCHANGED <<paused, planRun, run, fiLock, fiWaiters, driver>>

\* reject_task: REJECTED, then ASSIGNED.
Reject(u) == RequestMove(u, "reject", "rejected", "reassign")
Reassign(u) == RequestMove(u, "reassign", "assigned", "idle")

\* retry_failed_task: the check, the move to PLANNING, and the last step that
\* looks at the siblings and writes the proposal's status, which is "approved"
\* already for every proposal that has tasks.
StartRetry(u, t) ==
    /\ user[u].op = "idle"
    /\ "retry" \in UserOps
    /\ status[t] = "failed"
    /\ Begin(u, "retry", t, "none")
    /\ UNCHANGED <<status, paused, planRun, run, fiLock, fiWaiters, driver>>

RetryMove(u) == RequestMove(u, "retry", "planning", "resume")

RetryResume(u) ==
    /\ user[u].op = "resume"
    /\ user' = [user EXCEPT ![u] = Idle]
    /\ UNCHANGED <<status, paused, planRun, run, fiLock, fiWaiters, driver>>

\* POST /api/standalone/fr and /fi: a task of no proposal is added, which the
\* driver sees at once like any other idea (the task belongs to the request from
\* then on: nobody else knows its id).
StartStandalone(u, t, role) ==
    /\ user[u].op = "idle"
    /\ "standalone" \in UserOps
    /\ status[t] = "idea" /\ Deps[t] = {} /\ ProposalOf[t] = NoProposal
    /\ \A v \in Users : user[v].task # t
    /\ Begin(u, "toPlanning", t, role)
    /\ UNCHANGED <<status, paused, planRun, run, fiLock, fiWaiters, driver>>

\* The request moves its task on to where the role starts, a transition at a
\* time; a ValueError (the driver was faster) ends it without a run.
FastForward(u) ==
    \/ RequestMove(u, "toPlanning", "planning", "toPlanned")
    \/ RequestMove(u, "toPlanned", "planned", "toAssigned")
    \/ RequestMove(u, "toAssigned", "assigned",
                   IF user[u].role = "fr" THEN "submit" ELSE "toInProgress")
    \/ RequestMove(u, "toInProgress", "in_progress", "toImplemented")
    \/ RequestMove(u, "toImplemented", "implemented", "submit")

\* An interpreter needs a worktree of the branch, which may not come about.
NoBranch(u) ==
    /\ user[u].op = "submit" /\ user[u].role = "fi"
    /\ user' = [user EXCEPT ![u] = Idle]
    /\ UNCHANGED <<status, paused, planRun, run, fiLock, fiWaiters, driver>>

\* Its run: whether the driver has started one meanwhile is not looked at.
StandaloneSubmit(u, r, t, role) ==
    /\ user[u] = [op |-> "submit", task |-> t, todo |-> {}, role |-> role]
    /\ AddAgentRun(r, role, t, "standalone", "user")
    /\ user' = [user EXCEPT ![u] = Idle]
    /\ UNCHANGED <<status, paused, fiLock, fiWaiters, driver>>

\* POST /api/runs: no check of the task's status, of pauses or of the caps.
\* A chat continues a run there has been, always in mode manual.
UserSubmit(r, role, t, mode) ==
    /\ \/ "submit" \in UserOps /\ role \in UserRoles \ {"pl"} /\ mode \in UserModes
       \/ "chat" \in UserOps /\ role = "pl" /\ t \in planRun /\ mode = "manual"
    /\ AddAgentRun(r, role, t, mode, "user")
    /\ UNCHANGED <<status, paused, fiLock, fiWaiters, driver, user>>

\* Mutant of UserCancel: cancelling gives the lock to the next in the queue.
UserCancelUnlocks(r) ==
    /\ "cancel" \in UserOps
    /\ Registered(r)
    /\ ~run[r].cancel
    /\ run' = [run EXCEPT ![r].cancel = TRUE]
    /\ fiLock' = IF run[r].role = "fi" THEN NoRunId ELSE fiLock
    /\ UNCHANGED <<status, paused, planRun, fiWaiters, driver, user>>

\* AgentRunManager.cancel sets the token of a registered run.
UserCancel(r) ==
    /\ "cancel" \in UserOps
    /\ Registered(r)
    /\ ~run[r].cancel
    /\ run' = [run EXCEPT ![r].cancel = TRUE]
    /\ UNCHANGED <<status, paused, planRun, fiLock, fiWaiters, driver, user>>

\* DELETE /api/auto-pauses.
UserUnpause(x) ==
    /\ "unpause" \in UserOps
    /\ x \in paused
    /\ paused' = paused \ {x}
    /\ UNCHANGED <<status, planRun, run, fiLock, fiWaiters, driver, user>>

\* The steps of a request that is under way.
RequestStep(u) ==
    \/ Accept(u) \/ MarkDone(u) \/ AcceptReadReady(u)
    \/ \E t \in Tasks : AcceptPromote(u, t)
    \/ Reject(u) \/ Reassign(u)
    \/ RetryMove(u) \/ RetryResume(u)
    \/ FastForward(u) \/ NoBranch(u)

SubmitStep(u) ==
    \E r \in RunIds, t \in Tasks, role \in {"fr", "fi"} : StandaloneSubmit(u, r, t, role)

\* What people start of their own accord.
PeopleStep ==
    \/ \E u \in Users, t \in Tasks : \/ \E op \in UserOps : StartReview(u, t, op)
                                     \/ StartRetry(u, t)
                                     \/ \E role \in {"fr", "fi"} : StartStandalone(u, t, role)
    \/ \E r \in RunIds, t \in Tasks, role \in Roles, mode \in UserModes \cup {"manual"} :
          UserSubmit(r, role, t, mode)
    \/ \E r \in RunIds : UserCancel(r)
    \/ \E x \in Tasks \cup Proposals : UserUnpause(x)

-----------------------------------------------------------------------------
\* The process is killed and started again: rows stay, coroutines do not.
\* Nothing at startup looks at rows that still say "running".
Crash ==
    /\ CanCrash
    /\ run' = [r \in RunIds |-> IF RowRunning(r)
                 THEN [run[r] EXCEPT !.pc = "lost", !.cancel = FALSE,
                                     !.outcome = "none"]
                 ELSE NoRun]
    /\ fiLock' = NoRunId
    /\ fiWaiters' = <<>>
    /\ driver' = AtPhase("promote")
    /\ user' = [u \in Users |-> Idle]
    /\ UNCHANGED <<status, paused, planRun>>

Init ==
    /\ status = [t \in Tasks |-> "idea"]
    /\ paused = {}
    /\ planRun = {}
    /\ run = [r \in RunIds |-> NoRun]
    /\ fiLock = NoRunId
    /\ fiWaiters = <<>>
    /\ driver = AtPhase("promote")
    /\ user = [u \in Users |-> Idle]

Next ==
    \/ \E r \in RunIds : RunStep(r)
    \/ DriverStep
    \/ \E u \in Users : RequestStep(u) \/ SubmitStep(u)
    \/ PeopleStep
    \/ Crash

Spec == Init /\ [][Next]_vars

\* The event loop runs every coroutine that is ready, and agents end; what
\* people start is up to them.
FairSpec ==
    /\ Spec
    /\ \A r \in RunIds : WF_vars(RunStep(r))
    /\ WF_vars(DriverStep)
    /\ \A u \in Users : WF_vars(RequestStep(u)) /\ WF_vars(SubmitStep(u))

\* The same, and people look at what is in review: they accept.
AttendedSpec ==
    FairSpec /\ \A t \in Tasks :
        WF_vars(\E u \in Users : StartReview(u, t, "accept"))

=============================================================================
